---------------------------- MODULE FileExchange ----------------------------
(***************************************************************************)
(* local-representative's files tab (files.go): uploads land in the        *)
(* host-cache, from where a sweep removes them when their time is over;    *)
(* hold gives them longer, persist moves them to the host-store.  A hidden *)
(* note beside a file says that it is held or highlighted, another hidden  *)
(* file holds the drawing on it that is not committed.  Every request is   *)
(* handled in a goroutine of its own, nothing is locked, and a step is a   *)
(* call on the file system.                                                *)
(***************************************************************************)
EXTENDS Naturals, Sequences, SequencesExt, Services

CONSTANTS First, Second,  \* a file there is, and one that may come
          CacheTTL, HoldTTL,
          MaxTime,
          MaxAsked,  \* requests
          MaxSwept,  \* sweeps
          MaxUnwritten  \* calls on the file system that fail

ASSUME FileExchangeAssumption ==
    /\ First # Second
    /\ {CacheTTL, HoldTTL, MaxTime, MaxAsked, MaxSwept, MaxUnwritten} \subseteq Nat

VARIABLES data,     \* directory -> id -> the file: when it was written, and what it is
          notes,    \* directory -> id -> its manifest
          marks,    \* directory -> id -> its markup sidecar
          hand,     \* goroutine -> what it has still to do, and what it has read
          today,    \* the time
          promised, \* id -> what the last request was told of it
          crossed,  \* history: ids on which two goroutines wrote over each other
          unnoted,  \* history: ids whose manifest could not be written or moved
          fileCount     \* requests, sweeps and failures so far

fileVars == <<data, notes, marks, hand, today, promised, crossed, unnoted, fileCount>>

Ids == {First, Second}
Dirs == {"cache", "store"}
Handlers == {"one", "two"}
FileHands == Handlers \cup {"sweep"}
Missing == [kind |-> "missing", at |-> 0]
NoNote == [kind |-> "none", held |-> FALSE, until |-> 0, hi |-> FALSE]
Torn == [NoNote EXCEPT !.kind = "torn"]
Note(held, until, hi) == [kind |-> "whole", held |-> held, until |-> until, hi |-> hi]
NoCall == [todo |-> << >>, id |-> First, dir |-> "cache", note |-> NoNote, read |-> "none",
           lost |-> FALSE]

FileExchangeTypeOK ==
    /\ data \in [Dirs -> [Ids -> [kind : {"missing", "part", "upload", "drawn", "cut"},
                                  at : 0 .. MaxTime]]]
    /\ \A d \in Dirs, i \in Ids : /\ notes[d][i].kind \in {"none", "torn", "whole"}
                                  /\ marks[d][i] \in {"none", "part", "drawn"}
    /\ \A h \in FileHands : hand[h].id \in Ids /\ hand[h].dir \in Dirs
    /\ today \in 0 .. MaxTime
    /\ \A i \in Ids : promised[i].what \in {"nothing", "kept", "persisted", "deleted"}
    /\ crossed \subseteq Ids /\ unnoted \subseteq Ids

\* A file was uploaded a moment ago.
FileExchangeInit ==
    /\ data = [d \in Dirs |-> [i \in Ids |-> IF d = "cache" /\ i = First
                                             THEN [kind |-> "upload", at |-> 0] ELSE Missing]]
    /\ notes = [d \in Dirs |-> [i \in Ids |-> IF d = "cache" /\ i = First
                                              THEN Note(FALSE, CacheTTL, FALSE) ELSE NoNote]]
    /\ marks = [d \in Dirs |-> [i \in Ids |-> "none"]]
    /\ hand = [h \in FileHands |-> NoCall]
    /\ today = 0 /\ crossed = {} /\ unnoted = {}
    /\ promised = [i \in Ids |-> IF i = First THEN [what |-> "kept", until |-> CacheTTL, hi |-> FALSE]
                                 ELSE [what |-> "nothing", until |-> 0, hi |-> FALSE]]
    /\ fileCount = [asked |-> 0, swept |-> 0, failed |-> 0]

HasFile(d, i) == data[d][i] # Missing
Used(i) == promised[i].what # "nothing" \/ \E h \in FileHands : hand[h].id = i /\ hand[h].todo # << >>

-----------------------------------------------------------------------------
\* What each request does, call by call.
Calls ==
    [hold      |-> <<"look", "torn", "held">>,
     highlight |-> <<"locate", "note", "torn", "highlighted">>,
     persist   |-> <<"look", "move", "move note", "move mark">>,
     delete    |-> <<"locate", "remove", "remove note", "gone">>,
     save      |-> <<"locate", "open mark", "draw">>,
     cancel    |-> <<"locate", "remove mark">>,
     commit    |-> <<"locate", "mark", "open", "write", "remove mark">>,
     copy      |-> <<"locate", "mark", "create", "torn new", "new", "remove mark">>,
     upload    |-> <<"create", "fill", "torn new", "new">>]

handleFileItem(h, op, i) ==
    /\ Moves("files") /\ hand[h].todo = << >>
    /\ fileCount.asked < MaxAsked /\ fileCount' = [fileCount EXCEPT !.asked = @ + 1]
    /\ (op = "upload") = (i = Second /\ ~Used(Second))
    /\ op = "copy" => i = First /\ ~Used(Second)
    /\ hand' = [hand EXCEPT ![h] = [NoCall EXCEPT !.todo = Calls[op], !.id = i]]
    /\ UNCHANGED <<data, notes, marks, today, promised, crossed, unnoted>>

On(h, call) == hand[h].todo # << >> /\ Head(hand[h].todo) = call
Then(h, r) == hand' = [hand EXCEPT ![h] = [r EXCEPT !.todo = Tail(@)]]
NextCall(h) == Then(h, hand[h])
Finishes(h) == hand' = [hand EXCEPT ![h] = NoCall]
FilesKeep == UNCHANGED <<data, notes, marks>>
ElseKeeps == UNCHANGED <<today, unnoted, fileCount>>
NoteUnwritten ==
    fileCount.failed < MaxUnwritten /\ fileCount' = [fileCount EXCEPT !.failed = @ + 1]

\* readManifest: a note that is being written says nothing.
readManifest(d, i) == notes[d][i]

\* hold and persist look in the host-cache.
Looks(h) ==
    /\ On(h, "look")
    /\ IF HasFile("cache", hand[h].id)
       THEN Then(h, [hand[h] EXCEPT !.note = readManifest("cache", hand[h].id)])
       ELSE Finishes(h)
    /\ FilesKeep /\ ElseKeeps /\ UNCHANGED <<promised, crossed>>

locateFile(h) ==
    /\ On(h, "locate")
    /\ IF HasFile("cache", hand[h].id) THEN Then(h, [hand[h] EXCEPT !.dir = "cache"])
       ELSE IF HasFile("store", hand[h].id) THEN Then(h, [hand[h] EXCEPT !.dir = "store"])
       ELSE Finishes(h)
    /\ FilesKeep /\ ElseKeeps /\ UNCHANGED <<promised, crossed>>

ReadsNote(h) ==
    /\ On(h, "note")
    /\ Then(h, [hand[h] EXCEPT !.note = readManifest(hand[h].dir, hand[h].id)])
    /\ FilesKeep /\ ElseKeeps /\ UNCHANGED <<promised, crossed>>

ReadsMark(h) ==
    /\ On(h, "mark")
    /\ LET read == marks[hand[h].dir][hand[h].id] IN
       IF read = "none" THEN Finishes(h) ELSE Then(h, [hand[h] EXCEPT !.read = read])
    /\ FilesKeep /\ ElseKeeps /\ UNCHANGED <<promised, crossed>>

-----------------------------------------------------------------------------
\* writeManifest truncates and writes, and where it cannot, logs it and goes on:
\* the request is answered as one that is done.
WritesNote(h, d, i, note) ==
    /\ \/ /\ ~hand[h].lost /\ notes' = [notes EXCEPT ![d][i] = note]
          /\ NextCall(h) /\ UNCHANGED <<unnoted, fileCount>>
       \/ /\ IF hand[h].lost THEN UNCHANGED fileCount ELSE NoteUnwritten
          /\ unnoted' = unnoted \cup {i} /\ UNCHANGED notes
          /\ Then(h, [hand[h] EXCEPT !.lost = TRUE])
    /\ UNCHANGED <<data, marks, today>>

\* What was read for it may no longer be so, or be where it was.
Stale(h) == \/ notes[hand[h].dir][hand[h].id] # hand[h].note
            \/ hand[h].note.kind # "whole"
            \/ ~HasFile(hand[h].dir, hand[h].id)

Truncates(h) ==
    /\ On(h, "torn")
    /\ WritesNote(h, hand[h].dir, hand[h].id, Torn)
    /\ crossed' = IF Stale(h) THEN crossed \cup {hand[h].id} ELSE crossed
    /\ UNCHANGED promised

\* highlight keeps a hold.
Highlighted(h) ==
    IF hand[h].dir = "store" THEN Note(FALSE, 0, ~hand[h].note.hi)
    ELSE IF hand[h].note.held THEN Note(TRUE, hand[h].note.until, ~hand[h].note.hi)
    ELSE Note(FALSE, data["cache"][hand[h].id].at + CacheTTL, ~hand[h].note.hi)

writeManifest(h) ==
    /\ On(h, "held") \/ On(h, "highlighted")
    /\ LET note == IF On(h, "held") THEN Note(TRUE, today + HoldTTL, hand[h].note.hi)
                   ELSE Highlighted(h)
           mine == /\ hand[h].lost \/ notes[hand[h].dir][hand[h].id] = Torn
                   /\ HasFile(hand[h].dir, hand[h].id) IN
       /\ WritesNote(h, hand[h].dir, hand[h].id, note)
       /\ promised' = IF On(h, "held")
                       THEN [promised EXCEPT ![hand[h].id] =
                                 [what |-> "kept", until |-> note.until, hi |-> note.hi]]
                       ELSE [promised EXCEPT ![hand[h].id].hi = note.hi]
       /\ crossed' = IF mine THEN crossed ELSE crossed \cup {hand[h].id}

-----------------------------------------------------------------------------
\* moveFile: what there is in the host-cache takes its place in the host-store,
\* or stays where it is; the request minds only if it is the file itself.
Moved(f, none, i) ==
    IF f["cache"][i] = none THEN f
    ELSE [f EXCEPT !["store"][i] = f["cache"][i], !["cache"][i] = none]

handleFilePersist(h) ==
    LET i == hand[h].id IN
    \/ /\ On(h, "move")
       /\ data' = Moved(data, Missing, i)
       /\ IF HasFile("cache", i) THEN NextCall(h) ELSE Finishes(h)
       /\ ElseKeeps /\ UNCHANGED <<notes, marks, promised, crossed>>
    \/ /\ On(h, "move") /\ NoteUnwritten /\ Finishes(h)
       /\ FilesKeep /\ UNCHANGED <<today, unnoted, promised, crossed>>
    \/ /\ On(h, "move note") /\ notes["cache"][i] # NoNote
       /\ NoteUnwritten /\ unnoted' = unnoted \cup {i} /\ NextCall(h)
       /\ FilesKeep /\ UNCHANGED <<today, promised, crossed>>
    \/ /\ On(h, "move note")
       /\ notes' = Moved(notes, NoNote, i) /\ NextCall(h)
       /\ crossed' = IF notes["cache"][i].kind # "whole" THEN crossed \cup {i} ELSE crossed
       /\ ElseKeeps /\ UNCHANGED <<data, marks, promised>>
    \/ /\ On(h, "move mark")
       /\ \/ marks' = Moved(marks, "none", i) /\ UNCHANGED fileCount
          \/ marks["cache"][i] # "none" /\ NoteUnwritten /\ UNCHANGED marks
       /\ NextCall(h)
       /\ promised' = [promised EXCEPT ![i].what = IF @ = "deleted" THEN @ ELSE "persisted"]
       /\ UNCHANGED <<data, notes, today, unnoted, crossed>>

handleFileDelete(h) ==
    LET i == hand[h].id
        d == hand[h].dir IN
    \/ /\ On(h, "remove")
       /\ data' = [data EXCEPT ![d][i] = Missing]
       /\ IF HasFile(d, i) THEN NextCall(h) ELSE Finishes(h)
       /\ ElseKeeps /\ UNCHANGED <<notes, marks, promised, crossed>>
    \/ /\ On(h, "remove note")
       /\ notes' = [notes EXCEPT ![d][i] = NoNote] /\ NextCall(h)
       /\ ElseKeeps /\ UNCHANGED <<data, marks, promised, crossed>>
    \/ /\ On(h, "gone")
       /\ marks' = [marks EXCEPT ![d][i] = "none"] /\ NextCall(h)
       /\ promised' = [promised EXCEPT ![i].what = "deleted"]
       /\ ElseKeeps /\ UNCHANGED <<data, notes, crossed>>

\* The end of a markup session, cancelled, committed or copied.
RemovesMark(h) ==
    /\ On(h, "remove mark")
    /\ marks' = [marks EXCEPT ![hand[h].dir][hand[h].id] = "none"]
    /\ NextCall(h)
    /\ ElseKeeps /\ UNCHANGED <<data, notes, promised, crossed>>

\* handleMarkupSave: the drawing is truncated and written.
handleMarkupSave(h) ==
    /\ \E s \in {<<"open mark", "part">>, <<"draw", "drawn">>} :
         On(h, s[1]) /\ marks' = [marks EXCEPT ![hand[h].dir][hand[h].id] = s[2]]
    /\ NextCall(h)
    /\ ElseKeeps /\ UNCHANGED <<data, notes, promised, crossed>>

Drawing(h) == IF hand[h].read = "drawn" THEN "drawn" ELSE "cut"

\* handleMarkupCommit: over the file itself, wherever it was; that one is then
\* new.
handleMarkupCommit(h) ==
    LET i == hand[h].id
        d == hand[h].dir
        kind == Drawing(h) IN
    /\ \/ On(h, "open") /\ data' = [data EXCEPT ![d][i] = [kind |-> "part", at |-> today]]
       \/ On(h, "write") /\ data' = [data EXCEPT ![d][i] = [kind |-> kind, at |-> today]]
    /\ crossed' = IF ~HasFile(d, i) \/ kind = "cut" THEN crossed \cup {i} ELSE crossed
    /\ NextCall(h)
    /\ ElseKeeps /\ UNCHANGED <<notes, marks, promised>>

\* saveFileFrom: a new file, filled as its bytes come, and its note.
saveFileFrom(h) ==
    \/ /\ On(h, "create")
       /\ data' = [data EXCEPT !["cache"][Second] =
              [kind |-> IF hand[h].read = "none" THEN "part" ELSE Drawing(h), at |-> today]]
       /\ crossed' = IF hand[h].read = "part" THEN crossed \cup {Second} ELSE crossed
       /\ NextCall(h) /\ ElseKeeps /\ UNCHANGED <<notes, marks, promised>>
    \/ /\ On(h, "fill")
       /\ data' = [d \in Dirs |-> IF data[d][Second].kind = "part"
                                  THEN [data[d] EXCEPT ![Second] = [kind |-> "upload", at |-> today]]
                                  ELSE data[d]]
       /\ crossed' = IF HasFile("cache", Second) THEN crossed ELSE crossed \cup {Second}
       /\ NextCall(h) /\ ElseKeeps /\ UNCHANGED <<notes, marks, promised>>

\* importHostFile, importHostFolder: what cannot be read, or is too large a
\* folder, is taken away again.
importHostFiles(h) ==
    /\ On(h, "fill")
    /\ data' = [data EXCEPT !["cache"][Second] = Missing] /\ Finishes(h)
    /\ crossed' = IF HasFile("cache", Second) THEN crossed ELSE crossed \cup {Second}
    /\ ElseKeeps /\ UNCHANGED <<notes, marks, promised>>

\* Its note, of an upload as of a copy with a drawing on it.
handleMarkupCopy(h) ==
    /\ \E s \in {<<"torn new", Torn>>, <<"new", Note(FALSE, today + CacheTTL, FALSE)>>} :
         On(h, s[1]) /\ WritesNote(h, "cache", Second, s[2])
    /\ promised' = IF On(h, "new")
           THEN [promised EXCEPT ![Second] =
                    [what |-> "kept", until |-> data["cache"][Second].at + CacheTTL, hi |-> FALSE]]
           ELSE promised
    /\ crossed' = IF HasFile("cache", Second) THEN crossed ELSE crossed \cup {Second}

-----------------------------------------------------------------------------
\* sweepExpiredFiles: the directory is read, and each entry of it looked at; a
\* note or drawing is an orphan if its file was not in it.
Orphans == {i \in Ids : ~HasFile("cache", i) /\ (notes["cache"][i] # NoNote \/ marks["cache"][i] # "none")}

sweepExpiredFiles ==
    /\ Moves("files") /\ hand["sweep"].todo = << >>
    /\ fileCount.swept < MaxSwept /\ fileCount' = [fileCount EXCEPT !.swept = @ + 1]
    /\ hand' = [hand EXCEPT !["sweep"] =
           [NoCall EXCEPT !.todo = SetToSeq({<<"orphan", i>> : i \in Orphans})
                                    \o SetToSeq({<<"expired", i>> : i \in {j \in Ids : HasFile("cache", j)}})]]
    /\ FilesKeep /\ UNCHANGED <<today, promised, crossed, unnoted>>

Sweeps(what) == hand["sweep"].todo # << >> /\ Head(hand["sweep"].todo)[1] = what
SweptId == Head(hand["sweep"].todo)[2]

RemovesOrphan ==
    /\ Sweeps("orphan")
    /\ notes' = [notes EXCEPT !["cache"][SweptId] = NoNote]
    /\ marks' = [marks EXCEPT !["cache"][SweptId] = "none"]
    /\ crossed' = IF \E d \in Dirs : HasFile(d, SweptId) THEN crossed \cup {SweptId} ELSE crossed
    /\ NextCall("sweep")
    /\ ElseKeeps /\ UNCHANGED <<data, promised>>

ExpiresAt(i) ==
    LET m == readManifest("cache", i) IN
    IF m.kind = "whole" /\ m.held THEN m.until ELSE data["cache"][i].at + CacheTTL

FindsExpired ==
    /\ Sweeps("expired")
    /\ LET i == SweptId IN
       hand' = [hand EXCEPT !["sweep"] =
           IF HasFile("cache", i) /\ today > ExpiresAt(i)
           THEN [@ EXCEPT !.todo = <<<<"remove", i>>>> \o Tail(@), !.note = notes["cache"][i]]
           ELSE [@ EXCEPT !.todo = Tail(@)]]
    /\ FilesKeep /\ ElseKeeps /\ UNCHANGED <<promised, crossed>>

\* If it is there still; its note and drawing go with it.
RemovesExpired ==
    /\ Sweeps("remove")
    /\ LET i == SweptId
           there == HasFile("cache", i)
           changed == notes["cache"][i] # hand["sweep"].note \/ hand["sweep"].note.kind # "whole"
                      \/ data["cache"][i].at + CacheTTL >= today IN
       /\ data' = [data EXCEPT !["cache"][i] = Missing]
       /\ hand' = [hand EXCEPT !["sweep"].todo =
              IF there THEN <<<<"tidy", i>>>> \o Tail(@) ELSE Tail(@)]
       /\ crossed' = IF there /\ changed THEN crossed \cup {i} ELSE crossed
    /\ ElseKeeps /\ UNCHANGED <<notes, marks, promised>>

TidiesExpired ==
    /\ Sweeps("tidy")
    /\ notes' = [notes EXCEPT !["cache"][SweptId] = NoNote]
    /\ marks' = [marks EXCEPT !["cache"][SweptId] = "none"]
    /\ NextCall("sweep")
    /\ ElseKeeps /\ UNCHANGED <<data, promised, crossed>>

TimePasses ==
    /\ Moves("files") /\ today < MaxTime /\ today' = today + 1
    /\ UNCHANGED <<data, notes, marks, hand, promised, crossed, unnoted, fileCount>>

FileExchangeNext ==
    \/ \E h \in Handlers :
         \/ \E op \in DOMAIN Calls, i \in Ids : handleFileItem(h, op, i)
         \/ Looks(h) \/ locateFile(h) \/ ReadsNote(h) \/ ReadsMark(h)
         \/ Truncates(h) \/ writeManifest(h)
         \/ handleFilePersist(h) \/ handleFileDelete(h) \/ RemovesMark(h)
         \/ handleMarkupSave(h) \/ handleMarkupCommit(h)
         \/ saveFileFrom(h) \/ importHostFiles(h) \/ handleMarkupCopy(h)
    \/ sweepExpiredFiles \/ RemovesOrphan \/ FindsExpired \/ RemovesExpired \/ TidiesExpired
    \/ TimePasses

-----------------------------------------------------------------------------
\* scanCacheDir, scanStoreDir: what the files tab shows.
listFiles(i) ==
    (IF HasFile("cache", i)
     THEN {IF notes["cache"][i].held THEN "held" ELSE "cached"} ELSE {})
    \cup (IF HasFile("store", i) THEN {"persisted"} ELSE {})

FileBusy(i) == \E h \in FileHands : hand[h].todo # << >> /\ (h = "sweep" \/ hand[h].id = i \/ i = Second)

\* A file is kept for as long as was last said, in one place, and for good
\* once persisted; a deleted one does not come back, and a highlight stays: in
\* any order of requests and sweeps, except where one writes over what another
\* has changed since it looked.  Where its manifest could not be written, which
\* no request says, a hold and a highlight are lost, and nothing else.
FilesKept ==
    \A i \in Ids \ crossed :
        LET p == promised[i] IN
        /\ HasFile("cache", i) => ~HasFile("store", i)
        /\ p.what = "persisted" => HasFile("store", i) \/ FileBusy(i)
        /\ p.what = "kept" /\ today <= (IF i \in unnoted THEN CacheTTL ELSE p.until) =>
             listFiles(i) # {} \/ FileBusy(i)
        /\ p.what = "deleted" => listFiles(i) = {}
        /\ p.what \in {"kept", "persisted"} /\ ~FileBusy(i) =>
             \A d \in Dirs : HasFile(d, i) => /\ i \notin unnoted => notes[d][i].hi = p.hi
                                          /\ data[d][i].kind \in {"upload", "drawn"}
=============================================================================
