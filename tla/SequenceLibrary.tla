---------------------------- MODULE SequenceLibrary ----------------------------
(***************************************************************************)
(* IANAR's library of sequences (ianar/seqv2.go).  It is edited, saved and *)
(* restored as local-representative's is; a build that is started adds no  *)
(* examples to the ones it loads, but takes out those it no longer ships,  *)
(* before it checks what it has loaded: one of them has an op this build   *)
(* has no more.                                                            *)
(***************************************************************************)
EXTENDS Libraries, Naturals, Services, FiniteSets

CONSTANTS MaxRobotEdits, MaxRobotLaunches

ASSUME SequenceLibraryAssumption == MaxRobotEdits \in Nat /\ MaxRobotLaunches \in Nat

VARIABLES robotLib,   \* actions and sequences in memory
          robotRec,   \* what is recorded of the examples, in memory
          robotFile,  \* the file: whether it is there, and what it holds
          robotBuild, \* the build that runs
          resets,     \* restoreExamples has recorded them, and not merged yet
          mine,       \* id -> what somebody saved or imported last under it
          deleted,    \* examples somebody deleted
          loading,    \* of the last load: whether the examples fitted in, which
                      \* retired actions were in use; and whether the record is
                      \* ahead of the copies
          robotCount  \* changes asked for, and launches

seqLibVars == <<robotLib, robotRec, robotFile, robotBuild, resets, mine, deleted, loading, robotCount>>

\* What each build ships, and which ops it has: the second has retired b and r,
\* and the op that b and somebody's copy of it use.
Examples(b) ==
    IF b = 1 THEN [acts |-> [a |-> "old", b |-> "window"],
                   seqs |-> [q |-> Step("a", {"p"}), r |-> Step("b", {})]]
    ELSE [acts |-> [a |-> "new"], seqs |-> [q |-> Step("a", {})]]
seqOps(b) == IF b = 1 THEN {"old", "mine", "window", "ownwindow"} ELSE {"old", "mine", "new"}
retiredExamples(b) == IF b = 1 THEN {} ELSE {"b", "r"}

encodeSeqLib(l, rec) == [there |-> TRUE, lib |-> l, rec |-> rec]

SequenceLibraryTypeOK ==
    /\ IsLibrary(robotLib) /\ IsLibrary(robotFile.lib) /\ robotFile.there \in BOOLEAN
    /\ DOMAIN robotRec \subseteq ActIds \cup SeqIds
    /\ robotBuild \in {1, 2} /\ resets \in BOOLEAN
    /\ DOMAIN mine \subseteq ActIds \cup SeqIds /\ deleted \subseteq ActIds \cup SeqIds
    /\ loading.fits \in BOOLEAN /\ loading.ahead \in BOOLEAN /\ loading.used \subseteq ActIds

AllFits == [fits |-> TRUE, ahead |-> FALSE, used |-> {}]
NoSeqFile(b) == [there |-> FALSE, lib |-> Examples(b), rec |-> Contents(Examples(b))]

SequenceLibraryInit ==
    /\ robotBuild = 1 /\ robotLib = Examples(1) /\ robotRec = Contents(Examples(1))
    /\ robotFile = NoSeqFile(1) /\ resets = FALSE
    /\ mine = << >> /\ deleted = {} /\ loading = AllFits
    /\ robotCount = [edits |-> 0, launches |-> 0]

-----------------------------------------------------------------------------
\* commit: checked, written to the file beside and renamed, and only then what
\* there is in memory.
Commits(l, own, away) ==
    /\ Moves("robotlib") /\ robotCount.edits < MaxRobotEdits
    /\ robotCount' = [robotCount EXCEPT !.edits = @ + 1]
    /\ \/ /\ checkLibrary(l, seqOps(robotBuild))
          /\ robotLib' = l /\ robotFile' = encodeSeqLib(l, robotRec)
          /\ mine' = own /\ deleted' = away \cap DOMAIN robotRec
       \/ UNCHANGED <<robotLib, robotFile, mine, deleted>>
    /\ UNCHANGED <<robotRec, robotBuild>>

SavesAction(a, text, prev) ==
    LET l == ActionSaved(robotLib, a, text, prev)
        touched == {q \in DOMAIN l.seqs : l.seqs[q] # robotLib.seqs[q]} IN
    /\ IdFree(robotLib.acts, a, prev) /\ text \in seqOps(robotBuild)
    /\ Commits(l, With(Onto(Restrict(l.seqs, touched), IF prev = a THEN mine ELSE Without(mine, prev)), a, text),
               (deleted \cup (IF prev \in DOMAIN robotLib.acts THEN {prev} ELSE {})) \ {a})
    /\ UNCHANGED <<resets, loading>>

DeletesAction(a) ==
    /\ a \in DOMAIN robotLib.acts /\ ~actionInUse(robotLib, a)
    /\ Commits([robotLib EXCEPT !.acts = Without(@, a)], Without(mine, a), deleted \cup {a})
    /\ UNCHANGED <<resets, loading>>

SavesSequence(q, step, prev) ==
    /\ IdFree(robotLib.seqs, q, prev)
    /\ Commits(SequenceSaved(robotLib, q, step, prev), With(Without(mine, prev), q, step),
               (deleted \cup (IF prev \in DOMAIN robotLib.seqs THEN {prev} ELSE {})) \ {q})
    /\ UNCHANGED <<resets, loading>>

DeletesSequence(q) ==
    /\ q \in DOMAIN robotLib.seqs
    /\ Commits([robotLib EXCEPT !.seqs = Without(@, q)], Without(mine, q), deleted \cup {q})
    /\ UNCHANGED <<resets, loading>>

\* What documents hold.
Documents == {[acts |-> [a |-> "mine"], seqs |-> [q |-> Step("a", {"p"})]],
              [acts |-> [b |-> "ownwindow"], seqs |-> [r |-> Step("b", {"p"})]]}

handleSeq2 == \* import
    /\ \E doc \in Documents :
         Commits(Merged(robotLib, doc), Onto(Contents(doc), mine), deleted \ DOMAIN Contents(doc))
    /\ UNCHANGED <<resets, loading>>

\* restoreExamples records them first.
RecordsExamples ==
    /\ Moves("robotlib") /\ ~resets /\ robotCount.edits < MaxRobotEdits
    /\ resets' = TRUE /\ robotRec' = Onto(Contents(Examples(robotBuild)), robotRec)
    /\ loading' = [loading EXCEPT !.ahead = TRUE]
    /\ UNCHANGED <<robotLib, robotFile, robotBuild, mine, deleted, robotCount>>

RestoresExamples ==
    LET shipped == Examples(robotBuild)
        ids == DOMAIN Contents(shipped) IN
    /\ resets /\ resets' = FALSE
    /\ Commits(Merged(robotLib, shipped), Restrict(mine, DOMAIN mine \ ids), deleted \ ids)
    /\ loading' = [loading EXCEPT !.ahead = robotLib' # Merged(robotLib, shipped)]

-----------------------------------------------------------------------------
\* The deviation: whatever has a retired example's name.
RetiredByName(f, rec, b) == DOMAIN f \cap retiredExamples(b)

\* retireExamples: copies nobody edited, the sequences first, and then the
\* actions no sequence uses any more.
Retiring(f, rec, b) == {k \in DOMAIN f \cap retiredExamples(b) : Unedited(f, k, rec)}

retireExamples(l, rec, b) ==
    LET seqs == Restrict(l.seqs, DOMAIN l.seqs \ Retiring(l.seqs, rec, b))
        left == [acts |-> l.acts, seqs |-> seqs]
        acts == {a \in Retiring(l.acts, rec, b) : ~actionInUse(left, a)} IN
    [left EXCEPT !.acts = Restrict(@, DOMAIN @ \ acts)]

\* openSeqLibrary, as a build of IANAR starts.  What it makes of the file is
\* taken though it cannot be saved; examples that do not fit the rest are left
\* as they are.
openSeqLibrary(b) ==
    LET s == Examples(b)
        doc == retireExamples(robotFile.lib, robotFile.rec, b)
        known == Restrict(robotFile.rec, DOMAIN robotFile.rec \ retiredExamples(b))
        up == [acts |-> Upgraded(doc.acts, known, s.acts), seqs |-> Upgraded(doc.seqs, known, s.seqs)]
        fits == checkLibrary(up, seqOps(b))
        l == IF fits THEN up ELSE doc
        rec == IF fits \/ up = doc THEN RecordOf(Contents(up), known, Contents(s)) ELSE known IN
    /\ Moves("robotlib") /\ robotCount.launches < MaxRobotLaunches
    /\ robotCount' = [robotCount EXCEPT !.launches = @ + 1]
    /\ robotBuild' = b /\ resets' = FALSE
    /\ IF ~robotFile.there \/ ~checkLibrary(doc, seqOps(b))
       THEN /\ robotLib' = s /\ robotRec' = Contents(s) /\ robotFile' = NoSeqFile(b)
            /\ mine' = << >> /\ deleted' = {} /\ loading' = AllFits
       ELSE /\ robotLib' = l /\ robotRec' = rec
            /\ robotFile' \in {encodeSeqLib(l, rec), robotFile}
            /\ mine' = Restrict(mine, {k \in DOMAIN mine : ~Unedited(mine, k, robotFile.rec)
                                                         /\ ~Unedited(mine, k, Contents(s))})
            /\ loading' = [fits |-> fits, ahead |-> loading.ahead,
                           used |-> {a \in DOMAIN l.acts : actionInUse(l, a)}]
            /\ UNCHANGED deleted

SequenceLibraryNext ==
    \/ \E a, p \in ActIds, text \in {"mine", "ownwindow"} : SavesAction(a, text, p)
    \/ \E a \in ActIds : DeletesAction(a)
    \/ \E q, p \in SeqIds, a \in ActIds : SavesSequence(q, Step(a, {"p"}), p)
    \/ \E q \in SeqIds : DeletesSequence(q)
    \/ handleSeq2 \/ RecordsExamples \/ RestoresExamples
    \/ \E b \in {1, 2} : openSeqLibrary(b)

-----------------------------------------------------------------------------
\* As the control library's.  And what a build has retired is gone unless it
\* was somebody's own, or an action in use when the library was loaded.
RobotLibraryKept ==
    LET here == Contents(robotLib)
        shipped == Contents(Examples(robotBuild)) IN
    /\ \A k \in DOMAIN mine : k \in DOMAIN here /\ here[k] = mine[k]
    /\ deleted \cap DOMAIN here = {}
    /\ checkLibrary(robotLib, seqOps(robotBuild))
    /\ loading.fits /\ ~loading.ahead =>
         \A k \in (DOMAIN here \cap DOMAIN shipped) \ DOMAIN mine : here[k] = shipped[k]
    /\ ~loading.ahead =>
         retiredExamples(robotBuild) \cap DOMAIN here \subseteq DOMAIN mine \cup loading.used
    /\ \A ids \in SUBSET DOMAIN robotLib.seqs :
         checkLibrary(Exported(robotLib, ids), seqOps(robotBuild))

-----------------------------------------------------------------------------
(***************************************************************************)
(* IANAR's library as its tabs are sent it: after each change, by whoever  *)
(* made it, and when a tab connects.  What is sent is taken first and sent *)
(* afterwards, outside the library's lock.                                 *)
(***************************************************************************)
CONSTANTS LibEditors, MaxChanges

ASSUME LibraryTabsAssumption == IsFiniteSet(LibEditors) /\ MaxChanges \in Nat

VARIABLES changes, \* the library, as the number of its changes
          editing, \* who changes it: how far, and the snapshot to be sent
          libTab,  \* a tab: what it shows, and what it is to be sent
          raced    \* two changes at once, or one and the tab's opening

libTabVars == <<changes, editing, libTab, raced>>

Unopened == [at |-> "closed", shows |-> 0, snap |-> 0]

LibraryTabsTypeOK ==
    /\ changes \in 0 .. MaxChanges /\ raced \in BOOLEAN
    /\ \A e \in LibEditors : editing[e].at \in {"idle", "committed", "taken"} /\ editing[e].snap <= changes
    /\ libTab.at \in {"closed", "opening", "open", "full"} /\ libTab.shows <= changes

LibraryTabsInit ==
    /\ changes = 0 /\ editing = [e \in LibEditors |-> [at |-> "idle", snap |-> 0]]
    /\ libTab = Unopened /\ raced = FALSE

Changing == \E e \in LibEditors : editing[e].at # "idle"

\* A change that succeeds; one that fails is not told.
Changes(e) ==
    /\ Moves("libtabs") /\ changes < MaxChanges /\ editing[e].at = "idle"
    /\ changes' = changes + 1 /\ editing' = [editing EXCEPT ![e].at = "committed"]
    /\ raced' = (raced \/ Changing \/ libTab.at = "opening")
    /\ UNCHANGED libTab

\* The deviation: what there was before the change.
TakenBefore(e) == changes - 1

snapshot(e) == changes

Takes(e) ==
    /\ editing[e].at = "committed" /\ editing' = [editing EXCEPT ![e] = [at |-> "taken", snap |-> snapshot(e)]]
    /\ UNCHANGED <<changes, libTab, raced>>

\* A tab whose queue is full is not sent it.
broadcastLibrary(e) ==
    /\ editing[e].at = "taken" /\ editing' = [editing EXCEPT ![e].at = "idle"]
    /\ libTab' = IF libTab.at \in {"opening", "open"} THEN [libTab EXCEPT !.shows = editing[e].snap] ELSE libTab
    /\ UNCHANGED <<changes, raced>>

handleWS ==
    /\ Moves("libtabs") /\ libTab.at = "closed"
    /\ libTab' = [at |-> "opening", shows |-> 0, snap |-> changes]
    /\ raced' = (raced \/ Changing)
    /\ UNCHANGED <<changes, editing>>

\* By a goroutine of its own.
sendToClient ==
    /\ libTab.at = "opening" /\ libTab' = [libTab EXCEPT !.at = "open", !.shows = libTab.snap]
    /\ UNCHANGED <<changes, editing, raced>>

Fills == libTab.at = "open" /\ libTab' = [libTab EXCEPT !.at = "full"] /\ UNCHANGED <<changes, editing, raced>>
LibTabCloses == libTab.at # "closed" /\ libTab' = Unopened /\ UNCHANGED <<changes, editing, raced>>

LibraryTabsNext ==
    \/ \E e \in LibEditors : Changes(e) \/ Takes(e) \/ broadcastLibrary(e)
    \/ handleWS \/ sendToClient \/ Fills \/ LibTabCloses

\* A tab ends with the library as it is, unless two changes of it met, or one
\* met the tab's opening, or its queue was full.
TabsUpToDate == libTab.at = "open" /\ ~Changing /\ ~raced => libTab.shows = changes
=============================================================================
