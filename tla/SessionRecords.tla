--------------------------- MODULE SessionRecords ---------------------------
(***************************************************************************)
(* The records of one session on one host (clauditable): every command it  *)
(* wraps, and every note, is a process of its own that leaves files named  *)
(* after the second it started in.  Of the commands that run at one time   *)
(* the oldest is the primary, which folds the records the others leave in  *)
(* "-s-" files into the session log when it ends.                          *)
(***************************************************************************)
EXTENDS Naturals, FiniteSets, Services

CONSTANTS MaxProcs,    \* commands and notes
          MaxSeconds,
          MaxUpsets   \* failed writes and killed processes

ASSUME SessionRecordsAssumption ==
    MaxProcs \in Nat /\ MaxSeconds \in Nat /\ MaxUpsets \in Nat

VARIABLES second,  \* the clock
          file,    \* suffix -> second -> whose file of that name there is
          proc,    \* the processes
          logged,  \* how often a record is in the log
          excused, \* history: what came in between for a record
          upsets

recordVars == <<second, file, proc, logged, excused, upsets>>

Procs == 1 .. MaxProcs
Seconds == 1 .. MaxSeconds
NameEnds == {"writing", "raw", "processed", "s-writing", "s-raw", "s-processed"}
Folded == {"s-raw", "s-processed"}   \* what a primary looks for
Nobody == 0

SessionRecordsTypeOK ==
    /\ second \in Seconds
    /\ file \in [NameEnds -> [Seconds -> {Nobody} \cup Procs]]
    /\ proc \in [Procs -> [at : {"none", "started", "running", "raw", "processing", "ended",
                                 "listed", "gathered", "appended", "over", "dead"},
                           ts : {0} \cup Seconds, primary : BOOLEAN, note : BOOLEAN,
                           listed : SUBSET (Folded \X Seconds), fold : SUBSET (Seconds \X Procs),
                           rename : SUBSET (Folded \X Seconds)]]
    /\ logged \in [Procs -> Nat]
    /\ excused \in [Procs -> SUBSET {"shared", "failed", "overlapped", "early"}]
    /\ upsets \in 0 .. MaxUpsets

NoProc == [at |-> "none", ts |-> 0, primary |-> FALSE, note |-> FALSE,
           listed |-> {}, fold |-> {}, rename |-> {}]

SessionRecordsInit ==
    /\ second = 1
    /\ file = [s \in NameEnds |-> [t \in Seconds |-> Nobody]]
    /\ proc = [i \in Procs |-> NoProc]
    /\ logged = [i \in Procs |-> 0]
    /\ excused = [i \in Procs |-> {}]
    /\ upsets = 0

Ticks ==
    /\ Moves("records") /\ second < MaxSeconds /\ second' = second + 1
    /\ UNCHANGED <<file, proc, logged, excused, upsets>>

Upset == upsets < MaxUpsets /\ upsets' = upsets + 1
Calm == UNCHANGED upsets
At(i, where) == proc' = [proc EXCEPT ![i].at = where]
Ends(i, how) == proc' = [proc EXCEPT ![i] = [NoProc EXCEPT !.at = how, !.ts = proc[i].ts]]
Excuse(who, why) == [i \in Procs |-> IF i \in who THEN excused[i] \cup {why} ELSE excused[i]]
Secondary(s) ==
    CASE s = "raw" -> "s-raw" [] s = "processed" -> "s-processed" [] s = "writing" -> "s-writing"
SuffixOf(i, s) == IF proc[i].primary THEN s ELSE Secondary(s)
InUse(t) == \E s \in NameEnds : file[s][t] # Nobody

Follows(i) == Moves("records") /\ \A j \in 1 .. i : proc[j].at = "none" <=> j = i

-----------------------------------------------------------------------------
\* A command starts: the writing file, over that of one started in the second.
Invoked(i) ==
    /\ Follows(i)
    /\ proc' = [proc EXCEPT ![i].at = "started", ![i].ts = second, ![i].primary = TRUE]
    /\ file' = [file EXCEPT !["writing"][second] = i]
    /\ LET same == {j \in Procs : proc[j].ts = second}
       IN  excused' = IF same = {} THEN excused ELSE Excuse(same \cup {i}, "shared")
    /\ UNCHANGED <<second, logged, upsets>>

\* checkIsPrimary, 200 ms later, when whoever started before has a file.
checkIsPrimary(i) ==
    LET t == proc[i].ts
        primary == \A u \in 1 .. t - 1 : file["writing"][u] = Nobody IN
    /\ proc[i].at = "started"
    /\ proc' = [proc EXCEPT ![i].at = "running", ![i].primary = primary]
    /\ file' = IF primary \/ file["writing"][t] = Nobody THEN file
               ELSE [file EXCEPT !["writing"][t] = Nobody, !["s-writing"][t] = file["writing"][t]]
    /\ UNCHANGED <<second, logged, excused, upsets>>

\* The command has ended.  If its record cannot be written the writing file
\* stays, and nothing is consolidated.
writeWrittenFile(i) ==
    /\ proc[i].at = "running"
    /\ \/ /\ file' = [file EXCEPT ![SuffixOf(i, "raw")][proc[i].ts] = i]
          /\ At(i, "raw") /\ Calm /\ UNCHANGED excused
       \/ /\ Upset /\ Ends(i, "over")
          /\ excused' = Excuse({i}, "failed") /\ UNCHANGED file
    /\ UNCHANGED <<second, logged>>

\* The processed file, which a reader may find half written; without it the
\* record goes on from the raw file.
writeProcessedFile(i) ==
    /\ proc[i].at = "raw"
    /\ file' = [file EXCEPT ![SuffixOf(i, "processed")][proc[i].ts] = i]
    /\ At(i, "processing")
    /\ UNCHANGED <<second, logged, excused, upsets>>

\* It is written, or failed; the writing file goes.
RemovesWriting(i) ==
    /\ ~proc[i].note
    /\ (proc[i].at = "processing" /\ Calm) \/ (proc[i].at = "raw" /\ Upset)
    /\ file' = [file EXCEPT ![SuffixOf(i, "writing")][proc[i].ts] = Nobody]
    /\ IF proc[i].primary THEN At(i, "ended") ELSE Ends(i, "over")
    /\ UNCHANGED <<second, logged, excused>>

-----------------------------------------------------------------------------
\* consolidatePrimaryToJSONL: what "-s-" files there are;
Lists(i) ==
    /\ proc[i].at = "ended"
    /\ proc' = [proc EXCEPT ![i].at = "listed",
         ![i].listed = {f \in Folded \X Seconds : file[f[1]][f[2]] # Nobody}]
    /\ UNCHANGED <<second, file, logged, excused, upsets>>

\* their records, and its own, from the processed file, if it was there then
\* and still is, or else from the raw one, which then has a processed file
\* written under its final name;
Own(i, t) == t = proc[i].ts
Readable(i, s, t) ==
    IF Own(i, t) THEN file[s][t] # Nobody
    ELSE <<Secondary(s), t>> \in proc[i].listed /\ file[Secondary(s)][t] # Nobody
Read(i, s, t) == file[IF Own(i, t) THEN s ELSE Secondary(s)][t]

ByRaw(i) == {t \in Seconds : ~Readable(i, "processed", t) /\ Readable(i, "raw", t)}
Found(i) == {t \in Seconds : Readable(i, "processed", t)} \cup ByRaw(i)
RecordAt(i, t) == Read(i, IF t \in ByRaw(i) THEN "raw" ELSE "processed", t)

\* and which of the files listed get their final names.
Renames(i) ==
    {f \in proc[i].listed : /\ f[2] \in Found(i) /\ ~Own(i, f[2])
                            /\ f[1] = "s-processed" => f[2] \notin ByRaw(i)}

\* A mutant: only the raw file is given its final name.
RenamesRaw(i) == {f \in proc[i].listed : f[1] = "s-raw" /\ f[2] \in Found(i) /\ ~Own(i, f[2])}

Gathers(i) ==
    LET fold == {<<t, RecordAt(i, t)>> : t \in Found(i)}
        others == {j \in Procs \ {i} : proc[j].at \in {"gathered", "appended"}}
        twice == {f[2] : f \in {g \in fold : \E j \in others : g \in proc[j].fold}}
        early == {RecordAt(i, t) : t \in
                    {u \in ByRaw(i) : /\ ~Own(i, u)
                                      /\ \/ file["s-processed"][u] # Nobody
                                         \/ proc[RecordAt(i, u)].at = "raw"}} IN
    /\ proc[i].at = "listed"
    /\ file' = [file EXCEPT !["processed"] =
                  [t \in Seconds |-> IF t \in ByRaw(i) THEN RecordAt(i, t) ELSE @[t]]]
    /\ proc' = [proc EXCEPT ![i].at = "gathered", ![i].fold = fold, ![i].rename = Renames(i)]
    /\ excused' = [k \in Procs |-> excused[k]
                     \cup (IF k \in twice THEN {"overlapped"} ELSE {})
                     \cup (IF k \in early THEN {"early"} ELSE {})]
    /\ UNCHANGED <<second, logged, upsets>>

\* one append for all of them; only then do the files get their final names.
Appends(i) ==
    LET mine == {r[2] : r \in proc[i].fold} IN
    /\ proc[i].at = "gathered"
    /\ \/ /\ logged' = [k \in Procs |-> IF k \in mine THEN logged[k] + 1 ELSE logged[k]]
          /\ At(i, "appended") /\ Calm /\ UNCHANGED excused
       \/ /\ Upset /\ Ends(i, "over") /\ excused' = Excuse({i}, "failed") /\ UNCHANGED logged
    /\ UNCHANGED <<second, file>>

Final(s) == IF s = "s-raw" THEN "raw" ELSE "processed"

Promotes(i) ==
    LET there == {r \in proc[i].rename : file[r[1]][r[2]] # Nobody} IN
    /\ proc[i].at = "appended"
    /\ file' = [s \in NameEnds |-> [t \in Seconds |->
                  CASE <<s, t>> \in there -> Nobody
                    [] \E r \in there : Final(r[1]) = s /\ r[2] = t ->
                         file[CHOOSE f \in {"s-raw", "s-processed"} : Final(f) = s][t]
                    [] OTHER -> file[s][t]]]
    /\ Ends(i, "over")
    /\ UNCHANGED <<second, logged, excused, upsets>>

-----------------------------------------------------------------------------
\* add-note and add-resource: the latest past second that no file is named
\* after, claimed by its raw file; then the same files, and an append.
reserveRecordID(i) ==
    LET free == {t \in 1 .. second - 1 : ~InUse(t)} IN
    /\ Follows(i) /\ free # {}
    /\ LET t == CHOOSE u \in free : \A v \in free : v <= u
       IN  /\ file' = [file EXCEPT !["raw"][t] = i]
           /\ proc' = [proc EXCEPT ![i].at = "raw", ![i].ts = t, ![i].primary = TRUE, ![i].note = TRUE]
    /\ UNCHANGED <<second, logged, excused, upsets>>

writeAnnotation(i) ==
    /\ proc[i].note
    /\ \/ /\ proc[i].at = "processing"
          /\ logged' = [logged EXCEPT ![i] = @ + 1]
          /\ Calm /\ UNCHANGED excused
       \/ /\ proc[i].at \in {"raw", "processing"} /\ Upset
          /\ excused' = Excuse({i}, "failed") /\ UNCHANGED logged
    /\ Ends(i, "over")
    /\ UNCHANGED <<second, file>>

\* A process is killed, or its command cannot be started.
Killed(i) ==
    /\ Upset
    /\ proc[i].at \notin {"none", "over", "dead"}
    /\ Ends(i, "dead")
    /\ excused' = Excuse({i} \cup (IF proc[i].at = "appended" THEN {r[2] : r \in proc[i].fold} ELSE {}), "failed")
    /\ UNCHANGED <<second, file, logged>>

SessionRecordsNext ==
    \/ Ticks
    \/ \E i \in Procs :
         \/ Invoked(i) \/ checkIsPrimary(i) \/ writeWrittenFile(i)
         \/ writeProcessedFile(i) \/ RemovesWriting(i)
         \/ Lists(i) \/ Gathers(i) \/ Appends(i) \/ Promotes(i)
         \/ reserveRecordID(i) \/ writeAnnotation(i) \/ Killed(i)

-----------------------------------------------------------------------------
\* A record that was written is kept: its raw file is there until the end, and
\* it is in the log, or on its way there, or waits in "-s-" files for the next
\* primary; and it is in the log once, whatever else runs, fails or is killed.
\* Excepted are commands started in one second, which share their files; those
\* whose own process failed; and, for being in the log twice, a record that two
\* primaries folded at once, one whose "-s-processed" file came only after a
\* primary had listed the directory, and one whose primary was killed before the
\* files had their final names.
RecordsKept ==
    \A i \in Procs :
        LET p == proc[i] IN
        /\ excused[i] \cap {"shared", "failed"} = {} /\ p.at \in {"processing", "ended", "over"} =>
              /\ \E s \in {"raw", "s-raw"} : file[s][p.ts] = i
              /\ p.at = "over" => logged[i] > 0 \/ file["s-raw"][p.ts] = i
        /\ excused[i] = {} => logged[i] <= 1
=============================================================================
