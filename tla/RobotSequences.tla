--------------------------- MODULE RobotSequences ---------------------------
(***************************************************************************)
(* A robot's sequences imported and run from local-representative's files  *)
(* tab (local-representative/fileintegrations.go, ianar/lrimport.go),      *)
(* beside what the robot's own tabs run: the answer that may come too      *)
(* late, and an imported run as it is shown to tabs, those opened after it *)
(* began as well.                                                          *)
(***************************************************************************)
EXTENDS Naturals, FiniteSets, TLC, Services

CONSTANTS MaxImports, MaxTabRuns

ASSUME RobotSequencesAssumption == MaxImports \in Nat /\ MaxTabRuns \in Nat

VARIABLES importAsked,     \* LR's imports: what each asks, and what became of it there
          answers,   \* robot-seq-import-results on their way
          said,      \* what the robot said of each
          importing, \* the import the robot's command loop is at
          runs,      \* imported runs: how far each is
          engine,    \* who holds seqMu
          keptImport,      \* imported: the messages keptImport for tabs that open
          tab,       \* a tab: what it has been sent of them, and that it missed some
          tabRuns    \* runs started from tabs

seqImportVars == <<importAsked, answers, said, importing, runs, engine, keptImport, tab, tabRuns>>

AllImports == 1 .. MaxImports
NoImport == 0
TabRun == MaxImports + 1
NoMessages == [started |-> NoImport, progress |-> NoImport, result |-> NoImport, late |-> {}, old |-> FALSE]
ShownRun(k) == [started |-> k.started, progress |-> k.progress, result |-> k.result]
Messages == {"started", "progress", "result"}
ClosedTab == [at |-> "closed", run |-> ShownRun(NoMessages), missed |-> FALSE]

RobotSequencesTypeOK ==
    /\ importAsked \in [AllImports -> {"not", "waiting", "imported", "refused", "silent"}]
    /\ answers \subseteq AllImports /\ said \in [AllImports -> {"nothing", "imported", "refused"}]
    /\ importing.of \in AllImports \cup {NoImport}
    /\ \A i \in AllImports : runs[i] \in {"no", "begun", "started", "going", "ending", "over"}
    /\ engine \in AllImports \cup {NoImport, TabRun}
    /\ keptImport.started \in AllImports \cup {NoImport} /\ keptImport.old \in BOOLEAN
    /\ tab.at \in {"closed", "opening", "open"} /\ tab.missed \in BOOLEAN

RobotSequencesInit ==
    /\ importAsked = [i \in AllImports |-> "not"] /\ answers = {} /\ said = [i \in AllImports |-> "nothing"]
    /\ importing = [of |-> NoImport, run |-> FALSE]
    /\ runs = [i \in AllImports |-> "no"] /\ engine = NoImport
    /\ keptImport = NoMessages /\ tab = ClosedTab /\ tabRuns = 0

-----------------------------------------------------------------------------
\* What local-representative asks, and is told.
importRobotSequence(i) ==
    /\ Moves("imports") /\ importAsked[i] = "not" /\ \A j \in 1 .. (i - 1) : importAsked[j] # "not"
    /\ importAsked' = [importAsked EXCEPT ![i] = "waiting"]
    /\ UNCHANGED <<answers, said, importing, runs, engine, keptImport, tab, tabRuns>>

ImportTimesOut(i) ==
    /\ importAsked[i] = "waiting" /\ importAsked' = [importAsked EXCEPT ![i] = "silent"]
    /\ UNCHANGED <<answers, said, importing, runs, engine, keptImport, tab, tabRuns>>

\* The deviation: whoever still waits is told.
AnyWaiting(i) == {j \in AllImports : importAsked[j] = "waiting"}

\* noteRobotSeqImport: by the request's id, if it still waits.
WaitingFor(i) == {i} \cap {j \in AllImports : importAsked[j] = "waiting"}

noteRobotSeqImport(i) ==
    /\ i \in answers /\ answers' = answers \ {i}
    /\ importAsked' = [j \in AllImports |-> IF j \in WaitingFor(i) THEN said[i] ELSE importAsked[j]]
    /\ UNCHANGED <<said, importing, runs, engine, keptImport, tab, tabRuns>>

-----------------------------------------------------------------------------
\* importForLR, one command after the other.  A document that does not read or
\* fit changes nothing.
Undecided(i) == importAsked[i] # "not" /\ said[i] = "nothing" /\ importing.of = NoImport
NextAsked == CHOOSE i \in AllImports : Undecided(i) /\ \A j \in AllImports : Undecided(j) => i <= j

Says(i, what) == said' = [said EXCEPT ![i] = what] /\ answers' = answers \cup {i}

handleRobotSeqImport ==
    /\ \E i \in AllImports : Undecided(i)
    /\ LET i == NextAsked IN
       \/ /\ \E run \in BOOLEAN : importing' = [of |-> i, run |-> run]
          /\ UNCHANGED <<said, answers>>
       \/ Says(i, "refused") /\ UNCHANGED importing
    /\ UNCHANGED <<importAsked, runs, engine, keptImport, tab, tabRuns>>

\* Its sequence is compiled as it is by then, and run beside; one with a control
\* without a default, or that somebody deleted meanwhile, does not compile.
importForLR ==
    LET i == importing.of IN
    /\ i # NoImport
    /\ importing' = [of |-> NoImport, run |-> FALSE]
    /\ \/ /\ ~importing.run /\ Says(i, "imported") /\ UNCHANGED runs
       \/ /\ importing.run /\ Says(i, "refused") /\ UNCHANGED runs
       \/ /\ importing.run /\ Says(i, "imported")
          /\ runs' = [runs EXCEPT ![i] = "begun"]
    /\ UNCHANGED <<importAsked, engine, keptImport, tab, tabRuns>>

-----------------------------------------------------------------------------
\* The deviation: what was keptImport of the run before stays.
KeptOn(k, i, others) == [k EXCEPT !.started = i, !.late = others]

\* A started message clears what was keptImport; a run going on may still add to it.
KeptAnew(k, i, others) == [NoMessages EXCEPT !.started = i, !.late = others]

\* broadcastImported: kept, and sent, as one, to a tab whose queue is not full.
broadcastImported(k, m) ==
    /\ keptImport' = k
    /\ \/ tab' = IF tab.at = "closed" THEN tab
                 ELSE IF m = "started" THEN [tab EXCEPT !.run = ShownRun(k), !.missed = FALSE]
                 ELSE [tab EXCEPT !.run[m] = k[m]]
       \/ tab.at # "closed" /\ tab' = [tab EXCEPT !.missed = TRUE]

GoingOn == {j \in AllImports : runs[j] \in {"started", "going", "ending"}}

RunStarts(i) ==
    /\ runs[i] = "begun" /\ runs' = [runs EXCEPT ![i] = "started"]
    /\ broadcastImported(KeptAnew(keptImport, i, GoingOn), "started")
    /\ UNCHANGED <<importAsked, answers, said, importing, engine, tabRuns>>

runSequence(i) ==
    /\ runs[i] = "started"
    /\ IF engine = NoImport THEN /\ engine' = i /\ runs' = [runs EXCEPT ![i] = "going"]
       ELSE runs' = [runs EXCEPT ![i] = "ending"] /\ UNCHANGED engine
    /\ UNCHANGED <<importAsked, answers, said, importing, keptImport, tab, tabRuns>>

Progresses(i) ==
    /\ runs[i] = "going" /\ broadcastImported([keptImport EXCEPT !.progress = i], "progress")
    /\ UNCHANGED <<importAsked, answers, said, importing, runs, engine, tabRuns>>

\* It lets go of seqMu before its result is sent.
RunEnds(i) ==
    /\ runs[i] = "going" /\ engine' = NoImport
    /\ runs' = [runs EXCEPT ![i] = "ending"]
    /\ UNCHANGED <<importAsked, answers, said, importing, keptImport, tab, tabRuns>>

Results(i) ==
    /\ runs[i] = "ending" /\ runs' = [runs EXCEPT ![i] = "over"]
    /\ broadcastImported([keptImport EXCEPT !.result = i, !.old = FALSE], "result")
    /\ UNCHANGED <<importAsked, answers, said, importing, engine, tabRuns>>

\* importedReplayFor after its result it is shown no more.
GrowsOld ==
    /\ keptImport.result # NoImport /\ ~keptImport.old /\ keptImport' = [keptImport EXCEPT !.old = TRUE]
    /\ UNCHANGED <<importAsked, answers, said, importing, runs, engine, tab, tabRuns>>

handleRunSequenceV2 ==
    /\ Moves("imports")
    /\ \/ /\ engine = NoImport /\ engine' = TabRun /\ tabRuns < MaxTabRuns
          /\ tabRuns' = tabRuns + 1
       \/ engine = TabRun /\ engine' = NoImport /\ UNCHANGED tabRuns
    /\ UNCHANGED <<importAsked, answers, said, importing, runs, keptImport, tab>>

-----------------------------------------------------------------------------
\* A tab that connects hears what is sent from then on, and then the imported
\* run is replayed to it, as far as its queue takes it.
TabOpens ==
    /\ tab.at = "closed" /\ Moves("imports") /\ tab' = [ClosedTab EXCEPT !.at = "opening"]
    /\ UNCHANGED <<importAsked, answers, said, importing, runs, engine, keptImport, tabRuns>>

replayImported ==
    /\ tab.at = "opening"
    /\ \/ /\ keptImport.started = NoImport \/ keptImport.old
          /\ tab' = [tab EXCEPT !.at = "open"]
       \/ /\ keptImport.started # NoImport /\ ~keptImport.old
          /\ \E sent \in SUBSET Messages :
                tab' = [at |-> "open", missed |-> sent # Messages,
                        run |-> [m \in Messages |-> IF m \in sent THEN keptImport[m]
                                                   ELSE IF "started" \in sent THEN NoImport
                                                   ELSE tab.run[m]]]
    /\ UNCHANGED <<importAsked, answers, said, importing, runs, engine, keptImport, tabRuns>>

RobotSequencesNext ==
    \/ \E i \in AllImports : \/ importRobotSequence(i) \/ ImportTimesOut(i) \/ noteRobotSeqImport(i)
                             \/ RunStarts(i) \/ runSequence(i) \/ Progresses(i) \/ RunEnds(i) \/ Results(i)
    \/ handleRobotSeqImport \/ importForLR
    \/ GrowsOld \/ handleRunSequenceV2 \/ TabOpens \/ replayImported

-----------------------------------------------------------------------------
\* An import is told what the robot said of it, if anything; and the run a tab
\* is shown, whenever it was opened, is one, but for messages of runs that were
\* still going when it started, and for those that its full queue did not take.
ImportsShown ==
    /\ \A i \in AllImports : importAsked[i] \in {"imported", "refused"} => importAsked[i] = said[i]
    /\ tab.at = "open" /\ ~tab.missed /\ tab.run.started = keptImport.started => tab.run = ShownRun(keptImport)
    /\ {keptImport.progress, keptImport.result} \subseteq {NoImport, keptImport.started} \cup keptImport.late
=============================================================================
