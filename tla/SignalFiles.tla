---------------------------- MODULE SignalFiles ----------------------------
(***************************************************************************)
(* One work signal as files (dungeon-keeper/pkg/worksignal): every rewrite *)
(* truncates the file and then writes it line by line, a Complete writes   *)
(* the file in complete/ and then removes the one in ongoing/, and nothing *)
(* locks either.  The submitter polls for the file in complete/, a worker  *)
(* takes, runs and completes the signal, a Force Complete fails it.        *)
(***************************************************************************)
EXTENDS Services, Naturals

CONSTANTS MaxForces,  \* Force Completes
          MaxStops    \* ends of the worker

ASSUME SignalFilesAssumption == MaxForces \in Nat /\ MaxStops \in Nat

VARIABLES ongoing,    \* the signal's file in ongoing/
          complete,   \* its file in complete/
          workerAt,   \* the worker's place, and what it has read
          submitter,  \* the turn that waits for the signal
          forcing,    \* a Force Complete's place in Complete, and what it read
          dead,       \* how the worker died with the signal: holding it, or in a rewrite
          spent       \* Force Completes and ends of the worker so far

signalFileVars == <<ongoing, complete, workerAt, submitter, forcing, dead, spent>>

\* A file is absent, or has none, the first, or all of its lines; status is its
\* header's and output whether the agent's output is among its lines.
File == [has : {"absent", "nothing", "header", "all"},
         status : {"pending", "processing", "completed", "failed"}, output : BOOLEAN]
NoFile == [has |-> "absent", status |-> "pending", output |-> FALSE]
NewFile == [NoFile EXCEPT !.has = "all"]

Completing == {"completing", "opened", "headed", "written"}

SignalFilesTypeOK ==
    /\ ongoing \in File /\ complete \in File
    /\ workerAt \in [pc : {"idle", "found", "taking", "rewriting", "taken", "running", "ran"}
                          \cup Completing, file : File]
    /\ submitter \in {"creating", "opened", "waiting", "replied", "cut", "errored", "vanished",
                     "gone"}
    /\ forcing \in [pc : {"none", "failed", "done"} \cup Completing, file : File]
    /\ dead \in {"no", "holding", "rewriting"}
    /\ spent \in [forces : 0 .. MaxForces, stops : 0 .. MaxStops]

SignalFilesInit ==
    /\ ongoing = NoFile /\ complete = NoFile
    /\ workerAt = [pc |-> "idle", file |-> NoFile]
    /\ submitter = "creating"
    /\ forcing = [pc |-> "none", file |-> NoFile]
    /\ dead = "no"
    /\ spent = [forces |-> 0, stops |-> 0]

\* Read: an empty file is an error, lines still to come are not missed.
Reads(file) == file.has \in {"header", "all"}
Exists(file) == file.has # "absent"

WorkerTo(pc, file) == workerAt' = [pc |-> pc, file |-> file]
Quiet == UNCHANGED <<submitter, forcing, dead, spent>>

-----------------------------------------------------------------------------
\* Create.
CreateOpens ==
    /\ submitter = "creating" /\ submitter' = "opened"
    /\ ongoing' = [NewFile EXCEPT !.has = "nothing"]
    /\ UNCHANGED <<complete, workerAt, forcing, dead, spent>>

CreateWrites ==
    /\ submitter = "opened" /\ submitter' = "waiting"
    /\ ongoing' = NewFile
    /\ UNCHANGED <<complete, workerAt, forcing, dead, spent>>

-----------------------------------------------------------------------------
\* The worker: FindPendingForAgentType, TakeOwnership, the run, Complete.
FindPendingForAgentType ==
    /\ workerAt.pc = "idle" /\ Reads(ongoing) /\ ongoing.status = "pending"
    /\ WorkerTo("found", NoFile)
    /\ Quiet /\ UNCHANGED <<ongoing, complete>>

TakeReads ==
    /\ workerAt.pc = "found"
    /\ IF Reads(ongoing) THEN WorkerTo("taking", [ongoing EXCEPT !.status = "processing"])
       ELSE WorkerTo("idle", NoFile)
    /\ Quiet /\ UNCHANGED <<ongoing, complete>>

\* The rewrite makes the file, whether it is still there or not.
TakeOpens ==
    /\ workerAt.pc = "taking" /\ ongoing' = [workerAt.file EXCEPT !.has = "nothing"]
    /\ WorkerTo("rewriting", workerAt.file)
    /\ Quiet /\ UNCHANGED complete

TakeWrites ==
    /\ workerAt.pc = "rewriting"
    /\ ongoing' = IF Exists(ongoing) THEN workerAt.file ELSE ongoing
    /\ WorkerTo("taken", NoFile)
    /\ Quiet /\ UNCHANGED complete

\* The signal is read again; gone, it is left alone.
ReadSignal ==
    /\ workerAt.pc = "taken"
    /\ WorkerTo(IF Reads(ongoing) THEN "running" ELSE "idle", NoFile)
    /\ Quiet /\ UNCHANGED <<ongoing, complete>>

\* recordOutput appends to the file if there is one.
RecordOutput ==
    /\ workerAt.pc = "running" /\ WorkerTo("ran", NoFile)
    /\ ongoing' = IF Exists(ongoing) THEN [ongoing EXCEPT !.output = TRUE] ELSE ongoing
    /\ Quiet /\ UNCHANGED complete

CompleteReads ==
    /\ workerAt.pc = "ran"
    /\ IF Reads(ongoing) THEN WorkerTo("completing", [ongoing EXCEPT !.status = "completed"])
       ELSE WorkerTo("idle", NoFile)
    /\ Quiet /\ UNCHANGED <<ongoing, complete>>

\* Mutant: the file in ongoing/ is removed before the one in complete/ is written.
RemovesFirst(pc, file) ==
    \/ pc = "completing" /\ ongoing' = NoFile /\ UNCHANGED complete
    \/ pc = "opened" /\ complete' = [file EXCEPT !.has = "nothing"] /\ UNCHANGED ongoing
    \/ pc = "headed" /\ complete' = [file EXCEPT !.has = "header"] /\ UNCHANGED ongoing
    \/ pc = "written" /\ complete' = file /\ UNCHANGED ongoing

\* Complete, once it has read: the file in complete/ is made, its header and
\* its events are written, the file in ongoing/ removed.  (Of two Completes at
\* once the later write stands; by then nobody waits for the reply.)
Completes(pc, file) ==
    \/ pc = "completing" /\ complete' = [file EXCEPT !.has = "nothing"] /\ UNCHANGED ongoing
    \/ pc = "opened" /\ complete' = [file EXCEPT !.has = "header"] /\ UNCHANGED ongoing
    \/ pc = "headed" /\ complete' = file /\ UNCHANGED ongoing
    \/ pc = "written" /\ ongoing' = NoFile /\ UNCHANGED complete

After(pc, end) ==
    CASE pc = "completing" -> "opened" [] pc = "opened" -> "headed"
      [] pc = "headed" -> "written"    [] pc = "written" -> end

WorkerFinishes ==
    /\ Completes(workerAt.pc, workerAt.file)
    /\ WorkerTo(After(workerAt.pc, "idle"), workerAt.file)
    /\ Quiet

\* The worker ends anywhere in this, and starts again: a signal still pending
\* is found again, one it had taken is not.
WorkerEnds ==
    /\ workerAt.pc # "idle" /\ spent.stops < MaxStops
    /\ spent' = [spent EXCEPT !.stops = @ + 1]
    /\ WorkerTo("idle", NoFile)
    /\ dead' = CASE workerAt.pc \in {"found", "taking"} -> dead
                 [] workerAt.pc \in {"rewriting", "opened", "headed"} -> "rewriting"
                 [] OTHER -> "holding"
    /\ UNCHANGED <<ongoing, complete, submitter, forcing>>

-----------------------------------------------------------------------------
\* awaitSignal.  Of a file in complete/ that is still being written an empty one
\* is an error, which ends the wait; of another the reply is cut.
Poll ==
    /\ submitter = "waiting" /\ Exists(complete)
    /\ submitter' = CASE complete.has = "all" -> "replied"
                      [] complete.has = "header" -> "cut"
                      [] OTHER -> "errored"
    /\ UNCHANGED <<ongoing, complete, workerAt, forcing, dead, spent>>

\* Resubmit waits again, where the turn was.
SignalResubmit ==
    /\ submitter = "errored" /\ submitter' = "waiting"
    /\ UNCHANGED <<ongoing, complete, workerAt, forcing, dead, spent>>

\* Neither file is there: the signal vanished without completing.
PollVanished ==
    /\ submitter = "waiting" /\ ~Exists(complete) /\ ~Exists(ongoing)
    /\ submitter' = "vanished"
    /\ UNCHANGED <<ongoing, complete, workerAt, forcing, dead, spent>>

\* abandonTurn: the wait is over, and a signal in ongoing/ is completed as
\* failed; one that cannot be read is left for the next Force Complete.
abandonTurn ==
    /\ submitter \in {"waiting", "errored"} \/ forcing.pc = "failed"
    /\ spent.forces < MaxForces /\ spent' = [spent EXCEPT !.forces = @ + 1]
    /\ forcing' = IF ~Exists(ongoing) THEN [forcing EXCEPT !.pc = "done"]
                  ELSE IF Reads(ongoing)
                  THEN [pc |-> "completing", file |-> [ongoing EXCEPT !.status = "failed"]]
                  ELSE [forcing EXCEPT !.pc = "failed"]
    /\ submitter' = "gone"
    /\ UNCHANGED <<ongoing, complete, workerAt, dead>>

ForceCompletes ==
    /\ Completes(forcing.pc, forcing.file)
    /\ forcing' = [forcing EXCEPT !.pc = After(forcing.pc, "done")]
    /\ UNCHANGED <<workerAt, submitter, dead, spent>>

-----------------------------------------------------------------------------
WorkerSteps ==
    \/ TakeReads \/ TakeOpens \/ TakeWrites \/ ReadSignal
    \/ RecordOutput \/ CompleteReads \/ WorkerFinishes

SubmitterSteps == CreateOpens \/ CreateWrites \/ Poll \/ PollVanished \/ ForceCompletes

SignalFilesNext ==
    \/ CreateOpens \/ CreateWrites \/ Poll \/ PollVanished \/ SignalResubmit
    \/ abandonTurn \/ ForceCompletes \/ FindPendingForAgentType \/ TakeReads \/ TakeOpens \/ TakeWrites \/ ReadSignal
    \/ RecordOutput \/ CompleteReads \/ WorkerFinishes \/ WorkerEnds

SignalFilesSpec == SignalFilesInit /\ [][SignalFilesNext]_signalFileVars

\* The processes run and go on polling, and the agent ends.
SignalFilesFairness ==
    /\ WF_signalFileVars(Moves("signals") /\ SubmitterSteps)
    /\ WF_signalFileVars(Moves("signals") /\ WorkerSteps)
    /\ WF_signalFileVars(Moves("signals") /\ FindPendingForAgentType)

\* A signal ends (worksignal.go Complete, awaitSignal): the wait for it is over,
\* with a reply or an error, it never vanished, and it is whole in complete/ and
\* gone from ongoing/ -- however the worker's rewrites, its Complete and a Force
\* Complete cross.  A worker that died with the signal leaves it to a Force
\* Complete, which makes the file in complete/; one that died in a rewrite
\* leaves a file cut in two.
SignalEnds ==
    []<>( \/ ~Moves("signals")
          \/ dead = "rewriting" \/ (dead = "holding" /\ forcing.pc # "done")
          \/ /\ submitter \in {"replied", "cut", "errored", "gone"}
             /\ complete.has = "all" /\ (dead = "no" => ~Exists(ongoing)))

=============================================================================
