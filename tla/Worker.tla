------------------------------- MODULE Worker -------------------------------
(***************************************************************************)
(* The dungeon-keeper watch loop (main.go): find the first pending signal, *)
(* take it, run the agent on it and complete it, one signal at a time.  A  *)
(* slopspace signal names no slopspace: the worker uses whatever is        *)
(* deployed, and only when nothing is does it make and later return a      *)
(* slopspace of its own.                                                   *)
(***************************************************************************)
EXTENDS Slopspaces, WorkSignals

CONSTANT Limit  \* how often each bounded event may happen in a behaviour

\* What the environment does to the system, each bounded by Limit: requests
\* from the UI, operations that fail, crashes, and an output line too long.
BoundedEvent ==
    {"prompt", "force", "resubmit", "fault", "crash", "workerCrash", "longOutput"}

ASSUME WorkerAssumption == Limit \in [BoundedEvent -> Nat]

VARIABLES worker,  \* each worker's place in the watch loop
          used     \* how often each bounded event has happened

workerVars == <<slopspaceVars, signalVars, worker, used>>

\* sig is the signal in hand, 0 when there is none; own says the worker has
\* deployed a slopspace for it.
WorkerState ==
    [pc : {"idle", "found", "taken", "deploying", "running", "returning", "ran"},
     sig : 0 .. MaxSignals, own : BOOLEAN]

Idle == [pc |-> "idle", sig |-> 0, own |-> FALSE]

WorkerTypeOK ==
    /\ worker \in [Workers -> WorkerState]
    /\ used \in [BoundedEvent -> Nat]

WorkerInit ==
    /\ SlopspacesInit
    /\ WorkSignalsInit
    /\ worker = [w \in Workers |-> Idle]
    /\ used = [e \in BoundedEvent |-> 0]

Spend(e) == used[e] < Limit[e] /\ used' = [used EXCEPT ![e] = @ + 1]

-----------------------------------------------------------------------------
At(w, pc) == worker[w].pc = pc

Step(w, state) == worker' = [worker EXCEPT ![w] = state]

Find(w) ==
    /\ At(w, "idle")
    /\ \E i \in FirstPending : Step(w, [Idle EXCEPT !.pc = "found", !.sig = i])
    /\ UNCHANGED <<slopspaceVars, signalVars, used>>

\* Ownership is taken whoever holds the signal by now.
Take(w) ==
    /\ At(w, "found")
    /\ TakeOwnership(worker[w].sig)
    /\ Step(w, [worker[w] EXCEPT !.pc = "taken"])
    /\ UNCHANGED <<slopspaceVars, used>>

\* The signal has gone, or cannot be read, when it is taken or right after.
TakeGone(w) ==
    /\ At(w, "found") \/ At(w, "taken")
    /\ ~Readable(worker[w].sig)
    /\ Step(w, Idle)
    /\ UNCHANGED <<slopspaceVars, signalVars, used>>

\* In-place work needs no slopspace; slopspace work uses the deployed one, or
\* leaves the worker to make one.
Locate(w) ==
    /\ At(w, "taken")
    /\ LET inPlace == header[worker[w].sig].work = "in-place"
       IN  Step(w, [worker[w] EXCEPT
                      !.pc = IF inPlace \/ marker # None THEN "running"
                                                         ELSE "deploying"])
    /\ UNCHANGED <<slopspaceVars, signalVars, used>>

DeployOwn(w) ==
    /\ At(w, "deploying")
    /\ CreateAndDeploy(w)
    /\ Step(w, [worker[w] EXCEPT !.pc = "running", !.own = TRUE])
    /\ UNCHANGED <<signalVars, used>>

\* The agent's exit, successful or not; what it wrote is recorded in the
\* signal while that is still in ongoing/, as one line however long it is.
AgentExits(w) ==
    /\ At(w, "running")
    /\ Step(w, [worker[w] EXCEPT !.pc = IF worker[w].own THEN "returning" ELSE "ran"])
    /\ \/ UNCHANGED <<signalVars, used>>
       \/ Spend("longOutput") /\ AppendTooLong(worker[w].sig)
    /\ UNCHANGED slopspaceVars

ReturnOwn(w) ==
    /\ At(w, "returning")
    /\ Return(w) \/ ReturnFails(w)
    /\ Step(w, [worker[w] EXCEPT !.pc = "ran"])
    /\ UNCHANGED <<signalVars, used>>

\* A signal failed meanwhile is gone from ongoing/, and one that cannot be
\* read stays there; either is only logged.
Finish(w) ==
    /\ At(w, "ran")
    /\ \/ Complete(worker[w].sig)
       \/ ~Readable(worker[w].sig) /\ UNCHANGED signalVars
    /\ Step(w, Idle)
    /\ UNCHANGED <<slopspaceVars, used>>

\* A worker that dies leaves its signal in processing, and a slopspace of
\* its own deployed.
WorkerCrash(w) ==
    /\ ~At(w, "idle")
    /\ Spend("workerCrash")
    /\ Step(w, Idle)
    /\ UNCHANGED <<slopspaceVars, signalVars>>

WorkerRuns(w) ==
    \/ Find(w) \/ Take(w) \/ TakeGone(w) \/ Locate(w) \/ DeployOwn(w)
    \/ AgentExits(w) \/ ReturnOwn(w) \/ Finish(w)
=============================================================================
