---------------------------- MODULE ManagedApps -----------------------------
(***************************************************************************)
(* The applications a local-representative launches, watches, stops and    *)
(* restarts (local-representative/procman.go), and its own restart under   *)
(* ufa-loader (main.go, reststate.go, ufa-loader/main.go).  An instance is *)
(* an application and its ordinal; its row is what the system tab shows,   *)
(* its child is the process the operating system runs.  Two goroutines     *)
(* launch: the operator's and the auto-launch one.                         *)
(***************************************************************************)
EXTENDS Naturals, FiniteSets, Services

CONSTANTS Apps, Singletons,  \* the applications, those limited to one per host
          Excludes,          \* pairs that may not run together
          Terminal,          \* hosted in a terminal, perhaps a detached one
          AutoLaunch,        \* app -> instances -auto-launch asks for
          MaxInstances,      \* launches of one application in one life of LR
          MaxCommands,       \* commands from the operator
          MaxRestarts        \* -max-restarts of ufa-loader

ASSUME ManagedAppsAssumption ==
    /\ Singletons \subseteq Apps /\ Terminal \subseteq Apps
    /\ Excludes \subseteq Apps \X Apps
    /\ MaxInstances \in Nat /\ MaxCommands \in Nat /\ MaxRestarts \in Nat
    /\ AutoLaunch \in [Apps -> 0 .. MaxInstances]

VARIABLES managed,      \* instance -> row
          child,        \* instance -> its process
          instanceSeq,  \* app -> ordinals given out
          caller,       \* goroutine -> the launch or restart it is in the middle of
          pending,      \* app -> instances the auto-launch goroutine has yet to try
          commands,     \* commands given
          lr,           \* "up", "announcing", "stopping", "down"; "off" for good
          stopped,      \* instances a stopping LR waits for
          carried,      \* app -> instances of it in the restart state
          restarts,     \* relaunches made by ufa-loader
          orphans,      \* apps with a process left by an earlier life of LR
          excused       \* history: apps some launch or stop of which was not seen

launchVars == <<instanceSeq, caller, pending>>
lifeVars == <<lr, stopped, carried, restarts, orphans>>
managedAppsVars == <<managed, child, launchVars, commands, lifeVars, excused>>

Instances == Apps \X (1 .. MaxInstances)
Callers == {"operator", "auto"}

\* No row: never launched, or dismissed.
Dismissed == [status |-> "none", terminating |-> FALSE, detached |-> FALSE]
Free == [pc |-> "idle", instance |-> <<>>]

ManagedRecord ==
    [status : {"none", "running", "exited", "failed"}, terminating : BOOLEAN, detached : BOOLEAN]

CallerRecord ==
    [pc : {"idle", "launching", "restarting"}, instance : Instances \cup {<<>>}]

ManagedAppsTypeOK ==
    /\ managed \in [Instances -> ManagedRecord]
    /\ child \in [Instances -> {"none", "running", "term", "kill", "gone"}]
    /\ instanceSeq \in [Apps -> 0 .. MaxInstances]
    /\ caller \in [Callers -> CallerRecord]
    /\ pending \in [Apps -> 0 .. MaxInstances]
    /\ commands \in 0 .. MaxCommands
    /\ lr \in {"up", "announcing", "stopping", "down", "off"}
    /\ stopped \subseteq Instances
    /\ carried \in [Apps -> 0 .. MaxInstances]
    /\ restarts \in 0 .. MaxRestarts
    /\ orphans \subseteq Apps /\ excused \subseteq Apps

\* What a life of LR starts with.
FreshLR ==
    [managed |-> [i \in Instances |-> Dismissed], child |-> [i \in Instances |-> "none"],
     instanceSeq |-> [a \in Apps |-> 0], caller |-> [c \in Callers |-> Free]]

ManagedAppsInit ==
    /\ managed = FreshLR.managed /\ child = FreshLR.child
    /\ instanceSeq = FreshLR.instanceSeq /\ caller = FreshLR.caller
    /\ pending = AutoLaunch /\ commands = 0
    /\ lr = "up" /\ stopped = {} /\ carried = [a \in Apps |-> 0]
    /\ restarts = 0 /\ orphans = {} /\ excused = {}

Working == lr \in {"up", "announcing", "stopping"}
Alive(i) == child[i] \in {"running", "term", "kill"}
InstancesOf(a) == {i \in Instances : i[1] = a}

\* A command given, here, through agent-coordinator or as a signal.
Command == commands < MaxCommands /\ commands' = commands + 1

-----------------------------------------------------------------------------
runningCount(rows, a) == Cardinality({i \in InstancesOf(a) : rows[i].status = "running"})

\* Exclusion is declared on either side and honoured both ways.
Conflicts(a) == {b \in Apps \ {a} : <<a, b>> \in Excludes \/ <<b, a>> \in Excludes}
conflictingRunning(rows, a) == \E b \in Conflicts(a) : runningCount(rows, b) > 0

\* Mutant: exclusion covers what singleton asks for.
RefusedByExclusion(rows, a) == conflictingRunning(rows, a)

Refused(rows, a) ==
    \/ a \in Singletons /\ runningCount(rows, a) > 0
    \/ conflictingRunning(rows, a)

\* The lock is held while the check is made, not until the launch is recorded:
\* what another goroutine has checked and not recorded is not seen.
Unseen(a) == {b \in {a} \cup Conflicts(a) :
                 \E c \in Callers : /\ caller[c].pc = "launching"
                                    /\ caller[c].instance[1] = b}

\* launchManaged up to the unlock: the check and the new instance's id.
CheckLaunch(c, rows, a) ==
    IF Refused(rows, a) \/ instanceSeq[a] = MaxInstances
    THEN caller' = [caller EXCEPT ![c] = Free] /\ UNCHANGED instanceSeq
    ELSE LET n == instanceSeq[a] + 1 IN
         /\ instanceSeq' = [instanceSeq EXCEPT ![a] = n]
         /\ caller' = [caller EXCEPT ![c] = [pc |-> "launching", instance |-> <<a, n>>]]

Overlap(a) == IF Unseen(a) = {} THEN {} ELSE {a} \cup Unseen(a)

\* The operator's launch (launch-app, __system:launch).
Launch(a) ==
    /\ Working /\ Command /\ caller["operator"] = Free
    /\ CheckLaunch("operator", managed, a)
    /\ excused' = excused \cup Overlap(a)
    /\ UNCHANGED <<managed, child, pending, lifeVars>>

\* One attempt for each instance asked for; a refusal is only logged.
startAutoLaunch(a) ==
    /\ Working /\ caller["auto"] = Free /\ pending[a] > 0
    /\ pending' = [pending EXCEPT ![a] = @ - 1]
    /\ CheckLaunch("auto", managed, a)
    /\ excused' = excused \cup Overlap(a)
    /\ UNCHANGED <<managed, child, commands, lifeVars>>

\* The binary or a terminal is not found, or the process does not start.
recordLaunchFailure(c) ==
    /\ Working /\ caller[c].pc = "launching"
    /\ managed' = [managed EXCEPT ![caller[c].instance].status = "failed"]
    /\ caller' = [caller EXCEPT ![c] = Free]
    /\ UNCHANGED <<child, instanceSeq, pending, commands, lifeVars, excused>>

\* The terminal an application is hosted in may detach (wrapInTerminal).
Hostings(a) == IF a \in Terminal THEN BOOLEAN ELSE {FALSE}

\* launchManaged from the unlock on: the process is started and recorded.  A
\* stopping LR no longer looks at what is launched now.
launchManaged(c) ==
    /\ Working /\ caller[c].pc = "launching"
    /\ LET i == caller[c].instance IN
       /\ \E detached \in Hostings(i[1]) :
              managed' = [managed EXCEPT ![i] = [Dismissed EXCEPT !.status = "running",
                                                                  !.detached = detached]]
       /\ child' = [child EXCEPT ![i] = "running"]
       /\ excused' = excused \cup (IF lr = "stopping" THEN {i[1]} ELSE {})
    /\ caller' = [caller EXCEPT ![c] = Free]
    /\ UNCHANGED <<instanceSeq, pending, commands, lifeVars>>

\* A child ends, by itself or as asked.
ChildExits(i) ==
    /\ Alive(i)
    /\ child' = [child EXCEPT ![i] = "gone"]
    /\ UNCHANGED <<managed, launchVars, commands, lifeVars, excused>>

\* Its status once the process has been waited for: a stop that was asked for
\* is no failure.  The launcher of a detached session ends at once, and that
\* row stays running, whatever becomes of the session.
reapManaged(i) ==
    /\ Working
    /\ managed[i].status = "running" /\ ~managed[i].detached /\ child[i] = "gone"
    /\ \E status \in {"exited"} \cup (IF managed[i].terminating THEN {} ELSE {"failed"}) :
           managed' = [managed EXCEPT ![i].status = status]
    /\ UNCHANGED <<child, launchVars, commands, lifeVars, excused>>

\* terminateManaged on each of stop: a detached instance is dropped and its
\* session torn down, if LR can address it; one that has stopped is dropped; a
\* running one is signalled and keeps its row.
Terminate(stop) ==
    LET dropped == {i \in stop : managed[i].detached \/ managed[i].status # "running"}
        sessions == {i \in dropped : managed[i].detached /\ Alive(i)} IN
    /\ managed' = [i \in Instances |->
           IF i \in dropped THEN Dismissed
           ELSE [managed[i] EXCEPT !.terminating = @ \/ i \in stop]]
    /\ \E torn \in SUBSET sessions :
           /\ child' = [i \in Instances |->
                  CASE i \in torn -> "gone"
                    [] i \in stop \ dropped /\ child[i] = "running" -> "term"
                    [] OTHER -> child[i]]
           /\ excused' = excused \cup {i[1] : i \in sessions \ torn}

terminateManaged(i) ==
    /\ Working /\ Command /\ managed[i] # Dismissed
    /\ Terminate({i})
    /\ UNCHANGED <<launchVars, lifeVars>>

\* Mutant: only an instance a restart waits for is signalled again.
EscalateAtRestart(i) ==
    /\ Working /\ child[i] = "term" /\ i \in stopped
    /\ child' = [child EXCEPT ![i] = "kill"]
    /\ UNCHANGED <<managed, launchVars, commands, lifeVars, excused>>

\* Five seconds after the first signal, to what is still there.
Escalate(i) ==
    /\ Working /\ child[i] = "term"
    /\ child' = [child EXCEPT ![i] = "kill"]
    /\ UNCHANGED <<managed, launchVars, commands, lifeVars, excused>>

\* restartManaged: terminate, wait, drop the row and launch again.
restartManaged(i) ==
    /\ Working /\ Command /\ caller["operator"] = Free /\ managed[i] # Dismissed
    /\ Terminate({i})
    /\ caller' = [caller EXCEPT !["operator"] = [pc |-> "restarting", instance |-> i]]
    /\ UNCHANGED <<instanceSeq, pending, lifeVars>>

\* A wait for i to stop ends with its row, or after ten seconds: i was killed
\* five seconds ago and may still not have been waited for.
WaitEnds(i) == managed[i].status # "running" \/ child[i] \in {"kill", "gone"}

\* The row of an instance that outlived the wait is dropped like any other.
restartRelaunches(i) ==
    /\ Working /\ caller["operator"] = [pc |-> "restarting", instance |-> i]
    /\ WaitEnds(i)
    /\ managed' = [managed EXCEPT ![i] = Dismissed]
    /\ CheckLaunch("operator", managed', i[1])
    /\ excused' = excused \cup Overlap(i[1]) \cup (IF Alive(i) THEN {i[1]} ELSE {})
    /\ UNCHANGED <<child, pending, commands, lifeVars>>

-----------------------------------------------------------------------------
\* The restart state: what runs, as auto-launch tokens (runningManagedTokens).
currentState == [a \in Apps |-> runningCount(managed, a)]
NothingCarried == [a \in Apps |-> 0]

\* announceRestartAndExit, from the operator, SIGHUP or auto-update: the state
\* is taken first.
announceRestart ==
    /\ lr = "up" /\ Command
    /\ lr' = "announcing" /\ carried' = currentState
    /\ UNCHANGED <<managed, child, launchVars, stopped, restarts, orphans, excused>>

terminateManagedForRestart ==
    /\ lr = "announcing" /\ lr' = "stopping"
    /\ stopped' = {i \in Instances : managed[i].status = "running"}
    /\ Terminate(stopped')
    /\ UNCHANGED <<launchVars, commands, carried, restarts, orphans>>

\* LR exits with its memory and goroutines; a process still there stays.
exitForRestart ==
    /\ lr = "stopping" /\ \A i \in stopped : WaitEnds(i)
    /\ lr' = "down"
    /\ managed' = FreshLR.managed /\ child' = FreshLR.child
    /\ instanceSeq' = FreshLR.instanceSeq /\ caller' = FreshLR.caller
    /\ stopped' = {} /\ pending' = NothingCarried
    /\ LET left == {i \in Instances : Alive(i)} IN
       /\ orphans' = orphans \cup {i[1] : i \in left}
       /\ excused' = excused \cup {i[1] : i \in left \cap stopped}
    /\ UNCHANGED <<commands, carried, restarts>>

\* Mutant: the next instance is started like the first, from the command line.
RelaunchPlain ==
    /\ lr = "down" /\ restarts < MaxRestarts
    /\ lr' = "up" /\ restarts' = restarts + 1 /\ pending' = AutoLaunch
    /\ UNCHANGED <<managed, child, instanceSeq, caller, commands, stopped, carried,
                   orphans, excused>>

\* ufa-loader hands the announced state to the next instance, which launches
\* the applications in it.
relaunch ==
    /\ lr = "down" /\ restarts < MaxRestarts
    /\ lr' = "up" /\ restarts' = restarts + 1 /\ pending' = carried
    /\ UNCHANGED <<managed, child, instanceSeq, caller, commands, stopped, carried,
                   orphans, excused>>

\* The limit is reached, or ufa-loader is told to stop in the meantime.
loaderStops ==
    /\ lr = "down" /\ lr' = "off"
    /\ UNCHANGED <<managed, child, launchVars, commands, stopped, carried, restarts,
                   orphans, excused>>

ManagedAppsNext ==
    \/ \E a \in Apps : Launch(a) \/ startAutoLaunch(a)
    \/ \E c \in Callers : launchManaged(c) \/ recordLaunchFailure(c)
    \/ \E i \in Instances :
          \/ ChildExits(i) \/ reapManaged(i) \/ Escalate(i)
          \/ terminateManaged(i) \/ restartManaged(i) \/ restartRelaunches(i)
    \/ announceRestart \/ terminateManagedForRestart \/ exitForRestart
    \/ relaunch \/ loaderStops

ManagedAppsSpec == ManagedAppsInit /\ [][ManagedAppsNext]_managedAppsVars

\* Goroutines, timers and the reaper run; a killed process ends; ufa-loader
\* relaunches.
ManagedAppsFairness ==
    /\ \A c \in Callers : WF_managedAppsVars(Moves("apps") /\ (launchManaged(c) \/ recordLaunchFailure(c)))
    /\ \A a \in Apps : WF_managedAppsVars(Moves("apps") /\ startAutoLaunch(a))
    /\ \A i \in Instances :
          /\ WF_managedAppsVars(Moves("apps") /\ reapManaged(i))
          /\ WF_managedAppsVars(Moves("apps") /\ Escalate(i))
          /\ WF_managedAppsVars(Moves("apps") /\ (child[i] = "kill" /\ ChildExits(i)))
    /\ WF_managedAppsVars(Moves("apps") /\ terminateManagedForRestart)
    /\ WF_managedAppsVars(Moves("apps") /\ exitForRestart)
    /\ WF_managedAppsVars(Moves("apps") /\ (relaunch \/ loaderStops))

-----------------------------------------------------------------------------
\* One process of a singleton on the host, and none beside one it excludes,
\* whatever launches, stops and restarts are in progress, unless two launches
\* overlapped between check and record, a process outlived its ten seconds, or
\* was launched by an LR already stopping (launchSpec.singleton, excludes).
OnePerHost ==
    \A a \in Singletons \ excused :
        LET left == Cardinality({i \in InstancesOf(a) : Alive(i)})
                    + (IF a \in orphans THEN 1 ELSE 0)
        IN /\ left <= 1
           /\ left = 1 =>
                 \A b \in Conflicts(a) \ excused : \A i \in InstancesOf(b) : ~Alive(i)

\* What LR says has stopped has stopped: launches and restarts are allowed on
\* the strength of the rows.
StoppedIsGone ==
    \A i \in Instances : managed[i].status \in {"exited", "failed"} => ~Alive(i)

\* What the rows say of a singleton is so on the host, and there is one of it
\* (procman.go launchManaged, reapManaged, restartManaged).
SingletonsAlone == OnePerHost /\ StoppedIsGone

\* An instance asked to terminate does, even if it ignores the signal.
TerminateStops ==
    \A i \in Instances :
        []<>(managed[i].terminating /\ managed[i].status = "running" => lr \in {"down", "off"})

\* A restart brings back every application that ran when it was announced,
\* unless another restart comes before it has, or an application that excludes
\* it was launched first.
CarriedComeBack ==
    \A a \in Apps :
        []<>(carried[a] > 0 /\ lr \notin {"off", "announcing"} =>
                 \/ instanceSeq[a] >= (IF a \in Singletons THEN 1 ELSE carried[a])
                 \/ \E b \in Conflicts(a) : instanceSeq[b] > 0)
=============================================================================
