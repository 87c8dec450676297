---------------------------- MODULE ControlRuns -----------------------------
(***************************************************************************)
(* A control sequence local-representative runs (control.go,               *)
(* controlrecord.go) and the robot that carries out its robot steps and    *)
(* records the screen for it (ianar/lrrun.go, lrrecord.go, sequence.go).   *)
(* The run is one goroutine, each recording being stopped another; every   *)
(* request to the robot is handled in a goroutine of its own.  What is     *)
(* recorded on another node goes through agent-coordinator to that node's  *)
(* robot in the same exchange; here there is one robot.                    *)
(***************************************************************************)
EXTENDS Naturals, Sequences, FiniteSets, Services

CONSTANTS Steps,   \* the kind of each step: "robot", "ask"
          Blocks,  \* recording blocks: [from, to]
          MaxRuns,
          MaxTrouble  \* robot deaths, native clips, waits given up

ASSUME ControlRunsAssumption ==
    /\ Steps \in Seq({"robot", "ask"}) /\ Len(Steps) > 0
    /\ Blocks \in Seq([from : 1 .. Len(Steps), to : 1 .. Len(Steps)])
    /\ MaxRuns \in Nat /\ MaxTrouble \in Nat

VARIABLES run,     \* controlEngine's run and where execute is
          records, \* block -> runRecord and what the run shows for it
          starts,  \* recording -> its record-start, as far as the robot is
          stops,   \* recording -> its record-stop, likewise
          jobs,    \* robot step -> its robot run, likewise
          clip,    \* who holds clipMu
          lrRecs,  \* lrRecs: recordings the robot can stop by their id
          sequencing, \* who holds seqMu
          robotUp, trouble,
          unheard  \* history: requests the run gave up on, or no robot heard

robotVars == <<clip, lrRecs, sequencing>>
asked == <<starts, stops, jobs>>
controlVars == <<run, records, asked, robotVars, robotUp, trouble, unheard>>

BlockIds == DOMAIN Blocks
Rec(n, b) == <<"rec", n, b>>
Job(n, i) == <<"job", n, i>>
Recs == {Rec(n, b) : n \in 1 .. MaxRuns, b \in BlockIds}
Jobs == {Job(n, i) : n \in 1 .. MaxRuns, i \in DOMAIN Steps}
Nobody == <<>>
Person == <<"native clip">>

RunRecord ==
    [n : 0 .. MaxRuns, step : 0 .. Len(Steps) + 1, failed : {"no", "error", "cancelled"},
     at : {"idle", "starting", "step", "robot", "stopping robot", "saving"},
     status : {"none", "running", "success", "error", "cancelled"}, cancel : BOOLEAN]

BlockRecord ==
    [rec : BOOLEAN, done : {"nil", "open", "closed"},
     status : {"pending", "starting", "recording", "saving", "saved", "error", "skipped"}]

JobRecord ==
    [at : {"none", "sent", "running", "done"}, ok : BOOLEAN, busy : BOOLEAN,
     noRecord : BOOLEAN, cancel : BOOLEAN]

ControlTypeOK ==
    /\ run \in RunRecord
    /\ records \in [BlockIds -> BlockRecord]
    /\ starts \in [Recs -> {"none", "sent", "waiting", "recording", "refused"}]
    /\ stops \in [Recs -> {"none", "tail", "sent", "finishing", "saved", "error"}]
    /\ jobs \in [Jobs -> JobRecord]
    /\ clip \in {Nobody, Person} \cup Recs \cup Jobs
    /\ lrRecs \subseteq Recs
    /\ sequencing \in {Nobody} \cup Jobs
    /\ robotUp \in BOOLEAN /\ trouble \in 0 .. MaxTrouble
    /\ unheard \subseteq Recs \cup Jobs

NoJob == [at |-> "none", ok |-> FALSE, busy |-> FALSE, noRecord |-> FALSE, cancel |-> FALSE]
NewRecord == [rec |-> FALSE, done |-> "nil", status |-> "pending"]

ControlInit ==
    /\ run = [n |-> 0, step |-> 0, failed |-> "no", at |-> "idle", status |-> "none",
              cancel |-> FALSE]
    /\ records = [b \in BlockIds |-> NewRecord]
    /\ starts = [r \in Recs |-> "none"] /\ stops = [r \in Recs |-> "none"]
    /\ jobs = [j \in Jobs |-> NoJob]
    /\ clip = Nobody /\ lrRecs = {} /\ sequencing = Nobody
    /\ robotUp = TRUE /\ trouble = 0 /\ unheard = {}

Trouble == trouble < MaxTrouble /\ trouble' = trouble + 1

\* A wait given up: trouble if the answer was still to come.
GiveUp(request, coming) ==
    /\ IF coming THEN Trouble ELSE UNCHANGED trouble
    /\ unheard' = unheard \cup {request}

This(b) == Rec(run.n, b)
ThisJob == Job(run.n, run.step)
RobotKeeps == UNCHANGED <<robotVars, robotUp, trouble, unheard>>

-----------------------------------------------------------------------------
\* Requests of an earlier run that are over are nobody's any more.
Forget ==
    LET over == {r \in Recs : /\ r # clip /\ r \notin lrRecs /\ starts[r] # "sent"
                              /\ stops[r] \notin {"sent", "finishing"}}
                \cup {j \in Jobs : jobs[j].at \in {"none", "done"}}
    IN /\ starts' = [r \in Recs |-> IF r \in over THEN "none" ELSE starts[r]]
       /\ stops' = [r \in Recs |-> IF r \in over THEN "none" ELSE stops[r]]
       /\ jobs' = [j \in Jobs |-> IF j \in over THEN NoJob ELSE jobs[j]]
       /\ unheard' = unheard \ over

\* The run.
start ==
    /\ run.status # "running" /\ run.n < MaxRuns
    /\ run' = [n |-> run.n + 1, step |-> 1, failed |-> "no", at |-> "starting",
               status |-> "running", cancel |-> FALSE]
    /\ records' = [b \in BlockIds |-> NewRecord]
    /\ Forget
    /\ UNCHANGED <<robotVars, robotUp, trouble>>

cancel ==
    /\ run.status = "running" /\ ~run.cancel
    /\ run' = [run EXCEPT !.cancel = TRUE]
    /\ UNCHANGED <<records, asked>> /\ RobotKeeps

StartsHere == {b \in BlockIds : Blocks[b].from = run.step /\ records[b].status = "pending"}
Waiting == {b \in BlockIds : records[b].status = "starting"}

\* startRecord: the blocks that start with a step, one after another; one asked
\* for while there is no robot fails.
startRecord(b) ==
    /\ run.at = "starting" /\ Waiting = {} /\ b \in StartsHere
    /\ \A c \in StartsHere : b <= c
    /\ IF robotUp /\ \A c \in BlockIds : ~records[c].rec
       THEN /\ records' = [records EXCEPT ![b].status = "starting"]
            /\ starts' = [starts EXCEPT ![This(b)] = "sent"]
       ELSE records' = [records EXCEPT ![b].status = "error"] /\ UNCHANGED starts
    /\ UNCHANGED <<run, stops, jobs>> /\ RobotKeeps

\* The robot's answer, or none in time: the recording is then nobody's.
recordAnswered(b) ==
    /\ b \in Waiting
    /\ \/ /\ starts[This(b)] = "recording"
          /\ records' = [records EXCEPT ![b].status = "recording", ![b].rec = TRUE]
          /\ UNCHANGED <<trouble, unheard>>
       \/ /\ starts[This(b)] = "refused"
          /\ records' = [records EXCEPT ![b].status = "error"]
          /\ UNCHANGED <<trouble, unheard>>
       \/ /\ starts[This(b)] \notin {"recording", "refused"}
          /\ records' = [records EXCEPT ![b].status = "error"]
          /\ GiveUp(This(b), starts[This(b)] # "none")
    /\ UNCHANGED <<run, asked, robotVars, robotUp>>

beginStep ==
    /\ run.at = "starting" /\ StartsHere = {} /\ Waiting = {}
    /\ run' = [run EXCEPT !.at = "step"]
    /\ UNCHANGED <<records, asked>> /\ RobotKeeps

\* The robot records this screen for the run, or is about to stop.
recordingHere == \E b \in BlockIds : records[b].rec \/ records[b].done = "open"

\* stopRecord on each of bs, with or without the tail.
stopRecord(bs) ==
    /\ records' = [b \in BlockIds |->
           IF b \in bs THEN [records[b] EXCEPT !.rec = FALSE, !.done = "open"]
           ELSE records[b]]
    /\ stops' = [r \in Recs |->
           IF \E b \in bs : r = This(b) THEN "tail" ELSE stops[r]]

\* A step is done: its recordings are stopped in the background.
stopRecordings ==
    /\ stopRecord({b \in BlockIds : Blocks[b].to = run.step /\ records[b].rec})
    /\ run' = IF run.step = Len(Steps) THEN [run EXCEPT !.at = "saving"]
              ELSE [run EXCEPT !.at = "starting", !.step = @ + 1]
    /\ UNCHANGED <<starts, jobs>>

\* A step failed or was cancelled; what has not started is skipped.
stepFails(why) ==
    /\ run' = [run EXCEPT !.at = "saving", !.failed = why]
    /\ UNCHANGED <<records, asked>>

\* opAskUser, for any step that waits for something other than the robot.
opAskUser ==
    /\ run.at = "step" /\ Steps[run.step] = "ask"
    /\ \/ stopRecordings
       \/ stepFails("error")
       \/ run.cancel /\ stepFails("cancelled")
    /\ RobotKeeps

\* robotRun: refused without a robot; the run then waits for its report.
robotRun ==
    /\ run.at = "step" /\ Steps[run.step] = "robot"
    /\ IF ~robotUp THEN stepFails("error")
       ELSE /\ run' = [run EXCEPT !.at = "robot"]
            /\ jobs' = [jobs EXCEPT ![ThisJob] =
                   [NoJob EXCEPT !.at = "sent", !.noRecord = recordingHere]]
            /\ UNCHANGED <<records, starts, stops>>
    /\ RobotKeeps

robotReports ==
    /\ run.at = "robot" /\ jobs[ThisJob].at = "done"
    /\ IF jobs[ThisJob].ok THEN stopRecordings ELSE stepFails("error")
    /\ RobotKeeps

cancelRobotRun ==
    /\ run.at = "robot" /\ run.cancel
    /\ run' = [run EXCEPT !.at = "stopping robot"]
    /\ jobs' = [jobs EXCEPT ![ThisJob].cancel = robotUp /\ jobs[ThisJob].at # "done"]
    /\ UNCHANGED <<records, starts, stops>> /\ RobotKeeps

\* It stopped, or has been waited for long enough.
robotStopped ==
    /\ run.at = "stopping robot"
    /\ IF jobs[ThisJob].at = "done" THEN UNCHANGED <<trouble, unheard>>
       ELSE GiveUp(ThisJob, jobs[ThisJob].at # "none")
    /\ stepFails("cancelled")
    /\ UNCHANGED <<robotVars, robotUp>>

\* Mutant: the budget is given up only while there is a robot.
BudgetWithRobot ==
    /\ run.at = "robot" /\ robotUp /\ jobs[ThisJob].at \notin {"none", "done"}
    /\ GiveUp(ThisJob, TRUE)
    /\ stepFails("error")
    /\ UNCHANGED <<robotVars, robotUp>>

robotRunBudget ==
    /\ run.at = "robot" /\ jobs[ThisJob].at # "done"
    /\ GiveUp(ThisJob, jobs[ThisJob].at # "none")
    /\ stepFails("error")
    /\ UNCHANGED <<robotVars, robotUp>>

\* Mutant: what is under way is forgotten, not stopped.
LeaveRecordings ==
    /\ run.at = "saving" /\ \E b \in BlockIds : records[b].rec \/ records[b].status = "pending"
    /\ records' = [b \in BlockIds |-> [records[b] EXCEPT !.rec = FALSE,
                       !.status = IF @ = "pending" THEN "skipped" ELSE @]]
    /\ UNCHANGED <<run, asked>> /\ RobotKeeps

\* finishRecordings: every recording still under way is stopped, and waited for.
finishRecordings ==
    /\ run.at = "saving" /\ \E b \in BlockIds : records[b].rec \/ records[b].status = "pending"
    /\ LET on == {b \in BlockIds : records[b].rec} IN
       IF on # {} THEN stopRecord(on)
       ELSE /\ records' = [b \in BlockIds |->
                   IF records[b].status = "pending" THEN [records[b] EXCEPT !.status = "skipped"]
                   ELSE records[b]]
            /\ UNCHANGED stops
    /\ UNCHANGED <<run, starts, jobs>> /\ RobotKeeps

execute ==
    /\ run.at = "saving"
    /\ \A b \in BlockIds : /\ ~records[b].rec /\ records[b].done # "open"
                           /\ records[b].status # "pending"
    /\ run' = [run EXCEPT !.at = "idle",
                          !.status = IF run.failed = "no" THEN "success" ELSE run.failed]
    /\ UNCHANGED <<records, asked>> /\ RobotKeeps

-----------------------------------------------------------------------------
\* The goroutine that stops a recording: the tail is over, or there is none.
sendStop(b) ==
    /\ records[b].done = "open" /\ stops[This(b)] = "tail"
    /\ stops' = [stops EXCEPT ![This(b)] = IF robotUp THEN "sent" ELSE "error"]
    /\ records' = [records EXCEPT ![b].status = "saving"]
    /\ unheard' = IF robotUp THEN unheard ELSE unheard \cup {This(b)}
    /\ UNCHANGED <<run, starts, jobs, robotVars, robotUp, trouble>>

recordSaved(b) ==
    /\ records[b].done = "open" /\ stops[This(b)] # "tail"
    /\ records' = [records EXCEPT ![b].done = "closed",
                       ![b].status = IF stops[This(b)] = "saved" THEN "saved" ELSE "error"]
    /\ IF stops[This(b)] \in {"saved", "error"} THEN UNCHANGED <<trouble, unheard>>
       ELSE GiveUp(This(b), stops[This(b)] # "none")
    /\ UNCHANGED <<run, asked, robotVars, robotUp>>

-----------------------------------------------------------------------------
\* The robot.
LRKeeps == UNCHANGED <<run, records, robotUp, unheard>>

\* A record-start waits while an earlier recording holds the recorder, unless
\* that takes too long; nothing else is waited for.
\* Mutant: a recording being stopped is taken to be over.
StoppedIsOver == lrRecs # {}

Stopping == {r \in Recs : stops[r] = "finishing"}
lrRecordBusy == lrRecs # {} \/ Stopping # {}

startLRRecording(r) ==
    /\ robotUp /\ starts[r] = "sent"
    /\ \/ /\ clip = Nobody /\ clip' = r /\ lrRecs' = lrRecs \cup {r}
          /\ starts' = [starts EXCEPT ![r] = "recording"] /\ UNCHANGED trouble
       \/ /\ clip # Nobody /\ ~lrRecordBusy
          /\ starts' = [starts EXCEPT ![r] = "refused"]
          /\ UNCHANGED <<clip, lrRecs, trouble>>
       \/ /\ clip # Nobody /\ lrRecordBusy /\ Trouble
          /\ starts' = [starts EXCEPT ![r] = "refused"] /\ UNCHANGED <<clip, lrRecs>>
    /\ UNCHANGED <<sequencing, stops, jobs>> /\ LRKeeps

\* The recording's ten minutes are over; its id stays.
lrRecordMax(r) ==
    /\ r \in lrRecs /\ clip = r
    /\ clip' = Nobody
    /\ UNCHANGED <<lrRecs, sequencing, asked, trouble>> /\ LRKeeps

stopLRRecording(r) ==
    /\ robotUp /\ stops[r] = "sent"
    /\ IF r \in lrRecs THEN lrRecs' = lrRecs \ {r} /\ stops' = [stops EXCEPT ![r] = "finishing"]
       ELSE stops' = [stops EXCEPT ![r] = "error"] /\ UNCHANGED lrRecs
    /\ UNCHANGED <<clip, sequencing, starts, jobs, trouble>> /\ LRKeeps

\* finish, once; then the artifact is kept and uploaded.
finish(r) ==
    /\ stops[r] = "finishing"
    /\ clip' = IF clip = r THEN Nobody ELSE clip
    /\ \E saved \in {"saved", "error"} : stops' = [stops EXCEPT ![r] = saved]
    /\ UNCHANGED <<lrRecs, sequencing, starts, jobs, trouble>> /\ LRKeeps

\* A robot run needs the robot to itself, and the recorder unless the run that
\* asked for it is recording.
runSequence(j) ==
    /\ robotUp /\ jobs[j].at = "sent"
    /\ LET busy == sequencing # Nobody \/ (~jobs[j].noRecord /\ clip # Nobody) IN
       /\ jobs' = [jobs EXCEPT ![j].at = IF busy THEN "done" ELSE "running",
                               ![j].busy = busy]
       /\ sequencing' = IF busy THEN sequencing ELSE j
       /\ clip' = IF busy \/ jobs[j].noRecord THEN clip ELSE j
    /\ UNCHANGED <<lrRecs, starts, stops, trouble>> /\ LRKeeps

runForLR(j) ==
    /\ robotUp /\ jobs[j].at = "running"
    /\ \E ok \in (IF jobs[j].cancel THEN {FALSE} ELSE BOOLEAN) :
           jobs' = [jobs EXCEPT ![j].at = "done", ![j].ok = ok]
    /\ sequencing' = Nobody /\ clip' = IF clip = j THEN Nobody ELSE clip
    /\ UNCHANGED <<lrRecs, starts, stops, trouble>> /\ LRKeeps

\* Somebody records a native clip.
recordNativeClip ==
    /\ robotUp
    /\ \/ clip = Nobody /\ clip' = Person /\ Trouble
       \/ clip = Person /\ clip' = Nobody /\ UNCHANGED trouble
    /\ UNCHANGED <<lrRecs, sequencing, asked>> /\ LRKeeps

\* The robot's process ends, with all it knows.
RobotDies ==
    /\ robotUp /\ Trouble /\ robotUp' = FALSE
    /\ clip' = Nobody /\ lrRecs' = {} /\ sequencing' = Nobody
    /\ starts' = [r \in Recs |-> IF starts[r] = "sent" THEN "none" ELSE starts[r]]
    /\ stops' = [r \in Recs |-> IF stops[r] \in {"sent", "finishing"} THEN "none" ELSE stops[r]]
    /\ jobs' = [j \in Jobs |-> IF jobs[j].at \in {"sent", "running"} THEN NoJob ELSE jobs[j]]
    /\ unheard' = unheard \cup {r \in Recs : r[2] = run.n} \cup {j \in Jobs : j[2] = run.n}
    /\ UNCHANGED <<run, records>>

RobotReturns ==
    /\ ~robotUp /\ robotUp' = TRUE
    /\ UNCHANGED <<run, records, asked, robotVars, trouble, unheard>>

ControlNext ==
    \/ start \/ cancel \/ beginStep \/ opAskUser
    \/ robotRun \/ robotReports \/ cancelRobotRun \/ robotStopped \/ robotRunBudget
    \/ finishRecordings \/ execute
    \/ \E b \in BlockIds : startRecord(b) \/ recordAnswered(b) \/ sendStop(b) \/ recordSaved(b)
    \/ \E r \in Recs : \/ startLRRecording(r) \/ lrRecordMax(r)
                       \/ stopLRRecording(r) \/ finish(r)
    \/ \E j \in Jobs : runSequence(j) \/ runForLR(j)
    \/ recordNativeClip \/ RobotDies \/ RobotReturns

ControlSpec == ControlInit /\ [][ControlNext]_controlVars

\* Goroutines run, waits are given up when nothing comes, timers fire.
ControlFairness ==
    /\ WF_controlVars(Moves("control") /\ beginStep) /\ WF_controlVars(Moves("control") /\ opAskUser)
    /\ WF_controlVars(Moves("control") /\ (robotRun \/ robotReports)) /\ WF_controlVars(Moves("control") /\ cancelRobotRun)
    /\ WF_controlVars(Moves("control") /\ robotStopped) /\ WF_controlVars(Moves("control") /\ robotRunBudget)
    /\ WF_controlVars(Moves("control") /\ (finishRecordings \/ execute))
    /\ \A b \in BlockIds : WF_controlVars(Moves("control") /\ (\/ startRecord(b) \/ recordAnswered(b)
                                          \/ sendStop(b) \/ recordSaved(b)))
    /\ \A r \in Recs : /\ WF_controlVars(Moves("control") /\ startLRRecording(r)) /\ WF_controlVars(Moves("control") /\ lrRecordMax(r))
                       /\ WF_controlVars(Moves("control") /\ (stopLRRecording(r) \/ finish(r)))
    /\ \A j \in Jobs : WF_controlVars(Moves("control") /\ (runSequence(j) \/ runForLR(j)))
    /\ WF_controlVars(Moves("control") /\ (clip = Person /\ recordNativeClip))

-----------------------------------------------------------------------------
\* A run comes to an end, whatever the robot and the people in it do not do;
\* and the recorder is not left to a sequence that never asks to stop
\* (controlops.go, ianar/lrrecord.go startLRRecording).
RunSettles == []<>(run.status # "running") /\ \A r \in Recs : []<>(clip # r)

\* A run that has ended, cancelled or not, leaves nothing of it recording or in
\* the robot's hands, unless an answer did not come in time.
QuietAfterRun ==
    run.status # "running" =>
        /\ clip \in {Nobody, Person} \cup unheard
        /\ sequencing \in {Nobody} \cup unheard
        /\ \A r \in Recs \ unheard : starts[r] # "sent" /\ stops[r] \notin {"sent", "finishing"}

\* The run's own recordings are in nobody's way: not that of the block that
\* follows, nor of a step the robot carries out meanwhile.
RecordingsGiveWay ==
    trouble = 0 => /\ \A r \in Recs : starts[r] # "refused"
                   /\ \A j \in Jobs : ~jobs[j].busy

\* The robot's recorder around a run: free after it, and for its next steps
\* while it runs.
RecordingsApart == QuietAfterRun /\ RecordingsGiveWay
=============================================================================
