----------------------------- MODULE Condoccer -----------------------------
(***************************************************************************)
(* condoccer's slopspace handler (slopspace.go): the pointer file of each  *)
(* condoc, the driver that reacts to directives in idle condocs, the turn  *)
(* loop that runs queued turns one at a time through the stages            *)
(*     queued -> deployed -> signalled -> returned -> replied              *)
(* and Force Complete.  They run concurrently in one process and share the *)
(* claims, the queue and the force flags; the pointer files, the condoc    *)
(* files, the slopspaces and the work signals survive it.                  *)
(*                                                                         *)
(* Not here: proposing and accepting a condoc before its first step, and   *)
(* raising and merging its PRs after the propose-PR turn; and whoever else *)
(* can move slopspaces, which is the slopspace panel of the worker tab     *)
(* (dungeon-keeper/slopctl.go) and condocv2.                               *)
(***************************************************************************)
EXTENDS Worker, SequencesExt

VARIABLES
    spec,       \* pointer files (PointerSpec)
    doc,        \* what each condoc's files say next
    dirty,      \* the condoc repo has edits no pushed commit holds
    replies,    \* replies written since the last prompt, two meaning more
    replyFile,  \* REPLY.md, the captured reply, is in the slopspace
    busy,       \* slop.busy: the claims
    queue,      \* slop.queue
    running,    \* slop.running
    force,      \* slop.force
    tick,       \* the driver's pass over the condocs
    drive,      \* driveSpec on the condoc it has claimed
    loop,       \* slopTurnLoop
    forcing     \* forceCompleteClaimed, per condoc

pointerVars == <<spec, doc, dirty, replies, replyFile>>
memoryVars == <<busy, queue, running, force, tick, drive, loop, forcing>>
vars == <<workerVars, pointerVars, memoryVars>>

Phase == {"awaiting_action", "queued", "agent_running", "completed", "pr_proposed"}
Stage == {"queued", "deployed", "signalled", "returned", "replied"}
TurnKind == {"none", "turn", "propose_pr"}

\* kind "none" is the absent turn.  "turn" stands for the step, revision,
\* substep and substep-revision turns, which differ in their prompts only.
\* sig is the signal's role and creation time, 0 before it is submitted.
PointerTurn == [kind : TurnKind, stage : Stage, sig : 0 .. MaxSignals]
PointerSpec == [phase : Phase, turn : PointerTurn, err : BOOLEAN]

NewTurn(kind) == [kind |-> kind, stage |-> "queued", sig |-> 0]
NoTurn == NewTurn("none")

\* What detectPhase and the directives make of the condoc files:
\*   awaiting   a template and a Human-Prompt, nothing asked
\*   handoff    !HANDOFF! with a step, substep or revision to run
\*   closing    !COMPLETED! on a step or substep
\*   finishing  !COMPLETED! on the condoc
\*   pending    directive consumed, no reply: reads as agent_running
\*   replied    a reply but no Human-Prompt yet: reads as agent_running
\*   completed
DocState == {"awaiting", "handoff", "closing", "finishing", "pending",
             "replied", "completed"}

DriveState ==
    [pc : {"idle", "claimed", "start", "queue", "close"},
     stem : Condocs \cup {None}, mem : PointerSpec]
LoopState ==
    [pc : {"idle", "stage", "deploy", "save", "after", "settled", "force"},
     stem : Condocs \cup {None}, mem : PointerSpec,
     end : {"ok", "wait", "error", "abandoned"}]
ForceState ==
    [pc : {"idle", "signal", "return", "write", "finalize", "commit"},
     by : {"ui", "loop"}, mem : PointerSpec]

NoSpec == [phase |-> "awaiting_action", turn |-> NoTurn, err |-> FALSE]
DriveIdle == [pc |-> "idle", stem |-> None, mem |-> NoSpec]
LoopIdle == [pc |-> "idle", stem |-> None, mem |-> NoSpec, end |-> "ok"]
NotForcing == [pc |-> "idle", by |-> "ui", mem |-> NoSpec]

PointersTypeOK ==
    /\ spec \in [Condocs -> PointerSpec]
    /\ doc \in [Condocs -> DocState]
    /\ dirty \in [Condocs -> BOOLEAN]
    /\ replies \in [Condocs -> 0 .. 2]
    /\ replyFile \in [Condocs -> BOOLEAN]

MemoryTypeOK ==
    /\ busy \in [Condocs -> BOOLEAN]
    /\ queue \in Seq(Condocs)
    /\ running \in Condocs \cup {None}
    /\ force \in [Condocs -> BOOLEAN]
    /\ tick \in [todo : SUBSET Condocs, seen : [Condocs -> PointerSpec]]
    /\ drive \in DriveState
    /\ loop \in LoopState
    /\ forcing \in [Condocs -> ForceState]

\* The type invariant of everything: the slopspaces, the work signals, the
\* workers, the pointers and condoccer's memory.
TypeOK ==
    /\ SlopspacesTypeOK /\ WorkSignalsTypeOK /\ WorkerTypeOK
    /\ PointersTypeOK /\ MemoryTypeOK

\* What condoccer's memory holds when it has just started.
MemoryInit ==
    /\ busy = [c \in Condocs |-> FALSE]
    /\ queue = <<>>
    /\ running = None
    /\ force = [c \in Condocs |-> FALSE]
    /\ tick = [todo |-> {}, seen |-> [c \in Condocs |-> NoSpec]]
    /\ drive = DriveIdle
    /\ loop = LoopIdle
    /\ forcing = [c \in Condocs |-> NotForcing]

\* Every condoc has been accepted and has a step's template to fill in.
Init ==
    /\ WorkerInit
    /\ spec = [c \in Condocs |-> NoSpec]
    /\ doc = [c \in Condocs |-> "awaiting"]
    /\ dirty = [c \in Condocs |-> FALSE]
    /\ replies = [c \in Condocs |-> 0]
    /\ replyFile = [c \in Condocs |-> FALSE]
    /\ MemoryInit

-----------------------------------------------------------------------------
(* Claims, the queue and pointer writes.                                   *)

Claim(c) == ~busy[c] /\ busy' = [busy EXCEPT ![c] = TRUE]

Release(c) == busy' = [busy EXCEPT ![c] = FALSE]

Queued(c) == \E n \in DOMAIN queue : queue[n] = c

\* A condoc whose turn waits or runs is not queued again.
EnqueueTurn(c) ==
    queue' = IF running = c \/ Queued(c) THEN queue ELSE Append(queue, c)

\* dequeue; a condoc is queued at most once, so its place is the first.
Without(c) ==
    IF Queued(c) THEN RemoveAt(queue, CHOOSE n \in DOMAIN queue : queue[n] = c)
                 ELSE queue

WriteSpec(c, s) == spec' = [spec EXCEPT ![c] = s]

WithError(s) == [s EXCEPT !.err = TRUE]

\* writeSpec's commit can fail once the file is written, or before.
WriteSpecFails(c, s) == Spend("fault") /\ spec' \in {spec, [spec EXCEPT ![c] = s]}

\* The condoc repo and the targets are where their slopspace has them.
HasTree(c) == IF deployed[c] THEN pathTree = c ELSE homeTree[c] = c

\* The pointer phase that mirrors the files of an idle condoc.
SyncedPhase(d) == IF d = "completed" THEN "completed" ELSE "awaiting_action"

Synced(s, d) == [s EXCEPT !.phase = SyncedPhase(d)]

\* syncSpecState writes only a pointer that differs.
SyncSpec(c, s, d) ==
    spec' = IF s = Synced(s, d) THEN spec ELSE [spec EXCEPT ![c] = Synced(s, d)]

-----------------------------------------------------------------------------
(* What a human asks for in the UI.  Each of these holds the claim for the *)
(* whole of its short edit.                                                *)

\* slopBeginEdit refuses a claimed condoc, one with a turn, one deployed.
Editable(c) == ~busy[c] /\ spec[c].turn.kind = "none" /\ ~deployed[c]

Directive(c) ==
    /\ Editable(c)
    /\ doc[c] = "awaiting"
    /\ Spend("prompt")
    /\ \E d \in {"handoff", "closing", "finishing"} : doc' = [doc EXCEPT ![c] = d]
    /\ dirty' = [dirty EXCEPT ![c] = TRUE]
    /\ UNCHANGED <<slopspaceVars, signalVars, worker, spec, replies, replyFile, memoryVars>>

Resubmit(c) ==
    /\ ~busy[c]
    /\ spec[c].err
    /\ Spend("resubmit")
    /\ WriteSpec(c, [spec[c] EXCEPT !.err = FALSE])
    /\ UNCHANGED <<slopspaceVars, signalVars, worker, doc, dirty, replies, replyFile, memoryVars>>

RegeneratePRs(c) ==
    /\ ~busy[c]
    /\ spec[c].phase = "pr_proposed"
    /\ Spend("prompt")
    /\ WriteSpec(c, [phase |-> "queued", turn |-> NewTurn("propose_pr"), err |-> FALSE])
    /\ EnqueueTurn(c)
    /\ UNCHANGED <<slopspaceVars, signalVars, worker, doc, dirty, replies, replyFile,
                   busy, running, force, tick, drive, loop, forcing>>

-----------------------------------------------------------------------------
(* The driver: slopTick reads every pointer at once and then visits each   *)
(* condoc, which can be much later: driveSpec pushes to git on the way.    *)

TickRead ==
    /\ tick.todo = {} /\ drive = DriveIdle
    /\ tick' = [todo |-> Condocs, seen |-> spec]
    /\ UNCHANGED <<workerVars, pointerVars, busy, queue, running, force, drive, loop, forcing>>

Visit(c) ==
    /\ drive = DriveIdle
    /\ c \in tick.todo
    /\ tick' = [todo |-> tick.todo \ {c}, seen |-> [tick.seen EXCEPT ![c] = NoSpec]]

\* Mutant: nobody queues a turn again that a restart took off the queue.
VisitForgetsTurn(c) ==
    /\ Visit(c)
    /\ tick.seen[c].turn.kind # "none" /\ ~tick.seen[c].err
    /\ UNCHANGED <<workerVars, pointerVars, busy, queue, running, force, drive, loop, forcing>>

\* A condoc with a turn and no error is queued, unclaimed, on the word of a
\* pointer read at the start of the pass.
VisitTurn(c) ==
    /\ Visit(c)
    /\ tick.seen[c].turn.kind # "none" /\ ~tick.seen[c].err
    /\ EnqueueTurn(c)
    /\ UNCHANGED <<workerVars, pointerVars, busy, running, force, drive, loop, forcing>>

\* An errored condoc waits for Resubmit; a claimed one for the next pass.
VisitSkip(c) ==
    /\ Visit(c)
    /\ tick.seen[c].err \/ (tick.seen[c].turn.kind = "none" /\ busy[c])
    /\ UNCHANGED <<workerVars, pointerVars, busy, queue, running, force, drive, loop, forcing>>

VisitIdle(c) ==
    /\ Visit(c)
    /\ tick.seen[c].turn.kind = "none" /\ ~tick.seen[c].err
    /\ Claim(c)
    /\ drive' = [pc |-> "claimed", stem |-> c, mem |-> tick.seen[c]]
    /\ UNCHANGED <<workerVars, pointerVars, queue, running, force, loop, forcing>>

\* The driver works on c, which it has claimed.
Driving(c, pc) == drive.pc = pc /\ drive.stem = c

DriveDone(c) == drive' = DriveIdle /\ Release(c)

DriveNext(pc, s) == drive' = [drive EXCEPT !.pc = pc, !.mem = s]

\* Phases and deployments in which the files are not the driver's to act on.
HandsOff(c) == drive.mem.phase \in {"queued", "pr_proposed"} \/ deployed[c]

\* A pending prompt that has its turn, or its error, by now.
NothingToRecover(c) ==
    doc[c] = "pending" /\ (spec[c].turn.kind # "none" \/ spec[c].err)

DriveNothing(c) ==
    /\ Driving(c, "claimed")
    /\ HandsOff(c) \/ NothingToRecover(c)
    /\ DriveDone(c)
    /\ UNCHANGED <<workerVars, pointerVars, queue, running, force, tick, loop, forcing>>

\* The prompt or the completion is written into the files; the commit and
\* the pointer follow.
DriveHandoff(c) ==
    /\ Driving(c, "claimed") /\ ~HandsOff(c)
    /\ doc[c] = "handoff"
    /\ doc' = [doc EXCEPT ![c] = "pending"]
    /\ replies' = [replies EXCEPT ![c] = 0]
    /\ dirty' = [dirty EXCEPT ![c] = TRUE]
    /\ DriveNext("start", drive.mem)
    /\ UNCHANGED <<workerVars, spec, replyFile, busy, queue, running, force, tick, loop, forcing>>

DriveCompletion(c) ==
    /\ Driving(c, "claimed") /\ ~HandsOff(c)
    /\ doc[c] \in {"closing", "finishing"}
    /\ doc' = [doc EXCEPT ![c] = IF @ = "closing" THEN "awaiting" ELSE "completed"]
    /\ dirty' = [dirty EXCEPT ![c] = TRUE]
    /\ DriveNext("close", drive.mem)
    /\ UNCHANGED <<workerVars, spec, replies, replyFile, busy, queue, running, force, tick, loop, forcing>>

\* Mutant: a turn is recovered without its prompt being committed.
RecoverUncommitted(c) ==
    /\ Driving(c, "claimed") /\ ~HandsOff(c)
    /\ doc[c] = "pending" /\ ~NothingToRecover(c)
    /\ DriveNext("queue", spec[c])
    /\ UNCHANGED <<workerVars, pointerVars, busy, queue, running, force, tick, loop, forcing>>

\* Mutant: a consumed prompt without a turn is nothing to act on.
RecoverNothing(c) ==
    /\ Driving(c, "claimed") /\ ~HandsOff(c)
    /\ doc[c] = "pending" /\ ~NothingToRecover(c)
    /\ DriveDone(c)
    /\ UNCHANGED <<workerVars, pointerVars, queue, running, force, tick, loop, forcing>>

\* slopRecoverTurn: a prompt was consumed and its turn never recorded.  The
\* pointer is read again, since the driver's copy predates the claim.
DriveRecover(c) ==
    /\ Driving(c, "claimed") /\ ~HandsOff(c)
    /\ doc[c] = "pending" /\ ~NothingToRecover(c)
    /\ DriveNext("start", spec[c])
    /\ UNCHANGED <<workerVars, pointerVars, busy, queue, running, force, tick, loop, forcing>>

OnlySyncs(c) ==
    /\ Driving(c, "claimed") /\ ~HandsOff(c)
    /\ \/ doc[c] = "awaiting"
       \/ doc[c] = "completed" /\ drive.mem.phase # "completed"

DriveSync(c) ==
    /\ OnlySyncs(c)
    /\ SyncSpec(c, drive.mem, doc[c])
    /\ DriveDone(c)
    /\ UNCHANGED <<workerVars, doc, dirty, replies, replyFile, queue, running, force, tick, loop, forcing>>

\* What queueing a turn writes on the pointer.
QueuedSpec(s, kind) == [s EXCEPT !.phase = "queued", !.turn = NewTurn(kind)]

ProposalDue(c) ==
    /\ Driving(c, "claimed") /\ ~HandsOff(c)
    /\ doc[c] = "completed" /\ drive.mem.phase = "completed"

\* The turn due: the prompt just committed, or the completed condoc's PRs.
DueTurn(c) == IF Driving(c, "queue") THEN "turn" ELSE "propose_pr"

DriveCommit(c) ==
    /\ Driving(c, "start")
    /\ dirty' = [dirty EXCEPT ![c] = FALSE]
    /\ DriveNext("queue", drive.mem)
    /\ UNCHANGED <<workerVars, spec, doc, replies, replyFile, busy, queue, running, force, tick, loop, forcing>>

QueueTurn(c) ==
    /\ Driving(c, "queue") \/ ProposalDue(c)
    /\ WriteSpec(c, QueuedSpec(drive.mem, DueTurn(c)))
    /\ EnqueueTurn(c)
    /\ DriveDone(c)
    /\ UNCHANGED <<workerVars, doc, dirty, replies, replyFile, running, force, tick, loop, forcing>>

QueueTurnFails(c) ==
    /\ Driving(c, "queue") \/ ProposalDue(c)
    /\ Spend("fault")
    /\ \E s \in {spec[c], QueuedSpec(drive.mem, DueTurn(c))} : WriteSpec(c, WithError(s))
    /\ DriveDone(c)
    /\ UNCHANGED <<slopspaceVars, signalVars, worker, doc, dirty, replies, replyFile, queue, running, force, tick, loop, forcing>>

DriveClose(c) ==
    /\ Driving(c, "close")
    /\ dirty' = [dirty EXCEPT ![c] = FALSE]
    /\ SyncSpec(c, drive.mem, doc[c])
    /\ DriveDone(c)
    /\ UNCHANGED <<workerVars, doc, replies, replyFile, queue, running, force, tick, loop, forcing>>

\* The pointer that mirrors the files differs and writing it fails.
DriveSyncFails(c) ==
    /\ OnlySyncs(c) \/ Driving(c, "close")
    /\ drive.mem # Synced(drive.mem, doc[c])
    /\ Spend("fault")
    /\ dirty' = [dirty EXCEPT ![c] = @ /\ OnlySyncs(c)]
    /\ \E s \in {spec[c], Synced(drive.mem, doc[c])} : WriteSpec(c, WithError(s))
    /\ DriveDone(c)
    /\ UNCHANGED <<slopspaceVars, signalVars, worker, doc, replies, replyFile, queue, running, force, tick, loop, forcing>>

\* A failed commit or push is recorded as the condoc's error.
DriveCommitFails(c) ==
    /\ Driving(c, "start") \/ Driving(c, "close")
    /\ Spend("fault")
    /\ WriteSpec(c, WithError(spec[c]))
    /\ DriveDone(c)
    /\ UNCHANGED <<slopspaceVars, signalVars, worker, doc, dirty, replies, replyFile, queue, running, force, tick, loop, forcing>>

-----------------------------------------------------------------------------
(* The turn loop: the head of the queue is claimed, its turn is run as far *)
(* as it goes, and it leaves the queue unless it has to wait.              *)

Loop(c, pc) == loop.pc = pc /\ loop.stem = c

\* runTurn is at a stage of a turn of this kind.
Running(c, kind, stage) ==
    Loop(c, "stage") /\ loop.mem.turn.kind = kind /\ loop.mem.turn.stage = stage

\* The stage's work is done; the pointer is written next.
Save(s) == loop' = [loop EXCEPT !.pc = "save", !.mem = s]

End(end) == loop' = [loop EXCEPT !.pc = "after", !.end = end]

\* Mutant: the pointer's phase takes the stage.
PhaseTakesStage(stage, s) == [s EXCEPT !.phase = stage]

AtStage(stage, s) == [s EXCEPT !.turn.stage = stage]

LoopClaim(c) ==
    /\ loop = LoopIdle
    /\ queue # <<>> /\ Head(queue) = c
    /\ Claim(c)
    /\ running' = c
    /\ loop' = [pc |-> IF spec[c].turn.kind = "none" THEN "after" ELSE "stage",
                stem |-> c, mem |-> spec[c], end |-> "ok"]
    /\ UNCHANGED <<workerVars, pointerVars, queue, force, tick, drive, forcing>>

\* Another slopspace is at the deploy path: the turn stays at the head.
TurnWaits(c) ==
    /\ Running(c, "turn", "queued")
    /\ marker \notin {None, c}
    /\ End("wait")
    /\ UNCHANGED <<workerVars, pointerVars, busy, queue, running, force, tick, drive, forcing>>

\* Mutant: the deploy path is not looked at.
SyncRegardless(c) ==
    /\ Running(c, "turn", "queued")
    /\ loop' = [loop EXCEPT !.pc = "deploy"]
    /\ UNCHANGED <<workerVars, pointerVars, busy, queue, running, force, tick, drive, forcing>>

\* The deploy path was free when looked at; syncing the targets, which a
\* slopspace left deployed skips, takes time.
TurnSyncs(c) ==
    /\ Running(c, "turn", "queued")
    /\ marker \in {None, c}
    /\ deployed[c] \/ HasTree(c)
    /\ loop' = [loop EXCEPT !.pc = "deploy"]
    /\ UNCHANGED <<workerVars, pointerVars, busy, queue, running, force, tick, drive, forcing>>

TurnDeploys(c) ==
    /\ Loop(c, "deploy")
    /\ IF deployed[c] THEN UNCHANGED slopspaceVars ELSE Deploy(c)
    /\ Save(AtStage("deployed", [loop.mem EXCEPT !.phase = "agent_running"]))
    /\ UNCHANGED <<signalVars, worker, used, pointerVars, busy, queue, running, force, tick, drive, forcing>>

TurnSignals(c) ==
    /\ Running(c, "turn", "deployed")
    /\ deployed[c] /\ HasTree(c)
    /\ Create(c, "slopspace")
    /\ Save(AtStage("signalled", [loop.mem EXCEPT !.turn.sig = created + 1]))
    /\ UNCHANGED <<slopspaceVars, worker, used, pointerVars, busy, queue, running, force, tick, drive, forcing>>

\* Mutant: the slopspace is left deployed when its turn is over.
ReturnForgotten(c) ==
    /\ Running(c, "turn", "signalled")
    /\ complete[loop.mem.turn.sig]
    /\ replyFile' = [replyFile EXCEPT ![c] = TRUE]
    /\ Save(AtStage("returned", loop.mem))
    /\ UNCHANGED <<workerVars, spec, doc, dirty, replies, busy, queue, running, force, tick, drive, forcing>>

\* Mutant: a signal is taken as over once a worker has it.
ReturnWhenTaken(c) ==
    /\ Running(c, "turn", "signalled")
    /\ ongoing[loop.mem.turn.sig] # "pending"
    /\ replyFile' = [replyFile EXCEPT ![c] = TRUE]
    /\ IF deployed[c] THEN Return(c) ELSE UNCHANGED slopspaceVars
    /\ Save(AtStage("returned", loop.mem))
    /\ UNCHANGED <<signalVars, worker, used, spec, doc, dirty, replies, busy, queue, running, force, tick, drive, forcing>>

\* awaitSignal's poll finds the signal in complete/, whatever its outcome:
\* the reply is captured in a file first, and only then is the slopspace
\* returned.
TurnReturns(c) ==
    /\ Running(c, "turn", "signalled")
    /\ complete[loop.mem.turn.sig]
    /\ replyFile' = [replyFile EXCEPT ![c] = TRUE]
    /\ IF deployed[c] THEN Return(c) ELSE UNCHANGED slopspaceVars
    /\ Save(AtStage("returned", loop.mem))
    /\ UNCHANGED <<signalVars, worker, used, spec, doc, dirty, replies, busy, queue, running, force, tick, drive, forcing>>

\* The same, with nothing left at the deploy path to move back.
TurnReturnFails(c) ==
    /\ Running(c, "turn", "signalled")
    /\ complete[loop.mem.turn.sig]
    /\ replyFile' = [replyFile EXCEPT ![c] = TRUE]
    /\ ReturnFails(c)
    /\ End("error")
    /\ UNCHANGED <<signalVars, worker, used, spec, doc, dirty, replies, busy, queue, running, force, tick, drive, forcing>>

\* Mutant: a force complete is looked for only once the signal has gone from
\* ongoing/.
AbandonedWhenVanished(c) ==
    /\ Loop(c, "stage") /\ loop.mem.turn.stage = "signalled"
    /\ ~complete[loop.mem.turn.sig] /\ ongoing[loop.mem.turn.sig] = "absent"
    /\ force[c]
    /\ End("abandoned")
    /\ UNCHANGED <<workerVars, pointerVars, busy, queue, running, force, tick, drive, forcing>>

\* awaitSignal gives up on a signal that is still not complete.
TurnAbandoned(c) ==
    /\ Loop(c, "stage") /\ loop.mem.turn.stage = "signalled"
    /\ ~complete[loop.mem.turn.sig]
    /\ force[c]
    /\ End("abandoned")
    /\ UNCHANGED <<workerVars, pointerVars, busy, queue, running, force, tick, drive, forcing>>

\* Mutant: a reply goes into a completed condoc as into any other.
ReplyRegardless(c) ==
    Running(c, "turn", "returned") /\ ~deployed[c] /\ HasTree(c) /\ replyFile[c]

\* A reply goes into the active step or substep file; a completed condoc,
\* as a Force Complete that was cut short leaves it, has none.
CanReply(c) ==
    /\ Running(c, "turn", "returned")
    /\ ~deployed[c] /\ HasTree(c) /\ replyFile[c] /\ doc[c] # "completed"

\* One more reply in the files; two stands for any number above one.
AppendReply(c, d) ==
    /\ replies' = [replies EXCEPT ![c] = IF @ = 0 THEN 1 ELSE 2]
    /\ doc' = [doc EXCEPT ![c] = d]
    /\ dirty' = [dirty EXCEPT ![c] = TRUE]

TurnReplies(c) ==
    /\ CanReply(c)
    /\ AppendReply(c, "awaiting")
    /\ Save(AtStage("replied", loop.mem))
    /\ UNCHANGED <<workerVars, spec, replyFile, busy, queue, running, force, tick, drive, forcing>>

\* appendReply went through and addIterationTemplate did not.
TurnHalfReplies(c) ==
    /\ CanReply(c)
    /\ Spend("fault")
    /\ AppendReply(c, "replied")
    /\ End("error")
    /\ UNCHANGED <<slopspaceVars, signalVars, worker, spec, replyFile, busy, queue, running, force, tick, drive, forcing>>

\* The condoc repo is committed, the captured reply dropped and the turn
\* cleared.
ClearedSpec(c) ==
    [loop.mem EXCEPT !.turn = NoTurn, !.phase = SyncedPhase(doc[c])]

TurnEnds(c) ==
    /\ Running(c, "turn", "replied")
    /\ dirty' = [dirty EXCEPT ![c] = FALSE]
    /\ replyFile' = [replyFile EXCEPT ![c] = FALSE]
    /\ WriteSpec(c, ClearedSpec(c))
    /\ End("ok")
    /\ UNCHANGED <<workerVars, doc, replies, busy, queue, running, force, tick, drive, forcing>>

TurnEndUnsaved(c) ==
    /\ Running(c, "turn", "replied")
    /\ dirty' = [dirty EXCEPT ![c] = FALSE]
    /\ replyFile' = [replyFile EXCEPT ![c] = FALSE]
    /\ WriteSpecFails(c, ClearedSpec(c))
    /\ End("error")
    /\ UNCHANGED <<slopspaceVars, signalVars, worker, doc, replies, busy, queue, running, force, tick, drive, forcing>>

\* The propose-PR turn runs in place, in a directory of its own.
ProposalSignals(c) ==
    /\ Running(c, "propose_pr", "queued")
    /\ ~deployed[c]
    /\ Create(c, "in-place")
    /\ Save(AtStage("signalled", [loop.mem EXCEPT !.turn.sig = created + 1,
                                                 !.phase = "agent_running"]))
    /\ UNCHANGED <<slopspaceVars, worker, used, pointerVars, busy, queue, running, force, tick, drive, forcing>>

\* An unusable prs.yaml is replaced by a default template, and the condoc
\* says so as its error.
ProposalEnds(c) ==
    /\ Running(c, "propose_pr", "signalled")
    /\ ~deployed[c]
    /\ complete[loop.mem.turn.sig]
    /\ \E unusable \in BOOLEAN :
          WriteSpec(c, [phase |-> "pr_proposed", turn |-> NoTurn, err |-> unusable])
    /\ End("ok")
    /\ UNCHANGED <<workerVars, doc, dirty, replies, replyFile, busy, queue, running, force, tick, drive, forcing>>

\* A stage that cannot go on: a slopspace that is not where the stage needs
\* it, or without its tree, no captured reply, or no active file (which
\* turnPrompt minds only for substep turns).
Blocked(c) ==
    \/ /\ Running(c, "turn", "queued") /\ marker \in {None, c}
       /\ ~deployed[c] /\ ~HasTree(c)
    \/ /\ Running(c, "turn", "deployed")
       /\ ~deployed[c] \/ ~HasTree(c) \/ doc[c] = "completed"
    \/ Running(c, "turn", "returned") /\ ~CanReply(c)

TurnBlocked(c) ==
    /\ Blocked(c)
    /\ End("error")
    /\ UNCHANGED <<workerVars, pointerVars, busy, queue, running, force, tick, drive, forcing>>

\* A stage whose git or file operation fails before it has done anything.
TurnFails(c) ==
    /\ Loop(c, "stage") \/ Loop(c, "deploy")
    /\ loop.mem.turn.stage = "signalled" => complete[loop.mem.turn.sig]
    /\ Spend("fault")
    /\ End("error")
    /\ UNCHANGED <<slopspaceVars, signalVars, worker, pointerVars, busy, queue, running, force, tick, drive, forcing>>

SaveStage(c) ==
    /\ Loop(c, "save")
    /\ WriteSpec(c, loop.mem)
    /\ loop' = [loop EXCEPT !.pc = "stage"]
    /\ UNCHANGED <<workerVars, doc, dirty, replies, replyFile, busy, queue, running, force, tick, drive, forcing>>

SaveStageFails(c) ==
    /\ Loop(c, "save")
    /\ WriteSpecFails(c, loop.mem)
    /\ End("error")
    /\ UNCHANGED <<slopspaceVars, signalVars, worker, doc, dirty, replies, replyFile, busy, queue, running, force, tick, drive, forcing>>

\* Mutant: the error is recorded on the turn loop's own copy of the pointer.
SettleWithOwnCopy(c) ==
    /\ Loop(c, "after")
    /\ queue' = IF loop.end = "wait" THEN queue ELSE Without(c)
    /\ IF loop.end = "error" THEN WriteSpec(c, WithError(loop.mem)) ELSE UNCHANGED spec
    /\ loop' = [loop EXCEPT !.pc = "settled"]
    /\ UNCHANGED <<workerVars, doc, dirty, replies, replyFile, busy, running, force, tick, drive, forcing>>

\* Off the queue, with the error recorded.
LoopSettle(c) ==
    /\ Loop(c, "after")
    /\ queue' = IF loop.end = "wait" THEN queue ELSE Without(c)
    /\ IF loop.end = "error" THEN WriteSpec(c, WithError(spec[c])) ELSE UNCHANGED spec
    /\ loop' = [loop EXCEPT !.pc = "settled"]
    /\ UNCHANGED <<workerVars, doc, dirty, replies, replyFile, busy, running, force, tick, drive, forcing>>

-----------------------------------------------------------------------------
(* Force Complete: at once when the condoc is not claimed, and otherwise   *)
(* flagged for the turn loop when it is running the condoc's turn.         *)

ForceFrom(c, by) ==
    forcing' = [forcing EXCEPT ![c] =
        [pc |-> IF spec[c].turn.kind = "none" THEN "finalize" ELSE "signal",
         by |-> by, mem |-> spec[c]]]

\* The phases the UI offers it in.
Forceable(c) == spec[c].phase \in {"awaiting_action", "queued", "agent_running"}

\* Mutant: a claimed condoc is completed under whatever claim there is.
ForceUnclaimed(c) ==
    /\ Forceable(c) /\ spec[c].turn.kind # "propose_pr"
    /\ Spend("force")
    /\ forcing[c] = NotForcing
    /\ busy' = [busy EXCEPT ![c] = TRUE]
    /\ ForceFrom(c, "ui")
    /\ UNCHANGED <<slopspaceVars, signalVars, worker, pointerVars, queue, running, force, tick, drive, loop>>

ForceNow(c) ==
    /\ Forceable(c) /\ spec[c].turn.kind # "propose_pr"
    /\ Spend("force")
    /\ Claim(c)
    /\ ForceFrom(c, "ui")
    /\ UNCHANGED <<slopspaceVars, signalVars, worker, pointerVars, queue, running, force, tick, drive, loop>>

ForceDefer(c) ==
    /\ Forceable(c) /\ spec[c].turn.kind = "turn"
    /\ busy[c] /\ running = c
    /\ ~force[c]
    /\ Spend("force")
    /\ force' = [force EXCEPT ![c] = TRUE]
    /\ UNCHANGED <<slopspaceVars, signalVars, worker, pointerVars, busy, queue, running, tick, drive, loop, forcing>>

\* Mutant: the flag is looked at only when the turn was abandoned for it.
TakeAfterAbandoning(c) ==
    /\ Loop(c, "settled")
    /\ running' = None
    /\ IF force[c] /\ loop.end = "abandoned"
       THEN /\ loop' = [loop EXCEPT !.pc = "force"]
            /\ force' = [force EXCEPT ![c] = FALSE]
            /\ ForceFrom(c, "loop")
            /\ UNCHANGED busy
       ELSE /\ loop' = LoopIdle
            /\ Release(c)
            /\ UNCHANGED <<force, forcing>>
    /\ UNCHANGED <<workerVars, pointerVars, queue, tick, drive>>

\* takeForceComplete: the flag is read and cleared and the turn stops showing
\* as running in one critical section.
LoopTake(c) ==
    /\ Loop(c, "settled")
    /\ force' = [force EXCEPT ![c] = FALSE]
    /\ running' = None
    /\ IF force[c]
       THEN /\ loop' = [loop EXCEPT !.pc = "force"]
            /\ ForceFrom(c, "loop")
            /\ UNCHANGED busy
       ELSE /\ loop' = LoopIdle
            /\ Release(c)
            /\ UNCHANGED forcing
    /\ UNCHANGED <<workerVars, pointerVars, queue, tick, drive>>

Forcing(c, pc) == forcing[c].pc = pc

ForceTo(c, pc, s) == forcing' = [forcing EXCEPT ![c] = [@ EXCEPT !.pc = pc, !.mem = s]]

\* Whoever carried it out gives up the claim; the loop goes on.
ForceDone(c) ==
    /\ forcing' = [forcing EXCEPT ![c] = NotForcing]
    /\ loop' = IF forcing[c].by = "loop" THEN LoopIdle ELSE loop
    /\ Release(c)

\* abandonTurn fails the turn's signal if that is in ongoing/.
SignalOngoing(c) ==
    forcing[c].mem.turn.sig # 0 /\ ongoing[forcing[c].mem.turn.sig] # "absent"

\* Mutant: an abandoned turn's signal is deleted.
AbandonDeletes(c) ==
    /\ Forcing(c, "signal")
    /\ ongoing' = [i \in SignalId |-> IF i = forcing[c].mem.turn.sig THEN "absent"
                                      ELSE ongoing[i]]
    /\ ForceTo(c, "return", forcing[c].mem)
    /\ UNCHANGED <<slopspaceVars, created, header, complete, unreadable, worker, used, pointerVars, busy, queue, running, force, tick, drive, loop>>

\* abandonTurn, one step at a time, each skipped when already done: the
\* signal is failed,
AbandonSignal(c) ==
    /\ Forcing(c, "signal")
    /\ IF SignalOngoing(c) THEN Complete(forcing[c].mem.turn.sig)
                           ELSE UNCHANGED signalVars
    /\ ForceTo(c, "return", forcing[c].mem)
    /\ UNCHANGED <<slopspaceVars, worker, used, pointerVars, busy, queue, running, force, tick, drive, loop>>

\* the slopspace is returned and the captured reply dropped,
AbandonReturn(c) ==
    /\ Forcing(c, "return")
    /\ IF deployed[c] THEN Return(c) ELSE UNCHANGED slopspaceVars
    /\ replyFile' = [replyFile EXCEPT ![c] = FALSE]
    /\ ForceTo(c, IF forcing[c].mem.turn.stage = "queued" THEN "finalize" ELSE "write",
               forcing[c].mem)
    /\ UNCHANGED <<signalVars, worker, used, spec, doc, dirty, replies, busy, queue, running, force, tick, drive, loop>>

\* and the targets are committed and pushed.
AbandonWrite(c) ==
    /\ Forcing(c, "write") /\ HasTree(c)
    /\ ForceTo(c, "finalize", forcing[c].mem)
    /\ UNCHANGED <<workerVars, pointerVars, busy, queue, running, force, tick, drive, loop>>

\* A step of abandonTurn failed, which failing the signal always does when it
\* cannot be read, returning with nothing at the deploy path, and committing
\* with the targets gone: the turn is kept, with the error, off the queue.
AbandonFails(c) ==
    /\ \/ /\ Forcing(c, "signal") \/ Forcing(c, "return") \/ Forcing(c, "write")
          /\ Spend("fault")
          /\ UNCHANGED slopspaceVars
       \/ /\ Forcing(c, "signal") /\ SignalOngoing(c)
          /\ ~Readable(forcing[c].mem.turn.sig)
          /\ UNCHANGED <<slopspaceVars, used>>
       \/ Forcing(c, "return") /\ ReturnFails(c) /\ UNCHANGED used
       \/ Forcing(c, "write") /\ ~HasTree(c) /\ UNCHANGED <<slopspaceVars, used>>
    /\ WriteSpec(c, WithError(forcing[c].mem))
    /\ queue' = Without(c)
    /\ ForceDone(c)
    /\ UNCHANGED <<signalVars, worker, doc, dirty, replies, replyFile, running, force, tick, drive>>

\* The condoc's files cannot be found.  Asked for from the UI, that is only
\* answered; the turn loop records it.
ForceRefused(c) ==
    /\ Forcing(c, "finalize")
    /\ deployed[c] \/ ~HasTree(c)
    /\ IF forcing[c].by = "loop" THEN WriteSpec(c, WithError(spec[c])) ELSE UNCHANGED spec
    /\ ForceDone(c)
    /\ UNCHANGED <<workerVars, doc, dirty, replies, replyFile, queue, running, force, tick, drive>>

\* Mutant: a condoc whose files are gone is completed all the same.
FinalizeBlindly(c) ==
    /\ Forcing(c, "finalize")
    /\ ~deployed[c]
    /\ doc' = [doc EXCEPT ![c] = "completed"]
    /\ dirty' = [dirty EXCEPT ![c] = @ \/ doc[c] # "completed"]
    /\ queue' = IF forcing[c].mem.turn.kind = "none" THEN queue ELSE Without(c)
    /\ ForceTo(c, "commit", [forcing[c].mem EXCEPT !.turn = NoTurn, !.err = FALSE])
    /\ UNCHANGED <<workerVars, spec, replies, replyFile, busy, running, force, tick, drive, loop>>

\* Everything open in the files is closed and the turn dropped.
ForceFinalize(c) ==
    /\ Forcing(c, "finalize")
    /\ ~deployed[c] /\ HasTree(c)
    /\ doc' = [doc EXCEPT ![c] = "completed"]
    /\ dirty' = [dirty EXCEPT ![c] = @ \/ doc[c] # "completed"]
    /\ queue' = IF forcing[c].mem.turn.kind = "none" THEN queue ELSE Without(c)
    /\ ForceTo(c, "commit", [forcing[c].mem EXCEPT !.turn = NoTurn, !.err = FALSE])
    /\ UNCHANGED <<workerVars, spec, replies, replyFile, busy, running, force, tick, drive, loop>>

ForceCommit(c) ==
    /\ Forcing(c, "commit")
    /\ dirty' = [dirty EXCEPT ![c] = FALSE]
    /\ SyncSpec(c, forcing[c].mem, doc[c])
    /\ ForceDone(c)
    /\ UNCHANGED <<workerVars, doc, replies, replyFile, queue, running, force, tick, drive>>

ForceCommitFails(c) ==
    /\ Forcing(c, "commit")
    /\ Spend("fault")
    /\ WriteSpec(c, WithError(forcing[c].mem))
    /\ ForceDone(c)
    /\ UNCHANGED <<slopspaceVars, signalVars, worker, doc, dirty, replies, replyFile, queue, running, force, tick, drive>>

-----------------------------------------------------------------------------
\* condoccer stops, in the middle of anything, and starts again: what it had
\* in memory is gone, and files, slopspaces and signals are as they were.
Crash ==
    /\ Spend("crash")
    /\ busy' = [c \in Condocs |-> FALSE]
    /\ queue' = <<>>
    /\ running' = None
    /\ force' = [c \in Condocs |-> FALSE]
    /\ tick' = [todo |-> {}, seen |-> [c \in Condocs |-> NoSpec]]
    /\ drive' = DriveIdle
    /\ loop' = LoopIdle
    /\ forcing' = [c \in Condocs |-> NotForcing]
    /\ UNCHANGED <<slopspaceVars, signalVars, worker, pointerVars>>

Driver(c) ==
    \/ VisitTurn(c) \/ VisitSkip(c) \/ VisitIdle(c)
    \/ DriveNothing(c) \/ DriveHandoff(c) \/ DriveCompletion(c) \/ DriveRecover(c)
    \/ DriveSync(c) \/ DriveSyncFails(c) \/ DriveCommit(c) \/ DriveCommitFails(c)
    \/ DriveClose(c)
    \/ QueueTurn(c) \/ QueueTurnFails(c)

TurnLoop(c) ==
    \/ LoopClaim(c) \/ LoopSettle(c) \/ LoopTake(c)
    \/ TurnWaits(c) \/ TurnSyncs(c) \/ TurnDeploys(c) \/ TurnSignals(c)
    \/ TurnReturns(c) \/ TurnReturnFails(c) \/ TurnAbandoned(c)
    \/ TurnReplies(c) \/ TurnHalfReplies(c) \/ TurnEnds(c) \/ TurnEndUnsaved(c)
    \/ ProposalSignals(c) \/ ProposalEnds(c)
    \/ TurnBlocked(c) \/ TurnFails(c) \/ SaveStage(c) \/ SaveStageFails(c)

ForceComplete(c) ==
    \/ AbandonSignal(c) \/ AbandonReturn(c) \/ AbandonWrite(c) \/ AbandonFails(c)
    \/ ForceRefused(c) \/ ForceFinalize(c) \/ ForceCommit(c) \/ ForceCommitFails(c)

Human(c) ==
    Directive(c) \/ Resubmit(c) \/ RegeneratePRs(c) \/ ForceNow(c) \/ ForceDefer(c)

WorkerNext ==
    /\ \E w \in Workers : WorkerRuns(w) \/ WorkerCrash(w)
    /\ UNCHANGED <<pointerVars, memoryVars>>

Next ==
    \/ \E c \in Condocs : Driver(c) \/ TurnLoop(c) \/ ForceComplete(c) \/ Human(c)
    \/ TickRead
    \/ Crash
    \/ WorkerNext

Spec == Init /\ [][Next]_vars

-----------------------------------------------------------------------------
(***************************************************************************)
(* What condoccer's turns promise, over these behaviours, and the fairness *)
(* under which they make progress.                                         *)
(***************************************************************************)
(* Claims and force flags.                                                 *)

DriverHolds(c) == drive.stem = c
LoopHolds(c) == loop.stem = c
UIHolds(c) == forcing[c].pc # "idle" /\ forcing[c].by = "ui"

\* A claimed condoc has exactly one of the driver, the turn loop and a force
\* complete from the UI at work on it, and an unclaimed one has none (claim
\* and release in slopspace.go).
ClaimsExclusive ==
    \A c \in Condocs :
        /\ busy[c] <=> DriverHolds(c) \/ LoopHolds(c) \/ UIHolds(c)
        /\ ~(DriverHolds(c) /\ LoopHolds(c))
        /\ ~(DriverHolds(c) /\ UIHolds(c))
        /\ ~(LoopHolds(c) /\ UIHolds(c))

\* A force complete that was accepted for the turn loop is one the loop has
\* still to look at: it is never left flagged with nobody to carry it out
\* (deferForceComplete against takeForceComplete).
ForceNeverStranded ==
    \A c \in Condocs :
        force[c] => /\ running = c /\ loop.stem = c
                    /\ loop.pc \in {"stage", "deploy", "save", "after", "settled"}

\* Condoccer implements the claims: the holder of a claim is read off the
\* driver, the turn loop and the force completes, none of which the code
\* records beside the claim, and the requests are the force flags.
HolderOf(c) ==
    IF DriverHolds(c) THEN "driver" ELSE IF LoopHolds(c) THEN "loop"
    ELSE IF UIHolds(c) THEN "ui" ELSE "free"

AbstractClaims == INSTANCE Claims WITH
    holder <- [c \in Condocs |-> HolderOf(c)], requested <- force

ImplementsClaims == AbstractClaims!ClaimsSpec

-----------------------------------------------------------------------------
(* Turns, their stages and what the stages stand for.                      *)

Rank == [queued |-> 0, deployed |-> 1, signalled |-> 2, returned |-> 3, replied |-> 4]

\* The pointer never gets ahead of the files: a turn recorded as signalled
\* has a signal of its own condoc which the workers and Force Complete have
\* at most moved to complete/, so awaitSignal never finds it vanished; and a
\* turn recorded as replied has its reply in the condoc.
TurnEvidence ==
    \A c \in Condocs :
        LET t == spec[c].turn
            sent == \/ t.kind = "turn" /\ Rank[t.stage] >= 2
                    \/ t.kind = "propose_pr" /\ t.stage = "signalled"
        IN  /\ sent => /\ t.sig \in 1 .. created
                       /\ header[t.sig].role = c
                       /\ ongoing[t.sig] # "absent" \/ complete[t.sig]
            /\ t.kind = "turn" /\ t.stage = "replied" => replies[c] > 0

\* Where a turn's slopspace is follows from the stage on the pointer, across
\* crashes and failed writes: at the deploy path while the agent may be at
\* work, and home, with the reply captured, from returned on.  (A failed
\* Force Complete leaves a turn that no longer has this.)
StageLocatesSlopspace ==
    \A c \in Condocs :
        LET t == spec[c].turn
        IN  /\ t.kind = "turn" /\ t.stage = "deployed" => deployed[c]
            /\ t.kind = "turn" /\ t.stage = "signalled" =>
                  \/ deployed[c]
                  \/ complete[t.sig] /\ replyFile[c]
            /\ t.kind = "turn" /\ t.stage = "returned" => ~deployed[c] /\ replyFile[c]

\* A condoc without a turn, or proposing its PRs, is home with its own tree,
\* also when a Force Complete let a worker's slopspace wipe or take the place
\* of a turn's: what the UI and the driver edit is the condoc's files, and a
\* turn whose tree is gone is never taken for one that is over.
IdleHasItsTree ==
    \A c \in Condocs :
        spec[c].turn.kind # "turn" => ~deployed[c] /\ homeTree[c] = c

\* Between prompt and reply a turn's record only moves forward: no write of
\* an older copy of the pointer -- the driver's predates its claim, the turn
\* loop's is as old as the turn -- undoes a stage, revives a turn, or drops
\* one other than at its end or by Force Complete.
TurnMovesForward ==
    [][\A c \in Condocs :
         LET t == spec[c].turn
             u == spec'[c].turn
         IN  \/ t = u
             \/ /\ t.kind # "none" /\ u.kind = t.kind
                /\ Rank[u.stage] >= Rank[t.stage]
                /\ t.sig \in {0, u.sig}
             \/ t.kind = "none" /\ u.stage = "queued"
             \/ u = NoTurn /\ (loop.stem = c \/ Forcing(c, "commit"))]_vars

\* A prompt is committed and pushed before there is a turn for it, also when
\* a failed commit made slopRecoverTurn pick it up, so an agent never works
\* on a prompt only this machine has.
PromptCommitted ==
    \A c \in Condocs :
        spec[c].turn.kind # "none" /\ doc[c] = "pending" => ~dirty[c]

\* A prompt gets one reply: no stage is run twice on the way to it.
OneReply == \A c \in Condocs : replies[c] <= 1

\* A completed condoc stays completed and gets no further reply, although a
\* Force Complete that is cut short leaves its turn on the pointer and the
\* turn loop runs that on.
CompletedForGood ==
    [][\A c \in Condocs :
         doc[c] = "completed" => doc'[c] = "completed" /\ replies'[c] = replies[c]]_vars

-----------------------------------------------------------------------------
(* The deploy path.                                                        *)

\* One slopspace is deployed at a time, whoever deployed it.
OneDeployed ==
    \A x, y \in Slopspace : deployed[x] /\ deployed[y] => x = y

\* No working tree is lost, and none ends up in another condoc's slopspace.
TreesKept == \A c \in Condocs : homeTree[c] = c \/ pathTree = c

\* An agent at work on a condoc's signal has that condoc's tree before it,
\* from beginning to end.
AgentAtItsTree ==
    \A w \in Workers :
        LET h == header[worker[w].sig]
        IN  worker[w].pc = "running" /\ h.role # None /\ h.work = "slopspace"
               => pathTree = h.role

-----------------------------------------------------------------------------
(* Errors and Resubmit.                                                    *)

\* A condoc with an error waits for Resubmit: the turn loop starts no turn of
\* it before (setSpecError).
ErrorWaits ==
    [][\A c \in Condocs :
         loop.stem # c /\ loop'.stem = c /\ spec[c].turn.kind # "none"
            => ~spec[c].err]_vars

-----------------------------------------------------------------------------
(* Progress.  Each goroutine of condoccer and each worker keeps running;   *)
(* agents end; a force complete once begun is carried out.  The turn loop  *)
(* asks for the claim of the queue's head every second, and the driver     *)
(* holds a claim for a moment in each pass, so it gets it in the end.      *)

Fairness ==
    /\ WF_vars(TickRead \/ \E c \in Condocs : Driver(c))
    /\ WF_vars(\E c \in Condocs : TurnLoop(c))
    /\ \A c \in Condocs : SF_vars(LoopClaim(c))
    /\ \A c \in Condocs : WF_vars(ForceComplete(c))
    /\ \A w \in Workers : WF_vars(WorkerRuns(w) /\ UNCHANGED <<pointerVars, memoryVars>>)

FairSpec == Spec /\ Fairness

\* A signal whose worker died, or could not read it back to complete it:
\* nobody ever will, and the turn that waits for it is at the head of the
\* queue.
Orphaned == \E i \in SignalId :
    ongoing[i] = "processing" /\ \A w \in Workers : worker[w].sig # i

\* A prompt handed off is answered, or the condoc stops with an error or is
\* completed by force: nothing is dropped between the driver, the queue, the
\* turn loop and the worker, unless a worker leaves its signal.
PromptsAnswered ==
    \A c \in Condocs :
        doc[c] = "handoff" ~>
            \/ doc[c] = "awaiting" /\ replies[c] > 0 /\ spec[c].turn.kind = "none"
            \/ doc[c] = "completed" \/ spec[c].err \/ Orphaned

\* A recorded turn reaches its end or an error, wherever condoccer stopped or
\* failed on the way, unless a worker leaves its signal.
TurnsFinish ==
    \A c \in Condocs :
        spec[c].turn.kind # "none" ~>
            spec[c].turn.kind = "none" \/ spec[c].err \/ Orphaned

\* Force Complete ends the turn it is asked for even when its worker has
\* died, however far the turn has got, or says why not.  (The request is held
\* in memory, so a condoccer that stops forgets it.)
ForceRescues ==
    \A c \in Condocs :
        force[c] ~>
            spec[c].turn.kind = "none" \/ spec[c].err \/ used["crash"] > 0

\* Force Complete completes the condoc from whatever state it is in, with no
\* operation failing by accident and condoccer not stopped (slopForceComplete).
ForceCompletes ==
    \A c \in Condocs :
        force[c] ~> \/ spec[c].turn.kind = "none"
                    \/ used["fault"] > 0 \/ used["crash"] > 0

\* A turn that condoccer stopped in the middle of is resumed by the next start
\* (slopTick), whatever other condocs have queued by then.
RestartResumes ==
    \A c \in Condocs :
        used["crash"] > 0 /\ spec[c].turn.kind # "none" ~>
            spec[c].turn.kind = "none" \/ spec[c].err \/ Orphaned
=============================================================================
