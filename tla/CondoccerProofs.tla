--------------------------- MODULE CondoccerProofs ---------------------------
(***************************************************************************)
(* condoccer's slopspace handler, proved right for any number of condocs,  *)
(* workers and signals and every bound: its types, who holds a condoc, and *)
(* what becomes of a turn and of the trees.                                *)
(***************************************************************************)
EXTENDS Condoccer, SequenceTheorems, TLAPS

-----------------------------------------------------------------------------
(***************************************************************************)
(* TypeOK is an invariant of Condoccer, for any condocs, workers and       *)
(* limits.  The proof goes by process: what a step of it leaves alone, and *)
(* then each variable that one of its actions changes.                     *)
(***************************************************************************)

-----------------------------------------------------------------------------
(* The operators the actions are built from stay in their types.           *)

\* Recording an error leaves a pointer a pointer.
LEMMA WithErrorType == \A s \in PointerSpec : WithError(s) \in PointerSpec
  BY DEF WithError, PointerSpec

\* Files always read as a phase the pointer can hold.
LEMMA SyncedPhaseType == \A d \in DocState : SyncedPhase(d) \in Phase
  BY DEF SyncedPhase, Phase

\* So does a pointer that mirrors them.
LEMMA SyncedType ==
  \A s \in PointerSpec, d \in DocState : Synced(s, d) \in PointerSpec
  BY SyncedPhaseType DEF Synced, PointerSpec

\* A new turn is a turn,
LEMMA NewTurnType == \A k \in TurnKind : NewTurn(k) \in PointerTurn
  BY WorkSignalsAssumption DEF NewTurn, PointerTurn, Stage

\* and the absent one is a turn too.
LEMMA NoTurnType == NoTurn \in PointerTurn
  BY NewTurnType DEF NoTurn, TurnKind

\* Queueing a turn leaves a pointer a pointer.
LEMMA QueuedSpecType ==
  \A s \in PointerSpec, k \in TurnKind : QueuedSpec(s, k) \in PointerSpec
  BY NewTurnType DEF QueuedSpec, PointerSpec, Phase

\* Moving its turn to another stage does too.
LEMMA AtStageType ==
  \A s \in PointerSpec, st \in Stage : AtStage(st, s) \in PointerSpec
  BY DEF AtStage, PointerSpec, PointerTurn

\* The pointer that stands for holding none is one,
LEMMA NoSpecType == NoSpec \in PointerSpec
  BY NoTurnType DEF NoSpec, PointerSpec, Phase

\* so is an idle driver,
LEMMA DriveIdleType == DriveIdle \in DriveState
  BY NoSpecType DEF DriveIdle, DriveState

\* an idle turn loop
LEMMA LoopIdleType == LoopIdle \in LoopState
  BY NoSpecType DEF LoopIdle, LoopState

\* and a condoc that is not being forced.
LEMMA NotForcingType == NotForcing \in ForceState
  BY NoSpecType DEF NotForcing, ForceState

\* A force complete moves from step to step with a pointer in hand.
LEMMA ForceToType ==
  ASSUME forcing \in [Condocs -> ForceState],
         NEW c \in Condocs, NEW s \in PointerSpec,
         NEW pc \in {"signal", "return", "write", "finalize", "commit"},
         ForceTo(c, pc, s)
  PROVE  forcing' \in [Condocs -> ForceState]
<1>1. [forcing[c] EXCEPT !.pc = pc, !.mem = s] \in ForceState
  BY DEF ForceState
<1> QED  BY <1>1 DEF ForceTo

\* The queue stays a sequence of condocs when one is added,
LEMMA EnqueueType ==
  ASSUME queue \in Seq(Condocs), NEW c \in Condocs, EnqueueTurn(c)
  PROVE  queue' \in Seq(Condocs)
  BY DEF EnqueueTurn

\* and when one is taken out: RemoveAt joins what is before a place and what
\* is after it,
LEMMA RemoveAtType ==
  ASSUME NEW S, NEW s \in Seq(S), NEW n \in 1 .. Len(s)
  PROVE  RemoveAt(s, n) \in Seq(S)
<1>1. /\ Len(s) \in Nat /\ n \in Nat
      /\ \A i \in 1 .. Len(s) : s[i] \in S
  OBVIOUS
<1>2. SubSeq(s, 1, n - 1) \in Seq(S)
  <2>1. \A i \in 1 .. n - 1 : s[i] \in S  BY <1>1
  <2> QED  BY <1>1, <2>1, SubSeqProperties
<1>3. SubSeq(s, n + 1, Len(s)) \in Seq(S)
  <2>1. \A i \in n + 1 .. Len(s) : s[i] \in S  BY <1>1
  <2> QED  BY <1>1, <2>1, SubSeqProperties
<1> QED  BY <1>2, <1>3, ConcatProperties DEF RemoveAt

\* so dequeue leaves a queue of condocs.
LEMMA WithoutType ==
  ASSUME queue \in Seq(Condocs), NEW c \in Condocs
  PROVE  Without(c) \in Seq(Condocs)
<1>1. CASE Queued(c)
  <2>1. \E n \in DOMAIN queue : queue[n] = c  BY <1>1 DEF Queued
  <2>2. (CHOOSE n \in DOMAIN queue : queue[n] = c) \in 1 .. Len(queue)  BY <2>1
  <2> QED  BY <1>1, <2>2, RemoveAtType DEF Without
<1> QED  BY <1>1 DEF Without

-----------------------------------------------------------------------------
(* What the processes do with the slopspaces, the signals and the workers. *)

\* The driver touches none of them,
LEMMA DriverFrame ==
  ASSUME NEW c, Driver(c)
  PROVE  UNCHANGED <<slopspaceVars, signalVars, worker>>
  BY DEF Driver, VisitTurn, VisitSkip, VisitIdle, DriveNothing, DriveHandoff,
    DriveCompletion, DriveRecover, DriveSync, DriveSyncFails, DriveCommit,
    DriveCommitFails, DriveClose, QueueTurn, QueueTurnFails, workerVars

\* nor does the UI.
LEMMA HumanFrame ==
  ASSUME NEW c, Human(c)
  PROVE  UNCHANGED <<slopspaceVars, signalVars, worker>>
  BY DEF Human, Directive, Resubmit, RegeneratePRs, ForceNow, ForceDefer, workerVars

\* The turn loop deploys and returns the condoc's slopspace and creates
\* signals of the condoc.
LEMMA TurnLoopFrame ==
  ASSUME NEW c, TurnLoop(c)
  PROVE  /\ UNCHANGED worker
         /\ UNCHANGED slopspaceVars \/ Deploy(c) \/ Return(c) \/ ReturnFails(c)
         /\ UNCHANGED signalVars \/ \E work \in WorkType : Create(c, work)
  BY DEF TurnLoop, LoopClaim, LoopSettle, LoopTake, TurnWaits, TurnSyncs,
    TurnDeploys, TurnSignals, TurnReturns, TurnReturnFails, TurnAbandoned,
    TurnReplies, TurnHalfReplies, TurnEnds, TurnEndUnsaved, ProposalSignals,
    ProposalEnds, TurnBlocked, TurnFails, SaveStage, SaveStageFails, workerVars,
    WorkType

\* A force complete returns it and fails the turn's signal.
LEMMA ForceFrame ==
  ASSUME NEW c, ForceComplete(c)
  PROVE  /\ UNCHANGED worker
         /\ UNCHANGED slopspaceVars \/ Return(c) \/ ReturnFails(c)
         /\ UNCHANGED signalVars \/ \E i : Complete(i)
  BY DEF ForceComplete, AbandonSignal, AbandonReturn, AbandonWrite, AbandonFails,
    ForceRefused, ForceFinalize, ForceCommit, ForceCommitFails, workerVars

\* The bounded events are only ever counted up.
LEMMA UsedType ==
  ASSUME WorkerTypeOK, Next
  PROVE  used' \in [BoundedEvent -> Nat]
<1>1. ASSUME NEW e, Spend(e) PROVE used' \in [BoundedEvent -> Nat]
  <2>1. CASE e \in BoundedEvent
    <3>1. used[e] + 1 \in Nat  BY <2>1 DEF WorkerTypeOK
    <3> QED  BY <1>1, <3>1 DEF Spend, WorkerTypeOK
  <2>2. CASE e \notin BoundedEvent
    BY <1>1, <2>2 DEF Spend, WorkerTypeOK
  <2> QED  BY <2>1, <2>2
<1>2. ASSUME UNCHANGED used PROVE used' \in [BoundedEvent -> Nat]
  BY <1>2 DEF WorkerTypeOK
<1>3. ASSUME NEW c, Driver(c) PROVE UNCHANGED used \/ \E e : Spend(e)
  BY <1>3 DEF Driver, VisitTurn, VisitSkip, VisitIdle, DriveNothing, DriveHandoff,
    DriveCompletion, DriveRecover, DriveSync, DriveSyncFails, DriveCommit,
    DriveCommitFails, DriveClose, QueueTurn, QueueTurnFails, workerVars
<1>4. ASSUME NEW c, TurnLoop(c) PROVE UNCHANGED used \/ \E e : Spend(e)
  BY <1>4 DEF TurnLoop, LoopClaim, LoopSettle, LoopTake, TurnWaits, TurnSyncs,
    TurnDeploys, TurnSignals, TurnReturns, TurnReturnFails, TurnAbandoned,
    TurnReplies, TurnHalfReplies, TurnEnds, TurnEndUnsaved, ProposalSignals,
    ProposalEnds, TurnBlocked, TurnFails, SaveStage, SaveStageFails, workerVars,
    WriteSpecFails
<1>5. ASSUME NEW c, ForceComplete(c) PROVE UNCHANGED used \/ \E e : Spend(e)
  BY <1>5 DEF ForceComplete, AbandonSignal, AbandonReturn, AbandonWrite,
    AbandonFails, ForceRefused, ForceFinalize, ForceCommit, ForceCommitFails, workerVars
<1>6. ASSUME NEW c, Human(c) PROVE UNCHANGED used \/ \E e : Spend(e)
  BY <1>6 DEF Human, Directive, Resubmit, RegeneratePRs, ForceNow, ForceDefer
<1>7. ASSUME TickRead PROVE UNCHANGED used
  BY <1>7 DEF TickRead, workerVars
<1>8. ASSUME WorkerNext PROVE UNCHANGED used \/ \E e : Spend(e)
  BY <1>8 DEF WorkerNext, WorkerRuns, Find, Take, TakeGone, Locate, DeployOwn,
    AgentExits, ReturnOwn, Finish, WorkerCrash
<1>9. ASSUME Crash PROVE \E e : Spend(e)
  BY <1>9 DEF Crash
<1> QED  BY <1>1, <1>2, <1>3, <1>4, <1>5, <1>6, <1>7, <1>8, <1>9 DEF Next

-----------------------------------------------------------------------------
(* The operations on slopspaces and signals.                               *)

\* Deploying and returning keep the slopspaces in their types.
LEMMA SlopspacesType ==
  ASSUME SlopspacesTypeOK, NEW x \in Slopspace,
         UNCHANGED slopspaceVars \/ Deploy(x) \/ Return(x) \/ ReturnFails(x)
  PROVE  SlopspacesTypeOK'
<1>1. CASE UNCHANGED slopspaceVars  BY <1>1 DEF SlopspacesTypeOK, slopspaceVars
<1>2. CASE Deploy(x)  BY <1>2 DEF SlopspacesTypeOK, Deploy
<1>3. CASE Return(x)  BY <1>3 DEF SlopspacesTypeOK, Return
<1>4. CASE ReturnFails(x)  BY <1>4 DEF SlopspacesTypeOK, ReturnFails
<1> QED  BY <1>1, <1>2, <1>3, <1>4

\* Creating a signal keeps the signals in theirs,
LEMMA CreateType ==
  ASSUME WorkSignalsTypeOK, NEW role \in Role, NEW work \in WorkType,
         Create(role, work)
  PROVE  WorkSignalsTypeOK'
<1>1. created + 1 \in SignalId
  BY WorkSignalsAssumption DEF Create, WorkSignalsTypeOK, SignalId
<1>2. created' \in 0 .. MaxSignals
  BY WorkSignalsAssumption DEF Create, WorkSignalsTypeOK
<1>3. header' \in [SignalId -> [role : Role, work : WorkType]]
  BY <1>1 DEF Create, WorkSignalsTypeOK
<1>4. ongoing' \in [SignalId -> {"absent", "pending", "processing"}]
  BY <1>1 DEF Create, WorkSignalsTypeOK
<1> QED  BY <1>2, <1>3, <1>4 DEF Create, WorkSignalsTypeOK

\* and so do taking it,
LEMMA TakeOwnershipType ==
  ASSUME WorkSignalsTypeOK, NEW i, TakeOwnership(i)
  PROVE  WorkSignalsTypeOK'
  BY DEF WorkSignalsTypeOK, TakeOwnership

\* writing an output to it
LEMMA AppendType ==
  ASSUME WorkSignalsTypeOK, NEW i, AppendTooLong(i)
  PROVE  WorkSignalsTypeOK'
  BY DEF WorkSignalsTypeOK, AppendTooLong

\* and completing it.
LEMMA CompleteType ==
  ASSUME WorkSignalsTypeOK, NEW i, Complete(i)
  PROVE  WorkSignalsTypeOK'
  BY DEF WorkSignalsTypeOK, Complete

-----------------------------------------------------------------------------
(* condoccer's own variables, process by process.                          *)

\* A step of the driver keeps condoccer's variables in their types.
LEMMA DriverType ==
  ASSUME PointersTypeOK, MemoryTypeOK, NEW c \in Condocs, Driver(c)
  PROVE  PointersTypeOK' /\ MemoryTypeOK'
<1>1. CASE VisitTurn(c)
  <2>1. queue' \in Seq(Condocs)
    BY <1>1, EnqueueType DEF VisitTurn, PointersTypeOK, MemoryTypeOK
  <2>2. tick' \in [todo : SUBSET Condocs, seen : [Condocs -> PointerSpec]]
    BY <1>1, NoSpecType DEF VisitTurn, PointersTypeOK, MemoryTypeOK, Visit
  <2> QED
    BY <1>1, <2>1, <2>2 DEF VisitTurn, PointersTypeOK, MemoryTypeOK,
      pointerVars
<1>2. CASE VisitSkip(c)
  <2>1. tick' \in [todo : SUBSET Condocs, seen : [Condocs -> PointerSpec]]
    BY <1>2, NoSpecType DEF VisitSkip, PointersTypeOK, MemoryTypeOK, Visit
  <2> QED
    BY <1>2, <2>1 DEF VisitSkip, PointersTypeOK, MemoryTypeOK, pointerVars
<1>3. CASE VisitIdle(c)
  <2>1. tick.seen[c] \in PointerSpec
    BY <1>3 DEF VisitIdle, MemoryTypeOK
  <2>2. busy' \in [Condocs -> BOOLEAN]
    BY <1>3 DEF VisitIdle, PointersTypeOK, MemoryTypeOK, Claim
  <2>3. tick' \in [todo : SUBSET Condocs, seen : [Condocs -> PointerSpec]]
    BY <1>3, NoSpecType DEF VisitIdle, PointersTypeOK, MemoryTypeOK, Visit
  <2>4. drive' \in DriveState
    BY <1>3, <2>1 DEF VisitIdle, PointersTypeOK, MemoryTypeOK, DriveState
  <2> QED
    BY <1>3, <2>2, <2>3, <2>4 DEF VisitIdle, PointersTypeOK, MemoryTypeOK,
      pointerVars
<1>4. CASE DriveNothing(c)
  <2>1. busy' \in [Condocs -> BOOLEAN]
    BY <1>4 DEF DriveNothing, PointersTypeOK, MemoryTypeOK, DriveDone, Release
  <2>2. drive' \in DriveState
    BY <1>4, DriveIdleType DEF DriveNothing, PointersTypeOK, MemoryTypeOK,
      DriveDone
  <2> QED
    BY <1>4, <2>1, <2>2 DEF DriveNothing, PointersTypeOK, MemoryTypeOK,
      pointerVars
<1>5. CASE DriveHandoff(c)
  <2>1. doc' \in [Condocs -> DocState]
    BY <1>5 DEF DriveHandoff, PointersTypeOK, MemoryTypeOK, DocState
  <2>2. dirty' \in [Condocs -> BOOLEAN]
    BY <1>5 DEF DriveHandoff, PointersTypeOK, MemoryTypeOK
  <2>3. replies' \in [Condocs -> 0 .. 2]
    BY <1>5 DEF DriveHandoff, PointersTypeOK, MemoryTypeOK
  <2>4. drive' \in DriveState
    BY <1>5 DEF DriveHandoff, PointersTypeOK, MemoryTypeOK, DriveNext,
      DriveState
  <2> QED
    BY <1>5, <2>1, <2>2, <2>3, <2>4 DEF DriveHandoff, PointersTypeOK,
      MemoryTypeOK
<1>6. CASE DriveCompletion(c)
  <2>1. doc' \in [Condocs -> DocState]
    BY <1>6 DEF DriveCompletion, PointersTypeOK, MemoryTypeOK, DocState
  <2>2. dirty' \in [Condocs -> BOOLEAN]
    BY <1>6 DEF DriveCompletion, PointersTypeOK, MemoryTypeOK
  <2>3. drive' \in DriveState
    BY <1>6 DEF DriveCompletion, PointersTypeOK, MemoryTypeOK, DriveNext,
      DriveState
  <2> QED
    BY <1>6, <2>1, <2>2, <2>3 DEF DriveCompletion, PointersTypeOK, MemoryTypeOK
<1>7. CASE DriveRecover(c)
  <2>1. drive' \in DriveState
    BY <1>7 DEF DriveRecover, PointersTypeOK, MemoryTypeOK, DriveNext,
      DriveState
  <2> QED
    BY <1>7, <2>1 DEF DriveRecover, PointersTypeOK, MemoryTypeOK, pointerVars
<1>8. CASE DriveSync(c)
  <2>1. drive.mem \in PointerSpec
    BY <1>8 DEF DriveSync, MemoryTypeOK, DriveState
  <2>2. doc[c] \in DocState
    BY <1>8 DEF DriveSync, PointersTypeOK
  <2>3. Synced(drive.mem, doc[c]) \in PointerSpec
    BY <1>8, <2>1, <2>2, SyncedType DEF DriveSync
  <2>4. spec' \in [Condocs -> PointerSpec]
    BY <1>8, <2>3 DEF DriveSync, PointersTypeOK, MemoryTypeOK, SyncSpec
  <2>5. busy' \in [Condocs -> BOOLEAN]
    BY <1>8 DEF DriveSync, PointersTypeOK, MemoryTypeOK, DriveDone, Release
  <2>6. drive' \in DriveState
    BY <1>8, DriveIdleType DEF DriveSync, PointersTypeOK, MemoryTypeOK,
      DriveDone
  <2> QED
    BY <1>8, <2>4, <2>5, <2>6 DEF DriveSync, PointersTypeOK, MemoryTypeOK
<1>9. CASE DriveSyncFails(c)
  <2>1. drive.mem \in PointerSpec
    BY <1>9 DEF DriveSyncFails, MemoryTypeOK, DriveState
  <2>2. doc[c] \in DocState
    BY <1>9 DEF DriveSyncFails, PointersTypeOK
  <2>3. Synced(drive.mem, doc[c]) \in PointerSpec
    BY <1>9, <2>1, <2>2, SyncedType DEF DriveSyncFails
  <2>4. spec[c] \in PointerSpec
    BY <1>9 DEF DriveSyncFails, PointersTypeOK
  <2>5. spec' \in [Condocs -> PointerSpec]
    BY <1>9, <2>3, <2>4, WithErrorType DEF DriveSyncFails, PointersTypeOK,
      MemoryTypeOK, WriteSpec
  <2>6. dirty' \in [Condocs -> BOOLEAN]
    BY <1>9 DEF DriveSyncFails, PointersTypeOK, MemoryTypeOK
  <2>7. busy' \in [Condocs -> BOOLEAN]
    BY <1>9 DEF DriveSyncFails, PointersTypeOK, MemoryTypeOK, DriveDone,
      Release
  <2>8. drive' \in DriveState
    BY <1>9, DriveIdleType DEF DriveSyncFails, PointersTypeOK, MemoryTypeOK,
      DriveDone
  <2> QED
    BY <1>9, <2>5, <2>6, <2>7, <2>8 DEF DriveSyncFails, PointersTypeOK,
      MemoryTypeOK
<1>10. CASE DriveCommit(c)
  <2>1. dirty' \in [Condocs -> BOOLEAN]
    BY <1>10 DEF DriveCommit, PointersTypeOK, MemoryTypeOK
  <2>2. drive' \in DriveState
    BY <1>10 DEF DriveCommit, PointersTypeOK, MemoryTypeOK, DriveNext,
      DriveState
  <2> QED
    BY <1>10, <2>1, <2>2 DEF DriveCommit, PointersTypeOK, MemoryTypeOK
<1>11. CASE DriveCommitFails(c)
  <2>1. spec[c] \in PointerSpec
    BY <1>11 DEF DriveCommitFails, PointersTypeOK
  <2>2. spec' \in [Condocs -> PointerSpec]
    BY <1>11, <2>1, WithErrorType DEF DriveCommitFails, PointersTypeOK,
      MemoryTypeOK, WriteSpec
  <2>3. busy' \in [Condocs -> BOOLEAN]
    BY <1>11 DEF DriveCommitFails, PointersTypeOK, MemoryTypeOK, DriveDone,
      Release
  <2>4. drive' \in DriveState
    BY <1>11, DriveIdleType DEF DriveCommitFails, PointersTypeOK, MemoryTypeOK,
      DriveDone
  <2> QED
    BY <1>11, <2>2, <2>3, <2>4 DEF DriveCommitFails, PointersTypeOK,
      MemoryTypeOK
<1>12. CASE DriveClose(c)
  <2>1. drive.mem \in PointerSpec
    BY <1>12 DEF DriveClose, MemoryTypeOK, DriveState
  <2>2. doc[c] \in DocState
    BY <1>12 DEF DriveClose, PointersTypeOK
  <2>3. Synced(drive.mem, doc[c]) \in PointerSpec
    BY <1>12, <2>1, <2>2, SyncedType DEF DriveClose
  <2>4. spec' \in [Condocs -> PointerSpec]
    BY <1>12, <2>3 DEF DriveClose, PointersTypeOK, MemoryTypeOK, SyncSpec
  <2>5. dirty' \in [Condocs -> BOOLEAN]
    BY <1>12 DEF DriveClose, PointersTypeOK, MemoryTypeOK
  <2>6. busy' \in [Condocs -> BOOLEAN]
    BY <1>12 DEF DriveClose, PointersTypeOK, MemoryTypeOK, DriveDone, Release
  <2>7. drive' \in DriveState
    BY <1>12, DriveIdleType DEF DriveClose, PointersTypeOK, MemoryTypeOK,
      DriveDone
  <2> QED
    BY <1>12, <2>4, <2>5, <2>6, <2>7 DEF DriveClose, PointersTypeOK,
      MemoryTypeOK
<1>13. CASE QueueTurn(c)
  <2>1. drive.mem \in PointerSpec
    BY <1>13 DEF QueueTurn, MemoryTypeOK, DriveState
  <2>2. QueuedSpec(drive.mem, DueTurn(c)) \in PointerSpec
    BY <1>13, <2>1, QueuedSpecType DEF QueueTurn, DueTurn, TurnKind
  <2>3. spec' \in [Condocs -> PointerSpec]
    BY <1>13, <2>2 DEF QueueTurn, PointersTypeOK, MemoryTypeOK, WriteSpec
  <2>4. queue' \in Seq(Condocs)
    BY <1>13, EnqueueType DEF QueueTurn, PointersTypeOK, MemoryTypeOK
  <2>5. busy' \in [Condocs -> BOOLEAN]
    BY <1>13 DEF QueueTurn, PointersTypeOK, MemoryTypeOK, DriveDone, Release
  <2>6. drive' \in DriveState
    BY <1>13, DriveIdleType DEF QueueTurn, PointersTypeOK, MemoryTypeOK,
      DriveDone
  <2> QED
    BY <1>13, <2>3, <2>4, <2>5, <2>6 DEF QueueTurn, PointersTypeOK,
      MemoryTypeOK
<1>14. CASE QueueTurnFails(c)
  <2>1. drive.mem \in PointerSpec
    BY <1>14 DEF QueueTurnFails, MemoryTypeOK, DriveState
  <2>2. QueuedSpec(drive.mem, DueTurn(c)) \in PointerSpec
    BY <1>14, <2>1, QueuedSpecType DEF QueueTurnFails, DueTurn, TurnKind
  <2>3. spec[c] \in PointerSpec
    BY <1>14 DEF QueueTurnFails, PointersTypeOK
  <2>4. spec' \in [Condocs -> PointerSpec]
    BY <1>14, <2>2, <2>3, WithErrorType DEF QueueTurnFails, PointersTypeOK,
      MemoryTypeOK, WriteSpec
  <2>5. busy' \in [Condocs -> BOOLEAN]
    BY <1>14 DEF QueueTurnFails, PointersTypeOK, MemoryTypeOK, DriveDone,
      Release
  <2>6. drive' \in DriveState
    BY <1>14, DriveIdleType DEF QueueTurnFails, PointersTypeOK, MemoryTypeOK,
      DriveDone
  <2> QED
    BY <1>14, <2>4, <2>5, <2>6 DEF QueueTurnFails, PointersTypeOK, MemoryTypeOK
<1> QED
  BY <1>1, <1>2, <1>3, <1>4, <1>5, <1>6, <1>7, <1>8, <1>9, <1>10, <1>11, <1>12,
    <1>13, <1>14 DEF Driver

\* A step of the turn loop does.
LEMMA TurnLoopType ==
  ASSUME WorkSignalsTypeOK, PointersTypeOK, MemoryTypeOK,
         NEW c \in Condocs, TurnLoop(c)
  PROVE  PointersTypeOK' /\ MemoryTypeOK'
<1>1. CASE LoopClaim(c)
  <2>1. spec[c] \in PointerSpec
    BY <1>1 DEF LoopClaim, PointersTypeOK
  <2>2. busy' \in [Condocs -> BOOLEAN]
    BY <1>1 DEF LoopClaim, PointersTypeOK, MemoryTypeOK, Claim
  <2>3. running' \in Condocs \cup {None}
    BY <1>1 DEF LoopClaim, PointersTypeOK, MemoryTypeOK
  <2>4. loop' \in LoopState
    BY <1>1, <2>1 DEF LoopClaim, PointersTypeOK, MemoryTypeOK, LoopState
  <2> QED
    BY <1>1, <2>2, <2>3, <2>4 DEF LoopClaim, PointersTypeOK, MemoryTypeOK,
      pointerVars
<1>2. CASE LoopSettle(c)
  <2>1. spec[c] \in PointerSpec
    BY <1>2 DEF LoopSettle, PointersTypeOK
  <2>2. spec' \in [Condocs -> PointerSpec]
    BY <1>2, <2>1, WithErrorType DEF LoopSettle, PointersTypeOK, MemoryTypeOK,
      WriteSpec
  <2>3. queue' \in Seq(Condocs)
    BY <1>2, WithoutType DEF LoopSettle, PointersTypeOK, MemoryTypeOK
  <2>4. loop' \in LoopState
    BY <1>2 DEF LoopSettle, PointersTypeOK, MemoryTypeOK, LoopState
  <2> QED
    BY <1>2, <2>2, <2>3, <2>4 DEF LoopSettle, PointersTypeOK, MemoryTypeOK
<1>3. CASE LoopTake(c)
  <2>1. spec[c] \in PointerSpec
    BY <1>3 DEF LoopTake, PointersTypeOK
  <2>2. busy' \in [Condocs -> BOOLEAN]
    BY <1>3 DEF LoopTake, PointersTypeOK, MemoryTypeOK, Release
  <2>3. running' \in Condocs \cup {None}
    BY <1>3 DEF LoopTake, PointersTypeOK, MemoryTypeOK
  <2>4. force' \in [Condocs -> BOOLEAN]
    BY <1>3 DEF LoopTake, PointersTypeOK, MemoryTypeOK
  <2>5. loop' \in LoopState
    BY <1>3, LoopIdleType DEF LoopTake, PointersTypeOK, MemoryTypeOK, LoopState
  <2>6. forcing' \in [Condocs -> ForceState]
    BY <1>3, <2>1 DEF LoopTake, PointersTypeOK, MemoryTypeOK, ForceFrom,
      ForceState
  <2> QED
    BY <1>3, <2>2, <2>3, <2>4, <2>5, <2>6 DEF LoopTake, PointersTypeOK,
      MemoryTypeOK, pointerVars
<1>4. CASE TurnWaits(c)
  <2>1. loop' \in LoopState
    BY <1>4 DEF TurnWaits, PointersTypeOK, MemoryTypeOK, End, LoopState
  <2> QED
    BY <1>4, <2>1 DEF TurnWaits, PointersTypeOK, MemoryTypeOK, pointerVars
<1>5. CASE TurnSyncs(c)
  <2>1. loop' \in LoopState
    BY <1>5 DEF TurnSyncs, PointersTypeOK, MemoryTypeOK, LoopState
  <2> QED
    BY <1>5, <2>1 DEF TurnSyncs, PointersTypeOK, MemoryTypeOK, pointerVars
<1>6. CASE TurnDeploys(c)
  <2>1. loop.mem \in PointerSpec
    BY <1>6 DEF TurnDeploys, MemoryTypeOK, LoopState
  <2>2. [loop.mem EXCEPT !.phase = "agent_running"] \in PointerSpec
    BY <1>6, <2>1 DEF TurnDeploys, PointerSpec, Phase
  <2>3. AtStage("deployed", [loop.mem EXCEPT !.phase = "agent_running"]) \in
    PointerSpec
    BY <1>6, <2>2, AtStageType DEF TurnDeploys, Stage
  <2>4. loop' \in LoopState
    BY <1>6, <2>3 DEF TurnDeploys, PointersTypeOK, MemoryTypeOK, Save,
      LoopState
  <2> QED
    BY <1>6, <2>4 DEF TurnDeploys, PointersTypeOK, MemoryTypeOK, pointerVars
<1>7. CASE TurnSignals(c)
  <2>1. loop.mem \in PointerSpec
    BY <1>7 DEF TurnSignals, MemoryTypeOK, LoopState
  <2>2. created + 1 \in 0 .. MaxSignals
    BY <1>7, WorkSignalsAssumption DEF TurnSignals, Create, WorkSignalsTypeOK
  <2>3. [loop.mem EXCEPT !.turn.sig = created + 1] \in PointerSpec
    BY <1>7, <2>1, <2>2 DEF TurnSignals, PointerSpec, PointerTurn
  <2>4. AtStage("signalled", [loop.mem EXCEPT !.turn.sig = created + 1]) \in
    PointerSpec
    BY <1>7, <2>3, AtStageType DEF TurnSignals, Stage
  <2>5. loop' \in LoopState
    BY <1>7, <2>4 DEF TurnSignals, PointersTypeOK, MemoryTypeOK, Save,
      LoopState
  <2> QED
    BY <1>7, <2>5 DEF TurnSignals, PointersTypeOK, MemoryTypeOK, pointerVars
<1>8. CASE TurnReturns(c)
  <2>1. loop.mem \in PointerSpec
    BY <1>8 DEF TurnReturns, MemoryTypeOK, LoopState
  <2>2. AtStage("returned", loop.mem) \in PointerSpec
    BY <1>8, <2>1, AtStageType DEF TurnReturns, Stage
  <2>3. replyFile' \in [Condocs -> BOOLEAN]
    BY <1>8 DEF TurnReturns, PointersTypeOK, MemoryTypeOK
  <2>4. loop' \in LoopState
    BY <1>8, <2>2 DEF TurnReturns, PointersTypeOK, MemoryTypeOK, Save,
      LoopState
  <2> QED
    BY <1>8, <2>3, <2>4 DEF TurnReturns, PointersTypeOK, MemoryTypeOK
<1>9. CASE TurnReturnFails(c)
  <2>1. replyFile' \in [Condocs -> BOOLEAN]
    BY <1>9 DEF TurnReturnFails, PointersTypeOK, MemoryTypeOK
  <2>2. loop' \in LoopState
    BY <1>9 DEF TurnReturnFails, PointersTypeOK, MemoryTypeOK, End, LoopState
  <2> QED
    BY <1>9, <2>1, <2>2 DEF TurnReturnFails, PointersTypeOK, MemoryTypeOK
<1>10. CASE TurnAbandoned(c)
  <2>1. loop' \in LoopState
    BY <1>10 DEF TurnAbandoned, PointersTypeOK, MemoryTypeOK, End, LoopState
  <2> QED
    BY <1>10, <2>1 DEF TurnAbandoned, PointersTypeOK, MemoryTypeOK, pointerVars
<1>11. CASE TurnReplies(c)
  <2>1. loop.mem \in PointerSpec
    BY <1>11 DEF TurnReplies, MemoryTypeOK, LoopState
  <2>2. AtStage("replied", loop.mem) \in PointerSpec
    BY <1>11, <2>1, AtStageType DEF TurnReplies, Stage
  <2>3. doc' \in [Condocs -> DocState]
    BY <1>11 DEF TurnReplies, PointersTypeOK, MemoryTypeOK, AppendReply,
      DocState
  <2>4. dirty' \in [Condocs -> BOOLEAN]
    BY <1>11 DEF TurnReplies, PointersTypeOK, MemoryTypeOK, AppendReply
  <2>5. replies' \in [Condocs -> 0 .. 2]
    BY <1>11 DEF TurnReplies, PointersTypeOK, MemoryTypeOK, AppendReply
  <2>6. loop' \in LoopState
    BY <1>11, <2>2 DEF TurnReplies, PointersTypeOK, MemoryTypeOK, Save,
      LoopState
  <2> QED
    BY <1>11, <2>3, <2>4, <2>5, <2>6 DEF TurnReplies, PointersTypeOK,
      MemoryTypeOK
<1>12. CASE TurnHalfReplies(c)
  <2>1. doc' \in [Condocs -> DocState]
    BY <1>12 DEF TurnHalfReplies, PointersTypeOK, MemoryTypeOK, AppendReply,
      DocState
  <2>2. dirty' \in [Condocs -> BOOLEAN]
    BY <1>12 DEF TurnHalfReplies, PointersTypeOK, MemoryTypeOK, AppendReply
  <2>3. replies' \in [Condocs -> 0 .. 2]
    BY <1>12 DEF TurnHalfReplies, PointersTypeOK, MemoryTypeOK, AppendReply
  <2>4. loop' \in LoopState
    BY <1>12 DEF TurnHalfReplies, PointersTypeOK, MemoryTypeOK, End, LoopState
  <2> QED
    BY <1>12, <2>1, <2>2, <2>3, <2>4 DEF TurnHalfReplies, PointersTypeOK,
      MemoryTypeOK
<1>13. CASE TurnEnds(c)
  <2>1. loop.mem \in PointerSpec
    BY <1>13 DEF TurnEnds, MemoryTypeOK, LoopState
  <2>2. doc[c] \in DocState
    BY <1>13 DEF TurnEnds, PointersTypeOK
  <2>3. ClearedSpec(c) \in PointerSpec
    BY <1>13, <2>1, <2>2, SyncedPhaseType, NoTurnType DEF TurnEnds,
      ClearedSpec, PointerSpec
  <2>4. spec' \in [Condocs -> PointerSpec]
    BY <1>13, <2>3 DEF TurnEnds, PointersTypeOK, MemoryTypeOK, WriteSpec
  <2>5. dirty' \in [Condocs -> BOOLEAN]
    BY <1>13 DEF TurnEnds, PointersTypeOK, MemoryTypeOK
  <2>6. replyFile' \in [Condocs -> BOOLEAN]
    BY <1>13 DEF TurnEnds, PointersTypeOK, MemoryTypeOK
  <2>7. loop' \in LoopState
    BY <1>13 DEF TurnEnds, PointersTypeOK, MemoryTypeOK, End, LoopState
  <2> QED
    BY <1>13, <2>4, <2>5, <2>6, <2>7 DEF TurnEnds, PointersTypeOK, MemoryTypeOK
<1>14. CASE TurnEndUnsaved(c)
  <2>1. loop.mem \in PointerSpec
    BY <1>14 DEF TurnEndUnsaved, MemoryTypeOK, LoopState
  <2>2. doc[c] \in DocState
    BY <1>14 DEF TurnEndUnsaved, PointersTypeOK
  <2>3. ClearedSpec(c) \in PointerSpec
    BY <1>14, <2>1, <2>2, SyncedPhaseType, NoTurnType DEF TurnEndUnsaved,
      ClearedSpec, PointerSpec
  <2>4. spec' \in [Condocs -> PointerSpec]
    BY <1>14, <2>3 DEF TurnEndUnsaved, PointersTypeOK, MemoryTypeOK,
      WriteSpecFails
  <2>5. dirty' \in [Condocs -> BOOLEAN]
    BY <1>14 DEF TurnEndUnsaved, PointersTypeOK, MemoryTypeOK
  <2>6. replyFile' \in [Condocs -> BOOLEAN]
    BY <1>14 DEF TurnEndUnsaved, PointersTypeOK, MemoryTypeOK
  <2>7. loop' \in LoopState
    BY <1>14 DEF TurnEndUnsaved, PointersTypeOK, MemoryTypeOK, End, LoopState
  <2> QED
    BY <1>14, <2>4, <2>5, <2>6, <2>7 DEF TurnEndUnsaved, PointersTypeOK,
      MemoryTypeOK
<1>15. CASE ProposalSignals(c)
  <2>1. loop.mem \in PointerSpec
    BY <1>15 DEF ProposalSignals, MemoryTypeOK, LoopState
  <2>2. created + 1 \in 0 .. MaxSignals
    BY <1>15, WorkSignalsAssumption DEF ProposalSignals, Create,
      WorkSignalsTypeOK
  <2>3. [loop.mem EXCEPT !.turn.sig = created + 1, !.phase = "agent_running"]
    \in PointerSpec
    BY <1>15, <2>1, <2>2 DEF ProposalSignals, PointerSpec, PointerTurn, Phase
  <2>4. AtStage("signalled", [loop.mem EXCEPT !.turn.sig = created + 1, !.phase
    = "agent_running"]) \in PointerSpec
    BY <1>15, <2>3, AtStageType DEF ProposalSignals, Stage
  <2>5. loop' \in LoopState
    BY <1>15, <2>4 DEF ProposalSignals, PointersTypeOK, MemoryTypeOK, Save,
      LoopState
  <2> QED
    BY <1>15, <2>5 DEF ProposalSignals, PointersTypeOK, MemoryTypeOK,
      pointerVars
<1>16. CASE ProposalEnds(c)
  <2>1. \A u \in BOOLEAN : [phase |-> "pr_proposed", turn |-> NoTurn, err |->
    u] \in PointerSpec
    BY <1>16, NoTurnType DEF ProposalEnds, PointerSpec, Phase
  <2>2. spec' \in [Condocs -> PointerSpec]
    BY <1>16, <2>1 DEF ProposalEnds, PointersTypeOK, MemoryTypeOK, WriteSpec
  <2>3. loop' \in LoopState
    BY <1>16 DEF ProposalEnds, PointersTypeOK, MemoryTypeOK, End, LoopState
  <2> QED
    BY <1>16, <2>2, <2>3 DEF ProposalEnds, PointersTypeOK, MemoryTypeOK
<1>17. CASE TurnBlocked(c)
  <2>1. loop' \in LoopState
    BY <1>17 DEF TurnBlocked, PointersTypeOK, MemoryTypeOK, End, LoopState
  <2> QED
    BY <1>17, <2>1 DEF TurnBlocked, PointersTypeOK, MemoryTypeOK, pointerVars
<1>18. CASE TurnFails(c)
  <2>1. loop' \in LoopState
    BY <1>18 DEF TurnFails, PointersTypeOK, MemoryTypeOK, End, LoopState
  <2> QED
    BY <1>18, <2>1 DEF TurnFails, PointersTypeOK, MemoryTypeOK, pointerVars
<1>19. CASE SaveStage(c)
  <2>1. loop.mem \in PointerSpec
    BY <1>19 DEF SaveStage, MemoryTypeOK, LoopState
  <2>2. spec' \in [Condocs -> PointerSpec]
    BY <1>19, <2>1 DEF SaveStage, PointersTypeOK, MemoryTypeOK, WriteSpec
  <2>3. loop' \in LoopState
    BY <1>19 DEF SaveStage, PointersTypeOK, MemoryTypeOK, LoopState
  <2> QED
    BY <1>19, <2>2, <2>3 DEF SaveStage, PointersTypeOK, MemoryTypeOK
<1>20. CASE SaveStageFails(c)
  <2>1. loop.mem \in PointerSpec
    BY <1>20 DEF SaveStageFails, MemoryTypeOK, LoopState
  <2>2. spec' \in [Condocs -> PointerSpec]
    BY <1>20, <2>1 DEF SaveStageFails, PointersTypeOK, MemoryTypeOK,
      WriteSpecFails
  <2>3. loop' \in LoopState
    BY <1>20 DEF SaveStageFails, PointersTypeOK, MemoryTypeOK, End, LoopState
  <2> QED
    BY <1>20, <2>2, <2>3 DEF SaveStageFails, PointersTypeOK, MemoryTypeOK
<1> QED
  BY <1>1, <1>2, <1>3, <1>4, <1>5, <1>6, <1>7, <1>8, <1>9, <1>10, <1>11, <1>12,
    <1>13, <1>14, <1>15, <1>16, <1>17, <1>18, <1>19, <1>20 DEF TurnLoop

\* A step of a force complete does.
LEMMA ForceType ==
  ASSUME PointersTypeOK, MemoryTypeOK, NEW c \in Condocs, ForceComplete(c)
  PROVE  PointersTypeOK' /\ MemoryTypeOK'
<1>1. CASE AbandonSignal(c)
  <2>1. forcing[c].mem \in PointerSpec
    BY <1>1 DEF AbandonSignal, MemoryTypeOK, ForceState
  <2>2. forcing' \in [Condocs -> ForceState]
    BY <1>1, <2>1, ForceToType DEF AbandonSignal, PointersTypeOK, MemoryTypeOK
  <2> QED
    BY <1>1, <2>2 DEF AbandonSignal, PointersTypeOK, MemoryTypeOK, pointerVars
<1>2. CASE AbandonReturn(c)
  <2>1. forcing[c].mem \in PointerSpec
    BY <1>2 DEF AbandonReturn, MemoryTypeOK, ForceState
  <2>2. replyFile' \in [Condocs -> BOOLEAN]
    BY <1>2 DEF AbandonReturn, PointersTypeOK, MemoryTypeOK
  <2>3. forcing' \in [Condocs -> ForceState]
    BY <1>2, <2>1, ForceToType DEF AbandonReturn, PointersTypeOK, MemoryTypeOK
  <2> QED
    BY <1>2, <2>2, <2>3 DEF AbandonReturn, PointersTypeOK, MemoryTypeOK
<1>3. CASE AbandonWrite(c)
  <2>1. forcing[c].mem \in PointerSpec
    BY <1>3 DEF AbandonWrite, MemoryTypeOK, ForceState
  <2>2. forcing' \in [Condocs -> ForceState]
    BY <1>3, <2>1, ForceToType DEF AbandonWrite, PointersTypeOK, MemoryTypeOK
  <2> QED
    BY <1>3, <2>2 DEF AbandonWrite, PointersTypeOK, MemoryTypeOK, pointerVars
<1>4. CASE AbandonFails(c)
  <2>1. forcing[c].mem \in PointerSpec
    BY <1>4 DEF AbandonFails, MemoryTypeOK, ForceState
  <2>2. spec' \in [Condocs -> PointerSpec]
    BY <1>4, <2>1, WithErrorType DEF AbandonFails, PointersTypeOK,
      MemoryTypeOK, WriteSpec
  <2>3. queue' \in Seq(Condocs)
    BY <1>4, WithoutType DEF AbandonFails, PointersTypeOK, MemoryTypeOK
  <2>4. busy' \in [Condocs -> BOOLEAN]
    BY <1>4 DEF AbandonFails, PointersTypeOK, MemoryTypeOK, ForceDone, Release
  <2>5. loop' \in LoopState
    BY <1>4, LoopIdleType DEF AbandonFails, PointersTypeOK, MemoryTypeOK,
      ForceDone
  <2>6. forcing' \in [Condocs -> ForceState]
    BY <1>4, NotForcingType DEF AbandonFails, PointersTypeOK, MemoryTypeOK,
      ForceDone
  <2> QED
    BY <1>4, <2>2, <2>3, <2>4, <2>5, <2>6 DEF AbandonFails, PointersTypeOK,
      MemoryTypeOK
<1>5. CASE ForceFinalize(c)
  <2>1. forcing[c].mem \in PointerSpec
    BY <1>5 DEF ForceFinalize, MemoryTypeOK, ForceState
  <2>2. [forcing[c].mem EXCEPT !.turn = NoTurn, !.err = FALSE] \in PointerSpec
    BY <1>5, <2>1, NoTurnType DEF ForceFinalize, PointerSpec
  <2>3. doc' \in [Condocs -> DocState]
    BY <1>5 DEF ForceFinalize, PointersTypeOK, MemoryTypeOK, DocState
  <2>4. dirty' \in [Condocs -> BOOLEAN]
    BY <1>5 DEF ForceFinalize, PointersTypeOK, MemoryTypeOK
  <2>5. queue' \in Seq(Condocs)
    BY <1>5, WithoutType DEF ForceFinalize, PointersTypeOK, MemoryTypeOK
  <2>6. forcing' \in [Condocs -> ForceState]
    BY <1>5, <2>2, ForceToType DEF ForceFinalize, PointersTypeOK, MemoryTypeOK
  <2> QED
    BY <1>5, <2>3, <2>4, <2>5, <2>6 DEF ForceFinalize, PointersTypeOK,
      MemoryTypeOK
<1>6. CASE ForceCommit(c)
  <2>1. forcing[c].mem \in PointerSpec
    BY <1>6 DEF ForceCommit, MemoryTypeOK, ForceState
  <2>2. doc[c] \in DocState
    BY <1>6 DEF ForceCommit, PointersTypeOK
  <2>3. Synced(forcing[c].mem, doc[c]) \in PointerSpec
    BY <1>6, <2>1, <2>2, SyncedType DEF ForceCommit
  <2>4. spec' \in [Condocs -> PointerSpec]
    BY <1>6, <2>3 DEF ForceCommit, PointersTypeOK, MemoryTypeOK, SyncSpec
  <2>5. dirty' \in [Condocs -> BOOLEAN]
    BY <1>6 DEF ForceCommit, PointersTypeOK, MemoryTypeOK
  <2>6. busy' \in [Condocs -> BOOLEAN]
    BY <1>6 DEF ForceCommit, PointersTypeOK, MemoryTypeOK, ForceDone, Release
  <2>7. loop' \in LoopState
    BY <1>6, LoopIdleType DEF ForceCommit, PointersTypeOK, MemoryTypeOK,
      ForceDone
  <2>8. forcing' \in [Condocs -> ForceState]
    BY <1>6, NotForcingType DEF ForceCommit, PointersTypeOK, MemoryTypeOK,
      ForceDone
  <2> QED
    BY <1>6, <2>4, <2>5, <2>6, <2>7, <2>8 DEF ForceCommit, PointersTypeOK,
      MemoryTypeOK
<1>7. CASE ForceCommitFails(c)
  <2>1. forcing[c].mem \in PointerSpec
    BY <1>7 DEF ForceCommitFails, MemoryTypeOK, ForceState
  <2>2. spec' \in [Condocs -> PointerSpec]
    BY <1>7, <2>1, WithErrorType DEF ForceCommitFails, PointersTypeOK,
      MemoryTypeOK, WriteSpec
  <2>3. busy' \in [Condocs -> BOOLEAN]
    BY <1>7 DEF ForceCommitFails, PointersTypeOK, MemoryTypeOK, ForceDone,
      Release
  <2>4. loop' \in LoopState
    BY <1>7, LoopIdleType DEF ForceCommitFails, PointersTypeOK, MemoryTypeOK,
      ForceDone
  <2>5. forcing' \in [Condocs -> ForceState]
    BY <1>7, NotForcingType DEF ForceCommitFails, PointersTypeOK, MemoryTypeOK,
      ForceDone
  <2> QED
    BY <1>7, <2>2, <2>3, <2>4, <2>5 DEF ForceCommitFails, PointersTypeOK,
      MemoryTypeOK
<1>8. CASE ForceRefused(c)
  <2>1. spec' \in [Condocs -> PointerSpec]
    BY <1>8, WithErrorType DEF ForceRefused, PointersTypeOK, WriteSpec
  <2>2. busy' \in [Condocs -> BOOLEAN]
    BY <1>8 DEF ForceRefused, MemoryTypeOK, ForceDone, Release
  <2>3. loop' \in LoopState
    BY <1>8, LoopIdleType DEF ForceRefused, MemoryTypeOK, ForceDone
  <2>4. forcing' \in [Condocs -> ForceState]
    BY <1>8, NotForcingType DEF ForceRefused, MemoryTypeOK, ForceDone
  <2> QED
    BY <1>8, <2>1, <2>2, <2>3, <2>4 DEF ForceRefused, PointersTypeOK, MemoryTypeOK
<1> QED
  BY <1>1, <1>2, <1>3, <1>4, <1>5, <1>6, <1>7, <1>8 DEF ForceComplete

\* What is asked for in the UI does.
LEMMA HumanType ==
  ASSUME PointersTypeOK, MemoryTypeOK, NEW c \in Condocs, Human(c)
  PROVE  PointersTypeOK' /\ MemoryTypeOK'
<1>1. CASE Directive(c)
  <2>1. doc' \in [Condocs -> DocState]
    BY <1>1 DEF Directive, PointersTypeOK, MemoryTypeOK, DocState
  <2>2. dirty' \in [Condocs -> BOOLEAN]
    BY <1>1 DEF Directive, PointersTypeOK, MemoryTypeOK
  <2> QED
    BY <1>1, <2>1, <2>2 DEF Directive, PointersTypeOK, MemoryTypeOK, memoryVars
<1>2. CASE Resubmit(c)
  <2>1. [spec[c] EXCEPT !.err = FALSE] \in PointerSpec
    BY <1>2 DEF Resubmit, PointersTypeOK, PointerSpec
  <2>2. spec' \in [Condocs -> PointerSpec]
    BY <1>2, <2>1 DEF Resubmit, PointersTypeOK, MemoryTypeOK, WriteSpec
  <2> QED
    BY <1>2, <2>2 DEF Resubmit, PointersTypeOK, MemoryTypeOK, memoryVars
<1>3. CASE RegeneratePRs(c)
  <2>1. [phase |-> "queued", turn |-> NewTurn("propose_pr"), err |-> FALSE] \in
    PointerSpec
    BY <1>3, NewTurnType DEF RegeneratePRs, PointerSpec, TurnKind, Phase
  <2>2. spec' \in [Condocs -> PointerSpec]
    BY <1>3, <2>1 DEF RegeneratePRs, PointersTypeOK, MemoryTypeOK, WriteSpec
  <2>3. queue' \in Seq(Condocs)
    BY <1>3, EnqueueType DEF RegeneratePRs, PointersTypeOK, MemoryTypeOK
  <2> QED
    BY <1>3, <2>2, <2>3 DEF RegeneratePRs, PointersTypeOK, MemoryTypeOK
<1>4. CASE ForceNow(c)
  <2>1. spec[c] \in PointerSpec
    BY <1>4 DEF ForceNow, PointersTypeOK
  <2>2. busy' \in [Condocs -> BOOLEAN]
    BY <1>4 DEF ForceNow, PointersTypeOK, MemoryTypeOK, Claim
  <2>3. forcing' \in [Condocs -> ForceState]
    BY <1>4, <2>1 DEF ForceNow, PointersTypeOK, MemoryTypeOK, ForceFrom,
      ForceState
  <2> QED
    BY <1>4, <2>2, <2>3 DEF ForceNow, PointersTypeOK, MemoryTypeOK, pointerVars
<1>5. CASE ForceDefer(c)
  <2>1. force' \in [Condocs -> BOOLEAN]
    BY <1>5 DEF ForceDefer, PointersTypeOK, MemoryTypeOK
  <2> QED
    BY <1>5, <2>1 DEF ForceDefer, PointersTypeOK, MemoryTypeOK, pointerVars
<1> QED
  BY <1>1, <1>2, <1>3, <1>4, <1>5 DEF Human

-----------------------------------------------------------------------------
(* The worker.                                                             *)

\* A worker's step keeps the slopspaces, the signals and the workers in their
\* types.
LEMMA WorkerRunsType ==
  ASSUME SlopspacesTypeOK, WorkSignalsTypeOK, WorkerTypeOK,
         NEW w \in Workers, WorkerRuns(w)
  PROVE  /\ SlopspacesTypeOK' /\ WorkSignalsTypeOK'
         /\ worker' \in [Workers -> WorkerState]
<1>1. ASSUME UNCHANGED slopspaceVars PROVE SlopspacesTypeOK'
  BY <1>1 DEF SlopspacesTypeOK, slopspaceVars
<1>2. ASSUME UNCHANGED signalVars PROVE WorkSignalsTypeOK'
  BY <1>2 DEF WorkSignalsTypeOK, signalVars
<1>3. ASSUME NEW s \in WorkerState, Step(w, s)
      PROVE  worker' \in [Workers -> WorkerState]
  BY <1>3 DEF Step, WorkerTypeOK
<1>4. Idle \in WorkerState
  BY WorkSignalsAssumption DEF Idle, WorkerState
<1>5. worker[w] \in WorkerState
  BY DEF WorkerTypeOK
<1>6. CASE Find(w)
  <2>1. PICK i \in FirstPending : Step(w, [Idle EXCEPT !.pc = "found", !.sig = i])
    BY <1>6 DEF Find
  <2>2. i \in 0 .. MaxSignals
    BY WorkSignalsAssumption DEF FirstPending, Pending, WorkSignalsTypeOK
  <2>3. [Idle EXCEPT !.pc = "found", !.sig = i] \in WorkerState
    BY <1>4, <2>2 DEF WorkerState
  <2> QED  BY <1>1, <1>2, <1>3, <1>6, <2>1, <2>3 DEF Find
<1>7. CASE Take(w)
  <2>1. [worker[w] EXCEPT !.pc = "taken"] \in WorkerState
    BY <1>5 DEF WorkerState
  <2> QED  BY <1>1, <1>3, <1>7, <2>1, TakeOwnershipType DEF Take
<1>8. CASE TakeGone(w)
  BY <1>1, <1>2, <1>3, <1>4, <1>8 DEF TakeGone
<1>9. CASE Locate(w)
  <2>1. \A pc \in {"running", "deploying"} :
           [worker[w] EXCEPT !.pc = pc] \in WorkerState
    BY <1>5 DEF WorkerState
  <2> QED  BY <1>1, <1>2, <1>3, <1>9, <2>1 DEF Locate
<1>10. CASE DeployOwn(w)
  <2>1. w \in Slopspace
    BY DEF Slopspace
  <2>2. [worker[w] EXCEPT !.pc = "running", !.own = TRUE] \in WorkerState
    BY <1>5, <2>1 DEF WorkerState
  <2>3. SlopspacesTypeOK'
    BY <1>10, <2>1 DEF DeployOwn, CreateAndDeploy, SlopspacesTypeOK
  <2> QED  BY <1>2, <1>3, <1>10, <2>2, <2>3 DEF DeployOwn
<1>11. CASE AgentExits(w)
  <2>1. \A pc \in {"returning", "ran"} :
           [worker[w] EXCEPT !.pc = pc] \in WorkerState
    BY <1>5 DEF WorkerState
  <2> QED  BY <1>1, <1>2, <1>3, <1>11, <2>1, AppendType DEF AgentExits
<1>12. CASE ReturnOwn(w)
  <2>1. [worker[w] EXCEPT !.pc = "ran"] \in WorkerState
    BY <1>5 DEF WorkerState
  <2>2. w \in Slopspace
    BY DEF Slopspace
  <2> QED  BY <1>2, <1>3, <1>12, <2>1, <2>2, SlopspacesType DEF ReturnOwn
<1>13. CASE Finish(w)
  <2>1. WorkSignalsTypeOK'
    BY <1>2, <1>13, CompleteType DEF Finish
  <2> QED  BY <1>1, <1>3, <1>4, <1>13, <2>1 DEF Finish
<1> QED
  BY <1>6, <1>7, <1>8, <1>9, <1>10, <1>11, <1>12, <1>13 DEF WorkerRuns

-----------------------------------------------------------------------------
\* Initially every variable has its type.
LEMMA InitType == ASSUME Init PROVE TypeOK
<1>1. SlopspacesTypeOK
  BY DEF Init, WorkerInit, SlopspacesInit, SlopspacesTypeOK, Slopspace
<1>2. WorkSignalsTypeOK
  BY WorkSignalsAssumption DEF Init, WorkerInit, WorkSignalsInit,
    WorkSignalsTypeOK, Role, WorkType
<1>3. WorkerTypeOK
  BY WorkSignalsAssumption DEF Init, WorkerInit, WorkerTypeOK, Idle, WorkerState
<1>4. PointersTypeOK
  BY NoSpecType DEF Init, PointersTypeOK, DocState
<1>5. MemoryTypeOK
  BY NoSpecType, DriveIdleType, LoopIdleType, NotForcingType
    DEF Init, MemoryInit, MemoryTypeOK
<1> QED  BY <1>1, <1>2, <1>3, <1>4, <1>5 DEF TypeOK

\* Every step keeps it.
LEMMA NextType == ASSUME TypeOK, [Next]_vars PROVE TypeOK'
<1> USE DEF TypeOK
<1>1. CASE Next
  <2>1. used' \in [BoundedEvent -> Nat]
    BY <1>1, UsedType
  <2>2. ASSUME UNCHANGED <<slopspaceVars, signalVars, worker>>
        PROVE  SlopspacesTypeOK' /\ WorkSignalsTypeOK' /\ WorkerTypeOK'
    BY <2>1, <2>2 DEF SlopspacesTypeOK, slopspaceVars, WorkSignalsTypeOK,
      signalVars, WorkerTypeOK
  <2>3. ASSUME NEW c \in Condocs, Driver(c) PROVE TypeOK'
    BY <2>2, <2>3, DriverFrame, DriverType
  <2>4. ASSUME NEW c \in Condocs, Human(c) PROVE TypeOK'
    BY <2>2, <2>4, HumanFrame, HumanType
  <2>5. ASSUME NEW c \in Condocs, TurnLoop(c) PROVE TypeOK'
    <3>1. SlopspacesTypeOK'
      BY <2>5, TurnLoopFrame, SlopspacesType DEF Slopspace
    <3>2. WorkSignalsTypeOK'
      <4>1. CASE UNCHANGED signalVars
        BY <4>1 DEF WorkSignalsTypeOK, signalVars
      <4>2. CASE \E work \in WorkType : Create(c, work)
        BY <4>2, CreateType DEF Role
      <4> QED  BY <2>5, <4>1, <4>2, TurnLoopFrame
    <3>3. WorkerTypeOK'
      BY <2>1, <2>5, TurnLoopFrame DEF WorkerTypeOK
    <3> QED  BY <2>5, <3>1, <3>2, <3>3, TurnLoopType
  <2>6. ASSUME NEW c \in Condocs, ForceComplete(c) PROVE TypeOK'
    <3>1. SlopspacesTypeOK'
      BY <2>6, ForceFrame, SlopspacesType DEF Slopspace
    <3>2. WorkSignalsTypeOK'
      <4>1. CASE UNCHANGED signalVars
        BY <4>1 DEF WorkSignalsTypeOK, signalVars
      <4>2. CASE \E i : Complete(i)
        BY <4>2, CompleteType
      <4> QED  BY <2>6, <4>1, <4>2, ForceFrame
    <3>3. WorkerTypeOK'
      BY <2>1, <2>6, ForceFrame DEF WorkerTypeOK
    <3> QED  BY <2>6, <3>1, <3>2, <3>3, ForceType
  <2>7. CASE TickRead
    <3>1. MemoryTypeOK'
      BY <2>7 DEF TickRead, MemoryTypeOK, PointersTypeOK
    <3>2. PointersTypeOK'
      BY <2>7 DEF TickRead, PointersTypeOK, pointerVars
    <3> QED  BY <2>2, <2>7, <3>1, <3>2 DEF TickRead, workerVars
  <2>8. CASE Crash
    <3>1. MemoryTypeOK'
      BY <2>8, NoSpecType, DriveIdleType, LoopIdleType, NotForcingType
        DEF Crash, MemoryTypeOK
    <3>2. PointersTypeOK'
      BY <2>8 DEF Crash, PointersTypeOK, pointerVars
    <3> QED  BY <2>2, <2>8, <3>1, <3>2 DEF Crash
  <2>9. CASE WorkerNext
    <3>1. PointersTypeOK' /\ MemoryTypeOK'
      BY <2>9 DEF WorkerNext, PointersTypeOK, pointerVars, MemoryTypeOK, memoryVars
    <3>2. ASSUME NEW w \in Workers, WorkerRuns(w) PROVE TypeOK'
      BY <2>1, <3>1, <3>2, WorkerRunsType DEF WorkerTypeOK
    <3>3. ASSUME NEW w \in Workers, WorkerCrash(w) PROVE TypeOK'
      <4>1. worker' \in [Workers -> WorkerState]
        BY <3>3, WorkSignalsAssumption DEF WorkerCrash, Step, Idle, WorkerState,
          WorkerTypeOK
      <4> QED  BY <2>1, <3>1, <3>3, <4>1 DEF WorkerCrash, SlopspacesTypeOK,
                 slopspaceVars, WorkSignalsTypeOK, signalVars, WorkerTypeOK
    <3> QED  BY <2>9, <3>2, <3>3 DEF WorkerNext
  <2> QED
    BY <1>1, <2>3, <2>4, <2>5, <2>6, <2>7, <2>8, <2>9 DEF Next
<1>2. CASE UNCHANGED vars
  BY <1>2 DEF vars, workerVars, pointerVars, memoryVars, slopspaceVars, signalVars,
    SlopspacesTypeOK, WorkSignalsTypeOK, WorkerTypeOK, PointersTypeOK, MemoryTypeOK
<1> QED  BY <1>1, <1>2

\* The type invariant of the condocs' pointers and condoccer's memory, of the
\* slopspaces, the signals and the workers holds in every behaviour.
THEOREM Typing == Spec => []TypeOK
<1>1. Init => TypeOK  BY InitType
<1>2. TypeOK /\ [Next]_vars => TypeOK'  BY NextType
<1> QED  BY <1>1, <1>2, PTL DEF Spec

-----------------------------------------------------------------------------
(***************************************************************************)
(* No two of the driver, the turn loop and the force completes ever work   *)
(* on the same condoc, and no force complete is left without one to carry  *)
(* it out: Condoccer implements Claims.                                    *)
(*                                                                         *)
(* ClaimsExclusive alone is not inductive.  That an unclaimed condoc has   *)
(* nobody at work on it needs, beside the type invariant, that whoever is  *)
(* idle holds no condoc, that a force complete by the turn loop is under   *)
(* way exactly while the loop is in "force", and that slop.running is the  *)
(* loop's condoc until the loop has looked at the force flag.  The last is *)
(* what makes deferForceComplete's flag safe to set.                       *)
(***************************************************************************)

ClaimInv ==
    /\ ClaimsExclusive
    /\ ForceNeverStranded
    /\ drive.stem = None <=> drive.pc = "idle"
    /\ loop.stem = None <=> loop.pc = "idle"
    /\ running = IF loop.pc = "force" THEN None ELSE loop.stem
    /\ \A c \in Condocs :
          forcing[c].pc # "idle" /\ forcing[c].by = "loop" <=> Loop(c, "force")

claimedVars == <<busy, running, force, drive, loop, forcing>>

-----------------------------------------------------------------------------
(* What the many actions of a process come to as far as claims go.         *)

\* The driver takes a claim, keeps at what it holds, or gives it up.
DriverClaims(c) == drive = DriveIdle /\ Claim(c) /\ drive'.stem = c /\ drive'.pc # "idle"
DriverKeeps(c) ==
    /\ drive.stem = c /\ drive.pc # "idle" /\ UNCHANGED busy
    /\ drive'.stem = c /\ drive'.pc # "idle"
DriverReleases(c) == drive.stem = c /\ drive.pc # "idle" /\ DriveDone(c)

DriverStep(c) ==
    \/ UNCHANGED claimedVars
    \/ /\ DriverClaims(c) \/ DriverKeeps(c) \/ DriverReleases(c)
       /\ UNCHANGED <<running, force, loop, forcing>>

\* The turn loop takes a claim, keeps at its turn, or ends its hold on it as
\* takeForceComplete does.
LoopClaims(c) ==
    /\ loop = LoopIdle /\ Claim(c) /\ running' = c
    /\ loop'.stem = c /\ loop'.pc \in {"stage", "after"}
LoopKeeps(c) ==
    /\ loop.stem = c /\ loop.pc \notin {"idle", "force"} /\ UNCHANGED <<busy, running>>
    /\ loop'.stem = c /\ loop'.pc \in {"stage", "deploy", "save", "after", "settled"}

LoopStep(c) ==
    \/ UNCHANGED claimedVars
    \/ /\ LoopClaims(c) \/ LoopKeeps(c)
       /\ UNCHANGED <<force, drive, forcing>>
    \/ LoopTake(c) /\ UNCHANGED drive

\* A force complete goes on, or is done and gives up the claim.
ForceKeeps(c) ==
    /\ UNCHANGED <<busy, loop>>
    /\ \E pc \in {"return", "write", "finalize", "commit"} : \E s : ForceTo(c, pc, s)

ForceStep(c) ==
    /\ forcing[c].pc # "idle"
    /\ ForceKeeps(c) \/ ForceDone(c)
    /\ UNCHANGED <<running, force, drive>>

\* Of what is asked for in the UI only Force Complete outlasts its request.
HumanStep(c) ==
    \/ UNCHANGED claimedVars
    \/ ForceNow(c) /\ UNCHANGED <<running, force, drive, loop>>
    \/ ForceDefer(c) /\ UNCHANGED <<busy, running, drive, loop, forcing>>

\* Every action of the driver is such a step.
LEMMA DriverSteps ==
  ASSUME MemoryTypeOK, NEW c \in Condocs, Driver(c)
  PROVE  DriverStep(c)
<1>1. \A pc \in {"start", "queue", "close"} : \A s :
         Driving(c, "claimed") \/ Driving(c, "start")
           => (DriveNext(pc, s) /\ UNCHANGED busy => DriverKeeps(c))
  BY DEF MemoryTypeOK, DriveState, Driving, DriveNext, DriverKeeps
<1>2. CASE VisitTurn(c) \/ VisitSkip(c)
  BY <1>2 DEF VisitTurn, VisitSkip, Visit, DriverStep, claimedVars
<1>3. CASE VisitIdle(c)
  BY <1>3 DEF VisitIdle, Visit, DriverStep, DriverClaims
<1>4. CASE DriveHandoff(c) \/ DriveCompletion(c) \/ DriveRecover(c) \/ DriveCommit(c)
  BY <1>1, <1>4 DEF DriveHandoff, DriveCompletion, DriveRecover, DriveCommit,
    pointerVars, DriverStep
<1>5. CASE \/ DriveNothing(c) \/ DriveSync(c) \/ DriveSyncFails(c) \/ DriveCommitFails(c)
           \/ DriveClose(c) \/ QueueTurn(c) \/ QueueTurnFails(c)
  BY <1>5 DEF DriveNothing, DriveSync, DriveSyncFails, DriveCommitFails, DriveClose,
    QueueTurn, QueueTurnFails, OnlySyncs, ProposalDue, Driving, DriverReleases, DriverStep
<1> QED  BY <1>2, <1>3, <1>4, <1>5 DEF Driver

\* Every action of the turn loop is.
LEMMA LoopSteps ==
  ASSUME MemoryTypeOK, NEW c \in Condocs, TurnLoop(c)
  PROVE  LoopStep(c)
<1>1. ASSUME NEW s, loop.stem = c, loop.pc \notin {"idle", "force"},
             Save(s) \/ (\E end : End(end)), UNCHANGED <<busy, running>>
      PROVE  LoopKeeps(c)
  BY <1>1 DEF MemoryTypeOK, LoopState, Save, End, LoopKeeps
<1>2. CASE LoopClaim(c)
  BY <1>2 DEF LoopClaim, LoopStep, LoopClaims
<1>3. CASE LoopTake(c)
  BY <1>3 DEF LoopTake, LoopStep
<1>4. CASE LoopSettle(c) \/ TurnSyncs(c) \/ SaveStage(c)
  BY <1>4 DEF LoopSettle, TurnSyncs, SaveStage, MemoryTypeOK, LoopState, Loop, Running,
    LoopStep, LoopKeeps
<1>5. CASE \/ TurnDeploys(c) \/ TurnSignals(c) \/ TurnReturns(c) \/ TurnReplies(c)
           \/ ProposalSignals(c)
  BY <1>1, <1>5 DEF TurnDeploys, TurnSignals, TurnReturns, TurnReplies,
    ProposalSignals, CanReply, pointerVars, Loop, Running, LoopStep
<1>6. CASE \/ TurnWaits(c) \/ TurnReturnFails(c) \/ TurnAbandoned(c) \/ TurnHalfReplies(c)
           \/ TurnEnds(c) \/ TurnEndUnsaved(c) \/ ProposalEnds(c) \/ TurnBlocked(c)
           \/ TurnFails(c) \/ SaveStageFails(c)
  BY <1>1, <1>6 DEF TurnWaits, TurnReturnFails, TurnAbandoned, TurnHalfReplies, TurnEnds,
    TurnEndUnsaved, ProposalEnds, TurnBlocked, TurnFails, SaveStageFails, Blocked,
    CanReply, pointerVars, Loop, Running, LoopStep
<1> QED  BY <1>2, <1>3, <1>4, <1>5, <1>6 DEF TurnLoop

\* Every action of a force complete is.
LEMMA ForceSteps ==
  ASSUME NEW c \in Condocs, ForceComplete(c)
  PROVE  ForceStep(c)
  BY DEF ForceComplete, AbandonSignal, AbandonReturn, AbandonWrite, AbandonFails,
    ForceRefused, ForceFinalize, ForceCommit, ForceCommitFails, ForceStep, ForceKeeps, Forcing,
    pointerVars

\* So is every request.
LEMMA HumanSteps ==
  ASSUME NEW c \in Condocs, Human(c)
  PROVE  HumanStep(c)
  BY DEF Human, HumanStep, Directive, Resubmit, RegeneratePRs, ForceNow, ForceDefer,
    claimedVars, memoryVars

-----------------------------------------------------------------------------
\* Nothing is claimed and nobody is at work in the beginning.
LEMMA ClaimInit == ASSUME Init PROVE ClaimInv
  BY PartiesAssumption DEF Init, MemoryInit, ClaimInv, ClaimsExclusive,
    ForceNeverStranded, DriverHolds, LoopHolds, UIHolds, DriveIdle, LoopIdle,
    NotForcing, Loop

\* The driver's claims are its own.
LEMMA DriverKeepsClaims ==
  ASSUME TypeOK, ClaimInv, NEW c \in Condocs, DriverStep(c)
  PROVE  ClaimInv'
  BY PartiesAssumption DEF TypeOK, MemoryTypeOK, ClaimInv, DriverStep, DriverClaims,
    DriverKeeps, DriverReleases, claimedVars, ClaimsExclusive, ForceNeverStranded,
    DriverHolds, LoopHolds, UIHolds, Claim, DriveDone, DriveIdle, Release, Loop

\* The turn loop's are its own, and it leaves no flag behind.
LEMMA LoopKeepsClaims ==
  ASSUME TypeOK, ClaimInv, NEW c \in Condocs, LoopStep(c)
  PROVE  ClaimInv'
<1> USE PartiesAssumption DEF TypeOK, MemoryTypeOK, ClaimInv, ClaimsExclusive,
      ForceNeverStranded, DriverHolds, LoopHolds, UIHolds, Loop
<1>1. CASE UNCHANGED claimedVars
  BY <1>1 DEF claimedVars
<1>2. CASE LoopClaims(c) /\ UNCHANGED <<force, drive, forcing>>
  <2>1. /\ ~busy[c] /\ busy'[c]
        /\ \A d \in Condocs \ {c} : busy'[d] = busy[d]
    BY <1>2 DEF LoopClaims, Claim
  <2> QED  BY <1>2, <2>1 DEF LoopClaims, LoopIdle
<1>3. CASE LoopKeeps(c) /\ UNCHANGED <<force, drive, forcing>>
  BY <1>3 DEF LoopKeeps
<1>4. CASE LoopTake(c) /\ UNCHANGED drive
  <2>1. loop.pc = "settled" /\ loop.stem = c /\ running' = None /\ ~force'[c]
    BY <1>4 DEF LoopTake
  <2>2. \A d \in Condocs \ {c} : ~force[d] /\ ~force'[d]
    BY <1>4, <2>1 DEF LoopTake
  <2>3. CASE force[c]
    <3>1. /\ loop'.pc = "force" /\ loop'.stem = c /\ UNCHANGED busy
          /\ forcing'[c].pc # "idle" /\ forcing'[c].by = "loop"
          /\ \A d \in Condocs \ {c} : forcing'[d] = forcing[d]
      BY <1>4, <2>3 DEF LoopTake, ForceFrom, LoopState
    <3> QED  BY <1>4, <2>1, <2>2, <3>1
  <2>4. CASE ~force[c]
    <3>1. /\ loop'.pc = "idle" /\ loop'.stem = None /\ UNCHANGED forcing
          /\ ~busy'[c] /\ \A d \in Condocs \ {c} : busy'[d] = busy[d]
      BY <1>4, <2>4 DEF LoopTake, LoopIdle, Release
    <3> QED  BY <1>4, <2>1, <2>2, <3>1
  <2> QED  BY <2>3, <2>4
<1> QED  BY <1>1, <1>2, <1>3, <1>4 DEF LoopStep

\* A force complete holds the claim under which it was begun.
LEMMA ForceKeepsClaims ==
  ASSUME TypeOK, ClaimInv, NEW c \in Condocs, ForceStep(c)
  PROVE  ClaimInv'
<1> USE PartiesAssumption DEF TypeOK, MemoryTypeOK, ClaimInv, ForceStep,
      ClaimsExclusive, ForceNeverStranded, DriverHolds, LoopHolds, UIHolds, Loop
<1>1. CASE ForceKeeps(c)
  <2>0. PICK pc \in {"return", "write", "finalize", "commit"} : \E s : ForceTo(c, pc, s)
    BY <1>1 DEF ForceKeeps
  <2>1. PICK s : ForceTo(c, pc, s)  BY <2>0
  <2>2. /\ forcing'[c].pc = pc /\ forcing'[c].by = forcing[c].by
        /\ \A d \in Condocs \ {c} : forcing'[d] = forcing[d]
    BY <2>1 DEF ForceTo, ForceState
  <2> QED  BY <1>1, <2>2 DEF ForceKeeps
<1>2. CASE ForceDone(c)
  <2>1. /\ forcing'[c] = NotForcing
        /\ \A d \in Condocs \ {c} : forcing'[d] = forcing[d]
        /\ ~busy'[c]
        /\ \A d \in Condocs \ {c} : busy'[d] = busy[d]
    BY <1>2 DEF ForceDone, Release
  <2>2. CASE forcing[c].by = "loop"
    BY <1>2, <2>1, <2>2 DEF ForceDone, LoopIdle, NotForcing
  <2>3. CASE forcing[c].by # "loop"
    BY <1>2, <2>1, <2>3 DEF ForceDone, NotForcing, ForceState
  <2> QED  BY <2>2, <2>3
<1> QED  BY <1>1, <1>2

\* A request is carried out under a claim of its own, or left to the turn
\* loop while it holds one.
LEMMA HumanKeepsClaims ==
  ASSUME TypeOK, ClaimInv, NEW c \in Condocs, HumanStep(c)
  PROVE  ClaimInv'
<1> USE PartiesAssumption DEF TypeOK, MemoryTypeOK, ClaimInv, ClaimsExclusive,
      ForceNeverStranded, DriverHolds, LoopHolds, UIHolds, Loop
<1>1. CASE UNCHANGED claimedVars
  BY <1>1 DEF claimedVars
<1>2. CASE ForceNow(c) /\ UNCHANGED <<running, force, drive, loop>>
  <2>1. /\ forcing'[c].pc # "idle" /\ forcing'[c].by = "ui"
        /\ \A d \in Condocs \ {c} : forcing'[d] = forcing[d]
    BY <1>2 DEF ForceNow, ForceFrom
  <2> QED  BY <1>2, <2>1 DEF ForceNow, Claim
<1>3. CASE ForceDefer(c) /\ UNCHANGED <<busy, running, drive, loop, forcing>>
  <2>1. loop.stem = c /\ loop.pc \in {"stage", "deploy", "save", "after", "settled"}
    BY <1>3 DEF ForceDefer, LoopState
  <2> QED  BY <1>3, <2>1 DEF ForceDefer
<1> QED  BY <1>1, <1>2, <1>3 DEF HumanStep

\* Every step keeps the invariant.
LEMMA ClaimNext == ASSUME TypeOK, ClaimInv, [Next]_vars PROVE ClaimInv'
<1>1. ASSUME UNCHANGED claimedVars PROVE ClaimInv'
  BY <1>1 DEF claimedVars, ClaimInv, ClaimsExclusive, ForceNeverStranded, DriverHolds,
    LoopHolds, UIHolds, Loop
<1>2. ASSUME NEW c \in Condocs, Driver(c) PROVE ClaimInv'
  BY <1>2, DriverSteps, DriverKeepsClaims DEF TypeOK
<1>3. ASSUME NEW c \in Condocs, TurnLoop(c) PROVE ClaimInv'
  BY <1>3, LoopSteps, LoopKeepsClaims DEF TypeOK
<1>4. ASSUME NEW c \in Condocs, ForceComplete(c) PROVE ClaimInv'
  BY <1>4, ForceSteps, ForceKeepsClaims
<1>5. ASSUME NEW c \in Condocs, Human(c) PROVE ClaimInv'
  BY <1>5, HumanSteps, HumanKeepsClaims
<1>6. CASE TickRead
  BY <1>1, <1>6 DEF TickRead, claimedVars
<1>7. CASE WorkerNext
  BY <1>1, <1>7 DEF WorkerNext, memoryVars, claimedVars
<1>8. CASE Crash
  BY <1>8, PartiesAssumption DEF Crash, ClaimInv, ClaimsExclusive, ForceNeverStranded,
    DriverHolds, LoopHolds, UIHolds, DriveIdle, LoopIdle, NotForcing, Loop
<1>9. CASE UNCHANGED vars
  BY <1>1, <1>9 DEF vars, memoryVars, claimedVars
<1> QED  BY <1>2, <1>3, <1>4, <1>5, <1>6, <1>7, <1>8, <1>9 DEF Next

\* The inductive invariant holds in every behaviour.
THEOREM ClaimsInvariant == Spec => []ClaimInv
<1>1. Init => ClaimInv  BY ClaimInit
<1>2. TypeOK /\ ClaimInv /\ [Next]_vars => ClaimInv'  BY ClaimNext
<1> QED  BY <1>1, <1>2, Typing, PTL DEF Spec

\* A claimed condoc has exactly one holder, an unclaimed one none.
THEOREM ClaimsAreExclusive == Spec => []ClaimsExclusive
<1>1. ClaimInv => ClaimsExclusive  BY DEF ClaimInv
<1> QED  BY <1>1, ClaimsInvariant, PTL

\* An accepted force complete always has the turn loop to carry it out.
THEOREM ForceIsNeverStranded == Spec => []ForceNeverStranded
<1>1. ClaimInv => ForceNeverStranded  BY DEF ClaimInv
<1> QED  BY <1>1, ClaimsInvariant, PTL

-----------------------------------------------------------------------------
(***************************************************************************)
(* Condoccer implements Claims, for any condocs, workers and limits.  The  *)
(* holder of a claim is read off who is at work on the condoc, which makes *)
(* sense because, by ClaimInv, nobody else is.  What the actions of each   *)
(* process come to (DriverStep, LoopStep, ForceStep, HumanStep) is then a  *)
(* step of Claims or leaves its variables as they are.                     *)
(***************************************************************************)
Holders == [c \in Condocs |-> HolderOf(c)]

ClaimsStep == AbstractClaims!ClaimsNext \/ (Holders' = Holders /\ force' = force)

\* A claim is free exactly when nobody holds it.
LEMMA FreeIsUnclaimed ==
  ASSUME TypeOK, ClaimInv, NEW c \in Condocs
  PROVE  HolderOf(c) = "free" <=> ~busy[c]
  BY DEF ClaimInv, ClaimsExclusive, HolderOf, TypeOK, MemoryTypeOK

\* A change of one condoc's holder is one of the holders.
LEMMA HolderChanges ==
  ASSUME NEW c \in Condocs, NEW h, HolderOf(c)' = h,
         \A d \in Condocs \ {c} : HolderOf(d)' = HolderOf(d)
  PROVE  Holders' = [Holders EXCEPT ![c] = h]
  BY DEF Holders

\* Taking a claim, as Claims has it.
LEMMA Acquires ==
  ASSUME NEW c \in Condocs, NEW h \in {"driver", "loop", "ui"},
         HolderOf(c) = "free",
         h = "ui" \/ \A d \in Condocs : HolderOf(d) # h,
         HolderOf(c)' = h,
         \A d \in Condocs \ {c} : HolderOf(d)' = HolderOf(d),
         UNCHANGED force
  PROVE  ClaimsStep
<1>1. Holders' = [Holders EXCEPT ![c] = h]  BY HolderChanges
<1>2. AbstractClaims!Acquire(c, h)
  BY <1>1 DEF Holders, AbstractClaims!Acquire
<1> QED  BY <1>2 DEF ClaimsStep, AbstractClaims!ClaimsNext, AbstractClaims!Holder

\* Giving it up.
LEMMA GivesUp ==
  ASSUME NEW c \in Condocs, HolderOf(c) # "free", ~force[c],
         HolderOf(c)' = "free",
         \A d \in Condocs \ {c} : HolderOf(d)' = HolderOf(d),
         UNCHANGED force
  PROVE  ClaimsStep
<1>1. Holders' = [Holders EXCEPT ![c] = "free"]  BY HolderChanges
<1>2. AbstractClaims!GiveUp(c)
  BY <1>1 DEF Holders, AbstractClaims!GiveUp
<1> QED  BY <1>2 DEF ClaimsStep, AbstractClaims!ClaimsNext

\* Nothing that Claims speaks of changes.
LEMMA Stutters ==
  ASSUME UNCHANGED claimedVars
  PROVE  ClaimsStep
  BY DEF claimedVars, ClaimsStep, Holders, HolderOf, DriverHolds, LoopHolds, UIHolds

\* The driver takes a claim when it has none, and gives up the one it has.
LEMMA DriverRefines ==
  ASSUME TypeOK, ClaimInv, NEW c \in Condocs, DriverStep(c)
  PROVE  ClaimsStep
<1> USE PartiesAssumption DEF HolderOf, DriverHolds, LoopHolds, UIHolds
<1>1. CASE UNCHANGED claimedVars  BY <1>1, Stutters
<1>2. CASE DriverClaims(c) /\ UNCHANGED <<running, force, loop, forcing>>
  <2>1. HolderOf(c) = "free"  BY <1>2, FreeIsUnclaimed DEF DriverClaims, Claim
  <2>2. drive.stem = None /\ drive'.stem = c  BY <1>2 DEF DriverClaims, DriveIdle
  <2>3. \A d \in Condocs : HolderOf(d) # "driver"  BY <2>2
  <2>4. HolderOf(c)' = "driver"  BY <2>2
  <2>5. \A d \in Condocs \ {c} : HolderOf(d)' = HolderOf(d)  BY <1>2, <2>2
  <2> QED  BY <1>2, <2>1, <2>3, <2>4, <2>5, Acquires
<1>3. CASE DriverKeeps(c) /\ UNCHANGED <<running, force, loop, forcing>>
  BY <1>3 DEF DriverKeeps, ClaimsStep, Holders
<1>4. CASE DriverReleases(c) /\ UNCHANGED <<running, force, loop, forcing>>
  <2>1. drive.stem = c /\ drive'.stem = None
    BY <1>4 DEF DriverReleases, DriveDone, DriveIdle
  <2>2. loop.stem # c /\ ~UIHolds(c) /\ ~force[c]
    BY <2>1 DEF ClaimInv, ClaimsExclusive, ForceNeverStranded
  <2>3. HolderOf(c) # "free"  BY <2>1
  <2>4. HolderOf(c)' = "free"  BY <1>4, <2>1, <2>2
  <2>5. \A d \in Condocs \ {c} : HolderOf(d)' = HolderOf(d)  BY <1>4, <2>1
  <2> QED  BY <1>4, <2>2, <2>3, <2>4, <2>5, GivesUp
<1> QED  BY <1>1, <1>2, <1>3, <1>4 DEF DriverStep

\* So does the turn loop, and it takes up a force complete asked for.
LEMMA LoopRefines ==
  ASSUME TypeOK, ClaimInv, NEW c \in Condocs, LoopStep(c)
  PROVE  ClaimsStep
<1> USE PartiesAssumption DEF HolderOf, DriverHolds, LoopHolds, UIHolds
<1>1. CASE UNCHANGED claimedVars  BY <1>1, Stutters
<1>2. CASE LoopClaims(c) /\ UNCHANGED <<force, drive, forcing>>
  <2>1. HolderOf(c) = "free"  BY <1>2, FreeIsUnclaimed DEF LoopClaims, Claim
  <2>2. loop.stem = None /\ loop'.stem = c  BY <1>2 DEF LoopClaims, LoopIdle
  <2>3. \A d \in Condocs : HolderOf(d) # "loop"  BY <2>2
  <2>4. drive.stem # c  BY <2>1
  <2>5. HolderOf(c)' = "loop"  BY <1>2, <2>2, <2>4
  <2>6. \A d \in Condocs \ {c} : HolderOf(d)' = HolderOf(d)  BY <1>2, <2>2
  <2> QED  BY <1>2, <2>1, <2>3, <2>5, <2>6, Acquires
<1>3. CASE LoopKeeps(c) /\ UNCHANGED <<force, drive, forcing>>
  BY <1>3 DEF LoopKeeps, ClaimsStep, Holders
<1>4. CASE LoopTake(c) /\ UNCHANGED drive
  <2>1. loop.stem = c /\ loop.pc = "settled"  BY <1>4 DEF LoopTake, Loop
  <2>2. drive.stem # c /\ ~UIHolds(c) /\ HolderOf(c) = "loop"
    BY <2>1 DEF ClaimInv, ClaimsExclusive
  <2>3. CASE force[c]
    <3>1. /\ loop'.stem = c
          /\ forcing'[c].by = "loop"
          /\ \A d \in Condocs \ {c} : forcing'[d] = forcing[d]
      BY <1>4, <2>1, <2>3 DEF LoopTake, ForceFrom, TypeOK, MemoryTypeOK, LoopState
    <3>2. Holders' = Holders  BY <1>4, <2>1, <2>2, <3>1 DEF Holders
    <3>3. force' = [force EXCEPT ![c] = FALSE]  BY <1>4 DEF LoopTake
    <3>4. AbstractClaims!TakeUp(c)
      BY <2>3, <3>2, <3>3 DEF Holders, AbstractClaims!TakeUp
    <3> QED  BY <3>4 DEF ClaimsStep, AbstractClaims!ClaimsNext
  <2>4. CASE ~force[c]
    <3>1. loop'.stem = None /\ UNCHANGED forcing
      BY <1>4, <2>4 DEF LoopTake, LoopIdle
    <3>2. UNCHANGED force
      BY <1>4, <2>4 DEF LoopTake, TypeOK, MemoryTypeOK
    <3>3. HolderOf(c)' = "free"  BY <1>4, <2>2, <3>1
    <3>4. \A d \in Condocs \ {c} : HolderOf(d)' = HolderOf(d)  BY <1>4, <2>1, <3>1
    <3> QED  BY <2>2, <2>4, <3>2, <3>3, <3>4, GivesUp
  <2> QED  BY <2>3, <2>4
<1> QED  BY <1>1, <1>2, <1>3, <1>4 DEF LoopStep

\* A force complete gives up the claim it was begun under, the UI's or the
\* turn loop's.
LEMMA ForceRefines ==
  ASSUME TypeOK, ClaimInv, NEW c \in Condocs, ForceStep(c)
  PROVE  ClaimsStep
<1> USE PartiesAssumption DEF HolderOf, DriverHolds, LoopHolds, UIHolds
<1>1. CASE ForceKeeps(c)
  <2>0. PICK pc \in {"return", "write", "finalize", "commit"} : \E s : ForceTo(c, pc, s)
    BY <1>1 DEF ForceKeeps
  <2>1. PICK s : ForceTo(c, pc, s)  BY <2>0
  <2>2. /\ forcing'[c].pc = pc /\ forcing'[c].by = forcing[c].by
        /\ \A d \in Condocs \ {c} : forcing'[d] = forcing[d]
    BY <2>1 DEF ForceTo, ForceState, TypeOK, MemoryTypeOK
  <2>3. UNCHANGED <<drive, loop, force>>  BY <1>1 DEF ForceStep, ForceKeeps
  <2>4. forcing[c].pc # "idle"  BY DEF ForceStep
  <2>5. \A d \in Condocs : HolderOf(d)' = HolderOf(d)  BY <2>2, <2>3, <2>4
  <2> QED  BY <2>3, <2>5 DEF ClaimsStep, Holders
<1>2. CASE ForceDone(c)
  <2>1. /\ forcing'[c] = NotForcing
        /\ \A d \in Condocs \ {c} : forcing'[d] = forcing[d]
        /\ UNCHANGED <<drive, force>> /\ forcing[c].pc # "idle"
    BY <1>2 DEF ForceDone, ForceStep, TypeOK, MemoryTypeOK
  <2>2. ~UIHolds(c)'  BY <2>1 DEF NotForcing
  <2>3. CASE forcing[c].by = "loop"
    <3>1. Loop(c, "force")  BY <2>1, <2>3 DEF ClaimInv
    <3>2. drive.stem # c /\ ~force[c]
      BY <3>1 DEF ClaimInv, ClaimsExclusive, ForceNeverStranded, Loop
    <3>3. loop.stem = c /\ loop'.stem = None
      BY <1>2, <2>3, <3>1 DEF ForceDone, LoopIdle, Loop
    <3>4. HolderOf(c) # "free"  BY <3>3
    <3>5. HolderOf(c)' = "free"  BY <2>1, <2>2, <3>2, <3>3
    <3>6. \A d \in Condocs \ {c} : HolderOf(d)' = HolderOf(d)  BY <2>1, <3>3
    <3> QED  BY <2>1, <3>2, <3>4, <3>5, <3>6, GivesUp
  <2>4. CASE forcing[c].by # "loop"
    <3>1. UIHolds(c)
      BY <2>1, <2>4 DEF TypeOK, MemoryTypeOK, ForceState
    <3>2. drive.stem # c /\ loop.stem # c /\ ~force[c]
      BY <3>1 DEF ClaimInv, ClaimsExclusive, ForceNeverStranded
    <3>3. UNCHANGED loop  BY <1>2, <2>4 DEF ForceDone
    <3>4. HolderOf(c) # "free"  BY <3>1
    <3>5. HolderOf(c)' = "free"  BY <2>1, <2>2, <3>2, <3>3
    <3>6. \A d \in Condocs \ {c} : HolderOf(d)' = HolderOf(d)  BY <2>1, <3>3
    <3> QED  BY <2>1, <3>2, <3>4, <3>5, <3>6, GivesUp
  <2> QED  BY <2>3, <2>4
<1> QED  BY <1>1, <1>2 DEF ForceStep

\* Force Complete from the UI takes the claim, or asks the turn loop.
LEMMA HumanRefines ==
  ASSUME TypeOK, ClaimInv, NEW c \in Condocs, HumanStep(c)
  PROVE  ClaimsStep
<1> USE PartiesAssumption DEF HolderOf, DriverHolds, LoopHolds, UIHolds
<1>1. CASE UNCHANGED claimedVars  BY <1>1, Stutters
<1>2. CASE ForceNow(c) /\ UNCHANGED <<running, force, drive, loop>>
  <2>1. HolderOf(c) = "free"  BY <1>2, FreeIsUnclaimed DEF ForceNow, Claim
  <2>2. /\ forcing'[c].pc # "idle" /\ forcing'[c].by = "ui"
        /\ \A d \in Condocs \ {c} : forcing'[d] = forcing[d]
    BY <1>2 DEF ForceNow, ForceFrom, TypeOK, MemoryTypeOK
  <2>3. drive.stem # c /\ loop.stem # c  BY <2>1
  <2>4. HolderOf(c)' = "ui"  BY <1>2, <2>2, <2>3
  <2>5. \A d \in Condocs \ {c} : HolderOf(d)' = HolderOf(d)  BY <1>2, <2>2
  <2> QED  BY <1>2, <2>1, <2>4, <2>5, Acquires
<1>3. CASE ForceDefer(c) /\ UNCHANGED <<busy, running, drive, loop, forcing>>
  <2>1. loop.stem = c
    BY <1>3 DEF ForceDefer, ClaimInv
  <2>2. HolderOf(c) = "loop"
    BY <2>1 DEF ClaimInv, ClaimsExclusive
  <2>3. Holders' = Holders  BY <1>3 DEF Holders
  <2>4. force' = [force EXCEPT ![c] = TRUE]  BY <1>3 DEF ForceDefer
  <2>5. AbstractClaims!Request(c)
    BY <2>2, <2>3, <2>4 DEF Holders, AbstractClaims!Request
  <2> QED  BY <2>5 DEF ClaimsStep, AbstractClaims!ClaimsNext
<1> QED  BY <1>1, <1>2, <1>3 DEF HumanStep

\* Every step is a step of Claims or none.
LEMMA StepRefines ==
  ASSUME TypeOK, ClaimInv, [Next]_vars
  PROVE  ClaimsStep
<1>1. ASSUME NEW c \in Condocs, Driver(c) PROVE ClaimsStep
  BY <1>1, DriverSteps, DriverRefines DEF TypeOK
<1>2. ASSUME NEW c \in Condocs, TurnLoop(c) PROVE ClaimsStep
  BY <1>2, LoopSteps, LoopRefines DEF TypeOK
<1>3. ASSUME NEW c \in Condocs, ForceComplete(c) PROVE ClaimsStep
  BY <1>3, ForceSteps, ForceRefines
<1>4. ASSUME NEW c \in Condocs, Human(c) PROVE ClaimsStep
  BY <1>4, HumanSteps, HumanRefines
<1>5. CASE TickRead
  BY <1>5, Stutters DEF TickRead, claimedVars
<1>6. CASE WorkerNext
  BY <1>6, Stutters DEF WorkerNext, memoryVars, claimedVars
<1>7. CASE Crash
  <2>1. Holders' = [c \in Condocs |-> "free"]
    BY <1>7, PartiesAssumption DEF Crash, Holders, HolderOf, DriverHolds, LoopHolds,
      UIHolds, DriveIdle, LoopIdle, NotForcing
  <2>2. AbstractClaims!Restart
    BY <1>7, <2>1 DEF Crash, Holders, AbstractClaims!Restart
  <2> QED  BY <2>2 DEF ClaimsStep, AbstractClaims!ClaimsNext
<1>8. CASE UNCHANGED vars
  BY <1>8, Stutters DEF vars, memoryVars, claimedVars
<1> QED  BY <1>1, <1>2, <1>3, <1>4, <1>5, <1>6, <1>7, <1>8 DEF Next

\* Condoccer implements the claims it is meant to keep.
THEOREM ClaimsImplemented == Spec => ImplementsClaims
<1>1. Init => AbstractClaims!ClaimsInit
  BY PartiesAssumption DEF Init, MemoryInit, AbstractClaims!ClaimsInit, HolderOf,
    DriverHolds, LoopHolds, UIHolds, DriveIdle, LoopIdle, NotForcing
<1>2. TypeOK /\ ClaimInv /\ [Next]_vars
        => [AbstractClaims!ClaimsNext]_(AbstractClaims!claimVars)
  BY StepRefines DEF ClaimsStep, Holders, AbstractClaims!claimVars
<1> QED
  BY <1>1, <1>2, Typing, ClaimsInvariant, PTL
    DEF Spec, ImplementsClaims, AbstractClaims!ClaimsSpec

-----------------------------------------------------------------------------
(***************************************************************************)
(* What becomes of a turn, for every number of condocs, workers and        *)
(* signals, every bound, and every interleaving, failed write and crash:   *)
(* its record only moves forward, never gets ahead of the files, has its   *)
(* prompt committed before it begins and the condoc's tree home when it is *)
(* over; and a completed condoc stays completed.                           *)
(*                                                                         *)
(* None of these is inductive alone, because condoccer acts on copies: the *)
(* driver on a pointer read before it claimed the condoc, the turn loop on *)
(* one as old as the turn, with a stage it has carried out and not saved,  *)
(* a force complete on one as old as its claim.  TurnInv says of each copy *)
(* what makes writing it safe, in five parts:                              *)
(*   RecordInv    how each copy stands to the pointer;                     *)
(*   PromptInv    what is committed while a prompt waits for its turn;     *)
(*   EvidenceInv  the signal and the reply behind a stage, saved or not;   *)
(*   HomeInv      the tree is home when there is no turn to have it away;  *)
(*   LocatesInv   where the slopspace is at each stage.                    *)
(***************************************************************************)

\* An absent turn has nothing left of the last one, and a turn has no signal
\* before it is signalled.
TurnShape(t) ==
    /\ t.kind = "none" => t = NoTurn
    /\ t.stage \in {"queued", "deployed"} => t.sig = 0

\* A condoc that proposes its PRs has no turn.
SpecShape(s) ==
    /\ TurnShape(s.turn)
    /\ s.phase = "pr_proposed" => s.turn.kind = "none"

\* A copy s of c's pointer that shows it idle is right about that, although
\* it may be old.
StillIdle(c, s) ==
    s.turn.kind = "none" /\ s.phase # "pr_proposed" =>
        spec[c].turn.kind = "none" /\ spec[c].phase # "pr_proposed"

\* The driver's copies, in its pass and on the condoc it has claimed: nobody
\* else can start a turn of a condoc that the pass shows idle and has yet to
\* visit, or that the driver has claimed.
DriverRecord(c) ==
    /\ SpecShape(tick.seen[c])
    /\ c \in tick.todo => StillIdle(c, tick.seen[c])
    /\ drive.stem = c =>
          /\ c \notin tick.todo
          /\ drive.mem.turn = NoTurn
          /\ StillIdle(c, drive.mem)
          /\ drive.pc # "claimed" => drive.mem.phase # "pr_proposed"

\* Turn u is turn t or a later stage of it.
Advances(t, u) ==
    /\ u.kind = t.kind
    /\ Rank[u.stage] >= Rank[t.stage]
    /\ t.sig \in {0, u.sig}

\* The turn loop's copy is the pointer, or is one stage ahead of it and to be
\* saved.
LoopRecord(c) ==
    loop.stem = c =>
        /\ loop.pc \in {"stage", "deploy"} => loop.mem = spec[c]
        /\ loop.pc \in {"stage", "deploy", "save"} => spec[c].turn.kind # "none"
        /\ loop.pc = "deploy" =>
              spec[c].turn.kind = "turn" /\ spec[c].turn.stage = "queued"
        /\ loop.pc = "save" =>
              SpecShape(loop.mem) /\ Advances(spec[c].turn, loop.mem.turn)

\* A force complete's copy is the pointer, until it has dropped the turn.
ForceRecord(c) ==
    /\ forcing[c].pc \in {"signal", "return", "write", "finalize"} =>
          forcing[c].mem = spec[c]
    /\ forcing[c].pc \in {"signal", "return", "write"} => spec[c].turn.kind # "none"
    /\ forcing[c].pc = "commit" =>
          forcing[c].mem.turn = NoTurn /\ forcing[c].mem.phase = spec[c].phase

\* How every copy of c's pointer stands to it.
RecordInv(c) ==
    SpecShape(spec[c]) /\ DriverRecord(c) /\ LoopRecord(c) /\ ForceRecord(c)

-----------------------------------------------------------------------------
(* Who works on a condoc works on it alone.                                *)

\* Where the driver is at work nobody else is,
LEMMA DriverAlone ==
  ASSUME TypeOK, ClaimInv, NEW c \in Condocs, drive.stem = c
  PROVE  loop.stem # c /\ forcing[c].pc = "idle" /\ drive.pc # "idle"
  BY PartiesAssumption DEF TypeOK, MemoryTypeOK, ForceState, ClaimInv, ClaimsExclusive,
    DriverHolds, LoopHolds, UIHolds, Loop

\* nor where the turn loop runs a turn,
LEMMA LoopAlone ==
  ASSUME TypeOK, ClaimInv, NEW c \in Condocs, loop.stem = c, loop.pc # "force"
  PROVE  drive.stem # c /\ forcing[c].pc = "idle"
  BY PartiesAssumption DEF TypeOK, MemoryTypeOK, ForceState, ClaimInv, ClaimsExclusive,
    DriverHolds, LoopHolds, UIHolds, Loop

\* nor where a force complete is carried out, but for the loop that does it,
LEMMA ForceAlone ==
  ASSUME TypeOK, ClaimInv, NEW c \in Condocs, forcing[c].pc # "idle"
  PROVE  drive.stem # c /\ (loop.stem = c => loop.pc = "force")
  BY PartiesAssumption DEF TypeOK, MemoryTypeOK, ForceState, ClaimInv, ClaimsExclusive,
    DriverHolds, LoopHolds, UIHolds, Loop

\* and nobody is at work on an unclaimed condoc.
LEMMA Unclaimed ==
  ASSUME TypeOK, ClaimInv, NEW c \in Condocs, ~busy[c]
  PROVE  drive.stem # c /\ loop.stem # c /\ forcing[c].pc = "idle"
  BY PartiesAssumption DEF TypeOK, MemoryTypeOK, ForceState, ClaimInv, ClaimsExclusive,
    DriverHolds, LoopHolds, UIHolds, Loop

\* What is written on a pointer has its shape.
LEMMA ShapeOfSpecs ==
  /\ SpecShape(NoSpec)
  /\ \A s \in PointerSpec :
        /\ SpecShape(s) => SpecShape(WithError(s))
        /\ s.turn = NoTurn => \A k \in {"turn", "propose_pr"} : SpecShape(QueuedSpec(s, k))
        /\ SpecShape(s) => \A d \in DocState : SpecShape(Synced(s, d))
<1>1. SpecShape(NoSpec)
  BY DEF SpecShape, TurnShape, NoSpec, NoTurn, NewTurn
<1>2. ASSUME NEW s \in PointerSpec PROVE WithError(s).turn = s.turn /\ WithError(s).phase = s.phase
  BY DEF WithError, PointerSpec
<1>3. ASSUME NEW s \in PointerSpec, NEW d \in DocState
      PROVE Synced(s, d).turn = s.turn /\ Synced(s, d).phase # "pr_proposed"
  <2>1. SyncedPhase(d) # "pr_proposed"
    BY DEF SyncedPhase
  <2> QED BY <2>1 DEF Synced, PointerSpec
<1>4. ASSUME NEW s \in PointerSpec, NEW k \in {"turn", "propose_pr"}
      PROVE QueuedSpec(s, k).turn = NewTurn(k) /\ QueuedSpec(s, k).phase = "queued"
  BY DEF QueuedSpec, PointerSpec
<1> QED BY <1>1, <1>2, <1>3, <1>4 DEF SpecShape, TurnShape, NewTurn

\* The driver's steps keep its condoc's record: what it writes is a turn for a
\* condoc that has none.
LEMMA DriverKeepsRecord ==
  ASSUME TypeOK, ClaimInv, NEW c \in Condocs, RecordInv(c), Driver(c)
  PROVE  RecordInv(c)'
<1> USE DEF TypeOK, MemoryTypeOK, PointersTypeOK
<1>1. CASE VisitTurn(c) \/ VisitSkip(c) \/ VisitIdle(c)
  <2>1. /\ Visit(c) /\ drive = DriveIdle /\ UNCHANGED <<spec, loop, forcing>>
        /\ tick'.seen[c] = NoSpec /\ c \notin tick'.todo
    BY <1>1 DEF VisitTurn, VisitSkip, VisitIdle, Visit, pointerVars
  <2>2. LoopRecord(c)' /\ ForceRecord(c)' /\ SpecShape(spec[c])'
    BY <2>1 DEF RecordInv, LoopRecord, ForceRecord, Advances, SpecShape, TurnShape
  <2>3. CASE drive' = drive
    BY <2>1, <2>2, <2>3, ShapeOfSpecs, PartiesAssumption DEF RecordInv, DriverRecord, DriveIdle
  <2>4. CASE VisitIdle(c)
    <3>1. /\ drive'.pc = "claimed" /\ drive'.mem = tick.seen[c] /\ tick.seen[c].turn.kind = "none"
          /\ c \in tick.todo
      BY <2>4 DEF VisitIdle, Visit
    <3>2. drive'.mem.turn = NoTurn /\ StillIdle(c, drive.mem)'
      BY <2>1, <3>1 DEF RecordInv, DriverRecord, SpecShape, TurnShape, StillIdle
    <3> QED BY <2>1, <2>2, <3>1, <3>2, ShapeOfSpecs DEF RecordInv, DriverRecord
  <2> QED BY <1>1, <2>3, <2>4 DEF VisitTurn, VisitSkip
<1>2. CASE ~(VisitTurn(c) \/ VisitSkip(c) \/ VisitIdle(c))
  <2>1. drive.stem = c /\ UNCHANGED <<tick, loop, forcing>>
    BY <1>2 DEF Driver, DriveNothing, DriveHandoff, DriveCompletion, DriveRecover,
    DriveSync, DriveSyncFails, DriveCommit, DriveCommitFails,
    DriveClose, QueueTurn, QueueTurnFails, OnlySyncs, ProposalDue, Driving
  <2>2. LoopRecord(c)' /\ ForceRecord(c)'
    BY <2>1, DriverAlone DEF LoopRecord, ForceRecord
  <2>3. /\ drive.mem \in PointerSpec /\ drive.mem.turn = NoTurn /\ SpecShape(drive.mem)
        /\ c \notin tick.todo /\ spec[c] \in PointerSpec /\ SpecShape(spec[c])
    BY <2>1 DEF RecordInv, DriverRecord, DriveState, SpecShape, TurnShape, NoTurn, NewTurn
  <2>4. SpecShape(spec'[c])
    <3>1. \/ spec'[c] \in {spec[c], WithError(spec[c])}
          \/ \E k \in {"turn", "propose_pr"} :
                spec'[c] \in {QueuedSpec(drive.mem, k), WithError(QueuedSpec(drive.mem, k))}
          \/ spec'[c] \in {Synced(drive.mem, doc[c]), WithError(Synced(drive.mem, doc[c]))}
      BY <1>2 DEF Driver, DriveNothing, DriveHandoff, DriveCompletion, DriveRecover,
        DriveSync, DriveSyncFails, DriveCommit, DriveCommitFails, pointerVars, WriteSpec, SyncSpec,
        DueTurn,
        DriveClose, QueueTurn, QueueTurnFails
    <3> QED BY <3>1, <2>3, ShapeOfSpecs, QueuedSpecType, SyncedType DEF TurnKind
  <2>5. CASE drive' = DriveIdle
    BY <2>1, <2>2, <2>3, <2>4, <2>5, PartiesAssumption DEF RecordInv, DriverRecord, DriveIdle
  <2>6. CASE /\ drive'.stem = c /\ drive'.pc # "claimed" /\ UNCHANGED spec
             /\ \/ drive'.mem = spec[c] /\ spec[c].turn.kind = "none"
                \/ drive'.mem = drive.mem
             /\ drive'.mem.phase # "pr_proposed"
    BY <2>1, <2>2, <2>3, <2>4, <2>6 DEF RecordInv, DriverRecord, StillIdle, SpecShape, TurnShape
  <2>8. ASSUME NEW pc \in {"start", "queue", "close"}, NEW s, DriveNext(pc, s)
        PROVE drive'.stem = c /\ drive'.pc = pc /\ drive'.mem = s
    BY <2>1, <2>8 DEF DriveNext, DriveState
  <2>7. \/ drive' = DriveIdle
        \/ /\ drive'.stem = c /\ drive'.pc # "claimed" /\ UNCHANGED spec
             /\ \/ drive'.mem = spec[c] /\ spec[c].turn.kind = "none"
                \/ drive'.mem = drive.mem
             /\ drive'.mem.phase # "pr_proposed"
    <3>1. CASE \/ DriveNothing(c) \/ DriveSync(c) \/ DriveSyncFails(c) \/ DriveCommitFails(c)
               \/ DriveClose(c) \/ QueueTurn(c) \/ QueueTurnFails(c)
      BY <3>1 DEF DriveNothing, DriveSync, DriveSyncFails, DriveCommitFails,
        DriveClose, QueueTurn, QueueTurnFails, DriveDone
    <3>2. CASE DriveHandoff(c) \/ DriveCompletion(c)
      BY <3>2, <2>1, <2>8 DEF DriveHandoff, DriveCompletion, HandsOff
    <3>3. CASE DriveRecover(c)
      BY <3>3, <2>1, <2>8 DEF DriveRecover, NothingToRecover, HandsOff, RecordInv, DriverRecord,
        StillIdle, SpecShape, pointerVars, Driving, NoTurn, NewTurn
    <3>4. CASE DriveCommit(c)
      BY <3>4, <2>1, <2>8 DEF DriveCommit, Driving, RecordInv, DriverRecord
    <3> QED BY <1>2, <3>1, <3>2, <3>3, <3>4 DEF Driver
  <2> QED BY <2>5, <2>6, <2>7
<1> QED BY <1>1, <1>2

-----------------------------------------------------------------------------
(* The fields of the pointers that are written.                            *)

\* The order of the stages.
LEMMA RankValues ==
  /\ Rank["queued"] = 0 /\ Rank["deployed"] = 1 /\ Rank["signalled"] = 2
  /\ Rank["returned"] = 3 /\ Rank["replied"] = 4
  BY DEF Rank

\* Recording an error or a stage changes nothing else,
LEMMA FieldsOfSpecs ==
  ASSUME NEW s \in PointerSpec
  PROVE  /\ WithError(s).turn = s.turn /\ WithError(s).phase = s.phase
         /\ \A st \in Stage :
              /\ AtStage(st, s).turn.kind = s.turn.kind
              /\ AtStage(st, s).turn.stage = st
              /\ AtStage(st, s).turn.sig = s.turn.sig
              /\ AtStage(st, s).phase = s.phase
  BY DEF WithError, AtStage, PointerSpec, PointerTurn

\* What deploying a turn, signalling it, and signalling a propose-PR turn
\* record.
DeployedSpec(s) == AtStage("deployed", [s EXCEPT !.phase = "agent_running"])
SignalledSpec(s, n) == AtStage("signalled", [s EXCEPT !.turn.sig = n])
ProposingSpec(s, n) == AtStage("signalled", [s EXCEPT !.turn.sig = n, !.phase = "agent_running"])

\* and neither do these.
LEMMA FieldsOfStages ==
  ASSUME NEW s \in PointerSpec, NEW n
  PROVE  /\ DeployedSpec(s).turn.kind = s.turn.kind
         /\ DeployedSpec(s).turn.stage = "deployed"
         /\ DeployedSpec(s).turn.sig = s.turn.sig
         /\ DeployedSpec(s).phase = "agent_running"
         /\ SignalledSpec(s, n).turn.kind = s.turn.kind
         /\ SignalledSpec(s, n).turn.stage = "signalled"
         /\ SignalledSpec(s, n).turn.sig = n
         /\ SignalledSpec(s, n).phase = s.phase
         /\ ProposingSpec(s, n).turn.kind = s.turn.kind
         /\ ProposingSpec(s, n).turn.stage = "signalled"
         /\ ProposingSpec(s, n).turn.sig = n
         /\ ProposingSpec(s, n).phase = "agent_running"
  BY DEF DeployedSpec, SignalledSpec, ProposingSpec, AtStage, PointerSpec, PointerTurn

\* The turn loop's steps keep its condoc's record: it writes what its turn came
\* to, and nobody wrote that pointer meanwhile.
LEMMA LoopKeepsRecord ==
  ASSUME TypeOK, ClaimInv, NEW c \in Condocs, RecordInv(c), TurnLoop(c)
  PROVE  RecordInv(c)'
<1> USE DEF TypeOK, MemoryTypeOK, PointersTypeOK
<1>1. CASE LoopClaim(c)
  <2>1. /\ UNCHANGED <<spec, tick, drive, forcing>> /\ ~busy[c]
        /\ loop' = [pc |-> IF spec[c].turn.kind = "none" THEN "after" ELSE "stage",
                stem |-> c, mem |-> spec[c], end |-> "ok"]
    BY <1>1 DEF LoopClaim, pointerVars, Claim
  <2>2. drive.stem # c /\ forcing[c].pc = "idle"
    BY <2>1, Unclaimed
  <2> QED BY <2>1, <2>2 DEF RecordInv, DriverRecord, LoopRecord, ForceRecord, StillIdle,
    SpecShape, TurnShape
<1>2. CASE ~LoopClaim(c)
  <2> DEFINE t == spec[c].turn
             u == loop'.mem.turn
  <2>1. loop.stem = c /\ loop.pc \notin {"idle", "force"} /\ UNCHANGED <<tick, drive>>
    BY <1>2 DEF TurnLoop, LoopSettle, LoopTake,
      TurnWaits, TurnSyncs, TurnDeploys, TurnSignals, TurnReturns, TurnReturnFails, TurnAbandoned,
      TurnReplies, TurnHalfReplies, TurnEnds, TurnEndUnsaved, ProposalSignals, ProposalEnds,
      TurnBlocked, TurnFails, SaveStage, SaveStageFails, Blocked, CanReply, Loop, Running
  <2>2. drive.stem # c /\ forcing[c].pc = "idle"
    BY <2>1, LoopAlone
  <2>3. /\ loop.mem \in PointerSpec /\ spec[c] \in PointerSpec /\ SpecShape(spec[c])
        /\ spec[c].turn \in PointerTurn /\ loop.mem.turn \in PointerTurn
    BY DEF LoopState, RecordInv, PointerSpec
  <2>4. CASE \/ TurnDeploys(c)
             \/ TurnSignals(c)
             \/ TurnReturns(c)
             \/ TurnReplies(c)
             \/ ProposalSignals(c)
    <3>1. UNCHANGED <<spec, forcing>> /\ loop.mem = spec[c] /\ t.kind # "none"
      BY <2>1, <2>4 DEF TurnDeploys, TurnSignals, TurnReturns, TurnReplies, ProposalSignals,
        pointerVars, CanReply, Running, Loop,
         RecordInv, LoopRecord
    <3>5. ASSUME NEW s, Save(s) PROVE loop'.stem = c /\ loop'.pc = "save" /\ loop'.mem = s
      BY <2>1, <3>5 DEF Save, LoopState
    <3>6. \/ \E st \in Stage :
               /\ loop'.mem = AtStage(st, loop.mem)
               /\ \/ t.stage = "signalled" /\ st = "returned"
                  \/ t.stage = "returned" /\ st = "replied"
          \/ /\ loop'.mem = DeployedSpec(loop.mem)
             /\ t.stage = "queued"
          \/ /\ loop'.mem = SignalledSpec(loop.mem, created + 1)
             /\ t.stage = "deployed"
          \/ /\ loop'.mem = ProposingSpec(loop.mem, created + 1)
             /\ t.stage = "queued"
      BY <2>1, <2>4, <3>1, <3>5 DEF TurnDeploys, TurnSignals, TurnReturns, TurnReplies,
        ProposalSignals, CanReply, Running, Loop,
         Stage, RecordInv, LoopRecord, DeployedSpec, SignalledSpec, ProposingSpec
    <3>2. /\ loop'.stem = c /\ loop'.pc = "save"
      BY <2>4, <3>5 DEF TurnDeploys, TurnSignals, TurnReturns, TurnReplies, ProposalSignals
    <3>3. /\ u.kind = t.kind
          /\ loop'.mem.phase \in {"agent_running", spec[c].phase}
          /\ \/ t.stage = "queued" /\ u.stage = "deployed" /\ u.sig = t.sig
             \/ t.stage \in {"queued", "deployed"} /\ u.stage = "signalled"
             \/ t.stage = "signalled" /\ u.stage = "returned" /\ u.sig = t.sig
             \/ t.stage = "returned" /\ u.stage = "replied" /\ u.sig = t.sig
      <4>1. CASE \E st \in Stage :
               /\ loop'.mem = AtStage(st, loop.mem)
               /\ \/ t.stage = "signalled" /\ st = "returned"
                  \/ t.stage = "returned" /\ st = "replied"
        BY <2>3, <3>1, <4>1, FieldsOfSpecs
      <4>2. CASE /\ loop'.mem = DeployedSpec(loop.mem)
                 /\ t.stage = "queued"
        BY <2>3, <3>1, <4>2, FieldsOfStages
      <4>3. CASE /\ loop'.mem = SignalledSpec(loop.mem, created + 1)
                 /\ t.stage = "deployed"
        BY <2>3, <3>1, <4>3, FieldsOfStages
      <4>4. CASE /\ loop'.mem = ProposingSpec(loop.mem, created + 1)
                 /\ t.stage = "queued"
        BY <2>3, <3>1, <4>4, FieldsOfStages
      <4> QED BY <3>6, <4>1, <4>2, <4>3, <4>4
    <3>4. SpecShape(loop'.mem) /\ Advances(t, u)
      BY <2>3, <3>1, <3>2, <3>3, RankValues DEF SpecShape, TurnShape, Advances
    <3> QED BY <2>1, <2>2, <3>1, <3>2, <3>4 DEF RecordInv, DriverRecord, LoopRecord, ForceRecord,
      StillIdle,
    SpecShape, TurnShape, Advances
  <2>5. CASE SaveStage(c)
    <3>1. /\ spec'[c] = loop.mem /\ UNCHANGED forcing /\ loop'.mem = loop.mem /\ loop'.pc = "stage"
          /\ loop'.stem = c
          /\ t.kind # "none" /\ SpecShape(loop.mem) /\ Advances(t, loop.mem.turn)
      BY <2>1, <2>5 DEF SaveStage, Loop, WriteSpec, LoopState, RecordInv, LoopRecord
    <3> QED BY <2>1, <2>2, <3>1 DEF RecordInv, DriverRecord, LoopRecord, ForceRecord, StillIdle,
    SpecShape, TurnShape, Advances
  <2>6. CASE TurnSyncs(c)
    <3>1. /\ UNCHANGED <<spec, forcing>> /\ loop'.mem = loop.mem /\ loop'.pc = "deploy"
          /\ loop'.stem = c /\ loop.mem = spec[c] /\ t.kind = "turn" /\ t.stage = "queued"
      BY <2>1, <2>6 DEF TurnSyncs, Running, Loop, LoopState, RecordInv, LoopRecord, pointerVars
    <3> QED BY <2>1, <2>2, <3>1 DEF RecordInv, DriverRecord, LoopRecord, ForceRecord, StillIdle,
    SpecShape, TurnShape, Advances
  <2>7. CASE LoopTake(c)
    <3>1. /\ UNCHANGED spec /\ loop'.pc \in {"idle", "force"}
          /\ forcing'[c].pc \in {"signal", "finalize", "idle"}
          /\ forcing'[c].pc # "idle" => forcing'[c].mem = spec[c]
          /\ forcing'[c].pc = "signal" => t.kind # "none"
      BY <2>2, <2>7 DEF LoopTake, ForceFrom, pointerVars, LoopState, LoopIdle
    <3> QED BY <2>1, <2>2, <3>1 DEF RecordInv, DriverRecord, LoopRecord, ForceRecord, StillIdle,
    SpecShape, TurnShape, Advances
  <2>8. CASE /\ UNCHANGED forcing /\ loop'.pc \in {"after", "settled"}
             /\ SpecShape(spec'[c])
             /\ \/ t.kind # "none"
                \/ spec'[c].turn = t /\ spec'[c].phase = spec[c].phase
    BY <2>1, <2>2, <2>8 DEF RecordInv, DriverRecord, LoopRecord, ForceRecord, StillIdle
  <2>9. CASE \/ TurnWaits(c) \/ TurnReturnFails(c) \/ TurnAbandoned(c) \/ TurnHalfReplies(c)
             \/ TurnBlocked(c) \/ TurnFails(c)
    BY <2>1, <2>3, <2>8, <2>9 DEF TurnWaits, TurnReturnFails, TurnAbandoned, TurnHalfReplies,
      TurnBlocked, TurnFails, End, LoopState, pointerVars
  <2>10. CASE TurnEnds(c) \/ TurnEndUnsaved(c)
    <3>1. /\ UNCHANGED forcing /\ loop'.pc = "after" /\ t.kind # "none"
          /\ spec'[c] \in {spec[c], ClearedSpec(c)}
      BY <2>1, <2>10 DEF TurnEnds, TurnEndUnsaved, End, LoopState, WriteSpec, WriteSpecFails,
        Running, Loop, RecordInv, LoopRecord
    <3>2. SpecShape(ClearedSpec(c))
      <4>1. SyncedPhase(doc[c]) # "pr_proposed"
        BY DEF SyncedPhase
      <4> QED BY <2>3, <4>1 DEF ClearedSpec, SpecShape, TurnShape, NoTurn, NewTurn, PointerSpec
    <3> QED BY <2>3, <2>8, <3>1, <3>2
  <2>11. CASE ProposalEnds(c)
    <3>1. /\ UNCHANGED forcing /\ loop'.pc = "after" /\ t.kind # "none"
          /\ spec'[c].turn = NoTurn
      BY <2>1, <2>11 DEF ProposalEnds, End, LoopState, WriteSpec, Running, Loop, RecordInv,
        LoopRecord
    <3> QED BY <2>8, <3>1 DEF SpecShape, TurnShape, NoTurn, NewTurn
  <2>12. CASE SaveStageFails(c)
    <3>1. /\ UNCHANGED forcing /\ loop'.pc = "after" /\ t.kind # "none"
          /\ spec'[c] \in {spec[c], loop.mem} /\ SpecShape(loop.mem)
      BY <2>1, <2>12 DEF SaveStageFails, End, LoopState, WriteSpecFails, Loop, RecordInv, LoopRecord
    <3> QED BY <2>3, <2>8, <3>1
  <2>13. CASE LoopSettle(c)
    <3>1. /\ UNCHANGED forcing /\ loop'.pc = "settled"
          /\ spec'[c] \in {spec[c], WithError(spec[c])}
      BY <2>1, <2>13 DEF LoopSettle, LoopState, WriteSpec
    <3> QED BY <2>3, <2>8, <3>1, FieldsOfSpecs, ShapeOfSpecs
  <2> QED BY <1>2, <2>4, <2>5, <2>6, <2>7, <2>9, <2>10, <2>11, <2>12, <2>13 DEF TurnLoop
<1> QED BY <1>1, <1>2

\* So do the steps of a force complete,
LEMMA ForceKeepsRecord ==
  ASSUME TypeOK, ClaimInv, NEW c \in Condocs, RecordInv(c), ForceComplete(c)
  PROVE  RecordInv(c)'
<1> USE DEF TypeOK, MemoryTypeOK, PointersTypeOK
<1>1. /\ forcing[c].pc # "idle" /\ UNCHANGED <<tick, drive>>
      /\ forcing[c].mem \in PointerSpec /\ spec[c] \in PointerSpec
  BY DEF ForceComplete, AbandonSignal, AbandonReturn, AbandonWrite, AbandonFails, ForceRefused,
    ForceFinalize,
    ForceCommit, ForceCommitFails, Forcing, ForceState
<1>2. drive.stem # c /\ (loop.stem = c => loop.pc = "force")
  BY <1>1, ForceAlone
<1>3. ASSUME NEW pc \in {"return", "write", "finalize", "commit"}, NEW s, ForceTo(c, pc, s)
      PROVE  forcing'[c].pc = pc /\ forcing'[c].mem = s
  BY <1>3 DEF ForceTo, ForceState
<1>4. CASE AbandonSignal(c) \/ AbandonReturn(c) \/ AbandonWrite(c)
  <2>1. /\ UNCHANGED <<spec, loop>> /\ forcing[c].pc \in {"signal", "return", "write"}
        /\ forcing'[c].pc \in {"return", "write", "finalize"}
        /\ forcing'[c].mem = forcing[c].mem
    BY <1>3, <1>4 DEF AbandonSignal, AbandonReturn, AbandonWrite, Forcing, pointerVars
  <2> QED BY <1>1, <1>2, <2>1 DEF RecordInv, DriverRecord, LoopRecord, ForceRecord, StillIdle,
    SpecShape, TurnShape
<1>5. CASE ForceFinalize(c)
  <2>1. /\ UNCHANGED <<spec, loop>> /\ forcing[c].pc = "finalize" /\ forcing'[c].pc = "commit"
        /\ forcing'[c].mem = [forcing[c].mem EXCEPT !.turn = NoTurn, !.err = FALSE]
    BY <1>3, <1>5 DEF ForceFinalize, Forcing
  <2>2. forcing'[c].mem.turn = NoTurn /\ forcing'[c].mem.phase = forcing[c].mem.phase
    BY <1>1, <2>1 DEF PointerSpec
  <2> QED BY <1>1, <1>2, <2>1, <2>2 DEF RecordInv, DriverRecord, LoopRecord, ForceRecord,
    StillIdle, SpecShape, TurnShape
<1>6. CASE /\ forcing'[c].pc = "idle" /\ loop' \in {LoopIdle, loop}
           /\ SpecShape(spec'[c])
           /\ \/ spec'[c].turn = spec[c].turn /\ spec'[c].phase = spec[c].phase
              \/ spec'[c].turn = NoTurn /\ spec'[c].phase \in {"awaiting_action", "completed",
                                                               spec[c].phase}
  BY <1>1, <1>2, <1>6, PartiesAssumption DEF RecordInv, DriverRecord, LoopRecord, ForceRecord,
    StillIdle, LoopIdle, NoTurn, NewTurn
<1>7. ForceDone(c) => forcing'[c].pc = "idle" /\ loop' \in {LoopIdle, loop}
  BY DEF ForceDone, NotForcing
<1>8. CASE AbandonFails(c) \/ ForceRefused(c)
  <2>1. spec'[c] \in {spec[c], WithError(spec[c])}
    BY <1>1, <1>8 DEF AbandonFails, ForceRefused, Forcing, WriteSpec, RecordInv, ForceRecord
  <2> QED BY <1>1, <1>6, <1>7, <1>8, <2>1, FieldsOfSpecs, ShapeOfSpecs DEF AbandonFails,
    ForceRefused, RecordInv
<1>9. CASE ForceCommit(c)
  <2>1. forcing[c].mem.turn = NoTurn /\ spec'[c] \in {spec[c], Synced(forcing[c].mem, doc[c])}
    BY <1>9 DEF ForceCommit, SyncSpec, Forcing, RecordInv, ForceRecord
  <2>2. /\ Synced(forcing[c].mem, doc[c]).turn = NoTurn
        /\ Synced(forcing[c].mem, doc[c]).phase \in {"awaiting_action", "completed"}
    <3>1. SyncedPhase(doc[c]) \in {"awaiting_action", "completed"}
      BY DEF SyncedPhase
    <3> QED BY <1>1, <2>1, <3>1 DEF Synced, PointerSpec
  <2> QED BY <1>1, <1>6, <1>7, <1>9, <2>1, <2>2 DEF ForceCommit, RecordInv, SpecShape, TurnShape,
    NoTurn, NewTurn
<1>10. CASE ForceCommitFails(c)
  <2>1. /\ forcing[c].mem.turn = NoTurn /\ forcing[c].mem.phase = spec[c].phase
        /\ spec'[c] = WithError(forcing[c].mem)
    BY <1>10 DEF ForceCommitFails, WriteSpec, Forcing, RecordInv, ForceRecord
  <2> QED BY <1>1, <1>6, <1>7, <1>10, <2>1, FieldsOfSpecs DEF ForceCommitFails, RecordInv,
    SpecShape, TurnShape, NoTurn, NewTurn
<1> QED BY <1>4, <1>5, <1>8, <1>9, <1>10 DEF ForceComplete

\* and what is asked for in the UI, which leaves a claimed condoc alone or only
\* flags it.
LEMMA HumanKeepsRecord ==
  ASSUME TypeOK, ClaimInv, NEW c \in Condocs, RecordInv(c), Human(c)
  PROVE  RecordInv(c)'
<1> USE DEF TypeOK, MemoryTypeOK, PointersTypeOK
<1>1. CASE Directive(c) \/ ForceDefer(c)
  BY <1>1 DEF Directive, ForceDefer, memoryVars, pointerVars, RecordInv, DriverRecord, LoopRecord,
    ForceRecord, StillIdle, SpecShape, TurnShape, Advances
<1>2. CASE Resubmit(c) \/ RegeneratePRs(c)
  <2>1. /\ ~busy[c] /\ UNCHANGED <<tick, drive, loop, forcing>>
        /\ \/ spec'[c].turn = spec[c].turn /\ spec'[c].phase = spec[c].phase
           \/ /\ spec[c].phase = "pr_proposed"
              /\ spec'[c].turn = NewTurn("propose_pr") /\ spec'[c].phase = "queued"
    BY <1>2 DEF Resubmit, RegeneratePRs, memoryVars, WriteSpec, PointerSpec
  <2>2. drive.stem # c /\ loop.stem # c /\ forcing[c].pc = "idle"
    BY <2>1, Unclaimed
  <2> QED BY <2>1, <2>2 DEF RecordInv, DriverRecord, LoopRecord, ForceRecord, StillIdle, SpecShape,
    TurnShape, NewTurn
<1>3. CASE ForceNow(c)
  <2>1. /\ ~busy[c] /\ UNCHANGED <<spec, tick, drive, loop>>
        /\ forcing'[c].pc \in {"signal", "finalize"} /\ forcing'[c].mem = spec[c]
        /\ forcing'[c].pc = "signal" => spec[c].turn.kind # "none"
    BY <1>3 DEF ForceNow, Claim, ForceFrom, pointerVars
  <2>2. drive.stem # c /\ loop.stem # c /\ forcing[c].pc = "idle"
    BY <2>1, Unclaimed
  <2> QED BY <2>1, <2>2 DEF RecordInv, DriverRecord, LoopRecord, ForceRecord, StillIdle, SpecShape,
    TurnShape
<1> QED BY <1>1, <1>2, <1>3 DEF Human

-----------------------------------------------------------------------------
(* What a step leaves alone.                                               *)

\* Signals that exist go on existing, until complete.
SignalsKept ==
    /\ created' >= created
    /\ \A i \in 1 .. created :
          /\ header'[i] = header[i]
          /\ complete[i] => complete'[i]
          /\ ongoing[i] # "absent" => ongoing'[i] # "absent" \/ complete'[i]

\* What a step that is not c's leaves of c.
Keeps(c) ==
    /\ spec'[c] = spec[c] /\ doc'[c] = doc[c] /\ dirty'[c] = dirty[c]
    /\ replies'[c] = replies[c] /\ replyFile'[c] = replyFile[c]
    /\ deployed'[c] = deployed[c] /\ homeTree'[c] = homeTree[c]
    /\ force'[c] = force[c] /\ forcing'[c] = forcing[c]
    /\ tick'.seen[c] = tick.seen[c] /\ (c \in tick'.todo <=> c \in tick.todo)
    /\ drive.stem = c \/ drive'.stem = c => drive' = drive
    /\ loop.stem = c \/ loop'.stem = c => loop' = loop

\* Such a step keeps c's record.
LEMMA KeptRecord ==
  ASSUME NEW c \in Condocs, RecordInv(c), Keeps(c) PROVE RecordInv(c)'
  BY DEF RecordInv, Keeps, DriverRecord, LoopRecord, ForceRecord, StillIdle, SpecShape, TurnShape,
    Advances

\* A step of one condoc leaves all of another alone but the shared deploy path
\* and marker,
LEMMA OthersKeep ==
  ASSUME TypeOK, ClaimInv, NEW c \in Condocs, NEW d \in Condocs, d # c,
         Driver(d) \/ TurnLoop(d) \/ ForceComplete(d) \/ Human(d)
  PROVE  Keeps(c)
<1> USE DEF TypeOK, MemoryTypeOK, PointersTypeOK, SlopspacesTypeOK
<1>1. c \in Slopspace /\ d \in Slopspace BY DEF Slopspace
<1>2. /\ spec'[c] = spec[c] /\ doc'[c] = doc[c] /\ dirty'[c] = dirty[c]
      /\ replies'[c] = replies[c] /\ replyFile'[c] = replyFile[c]
  <2>1. CASE Driver(d)
    BY <2>1 DEF pointerVars, WriteSpec, SyncSpec, Driver, VisitTurn, VisitSkip, VisitIdle,
      DriveNothing,
    DriveRecover, DriveSync, DriveSyncFails, DriveCommit, DriveCommitFails, DriveClose,
    DriveHandoff, DriveCompletion,
    QueueTurn, QueueTurnFails
  <2>2. CASE TurnLoop(d)
    BY <2>2 DEF pointerVars, WriteSpec, WriteSpecFails, AppendReply, TurnLoop, LoopClaim,
      LoopSettle, LoopTake, TurnWaits, TurnSyncs,
    TurnDeploys, TurnSignals, TurnReturns, TurnReturnFails, TurnAbandoned, TurnEnds, TurnReplies,
    TurnHalfReplies,
    TurnEndUnsaved, ProposalSignals, ProposalEnds, TurnBlocked, TurnFails, SaveStage,
    SaveStageFails
  <2>3. CASE ForceComplete(d)
    BY <2>3 DEF pointerVars, WriteSpec, SyncSpec, ForceComplete, AbandonSignal, AbandonReturn,
      AbandonWrite,
    AbandonFails, ForceRefused, ForceCommit, ForceCommitFails, ForceFinalize
  <2>4. CASE Human(d)
    BY <2>4 DEF pointerVars, WriteSpec, Human, Resubmit, RegeneratePRs, ForceNow, ForceDefer,
      Directive
  <2> QED BY <2>1, <2>2, <2>3, <2>4
<1>3. deployed'[c] = deployed[c] /\ homeTree'[c] = homeTree[c]
  <2>1. UNCHANGED slopspaceVars \/ Deploy(d) \/ Return(d) \/ ReturnFails(d)
    BY DriverFrame, HumanFrame, TurnLoopFrame, ForceFrame
  <2> QED BY <1>1, <2>1 DEF Deploy, Return, ReturnFails, slopspaceVars
<1>4. /\ tick'.seen[c] = tick.seen[c] /\ (c \in tick'.todo <=> c \in tick.todo)
  <2>1. UNCHANGED tick \/ Visit(d)
    BY DEF Driver, VisitTurn, VisitSkip, VisitIdle, DriveNothing,
    DriveRecover, DriveSync, DriveSyncFails, DriveCommit, DriveCommitFails, DriveClose,
    DriveHandoff, DriveCompletion,
    QueueTurn, QueueTurnFails, TurnLoop, LoopClaim, LoopSettle, LoopTake, TurnWaits, TurnSyncs,
    TurnDeploys, TurnSignals, TurnReturns, TurnReturnFails, TurnAbandoned, TurnEnds, TurnReplies,
    TurnHalfReplies,
    TurnEndUnsaved, ProposalSignals, ProposalEnds, TurnBlocked, TurnFails, SaveStage,
    SaveStageFails, ForceComplete, AbandonSignal, AbandonReturn, AbandonWrite,
    AbandonFails, ForceRefused, ForceCommit, ForceCommitFails, ForceFinalize, Human, Resubmit,
    RegeneratePRs, ForceNow, ForceDefer, Directive, memoryVars
  <2> QED BY <2>1 DEF Visit
<1>5. /\ force'[c] = force[c] /\ forcing'[c] = forcing[c]
      /\ drive.stem = c \/ drive'.stem = c => drive' = drive
      /\ loop.stem = c \/ loop'.stem = c => loop' = loop
  <2>1. CASE Driver(d)
    BY <2>1, DriverSteps, PartiesAssumption DEF DriverStep, claimedVars, DriverClaims, DriverKeeps,
      DriverReleases, DriveIdle, DriveDone
  <2>2. CASE TurnLoop(d)
    <3>1. LoopStep(d)
      BY <2>2, LoopSteps
    <3>2. CASE LoopTake(d) /\ UNCHANGED drive
      <4>1. loop.stem = d /\ loop'.stem \in {d, None}
        BY <3>2 DEF LoopTake, LoopIdle, Loop, LoopState
      <4>2. force'[c] = force[c] /\ forcing'[c] = forcing[c]
        BY <3>2 DEF LoopTake, ForceFrom
      <4> QED BY <3>2, <4>1, <4>2, PartiesAssumption
    <3>3. CASE UNCHANGED claimedVars
      BY <3>3 DEF claimedVars
    <3>4. CASE (LoopClaims(d) \/ LoopKeeps(d)) /\ UNCHANGED <<force, drive, forcing>>
      <4>1. loop.stem # c /\ loop'.stem # c
        BY <3>4, PartiesAssumption DEF LoopClaims, LoopKeeps, LoopIdle
      <4> QED BY <3>4, <4>1
    <3> QED BY <3>1, <3>2, <3>3, <3>4 DEF LoopStep
  <2>3. CASE ForceComplete(d)
    <3>1. ForceStep(d)
      BY <2>3, ForceSteps
    <3>2. CASE ForceKeeps(d)
      BY <3>1, <3>2 DEF ForceStep, ForceKeeps, ForceTo
    <3>3. CASE ForceDone(d)
      <4>1. forcing[d].by = "loop" => loop.stem = d
        BY <3>1 DEF ForceStep, ClaimInv, Loop
      <4>2. forcing'[c] = forcing[c] /\ UNCHANGED <<force, drive>>
        BY <3>1, <3>3 DEF ForceStep, ForceDone
      <4>3. loop' = IF forcing[d].by = "loop" THEN LoopIdle ELSE loop
        BY <3>3 DEF ForceDone
      <4> QED BY <4>1, <4>2, <4>3, PartiesAssumption DEF LoopIdle
    <3> QED BY <3>1, <3>2, <3>3 DEF ForceStep
  <2>4. CASE Human(d)
    BY <2>4, HumanSteps, PartiesAssumption DEF HumanStep, claimedVars, ForceNow, ForceDefer,
      ForceFrom
  <2> QED BY <2>1, <2>2, <2>3, <2>4
<1> QED BY <1>2, <1>3, <1>4, <1>5 DEF Keeps

\* and a worker leaves all condocs alone.
LEMMA WorkersKeep ==
  ASSUME TypeOK, NEW c \in Condocs, WorkerNext PROVE Keeps(c)
<1>1. c \in Slopspace /\ c \notin Workers
  BY PartiesAssumption DEF Slopspace
<1>2. PICK w \in Workers : WorkerRuns(w) \/ WorkerCrash(w)
  BY DEF WorkerNext
<1>3. UNCHANGED slopspaceVars \/ CreateAndDeploy(w) \/ Return(w) \/ ReturnFails(w)
  BY <1>2 DEF WorkerRuns, Find, Take, TakeGone, Locate, DeployOwn, AgentExits, ReturnOwn, Finish,
    WorkerCrash
<1>4. deployed'[c] = deployed[c] /\ homeTree'[c] = homeTree[c]
  BY <1>1, <1>3 DEF slopspaceVars, CreateAndDeploy, Return, ReturnFails, TypeOK, SlopspacesTypeOK
<1> QED BY <1>4 DEF Keeps, WorkerNext, pointerVars, memoryVars

\* No step deletes a signal or takes back that it is complete.
LEMMA SignalsStay ==
  ASSUME TypeOK, [Next]_vars PROVE SignalsKept
<1> USE DEF TypeOK, WorkSignalsTypeOK
<1>1. ASSUME UNCHANGED signalVars PROVE SignalsKept
  BY <1>1 DEF signalVars, SignalsKept
<1>2. ASSUME NEW r, NEW wt, Create(r, wt) PROVE SignalsKept
  BY <1>2 DEF Create, SignalsKept, SignalId
<1>3. ASSUME NEW i, Complete(i) PROVE SignalsKept
  BY <1>3 DEF Complete, SignalsKept, SignalId
<1>4. ASSUME NEW i, TakeOwnership(i) \/ AppendTooLong(i) PROVE SignalsKept
  <2>1. created' = created /\ header' = header /\ complete' = complete
    BY <1>4 DEF TakeOwnership, AppendTooLong
  <2>2. \A j \in SignalId : ongoing[j] # "absent" => ongoing'[j] # "absent"
    BY <1>4 DEF TakeOwnership, AppendTooLong
  <2>3. 1 .. created \subseteq SignalId /\ created \in Nat
    BY WorkSignalsAssumption DEF SignalId
  <2> QED BY <2>1, <2>2, <2>3 DEF SignalsKept
<1>5. ASSUME NEW w, WorkerRuns(w) \/ WorkerCrash(w) PROVE SignalsKept
  BY <1>1, <1>3, <1>4, <1>5 DEF WorkerRuns, Find, Take, TakeGone, Locate, DeployOwn, AgentExits,
    ReturnOwn, Finish, WorkerCrash
<1> QED BY <1>1, <1>2, <1>3, <1>5, DriverFrame, HumanFrame, TurnLoopFrame, ForceFrame
  DEF Next, TickRead, Crash, WorkerNext, vars, workerVars

\* Every step keeps every condoc's record.
LEMMA RecordNext ==
  ASSUME TypeOK, ClaimInv, NEW c \in Condocs, RecordInv(c), [Next]_vars PROVE RecordInv(c)'
<1>1. ASSUME NEW d \in Condocs, Driver(d) \/ TurnLoop(d) \/ ForceComplete(d) \/ Human(d)
      PROVE RecordInv(c)'
  <2>1. CASE d # c
    BY <1>1, <2>1, OthersKeep, KeptRecord
  <2>2. CASE d = c
    BY <1>1, <2>2, DriverKeepsRecord, LoopKeepsRecord, ForceKeepsRecord, HumanKeepsRecord
  <2> QED BY <2>1, <2>2
<1>2. CASE TickRead
  BY <1>2, PartiesAssumption DEF TickRead, DriveIdle, pointerVars, RecordInv, DriverRecord,
    LoopRecord, ForceRecord, StillIdle, SpecShape, TurnShape, Advances
<1>3. CASE Crash
  BY <1>3, ShapeOfSpecs, PartiesAssumption DEF Crash, DriveIdle, LoopIdle, NotForcing, pointerVars,
    RecordInv, DriverRecord, LoopRecord, ForceRecord, SpecShape, TurnShape
<1>4. CASE WorkerNext
  BY <1>4, WorkersKeep, KeptRecord
<1>5. CASE UNCHANGED vars
  <2>1. Keeps(c) BY <1>5 DEF vars, workerVars, slopspaceVars, pointerVars, memoryVars, Keeps
  <2> QED BY <2>1, KeptRecord
<1> QED BY <1>1, <1>2, <1>3, <1>4, <1>5 DEF Next

-----------------------------------------------------------------------------
(* How the pointer's turn changes in a step.                               *)

\* The turn loop has carried out a stage of c and has yet to record it.
Saving(c) == loop.stem = c /\ loop.pc = "save"

\* No turn, a propose-PR turn, which runs in place, or one that only has to be
\* cleared.
OverOrIdle(t) == t.kind = "turn" => t.stage = "replied"

\* All that a step does to the turn on the pointer: nothing; ending it, by the
\* turn loop or a force complete; queueing one for an idle condoc, whose prompt
\* has been committed or whose files are complete; saving a stage.
TurnStep(c) ==
  \/ spec'[c].turn = spec[c].turn
  \/ /\ spec'[c].turn = NoTurn
     /\ (loop.stem = c /\ OverOrIdle(spec[c].turn)) \/ Forcing(c, "commit")
  \/ /\ spec[c].turn.kind = "none" /\ spec'[c].turn = NewTurn("turn")
     /\ drive.stem = c /\ drive.pc = "queue"
  \/ /\ spec[c].turn.kind = "none" /\ spec'[c].turn = NewTurn("propose_pr")
     /\ doc[c] = "completed" \/ spec[c].phase = "pr_proposed"
  \/ Saving(c) /\ spec'[c].turn = loop.mem.turn

\* The driver does nothing else to it.
LEMMA DriverTurnStep ==
  ASSUME TypeOK, ClaimInv, NEW c \in Condocs, RecordInv(c), Driver(c)
  PROVE  TurnStep(c)
<1> USE DEF TypeOK, MemoryTypeOK, PointersTypeOK
<1>0. /\ drive.mem \in PointerSpec /\ spec[c] \in PointerSpec
  BY DEF DriveState
<1>1. CASE spec' = spec
  BY <1>1 DEF TurnStep
<1>2. CASE DriveSync(c) \/ DriveSyncFails(c) \/ DriveCommitFails(c) \/ DriveClose(c)
  <2>1. spec'[c] \in {spec[c], WithError(spec[c]), Synced(drive.mem, doc[c]),
                      WithError(Synced(drive.mem, doc[c]))}
    BY <1>2 DEF DriveSync, DriveSyncFails, DriveCommitFails, DriveClose, SyncSpec, WriteSpec
  <2>2. /\ Synced(drive.mem, doc[c]).turn = drive.mem.turn
        /\ WithError(Synced(drive.mem, doc[c])).turn = drive.mem.turn
        /\ WithError(spec[c]).turn = spec[c].turn
    <3>1. Synced(drive.mem, doc[c]) \in PointerSpec
      BY <1>0, SyncedType
    <3>2. Synced(drive.mem, doc[c]).turn = drive.mem.turn
      BY <1>0 DEF Synced, PointerSpec
    <3> QED BY <1>0, <3>1, <3>2, FieldsOfSpecs
  <2>3. CASE spec'[c] \in {spec[c], WithError(spec[c])}
    BY <2>2, <2>3 DEF TurnStep
  <2>4. CASE DriveSync(c) \/ DriveSyncFails(c) \/ DriveClose(c)
    <3>1. drive.stem = c /\ (drive.pc = "claimed" => drive.mem.phase # "pr_proposed")
      BY <2>4 DEF DriveSync, DriveSyncFails, DriveClose, OnlySyncs, HandsOff, Driving
    <3>2. drive.mem.turn = NoTurn /\ spec[c].turn = NoTurn
      BY <3>1 DEF RecordInv, DriverRecord, StillIdle, SpecShape, TurnShape, NoTurn, NewTurn
    <3> QED BY <2>1, <2>2, <3>2 DEF TurnStep
  <2> QED BY <1>2, <2>3, <2>4, <2>2, <1>0 DEF DriveCommitFails, WriteSpec
<1>3. CASE QueueTurn(c) \/ QueueTurnFails(c)
  <2>1. /\ drive.stem = c /\ drive.mem.phase # "pr_proposed"
        /\ drive.pc = "queue" \/ (drive.pc = "claimed" /\ doc[c] = "completed")
    BY <1>3 DEF QueueTurn, QueueTurnFails, ProposalDue, Driving, RecordInv, DriverRecord
  <2>2. spec[c].turn.kind = "none"
    BY <2>1 DEF RecordInv, DriverRecord, StillIdle, NoTurn, NewTurn
  <2>3. /\ QueuedSpec(drive.mem, DueTurn(c)).turn = NewTurn(DueTurn(c))
        /\ WithError(QueuedSpec(drive.mem, DueTurn(c))).turn = NewTurn(DueTurn(c))
        /\ WithError(spec[c]).turn = spec[c].turn
    <3>1. QueuedSpec(drive.mem, DueTurn(c)) \in PointerSpec
      BY <1>0, QueuedSpecType DEF DueTurn, TurnKind
    <3>2. QueuedSpec(drive.mem, DueTurn(c)).turn = NewTurn(DueTurn(c))
      BY <1>0 DEF QueuedSpec, PointerSpec
    <3> QED BY <1>0, <3>1, <3>2, FieldsOfSpecs
  <2>4. spec'[c] \in {QueuedSpec(drive.mem, DueTurn(c)), WithError(QueuedSpec(drive.mem,
                      DueTurn(c))), WithError(spec[c])}
    BY <1>3 DEF QueueTurn, QueueTurnFails, WriteSpec
  <2>5. /\ drive.pc = "queue" => DueTurn(c) = "turn"
        /\ drive.pc # "queue" => DueTurn(c) = "propose_pr"
    BY <2>1 DEF DueTurn, Driving
  <2> QED BY <2>1, <2>2, <2>3, <2>4, <2>5 DEF TurnStep
<1> QED BY <1>1, <1>2, <1>3 DEF Driver, VisitTurn, VisitSkip, VisitIdle, DriveNothing,
  DriveHandoff, DriveCompletion,
    DriveRecover, DriveCommit, pointerVars

\* Nor does the turn loop,
LEMMA LoopTurnStep ==
  ASSUME TypeOK, ClaimInv, NEW c \in Condocs, RecordInv(c), TurnLoop(c)
  PROVE  TurnStep(c)
<1> USE DEF TypeOK, MemoryTypeOK, PointersTypeOK
<1>1. CASE spec' = spec
  BY <1>1 DEF TurnStep
<1>2. CASE LoopSettle(c)
  BY <1>1, <1>2, FieldsOfSpecs DEF LoopSettle, WriteSpec, TurnStep
<1>3. CASE SaveStage(c) \/ SaveStageFails(c)
  BY <1>1, <1>3 DEF SaveStage, SaveStageFails, Loop, Saving, WriteSpec, WriteSpecFails, TurnStep
<1>4. CASE TurnEnds(c) \/ TurnEndUnsaved(c)
  <2>1. ClearedSpec(c).turn = NoTurn
    BY DEF ClearedSpec, LoopState, PointerSpec
  <2> QED BY <1>1, <1>4, <2>1 DEF TurnEnds, TurnEndUnsaved, WriteSpec, WriteSpecFails, TurnStep,
    Running, Loop,
      RecordInv, LoopRecord, OverOrIdle
<1>5. CASE ProposalEnds(c)
  BY <1>5 DEF ProposalEnds, WriteSpec, TurnStep, Running, Loop, RecordInv, LoopRecord, OverOrIdle
<1> QED BY <1>1, <1>2, <1>3, <1>4, <1>5 DEF TurnLoop, LoopClaim, LoopTake,
      TurnWaits, TurnSyncs, TurnDeploys, TurnSignals, TurnReturns, TurnReturnFails, TurnAbandoned,
      TurnReplies, TurnHalfReplies, ProposalSignals,
      TurnBlocked, TurnFails, pointerVars

\* a force complete,
LEMMA ForceTurnStep ==
  ASSUME TypeOK, ClaimInv, NEW c \in Condocs, RecordInv(c), ForceComplete(c)
  PROVE  TurnStep(c)
<1> USE DEF TypeOK, MemoryTypeOK, PointersTypeOK
<1>0. /\ forcing[c].mem \in PointerSpec /\ spec[c] \in PointerSpec
  BY DEF ForceState
<1>1. CASE spec' = spec
  BY <1>1 DEF TurnStep
<1>2. CASE AbandonFails(c) \/ ForceRefused(c)
  <2>1. spec'[c] \in {spec[c], WithError(spec[c])}
    BY <1>2 DEF AbandonFails, ForceRefused, Forcing, WriteSpec, RecordInv, ForceRecord
  <2> QED BY <1>0, <2>1, FieldsOfSpecs DEF TurnStep
<1>3. CASE ForceCommit(c) \/ ForceCommitFails(c)
  <2>1. /\ Forcing(c, "commit") /\ forcing[c].mem.turn = NoTurn
        /\ spec'[c] \in {spec[c], Synced(forcing[c].mem, doc[c]), WithError(forcing[c].mem)}
    BY <1>3 DEF ForceCommit, ForceCommitFails, SyncSpec, WriteSpec, Forcing, RecordInv, ForceRecord
  <2>2. Synced(forcing[c].mem, doc[c]).turn = forcing[c].mem.turn
    BY <1>0 DEF Synced, PointerSpec
  <2> QED BY <1>0, <2>1, <2>2, FieldsOfSpecs DEF TurnStep
<1> QED BY <1>1, <1>2, <1>3 DEF ForceComplete, AbandonSignal, AbandonReturn, AbandonWrite,
  ForceFinalize, pointerVars

\* or the UI.
LEMMA HumanTurnStep ==
  ASSUME TypeOK, NEW c \in Condocs, RecordInv(c), Human(c)
  PROVE  TurnStep(c)
<1> USE DEF TypeOK, MemoryTypeOK, PointersTypeOK
<1>1. CASE spec' = spec
  BY <1>1 DEF TurnStep
<1>2. CASE Resubmit(c)
  BY <1>2 DEF Resubmit, WriteSpec, TurnStep, PointerSpec
<1>3. CASE RegeneratePRs(c)
  BY <1>3 DEF RegeneratePRs, WriteSpec, TurnStep, RecordInv, SpecShape
<1> QED BY <1>1, <1>2, <1>3 DEF Human, Directive, ForceNow, ForceDefer, pointerVars

\* No step does.
LEMMA TurnSteps ==
  ASSUME TypeOK, ClaimInv, NEW c \in Condocs, RecordInv(c), [Next]_vars
  PROVE  TurnStep(c)
<1>1. CASE UNCHANGED spec BY <1>1 DEF TurnStep
<1>2. ASSUME NEW d \in Condocs, Driver(d) \/ TurnLoop(d) \/ ForceComplete(d) \/ Human(d)
      PROVE  TurnStep(c)
  <2>1. CASE d # c
    BY <1>2, <2>1, OthersKeep DEF Keeps, TurnStep
  <2>2. CASE d = c
    BY <1>2, <2>2, DriverTurnStep, LoopTurnStep, ForceTurnStep, HumanTurnStep
  <2> QED BY <2>1, <2>2
<1> QED BY <1>1, <1>2 DEF Next, TickRead, Crash, WorkerNext, pointerVars, vars

\* What TurnMovesForward says of a step.
MovesForward ==
  \A c \in Condocs :
         LET t == spec[c].turn
             u == spec'[c].turn
         IN  \/ t = u
             \/ /\ t.kind # "none" /\ u.kind = t.kind
                /\ Rank[u.stage] >= Rank[t.stage]
                /\ t.sig \in {0, u.sig}
             \/ t.kind = "none" /\ u.stage = "queued"
             \/ u = NoTurn /\ (loop.stem = c \/ Forcing(c, "commit"))

\* Every step moves the record of every turn forward.
LEMMA MovesForwardStep ==
  ASSUME TypeOK, ClaimInv, \A c \in Condocs : RecordInv(c), [Next]_vars
  PROVE  MovesForward
<1> SUFFICES ASSUME NEW c \in Condocs
    PROVE LET t == spec[c].turn
             u == spec'[c].turn
         IN  \/ t = u
             \/ /\ t.kind # "none" /\ u.kind = t.kind
                /\ Rank[u.stage] >= Rank[t.stage]
                /\ t.sig \in {0, u.sig}
             \/ t.kind = "none" /\ u.stage = "queued"
             \/ u = NoTurn /\ (loop.stem = c \/ Forcing(c, "commit"))
  BY DEF MovesForward
<1>1. TurnStep(c) BY TurnSteps
<1>2. CASE Saving(c) /\ spec'[c].turn = loop.mem.turn
  BY <1>2 DEF Saving, RecordInv, LoopRecord, Advances
<1> QED BY <1>1, <1>2 DEF TurnStep, NewTurn

\* RecordInv holds at the start.
LEMMA RecordInit == ASSUME Init, NEW c \in Condocs PROVE RecordInv(c)
  BY ShapeOfSpecs, PartiesAssumption DEF Init, MemoryInit, RecordInv, DriverRecord, LoopRecord,
    ForceRecord, DriveIdle, LoopIdle, NotForcing

-----------------------------------------------------------------------------
(* The condoc files: completed condocs, and prompts that wait for a turn.  *)

\* A condoc that proposes its PRs has complete files.
Proposing(c) ==
  spec[c].turn.kind = "propose_pr" \/ spec[c].phase = "pr_proposed" => doc[c] = "completed"

\* Only the end of a propose-PR turn makes the phase pr_proposed.
PhaseStep(c) ==
  spec'[c].phase = "pr_proposed" =>
      spec[c].phase = "pr_proposed" \/ spec[c].turn.kind = "propose_pr"

\* No step of c's does otherwise.
LEMMA PhaseSteps ==
  ASSUME TypeOK, ClaimInv, NEW c \in Condocs, RecordInv(c),
         Driver(c) \/ TurnLoop(c) \/ ForceComplete(c) \/ Human(c)
  PROVE  PhaseStep(c)
<1> USE DEF TypeOK, MemoryTypeOK, PointersTypeOK
<1>0. /\ drive.mem \in PointerSpec
      /\ spec[c] \in PointerSpec
      /\ loop.mem \in PointerSpec
      /\ forcing[c].mem \in PointerSpec
  BY DEF DriveState, LoopState, ForceState
<1>1. CASE spec' = spec
  BY <1>1 DEF PhaseStep
<1>2. ASSUME NEW s \in PointerSpec
      PROVE  /\ Synced(s, doc[c]) \in PointerSpec
             /\ Synced(s, doc[c]).phase \in {"awaiting_action", "completed"}
             /\ \A k \in {"turn", "propose_pr"} :
                  QueuedSpec(s, k) \in PointerSpec /\ QueuedSpec(s, k).phase = "queued"
  <2>1. SyncedPhase(doc[c]) \in {"awaiting_action", "completed"} BY DEF SyncedPhase
  <2> QED BY <2>1, SyncedType, QueuedSpecType DEF Synced, QueuedSpec, PointerSpec, TurnKind
<1>3. CASE Driver(c)
  <2>1. \/ spec'[c] \in {spec[c], WithError(spec[c])}
        \/ \E k \in {"turn", "propose_pr"} :
                spec'[c] \in {QueuedSpec(drive.mem, k), WithError(QueuedSpec(drive.mem, k))}
        \/ spec'[c] \in {Synced(drive.mem, doc[c]), WithError(Synced(drive.mem, doc[c]))}
    BY <1>3 DEF Driver, VisitTurn, VisitSkip, VisitIdle, DriveNothing, DriveHandoff,
      DriveCompletion,
    DriveRecover, DriveSync, DriveSyncFails, DriveCommit, DriveCommitFails, DriveClose, QueueTurn,
    QueueTurnFails, pointerVars, WriteSpec, SyncSpec, DueTurn
  <2>2. ASSUME NEW s \in PointerSpec,
               s.phase \in {spec[c].phase, "queued", "awaiting_action", "completed"},
               spec'[c] \in {s, WithError(s)}
        PROVE PhaseStep(c)
    BY <2>2, FieldsOfSpecs DEF PhaseStep
  <2>3. CASE spec'[c] \in {spec[c], WithError(spec[c])}
    BY <1>0, <2>2, <2>3
  <2>4. ASSUME NEW k \in {"turn", "propose_pr"},
               spec'[c] \in {QueuedSpec(drive.mem, k), WithError(QueuedSpec(drive.mem, k))}
        PROVE PhaseStep(c)
    BY <1>0, <1>2, <2>2, <2>4
  <2>5. CASE spec'[c] \in {Synced(drive.mem, doc[c]), WithError(Synced(drive.mem, doc[c]))}
    BY <1>0, <1>2, <2>2, <2>5
  <2> QED BY <2>1, <2>3, <2>4, <2>5
<1>4. CASE TurnLoop(c)
  <2>1. CASE LoopSettle(c)
    BY <1>0, <1>1, <2>1, FieldsOfSpecs DEF LoopSettle, WriteSpec, PhaseStep
  <2>2. CASE SaveStage(c) \/ SaveStageFails(c)
    BY <1>0, <1>1, <2>2 DEF SaveStage, SaveStageFails, Loop, WriteSpec, WriteSpecFails, PhaseStep,
      RecordInv, LoopRecord, SpecShape, Advances
  <2>3. CASE TurnEnds(c) \/ TurnEndUnsaved(c)
    <3>1. ClearedSpec(c).phase # "pr_proposed"
      <4>1. SyncedPhase(doc[c]) # "pr_proposed" BY DEF SyncedPhase
      <4> QED BY <1>0, <4>1 DEF ClearedSpec, PointerSpec
    <3> QED BY <1>1, <2>3, <3>1 DEF TurnEnds, TurnEndUnsaved, WriteSpec, WriteSpecFails, PhaseStep
  <2>4. CASE ProposalEnds(c)
    BY <2>4 DEF ProposalEnds, WriteSpec, PhaseStep, Running, Loop, RecordInv, LoopRecord
  <2> QED BY <1>1, <1>4, <2>1, <2>2, <2>3, <2>4 DEF TurnLoop, LoopClaim, LoopTake, TurnWaits,
    TurnSyncs, TurnDeploys, TurnSignals,
    TurnReturns, TurnReturnFails, TurnAbandoned, TurnReplies, TurnHalfReplies,
    ProposalSignals, TurnBlocked, TurnFails, SaveStageFails, pointerVars
<1>5. CASE ForceComplete(c)
  <2>1. \/ spec'[c] \in {spec[c], WithError(spec[c]), Synced(forcing[c].mem, doc[c])}
        \/ forcing[c].mem.phase = spec[c].phase /\ spec'[c] = WithError(forcing[c].mem)
    BY <1>5 DEF ForceComplete, AbandonSignal, AbandonReturn, AbandonWrite, AbandonFails,
      ForceRefused, ForceFinalize,
    ForceCommit, ForceCommitFails, SyncSpec, WriteSpec, Forcing, RecordInv, ForceRecord, pointerVars
  <2>2. /\ WithError(spec[c]).phase = spec[c].phase
        /\ WithError(forcing[c].mem).phase = forcing[c].mem.phase
    BY <1>0, FieldsOfSpecs
  <2>3. Synced(forcing[c].mem, doc[c]).phase \in {"awaiting_action", "completed"}
    BY <1>0, <1>2
  <2> QED BY <2>1, <2>2, <2>3 DEF PhaseStep
<1>6. CASE Human(c)
  BY <1>0, <1>1, <1>6 DEF Human, Directive, Resubmit, RegeneratePRs, ForceNow, ForceDefer,
    pointerVars, WriteSpec, PhaseStep, PointerSpec
<1> QED BY <1>3, <1>4, <1>5, <1>6

\* What CompletedForGood says of a step.
StaysCompleted ==
    \A c \in Condocs :
        doc[c] = "completed" => doc'[c] = "completed" /\ replies'[c] = replies[c]

\* The driver writes into files that have a directive, and no other.
LEMMA DriverStaysCompleted ==
  ASSUME PointersTypeOK, NEW c \in Condocs, Driver(c)
  PROVE  StaysCompleted
<1>1. CASE DriveHandoff(c)
  BY <1>1 DEF PointersTypeOK, StaysCompleted, DriveHandoff
<1>2. CASE DriveCompletion(c)
  BY <1>2 DEF PointersTypeOK, StaysCompleted, DriveCompletion
<1>3. ASSUME UNCHANGED <<doc, replies>> PROVE StaysCompleted
  BY <1>3 DEF StaysCompleted
<1> QED
  BY <1>1, <1>2, <1>3 DEF Driver, VisitTurn, VisitSkip, VisitIdle, DriveNothing,
    DriveRecover, DriveSync, DriveSyncFails, DriveCommit, DriveCommitFails, DriveClose,
    QueueTurn, QueueTurnFails, pointerVars

\* The turn loop gives no reply to a completed condoc.
LEMMA TurnLoopStaysCompleted ==
  ASSUME PointersTypeOK, NEW c \in Condocs, TurnLoop(c)
  PROVE  StaysCompleted
<1>1. ASSUME NEW d, CanReply(c), AppendReply(c, d) PROVE StaysCompleted
  BY <1>1 DEF PointersTypeOK, StaysCompleted, CanReply, AppendReply
<1>2. ASSUME UNCHANGED <<doc, replies>> PROVE StaysCompleted
  BY <1>2 DEF StaysCompleted
<1>3. CASE TurnReplies(c) \/ TurnHalfReplies(c)
  BY <1>1, <1>3 DEF TurnReplies, TurnHalfReplies
<1> QED
  BY <1>2, <1>3 DEF TurnLoop, LoopClaim, LoopSettle, LoopTake, TurnWaits, TurnSyncs,
    TurnDeploys, TurnSignals, TurnReturns, TurnReturnFails, TurnAbandoned, TurnEnds,
    TurnEndUnsaved, ProposalSignals, ProposalEnds, TurnBlocked, TurnFails, SaveStage,
    SaveStageFails, pointerVars

\* A force complete only ever completes the files.
LEMMA ForceStaysCompleted ==
  ASSUME PointersTypeOK, NEW c \in Condocs, ForceComplete(c)
  PROVE  StaysCompleted
<1>1. CASE ForceFinalize(c)
  BY <1>1 DEF PointersTypeOK, StaysCompleted, ForceFinalize
<1>2. ASSUME UNCHANGED <<doc, replies>> PROVE StaysCompleted
  BY <1>2 DEF StaysCompleted
<1> QED
  BY <1>1, <1>2 DEF ForceComplete, AbandonSignal, AbandonReturn, AbandonWrite,
    AbandonFails, ForceRefused, ForceCommit, ForceCommitFails, pointerVars

\* A directive goes into a file with a Human-Prompt.
LEMMA HumanStaysCompleted ==
  ASSUME PointersTypeOK, NEW c \in Condocs, Human(c)
  PROVE  StaysCompleted
<1>1. CASE Directive(c)
  BY <1>1 DEF PointersTypeOK, StaysCompleted, Directive
<1>2. ASSUME UNCHANGED <<doc, replies>> PROVE StaysCompleted
  BY <1>2 DEF StaysCompleted
<1> QED
  BY <1>1, <1>2 DEF Human, Resubmit, RegeneratePRs, ForceNow, ForceDefer, pointerVars

\* A prompt that is not committed has no turn, nor is its turn about to be
\* queued.
UncommittedPrompt(c) ==
    doc[c] = "pending" /\ dirty[c] =>
        spec[c].turn.kind = "none" /\ ~(drive.stem = c /\ drive.pc = "queue")

\* Who makes a prompt pending and uncommitted, gets as far as queueing its turn,
\* or drops replies.
LEMMA FilesStep ==
  ASSUME TypeOK, NEW c \in Condocs, Driver(c) \/ TurnLoop(c) \/ ForceComplete(c) \/ Human(c)
  PROVE  /\ doc'[c] = "pending" /\ dirty'[c] => (doc[c] = "pending" /\ dirty[c]) \/ DriveHandoff(c)
         /\ drive'.stem = c /\ drive'.pc = "queue" => drive' = drive \/ DriveCommit(c)
         /\ replies[c] > 0 => replies'[c] > 0 \/ DriveHandoff(c)
<1> USE DEF TypeOK, MemoryTypeOK, PointersTypeOK
<1>1. CASE Driver(c)
  <2>1. ASSUME NEW pc, NEW s, DriveNext(pc, s)
        PROVE drive'.pc = pc
    BY <2>1 DEF DriveNext, DriveState
  <2>2. CASE DriveSyncFails(c)
    BY <2>2 DEF DriveSyncFails, DriveDone, DriveIdle, OnlySyncs
  <2> QED BY <1>1, <2>1, <2>2, PartiesAssumption DEF Driver, VisitTurn, VisitSkip, VisitIdle,
    DriveNothing, DriveHandoff, DriveCompletion,
    DriveRecover, DriveSync, DriveSyncFails, DriveCommit, DriveCommitFails, DriveClose, QueueTurn,
    QueueTurnFails, DriveDone, DriveIdle, pointerVars, Visit, Driving
<1>2. CASE TurnLoop(c)
  BY <1>2 DEF TurnLoop, LoopClaim, LoopSettle, LoopTake, TurnWaits, TurnSyncs, TurnDeploys,
    TurnSignals,
    TurnReturns, TurnReturnFails, TurnAbandoned, TurnEnds, TurnReplies, TurnHalfReplies,
    TurnEndUnsaved,
    ProposalSignals, ProposalEnds, TurnBlocked, TurnFails, SaveStage, SaveStageFails, AppendReply,
    pointerVars
<1>3. CASE ForceComplete(c)
  BY <1>3 DEF ForceComplete, AbandonSignal, AbandonReturn, AbandonWrite, AbandonFails,
    ForceRefused, ForceFinalize,
    ForceCommit, ForceCommitFails, pointerVars
<1>4. CASE Human(c)
  BY <1>4 DEF Human, Directive, Resubmit, RegeneratePRs, ForceNow, ForceDefer, pointerVars,
    memoryVars
<1> QED BY <1>1, <1>2, <1>3, <1>4

\* What the files are while a prompt waits for its turn, and after completion.
PromptInv(c) == Proposing(c) /\ UncommittedPrompt(c)

\* A prompt is taken from the files of an idle condoc only.
LEMMA DriveHandoffIdle ==
  ASSUME TypeOK, NEW c \in Condocs, RecordInv(c), DriveHandoff(c)
  PROVE  spec[c].turn.kind = "none" /\ spec' = spec /\ drive'.pc = "start" /\ drive.stem = c
  BY DEF DriveHandoff, HandsOff, Driving, DriveNext, TypeOK, MemoryTypeOK, DriveState, RecordInv,
    DriverRecord, StillIdle, NoTurn, NewTurn

\* The steps of a condoc's own keep it,
LEMMA KeepsPrompt ==
  ASSUME TypeOK, ClaimInv, NEW c \in Condocs, RecordInv(c), PromptInv(c),
         Driver(c) \/ TurnLoop(c) \/ ForceComplete(c) \/ Human(c)
  PROVE  PromptInv(c)'
<1>1. TurnStep(c) /\ PhaseStep(c)
  BY PhaseSteps, DriverTurnStep, LoopTurnStep, ForceTurnStep, HumanTurnStep
<1>2. doc[c] = "completed" => doc'[c] = "completed"
  BY DriverStaysCompleted, TurnLoopStaysCompleted, ForceStaysCompleted, HumanStaysCompleted
    DEF StaysCompleted, TypeOK
<1>3. Saving(c) => spec[c].turn.kind # "none" /\ loop.mem.turn.kind = spec[c].turn.kind
  BY DEF Saving, RecordInv, LoopRecord, Advances
<1>4. Proposing(c)'
  BY <1>1, <1>2, <1>3 DEF PromptInv, Proposing, TurnStep, PhaseStep, NoTurn, NewTurn
<1>5. UncommittedPrompt(c)'
  <2>1. CASE DriveHandoff(c)
    BY <2>1, DriveHandoffIdle DEF UncommittedPrompt
  <2>2. CASE ~DriveHandoff(c)
    <3>1. SUFFICES ASSUME doc'[c] = "pending", dirty'[c]
          PROVE  spec'[c].turn.kind = "none" /\ ~(drive'.stem = c /\ drive'.pc = "queue")
      BY DEF UncommittedPrompt
    <3>2. doc[c] = "pending" /\ dirty[c] BY <2>2, <3>1, FilesStep
    <3>3. ~DriveCommit(c) BY <3>1 DEF DriveCommit, TypeOK, PointersTypeOK
    <3>4. ~(drive'.stem = c /\ drive'.pc = "queue")
      BY <3>2, <3>3, FilesStep DEF PromptInv, UncommittedPrompt
    <3>5. spec'[c].turn.kind = "none"
      BY <1>1, <1>3, <3>2 DEF PromptInv, UncommittedPrompt, Proposing, TurnStep, NoTurn, NewTurn
    <3> QED BY <3>4, <3>5
  <2> QED BY <2>1, <2>2
<1> QED BY <1>4, <1>5 DEF PromptInv

\* and so do all steps.
LEMMA PromptNext ==
  ASSUME TypeOK, ClaimInv, NEW c \in Condocs, RecordInv(c), PromptInv(c), [Next]_vars
  PROVE  PromptInv(c)'
<1>1. ASSUME Keeps(c) PROVE PromptInv(c)'
  BY <1>1 DEF Keeps, PromptInv, Proposing, UncommittedPrompt
<1>2. ASSUME NEW d \in Condocs, Driver(d) \/ TurnLoop(d) \/ ForceComplete(d) \/ Human(d)
      PROVE PromptInv(c)'
  BY <1>1, <1>2, OthersKeep, KeepsPrompt
<1>3. CASE TickRead \/ Crash
  BY <1>3, PartiesAssumption DEF TickRead, Crash, DriveIdle, pointerVars, PromptInv, Proposing,
    UncommittedPrompt
<1>4. CASE WorkerNext
  BY <1>1, <1>4, WorkersKeep
<1>5. CASE UNCHANGED vars
  <2>1. Keeps(c) BY <1>5 DEF vars, workerVars, slopspaceVars, pointerVars, memoryVars, Keeps
  <2> QED BY <1>1, <2>1
<1> QED BY <1>2, <1>3, <1>4, <1>5 DEF Next

-----------------------------------------------------------------------------
(* Signals, replies and slopspaces behind the stages.                      *)

\* The signal of turn t exists, is c's own and has not vanished; its reply is in
\* the condoc.
Evidence(c, t) ==
    /\ (\/ t.kind = "turn" /\ Rank[t.stage] >= 2
        \/ t.kind = "propose_pr" /\ t.stage = "signalled")
         => /\ t.sig \in 1 .. created /\ header[t.sig].role = c
            /\ ongoing[t.sig] # "absent" \/ complete[t.sig]
    /\ t.kind = "turn" /\ t.stage = "replied" => replies[c] > 0

\* This holds of the recorded turn, and of the stage to be recorded.
EvidenceInv(c) ==
    /\ Evidence(c, spec[c].turn)
    /\ Saving(c) => Evidence(c, loop.mem.turn)

\* The slopspace of c is home, and has c's own tree.
AtHome(c) == ~deployed[c] /\ homeTree[c] = c

\* It is, whenever there is no turn to have it away, or is about to be none.
HomeInv(c) ==
    (\/ OverOrIdle(spec[c].turn)
     \/ Saving(c) /\ OverOrIdle(loop.mem.turn)
     \/ forcing[c].pc = "commit")
      => AtHome(c)

\* Where turn t has c's slopspace.
Locates(c, t) ==
    t.kind = "turn" =>
        /\ t.stage = "deployed" => deployed[c]
        /\ t.stage = "signalled" => deployed[c] \/ (complete[t.sig] /\ replyFile[c])
        /\ t.stage = "returned" => ~deployed[c] /\ replyFile[c]

\* It is there as long as nobody asked for a Force Complete, which can fail half
\* way and leave the turn.
LocatesInv(c) ==
    used["force"] = 0 =>
        /\ forcing[c].pc = "idle" /\ ~force[c]
        /\ Locates(c, spec[c].turn)
        /\ Saving(c) => Locates(c, loop.mem.turn)

\* A stage the loop has to save is the one it had to save before, or has just
\* been carried out.
SaveStep(c) ==
    Saving(c)' =>
        \/ loop' = loop
        \/ /\ \/ TurnDeploys(c) \/ TurnSignals(c) \/ TurnReturns(c)
              \/ TurnReplies(c) \/ ProposalSignals(c)
           /\ loop.stem = c /\ loop.pc \in {"stage", "deploy"} /\ loop.mem = spec[c]
           /\ UNCHANGED spec

\* All that a step of c's own does to its slopspace, its captured reply and its
\* force complete.
SlopStep(c) ==
    /\ \/ deployed'[c] = deployed[c] /\ homeTree'[c] = homeTree[c]
       \/ TurnDeploys(c) \/ TurnReturns(c) \/ TurnReturnFails(c)
       \/ AbandonReturn(c) \/ AbandonFails(c)
    /\ \/ replyFile'[c] = replyFile[c]
       \/ TurnReturns(c) \/ TurnReturnFails(c) \/ TurnEnds(c) \/ TurnEndUnsaved(c)
       \/ AbandonReturn(c)
    /\ forcing'[c] # forcing[c] => ForceNow(c) \/ (LoopTake(c) /\ force[c]) \/ ForceComplete(c)
    /\ force'[c] => force[c] \/ ForceDefer(c)
    /\ forcing'[c].pc = "commit" => forcing[c].pc = "commit" \/ ForceFinalize(c)

\* No step of c's own does otherwise about the stage to be saved,
LEMMA SaveSteps ==
  ASSUME TypeOK, ClaimInv, NEW c \in Condocs, RecordInv(c),
         Driver(c) \/ TurnLoop(c) \/ ForceComplete(c) \/ Human(c)
  PROVE  SaveStep(c)
<1> USE DEF TypeOK, MemoryTypeOK
<1>1. CASE TurnLoop(c)
  <2>1. CASE \/ TurnDeploys(c)
             \/ TurnSignals(c)
             \/ TurnReturns(c)
             \/ TurnReplies(c)
             \/ ProposalSignals(c)
    <3>1. loop.stem = c /\ loop.pc \in {"stage", "deploy"}
      BY <2>1 DEF TurnDeploys, TurnSignals, TurnReturns, TurnReplies, CanReply, ProposalSignals,
        Running, Loop, pointerVars
    <3>2. loop.mem = spec[c]
      BY <3>1 DEF RecordInv, LoopRecord
    <3>3. UNCHANGED spec
      BY <2>1 DEF TurnDeploys, TurnSignals, TurnReturns, TurnReplies, ProposalSignals, pointerVars
    <3> QED BY <2>1, <3>1, <3>2, <3>3 DEF SaveStep
  <2>2. CASE LoopClaim(c) \/ LoopTake(c)
    <3>1. loop'.pc \in {"stage", "after", "idle", "force"}
      BY <2>2 DEF LoopClaim, LoopTake, LoopIdle, LoopState
    <3> QED BY <3>1 DEF SaveStep, Saving
  <2>3. ASSUME NEW pc \in {"stage", "deploy", "settled"}, loop' = [loop EXCEPT !.pc = pc]
        PROVE SaveStep(c)
    <3>1. loop'.pc = pc
      BY <2>3 DEF LoopState
    <3> QED BY <3>1 DEF SaveStep, Saving
  <2>4. CASE LoopSettle(c) \/ TurnSyncs(c) \/ SaveStage(c)
    BY <2>3, <2>4 DEF LoopSettle, TurnSyncs, SaveStage
  <2>5. ASSUME NEW e, End(e) PROVE SaveStep(c)
    <3>1. loop'.pc = "after"
      BY <2>5 DEF End, LoopState
    <3> QED BY <3>1 DEF SaveStep, Saving
  <2>6. CASE ~(LoopClaim(c) \/ LoopTake(c) \/ LoopSettle(c) \/ TurnSyncs(c) \/ SaveStage(c)
         \/ TurnDeploys(c) \/ TurnSignals(c) \/ TurnReturns(c) \/ TurnReplies(c)
         \/ ProposalSignals(c))
    BY <1>1, <2>5, <2>6 DEF TurnLoop, TurnWaits,
      TurnReturnFails, TurnAbandoned, TurnEnds, TurnHalfReplies, TurnEndUnsaved,
      ProposalEnds, TurnBlocked, TurnFails, SaveStageFails
  <2> QED BY <2>1, <2>2, <2>4, <2>6
<1>2. CASE Driver(c) \/ Human(c)
  <2>1. loop' = loop
    BY <1>2, DriverSteps, HumanSteps DEF DriverStep, HumanStep, claimedVars
  <2> QED BY <2>1 DEF SaveStep
<1>3. CASE ForceComplete(c)
  BY <1>3, ForceSteps DEF ForceStep, ForceKeeps, ForceDone, LoopIdle, SaveStep, Saving
<1> QED BY <1>1, <1>2, <1>3

\* nor about these.
LEMMA SlopSteps ==
  ASSUME TypeOK, ClaimInv, NEW c \in Condocs,
         Driver(c) \/ TurnLoop(c) \/ ForceComplete(c) \/ Human(c)
  PROVE  SlopStep(c)
<1> USE DEF TypeOK, MemoryTypeOK
<1>1. CASE TurnLoop(c)
  <2>1. CASE TurnDeploys(c) \/ TurnReturns(c) \/ TurnReturnFails(c)
    BY <2>1 DEF TurnDeploys, TurnReturns, TurnReturnFails, SlopStep, pointerVars
  <2>2. CASE TurnEnds(c) \/ TurnEndUnsaved(c)
    BY <2>2 DEF TurnEnds, TurnEndUnsaved, SlopStep, workerVars, slopspaceVars
  <2>3. CASE LoopTake(c)
    BY <2>3 DEF LoopTake, SlopStep, workerVars, slopspaceVars, pointerVars, ForceFrom
  <2> QED
    BY <1>1, <2>1, <2>2, <2>3 DEF TurnLoop, LoopClaim, LoopSettle, TurnWaits, TurnSyncs,
      TurnSignals,
      TurnAbandoned, TurnReplies, TurnHalfReplies, ProposalSignals, CanReply, AppendReply,
      ProposalEnds, TurnBlocked, TurnFails, SaveStage, SaveStageFails, SlopStep, workerVars,
      slopspaceVars, pointerVars
<1>2. CASE Driver(c)
  <2>1. UNCHANGED <<slopspaceVars, force, forcing>>
    BY <1>2, DriverSteps, DriverFrame DEF DriverStep, claimedVars
  <2>2. UNCHANGED replyFile
    BY <1>2 DEF Driver, VisitTurn, VisitSkip, VisitIdle, DriveNothing, DriveHandoff,
      DriveCompletion,
    DriveRecover, DriveSync, DriveSyncFails, DriveCommit, DriveCommitFails, DriveClose, QueueTurn,
    QueueTurnFails, pointerVars
  <2> QED BY <2>1, <2>2 DEF SlopStep, slopspaceVars
<1>3. CASE Human(c)
  <2>1. deployed' = deployed /\ homeTree' = homeTree /\ replyFile' = replyFile
    BY <1>3 DEF Human, Directive, Resubmit, RegeneratePRs, ForceNow, ForceDefer, pointerVars,
      slopspaceVars
  <2>2. CASE UNCHANGED <<force, forcing>>
    BY <2>1, <2>2 DEF SlopStep, slopspaceVars
  <2>3. CASE ForceNow(c)
    <3>1. forcing'[c].pc # "commit" /\ UNCHANGED force
      BY <2>3 DEF ForceNow, ForceFrom
    <3> QED BY <2>1, <2>3, <3>1 DEF SlopStep
  <2>4. CASE ForceDefer(c)
    BY <2>1, <2>4 DEF ForceDefer, SlopStep, slopspaceVars
  <2> QED BY <1>3, <2>2, <2>3, <2>4 DEF Human, Directive, Resubmit, RegeneratePRs, memoryVars
<1>4. CASE ForceComplete(c)
  <2>1. ASSUME NEW pc, NEW s, ForceTo(c, pc, s) PROVE forcing'[c].pc = pc
    BY <2>1 DEF ForceTo, ForceState
  <2>2. ForceDone(c) => forcing'[c].pc = "idle"
    BY DEF ForceDone, NotForcing
  <2>3. UNCHANGED force
    BY <1>4, ForceSteps DEF ForceStep
  <2>4. forcing'[c].pc = "commit" => ForceFinalize(c)
    BY <1>4, <2>1, <2>2 DEF ForceComplete, AbandonSignal, AbandonReturn, AbandonWrite,
      AbandonFails, ForceRefused, ForceCommit, ForceCommitFails
  <2>5. \/ deployed' = deployed /\ homeTree' = homeTree
        \/ AbandonReturn(c) \/ AbandonFails(c)
    BY <1>4 DEF ForceComplete, AbandonSignal, AbandonWrite, ForceRefused, ForceFinalize,
      ForceCommit, ForceCommitFails,
      workerVars, slopspaceVars
  <2>6. UNCHANGED replyFile \/ AbandonReturn(c)
    BY <1>4 DEF ForceComplete, AbandonSignal, AbandonWrite, AbandonFails, ForceRefused,
      ForceFinalize, ForceCommit, ForceCommitFails,
      pointerVars
  <2> QED BY <1>4, <2>3, <2>4, <2>5, <2>6 DEF SlopStep
<1> QED BY <1>1, <1>2, <1>3, <1>4

\* A step of c's own.
Own(c) == Driver(c) \/ TurnLoop(c) \/ ForceComplete(c) \/ Human(c)

\* What is said above of such a step.
LEMMA OwnTurnStep ==
  ASSUME TypeOK, ClaimInv, NEW c \in Condocs, RecordInv(c), Own(c)
  PROVE  TurnStep(c) /\ SaveStep(c) /\ SlopStep(c)
  BY DriverTurnStep, LoopTurnStep, ForceTurnStep, HumanTurnStep, SaveSteps, SlopSteps DEF Own

\* What turn each stage starts from, and what it leaves to be saved.
LEMMA SavedTurns ==
  ASSUME TypeOK, ClaimInv, NEW c \in Condocs, RecordInv(c)
  PROVE  LET t == spec[c].turn
             u == loop'.mem.turn
         IN  /\ TurnDeploys(c) =>
                   /\ loop.stem = c /\ loop.pc = "deploy"
                   /\ t.kind = "turn" /\ t.stage = "queued"
                   /\ u.kind = "turn" /\ u.stage = "deployed"
             /\ TurnSignals(c) =>
                   /\ t.kind = "turn" /\ t.stage = "deployed"
                   /\ u.kind = "turn" /\ u.stage = "signalled" /\ u.sig = created + 1
             /\ TurnReturns(c) =>
                   /\ t.kind = "turn" /\ t.stage = "signalled"
                   /\ u.kind = "turn" /\ u.stage = "returned" /\ u.sig = t.sig
             /\ TurnReplies(c) =>
                   /\ t.kind = "turn" /\ t.stage = "returned"
                   /\ u.kind = "turn" /\ u.stage = "replied" /\ u.sig = t.sig
             /\ ProposalSignals(c) =>
                   /\ t.kind = "propose_pr" /\ t.stage = "queued"
                   /\ u.kind = "propose_pr" /\ u.stage = "signalled" /\ u.sig = created + 1
<1> USE DEF TypeOK, MemoryTypeOK
<1>0. loop.mem \in PointerSpec
  BY DEF LoopState
<1>1. ASSUME NEW s, Save(s) PROVE loop'.mem = s
  BY <1>1 DEF Save, LoopState
<1>2. CASE TurnDeploys(c)
  <2>1. /\ loop.stem = c
        /\ loop.pc = "deploy"
        /\ loop.mem = spec[c]
        /\ spec[c].turn.kind = "turn"
        /\ spec[c].turn.stage = "queued"
        /\ loop'.mem = DeployedSpec(loop.mem)
    BY <1>1, <1>2 DEF TurnDeploys, Loop, RecordInv, LoopRecord, DeployedSpec
  <2> QED BY <1>0, <1>2, <2>1, FieldsOfStages DEF TurnSignals, TurnReturns, TurnReplies, CanReply,
    ProposalSignals, Running, Loop
<1>3. CASE TurnSignals(c)
  <2>1. /\ loop.stem = c
        /\ loop.pc = "stage"
        /\ loop.mem = spec[c]
        /\ spec[c].turn.kind = "turn"
        /\ spec[c].turn.stage = "deployed"
        /\ loop'.mem = SignalledSpec(loop.mem, created + 1)
    BY <1>1, <1>3 DEF TurnSignals, Loop, Running, RecordInv, LoopRecord, SignalledSpec
  <2> QED BY <1>0, <1>3, <2>1, FieldsOfStages DEF TurnDeploys, TurnReturns, TurnReplies, CanReply,
    ProposalSignals, Running, Loop
<1>4. CASE ProposalSignals(c)
  <2>1. /\ loop.stem = c
        /\ loop.pc = "stage"
        /\ loop.mem = spec[c]
        /\ spec[c].turn.kind = "propose_pr"
        /\ spec[c].turn.stage = "queued"
        /\ loop'.mem = ProposingSpec(loop.mem, created + 1)
    BY <1>1, <1>4 DEF ProposalSignals, Loop, Running, RecordInv, LoopRecord, ProposingSpec
  <2> QED BY <1>0, <1>4, <2>1, FieldsOfStages DEF TurnDeploys, TurnSignals, TurnReturns,
    TurnReplies, CanReply, Running, Loop
<1>5. CASE TurnReturns(c)
  <2>1. /\ loop.stem = c
        /\ loop.pc = "stage"
        /\ loop.mem = spec[c]
        /\ spec[c].turn.kind = "turn"
        /\ spec[c].turn.stage = "signalled"
        /\ loop'.mem = AtStage("returned", loop.mem)
    BY <1>1, <1>5 DEF TurnReturns, Loop, Running, RecordInv, LoopRecord
  <2> QED BY <1>0, <1>5, <2>1, FieldsOfSpecs DEF Stage, TurnDeploys, TurnSignals, ProposalSignals,
    TurnReplies, CanReply, Running, Loop
<1>6. CASE TurnReplies(c)
  <2>1. /\ loop.stem = c
        /\ loop.pc = "stage"
        /\ loop.mem = spec[c]
        /\ spec[c].turn.kind = "turn"
        /\ spec[c].turn.stage = "returned"
        /\ loop'.mem = AtStage("replied", loop.mem)
    BY <1>1, <1>6 DEF TurnReplies, CanReply, Loop, Running, RecordInv, LoopRecord
  <2> QED BY <1>0, <1>6, <2>1, FieldsOfSpecs DEF Stage, TurnDeploys, TurnSignals, ProposalSignals,
    TurnReturns, Running, Loop
<1> QED BY <1>2, <1>3, <1>4, <1>5, <1>6

\* A step counts at most one bounded event.
LEMMA OwnSpends ==
  ASSUME NEW c \in Condocs, Own(c)
  PROVE  UNCHANGED used \/ \E e : Spend(e)
<1>3. ASSUME Driver(c) PROVE UNCHANGED used \/ \E e : Spend(e)
  BY <1>3 DEF Driver, VisitTurn, VisitSkip, VisitIdle, DriveNothing, DriveHandoff,
    DriveCompletion, DriveRecover, DriveSync, DriveSyncFails, DriveCommit,
    DriveCommitFails, DriveClose, QueueTurn, QueueTurnFails, workerVars
<1>4. ASSUME TurnLoop(c) PROVE UNCHANGED used \/ \E e : Spend(e)
  BY <1>4 DEF TurnLoop, LoopClaim, LoopSettle, LoopTake, TurnWaits, TurnSyncs,
    TurnDeploys, TurnSignals, TurnReturns, TurnReturnFails, TurnAbandoned,
    TurnReplies, TurnHalfReplies, TurnEnds, TurnEndUnsaved, ProposalSignals,
    ProposalEnds, TurnBlocked, TurnFails, SaveStage, SaveStageFails, workerVars,
    WriteSpecFails
<1>5. ASSUME ForceComplete(c) PROVE UNCHANGED used \/ \E e : Spend(e)
  BY <1>5 DEF ForceComplete, AbandonSignal, AbandonReturn, AbandonWrite,
    AbandonFails, ForceRefused, ForceFinalize, ForceCommit, ForceCommitFails, workerVars
<1>6. ASSUME Human(c) PROVE UNCHANGED used \/ \E e : Spend(e)
  BY <1>6 DEF Human, Directive, Resubmit, RegeneratePRs, ForceNow, ForceDefer
<1> QED BY <1>3, <1>4, <1>5, <1>6 DEF Own

\* The steps of a condoc's own keep the evidence: a stage is recorded only after
\* its signal or its reply is in the files.
LEMMA KeepsEvidence ==
  ASSUME TypeOK, ClaimInv, SignalsKept, NEW c \in Condocs, RecordInv(c), EvidenceInv(c), Own(c)
  PROVE  EvidenceInv(c)'
<1> DEFINE t == spec[c].turn
           u == loop'.mem.turn
<1>0. /\ created \in Nat /\ created' \in Nat /\ t \in PointerTurn /\ loop.mem.turn \in PointerTurn
  BY NextType, WorkSignalsAssumption DEF TypeOK, Own, Next, WorkSignalsTypeOK, PointersTypeOK,
    PointerSpec, MemoryTypeOK, LoopState
<1>1. TurnStep(c) /\ SaveStep(c)
  BY OwnTurnStep
<1>2. ASSUME NEW v, Evidence(c, v), replies[c] > 0 => replies'[c] > 0
      PROVE  Evidence(c, v)'
  BY <1>0, <1>2 DEF Evidence, SignalsKept
<1>3. CASE DriveHandoff(c)
  <2>1. spec' = spec /\ t.kind = "none" /\ drive.stem = c /\ loop' = loop
    BY <1>3, DriveHandoffIdle DEF DriveHandoff
  <2>2. ~Saving(c)
    BY <2>1, DriverAlone DEF Saving
  <2> QED BY <2>1, <2>2 DEF EvidenceInv, Evidence, Saving
<1>4. CASE ~DriveHandoff(c)
  <2>1. replies[c] > 0 => replies'[c] > 0
    BY <1>4, FilesStep DEF Own
  <2>2. Evidence(c, t)'
    <3>1. CASE spec'[c].turn \in {t, loop.mem.turn} /\ (spec'[c].turn # t => Saving(c))
      <4>1. Evidence(c, spec'[c].turn)
        BY <3>1 DEF EvidenceInv
      <4> QED BY <1>2, <2>1, <4>1 DEF Evidence
    <3>2. CASE spec'[c].turn \in {NoTurn, NewTurn("turn"), NewTurn("propose_pr")}
      BY <3>2, RankValues DEF Evidence, NoTurn, NewTurn
    <3> QED BY <1>1, <3>1, <3>2 DEF TurnStep
  <2>3. Saving(c)' => Evidence(c, loop.mem.turn)'
    <3>1. CASE loop' = loop
      BY <1>2, <2>1, <3>1 DEF EvidenceInv, Saving, Evidence
    <3>2. CASE TurnDeploys(c)
      BY <3>2, SavedTurns, RankValues DEF Evidence
    <3>3. CASE TurnSignals(c) \/ ProposalSignals(c)
      <4>1. u.sig = created + 1 /\ u.stage = "signalled"
        BY <3>3, SavedTurns
      <4>2. /\ created' = created + 1 /\ created + 1 \in SignalId
            /\ header'[created + 1].role = c /\ ongoing'[created + 1] = "pending"
        <5>1. Create(c, "slopspace") \/ Create(c, "in-place")
          BY <3>3 DEF TurnSignals, ProposalSignals
        <5>2. created' = created + 1 /\ created + 1 \in SignalId
          BY <1>0, <5>1, WorkSignalsAssumption DEF Create, SignalId
        <5> QED BY <5>1, <5>2 DEF Create, TypeOK, WorkSignalsTypeOK
      <4>3. /\ u.sig \in 1 .. created' /\ header'[u.sig].role = c
            /\ ongoing'[u.sig] # "absent" \/ complete'[u.sig]
        BY <1>0, <4>1, <4>2
      <4> QED BY <4>1, <4>3 DEF Evidence
    <3>4. CASE TurnReturns(c)
      <4>1. /\ t.kind = "turn"
            /\ t.stage = "signalled"
            /\ u.kind = "turn"
            /\ u.stage = "returned"
            /\ u.sig = t.sig
        BY <3>4, SavedTurns
      <4>2. Evidence(c, t) BY DEF EvidenceInv
      <4> QED BY <1>0, <4>1, <4>2, RankValues DEF Evidence, SignalsKept
    <3>5. CASE TurnReplies(c)
      <4>1. /\ t.kind = "turn"
            /\ t.stage = "returned"
            /\ u.kind = "turn"
            /\ u.stage = "replied"
            /\ u.sig = t.sig
        BY <3>5, SavedTurns
      <4>2. Evidence(c, t) BY DEF EvidenceInv
      <4>3. replies'[c] > 0
        BY <3>5 DEF TurnReplies, AppendReply, TypeOK, PointersTypeOK
      <4> QED BY <1>0, <4>1, <4>2, <4>3, RankValues DEF Evidence, SignalsKept
    <3> QED BY <1>1, <3>1, <3>2, <3>3, <3>4, <3>5 DEF SaveStep
  <2> QED BY <2>2, <2>3 DEF EvidenceInv, Saving
<1> QED BY <1>3, <1>4

\* They keep idle slopspaces home: the turn is not over before its slopspace is
\* back, and a force complete finalizes only a condoc whose tree is home.
LEMMA KeepsHome ==
  ASSUME TypeOK, ClaimInv, NEW c \in Condocs, RecordInv(c), HomeInv(c), Own(c)
  PROVE  HomeInv(c)'
<1> DEFINE t == spec[c].turn
           u == loop'.mem.turn
<1> USE DEF TypeOK, SlopspacesTypeOK
<1>0. c \in Slopspace BY DEF Slopspace
<1>1. TurnStep(c) /\ SaveStep(c) /\ SlopStep(c)
  BY OwnTurnStep
<1>2. CASE TurnDeploys(c)
  <2>1. /\ t.kind = "turn" /\ t.stage = "queued" /\ u.kind = "turn" /\ u.stage = "deployed"
        /\ spec' = spec
        /\ forcing' = forcing /\ loop.stem = c /\ loop.pc = "deploy"
    BY <1>2, SavedTurns DEF TurnDeploys, pointerVars
  <2>2. forcing[c].pc = "idle" BY <2>1, LoopAlone
  <2> QED BY <2>1, <2>2 DEF HomeInv, OverOrIdle
<1>3. CASE ~TurnDeploys(c)
  <2>1. AtHome(c) => AtHome(c)'
    <3>1. CASE AbandonReturn(c) \/ AbandonFails(c)
      BY <1>0, <3>1 DEF AbandonReturn, AbandonFails, ReturnFails, AtHome, slopspaceVars
    <3>2. CASE TurnReturns(c) \/ TurnReturnFails(c)
      BY <1>0, <3>2 DEF TurnReturns, TurnReturnFails, ReturnFails, AtHome, slopspaceVars
    <3> QED BY <1>1, <1>3, <3>1, <3>2 DEF SlopStep, AtHome
  <2>2. OverOrIdle(spec'[c].turn) => AtHome(c)
    BY <1>1 DEF TurnStep, HomeInv, OverOrIdle, NewTurn, Forcing
  <2>3. Saving(c)' /\ OverOrIdle(u) => AtHome(c)
    <3>1. CASE loop' = loop
      BY <3>1 DEF HomeInv, Saving
    <3>2. CASE TurnSignals(c) \/ TurnReturns(c)
      BY <3>2, SavedTurns DEF OverOrIdle
    <3>3. CASE ProposalSignals(c)
      BY <3>3, SavedTurns DEF HomeInv, OverOrIdle
    <3>4. CASE TurnReplies(c)
      BY <3>4 DEF TurnReplies, CanReply, HasTree, AtHome
    <3> QED BY <1>1, <1>3, <3>1, <3>2, <3>3, <3>4 DEF SaveStep
  <2>4. forcing'[c].pc = "commit" => AtHome(c)
    BY <1>1 DEF SlopStep, HomeInv, ForceFinalize, HasTree, AtHome
  <2> QED BY <2>1, <2>2, <2>3, <2>4 DEF HomeInv, Saving
<1> QED BY <1>2, <1>3

\* They keep slopspaces where their stage has them: the deploy comes before the
\* stage that stands for it, and so does the return.
LEMMA KeepsLocates ==
  ASSUME TypeOK, ClaimInv, SignalsKept, NEW c \in Condocs, RecordInv(c), EvidenceInv(c),
         LocatesInv(c), Own(c)
  PROVE  LocatesInv(c)'
<1> DEFINE t == spec[c].turn
           u == loop'.mem.turn
<1> USE DEF TypeOK, SlopspacesTypeOK
<1> SUFFICES ASSUME used'["force"] = 0 PROVE /\ forcing'[c].pc = "idle" /\ ~force'[c]
        /\ Locates(c, spec[c].turn)' /\ (Saving(c) => Locates(c, loop.mem.turn))'
  BY DEF LocatesInv
<1>0. c \in Slopspace BY DEF Slopspace
<1>1. TurnStep(c) /\ SaveStep(c) /\ SlopStep(c)
  BY OwnTurnStep
<1>2. used["force"] = 0 /\ ~ForceNow(c) /\ ~ForceDefer(c)
  <2>1. \A e : Spend(e) => used["force"] = 0 /\ (e = "force" => FALSE)
    BY DEF Spend, WorkerTypeOK, BoundedEvent
  <2>2. UNCHANGED used \/ \E e : Spend(e)
    BY OwnSpends
  <2> QED BY <2>1, <2>2 DEF ForceNow, ForceDefer
<1>3. forcing[c].pc = "idle" /\ ~force[c] /\ ~ForceComplete(c)
  BY <1>2, ForceSteps DEF LocatesInv, ForceStep
<1>4. forcing'[c].pc = "idle" /\ ~force'[c]
  BY <1>1, <1>2, <1>3 DEF SlopStep
<1>5. /\ \A i \in 1 .. created : complete[i] => complete'[i]
      /\ t.kind = "turn" /\ t.stage = "signalled" => t.sig \in 1 .. created
      /\ Saving(c) /\ loop.mem.turn.kind = "turn" /\ loop.mem.turn.stage = "signalled" =>
           loop.mem.turn.sig \in 1 .. created
  BY RankValues DEF SignalsKept, EvidenceInv, Evidence
<1>6. CASE TurnDeploys(c)
  <2>1. deployed'[c]
    BY <1>0, <1>6 DEF TurnDeploys, Deploy, slopspaceVars
  <2>2. /\ t.kind = "turn"
        /\ t.stage = "queued"
        /\ u.kind = "turn"
        /\ u.stage = "deployed"
        /\ spec' = spec
    BY <1>6, SavedTurns DEF TurnDeploys, pointerVars
  <2> QED BY <1>4, <2>1, <2>2 DEF Locates
<1>7. CASE TurnReturns(c) \/ TurnReturnFails(c)
  <2>1. /\ t.kind = "turn"
        /\ t.stage = "signalled"
        /\ complete[t.sig]
        /\ replyFile'[c]
        /\ spec' = spec
    BY <1>7 DEF TurnReturns, TurnReturnFails, Running, Loop, RecordInv, LoopRecord, PointersTypeOK
  <2>2. Locates(c, t)'
    BY <1>5, <2>1 DEF Locates
  <2>3. CASE TurnReturns(c)
    <3>1. ~deployed'[c]
      BY <1>0, <2>3 DEF TurnReturns, Return, slopspaceVars
    <3> QED BY <1>4, <2>1, <2>2, <2>3, <3>1, SavedTurns DEF Locates
  <2>4. CASE TurnReturnFails(c)
    <3>1. loop'.pc # "save"
      BY <2>4 DEF TurnReturnFails, End, MemoryTypeOK, LoopState
    <3> QED BY <1>4, <2>2, <3>1 DEF Saving
  <2> QED BY <1>7, <2>3, <2>4
<1>8. CASE TurnEnds(c) \/ TurnEndUnsaved(c)
  <2>1. t.kind = "turn" /\ t.stage = "replied" /\ loop.stem = c /\ loop.pc = "stage"
    BY <1>8 DEF TurnEnds, TurnEndUnsaved, Running, Loop, RecordInv, LoopRecord
  <2>2. loop'.pc # "save"
    BY <1>8 DEF TurnEnds, TurnEndUnsaved, End, MemoryTypeOK, LoopState
  <2>3. Locates(c, t)'
    BY <1>1, <2>1 DEF TurnStep, Saving, Locates, NoTurn, NewTurn
  <2> QED BY <1>4, <2>2, <2>3 DEF Saving
<1>9. CASE ~(\/ TurnDeploys(c) \/ TurnReturns(c) \/ TurnReturnFails(c)
             \/ TurnEnds(c) \/ TurnEndUnsaved(c))
  <2>1. deployed'[c] = deployed[c] /\ replyFile'[c] = replyFile[c]
    BY <1>1, <1>3, <1>9 DEF SlopStep, ForceComplete
  <2>2. Locates(c, spec[c].turn)'
    BY <1>1, <1>2, <1>5, <2>1 DEF TurnStep, LocatesInv, Locates, NoTurn, NewTurn
  <2>3. Saving(c)' => Locates(c, loop.mem.turn)'
    <3>1. CASE loop' = loop
      BY <1>2, <1>5, <2>1, <3>1 DEF LocatesInv, Locates, Saving
    <3>2. CASE TurnSignals(c)
      BY <2>1, <3>2, SavedTurns DEF TurnSignals, Locates
    <3>3. CASE ProposalSignals(c) \/ TurnReplies(c)
      BY <3>3, SavedTurns DEF Locates
    <3> QED BY <1>1, <1>9, <3>1, <3>2, <3>3 DEF SaveStep
  <2> QED BY <1>4, <2>2, <2>3 DEF Saving
<1> QED BY <1>6, <1>7, <1>8, <1>9

\* The inductive invariant.
TurnInv == \A c \in Condocs :
             RecordInv(c) /\ PromptInv(c) /\ EvidenceInv(c) /\ HomeInv(c) /\ LocatesInv(c)

\* It holds at the start.
LEMMA TurnInit == ASSUME Init PROVE TurnInv
<1> SUFFICES ASSUME NEW c \in Condocs
             PROVE  PromptInv(c) /\ EvidenceInv(c) /\ HomeInv(c) /\ LocatesInv(c)
  BY RecordInit DEF TurnInv
<1>1. /\ spec[c] = NoSpec /\ doc[c] = "awaiting" /\ forcing[c] = NotForcing /\ ~force[c]
      /\ ~Saving(c) /\ ~deployed[c] /\ homeTree[c] = c
  BY PartiesAssumption DEF Init, MemoryInit, WorkerInit, SlopspacesInit, Slopspace, Saving, LoopIdle
<1> QED BY <1>1 DEF PromptInv, Proposing, UncommittedPrompt, EvidenceInv, Evidence, HomeInv,
  AtHome, LocatesInv, Locates,
  NoSpec, NoTurn, NewTurn, NotForcing

\* A Force Complete that was asked for stays asked for.
LEMMA UsedGrows ==
  ASSUME WorkerTypeOK, [Next]_vars, used'["force"] = 0 PROVE used["force"] = 0
<1>1. ASSUME NEW e, Spend(e) PROVE used["force"] = 0
  BY <1>1 DEF Spend, WorkerTypeOK, BoundedEvent
<1>2. CASE UNCHANGED used BY <1>2
<1>3. CASE WorkerNext
  BY <1>1, <1>2, <1>3 DEF WorkerNext, WorkerRuns, Find, Take, TakeGone, Locate, DeployOwn,
    AgentExits, ReturnOwn, Finish, WorkerCrash
<1> QED BY <1>1, <1>2, <1>3, OwnSpends DEF Next, Own, TickRead, Crash, vars, workerVars

\* A step that is not c's keeps the four other parts of c's as well.
LEMMA KeptTurn ==
  ASSUME TypeOK, SignalsKept, [Next]_vars, NEW c \in Condocs, Keeps(c),
         PromptInv(c), EvidenceInv(c), HomeInv(c), LocatesInv(c)
  PROVE  (PromptInv(c) /\ EvidenceInv(c) /\ HomeInv(c) /\ LocatesInv(c))'
<1>0. created \in Nat /\ created' \in Nat
  BY NextType DEF TypeOK, WorkSignalsTypeOK
<1>1. spec'[c] = spec[c] /\ (loop.stem = c \/ loop'.stem = c => loop' = loop)
  BY DEF Keeps
<1>2. PromptInv(c)'
  BY DEF Keeps, PromptInv, Proposing, UncommittedPrompt
<1>3. \A v : Evidence(c, v) => Evidence(c, v)'
  BY <1>0 DEF Keeps, Evidence, SignalsKept
<1>4. EvidenceInv(c)'
  BY <1>1, <1>3 DEF EvidenceInv, Saving, Evidence
<1>5. HomeInv(c)'
  BY <1>1 DEF Keeps, HomeInv, AtHome, Saving
<1>6. \A v : Evidence(c, v) /\ Locates(c, v) => Locates(c, v)'
  BY RankValues DEF Keeps, Evidence, Locates, SignalsKept
<1>7. LocatesInv(c)'
  <2>1. used'["force"] = 0 => used["force"] = 0
    BY UsedGrows DEF TypeOK
  <2> QED BY <1>1, <1>6, <2>1 DEF LocatesInv, EvidenceInv, Saving, Keeps, Locates
<1> QED BY <1>2, <1>4, <1>5, <1>7

\* Every step keeps all parts.
LEMMA TurnNext ==
  ASSUME TypeOK, ClaimInv, TurnInv, [Next]_vars PROVE TurnInv'
<1> SUFFICES ASSUME NEW c \in Condocs
             PROVE  (RecordInv(c) /\ PromptInv(c) /\ EvidenceInv(c) /\ HomeInv(c) /\ LocatesInv(c))'
  BY DEF TurnInv
<1>1. RecordInv(c) /\ PromptInv(c) /\ EvidenceInv(c) /\ HomeInv(c) /\ LocatesInv(c)
  BY DEF TurnInv
<1>2. SignalsKept BY SignalsStay
<1>3. RecordInv(c)' /\ PromptInv(c)'
  BY <1>1, RecordNext, PromptNext
<1>4. ASSUME Keeps(c) PROVE (EvidenceInv(c) /\ HomeInv(c) /\ LocatesInv(c))'
  BY <1>1, <1>2, <1>4, KeptTurn
<1>5. ASSUME NEW d \in Condocs, Own(d) PROVE (EvidenceInv(c) /\ HomeInv(c) /\ LocatesInv(c))'
  <2>1. CASE d # c
    BY <1>4, <1>5, <2>1, OthersKeep DEF Own
  <2>2. CASE d = c
    BY <1>1, <1>2, <1>5, <2>2, KeepsEvidence, KeepsHome, KeepsLocates
  <2> QED BY <2>1, <2>2
<1>6. CASE TickRead
  <2>1. /\ UNCHANGED <<spec, doc, dirty, replies, replyFile, loop, force, forcing, used, deployed,
                       homeTree, header, ongoing, complete, created>>
    BY <1>6 DEF TickRead, workerVars, pointerVars, slopspaceVars, signalVars
  <2> QED BY <1>1, <1>3, <2>1 DEF EvidenceInv, Evidence, HomeInv, AtHome, LocatesInv, Locates,
    Saving
<1>7. CASE Crash
  <2>1. /\ UNCHANGED <<spec, doc, dirty, replies, replyFile, deployed, homeTree, header, ongoing,
                       complete, created>>
        /\ ~Saving(c)' /\ forcing'[c].pc = "idle" /\ ~force'[c]
    BY <1>7, PartiesAssumption DEF Crash, workerVars, pointerVars, slopspaceVars, signalVars,
      LoopIdle, NotForcing, Saving
  <2>2. used'["force"] = 0 => used["force"] = 0
    BY UsedGrows DEF TypeOK
  <2> QED BY <1>1, <1>3, <2>1, <2>2 DEF EvidenceInv, Evidence, HomeInv, AtHome, LocatesInv,
    Locates, Saving
<1>8. CASE WorkerNext
  BY <1>3, <1>4, <1>8, WorkersKeep
<1>9. CASE UNCHANGED vars
  <2>1. Keeps(c) BY <1>9 DEF vars, workerVars, slopspaceVars, pointerVars, memoryVars, Keeps
  <2> QED BY <1>3, <1>4, <2>1

<1> QED BY <1>3, <1>5, <1>6, <1>7, <1>8, <1>9 DEF Next, Own

\* TurnInv holds throughout: each copy of a pointer in condoccer's memory is one
\* that can be written, whatever happened since it was read.
THEOREM TurnInvariant == Spec => []TurnInv
<1>1. Init => TurnInv BY TurnInit
<1>2. TypeOK /\ ClaimInv /\ TurnInv /\ [Next]_vars => TurnInv' BY TurnNext
<1> QED BY <1>1, <1>2, Typing, ClaimsInvariant, PTL DEF Spec

\* The pointer never gets ahead of the files.
THEOREM TurnsHaveEvidence == Spec => []TurnEvidence
<1>1. TurnInv => TurnEvidence
  BY DEF TurnInv, EvidenceInv, Evidence, TurnEvidence
<1> QED BY <1>1, TurnInvariant, PTL

\* A prompt is committed before there is a turn for it.
THEOREM PromptsAreCommitted == Spec => []PromptCommitted
<1>1. TypeOK /\ TurnInv => PromptCommitted
  BY DEF TypeOK, PointersTypeOK, TurnInv, PromptInv, UncommittedPrompt, PromptCommitted
<1> QED BY <1>1, Typing, TurnInvariant, PTL

\* A condoc without a turn, or proposing its PRs, is home with its own tree.
THEOREM IdleCondocsHaveTheirTree == Spec => []IdleHasItsTree
<1>1. TurnInv => IdleHasItsTree
  BY DEF TurnInv, HomeInv, OverOrIdle, AtHome, IdleHasItsTree
<1> QED BY <1>1, TurnInvariant, PTL

\* Nobody asked for a Force Complete.
NeverForced == used["force"] = 0

\* Until then, where a turn's slopspace is follows from the stage on the pointer.
\* (Forces = 0 in the run that checks StageLocatesSlopspace says the same.)
THEOREM StagesLocateSlopspaces == Spec => [](NeverForced => StageLocatesSlopspace)
<1>1. TurnInv => (NeverForced => StageLocatesSlopspace)
  BY DEF TurnInv, LocatesInv, Locates, StageLocatesSlopspace, NeverForced
<1> QED BY <1>1, TurnInvariant, PTL

\* Between prompt and reply a turn's record only moves forward.
THEOREM TurnsMoveForward == Spec => TurnMovesForward
<1>1. TypeOK /\ ClaimInv /\ TurnInv /\ [Next]_vars => [MovesForward]_vars
  BY MovesForwardStep DEF TurnInv
<1>2. Spec => [][MovesForward]_vars
  BY <1>1, Typing, ClaimsInvariant, TurnInvariant, PTL DEF Spec
<1> QED BY <1>2 DEF TurnMovesForward, MovesForward

\* A completed condoc stays completed and gets no further reply.
THEOREM CompletedStays == Spec => CompletedForGood
<1>1. ASSUME TypeOK, [Next]_vars PROVE [StaysCompleted]_vars
  <2>1. ASSUME UNCHANGED pointerVars PROVE StaysCompleted
    BY <2>1 DEF pointerVars, StaysCompleted
  <2>2. ASSUME NEW c \in Condocs, Driver(c) \/ TurnLoop(c) \/ ForceComplete(c) \/ Human(c)
        PROVE  StaysCompleted
    BY <1>1, <2>2, DriverStaysCompleted, TurnLoopStaysCompleted, ForceStaysCompleted,
      HumanStaysCompleted DEF TypeOK
  <2>3. CASE TickRead \/ Crash \/ WorkerNext
    BY <2>1, <2>3 DEF TickRead, Crash, WorkerNext
  <2> QED  BY <1>1, <2>2, <2>3 DEF Next
<1>2. TypeOK /\ [Next]_vars => [StaysCompleted]_vars  BY <1>1
<1> QED BY <1>2, Typing, PTL DEF Spec, CompletedForGood, StaysCompleted

-----------------------------------------------------------------------------
(***************************************************************************)
(* With one worker, and as long as no Force Complete was asked for, one    *)
(* slopspace is deployed at a time, no working tree is lost or put into    *)
(* another's slopspace, and an agent has the tree of the condoc whose      *)
(* signal it works on: for every number of condocs and signals, and across *)
(* failed operations and crashes of condoccer and of the worker.           *)
(*                                                                         *)
(* Both hypotheses are needed.  A Force Complete returns the slopspace of  *)
(* a turn whose agent is still at work, and with two workers each can look *)
(* at the deploy path before the other deploys.  Nothing here is ensured   *)
(* by one process: that the deploy path is the turn's own as long as its   *)
(* signal is live rests on the turn loop, which looks at the path, deploys *)
(* and signals one turn at a time, on the order in which signals are taken *)
(* and on a complete signal being older than any live one of its condoc.   *)
(***************************************************************************)
\* There is at most one worker.
OneWorker == \A v, w \in Workers : v = w

\* A worker has signal i in hand.
Held(i) == \E w \in Workers : worker[w].pc # "idle" /\ worker[w].sig = i

\* An agent may be at work on signal i, or get to be.
Live(i) == i \in 1 .. created /\ (ongoing[i] = "pending" \/ Held(i))

\* Nothing is left of signals that do not exist.
FreshInv == \A i \in SignalId :
    i > created => ongoing[i] = "absent" /\ ~complete[i] /\ i \notin unreadable

\* A worker at work holds a signal that it found or took, the oldest of its
\* condoc, and has deployed nothing of its own.
HoldInv == \A w \in Workers :
   worker[w].pc # "idle" =>
     /\ worker[w].pc \in {"found","taken","running","ran"} /\ ~worker[w].own
     /\ worker[w].sig \in 1 .. created
     /\ ongoing[worker[w].sig] = (IF worker[w].pc = "found" THEN "pending" ELSE "processing")
     /\ \A j \in 1 .. created :
           ongoing[j] = "pending" /\ header[j].role = header[worker[w].sig].role =>
             worker[w].sig <= j

\* Every signal is a condoc's; a live one is not complete, and every complete
\* one of its condoc is older.
QueuedInv == \A i \in 1 .. created :
   /\ header[i].role \in Condocs
   /\ ongoing[i] = "pending" => i \notin unreadable
   /\ Live(i) => /\ ~complete[i]
                 /\ \A j \in 1 .. created : complete[j] /\ header[j].role = header[i].role => j < i

\* A live signal to work in the slopspace of c belongs to the turn of c, which
\* has that slopspace deployed; it is the signal the turn has recorded, or one
\* that it created without getting to record it.
WorkInv(c) == 
   \A i \in 1 .. created : Live(i) /\ header[i].work = "slopspace" /\ header[i].role = c =>
        /\ spec[c].turn.kind = "turn"
        /\ spec[c].turn.stage \in {"deployed", "signalled"}
        /\ deployed[c]
        /\ spec[c].turn.stage = "signalled" => i <= spec[c].turn.sig

\* What the turn loop has to record as signalled has the newest signal.
SaveSig == loop.pc = "save" /\ loop.mem.turn.stage = "signalled" /\ loop.mem.turn.kind = "turn" =>
             loop.mem.turn.sig = created

\* The deploy path has the slopspace its marker names, a condoc's, with that
\* condoc's tree, and every other tree is home; and between looking at the path
\* and deploying, nobody else deploys.
PathInv ==
   /\ \A w \in Workers : ~deployed[w]
   /\ loop.pc = "deploy" => marker \in {None, loop.stem}
   /\ marker = None => pathTree = None /\ \A c \in Condocs : AtHome(c)
   /\ marker # None => /\ marker \in Condocs /\ deployed[marker] /\ pathTree = marker
                       /\ \A c \in Condocs \ {marker} : AtHome(c)

\* The inductive invariant.
TreeInv == FreshInv /\ HoldInv /\ QueuedInv /\ (\A c \in Condocs : WorkInv(c)) /\ SaveSig /\ PathInv

\* Nobody carries out a force complete that nobody asked for.
LEMMA NotForced ==
  ASSUME TurnInv, used["force"] = 0, NEW c \in Condocs
  PROVE  ~ForceComplete(c)
  BY ForceSteps DEF TurnInv, LocatesInv, ForceStep

\* TreeInv holds at the start.
LEMMA TreeInit == ASSUME Init PROVE TreeInv
<1>1. created = 0 /\ \A i \in SignalId : ongoing[i] = "absent" /\ ~complete[i] /\ unreadable = {}
  BY DEF Init, WorkerInit, WorkSignalsInit
<1>2. \A w \in Workers : worker[w].pc = "idle"
  BY DEF Init, WorkerInit, Idle
<1>3. loop.pc = "idle" BY DEF Init, MemoryInit, LoopIdle
<1>4. /\ marker = None
      /\ pathTree = None
      /\ (\A c \in Condocs : AtHome(c))
      /\ \A w \in Workers : ~deployed[w]
  BY PartiesAssumption DEF Init, WorkerInit, SlopspacesInit, Slopspace, AtHome
<1> QED BY <1>1, <1>2, <1>3, <1>4 DEF TreeInv, FreshInv, HoldInv, QueuedInv, WorkInv, SaveSig,
  PathInv

-----------------------------------------------------------------------------
(* A worker's steps.                                                       *)

\* A worker finds a slopspace deployed for every signal it takes, and so leaves
\* the deploy path alone; it completes the oldest signal of its condoc.
LEMMA WorkerKeepsTrees ==
  ASSUME TypeOK, OneWorker, TreeInv, WorkerNext
  PROVE  TreeInv'
<1> USE DEF TypeOK, WorkSignalsTypeOK, WorkerTypeOK
<1> PICK w \in Workers : WorkerRuns(w) \/ WorkerCrash(w)
  BY DEF WorkerNext
<1> DEFINE i == worker[w].sig
<1>1. \A v \in Workers : v = w BY DEF OneWorker
<1>2. UNCHANGED <<spec, loop>> BY DEF WorkerNext, pointerVars, memoryVars
<1>3. worker[w].pc # "idle" =>
     /\ worker[w].pc \in {"found","taken","running","ran"} /\ ~worker[w].own
     /\ i \in 1 .. created /\ i \in SignalId
     /\ ongoing[i] = (IF worker[w].pc = "found" THEN "pending" ELSE "processing")
     /\ Live(i)
     /\ header[i].work = "slopspace" => marker # None
  <2> SUFFICES ASSUME worker[w].pc # "idle"
      PROVE /\ worker[w].pc \in {"found","taken","running","ran"} /\ ~worker[w].own
            /\ i \in 1 .. created /\ i \in SignalId
            /\ ongoing[i] = (IF worker[w].pc = "found" THEN "pending" ELSE "processing")
            /\ Live(i)
            /\ header[i].work = "slopspace" => marker # None
    OBVIOUS
  <2>1. /\ worker[w].pc \in {"found","taken","running","ran"} /\ ~worker[w].own
     /\ i \in 1 .. created 
     /\ ongoing[i] = (IF worker[w].pc = "found" THEN "pending" ELSE "processing")
    BY DEF TreeInv, HoldInv
  <2>2. i \in SignalId BY <2>1, WorkSignalsAssumption DEF SignalId
  <2>3. Live(i) BY <2>1 DEF Live, Held
  <2>4. header[i].role \in Condocs BY <2>1 DEF TreeInv, QueuedInv
  <2>5. header[i].work = "slopspace" => deployed[header[i].role]
    BY <2>1, <2>3, <2>4 DEF TreeInv, WorkInv
  <2>6. header[i].work = "slopspace" => marker # None
    BY <2>4, <2>5 DEF TreeInv, PathInv, AtHome
  <2> QED BY <2>1, <2>2, <2>3, <2>6
<1>4. UNCHANGED slopspaceVars
  BY <1>3 DEF WorkerRuns, Find, Take, TakeGone, Locate, DeployOwn, AgentExits, ReturnOwn, Finish,
    WorkerCrash, At
<1>5. PathInv' /\ UNCHANGED <<deployed, marker, homeTree, pathTree>>
  BY <1>2, <1>4 DEF TreeInv, PathInv, AtHome, slopspaceVars
<1>6. UNCHANGED <<created, header>>
  BY DEF WorkerRuns, Find, Take, TakeGone, Locate, DeployOwn, AgentExits, ReturnOwn, Finish,
    WorkerCrash, signalVars,
    TakeOwnership, AppendTooLong, Complete
<1>7. SaveSig' BY <1>2, <1>6 DEF TreeInv, SaveSig
<1>8. ASSUME FreshInv', HoldInv', 
             \A j \in 1 .. created :
                /\ ongoing'[j] = "pending" =>
                      ongoing[j] = "pending" /\ (j \in unreadable' => j \in unreadable)
                /\ Held(j)' => Live(j)
                /\ complete'[j] =>
                      \/ complete[j]
                      \/ /\ j = i /\ Live(j) /\ ~Held(j)'
                         /\ ongoing'[j] = "absent" /\ worker[w].pc # "idle"
      PROVE TreeInv'
  <2>1. \A j \in 1 .. created : Live(j)' => Live(j)
    BY <1>6, <1>8 DEF Live
  <2>2. \A c \in Condocs : WorkInv(c)'
    BY <1>2, <1>5, <1>6, <2>1 DEF TreeInv, WorkInv
  <2>3. \A j, k \in 1 .. created :
          Live(j)' /\ complete'[k] /\ header[k].role = header[j].role => k < j
    <3> SUFFICES ASSUME NEW j \in 1 .. created, NEW k \in 1 .. created, Live(j)', complete'[k],
                        header[k].role = header[j].role
        PROVE k < j
      OBVIOUS
    <3>1. Live(j) BY <2>1
    <3>2. CASE complete[k]
      BY <3>1, <3>2 DEF TreeInv, QueuedInv
    <3>3. CASE k = i /\ Live(k) /\ ~Held(k)' /\ ongoing'[k] = "absent" /\ worker[w].pc # "idle"
      <4>1. k = i /\ j # k BY <3>3 DEF Live
      <4>2. ongoing[j] = "pending"
        BY <1>1, <3>1, <4>1 DEF Live, Held
      <4>3. k <= j BY <3>3, <4>1, <4>2 DEF TreeInv, HoldInv
      <4> QED BY <4>1, <4>3
    <3> QED BY <1>8, <3>2, <3>3
  <2>4. \A j \in 1 .. created : Live(j)' => ~complete'[j]
    BY <2>3
  <2>5. QueuedInv'
    BY <1>6, <1>8, <2>3, <2>4 DEF TreeInv, QueuedInv
  <2> QED BY <1>5, <1>7, <1>8, <2>2, <2>5 DEF TreeInv
<1>9. CASE Find(w)
  <2>1. PICK k \in FirstPending :
          worker' = [worker EXCEPT ![w] = [Idle EXCEPT !.pc = "found", !.sig = k]]
    BY <1>9 DEF Find, Step
  <2>2. UNCHANGED <<ongoing, complete, unreadable>>
    BY <1>9 DEF Find, signalVars
  <2>3. worker'[w].pc = "found" /\ ~worker'[w].own /\ worker'[w].sig = k
    BY <2>1 DEF Idle
  <2>4. k \in 1 .. created /\ ongoing[k] = "pending"
        /\ \A j \in 1 .. created :
             ongoing[j] = "pending" /\ header[j].role = header[k].role => k <= j
    BY DEF FirstPending, Pending, Readable, TreeInv, QueuedInv
  <2>5. HoldInv' BY <1>1, <1>6, <2>2, <2>3, <2>4 DEF HoldInv
  <2>6. FreshInv' BY <1>6, <2>2 DEF TreeInv, FreshInv
  <2>7. \A j \in 1 .. created : Held(j)' => Live(j)
    BY <1>1, <2>3, <2>4 DEF Held, Live
  <2> QED BY <1>8, <2>2, <2>5, <2>6, <2>7
<1>10. CASE Take(w)
  <2>1. /\ worker[w].pc = "found"
        /\ worker'[w].pc = "taken"
        /\ worker'[w].sig = i
        /\ worker'[w].own = worker[w].own
    BY <1>10 DEF Take, At, Step, WorkerState
  <2>2. /\ UNCHANGED <<complete, unreadable>> /\ ongoing' = [ongoing EXCEPT ![i] = "processing"]
    BY <1>10 DEF Take, TakeOwnership
  <2>3. HoldInv' BY <1>1, <1>3, <1>6, <2>1, <2>2 DEF TreeInv, HoldInv, SignalId
  <2>4. FreshInv' BY <1>3, <1>6, <2>1, <2>2 DEF TreeInv, FreshInv
  <2>5. \A j \in 1 .. created : Held(j)' => Live(j)
    BY <1>1, <1>3, <2>1 DEF Held
  <2>6. \A j \in SignalId : ongoing'[j] = "pending" => ongoing[j] = "pending"
    BY <2>2
  <2>7. 1 .. created \subseteq SignalId BY WorkSignalsAssumption DEF SignalId
  <2> QED BY <1>8, <2>2, <2>3, <2>4, <2>5, <2>6, <2>7
<1>11. CASE TakeGone(w) \/ WorkerCrash(w)
  <2>1. worker'[w].pc = "idle" /\ UNCHANGED <<ongoing, complete, unreadable>>
    BY <1>11 DEF TakeGone, WorkerCrash, Step, Idle, signalVars
  <2>2. HoldInv' BY <1>1, <2>1 DEF HoldInv
  <2>3. FreshInv' BY <1>6, <2>1 DEF TreeInv, FreshInv
  <2>4. \A j \in 1 .. created : ~Held(j)' BY <1>1, <2>1 DEF Held
  <2> QED BY <1>8, <2>1, <2>2, <2>3, <2>4
<1>12. CASE Locate(w) \/ (AgentExits(w) /\ UNCHANGED signalVars)
  <2>1. UNCHANGED <<ongoing, complete, unreadable>>
    BY <1>12 DEF Locate, AgentExits, signalVars
  <2>2. /\ worker[w].pc \in {"taken", "running"}
        /\ worker'[w].pc \in {"running", "ran"}
        /\ worker'[w].sig = i
        /\ worker'[w].own = worker[w].own
    BY <1>3, <1>12 DEF Locate, AgentExits, At, Step, WorkerState, WorkType
  <2>3. HoldInv' BY <1>1, <1>3, <1>6, <2>1, <2>2 DEF TreeInv, HoldInv
  <2>4. FreshInv' BY <1>6, <2>1 DEF TreeInv, FreshInv
  <2>5. \A j \in 1 .. created : Held(j)' => Live(j)
    BY <1>1, <1>3, <2>2 DEF Held
  <2> QED BY <1>8, <2>1, <2>3, <2>4, <2>5
<1>13. CASE AgentExits(w) /\ AppendTooLong(i)
  <2>1. /\ UNCHANGED <<ongoing, complete>>
        /\ unreadable' = unreadable \cup {j \in SignalId : j = i /\ ongoing[j] # "absent"}
    BY <1>13 DEF AppendTooLong
  <2>2. /\ worker[w].pc = "running"
        /\ worker'[w].pc = "ran"
        /\ worker'[w].sig = i
        /\ worker'[w].own = worker[w].own
    BY <1>3, <1>13 DEF AgentExits, At, Step, WorkerState
  <2>3. HoldInv' BY <1>1, <1>3, <1>6, <2>1, <2>2 DEF TreeInv, HoldInv
  <2>4. FreshInv' BY <1>3, <1>6, <2>1, <2>2 DEF TreeInv, FreshInv
  <2>5. \A j \in 1 .. created : Held(j)' => Live(j)
    BY <1>1, <1>3, <2>2 DEF Held
  <2>6. ongoing[i] = "processing" BY <1>3, <2>2
  <2> QED BY <1>8, <2>1, <2>3, <2>4, <2>5, <2>6
<1>14. CASE Finish(w)
  <2>1. worker[w].pc = "ran" /\ worker'[w].pc = "idle"
    BY <1>14 DEF Finish, At, Step, Idle
  <2>2. HoldInv' BY <1>1, <2>1 DEF HoldInv
  <2>3. \A j \in 1 .. created : ~Held(j)' BY <1>1, <2>1 DEF Held
  <2>4. CASE UNCHANGED signalVars
    <3>1. FreshInv' BY <1>6, <2>4 DEF TreeInv, FreshInv, signalVars
    <3> QED BY <1>8, <2>2, <2>3, <2>4, <3>1 DEF signalVars
  <2>5. CASE Complete(i)
    <3>1. /\ complete' = [complete EXCEPT ![i] = TRUE]
          /\ ongoing' = [ongoing EXCEPT ![i] = "absent"]
          /\ UNCHANGED unreadable
      BY <2>5 DEF Complete
    <3>2. FreshInv' BY <1>3, <1>6, <2>1, <3>1 DEF TreeInv, FreshInv
    <3>3. \A j \in SignalId : /\ ongoing'[j] = "pending" => ongoing[j] = "pending"
                              /\ complete'[j] => complete[j] \/ (j = i /\ ongoing'[j] = "absent")
      BY <3>1
    <3>4. 1 .. created \subseteq SignalId BY WorkSignalsAssumption DEF SignalId
    <3>6. worker[w].pc # "idle" /\ Live(i) BY <1>3, <2>1
    <3>7. \A j \in 1 .. created : Held(j)' => Live(j) BY <2>3
    <3>8. \A j \in 1 .. created :
             /\ ongoing'[j] = "pending" => ongoing[j] = "pending"
             /\ complete'[j] => complete[j] \/ (j = i /\ ongoing'[j] = "absent")
      BY <3>3, <3>4
    <3>9. \A j \in 1 .. created : complete'[j] =>
             \/ complete[j]
             \/ j = i /\ Live(j) /\ ~Held(j)' /\ ongoing'[j] = "absent" /\ worker[w].pc # "idle"
      BY <2>3, <3>6, <3>8
    <3> HIDE DEF i
    <3> QED BY <1>8, <2>2, <3>1, <3>2, <3>7, <3>8, <3>9
  <2> QED BY <1>14, <2>4, <2>5 DEF Finish
<1> QED
  BY <1>3, <1>9, <1>10, <1>11, <1>12, <1>13, <1>14 DEF WorkerRuns, DeployOwn, ReturnOwn, At,
    AgentExits

-----------------------------------------------------------------------------
(* The steps of a condoc's own.                                            *)

\* The loop gets to a stage to save by carrying one out, and to deploying by
\* looking at the deploy path.
LEMMA LoopMoves ==
  ASSUME TypeOK, ClaimInv, NEW c \in Condocs, Own(c), ~ForceComplete(c)
  PROVE  \/ loop' = loop
         \/ loop'.pc \notin {"save", "deploy"}
         \/ TurnSyncs(c) \/ TurnDeploys(c) \/ TurnSignals(c) \/ TurnReturns(c)
         \/ TurnReplies(c) \/ ProposalSignals(c)
<1> USE DEF TypeOK, MemoryTypeOK
<1>1. CASE TurnLoop(c)
  <2>1. CASE LoopClaim(c) \/ LoopTake(c)
    BY <2>1 DEF LoopClaim, LoopTake, LoopIdle, LoopState
  <2>2. CASE LoopSettle(c) \/ SaveStage(c)
    BY <2>2 DEF LoopSettle, SaveStage, LoopState
  <2>3. ASSUME NEW e, End(e) PROVE loop'.pc = "after"
    BY <2>3 DEF End, LoopState
  <2> QED BY <1>1, <2>1, <2>2, <2>3 DEF TurnLoop, TurnWaits,
      TurnReturnFails, TurnAbandoned, TurnEnds, TurnHalfReplies, TurnEndUnsaved,
      ProposalEnds, TurnBlocked, TurnFails, SaveStageFails
<1>2. CASE Driver(c) \/ Human(c)
  BY <1>2, DriverSteps, HumanSteps DEF DriverStep, HumanStep, claimedVars
<1> QED BY <1>1, <1>2 DEF Own

\* All but five of the steps of c's own leave slopspaces, signals and workers
\* alone.
LEMMA QuietSteps ==
  ASSUME NEW c \in Condocs, Own(c), ~ForceComplete(c), ~TurnDeploys(c), ~TurnSignals(c),
         ~TurnReturns(c), ~TurnReturnFails(c), ~ProposalSignals(c)
  PROVE  UNCHANGED <<slopspaceVars, signalVars, worker>>
<1>1. CASE Driver(c)
  BY <1>1 DEF Driver, VisitTurn, VisitSkip, VisitIdle, DriveNothing, DriveHandoff,
    DriveCompletion, DriveRecover, DriveSync, DriveSyncFails, DriveCommit,
    DriveCommitFails, DriveClose, QueueTurn, QueueTurnFails, workerVars
<1>2. CASE TurnLoop(c)
  BY <1>2 DEF TurnLoop, LoopClaim, LoopSettle, LoopTake, TurnWaits, TurnSyncs, TurnAbandoned,
    TurnReplies, TurnHalfReplies, TurnEnds, TurnEndUnsaved,
    ProposalEnds, TurnBlocked, TurnFails, SaveStage, SaveStageFails, workerVars
<1>3. CASE Human(c)
  BY <1>3 DEF Human, Directive, Resubmit, RegeneratePRs, ForceNow, ForceDefer
<1> QED BY <1>1, <1>2, <1>3 DEF Own

\* A step of c's own does nothing to other condocs' turns and slopspaces.
LEMMA Elsewhere ==
  ASSUME TypeOK, ClaimInv, NEW c \in Condocs, Own(c), WorkerTypeOK, NEW d \in Condocs, d # c
  PROVE  spec'[d] = spec[d] /\ deployed'[d] = deployed[d] /\ homeTree'[d] = homeTree[d]
  BY OthersKeep DEF Own, Keeps

\* A turn deploys onto a free path, or has been deployed before.
LEMMA DeployKeepsTrees ==
  ASSUME TypeOK, ClaimInv, TurnInv, TreeInv, NEW c \in Condocs, TurnDeploys(c)
  PROVE  TreeInv'
<1> USE DEF TypeOK, SlopspacesTypeOK, WorkSignalsTypeOK, WorkerTypeOK
<1>1. /\ loop.stem = c /\ spec[c].turn.kind = "turn" /\ spec[c].turn.stage = "queued"
      /\ loop.pc = "deploy" /\ loop'.mem.turn.stage = "deployed"
  BY SavedTurns DEF TurnInv
<1>2. loop'.pc = "save"
  BY DEF TurnDeploys, Save, MemoryTypeOK, LoopState
<1>3. UNCHANGED <<spec, created, header, ongoing, complete, unreadable, worker>>
  BY DEF TurnDeploys, pointerVars, signalVars
<1>4. FreshInv' /\ HoldInv' /\ QueuedInv' /\ \A i : Live(i)' <=> Live(i)
  BY <1>3 DEF TreeInv, FreshInv, HoldInv, QueuedInv, Live, Held
<1>5. SaveSig'
  BY <1>1 DEF SaveSig
<1>6. CASE deployed[c]
  <2>1. UNCHANGED <<deployed, marker, homeTree, pathTree>>
    BY <1>6 DEF TurnDeploys, slopspaceVars
  <2>2. PathInv'
    BY <1>2, <2>1 DEF TreeInv, PathInv, AtHome
  <2>3. \A d \in Condocs : WorkInv(d)'
    BY <1>3, <1>4, <2>1 DEF TreeInv, WorkInv
  <2> QED BY <1>4, <1>5, <2>2, <2>3 DEF TreeInv
<1>7. CASE ~deployed[c]
  <2>1. marker = None /\ \A d \in Condocs : AtHome(d)
    BY <1>1, <1>7 DEF TreeInv, PathInv
  <2>2. /\ deployed' = [deployed EXCEPT ![c] = TRUE] /\ marker' = c
        /\ homeTree' = [homeTree EXCEPT ![c] = None] /\ pathTree' = homeTree[c]
    BY <1>7 DEF TurnDeploys, Deploy
  <2>3. /\ c \in Slopspace
        /\ Workers \subseteq Slopspace
        /\ c \notin Workers
        /\ Condocs \subseteq Slopspace
        /\ c # None
    BY PartiesAssumption DEF Slopspace
  <2>4. deployed'[c] /\ pathTree' = c
    BY <2>1, <2>2, <2>3 DEF AtHome
  <2>5. \A d \in Condocs \ {c} : AtHome(d)'
    BY <2>1, <2>2, <2>3 DEF AtHome
  <2>6. \A w \in Workers : ~deployed'[w]
    BY <2>2, <2>3 DEF TreeInv, PathInv
  <2>7. PathInv'
    BY <1>2, <2>2, <2>3, <2>4, <2>5, <2>6 DEF PathInv
  <2>8. \A d \in Condocs : deployed[d] => deployed'[d]
    BY <2>2, <2>3
  <2>9. \A d \in Condocs : WorkInv(d)'
    BY <1>3, <1>4, <2>8 DEF TreeInv, WorkInv
  <2> QED BY <1>4, <1>5, <2>7, <2>9 DEF TreeInv
<1> QED BY <1>6, <1>7

\* A turn returns its own slopspace, and no signal is live by then: the complete
\* one is the turn's last.
LEMMA ReturnKeepsTrees ==
  ASSUME TypeOK, ClaimInv, TurnInv, TreeInv, NEW c \in Condocs, TurnReturns(c) \/ TurnReturnFails(c)
  PROVE  TreeInv'
<1> USE DEF TypeOK, SlopspacesTypeOK, WorkSignalsTypeOK, WorkerTypeOK
<1>0. /\ c \in Slopspace
      /\ Workers \subseteq Slopspace
      /\ c \notin Workers
      /\ Condocs \subseteq Slopspace
      /\ c # None
  BY PartiesAssumption DEF Slopspace
<1>1. deployed[c] => marker = c /\ pathTree = c
  BY DEF TreeInv, PathInv, AtHome
<1>2. TurnReturns(c)
  BY <1>0, <1>1 DEF TurnReturnFails, ReturnFails
<1>3. /\ spec[c].turn.kind = "turn"
      /\ spec[c].turn.stage = "signalled"
      /\ loop'.mem.turn.stage = "returned"
  BY <1>2, SavedTurns DEF TurnInv
<1>4. loop.mem = spec[c] /\ complete[spec[c].turn.sig]
  BY <1>2 DEF TurnReturns, Running, Loop, TurnInv, RecordInv, LoopRecord
<1>5. spec[c].turn.sig \in 1 .. created /\ header[spec[c].turn.sig].role = c
  BY <1>3, RankValues DEF TurnInv, EvidenceInv, Evidence
<1>6. loop'.pc = "save"
  BY <1>2 DEF TurnReturns, Save, MemoryTypeOK, LoopState
<1>7. UNCHANGED <<spec, created, header, ongoing, complete, unreadable, worker>>
  BY <1>2 DEF TurnReturns, signalVars
<1>8. FreshInv' /\ HoldInv' /\ QueuedInv' /\ \A i : Live(i)' <=> Live(i)
  BY <1>7 DEF TreeInv, FreshInv, HoldInv, QueuedInv, Live, Held
<1>9. SaveSig'
  BY <1>3 DEF SaveSig
<1>10. CASE ~deployed[c]
  <2>1. UNCHANGED <<deployed, marker, homeTree, pathTree>>
    BY <1>2, <1>10 DEF TurnReturns, slopspaceVars
  <2>2. PathInv'
    BY <1>6, <2>1 DEF TreeInv, PathInv, AtHome
  <2>3. \A d \in Condocs : WorkInv(d)'
    BY <1>7, <1>8, <2>1 DEF TreeInv, WorkInv
  <2> QED BY <1>8, <1>9, <2>2, <2>3 DEF TreeInv
<1>11. CASE deployed[c]
  <2>1. /\ deployed' = [deployed EXCEPT ![c] = FALSE] /\ marker' = None
        /\ homeTree' = [homeTree EXCEPT ![c] = c] /\ pathTree' = None
    BY <1>1, <1>2, <1>11 DEF TurnReturns, Return
  <2>2. \A d \in Condocs : AtHome(d)'
    BY <1>0, <1>1, <1>11, <2>1 DEF TreeInv, PathInv, AtHome
  <2>3. PathInv'
    BY <1>0, <1>6, <2>1, <2>2 DEF TreeInv, PathInv
  <2>4. ASSUME NEW i \in 1 .. created, Live(i), header[i].work = "slopspace", header[i].role = c
        PROVE  FALSE
    <3>1. i <= spec[c].turn.sig
      BY <1>3, <2>4 DEF TreeInv, WorkInv
    <3>2. spec[c].turn.sig < i
      BY <1>4, <1>5, <2>4 DEF TreeInv, QueuedInv
    <3> QED BY <1>5, <3>1, <3>2
  <2>5. \A d \in Condocs \ {c} : deployed'[d] = deployed[d]
    BY <1>0, <2>1
  <2>6. \A d \in Condocs : WorkInv(d)'
    BY <1>7, <1>8, <2>4, <2>5 DEF TreeInv, WorkInv
  <2> QED BY <1>8, <1>9, <2>3, <2>6 DEF TreeInv
<1> QED BY <1>10, <1>11

\* A new signal is the youngest, and its turn's slopspace is deployed.
LEMMA SignalKeepsTrees ==
  ASSUME TypeOK, ClaimInv, TurnInv, TreeInv, NEW c \in Condocs, TurnSignals(c) \/ ProposalSignals(c)
  PROVE  TreeInv'
<1> USE DEF TypeOK, WorkSignalsTypeOK, WorkerTypeOK
<1> DEFINE n == created + 1
<1>0. /\ created \in Nat /\ n \in SignalId /\ n \notin 1 .. created /\ n > created
      /\ \A i \in 1 .. n : i \in 1 .. created \/ i = n
  BY WorkSignalsAssumption DEF SignalId, TurnSignals, ProposalSignals, Create
<1>1. PICK work \in WorkType :
        /\ created' = n /\ header' = [header EXCEPT ![n] = [role |-> c, work |-> work]]
        /\ ongoing' = [ongoing EXCEPT ![n] = "pending"]
        /\ UNCHANGED <<complete, unreadable, worker, spec, deployed, marker, homeTree, pathTree>>
        /\ work = "slopspace" => TurnSignals(c)
  <2>1. CASE TurnSignals(c)
    BY <2>1 DEF TurnSignals, Create, WorkType, pointerVars, slopspaceVars
  <2>2. CASE ProposalSignals(c)
    BY <2>2 DEF ProposalSignals, Create, WorkType, pointerVars, slopspaceVars
  <2> QED BY <2>1, <2>2
<1>2. /\ ongoing[n] = "absent" /\ ~complete[n] /\ n \notin unreadable
  BY <1>0 DEF TreeInv, FreshInv
<1>3. /\ header'[n].role = c /\ header'[n].work = work /\ ongoing'[n] = "pending"
      /\ \A i \in SignalId : i # n => header'[i] = header[i] /\ ongoing'[i] = ongoing[i]
      /\ 1 .. created \subseteq SignalId
  BY <1>0, <1>1, WorkSignalsAssumption DEF SignalId
<1>4. FreshInv'
  BY <1>0, <1>1, <1>3 DEF TreeInv, FreshInv, SignalId
<1>5. HoldInv'
  <2> SUFFICES ASSUME NEW w \in Workers, worker[w].pc # "idle"
      PROVE  /\ worker[w].pc \in {"found","taken","running","ran"} /\ ~worker[w].own
             /\ worker[w].sig \in 1 .. n
             /\ ongoing'[worker[w].sig] =
                   (IF worker[w].pc = "found" THEN "pending" ELSE "processing")
             /\ \A j \in 1 .. n :
                   ongoing'[j] = "pending" /\ header'[j].role = header'[worker[w].sig].role =>
                     worker[w].sig <= j
    BY <1>1 DEF HoldInv
  <2>1. /\ worker[w].pc \in {"found","taken","running","ran"} /\ ~worker[w].own
        /\ worker[w].sig \in 1 .. created
        /\ ongoing[worker[w].sig] = (IF worker[w].pc = "found" THEN "pending" ELSE "processing")
        /\ \A j \in 1 .. created :
           ongoing[j] = "pending" /\ header[j].role = header[worker[w].sig].role =>
             worker[w].sig <= j
    BY DEF TreeInv, HoldInv
  <2>2. /\ ongoing'[worker[w].sig] = ongoing[worker[w].sig]
        /\ header'[worker[w].sig] = header[worker[w].sig]
        /\ worker[w].sig \in 1 .. n /\ worker[w].sig <= n
    BY <1>0, <1>3, <2>1
  <2>3. \A j \in 1 .. created : ongoing'[j] = ongoing[j] /\ header'[j] = header[j]
    BY <1>0, <1>3
  <2> QED BY <1>0, <2>1, <2>2, <2>3
<1>6. /\ \A i \in 1 .. created :
           (Live(i)' <=> Live(i)) /\ header'[i] = header[i] /\ ongoing'[i] = ongoing[i]
  BY <1>0, <1>1, <1>3 DEF Live, Held
<1>7. \A j \in 1 .. n : complete'[j] => j \in 1 .. created /\ complete[j]
  BY <1>0, <1>1, <1>2
<1>8. QueuedInv'
  <2> SUFFICES ASSUME NEW i \in 1 .. n
      PROVE  /\ header'[i].role \in Condocs
             /\ ongoing'[i] = "pending" => i \notin unreadable
             /\ Live(i)' => /\ ~complete[i]
                            /\ \A j \in 1 .. n :
                                 complete[j] /\ header'[j].role = header'[i].role => j < i
    BY <1>1 DEF QueuedInv
  <2>1. CASE i = n
    BY <1>0, <1>1, <1>2, <1>3, <1>7, <2>1
  <2>2. CASE i \in 1 .. created
    <3>1. /\ header[i].role \in Condocs
          /\ ongoing[i] = "pending" => i \notin unreadable
          /\ Live(i) => /\ ~complete[i]
                        /\ \A j \in 1 .. created :
                             complete[j] /\ header[j].role = header[i].role => j < i
      BY <2>2 DEF TreeInv, QueuedInv
    <3> QED BY <1>1, <1>6, <1>7, <2>2, <3>1
  <2> QED BY <1>0, <2>1, <2>2
<1>9. \A d \in Condocs : WorkInv(d)'
  <2> SUFFICES ASSUME NEW d \in Condocs, NEW i \in 1 .. n, Live(i)', header'[i].work = "slopspace",
                      header'[i].role = d
      PROVE  /\ spec[d].turn.kind = "turn" /\ spec[d].turn.stage \in {"deployed",
                                                                      "signalled"} /\ deployed[d]
             /\ spec[d].turn.stage = "signalled" => i <= spec[d].turn.sig
    BY <1>1 DEF WorkInv
  <2>1. CASE i = n
    <3>1. d = c /\ TurnSignals(c)
      BY <1>1, <1>3, <2>1
    <3>2. spec[c].turn.kind = "turn" /\ spec[c].turn.stage = "deployed"
      BY <3>1, SavedTurns DEF TurnInv
    <3> QED BY <3>1, <3>2 DEF TurnSignals
  <2>2. CASE i \in 1 .. created
    BY <1>6, <2>2 DEF TreeInv, WorkInv
  <2> QED BY <1>0, <2>1, <2>2
<1>10. loop'.pc = "save"
  BY DEF TurnSignals, ProposalSignals, Save, MemoryTypeOK, LoopState
<1>11. SaveSig'
  <2>1. CASE TurnSignals(c)
    BY <1>1, <2>1, SavedTurns DEF TurnInv, SaveSig
  <2>2. CASE ProposalSignals(c)
    BY <2>2, SavedTurns DEF TurnInv, SaveSig
  <2> QED BY <2>1, <2>2
<1>12. PathInv'
  BY <1>1, <1>10 DEF TreeInv, PathInv, AtHome
<1> QED BY <1>4, <1>5, <1>8, <1>9, <1>11, <1>12 DEF TreeInv

\* What other steps write on the pointer suits the live signals: a turn with one
\* cannot end, and a stage past signalled has the slopspace home.
LEMMA QuietKeepsTrees ==
  ASSUME TypeOK, ClaimInv, TurnInv, TreeInv, used["force"] = 0, NEW c \in Condocs, Own(c),
         ~TurnDeploys(c), ~TurnSignals(c), ~TurnReturns(c), ~TurnReturnFails(c), ~ProposalSignals(c)
  PROVE  TreeInv'
<1> USE DEF TypeOK
<1> DEFINE t == spec[c].turn
           u == loop.mem.turn
<1>1. ~ForceComplete(c) BY NotForced
<1>2. UNCHANGED <<deployed, marker, homeTree, pathTree, created, header, ongoing, complete,
                  unreadable, worker>>
  BY <1>1, QuietSteps DEF slopspaceVars, signalVars
<1>3. FreshInv' /\ HoldInv' /\ QueuedInv' /\ \A i : Live(i)' <=> Live(i)
  BY <1>2 DEF TreeInv, FreshInv, HoldInv, QueuedInv, Live, Held
<1>4. TurnStep(c) /\ forcing[c].pc = "idle" /\ RecordInv(c) /\ HomeInv(c) /\ LocatesInv(c)
  BY OwnTurnStep DEF TurnInv, LocatesInv
<1>5. ASSUME NEW i \in 1 .. created, Live(i), header[i].work = "slopspace", header[i].role = c
      PROVE  /\ spec'[c].turn.kind = "turn" /\ spec'[c].turn.stage \in {"deployed",
                                                                        "signalled"} /\ deployed[c]
             /\ spec'[c].turn.stage = "signalled" => i <= spec'[c].turn.sig
  <2>1. /\ t.kind = "turn" /\ t.stage \in {"deployed", "signalled"} /\ deployed[c]
        /\ t.stage = "signalled" => i <= t.sig
    BY <1>5 DEF TreeInv, WorkInv
  <2>2. ~OverOrIdle(t)
    BY <2>1 DEF OverOrIdle
  <2>3. CASE spec'[c].turn = t
    BY <2>1, <2>3
  <2>4. CASE Saving(c) /\ spec'[c].turn = u
    <3>0. loop.mem \in PointerSpec
      BY DEF MemoryTypeOK, LoopState
    <3>7. Advances(spec[c].turn, loop.mem.turn)
      BY <1>4, <2>4 DEF Saving, RecordInv, LoopRecord
    <3>1. Advances(t, u) /\ u \in PointerTurn
      BY <3>0, <3>7 DEF PointerSpec
    <3>2. u.kind = "turn" /\ u.stage # "queued"
      BY <2>1, <3>1, RankValues DEF Advances
    <3>3. u.stage # "replied"
      BY <2>1, <2>4, <1>4 DEF HomeInv, OverOrIdle, AtHome
    <3>4. u.stage # "returned"
      BY <2>1, <2>4, <1>4, <3>2 DEF LocatesInv, Locates
    <3>5. u.stage \in {"deployed", "signalled"}
      BY <3>1, <3>2, <3>3, <3>4 DEF PointerTurn, Stage
    <3>6. u.stage = "signalled" => i <= u.sig
      BY <1>5, <2>4, <3>2 DEF TreeInv, SaveSig, Saving, WorkSignalsTypeOK
    <3> QED BY <2>1, <2>4, <3>2, <3>5, <3>6
  <2> QED BY <1>4, <2>1, <2>2, <2>3, <2>4 DEF TurnStep, Forcing
<1>6. \A d \in Condocs : WorkInv(d)'
  <2> SUFFICES ASSUME NEW d \in Condocs PROVE WorkInv(d)'
    OBVIOUS
  <2>1. CASE d = c
    BY <1>2, <1>3, <1>5, <2>1 DEF WorkInv
  <2>2. CASE d # c
    BY <1>2, <1>3, <2>2, Elsewhere DEF TreeInv, WorkInv
  <2> QED BY <2>1, <2>2
<1>7. SaveSig'
  <2>1. CASE loop' = loop
    BY <1>2, <2>1 DEF TreeInv, SaveSig
  <2>2. CASE TurnReplies(c)
    BY <1>4, <2>2, SavedTurns DEF SaveSig
  <2>3. CASE loop'.pc # "save"
    BY <2>3 DEF SaveSig
  <2>4. TurnSyncs(c) => loop'.pc # "save"
    BY DEF TurnSyncs, MemoryTypeOK, LoopState
  <2> QED BY <1>1, <2>1, <2>2, <2>3, <2>4, LoopMoves
<1>8. loop'.pc = "deploy" => marker \in {None, loop'.stem}
  <2>1. CASE loop' = loop
    BY <2>1 DEF TreeInv, PathInv
  <2>2. CASE TurnSyncs(c)
    BY <2>2 DEF TurnSyncs, Running, Loop, MemoryTypeOK, LoopState
  <2>3. CASE loop'.pc # "deploy"
    BY <2>3
  <2>4. TurnReplies(c) => loop'.pc # "deploy"
    BY DEF TurnReplies, Save, MemoryTypeOK, LoopState
  <2> QED BY <1>1, <2>1, <2>2, <2>3, <2>4, LoopMoves
<1>9. PathInv'
  BY <1>2, <1>8 DEF TreeInv, PathInv, AtHome
<1> QED BY <1>3, <1>6, <1>7, <1>9 DEF TreeInv

\* Every step keeps TreeInv.
LEMMA TreeNext ==
  ASSUME TypeOK, ClaimInv, TurnInv, OneWorker, used["force"] = 0, TreeInv, [Next]_vars
  PROVE  TreeInv'
<1>1. ASSUME NEW c \in Condocs, Own(c) PROVE TreeInv'
  BY <1>1, DeployKeepsTrees, ReturnKeepsTrees, SignalKeepsTrees, QuietKeepsTrees
<1>2. CASE WorkerNext
  BY <1>2, WorkerKeepsTrees
<1>3. CASE TickRead \/ Crash \/ UNCHANGED vars
  <2>1. /\ UNCHANGED <<deployed, marker, homeTree, pathTree, created, header, ongoing, complete,
                       unreadable, worker, spec>>
        /\ loop' = loop \/ loop'.pc = "idle"
    BY <1>3 DEF TickRead, Crash, LoopIdle, vars, workerVars, slopspaceVars, signalVars,
      pointerVars, memoryVars
  <2>2. FreshInv' /\ HoldInv' /\ QueuedInv' /\ \A i : Live(i)' <=> Live(i)
    BY <2>1 DEF TreeInv, FreshInv, HoldInv, QueuedInv, Live, Held
  <2>3. (\A c \in Condocs : WorkInv(c)') /\ SaveSig' /\ PathInv'
    BY <2>1, <2>2 DEF TreeInv, WorkInv, SaveSig, PathInv, AtHome
  <2> QED BY <2>2, <2>3 DEF TreeInv
<1> QED BY <1>1, <1>2, <1>3 DEF Next, Own

\* At most one worker, and no Force Complete.
UnderOneWorker == OneWorker /\ NeverForced

\* TreeInv holds as long as that does.
THEOREM TreesInvariant == Spec => [](UnderOneWorker => TreeInv)
<1> DEFINE I == UnderOneWorker => TreeInv
<1>1. Init => I BY TreeInit
<1>2. TypeOK /\ ClaimInv /\ TurnInv /\ I /\ [Next]_vars => I'
  <2>1. TypeOK /\ [Next]_vars /\ UnderOneWorker' => UnderOneWorker
    BY UsedGrows DEF UnderOneWorker, NeverForced, OneWorker, TypeOK
  <2> QED BY <2>1, TreeNext DEF UnderOneWorker, NeverForced
<1> HIDE DEF I
<1>3. Spec => []I BY <1>1, <1>2, Typing, ClaimsInvariant, TurnInvariant, PTL DEF Spec
<1> QED BY <1>3 DEF I

\* One slopspace is deployed at a time.
THEOREM OneIsDeployed == Spec => [](UnderOneWorker => OneDeployed)
<1>1. TypeOK /\ TreeInv => OneDeployed
  BY DEF TreeInv, PathInv, OneDeployed, AtHome, Slopspace, TypeOK, SlopspacesTypeOK
<1> QED BY <1>1, TreesInvariant, Typing, PTL

\* No working tree is lost or misplaced: the condoc of a deployed slopspace has its tree at
\* the deploy path, every other one has it at home.
THEOREM TreesAreKept == Spec => [](UnderOneWorker => TreesKept)
<1>1. TreeInv => TreesKept
  BY DEF TreeInv, PathInv, TreesKept, AtHome
<1> QED BY <1>1, TreesInvariant, PTL

\* An agent at work on a condoc's signal has that condoc's tree before it.
THEOREM AgentsAreAtTheirTree == Spec => [](UnderOneWorker => AgentAtItsTree)
<1>1. TypeOK /\ TreeInv => AgentAtItsTree
  <2> SUFFICES ASSUME TypeOK, TreeInv, NEW w \in Workers, worker[w].pc = "running",
                      header[worker[w].sig].role # None,
                      header[worker[w].sig].work = "slopspace"
      PROVE  pathTree = header[worker[w].sig].role
    BY DEF AgentAtItsTree
  <2> DEFINE i == worker[w].sig
  <2>1. i \in 1 .. created
    BY DEF TreeInv, HoldInv
  <2>2. Live(i) /\ header[i].role \in Condocs
    BY <2>1 DEF Live, Held, TreeInv, QueuedInv
  <2>3. deployed[header[i].role]
    BY <2>1, <2>2 DEF TreeInv, WorkInv
  <2> QED BY <2>2, <2>3 DEF TreeInv, PathInv, AtHome
<1> QED BY <1>1, TreesInvariant, Typing, PTL
=============================================================================
