----------------------------- MODULE PointerRepo ----------------------------
(***************************************************************************)
(* The pointer repo that several condoccers share (condoccer/pointer.go,   *)
(* slopspace.go: writeSpec to pushPointerLocked, slopResolveHead), as one  *)
(* of them sees it.  It keeps a clone, writes the pointer files it holds,  *)
(* and pushes when it can; a rebase puts its commits on top of what others *)
(* pushed.  The clone's history is what it has of the upstream commits and *)
(* its own after them.                                                     *)
(***************************************************************************)
EXTENDS Naturals, Sequences, SequencesExt, Services

CONSTANTS MaxTurns,     \* turns of the condoc
          MaxTroubles,  \* calls of git that fail, stops
          MaxPushed     \* commits that others push

ASSUME PointerRepoAssumption ==
    MaxTurns \in Nat /\ MaxTroubles \in Nat /\ MaxPushed \in Nat

VARIABLES upstream, \* the branch at GitHub: its commits
          clone,    \* its state, commits and the condoc's pointer file
          gitOp,    \* what holds opRunning, how far, and the pushes tried
          reported, \* pushErr, pullErr and whether a pull has come to an end
          turnBase, \* history position pointerBase gave for the last turn
          troubles

pointerVars == <<upstream, clone, gitOp, reported, turnBase, troubles>>

MaxPushes == 3
Gone == 99
NoOp == [by |-> "none", at |-> "free", tries |-> 0]
NewPointer == [n |-> 0, turn |-> FALSE, stage |-> 0]

Files == [n : 0 .. MaxTurns, turn : BOOLEAN, stage : 0 .. 1]
Commits == [ours : BOOLEAN, n : 0 .. MaxTurns, turn : BOOLEAN, hand : BOOLEAN]

PointerRepoTypeOK ==
    /\ upstream \in Seq(Commits)
    /\ clone.own \in Seq(Commits) /\ clone.base \in 0 .. Len(upstream)
    /\ clone.file \in Files /\ clone.saved \in Files
    /\ clone.state \in {"missing", "ready", "rebasing"}
    /\ gitOp \in [by : {"none", "write", "pull"}, tries : 0 .. MaxPushes,
                  at : {"free", "commit", "push", "repull", "pull"}]
    /\ reported \in [push : BOOLEAN, pull : BOOLEAN, pulled : BOOLEAN]
    /\ troubles \in 0 .. MaxTroubles

Unreported == [push |-> FALSE, pull |-> FALSE, pulled |-> FALSE]

PointerRepoInit ==
    /\ upstream = << >>
    /\ \E state \in {"missing", "ready"} :
           clone = [state |-> state, base |-> 0, own |-> << >>,
                    file |-> NewPointer, saved |-> NewPointer]
    /\ gitOp = NoOp /\ reported = Unreported
    /\ turnBase = 0 /\ troubles = 0

GitTrouble == troubles < MaxTroubles /\ troubles' = troubles + 1
Untroubled == UNCHANGED troubles
FreeOp == gitOp.at = "free"
Ends == gitOp' = NoOp

HistoryOf == SubSeq(upstream, 1, clone.base) \o clone.own

-----------------------------------------------------------------------------
\* clonePointer, only while nothing is at the path.
ClonePointer ==
    /\ clone.state = "missing" /\ FreeOp
    /\ \/ GitTrouble /\ UNCHANGED <<clone, reported>>
       \/ /\ clone' = [clone EXCEPT !.state = "ready", !.base = Len(upstream)]
          /\ reported' = [reported EXCEPT !.pull = FALSE, !.pulled = TRUE]
          /\ Untroubled
    /\ UNCHANGED <<upstream, gitOp, turnBase>>

\* writeSpec: the file, and with a message its commit and push.  The reads
\* before it ask for a repo that is ready.
WriteSpec(file, message) ==
    /\ FreeOp /\ clone.state = "ready"
    /\ clone' = [clone EXCEPT !.file = file]
    /\ gitOp' = IF message THEN [NoOp EXCEPT !.by = "write", !.at = "commit"]
                ELSE gitOp
    /\ UNCHANGED <<upstream, reported, troubles>>

\* A turn is queued, with where the history stood; saves a stage; and ends.
TurnBegins ==
    /\ ~clone.file.turn /\ clone.file.n < MaxTurns
    /\ WriteSpec([n |-> clone.file.n + 1, turn |-> TRUE, stage |-> 0], TRUE)
    /\ turnBase' = Len(HistoryOf)

TurnStaged ==
    /\ clone.file.turn /\ clone.file.stage = 0
    /\ WriteSpec([clone.file EXCEPT !.stage = 1], FALSE)
    /\ UNCHANGED turnBase

TurnCleared ==
    /\ clone.file.turn
    /\ WriteSpec([clone.file EXCEPT !.turn = FALSE], TRUE)
    /\ UNCHANGED turnBase

\* A write whose commit failed is written again with the error.
ErrorWritten ==
    /\ clone.file # clone.saved /\ WriteSpec(clone.file, TRUE)
    /\ UNCHANGED turnBase

\* commitPointerFile: only this file; git refuses in the middle of a rebase.
CommitFile ==
    /\ gitOp.at = "commit"
    /\ \/ /\ clone' = IF clone.file = clone.saved THEN clone
                      ELSE [clone EXCEPT !.saved = clone.file,
                                !.own = Append(@, [ours |-> TRUE, n |-> clone.file.n,
                                                      turn |-> clone.file.turn, hand |-> FALSE])]
          /\ gitOp' = [gitOp EXCEPT !.at = "push"] /\ Untroubled
       \/ GitTrouble /\ Ends /\ UNCHANGED clone
    /\ UNCHANGED <<upstream, reported, turnBase>>

\* pushPointerLocked: a push, refused if others pushed in between.
Push ==
    /\ gitOp.at = "push"
    /\ IF clone.base = Len(upstream)
       THEN \/ /\ upstream' = upstream \o clone.own
               /\ clone' = [clone EXCEPT !.own = << >>, !.base = Len(upstream')]
               /\ reported' = IF gitOp.by = "pull" THEN [Unreported EXCEPT !.pulled = TRUE]
                              ELSE [reported EXCEPT !.push = FALSE]
               /\ Ends /\ Untroubled
            \/ /\ GitTrouble /\ gitOp' = [gitOp EXCEPT !.at = "repull"]
               /\ UNCHANGED <<upstream, clone, reported>>
       ELSE /\ gitOp' = [gitOp EXCEPT !.at = "repull"]
            /\ UNCHANGED <<upstream, clone, reported, troubles>>
    /\ UNCHANGED turnBase

\* pull --rebase --autostash: the own commits go on top, unless what came
\* touches a file that they, or what is stashed, touch.
Incoming == SubSeq(upstream, clone.base + 1, Len(upstream))
Conflicts ==
    \E c \in ToSet(Incoming) :
        /\ c.ours /\ c.hand
        /\ clone.own # << >> \/ clone.file # clone.saved

Rebased ==
    /\ clone' = [clone EXCEPT !.base = Len(upstream)]
    /\ turnBase' = IF Incoming # << >> /\ turnBase > clone.base
                   THEN Gone ELSE turnBase

StopsRebasing ==
    /\ Conflicts /\ clone' = [clone EXCEPT !.state = "rebasing"]
    /\ UNCHANGED <<turnBase, troubles>>

\* What pushPointerLocked reports of a failure; the pull it may be part of is
\* taken for a success.
PushFailed ==
    reported' = [reported EXCEPT !.push = TRUE,
                     !.pull = @ /\ gitOp.by # "pull",
                     !.pulled = @ \/ gitOp.by = "pull"]

\* The retry loop of pushPointerLocked, three pushes in all.
PullAndRetry ==
    /\ gitOp.at = "repull"
    /\ \/ /\ ~Conflicts /\ Rebased /\ Untroubled
          /\ IF gitOp.tries + 1 < MaxPushes
             THEN /\ gitOp' = [gitOp EXCEPT !.at = "push", !.tries = @ + 1]
                  /\ UNCHANGED reported
             ELSE /\ Ends
                  /\ PushFailed
       \/ /\ \/ StopsRebasing
             \/ GitTrouble /\ UNCHANGED <<clone, turnBase>>
          /\ Ends
          /\ PushFailed
    /\ UNCHANGED upstream

\* pullPointer every fifteen seconds, unless something else is at work; one
\* with nothing to do is left out.
PullStarts ==
    /\ FreeOp /\ clone.state = "ready"
    /\ Incoming # << >> \/ clone.own # << >> \/ ~reported.pulled \/ reported.pull
    /\ gitOp' = [NoOp EXCEPT !.by = "pull", !.at = "pull"]
    /\ UNCHANGED <<upstream, clone, reported, turnBase, troubles>>

\* A mutant: what an earlier push failed to deliver is left to the next write.
PullsOnly ==
    /\ gitOp.at = "pull"
    /\ \/ ~Conflicts /\ Rebased /\ Untroubled
          /\ reported' = [reported EXCEPT !.pull = FALSE, !.pulled = TRUE]
       \/ /\ \/ StopsRebasing
             \/ GitTrouble /\ UNCHANGED <<clone, turnBase>>
          /\ reported' = [reported EXCEPT !.pull = TRUE]
    /\ Ends /\ UNCHANGED upstream

\* The pull, and then the push of what the clone is ahead by.
Pulls ==
    /\ gitOp.at = "pull"
    /\ \/ /\ ~Conflicts /\ Rebased /\ Untroubled
          /\ IF clone.own # << >>
             THEN gitOp' = [gitOp EXCEPT !.at = "push"] /\ UNCHANGED reported
             ELSE Ends /\ reported' = [reported EXCEPT !.pull = FALSE, !.pulled = TRUE]
       \/ /\ \/ StopsRebasing
             \/ GitTrouble /\ UNCHANGED <<clone, turnBase>>
          /\ Ends /\ reported' = [reported EXCEPT !.pull = TRUE]
    /\ UNCHANGED upstream

-----------------------------------------------------------------------------
\* Another condoccer pushes a pointer of its own, or somebody edits this one
\* in a field that plays no part here; a rebase that stopped is ended by hand;
\* condoccer stops, in a pull maybe in the middle of its rebase.
OthersPush ==
    /\ Len(SelectSeq(upstream, LAMBDA c : c.hand)) < MaxPushed
    /\ \E ours \in BOOLEAN :
           upstream' = Append(upstream, [ours |-> ours, n |-> 0, turn |-> TRUE, hand |-> TRUE])
    /\ UNCHANGED <<clone, gitOp, reported, turnBase, troubles>>

HandEndsRebase ==
    /\ clone.state = "rebasing" /\ FreeOp
    /\ clone' = [clone EXCEPT !.state = "ready", !.base = Len(upstream)]
    /\ turnBase' = IF turnBase > clone.base THEN Gone ELSE turnBase
    /\ UNCHANGED <<upstream, gitOp, reported, troubles>>

CondoccerRestarts ==
    /\ GitTrouble /\ Ends
    /\ reported' = Unreported
    /\ \/ UNCHANGED clone
       \/ gitOp.at \in {"pull", "repull"} /\ clone' = [clone EXCEPT !.state = "rebasing"]
    /\ UNCHANGED <<upstream, turnBase>>

PointerRepoNext ==
    \/ ClonePointer \/ TurnBegins \/ TurnStaged \/ TurnCleared \/ ErrorWritten
    \/ CommitFile \/ Push \/ PullAndRetry \/ PullStarts \/ Pulls
    \/ OthersPush \/ HandEndsRebase \/ CondoccerRestarts

-----------------------------------------------------------------------------
\* slopResolveHead for the pointer file: the first commit after the base that
\* clears its turn; 0 when the turn has not got that far, or its base was
\* rebased away.
ResolveHead(base) ==
    LET history == HistoryOf
        heads == {i \in DOMAIN history : /\ i > base /\ history[i].ours
                                         /\ ~history[i].turn}
    IN IF base = Gone \/ heads = {} THEN 0 ELSE CHOOSE i \in heads : \A j \in heads : i <= j

\* A pointer that was committed is at GitHub, or the panel says that a push or
\* a pull failed, as soon as a pull has come to an end; nobody's commit of it
\* is lost or comes twice, however pushes cross; and a diff of a turn that
\* names a head names the commit that ended that very turn.
PointersDelivered ==
    LET history == upstream \o clone.own
        written == {i \in DOMAIN history : ~history[i].hand}
        head == ResolveHead(turnBase)
    IN /\ FreeOp /\ reported.pulled /\ clone.state = "ready" /\ clone.own # << >>
             => reported.push \/ reported.pull
       /\ \A i, j \in written :
             i < j => /\ history[i].n <= history[j].n
                      /\ history[i].n = history[j].n /\ ~history[i].turn => ~history[j].turn
       /\ head # 0 => HistoryOf[head].n = clone.file.n
=============================================================================
