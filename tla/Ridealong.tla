------------------------------ MODULE Ridealong -----------------------------
(***************************************************************************)
(* federation-command's ridealongs (federation-command/ridealong.go, the   *)
(* ridealong handlers of main.go): the commands of a markdown file, run    *)
(* one by one from a menu, by autoplay or by local-representative; a file  *)
(* can dive into another, which is run depth first.  A command runs        *)
(* outside Update and is done by a message; meanwhile keys, ticks, remote  *)
(* commands and the connection's own messages go on.                       *)
(***************************************************************************)
EXTENDS Naturals, Sequences, SequencesExt, Relation, Services

CONSTANTS Rides,      \* file -> its steps: "cmd", or the file a dive leads to
          Waypoints,  \* file -> the steps its waypoints lead to
          MaxPending  \* commands under way at a time

Files == DOMAIN Rides

ASSUME RidealongAssumption ==
    /\ \A f \in Files : Rides[f] \in Seq({"cmd"} \cup Files)
    /\ \A f \in Files : Waypoints[f] \subseteq 1 .. Len(Rides[f]) + 1
    /\ MaxPending \in Nat

VARIABLES chain,   \* m.ridealong and its parents, the root first
          dot,     \* the blinker's state
          before,  \* ridealongPrevState
          pane,    \* the dynapane: shown, and whether ticks of it are under way
          underway, \* commands that are not done, and jobs on the side: custom
                   \* commands, reviews and fixes
          story    \* history: the root, the commands run, whether each came in
                   \* its turn, a failure nobody has reacted to, its end

rideVars == <<chain, dot, before, pane, underway, story>>

RideJobs == {"cmd", "side"}
Frames == [file : Files, at : Nat, auto : BOOLEAN, debug : BOOLEAN,
           propose : BOOLEAN, fixing : BOOLEAN]
RideDots == {"idle", "inactive", "connected", "local", "ridealong"}

RidealongTypeOK ==
    /\ chain \in Seq(Frames) /\ dot \in RideDots /\ before \in {"idle", "connected", "local"}
    /\ \A i \in DOMAIN chain \ {Len(chain)} : \* a parent waits at its dive
           Rides[chain[i].file][chain[i].at] = chain[i + 1].file
    /\ pane \in [shown : BOOLEAN, ticks : 0 .. 1]
    /\ underway \in [RideJobs -> 0 .. MaxPending]
    /\ story.ran \in Seq(Files \X Nat) /\ story.regular \in BOOLEAN
    /\ story.failed \in BOOLEAN /\ story.over \in BOOLEAN

NoStory == [root |-> "", ran |-> << >>, regular |-> FALSE, failed |-> FALSE, over |-> FALSE]

RidealongInit ==
    /\ chain = << >> /\ dot \in {"idle", "connected"} /\ before = "idle"
    /\ pane = [shown |-> FALSE, ticks |-> 0]
    /\ underway = [j \in RideJobs |-> 0]
    /\ story = NoStory

-----------------------------------------------------------------------------
\* parseRidealong: the steps of a file; extractContinuesLinks: its dives.
Dives(f) == {Rides[f][i] : i \in DOMAIN Rides[f]} \ {"cmd"}

Below == TransitiveClosure([p \in Files \X Files |-> p[2] \in Dives(p[1])], Files)
Cyclic == {f \in Files : \E g \in Files : (g = f \/ Below[f, g]) /\ Below[g, g]}
hasCycle(f) == f \in Cyclic

\* What a ridealong of f is to run: its commands, those of a dive in its place.
Flat[f \in Files] ==
    FlattenSeq([i \in DOMAIN Rides[f] |->
                  IF Rides[f][i] = "cmd" THEN << <<f, i>> >> ELSE Flat[Rides[f][i]]])

Top == Last(chain)
StepOf(r) == Rides[r.file][r.at]
Exhausted(r) == r.at > Len(Rides[r.file])
IsDiveStep(r) == ~Exhausted(r) /\ StepOf(r) # "cmd"

NewRidealong(f, at, debug) ==
    [file |-> f, at |-> at, auto |-> FALSE, debug |-> debug,
     propose |-> FALSE, fixing |-> FALSE]

AdvanceCommand(r) == [r EXCEPT !.at = @ + 1, !.fixing = FALSE]
\* The deviation: the frame stepped on stays under the one that replaces it.
PushedOnTop(c, r) == Append(c, r)

OnTop(c, r) == Append(Front(c), r)
StepOn(c) == OnTop(c, AdvanceCommand(Last(c)))

\* The deviation: on return from a dive the parent does not step past it.
ReturnsToDive(c) == Front(c)

ReturnsToParent(c) == IF Len(c) = 1 THEN << >> ELSE StepOn(Front(c))

\* The step that is next: a file at its end returns to its parent, a dive is
\* entered, and one into a file without steps is skipped.
Child(r) == [NewRidealong(StepOf(r), 1, r.debug) EXCEPT !.auto = r.auto, !.propose = r.propose]

Settled[c \in Seq(Frames)] ==
    IF c = << >> THEN c
    ELSE IF Exhausted(Last(c)) THEN Settled[ReturnsToParent(c)]
    ELSE IF ~IsDiveStep(Last(c)) THEN c
    ELSE IF Rides[StepOf(Last(c))] = << >> THEN Settled[StepOn(c)]
    ELSE Append(c, Child(Last(c)))

\* Whether one without steps is skipped on the way, which counts as a failure.
Skips[c \in Seq(Frames)] ==
    IF c = << >> THEN FALSE
    ELSE IF Exhausted(Last(c)) THEN Skips[ReturnsToParent(c)]
    ELSE IsDiveStep(Last(c)) /\ Rides[StepOf(Last(c))] = << >>

AutoplayDeactivate(c) == [i \in DOMAIN c |-> [c[i] EXCEPT !.auto = FALSE]]

-----------------------------------------------------------------------------
Active == chain # << >>
Activate == pane' = [shown |-> TRUE, ticks |-> 1]
Deactivate == pane' = [pane EXCEPT !.shown = FALSE]

exitRidealong(s) ==
    /\ chain' = << >> /\ Deactivate
    /\ dot' = before /\ story' = s

\* The menu is shown at the step that is next, or the ridealong is over.
Shows(c, s) ==
    IF c = << >> THEN exitRidealong([s EXCEPT !.over = TRUE])
    ELSE chain' = c /\ Activate /\ dot' = "ridealong" /\ story' = s

\* A job leaves for its process: panel and dot are hidden until it is done.
Leaves(job) ==
    /\ underway' = [underway EXCEPT ![job] = @ + 1]
    /\ Deactivate /\ dot' = "inactive"

Room == FoldFunction(+, 0, underway) < MaxPending

\* advanceRidealong and enterDiveStep, with left still under way: after a
\* failure the step is reviewed, unless a dive has been entered.
GoesOn(c, failed, s, left) ==
    LET n == Settled[c] IN
    IF /\ failed \/ Skips[c]
       /\ n # << >> /\ Last(n).at > 1 /\ Last(n).debug /\ Last(n).propose
    THEN /\ FoldFunction(+, 0, left) < MaxPending
         /\ underway' = [left EXCEPT !["side"] = @ + 1]
         /\ chain' = n /\ story' = s
         /\ Deactivate /\ dot' = "inactive"
    ELSE Shows(n, s) /\ underway' = left

executeRidealongCommand(s) ==
    /\ Room
    /\ IF Exhausted(Top) THEN exitRidealong([s EXCEPT !.regular = FALSE]) /\ UNCHANGED underway
       ELSE IF IsDiveStep(Top) THEN GoesOn(chain, FALSE, s, underway)
       ELSE /\ Leaves("cmd") /\ UNCHANGED chain
            /\ story' = IF s.regular /\ underway["cmd"] = 0
                        THEN [s EXCEPT !.ran = Append(@, <<Top.file, Top.at>>)]
                        ELSE [s EXCEPT !.regular = FALSE, !.ran = << >>]

\* What exitRidealong goes back to.
Restored == IF dot \in {"connected", "local"} THEN dot ELSE "idle"

\* executeCommandCore: "ridealong [--debug] [--waypoint NAME] <file>".
Starts(f, at, debug) ==
    /\ IF Active THEN dot = "connected" ELSE dot # "ridealong"
    /\ ~hasCycle(f) /\ Rides[f] # << >>
    /\ at = 1 \/ at \in Waypoints[f]
    /\ chain' = <<NewRidealong(f, at, debug)>> /\ before' = Restored /\ dot' = "ridealong"
    /\ Activate
    /\ story' = [root |-> f, ran |-> << >>, regular |-> at = 1 /\ underway["cmd"] = 0,
                 failed |-> FALSE, over |-> FALSE]
    /\ UNCHANGED underway

-----------------------------------------------------------------------------
\* What the operator can ask for, by a key or from LR.
Reacted == [story EXCEPT !.failed = FALSE]
Astray == [Reacted EXCEPT !.regular = FALSE, !.ran = << >>]

Autoplays == IF Top.auto THEN AutoplayDeactivate(chain) ELSE OnTop(chain, [Top EXCEPT !.auto = TRUE])

Jump(w) ==
    /\ w \in Waypoints[Top.file]
    /\ LET c == OnTop(chain, [Top EXCEPT !.at = w])
       IN  IF IsDiveStep(Last(c)) THEN GoesOn(c, FALSE, Astray, underway)
           ELSE /\ chain' = c /\ Activate /\ dot' = "ridealong" /\ story' = Astray
                /\ UNCHANGED underway

Asked ==
    \/ executeRidealongCommand(Reacted)
    \/ exitRidealong([Astray EXCEPT !.over = FALSE]) /\ UNCHANGED underway
    \/ \E w \in Waypoints[Top.file] : Jump(w)
    \/ Room /\ Leaves("side") /\ UNCHANGED chain /\ story' = Reacted

\* handleRidealongKey: whatever the dot shows; the menu leaves the debug items
\* out while a fix is under way.
OffersDebug(r) == r.debug /\ ~r.fixing
Reviews == Room /\ Leaves("side") /\ UNCHANGED chain

handleRidealongKey ==
    /\ Active
    /\ \/ Asked
       \/ /\ chain' = Autoplays /\ story' = Reacted /\ UNCHANGED <<pane, dot, underway>>
       \/ /\ OffersDebug(Top)
          /\ Reviews /\ story' = Reacted
       \/ /\ OffersDebug(Top)  \* as reviewed, or the last step
          /\ Room /\ Leaves("side") /\ story' = Reacted
          /\ chain' = OnTop(chain, [Top EXCEPT !.fixing = TRUE])
       \/ /\ OffersDebug(Top)
          /\ chain' = OnTop(chain, [Top EXCEPT !.propose = ~@])
          /\ story' = Reacted /\ UNCHANGED <<pane, dot, underway>>
    /\ UNCHANGED before

\* handleRidealongRemoteCmd: behind the gate of reprRemoteCmdMsg.
handleRidealongRemoteCmd ==
    /\ Active /\ dot \in {"connected", "ridealong"}
    /\ \/ Asked
       \/ chain' = Autoplays /\ Activate /\ story' = Reacted /\ UNCHANGED <<dot, underway>>
    /\ UNCHANGED before

-----------------------------------------------------------------------------
\* A tick of the pane: a chain ends when the pane is hidden; autoplay's
\* countdown, when it has passed, executes the step.
Tick ==
    /\ pane.ticks > 0
    /\ \/ /\ ~pane.shown /\ pane' = [pane EXCEPT !.ticks = @ - 1]
          /\ UNCHANGED <<chain, dot, underway, story>>
       \/ /\ pane.shown /\ Active /\ Top.auto
          /\ executeRidealongCommand(story)
    /\ UNCHANGED before

Done(job) == underway[job] > 0 /\ underway' = [underway EXCEPT ![job] = @ - 1]

\* A command is done: a failure ends autoplay all the way up, and asks for a
\* review where fixes are proposed.
CommandDone(ok) ==
    /\ underway["cmd"] > 0
    /\ LET c == IF ok THEN chain ELSE AutoplayDeactivate(chain)
           s == IF ok THEN story ELSE [story EXCEPT !.failed = TRUE]
       IN  IF ~Active THEN Done("cmd") /\ UNCHANGED <<chain, dot, pane, story>>
           ELSE GoesOn(StepOn(c), ~ok, s, [underway EXCEPT !["cmd"] = @ - 1])
    /\ UNCHANGED before

\* Reviews, fixes and custom commands come back to the menu, shown even when
\* the ridealong has been left meanwhile.
BackToMenu ==
    /\ Done("side") /\ Activate /\ dot' = "ridealong"
    /\ UNCHANGED <<chain, before, story>>

\* The connection's own messages, and the input's, do not ask for a ridealong.
LinkComesUp ==
    /\ dot \notin {"connected", "local"} /\ dot' \in {"connected", "local"}
    /\ UNCHANGED <<chain, before, pane, underway, story>>

LinkDrops ==
    /\ dot \in {"connected", "local"} /\ dot' = "idle"
    /\ UNCHANGED <<chain, before, pane, underway, story>>

Typing ==
    /\ ~Active /\ dot \in {"idle", "ridealong", "inactive"}
    /\ dot' \in {"idle", "inactive"}
    /\ UNCHANGED <<chain, before, pane, underway, story>>

RidealongNext ==
    \/ handleRidealongKey \/ handleRidealongRemoteCmd \/ Tick \/ BackToMenu
    \/ LinkComesUp \/ LinkDrops \/ Typing
    \/ \E f \in Files, debug \in BOOLEAN : \E at \in {1} \cup Waypoints[f] : Starts(f, at, debug)
    \/ \E ok \in BOOLEAN : CommandDone(ok)

-----------------------------------------------------------------------------
\* The commands run are the first ones of the depth-first order, and all of
\* them when the ridealong ends by itself: whatever dives, failures, custom
\* commands, reviews, ticks left over and connections come between, unless a
\* step is jumped to or asked for while the command before it is under way.
\* No file is inside itself, and after a command that failed nothing runs
\* until the operator reacts.
RideInOrder ==
    /\ story.regular =>
         /\ IsPrefix(story.ran, Flat[story.root])
         /\ story.over => story.ran = Flat[story.root]
    /\ \A i, j \in DOMAIN chain : chain[i].file = chain[j].file => i = j
    /\ story.failed => \A i \in DOMAIN chain : ~chain[i].auto
=============================================================================
