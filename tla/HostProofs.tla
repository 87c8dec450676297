------------------------------ MODULE HostProofs ------------------------------
(***************************************************************************)
(* Services of a host, proved right for any number of operations, failures *)
(* and launches: slopspaces as directories, what a control sequence asks   *)
(* of other nodes, and the library of control sequences.  Each has an      *)
(* inductive invariant, which says what its property leaves out.  That     *)
(* slopspaces are intact says nothing of one while a call is under way,    *)
(* when its tree, its marker and its metadata disagree: it is what each    *)
(* stage of a call has done so far that makes the next one right.  That an *)
(* answer is for the request it is taken for, or a run of the sequence it  *)
(* is taken for, comes of names and revs that are not given twice, over    *)
(* all that is still under way or remembered.                              *)
(***************************************************************************)
EXTENDS MCSharedServices, FiniteSetTheorems, SequenceTheorems, TLAPS

-----------------------------------------------------------------------------
(***************************************************************************)
(* Slopspaces.  As long as no two calls have overlapped and none was cut   *)
(* off half way, at most one is under way, and the trees are where it has  *)
(* put them so far.                                                        *)
(***************************************************************************)
CallOps == {"none", "create", "deploy", "return", "delete", "write", "add"}
CallStages == {"none", "clear", "move", "mark", "restore", "save", "remove", "open", "close",
               "copy", "secure"}
TurnStages == {"queued", "synced", "deployed", "signalled", "returned", "over"}

Directories == [meta : {"none", "stored", "deployed"}, root : BOOLEAN, read : BOOLEAN,
                tree : 0 .. MaxSpaces, git : {"none", "secure", "tree"}]
DeployPaths == [read : BOOLEAN, tree : 0 .. MaxSpaces, marker : 0 .. MaxSpaces]

CallStates == [op : CallOps, at : CallStages, id : 0 .. MaxSpaces]
TurnStates == [stage : TurnStages, deployed : BOOLEAN, error : BOOLEAN]
AgentStates == [at : {"none", "taken", "made", "running", "ended", "dead"}, id : 0 .. MaxSpaces,
                own : BOOLEAN, for : {"turn", "command"}]
AmissStates == [overlapped : BOOLEAN, cut : BOOLEAN, raced : BOOLEAN]

SlopspacesTyped ==
    /\ stored \in [Spaces -> Directories]
    /\ path \in DeployPaths
    /\ hands \in [Hands -> CallStates]
    /\ turn \in TurnStates
    /\ signal \in [{"turn", "command"} -> {"none", "pending", "processing", "done"}]
    /\ agent \in AgentStates
    /\ amiss \in AmissStates
    /\ clicks \in 0 .. MaxClicks /\ halts \in 0 .. MaxHalts

\* A call is at a stage of its own operation, on a slopspace.
InItsStage(c) ==
    /\ c.id \in Spaces
    /\ c.op \in CallOps \ {"none"}
    /\ c.op = "create" => c.at = "save"
    /\ c.op = "deploy" => c.at \in {"clear", "move", "mark", "save"}
    /\ c.op = "return" => c.at \in {"clear", "move", "restore", "save"}
    /\ c.op = "delete" => c.at \in {"clear", "move", "restore", "save", "remove"}
    /\ c.op = "write" => c.at \in {"open", "close"}
    /\ c.op = "add" => c.at \in {"copy", "secure"}

\* The turn and the worker make the calls they have a use for where they stand.
TurnCalls ==
    Busy("turn") =>
        \/ hands["turn"].op = "write" /\ turn.stage \in {"queued", "returned"}
        \/ hands["turn"].op = "deploy" /\ turn.stage = "synced"
        \/ hands["turn"].op = "return" /\ turn.stage = "signalled" /\ signal["turn"] = "done"

WorkerCalls ==
    /\ Busy("worker") =>
          \/ hands["worker"].op = "create" /\ agent.at = "taken"
          \/ hands["worker"].op = "deploy" /\ agent.at = "made"
          \/ hands["worker"].op = "return" /\ agent.at = "ended"
    /\ hands["worker"].op \in {"create", "deploy"} => agent.id = hands["worker"].id
    /\ agent.at \in {"made", "running"} \/ agent.own => agent.id \in Spaces

CallsFit ==
    /\ \A h \in Hands : Busy(h) => InItsStage(hands[h])
    /\ TurnCalls /\ WorkerCalls

\* The signal of the turn is made once, and is the worker's until it is done.
SignalsFit ==
    /\ signal["turn"] # "none" => turn.stage \in {"signalled", "returned", "over"}
    /\ turn.stage \in {"returned", "over"} => signal["turn"] = "done"
    /\ agent.at \in {"taken", "made", "running", "ended"} /\ agent.for = "turn" =>
          signal["turn"] = "processing"

Undisturbed == ~amiss.overlapped /\ ~amiss.cut

OneAtATime == \A g, h \in Hands : Under(g) /\ Under(h) => g = h

\* A slopspace at rest: its tree is its own, in its directory or deployed.
InPlace(i) ==
    LET s == stored[i] IN
    /\ s.meta = "none" => s.git = "none"
    /\ s.meta = "stored" => s.root /\ s.read /\ s.tree = i /\ s.git # "tree"
    /\ s.meta = "deployed" => s.root /\ s.tree = 0 /\ s.git # "tree"

OnlyDeployed(m) == \A i \in Spaces : stored[i].meta = "deployed" <=> i = m
NoneDeployed == \A i \in Spaces : stored[i].meta # "deployed"

PathClear == path.tree = 0 /\ path.marker = 0 /\ NoneDeployed

PathHolds(m) == m \in Spaces /\ path.tree = m /\ path.marker = m /\ OnlyDeployed(m)

PathAtRest == PathClear \/ PathHolds(path.marker)

AllAtRest == PathAtRest /\ \A i \in Spaces : InPlace(i)

\* Its tree is out of its directory, and its metadata not written yet.
Leaving(i) ==
    /\ stored[i].root /\ stored[i].meta = "stored" /\ stored[i].tree = 0 /\ stored[i].git # "tree"
    /\ path.tree = i /\ NoneDeployed

\* Its tree is in its directory again, and its metadata not written yet.
ComingBack(i) ==
    /\ stored[i].root /\ stored[i].tree = i /\ stored[i].git # "tree"
    /\ path.tree = 0 /\ OnlyDeployed(i)

\* Its .git is in its tree.
GitOut(i) ==
    /\ stored[i].root /\ stored[i].meta = "stored" /\ stored[i].read
    /\ stored[i].tree = i /\ stored[i].git = "tree"

\* How far each call has come.
CreateFits(c) == AllAtRest /\ stored[c.id].root /\ stored[c.id].meta = "none"
                           /\ stored[c.id].read /\ stored[c.id].tree = c.id
DeployFits(c) ==
    /\ c.at = "clear" => AllAtRest /\ PathClear
    /\ c.at = "move" => AllAtRest /\ PathClear /\ stored[c.id].meta = "stored"
    /\ c.at = "mark" => Leaving(c.id) /\ path.marker = 0
    /\ c.at = "save" => Leaving(c.id) /\ path.marker = c.id
ReturnFits(c) ==
    /\ c.at = "clear" => AllAtRest
    /\ c.at = "move" => AllAtRest /\ stored[c.id].meta = "deployed"
    /\ c.at = "restore" => ComingBack(c.id) /\ path.marker = c.id
    /\ c.at = "save" => ComingBack(c.id) /\ path.marker = 0 /\ stored[c.id].read
    /\ c.at = "remove" => AllAtRest /\ stored[c.id].meta = "stored"
GitFits(c) ==
    /\ c.at \in {"open", "copy"} => AllAtRest
    /\ c.at \in {"close", "secure"} => PathAtRest /\ GitOut(c.id)

SoFar(c) ==
    /\ c.op = "create" => CreateFits(c)
    /\ c.op = "deploy" => DeployFits(c)
    /\ c.op \in {"return", "delete"} => ReturnFits(c)
    /\ c.op \in {"write", "add"} => GitFits(c)
    /\ \A j \in Spaces \ {c.id} : InPlace(j)

\* Between looking at the deploy path and deploying nothing comes to it.
StillFree ==
    /\ turn.stage = "synced" /\ ~Busy("turn") => path.marker = 0
    /\ turn.stage = "queued" /\ Busy("turn") => path.marker = 0
    /\ agent.at = "made" /\ ~Busy("worker") => path.marker = 0
    /\ hands["worker"].op = "create" => path.marker = 0

TreesFit ==
    /\ OneAtATime /\ StillFree
    /\ \A h \in Hands : Busy(h) => SoFar(hands[h])
    /\ (\A h \in Hands : ~Busy(h)) => AllAtRest

\* Neither the panel nor the turn takes a slopspace away while the turn's
\* signal is not done, and the agent has the one it was sent to.
AgentFits ==
    /\ signal["turn"] \in {"pending", "processing"} =>
          /\ ~Busy("turn")
          /\ hands["panel"].op \in {"return", "delete"} => hands["panel"].at = "remove"
    /\ agent.at = "running" /\ agent.for = "turn" =>
          path.tree = agent.id /\ path.marker = agent.id

SlopspacesInv ==
    /\ SlopspacesTyped /\ CallsFit /\ SignalsFit
    /\ Undisturbed => TreesFit
    /\ Undisturbed /\ ~amiss.raced => AgentFits
\* No call but the one that is under way is.
LEMMA Alone ==
  ASSUME TreesFit, NEW h \in Hands, Under(h)
  PROVE  \A o \in Hands \ {h} : ~Under(o) /\ ~Busy(o)
BY DEF TreesFit, OneAtATime, Under

\* A call that goes on is of its caller and at a stage of its own.
LEMMA GoesFit ==
  ASSUME SlopspacesTyped, CallsFit, SignalsFit, NEW h \in Hands, Busy(h), NEW at \in CallStages,
         Goes(h, at), InItsStage([hands[h] EXCEPT !.at = at]), UNCHANGED <<turn, agent, signal>>
  PROVE  /\ hands' \in [Hands -> CallStates]
         /\ hands'[h].op = hands[h].op /\ hands'[h].id = hands[h].id /\ hands'[h].at = at
         /\ \A g \in Hands : g # h => hands'[g] = hands[g]
         /\ \A g \in Hands : (Busy(g)' <=> Busy(g)) /\ (Under(g)' <=> Under(g))
         /\ CallsFit' /\ SignalsFit'
<1>1. hands' \in [Hands -> CallStates]
  BY DEF SlopspacesTyped, CallStates, Goes
<1>2. hands'[h] = [hands[h] EXCEPT !.at = at] /\ \A g \in Hands : g # h => hands'[g] = hands[g]
  BY DEF SlopspacesTyped, Goes
<1>3. hands'[h].op = hands[h].op /\ hands'[h].id = hands[h].id /\ hands'[h].at = at
  BY <1>2 DEF SlopspacesTyped
<1>4. \A g \in Hands : (Busy(g)' <=> Busy(g)) /\ (Under(g)' <=> Under(g))
  BY <1>2, <1>3 DEF Busy, Under
<1>5. \A g \in Hands : hands'[g].op = hands[g].op /\ hands'[g].id = hands[g].id
  BY <1>2, <1>3
<1>6. CallsFit'
  <2>1. \A g \in Hands : Busy(g)' => InItsStage(hands[g])'
    BY <1>2, <1>4 DEF CallsFit, InItsStage
  <2>2. TurnCalls' /\ WorkerCalls'
    BY <1>4, <1>5 DEF CallsFit, TurnCalls, WorkerCalls, Hands
  <2> QED BY <2>1, <2>2 DEF CallsFit
<1> QED BY <1>1, <1>2, <1>3, <1>4, <1>6 DEF SignalsFit

\* What a call that goes on leaves is as far as it says.
LEMMA GoesTrees ==
  ASSUME SlopspacesTyped, CallsFit, SignalsFit, TreesFit,
         NEW h \in Hands, Busy(h), NEW at \in CallStages,
         Goes(h, at), InItsStage([hands[h] EXCEPT !.at = at]), UNCHANGED <<turn, agent, signal>>,
         hands[h].op \in {"write", "create"} => path' = path,
         SoFar(hands[h])'
  PROVE  TreesFit'
<1>1. /\ \A g \in Hands : g # h => hands'[g] = hands[g]
      /\ \A g \in Hands : (Busy(g)' <=> Busy(g)) /\ (Under(g)' <=> Under(g))
      /\ hands'[h].op = hands[h].op
  BY GoesFit
<1>2. \A o \in Hands \ {h} : ~Under(o) /\ ~Busy(o)
  BY Alone DEF Under
<1>3. OneAtATime'
  BY <1>1, <1>2 DEF OneAtATime
<1>4. StillFree'
  <2>1. ~(turn.stage = "synced" /\ ~Busy("turn")) /\ ~(agent.at = "made" /\ ~Busy("worker"))
    BY <1>2 DEF Under, Hands
  <2>2. turn.stage = "queued" /\ Busy("turn") => path' = path
    BY <1>2 DEF CallsFit, TurnCalls, Hands
  <2>3. hands["worker"].op = "create" => path' = path
    BY <1>2 DEF Busy, Hands
  <2>4. hands'["worker"].op = hands["worker"].op
    BY <1>1 DEF Hands
  <2> QED BY <1>1, <2>1, <2>2, <2>3, <2>4 DEF StillFree, TreesFit, Hands
<1>5. \A g \in Hands : Busy(g)' => SoFar(hands[g])'
  BY <1>1, <1>2
<1> QED BY <1>1, <1>3, <1>4, <1>5 DEF TreesFit

\* A call that ends leaves its caller where it goes on from.
LEMMA ReturnedFit ==
  ASSUME SlopspacesTyped, CallsFit, SignalsFit, NEW h \in Hands, Busy(h), NEW ok \in BOOLEAN,
         Returned(h, ok), UNCHANGED signal
  PROVE  /\ hands' \in [Hands -> CallStates]
         /\ turn' \in TurnStates
         /\ agent' \in AgentStates
         /\ ~Busy(h)' /\ \A g \in Hands : g # h => hands'[g] = hands[g]
         /\ \A g \in Hands \ {h} : (Busy(g)' <=> Busy(g)) /\ (Under(g)' <=> Under(g))
         /\ CallsFit' /\ SignalsFit'
<1>1. hands' = [hands EXCEPT ![h] = Idle] /\ Idle \in CallStates
  BY SlopspaceFilesAssumption DEF Returned, Idle, CallStates, CallOps, CallStages
<1>2. hands' \in [Hands -> CallStates]
  BY <1>1 DEF SlopspacesTyped
<1>3. hands'[h] = Idle /\ \A g \in Hands : g # h => hands'[g] = hands[g]
  BY <1>1 DEF SlopspacesTyped
<1>4. ~Busy(h)'
  BY <1>3 DEF Busy, Idle
<1>5. /\ turn' \in TurnStates
      /\ h # "turn" => turn' = turn
      /\ turn.stage \in {"signalled", "returned", "over"} => turn'.stage \in {"signalled", "returned", "over"}
  <2>1. CASE h # "turn"
    BY <2>1 DEF Returned, SlopspacesTyped
  <2>2. CASE h = "turn" /\ ~ok
    <3>1. turn' = [turn EXCEPT !.error = TRUE, !.stage = IF @ = "synced" THEN "queued" ELSE @]
      BY <2>2 DEF Returned
    <3> QED BY <2>2, <3>1 DEF SlopspacesTyped, TurnStates, TurnStages
  <2>3. CASE h = "turn" /\ ok
    <3>1. turn.stage \in {"queued", "synced", "signalled", "returned"}
      BY <2>3 DEF CallsFit, TurnCalls
    <3> DEFINE to == CASE turn.stage = "queued" -> "synced"
                       [] turn.stage = "synced" -> "deployed"
                       [] turn.stage = "signalled" -> "returned"
                       [] turn.stage = "returned" -> "over"
    <3>2. turn' = [turn EXCEPT !.stage = to]
      BY <2>3 DEF Returned
    <3>3. to \in {"synced", "deployed", "returned", "over"}
          /\ (turn.stage \in {"signalled", "returned"} => to \in {"returned", "over"})
      BY <3>1
    <3> HIDE DEF to
    <3> QED BY <2>3, <3>1, <3>2, <3>3 DEF SlopspacesTyped, TurnStates, TurnStages
  <2> QED BY <2>1, <2>2, <2>3
<1>6. /\ agent' \in AgentStates
      /\ h # "worker" => agent' = agent
      /\ agent'.id = agent.id /\ agent'.for = agent.for /\ (agent'.own => agent.own)
      /\ h = "worker" => agent'.at \in {"made", "running", "ended"}
  BY DEF Returned, SlopspacesTyped, AgentStates
<1>7. \A g \in Hands \ {h} : (Busy(g)' <=> Busy(g)) /\ (Under(g)' <=> Under(g))
  BY <1>3, <1>5, <1>6 DEF Busy, Under
<1>8. CallsFit'
  <2>1. \A g \in Hands : Busy(g)' => InItsStage(hands[g])'
    BY <1>3, <1>4 DEF CallsFit, InItsStage, Busy
  <2>2. TurnCalls'
    BY <1>3, <1>4, <1>5 DEF CallsFit, TurnCalls, Busy, Hands
  <2>3. WorkerCalls'
    <3>1. CASE h # "worker"
      BY <1>3, <1>6, <3>1 DEF CallsFit, WorkerCalls, Busy, Hands
    <3>2. CASE h = "worker"
      <4>1. hands["worker"].op \in {"create", "deploy"} => agent.id \in Spaces
        BY <3>2 DEF CallsFit, WorkerCalls, InItsStage, Busy
      <4>2. agent'.at \in {"made", "running"} => agent.at # "ended"
        BY <3>2 DEF Returned, SlopspacesTyped
      <4>3. agent'.at \in {"made", "running"} => hands["worker"].op \in {"create", "deploy"}
        BY <3>2, <4>2 DEF CallsFit, WorkerCalls
      <4>4. agent'.at \in {"made", "running"} \/ agent'.own => agent.id \in Spaces
        BY <1>6, <4>1, <4>3 DEF CallsFit, WorkerCalls
      <4> QED BY <1>4, <1>6, <3>2, <4>4 DEF WorkerCalls, Busy
    <3> QED BY <3>1, <3>2
  <2> QED BY <2>1, <2>2, <2>3 DEF CallsFit
<1>9. SignalsFit'
  <2>1. signal["turn"] # "none" => turn'.stage \in {"signalled", "returned", "over"}
    BY <1>5 DEF SignalsFit
  <2>2. agent'.at \in {"taken", "made", "running", "ended"} /\ agent'.for = "turn" => signal["turn"] = "processing"
    <3>1. h = "worker" => agent.at \in {"taken", "made", "ended"}
      BY DEF CallsFit, WorkerCalls
    <3> QED BY <1>6, <3>1 DEF SignalsFit
  <2>3. turn'.stage \in {"returned", "over"} => signal["turn"] = "done"
    <3>1. CASE h # "turn"
      BY <1>5, <3>1 DEF SignalsFit
    <3>2. CASE h = "turn" /\ ~ok
      <4>1. turn' = [turn EXCEPT !.error = TRUE, !.stage = IF @ = "synced" THEN "queued" ELSE @]
        BY <3>2 DEF Returned
      <4> QED BY <4>1 DEF SlopspacesTyped, SignalsFit
    <3>3. CASE h = "turn" /\ ok
      <4>1. turn.stage \in {"queued", "synced", "signalled", "returned"}
            /\ (turn.stage = "signalled" => signal["turn"] = "done")
        BY <3>3 DEF CallsFit, TurnCalls
      <4> DEFINE to == CASE turn.stage = "queued" -> "synced"
                         [] turn.stage = "synced" -> "deployed"
                         [] turn.stage = "signalled" -> "returned"
                         [] turn.stage = "returned" -> "over"
      <4>2. turn' = [turn EXCEPT !.stage = to]
        BY <3>3 DEF Returned
      <4>3. to \in {"returned", "over"} => turn.stage \in {"signalled", "returned"}
        BY <4>1
      <4> HIDE DEF to
      <4>4. turn'.stage = to
        BY <4>2 DEF SlopspacesTyped
      <4> QED BY <4>1, <4>3, <4>4 DEF SignalsFit
    <3> QED BY <3>1, <3>2, <3>3
  <2> QED BY <2>1, <2>2, <2>3 DEF SignalsFit
<1> QED BY <1>2, <1>3, <1>4, <1>5, <1>6, <1>7, <1>8, <1>9

\* After it, nothing is under way.
LEMMA ReturnedTrees ==
  ASSUME SlopspacesTyped, CallsFit, SignalsFit, TreesFit,
         NEW h \in Hands, Busy(h), NEW ok \in BOOLEAN,
         Returned(h, ok), UNCHANGED signal, path'.marker \in {path.marker, 0},
         AllAtRest'
  PROVE  TreesFit'
<1>1. /\ ~Busy(h)'
      /\ \A g \in Hands \ {h} : (Busy(g)' <=> Busy(g)) /\ (Under(g)' <=> Under(g))
  BY ReturnedFit
<1>2. \A o \in Hands \ {h} : ~Under(o) /\ ~Busy(o)
  BY Alone DEF Under
<1>3. \A g \in Hands : ~Busy(g)' /\ (Under(g)' => g = h)
  BY <1>1, <1>2
<1>4. OneAtATime'
  BY <1>3 DEF OneAtATime
<1>5. StillFree'
  <2>1. turn'.stage = "synced" => path'.marker = 0
    <3>1. CASE h # "turn"
      BY <1>3, <3>1 DEF Under, Hands
    <3>2. CASE h = "turn" /\ ~ok
      <4>1. turn' = [turn EXCEPT !.error = TRUE, !.stage = IF @ = "synced" THEN "queued" ELSE @]
        BY <3>2 DEF Returned
      <4> QED BY <4>1 DEF SlopspacesTyped
    <3>3. CASE h = "turn" /\ ok
      <4>1. turn.stage \in {"queued", "synced", "signalled", "returned"}
        BY <3>3 DEF CallsFit, TurnCalls
      <4> DEFINE to == CASE turn.stage = "queued" -> "synced"
                         [] turn.stage = "synced" -> "deployed"
                         [] turn.stage = "signalled" -> "returned"
                         [] turn.stage = "returned" -> "over"
      <4>2. turn' = [turn EXCEPT !.stage = to]
        BY <3>3 DEF Returned
      <4>3. to = "synced" => turn.stage = "queued"
        BY <4>1
      <4> HIDE DEF to
      <4>4. turn'.stage = "synced" => turn.stage = "queued"
        BY <4>2, <4>3 DEF SlopspacesTyped
      <4>5. turn.stage = "queued" => path.marker = 0
        BY <3>3 DEF TreesFit, StillFree
      <4> QED BY <4>4, <4>5
    <3> QED BY <3>1, <3>2, <3>3
  <2>2. agent'.at = "made" => path'.marker = 0
    <3>1. CASE h # "worker"
      BY <1>3, <3>1 DEF Under, Hands
    <3>2. CASE h = "worker"
      <4>1. agent'.at = "made" => hands["worker"].op = "create"
        BY <3>2 DEF Returned, SlopspacesTyped
      <4> QED BY <4>1 DEF TreesFit, StillFree
    <3> QED BY <3>1, <3>2
  <2>3. ~Busy("turn")' /\ ~Busy("worker")'
    BY <1>3 DEF Hands
  <2>4. hands'["worker"].op # "create"
    BY <2>3 DEF Busy
  <2> QED BY <2>1, <2>2, <2>3, <2>4 DEF StillFree
<1> QED BY <1>3, <1>4, <1>5 DEF TreesFit

\* A call that begins is the only one, or overlaps.
LEMMA CallFit ==
  ASSUME SlopspacesTyped, NEW h \in Hands, ~Busy(h),
         NEW op \in CallOps, NEW at \in CallStages, NEW i \in Spaces, Call(h, op, at, i)
  PROVE  /\ hands' \in [Hands -> CallStates]
         /\ amiss' \in AmissStates
         /\ hands'[h].op = op /\ hands'[h].at = at /\ hands'[h].id = i
         /\ \A g \in Hands : g # h => hands'[g] = hands[g]
         /\ amiss'.raced = amiss.raced
         /\ Undisturbed' => Undisturbed /\ \A o \in Hands \ {h} : ~Under(o) /\ ~Busy(o)
         /\ Undisturbed' /\ TreesFit => AllAtRest
<1>1. [op |-> op, at |-> at, id |-> i] \in CallStates
  BY SlopspaceFilesAssumption DEF CallStates, Spaces
<1>2. hands' = [hands EXCEPT ![h] = [op |-> op, at |-> at, id |-> i]]
      /\ amiss' = [amiss EXCEPT !.overlapped = @ \/ \E o \in Hands \ {h} : Under(o)]
  BY DEF Call
<1>3. hands' \in [Hands -> CallStates]
  BY <1>1, <1>2 DEF SlopspacesTyped
<1>4. hands'[h] = [op |-> op, at |-> at, id |-> i] /\ \A g \in Hands : g # h => hands'[g] = hands[g]
  BY <1>2 DEF SlopspacesTyped
<1>5. /\ amiss' \in AmissStates
      /\ amiss'.raced = amiss.raced /\ amiss'.cut = amiss.cut
      /\ amiss'.overlapped <=> (amiss.overlapped \/ \E o \in Hands \ {h} : Under(o))
  BY <1>2 DEF SlopspacesTyped, AmissStates
<1>6. Undisturbed' => Undisturbed /\ \A o \in Hands \ {h} : ~Under(o) /\ ~Busy(o)
  BY <1>5 DEF Undisturbed, Under
<1>7. Undisturbed' /\ TreesFit => AllAtRest
  BY <1>6 DEF TreesFit
<1>8. hands'[h].op = op /\ hands'[h].at = at /\ hands'[h].id = i
  BY <1>4
<1> QED BY <1>3, <1>4, <1>5, <1>6, <1>7, <1>8

\* It begins where nothing else is under way.
LEMMA CallTrees ==
  ASSUME SlopspacesTyped, CallsFit, TreesFit, NEW h \in Hands, ~Busy(h),
         NEW op \in CallOps \ {"none"}, NEW at \in CallStages, NEW i \in Spaces, Call(h, op, at, i),
         UNCHANGED <<path, turn>>, Undisturbed',
         agent'.at = agent.at \/ (h = "worker" /\ agent'.at # "made"),
         turn.stage = "queued" /\ h = "turn" => path.marker = 0,
         op = "create" /\ h = "worker" => path.marker = 0,
         SoFar(hands[h])'
  PROVE  TreesFit'
<1>1. /\ hands'[h].op = op
      /\ \A g \in Hands : g # h => hands'[g] = hands[g]
      /\ \A o \in Hands \ {h} : ~Under(o) /\ ~Busy(o)
  BY CallFit
<1>2. \A g \in Hands : g # h => ~Under(g)' /\ ~Busy(g)'
  BY <1>1 DEF Under, Busy
<1>3. Busy(h)'
  BY <1>1 DEF Busy
<1>4. OneAtATime'
  BY <1>2 DEF OneAtATime
<1>5. StillFree'
  <2>1. ~(turn.stage = "synced" /\ ~Busy("turn")') /\ ~(agent'.at = "made" /\ ~Busy("worker")')
    BY <1>2, <1>3 DEF Under, Hands
  <2>2. Busy("turn")' => h = "turn"
    BY <1>2 DEF Hands
  <2>3. hands'["worker"].op = "create" => h = "worker" /\ op = "create"
    BY <1>1, <1>2 DEF Busy, Hands
  <2> QED BY <2>1, <2>2, <2>3 DEF StillFree
<1>6. \A g \in Hands : Busy(g)' => SoFar(hands[g])'
  BY <1>2
<1> QED BY <1>3, <1>4, <1>5, <1>6 DEF TreesFit

-----------------------------------------------------------------------------
\* No call moves a tree while the agent of a turn works.
LEMMA NoMove ==
  ASSUME CallsFit, SignalsFit, TreesFit, AgentFits, NEW h \in Hands, Busy(h),
         hands[h].op \in {"deploy", "return", "delete"},
         hands[h].at \in {"clear", "move", "mark", "restore"}
  PROVE  ~(agent.at = "running" /\ agent.for = "turn")
<1> SUFFICES ASSUME agent.at = "running", agent.for = "turn" PROVE FALSE
  OBVIOUS
<1>1. CASE h = "worker"
  BY <1>1 DEF CallsFit, WorkerCalls
<1>2. CASE h = "turn"
  BY <1>2 DEF SignalsFit, AgentFits
<1>3. CASE h = "panel"
  <2>1. signal["turn"] = "processing" /\ hands[h].op = "deploy"
    BY <1>3 DEF SignalsFit, AgentFits
  <2>2. path.marker = agent.id /\ agent.id \in Spaces
    BY DEF AgentFits, CallsFit, WorkerCalls
  <2>3. path.marker = 0
    BY <2>1 DEF CallsFit, InItsStage, TreesFit, SoFar, DeployFits, PathClear
  <2> QED BY <2>2, <2>3, SlopspaceFilesAssumption DEF Spaces
<1> QED BY <1>1, <1>2, <1>3 DEF Hands

\* A call that goes on to its next stage keeps the invariant, when what the
\* stages before have done is so of the next.
LEMMA GoesInv ==
  ASSUME SlopspacesInv, NEW h \in Hands, Busy(h), NEW at \in CallStages,
         Goes(h, at), InItsStage([hands[h] EXCEPT !.at = at]),
         UNCHANGED <<turn, agent, signal, amiss, clicks, halts>>,
         stored' \in [Spaces -> Directories], path' \in DeployPaths,
         hands[h].at # "remove",
         \/ path' = path
         \/ /\ hands[h].op \in {"deploy", "return", "delete"}
            /\ hands[h].at \in {"clear", "move", "mark", "restore"},
         Undisturbed => SoFar(hands[h])'
  PROVE  SlopspacesInv'
<1>1. /\ hands' \in [Hands -> CallStates]
      /\ hands'[h].op = hands[h].op /\ hands'[h].at = at
      /\ \A g \in Hands : g # h => hands'[g] = hands[g]
      /\ \A g \in Hands : (Busy(g)' <=> Busy(g)) /\ (Under(g)' <=> Under(g))
      /\ CallsFit' /\ SignalsFit'
  BY GoesFit DEF SlopspacesInv
<1>2. SlopspacesTyped'
  BY <1>1 DEF SlopspacesInv, SlopspacesTyped
<1>3. Undisturbed' => TreesFit'
  <2>1. Undisturbed' => Undisturbed /\ TreesFit
    BY DEF SlopspacesInv, Undisturbed
  <2>2. hands[h].op \in {"write", "create"} => path' = path
    OBVIOUS
  <2> QED BY <2>1, <2>2, GoesTrees DEF SlopspacesInv
<1>4. ASSUME Undisturbed', ~amiss'.raced PROVE AgentFits'
  <2>1. Undisturbed /\ TreesFit /\ AgentFits
    BY <1>4 DEF SlopspacesInv, Undisturbed
  <2>2. signal["turn"] \in {"pending", "processing"} => ~Busy("turn")'
    BY <1>1, <2>1 DEF AgentFits, Hands
  <2>3. signal["turn"] \in {"pending", "processing"} /\ hands'["panel"].op \in {"return", "delete"} =>
            hands'["panel"].at = "remove"
    <3>1. "panel" \in Hands
      BY DEF Hands
    <3>2. CASE h = "panel"
      BY <1>1, <2>1, <3>2 DEF AgentFits
    <3>3. CASE h # "panel"
      BY <1>1, <2>1, <3>1, <3>3 DEF AgentFits
    <3> QED BY <3>2, <3>3
  <2>4. agent.at = "running" /\ agent.for = "turn" => path' = path
    BY <2>1, NoMove DEF SlopspacesInv
  <2> QED BY <2>1, <2>2, <2>3, <2>4 DEF AgentFits
<1> QED BY <1>1, <1>2, <1>3, <1>4 DEF SlopspacesInv

\* A call that ends keeps the invariant, when it leaves everything at rest or
\* is cut off.
LEMMA ReturnedInv ==
  ASSUME SlopspacesInv, NEW h \in Hands, Busy(h), NEW ok \in BOOLEAN,
         Returned(h, ok), UNCHANGED <<signal, clicks, path>>,
         stored' \in [Spaces -> Directories], halts' \in 0 .. MaxHalts,
         \/ amiss' = amiss /\ (Undisturbed => AllAtRest')
         \/ CutOff,
         ok /\ h = "worker" /\ hands[h].op = "deploy" => hands[h].at = "save"
  PROVE  SlopspacesInv'
<1>1. /\ hands' \in [Hands -> CallStates]
      /\ turn' \in TurnStates
      /\ agent' \in AgentStates
      /\ ~Busy(h)' /\ \A g \in Hands : g # h => hands'[g] = hands[g]
      /\ CallsFit' /\ SignalsFit'
  BY ReturnedFit DEF SlopspacesInv
<1>2. /\ amiss' \in AmissStates
      /\ Undisturbed' => amiss' = amiss
  BY DEF SlopspacesInv, SlopspacesTyped, AmissStates, CutOff, Undisturbed
<1>3. SlopspacesTyped'
  BY <1>1, <1>2 DEF SlopspacesInv, SlopspacesTyped
<1>4. Undisturbed' => TreesFit'
  <2>1. Undisturbed' => Undisturbed /\ TreesFit /\ AllAtRest'
    BY <1>2 DEF SlopspacesInv, Undisturbed, CutOff, SlopspacesTyped, AmissStates
  <2> QED BY <2>1, ReturnedTrees DEF SlopspacesInv
<1>5. ASSUME Undisturbed', ~amiss'.raced PROVE AgentFits'
  <2>1. Undisturbed /\ TreesFit /\ AgentFits
    BY <1>2, <1>5 DEF SlopspacesInv, Undisturbed
  <2>2. /\ signal["turn"] \in {"pending", "processing"} => ~Busy("turn")'
        /\ signal["turn"] \in {"pending", "processing"} /\ hands'["panel"].op \in {"return", "delete"} =>
              hands'["panel"].at = "remove"
    <3>1. "panel" \in Hands /\ "turn" \in Hands
      BY DEF Hands
    <3> QED BY <1>1, <2>1, <3>1 DEF AgentFits, Busy
  <2>3. agent'.at = "running" /\ agent'.for = "turn" => path.tree = agent'.id /\ path.marker = agent'.id
    <3>1. CASE h # "worker"
      BY <2>1, <3>1 DEF AgentFits, Returned
    <3>2. CASE h = "worker"
      <4>1. agent'.at = "running" => ok /\ agent.at # "ended" /\ hands[h].op # "create" /\ agent'.id = agent.id
        BY <3>2 DEF Returned, SlopspacesInv, SlopspacesTyped
      <4>2. agent'.at = "running" => hands[h].op = "deploy" /\ agent.id = hands[h].id /\ hands[h].at = "save"
        BY <3>2, <4>1 DEF SlopspacesInv, CallsFit, WorkerCalls
      <4>3. hands[h].op = "deploy" /\ hands[h].at = "save" => path.tree = hands[h].id /\ path.marker = hands[h].id
        BY <2>1 DEF TreesFit, SoFar, DeployFits, Leaving
      <4> QED BY <4>1, <4>2, <4>3
    <3> QED BY <3>1, <3>2
  <2> QED BY <2>2, <2>3 DEF AgentFits
<1> QED BY <1>1, <1>3, <1>4, <1>5 DEF SlopspacesInv

-----------------------------------------------------------------------------
\* Reading a directory again leaves it a directory.
LEMMA ReadAgain ==
  ASSUME NEW s \in Directories
  PROVE  [s EXCEPT !.read = TRUE] \in Directories
BY DEF Directories

\* A directory made for a slopspace has its tree, and no more metadata than before.
LEMMA MadeSpace ==
  ASSUME NEW s \in Directories, NEW i \in 0 .. MaxSpaces
  PROVE  LET n == [s EXCEPT !.root = TRUE, !.read = TRUE, !.tree = i] IN
         /\ n \in Directories
         /\ n.meta = s.meta /\ n.git = s.git /\ n.root /\ n.read /\ n.tree = i
BY DEF Directories

\* Nothing is destroyed where there is no tree.
LEMMA NoneDestroyed ==
  ASSUME SlopspacesTyped, NEW trees
  PROVE  /\ Destroyed(stored, trees) \in [Spaces -> Directories]
         /\ trees = {0} => Destroyed(stored, trees) = stored
<1>1. \A i \in Spaces : [stored[i] EXCEPT !.git = "none"] \in Directories
  BY DEF SlopspacesTyped, Directories
<1>2. Destroyed(stored, trees) \in [Spaces -> Directories]
  BY <1>1 DEF Destroyed, SlopspacesTyped
<1>3. trees = {0} => Destroyed(stored, trees) = stored
  BY SlopspaceFilesAssumption DEF Destroyed, SlopspacesTyped, Spaces
<1> QED BY <1>2, <1>3

\* The facts about a call that is under way.
LEMMA UnderWay ==
  ASSUME SlopspacesInv, NEW h \in Hands, Busy(h)
  PROVE  /\ SlopspacesTyped /\ InItsStage(hands[h])
         /\ hands[h].id \in Spaces /\ stored[hands[h].id] \in Directories
         /\ Undisturbed => TreesFit /\ SoFar(hands[h])
BY DEF SlopspacesInv, CallsFit, InItsStage, TreesFit, SlopspacesTyped

\* The metadata of a new slopspace is saved.
LEMMA OnSaveNew ==
  ASSUME SlopspacesInv, NEW h \in Hands, SaveNew(h) PROVE SlopspacesInv'
<1> DEFINE i == hands[h].id
<1>1. Busy(h) /\ hands[h].op = "create" /\ hands[h].at = "save"
  BY DEF SaveNew, Busy
<1>2. i \in Spaces /\ SlopspacesTyped /\ (Undisturbed => CreateFits(hands[h]))
  BY <1>1, UnderWay DEF SoFar
<1>3. CASE stored' = [stored EXCEPT ![i].meta = "stored"] /\ Returned(h, TRUE) /\ Whole
  <2>1. stored' \in [Spaces -> Directories]
    BY <1>2, <1>3 DEF SlopspacesTyped, Directories
  <2>2. Undisturbed => AllAtRest'
    BY <1>2, <1>3 DEF SaveNew, SlopspacesTyped, Directories, CreateFits, AllAtRest, PathAtRest,
          PathClear, PathHolds, NoneDeployed, OnlyDeployed, InPlace
  <2> QED BY <1>1, <1>2, <1>3, <2>1, <2>2, ReturnedInv DEF SaveNew, Whole, SlopspacesTyped
<1>4. CASE Halts /\ Returned(h, FALSE) /\ UNCHANGED stored
  <2>1. Undisturbed => AllAtRest'
    BY <1>2, <1>4 DEF SaveNew, CreateFits, AllAtRest, PathAtRest, PathClear, PathHolds, NoneDeployed,
          OnlyDeployed, InPlace
  <2>2. halts' \in 0 .. MaxHalts
    BY <1>2, <1>4, SlopspaceFilesAssumption DEF SlopspacesTyped, Halts
  <2> QED BY <1>1, <1>2, <1>4, <2>1, <2>2, ReturnedInv DEF SaveNew, SlopspacesTyped
<1> QED BY <1>3, <1>4 DEF SaveNew

\* Where nothing has moved, what was at rest is.
LEMMA RestKept ==
  ASSUME stored' = stored, path'.tree = path.tree, path'.marker = path.marker
  PROVE  /\ AllAtRest => AllAtRest'
         /\ PathClear => PathClear'
         /\ PathAtRest => PathAtRest'
BY DEF AllAtRest, PathAtRest, PathClear, PathHolds, NoneDeployed, OnlyDeployed, InPlace

\* Stops are counted up to their bound.
LEMMA HaltsFit ==
  ASSUME SlopspacesTyped, Halts \/ Whole
  PROVE  halts' \in 0 .. MaxHalts
BY SlopspaceFilesAssumption DEF SlopspacesTyped, Halts, Whole

\* A call that fails, or does nothing, with everything at rest.
LEMMA FailsInv ==
  ASSUME SlopspacesInv, NEW h \in Hands, Busy(h), NEW ok \in BOOLEAN, Returned(h, ok),
         UNCHANGED <<stored, path, signal, clicks>>, Halts \/ Whole,
         CutOff \/ (amiss' = amiss /\ (Undisturbed => AllAtRest)),
         ok => hands[h].op # "deploy"
  PROVE  SlopspacesInv'
<1>1. AllAtRest => AllAtRest'
  BY RestKept
<1>2. SlopspacesTyped
  BY DEF SlopspacesInv
<1>3. halts' \in 0 .. MaxHalts /\ stored' \in [Spaces -> Directories]
  BY <1>2, HaltsFit DEF SlopspacesTyped
<1> QED BY <1>1, <1>3, ReturnedInv

\* Deploying: the deploy path is cleared.
LEMMA OnDeployClear ==
  ASSUME SlopspacesInv, NEW h \in Hands, DeployClear(h) PROVE SlopspacesInv'
<1> DEFINE i == hands[h].id
<1>1. Busy(h) /\ hands[h].op = "deploy" /\ hands[h].at = "clear"
  BY DEF DeployClear, Busy
<1>2. /\ i \in Spaces /\ SlopspacesTyped /\ InItsStage(hands[h])
      /\ Undisturbed => AllAtRest /\ PathClear
  BY <1>1, UnderWay DEF SoFar, DeployFits
<1>3. CASE /\ stored[i].meta = "stored"
           /\ path' = [path EXCEPT !.read = FALSE, !.tree = 0]
           /\ stored' = Destroyed(stored, {path.tree})
           /\ Goes(h, "move") /\ UNCHANGED <<turn, agent>>
  <2>1. stored' \in [Spaces -> Directories]
    BY <1>2, <1>3, NoneDestroyed
  <2>2. path' \in DeployPaths /\ path'.tree = 0 /\ path'.marker = path.marker
    <3>1. path' = [read |-> FALSE, tree |-> 0, marker |-> path.marker]
      BY <1>2, <1>3 DEF SlopspacesTyped, DeployPaths
    <3> QED BY <1>2, <3>1, SlopspaceFilesAssumption DEF SlopspacesTyped, DeployPaths
  <2>3. "move" \in CallStages /\ InItsStage([hands[h] EXCEPT !.at = "move"])
    BY <1>1, <1>2 DEF CallStages, InItsStage, SlopspacesTyped
  <2>4. ASSUME Undisturbed PROVE SoFar(hands[h])'
    <3>1. path.tree = 0 /\ stored' = stored
      BY <1>2, <1>3, <2>4, NoneDestroyed DEF PathClear
    <3>2. AllAtRest' /\ PathClear'
      BY <1>2, <2>2, <2>4, <3>1, RestKept
    <3>3. hands'[h].op = "deploy" /\ hands'[h].at = "move" /\ hands'[h].id = i
      BY <1>1, <1>2, <1>3 DEF Goes, SlopspacesTyped
    <3> QED BY <1>3, <3>1, <3>2, <3>3 DEF SoFar, DeployFits, AllAtRest
  <2> QED BY <1>1, <1>3, <2>1, <2>2, <2>3, <2>4, GoesInv DEF DeployClear, Whole
<1>4. CASE Returned(h, FALSE) /\ UNCHANGED <<stored, path>>
  BY <1>1, <1>2, <1>4, FailsInv DEF DeployClear
<1> QED BY <1>3, <1>4 DEF DeployClear

\* Deploying: the tree is moved to the deploy path.
LEMMA OnDeployMove ==
  ASSUME SlopspacesInv, NEW h \in Hands, DeployMove(h) PROVE SlopspacesInv'
<1> DEFINE i == hands[h].id
<1>1. Busy(h) /\ hands[h].op = "deploy" /\ hands[h].at = "move"
  BY DEF DeployMove, Busy
<1>2. /\ i \in Spaces /\ SlopspacesTyped /\ InItsStage(hands[h])
      /\ Undisturbed => AllAtRest /\ PathClear /\ stored[i].meta = "stored"
  BY <1>1, UnderWay DEF SoFar, DeployFits
<1>3. CASE /\ stored[i].tree # 0
           /\ path' = [path EXCEPT !.read = TRUE, !.tree = stored[i].tree]
           /\ stored' = [stored EXCEPT ![i].read = FALSE, ![i].tree = 0]
           /\ Goes(h, "mark") /\ Whole /\ UNCHANGED <<turn, agent>>
  <2>1. stored' \in [Spaces -> Directories]
        /\ stored'[i].root = stored[i].root /\ stored'[i].meta = stored[i].meta
        /\ stored'[i].git = stored[i].git /\ stored'[i].tree = 0
        /\ \A j \in Spaces \ {i} : stored'[j] = stored[j]
    BY <1>2, <1>3, SlopspaceFilesAssumption DEF SlopspacesTyped, Directories
  <2>2. path' \in DeployPaths /\ path'.tree = stored[i].tree /\ path'.marker = path.marker
    BY <1>2, <1>3 DEF SlopspacesTyped, DeployPaths, Directories
  <2>3. "mark" \in CallStages /\ InItsStage([hands[h] EXCEPT !.at = "mark"])
    BY <1>1, <1>2 DEF CallStages, InItsStage, SlopspacesTyped
  <2>4. ASSUME Undisturbed PROVE SoFar(hands[h])'
    <3>1. stored[i].root /\ stored[i].tree = i /\ stored[i].git # "tree" /\ stored[i].meta = "stored"
      BY <1>2, <2>4 DEF AllAtRest, InPlace
    <3>2. \A j \in Spaces : stored'[j].meta # "deployed"
      BY <1>2, <2>1, <2>4, <3>1 DEF PathClear, NoneDeployed
    <3>3. hands'[h].op = "deploy" /\ hands'[h].at = "mark" /\ hands'[h].id = i
      BY <1>1, <1>2, <1>3 DEF Goes, SlopspacesTyped
    <3>4. \A j \in Spaces \ {i} : InPlace(j)'
      BY <1>2, <2>1, <2>4 DEF AllAtRest, InPlace
    <3>5. path.marker = 0
      BY <1>2, <2>4 DEF PathClear
    <3> QED BY <2>1, <2>2, <3>1, <3>2, <3>3, <3>4, <3>5 DEF SoFar, DeployFits, Leaving, NoneDeployed
  <2> QED BY <1>1, <1>3, <2>1, <2>2, <2>3, <2>4, GoesInv DEF DeployMove, Whole
<1>4. CASE Returned(h, FALSE) /\ UNCHANGED <<stored, path>> /\ (Halts \/ Whole)
  BY <1>1, <1>2, <1>4, FailsInv DEF DeployMove
<1> QED BY <1>3, <1>4 DEF DeployMove

\* Deploying: the marker is written.
LEMMA OnDeployMark ==
  ASSUME SlopspacesInv, NEW h \in Hands, DeployMark(h) PROVE SlopspacesInv'
<1> DEFINE i == hands[h].id
<1>1. Busy(h) /\ hands[h].op = "deploy" /\ hands[h].at = "mark"
  BY DEF DeployMark, Busy
<1>2. /\ i \in Spaces /\ SlopspacesTyped /\ InItsStage(hands[h])
      /\ Undisturbed => Leaving(i) /\ \A j \in Spaces \ {i} : InPlace(j)
  BY <1>1, UnderWay DEF SoFar, DeployFits
<1>3. CASE /\ path' = [path EXCEPT !.marker = i]
           /\ Goes(h, "save") /\ Whole /\ UNCHANGED <<turn, agent, amiss>>
  <2>1. stored' \in [Spaces -> Directories] /\ stored' = stored
    BY <1>2 DEF SlopspacesTyped, DeployMark
  <2>2. path' \in DeployPaths /\ path'.tree = path.tree /\ path'.marker = i
    BY <1>2, <1>3 DEF SlopspacesTyped, DeployPaths, Spaces
  <2>3. "save" \in CallStages /\ InItsStage([hands[h] EXCEPT !.at = "save"])
    BY <1>1, <1>2 DEF CallStages, InItsStage, SlopspacesTyped
  <2>4. ASSUME Undisturbed PROVE SoFar(hands[h])'
    <3>1. hands'[h].op = "deploy" /\ hands'[h].at = "save" /\ hands'[h].id = i
      BY <1>1, <1>2, <1>3 DEF Goes, SlopspacesTyped
    <3> QED BY <1>2, <2>1, <2>2, <2>4, <3>1 DEF SoFar, DeployFits, Leaving, NoneDeployed, InPlace
  <2> QED BY <1>1, <1>3, <2>1, <2>2, <2>3, <2>4, GoesInv DEF DeployMark, Whole
<1>4. CASE Halts /\ CutOff /\ Returned(h, FALSE) /\ UNCHANGED path
  BY <1>1, <1>2, <1>4, FailsInv DEF DeployMark
<1> QED BY <1>3, <1>4 DEF DeployMark

\* Deploying: the metadata is saved.
LEMMA OnDeploySave ==
  ASSUME SlopspacesInv, NEW h \in Hands, DeploySave(h) PROVE SlopspacesInv'
<1> DEFINE i == hands[h].id
<1>1. Busy(h) /\ hands[h].op = "deploy" /\ hands[h].at = "save"
  BY DEF DeploySave, Busy
<1>2. /\ i \in Spaces /\ SlopspacesTyped /\ InItsStage(hands[h])
      /\ Undisturbed => Leaving(i) /\ path.marker = i /\ \A j \in Spaces \ {i} : InPlace(j)
  BY <1>1, UnderWay DEF SoFar, DeployFits
<1>3. CASE /\ stored[i].root
           /\ stored' = [stored EXCEPT ![i].meta = "deployed"]
           /\ Returned(h, TRUE) /\ Whole /\ UNCHANGED amiss
  <2>1. /\ stored' \in [Spaces -> Directories]
        /\ stored'[i].root = stored[i].root /\ stored'[i].meta = "deployed"
        /\ stored'[i].git = stored[i].git /\ stored'[i].tree = stored[i].tree
        /\ \A j \in Spaces \ {i} : stored'[j] = stored[j]
    <3>1. [stored[i] EXCEPT !.meta = "deployed"] \in Directories
      BY <1>2 DEF SlopspacesTyped, Directories
    <3>2. stored' = [stored EXCEPT ![i] = [stored[i] EXCEPT !.meta = "deployed"]]
      BY <1>3
    <3> QED BY <1>2, <3>1, <3>2 DEF SlopspacesTyped, Directories
  <2>2. Undisturbed => AllAtRest'
    <3> SUFFICES ASSUME Undisturbed PROVE AllAtRest'
      OBVIOUS
    <3>1. \A j \in Spaces : InPlace(j)'
      BY <1>2, <2>1 DEF InPlace, Leaving
    <3>2. PathHolds(path.marker)'
      BY <1>2, <2>1 DEF PathHolds, OnlyDeployed, Leaving, NoneDeployed, DeploySave
    <3> QED BY <3>1, <3>2 DEF AllAtRest, PathAtRest
  <2>3. halts' \in 0 .. MaxHalts
    BY <1>2, <1>3, HaltsFit
  <2> QED BY <1>1, <1>3, <2>1, <2>2, <2>3, ReturnedInv DEF DeploySave
<1>4. CASE (Halts \/ Whole) /\ CutOff /\ Returned(h, FALSE) /\ UNCHANGED stored
  BY <1>1, <1>2, <1>4, FailsInv DEF DeploySave
<1> QED BY <1>3, <1>4 DEF DeploySave

\* Returning: the readspaces, and what is where the writespaces go, are discarded.
LEMMA OnReturnClear ==
  ASSUME SlopspacesInv, NEW h \in Hands, ReturnClear(h) PROVE SlopspacesInv'
<1> DEFINE i == hands[h].id
<1>1. Busy(h) /\ hands[h].op \in {"return", "delete"} /\ hands[h].at = "clear"
  BY DEF ReturnClear, Busy
<1>2. /\ i \in Spaces /\ SlopspacesTyped /\ InItsStage(hands[h])
      /\ Undisturbed => AllAtRest
  BY <1>1, UnderWay DEF SoFar, ReturnFits
<1>3. CASE /\ stored[i].meta = "deployed"
           /\ path' = [path EXCEPT !.read = FALSE]
           /\ stored' = [Destroyed(stored, {stored[i].tree}) EXCEPT ![i].tree = 0]
           /\ Goes(h, "move") /\ UNCHANGED <<turn, agent>>
  <2>1. stored' \in [Spaces -> Directories]
    <3>1. Destroyed(stored, {stored[i].tree}) \in [Spaces -> Directories]
      BY <1>2, NoneDestroyed
    <3> DEFINE left == Destroyed(stored, {stored[i].tree})
    <3>2. left \in [Spaces -> Directories] /\ stored' = [left EXCEPT ![i].tree = 0]
      BY <1>3, <3>1
    <3> HIDE DEF left
    <3>3. left[i] \in Directories /\ 0 \in 0 .. MaxSpaces
      BY <1>2, <3>2, SlopspaceFilesAssumption
    <3>4. [left[i] EXCEPT !.tree = 0] \in Directories
      BY <3>3 DEF Directories
    <3> QED BY <1>2, <3>2, <3>4
  <2>2. path' \in DeployPaths /\ path'.tree = path.tree /\ path'.marker = path.marker
    BY <1>2, <1>3 DEF SlopspacesTyped, DeployPaths
  <2>3. "move" \in CallStages /\ InItsStage([hands[h] EXCEPT !.at = "move"])
    BY <1>1, <1>2 DEF CallStages, InItsStage, SlopspacesTyped
  <2>4. ASSUME Undisturbed PROVE SoFar(hands[h])'
    <3>1. stored[i].tree = 0
      BY <1>2, <1>3, <2>4 DEF AllAtRest, InPlace
    <3>2. Destroyed(stored, {stored[i].tree}) = stored
      BY <1>2, <3>1, NoneDestroyed
    <3>3. [stored EXCEPT ![i].tree = 0] = stored
      BY <1>2, <3>1 DEF SlopspacesTyped, Directories
    <3>4. stored' = stored
      BY <1>3, <3>2, <3>3
    <3>5. AllAtRest'
      BY <1>2, <2>2, <2>4, <3>4, RestKept
    <3>6. hands'[h].op \in {"return", "delete"} /\ hands'[h].at = "move" /\ hands'[h].id = i
      BY <1>1, <1>2, <1>3 DEF Goes, SlopspacesTyped
    <3> QED BY <1>3, <3>4, <3>5, <3>6 DEF SoFar, ReturnFits, AllAtRest
  <2> QED BY <1>1, <1>3, <2>1, <2>2, <2>3, <2>4, GoesInv DEF ReturnClear, Whole
<1>4. CASE Returned(h, FALSE) /\ UNCHANGED <<stored, path>>
  BY <1>1, <1>2, <1>4, FailsInv DEF ReturnClear
<1> QED BY <1>3, <1>4 DEF ReturnClear

\* Returning: the tree is moved home.
LEMMA OnReturnMove ==
  ASSUME SlopspacesInv, NEW h \in Hands, ReturnMove(h) PROVE SlopspacesInv'
<1> DEFINE i == hands[h].id
<1>1. Busy(h) /\ hands[h].op \in {"return", "delete"} /\ hands[h].at = "move"
  BY DEF ReturnMove, Busy
<1>2. /\ i \in Spaces /\ SlopspacesTyped /\ InItsStage(hands[h])
      /\ Undisturbed => AllAtRest /\ stored[i].meta = "deployed"
  BY <1>1, UnderWay DEF SoFar, ReturnFits
<1>3. CASE /\ stored' = [stored EXCEPT ![i].tree = path.tree]
           /\ path' = [path EXCEPT !.tree = 0]
           /\ Goes(h, "restore") /\ Whole /\ UNCHANGED <<turn, agent>>
  <2>1. /\ stored' \in [Spaces -> Directories]
        /\ stored'[i].root = stored[i].root /\ stored'[i].meta = stored[i].meta
        /\ stored'[i].git = stored[i].git /\ stored'[i].tree = path.tree
        /\ \A j \in Spaces \ {i} : stored'[j] = stored[j]
    <3>1. [stored[i] EXCEPT !.tree = path.tree] \in Directories
      BY <1>2 DEF SlopspacesTyped, Directories, DeployPaths
    <3>2. stored' = [stored EXCEPT ![i] = [stored[i] EXCEPT !.tree = path.tree]]
      BY <1>3
    <3> QED BY <1>2, <3>1, <3>2 DEF SlopspacesTyped, Directories
  <2>2. path' \in DeployPaths /\ path'.tree = 0 /\ path'.marker = path.marker
    BY <1>2, <1>3, SlopspaceFilesAssumption DEF SlopspacesTyped, DeployPaths
  <2>3. "restore" \in CallStages /\ InItsStage([hands[h] EXCEPT !.at = "restore"])
    BY <1>1, <1>2 DEF CallStages, InItsStage, SlopspacesTyped
  <2>4. ASSUME Undisturbed PROVE SoFar(hands[h])'
    <3>1. path.tree = i /\ path.marker = i /\ OnlyDeployed(i)
      BY <1>2, <2>4 DEF AllAtRest, PathAtRest, PathClear, NoneDeployed, PathHolds, OnlyDeployed
    <3>2. stored[i].root /\ stored[i].git # "tree"
      BY <1>2, <2>4 DEF AllAtRest, InPlace
    <3>3. \A j \in Spaces : stored'[j].meta = stored[j].meta
      BY <2>1
    <3>4. \A j \in Spaces \ {i} : InPlace(j)'
      BY <1>2, <2>1, <2>4 DEF AllAtRest, InPlace
    <3>5. hands'[h].op \in {"return", "delete"} /\ hands'[h].at = "restore" /\ hands'[h].id = i
      BY <1>1, <1>2, <1>3 DEF Goes, SlopspacesTyped
    <3> QED BY <2>1, <2>2, <3>1, <3>2, <3>3, <3>4, <3>5 DEF SoFar, ReturnFits, ComingBack, OnlyDeployed
  <2> QED BY <1>1, <1>3, <2>1, <2>2, <2>3, <2>4, GoesInv DEF ReturnMove, Whole
<1>4. CASE Returned(h, FALSE) /\ UNCHANGED <<stored, path>> /\ (Halts \/ Whole)
  BY <1>1, <1>2, <1>4, FailsInv DEF ReturnMove
<1> QED BY <1>3, <1>4 DEF ReturnMove

\* Returning: the readspaces are made anew and the marker removed.
LEMMA OnReturnRestore ==
  ASSUME SlopspacesInv, NEW h \in Hands, ReturnRestore(h) PROVE SlopspacesInv'
<1> DEFINE i == hands[h].id
<1>1. Busy(h) /\ hands[h].op \in {"return", "delete"} /\ hands[h].at = "restore"
  BY DEF ReturnRestore, Busy
<1>2. /\ i \in Spaces /\ SlopspacesTyped /\ InItsStage(hands[h])
      /\ Undisturbed => ComingBack(i) /\ \A j \in Spaces \ {i} : InPlace(j)
  BY <1>1, UnderWay DEF SoFar, ReturnFits
<1>3. CASE /\ stored' = [stored EXCEPT ![i].read = TRUE]
           /\ path' = [path EXCEPT !.marker = 0]
           /\ Goes(h, "save") /\ Whole /\ UNCHANGED <<turn, agent, amiss>>
  <2>1. /\ stored' \in [Spaces -> Directories]
        /\ stored'[i].root = stored[i].root /\ stored'[i].meta = stored[i].meta /\ stored'[i].read
        /\ stored'[i].git = stored[i].git /\ stored'[i].tree = stored[i].tree
        /\ \A j \in Spaces \ {i} : stored'[j] = stored[j]
    <3>1. [stored[i] EXCEPT !.read = TRUE] \in Directories
      <4>1. stored[i] \in Directories
        BY <1>2 DEF SlopspacesTyped
      <4> QED BY <4>1, ReadAgain
    <3>2. stored' = [stored EXCEPT ![i] = [stored[i] EXCEPT !.read = TRUE]]
      BY <1>3
    <3> QED BY <1>2, <3>1, <3>2 DEF SlopspacesTyped, Directories
  <2>2. path' \in DeployPaths /\ path'.tree = path.tree /\ path'.marker = 0
    BY <1>2, <1>3, SlopspaceFilesAssumption DEF SlopspacesTyped, DeployPaths
  <2>3. "save" \in CallStages /\ InItsStage([hands[h] EXCEPT !.at = "save"])
    BY <1>1, <1>2 DEF CallStages, InItsStage, SlopspacesTyped
  <2>4. ASSUME Undisturbed PROVE SoFar(hands[h])'
    <3>1. \A j \in Spaces : stored'[j].meta = stored[j].meta
      BY <2>1
    <3>2. \A j \in Spaces \ {i} : InPlace(j)'
      BY <1>2, <2>1, <2>4 DEF InPlace
    <3>3. hands'[h].op \in {"return", "delete"} /\ hands'[h].at = "save" /\ hands'[h].id = i
      BY <1>1, <1>2, <1>3 DEF Goes, SlopspacesTyped
    <3> QED BY <1>2, <2>1, <2>2, <2>4, <3>1, <3>2, <3>3 DEF SoFar, ReturnFits, ComingBack, OnlyDeployed
  <2> QED BY <1>1, <1>3, <2>1, <2>2, <2>3, <2>4, GoesInv DEF ReturnRestore, Whole
<1>4. CASE Halts /\ CutOff /\ Returned(h, FALSE) /\ UNCHANGED <<path, stored>>
  BY <1>1, <1>2, <1>4, FailsInv DEF ReturnRestore
<1> QED BY <1>3, <1>4 DEF ReturnRestore

\* Returning: the metadata is saved.
LEMMA OnReturnSave ==
  ASSUME SlopspacesInv, NEW h \in Hands, ReturnSave(h) PROVE SlopspacesInv'
<1> DEFINE i == hands[h].id
<1>1. Busy(h) /\ hands[h].op \in {"return", "delete"} /\ hands[h].at = "save"
  BY DEF ReturnSave, Busy
<1>2. /\ i \in Spaces /\ SlopspacesTyped /\ InItsStage(hands[h])
      /\ Undisturbed => /\ ComingBack(i) /\ path.marker = 0 /\ stored[i].read
                 /\ \A j \in Spaces \ {i} : InPlace(j)
  BY <1>1, UnderWay DEF SoFar, ReturnFits
<1>3. CASE /\ stored' = [stored EXCEPT ![i].meta = "stored"]
           /\ IF hands[h].op = "delete" THEN Goes(h, "remove") /\ UNCHANGED <<turn, agent>>
              ELSE Returned(h, TRUE)
           /\ Whole /\ UNCHANGED amiss
  <2>1. /\ stored' \in [Spaces -> Directories]
        /\ stored'[i].root = stored[i].root /\ stored'[i].meta = "stored"
        /\ stored'[i].read = stored[i].read
        /\ stored'[i].git = stored[i].git /\ stored'[i].tree = stored[i].tree
        /\ \A j \in Spaces \ {i} : stored'[j] = stored[j]
    <3>1. [stored[i] EXCEPT !.meta = "stored"] \in Directories
      BY <1>2 DEF SlopspacesTyped, Directories
    <3>2. stored' = [stored EXCEPT ![i] = [stored[i] EXCEPT !.meta = "stored"]]
      BY <1>3
    <3> QED BY <1>2, <3>1, <3>2 DEF SlopspacesTyped, Directories
  <2>2. Undisturbed => AllAtRest'
    <3> SUFFICES ASSUME Undisturbed PROVE AllAtRest'
      OBVIOUS
    <3>1. \A j \in Spaces : InPlace(j)'
      BY <1>2, <2>1 DEF InPlace, ComingBack
    <3>2. PathClear'
      BY <1>2, <2>1 DEF PathClear, OnlyDeployed, ComingBack, NoneDeployed, ReturnSave
    <3> QED BY <3>1, <3>2 DEF AllAtRest, PathAtRest
  <2>3. halts' \in 0 .. MaxHalts /\ path' = path /\ path' \in DeployPaths
    BY <1>2, <1>3, HaltsFit DEF ReturnSave, SlopspacesTyped
  <2>4. CASE hands[h].op = "delete" /\ Goes(h, "remove") /\ UNCHANGED <<turn, agent>>
    <3>1. "remove" \in CallStages /\ InItsStage([hands[h] EXCEPT !.at = "remove"])
      BY <1>2, <2>4 DEF CallStages, InItsStage, SlopspacesTyped
    <3>2. hands'[h].op = "delete" /\ hands'[h].at = "remove" /\ hands'[h].id = i
      BY <1>2, <2>4 DEF Goes, SlopspacesTyped
    <3>3. Undisturbed => SoFar(hands[h])'
      BY <2>1, <2>2, <3>2 DEF SoFar, ReturnFits, AllAtRest
    <3> QED BY <1>1, <1>3, <2>1, <2>3, <2>4, <3>1, <3>3, GoesInv DEF ReturnSave, Whole
  <2>5. CASE hands[h].op # "delete" /\ Returned(h, TRUE)
    BY <1>1, <1>3, <2>1, <2>2, <2>3, <2>5, ReturnedInv DEF ReturnSave
  <2> QED BY <1>3, <2>4, <2>5
<1>4. CASE (Halts \/ Whole) /\ CutOff /\ Returned(h, FALSE) /\ UNCHANGED stored
  BY <1>1, <1>2, <1>4, FailsInv DEF ReturnSave
<1> QED BY <1>3, <1>4 DEF ReturnSave

\* Deleting: the directory is removed.
LEMMA OnDeleteRemove ==
  ASSUME SlopspacesInv, NEW h \in Hands, DeleteRemove(h) PROVE SlopspacesInv'
<1> DEFINE i == hands[h].id
<1>1. Busy(h) /\ hands[h].op = "delete" /\ hands[h].at = "remove"
  BY DEF DeleteRemove, Busy
<1>2. /\ i \in Spaces /\ SlopspacesTyped
      /\ Undisturbed => AllAtRest /\ stored[i].meta = "stored"
  BY <1>1, UnderWay DEF SoFar, ReturnFits
<1>3. /\ stored' \in [Spaces -> Directories] /\ stored'[i] = NoSpace
      /\ \A j \in Spaces \ {i} : stored'[j] = stored[j]
  BY <1>2, SlopspaceFilesAssumption DEF DeleteRemove, SlopspacesTyped, Directories, NoSpace
<1>4. Undisturbed => AllAtRest'
  BY <1>2, <1>3 DEF DeleteRemove, AllAtRest, InPlace, NoSpace, PathAtRest, PathClear, PathHolds,
        NoneDeployed, OnlyDeployed
<1>5. halts' \in 0 .. MaxHalts
  BY <1>2, HaltsFit DEF DeleteRemove
<1> QED BY <1>1, <1>3, <1>4, <1>5, ReturnedInv DEF DeleteRemove

\* The .git of a slopspace is moved, and nothing else.
LEMMA GitMoved ==
  ASSUME SlopspacesTyped, NEW i \in Spaces, NEW git \in {"none", "secure", "tree"},
         stored' = [stored EXCEPT ![i].git = git]
  PROVE  /\ stored' \in [Spaces -> Directories]
         /\ stored'[i].root = stored[i].root /\ stored'[i].meta = stored[i].meta
         /\ stored'[i].read = stored[i].read
         /\ stored'[i].git = git /\ stored'[i].tree = stored[i].tree
         /\ \A j \in Spaces \ {i} : stored'[j] = stored[j]
<1>1. [stored[i] EXCEPT !.git = git] \in Directories
  BY DEF SlopspacesTyped, Directories
<1>2. stored' = [stored EXCEPT ![i] = [stored[i] EXCEPT !.git = git]]
  OBVIOUS
<1> QED BY <1>1, <1>2 DEF SlopspacesTyped, Directories

\* It comes out into the tree, with everything else at rest,
LEMMA GitOutOf ==
  ASSUME SlopspacesTyped, AllAtRest, NEW i \in Spaces, stored[i].meta = "stored",
         stored' = [stored EXCEPT ![i].git = "tree"], path' = path
  PROVE  GitOut(i)' /\ PathAtRest' /\ \A j \in Spaces \ {i} : InPlace(j)'
<1>1. /\ stored'[i].root = stored[i].root /\ stored'[i].meta = stored[i].meta
      /\ stored'[i].read = stored[i].read
      /\ stored'[i].git = "tree" /\ stored'[i].tree = stored[i].tree
      /\ \A j \in Spaces \ {i} : stored'[j] = stored[j]
  BY GitMoved
<1>2. \A j \in Spaces : stored'[j].meta = stored[j].meta
  BY <1>1
<1>3. PathAtRest'
  BY <1>2 DEF AllAtRest, PathAtRest, PathClear, PathHolds, NoneDeployed, OnlyDeployed
<1> QED BY <1>1, <1>3 DEF AllAtRest, InPlace, GitOut

\* and is put away again.
LEMMA GitPutAway ==
  ASSUME SlopspacesTyped, NEW i \in Spaces, path' = path,
         stored' = IF stored[i].tree = i /\ stored[i].git = "tree"
                   THEN [stored EXCEPT ![i].git = "secure"] ELSE stored
  PROVE  /\ stored' \in [Spaces -> Directories]
         /\ PathAtRest /\ GitOut(i) /\ (\A j \in Spaces \ {i} : InPlace(j)) => AllAtRest'
<1>1. stored' \in [Spaces -> Directories]
  BY GitMoved DEF SlopspacesTyped
<1>2. ASSUME PathAtRest, GitOut(i), \A j \in Spaces \ {i} : InPlace(j) PROVE AllAtRest'
  <2>1. /\ stored'[i].root = stored[i].root /\ stored'[i].meta = stored[i].meta
        /\ stored'[i].read = stored[i].read
        /\ stored'[i].git = "secure" /\ stored'[i].tree = stored[i].tree
        /\ \A j \in Spaces \ {i} : stored'[j] = stored[j]
    BY <1>2, GitMoved DEF GitOut
  <2>2. \A j \in Spaces : stored'[j].meta = stored[j].meta
    BY <2>1
  <2>3. PathAtRest'
    BY <1>2, <2>2 DEF PathAtRest, PathClear, PathHolds, NoneDeployed, OnlyDeployed
  <2>4. \A j \in Spaces : InPlace(j)'
    BY <1>2, <2>1 DEF InPlace, GitOut
  <2> QED BY <2>3, <2>4 DEF AllAtRest
<1> QED BY <1>1, <1>2

\* Writing: the .git comes out of where it is put away and git runs.
LEMMA OnWriteOpen ==
  ASSUME SlopspacesInv, NEW h \in Hands, WriteOpen(h) PROVE SlopspacesInv'
<1> DEFINE i == hands[h].id
<1>1. Busy(h) /\ hands[h].op = "write" /\ hands[h].at = "open"
  BY DEF WriteOpen, Busy
<1>2. /\ i \in Spaces /\ SlopspacesTyped /\ InItsStage(hands[h])
      /\ Undisturbed => AllAtRest
  BY <1>1, UnderWay DEF SoFar, GitFits
<1>3. CASE /\ stored[i].meta = "stored" /\ stored[i].tree = i
           /\ stored' = [stored EXCEPT ![i].git = "tree"]
           /\ Goes(h, "close") /\ UNCHANGED <<turn, agent>>
  <2>1. /\ stored' \in [Spaces -> Directories]
        /\ stored'[i].root = stored[i].root /\ stored'[i].meta = stored[i].meta
        /\ stored'[i].read = stored[i].read
        /\ stored'[i].git = "tree" /\ stored'[i].tree = stored[i].tree
        /\ \A j \in Spaces \ {i} : stored'[j] = stored[j]
    BY <1>2, <1>3, GitMoved
  <2>2. "close" \in CallStages /\ InItsStage([hands[h] EXCEPT !.at = "close"])
    BY <1>1, <1>2 DEF CallStages, InItsStage, SlopspacesTyped
  <2>3. ASSUME Undisturbed PROVE SoFar(hands[h])'
    <3> PICK k \in Spaces : k = i
      BY <1>2
    <3>1. hands'[h].op = "write" /\ hands'[h].at = "close" /\ hands'[h].id = k
      BY <1>1, <1>2, <1>3 DEF Goes, SlopspacesTyped
    <3>2. GitOut(k)' /\ PathAtRest' /\ \A j \in Spaces \ {k} : InPlace(j)'
      BY <1>2, <1>3, <2>3, GitOutOf DEF WriteOpen
    <3> QED BY <3>1, <3>2 DEF SoFar, GitFits
  <2> QED BY <1>1, <1>2, <1>3, <2>1, <2>2, <2>3, GoesInv DEF WriteOpen, Whole, SlopspacesTyped
<1>4. CASE Returned(h, FALSE) /\ UNCHANGED stored
  BY <1>1, <1>2, <1>4, FailsInv DEF WriteOpen
<1> QED BY <1>3, <1>4 DEF WriteOpen

\* Writing: the .git is put back.
LEMMA OnWriteClose ==
  ASSUME SlopspacesInv, NEW h \in Hands, WriteClose(h) PROVE SlopspacesInv'
<1> DEFINE i == hands[h].id
<1>1. Busy(h) /\ hands[h].op = "write" /\ hands[h].at = "close"
  BY DEF WriteClose, Busy
<1>2. /\ i \in Spaces /\ SlopspacesTyped
      /\ Undisturbed => PathAtRest /\ GitOut(i) /\ \A j \in Spaces \ {i} : InPlace(j)
  BY <1>1, UnderWay DEF SoFar, GitFits
<1>3. stored' \in [Spaces -> Directories] /\ (Undisturbed => AllAtRest')
  BY <1>2, GitPutAway DEF WriteClose
<1>4. halts' \in 0 .. MaxHalts
  BY <1>2, HaltsFit DEF WriteClose
<1> QED BY <1>1, <1>3, <1>4, ReturnedInv DEF WriteClose

\* Adding: the repository is copied in.
LEMMA OnAddCopy ==
  ASSUME SlopspacesInv, NEW h \in Hands, AddCopy(h) PROVE SlopspacesInv'
<1> DEFINE i == hands[h].id
<1>1. Busy(h) /\ hands[h].op = "add" /\ hands[h].at = "copy"
  BY DEF AddCopy, Busy
<1>2. /\ i \in Spaces /\ SlopspacesTyped /\ InItsStage(hands[h])
      /\ Undisturbed => AllAtRest
  BY <1>1, UnderWay DEF SoFar, GitFits
<1>3. CASE /\ stored[i].meta = "stored" /\ stored[i].tree = i
           /\ stored' = [stored EXCEPT ![i].git = "tree"]
           /\ Goes(h, "secure") /\ Whole /\ UNCHANGED <<turn, agent>>
  <2>1. /\ stored' \in [Spaces -> Directories]
        /\ stored'[i].root = stored[i].root /\ stored'[i].meta = stored[i].meta
        /\ stored'[i].read = stored[i].read
        /\ stored'[i].git = "tree" /\ stored'[i].tree = stored[i].tree
        /\ \A j \in Spaces \ {i} : stored'[j] = stored[j]
    BY <1>2, <1>3, GitMoved
  <2>2. "secure" \in CallStages /\ InItsStage([hands[h] EXCEPT !.at = "secure"])
    BY <1>1, <1>2 DEF CallStages, InItsStage, SlopspacesTyped
  <2>3. ASSUME Undisturbed PROVE SoFar(hands[h])'
    <3> PICK k \in Spaces : k = i
      BY <1>2
    <3>1. hands'[h].op = "add" /\ hands'[h].at = "secure" /\ hands'[h].id = k
      BY <1>1, <1>2, <1>3 DEF Goes, SlopspacesTyped
    <3>2. GitOut(k)' /\ PathAtRest' /\ \A j \in Spaces \ {k} : InPlace(j)'
      BY <1>2, <1>3, <2>3, GitOutOf DEF AddCopy
    <3> QED BY <3>1, <3>2 DEF SoFar, GitFits
  <2> QED BY <1>1, <1>2, <1>3, <2>1, <2>2, <2>3, GoesInv DEF AddCopy, Whole, SlopspacesTyped
<1>4. CASE Returned(h, FALSE) /\ UNCHANGED stored /\ (Halts \/ Whole)
  BY <1>1, <1>2, <1>4, FailsInv DEF AddCopy
<1> QED BY <1>3, <1>4 DEF AddCopy

\* Adding: its .git is put away.
LEMMA OnAddSecure ==
  ASSUME SlopspacesInv, NEW h \in Hands, AddSecure(h) PROVE SlopspacesInv'
<1> DEFINE i == hands[h].id
<1>1. Busy(h) /\ hands[h].op = "add" /\ hands[h].at = "secure"
  BY DEF AddSecure, Busy
<1>2. /\ i \in Spaces /\ SlopspacesTyped
      /\ Undisturbed => PathAtRest /\ GitOut(i) /\ \A j \in Spaces \ {i} : InPlace(j)
  BY <1>1, UnderWay DEF SoFar, GitFits
<1>3. stored' \in [Spaces -> Directories] /\ (Undisturbed => AllAtRest')
  BY <1>2, GitPutAway DEF AddSecure
<1>4. halts' \in 0 .. MaxHalts
  BY <1>2, HaltsFit DEF AddSecure
<1> QED BY <1>1, <1>3, <1>4, ReturnedInv DEF AddSecure

\* A process that stops in a call leaves everything at rest, or is noted.
LEMMA OnStops ==
  ASSUME SlopspacesInv, NEW h \in Hands, Stops(h) PROVE SlopspacesInv'
<1>1. SlopspacesTyped /\ CallsFit /\ SignalsFit
  BY DEF SlopspacesInv
<1>2. /\ hands' \in [Hands -> CallStates]
      /\ hands'[h] = Idle /\ \A g \in Hands : g # h => hands'[g] = hands[g]
  <2>1. Idle \in CallStates
    BY SlopspaceFilesAssumption DEF Idle, CallStates, CallOps, CallStages
  <2> QED BY <1>1, <2>1 DEF Stops, SlopspacesTyped
<1>3. ~Busy(h)'
  BY <1>2 DEF Busy, Idle
<1>4. /\ amiss' \in AmissStates
      /\ amiss'.overlapped = amiss.overlapped /\ amiss'.raced = amiss.raced
      /\ amiss'.cut <=> amiss.cut \/ HalfWay(hands[h])
  <2>1. HalfWay(hands[h]) \in BOOLEAN
    BY DEF HalfWay
  <2> QED BY <1>1, <2>1 DEF Stops, SlopspacesTyped, AmissStates
<1>5. /\ turn' \in TurnStates
      /\ h # "turn" => turn' = turn
      /\ turn'.stage # turn.stage => turn.stage = "synced" /\ turn'.stage = "queued"
      /\ h = "turn" => turn'.stage # "synced"
  BY <1>1 DEF Stops, SlopspacesTyped, TurnStates, TurnStages
<1>6. /\ agent' \in AgentStates
      /\ h # "worker" => agent' = agent
      /\ h = "worker" => agent'.at = "dead" /\ agent'.own = FALSE
  <2>1. CASE h # "worker"
    BY <1>1, <2>1 DEF Stops, SlopspacesTyped
  <2>2. CASE h = "worker"
    <3>1. agent' = [at |-> "dead", id |-> 0, own |-> FALSE, for |-> "turn"]
      BY <2>2 DEF Stops, NoAgent
    <3> QED BY <2>2, <3>1, SlopspaceFilesAssumption DEF AgentStates
  <2> QED BY <2>1, <2>2
<1>7. SlopspacesTyped'
  BY <1>1, <1>2, <1>4, <1>5, <1>6, HaltsFit DEF Stops, SlopspacesTyped
<1>8. CallsFit'
  <2>1. \A g \in Hands : Busy(g)' => g # h /\ Busy(g) /\ hands'[g] = hands[g]
    BY <1>2, <1>3 DEF Busy
  <2>2. \A g \in Hands : Busy(g)' => InItsStage(hands[g])'
    BY <1>1, <2>1 DEF CallsFit, InItsStage
  <2>3. TurnCalls'
    BY <1>1, <1>5, <2>1 DEF CallsFit, TurnCalls, Hands, Stops
  <2>4. WorkerCalls'
    <3>1. CASE h = "worker"
      BY <1>3, <1>6, <3>1 DEF WorkerCalls, Busy
    <3>2. CASE h # "worker"
      BY <1>1, <1>2, <1>6, <2>1, <3>2 DEF CallsFit, WorkerCalls, Hands
    <3> QED BY <3>1, <3>2
  <2> QED BY <2>2, <2>3, <2>4 DEF CallsFit
<1>9. SignalsFit'
  <2>1. signal["turn"] # "none" => turn'.stage = turn.stage
    BY <1>1, <1>5 DEF SignalsFit
  <2>2. turn'.stage \in {"returned", "over"} => turn.stage = turn'.stage
    BY <1>5
  <2> QED BY <1>1, <1>6, <2>1, <2>2 DEF SignalsFit, Stops
<1>10. ASSUME Undisturbed' PROVE TreesFit'
  <2>1. Undisturbed /\ ~HalfWay(hands[h]) /\ TreesFit
    BY <1>4, <1>10 DEF Undisturbed, SlopspacesInv
  <2>2. Under(h) => \A o \in Hands \ {h} : ~Under(o) /\ ~Busy(o)
    BY <2>1, Alone
  <2>3. \A g \in Hands : Under(g)' => g # h /\ Under(g)
    <3>1. ~Under(h)'
      BY <1>3, <1>5, <1>6 DEF Under
    <3> QED BY <1>2, <1>5, <1>6, <3>1 DEF Under, Busy
  <2>4. OneAtATime'
    BY <2>1, <2>3 DEF OneAtATime, TreesFit
  <2>5. StillFree'
    <3>1. turn'.stage = "synced" /\ ~Busy("turn")' => path.marker = 0
      BY <1>2, <1>5, <2>1 DEF TreesFit, StillFree, Busy, Hands
    <3>2. turn'.stage = "queued" /\ Busy("turn")' => path.marker = 0
      BY <1>2, <1>3, <1>5, <2>1 DEF TreesFit, StillFree, Busy, Hands
    <3>3. agent'.at = "made" /\ ~Busy("worker")' => path.marker = 0
      BY <1>2, <1>6, <2>1 DEF TreesFit, StillFree, Busy, Hands
    <3>4. hands'["worker"].op = "create" => path.marker = 0
      BY <1>2, <1>3, <2>1 DEF TreesFit, StillFree, Busy, Hands
    <3> QED BY <3>1, <3>2, <3>3, <3>4 DEF StillFree, Stops
  <2>6. Busy(h) => AllAtRest
    <3> SUFFICES ASSUME Busy(h) PROVE AllAtRest
      OBVIOUS
    <3>1. InItsStage(hands[h]) /\ SoFar(hands[h])
      BY <1>1, <2>1 DEF TreesFit, CallsFit
    <3>2. hands[h].op \in CallOps \ {"none"}
      BY <3>1 DEF InItsStage
    <3>3. CASE hands[h].op = "create"
      BY <3>1, <3>3 DEF SoFar, CreateFits
    <3>4. CASE hands[h].op = "deploy"
      BY <2>1, <3>1, <3>4 DEF SoFar, DeployFits, InItsStage, HalfWay
    <3>5. CASE hands[h].op \in {"return", "delete"}
      BY <2>1, <3>1, <3>5 DEF SoFar, ReturnFits, InItsStage, HalfWay
    <3>6. CASE hands[h].op \in {"write", "add"}
      BY <2>1, <3>1, <3>6 DEF SoFar, GitFits, InItsStage, HalfWay
    <3> QED BY <3>2, <3>3, <3>4, <3>5, <3>6 DEF CallOps
  <2>7. AllAtRest => AllAtRest'
    BY RestKept DEF Stops
  <2>8. CASE Busy(h)
    BY <2>2, <2>3, <2>4, <2>5, <2>6, <2>7, <2>8, <1>2, <1>3 DEF TreesFit, Busy, Under
  <2>9. CASE ~Busy(h)
    <3>1. \A g \in Hands : hands'[g].op = hands[g].op
      BY <1>2, <2>9 DEF Busy, Idle
    <3>2. \A g \in Hands : Busy(g)' => SoFar(hands[g])'
      <4>1. SUFFICES ASSUME NEW g \in Hands, Busy(g)' PROVE SoFar(hands[g])'
        OBVIOUS
      <4>2. hands'[g] = hands[g] /\ SoFar(hands[g])
        BY <1>2, <1>3, <2>1, <4>1 DEF TreesFit, Busy
      <4>3. UNCHANGED <<stored, path>>
        BY DEF Stops
      <4> QED BY <4>2, <4>3 DEF SoFar, CreateFits, DeployFits, ReturnFits, GitFits, AllAtRest, InPlace,
                   PathAtRest, PathClear, PathHolds, NoneDeployed, OnlyDeployed, Leaving, ComingBack, GitOut
    <3>3. (\A g \in Hands : ~Busy(g)') => AllAtRest'
      BY <2>1, <2>7, <3>1 DEF TreesFit, Busy
    <3> QED BY <2>4, <2>5, <3>2, <3>3 DEF TreesFit
  <2> QED BY <2>8, <2>9
<1>11. ASSUME Undisturbed', ~amiss'.raced PROVE AgentFits'
  <2>1. Undisturbed /\ AgentFits
    BY <1>4, <1>11 DEF Undisturbed, SlopspacesInv
  <2>2. hands'["turn"].op \in {hands["turn"].op, "none"}
        /\ (hands'["panel"] = hands["panel"] \/ hands'["panel"].op = "none")
    BY <1>2 DEF Hands, Idle
  <2>3. agent'.at = "running" => agent' = agent
    BY <1>6
  <2> QED BY <2>1, <2>2, <2>3 DEF AgentFits, Busy, Stops
<1> QED BY <1>7, <1>8, <1>9, <1>10, <1>11 DEF SlopspacesInv

-----------------------------------------------------------------------------
\* A slopspace that is made is whole, but for its metadata.
NewMade(i) ==
    /\ ~stored[i].root
    /\ stored' = [stored EXCEPT ![i] = [NoSpace EXCEPT !.root = TRUE, !.read = TRUE, !.tree = i]]

\* A new slopspace has a tree of its own and no metadata; the others are as
\* they were.
LEMMA NewMadeTyped ==
  ASSUME SlopspacesTyped, NEW i \in Spaces, NewMade(i)
  PROVE  /\ stored' \in [Spaces -> Directories]
         /\ stored'[i].meta = "none" /\ stored'[i].git = "none" /\ stored'[i].root
         /\ stored'[i].read /\ stored'[i].tree = i
         /\ \A j \in Spaces \ {i} : stored'[j] = stored[j]
<1> DEFINE s == [NoSpace EXCEPT !.root = TRUE, !.read = TRUE, !.tree = i]
<1>1. stored' = [stored EXCEPT ![i] = s]
  BY DEF NewMade
<1>2. NoSpace \in Directories /\ NoSpace.meta = "none" /\ NoSpace.git = "none"
  BY SlopspaceFilesAssumption DEF NoSpace, Directories
<1>3. i \in 0 .. MaxSpaces
  BY SlopspaceFilesAssumption DEF Spaces
<1>4. s \in Directories /\ s.meta = "none" /\ s.git = "none" /\ s.root /\ s.read /\ s.tree = i
  BY <1>2, <1>3, MadeSpace
<1> HIDE DEF s
<1> QED BY <1>1, <1>4 DEF SlopspacesTyped

\* A new slopspace is as far as creating it has come.
LEMMA NewMadeFits ==
  ASSUME SlopspacesTyped, AllAtRest, NEW i \in Spaces, NewMade(i), path' = path,
         NEW h, hands'[h].op = "create", hands'[h].id = i
  PROVE  SoFar(hands[h])'
<1>1. /\ stored'[i].meta = "none" /\ stored'[i].git = "none" /\ stored'[i].root
      /\ stored'[i].read /\ stored'[i].tree = i
      /\ \A j \in Spaces \ {i} : stored'[j] = stored[j]
  BY NewMadeTyped
<1>2. stored[i].meta = "none"
  BY DEF NewMade, AllAtRest, InPlace, SlopspacesTyped, Directories
<1>3. \A j \in Spaces : stored'[j].meta = stored[j].meta
  BY <1>1, <1>2
<1>4. PathAtRest'
  BY <1>3 DEF AllAtRest, PathAtRest, PathClear, PathHolds, NoneDeployed, OnlyDeployed
<1>5. \A j \in Spaces : InPlace(j)'
  BY <1>1 DEF AllAtRest, InPlace
<1> QED BY <1>1, <1>4, <1>5 DEF SoFar, CreateFits, AllAtRest

\* A call of the panel leaves the turn and the worker as they are,
LEMMA PanelFit ==
  ASSUME CallsFit, SignalsFit, UNCHANGED <<turn, agent, signal>>, InItsStage(hands'["panel"]),
         \A g \in Hands : g # "panel" => hands'[g] = hands[g]
  PROVE  CallsFit' /\ SignalsFit'
<1>1. hands'["turn"] = hands["turn"] /\ hands'["worker"] = hands["worker"]
  BY DEF Hands
<1>2. \A g \in Hands : Busy(g)' => InItsStage(hands[g])'
  BY DEF CallsFit, Busy, InItsStage
<1>3. TurnCalls'
  BY <1>1 DEF CallsFit, TurnCalls, Busy
<1>4. WorkerCalls'
  BY <1>1 DEF CallsFit, WorkerCalls, Busy
<1> QED BY <1>2, <1>3, <1>4 DEF CallsFit, SignalsFit

\* and takes nothing away from an agent.
LEMMA PanelAgents ==
  ASSUME AgentFits, UNCHANGED <<path, turn, agent, signal>>,
         \A g \in Hands : g # "panel" => hands'[g] = hands[g],
         \/ hands'["panel"].op \notin {"return", "delete"}
         \/ hands'["panel"].at = "remove"
         \/ signal["turn"] \notin {"pending", "processing"}
  PROVE  AgentFits'
<1>1. hands'["turn"] = hands["turn"]
  BY DEF Hands
<1> QED BY <1>1 DEF AgentFits, Busy

-----------------------------------------------------------------------------
\* The panel.
LEMMA OnPanelCreates ==
  ASSUME SlopspacesInv, NEW i \in Spaces, PanelCreates(i) PROVE SlopspacesInv'
<1>1. SlopspacesTyped /\ CallsFit /\ SignalsFit /\ "panel" \in Hands /\ ~Busy("panel")
  BY DEF SlopspacesInv, Hands, PanelCreates, Click
<1>2. /\ hands' \in [Hands -> CallStates]
      /\ amiss' \in AmissStates
      /\ hands'["panel"].op = "create" /\ hands'["panel"].at = "save" /\ hands'["panel"].id = i
      /\ \A g \in Hands : g # "panel" => hands'[g] = hands[g]
      /\ amiss'.raced = amiss.raced
      /\ Undisturbed' => Undisturbed
      /\ Undisturbed' /\ TreesFit => AllAtRest
  <2>1. Call("panel", "create", "save", i) /\ "create" \in CallOps /\ "save" \in CallStages
    BY DEF PanelCreates, MakeNew, CallOps, CallStages
  <2> QED BY <1>1, <2>1, CallFit
<1>3. NewMade(i)
  BY DEF PanelCreates, MakeNew, NewMade
<1>4. Undisturbed' => TreesFit'
  <2>1. SUFFICES ASSUME Undisturbed' PROVE TreesFit'
    OBVIOUS
  <2>2. TreesFit /\ AllAtRest
    BY <1>2, <2>1 DEF SlopspacesInv
  <2>3. SoFar(hands["panel"])'
    BY <1>1, <1>2, <1>3, <2>2, NewMadeFits DEF PanelCreates, PanelElse
  <2>4. Call("panel", "create", "save", i) /\ UNCHANGED <<path, turn, agent>>
    BY DEF PanelCreates, MakeNew, PanelElse
  <2> QED BY <1>1, <2>1, <2>2, <2>3, <2>4, CallTrees DEF CallOps, CallStages
<1>5. stored' \in [Spaces -> Directories]
  BY <1>1, <1>3, NewMadeTyped
<1>6. SlopspacesTyped'
  BY <1>1, <1>2, <1>5, SlopspaceFilesAssumption DEF PanelCreates, Click, PanelElse, SlopspacesTyped
<1>7. CallsFit' /\ SignalsFit'
  BY <1>1, <1>2, PanelFit DEF InItsStage, CallOps, PanelCreates, PanelElse
<1>8. Undisturbed' /\ ~amiss'.raced => AgentFits'
  BY <1>1, <1>2, PanelAgents DEF SlopspacesInv, PanelCreates, PanelElse
<1> QED BY <1>4, <1>6, <1>7, <1>8 DEF SlopspacesInv

\* The panel's other calls move nothing as they begin.
LEMMA PanelCalls ==
  ASSUME SlopspacesInv, NEW op \in CallOps \ {"none", "create"}, NEW at \in CallStages, NEW i \in Spaces,
         Click, Call("panel", op, at, i), PanelElse, UNCHANGED <<stored, signal>>,
         InItsStage([op |-> op, at |-> at, id |-> i]),
         \/ op \notin {"return", "delete"}
         \/ at = "remove" /\ stored[i].meta = "stored"
         \/ at = "clear" /\ signal["turn"] \notin {"pending", "processing"},
         op = "deploy" => at = "clear" /\ path.marker = 0,
         op \in {"write", "add"} => at \in {"open", "copy"}
  PROVE  SlopspacesInv'
<1>1. SlopspacesTyped /\ CallsFit /\ SignalsFit /\ "panel" \in Hands /\ ~Busy("panel")
  BY DEF SlopspacesInv, Hands, Click
<1>2. /\ hands' \in [Hands -> CallStates]
      /\ amiss' \in AmissStates
      /\ hands'["panel"].op = op /\ hands'["panel"].at = at /\ hands'["panel"].id = i
      /\ \A g \in Hands : g # "panel" => hands'[g] = hands[g]
      /\ amiss'.raced = amiss.raced
      /\ Undisturbed' => Undisturbed
      /\ Undisturbed' /\ TreesFit => AllAtRest
  BY <1>1, CallFit
<1>3. Undisturbed' => TreesFit'
  <2>1. SUFFICES ASSUME Undisturbed' PROVE TreesFit'
    OBVIOUS
  <2>2. TreesFit /\ AllAtRest
    BY <1>2, <2>1 DEF SlopspacesInv
  <2>3. AllAtRest' /\ (PathClear => PathClear')
    BY <2>2, RestKept DEF PanelElse
  <2>4. op = "deploy" => PathClear
    BY <2>2, SlopspaceFilesAssumption DEF AllAtRest, PathAtRest, PathHolds, Spaces
  <2>5. SoFar(hands["panel"])'
    <3>1. \A j \in Spaces : InPlace(j)'
      BY <2>3 DEF AllAtRest
    <3>2. op = "deploy" => DeployFits(hands["panel"])'
      BY <1>2, <2>3, <2>4 DEF DeployFits
    <3>3. op \in {"return", "delete"} => ReturnFits(hands["panel"])'
      BY <1>2, <2>3 DEF ReturnFits
    <3>4. op \in {"write", "add"} => GitFits(hands["panel"])'
      BY <1>2, <2>3 DEF GitFits
    <3> QED BY <1>2, <3>1, <3>2, <3>3, <3>4 DEF SoFar
  <2> QED BY <1>1, <2>1, <2>2, <2>5, CallTrees DEF PanelElse
<1>4. SlopspacesTyped'
  BY <1>1, <1>2, SlopspaceFilesAssumption DEF Click, PanelElse, SlopspacesTyped
<1>5. InItsStage(hands'["panel"])
  BY <1>2 DEF InItsStage
<1>6. CallsFit' /\ SignalsFit'
  BY <1>1, <1>2, <1>5, PanelFit DEF PanelElse
<1>7. Undisturbed' /\ ~amiss'.raced => AgentFits'
  BY <1>1, <1>2, PanelAgents DEF SlopspacesInv, PanelElse
<1> QED BY <1>3, <1>4, <1>6, <1>7 DEF SlopspacesInv

\* The panel returns or deletes a slopspace.
LEMMA OnPanelMoves ==
  ASSUME SlopspacesInv, NEW i \in Spaces, PanelMoves(i) PROVE SlopspacesInv'
<1>1. ASSUME NEW op \in {"return", "delete"}, stored[i].meta = "deployed", Call("panel", op, "clear", i)
      PROVE  SlopspacesInv'
  <2>1. signal["turn"] \notin {"pending", "processing"}
    BY <1>1 DEF PanelMoves, Allowed, slopspaceWork, SlopspacesInv, SlopspacesTyped
  <2>2. InItsStage([op |-> op, at |-> "clear", id |-> i])
    BY <1>1 DEF InItsStage, CallOps
  <2>3. op \in CallOps \ {"none", "create"} /\ "clear" \in CallStages
    BY <1>1 DEF CallOps, CallStages
  <2> QED BY <1>1, <2>1, <2>2, <2>3, PanelCalls DEF PanelMoves
<1>2. ASSUME stored[i].meta = "stored", Call("panel", "delete", "remove", i)
      PROVE  SlopspacesInv'
  <2>1. InItsStage([op |-> "delete", at |-> "remove", id |-> i])
    BY DEF InItsStage, CallOps
  <2>2. "delete" \in CallOps \ {"none", "create"} /\ "remove" \in CallStages
    BY DEF CallOps, CallStages
  <2> QED BY <1>2, <2>1, <2>2, PanelCalls DEF PanelMoves
<1> QED BY <1>1, <1>2 DEF PanelMoves

\* The panel deploys a slopspace.
LEMMA OnPanelDeploys ==
  ASSUME SlopspacesInv, NEW i \in Spaces, PanelDeploys(i) PROVE SlopspacesInv'
<1>1. InItsStage([op |-> "deploy", at |-> "clear", id |-> i])
  BY DEF InItsStage, CallOps
<1>2. "deploy" \in CallOps \ {"none", "create"} /\ "clear" \in CallStages
  BY DEF CallOps, CallStages
<1> QED BY <1>1, <1>2, PanelCalls DEF PanelDeploys

\* The panel adds a repository to a slopspace, or writes one.
LEMMA OnPanelWrites ==
  ASSUME SlopspacesInv, NEW i \in Spaces, PanelWrites(i) PROVE SlopspacesInv'
<1>1. ASSUME Call("panel", "add", "copy", i) PROVE SlopspacesInv'
  <2>1. InItsStage([op |-> "add", at |-> "copy", id |-> i])
    BY DEF InItsStage, CallOps
  <2>2. "add" \in CallOps \ {"none", "create"} /\ "copy" \in CallStages
    BY DEF CallOps, CallStages
  <2> QED BY <1>1, <2>1, <2>2, PanelCalls DEF PanelWrites
<1>2. ASSUME Call("panel", "write", "open", i) PROVE SlopspacesInv'
  <2>1. InItsStage([op |-> "write", at |-> "open", id |-> i])
    BY DEF InItsStage, CallOps
  <2>2. "write" \in CallOps \ {"none", "create"} /\ "open" \in CallStages
    BY DEF CallOps, CallStages
  <2> QED BY <1>2, <2>1, <2>2, PanelCalls DEF PanelWrites
<1> QED BY <1>1, <1>2 DEF PanelWrites

\* Steps in which no tree moves and no call begins or ends.
LEMMA QuietTrees ==
  ASSUME TreesFit, UNCHANGED <<stored, path, hands>>,
         turn'.stage = "synced" <=> turn.stage = "synced",
         turn'.stage = "queued" => turn.stage = "queued",
         agent'.at = "made" <=> agent.at = "made"
  PROVE  TreesFit'
<1>1. \A h \in Hands : (Busy(h)' <=> Busy(h)) /\ (Under(h)' <=> Under(h))
  BY DEF Busy, Under
<1>2. OneAtATime' /\ StillFree'
  BY <1>1 DEF TreesFit, OneAtATime, StillFree, Hands
<1>3. AllAtRest <=> AllAtRest'
  BY DEF AllAtRest, InPlace, PathAtRest, PathClear, PathHolds, NoneDeployed, OnlyDeployed
<1>4. \A h \in Hands : Busy(h)' => SoFar(hands[h])'
  <2>1. SUFFICES ASSUME NEW h \in Hands, Busy(h)' PROVE SoFar(hands[h])'
    OBVIOUS
  <2>2. SoFar(hands[h]) /\ hands' = hands
    BY <1>1, <2>1 DEF TreesFit
  <2> QED BY <2>2 DEF SoFar, CreateFits, DeployFits, ReturnFits, GitFits, AllAtRest, InPlace,
               PathAtRest, PathClear, PathHolds, NoneDeployed, OnlyDeployed, Leaving, ComingBack, GitOut
<1> QED BY <1>1, <1>2, <1>3, <1>4 DEF TreesFit

\* The panel submits a prompt for the deployed slopspace.
LEMMA OnPanelCommands ==
  ASSUME SlopspacesInv, NEW i \in Spaces, PanelCommands(i) PROVE SlopspacesInv'
<1>1. SlopspacesTyped /\ CallsFit /\ SignalsFit
  BY DEF SlopspacesInv
<1>2. UNCHANGED <<stored, path, hands, turn, agent, halts>>
  BY DEF PanelCommands, PanelElse
<1>3. /\ signal' \in [{"turn", "command"} -> {"none", "pending", "processing", "done"}]
      /\ signal'["turn"] = signal["turn"]
  BY <1>1 DEF PanelCommands, Submitted, SlopspacesTyped
<1>4. /\ amiss' \in AmissStates
      /\ Undisturbed' <=> Undisturbed
      /\ ~amiss'.raced => ~amiss.raced
  BY <1>1 DEF PanelCommands, Submitted, SlopspacesTyped, AmissStates, Undisturbed, Busy
<1>5. SlopspacesTyped'
  BY <1>1, <1>2, <1>3, <1>4, SlopspaceFilesAssumption DEF PanelCommands, Click, SlopspacesTyped
<1>6. CallsFit' /\ SignalsFit'
  BY <1>1, <1>2, <1>3 DEF CallsFit, TurnCalls, WorkerCalls, InItsStage, SignalsFit, Busy
<1>7. Undisturbed' => TreesFit'
  BY <1>2, <1>4, QuietTrees DEF SlopspacesInv
<1>8. Undisturbed' /\ ~amiss'.raced => AgentFits'
  BY <1>2, <1>3, <1>4 DEF SlopspacesInv, AgentFits, Busy
<1> QED BY <1>5, <1>6, <1>7, <1>8 DEF SlopspacesInv

-----------------------------------------------------------------------------
\* The turn's calls.
LEMMA TurnCallsInv ==
  ASSUME SlopspacesInv, NEW op \in {"write", "deploy", "return"}, NEW at \in {"open", "clear"},
         op = "write" <=> at = "open",
         ~Busy("turn"), Call("turn", op, at, 1), TurnElse, UNCHANGED <<turn, signal>>,
         \/ op = "write" /\ turn.stage = "queued" /\ path.marker \in {0, 1} /\ stored[1].meta = "stored"
         \/ op = "write" /\ turn.stage = "returned"
         \/ op = "deploy" /\ turn.stage = "synced"
         \/ op = "return" /\ turn.stage = "signalled" /\ signal["turn"] = "done"
  PROVE  SlopspacesInv'
<1>1. SlopspacesTyped /\ CallsFit /\ SignalsFit /\ "turn" \in Hands /\ 1 \in Spaces
  BY SlopspaceFilesAssumption DEF SlopspacesInv, Hands, Spaces
<1>2. op \in CallOps \ {"none"} /\ at \in CallStages
  BY DEF CallOps, CallStages
<1>3. /\ hands' \in [Hands -> CallStates]
      /\ amiss' \in AmissStates
      /\ hands'["turn"].op = op /\ hands'["turn"].at = at /\ hands'["turn"].id = 1
      /\ \A g \in Hands : g # "turn" => hands'[g] = hands[g]
      /\ amiss'.raced = amiss.raced
      /\ Undisturbed' => Undisturbed
      /\ Undisturbed' /\ TreesFit => AllAtRest
  BY <1>1, <1>2, CallFit
<1>4. UNCHANGED <<stored, path, agent, clicks, halts>>
  BY DEF TurnElse
<1>5. Undisturbed' => TreesFit'
  <2>1. SUFFICES ASSUME Undisturbed' PROVE TreesFit'
    OBVIOUS
  <2>2. TreesFit /\ AllAtRest
    BY <1>3, <2>1 DEF SlopspacesInv
  <2>3. AllAtRest' /\ (PathClear => PathClear')
    BY <1>4, <2>2, RestKept
  <2>4. op = "deploy" => PathClear
    <3>1. op = "deploy" => path.marker = 0
      BY <2>2 DEF TreesFit, StillFree
    <3> QED BY <2>2, <3>1, SlopspaceFilesAssumption DEF AllAtRest, PathAtRest, PathHolds, Spaces
  <2>5. turn.stage = "queued" => path.marker = 0
    BY <1>1, <2>2 DEF AllAtRest, PathAtRest, PathClear, PathHolds, OnlyDeployed
  <2>6. SoFar(hands["turn"])'
    <3>1. \A j \in Spaces : InPlace(j)'
      BY <2>3 DEF AllAtRest
    <3>2. op = "deploy" => DeployFits(hands["turn"])'
      BY <1>3, <2>3, <2>4 DEF DeployFits
    <3>3. op = "return" => ReturnFits(hands["turn"])'
      BY <1>3, <2>3 DEF ReturnFits
    <3>4. op = "write" => GitFits(hands["turn"])'
      BY <1>3, <2>3 DEF GitFits
    <3> QED BY <1>3, <3>1, <3>2, <3>3, <3>4 DEF SoFar
  <2> QED BY <1>1, <1>2, <1>4, <2>1, <2>2, <2>5, <2>6, CallTrees
<1>6. SlopspacesTyped'
  BY <1>1, <1>3, <1>4 DEF SlopspacesTyped
<1>7. hands'["worker"] = hands["worker"] /\ hands'["panel"] = hands["panel"]
  BY <1>3 DEF Hands
<1>8. CallsFit'
  <2>1. \A g \in Hands : Busy(g)' => InItsStage(hands[g])'
    <3>1. InItsStage(hands'["turn"])
      BY <1>1, <1>2, <1>3 DEF InItsStage
    <3> QED BY <1>1, <1>3, <3>1 DEF CallsFit, Busy, InItsStage
  <2>2. TurnCalls'
    BY <1>3 DEF TurnCalls
  <2>3. WorkerCalls'
    BY <1>1, <1>4, <1>7 DEF CallsFit, WorkerCalls, Busy
  <2> QED BY <2>1, <2>2, <2>3 DEF CallsFit
<1>9. SignalsFit'
  BY <1>1, <1>4 DEF SignalsFit
<1>10. Undisturbed' /\ ~amiss'.raced => AgentFits'
  <2>1. signal["turn"] \notin {"pending", "processing"}
    BY <1>1 DEF SignalsFit
  <2> QED BY <1>3, <1>4, <2>1 DEF SlopspacesInv, AgentFits
<1> QED BY <1>5, <1>6, <1>8, <1>9, <1>10 DEF SlopspacesInv

\* The steps of the turn that make no call.
LEMMA TurnQuietInv ==
  ASSUME SlopspacesInv, ~Busy("turn"), UNCHANGED <<stored, path, hands, signal, agent, amiss, halts>>,
         turn' \in TurnStates,
         clicks' \in 0 .. MaxClicks,
         \/ turn'.stage = turn.stage
         \/ turn.stage = "queued" /\ turn'.stage = "deployed"
         \/ turn.stage = "signalled" /\ turn'.stage = "returned" /\ signal["turn"] = "done"
  PROVE  SlopspacesInv'
<1>1. SlopspacesTyped /\ CallsFit /\ SignalsFit
  BY DEF SlopspacesInv
<1>2. SlopspacesTyped'
  BY <1>1 DEF SlopspacesTyped
<1>3. CallsFit'
  BY <1>1 DEF CallsFit, TurnCalls, WorkerCalls, InItsStage, Busy
<1>4. SignalsFit'
  BY <1>1 DEF SignalsFit
<1>5. Undisturbed' => TreesFit'
  BY QuietTrees DEF SlopspacesInv, Undisturbed
<1>6. Undisturbed' /\ ~amiss'.raced => AgentFits'
  BY DEF SlopspacesInv, AgentFits, Undisturbed, Busy
<1> QED BY <1>2, <1>3, <1>4, <1>5, <1>6 DEF SlopspacesInv

\* A turn looks where its slopspace is.
LEMMA OnTurnLooks == ASSUME SlopspacesInv, TurnLooks PROVE SlopspacesInv'
<1>1. SlopspacesTyped
  BY DEF SlopspacesInv
<1>2. CASE stored[1].meta = "stored" /\ Call("turn", "write", "open", 1) /\ UNCHANGED turn
  BY <1>2, TurnCallsInv DEF TurnLooks, TurnRuns
<1>3. CASE turn' = [turn EXCEPT !.stage = "deployed"] /\ UNCHANGED <<hands, amiss>>
  <2>1. turn' \in TurnStates /\ turn'.stage = "deployed"
    BY <1>1, <1>3 DEF SlopspacesTyped, TurnStates, TurnStages
  <2> QED BY <1>1, <1>3, <2>1, TurnQuietInv DEF TurnLooks, TurnRuns, TurnElse, SlopspacesTyped
<1>4. CASE turn' = [turn EXCEPT !.error = TRUE] /\ UNCHANGED <<hands, amiss>>
  <2>1. turn' \in TurnStates /\ turn'.stage = turn.stage
    BY <1>1, <1>4 DEF SlopspacesTyped, TurnStates
  <2> QED BY <1>1, <1>4, <2>1, TurnQuietInv DEF TurnLooks, TurnRuns, TurnElse, SlopspacesTyped
<1> QED BY <1>2, <1>3, <1>4 DEF TurnLooks

\* A turn deploys its slopspace.
LEMMA OnTurnDeploys == ASSUME SlopspacesInv, TurnDeploys PROVE SlopspacesInv'
BY TurnCallsInv DEF TurnDeploys, TurnRuns

\* A turn submits its signal.
LEMMA OnTurnSubmits == ASSUME SlopspacesInv, TurnSubmits PROVE SlopspacesInv'
<1>1. SlopspacesTyped /\ CallsFit /\ SignalsFit
  BY DEF SlopspacesInv
<1>2. UNCHANGED <<stored, path, hands, agent, clicks, halts>> /\ turn.stage = "deployed" /\ ~Busy("turn")
  BY DEF TurnSubmits, TurnElse, TurnRuns
<1>3. /\ signal' \in [{"turn", "command"} -> {"none", "pending", "processing", "done"}]
      /\ signal'["turn"] = "pending"
  BY <1>1 DEF TurnSubmits, Submitted, SlopspacesTyped
<1>4. /\ amiss' \in AmissStates
      /\ Undisturbed' <=> Undisturbed
      /\ ~amiss'.raced => ~amiss.raced /\ ~Busy("panel")
  BY <1>1 DEF TurnSubmits, Submitted, SlopspacesTyped, AmissStates, Undisturbed, Busy
<1>5. /\ turn' \in TurnStates
      /\ turn'.stage = "signalled"
  <2>1. (stored[1].meta = "deployed") \in BOOLEAN
    OBVIOUS
  <2> QED BY <1>1, <2>1 DEF TurnSubmits, SlopspacesTyped, TurnStates, TurnStages
<1>6. SlopspacesTyped'
  BY <1>1, <1>2, <1>3, <1>4, <1>5 DEF SlopspacesTyped
<1>7. signal["turn"] = "none"
  BY <1>1, <1>2 DEF SignalsFit
<1>8. CallsFit' /\ SignalsFit'
  BY <1>1, <1>2, <1>3, <1>5, <1>7 DEF CallsFit, TurnCalls, WorkerCalls, InItsStage, SignalsFit, Busy
<1>9. Undisturbed' => TreesFit'
  BY <1>2, <1>4, <1>5, QuietTrees DEF SlopspacesInv
<1>10. Undisturbed' /\ ~amiss'.raced => AgentFits'
  <2>1. ~(agent.at = "running" /\ agent.for = "turn")
    BY <1>1, <1>7 DEF SignalsFit
  <2> QED BY <1>2, <1>4, <2>1 DEF AgentFits, Busy
<1> QED BY <1>6, <1>8, <1>9, <1>10 DEF SlopspacesInv

\* A turn finds its signal answered.
LEMMA OnTurnAnswered == ASSUME SlopspacesInv, TurnAnswered PROVE SlopspacesInv'
<1>1. SlopspacesTyped
  BY DEF SlopspacesInv
<1>2. CASE Call("turn", "return", "clear", 1) /\ UNCHANGED turn
  BY <1>2, TurnCallsInv DEF TurnAnswered, TurnRuns
<1>3. CASE turn' = [turn EXCEPT !.stage = "returned"] /\ UNCHANGED <<hands, amiss>>
  <2>1. turn' \in TurnStates /\ turn'.stage = "returned"
    BY <1>1, <1>3 DEF SlopspacesTyped, TurnStates, TurnStages
  <2> QED BY <1>1, <1>3, <2>1, TurnQuietInv DEF TurnAnswered, TurnRuns, TurnElse, SlopspacesTyped
<1> QED BY <1>2, <1>3 DEF TurnAnswered

\* A turn writes to its slopspace.
LEMMA OnTurnWrites == ASSUME SlopspacesInv, TurnWrites PROVE SlopspacesInv'
<1>1. SlopspacesTyped
  BY DEF SlopspacesInv
<1>2. CASE Call("turn", "write", "open", 1) /\ UNCHANGED turn
  BY <1>2, TurnCallsInv DEF TurnWrites, TurnRuns
<1>3. CASE turn' = [turn EXCEPT !.error = TRUE] /\ UNCHANGED <<hands, amiss>>
  <2>1. turn' \in TurnStates /\ turn'.stage = turn.stage
    BY <1>1, <1>3 DEF SlopspacesTyped, TurnStates
  <2> QED BY <1>1, <1>3, <2>1, TurnQuietInv DEF TurnWrites, TurnRuns, TurnElse, SlopspacesTyped
<1> QED BY <1>2, <1>3 DEF TurnWrites

\* A turn that has failed makes no call.
LEMMA OnTurnResubmitted == ASSUME SlopspacesInv, TurnResubmitted PROVE SlopspacesInv'
<1>1. SlopspacesTyped /\ CallsFit /\ SignalsFit
  BY DEF SlopspacesInv
<1>2. /\ turn' \in TurnStates
      /\ turn'.stage = turn.stage
  <2>1. (stored[1].meta = "deployed") \in BOOLEAN
    OBVIOUS
  <2> QED BY <1>1, <2>1 DEF TurnResubmitted, SlopspacesTyped, TurnStates
<1>3. UNCHANGED <<stored, path, hands, signal, agent, amiss, halts>> /\ clicks' \in 0 .. MaxClicks
  BY <1>1, SlopspaceFilesAssumption DEF TurnResubmitted, SlopspacesTyped
<1>4. SlopspacesTyped'
  BY <1>1, <1>2, <1>3 DEF SlopspacesTyped
<1>5. CallsFit' /\ SignalsFit'
  BY <1>1, <1>2, <1>3 DEF CallsFit, TurnCalls, WorkerCalls, InItsStage, SignalsFit, Busy
<1>6. Undisturbed' => TreesFit'
  BY <1>2, <1>3, QuietTrees DEF SlopspacesInv, Undisturbed
<1>7. Undisturbed' /\ ~amiss'.raced => AgentFits'
  BY <1>2, <1>3 DEF SlopspacesInv, AgentFits, Undisturbed, Busy
<1> QED BY <1>4, <1>5, <1>6, <1>7 DEF SlopspacesInv

-----------------------------------------------------------------------------
\* The worker.
LEMMA OnWorkerTakes ==
  ASSUME SlopspacesInv, NEW k \in DOMAIN signal, WorkerTakes(k) PROVE SlopspacesInv'
<1>1. SlopspacesTyped /\ CallsFit /\ SignalsFit /\ k \in {"turn", "command"}
  BY DEF SlopspacesInv, SlopspacesTyped
<1>2. UNCHANGED <<stored, path, hands, turn, amiss, clicks, halts>> /\ agent.at = "none" /\ signal[k] = "pending"
  BY DEF WorkerTakes
<1>3. /\ signal' \in [{"turn", "command"} -> {"none", "pending", "processing", "done"}]
      /\ signal'[k] = "processing" /\ \A j \in {"turn", "command"} \ {k} : signal'[j] = signal[j]
  BY <1>1 DEF WorkerTakes, SlopspacesTyped
<1>4. /\ agent' \in AgentStates
      /\ agent'.at = "taken" /\ agent'.for = k /\ agent'.own = FALSE
  <2>1. agent' = [at |-> "taken", id |-> 0, own |-> FALSE, for |-> k]
    BY DEF WorkerTakes, NoAgent
  <2> QED BY <1>1, <2>1, SlopspaceFilesAssumption DEF AgentStates
<1>5. SlopspacesTyped'
  BY <1>1, <1>2, <1>3, <1>4 DEF SlopspacesTyped
<1>6. ~Busy("worker")
  BY <1>1, <1>2 DEF CallsFit, WorkerCalls
<1>7. CallsFit'
  <2>1. \A g \in Hands : Busy(g)' => InItsStage(hands[g])'
    BY <1>1, <1>2 DEF CallsFit, InItsStage, Busy
  <2>2. TurnCalls'
    BY <1>1, <1>2, <1>3 DEF CallsFit, TurnCalls, Busy
  <2>3. WorkerCalls'
    BY <1>2, <1>4, <1>6 DEF WorkerCalls, Busy
  <2> QED BY <2>1, <2>2, <2>3 DEF CallsFit
<1>8. SignalsFit'
  BY <1>1, <1>2, <1>3, <1>4 DEF SignalsFit
<1>9. Undisturbed' => TreesFit'
  BY <1>2, <1>4, QuietTrees DEF SlopspacesInv, Undisturbed
<1>10. Undisturbed' /\ ~amiss'.raced => AgentFits'
  BY <1>1, <1>2, <1>3, <1>4 DEF SlopspacesInv, AgentFits, Undisturbed, Busy
<1> QED BY <1>5, <1>7, <1>8, <1>9, <1>10 DEF SlopspacesInv

\* Where a turn's signal is worked on, the marker at the deploy path is true.
LEMMA MarkerTrue ==
  ASSUME SlopspacesTyped, CallsFit, TreesFit, AgentFits, path.marker # 0,
         signal["turn"] \in {"pending", "processing"}, ~Busy("worker")
  PROVE  path.tree = path.marker
<1>1. AllAtRest => path.tree = path.marker
  BY DEF AllAtRest, PathAtRest, PathClear, PathHolds
<1>2. PathAtRest => path.tree = path.marker
  BY DEF PathAtRest, PathClear, PathHolds
<1>3. CASE \A h \in Hands : ~Busy(h)
  BY <1>1, <1>3 DEF TreesFit
<1>4. CASE Busy("panel")
  <2> DEFINE c == hands["panel"]
  <2>1. InItsStage(c) /\ SoFar(c)
    BY <1>4 DEF CallsFit, TreesFit, Hands
  <2>2. c.op \in {"return", "delete"} => c.at = "remove"
    BY DEF AgentFits
  <2>3. CASE c.op = "create"
    BY <1>1, <2>1, <2>3 DEF SoFar, CreateFits
  <2>4. CASE c.op = "deploy"
    BY <2>1, <2>4 DEF SoFar, DeployFits, InItsStage, PathClear, Leaving
  <2>5. CASE c.op \in {"return", "delete"}
    BY <1>1, <2>1, <2>2, <2>5 DEF SoFar, ReturnFits
  <2>6. CASE c.op \in {"write", "add"}
    BY <1>1, <1>2, <2>1, <2>6 DEF SoFar, GitFits, InItsStage
  <2>7. c.op \in CallOps \ {"none"}
    BY <2>1 DEF InItsStage
  <2> QED BY <2>3, <2>4, <2>5, <2>6, <2>7 DEF CallOps
<1>5. ~Busy("turn")
  BY DEF AgentFits
<1> QED BY <1>3, <1>4, <1>5 DEF Hands

\* The worker has no call under way, and makes one or none.
LEMMA WorkerStepInv ==
  ASSUME SlopspacesInv, ~Busy("worker"),
         UNCHANGED <<path, turn, signal, clicks, halts>>,
         stored' \in [Spaces -> Directories],
         agent' \in AgentStates,
         agent'.for = agent.for, agent.at \in {"taken", "made", "running"},
         agent'.at \in {"taken", "made", "running", "ended"},
         agent'.at \in {"made", "running"} \/ agent'.own => agent'.id \in Spaces,
         \/ /\ UNCHANGED <<stored, hands, amiss>>
            /\ agent'.at = "made" <=> agent.at = "made"
         \/ \E op \in {"create", "deploy", "return"}, at \in {"save", "clear"}, i \in Spaces :
               /\ Call("worker", op, at, i)
               /\ op = "create" => at = "save" /\ agent'.at = "taken" /\ agent'.id = i /\ path.marker = 0
               /\ op # "create" => at = "clear" /\ stored' = stored
               /\ op = "deploy" => agent.at = "made" /\ agent'.at = "made" /\ agent'.id = i
               /\ op = "return" => agent'.at = "ended"
               /\ agent'.at = agent.at \/ agent'.at # "made"
               /\ op = "create" /\ Undisturbed' /\ TreesFit => SoFar(hands["worker"])',
         Undisturbed' /\ ~amiss'.raced /\ Undisturbed /\ TreesFit /\ ~amiss.raced /\ AgentFits =>
            (agent'.at = "running" /\ agent'.for = "turn" => path.tree = agent'.id /\ path.marker = agent'.id)
  PROVE  SlopspacesInv'
<1>1. SlopspacesTyped /\ CallsFit /\ SignalsFit /\ "worker" \in Hands
  BY DEF SlopspacesInv, Hands
<1>2. SignalsFit'
  BY <1>1 DEF SignalsFit
<1>3. CASE UNCHANGED <<stored, hands, amiss>> /\ (agent'.at = "made" <=> agent.at = "made")
  <2>1. SlopspacesTyped'
    BY <1>1, <1>3 DEF SlopspacesTyped
  <2>2. CallsFit'
    <3>1. \A g \in Hands : Busy(g)' => InItsStage(hands[g])'
      BY <1>1, <1>3 DEF CallsFit, InItsStage, Busy
    <3>2. TurnCalls'
      BY <1>1, <1>3 DEF CallsFit, TurnCalls, Busy
    <3>3. WorkerCalls'
      BY <1>3 DEF WorkerCalls, Busy
    <3> QED BY <3>1, <3>2, <3>3 DEF CallsFit
  <2>3. Undisturbed' => TreesFit'
    BY <1>3, QuietTrees DEF SlopspacesInv, Undisturbed
  <2>4. Undisturbed' /\ ~amiss'.raced => AgentFits'
    BY <1>3 DEF SlopspacesInv, AgentFits, Undisturbed, Busy
  <2> QED BY <1>2, <2>1, <2>2, <2>3, <2>4 DEF SlopspacesInv
<1>4. ASSUME NEW op \in {"create", "deploy", "return"}, NEW at \in {"save", "clear"}, NEW i \in Spaces,
             Call("worker", op, at, i),
             op = "create" => at = "save" /\ agent'.at = "taken" /\ agent'.id = i /\ path.marker = 0,
             op # "create" => at = "clear" /\ stored' = stored,
             op = "deploy" => agent.at = "made" /\ agent'.at = "made" /\ agent'.id = i,
             op = "return" => agent'.at = "ended",
             agent'.at = agent.at \/ agent'.at # "made",
             op = "create" /\ Undisturbed' /\ TreesFit => SoFar(hands["worker"])'
      PROVE  SlopspacesInv'
  <2>1. op \in CallOps \ {"none"} /\ at \in CallStages
    BY DEF CallOps, CallStages
  <2>2. /\ hands' \in [Hands -> CallStates]
        /\ amiss' \in AmissStates
        /\ hands'["worker"].op = op /\ hands'["worker"].at = at /\ hands'["worker"].id = i
        /\ \A g \in Hands : g # "worker" => hands'[g] = hands[g]
        /\ amiss'.raced = amiss.raced
        /\ Undisturbed' => Undisturbed
        /\ Undisturbed' /\ TreesFit => AllAtRest
    BY <1>1, <1>4, <2>1, CallFit
  <2>3. SlopspacesTyped'
    BY <1>1, <2>2 DEF SlopspacesTyped
  <2>4. CallsFit'
    <3>1. InItsStage(hands'["worker"])
      BY <1>4, <2>1, <2>2 DEF InItsStage
    <3>2. \A g \in Hands : Busy(g)' => InItsStage(hands[g])'
      BY <1>1, <2>2, <3>1 DEF CallsFit, InItsStage, Busy
    <3>3. TurnCalls'
      BY <1>1, <2>2 DEF CallsFit, TurnCalls, Busy, Hands
    <3>4. WorkerCalls'
      BY <1>4, <2>2 DEF WorkerCalls
    <3> QED BY <3>2, <3>3, <3>4 DEF CallsFit
  <2>5. Undisturbed' => TreesFit'
    <3>1. SUFFICES ASSUME Undisturbed' PROVE TreesFit'
      OBVIOUS
    <3>2. TreesFit /\ AllAtRest
      BY <2>2, <3>1 DEF SlopspacesInv
    <3>3. SoFar(hands["worker"])'
      <4>1. CASE op = "create"
        BY <1>4, <3>1, <3>2, <4>1
      <4>2. CASE op # "create"
        <5>1. AllAtRest' /\ (PathClear => PathClear')
          BY <1>4, <3>2, <4>2, RestKept
        <5>2. op = "deploy" => PathClear
          <6>1. op = "deploy" => path.marker = 0
            BY <1>4, <3>2 DEF TreesFit, StillFree
          <6> QED BY <3>2, <6>1, SlopspaceFilesAssumption DEF AllAtRest, PathAtRest, PathHolds, Spaces
        <5>3. \A j \in Spaces : InPlace(j)'
          BY <5>1 DEF AllAtRest
        <5>4. op = "deploy" => DeployFits(hands["worker"])'
          BY <1>4, <2>2, <5>1, <5>2 DEF DeployFits
        <5>5. op = "return" => ReturnFits(hands["worker"])'
          BY <1>4, <2>2, <5>1 DEF ReturnFits
        <5> QED BY <2>2, <4>2, <5>3, <5>4, <5>5 DEF SoFar
      <4> QED BY <4>1, <4>2
    <3> QED BY <1>1, <1>4, <2>1, <3>1, <3>2, <3>3, CallTrees
  <2>6. Undisturbed' /\ ~amiss'.raced => AgentFits'
    <3>1. hands'["turn"] = hands["turn"] /\ hands'["panel"] = hands["panel"]
      BY <2>2 DEF Hands
    <3> QED BY <2>2, <3>1 DEF SlopspacesInv, AgentFits, Busy
  <2> QED BY <1>2, <2>3, <2>4, <2>5, <2>6 DEF SlopspacesInv
<1> QED BY <1>3, <1>4

\* An agent that makes a slopspace of its own is at work as before, on that one.
LEMMA OwnSpace ==
  ASSUME NEW a \in AgentStates, NEW i \in 0 .. MaxSpaces
  PROVE  LET b == [a EXCEPT !.id = i, !.own = TRUE] IN
         b \in AgentStates /\ b.for = a.for /\ b.own /\ b.at = a.at /\ b.id = i
BY DEF AgentStates

\* The worker takes a signal and looks for its slopspace.
LEMMA OnWorkerLooks == ASSUME SlopspacesInv, WorkerLooks PROVE SlopspacesInv'
<1>1. SlopspacesTyped /\ CallsFit /\ SignalsFit
  BY DEF SlopspacesInv
<1>2. UNCHANGED <<path, turn, signal, clicks, halts>> /\ agent.at = "taken" /\ ~Busy("worker")
  BY DEF WorkerLooks
<1>3. path.marker \in 0 .. MaxSpaces
  BY <1>1 DEF SlopspacesTyped, DeployPaths
<1>4. CASE /\ path.marker # 0
           /\ agent' = IF stored[path.marker].meta = "none" THEN [agent EXCEPT !.at = "ended"]
                       ELSE [agent EXCEPT !.at = "running", !.id = path.marker]
           /\ UNCHANGED <<stored, hands, amiss>>
  <2>1. path.marker \in Spaces
    BY <1>3, <1>4, SlopspaceFilesAssumption DEF Spaces
  <2>2. /\ agent' \in AgentStates
        /\ agent'.for = agent.for /\ agent'.own = agent.own
        /\ \/ agent'.at = "ended" /\ agent'.id = agent.id
           \/ agent'.at = "running" /\ agent'.id = path.marker
    BY <1>1, <1>3, <1>4 DEF SlopspacesTyped, AgentStates
  <2>3. agent'.at \in {"made", "running"} \/ agent'.own => agent'.id \in Spaces
    BY <1>1, <2>1, <2>2 DEF CallsFit, WorkerCalls
  <2>4. ASSUME TreesFit, AgentFits, agent'.at = "running", agent'.for = "turn"
        PROVE  path.tree = agent'.id /\ path.marker = agent'.id
    BY <1>1, <1>2, <1>4, <2>2, <2>4, MarkerTrue DEF SignalsFit
  <2>5. stored' \in [Spaces -> Directories]
    BY <1>1, <1>4 DEF SlopspacesTyped
  <2> QED BY <1>2, <1>4, <2>2, <2>3, <2>4, <2>5, WorkerStepInv
<1>5. ASSUME NEW i \in Spaces, path.marker = 0, MakeNew("worker", i),
             agent' = [agent EXCEPT !.id = i, !.own = TRUE]
      PROVE  SlopspacesInv'
  <2>1. NewMade(i) /\ Call("worker", "create", "save", i)
    BY <1>5 DEF NewMade, MakeNew
  <2>2. stored' \in [Spaces -> Directories]
    BY <1>1, <2>1, NewMadeTyped
  <2>3. /\ agent' \in AgentStates
        /\ agent'.for = agent.for /\ agent'.own /\ agent'.at = "taken" /\ agent'.id = i
    <3>1. agent \in AgentStates /\ i \in 0 .. MaxSpaces
      BY <1>1, SlopspaceFilesAssumption DEF SlopspacesTyped, Spaces
    <3> QED BY <1>2, <1>5, <3>1, OwnSpace
  <2>4. "worker" \in Hands /\ "create" \in CallOps /\ "save" \in CallStages
    BY DEF Hands, CallOps, CallStages
  <2>5. /\ hands'["worker"].op = "create" /\ hands'["worker"].id = i
        /\ Undisturbed' /\ TreesFit => AllAtRest
    BY <1>1, <1>2, <2>1, <2>4, CallFit
  <2>6. Undisturbed' /\ TreesFit => SoFar(hands["worker"])'
    BY <1>1, <1>2, <2>1, <2>5, NewMadeFits
  <2> QED BY <1>2, <1>5, <2>1, <2>2, <2>3, <2>6, WorkerStepInv
<1>6. CASE agent' = [agent EXCEPT !.at = "ended"] /\ UNCHANGED <<stored, hands, amiss>>
  <2>1. /\ agent' \in AgentStates
        /\ agent'.for = agent.for /\ agent'.own = agent.own /\ agent'.at = "ended" /\ agent'.id = agent.id
    BY <1>1, <1>6 DEF SlopspacesTyped, AgentStates
  <2>2. agent'.at \in {"made", "running"} \/ agent'.own => agent'.id \in Spaces
    BY <1>1, <2>1 DEF CallsFit, WorkerCalls
  <2>3. stored' \in [Spaces -> Directories]
    BY <1>1, <1>6 DEF SlopspacesTyped
  <2> QED BY <1>2, <1>6, <2>1, <2>2, <2>3, WorkerStepInv
<1> QED BY <1>4, <1>5, <1>6 DEF WorkerLooks

\* The worker deploys the slopspace of its signal.
LEMMA OnWorkerDeploys == ASSUME SlopspacesInv, WorkerDeploys PROVE SlopspacesInv'
<1>1. SlopspacesTyped /\ CallsFit /\ SignalsFit
  BY DEF SlopspacesInv
<1>2. UNCHANGED <<stored, path, turn, signal, agent, clicks, halts>> /\ agent.at = "made" /\ ~Busy("worker")
      /\ Call("worker", "deploy", "clear", agent.id)
  BY DEF WorkerDeploys
<1>3. agent.id \in Spaces
  BY <1>1, <1>2 DEF CallsFit, WorkerCalls
<1>4. stored' \in [Spaces -> Directories]
      /\ agent' \in AgentStates
  BY <1>1, <1>2 DEF SlopspacesTyped
<1>5. PICK i \in Spaces : i = agent.id
  BY <1>3
<1> QED BY <1>2, <1>4, <1>5, WorkerStepInv

\* The agent of the worker exits.
LEMMA OnAgentExits == ASSUME SlopspacesInv, AgentExits PROVE SlopspacesInv'
<1>1. SlopspacesTyped /\ CallsFit /\ SignalsFit
  BY DEF SlopspacesInv
<1>2. UNCHANGED <<stored, path, turn, signal, clicks, halts>> /\ agent.at = "running"
  BY DEF AgentExits
<1>3. ~Busy("worker") /\ agent.id \in Spaces
  BY <1>1, <1>2 DEF CallsFit, WorkerCalls
<1>4. /\ agent' \in AgentStates
      /\ agent'.for = agent.for /\ agent'.at = "ended" /\ agent'.id = agent.id
  BY <1>1 DEF AgentExits, SlopspacesTyped, AgentStates
<1>5. stored' \in [Spaces -> Directories]
  BY <1>1, <1>2 DEF SlopspacesTyped
<1>6. CASE Call("worker", "return", "clear", agent.id)
  <2>1. PICK i \in Spaces : i = agent.id
    BY <1>3
  <2> QED BY <1>2, <1>3, <1>4, <1>5, <1>6, <2>1, WorkerStepInv
<1>7. CASE UNCHANGED <<hands, amiss>>
  BY <1>2, <1>3, <1>4, <1>5, <1>7, WorkerStepInv
<1> QED BY <1>6, <1>7 DEF AgentExits

\* The worker completes its signal.
LEMMA OnWorkerCompletes == ASSUME SlopspacesInv, WorkerCompletes PROVE SlopspacesInv'
<1>1. SlopspacesTyped /\ CallsFit /\ SignalsFit /\ agent.for \in {"turn", "command"}
  BY DEF SlopspacesInv, SlopspacesTyped, AgentStates
<1>2. UNCHANGED <<stored, path, hands, turn, amiss, clicks, halts>> /\ agent.at = "ended" /\ ~Busy("worker")
  BY DEF WorkerCompletes
<1>3. /\ signal' \in [{"turn", "command"} -> {"none", "pending", "processing", "done"}]
      /\ agent.for = "turn" => signal'["turn"] = "done"
      /\ agent.for # "turn" => signal'["turn"] = signal["turn"]
  BY <1>1 DEF WorkerCompletes, SlopspacesTyped
<1>4. agent.for = "turn" => signal["turn"] = "processing"
  BY <1>1, <1>2 DEF SignalsFit
<1>5. agent' = [at |-> "none", id |-> 0, own |-> FALSE, for |-> "turn"]
  BY DEF WorkerCompletes, NoAgent
<1>6. SlopspacesTyped'
  BY <1>1, <1>2, <1>3, <1>5, SlopspaceFilesAssumption DEF SlopspacesTyped, AgentStates
<1>7. CallsFit'
  <2>1. \A g \in Hands : Busy(g)' => InItsStage(hands[g])'
    BY <1>1, <1>2 DEF CallsFit, InItsStage, Busy
  <2>2. TurnCalls'
    BY <1>1, <1>2, <1>3 DEF CallsFit, TurnCalls, Busy
  <2>3. WorkerCalls'
    BY <1>2, <1>5 DEF WorkerCalls, Busy
  <2> QED BY <2>1, <2>2, <2>3 DEF CallsFit
<1>8. SignalsFit'
  BY <1>1, <1>2, <1>3, <1>4, <1>5 DEF SignalsFit
<1>9. Undisturbed' => TreesFit'
  BY <1>2, <1>5, QuietTrees DEF SlopspacesInv, Undisturbed
<1>10. Undisturbed' /\ ~amiss'.raced => AgentFits'
  BY <1>2, <1>3, <1>4, <1>5 DEF SlopspacesInv, AgentFits, Undisturbed, Busy
<1> QED BY <1>6, <1>7, <1>8, <1>9, <1>10 DEF SlopspacesInv

-----------------------------------------------------------------------------
\* It holds of the condoc's slopspace and any others, none of them deployed,
LEMMA SlopspacesAtFirst == SlopspaceFilesInit => SlopspacesInv
<1> SUFFICES ASSUME SlopspaceFilesInit PROVE SlopspacesInv
  OBVIOUS
<1>1. stored \in [Spaces -> Directories] /\ \A i \in Spaces : InPlace(i) /\ stored[i].meta # "deployed"
  <2>1. PICK there \in SUBSET Spaces :
           stored = [i \in Spaces |->
                        IF i \in there THEN [meta |-> "stored", root |-> TRUE, read |-> TRUE,
                                             tree |-> i, git |-> "secure"]
                        ELSE NoSpace]
    BY DEF SlopspaceFilesInit
  <2>2. \A i \in Spaces : i \in 0 .. MaxSpaces
    BY SlopspaceFilesAssumption DEF Spaces
  <2>3. \A i \in Spaces : [meta |-> "stored", root |-> TRUE, read |-> TRUE, tree |-> i, git |-> "secure"] \in Directories
    BY <2>2 DEF Directories
  <2>4. NoSpace \in Directories
    BY SlopspaceFilesAssumption DEF NoSpace, Directories
  <2>5. stored \in [Spaces -> Directories]
    BY <2>1, <2>3, <2>4
  <2>6. \A i \in Spaces : InPlace(i) /\ stored[i].meta # "deployed"
    BY <2>1 DEF InPlace, NoSpace
  <2> QED BY <2>5, <2>6
<1>2. /\ path = [read |-> FALSE, tree |-> 0, marker |-> 0]
      /\ hands = [h \in Hands |-> Idle]
      /\ turn = [stage |-> "queued", deployed |-> FALSE, error |-> FALSE]
      /\ signal = [k \in {"turn", "command"} |-> "none"]
      /\ agent = [at |-> "none", id |-> 0, own |-> FALSE, for |-> "turn"]
      /\ amiss = [overlapped |-> FALSE, cut |-> FALSE, raced |-> FALSE]
      /\ clicks = 0 /\ halts = 0
  BY DEF SlopspaceFilesInit, NoAgent
<1>3. Idle \in CallStates /\ 0 \in 0 .. MaxSpaces
  BY SlopspaceFilesAssumption DEF Idle, CallStates, CallOps, CallStages
<1>4. SlopspacesTyped
  BY <1>1, <1>2, <1>3, SlopspaceFilesAssumption DEF SlopspacesTyped, CallStates, TurnStates, AgentStates, AmissStates, DeployPaths, TurnStages
<1>5. \A h \in Hands : hands[h].op = "none"
  BY <1>2 DEF Idle
<1>6. \A h \in Hands : ~Busy(h) /\ ~Under(h)
  BY <1>2, <1>5 DEF Busy, Under
<1>7. CallsFit /\ SignalsFit
  BY <1>2, <1>5, <1>6 DEF CallsFit, TurnCalls, WorkerCalls, SignalsFit, Hands
<1>8. AllAtRest
  BY <1>1, <1>2 DEF AllAtRest, PathAtRest, PathClear, NoneDeployed
<1>9. TreesFit
  BY <1>2, <1>5, <1>6, <1>8 DEF TreesFit, OneAtATime, StillFree, Hands
<1>10. AgentFits
  BY <1>2 DEF AgentFits
<1> QED BY <1>4, <1>7, <1>9, <1>10 DEF SlopspacesInv

\* and no step of a call, of the panel, the turn or the worker ends it.
LEMMA SlopspacesStep ==
  ASSUME SlopspacesInv, SlopspaceFilesNext
  PROVE  SlopspacesInv'
<1>1. ASSUME NEW h \in Hands,
             \/ SaveNew(h) \/ DeployClear(h) \/ DeployMove(h) \/ DeployMark(h) \/ DeploySave(h)
             \/ ReturnClear(h) \/ ReturnMove(h) \/ ReturnRestore(h) \/ ReturnSave(h)
             \/ DeleteRemove(h) \/ WriteOpen(h) \/ WriteClose(h) \/ AddCopy(h) \/ AddSecure(h)
             \/ Stops(h)
      PROVE  SlopspacesInv'
  BY <1>1, OnSaveNew, OnDeployClear, OnDeployMove, OnDeployMark, OnDeploySave, OnReturnClear, OnReturnMove,
     OnReturnRestore, OnReturnSave, OnDeleteRemove, OnWriteOpen, OnWriteClose, OnAddCopy, OnAddSecure, OnStops
<1>2. ASSUME NEW i \in Spaces,
             PanelCreates(i) \/ PanelMoves(i) \/ PanelDeploys(i) \/ PanelWrites(i) \/ PanelCommands(i)
      PROVE  SlopspacesInv'
  BY <1>2, OnPanelCreates, OnPanelMoves, OnPanelDeploys, OnPanelWrites, OnPanelCommands
<1>3. CASE TurnLooks \/ TurnDeploys \/ TurnSubmits \/ TurnAnswered \/ TurnWrites \/ TurnResubmitted
  BY <1>3, OnTurnLooks, OnTurnDeploys, OnTurnSubmits, OnTurnAnswered, OnTurnWrites, OnTurnResubmitted
<1>4. CASE WorkerLooks \/ WorkerDeploys \/ AgentExits \/ WorkerCompletes
  BY <1>4, OnWorkerLooks, OnWorkerDeploys, OnAgentExits, OnWorkerCompletes
<1> QED BY <1>1, <1>2, <1>3, <1>4, OnWorkerTakes DEF SlopspaceFilesNext

\* It is enough.
LEMMA SlopspacesInvIntact == SlopspacesInv => SlopspacesIntact
<1> SUFFICES ASSUME SlopspacesInv, Undisturbed PROVE SlopspacesIntact
  BY DEF SlopspacesIntact, Undisturbed
<1>1. TreesFit /\ (~amiss.raced => AgentFits)
  BY DEF SlopspacesInv
<1>2. ASSUME \A h \in Hands : ~Busy(h), NEW i \in Spaces
      PROVE  /\ stored[i].meta = "stored" =>
                   stored[i].tree = i /\ stored[i].read /\ stored[i].git # "tree"
             /\ stored[i].meta = "deployed" =>
                   path.tree = i /\ path.marker = i /\ stored[i].git # "tree"
  BY <1>1, <1>2 DEF TreesFit, AllAtRest, PathAtRest, PathClear, NoneDeployed, PathHolds, OnlyDeployed, InPlace
<1>3. ~amiss.raced /\ agent.at = "running" /\ agent.for = "turn" => path.tree = agent.id
  BY <1>1 DEF AgentFits
<1> QED BY <1>2, <1>3 DEF SlopspacesIntact

\* Nor does what happens elsewhere.
LEMMA SlopspacesStay ==
  ASSUME SlopspacesInv, UNCHANGED slopFileVars
  PROVE  SlopspacesInv'
<1>1. UNCHANGED <<stored, path, hands, turn, signal, agent, amiss, clicks, halts>>
  BY DEF slopFileVars
<1>2. SlopspacesTyped' /\ CallsFit' /\ SignalsFit' /\ (Undisturbed' <=> Undisturbed)
  BY <1>1 DEF SlopspacesInv, SlopspacesTyped, CallsFit, TurnCalls, WorkerCalls, InItsStage, SignalsFit, Busy, Undisturbed
<1>3. Undisturbed => TreesFit'
  BY <1>1, QuietTrees DEF SlopspacesInv
<1>4. Undisturbed /\ ~amiss'.raced => AgentFits'
  BY <1>1 DEF SlopspacesInv, AgentFits, Busy
<1> QED BY <1>2, <1>3, <1>4 DEF SlopspacesInv

-----------------------------------------------------------------------------
(***************************************************************************)
(* What a sequence asks of other nodes.  An answer is for the operation    *)
(* that takes it because the names of requests are not used again: what is *)
(* under way for a request of the operation is of the kind it asked for,   *)
(* and a node that has not come into the list since the wait began is not  *)
(* said to have by a list on its way.                                      *)
(***************************************************************************)
ErrandStages == {"idle", "asking", "pausing", "copying", "watching", "done", "failed", "cancelled"}
Errands == [kind : {"none", "capture", "fetch", "wait"}, at : ErrandStages, here : BOOLEAN,
            patient : BOOLEAN, reqs : SUBSET Reqs, todo : Seq(NodeFiles),
            got : SUBSET NodeFiles, before : Nat, anew : BOOLEAN]
Legs == {"up", "down", "here"}
RequestMsgs == [req : Reqs, what : {"ask"}, kind : {"capture", "fetch"}, leg : Legs]
AnswerMsgs == [req : Reqs, what : {"answer"}, kind : {"capture", "fetch"}, leg : Legs,
             ok : BOOLEAN, noRobot : BOOLEAN, files : Seq(NodeFiles)]
Jobs == [req : Reqs, kind : {"capture"}, here : BOOLEAN, at : {"robot", "refused"}]

NodesTyped ==
    /\ errand \in Errands /\ waiting \subseteq Reqs
    /\ wire \subseteq RequestMsgs \cup AnswerMsgs /\ atNode \subseteq Jobs
    /\ robot \in [up : BOOLEAN, asked : SUBSET Reqs]
    /\ linked \subseteq Pair /\ known \in [listed : BOOLEAN, connects : Nat]
    /\ lists \in Seq(BOOLEAN)
    /\ filed \in [there : SUBSET NodeFiles, here : SUBSET NodeFiles]
    /\ askedFor \in 0 .. MaxAsks /\ wrongs \in 0 .. MaxMishaps

\* No request is under way that was not made, and those of the operation are
\* of its kind.
RequestsFit ==
    /\ \A r \in errand.reqs : r <= askedFor
    /\ \A m \in wire : /\ m.req <= askedFor
                       /\ m.req \in errand.reqs => m.kind = errand.kind
    /\ \A j \in atNode : /\ j.req <= askedFor
                         /\ j.req \in errand.reqs => errand.kind = "capture"

\* An answer is about files saved for its request.
AnswersFit ==
    \A m \in wire : m.what = "answer" /\ m.ok =>
        /\ \A i \in DOMAIN m.files : m.files[i][1] = m.req
        /\ m.kind = "capture" => m.files = <<<<m.req, Shot>>>>

\* What the operation has, or has still to copy, is of one request of its own.
OfOne(files) == \A f, g \in files : f[1] \in errand.reqs /\ f[1] = g[1]
TodoFiles == {errand.todo[i] : i \in DOMAIN errand.todo}

ErrandFits ==
    /\ waiting \subseteq errand.reqs
    /\ errand.at # "asking" => waiting = {}
    /\ errand.at \in {"asking", "pausing", "copying"} => errand.kind \in {"capture", "fetch"}
    /\ errand.at \in {"asking", "pausing"} => errand.got = {} /\ errand.todo = << >>
    /\ OfOne(errand.got \cup TodoFiles)
    /\ errand.kind = "capture" /\ errand.at = "copying" =>
         \E r \in errand.reqs : \/ errand.todo = <<<<r, Shot>>>> /\ errand.got = {}
                                \/ errand.todo = << >> /\ errand.got = {<<r, Shot>>}
    /\ errand.at = "watching" => errand.kind = "wait"

\* The asker is told of each change of the node's connection while it has one
\* itself; and until it is told that the node is there, a node it waits for
\* anew has not connected.
ListsFit ==
    /\ "asker" \in linked =>
         (IF lists = << >> THEN known.listed ELSE lists[Len(lists)]) = ("node" \in linked)
    /\ errand.at = "watching" /\ ~errand.anew =>
         /\ known.connects <= errand.before
         /\ \A i \in DOMAIN lists : lists[i] => known.listed
         /\ \A i, j \in DOMAIN lists : j < i /\ lists[i] => lists[j]

NodesInv == NodesTyped /\ RequestsFit /\ AnswersFit /\ ErrandFits /\ ListsFit /\ AnswersAreTheirs

USE DEF Reqs, Pair

-----------------------------------------------------------------------------
\* Nothing is asked for at first, and the asker knows that the node is there.
LEMMA NodesAtFirst == NodeRequestsInit => NodesInv
<1> SUFFICES ASSUME NodeRequestsInit PROVE NodesInv
  OBVIOUS
<1>1. NodesTyped
  BY NodeRequestsAssumption DEF NodeRequestsInit, NodesTyped, NoOp, Errands, ErrandStages
<1>2. RequestsFit /\ AnswersFit
  BY DEF NodeRequestsInit, RequestsFit, AnswersFit, NoOp
<1>3. ErrandFits
  BY DEF NodeRequestsInit, ErrandFits, OfOne, TodoFiles, NoOp
<1>4. ListsFit
  BY DEF NodeRequestsInit, ListsFit, NoOp
<1>5. AnswersAreTheirs
  BY DEF NodeRequestsInit, AnswersAreTheirs, NoOp
<1> QED BY <1>1, <1>2, <1>3, <1>4, <1>5 DEF NodesInv

\* They stay as they are while another service moves.
LEMMA NodesStay == NodesInv /\ UNCHANGED nodeVars => NodesInv'
BY DEF NodesInv, nodeVars, NodesTyped, RequestsFit, AnswersFit, ErrandFits, OfOne, TodoFiles,
       ListsFit, AnswersAreTheirs

\* An operation that asks, for the first time or again.
LEMMA AskInv ==
  ASSUME NodesInv, NEW o \in Errands, Ask(o), o.kind \in {"capture", "fetch"},
         o.got = {}, o.todo = << >>, waiting = {},
         o.reqs = {} \/ (o.reqs = errand.reqs /\ o.kind = errand.kind),
         UNCHANGED <<atNode, robot, linked, known, lists, filed, wrongs>>
  PROVE  NodesInv'
<1> USE DEF NodesInv
<1>1. CASE ~o.here /\ "asker" \notin linked
  <2>1. errand' = [o EXCEPT !.at = "failed"] /\ UNCHANGED <<waiting, wire, askedFor>>
    BY <1>1 DEF Ask
  <2>2. errand' \in Errands /\ errand'.at = "failed" /\ errand'.kind = o.kind
        /\ errand'.reqs = o.reqs /\ errand'.got = {} /\ errand'.todo = << >>
    BY <2>1 DEF Errands, ErrandStages
  <2>3. NodesTyped'
    BY <2>1, <2>2 DEF NodesTyped
  <2>4. RequestsFit'
    BY <2>1, <2>2 DEF RequestsFit
  <2>5. AnswersFit'
    BY <2>1 DEF AnswersFit
  <2>6. ErrandFits'
    BY <2>1, <2>2 DEF ErrandFits, OfOne, TodoFiles
  <2>7. ListsFit'
    BY <2>2 DEF ListsFit
  <2>8. AnswersAreTheirs'
    BY <2>1, <2>2 DEF AnswersAreTheirs
  <2> QED BY <2>3, <2>4, <2>5, <2>6, <2>7, <2>8
<1>2. CASE ~(~o.here /\ "asker" \notin linked)
  <2> DEFINE n == askedFor + 1
             ask == [req |-> n, what |-> "ask", kind |-> o.kind,
                     leg |-> IF o.here THEN "here" ELSE "up"]
  <2>1. /\ askedFor < MaxAsks /\ askedFor' = n /\ waiting' = {n}
        /\ errand' = [o EXCEPT !.at = "asking", !.reqs = @ \cup {n}]
        /\ wire' = wire \cup {ask}
    BY <1>2 DEF Ask
  <2>2. n \in Reqs /\ n \in Nat /\ askedFor \in Nat
    BY <2>1, NodeRequestsAssumption DEF NodesTyped
  <2>3. errand' \in Errands /\ errand'.at = "asking" /\ errand'.kind = o.kind
        /\ errand'.reqs = o.reqs \cup {n} /\ errand'.got = {} /\ errand'.todo = << >>
    BY <2>1, <2>2 DEF Errands, ErrandStages
  <2>4. ask \in RequestMsgs /\ ask.req = n /\ ask.kind = o.kind /\ ask.what = "ask"
    BY <2>2 DEF RequestMsgs, Legs
  <2> HIDE DEF n, ask
  <2>5. NodesTyped'
    <3>1. askedFor' \in 0 .. MaxAsks
      BY <2>1, <2>2, NodeRequestsAssumption
    <3> QED BY <2>1, <2>2, <2>3, <2>4, <3>1 DEF NodesTyped
  <2>6. RequestsFit'
    <3>1. \A m \in wire : m.req \in Reqs /\ m.req <= askedFor /\ m.req # n
      BY <2>2 DEF NodesTyped, RequestsFit, RequestMsgs, AnswerMsgs, n
    <3>2. \A j \in atNode : j.req \in Reqs /\ j.req <= askedFor /\ j.req # n
      BY <2>2 DEF NodesTyped, RequestsFit, Jobs, n
    <3>3. \A r \in errand.reqs : r \in Reqs /\ r <= askedFor
      BY DEF NodesTyped, RequestsFit, Errands
    <3>4. \A r \in errand'.reqs : r <= askedFor'
      BY <2>1, <2>2, <2>3, <3>3 DEF n
    <3>5. ASSUME NEW m \in wire'
          PROVE  m.req <= askedFor' /\ (m.req \in errand'.reqs => m.kind = errand'.kind)
      <4>1. CASE m = ask
        BY <4>1, <2>1, <2>2, <2>3, <2>4
      <4>2. CASE m \in wire
        BY <4>2, <2>1, <2>2, <2>3, <3>1 DEF RequestsFit, n
      <4> QED BY <4>1, <4>2, <2>1
    <3>6. ASSUME NEW j \in atNode'
          PROVE  j.req <= askedFor' /\ (j.req \in errand'.reqs => errand'.kind = "capture")
      BY <2>1, <2>2, <2>3, <3>2 DEF RequestsFit, n
    <3> QED BY <3>4, <3>5, <3>6 DEF RequestsFit
  <2>7. AnswersFit'
    BY <2>1, <2>4 DEF AnswersFit
  <2>8. ErrandFits'
    BY <2>1, <2>3 DEF ErrandFits, OfOne, TodoFiles
  <2>9. ListsFit'
    BY <2>3 DEF ListsFit
  <2>10. AnswersAreTheirs'
    BY <2>1, <2>3 DEF AnswersAreTheirs
  <2> QED BY <2>5, <2>6, <2>7, <2>8, <2>9, <2>10
<1> QED BY <1>1, <1>2

\* What an operation is when it begins.
LEMMA BegunOp ==
  ASSUME NEW k \in {"capture", "fetch"}, NEW here \in BOOLEAN, NEW patient \in BOOLEAN
  PROVE  LET o == [NoOp EXCEPT !.kind = k, !.here = here, !.patient = patient] IN
         o \in Errands /\ o.kind = k /\ o.got = {} /\ o.todo = << >> /\ o.reqs = {}
<1> DEFINE o == [NoOp EXCEPT !.kind = k, !.here = here, !.patient = patient]
<1>1. NoOp \in Errands
  BY DEF NoOp, Errands, ErrandStages
<1>2. o \in Errands
  BY <1>1 DEF Errands
<1>3. o.kind = k
  BY DEF NoOp
<1>4. o.got = {} /\ o.todo = << >> /\ o.reqs = {}
  BY DEF NoOp
<1> QED BY <1>2, <1>3, <1>4

\* A picture asked of a node: the request is named anew, and nothing is
\* under way for it.
LEMMA OnOpNodeCapture ==
  ASSUME NodesInv, NEW here \in BOOLEAN, NEW patient \in BOOLEAN, opNodeCapture(here, patient)
  PROVE  NodesInv'
<1> DEFINE o == [NoOp EXCEPT !.kind = "capture", !.here = here, !.patient = patient]
<1>1. o \in Errands /\ o.kind = "capture" /\ o.got = {} /\ o.todo = << >> /\ o.reqs = {}
  BY BegunOp
<1>2. waiting = {}
  BY DEF opNodeCapture, Rests, NodesInv, ErrandFits
<1>3. Ask(o) /\ UNCHANGED <<atNode, robot, linked, known, lists, filed, wrongs>>
  BY DEF opNodeCapture, NodeKeeps, LinksKeep
<1> HIDE DEF o
<1> QED BY <1>1, <1>2, <1>3, AskInv

\* A file asked of a node, in the same way.
LEMMA OnOpNodeFetchFile ==
  ASSUME NodesInv, NEW here \in BOOLEAN, NEW patient \in BOOLEAN, opNodeFetchFile(here, patient)
  PROVE  NodesInv'
<1> DEFINE o == [NoOp EXCEPT !.kind = "fetch", !.here = here, !.patient = patient]
<1>1. o \in Errands /\ o.kind = "fetch" /\ o.got = {} /\ o.todo = << >> /\ o.reqs = {}
  BY BegunOp
<1>2. waiting = {}
  BY DEF opNodeFetchFile, Rests, NodesInv, ErrandFits
<1>3. Ask(o) /\ UNCHANGED <<atNode, robot, linked, known, lists, filed, wrongs>>
  BY DEF opNodeFetchFile, NodeKeeps, LinksKeep
<1> HIDE DEF o
<1> QED BY <1>1, <1>2, <1>3, AskInv

\* Asked again, the request has another name, and answers to the earlier
\* ones remain of its kind.
LEMMA OnAsksAgain == NodesInv /\ AsksAgain => NodesInv'
<1> SUFFICES ASSUME NodesInv, AsksAgain PROVE NodesInv'
  OBVIOUS
<1>1. errand \in Errands /\ errand.at = "pausing"
  BY DEF NodesInv, NodesTyped, AsksAgain
<1>2. errand.kind \in {"capture", "fetch"} /\ errand.got = {} /\ errand.todo = << >> /\ waiting = {}
  BY <1>1 DEF NodesInv, ErrandFits
<1>3. Ask(errand) /\ UNCHANGED <<atNode, robot, linked, known, lists, filed, wrongs>>
  BY DEF AsksAgain, NodeKeeps, LinksKeep
<1> QED BY <1>1, <1>2, <1>3, AskInv

-----------------------------------------------------------------------------
\* Messages and jobs come up for what was asked, and the asker is as it was.
LEMMA WireInv ==
  ASSUME NodesInv,
         \A m \in wire' : m \in wire \/
             /\ m \in RequestMsgs \cup AnswerMsgs /\ m.req <= askedFor
             /\ m.req \in errand.reqs => m.kind = errand.kind
             /\ m.what = "answer" /\ m.ok =>
                  /\ \A i \in DOMAIN m.files : m.files[i][1] = m.req
                  /\ m.kind = "capture" => m.files = <<<<m.req, Shot>>>>,
         \A j \in atNode' : j \in atNode \/
             /\ j \in Jobs /\ j.req <= askedFor
             /\ j.req \in errand.reqs => errand.kind = "capture",
         robot' \in [up : BOOLEAN, asked : SUBSET Reqs],
         filed' \in [there : SUBSET NodeFiles, here : SUBSET NodeFiles],
         wrongs' \in 0 .. MaxMishaps,
         UNCHANGED <<errand, waiting, linked, known, lists, askedFor>>
  PROVE  NodesInv'
<1> USE DEF NodesInv
<1>1. NodesTyped'
  BY DEF NodesTyped
<1>2. RequestsFit'
  BY DEF RequestsFit
<1>3. AnswersFit'
  BY DEF AnswersFit
<1>4. ErrandFits' /\ ListsFit' /\ AnswersAreTheirs'
  BY DEF ErrandFits, OfOne, TodoFiles, ListsFit, AnswersAreTheirs
<1> QED BY <1>1, <1>2, <1>3, <1>4

\* A mishap is counted up to its bound.
LEMMA MishapTyped == NodesTyped /\ (Mishap \/ UNCHANGED wrongs) => wrongs' \in 0 .. MaxMishaps
BY NodeRequestsAssumption DEF NodesTyped, Mishap

\* A failure is an answer about no file, and what is passed on is what came.
LEMMA AnswerFits ==
  ASSUME NodesTyped, NEW m, m.req \in Reqs, m.kind \in {"capture", "fetch"}, NEW leg \in Legs,
         NEW ok \in BOOLEAN, NEW none \in BOOLEAN, NEW files \in Seq(NodeFiles)
  PROVE  LET a == answerTo(m, leg, [ok |-> ok, noRobot |-> none, files |-> files]) IN
         /\ a \in AnswerMsgs /\ a.req = m.req /\ a.kind = m.kind /\ a.what = "answer"
         /\ a.ok = ok /\ a.files = files /\ a \in RequestMsgs \cup AnswerMsgs
BY DEF answerTo, AnswerMsgs, Legs

\* A request or an answer passed on is the same one, a leg further.
LEMMA PassedOn ==
  ASSUME NEW m \in RequestMsgs \cup AnswerMsgs, NEW leg \in Legs
  PROVE  LET p == [m EXCEPT !.leg = leg] IN
         /\ p \in RequestMsgs \cup AnswerMsgs /\ p.req = m.req /\ p.kind = m.kind /\ p.what = m.what
         /\ m.what = "answer" => m \in AnswerMsgs /\ p.ok = m.ok /\ p.files = m.files
BY DEF RequestMsgs, AnswerMsgs

\* federation-command passes a request on, or answers it itself when it
\* cannot.
LEMMA OnRelayNodeRequest ==
  ASSUME NodesInv, NEW m \in wire, relayNodeRequest(m) PROVE NodesInv'
<1>1. /\ m \in RequestMsgs \cup AnswerMsgs /\ m.req \in Reqs /\ m.kind \in {"capture", "fetch"}
      /\ m.what = "ask"
  BY DEF relayNodeRequest, NodesInv, NodesTyped, RequestMsgs, AnswerMsgs
<1>2. m.req <= askedFor /\ (m.req \in errand.reqs => m.kind = errand.kind)
  BY DEF NodesInv, RequestsFit
<1> DEFINE p == [m EXCEPT !.leg = "down"]
           a == answerTo(m, "down", Failure(FALSE))
<1>3. p \in RequestMsgs \cup AnswerMsgs /\ p.req = m.req /\ p.kind = m.kind /\ p.what = "ask"
  BY <1>1, PassedOn DEF Legs
<1>4. a \in AnswerMsgs /\ a.req = m.req /\ a.kind = m.kind /\ ~a.ok
  <2>1. << >> \in Seq(NodeFiles)
    OBVIOUS
  <2> QED BY <1>1, <2>1 DEF AnswerMsgs, Legs, answerTo, Failure
<1>5. /\ \A n \in wire' : n \in wire \/ n = p \/ n = a
      /\ UNCHANGED <<atNode, robot, errand, waiting, linked, known, lists, filed, askedFor, wrongs>>
  BY DEF relayNodeRequest, NodeKeeps, LinksKeep
<1> HIDE DEF p, a
<1>6. NodesTyped
  BY DEF NodesInv
<1>7. /\ robot' \in [up : BOOLEAN, asked : SUBSET Reqs]
      /\ filed' \in [there : SUBSET NodeFiles, here : SUBSET NodeFiles]
      /\ wrongs' \in 0 .. MaxMishaps
  BY <1>5, <1>6 DEF NodesTyped
<1> QED BY <1>1, <1>2, <1>3, <1>4, <1>5, <1>7, WireInv

\* federation-command passes an answer on.
LEMMA OnRelayNodeResult ==
  ASSUME NodesInv, NEW m \in wire, relayNodeResult(m) PROVE NodesInv'
<1> DEFINE p == [m EXCEPT !.leg = "down"]
<1>1. m \in AnswerMsgs /\ m.what = "answer"
  BY DEF relayNodeResult, NodesInv, NodesTyped, RequestMsgs
<1>2. /\ p \in RequestMsgs \cup AnswerMsgs /\ p.req = m.req /\ p.kind = m.kind /\ p.what = m.what
      /\ p.ok = m.ok /\ p.files = m.files
  BY <1>1, PassedOn DEF Legs
<1>3. /\ \A n \in wire' : n \in wire \/ n = p
      /\ UNCHANGED <<atNode, robot, errand, waiting, linked, known, lists, filed, askedFor, wrongs>>
  BY DEF relayNodeResult, NodeKeeps, LinksKeep
<1> HIDE DEF p
<1>4. m.req <= askedFor /\ (m.req \in errand.reqs => m.kind = errand.kind)
  BY DEF NodesInv, RequestsFit
<1>5. m.ok => /\ \A i \in DOMAIN m.files : m.files[i][1] = m.req
              /\ m.kind = "capture" => m.files = <<<<m.req, Shot>>>>
  BY <1>1 DEF NodesInv, AnswersFit
<1>6. NodesTyped
  BY DEF NodesInv
<1>7. /\ robot' \in [up : BOOLEAN, asked : SUBSET Reqs]
      /\ filed' \in [there : SUBSET NodeFiles, here : SUBSET NodeFiles]
      /\ wrongs' \in 0 .. MaxMishaps
  BY <1>3, <1>6 DEF NodesTyped
<1> QED BY <1>2, <1>3, <1>4, <1>5, <1>7, WireInv

-----------------------------------------------------------------------------
\* The node answers a capture: with the screenshot saved for it, or not.
LEMMA AnswerInv ==
  ASSUME NodesInv, NEW j \in atNode, NEW ok \in BOOLEAN, NEW none \in BOOLEAN,
         NEW files \in Seq(NodeFiles), ok => files = <<<<j.req, Shot>>>>,
         Answer(j, [ok |-> ok, noRobot |-> none, files |-> files]), AskerKeeps,
         robot' \in [up : BOOLEAN, asked : SUBSET Reqs],
         filed' \in [there : SUBSET NodeFiles, here : SUBSET NodeFiles],
         wrongs' \in 0 .. MaxMishaps
  PROVE  NodesInv'
<1> DEFINE body == [ok |-> ok, noRobot |-> none, files |-> files]
           a == answerTo(j, "here", body)
           b == answerTo(j, "up", body)
<1>1. NodesTyped
  BY DEF NodesInv
<1>2. j \in Jobs /\ j.req \in Reqs /\ j.kind = "capture"
  BY <1>1 DEF NodesTyped, Jobs
<1>3. j.req <= askedFor /\ (j.req \in errand.reqs => errand.kind = "capture")
  BY DEF NodesInv, RequestsFit
<1>4. \A leg \in Legs : LET c == answerTo(j, leg, body) IN
        /\ c \in RequestMsgs \cup AnswerMsgs /\ c.req = j.req /\ c.kind = "capture" /\ c.what = "answer"
        /\ c.ok = ok /\ c.files = files
  BY <1>1, <1>2, AnswerFits
<1>5. \A n \in wire' : n \in wire \/ n = a \/ n = b
  BY DEF Answer
<1>6. atNode' \subseteq atNode /\ UNCHANGED <<errand, waiting, linked, known, lists, askedFor>>
  BY DEF Answer, AskerKeeps, LinksKeep
<1>7. ok => \A i \in DOMAIN files : files[i][1] = j.req
  OBVIOUS
<1>8. /\ a \in RequestMsgs \cup AnswerMsgs /\ a.req = j.req /\ a.kind = "capture" /\ a.ok = ok /\ a.files = files
      /\ b \in RequestMsgs \cup AnswerMsgs /\ b.req = j.req /\ b.kind = "capture" /\ b.ok = ok /\ b.files = files
  BY <1>4 DEF Legs
<1> HIDE DEF a, b
<1> QED BY <1>3, <1>5, <1>6, <1>7, <1>8, WireInv

\* The node asked takes the picture, or says why not.
LEMMA OnCaptureForNode ==
  ASSUME NodesInv, NEW m \in wire, captureForNode(m) PROVE NodesInv'
<1> DEFINE j == [req |-> m.req, kind |-> m.kind, here |-> m.leg = "here",
                 at |-> IF robot.up THEN "robot" ELSE "refused"]
<1>1. NodesTyped
  BY DEF NodesInv
<1>2. m.req \in Reqs /\ m.kind = "capture"
  BY <1>1 DEF NodesTyped, RequestMsgs, AnswerMsgs, captureForNode
<1>3. j \in Jobs /\ j.req = m.req
  BY <1>2 DEF Jobs
<1>4. m.req <= askedFor /\ (m.req \in errand.reqs => errand.kind = "capture")
  BY <1>2 DEF NodesInv, RequestsFit
<1>5. wire' \subseteq wire /\ atNode' = atNode \cup {j}
      /\ UNCHANGED <<errand, waiting, linked, known, lists, askedFor, filed, wrongs>>
  BY DEF captureForNode, AskerKeeps, LinksKeep
<1>6. robot' \in [up : BOOLEAN, asked : SUBSET Reqs]
  BY <1>1, <1>2 DEF captureForNode, NodesTyped
<1>7. /\ filed' \in [there : SUBSET NodeFiles, here : SUBSET NodeFiles]
      /\ wrongs' \in 0 .. MaxMishaps
  BY <1>1, <1>5 DEF NodesTyped
<1> HIDE DEF j
<1> QED BY <1>3, <1>4, <1>5, <1>6, <1>7, WireInv

\* The robot refuses, and the job answers so.
LEMMA OnCaptureFails ==
  ASSUME NodesInv, NEW j \in atNode, CaptureFails(j) PROVE NodesInv'
<1>1. NodesTyped
  BY DEF NodesInv
<1>2. PICK none \in BOOLEAN : none = (~robot.up)
  OBVIOUS
<1>3. Answer(j, [ok |-> FALSE, noRobot |-> none, files |-> << >>]) /\ AskerKeeps
  BY <1>2 DEF CaptureFails, Failure
<1>4. (Mishap \/ UNCHANGED wrongs) /\ UNCHANGED <<robot, filed>>
  BY DEF CaptureFails
<1>5. << >> \in Seq(NodeFiles)
  OBVIOUS
<1>6. /\ robot' \in [up : BOOLEAN, asked : SUBSET Reqs]
      /\ filed' \in [there : SUBSET NodeFiles, here : SUBSET NodeFiles]
  BY <1>1, <1>4 DEF NodesTyped
<1>7. wrongs' \in 0 .. MaxMishaps
  BY <1>1, <1>4, MishapTyped
<1> QED BY <1>3, <1>5, <1>6, <1>7, AnswerInv

\* The picture the robot saved is named for the request.
LEMMA OnNoteRobotCapture ==
  ASSUME NodesInv, NEW r \in robot.asked, noteRobotCapture(r) PROVE NodesInv'
<1>1. NodesTyped /\ r \in Reqs
  BY DEF NodesInv, NodesTyped
<1>2. PICK ok \in BOOLEAN :
        /\ filed' = IF ok THEN [filed EXCEPT !.there = @ \cup {<<r, Shot>>}] ELSE filed
        /\ IF \E j \in atNode : j.req = r
           THEN Answer(CHOOSE j \in atNode : j.req = r,
                       IF ok THEN [ok |-> TRUE, noRobot |-> FALSE, files |-> <<<<r, Shot>>>>]
                       ELSE Failure(FALSE))
           ELSE UNCHANGED <<atNode, wire>>
  BY DEF noteRobotCapture
<1>3. robot' = [robot EXCEPT !.asked = @ \ {r}] /\ AskerKeeps /\ UNCHANGED wrongs
  BY DEF noteRobotCapture
<1>4. <<r, Shot>> \in NodeFiles
  BY <1>1 DEF NodeFiles
<1>5. /\ robot' \in [up : BOOLEAN, asked : SUBSET Reqs]
      /\ filed' \in [there : SUBSET NodeFiles, here : SUBSET NodeFiles]
      /\ wrongs' \in 0 .. MaxMishaps
  BY <1>1, <1>2, <1>3, <1>4 DEF NodesTyped
<1>6. CASE \E j \in atNode : j.req = r
  <2>1. PICK k \in atNode : k = (CHOOSE j \in atNode : j.req = r)
    BY <1>6
  <2>2. k.req = r
    BY <1>6, <2>1
  <2> DEFINE files == IF ok THEN <<<<r, Shot>>>> ELSE << >>
  <2>3. Answer(k, [ok |-> ok, noRobot |-> FALSE, files |-> files])
    <3>1. CASE ok
      BY <3>1, <1>2, <1>6, <2>1
    <3>2. CASE ~ok
      BY <3>2, <1>2, <1>6, <2>1 DEF Failure
    <3> QED BY <3>1, <3>2
  <2>4. files \in Seq(NodeFiles) /\ (ok => files = <<<<k.req, Shot>>>>)
    BY <1>4, <2>2
  <2> HIDE DEF files
  <2> QED BY <1>3, <1>5, <2>3, <2>4, AnswerInv
<1>7. CASE ~(\E j \in atNode : j.req = r)
  <2>1. UNCHANGED <<atNode, wire, errand, waiting, linked, known, lists, askedFor>>
    BY <1>2, <1>3, <1>7 DEF AskerKeeps, LinksKeep
  <2> QED BY <1>5, <2>1, WireInv
<1> QED BY <1>6, <1>7

\* The files of a fetch are saved for its request.
LEMMA OnFetchForNode ==
  ASSUME NodesInv, NEW m \in wire, NEW found \in Matched, fetchForNode(m, found)
  PROVE  NodesInv'
<1> DEFINE files == [i \in DOMAIN found |-> <<m.req, PathsAsked[found[i]]>>]
           body == [ok |-> TRUE, noRobot |-> FALSE, files |-> files]
           a == answerTo(m, "here", body)
           b == answerTo(m, "up", body)
<1>1. NodesTyped
  BY DEF NodesInv
<1>2. m.req \in Reqs /\ m.kind = "fetch" /\ m.req <= askedFor
      /\ (m.req \in errand.reqs => errand.kind = "fetch")
  BY <1>1 DEF NodesTyped, RequestMsgs, AnswerMsgs, fetchForNode, NodesInv, RequestsFit
<1>3. files \in Seq(NodeFiles)
  <2>1. PICK n \in 0 .. MaxFetched : found \in [1 .. n -> DOMAIN PathsAsked]
    BY DEF Matched
  <2>2. \A i \in 1 .. n : <<m.req, PathsAsked[found[i]]>> \in NodeFiles
    BY <1>2, <2>1 DEF NodeFiles, PathSet
  <2>3. n \in Nat /\ files \in [1 .. n -> NodeFiles]
    BY <2>1, <2>2, NodeRequestsAssumption
  <2> HIDE DEF files
  <2> QED BY <2>3, SeqDef
<1>4. \A i \in DOMAIN files : files[i] \in NodeFiles /\ files[i][1] = m.req
  <2>1. \A i \in DOMAIN files : files[i] \in NodeFiles
    <3> HIDE DEF files
    <3> QED BY <1>3
  <2> QED BY <2>1
<1>5. /\ filed' = [filed EXCEPT !.there = @ \cup {files[i] : i \in DOMAIN files}]
      /\ \A n \in wire' : n \in wire \/ n = a \/ n = b
  BY DEF fetchForNode
<1>6. UNCHANGED <<atNode, robot, errand, waiting, linked, known, lists, askedFor, wrongs>>
  BY DEF fetchForNode, NodeKeeps, AskerKeeps, LinksKeep
<1> HIDE DEF files
<1>7. \A leg \in Legs : LET c == answerTo(m, leg, body) IN
        /\ c \in RequestMsgs \cup AnswerMsgs /\ c.req = m.req /\ c.kind = "fetch" /\ c.what = "answer"
        /\ c.files = files
  BY <1>2, <1>3 DEF answerTo, AnswerMsgs, Legs
<1>8. /\ a \in RequestMsgs \cup AnswerMsgs /\ a.req = m.req /\ a.kind = "fetch" /\ a.files = files
      /\ b \in RequestMsgs \cup AnswerMsgs /\ b.req = m.req /\ b.kind = "fetch" /\ b.files = files
  BY <1>7 DEF Legs
<1> HIDE DEF a, b
<1>9. /\ robot' \in [up : BOOLEAN, asked : SUBSET Reqs]
      /\ filed' \in [there : SUBSET NodeFiles, here : SUBSET NodeFiles]
      /\ wrongs' \in 0 .. MaxMishaps
  BY <1>1, <1>4, <1>5, <1>6 DEF NodesTyped
<1> QED BY <1>2, <1>4, <1>5, <1>6, <1>8, <1>9, WireInv

-----------------------------------------------------------------------------
\* The operation ends, or gives up asking.
LEMMA OutcomeInv ==
  ASSUME NodesInv, NEW at \in {"pausing", "failed", "cancelled"}, Outcome(at),
         errand.at \in {"asking", "pausing", "watching"},
         at = "pausing" => errand.at = "asking",
         Mishap, NodeKeeps, LinksKeep, UNCHANGED <<wire, filed, askedFor>>
  PROVE  NodesInv'
<1> USE DEF NodesInv
<1>1. /\ errand' = [errand EXCEPT !.at = at] /\ waiting' = {}
      /\ UNCHANGED <<atNode, robot, linked, known, lists, wire, filed, askedFor>>
  BY DEF Outcome, NodeKeeps, LinksKeep
<1>2. /\ errand' \in Errands /\ errand'.at = at /\ errand'.kind = errand.kind
      /\ errand'.reqs = errand.reqs /\ errand'.got = errand.got /\ errand'.todo = errand.todo
  BY <1>1 DEF NodesTyped, Errands, ErrandStages
<1>3. NodesTyped'
  BY <1>1, <1>2, MishapTyped DEF NodesTyped
<1>4. RequestsFit' /\ AnswersFit'
  BY <1>1, <1>2 DEF RequestsFit, AnswersFit
<1>5. ErrandFits'
  BY <1>1, <1>2 DEF ErrandFits, OfOne, TodoFiles
<1>6. ListsFit'
  BY <1>1, <1>2 DEF ListsFit
<1>7. AnswersAreTheirs'
  BY <1>1, <1>2 DEF AnswersAreTheirs
<1> QED BY <1>3, <1>4, <1>5, <1>6, <1>7

\* The wait for answers is over, and the operation with it.
LEMMA OnTimesOut == NodesInv /\ TimesOut => NodesInv'
<1> SUFFICES ASSUME NodesInv, TimesOut PROVE NodesInv'
  OBVIOUS
<1>1. \E at \in {"pausing", "failed"} : Outcome(at)
  BY DEF TimesOut
<1> QED BY <1>1, OutcomeInv DEF TimesOut

\* The operation is called off; what it asked may still be answered.
LEMMA OnCancels == NodesInv /\ Cancels => NodesInv'
BY OutcomeInv DEF Cancels

\* An answer is judged by the operation that waits for it, and by no other.
LEMMA OnHandleNodeCommand ==
  ASSUME NodesInv, NEW m \in wire, handleNodeCommand(m) PROVE NodesInv'
<1>1. NodesTyped
  BY DEF NodesInv
<1>2. m \in AnswerMsgs /\ m.what = "answer"
  BY <1>1 DEF NodesTyped, RequestMsgs, handleNodeCommand, Delivered
<1>3. wire' \subseteq wire
      /\ UNCHANGED <<atNode, robot, linked, known, lists, filed, askedFor, wrongs>>
  BY DEF handleNodeCommand, NodeKeeps, LinksKeep
<1>4. /\ robot' \in [up : BOOLEAN, asked : SUBSET Reqs]
      /\ filed' \in [there : SUBSET NodeFiles, here : SUBSET NodeFiles]
      /\ wrongs' \in 0 .. MaxMishaps
  BY <1>1, <1>3 DEF NodesTyped
<1>5. CASE m.req \notin waiting
  <2>1. UNCHANGED <<errand, waiting>>
    BY <1>5 DEF handleNodeCommand, Awaited
  <2> QED BY <1>3, <1>4, <2>1, WireInv
<1>6. CASE m.req \in waiting
  <2> USE DEF NodesInv
  <2>1. errand' = Judged(m) /\ waiting' = {}
    BY <1>6 DEF handleNodeCommand, Awaited
  <2>2. /\ errand.at = "asking" /\ m.req \in errand.reqs /\ m.kind = errand.kind
        /\ errand.got = {} /\ errand.todo = << >> /\ errand.kind \in {"capture", "fetch"}
    BY <1>6 DEF ErrandFits, RequestsFit
  <2>3. m.ok => /\ \A i \in DOMAIN m.files : m.files[i] \in NodeFiles /\ m.files[i][1] = m.req
                /\ m.kind = "capture" => m.files = <<<<m.req, Shot>>>>
    <3>1. m.files \in Seq(NodeFiles)
      BY <1>2 DEF AnswerMsgs
    <3>2. \A i \in DOMAIN m.files : m.files[i] \in NodeFiles
      BY <3>1
    <3> QED BY <1>2, <3>2 DEF AnswersFit
  <2> DEFINE files == {m.files[i] : i \in DOMAIN m.files}
  <2>4. CASE ~m.ok
    <3>1. PICK at \in {"pausing", "failed"} : errand' = [errand EXCEPT !.at = at]
      BY <2>1, <2>4 DEF Judged
    <3>2. /\ errand' \in Errands /\ errand'.at = at /\ errand'.kind = errand.kind
          /\ errand'.reqs = errand.reqs /\ errand'.got = {} /\ errand'.todo = << >>
      BY <3>1, <2>2 DEF NodesTyped, Errands, ErrandStages
    <3>3. NodesTyped'
      BY <1>3, <1>4, <2>1, <3>2 DEF NodesTyped
    <3>4. RequestsFit' /\ AnswersFit'
      BY <1>3, <3>2 DEF RequestsFit, AnswersFit
    <3>5. ErrandFits'
      BY <2>1, <2>2, <3>2 DEF ErrandFits, OfOne, TodoFiles
    <3>6. ListsFit'
      BY <1>3, <3>2 DEF ListsFit
    <3>7. AnswersAreTheirs'
      BY <2>1, <3>2 DEF AnswersAreTheirs
    <3> QED BY <3>3, <3>4, <3>5, <3>6, <3>7
  <2>5. CASE m.ok /\ errand.here
    <3>1. PICK at \in {"done", "failed"} :
             /\ errand' = [errand EXCEPT !.got = files, !.at = at]
             /\ at = "done" => m.files # << >> \/ errand.patient
      BY <2>1, <2>5 DEF Judged
    <3>2. files \subseteq NodeFiles /\ \A f \in files : f[1] = m.req
      BY <2>3, <2>5
    <3>3. m.kind = "capture" => files = {<<m.req, Shot>>}
      BY <2>3, <2>5
    <3>4. m.files # << >> => files # {}
      BY <1>2 DEF AnswerMsgs
    <3> HIDE DEF files
    <3>5. /\ errand' \in Errands /\ errand'.at = at /\ errand'.kind = errand.kind
          /\ errand'.reqs = errand.reqs /\ errand'.got = files /\ errand'.todo = << >>
          /\ errand'.patient = errand.patient
      BY <3>1, <3>2, <2>2 DEF NodesTyped, Errands, ErrandStages
    <3>6. NodesTyped'
      BY <1>3, <1>4, <2>1, <3>5 DEF NodesTyped
    <3>7. RequestsFit' /\ AnswersFit'
      BY <1>3, <3>5 DEF RequestsFit, AnswersFit
    <3>8. ErrandFits'
      BY <2>1, <2>2, <3>2, <3>5 DEF ErrandFits, OfOne, TodoFiles
    <3>9. ListsFit'
      BY <1>3, <3>5 DEF ListsFit
    <3>10. AnswersAreTheirs'
      BY <2>1, <2>2, <3>1, <3>2, <3>3, <3>4, <3>5 DEF AnswersAreTheirs
    <3> QED BY <3>6, <3>7, <3>8, <3>9, <3>10
  <2>6. CASE m.ok /\ ~errand.here
    <3>1. errand' = [errand EXCEPT !.at = "copying", !.todo = m.files]
      BY <2>1, <2>6 DEF Judged
    <3>2. /\ errand' \in Errands /\ errand'.at = "copying" /\ errand'.kind = errand.kind
          /\ errand'.reqs = errand.reqs /\ errand'.got = {} /\ errand'.todo = m.files
      BY <3>1, <1>2, <2>2 DEF NodesTyped, Errands, ErrandStages, AnswerMsgs
    <3>3. NodesTyped'
      BY <1>3, <1>4, <2>1, <3>2 DEF NodesTyped
    <3>4. RequestsFit' /\ AnswersFit'
      BY <1>3, <3>2 DEF RequestsFit, AnswersFit
    <3>5. ErrandFits'
      BY <2>1, <2>2, <2>3, <2>6, <3>2 DEF ErrandFits, OfOne, TodoFiles
    <3>6. ListsFit'
      BY <1>3, <3>2 DEF ListsFit
    <3>7. AnswersAreTheirs'
      BY <2>1, <3>2 DEF AnswersAreTheirs
    <3> QED BY <3>3, <3>4, <3>5, <3>6, <3>7
  <2> QED BY <2>4, <2>5, <2>6
<1> QED BY <1>5, <1>6

-----------------------------------------------------------------------------
\* The first of a sequence, and what comes after it.
LEMMA FirstTaken ==
  ASSUME NEW S, NEW l \in Seq(S), l # << >>
  PROVE  /\ Head(l) \in S /\ Head(l) = l[1] /\ Tail(l) \in Seq(S)
         /\ Len(l) \in Nat \ {0} /\ Len(Tail(l)) = Len(l) - 1
         /\ DOMAIN l = 1 .. Len(l) /\ DOMAIN Tail(l) = 1 .. Len(l) - 1
         /\ \A i \in 1 .. Len(l) - 1 : Tail(l)[i] = l[i + 1]
         /\ Tail(l) = << >> <=> Len(l) = 1
<1>1. Len(l) \in Nat \ {0} /\ DOMAIN l = 1 .. Len(l)
  OBVIOUS
<1>2. Head(l) \in S /\ Head(l) = l[1] /\ Tail(l) \in Seq(S)
  OBVIOUS
<1>3. Len(Tail(l)) = Len(l) - 1 /\ DOMAIN Tail(l) = 1 .. Len(l) - 1
  OBVIOUS
<1>4. \A i \in 1 .. Len(l) - 1 : Tail(l)[i] = l[i + 1]
  OBVIOUS
<1>5. Tail(l) = << >> <=> Len(l) = 1
  BY <1>1, <1>2, <1>3, EmptySeq
<1> QED BY <1>1, <1>2, <1>3, <1>4, <1>5

\* A file is copied, or skipped, or a screenshot cannot be copied.
LEMMA OnCopyNodeFile == NodesInv /\ copyNodeFile => NodesInv'
<1> SUFFICES ASSUME NodesInv, copyNodeFile PROVE NodesInv'
  OBVIOUS
<1> USE DEF NodesInv
<1> DEFINE f == Head(errand.todo)
           t == Tail(errand.todo)
<1>1. /\ errand.at = "copying" /\ errand.todo # << >>
      /\ UNCHANGED <<atNode, robot, linked, known, lists, waiting, wire, askedFor>>
  BY DEF copyNodeFile, NodeKeeps, LinksKeep
<1>2. errand.todo \in Seq(NodeFiles) /\ errand.kind \in {"capture", "fetch"}
  BY <1>1 DEF NodesTyped, Errands, ErrandFits
<1>3. f \in NodeFiles /\ f \in TodoFiles /\ t \in Seq(NodeFiles)
  BY <1>1, <1>2 DEF TodoFiles
<1>4. \A i \in DOMAIN t : t[i] \in TodoFiles
  <2>1. \A i \in DOMAIN t : i + 1 \in DOMAIN errand.todo /\ t[i] = errand.todo[i + 1]
    BY <1>1, <1>2
  <2> QED BY <2>1 DEF TodoFiles
<1>5. errand.kind = "capture" =>
        \E r \in errand.reqs : errand.todo = <<<<r, Shot>>>> /\ errand.got = {}
  BY <1>1 DEF ErrandFits
<1>6. errand.kind = "capture" => t = << >> /\ (\E r \in errand.reqs : f = <<r, Shot>>) /\ errand.got = {}
  <2>1. ASSUME NEW x PROVE Tail(<<x>>) = << >> /\ Head(<<x>>) = x
    OBVIOUS
  <2> QED BY <1>5, <2>1
<1>7. PICK at \in {"copying", "failed"}, g \in {errand.got, errand.got \cup {f}}, s \in {errand.todo, t} :
         /\ errand' = [errand EXCEPT !.at = at, !.todo = s, !.got = g]
         /\ at = "copying" => s = t
         /\ errand.kind = "capture" /\ at = "copying" => g = errand.got \cup {f}
  <2>1. CASE errand' = [errand EXCEPT !.todo = Tail(@), !.got = @ \cup {f}]
    <3>1. errand' = [errand EXCEPT !.at = "copying", !.todo = t, !.got = errand.got \cup {f}]
      BY <1>1, <2>1 DEF NodesTyped, Errands
    <3> QED BY <3>1
  <2>2. CASE errand.kind = "capture" /\ errand' = [errand EXCEPT !.at = "failed"]
    <3>1. errand' = [errand EXCEPT !.at = "failed", !.todo = errand.todo, !.got = errand.got]
      BY <1>1, <2>2 DEF NodesTyped, Errands
    <3> QED BY <3>1
  <2>3. CASE errand.kind # "capture" /\ errand' = [errand EXCEPT !.todo = Tail(@)]
    <3>1. errand' = [errand EXCEPT !.at = "copying", !.todo = t, !.got = errand.got]
      BY <1>1, <2>3 DEF NodesTyped, Errands
    <3> QED BY <3>1, <2>3
  <2> QED BY <2>1, <2>2, <2>3 DEF copyNodeFile
<1>8. filed' \in [there : SUBSET NodeFiles, here : SUBSET NodeFiles]
  BY <1>3 DEF NodesTyped, copyNodeFile
<1>9. wrongs' \in 0 .. MaxMishaps
  BY MishapTyped DEF copyNodeFile
<1> HIDE DEF f, t
<1>10. /\ errand' \in Errands /\ errand'.at = at /\ errand'.kind = errand.kind
       /\ errand'.reqs = errand.reqs /\ errand'.got = g /\ errand'.todo = s
  BY <1>3, <1>7 DEF NodesTyped, Errands, ErrandStages
<1>11. NodesTyped'
  BY <1>1, <1>8, <1>9, <1>10 DEF NodesTyped
<1>12. RequestsFit' /\ AnswersFit'
  BY <1>1, <1>10 DEF RequestsFit, AnswersFit
<1>13. \A i \in DOMAIN s : s[i] \in TodoFiles
  BY <1>4, <1>7 DEF TodoFiles
<1>14. g \subseteq errand.got \cup TodoFiles
  BY <1>3, <1>7
<1>15. OfOne(errand.got \cup TodoFiles)'
  BY <1>1, <1>10, <1>13, <1>14 DEF ErrandFits, OfOne, TodoFiles
<1>16. ErrandFits'
  BY <1>1, <1>2, <1>6, <1>7, <1>10, <1>15 DEF ErrandFits
<1>17. ListsFit'
  BY <1>1, <1>7, <1>10 DEF ListsFit
<1>18. AnswersAreTheirs'
  BY <1>1, <1>7, <1>10, <1>15 DEF AnswersAreTheirs, ErrandFits, OfOne
<1> QED BY <1>11, <1>12, <1>16, <1>17, <1>18

\* There is no more to copy, or the wait is over.
LEMMA EndsInv ==
  ASSUME NodesInv, NEW at \in {"done", "failed"}, errand' = [errand EXCEPT !.at = at],
         \/ errand.at = "copying" /\ errand.todo = << >>
            /\ (at = "done" => errand.got # {} \/ errand.patient)
         \/ errand.at = "watching" /\ (at = "done" /\ errand.patient => known.connects > errand.before),
         NodeKeeps, LinksKeep, UNCHANGED <<waiting, wire, filed, askedFor, wrongs>>
  PROVE  NodesInv'
<1> USE DEF NodesInv
<1>1. UNCHANGED <<atNode, robot, linked, known, lists, waiting, wire, filed, askedFor, wrongs>>
  BY DEF NodeKeeps, LinksKeep
<1>2. /\ errand' \in Errands /\ errand'.at = at /\ errand'.kind = errand.kind
      /\ errand'.reqs = errand.reqs /\ errand'.got = errand.got /\ errand'.todo = errand.todo
      /\ errand'.patient = errand.patient /\ errand'.anew = errand.anew
  BY DEF NodesTyped, Errands, ErrandStages
<1>3. NodesTyped'
  BY <1>1, <1>2 DEF NodesTyped
<1>4. RequestsFit' /\ AnswersFit'
  BY <1>1, <1>2 DEF RequestsFit, AnswersFit
<1>5. ErrandFits'
  BY <1>1, <1>2 DEF ErrandFits, OfOne, TodoFiles
<1>6. ListsFit'
  BY <1>1, <1>2 DEF ListsFit
<1>7. errand.at = "watching" /\ at = "done" /\ errand.patient => errand.anew
  BY DEF ListsFit, NodesTyped, Errands
<1>8. AnswersAreTheirs'
  BY <1>1, <1>2, <1>7 DEF AnswersAreTheirs, ErrandFits, OfOne
<1> QED BY <1>3, <1>4, <1>5, <1>6, <1>8

\* The next file is copied here, and goes from what is to be copied to what
\* was.
LEMMA OnCopied == NodesInv /\ Copied => NodesInv'
<1> SUFFICES ASSUME NodesInv, Copied PROVE NodesInv'
  OBVIOUS
<1>1. \E at \in {"done", "failed"} : /\ errand' = [errand EXCEPT !.at = at]
                                     /\ at = "done" => errand.got # {} \/ errand.patient
  BY DEF Copied
<1> QED BY <1>1, EndsInv DEF Copied

\* The list says the node is there: the wait ends.
LEMMA OnNodeConnections == NodesInv /\ nodeConnections => NodesInv'
BY EndsInv DEF nodeConnections

\* The wait for a node runs out.
LEMMA OnWaitTimesOut == NodesInv /\ WaitTimesOut => NodesInv'
BY EndsInv DEF WaitTimesOut

\* A wait for a node begins, with what the list says of it by then.
LEMMA OnOpNodeWaitConnected ==
  ASSUME NodesInv, NEW fresh \in BOOLEAN, opNodeWaitConnected(fresh) PROVE NodesInv'
<1> USE DEF NodesInv
<1>1. /\ askedFor' = askedFor + 1 /\ askedFor < MaxAsks /\ Rests
      /\ UNCHANGED <<atNode, robot, linked, known, lists, waiting, wire, filed, wrongs>>
  BY DEF opNodeWaitConnected, NodeKeeps, LinksKeep
<1>2. /\ errand' \in Errands /\ errand'.at \in {"watching", "failed"} /\ errand'.kind = "wait"
      /\ errand'.reqs = {} /\ errand'.got = {} /\ errand'.todo = << >>
      /\ errand'.before = known.connects /\ (~errand'.anew => lists = << >>)
  <2>1. NoOp \in Errands
    BY DEF NoOp, Errands, ErrandStages
  <2>2. PICK new \in BOOLEAN : new = (lists # << >>)
    OBVIOUS
  <2>3. PICK at \in {"watching", "failed"} :
          errand' = [NoOp EXCEPT !.kind = "wait", !.patient = fresh, !.before = known.connects,
                                 !.anew = new, !.at = at]
    BY <2>2 DEF opNodeWaitConnected
  <2>4. known.connects \in Nat
    BY DEF NodesTyped
  <2>5. errand' \in Errands
    BY <2>1, <2>3, <2>4 DEF Errands, ErrandStages
  <2>6. errand'.at = at /\ errand'.kind = "wait" /\ errand'.before = known.connects
        /\ errand'.reqs = {} /\ errand'.got = {} /\ errand'.todo = << >>
    BY <2>3 DEF NoOp
  <2>7. errand'.anew = new
    BY <2>3 DEF NoOp
  <2> QED BY <2>2, <2>5, <2>6, <2>7
<1>3. NodesTyped'
  BY <1>1, <1>2, NodeRequestsAssumption DEF NodesTyped
<1>4. RequestsFit'
  BY <1>1, <1>2, NodeRequestsAssumption DEF RequestsFit, NodesTyped, RequestMsgs, AnswerMsgs, Jobs
<1>5. AnswersFit'
  BY <1>1 DEF AnswersFit
<1>6. ErrandFits'
  BY <1>1, <1>2 DEF ErrandFits, OfOne, TodoFiles, Rests
<1>7. ListsFit'
  BY <1>1, <1>2 DEF ListsFit, NodesTyped
<1>8. AnswersAreTheirs'
  BY <1>1, <1>2, <1>6 DEF AnswersAreTheirs, ErrandFits
<1> QED BY <1>3, <1>4, <1>5, <1>6, <1>7, <1>8

-----------------------------------------------------------------------------
\* A list that is taken, and one that is sent.
LEMMA ListTaken ==
  ASSUME NEW b \in BOOLEAN, known \in [listed : BOOLEAN, connects : Nat]
  PROVE  LET k == Listed(b) IN
         /\ k \in [listed : BOOLEAN, connects : Nat] /\ (k.listed <=> b) /\ k.listed = b
         /\ ~b \/ known.listed => k.connects = known.connects
<1> DEFINE k == Listed(b)
<1>1. k \in [listed : BOOLEAN, connects : Nat]
  BY DEF Listed
<1>2. k.listed = b
  BY DEF Listed
<1>3. CASE b
  BY <1>1, <1>2, <1>3 DEF Listed
<1>4. CASE ~b
  BY <1>1, <1>2, <1>4 DEF Listed
<1> QED BY <1>1, <1>2, <1>3, <1>4

\* A list sent is the last one on its way, and the others stay where they
\* were.
LEMMA ListSent ==
  ASSUME NEW l \in Seq(BOOLEAN), NEW b \in BOOLEAN
  PROVE  LET n == Append(l, b) IN
         /\ n \in Seq(BOOLEAN) /\ n # << >> /\ Len(n) = Len(l) + 1 /\ n[Len(n)] = b
         /\ \A i \in DOMAIN l : n[i] = l[i]
         /\ Len(l) \in Nat /\ DOMAIN l = 1 .. Len(l) /\ DOMAIN n = 1 .. Len(l) + 1
OBVIOUS

\* The operation goes on, though a node may be said to have come anew.
ErrandGoesOn ==
    /\ errand' \in Errands /\ errand'.at = errand.at /\ errand'.kind = errand.kind
    /\ errand'.reqs = errand.reqs /\ errand'.got = errand.got /\ errand'.todo = errand.todo
    /\ errand'.patient = errand.patient /\ (errand.anew => errand'.anew)

\* Where only the connections, the lists and the robot change.
LEMMA LinksInv ==
  ASSUME NodesInv, ListsFit', linked' \subseteq Pair, known' \in [listed : BOOLEAN, connects : Nat],
         lists' \in Seq(BOOLEAN), wire' \subseteq wire, wrongs' \in 0 .. MaxMishaps,
         robot' \in [up : BOOLEAN, asked : SUBSET Reqs],
         filed' \in [there : SUBSET NodeFiles, here : SUBSET NodeFiles],
         ErrandGoesOn \/ UNCHANGED errand,
         UNCHANGED <<waiting, atNode, askedFor>>
  PROVE  NodesInv'
<1> USE DEF NodesInv
<1>1. ErrandGoesOn
  BY DEF ErrandGoesOn, NodesTyped
<1>2. NodesTyped'
  BY <1>1 DEF NodesTyped, ErrandGoesOn
<1>3. RequestsFit' /\ AnswersFit'
  BY <1>1 DEF RequestsFit, AnswersFit, ErrandGoesOn
<1>4. ErrandFits'
  BY <1>1 DEF ErrandFits, OfOne, TodoFiles, ErrandGoesOn
<1>5. AnswersAreTheirs'
  BY <1>1 DEF AnswersAreTheirs, ErrandGoesOn
<1> QED BY <1>2, <1>3, <1>4, <1>5

\* A list arrives, and is what is known of the nodes.
LEMMA OnSetNodes == NodesInv /\ setNodes => NodesInv'
<1> SUFFICES ASSUME NodesInv, setNodes PROVE NodesInv'
  OBVIOUS
<1>1. NodesTyped /\ ListsFit
  BY DEF NodesInv
<1>2. /\ lists # << >> /\ known' = Listed(Head(lists)) /\ lists' = Tail(lists)
      /\ UNCHANGED <<errand, waiting, wire, linked, filed, askedFor, wrongs, atNode, robot>>
  BY DEF setNodes, NodeKeeps
<1>3. lists \in Seq(BOOLEAN) /\ Len(lists) \in Nat \ {0} /\ Head(lists) = lists[1]
  BY <1>1, <1>2 DEF NodesTyped
<1>4. /\ lists' \in Seq(BOOLEAN) /\ Len(lists') = Len(lists) - 1
      /\ \A i \in 1 .. Len(lists') : lists'[i] = lists[i + 1]
      /\ lists' = << >> => Len(lists) = 1
  BY <1>2, <1>3, FirstTaken
<1>5. /\ known' \in [listed : BOOLEAN, connects : Nat] /\ known'.listed = lists[1]
      /\ (~lists[1] \/ known.listed) => known'.connects = known.connects
  <2>1. PICK b \in BOOLEAN : b = Head(lists)
    BY <1>3
  <2>2. known \in [listed : BOOLEAN, connects : Nat]
    BY <1>1 DEF NodesTyped
  <2>3. known' = Listed(b) /\ b = lists[1]
    BY <1>2, <1>3, <2>1
  <2> QED BY <2>2, <2>3, ListTaken
<1>6. ListsFit'
  <2>1. ASSUME "asker" \in linked'
        PROVE  ((IF lists = << >> THEN known.listed ELSE lists[Len(lists)]) = ("node" \in linked))'
    <3>1. lists[Len(lists)] = ("node" \in linked)
      BY <1>1, <1>2, <2>1 DEF ListsFit
    <3>2. CASE lists' = << >>
      BY <1>2, <1>4, <1>5, <3>1, <3>2
    <3>3. CASE lists' # << >>
      <4>1. Len(lists') \in 1 .. Len(lists')
        BY <1>3, <1>4, <3>3
      <4>2. lists'[Len(lists')] = lists[Len(lists)]
        BY <1>3, <1>4, <4>1
      <4> QED BY <1>2, <3>1, <3>3, <4>2
    <3> QED BY <3>2, <3>3
  <2>2. ASSUME errand'.at = "watching", ~errand'.anew
        PROVE  (/\ known.connects <= errand.before
                /\ \A i \in DOMAIN lists : lists[i] => known.listed
                /\ \A i, j \in DOMAIN lists : j < i /\ lists[i] => lists[j])'
    <3>1. /\ known.connects <= errand.before
          /\ \A i \in DOMAIN lists : lists[i] => known.listed
          /\ \A i, j \in DOMAIN lists : j < i /\ lists[i] => lists[j]
      BY <1>1, <1>2, <2>2 DEF ListsFit
    <3>2. DOMAIN lists' = 1 .. Len(lists') /\ DOMAIN lists = 1 .. Len(lists)
      BY <1>3, <1>4
    <3>3. known'.connects = known.connects
      BY <1>3, <1>5, <3>1, <3>2
    <3>4. \A i \in DOMAIN lists' : i + 1 \in DOMAIN lists /\ lists'[i] = lists[i + 1] /\ 1 < i + 1
      BY <1>3, <1>4, <3>2
    <3>5. 1 \in DOMAIN lists
      BY <1>3, <3>2
    <3>6. \A i \in DOMAIN lists' : lists'[i] => known'.listed
      BY <1>5, <3>1, <3>4, <3>5
    <3>7. \A i, j \in DOMAIN lists' : j < i /\ lists'[i] => lists'[j]
      BY <3>1, <3>2, <3>4
    <3> QED BY <1>2, <3>1, <3>3, <3>6, <3>7
  <2> QED BY <2>1, <2>2 DEF ListsFit
<1>7. /\ robot' \in [up : BOOLEAN, asked : SUBSET Reqs] /\ linked' \subseteq Pair
      /\ filed' \in [there : SUBSET NodeFiles, here : SUBSET NodeFiles]
      /\ wrongs' \in 0 .. MaxMishaps
  BY <1>1, <1>2 DEF NodesTyped
<1> QED BY <1>1, <1>2, <1>4, <1>5, <1>6, <1>7, LinksInv

\* federation-command sends the list as it is.
LEMMA OnBroadcastControlNodes == NodesInv /\ broadcastControlNodes => NodesInv'
<1> SUFFICES ASSUME NodesInv, broadcastControlNodes PROVE NodesInv'
  OBVIOUS
<1>1. NodesTyped /\ ListsFit
  BY DEF NodesInv
<1>2. PICK b \in BOOLEAN : b <=> ("node" \in linked)
  OBVIOUS
<1>3. /\ "asker" \in linked /\ lists = << >> /\ lists' = <<b>>
      /\ UNCHANGED <<errand, waiting, wire, linked, known, filed, askedFor, wrongs, atNode, robot>>
  <2>1. b = ("node" \in linked)
    BY <1>2
  <2> QED BY <2>1 DEF broadcastControlNodes, NodeKeeps
<1>4. b = known.listed
  BY <1>1, <1>2, <1>3 DEF ListsFit
<1>5. lists' \in Seq(BOOLEAN) /\ lists' # << >> /\ Len(lists') = 1 /\ DOMAIN lists' = {1} /\ lists'[1] = b
  BY <1>3
<1>6. ListsFit'
  BY <1>1, <1>2, <1>3, <1>4, <1>5 DEF ListsFit
<1> QED BY <1>1, <1>3, <1>5, <1>6, LinksInv DEF NodesTyped

\* A link breaks, with what is under way on it.
LEMMA OnBreaks == ASSUME NodesInv, NEW h \in Pair, Breaks(h) PROVE NodesInv'
<1>1. NodesTyped /\ ListsFit
  BY DEF NodesInv
<1>2. /\ linked' = linked \ {h} /\ wire' \subseteq wire /\ Mishap
      /\ UNCHANGED <<errand, waiting, filed, askedFor, atNode, robot>>
  BY DEF Breaks, NodeKeeps
<1>3. /\ robot' \in [up : BOOLEAN, asked : SUBSET Reqs] /\ linked' \subseteq Pair
      /\ filed' \in [there : SUBSET NodeFiles, here : SUBSET NodeFiles]
      /\ wrongs' \in 0 .. MaxMishaps
  BY <1>1, <1>2, MishapTyped DEF NodesTyped
<1>4. CASE h = "asker"
  <2>1. lists' = << >> /\ known' = Listed(FALSE)
    BY <1>4 DEF Breaks
  <2>2. known' \in [listed : BOOLEAN, connects : Nat] /\ known'.connects = known.connects
    <3>1. known \in [listed : BOOLEAN, connects : Nat]
      BY <1>1 DEF NodesTyped
    <3> QED BY <2>1, <3>1, ListTaken
  <2>3. "asker" \notin linked' /\ DOMAIN lists' = {}
    BY <1>2, <1>4, <2>1
  <2>4. ListsFit'
    BY <1>1, <1>2, <2>2, <2>3 DEF ListsFit
  <2>5. lists' \in Seq(BOOLEAN)
    BY <2>1
  <2> QED BY <1>2, <1>3, <2>2, <2>4, <2>5, LinksInv
<1>5. CASE h = "node" /\ "asker" \in linked
  <2>1. lists' = Append(lists, FALSE) /\ UNCHANGED known
    BY <1>5 DEF Breaks
  <2>2. /\ lists' \in Seq(BOOLEAN) /\ Len(lists') = Len(lists) + 1 /\ lists' # << >>
        /\ \A i \in 1 .. Len(lists) : lists'[i] = lists[i]
        /\ lists'[Len(lists')] = FALSE /\ Len(lists) \in Nat
        /\ DOMAIN lists' = 1 .. Len(lists) + 1 /\ DOMAIN lists = 1 .. Len(lists)
    <3>1. lists \in Seq(BOOLEAN)
      BY <1>1 DEF NodesTyped
    <3> QED BY <2>1, <3>1, ListSent
  <2>3. "node" \notin linked'
    BY <1>2, <1>5
  <2>4. \A i \in DOMAIN lists' : i \in DOMAIN lists \/ i = Len(lists')
    BY <2>2
  <2>5. \A i \in DOMAIN lists' : lists'[i] => i \in DOMAIN lists /\ lists[i]
    BY <2>2, <2>4
  <2>6. \A i, j \in DOMAIN lists' : i \in DOMAIN lists /\ j < i => j \in DOMAIN lists
    BY <2>2
  <2>7. \A j \in DOMAIN lists : lists'[j] = lists[j]
    BY <2>2
  <2> DEFINE last == lists'[Len(lists')]
  <2>8. last = FALSE
    BY <2>2
  <2>9. errand'.at = "watching" /\ ~errand'.anew =>
          /\ known'.connects <= errand'.before
          /\ \A i \in DOMAIN lists' : lists'[i] => known'.listed
          /\ \A i, j \in DOMAIN lists' : j < i /\ lists'[i] => lists'[j]
    BY <1>1, <1>2, <2>1, <2>5, <2>6, <2>7 DEF ListsFit
  <2>10. ListsFit'
    BY <2>2, <2>3, <2>8, <2>9 DEF ListsFit
  <2> QED BY <1>1, <1>2, <1>3, <2>1, <2>2, <2>10, LinksInv DEF NodesTyped
<1>6. CASE h = "node" /\ "asker" \notin linked
  <2>1. UNCHANGED <<lists, known>> /\ "asker" \notin linked'
    BY <1>2, <1>6 DEF Breaks
  <2>2. ListsFit'
    BY <1>1, <1>2, <2>1 DEF ListsFit
  <2> QED BY <1>1, <1>2, <1>3, <2>1, <2>2, LinksInv DEF NodesTyped
<1> QED BY <1>4, <1>5, <1>6

\* A link is made again, and the list counts it.
LEMMA OnReconnects == ASSUME NodesInv, NEW h \in Pair, Reconnects(h) PROVE NodesInv'
<1>1. NodesTyped /\ ListsFit
  BY DEF NodesInv
<1>2. /\ linked' = linked \cup {h}
      /\ UNCHANGED <<known, wire, waiting, filed, askedFor, wrongs, atNode, robot>>
  BY DEF Reconnects, NodeKeeps
<1>3. /\ robot' \in [up : BOOLEAN, asked : SUBSET Reqs] /\ linked' \subseteq Pair
      /\ filed' \in [there : SUBSET NodeFiles, here : SUBSET NodeFiles]
      /\ wrongs' \in 0 .. MaxMishaps /\ known' \in [listed : BOOLEAN, connects : Nat]
  BY <1>1, <1>2 DEF NodesTyped
<1>4. PICK new \in BOOLEAN : new <=> (errand.anew \/ errand.at = "watching")
  OBVIOUS
<1>5. errand' = [errand EXCEPT !.anew = new]
  <2>1. new = (errand.anew \/ errand.at = "watching")
    BY <1>4
  <2> QED BY <2>1 DEF Reconnects
<1>6. ErrandGoesOn /\ (errand.at = "watching" => errand'.anew)
  <2>1. errand \in Errands
    BY <1>1 DEF NodesTyped
  <2>2. errand'.anew = new /\ errand' \in Errands
    BY <1>5, <2>1 DEF Errands
  <2> QED BY <1>4, <1>5, <2>1, <2>2 DEF Errands, ErrandGoesOn
<1>7. lists' \in Seq(BOOLEAN) /\
      ("asker" \in linked' =>
         (IF lists' = << >> THEN known'.listed ELSE lists'[Len(lists')]) = ("node" \in linked'))
  <2>1. CASE h = "asker"
    <3>1. PICK b \in BOOLEAN : b <=> ("node" \in linked)
      OBVIOUS
    <3>2. lists' = <<b>> /\ (("node" \in linked') <=> b)
      <4>1. b = ("node" \in linked)
        BY <3>1
      <4>2. lists' = <<b>>
        BY <2>1, <4>1 DEF Reconnects
      <4> QED BY <1>2, <2>1, <3>1, <4>2
    <3>3. lists' # << >> /\ Len(lists') = 1 /\ lists'[1] = b /\ lists' \in Seq(BOOLEAN)
      BY <3>2
    <3> QED BY <3>2, <3>3
  <2>2. CASE h = "node" /\ "asker" \in linked
    <3>1. lists' = Append(lists, TRUE) /\ "node" \in linked'
      BY <1>2, <2>2 DEF Reconnects
    <3>2. lists' # << >> /\ lists'[Len(lists')] = TRUE /\ lists' \in Seq(BOOLEAN)
      <4>1. lists \in Seq(BOOLEAN)
        BY <1>1 DEF NodesTyped
      <4> QED BY <3>1, <4>1, ListSent
    <3> QED BY <3>1, <3>2
  <2>3. CASE h = "node" /\ "asker" \notin linked
    BY <1>1, <1>2, <2>3 DEF Reconnects, NodesTyped
  <2> QED BY <2>1, <2>2, <2>3
<1>8. ListsFit'
  BY <1>6, <1>7 DEF ListsFit, ErrandGoesOn
<1> QED BY <1>2, <1>3, <1>6, <1>7, <1>8, LinksInv

\* The robot comes and goes, and files are removed: no request is touched.
LEMMA OnTheRest == ASSUME NodesInv, RobotGoes \/ RobotComes \/ FileRemoved PROVE NodesInv'
<1>1. NodesTyped /\ ListsFit
  BY DEF NodesInv
<1>2. UNCHANGED <<errand, waiting, wire, atNode, linked, known, lists, askedFor>>
  BY DEF RobotGoes, RobotComes, FileRemoved, LinksKeep, NodeKeeps
<1>3. wrongs' \in 0 .. MaxMishaps
  BY <1>1, MishapTyped DEF RobotGoes, RobotComes, FileRemoved
<1>4. robot' \in [up : BOOLEAN, asked : SUBSET Reqs]
  <2>1. robot \in [up : BOOLEAN, asked : SUBSET Reqs]
    BY <1>1 DEF NodesTyped
  <2>2. CASE RobotGoes
    BY <2>2 DEF RobotGoes
  <2>3. CASE RobotComes
    BY <2>1, <2>3 DEF RobotComes
  <2>4. CASE FileRemoved
    BY <2>1, <2>4 DEF FileRemoved, NodeKeeps
  <2> QED BY <2>2, <2>3, <2>4
<1>5. filed' \in [there : SUBSET NodeFiles, here : SUBSET NodeFiles]
  BY <1>1 DEF NodesTyped, RobotGoes, RobotComes, FileRemoved
<1> QED BY <1>2, <1>3, <1>4, <1>5, WireInv

\* Each step keeps what requests, answers and lists of nodes have to say of
\* the operation.
LEMMA NodesStep == NodesInv /\ NodeRequestsNext => NodesInv'
<1> SUFFICES ASSUME NodesInv, NodeRequestsNext PROVE NodesInv'
  OBVIOUS
<1>1. ASSUME NEW m \in wire,
             \/ relayNodeRequest(m) \/ relayNodeResult(m) \/ captureForNode(m) \/ handleNodeCommand(m)
             \/ \E found \in Matched : fetchForNode(m, found)
      PROVE  NodesInv'
  BY <1>1, OnRelayNodeRequest, OnRelayNodeResult, OnCaptureForNode, OnHandleNodeCommand, OnFetchForNode
<1>2. ASSUME NEW here \in BOOLEAN, NEW patient \in BOOLEAN,
             opNodeCapture(here, patient) \/ opNodeFetchFile(here, patient)
      PROVE  NodesInv'
  BY <1>2, OnOpNodeCapture, OnOpNodeFetchFile
<1>3. ASSUME NEW fresh \in BOOLEAN, opNodeWaitConnected(fresh) PROVE NodesInv'
  BY <1>3, OnOpNodeWaitConnected
<1>4. ASSUME AsksAgain \/ TimesOut \/ Cancels \/ copyNodeFile \/ Copied PROVE NodesInv'
  BY <1>4, OnAsksAgain, OnTimesOut, OnCancels, OnCopyNodeFile, OnCopied
<1>5. ASSUME NEW j \in atNode, CaptureFails(j) PROVE NodesInv'
  BY <1>5, OnCaptureFails
<1>6. ASSUME NEW r \in robot.asked, noteRobotCapture(r) PROVE NodesInv'
  BY <1>6, OnNoteRobotCapture
<1>7. ASSUME nodeConnections \/ WaitTimesOut \/ setNodes \/ broadcastControlNodes PROVE NodesInv'
  BY <1>7, OnNodeConnections, OnWaitTimesOut, OnSetNodes, OnBroadcastControlNodes
<1>8. ASSUME NEW h \in Pair, Breaks(h) \/ Reconnects(h) PROVE NodesInv'
  BY <1>8, OnBreaks, OnReconnects
<1>9. ASSUME RobotGoes \/ RobotComes \/ FileRemoved PROVE NodesInv'
  BY <1>9, OnTheRest
<1> QED BY <1>1, <1>2, <1>3, <1>4, <1>5, <1>6, <1>7, <1>8, <1>9 DEF NodeRequestsNext

-----------------------------------------------------------------------------
(***************************************************************************)
(* The library of control sequences.  A run knows its sequence by id and   *)
(* rev; that this tells them apart needs that a rev goes with its sequence *)
(* through every edit, and is never given twice.                           *)
(***************************************************************************)
Partial(S, T) == UNION {[D -> T] : D \in SUBSET S}
LibraryDocs == [acts : Partial(ActIds, {"old", "new", "mine"}), seqs : Partial(SeqIds, Steps)]
Books == [of : Partial(SeqIds, Nat), last : Nat]
Lines == Partial(SeqIds, SeqIds \X Nat)
CtlRuns == [seq : SeqIds \cup {"none"}, rev : Nat, of : (SeqIds \cup {"none"}) \X Nat, going : BOOLEAN]

LibraryTyped ==
    /\ lib \in LibraryDocs /\ saved.lib \in LibraryDocs /\ build \in {1, 2}
    /\ revs \in Books /\ lineage \in Lines
    /\ lastRun \in CtlRuns /\ libCount \in [edits : Nat, launches : Nat]

\* Each sequence made since the library was loaded has a rev of its own.
RevsFit(ids, r, line) ==
    /\ DOMAIN line = ids /\ DOMAIN r.of \subseteq ids
    /\ \A q \in DOMAIN r.of : r.of[q] \in 1 .. r.last
    /\ \A q, p \in DOMAIN r.of : r.of[q] = r.of[p] => q = p
    /\ \A q \in ids \ DOMAIN r.of : line[q][2] = 0

\* The sequence with the rev a run has is the one that ran.
Ran(run, r, line) ==
    /\ run.rev <= r.last
    /\ run.rev > 0 => \A q \in DOMAIN r.of : r.of[q] = run.rev => line[q] = run.of
    /\ run.rev = 0 => run.of[2] = 0

LineagesInv ==
    /\ LibraryTyped
    /\ RevsFit(DOMAIN lib.seqs, revs, lineage) /\ Ran(lastRun, revs, lineage)

\* A rev goes with the sequence it was given, and is given once.
RevsGoOn(r, line, r2, line2) ==
    /\ r.last <= r2.last
    /\ \A q \in DOMAIN r2.of :
         \/ r2.of[q] > r.last
         \/ \E p \in DOMAIN r.of : r.of[p] = r2.of[q] /\ line[p] = line2[q]

-----------------------------------------------------------------------------
\* Functions on some of a set.
LEMMA PartialValue ==
  ASSUME NEW S, NEW T, NEW f \in Partial(S, T)
  PROVE  DOMAIN f \subseteq S /\ f \in [DOMAIN f -> T] /\ \A k \in DOMAIN f : f[k] \in T
BY DEF Partial

\* A function on some of a set.
LEMMA PartialFun ==
  ASSUME NEW S, NEW T, NEW D \in SUBSET S, NEW f \in [D -> T]
  PROVE  f \in Partial(S, T)
BY DEF Partial

\* A function over another has what the first has, and the rest of the other.
LEMMA PartialOnto ==
  ASSUME NEW S, NEW T, NEW f \in Partial(S, T), NEW g \in Partial(S, T)
  PROVE  /\ Onto(f, g) \in Partial(S, T) /\ DOMAIN Onto(f, g) = DOMAIN f \cup DOMAIN g
         /\ \A k \in DOMAIN f : Onto(f, g)[k] = f[k]
         /\ \A k \in DOMAIN g \ DOMAIN f : Onto(f, g)[k] = g[k]
<1>1. Onto(f, g) \in [DOMAIN f \cup DOMAIN g -> T]
  BY PartialValue DEF Onto
<1>2. DOMAIN f \cup DOMAIN g \in SUBSET S
  BY PartialValue
<1>3. Onto(f, g) \in Partial(S, T)
  BY <1>1, <1>2, PartialFun
<1> QED BY <1>3 DEF Onto

\* A function with one value more.
LEMMA PartialWith ==
  ASSUME NEW S, NEW T, NEW f \in Partial(S, T), NEW k \in S, NEW v \in T
  PROVE  /\ With(f, k, v) \in Partial(S, T) /\ DOMAIN With(f, k, v) = DOMAIN f \cup {k}
         /\ With(f, k, v)[k] = v /\ \A j \in DOMAIN f \ {k} : With(f, k, v)[j] = f[j]
<1> DEFINE g == [j \in {k} |-> v]
<1>1. g \in Partial(S, T)
  <2>1. {k} \in SUBSET S /\ g \in [{k} -> T]
    OBVIOUS
  <2> QED BY <2>1, PartialFun
<1>2. DOMAIN g = {k} /\ g[k] = v
  OBVIOUS
<1> HIDE DEF g
<1>3. Onto(g, f) \in Partial(S, T)
  BY <1>1, PartialOnto
<1>5. DOMAIN Onto(g, f) = DOMAIN g \cup DOMAIN f
  BY DEF Onto
<1>6. /\ \A j \in DOMAIN g : Onto(g, f)[j] = g[j]
      /\ \A j \in DOMAIN f \ DOMAIN g : Onto(g, f)[j] = f[j]
  BY DEF Onto
<1>4. With(f, k, v) = Onto(g, f)
  BY DEF With, g
<1> QED BY <1>2, <1>3, <1>4, <1>5, <1>6

\* A function on less.
LEMMA PartialRestrict ==
  ASSUME NEW S, NEW T, NEW f \in Partial(S, T), NEW D, D \subseteq DOMAIN f
  PROVE  Restrict(f, D) \in Partial(S, T) /\ DOMAIN Restrict(f, D) = D
         /\ \A k \in D : Restrict(f, D)[k] = f[k]
<1>1. Restrict(f, D) \in [D -> T] /\ D \in SUBSET S
  BY PartialValue DEF Restrict
<1>2. Restrict(f, D) \in Partial(S, T)
  BY <1>1, PartialFun
<1> QED BY <1>2 DEF Restrict

\* A function without one of its values.
LEMMA PartialWithout ==
  ASSUME NEW S, NEW T, NEW f \in Partial(S, T), NEW k
  PROVE  Without(f, k) \in Partial(S, T) /\ DOMAIN Without(f, k) = DOMAIN f \ {k}
         /\ \A j \in DOMAIN f \ {k} : Without(f, k)[j] = f[j]
BY PartialRestrict DEF Without

-----------------------------------------------------------------------------
\* What edits make of a library is one.
LEMMA ActionSavedIs ==
  ASSUME NEW l \in LibraryDocs, NEW a \in ActIds, NEW text \in {"old", "new", "mine"}, NEW prev
  PROVE  /\ ActionSaved(l, a, text, prev) \in LibraryDocs
         /\ DOMAIN ActionSaved(l, a, text, prev).seqs = DOMAIN l.seqs
<1> DEFINE Texts == {"old", "new", "mine"}
           acts == With(Without(l.acts, prev), a, text)
           seqs == renameActionRefs(l.seqs, prev, a)
<1>1. l.acts \in Partial(ActIds, Texts) /\ l.seqs \in Partial(SeqIds, Steps)
  BY DEF LibraryDocs
<1>2. acts \in Partial(ActIds, Texts)
  <2>1. Without(l.acts, prev) \in Partial(ActIds, Texts)
    BY <1>1, PartialWithout
  <2>2. text \in Texts
    OBVIOUS
  <2> HIDE DEF Texts
  <2> QED BY <2>1, <2>2, PartialWith
<1>3. DOMAIN seqs = DOMAIN l.seqs /\ DOMAIN l.seqs \in SUBSET SeqIds
  BY <1>1, PartialValue DEF renameActionRefs
<1>4. ASSUME NEW q \in DOMAIN l.seqs PROVE seqs[q] \in Steps
  <2>1. l.seqs[q] \in Steps
    BY <1>1, PartialValue
  <2> QED BY <2>1 DEF Steps, renameActionRefs
<1>5. seqs \in [DOMAIN l.seqs -> Steps]
  BY <1>4 DEF renameActionRefs
<1>6. seqs \in Partial(SeqIds, Steps)
  BY <1>3, <1>5, PartialFun
<1>7. ActionSaved(l, a, text, prev) = [acts |-> acts, seqs |-> seqs]
  BY DEF ActionSaved
<1> HIDE DEF acts, seqs
<1> QED BY <1>2, <1>3, <1>6, <1>7 DEF LibraryDocs

\* Without an action.
LEMMA ActionDeletedIs ==
  ASSUME NEW l \in LibraryDocs, NEW a
  PROVE  /\ [l EXCEPT !.acts = Without(@, a)] \in LibraryDocs
         /\ [l EXCEPT !.acts = Without(@, a)].seqs = l.seqs
BY PartialWithout DEF LibraryDocs

\* With a sequence saved under an id, in the place of another.
LEMMA SequenceSavedIs ==
  ASSUME NEW l \in LibraryDocs, NEW q \in SeqIds, NEW step \in Steps, NEW prev
  PROVE  /\ SequenceSaved(l, q, step, prev) \in LibraryDocs
         /\ DOMAIN SequenceSaved(l, q, step, prev).seqs = (DOMAIN l.seqs \ {prev}) \cup {q}
<1>1. l.seqs \in Partial(SeqIds, Steps)
  BY DEF LibraryDocs
<1>2. /\ With(Without(l.seqs, prev), q, step) \in Partial(SeqIds, Steps)
      /\ DOMAIN With(Without(l.seqs, prev), q, step) = (DOMAIN l.seqs \ {prev}) \cup {q}
  <2>1. Without(l.seqs, prev) \in Partial(SeqIds, Steps)
    BY <1>1, PartialWithout
  <2>2. DOMAIN Without(l.seqs, prev) = DOMAIN l.seqs \ {prev}
    BY DEF Without, Restrict
  <2>3. With(Without(l.seqs, prev), q, step) \in Partial(SeqIds, Steps)
    BY <2>1, PartialWith
  <2> QED BY <2>2, <2>3 DEF With, Onto
<1> QED BY <1>2 DEF SequenceSaved, LibraryDocs

\* Without a sequence.
LEMMA SequenceDeletedIs ==
  ASSUME NEW l \in LibraryDocs, NEW q
  PROVE  /\ [l EXCEPT !.seqs = Without(@, q)] \in LibraryDocs
         /\ DOMAIN [l EXCEPT !.seqs = Without(@, q)].seqs = DOMAIN l.seqs \ {q}
<1>1. l.seqs \in Partial(SeqIds, Steps)
  BY DEF LibraryDocs
<1>2. Without(l.seqs, q) \in Partial(SeqIds, Steps)
  BY <1>1, PartialWithout
<1>3. DOMAIN Without(l.seqs, q) = DOMAIN l.seqs \ {q}
  BY DEF Without, Restrict
<1> QED BY <1>2, <1>3 DEF LibraryDocs

\* With what an import brings.
LEMMA MergedIs ==
  ASSUME NEW l \in LibraryDocs, NEW doc \in LibraryDocs
  PROVE  /\ Merged(l, doc) \in LibraryDocs
         /\ DOMAIN Merged(l, doc).seqs = DOMAIN doc.seqs \cup DOMAIN l.seqs
<1> DEFINE Texts == {"old", "new", "mine"}
<1>1. /\ l.seqs \in Partial(SeqIds, Steps) /\ doc.seqs \in Partial(SeqIds, Steps)
      /\ l.acts \in Partial(ActIds, Texts) /\ doc.acts \in Partial(ActIds, Texts)
  BY DEF LibraryDocs
<1>2. Onto(doc.seqs, l.seqs) \in Partial(SeqIds, Steps)
  BY <1>1, PartialOnto
<1>3. Onto(doc.acts, l.acts) \in Partial(ActIds, Texts)
  <2> HIDE DEF Texts
  <2> QED BY <1>1, PartialOnto
<1>4. DOMAIN Onto(doc.seqs, l.seqs) = DOMAIN doc.seqs \cup DOMAIN l.seqs
  BY DEF Onto
<1> QED BY <1>2, <1>3, <1>4 DEF Merged, LibraryDocs

\* With the examples of another build.
LEMMA UpgradedIs ==
  ASSUME NEW S, NEW T, NEW f \in Partial(S, T), NEW rec, NEW shipped \in Partial(S, T)
  PROVE  upgradeControlExamples(f, rec, shipped) \in Partial(S, T)
<1>1. Upgraded(f, rec, shipped) \in Partial(S, T)
  <2>1. \A k \in DOMAIN f : f[k] \in T
    BY PartialValue
  <2>2. \A k \in DOMAIN shipped : shipped[k] \in T
    BY PartialValue
  <2>3. Upgraded(f, rec, shipped) \in [DOMAIN f -> T]
    BY <2>1, <2>2 DEF Upgraded
  <2> QED BY <2>3, PartialValue, PartialFun
<1>2. Restrict(shipped, DOMAIN shipped \ DOMAIN rec) \in Partial(S, T)
  BY PartialRestrict
<1> QED BY <1>1, <1>2, PartialOnto DEF upgradeControlExamples

\* What builds ship, and what is imported.
LEMMA ShippedIs == \A b \in {1, 2} : Shipped(b) \in LibraryDocs
<1> DEFINE Texts == {"old", "new", "mine"}
<1>1. \A w \in SUBSET {"p"} : Step("a", w) \in Steps /\ Step("b", w) \in Steps
  BY DEF Step, Steps, ActIds
<1>2. [a |-> "old"] \in Partial(ActIds, Texts)
  <2>1. [a |-> "old"] \in [{"a"} -> Texts] /\ {"a"} \in SUBSET ActIds
    BY DEF ActIds
  <2> QED BY <2>1, PartialFun
<1>3. [a |-> "new", b |-> "new"] \in Partial(ActIds, Texts)
  <2>1. [a |-> "new", b |-> "new"] \in [{"a", "b"} -> Texts] /\ {"a", "b"} \in SUBSET ActIds
    BY DEF ActIds
  <2> QED BY <2>1, PartialFun
<1>4. \A st \in Steps : [q |-> st] \in Partial(SeqIds, Steps)
  <2>1. \A st \in Steps : [q |-> st] \in [{"q"} -> Steps]
    OBVIOUS
  <2>2. {"q"} \in SUBSET SeqIds
    BY DEF SeqIds
  <2> QED BY <2>1, <2>2, PartialFun
<1>5. Shipped(1) = [acts |-> [a |-> "old"], seqs |-> [q |-> Step("a", {"p"})]]
      /\ Shipped(2) = [acts |-> [a |-> "new", b |-> "new"], seqs |-> [q |-> Step("a", {})]]
  BY DEF Shipped, ShippedActs, ShippedSeqs
<1>6. Shipped(1) \in LibraryDocs
  BY <1>1, <1>2, <1>4, <1>5 DEF LibraryDocs
<1>7. Shipped(2) \in LibraryDocs
  BY <1>1, <1>3, <1>4, <1>5 DEF LibraryDocs
<1> QED BY <1>6, <1>7

\* What is imported is a library.
LEMMA DocsAre == Docs \subseteq LibraryDocs
<1> DEFINE Texts == {"old", "new", "mine"}
<1>1. \A w \in SUBSET {"p"} : Step("a", w) \in Steps /\ Step("b", w) \in Steps
  BY DEF Step, Steps, ActIds
<1>2. [a |-> "mine"] \in Partial(ActIds, Texts) /\ [b |-> "mine"] \in Partial(ActIds, Texts)
  <2>1. [a |-> "mine"] \in [{"a"} -> Texts] /\ {"a"} \in SUBSET ActIds
    BY DEF ActIds
  <2>2. [b |-> "mine"] \in [{"b"} -> Texts] /\ {"b"} \in SUBSET ActIds
    BY DEF ActIds
  <2> QED BY <2>1, <2>2, PartialFun
<1>3. \A st \in Steps : [q |-> st] \in Partial(SeqIds, Steps) /\ [r |-> st] \in Partial(SeqIds, Steps)
  <2>1. \A st \in Steps : [q |-> st] \in [{"q"} -> Steps] /\ [r |-> st] \in [{"r"} -> Steps]
    OBVIOUS
  <2>2. {"q"} \in SUBSET SeqIds /\ {"r"} \in SUBSET SeqIds
    BY DEF SeqIds
  <2> QED BY <2>1, <2>2, PartialFun
<1>4. /\ [acts |-> [a |-> "mine"], seqs |-> [q |-> Step("a", {"p"})]] \in LibraryDocs
      /\ [acts |-> [b |-> "mine"], seqs |-> [r |-> Step("b", {"p"})]] \in LibraryDocs
  BY <1>1, <1>2, <1>3 DEF LibraryDocs
<1> QED BY <1>4 DEF Docs

-----------------------------------------------------------------------------
\* What each edit does to the revs, and to which sequences they stand for.
LEMMA RanOn ==
  ASSUME NEW r \in Books, NEW line, NEW r2 \in Books, NEW line2, NEW run \in CtlRuns,
         Ran(run, r, line), RevsGoOn(r, line, r2, line2)
  PROVE  Ran(run, r2, line2)
<1>1. r.last \in Nat /\ r2.last \in Nat /\ run.rev \in Nat
  BY DEF Books, CtlRuns
<1>2. run.rev <= r2.last
  BY <1>1 DEF Ran, RevsGoOn
<1>3. ASSUME run.rev > 0, NEW q \in DOMAIN r2.of, r2.of[q] = run.rev
      PROVE  line2[q] = run.of
  <2>1. ~(r2.of[q] > r.last)
    BY <1>1, <1>3 DEF Ran
  <2>2. PICK p \in DOMAIN r.of : r.of[p] = r2.of[q] /\ line[p] = line2[q]
    BY <2>1 DEF RevsGoOn
  <2> QED BY <1>3, <2>2 DEF Ran
<1> QED BY <1>2, <1>3 DEF Ran

\* A sequence made anew.
LEMMA MadeAnew ==
  ASSUME NEW ids, NEW r \in Books, NEW line \in Lines, RevsFit(ids, r, line),
         NEW q \in SeqIds, q \notin ids, NEW since \in SeqIds \X Nat,
         NEW line2, line2 = With(line, q, since)
  PROVE  /\ newRev(r, q) \in Books /\ line2 \in Lines
         /\ RevsFit(ids \cup {q}, newRev(r, q), line2) /\ RevsGoOn(r, line, newRev(r, q), line2)
<1>1. r.of \in Partial(SeqIds, Nat) /\ r.last \in Nat
  BY DEF Books
<1> DEFINE of2 == With(r.of, q, r.last + 1)
<1>2. of2 \in Partial(SeqIds, Nat)
  <2>1. PICK n : n = r.last + 1
    OBVIOUS
  <2>2. n \in Nat
    BY <1>1, <2>1
  <2>3. With(r.of, q, n) \in Partial(SeqIds, Nat)
    BY <1>1, <2>2, PartialWith
  <2> QED BY <2>1, <2>3
<1>3. line2 \in Lines
  <2> DEFINE T == SeqIds \X Nat
  <2>1. line \in Partial(SeqIds, T) /\ since \in T
    BY DEF Lines
  <2> HIDE DEF T
  <2>2. With(line, q, since) \in Partial(SeqIds, T)
    BY <2>1, PartialWith
  <2> QED BY <2>2 DEF Lines, T
<1>4. DOMAIN of2 = DOMAIN r.of \cup {q} /\ of2[q] = r.last + 1
  BY DEF With, Onto
<1>5. \A p \in DOMAIN r.of : of2[p] = r.of[p] /\ p # q
  BY DEF With, Onto, RevsFit
<1>6. DOMAIN line2 = ids \cup {q} /\ \A p \in ids : line2[p] = line[p]
  BY DEF With, Onto, RevsFit
<1>7. \A p \in DOMAIN r.of : of2[p] \in 1 .. r.last /\ p \in ids
  BY <1>5 DEF RevsFit
<1> HIDE DEF of2
<1>8. newRev(r, q) = [of |-> of2, last |-> r.last + 1]
  BY DEF newRev, of2
<1>9. newRev(r, q) \in Books
  BY <1>1, <1>2, <1>8 DEF Books
<1>10. \A p \in DOMAIN of2 : of2[p] \in 1 .. r.last + 1
  BY <1>1, <1>4, <1>7
<1>11. \A p, s \in DOMAIN of2 : of2[p] = of2[s] => p = s
  <2> TAKE p, s \in DOMAIN of2
  <2>1. CASE p = q /\ s # q
    BY <1>1, <1>4, <1>7, <2>1
  <2>2. CASE s = q /\ p # q
    BY <1>1, <1>4, <1>7, <2>2
  <2>3. CASE p # q /\ s # q
    BY <1>4, <1>5, <2>3 DEF RevsFit
  <2> QED BY <2>1, <2>2, <2>3
<1>12. \A p \in (ids \cup {q}) \ DOMAIN of2 : line2[p][2] = 0
  BY <1>4, <1>6 DEF RevsFit
<1>13. RevsFit(ids \cup {q}, newRev(r, q), line2)
  BY <1>4, <1>6, <1>7, <1>8, <1>10, <1>11, <1>12 DEF RevsFit
<1>14. RevsGoOn(r, line, newRev(r, q), line2)
  <2>1. r.last <= r.last + 1 /\ r.last + 1 > r.last
    BY <1>1
  <2>2. \A p \in DOMAIN of2 : \/ of2[p] > r.last
                              \/ \E s \in DOMAIN r.of : r.of[s] = of2[p] /\ line[s] = line2[p]
    BY <1>4, <1>5, <1>6, <1>7, <2>1
  <2> QED BY <1>8, <2>1, <2>2 DEF RevsGoOn
<1> QED BY <1>3, <1>9, <1>13, <1>14

\* A sequence saved again, under the id it has.
LEMMA SavedAgain ==
  ASSUME NEW ids, NEW r \in Books, NEW line \in Lines, RevsFit(ids, r, line), NEW q \in ids,
         NEW line2, line2 = With(Without(line, q), q, line[q])
  PROVE  line2 \in Lines /\ RevsFit(ids, r, line2) /\ RevsGoOn(r, line, r, line2)
<1>1. DOMAIN line = ids
  BY DEF RevsFit
<1>2. DOMAIN line2 = ids /\ \A p \in ids : line2[p] = line[p]
  BY <1>1 DEF With, Onto, Without, Restrict
<1>3. line2 = [p \in ids |-> line2[p]] /\ line = [p \in ids |-> line[p]]
  <2>1. line2 = [p \in DOMAIN line2 |-> line2[p]]
    BY DEF With, Onto
  <2>2. line = [p \in DOMAIN line |-> line[p]]
    BY PartialValue DEF Lines
  <2> QED BY <1>1, <1>2, <2>1, <2>2
<1>4. line2 = line
  BY <1>2, <1>3
<1>5. r.last \in Nat
  BY DEF Books
<1> QED BY <1>4, <1>5 DEF RevsGoOn, RevsFit

\* A sequence renamed: its rev goes with it, when it has one.
LEMMA MovedOn ==
  ASSUME NEW ids, NEW r \in Books, NEW line \in Lines, RevsFit(ids, r, line), NEW p \in ids,
         NEW q \in SeqIds, q \notin ids,
         NEW line2, line2 = With(Without(line, p), q, line[p]),
         NEW r2, r2 = IF p \in DOMAIN r.of THEN [r EXCEPT !.of = With(Without(r.of, p), q, r.of[p])] ELSE r
  PROVE  /\ r2 \in Books /\ line2 \in Lines
         /\ RevsFit((ids \ {p}) \cup {q}, r2, line2) /\ RevsGoOn(r, line, r2, line2)
<1>1. /\ r.of \in Partial(SeqIds, Nat) /\ r.last \in Nat /\ r = [of |-> r.of, last |-> r.last]
      /\ DOMAIN line = ids /\ DOMAIN r.of \subseteq ids
  BY DEF Books, RevsFit
<1>2. line2 \in Lines
  <2>1. Without(line, p) \in Partial(SeqIds, SeqIds \X Nat)
    BY PartialWithout DEF Lines
  <2>2. line[p] \in SeqIds \X Nat
    BY <1>1, PartialValue DEF Lines
  <2> HIDE DEF Without
  <2>3. With(Without(line, p), q, line[p]) \in Partial(SeqIds, SeqIds \X Nat)
    BY <2>1, <2>2, PartialWith
  <2> QED BY <2>3 DEF Lines
<1>3. DOMAIN line2 = (ids \ {p}) \cup {q} /\ line2[q] = line[p] /\ \A s \in ids \ {p} : line2[s] = line[s]
  BY <1>1 DEF With, Onto, Without, Restrict
<1>4. CASE p \in DOMAIN r.of
  <2> DEFINE of2 == With(Without(r.of, p), q, r.of[p])
  <2>1. of2 \in Partial(SeqIds, Nat)
    <3>1. Without(r.of, p) \in Partial(SeqIds, Nat)
      BY <1>1, PartialWithout
    <3>2. r.of[p] \in Nat
      BY <1>1, <1>4, PartialValue
    <3> QED BY <3>1, <3>2, PartialWith
  <2>2. DOMAIN of2 = (DOMAIN r.of \ {p}) \cup {q} /\ of2[q] = r.of[p]
    BY DEF With, Onto, Without, Restrict
  <2>3. \A s \in DOMAIN r.of \ {p} : of2[s] = r.of[s]
    BY <1>1 DEF With, Onto, Without, Restrict
  <2> HIDE DEF of2
  <2>4. r2 = [of |-> of2, last |-> r.last]
    BY <1>1, <1>4 DEF of2
  <2>5. r2 \in Books
    BY <1>1, <2>1, <2>4 DEF Books
  <2>6. \A s \in DOMAIN of2 : \E t \in DOMAIN r.of : r.of[t] = of2[s] /\ line[t] = line2[s]
    BY <1>1, <1>3, <1>4, <2>2, <2>3
  <2>7. \A s, t \in DOMAIN of2 : of2[s] = of2[t] => s = t
    <3> TAKE s, t \in DOMAIN of2
    <3>1. CASE s = q \/ t = q
      BY <1>4, <2>2, <2>3, <3>1 DEF RevsFit
    <3>2. CASE s # q /\ t # q
      BY <2>2, <2>3, <3>2 DEF RevsFit
    <3> QED BY <3>1, <3>2
  <2>8. \A s \in DOMAIN of2 : of2[s] \in 1 .. r.last
    BY <2>6 DEF RevsFit
  <2>9. \A s \in ((ids \ {p}) \cup {q}) \ DOMAIN of2 : line2[s][2] = 0
    BY <1>3, <2>2 DEF RevsFit
  <2>10. RevsFit((ids \ {p}) \cup {q}, r2, line2)
    BY <1>1, <1>3, <2>2, <2>4, <2>7, <2>8, <2>9 DEF RevsFit
  <2>11. RevsGoOn(r, line, r2, line2)
    BY <1>1, <2>4, <2>6 DEF RevsGoOn
  <2> QED BY <1>2, <2>5, <2>10, <2>11
<1>5. CASE p \notin DOMAIN r.of
  <2>1. r2 = r
    BY <1>5
  <2>2. \A s \in DOMAIN r.of : s \in ids \ {p} /\ line2[s] = line[s]
    BY <1>1, <1>3, <1>5
  <2>3. \A s \in ((ids \ {p}) \cup {q}) \ DOMAIN r.of : line2[s][2] = 0
    BY <1>3, <1>5 DEF RevsFit
  <2>4. RevsFit((ids \ {p}) \cup {q}, r, line2)
    BY <1>3, <2>2, <2>3 DEF RevsFit
  <2>5. RevsGoOn(r, line, r, line2)
    BY <1>1, <2>2 DEF RevsGoOn
  <2> QED BY <1>2, <2>1, <2>4, <2>5
<1> QED BY <1>4, <1>5

\* A sequence deleted.
LEMMA TakenOut ==
  ASSUME NEW ids, NEW r \in Books, NEW line \in Lines, RevsFit(ids, r, line), NEW q,
         NEW line2, line2 = Without(line, q),
         NEW r2, r2 = [r EXCEPT !.of = Without(@, q)]
  PROVE  /\ r2 \in Books /\ line2 \in Lines
         /\ RevsFit(ids \ {q}, r2, line2) /\ RevsGoOn(r, line, r2, line2)
<1>1. /\ r.of \in Partial(SeqIds, Nat) /\ r.last \in Nat /\ r = [of |-> r.of, last |-> r.last]
      /\ DOMAIN line = ids /\ DOMAIN r.of \subseteq ids
  BY DEF Books, RevsFit
<1> DEFINE of2 == Without(r.of, q)
<1>2. of2 \in Partial(SeqIds, Nat)
  BY <1>1, PartialWithout
<1>3. line2 \in Lines
  BY PartialWithout DEF Lines
<1>4. DOMAIN of2 = DOMAIN r.of \ {q} /\ \A s \in DOMAIN of2 : of2[s] = r.of[s]
  BY DEF Without, Restrict
<1>5. DOMAIN line2 = ids \ {q} /\ \A s \in ids \ {q} : line2[s] = line[s]
  BY <1>1 DEF Without, Restrict
<1> HIDE DEF of2
<1>6. r2 = [of |-> of2, last |-> r.last]
  BY <1>1 DEF of2
<1>7. r2 \in Books
  BY <1>1, <1>2, <1>6 DEF Books
<1>8. \A s \in (ids \ {q}) \ DOMAIN of2 : line2[s][2] = 0
  BY <1>4, <1>5 DEF RevsFit
<1>9. RevsFit(ids \ {q}, r2, line2)
  BY <1>1, <1>4, <1>5, <1>6, <1>8 DEF RevsFit
<1>10. RevsGoOn(r, line, r2, line2)
  BY <1>1, <1>4, <1>5, <1>6 DEF RevsGoOn
<1> QED BY <1>3, <1>7, <1>9, <1>10

\* The revs of sequences that came in, or whose action has changed.
NextRevs(r, W) == [q \in W |-> r.last + (IF q = "r" /\ "q" \in W THEN 2 ELSE 1)]
RevsWith(r, W) == [of |-> Onto(NextRevs(r, W), r.of), last |-> r.last + Cardinality(W)]
LinesWith(line, ids, W, n) == [q \in ids |-> IF q \in W THEN <<q, n>> ELSE line[q]]

\* Such sequences are others from then on.
LEMMA ComeIn ==
  ASSUME NEW ids, NEW r \in Books, NEW line \in Lines, RevsFit(ids, r, line), NEW n \in Nat,
         NEW ids2 \in SUBSET SeqIds, NEW W \in SUBSET ids2, ids2 = ids \cup W,
         NEW r2, r2 = RevsWith(r, W), NEW line2, line2 = LinesWith(line, ids2, W, n)
  PROVE  /\ r2 \in Books /\ line2 \in Lines
         /\ RevsFit(ids2, r2, line2) /\ RevsGoOn(r, line, r2, line2)
<1> USE DEF RevsWith, LinesWith
<1> DEFINE next == NextRevs(r, W)
<1>0. next = [q \in W |-> r.last + (IF q = "r" /\ "q" \in W THEN 2 ELSE 1)]
  BY DEF NextRevs
<1> HIDE DEF next
<1>1. /\ r.of \in Partial(SeqIds, Nat) /\ r.last \in Nat
      /\ DOMAIN line = ids /\ DOMAIN r.of \subseteq ids
  BY DEF Books, RevsFit
<1>2. /\ Cardinality(W) \in Nat
      /\ \A q \in W : next[q] \in r.last + 1 .. r.last + Cardinality(W)
      /\ \A q, p \in W : next[q] = next[p] => q = p
  <2>1. W \in {{}, {"q"}, {"r"}, {"q", "r"}}
    BY DEF SeqIds
  <2>2. Cardinality({}) = 0 /\ Cardinality({"q"}) = 1 /\ Cardinality({"r"}) = 1
    BY FS_EmptySet, FS_Singleton
  <2>3. Cardinality({"q", "r"}) = 2
    <3>1. IsFiniteSet({"q"}) /\ "r" \notin {"q"} /\ {"q", "r"} = {"q"} \cup {"r"}
      BY FS_Singleton
    <3>2. Cardinality({"q"} \cup {"r"}) = Cardinality({"q"}) + 1
      BY <3>1, FS_AddElement
    <3> QED BY <2>2, <3>1, <3>2
  <2>4. CASE W = {}
    BY <1>0, <1>1, <2>2, <2>4
  <2>5. CASE W = {"q"}
    BY <1>0, <1>1, <2>2, <2>5
  <2>6. CASE W = {"r"}
    BY <1>0, <1>1, <2>2, <2>6
  <2>7. CASE W = {"q", "r"}
    <3>1. next["q"] = r.last + 1 /\ next["r"] = r.last + 2
      BY <1>0, <2>7
    <3> QED BY <1>0, <1>1, <2>3, <2>7, <3>1
  <2> QED BY <2>1, <2>4, <2>5, <2>6, <2>7
<1> DEFINE of2 == Onto(next, r.of)
           last2 == r.last + Cardinality(W)
<1>3. DOMAIN next = W /\ next \in [W -> Nat]
  BY <1>0, <1>1, <1>2
<1>4. next \in Partial(SeqIds, Nat)
  BY <1>3, PartialFun
<1>5. of2 \in Partial(SeqIds, Nat)
  BY <1>1, <1>4, PartialOnto
<1>6. /\ DOMAIN of2 = W \cup DOMAIN r.of
      /\ \A q \in W : of2[q] = next[q]
      /\ \A q \in DOMAIN r.of \ W : of2[q] = r.of[q]
  BY <1>3 DEF Onto
<1>7. last2 \in Nat /\ r.last <= last2 /\ r2 = [of |-> of2, last |-> last2]
  BY <1>1, <1>2 DEF next
<1>8. \A q \in W : of2[q] \in r.last + 1 .. last2
  BY <1>2, <1>6
<1>9. \A q \in DOMAIN r.of \ W : of2[q] \in 1 .. r.last
  BY <1>6 DEF RevsFit
<1>10. \A q \in ids2 : line2[q] = IF q \in W THEN <<q, n>> ELSE line[q]
  OBVIOUS
<1>11. DOMAIN line2 = ids2
  OBVIOUS
<1>12. line2 \in Lines
  <2> DEFINE T == SeqIds \X Nat
  <2>1. \A q \in ids2 : line2[q] \in T
    BY <1>1, <1>10, PartialValue DEF Lines
  <2> HIDE DEF T
  <2>2. line2 \in [ids2 -> T]
    BY <2>1
  <2>3. line2 \in Partial(SeqIds, T)
    BY <2>2, PartialFun
  <2> QED BY <2>3 DEF Lines, T
<1> HIDE DEF of2, last2
<1>13. r2 \in Books
  BY <1>5, <1>7 DEF Books
<1>14. \A q, p \in DOMAIN of2 : of2[q] = of2[p] => q = p
  <2> TAKE q, p \in DOMAIN of2
  <2>1. CASE q \in W /\ p \in W
    BY <1>2, <1>6, <2>1
  <2>2. CASE q \notin W /\ p \notin W
    BY <1>6, <2>2 DEF RevsFit
  <2>3. CASE q \in W /\ p \notin W
    BY <1>1, <1>6, <1>7, <1>8, <1>9, <2>3
  <2>4. CASE q \notin W /\ p \in W
    BY <1>1, <1>6, <1>7, <1>8, <1>9, <2>4
  <2> QED BY <2>1, <2>2, <2>3, <2>4
<1>15. \A q \in DOMAIN of2 : of2[q] \in 1 .. last2
  BY <1>1, <1>6, <1>7, <1>8, <1>9
<1>16. \A q \in ids2 \ DOMAIN of2 : line2[q][2] = 0
  BY <1>6, <1>10 DEF RevsFit
<1>17. RevsFit(ids2, r2, line2)
  BY <1>1, <1>6, <1>7, <1>11, <1>14, <1>15, <1>16 DEF RevsFit
<1>18. RevsGoOn(r, line, r2, line2)
  <2>1. \A q \in W : of2[q] > r.last
    BY <1>1, <1>7, <1>8
  <2>2. \A q \in DOMAIN r.of \ W : of2[q] = r.of[q] /\ line[q] = line2[q]
    BY <1>1, <1>6, <1>10
  <2>3. \A q \in DOMAIN of2 :
          \/ of2[q] > r.last
          \/ \E p \in DOMAIN r.of : r.of[p] = of2[q] /\ line[p] = line2[q]
    BY <1>6, <2>1, <2>2
  <2>4. r2.of = of2 /\ r2.last = last2
    BY <1>7
  <2> QED BY <1>7, <2>3, <2>4 DEF RevsGoOn
<1> QED BY <1>12, <1>13, <1>17, <1>18

-----------------------------------------------------------------------------
\* Nothing moves on.
LEMMA Unmoved ==
  ASSUME NEW ids, NEW r \in Books, NEW line, RevsFit(ids, r, line)
  PROVE  RevsGoOn(r, line, r, line)
<1>1. r.last \in Nat
  BY DEF Books
<1> QED BY <1>1 DEF RevsGoOn

\* No run is any sequence's.
LEMMA NoneRan ==
  ASSUME NEW r \in Books, NEW line
  PROVE  Ran(NoCtlRun, r, line) /\ NoCtlRun \in CtlRuns
<1>1. r.last \in Nat
  BY DEF Books
<1> QED BY <1>1 DEF Ran, NoCtlRun, CtlRuns

\* An edit that goes through, or fails.
LEMMA CommitKeeps ==
  ASSUME LineagesInv, NEW l \in LibraryDocs, NEW r \in Books, NEW line \in Lines,
         RevsFit(DOMAIN l.seqs, r, line), RevsGoOn(revs, lineage, r, line),
         NEW ours, NEW away, commit(l, r, line, ours, away)
  PROVE  LineagesInv'
<1>1. /\ LibraryTyped /\ RevsFit(DOMAIN lib.seqs, revs, lineage) /\ Ran(lastRun, revs, lineage)
      /\ revs \in Books /\ lastRun \in CtlRuns
  BY DEF LineagesInv, LibraryTyped
<1>2. build' \in {1, 2} /\ libCount' \in [edits : Nat, launches : Nat]
  BY <1>1 DEF LibraryTyped, commit
<1>3. CASE UNCHANGED <<lib, saved, revs, lineage, lastRun, own, gone>>
  BY <1>1, <1>2, <1>3 DEF LibraryTyped, LineagesInv
<1>4. CASE /\ lib' = l /\ saved' = encodeControlLib(l, examples)
           /\ revs' = r /\ lineage' = line /\ dropStaleRun(l, r)
  <2>1. lib' \in LibraryDocs /\ saved'.lib \in LibraryDocs
    BY <1>4 DEF encodeControlLib
  <2>2. RevsFit(DOMAIN lib'.seqs, revs', lineage')
    BY <1>4
  <2>3. Ran(lastRun, r, line)
    BY <1>1, RanOn
  <2>4. lastRun' \in CtlRuns /\ Ran(lastRun', r, line)
    BY <1>1, <1>4, <2>3, NoneRan DEF dropStaleRun
  <2>5. Ran(lastRun', revs', lineage')
    BY <1>4, <2>4
  <2> QED BY <1>2, <1>4, <2>1, <2>2, <2>4, <2>5 DEF LineagesInv, LibraryTyped
<1> QED BY <1>3, <1>4 DEF commit

\* An action saved or renamed: the sequences stay what they are.
LEMMA OnSaveAction ==
  ASSUME LineagesInv, NEW a \in ActIds, NEW text \in {"old", "mine"}, NEW prev \in ActIds,
         saveAction(a, text, prev)
  PROVE  LineagesInv'
<1>1. /\ lib \in LibraryDocs /\ revs \in Books /\ lineage \in Lines
      /\ RevsFit(DOMAIN lib.seqs, revs, lineage)
  BY DEF LineagesInv, LibraryTyped
<1>2. PICK l, r, line, ours, away :
        l = ActionSaved(lib, a, text, prev) /\ r = revs /\ line = lineage /\ commit(l, r, line, ours, away)
  BY DEF saveAction
<1>3. l \in LibraryDocs /\ DOMAIN l.seqs = DOMAIN lib.seqs
  BY <1>1, <1>2, ActionSavedIs
<1>4. RevsFit(DOMAIN l.seqs, r, line)
  BY <1>1, <1>2, <1>3
<1>5. RevsGoOn(revs, lineage, r, line)
  BY <1>1, <1>2, Unmoved
<1> QED BY <1>1, <1>2, <1>3, <1>4, <1>5, CommitKeeps

\* An action deleted, which no sequence uses.
LEMMA OnDeleteAction ==
  ASSUME LineagesInv, NEW a \in ActIds, deleteAction(a)
  PROVE  LineagesInv'
<1>1. /\ lib \in LibraryDocs /\ revs \in Books /\ lineage \in Lines
      /\ RevsFit(DOMAIN lib.seqs, revs, lineage)
  BY DEF LineagesInv, LibraryTyped
<1>2. PICK l, r, line, ours, away :
        /\ l = [lib EXCEPT !.acts = Without(@, a)] /\ r = revs /\ line = lineage
        /\ commit(l, r, line, ours, away)
  BY DEF deleteAction
<1>3. l \in LibraryDocs /\ l.seqs = lib.seqs
  BY <1>1, <1>2, ActionDeletedIs
<1>4. RevsFit(DOMAIN l.seqs, r, line)
  BY <1>1, <1>2, <1>3
<1>5. RevsGoOn(revs, lineage, r, line)
  BY <1>1, <1>2, Unmoved
<1> QED BY <1>1, <1>2, <1>3, <1>4, <1>5, CommitKeeps

\* A sequence saved: made anew, under its id, or renamed.
LEMMA OnSaveSequence ==
  ASSUME LineagesInv, NEW q \in SeqIds, NEW step \in Steps, NEW prev \in SeqIds,
         saveSequence(q, step, prev)
  PROVE  LineagesInv'
<1>1. /\ lib \in LibraryDocs /\ revs \in Books /\ lineage \in Lines /\ libCount.edits \in Nat
      /\ RevsFit(DOMAIN lib.seqs, revs, lineage)
  BY DEF LineagesInv, LibraryTyped
<1> DEFINE new == prev \notin DOMAIN lib.seqs
           moved == IF prev # q /\ prev \in DOMAIN revs.of
                    THEN [revs EXCEPT !.of = With(Without(revs.of, prev), q, revs.of[prev])] ELSE revs
<1>2. PICK l, r, line, ours, away :
        /\ l = SequenceSaved(lib, q, step, prev) /\ r = (IF new THEN newRev(revs, q) ELSE moved)
        /\ line = With(Without(lineage, prev), q, IF new THEN Since(q) ELSE lineage[prev])
        /\ commit(l, r, line, ours, away)
  BY DEF saveSequence
<1>3. l \in LibraryDocs /\ DOMAIN l.seqs = (DOMAIN lib.seqs \ {prev}) \cup {q}
  BY <1>1, <1>2, SequenceSavedIs
<1>4. q = prev \/ q \notin DOMAIN lib.seqs
  BY DEF saveSequence, IdFree
<1>5. r \in Books /\ line \in Lines /\ RevsFit(DOMAIN l.seqs, r, line) /\ RevsGoOn(revs, lineage, r, line)
  <2>1. CASE new
    <3>1. q \notin DOMAIN lib.seqs /\ DOMAIN l.seqs = DOMAIN lib.seqs \cup {q}
      BY <1>3, <1>4, <2>1
    <3>2. Without(lineage, prev) = lineage
      <4>1. DOMAIN lineage \ {prev} = DOMAIN lineage
        BY <1>1, <2>1 DEF RevsFit
      <4>2. lineage = [k \in DOMAIN lineage |-> lineage[k]]
        BY <1>1, PartialValue DEF Lines
      <4> QED BY <4>1, <4>2 DEF Without, Restrict
    <3>3. r = newRev(revs, q) /\ line = With(lineage, q, Since(q))
      BY <1>2, <2>1, <3>2
    <3>4. Since(q) \in SeqIds \X Nat
      BY <1>1 DEF Since
    <3> HIDE DEF new, moved
    <3> QED BY <1>1, <3>1, <3>3, <3>4, MadeAnew
  <2>2. CASE ~new /\ prev = q
    <3>1. q \in DOMAIN lib.seqs /\ DOMAIN l.seqs = DOMAIN lib.seqs
      BY <1>3, <2>2
    <3>2. r = revs /\ line = With(Without(lineage, q), q, lineage[q])
      BY <1>2, <2>2
    <3> HIDE DEF new, moved
    <3> QED BY <1>1, <3>1, <3>2, SavedAgain
  <2>3. CASE ~new /\ prev # q
    <3>1. /\ prev \in DOMAIN lib.seqs /\ q \notin DOMAIN lib.seqs
      BY <1>4, <2>3
    <3>2. /\ line = With(Without(lineage, prev), q, lineage[prev])
          /\ r = IF prev \in DOMAIN revs.of
                 THEN [revs EXCEPT !.of = With(Without(revs.of, prev), q, revs.of[prev])] ELSE revs
      BY <1>2, <2>3
    <3> HIDE DEF new, moved
    <3>3. RevsFit((DOMAIN lib.seqs \ {prev}) \cup {q}, r, line) /\ r \in Books /\ line \in Lines
          /\ RevsGoOn(revs, lineage, r, line)
      BY <1>1, <3>1, <3>2, MovedOn
    <3> QED BY <1>3, <3>3
  <2> QED BY <2>1, <2>2, <2>3
<1> HIDE DEF new, moved
<1> QED BY <1>2, <1>3, <1>5, CommitKeeps

\* A sequence deleted, and its rev with it.
LEMMA OnDeleteSequence ==
  ASSUME LineagesInv, NEW q \in SeqIds, deleteSequence(q)
  PROVE  LineagesInv'
<1>1. /\ lib \in LibraryDocs /\ revs \in Books /\ lineage \in Lines
      /\ RevsFit(DOMAIN lib.seqs, revs, lineage)
  BY DEF LineagesInv, LibraryTyped
<1>2. PICK l, r, line, ours, away :
        /\ l = [lib EXCEPT !.seqs = Without(@, q)] /\ r = [revs EXCEPT !.of = Without(@, q)]
        /\ line = Without(lineage, q) /\ commit(l, r, line, ours, away)
  BY DEF deleteSequence
<1>3. l \in LibraryDocs /\ DOMAIN l.seqs = DOMAIN lib.seqs \ {q}
  BY <1>1, <1>2, SequenceDeletedIs
<1>4. /\ r \in Books /\ line \in Lines
      /\ RevsFit(DOMAIN lib.seqs \ {q}, r, line) /\ RevsGoOn(revs, lineage, r, line)
  <2>1. line = Without(lineage, q) /\ r = [revs EXCEPT !.of = Without(@, q)]
    BY <1>2
  <2>2. PICK ids : ids = DOMAIN lib.seqs
    OBVIOUS
  <2>3. RevsFit(ids, revs, lineage)
    BY <1>1, <2>2
  <2>4. /\ r \in Books /\ line \in Lines
        /\ RevsFit(ids \ {q}, r, line) /\ RevsGoOn(revs, lineage, r, line)
    BY <1>1, <2>1, <2>3, TakenOut
  <2> QED BY <2>2, <2>4
<1>5. RevsFit(DOMAIN l.seqs, r, line)
  BY <1>3, <1>4
<1> QED BY <1>2, <1>3, <1>4, <1>5, CommitKeeps

\* What comes in has revs after all the others.
LEMMA OnMerge ==
  ASSUME LineagesInv, NEW doc \in LibraryDocs, NEW ours, NEW away, merge(doc, ours, away)
  PROVE  LineagesInv'
<1>1. /\ lib \in LibraryDocs /\ revs \in Books /\ lineage \in Lines /\ libCount.edits \in Nat
      /\ RevsFit(DOMAIN lib.seqs, revs, lineage)
  BY DEF LineagesInv, LibraryTyped
<1>2. PICK l, W, n, r, line :
        /\ l = Merged(lib, doc) /\ W = Affected(doc, l) /\ n = libCount.edits + 1
        /\ r = RevsWith(revs, W) /\ line = LinesWith(lineage, DOMAIN l.seqs, W, n)
        /\ commit(l, r, line, ours, away)
  BY DEF merge, Renewed, Since, RevsWith, NextRevs, LinesWith
<1>3. l \in LibraryDocs /\ DOMAIN l.seqs = DOMAIN doc.seqs \cup DOMAIN lib.seqs
  BY <1>1, <1>2, MergedIs
<1>4. DOMAIN l.seqs \in SUBSET SeqIds
  <2>1. l.seqs \in Partial(SeqIds, Steps)
    BY <1>3 DEF LibraryDocs
  <2> QED BY <2>1, PartialValue
<1>5. W \in SUBSET DOMAIN l.seqs /\ DOMAIN l.seqs = DOMAIN lib.seqs \cup W
  BY <1>2, <1>3 DEF Affected
<1>6. n \in Nat
  BY <1>1, <1>2
<1>7. /\ r \in Books /\ line \in Lines
      /\ RevsFit(DOMAIN l.seqs, r, line) /\ RevsGoOn(revs, lineage, r, line)
  <2> DEFINE ids2 == DOMAIN l.seqs
  <2>1. /\ ids2 \in SUBSET SeqIds /\ W \in SUBSET ids2 /\ ids2 = DOMAIN lib.seqs \cup W
        /\ line = LinesWith(lineage, ids2, W, n)
    BY <1>2, <1>4, <1>5
  <2> HIDE DEF ids2
  <2>3. r = RevsWith(revs, W)
    BY <1>2
  <2>4. PICK ids : ids = DOMAIN lib.seqs
    OBVIOUS
  <2>5. RevsFit(ids, revs, lineage) /\ ids2 = ids \cup W
    BY <1>1, <2>1, <2>4
  <2>2. r \in Books /\ line \in Lines /\ RevsFit(ids2, r, line) /\ RevsGoOn(revs, lineage, r, line)
    BY <1>1, <1>6, <2>1, <2>3, <2>5, ComeIn
  <2> QED BY <2>2 DEF ids2
<1> QED BY <1>2, <1>3, <1>7, CommitKeeps

\* An import.
LEMMA OnLibRequest ==
  ASSUME LineagesInv, handleLibRequest
  PROVE  LineagesInv'
<1>1. PICK doc \in Docs : merge(doc, Onto(Contents(doc), own), gone \ DOMAIN Contents(doc))
  BY DEF handleLibRequest
<1>2. PICK ours, away : merge(doc, ours, away)
  BY <1>1
<1>3. doc \in LibraryDocs
  BY DocsAre
<1> QED BY <1>2, <1>3, OnMerge

\* The examples put back.
LEMMA OnRestoreExamples ==
  ASSUME LineagesInv, restoreExamples
  PROVE  LineagesInv'
<1>1. PICK doc, ours, away : doc = Shipped(build) /\ merge(doc, ours, away)
  BY DEF restoreExamples
<1>2. doc \in LibraryDocs
  BY <1>1, ShippedIs DEF LineagesInv, LibraryTyped
<1> QED BY <1>1, <1>2, OnMerge

\* The examples recorded before that.
LEMMA OnRecordExamples ==
  ASSUME LineagesInv, recordExamples
  PROVE  LineagesInv'
BY DEF recordExamples, LineagesInv, LibraryTyped

\* Loaded, the library has no revs.
LEMMA LoadedFits ==
  ASSUME NEW l \in LibraryDocs
  PROVE  /\ [of |-> << >>, last |-> 0] \in Books /\ Loaded(l) \in Lines
         /\ RevsFit(DOMAIN l.seqs, [of |-> << >>, last |-> 0], Loaded(l))
<1>1. DOMAIN << >> = {} /\ << >> \in [{} -> Nat]
  OBVIOUS
<1>2. << >> \in Partial(SeqIds, Nat)
  BY <1>1, PartialFun
<1>3. [of |-> << >>, last |-> 0] \in Books
  BY <1>2 DEF Books
<1>4. DOMAIN l.seqs \in SUBSET SeqIds
  BY PartialValue DEF LibraryDocs
<1> DEFINE T == SeqIds \X Nat
<1>5. \A q \in DOMAIN l.seqs : Loaded(l)[q] \in T /\ Loaded(l)[q][2] = 0
  BY <1>4 DEF Loaded
<1> HIDE DEF T
<1>6. Loaded(l) \in [DOMAIN l.seqs -> T]
  BY <1>5 DEF Loaded
<1>7. Loaded(l) \in Partial(SeqIds, T)
  BY <1>4, <1>6, PartialFun
<1>8. DOMAIN Loaded(l) = DOMAIN l.seqs
  BY DEF Loaded
<1>9. RevsFit(DOMAIN l.seqs, [of |-> << >>, last |-> 0], Loaded(l))
  BY <1>1, <1>5, <1>8 DEF RevsFit
<1> QED BY <1>3, <1>7, <1>9 DEF Lines, T

\* Loaded, nothing has a rev, and nothing has run.
LEMMA OnOpenControlLibrary ==
  ASSUME LineagesInv, NEW b \in {1, 2}, openControlLibrary(b)
  PROVE  LineagesInv'
<1> DEFINE s == Shipped(b)
           up == [acts |-> upgradeControlExamples(saved.lib.acts, saved.rec, s.acts),
                  seqs |-> upgradeControlExamples(saved.lib.seqs, saved.rec, s.seqs)]
<1>1. saved.lib \in LibraryDocs /\ s \in LibraryDocs /\ libCount \in [edits : Nat, launches : Nat]
  BY ShippedIs DEF LineagesInv, LibraryTyped
<1>2. up \in LibraryDocs
  <2> DEFINE Texts == {"old", "new", "mine"}
             as == upgradeControlExamples(saved.lib.acts, saved.rec, s.acts)
             qs == upgradeControlExamples(saved.lib.seqs, saved.rec, s.seqs)
  <2>1. /\ saved.lib.acts \in Partial(ActIds, Texts) /\ s.acts \in Partial(ActIds, Texts)
        /\ saved.lib.seqs \in Partial(SeqIds, Steps) /\ s.seqs \in Partial(SeqIds, Steps)
    BY <1>1 DEF LibraryDocs
  <2>2. as \in Partial(ActIds, Texts)
    <3> HIDE DEF Texts, s
    <3> QED BY <2>1, UpgradedIs
  <2>3. qs \in Partial(SeqIds, Steps)
    <3> HIDE DEF s
    <3> QED BY <2>1, UpgradedIs
  <2> HIDE DEF as, qs
  <2>4. [acts |-> as, seqs |-> qs] \in LibraryDocs
    BY <2>2, <2>3 DEF LibraryDocs
  <2> QED BY <2>4 DEF as, qs
<1>3. /\ build' \in {1, 2} /\ libCount' \in [edits : Nat, launches : Nat]
      /\ lastRun' = NoCtlRun /\ revs' = [of |-> << >>, last |-> 0]
  BY <1>1 DEF openControlLibrary
<1>4. lib' \in {s, saved.lib, up} /\ lineage' = Loaded(lib') /\ saved'.lib \in {s, saved.lib, lib'}
  BY DEF openControlLibrary, StartsAnew, NoFile, encodeControlLib
<1> HIDE DEF s, up
<1>5. lib' \in LibraryDocs /\ saved'.lib \in LibraryDocs
  BY <1>1, <1>2, <1>4
<1>6. /\ revs' \in Books /\ lineage' \in Lines
      /\ RevsFit(DOMAIN lib'.seqs, revs', lineage')
  <2>1. PICK l \in LibraryDocs : l = lib'
    BY <1>5
  <2> QED BY <1>3, <1>4, <2>1, LoadedFits
<1>7. lastRun' \in CtlRuns /\ Ran(lastRun', revs', lineage')
  BY <1>3, <1>6, NoneRan
<1> QED BY <1>3, <1>5, <1>6, <1>7 DEF LineagesInv, LibraryTyped

\* A run is of the sequence that is there, by its rev.
LEMMA OnCompile ==
  ASSUME LineagesInv, NEW q \in SeqIds, compile(q)
  PROVE  LineagesInv'
<1>1. /\ lib \in LibraryDocs /\ revs \in Books /\ lineage \in Lines
      /\ RevsFit(DOMAIN lib.seqs, revs, lineage)
  BY DEF LineagesInv, LibraryTyped
<1> DEFINE run == [seq |-> q, rev |-> seqRev(revs, q), of |-> lineage[q], going |-> TRUE]
<1>2. revs.last \in Nat /\ revs.of \in Partial(SeqIds, Nat)
  BY <1>1 DEF Books
<1>3. q \in DOMAIN lineage
  BY <1>1 DEF compile, RevsFit
<1>4. lineage[q] \in SeqIds \X Nat
  BY <1>1, <1>3, PartialValue DEF Lines
<1>5. seqRev(revs, q) \in 0 .. revs.last
  BY <1>1, <1>2 DEF seqRev, RevsFit
<1>6. run \in CtlRuns
  <2>1. lineage[q] \in (SeqIds \cup {"none"}) \X Nat
    BY <1>4
  <2>2. seqRev(revs, q) \in Nat
    BY <1>2, <1>5
  <2> QED BY <2>1, <2>2 DEF CtlRuns
<1>7. Ran(run, revs, lineage)
  <2>1. ASSUME seqRev(revs, q) > 0, NEW p \in DOMAIN revs.of, revs.of[p] = seqRev(revs, q)
        PROVE  p = q
    BY <1>1, <2>1 DEF seqRev, RevsFit
  <2>2. ASSUME seqRev(revs, q) = 0
        PROVE  lineage[q][2] = 0
    BY <1>1, <1>2, <1>3, <2>2 DEF seqRev, RevsFit
  <2> QED BY <1>2, <1>5, <2>1, <2>2 DEF Ran
<1> HIDE DEF run
<1>8. lastRun' = run
  BY DEF compile, run
<1> QED BY <1>6, <1>7, <1>8 DEF compile, LineagesInv, LibraryTyped

\* A run that is over is still of that sequence.
LEMMA OnRunIsOver ==
  ASSUME LineagesInv, RunIsOver
  PROVE  LineagesInv'
<1>1. lastRun \in CtlRuns /\ revs \in Books
  BY DEF LineagesInv, LibraryTyped
<1>2. lastRun' \in CtlRuns /\ lastRun'.rev = lastRun.rev /\ lastRun'.of = lastRun.of
  BY <1>1 DEF RunIsOver, CtlRuns
<1>3. Ran(lastRun', revs, lineage)
  BY <1>2 DEF LineagesInv, Ran
<1> QED BY <1>2, <1>3 DEF RunIsOver, LineagesInv, LibraryTyped

\* As the library is loaded first.
LEMMA LineagesAtFirst == ASSUME ControlLibraryInit PROVE LineagesInv
<1>1. Shipped(1) \in LibraryDocs /\ lib = Shipped(1)
  BY ShippedIs DEF ControlLibraryInit
<1>2. saved.lib = Shipped(1)
  BY DEF ControlLibraryInit, NoFile
<1>3. /\ revs \in Books /\ lineage \in Lines
      /\ RevsFit(DOMAIN lib.seqs, revs, lineage)
  BY <1>1, LoadedFits DEF ControlLibraryInit
<1>4. lastRun \in CtlRuns /\ Ran(lastRun, revs, lineage)
  BY <1>3, NoneRan DEF ControlLibraryInit
<1> QED BY <1>1, <1>2, <1>3, <1>4 DEF ControlLibraryInit, LineagesInv, LibraryTyped

\* Nothing else touches the library.
LEMMA LineagesStay == ASSUME LineagesInv, UNCHANGED ctlLibVars PROVE LineagesInv'
BY DEF LineagesInv, LibraryTyped, ctlLibVars

\* Every operation on the library.
LEMMA LineagesStep == ASSUME LineagesInv, ControlLibraryNext PROVE LineagesInv'
<1>1. SavedSteps \subseteq Steps
  BY DEF SavedSteps, Steps, Step, ActIds
<1> QED BY <1>1, OnSaveAction, OnDeleteAction, OnSaveSequence, OnDeleteSequence, OnCompile,
         OnLibRequest, OnRecordExamples, OnRestoreExamples, OnOpenControlLibrary, OnRunIsOver
       DEF ControlLibraryNext

\* The run is of the sequence it says, whichever is there under the name now.
LEMMA LineagesTell == ASSUME LineagesInv PROVE RunIsItsOwn
<1> DEFINE q == lastRun.seq
<1>1. /\ revs \in Books /\ lineage \in Lines /\ lastRun \in CtlRuns
      /\ RevsFit(DOMAIN lib.seqs, revs, lineage) /\ Ran(lastRun, revs, lineage)
  BY DEF LineagesInv, LibraryTyped
<1> SUFFICES ASSUME q \in DOMAIN lib.seqs, seqRev(revs, q) = lastRun.rev
             PROVE  \/ lineage[q] = lastRun.of
                    \/ /\ lineage[q][2] = 0 /\ lastRun.of[2] = 0
                       /\ lineage[q][1] # q \/ lastRun.of[1] # q
  BY DEF RunIsItsOwn
<1>2. CASE q \in DOMAIN revs.of
  <2>1. revs.of[q] = lastRun.rev /\ revs.of[q] > 0
    BY <1>1, <1>2 DEF seqRev, RevsFit
  <2> QED BY <1>1, <1>2, <2>1 DEF Ran
<1>3. CASE q \notin DOMAIN revs.of
  <2>1. lineage[q][2] = 0 /\ lastRun.of[2] = 0
    BY <1>1, <1>3 DEF seqRev, RevsFit, Ran
  <2>2. lineage[q] \in SeqIds \X Nat
    BY <1>1, PartialValue DEF Lines, RevsFit
  <2>3. lastRun.of \in (SeqIds \cup {"none"}) \X Nat
    BY <1>1 DEF CtlRuns
  <2>4. lineage[q] = <<lineage[q][1], lineage[q][2]>> /\ lastRun.of = <<lastRun.of[1], lastRun.of[2]>>
    BY <2>2, <2>3
  <2> QED BY <2>1, <2>4
<1> QED BY <1>2, <1>3

-----------------------------------------------------------------------------
(***************************************************************************)
(* What the services that hosts share promise, proved.                     *)
(***************************************************************************)
\* Slopspaces move while the other services stay as they started, and stay
\* while one of those moves.
LEMMA SlopspacesInvariant == SharedSpec => []SlopspacesInv
<1>1. SharedInit => SlopspacesInv
  BY SlopspacesAtFirst DEF SharedInit
<1>2. SlopspacesInv /\ [SharedNext]_sharedVars => SlopspacesInv'
  <2> SUFFICES ASSUME SlopspacesInv, [SharedNext]_sharedVars PROVE SlopspacesInv'
    OBVIOUS
  <2>1. CASE SlopspaceFilesNext
    BY <2>1, SlopspacesStep
  <2>2. CASE UNCHANGED slopFileVars
    BY <2>2, SlopspacesStay
  <2>3. SlopspaceFilesNext \/ UNCHANGED slopFileVars
    BY DEF SharedNext, sharedVars
  <2> QED BY <2>1, <2>2, <2>3
<1> QED BY <1>1, <1>2, PTL DEF SharedSpec

\* So do a sequence's operations on other nodes.
LEMMA NodesInvariant == SharedSpec => []NodesInv
<1>1. SharedInit => NodesInv
  BY NodesAtFirst DEF SharedInit
<1>2. NodesInv /\ [SharedNext]_sharedVars => NodesInv'
  <2> SUFFICES ASSUME NodesInv, [SharedNext]_sharedVars PROVE NodesInv'
    OBVIOUS
  <2>1. CASE NodeRequestsNext
    BY <2>1, NodesStep
  <2>2. CASE UNCHANGED nodeVars
    BY <2>2, NodesStay
  <2>3. NodeRequestsNext \/ UNCHANGED nodeVars
    BY DEF SharedNext, sharedVars
  <2> QED BY <2>1, <2>2, <2>3
<1> QED BY <1>1, <1>2, PTL DEF SharedSpec

\* And so does the library of control sequences.
LEMMA LineagesInvariant == SharedSpec => []LineagesInv
<1>1. SharedInit => LineagesInv
  BY LineagesAtFirst DEF SharedInit
<1>2. LineagesInv /\ [SharedNext]_sharedVars => LineagesInv'
  <2> SUFFICES ASSUME LineagesInv, [SharedNext]_sharedVars PROVE LineagesInv'
    OBVIOUS
  <2>1. CASE ControlLibraryNext
    BY <2>1, LineagesStep
  <2>2. CASE UNCHANGED ctlLibVars
    BY <2>2, LineagesStay
  <2>3. ControlLibraryNext \/ UNCHANGED ctlLibVars
    BY DEF SharedNext, sharedVars
  <2> QED BY <2>1, <2>2, <2>3
<1> QED BY <1>1, <1>2, PTL DEF SharedSpec

\* For any number of slopspaces, operations of the panel, failures and stops:
\* while no two calls of the slopspace manager (dungeon-keeper/pkg/slopspace)
\* have overlapped and none was cut off between its move and its metadata, a
\* slopspace has its own tree, where its metadata says, the marker names it
\* there, no agent can reach a .git, and the agent of a turn keeps the
\* slopspace it was sent to.
THEOREM SlopspacesAreIntact == SharedSpec => []SlopspacesIntact
BY SlopspacesInvariant, SlopspacesInvIntact, PTL

\* For any number of requests, of failures on the way, of edits and of
\* launches: what an operation on a node (local-representative/controlnodes.go)
\* gets is for the request it made and of the kind it asked, a node is taken
\* to have come anew only if it has, and a run of the control library
\* (controllib.go) is not taken for one of another sequence made later under
\* its name.
THEOREM AnswersAreOnesOwn == SharedSpec => []AnswersAreTheirOwn
<1>1. NodesInv => AnswersAreTheirs
  BY DEF NodesInv
<1>2. LineagesInv => RunIsItsOwn
  BY LineagesTell
<1>3. NodesInv /\ LineagesInv => AnswersAreTheirOwn
  BY <1>1, <1>2 DEF AnswersAreTheirOwn
<1> QED BY <1>3, NodesInvariant, LineagesInvariant, PTL
=============================================================================
