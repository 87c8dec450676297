--------------------------- MODULE SlopspaceFiles ---------------------------
(***************************************************************************)
(* Slopspaces as directories (dungeon-keeper/pkg/slopspace), moved by      *)
(* condoccer's turn of a condoc, by the worker tab's panel (slopctl.go)    *)
(* and by the worker, each in a process or goroutine of its own.  A call   *)
(* of the manager is a few renames and writes, and others come in between  *)
(* or the process stops.  The `slopspace` command line makes the same      *)
(* calls as the panel without its checks, and is left out.                 *)
(***************************************************************************)
EXTENDS Naturals, Services

CONSTANTS MaxSpaces,   \* slopspaces; 1 is the condoc's
          MaxClicks,   \* operations of the panel, Resubmits
          MaxHalts     \* failures and stops

ASSUME SlopspaceFilesAssumption ==
    MaxSpaces \in Nat \ {0} /\ MaxClicks \in Nat /\ MaxHalts \in Nat

VARIABLES stored, \* slopspace -> its directory
          path,   \* what is at the deploy path: readspaces, writespaces, marker
          hands,  \* who -> the call it is in, how far
          turn,   \* condoccer's turn: the stage, the metadata it read, an error
          signal, \* the turn's and the panel's slopspace signals
          agent,  \* what the worker does, and with which slopspace
          amiss,  \* history: calls that overlapped, or were cut off half way
          clicks, halts

slopFileVars == <<stored, path, hands, turn, signal, agent, amiss, clicks, halts>>

Spaces == 1 .. MaxSpaces
Hands == {"panel", "turn", "worker"}
Idle == [op |-> "none", at |-> "none", id |-> 0]
NoSpace == [meta |-> "none", root |-> FALSE, read |-> FALSE, tree |-> 0, git |-> "none"]

SlopspaceFilesTypeOK ==
    /\ stored \in [Spaces -> [meta : {"none", "stored", "deployed"}, root : BOOLEAN,
                              read : BOOLEAN, tree : 0 .. MaxSpaces,
                              git : {"none", "secure", "tree"}]]
    /\ path \in [read : BOOLEAN, tree : 0 .. MaxSpaces, marker : 0 .. MaxSpaces]
    /\ \A h \in Hands :
           /\ hands[h].op \in {"none", "create", "deploy", "return", "delete", "write", "add"}
           /\ hands[h].at \in {"none", "clear", "move", "mark", "restore", "save", "remove",
                               "open", "close", "copy", "secure"}
           /\ hands[h].id \in 0 .. MaxSpaces
    /\ turn \in [stage : {"queued", "synced", "deployed", "signalled", "returned", "over"},
                 deployed : BOOLEAN, error : BOOLEAN]
    /\ signal \in [{"turn", "command"} -> {"none", "pending", "processing", "done"}]
    /\ agent \in [at : {"none", "taken", "made", "running", "ended", "dead"}, id : 0 .. MaxSpaces,
                  own : BOOLEAN, for : {"turn", "command"}]
    /\ amiss \in [overlapped : BOOLEAN, cut : BOOLEAN, raced : BOOLEAN]
    /\ clicks \in 0 .. MaxClicks /\ halts \in 0 .. MaxHalts

NoAgent == [at |-> "none", id |-> 0, own |-> FALSE, for |-> "turn"]

\* The condoc's slopspace, and others that the panel has made.
SlopspaceFilesInit ==
    /\ \E there \in SUBSET Spaces :
         /\ 1 \in there
         /\ stored = [i \in Spaces |->
                        IF i \in there THEN [meta |-> "stored", root |-> TRUE, read |-> TRUE,
                                            tree |-> i, git |-> "secure"]
                        ELSE NoSpace]
    /\ path = [read |-> FALSE, tree |-> 0, marker |-> 0]
    /\ hands = [h \in Hands |-> Idle]
    /\ turn = [stage |-> "queued", deployed |-> FALSE, error |-> FALSE]
    /\ signal = [k \in {"turn", "command"} |-> "none"]
    /\ agent = NoAgent
    /\ amiss = [overlapped |-> FALSE, cut |-> FALSE, raced |-> FALSE]
    /\ clicks = 0 /\ halts = 0

Halts == halts < MaxHalts /\ halts' = halts + 1
Whole == UNCHANGED halts
Busy(h) == hands[h].op # "none"

\* A call begins, past the checks of whoever makes it.  A turn syncs its
\* targets, and a worker creates its slopspace, between looking at the deploy
\* path and deploying: that counts as one call.
Under(h) ==
    \/ Busy(h)
    \/ h = "turn" /\ turn.stage = "synced"
    \/ h = "worker" /\ agent.at = "made"

Call(h, what, at, id) ==
    /\ hands' = [hands EXCEPT ![h] = [op |-> what, at |-> at, id |-> id]]
    /\ amiss' = [amiss EXCEPT !.overlapped = @ \/ \E o \in Hands \ {h} : Under(o)]

Goes(h, at) == hands' = [hands EXCEPT ![h].at = at]

\* What a call that has ended means to its caller.
Returned(h, ok) ==
    /\ hands' = [hands EXCEPT ![h] = Idle]
    /\ turn' = IF h # "turn" THEN turn
               ELSE IF ~ok THEN [turn EXCEPT !.error = TRUE,
                                     !.stage = IF @ = "synced" THEN "queued" ELSE @]
               ELSE [turn EXCEPT !.stage = CASE @ = "queued" -> "synced"
                                             [] @ = "synced" -> "deployed"
                                             [] @ = "signalled" -> "returned"
                                             [] @ = "returned" -> "over"]
    /\ agent' = IF h # "worker" THEN agent
                ELSE [agent EXCEPT !.at = IF agent.at = "ended" \/ ~ok THEN "ended"
                                          ELSE IF hands[h].op = "create" THEN "made" ELSE "running",
                                   !.own = ok /\ @ /\ agent.at # "ended"]

\* Trees that are removed take a .git left in them along.
Destroyed(spaces, trees) ==
    [i \in Spaces |-> IF i \in trees /\ spaces[i].git = "tree"
                      THEN [spaces[i] EXCEPT !.git = "none"] ELSE spaces[i]]

-----------------------------------------------------------------------------
\* Create: the directories, then the metadata; without it List passes over
\* them and Get fails.
SaveNew(h) ==
    LET i == hands[h].id IN
    /\ hands[h].op = "create" /\ hands[h].at = "save"
    /\ \/ /\ stored' = [stored EXCEPT ![i].meta = "stored"] /\ Returned(h, TRUE) /\ Whole
       \/ Halts /\ Returned(h, FALSE) /\ UNCHANGED stored
    /\ UNCHANGED <<path, signal, amiss, clicks>>

MakeNew(h, i) ==
    /\ ~stored[i].root /\ \A o \in Hands : hands[o].id # i
    /\ stored' = [stored EXCEPT ![i] = [NoSpace EXCEPT !.root = TRUE, !.read = TRUE, !.tree = i]]
    /\ Call(h, "create", "save", i)

\* Deploy: clear the path, move both spaces in (or, if the second does not
\* move, the first back), write the marker, write the metadata read first.
DeployClear(h) ==
    /\ hands[h].op = "deploy" /\ hands[h].at = "clear"
    /\ \/ /\ stored[hands[h].id].meta = "stored"
          /\ path' = [path EXCEPT !.read = FALSE, !.tree = 0]
          /\ stored' = Destroyed(stored, {path.tree})
          /\ Goes(h, "move") /\ UNCHANGED <<turn, agent>>
       \/ /\ stored[hands[h].id].meta # "stored"
          /\ Returned(h, FALSE) /\ UNCHANGED <<stored, path>>
    /\ Whole /\ UNCHANGED <<signal, amiss, clicks>>

DeployMove(h) ==
    LET i == hands[h].id
        can == stored[i].read /\ stored[i].tree # 0 /\ path.tree = 0 /\ ~path.read IN
    /\ hands[h].op = "deploy" /\ hands[h].at = "move"
    /\ \/ /\ can
          /\ path' = [path EXCEPT !.read = TRUE, !.tree = stored[i].tree]
          /\ stored' = [stored EXCEPT ![i].read = FALSE, ![i].tree = 0]
          /\ Goes(h, "mark") /\ Whole /\ UNCHANGED <<turn, agent>>
       \/ /\ (~can /\ Whole) \/ Halts
          /\ Returned(h, FALSE) /\ UNCHANGED <<path, stored>>
    /\ UNCHANGED <<signal, amiss, clicks>>

CutOff == amiss' = [amiss EXCEPT !.cut = TRUE]

DeployMark(h) ==
    /\ hands[h].op = "deploy" /\ hands[h].at = "mark"
    /\ \/ /\ path' = [path EXCEPT !.marker = hands[h].id]
          /\ Goes(h, "save") /\ Whole /\ UNCHANGED <<turn, agent, amiss>>
       \/ Halts /\ CutOff /\ Returned(h, FALSE) /\ UNCHANGED path
    /\ UNCHANGED <<stored, signal, clicks>>

DeploySave(h) ==
    LET i == hands[h].id IN
    /\ hands[h].op = "deploy" /\ hands[h].at = "save"
    /\ \/ /\ stored[i].root
          /\ stored' = [stored EXCEPT ![i].meta = "deployed"]
          /\ Returned(h, TRUE) /\ Whole /\ UNCHANGED amiss
       \/ /\ (~stored[i].root /\ Whole) \/ Halts
          /\ CutOff /\ Returned(h, FALSE) /\ UNCHANGED stored
    /\ UNCHANGED <<path, signal, clicks>>

\* Return: discard the readspaces, and what is where the writespaces go; move
\* them; make readspaces anew and remove the marker; write the metadata.
ReturnClear(h) ==
    LET i == hands[h].id IN
    /\ hands[h].op \in {"return", "delete"} /\ hands[h].at = "clear"
    /\ \/ /\ stored[i].meta = "deployed"
          /\ path' = [path EXCEPT !.read = FALSE]
          /\ stored' = [Destroyed(stored, {stored[i].tree}) EXCEPT ![i].tree = 0]
          /\ Goes(h, "move") /\ UNCHANGED <<turn, agent>>
       \/ stored[i].meta # "deployed" /\ Returned(h, FALSE) /\ UNCHANGED <<path, stored>>
    /\ Whole /\ UNCHANGED <<signal, amiss, clicks>>

ReturnMove(h) ==
    LET i == hands[h].id
        can == path.tree # 0 /\ stored[i].root /\ stored[i].tree = 0 IN
    /\ hands[h].op \in {"return", "delete"} /\ hands[h].at = "move"
    /\ \/ /\ can
          /\ stored' = [stored EXCEPT ![i].tree = path.tree]
          /\ path' = [path EXCEPT !.tree = 0]
          /\ Goes(h, "restore") /\ Whole /\ UNCHANGED <<turn, agent>>
       \/ /\ (~can /\ Whole) \/ Halts
          /\ Returned(h, FALSE) /\ UNCHANGED <<path, stored>>
    /\ UNCHANGED <<signal, amiss, clicks>>

ReturnRestore(h) ==
    /\ hands[h].op \in {"return", "delete"} /\ hands[h].at = "restore"
    /\ \/ /\ stored' = [stored EXCEPT ![hands[h].id].read = TRUE]
          /\ path' = [path EXCEPT !.marker = 0]
          /\ Goes(h, "save") /\ Whole /\ UNCHANGED <<turn, agent, amiss>>
       \/ Halts /\ CutOff /\ Returned(h, FALSE) /\ UNCHANGED <<path, stored>>
    /\ UNCHANGED <<signal, clicks>>

ReturnSave(h) ==
    LET i == hands[h].id IN
    /\ hands[h].op \in {"return", "delete"} /\ hands[h].at = "save"
    /\ \/ /\ stored[i].root
          /\ stored' = [stored EXCEPT ![i].meta = "stored"]
          /\ IF hands[h].op = "delete" THEN Goes(h, "remove") /\ UNCHANGED <<turn, agent>>
             ELSE Returned(h, TRUE)
          /\ Whole /\ UNCHANGED amiss
       \/ /\ (~stored[i].root /\ Whole) \/ Halts
          /\ CutOff /\ Returned(h, FALSE) /\ UNCHANGED stored
    /\ UNCHANGED <<path, signal, clicks>>

\* Delete, after the Return of one that is deployed.
DeleteRemove(h) ==
    /\ hands[h].op = "delete" /\ hands[h].at = "remove"
    /\ stored' = [stored EXCEPT ![hands[h].id] = NoSpace]
    /\ Returned(h, TRUE) /\ Whole
    /\ UNCHANGED <<path, signal, amiss, clicks>>

\* WriteRepoChanges and SyncRepo: the .git comes out of writespaces-secure,
\* git runs and may fail, and whatever happened it is put back from where it
\* was put.
WriteOpen(h) ==
    LET i == hands[h].id IN
    /\ hands[h].op = "write" /\ hands[h].at = "open"
    /\ \/ /\ stored[i].meta = "stored" /\ stored[i].tree = i /\ stored[i].git = "secure"
          /\ stored' = [stored EXCEPT ![i].git = "tree"]
          /\ Goes(h, "close") /\ UNCHANGED <<turn, agent>>
       \/ /\ ~(stored[i].meta = "stored" /\ stored[i].tree = i /\ stored[i].git = "secure")
          /\ Returned(h, FALSE) /\ UNCHANGED stored
    /\ Whole /\ UNCHANGED <<path, signal, amiss, clicks>>

WriteClose(h) ==
    LET i == hands[h].id IN
    /\ hands[h].op = "write" /\ hands[h].at = "close"
    /\ stored' = IF stored[i].tree = i /\ stored[i].git = "tree"
                 THEN [stored EXCEPT ![i].git = "secure"] ELSE stored
    /\ (Returned(h, TRUE) /\ Whole) \/ (Returned(h, FALSE) /\ Halts)
    /\ UNCHANGED <<path, signal, amiss, clicks>>

\* AddWritespaceRepo: the copy, with its .git, which is then put away.
AddCopy(h) ==
    LET i == hands[h].id IN
    /\ hands[h].op = "add" /\ hands[h].at = "copy"
    /\ \/ /\ stored[i].meta = "stored" /\ stored[i].tree = i
          /\ stored' = [stored EXCEPT ![i].git = "tree"]
          /\ Goes(h, "secure") /\ Whole /\ UNCHANGED <<turn, agent>>
       \/ /\ stored[i].meta # "stored" \/ stored[i].tree # i
          /\ Whole /\ Returned(h, FALSE) /\ UNCHANGED stored
       \/ Halts /\ Returned(h, FALSE) /\ UNCHANGED stored
    /\ UNCHANGED <<path, signal, amiss, clicks>>

AddSecure(h) ==
    LET i == hands[h].id IN
    /\ hands[h].op = "add" /\ hands[h].at = "secure"
    /\ stored' = IF stored[i].tree = i /\ stored[i].git = "tree"
                 THEN [stored EXCEPT ![i].git = "secure"] ELSE stored
    /\ Returned(h, TRUE) /\ Whole
    /\ UNCHANGED <<path, signal, amiss, clicks>>

\* The process of h stops: the call is not ended.  A turn goes on from the
\* stage on its pointer, a worker's signal stays as it is.
HalfWay(hand) ==
    \/ hand.at \in {"mark", "restore", "close", "secure"}
    \/ hand.at = "save" /\ hand.op # "create"

Stops(h) ==
    /\ Halts
    /\ Busy(h) \/ (h = "worker" /\ agent.at \notin {"none", "dead"})
    /\ hands' = [hands EXCEPT ![h] = Idle]
    /\ amiss' = [amiss EXCEPT !.cut = @ \/ HalfWay(hands[h])]
    /\ turn' = IF h = "turn" /\ turn.stage = "synced" THEN [turn EXCEPT !.stage = "queued"] ELSE turn
    /\ agent' = IF h = "worker" THEN [NoAgent EXCEPT !.at = "dead"] ELSE agent
    /\ UNCHANGED <<stored, path, signal, clicks>>

-----------------------------------------------------------------------------
\* The panel: one operation at a time, and none on a deployed slopspace while
\* slopspace work is processed or waits.
slopspaceWork == \E k \in DOMAIN signal : signal[k] \in {"pending", "processing"}
Click == ~Busy("panel") /\ clicks < MaxClicks /\ clicks' = clicks + 1
Allowed(i) == stored[i].meta # "none" /\ (stored[i].meta = "deployed" => ~slopspaceWork)
PanelElse == UNCHANGED <<path, turn, agent, halts>>

PanelCreates(i) ==
    /\ Click /\ MakeNew("panel", i)
    /\ PanelElse /\ UNCHANGED signal

PanelMoves(i) ==
    /\ Click /\ Allowed(i)
    /\ \/ stored[i].meta = "deployed" /\ \E op \in {"return", "delete"} : Call("panel", op, "clear", i)
       \/ stored[i].meta = "stored" /\ Call("panel", "delete", "remove", i)
    /\ PanelElse /\ UNCHANGED <<stored, signal>>

\* A mutant: the deploy path is not looked at.
PanelDeploysOver(i) ==
    /\ Click /\ Allowed(i)
    /\ Call("panel", "deploy", "clear", i)
    /\ PanelElse /\ UNCHANGED <<stored, signal>>

\* Deploy clears the path, so a marker there refuses it.
PanelDeploys(i) ==
    /\ Click /\ Allowed(i) /\ path.marker = 0
    /\ Call("panel", "deploy", "clear", i)
    /\ PanelElse /\ UNCHANGED <<stored, signal>>

PanelWrites(i) ==
    /\ Click /\ Allowed(i)
    /\ \/ stored[i].git = "none" /\ Call("panel", "add", "copy", i)
       \/ stored[i].git # "none" /\ Call("panel", "write", "open", i)
    /\ PanelElse /\ UNCHANGED <<stored, signal>>

\* createSignal for a prompt in the deployed slopspace.
Submitted(k) ==
    /\ signal' = [signal EXCEPT ![k] = "pending"]
    /\ amiss' = [amiss EXCEPT !.raced = @ \/ Busy("panel")]

PanelCommands(i) ==
    /\ Click /\ stored[i].meta = "deployed" /\ ~slopspaceWork
    /\ Submitted("command")
    /\ PanelElse /\ UNCHANGED <<stored, hands>>

-----------------------------------------------------------------------------
\* runTurn: another's marker makes the turn wait; the targets are synced and
\* the slopspace deployed unless it is deployed already.
TurnRuns == ~turn.error /\ ~Busy("turn")
TurnElse == UNCHANGED <<stored, path, agent, clicks, halts>>

TurnLooks ==
    /\ TurnRuns /\ turn.stage = "queued" /\ path.marker \in {0, 1}
    /\ \/ /\ stored[1].meta = "stored" /\ Call("turn", "write", "open", 1) /\ UNCHANGED turn
       \/ /\ stored[1].meta = "deployed"
          /\ turn' = [turn EXCEPT !.stage = "deployed"] /\ UNCHANGED <<hands, amiss>>
       \/ /\ stored[1].meta = "none"
          /\ turn' = [turn EXCEPT !.error = TRUE] /\ UNCHANGED <<hands, amiss>>
    /\ TurnElse /\ UNCHANGED signal

TurnDeploys ==
    /\ TurnRuns /\ turn.stage = "synced"
    /\ Call("turn", "deploy", "clear", 1)
    /\ TurnElse /\ UNCHANGED <<turn, signal>>

TurnSubmits ==
    /\ TurnRuns /\ turn.stage = "deployed"
    /\ Submitted("turn")
    /\ turn' = [turn EXCEPT !.stage = "signalled", !.deployed = stored[1].meta = "deployed"]
    /\ TurnElse /\ UNCHANGED hands

\* The signal is complete: the slopspace goes back, if it was deployed when
\* the wait began.
TurnAnswered ==
    /\ TurnRuns /\ turn.stage = "signalled" /\ signal["turn"] = "done"
    /\ IF turn.deployed
       THEN Call("turn", "return", "clear", 1) /\ UNCHANGED turn
       ELSE turn' = [turn EXCEPT !.stage = "returned"] /\ UNCHANGED <<hands, amiss>>
    /\ TurnElse /\ UNCHANGED signal

TurnWrites ==
    /\ TurnRuns /\ turn.stage = "returned"
    /\ IF stored[1].meta = "stored"
       THEN Call("turn", "write", "open", 1) /\ UNCHANGED turn
       ELSE turn' = [turn EXCEPT !.error = TRUE] /\ UNCHANGED <<hands, amiss>>
    /\ TurnElse /\ UNCHANGED signal

\* Resubmit, and each new pass of the loop, read the metadata again.
TurnResubmitted ==
    /\ turn.error /\ clicks < MaxClicks /\ clicks' = clicks + 1
    /\ turn' = [turn EXCEPT !.error = FALSE, !.deployed = stored[1].meta = "deployed"]
    /\ UNCHANGED <<stored, path, hands, signal, agent, amiss, halts>>

-----------------------------------------------------------------------------
\* The worker: whatever is deployed when it looks is what the agent works in;
\* if nothing is, a slopspace of its own, which it returns.
WorkerTakes(k) ==
    /\ agent.at = "none" /\ signal[k] = "pending"
    /\ signal' = [signal EXCEPT ![k] = "processing"]
    /\ agent' = [NoAgent EXCEPT !.at = "taken", !.for = k]
    /\ UNCHANGED <<stored, path, hands, turn, amiss, clicks, halts>>

WorkerLooks ==
    /\ agent.at = "taken" /\ ~Busy("worker")
    /\ \/ /\ path.marker # 0
          /\ agent' = IF stored[path.marker].meta = "none" THEN [agent EXCEPT !.at = "ended"]
                      ELSE [agent EXCEPT !.at = "running", !.id = path.marker]
          /\ UNCHANGED <<stored, hands, amiss>>
       \/ /\ path.marker = 0
          /\ \/ \E i \in Spaces :
                    /\ MakeNew("worker", i)
                    /\ agent' = [agent EXCEPT !.id = i, !.own = TRUE]
             \/ /\ \A i \in Spaces : stored[i].root
                /\ agent' = [agent EXCEPT !.at = "ended"] /\ UNCHANGED <<stored, hands, amiss>>
    /\ UNCHANGED <<path, turn, signal, clicks, halts>>

WorkerDeploys ==
    /\ agent.at = "made" /\ ~Busy("worker")
    /\ Call("worker", "deploy", "clear", agent.id)
    /\ UNCHANGED <<stored, path, turn, signal, agent, clicks, halts>>

AgentExits ==
    /\ agent.at = "running" /\ agent' = [agent EXCEPT !.at = "ended"]
    /\ IF agent.own THEN Call("worker", "return", "clear", agent.id) ELSE UNCHANGED <<hands, amiss>>
    /\ UNCHANGED <<stored, path, turn, signal, clicks, halts>>

WorkerCompletes ==
    /\ agent.at = "ended" /\ ~Busy("worker")
    /\ signal' = [signal EXCEPT ![agent.for] = "done"]
    /\ agent' = NoAgent
    /\ UNCHANGED <<stored, path, hands, turn, amiss, clicks, halts>>

SlopspaceFilesNext ==
    \/ \E h \in Hands :
           \/ SaveNew(h) \/ DeployClear(h) \/ DeployMove(h) \/ DeployMark(h) \/ DeploySave(h)
           \/ ReturnClear(h) \/ ReturnMove(h) \/ ReturnRestore(h) \/ ReturnSave(h)
           \/ DeleteRemove(h) \/ WriteOpen(h) \/ WriteClose(h) \/ AddCopy(h) \/ AddSecure(h)
           \/ Stops(h)
    \/ \E i \in Spaces :
           \/ PanelCreates(i) \/ PanelMoves(i) \/ PanelDeploys(i) \/ PanelWrites(i)
           \/ PanelCommands(i)
    \/ TurnLooks \/ TurnDeploys \/ TurnSubmits \/ TurnAnswered \/ TurnWrites \/ TurnResubmitted
    \/ \E k \in DOMAIN signal : WorkerTakes(k)
    \/ WorkerLooks \/ WorkerDeploys \/ AgentExits \/ WorkerCompletes

-----------------------------------------------------------------------------
\* As long as no two calls overlapped and none was cut off between its move
\* and its metadata, whatever else failed or stopped: a slopspace has its own
\* tree, where its metadata says, the marker names it there, and no agent can
\* reach a .git; and the panel takes no slopspace from under a turn's agent or
\* from a turn that waits for one, unless it came after the panel had looked.
\* (A turn that ends does take it from under the agent of a panel's command.)
SlopspacesIntact ==
    ~amiss.overlapped /\ ~amiss.cut =>
        /\ (\A h \in Hands : ~Busy(h)) =>
              \A i \in Spaces :
                 /\ stored[i].meta = "stored" =>
                       stored[i].tree = i /\ stored[i].read /\ stored[i].git # "tree"
                 /\ stored[i].meta = "deployed" =>
                       path.tree = i /\ path.marker = i /\ stored[i].git # "tree"
        /\ ~amiss.raced /\ agent.at = "running" /\ agent.for = "turn" => path.tree = agent.id
=============================================================================
