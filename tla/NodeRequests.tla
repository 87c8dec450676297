---------------------------- MODULE NodeRequests ----------------------------
(***************************************************************************)
(* What a control sequence does on another node (local-representative      *)
(* /controlnodes.go): a screenshot by its robot, files of its disk, and    *)
(* waiting for it to connect.  agent-coordinator passes requests and       *)
(* answers on (agent-coordinator/controlnodes.go), and what the node saved *)
(* among its files is copied through it afterwards.  The node carries out  *)
(* each request in a goroutine of its own; the asker has one operation at  *)
(* a time.  An operation on the asker's own node goes to its own robot.    *)
(***************************************************************************)
EXTENDS Naturals, Sequences, SequencesExt, Services

CONSTANTS PathsAsked,  \* what a path of a fetch matches, sorted
          FetchAllow,  \* control-fetch-allow, as the paths it allows
          MaxFetched,  \* max_files
          MaxAsks,     \* requests of all operations
          MaxMishaps   \* breaks, robots that go, files removed, waits given up

ASSUME NodeRequestsAssumption ==
    /\ PathsAsked \in Seq({"p", "q", "r"}) /\ FetchAllow \subseteq {"p", "q", "r"}
    /\ MaxFetched \in Nat \ {0}
    /\ MaxAsks \in Nat /\ MaxMishaps \in Nat

VARIABLES errand,   \* the asker's operation, what it was asked for and where it is
          waiting,  \* nodeCaps, nodeFetches, caps: requests whose answer is taken
          wire,     \* requests and answers on their way
          atNode,   \* requests the node carries out
          robot,    \* the node's robot: whether it is there, what it was asked
          linked,   \* which of the two hosts agent-coordinator has
          known,    \* nodes, nodeConnects: whether the asker's list has the node,
                    \* and how often it came into it
          lists,    \* lists of nodes on their way to the asker
          filed,    \* files saved: at the node, and copied to the asker
          askedFor, wrongs

nodeVars == <<errand, waiting, wire, atNode, robot, linked, known, lists, filed, askedFor, wrongs>>

Pair == {"asker", "node"}
Reqs == 1 .. MaxAsks
PathSet == {PathsAsked[i] : i \in DOMAIN PathsAsked}
Shot == "screenshot"
NodeFiles == Reqs \X (PathSet \cup {Shot})

NodeRequestsTypeOK ==
    /\ errand.kind \in {"none", "capture", "fetch", "wait"}
    /\ errand.at \in {"idle", "asking", "pausing", "copying", "watching", "done", "failed", "cancelled"}
    /\ errand.here \in BOOLEAN /\ errand.patient \in BOOLEAN /\ errand.reqs \subseteq Reqs
    /\ errand.todo \in Seq(NodeFiles) /\ errand.got \subseteq NodeFiles
    /\ errand.before \in Nat /\ errand.anew \in BOOLEAN
    /\ waiting \subseteq Reqs
    /\ \A m \in wire : m.req \in Reqs /\ m.leg \in {"up", "down", "here"}
    /\ \A j \in atNode : j.req \in Reqs /\ j.at \in {"begun", "robot", "refused"}
    /\ robot.up \in BOOLEAN /\ robot.asked \subseteq Reqs
    /\ linked \subseteq Pair /\ known.listed \in BOOLEAN /\ known.connects \in Nat
    /\ lists \in Seq(BOOLEAN)
    /\ filed.there \subseteq NodeFiles /\ filed.here \subseteq NodeFiles
    /\ askedFor \in 0 .. MaxAsks /\ wrongs \in 0 .. MaxMishaps

NoOp == [kind |-> "none", at |-> "idle", here |-> FALSE, patient |-> FALSE, reqs |-> {},
         todo |-> << >>, got |-> {}, before |-> 0, anew |-> FALSE]

NodeRequestsInit ==
    /\ errand = NoOp /\ waiting = {} /\ wire = {} /\ atNode = {}
    /\ robot \in [up : BOOLEAN, asked : {{}}]
    /\ linked = Pair /\ lists = << >>
    /\ known = [listed |-> TRUE, connects |-> 1]
    /\ filed = [there |-> {}, here |-> {}]
    /\ askedFor = 0 /\ wrongs = 0

Mishap == Moves("nodes") /\ wrongs < MaxMishaps /\ wrongs' = wrongs + 1
NodeKeeps == UNCHANGED <<atNode, robot>>
LinksKeep == UNCHANGED <<linked, known, lists>>

-----------------------------------------------------------------------------
\* captureOn, fetchOn, captureHere: a request under a name of its own, with
\* somebody to wait for its answer.  Without agent-coordinator there is none.
Ask(o) ==
    IF ~o.here /\ "asker" \notin linked
    THEN errand' = [o EXCEPT !.at = "failed"] /\ UNCHANGED <<waiting, wire, askedFor>>
    ELSE /\ askedFor < MaxAsks /\ askedFor' = askedFor + 1
         /\ errand' = [o EXCEPT !.at = "asking", !.reqs = @ \cup {askedFor'}]
         /\ waiting' = {askedFor'}
         /\ wire' = wire \cup {[req |-> askedFor', what |-> "ask", kind |-> o.kind,
                                leg |-> IF o.here THEN "here" ELSE "up"]}

Rests == errand.at \in {"idle", "done", "failed", "cancelled"}

opNodeCapture(here, patient) ==
    /\ Moves("nodes") /\ Rests
    /\ Ask([NoOp EXCEPT !.kind = "capture", !.here = here, !.patient = patient])
    /\ NodeKeeps /\ LinksKeep /\ UNCHANGED <<filed, wrongs>>

\* patient is for a fetch that it may find nothing (optional).
opNodeFetchFile(here, patient) ==
    /\ Moves("nodes") /\ Rests
    /\ Ask([NoOp EXCEPT !.kind = "fetch", !.here = here, !.patient = patient])
    /\ NodeKeeps /\ LinksKeep /\ UNCHANGED <<filed, wrongs>>

\* wait_robot: it is asked again while there is no robot.
AsksAgain ==
    /\ errand.at = "pausing" /\ Ask(errand)
    /\ NodeKeeps /\ LinksKeep /\ UNCHANGED <<filed, wrongs>>

Outcome(at) ==
    /\ errand' = [errand EXCEPT !.at = at] /\ waiting' = {}

\* No answer within the timeout; asked again only of its own robot, when that
\* is gone.
TimesOut ==
    /\ errand.at = "asking" /\ Mishap
    /\ Outcome(IF errand.here /\ errand.kind = "capture" /\ errand.patient /\ ~robot.up /\ askedFor < MaxAsks
               THEN "pausing" ELSE "failed")
    /\ NodeKeeps /\ LinksKeep /\ UNCHANGED <<wire, filed, askedFor>>

Cancels ==
    /\ errand.at \in {"asking", "pausing", "watching"} /\ Mishap
    /\ Outcome("cancelled")
    /\ NodeKeeps /\ LinksKeep /\ UNCHANGED <<wire, filed, askedFor>>

-----------------------------------------------------------------------------
\* agent-coordinator.
answerTo(m, leg, body) ==
    [req |-> m.req, what |-> "answer", kind |-> m.kind, leg |-> leg,
     ok |-> body.ok, noRobot |-> body.noRobot, files |-> body.files]
Failure(noRobot) == [ok |-> FALSE, noRobot |-> noRobot, files |-> << >>]

relayNodeRequest(m) ==
    /\ m.what = "ask" /\ m.leg = "up"
    /\ wire' = (wire \ {m}) \cup
           {IF "node" \in linked THEN [m EXCEPT !.leg = "down"] ELSE answerTo(m, "down", Failure(FALSE))}
    /\ NodeKeeps /\ LinksKeep /\ UNCHANGED <<errand, waiting, filed, askedFor, wrongs>>

relayNodeResult(m) ==
    /\ m.what = "answer" /\ m.leg = "up"
    /\ wire' = (wire \ {m}) \cup (IF "asker" \in linked THEN {[m EXCEPT !.leg = "down"]} ELSE {})
    /\ NodeKeeps /\ LinksKeep /\ UNCHANGED <<errand, waiting, filed, askedFor, wrongs>>

-----------------------------------------------------------------------------
\* The node.
Answer(j, body) ==
    /\ atNode' = atNode \ {j}
    /\ wire' = IF j.here THEN wire \cup {answerTo(j, "here", body)}
               ELSE IF "node" \in linked THEN wire \cup {answerTo(j, "up", body)}
               ELSE wire
AskerKeeps == LinksKeep /\ UNCHANGED <<errand, waiting, askedFor>>

\* captureForNode: the robot is asked, if there is one.
captureForNode(m) ==
    /\ m.what = "ask" /\ m.leg \in {"down", "here"} /\ m.kind = "capture"
    /\ wire' = wire \ {m}
    /\ atNode' = atNode \cup {[req |-> m.req, kind |-> m.kind, here |-> m.leg = "here",
                           at |-> IF robot.up THEN "robot" ELSE "refused"]}
    /\ robot' = IF robot.up THEN [robot EXCEPT !.asked = @ \cup {m.req}] ELSE robot
    /\ AskerKeeps /\ UNCHANGED <<filed, wrongs>>

\* Refused, or not answered in time: whether there is a robot is looked at anew.
CaptureFails(j) ==
    /\ j.kind = "capture"
    /\ IF j.at = "refused" THEN UNCHANGED wrongs
       ELSE j.at = "robot" /\ IF j.req \in robot.asked THEN Mishap ELSE UNCHANGED wrongs
    /\ Answer(j, Failure(~robot.up))
    /\ AskerKeeps /\ UNCHANGED <<robot, filed>>

\* The robot captures; what it saved is kept, and its answer taken while it is
\* waited for.
noteRobotCapture(r) ==
    /\ r \in robot.asked
    /\ robot' = [robot EXCEPT !.asked = @ \ {r}]
    /\ \E ok \in BOOLEAN :
         /\ filed' = IF ok THEN [filed EXCEPT !.there = @ \cup {<<r, Shot>>}] ELSE filed
         /\ IF \E j \in atNode : j.req = r
            THEN Answer(CHOOSE j \in atNode : j.req = r,
                        IF ok THEN [ok |-> TRUE, noRobot |-> FALSE, files |-> <<<<r, Shot>>>>]
                        ELSE Failure(FALSE))
            ELSE UNCHANGED <<atNode, wire>>
    /\ AskerKeeps /\ UNCHANGED wrongs

\* A path on the list, or what it resolves to, is handed over.
fetchAllowed(p) == p \in FetchAllow

\* fetchHere: of what the path matches, in order, the files that may be handed
\* over, and can be read and saved, until there are max_files of them.
Matched == UNION {[1 .. n -> DOMAIN PathsAsked] : n \in 0 .. MaxFetched}

fetchForNode(m, saved) ==
    LET files == [i \in DOMAIN saved |-> <<m.req, PathsAsked[saved[i]]>>]
        body == [ok |-> TRUE, noRobot |-> FALSE, files |-> files] IN
    /\ m.what = "ask" /\ m.leg \in {"down", "here"} /\ m.kind = "fetch"
    /\ \A i \in DOMAIN saved : /\ fetchAllowed(PathsAsked[saved[i]])
                               /\ \A j \in DOMAIN saved : j < i => saved[j] < saved[i]
    /\ filed' = [filed EXCEPT !.there = @ \cup {files[i] : i \in DOMAIN files}]
    /\ wire' = (wire \ {m}) \cup
           (IF m.leg = "here" THEN {answerTo(m, "here", body)}
            ELSE IF "node" \in linked THEN {answerTo(m, "up", body)} ELSE {})
    /\ NodeKeeps /\ AskerKeeps /\ UNCHANGED wrongs

-----------------------------------------------------------------------------
\* handleNodeCommand: an answer nobody waits for is dropped.
Delivered(m) == m.what = "answer" /\ m.leg \in {"down", "here"}
\* The deviation: any answer will do.
AnswerTaken(req) == waiting # {}

Awaited(req) == req \in waiting

\* What the operation makes of the answer it waited for.
Judged(m) ==
    IF ~m.ok
    THEN [errand EXCEPT !.at = IF m.noRobot /\ errand.patient /\ askedFor < MaxAsks
                           THEN "pausing" ELSE "failed"]
    ELSE IF errand.here
    THEN [errand EXCEPT !.got = {m.files[i] : i \in DOMAIN m.files},
                    !.at = IF m.files # << >> \/ errand.patient THEN "done" ELSE "failed"]
    ELSE [errand EXCEPT !.at = "copying", !.todo = m.files]

handleNodeCommand(m) ==
    /\ Delivered(m)
    /\ wire' = wire \ {m}
    /\ IF Awaited(m.req) THEN errand' = Judged(m) /\ waiting' = {} ELSE UNCHANGED <<errand, waiting>>
    /\ NodeKeeps /\ LinksKeep /\ UNCHANGED <<filed, askedFor, wrongs>>

\* copyNodeFile: what the node saved is fetched through agent-coordinator; a
\* screenshot that cannot be is a failure, a file is skipped.
copyNodeFile ==
    /\ errand.at = "copying" /\ errand.todo # << >>
    /\ LET f == Head(errand.todo)
           copied == f \in filed.there /\ linked = Pair IN
       \/ /\ copied
          /\ filed' = [filed EXCEPT !.here = @ \cup {f}]
          /\ errand' = [errand EXCEPT !.todo = Tail(@), !.got = @ \cup {f}]
          /\ UNCHANGED wrongs
       \/ /\ IF copied THEN Mishap ELSE UNCHANGED wrongs
          /\ errand' = IF errand.kind = "capture" THEN [errand EXCEPT !.at = "failed"]
                   ELSE [errand EXCEPT !.todo = Tail(@)]
          /\ UNCHANGED filed
    /\ NodeKeeps /\ LinksKeep /\ UNCHANGED <<waiting, wire, askedFor>>

Copied ==
    /\ errand.at = "copying" /\ errand.todo = << >>
    /\ errand' = [errand EXCEPT !.at = IF errand.got # {} \/ errand.patient THEN "done" ELSE "failed"]
    /\ NodeKeeps /\ LinksKeep /\ UNCHANGED <<waiting, wire, filed, askedFor, wrongs>>

-----------------------------------------------------------------------------
\* opNodeWaitConnected: the node is in the list, or came into it anew.
opNodeWaitConnected(fresh) ==
    /\ Moves("nodes") /\ Rests /\ askedFor < MaxAsks /\ askedFor' = askedFor + 1
    /\ errand' = [NoOp EXCEPT !.kind = "wait", !.patient = fresh, !.before = known.connects,
                          !.anew = lists # << >>,
                          !.at = IF "asker" \in linked THEN "watching" ELSE "failed"]
    /\ NodeKeeps /\ LinksKeep /\ UNCHANGED <<waiting, wire, filed, wrongs>>

nodeConnections ==
    /\ errand.at = "watching" /\ known.listed
    /\ errand.patient => known.connects > errand.before
    /\ errand' = [errand EXCEPT !.at = "done"]
    /\ NodeKeeps /\ LinksKeep /\ UNCHANGED <<waiting, wire, filed, askedFor, wrongs>>

WaitTimesOut ==
    /\ errand.at = "watching"
    /\ errand' = [errand EXCEPT !.at = "failed"]
    /\ NodeKeeps /\ LinksKeep /\ UNCHANGED <<waiting, wire, filed, askedFor, wrongs>>

\* setNodes: each node that comes into the list has connected.
Listed(list) ==
    [listed |-> list, connects |-> IF list /\ ~known.listed THEN known.connects + 1
                                   ELSE known.connects]
setNodes ==
    /\ lists # << >>
    /\ known' = Listed(Head(lists))
    /\ lists' = Tail(lists)
    /\ NodeKeeps /\ UNCHANGED <<errand, waiting, wire, linked, filed, askedFor, wrongs>>

-----------------------------------------------------------------------------
\* Another host comes or goes: the list is sent again.
broadcastControlNodes ==
    /\ Moves("nodes") /\ "asker" \in linked /\ lists = << >>
    /\ lists' = <<"node" \in linked>>
    /\ NodeKeeps /\ UNCHANGED <<errand, waiting, wire, linked, known, filed, askedFor, wrongs>>

\* A connection ends, with what is on its way over it, and comes back; the
\* asker's list is emptied while it has none.
OnConnectionOf(h, m) ==
    /\ m.leg # "here"
    /\ (h = "asker") = (<<m.what, m.leg>> \in {<<"ask", "up">>, <<"answer", "down">>})

Breaks(h) ==
    /\ Mishap /\ h \in linked
    /\ linked' = linked \ {h}
    /\ wire' = {m \in wire : ~OnConnectionOf(h, m)}
    /\ IF h = "asker" THEN lists' = << >> /\ known' = Listed(FALSE)
       ELSE /\ lists' = IF "asker" \in linked THEN Append(lists, FALSE) ELSE lists
            /\ UNCHANGED known
    /\ NodeKeeps /\ UNCHANGED <<errand, waiting, filed, askedFor>>

Reconnects(h) ==
    /\ h \notin linked
    /\ linked' = linked \cup {h}
    /\ lists' = IF h = "asker" THEN <<"node" \in linked>>
                ELSE IF "asker" \in linked THEN Append(lists, TRUE) ELSE lists
    /\ errand' = [errand EXCEPT !.anew = @ \/ errand.at = "watching"]
    /\ NodeKeeps /\ UNCHANGED <<waiting, wire, known, filed, askedFor, wrongs>>

RobotGoes ==
    /\ robot.up /\ Mishap
    /\ robot' = [up |-> FALSE, asked |-> {}]
    /\ LinksKeep /\ UNCHANGED <<errand, waiting, wire, atNode, filed, askedFor>>

RobotComes ==
    /\ ~robot.up /\ robot' = [robot EXCEPT !.up = TRUE]
    /\ LinksKeep /\ UNCHANGED <<errand, waiting, wire, atNode, filed, askedFor, wrongs>>

\* A file is removed from the node's files, by somebody or as the oldest.
FileRemoved ==
    /\ filed.there # {} /\ Mishap
    /\ \E f \in filed.there : filed' = [filed EXCEPT !.there = @ \ {f}]
    /\ NodeKeeps /\ LinksKeep /\ UNCHANGED <<errand, waiting, wire, askedFor>>

NodeRequestsNext ==
    \/ \E here, patient \in BOOLEAN : opNodeCapture(here, patient) \/ opNodeFetchFile(here, patient)
    \/ \E fresh \in BOOLEAN : opNodeWaitConnected(fresh)
    \/ AsksAgain \/ TimesOut \/ Cancels \/ copyNodeFile \/ Copied
    \/ \E m \in wire :
         \/ relayNodeRequest(m) \/ relayNodeResult(m) \/ captureForNode(m) \/ handleNodeCommand(m)
         \/ \E saved \in Matched : fetchForNode(m, saved)
    \/ \E j \in atNode : CaptureFails(j)
    \/ \E r \in robot.asked : noteRobotCapture(r)
    \/ nodeConnections \/ WaitTimesOut \/ setNodes \/ broadcastControlNodes
    \/ \E h \in Pair : Breaks(h) \/ Reconnects(h)
    \/ RobotGoes \/ RobotComes \/ FileRemoved

-----------------------------------------------------------------------------
\* What an operation takes is what was asked for by it: an answer that comes
\* late, to an earlier try or an operation given up, is nobody's; what it says
\* it has was saved for one of its requests, one screenshot or the files within
\* the limit; and nobody is waited for once it is over.  A node waited for anew
\* has connected since, or a list was still to come, or the asker itself had to
\* connect again.
AnswersAreTheirs ==
    /\ waiting \subseteq errand.reqs /\ (errand.at # "asking" => waiting = {})
    /\ \A f \in errand.got : f[1] \in errand.reqs /\ \A g \in errand.got : f[1] = g[1]
    /\ errand.kind = "capture" /\ errand.at = "done" => \E r \in errand.reqs : errand.got = {<<r, Shot>>}
    /\ errand.kind = "fetch" /\ errand.at = "done" /\ ~errand.patient => errand.got # {}
    /\ errand.kind = "wait" /\ errand.at = "done" /\ errand.patient => errand.anew
=============================================================================
