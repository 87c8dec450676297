------------------------------ MODULE HostViews -----------------------------
(***************************************************************************)
(* agent-coordinator between its hosts and the browsers (agent-coordinator *)
(* /main.go, tcavailability.go, selfversion.go, controlnodes.go): what a   *)
(* host's connection reports is kept, broadcast to the browsers and, as    *)
(* far as it concerns the other hosts, sent to them.  Each connection's    *)
(* messages are handled by a goroutine of its own, step by step, and what  *)
(* a step sends was read a moment before.  A host has one connection at a  *)
(* time; HostLink has those that overlap.                                  *)
(***************************************************************************)
EXTENDS Naturals, Sequences, SequencesExt, Services

CONSTANTS Nodes,      \* hosts
          MaxHappens  \* connections, reports, requests, toggles, restarts, and
                      \* messages that a browser too far behind is not sent

ASSUME HostViewsAssumption == Nodes # {} /\ MaxHappens \in Nat

VARIABLES kept,     \* host -> hostState: connected, and what it reported last
          handler,  \* goroutine -> what it has still to send, what it read for
                    \* the next, and what no other sends meanwhile
          told,     \* host -> what it was last told of the others
          tc,       \* tcAvailable
          self,     \* selfVersion: auto-update, a newer binary and whether it is seen
          browser,  \* a browser's connection: whether its queue is full, and
                    \* what it shows when the messages in it are through
          asked,    \* a request of the browser's to a host
          mixed,    \* history: what two goroutines sent at a time, or did not fit
                    \* the queue, and was not sent since
          happened

viewVars == <<kept, handler, told, tc, self, browser, asked, mixed, happened>>

Reports == {"none", "able"}  \* convo-state: whether there is one that can transcribe
Goroutines == Nodes \cup {"watch", "pump", "initial", "tick"}
Topics == {"hosts", "nodes", "tc", "self", "reply"} \cup Nodes
Unread == << >>

HostViewsTypeOK ==
    /\ kept \in [Nodes -> [connected : BOOLEAN, report : Reports]]
    /\ \A g \in Goroutines :
           /\ handler[g].todo = << >> => handler[g].read = Unread
           /\ handler[g].apart \subseteq Topics
    /\ told \in [Nodes -> [nodes : SUBSET Nodes, tc : BOOLEAN]]
    /\ tc \in BOOLEAN
    /\ self \in [auto : BOOLEAN, newer : BOOLEAN, seen : BOOLEAN]
    /\ browser.open \in BOOLEAN /\ browser.full \in BOOLEAN
    /\ asked \in [at : {"no", "host", "answering", "answered", "refused", "lost"},
                  of : Nodes \cup {"nobody"}]
    /\ mixed \subseteq Topics /\ happened \in 0 .. MaxHappens

Resting == [todo |-> << >>, read |-> Unread, apart |-> {}]
NothingShown == [hosts |-> {}, tc |-> FALSE, self |-> <<FALSE, FALSE>>,
            report |-> [h \in Nodes |-> "none"]]
Closed == [open |-> FALSE, full |-> FALSE, shows |-> NothingShown]
NoQuestion == [at |-> "no", of |-> "nobody"]

connectedHostNames == {h \in Nodes : kept[h].connected}
anyConvoAvailable == \E h \in Nodes : kept[h].report = "able"
selfInfo == <<self.auto, self.seen>>

\* agent-coordinator has just started, or has some hosts and is at rest.
HostViewsInit ==
    /\ kept \in {k \in [Nodes -> [connected : BOOLEAN, report : Reports]] :
                   \A h \in Nodes : k[h].report = "able" => k[h].connected}
    /\ handler = [g \in Goroutines |-> Resting]
    /\ told = [h \in Nodes |-> [nodes |-> IF kept[h].connected THEN connectedHostNames ELSE {},
                                tc |-> kept[h].connected /\ anyConvoAvailable]]
    /\ tc = anyConvoAvailable
    /\ self = [auto |-> FALSE, newer |-> FALSE, seen |-> FALSE]
    /\ browser \in {Closed, [open |-> TRUE, full |-> FALSE,
                             shows |-> [hosts |-> connectedHostNames, tc |-> tc, self |-> selfInfo,
                                        report |-> [h \in Nodes |-> kept[h].report]]]}
    /\ asked = NoQuestion /\ mixed = {} /\ happened = 0

Happens == Moves("views") /\ happened < MaxHappens /\ happened' = happened + 1

-----------------------------------------------------------------------------
\* What a step is about, and what it sends, as it is when it is read.
TopicOf(step) ==
    CASE step \in {"tcTo", "tcShow", "tcOut"} -> "tc"
      [] step = "nodesTo" -> "nodes"
      [] OTHER -> step

ReadOf(step) ==
    CASE TopicOf(step) \in {"hosts", "nodes"} -> connectedHostNames
      [] TopicOf(step) = "tc" -> anyConvoAvailable
      [] step = "self" -> selfInfo
      [] step \in Nodes -> kept[step].report
      [] OTHER -> "answered"

AtRest(g) == handler[g].todo = << >>
About(todo) == {TopicOf(todo[i]) : i \in DOMAIN todo} \cap Topics
Pending(g) == About(handler[g].todo)

\* A goroutine begins.  What another under way has still to send as well may be
\* overtaken.
Begins(g, todo) ==
    LET topics == About(todo)
        shared == topics \cap UNION {Pending(o) : o \in Goroutines} IN
    /\ AtRest(g)
    /\ handler' = [o \in Goroutines |->
                     IF o = g THEN [todo |-> todo, read |-> Unread, apart |-> topics \ shared]
                     ELSE [handler[o] EXCEPT !.apart = @ \ topics]]
    /\ mixed' = mixed \cup shared

Reads(g) ==
    /\ ~AtRest(g) /\ handler[g].read = Unread
    /\ handler' = [handler EXCEPT ![g].read = <<ReadOf(Head(handler[g].todo))>>]
    /\ UNCHANGED <<kept, told, tc, self, browser, asked, mixed, happened>>

Value(g) == handler[g].read[1]
Ready(g, step) == ~AtRest(g) /\ Head(handler[g].todo) = step /\ handler[g].read # Unread

Continues(g, after) ==
    handler' = [handler EXCEPT ![g] = [todo |-> after, read |-> Unread,
                                       apart |-> IF after = << >> THEN {} ELSE @.apart]]

\* sendToClient, broadcast: a message that does not fit the queue is dropped.
QueueFits == ~browser.open \/ ~browser.full
Showing(topic, value) ==
    IF topic = "reply" THEN browser.shows
    ELSE IF topic \in Nodes THEN [browser.shows EXCEPT !.report[topic] = value]
    ELSE [browser.shows EXCEPT ![topic] = value]

broadcast(topic, value) ==
    /\ browser' = IF browser.open /\ QueueFits THEN [browser EXCEPT !.shows = Showing(topic, value)]
                  ELSE browser
    /\ asked' = IF topic = "reply" /\ browser.open /\ QueueFits THEN [asked EXCEPT !.at = value] ELSE asked

\* A topic is sent to everybody concerned: if nobody else sends of it, it is no
\* longer mixed.
Sent(g, topic) ==
    mixed' = IF ~QueueFits THEN mixed \cup {topic}
             ELSE IF topic \in handler[g].apart THEN mixed \ {topic} ELSE mixed

-----------------------------------------------------------------------------
\* A host's connection reports: its first message makes the host connected.
SetDataHandler(h, report) ==
    /\ Happens
    /\ Begins(h, (IF kept[h].connected THEN << >> ELSE <<"hosts", "tcTo", "nodes">>)
                 \o <<report, h, "tc">>)
    /\ kept' = [kept EXCEPT ![h].connected = TRUE]
    /\ UNCHANGED <<told, tc, self, browser, asked>>

Stores(h) ==
    /\ ~AtRest(h) /\ Head(handler[h].todo) \in Reports
    /\ kept' = [kept EXCEPT ![h].report = Head(handler[h].todo)]
    /\ Continues(h, Tail(handler[h].todo))
    /\ UNCHANGED <<told, tc, self, browser, asked, mixed, happened>>

\* The deviation: the hosts are not told of one that is gone.
GoneForBrowsers(h) == <<"hosts", h, "tc">>

GoneFor(h) == <<"hosts", h, "tc", "nodes">>

\* Its connection ends: what is kept of it is cleared, and what it was told.
SetStateChangeHandler(h) ==
    /\ Happens /\ kept[h].connected
    /\ Begins(h, GoneFor(h))
    /\ kept' = [kept EXCEPT ![h] = [connected |-> FALSE, report |-> "none"]]
    /\ told' = [told EXCEPT ![h].nodes = {}]
    /\ asked' = IF asked.of = h /\ asked.at \in {"host", "answering"}
                THEN [asked EXCEPT !.at = "lost"] ELSE asked
    /\ UNCHANGED <<tc, self, browser>>

\* "control-nodes-request", which a host sends when it has connected.
NodesRequested(h) ==
    /\ Happens /\ kept[h].connected /\ Begins(h, <<"nodesTo">>)
    /\ UNCHANGED <<kept, told, tc, self, browser, asked>>

\* broadcastLoop: the list of hosts every five seconds.
broadcastLoop ==
    /\ Happens /\ Begins("tick", <<"hosts">>)
    /\ UNCHANGED <<kept, told, tc, self, browser, asked>>

-----------------------------------------------------------------------------
\* What goes to the browsers only.
SendsToBrowser(g, step) ==
    /\ Ready(g, step)
    /\ step \in {"hosts", "self", "tcShow", "reply"} \cup Nodes
    /\ broadcast(TopicOf(step), Value(g))
    /\ IF step = "tcShow" /\ QueueFits THEN UNCHANGED mixed ELSE Sent(g, TopicOf(step))
    /\ Continues(g, Tail(handler[g].todo))
    /\ UNCHANGED <<kept, told, tc, self, happened>>

\* broadcastControlNodes, sendControlNodes, sendTCAvailabilityTo: to hosts.
Reached(h) == kept[h].connected

SendsToHosts(g, step) ==
    /\ Ready(g, step) /\ step \in {"nodes", "nodesTo", "tcTo"}
    /\ told' = [h \in Nodes |->
         IF ~Reached(h) \/ (step # "nodes" /\ h # g) THEN told[h]
         ELSE IF step = "tcTo" THEN [told[h] EXCEPT !.tc = Value(g)]
         ELSE IF h \in Value(g) \/ step = "nodesTo" THEN [told[h] EXCEPT !.nodes = Value(g)]
         ELSE told[h]]
    /\ mixed' = IF step = "nodes" /\ step \in handler[g].apart THEN mixed \ {step} ELSE mixed
    /\ Continues(g, Tail(handler[g].todo))
    /\ UNCHANGED <<kept, tc, self, browser, asked, happened>>

\* broadcastTCAvailability: the aggregate, if it is not what it was, goes to
\* the browsers and the hosts.
broadcastTCAvailability(g) ==
    /\ Ready(g, "tc")
    /\ tc' = Value(g)
    /\ IF tc = tc' THEN Continues(g, Tail(handler[g].todo))
       ELSE handler' = [handler EXCEPT ![g].todo[1] = "tcOut"]
    /\ UNCHANGED <<kept, told, self, browser, asked, mixed, happened>>

TellsTC(g) ==
    /\ Ready(g, "tcOut")
    /\ broadcast("tc", Value(g))
    /\ told' = [h \in Nodes |-> IF Reached(h) THEN [told[h] EXCEPT !.tc = Value(g)] ELSE told[h]]
    /\ Sent(g, "tc")
    /\ Continues(g, Tail(handler[g].todo))
    /\ UNCHANGED <<kept, tc, self, happened>>

-----------------------------------------------------------------------------
\* handleWS: a browser connects, and is sent the initial state by a goroutine
\* of its own, while it already gets what is broadcast.
AllHosts == SetToSeq(Nodes)

Opens ==
    /\ Happens /\ ~browser.open
    /\ browser' = [Closed EXCEPT !.open = TRUE]
    /\ Begins("initial", <<"self", "tcShow", "hosts">> \o AllHosts)
    /\ UNCHANGED <<kept, told, tc, self, asked>>

Closes ==
    /\ Happens /\ browser.open
    /\ browser' = Closed /\ asked' = NoQuestion
    /\ UNCHANGED <<kept, handler, told, tc, self, mixed>>

\* sendHostSnapshot, when the browser selects a host.
Selects(h) ==
    /\ Happens /\ browser.open /\ Begins("pump", <<h>>)
    /\ UNCHANGED <<kept, told, tc, self, browser, asked>>

\* The write pump falls behind, or catches up.
Lags ==
    /\ browser.open /\ browser' = [browser EXCEPT !.full = ~@]
    /\ IF browser.full THEN UNCHANGED happened ELSE Happens
    /\ UNCHANGED <<kept, handler, told, tc, self, asked, mixed>>

\* The read pump: a request to a host is passed on in the order it comes; one
\* too large for a line of representable's is answered here.
Asks(h, at) ==
    /\ Happens /\ browser.open /\ asked.at \notin {"host", "answering"} /\ AtRest("pump")
    /\ asked' = [at |-> at, of |-> h]
    /\ UNCHANGED <<kept, handler, told, tc, self, browser, mixed>>

Requests(h) == Asks(h, IF Reached(h) THEN "host" ELSE "lost")
RequestTooLarge(h) == Asks(h, IF QueueFits THEN "refused" ELSE "lost")

HostAnswers(h) ==
    /\ asked = [at |-> "host", of |-> h]
    /\ Begins(h, <<"reply">>)
    /\ asked' = [asked EXCEPT !.at = "answering"]
    /\ UNCHANGED <<kept, told, tc, self, browser, happened>>

-----------------------------------------------------------------------------
\* poll: a newer binary is seen, which everybody is told, and with auto-update
\* agent-coordinator restarts.
poll ==
    /\ self.newer /\ ~self.seen
    /\ self' = [self EXCEPT !.seen = TRUE]
    /\ Begins("watch", IF self.auto THEN <<"self", "restart">> ELSE <<"self">>)
    /\ UNCHANGED <<kept, told, tc, browser, asked, happened>>

Lands ==
    /\ Happens /\ ~self.newer /\ self' = [self EXCEPT !.newer = TRUE]
    /\ UNCHANGED <<kept, handler, told, tc, browser, asked, mixed>>

Toggled(v) == IF v /\ self.seen THEN <<"self", "restart">> ELSE <<"self">>

setAutoUpdate(v) ==
    /\ Happens /\ browser.open /\ self.auto # v
    /\ self' = [self EXCEPT !.auto = v]
    /\ Begins("pump", Toggled(v))
    /\ UNCHANGED <<kept, told, tc, browser, asked>>

\* announceRestartAndExit, by the operator, SIGHUP or an update: ufa-loader
\* starts the binary there is, with auto-update as it was.
Restarts ==
    /\ kept' = [h \in Nodes |-> [connected |-> FALSE, report |-> "none"]]
    /\ handler' = [g \in Goroutines |-> Resting]
    /\ told' = [h \in Nodes |-> [told[h] EXCEPT !.nodes = {}]]
    /\ tc' = FALSE
    /\ self' = [auto |-> self.auto, newer |-> FALSE, seen |-> FALSE]
    /\ browser' = Closed /\ asked' = NoQuestion /\ mixed' = {}

announceRestartAndExit ==
    \/ Happens /\ Restarts
    \/ /\ \E g \in Goroutines : ~AtRest(g) /\ Head(handler[g].todo) = "restart"
       /\ Restarts /\ UNCHANGED happened

HostViewsNext ==
    \/ \E h \in Nodes :
         \/ \E r \in Reports : SetDataHandler(h, r)
         \/ Stores(h) \/ SetStateChangeHandler(h) \/ NodesRequested(h) \/ Selects(h)
         \/ Requests(h) \/ RequestTooLarge(h) \/ HostAnswers(h)
    \/ \E g \in Goroutines :
         \/ Reads(g) \/ broadcastTCAvailability(g) \/ TellsTC(g)
         \/ ~AtRest(g) /\ (SendsToBrowser(g, Head(handler[g].todo)) \/ SendsToHosts(g, Head(handler[g].todo)))
    \/ broadcastLoop \/ Opens \/ Closes \/ Lags \/ poll \/ Lands
    \/ \E v \in BOOLEAN : setAutoUpdate(v)
    \/ announceRestartAndExit

-----------------------------------------------------------------------------
\* When all is done a browser shows what agent-coordinator has, a connected
\* host was told which hosts are connected and whether any can transcribe, and
\* a request that reached its host is answered: in any order of connections,
\* reports, snapshots and restarts, except for a topic that two goroutines sent
\* of at a time, or that did not fit the queue, and was not sent since.  And an
\* update that is seen with auto-update on does not wait.
ShownIsSo ==
    LET quiet == \A g \in Goroutines : AtRest(g)
        connected == connectedHostNames IN
    /\ quiet /\ browser.open =>
         /\ "hosts" \notin mixed => browser.shows.hosts = connected
         /\ "self" \notin mixed => browser.shows.self = selfInfo
         /\ "tc" \notin mixed => browser.shows.tc = anyConvoAvailable
         /\ \A h \in Nodes \ mixed : browser.shows.report[h] = kept[h].report
         /\ asked.at = "answering" => "reply" \in mixed
    /\ quiet => \A h \in connected :
         /\ "nodes" \notin mixed => told[h].nodes = connected
         /\ "tc" \notin mixed => told[h].tc = anyConvoAvailable
    /\ self.auto /\ self.seen =>
         \E g \in Goroutines : "restart" \in {handler[g].todo[i] : i \in DOMAIN handler[g].todo}
=============================================================================
