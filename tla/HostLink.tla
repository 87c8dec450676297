------------------------------- MODULE HostLink -------------------------------
(***************************************************************************)
(* A local-representative's connection to agent-coordinator                *)
(* (local-representative/main.go: connectAC and auto-connect), the         *)
(* representable server it arrives at (representable.go) and what          *)
(* agent-coordinator keeps of the host (agent-coordinator/main.go).  Each  *)
(* attempt to connect is a goroutine of its own; each connection has a     *)
(* reader at either end, which learns of its end in its own time.          *)
(***************************************************************************)
EXTENDS Naturals, Services, FiniteSets

CONSTANTS MaxConns,   \* connections and attempts at one time
          MaxOps,     \* what the operator does
          MaxFaults   \* dials that fail, connections that break

ASSUME HostLinkAssumption ==
    MaxConns \in Nat \ {0} /\ MaxOps \in Nat /\ MaxFaults \in Nat

VARIABLES link,    \* local-representative's acClient, acHost, toggle and flags
          retry,   \* the auto-connect goroutine that acAutoConnectCancel stops
          conns,   \* connection -> its attempt, its client and its reader at AC
          peer,    \* the conn of representable's connState of this host at AC
          host,    \* whether agent-coordinator's hostState is connected
          ops, faults,
          idle,    \* history: why nothing retries, if something else than a wait
          late     \* history: connections AC met another one of the host after

hostLinkVars == <<link, retry, conns, peer, host, ops, faults, idle, late>>

Conns == 1 .. MaxConns
None == 0
Targets == {"ac", "elsewhere"}

LinkRecord ==
    [client : {None} \cup Conns, target : Targets \cup {"unset"}, enabled : BOOLEAN,
     intentional : BOOLEAN]

\* Where it goes, the attempt and the client at LR, the reader at AC, whether the
\* network has broken it, AC knows whose it is, and the state pushed over it.
ConnRecord ==
    [to : Targets, reader : {"none", "reading", "ended"},
     lr : {"none", "spawned", "dialing", "open", "closed", "dropped", "over"},
     cut : BOOLEAN, known : BOOLEAN, pushed : {"no", "sent", "read"}]

HostLinkTypeOK ==
    /\ link \in LinkRecord
    /\ retry \in [at : {"off", "trying", "waiting", "finishing"}, target : Targets]
    /\ conns \in [Conns -> ConnRecord]
    /\ peer \in {None} \cup Conns
    /\ host \in BOOLEAN
    /\ ops \in 0 .. MaxOps /\ faults \in 0 .. MaxFaults
    /\ idle \in {"no", "gave up", "superseded", "intentional", "finishing"}
    /\ late \subseteq Conns

NoConn == [to |-> "ac", reader |-> "none", lr |-> "none", cut |-> FALSE, known |-> FALSE,
           pushed |-> "no"]

\* main: --auto-connect.
HostLinkInit ==
    /\ link = [client |-> None, target |-> "unset", enabled |-> TRUE, intentional |-> FALSE]
    /\ retry = [at |-> "trying", target |-> "ac"]
    /\ conns = [c \in Conns |-> NoConn]
    /\ peer = None /\ host = FALSE
    /\ ops = 0 /\ faults = 0 /\ idle = "no" /\ late = {}

Fault == faults < MaxFaults /\ faults' = faults + 1
Op == ops < MaxOps /\ ops' = ops + 1
ACSide == <<peer, host, late>>

\* go connectAC: an attempt of its own.
Unused == {c \in Conns : conns[c].lr = "none"}
Spawn(t) ==
    \E c \in Unused : /\ \A d \in Unused : c <= d
                      /\ conns' = [conns EXCEPT ![c].lr = "spawned", ![c].to = t]

\* Close of a client: its reader sees it.
Shut(cs, c) == IF c # None /\ cs[c].lr = "open" THEN [cs EXCEPT ![c].lr = "closed"] ELSE cs

-----------------------------------------------------------------------------
\* The operator.
Off == [at |-> "off", target |-> "ac"]
stopAutoConnectAC == retry' = Off

\* "connect-ac": an explicit connect supersedes auto-connect.
ConnectByHand(t) ==
    /\ Op /\ stopAutoConnectAC /\ Spawn(t)
    /\ idle' = IF link.enabled THEN "superseded" ELSE "no"
    /\ UNCHANGED <<link, ACSide, faults>>

\* "disconnect-ac".
disconnectAC ==
    /\ Op /\ stopAutoConnectAC
    /\ link' = [link EXCEPT !.enabled = FALSE, !.intentional = @ \/ link.client # None]
    /\ conns' = Shut(conns, link.client)
    /\ idle' = "no"
    /\ UNCHANGED <<ACSide, faults>>

\* A loop that has seen a connection and not yet cleared its cancel is taken
\* for one that retries.
startAutoConnectAC(l, t) ==
    /\ link' = [l EXCEPT !.enabled = TRUE]
    /\ retry' = IF retry.at = "off" THEN [at |-> "trying", target |-> t] ELSE retry
    /\ idle' = CASE retry.at = "finishing" -> "finishing"
                 [] retry'.target = "elsewhere" -> "superseded"
                 [] OTHER -> "no"

LastTarget == IF link.target = "unset" THEN "ac" ELSE link.target

setAutoConnectAC(on) ==
    /\ Op
    /\ CASE ~on -> /\ link' = [link EXCEPT !.enabled = FALSE]
                   /\ stopAutoConnectAC /\ idle' = "no"
         [] on /\ link.client = None -> startAutoConnectAC(link, LastTarget)
         [] on /\ link.client # None -> /\ link' = [link EXCEPT !.enabled = TRUE]
                                        /\ idle' = "no" /\ UNCHANGED retry
    /\ UNCHANGED <<conns, ACSide, faults>>

-----------------------------------------------------------------------------
\* The retry loop: it ends once connected, and after ten minutes.
autoConnectAC ==
    \/ /\ retry.at = "trying"
       /\ IF link.client # None
          THEN retry' = [retry EXCEPT !.at = "finishing"] /\ UNCHANGED conns
          ELSE retry' = [retry EXCEPT !.at = "waiting"] /\ Spawn(retry.target)
       /\ UNCHANGED <<idle, faults>>
    \/ /\ retry.at = "waiting"
       /\ \/ /\ retry' = [retry EXCEPT !.at = IF link.client # None THEN "finishing" ELSE "trying"]
             /\ UNCHANGED <<idle, faults>>
          \/ /\ link.client = None /\ Fault
             /\ retry' = [retry EXCEPT !.at = "finishing"] /\ idle' = "gave up"
       /\ UNCHANGED conns

RetryLoop == autoConnectAC /\ UNCHANGED <<link, ACSide, ops>>

RetryEnds ==
    /\ retry.at = "finishing" /\ retry' = Off
    /\ UNCHANGED <<link, conns, ACSide, ops, faults, idle>>

-----------------------------------------------------------------------------
\* connectAC, for attempt c: close what there is, dial, and unless the target
\* has changed keep the client, push the state and wait for its end.
connectAC(c) ==
    /\ conns[c].lr = "spawned"
    /\ conns' = [Shut(conns, link.client) EXCEPT ![c].lr = "dialing"]
    /\ link' = [link EXCEPT !.client = None, !.target = conns[c].to]
    /\ idle' = IF link.enabled /\ link.client # None /\ retry.at \in {"off", "finishing"}
               THEN "superseded" ELSE idle
    /\ UNCHANGED <<retry, ACSide, ops, faults>>

DialFails(c) ==
    /\ conns[c].lr = "dialing"
    /\ IF conns[c].to = "ac" THEN Fault ELSE UNCHANGED faults
    /\ conns' = [conns EXCEPT ![c] = NoConn]
    /\ UNCHANGED <<link, retry, ACSide, ops, idle>>

Connected(c) ==
    /\ conns[c].lr = "dialing" /\ conns[c].to = "ac"
    /\ IF link.target # "ac"
       THEN conns' = [conns EXCEPT ![c].lr = "over", ![c].reader = "reading"] /\ UNCHANGED link
       ELSE /\ link' = [link EXCEPT !.client = c]
            /\ conns' = [conns EXCEPT ![c].lr = "open", ![c].reader = "reading"]
    /\ UNCHANGED <<retry, ACSide, ops, faults, idle>>

pushStateToAC(c) ==
    /\ conns[c].lr = "open" /\ link.client = c /\ conns[c].pushed = "no"
    /\ conns' = [conns EXCEPT ![c].pushed = "sent"]
    /\ UNCHANGED <<link, retry, ACSide, ops, faults, idle>>

\* The network breaks a connection; either end learns of it in its own time.
Breaks(c) ==
    /\ conns[c].lr = "open" /\ ~conns[c].cut /\ Fault
    /\ conns' = [conns EXCEPT ![c].cut = TRUE]
    /\ UNCHANGED <<link, retry, ACSide, ops, idle>>

readLoopEnds(c) ==
    /\ conns[c].lr = "open" /\ (conns[c].cut \/ conns[c].reader = "ended")
    /\ conns' = [conns EXCEPT ![c].lr = "closed"]
    /\ UNCHANGED <<link, retry, ACSide, ops, faults, idle>>

\* connectAC after DisconnectCh: a connection that was superseded leaves the
\* flag of a disconnect that was meant for it to the next one.
TearDown(c) ==
    /\ conns[c].lr = "closed"
    /\ IF link.client = c
       THEN /\ link' = [link EXCEPT !.client = None, !.intentional = FALSE]
            /\ conns' = [conns EXCEPT ![c].lr = IF link.intentional THEN "over" ELSE "dropped"]
            /\ idle' = IF link.enabled /\ link.intentional THEN "intentional" ELSE idle
       ELSE conns' = [conns EXCEPT ![c].lr = "over"] /\ UNCHANGED <<link, idle>>
    /\ UNCHANGED <<retry, ACSide, ops, faults>>

\* Mutant: auto-connect ends with the first connection.
ResumeNever(c) ==
    /\ conns[c].lr = "dropped"
    /\ conns' = [conns EXCEPT ![c].lr = "over"]
    /\ UNCHANGED <<link, retry, ACSide, ops, faults, idle>>

\* The toggle is read without the lock.
Resume(c) ==
    /\ conns[c].lr = "dropped"
    /\ conns' = [conns EXCEPT ![c].lr = "over"]
    /\ IF link.enabled THEN startAutoConnectAC(link, conns[c].to)
       ELSE UNCHANGED <<link, retry, idle>>
    /\ UNCHANGED <<ACSide, ops, faults>>

-----------------------------------------------------------------------------
\* handleConn at AC: the first message makes the connection the host's, a
\* heartbeat makes it healthy, and data make the host connected.
Arrives(c) ==
    /\ conns[c].reader = "reading"
    /\ (conns[c].lr = "open" /\ ~conns[c].cut) \/ conns[c].pushed = "sent"

\* Mutant: a host keeps the connection it has.
KeepConn(c) == IF conns[c].known \/ peer # None THEN peer ELSE c

setConn(c) == IF conns[c].known THEN peer ELSE c

\* Whose place c takes, or empties at its end: it may be the older one.
Others(c) == {d \in Conns \ {c} : conns[d].known}

Heartbeat(c) ==
    /\ Arrives(c)
    /\ peer' = setConn(c)
    /\ conns' = [conns EXCEPT ![c].known = TRUE]
    /\ late' = IF conns[c].known THEN late ELSE late \cup Others(c)
    /\ UNCHANGED <<link, retry, host, ops, faults, idle>>

\* What a host sends on its own account, or the state it pushes once connected.
HostData(c) ==
    /\ Arrives(c)
    /\ conns[c].pushed # "no"
    /\ peer' = setConn(c) /\ host' = TRUE
    /\ conns' = [conns EXCEPT ![c].known = TRUE, ![c].pushed = "read"]
    /\ late' = IF conns[c].known THEN late ELSE late \cup Others(c)
    /\ UNCHANGED <<link, retry, ops, faults, idle>>

\* The reader's end: disconnect and onState clear what there is of the host,
\* whichever connection it has by now.
handleConnEnds(c) ==
    /\ conns[c].reader = "reading" /\ conns[c].pushed # "sent"
    /\ conns[c].lr # "open" \/ conns[c].cut
    /\ conns' = [conns EXCEPT ![c].reader = "ended"]
    /\ IF conns[c].known
       THEN /\ peer' = None /\ host' = FALSE
            /\ late' = late \cup Others(c)
       ELSE UNCHANGED ACSide
    /\ UNCHANGED <<link, retry, ops, faults, idle>>

\* Both ends are through with it.
Forgotten(c) ==
    /\ conns[c].lr = "over" /\ conns[c].reader # "reading"
    /\ conns' = [conns EXCEPT ![c] = NoConn]
    /\ late' = late \ {c}
    /\ UNCHANGED <<link, retry, peer, host, ops, faults, idle>>

HostLinkNext ==
    \/ \E t \in Targets : ConnectByHand(t)
    \/ disconnectAC \/ \E on \in BOOLEAN : setAutoConnectAC(on)
    \/ RetryLoop \/ RetryEnds
    \/ \E c \in Conns :
          \/ connectAC(c) \/ DialFails(c) \/ Connected(c) \/ pushStateToAC(c)
          \/ Breaks(c) \/ readLoopEnds(c) \/ TearDown(c) \/ Resume(c)
          \/ Heartbeat(c) \/ HostData(c) \/ handleConnEnds(c) \/ Forgotten(c)

HostLinkSpec == HostLinkInit /\ [][HostLinkNext]_hostLinkVars

\* Goroutines and timers run, a dial that does not fail succeeds, and a broken
\* connection is noticed by keep-alives at either end.
HostLinkFairness ==
    /\ WF_hostLinkVars(Moves("link") /\ RetryLoop) /\ WF_hostLinkVars(Moves("link") /\ RetryEnds)
    /\ \A c \in Conns : WF_hostLinkVars(Moves("link") /\ (\/ connectAC(c) \/ Connected(c) \/ (conns[c].to = "elsewhere" /\ DialFails(c))
          \/ readLoopEnds(c) \/ TearDown(c) \/ Resume(c) \/ Forgotten(c)))
    /\ \A c \in Conns : WF_hostLinkVars(Moves("link") /\ handleConnEnds(c))
    /\ \A c \in Conns : WF_hostLinkVars(Moves("link") /\ (conns[c].pushed = "sent" /\ HostData(c)))

-----------------------------------------------------------------------------
\* A host agent-coordinator shows as connected can be sent commands, over the
\* connection it now has or one of its own still open, unless the first
\* message or the end of an older connection was read after the new one's first
\* (broadcastControlNodes tells every connected host).
ConnectedIsReachable ==
    \A c \in Conns \ late :
        (link.client = c /\ conns[c].known /\ ~conns[c].cut /\ conns[c].lr = "open"
             /\ conns[c].reader = "reading" /\ host)
        => peer # None /\ conns[peer].lr = "open"

\* While auto-connect is on, a host that is not connected becomes so, unless it
\* gave up after ten minutes, the operator took over, the drop was taken for
\* the one of a disconnect, or met a loop about to end.
AutoConnectResumes ==
    []<>(Moves("link") /\ link.enabled /\ idle = "no" => link.client # None)

-----------------------------------------------------------------------------
(***************************************************************************)
(* The tunnels through which agent-coordinator's proxy reaches a           *)
(* local-representative (local-representative/main.go: serveTunnel,        *)
(* representable.go: registerTunnel and ClaimTunnel).  One goroutine opens *)
(* a tunnel and serves it to its end; as soon as the tunnel is used, or at *)
(* its end, another goroutine takes over the opening.                      *)
(***************************************************************************)
CONSTANTS MaxLinks,   \* connections to agent-coordinator, one after another
          MaxTunnels, \* tunnels at one time
          MaxBreaks   \* tunnels that fail, or fail to open

ASSUME HostTunnelsAssumption ==
    MaxLinks \in Nat \ {0} /\ MaxTunnels \in Nat \ {0} /\ MaxBreaks \in Nat

VARIABLES current,  \* the connection that stillCurrent compares with
          links,    \* connections made
          openers,  \* connection -> goroutines at the head of serveTunnel
          tunnels,  \* tunnel -> its state at either end
          breaks

tunnelVars == <<current, links, openers, tunnels, breaks>>

Links == 1 .. MaxLinks
Tunnels == 1 .. MaxTunnels
NoTunnel == [link |-> 0, lr |-> "none", ac |-> "none", used |-> FALSE]

\* Whose connection it is for, whether a request came over it, and either end.
TunnelRecord ==
    [link : 0 .. MaxLinks, used : BOOLEAN, lr : {"none", "serving", "ended", "gone"},
     ac : {"none", "dialed", "parked", "claimed", "closed"}]

TunnelsTypeOK ==
    /\ current \in 0 .. MaxLinks /\ links \in 0 .. MaxLinks
    /\ openers \in [Links -> 0 .. MaxTunnels]
    /\ tunnels \in [Tunnels -> TunnelRecord]
    /\ breaks \in 0 .. MaxBreaks

TunnelsInit ==
    /\ current = 0 /\ links = 0
    /\ openers = [l \in Links |-> 0]
    /\ tunnels = [t \in Tunnels |-> NoTunnel]
    /\ breaks = 0

Break == breaks < MaxBreaks /\ breaks' = breaks + 1

\* connectAC: a connection, with a goroutine for its tunnels; and its end.
LinkUp ==
    /\ current = 0 /\ links < MaxLinks
    /\ links' = links + 1 /\ current' = links'
    /\ openers' = [openers EXCEPT ![links'] = 1]
    /\ UNCHANGED <<tunnels, breaks>>

LinkDown ==
    /\ current # 0 /\ current' = 0
    /\ UNCHANGED <<links, openers, tunnels, breaks>>

\* stillCurrent.
OpenerStops(l) ==
    /\ openers[l] > 0 /\ current # l
    /\ openers' = [openers EXCEPT ![l] = @ - 1]
    /\ UNCHANGED <<current, links, tunnels, breaks>>

\* DialTunnel.  A failure is tried again after two seconds.
DialTunnel(l) ==
    /\ openers[l] > 0 /\ current = l
    /\ \/ Break /\ UNCHANGED <<openers, tunnels>>
       \/ /\ \E t \in Tunnels :
                 /\ tunnels[t] = NoTunnel /\ \A u \in 1 .. t - 1 : tunnels[u] # NoTunnel
                 /\ tunnels' = [tunnels EXCEPT ![t] = [NoTunnel EXCEPT !.link = l,
                                    !.lr = "serving", !.ac = "dialed"]]
          /\ openers' = [openers EXCEPT ![l] = @ - 1]
          /\ UNCHANGED breaks
    /\ UNCHANGED <<current, links>>

\* One tunnel is parked for a host: the one before is closed.
registerTunnel(t) ==
    /\ tunnels[t].ac = "dialed"
    /\ tunnels' = [u \in Tunnels |->
           CASE u = t -> [tunnels[t] EXCEPT !.ac = "parked"]
             [] tunnels[u].ac = "parked" -> [tunnels[u] EXCEPT !.ac = "closed"]
             [] OTHER -> tunnels[u]]
    /\ UNCHANGED <<current, links, openers, breaks>>

\* The proxy takes the parked tunnel for good, dead or not.
ClaimTunnel(t) ==
    /\ tunnels[t].ac = "parked"
    /\ tunnels' = [tunnels EXCEPT ![t].ac = "claimed"]
    /\ UNCHANGED <<current, links, openers, breaks>>

\* Mutant: a replacement for every read.
EachByte(t) ==
    /\ tunnels[t].ac = "claimed" /\ tunnels[t].lr = "serving"
    /\ tunnels' = [tunnels EXCEPT ![t].used = TRUE]
    /\ openers' = [openers EXCEPT ![tunnels[t].link] = @ + 1]
    /\ UNCHANGED <<current, links, breaks>>

\* firstByteConn: a request arrives, and a replacement is opened meanwhile.
firstByte(t) ==
    /\ tunnels[t].ac = "claimed" /\ tunnels[t].lr = "serving" /\ ~tunnels[t].used
    /\ tunnels' = [tunnels EXCEPT ![t].used = TRUE]
    /\ openers' = [openers EXCEPT ![tunnels[t].link] = @ + 1]
    /\ UNCHANGED <<current, links, breaks>>

\* The proxy closes an idle tunnel.
ProxyCloses(t) ==
    /\ tunnels[t].ac = "claimed" /\ tunnels[t].lr # "gone"
    /\ tunnels' = [tunnels EXCEPT ![t].ac = "closed"]
    /\ UNCHANGED <<current, links, openers, breaks>>

\* http.Serve returns: agent-coordinator has closed the tunnel, or it broke,
\* which agent-coordinator need not notice.
ServeReturns(t) ==
    /\ tunnels[t].lr = "serving"
    /\ IF tunnels[t].ac = "closed" THEN UNCHANGED breaks ELSE Break
    /\ tunnels' = [tunnels EXCEPT ![t].lr = "ended"]
    /\ UNCHANGED <<current, links, openers>>

\* Mutant: a tunnel that was used opens its replacement again at its end.
OpenTwice(t) ==
    /\ tunnels[t].lr = "ended" /\ openers[tunnels[t].link] < MaxTunnels
    /\ openers' = [openers EXCEPT ![tunnels[t].link] = @ + 1]
    /\ tunnels' = [tunnels EXCEPT ![t].lr = "gone"]
    /\ UNCHANGED <<current, links, breaks>>

\* Mutant: a tunnel that was never used has no replacement.
OpenUsed(t) ==
    /\ tunnels[t].lr = "ended"
    /\ tunnels' = [tunnels EXCEPT ![t].lr = "gone"]
    /\ UNCHANGED <<current, links, openers, breaks>>

\* openNext, once, after two seconds if the tunnel was never used.
openNext(t) ==
    /\ tunnels[t].lr = "ended"
    /\ openers' = IF tunnels[t].used THEN openers
                  ELSE [openers EXCEPT ![tunnels[t].link] = @ + 1]
    /\ tunnels' = [tunnels EXCEPT ![t].lr = "gone"]
    /\ UNCHANGED <<current, links, breaks>>

Vanishes(t) ==
    /\ tunnels[t].lr = "gone" /\ tunnels[t].ac \in {"claimed", "closed"}
    /\ tunnels' = [tunnels EXCEPT ![t] = NoTunnel]
    /\ UNCHANGED <<current, links, openers, breaks>>

TunnelsNext ==
    \/ LinkUp \/ LinkDown
    \/ \E l \in Links : OpenerStops(l) \/ DialTunnel(l)
    \/ \E t \in Tunnels : \/ registerTunnel(t) \/ ClaimTunnel(t) \/ firstByte(t)
                          \/ ProxyCloses(t) \/ ServeReturns(t) \/ openNext(t) \/ Vanishes(t)

TunnelsSpec == TunnelsInit /\ [][TunnelsNext]_tunnelVars

\* Goroutines run, and what was dialed arrives; the proxy closes what is idle.
TunnelsFairness ==
    /\ \A l \in Links : WF_tunnelVars(Moves("tunnels") /\ DialTunnel(l))
    /\ \A t \in Tunnels :
          WF_tunnelVars(Moves("tunnels") /\ (\/ registerTunnel(t) \/ (tunnels[t].ac = "closed" /\ ServeReturns(t))
                        \/ openNext(t) \/ Vanishes(t)))
    /\ \A t \in Tunnels : WF_tunnelVars(Moves("tunnels") /\ ProxyCloses(t))

-----------------------------------------------------------------------------
\* One goroutine answers for the next tunnel of the current connection, and
\* never more than one for any: none is forgotten and none multiply, however
\* tunnels are claimed, replaced and broken.
OneOpener ==
    \A l \in Links :
        LET keepers == openers[l] + Cardinality({t \in Tunnels :
                           /\ tunnels[t].link = l /\ ~tunnels[t].used
                           /\ tunnels[t].lr \in {"serving", "ended"}})
        IN keepers <= 1 /\ (current = l => keepers = 1)

\* A connected host has a tunnel parked again, whatever became of the last one.
TunnelReturns ==
    \A l \in Links :
        []<>(current = l => \E t \in Tunnels :
                                tunnels[t].ac = "parked" /\ tunnels[t].lr = "serving")
=============================================================================
