---------------------------- MODULE LocalProofs -----------------------------
(***************************************************************************)
(* The services of a local-representative, proved safe for any number of   *)
(* applications, commits, runs, connections and tunnels.  Each service has *)
(* an inductive invariant of its own, in a section of its own: what it     *)
(* starts with, what each of its actions keeps, and the property that      *)
(* follows.  The last section puts them together.                          *)
(***************************************************************************)
EXTENDS MCLocalServices, FiniteSetTheorems, TLAPS

-----------------------------------------------------------------------------
(***************************************************************************)
(* Tunnels.  KeeperInv says what OneOpener counts: who keeps a link is     *)
(* either its opener or one unclaimed tunnel, never two of them.  It is    *)
(* needed because OneOpener alone does not say that a tunnel that is       *)
(* claimed, or an opener that ends, leaves nobody behind; and `current <=  *)
(* links` because a link yet to be made must have no opener when it is.    *)
(***************************************************************************)
\* How many there are of something, said without counting.
LEMMA AtMostOne ==
  ASSUME NEW S, IsFiniteSet(S)
  PROVE  /\ Cardinality(S) \in Nat
         /\ Cardinality(S) = 0 <=> S = {}
         /\ Cardinality(S) <= 1 <=> \A x, y \in S : x = y
<1>1. Cardinality(S) \in Nat /\ (Cardinality(S) = 0 <=> S = {})
  BY FS_CardinalityType, FS_EmptySet
<1>2. Cardinality(S) = 1 <=> \E x : S = {x}
  BY FS_Singleton
<1>3. Cardinality(S) <= 1 <=> Cardinality(S) = 0 \/ Cardinality(S) = 1
  BY <1>1
<1>4. (S = {} \/ \E x : S = {x}) <=> \A x, y \in S : x = y
  OBVIOUS
<1> QED BY <1>1, <1>2, <1>3, <1>4

\* A tunnel nobody has claimed yet.
Keeps(t, l) ==
    tunnels[t].link = l /\ ~tunnels[t].used /\ tunnels[t].lr \in {"serving", "ended"}

\* The keepers of a link: its opener, or one tunnel nobody has claimed.  A link
\* has one opener at most, none beside a tunnel that is kept, and the current one
\* always has either.
KeeperInv ==
    /\ current <= links
    /\ \A t \in Tunnels : tunnels[t].lr # "none" => tunnels[t].link \in 1 .. links
    /\ \A l \in Links : openers[l] <= 1 /\ (l > links => openers[l] = 0)
    /\ \A l \in Links, t \in Tunnels : Keeps(t, l) => openers[l] = 0
    /\ \A l \in Links, t, u \in Tunnels : Keeps(t, l) /\ Keeps(u, l) => t = u
    /\ \A l \in Links : current = l => openers[l] = 1 \/ \E t \in Tunnels : Keeps(t, l)

\* How a tunnel begins.
LEMMA NewTunnel ==
  ASSUME NEW l \in Links
  PROVE  LET v == [NoTunnel EXCEPT !.link = l, !.lr = "serving", !.ac = "dialed"]
         IN  v \in TunnelRecord /\ v.link = l /\ v.lr = "serving" /\ ~v.used
<1>1. NoTunnel \in TunnelRecord
  BY HostTunnelsAssumption DEF NoTunnel, TunnelRecord
<1>2. [NoTunnel EXCEPT !.link = l] \in TunnelRecord
  BY <1>1, HostTunnelsAssumption DEF TunnelRecord, Links
<1>3. \A r \in TunnelRecord : [r EXCEPT !.lr = "serving"] \in TunnelRecord
                              /\ [r EXCEPT !.ac = "dialed"] \in TunnelRecord
  BY DEF TunnelRecord
<1>4. [NoTunnel EXCEPT !.link = l, !.lr = "serving", !.ac = "dialed"]
      = [[[NoTunnel EXCEPT !.link = l] EXCEPT !.lr = "serving"] EXCEPT !.ac = "dialed"]
  BY DEF NoTunnel
<1> QED BY <1>2, <1>3, <1>4 DEF NoTunnel

\* No link, no tunnel, no opener: what the tunnels begin with.
LEMMA TunnelsStart == TunnelsInit => TunnelsTypeOK /\ KeeperInv
  BY HostTunnelsAssumption DEF TunnelsInit, TunnelsTypeOK, TunnelRecord, KeeperInv, Keeps,
     NoTunnel, Links, Tunnels

\* What an action does to tunnel t alone.
LEMMA TunnelChanges ==
  ASSUME TunnelsTypeOK, KeeperInv, NEW t \in Tunnels, NEW v,
         v \in TunnelRecord,
         tunnels' = [tunnels EXCEPT ![t] = v]
  PROVE  /\ tunnels' \in [Tunnels -> TunnelRecord]
         /\ tunnels'[t] = v
         /\ \A u \in Tunnels \ {t} : /\ tunnels'[u] = tunnels[u]
                                     /\ \A l \in Links : Keeps(u, l)' <=> Keeps(u, l)
  BY DEF TunnelsTypeOK, TunnelRecord, Keeps

\* A tunnel that keeps no link before and after leaves the keepers as they are.
LEMMA SameKeepers ==
  ASSUME TunnelsTypeOK, KeeperInv, UNCHANGED <<current, links, openers>>,
         \A u \in Tunnels : /\ tunnels'[u].lr # "none" => tunnels'[u].link \in 1 .. links
                            /\ \A l \in Links : Keeps(u, l)' <=> Keeps(u, l)
  PROVE  KeeperInv'
  BY DEF TunnelsTypeOK, TunnelRecord, KeeperInv

\* What LR's openers and AC's side of the tunnels do, one action after the other.
LEMMA TunnelsKept ==
  ASSUME TunnelsTypeOK, KeeperInv, [TunnelsNext]_tunnelVars
  PROVE  TunnelsTypeOK' /\ KeeperInv'
<1>1. CASE LinkUp
  <2>1. TunnelsTypeOK'
    BY <1>1, HostTunnelsAssumption DEF LinkUp, TunnelsTypeOK, TunnelRecord, Links
  <2>2. \A u \in Tunnels, l \in Links : Keeps(u, l)' <=> Keeps(u, l)
    BY <1>1 DEF LinkUp, Keeps
  <2>3. \A u \in Tunnels : ~Keeps(u, links')
    BY <1>1, HostTunnelsAssumption DEF LinkUp, Keeps, KeeperInv, TunnelsTypeOK, TunnelRecord
  <2>4. openers'[links'] = 1 /\ \A l \in Links \ {links'} : openers'[l] = openers[l]
    BY <1>1, HostTunnelsAssumption DEF LinkUp, TunnelsTypeOK, TunnelRecord, Links
  <2> QED BY <1>1, <2>1, <2>2, <2>3, <2>4, HostTunnelsAssumption DEF LinkUp, TunnelsTypeOK,
      TunnelRecord, Links, KeeperInv
<1>2. CASE LinkDown
  BY <1>2, HostTunnelsAssumption DEF LinkDown, TunnelsTypeOK, TunnelRecord, Links, KeeperInv, Keeps
<1>3. ASSUME NEW l \in Links, OpenerStops(l) PROVE TunnelsTypeOK' /\ KeeperInv'
  <2>1. openers'[l] = 0 /\ openers[l] = 1 /\ \A m \in Links \ {l} : openers'[m] = openers[m]
    BY <1>3, HostTunnelsAssumption DEF OpenerStops, TunnelsTypeOK, TunnelRecord, KeeperInv
  <2>2. TunnelsTypeOK'
    BY <1>3, <2>1, HostTunnelsAssumption DEF OpenerStops, TunnelsTypeOK, TunnelRecord
  <2>3. \A u \in Tunnels, m \in Links : Keeps(u, m)' <=> Keeps(u, m)
    BY <1>3 DEF OpenerStops, Keeps
  <2> QED BY <1>3, <2>1, <2>2, <2>3 DEF OpenerStops, TunnelsTypeOK, TunnelRecord, KeeperInv
<1>4. ASSUME NEW l \in Links, DialTunnel(l) PROVE TunnelsTypeOK' /\ KeeperInv'
  <2>1. CASE Break /\ UNCHANGED <<openers, tunnels>>
    BY <1>4, <2>1, HostTunnelsAssumption DEF DialTunnel, Break, TunnelsTypeOK, TunnelRecord,
       KeeperInv, Keeps
  <2>2. ASSUME NEW t \in Tunnels, tunnels[t] = NoTunnel, openers[l] > 0, current = l,
               tunnels' = [tunnels EXCEPT ![t] = [NoTunnel EXCEPT !.link = l,
                               !.lr = "serving", !.ac = "dialed"]],
               openers' = [openers EXCEPT ![l] = @ - 1],
               UNCHANGED <<current, links, breaks>>
        PROVE  TunnelsTypeOK' /\ KeeperInv'
    <3> DEFINE v == [NoTunnel EXCEPT !.link = l, !.lr = "serving", !.ac = "dialed"]
    <3>1. /\ tunnels' = [tunnels EXCEPT ![t] = v] /\ v \in TunnelRecord
          /\ v.link = l /\ v.lr = "serving" /\ ~v.used
      BY <2>2, NewTunnel
    <3> HIDE DEF v
    <3>2. /\ tunnels'[t] = v
          /\ \A u \in Tunnels \ {t} : /\ tunnels'[u] = tunnels[u]
                                      /\ \A m \in Links : Keeps(u, m)' <=> Keeps(u, m)
      BY <2>2, <3>1, TunnelChanges
    <3>3. openers'[l] = 0 /\ openers[l] = 1 /\ \A m \in Links \ {l} : openers'[m] = openers[m]
      BY <2>2 DEF TunnelsTypeOK, TunnelRecord, KeeperInv
    <3>4. TunnelsTypeOK'
      BY <2>2, <3>1, <3>3, TunnelChanges, HostTunnelsAssumption DEF TunnelsTypeOK, TunnelRecord
    <3>5. ~Keeps(t, l) /\ \A m \in Links : Keeps(t, m)' <=> m = l
      BY <2>2, <3>1, <3>2 DEF Keeps, NoTunnel
    <3>6. l <= links
      BY <2>2 DEF KeeperInv
    <3>7. \A u \in Tunnels : ~Keeps(u, l)
      BY <3>3 DEF KeeperInv, Links
    <3>8. \A u \in Tunnels : Keeps(u, l)' <=> u = t
      BY <3>2, <3>5, <3>7
    <3>9. \A u \in Tunnels, m \in Links \ {l} : Keeps(u, m)' <=> Keeps(u, m)
      BY <3>2, <3>5, <2>2 DEF Keeps, NoTunnel
    <3>10. \A u \in Tunnels : tunnels'[u].lr # "none" => tunnels'[u].link \in 1 .. links
      BY <3>1, <3>2, <3>6 DEF KeeperInv, Links
    <3> QED BY <2>2, <3>3, <3>4, <3>6, <3>8, <3>9, <3>10 DEF KeeperInv, TunnelsTypeOK, TunnelRecord
  <2> QED BY <1>4, <2>1, <2>2 DEF DialTunnel
<1>5. ASSUME NEW t \in Tunnels, registerTunnel(t) PROVE TunnelsTypeOK' /\ KeeperInv'
  <2>1. \A u \in Tunnels : \/ tunnels'[u] = tunnels[u]
                           \/ \E a \in {"parked", "closed"} : tunnels'[u] = [tunnels[u] EXCEPT !.ac = a]
    BY <1>5 DEF registerTunnel, TunnelsTypeOK, TunnelRecord
  <2>2. TunnelsTypeOK'
    <3>1. ASSUME NEW u \in Tunnels PROVE tunnels'[u] \in TunnelRecord
      BY <2>1 DEF TunnelsTypeOK, TunnelRecord
    <3> QED BY <1>5, <3>1 DEF registerTunnel, TunnelsTypeOK, TunnelRecord
  <2>3. ASSUME NEW u \in Tunnels
        PROVE  /\ tunnels'[u].lr # "none" => tunnels'[u].link \in 1 .. links
               /\ \A l \in Links : Keeps(u, l)' <=> Keeps(u, l)
    <3>1. /\ tunnels'[u].link = tunnels[u].link /\ tunnels'[u].lr = tunnels[u].lr
          /\ tunnels'[u].used = tunnels[u].used
      <4>1. tunnels[u] \in TunnelRecord
        BY DEF TunnelsTypeOK
      <4>2. ASSUME NEW a, tunnels'[u] = [tunnels[u] EXCEPT !.ac = a]
            PROVE  /\ tunnels'[u].link = tunnels[u].link /\ tunnels'[u].lr = tunnels[u].lr
                   /\ tunnels'[u].used = tunnels[u].used
        BY <4>1, <4>2 DEF TunnelRecord
      <4> QED BY <2>1, <4>2
    <3> QED BY <3>1 DEF Keeps, KeeperInv
  <2>4. UNCHANGED <<current, links, openers>>
    BY <1>5 DEF registerTunnel
  <2>5. KeeperInv'
    BY <2>3, <2>4, SameKeepers
  <2> QED BY <2>2, <2>5
<1>6. ASSUME NEW t \in Tunnels, ClaimTunnel(t) \/ ProxyCloses(t) \/ ServeReturns(t) \/ Vanishes(t)
      PROVE TunnelsTypeOK' /\ KeeperInv'
  <2> DEFINE v == tunnels'[t]
  <2>1. /\ v \in TunnelRecord
        /\ tunnels' = [tunnels EXCEPT ![t] = v]
        /\ v.lr # "none" => v.link = tunnels[t].link /\ tunnels[t].lr # "none"
        /\ \A l \in Links : Keeps(t, l)' <=> Keeps(t, l)
    <3>1. CASE ClaimTunnel(t)
      BY <3>1 DEF ClaimTunnel, TunnelsTypeOK, TunnelRecord, Keeps
    <3>2. CASE ProxyCloses(t)
      BY <3>2 DEF ProxyCloses, TunnelsTypeOK, TunnelRecord, Keeps
    <3>3. CASE ServeReturns(t)
      BY <3>3 DEF ServeReturns, TunnelsTypeOK, TunnelRecord, Keeps
    <3>4. CASE Vanishes(t)
      BY <3>4, HostTunnelsAssumption DEF Vanishes, TunnelsTypeOK, TunnelRecord, Keeps, NoTunnel
    <3> QED BY <1>6, <3>1, <3>2, <3>3, <3>4
  <2>2. UNCHANGED <<current, links, openers>> /\ breaks' \in 0 .. MaxBreaks
    BY <1>6, HostTunnelsAssumption DEF ClaimTunnel, ProxyCloses, ServeReturns, Vanishes, Break,
       TunnelsTypeOK, TunnelRecord
  <2> HIDE DEF v
  <2>3. TunnelsTypeOK'
    BY <2>1, <2>2, TunnelChanges DEF TunnelsTypeOK, TunnelRecord
  <2>4. /\ tunnels'[t] = v
        /\ \A u \in Tunnels \ {t} : /\ tunnels'[u] = tunnels[u]
                                    /\ \A l \in Links : Keeps(u, l)' <=> Keeps(u, l)
    BY <2>1, TunnelChanges
  <2>5. \A u \in Tunnels : /\ tunnels'[u].lr # "none" => tunnels'[u].link \in 1 .. links
                           /\ \A l \in Links : Keeps(u, l)' <=> Keeps(u, l)
    BY <2>1, <2>4 DEF KeeperInv
  <2> QED BY <2>2, <2>3, <2>5, SameKeepers
<1>7. ASSUME NEW t \in Tunnels, firstByte(t) \/ openNext(t)
      PROVE TunnelsTypeOK' /\ KeeperInv'
  <2> DEFINE v == tunnels'[t]
  <2> PICK l : l = tunnels[t].link
    OBVIOUS
  <2>1. /\ v \in TunnelRecord
        /\ tunnels' = [tunnels EXCEPT ![t] = v]
        /\ v.link = l /\ tunnels[t].lr \in {"serving", "ended"}
        /\ \A m \in Links : ~Keeps(t, m)'
    <3>1. CASE firstByte(t)
      BY <3>1 DEF firstByte, TunnelsTypeOK, TunnelRecord, Keeps
    <3>2. CASE openNext(t)
      BY <3>2 DEF openNext, TunnelsTypeOK, TunnelRecord, Keeps
    <3> QED BY <1>7, <3>1, <3>2
  <2>2. l \in Links /\ l <= links /\ \A m \in Links : Keeps(t, m) <=> m = l /\ ~tunnels[t].used
    BY <2>1 DEF KeeperInv, TunnelsTypeOK, TunnelRecord, Keeps, Links
  <2>3. UNCHANGED <<current, links, breaks>>
        /\ openers' = IF tunnels[t].used THEN openers ELSE [openers EXCEPT ![l] = @ + 1]
    BY <1>7 DEF firstByte, openNext
  <2> HIDE DEF v
  <2>4. /\ tunnels'[t] = v
        /\ \A u \in Tunnels \ {t} : /\ tunnels'[u] = tunnels[u]
                                    /\ \A m \in Links : Keeps(u, m)' <=> Keeps(u, m)
    BY <2>1, TunnelChanges
  <2>7. \A u \in Tunnels : /\ tunnels'[u].lr # "none" => tunnels'[u].link \in 1 .. links
                           /\ \A m \in Links : Keeps(u, m)' <=> u # t /\ Keeps(u, m)
    BY <2>1, <2>2, <2>4 DEF KeeperInv, TunnelsTypeOK, Links
  <2>5. CASE tunnels[t].used
    <3>1. TunnelsTypeOK'
      BY <2>1, <2>3, <2>5, TunnelChanges DEF TunnelsTypeOK, TunnelRecord
    <3>2. \A u \in Tunnels, m \in Links : Keeps(u, m)' <=> Keeps(u, m)
      BY <2>2, <2>7, <2>5
    <3> QED BY <2>3, <2>7, <2>5, <3>1, <3>2, SameKeepers
  <2>6. CASE ~tunnels[t].used
    <3>1. Keeps(t, l) /\ openers[l] = 0
      BY <2>2, <2>6 DEF KeeperInv
    <3>2. openers'[l] = 1 /\ \A m \in Links \ {l} : openers'[m] = openers[m]
      BY <2>2, <2>3, <2>6, <3>1 DEF TunnelsTypeOK, TunnelRecord
    <3>3. TunnelsTypeOK'
      BY <2>1, <2>2, <2>3, <2>6, <3>2, TunnelChanges, HostTunnelsAssumption DEF TunnelsTypeOK,
         TunnelRecord
    <3>4. \A u \in Tunnels : ~Keeps(u, l)'
      BY <2>2, <2>7, <3>1 DEF KeeperInv
    <3>5. \A u \in Tunnels, m \in Links \ {l} : Keeps(u, m)' <=> Keeps(u, m)
      BY <2>2, <2>7
    <3> QED BY <2>2, <2>3, <2>7, <3>2, <3>3, <3>4, <3>5 DEF KeeperInv, TunnelsTypeOK,
        TunnelRecord, Links
  <2> QED BY <2>5, <2>6
<1>12. CASE UNCHANGED tunnelVars
  BY <1>12 DEF tunnelVars, TunnelsTypeOK, TunnelRecord, KeeperInv, Keeps
<1> QED
  BY <1>1, <1>2, <1>3, <1>4, <1>5, <1>6, <1>7, <1>12 DEF TunnelsNext

\* Counted, the keepers of a link are never more than one.
LEMMA KeepersAreOne == TunnelsTypeOK /\ KeeperInv => OneOpener
<1> SUFFICES ASSUME TunnelsTypeOK, KeeperInv, NEW l \in Links
    PROVE  LET keepers == openers[l] + Cardinality({t \in Tunnels :
                           /\ tunnels[t].link = l /\ ~tunnels[t].used
                           /\ tunnels[t].lr \in {"serving", "ended"}})
           IN keepers <= 1 /\ (current = l => keepers = 1)
  BY DEF OneOpener
<1> DEFINE K == {t \in Tunnels : Keeps(t, l)}
<1>1. K = {t \in Tunnels : /\ tunnels[t].link = l /\ ~tunnels[t].used
                           /\ tunnels[t].lr \in {"serving", "ended"}}
  BY DEF Keeps
<1>2. K \in SUBSET (1 .. MaxTunnels) /\ IsFiniteSet(K)
  <2>1. IsFiniteSet(1 .. MaxTunnels)
    BY FS_Interval, HostTunnelsAssumption
  <2> QED BY <2>1, FS_Subset DEF Tunnels
<1>3. Cardinality(K) \in Nat /\ (Cardinality(K) = 0 <=> K = {})
      /\ (Cardinality(K) <= 1 <=> \A x, y \in K : x = y)
  BY <1>2, AtMostOne
<1>4. openers[l] \in 0 .. 1 /\ (K # {} => openers[l] = 0) /\ (\A x, y \in K : x = y)
      /\ (current = l => openers[l] = 1 \/ K # {})
  BY HostTunnelsAssumption DEF TunnelsTypeOK, TunnelRecord, KeeperInv
<1> HIDE DEF K
<1>5. openers[l] + Cardinality(K) <= 1 /\ (current = l => openers[l] + Cardinality(K) = 1)
  BY <1>3, <1>4
<1> QED BY <1>1, <1>5

-----------------------------------------------------------------------------
(***************************************************************************)
(* Host link.  ConnectedIsReachable speaks of the host and its connection; *)
(* PeerInv adds what AC takes each connection for, so that the end of an   *)
(* old connection cannot be mistaken for the end of the present one        *)
(* (`late` names those where the code does).                               *)
(***************************************************************************)
\* A connection AC has heard nothing of.
Early(c) == conns[c].lr \in {"none", "spawned", "dialing"}

\* AC reads nothing from a connection that is still being made, and the one it
\* reads from and knows the host by is the host's present one, unless another has
\* taken its place while it was still being read.
PeerInv ==
    /\ \A c \in Conns : Early(c) => conns[c].reader # "reading" /\ ~conns[c].known
    /\ \A c \in Conns \ late :
           conns[c].known /\ conns[c].reader = "reading" => peer = c

\* What an action does to connection c alone.
LEMMA ConnChanges ==
  ASSUME HostLinkTypeOK, NEW c \in Conns, NEW v \in ConnRecord,
         conns' = [conns EXCEPT ![c] = v]
  PROVE  /\ conns' \in [Conns -> ConnRecord]
         /\ conns'[c] = v
         /\ \A d \in Conns \ {c} : conns'[d] = conns[d]
  BY DEF HostLinkTypeOK

\* A connection with one field changed is a connection.
LEMMA ConnFields ==
  ASSUME NEW r \in ConnRecord
  PROVE  /\ \A x \in {"none", "spawned", "dialing", "open", "closed", "dropped", "over"} :
                [r EXCEPT !.lr = x] \in ConnRecord
         /\ \A x \in Targets : [r EXCEPT !.to = x] \in ConnRecord
         /\ \A x \in {"none", "reading", "ended"} : [r EXCEPT !.reader = x] \in ConnRecord
         /\ \A x \in BOOLEAN : [r EXCEPT !.cut = x] \in ConnRecord
         /\ \A x \in BOOLEAN : [r EXCEPT !.known = x] \in ConnRecord
         /\ \A x \in {"no", "sent", "read"} : [r EXCEPT !.pushed = x] \in ConnRecord
  BY DEF ConnRecord

\* The slot of a connection that is not there.
LEMMA NoConnIsOne == NoConn \in ConnRecord
  BY DEF NoConn, ConnRecord, Targets

\* No connection, and no host at AC.
LEMMA HostLinkStart == HostLinkInit => HostLinkTypeOK /\ PeerInv
  <1>1. HostLinkInit => HostLinkTypeOK
    <2> SUFFICES ASSUME HostLinkInit PROVE HostLinkTypeOK OBVIOUS
    <2>1. conns \in [Conns -> ConnRecord]
      BY NoConnIsOne DEF HostLinkInit
    <2>2. link \in LinkRecord
      BY DEF HostLinkInit, LinkRecord
    <2>3. retry \in [at : {"off", "trying", "waiting", "finishing"}, target : Targets]
      BY DEF HostLinkInit, Targets
    <2>4. /\ peer \in {None} \cup Conns /\ host \in BOOLEAN /\ late \subseteq Conns
          /\ idle \in {"no", "gave up", "superseded", "intentional", "finishing"}
      BY DEF HostLinkInit
    <2>5. ops \in 0 .. MaxOps /\ faults \in 0 .. MaxFaults
      BY HostLinkAssumption DEF HostLinkInit
    <2> QED BY <2>1, <2>2, <2>3, <2>4, <2>5 DEF HostLinkTypeOK
  <1>2. HostLinkInit => PeerInv
    BY DEF HostLinkInit, PeerInv, NoConn
  <1> QED BY <1>1, <1>2

\* Closing the client.
LEMMA ShutSteady ==
  ASSUME HostLinkTypeOK
  PROVE  /\ Shut(conns, link.client) \in [Conns -> ConnRecord]
         /\ \A c \in Conns : LET v == Shut(conns, link.client)[c]
            IN  /\ v.known = conns[c].known /\ v.reader = conns[c].reader
                /\ v.lr # conns[c].lr => v.lr = "closed"
<1>1. CASE link.client # None /\ conns[link.client].lr = "open"
  <2>1. link.client \in Conns
    BY <1>1 DEF HostLinkTypeOK, LinkRecord
  <2>2. [conns[link.client] EXCEPT !.lr = "closed"] \in ConnRecord
    BY <2>1, ConnFields DEF HostLinkTypeOK
  <2>3. Shut(conns, link.client) = [conns EXCEPT ![link.client] = [conns[link.client] EXCEPT !.lr = "closed"]]
    BY <1>1, <2>1 DEF Shut, HostLinkTypeOK
  <2> SUFFICES ASSUME NEW c \in Conns
      PROVE  LET v == Shut(conns, link.client)[c]
             IN  /\ v.known = conns[c].known /\ v.reader = conns[c].reader
                 /\ v.lr # conns[c].lr => v.lr = "closed"
    BY <2>1, <2>2, <2>3 DEF HostLinkTypeOK
  <2>4. CASE c = link.client
    <3>1. Shut(conns, link.client)[c] = [conns[c] EXCEPT !.lr = "closed"]
      BY <2>1, <2>3, <2>4 DEF HostLinkTypeOK
    <3>2. conns[c] \in ConnRecord
      BY DEF HostLinkTypeOK
    <3>3. \A x : x = [conns[c] EXCEPT !.lr = "closed"] =>
              x.known = conns[c].known /\ x.reader = conns[c].reader /\ x.lr = "closed"
      BY <3>2 DEF ConnRecord
    <3>4. Shut(conns, link.client) \in [Conns -> ConnRecord]
      BY <2>1, <2>2, <2>3 DEF HostLinkTypeOK
    <3> QED BY <3>1, <3>3, <3>4
  <2>5. CASE c # link.client
    BY <1>1, <2>1, <2>2, <2>3, <2>5 DEF HostLinkTypeOK
  <2> QED BY <2>4, <2>5
<1>2. CASE ~(link.client # None /\ conns[link.client].lr = "open")
  BY <1>2 DEF Shut, HostLinkTypeOK
<1> QED BY <1>1, <1>2

\* An action that changes connection c alone, and nothing AC keeps.
LEMMA OneConn ==
  ASSUME HostLinkTypeOK, PeerInv, NEW c \in Conns, NEW v \in ConnRecord,
         conns' = [conns EXCEPT ![c] = v], UNCHANGED ACSide,
         v.known => conns[c].known /\ (v.reader = "reading" => conns[c].reader = "reading"),
         v.lr \in {"none", "spawned", "dialing"} => v.reader # "reading" /\ ~v.known
  PROVE  conns' \in [Conns -> ConnRecord] /\ PeerInv'
<1>1. /\ conns' \in [Conns -> ConnRecord]
      /\ conns'[c] = v
      /\ \A d \in Conns \ {c} : conns'[d] = conns[d]
  BY ConnChanges
<1> QED BY <1>1 DEF PeerInv, Early, ACSide

\* A connection attempt is spawned.
LEMMA SpawnKeeps ==
  ASSUME HostLinkTypeOK, PeerInv, NEW t \in Targets, Spawn(t), UNCHANGED ACSide
  PROVE  conns' \in [Conns -> ConnRecord] /\ PeerInv'
<1>1. PICK c \in Unused : conns' = [conns EXCEPT ![c].lr = "spawned", ![c].to = t]
  BY DEF Spawn
<1>2. c \in Conns /\ Early(c)
  BY DEF Unused, Early
<1>3. PICK v : v = [conns[c] EXCEPT !.lr = "spawned", !.to = t]
  OBVIOUS
<1>4. v = [[conns[c] EXCEPT !.lr = "spawned"] EXCEPT !.to = t] /\ conns[c] \in ConnRecord
  BY <1>2, <1>3 DEF HostLinkTypeOK, ConnRecord
<1>5. v \in ConnRecord
  BY <1>4, ConnFields
<1>6. conns' = [conns EXCEPT ![c] = v]
  BY <1>1, <1>2, <1>3 DEF HostLinkTypeOK
<1>7. v.known = conns[c].known /\ v.reader = conns[c].reader
  BY <1>4 DEF ConnRecord
<1> QED BY <1>2, <1>5, <1>6, <1>7, OneConn DEF PeerInv

\* Conns is left alone, or the client is closed.
LEMMA ShutKeeps ==
  ASSUME HostLinkTypeOK, PeerInv, UNCHANGED ACSide,
         conns' = conns \/ conns' = Shut(conns, link.client)
  PROVE  conns' \in [Conns -> ConnRecord] /\ PeerInv'
<1>1. ASSUME NEW c \in Conns
      PROVE  conns'[c].known = conns[c].known /\ conns'[c].reader = conns[c].reader
             /\ (Early(c)' => Early(c))
  BY ShutSteady DEF Early
<1>2. conns' \in [Conns -> ConnRecord]
  BY ShutSteady DEF HostLinkTypeOK
<1> QED BY <1>1, <1>2 DEF PeerInv, ACSide

\* The operator's doings and the faults are bounded.
LEMMA OpsCounted ==
  ASSUME HostLinkTypeOK
  PROVE  (Op => ops' \in 0 .. MaxOps) /\ (Fault => faults' \in 0 .. MaxFaults)
<1>1. ops \in 0 .. MaxOps /\ faults \in 0 .. MaxFaults
  BY DEF HostLinkTypeOK
<1>2. MaxOps \in Nat /\ MaxFaults \in Nat
  BY HostLinkAssumption
<1> QED BY <1>1, <1>2 DEF Op, Fault

\* The operator connects, disconnects, or turns auto-connect on and off.
LEMMA OperatorKeeps ==
  ASSUME HostLinkTypeOK, PeerInv,
         \/ \E t \in Targets : ConnectByHand(t)
         \/ disconnectAC \/ \E on \in BOOLEAN : setAutoConnectAC(on)
  PROVE  HostLinkTypeOK' /\ PeerInv'
<1>1. ops' \in 0 .. MaxOps /\ UNCHANGED ACSide /\ faults' = faults
  <2> QED BY OpsCounted DEF ConnectByHand, disconnectAC, setAutoConnectAC, ACSide
<1>2. conns' \in [Conns -> ConnRecord] /\ PeerInv'
  BY <1>1, SpawnKeeps, ShutKeeps DEF ConnectByHand, disconnectAC, setAutoConnectAC
<1>3. Off \in [at : {"off", "trying", "waiting", "finishing"}, target : Targets]
  BY DEF Off, Targets
<1>4. LastTarget \in Targets
  BY DEF LastTarget, HostLinkTypeOK, LinkRecord, Targets
<1>5. ASSUME NEW l \in LinkRecord, NEW t \in Targets, startAutoConnectAC(l, t)
      PROVE  /\ link' \in LinkRecord
             /\ retry' \in [at : {"off", "trying", "waiting", "finishing"}, target : Targets]
             /\ idle' \in {"no", "gave up", "superseded", "intentional", "finishing"}
  BY <1>5 DEF startAutoConnectAC, LinkRecord, HostLinkTypeOK
<1>6. /\ link' \in LinkRecord
      /\ retry' \in [at : {"off", "trying", "waiting", "finishing"}, target : Targets]
      /\ idle' \in {"no", "gave up", "superseded", "intentional", "finishing"}
  <2>1. CASE \E t \in Targets : ConnectByHand(t)
    BY <2>1, <1>3 DEF ConnectByHand, stopAutoConnectAC, HostLinkTypeOK
  <2>2. CASE disconnectAC
    <3>1. link' = [[link EXCEPT !.enabled = FALSE] EXCEPT !.intentional = link.intentional \/ link.client # None]
      BY <2>2 DEF disconnectAC, HostLinkTypeOK, LinkRecord
    <3>2. [link EXCEPT !.enabled = FALSE] \in LinkRecord
      BY DEF HostLinkTypeOK, LinkRecord
    <3>3. (link.intentional \/ link.client # None) \in BOOLEAN
      OBVIOUS
    <3>4. \A r \in LinkRecord, b \in BOOLEAN : [r EXCEPT !.intentional = b] \in LinkRecord
      BY DEF LinkRecord
    <3>5. link' \in LinkRecord
      BY <3>1, <3>2, <3>3, <3>4
    <3> QED BY <2>2, <1>3, <3>5 DEF disconnectAC, stopAutoConnectAC
  <2>3. CASE \E on \in BOOLEAN : setAutoConnectAC(on)
    BY <2>3, <1>3, <1>4, <1>5 DEF setAutoConnectAC, stopAutoConnectAC, HostLinkTypeOK, LinkRecord
  <2> QED BY <2>1, <2>2, <2>3
<1> QED BY <1>1, <1>2, <1>6 DEF HostLinkTypeOK, ACSide

\* The auto-connect loop.
LEMMA RetryKeeps ==
  ASSUME HostLinkTypeOK, PeerInv, RetryLoop \/ RetryEnds
  PROVE  HostLinkTypeOK' /\ PeerInv'
<1>1. Fault => faults' \in 0 .. MaxFaults
  BY OpsCounted
<1>2. UNCHANGED <<link, ACSide, ops>> /\ faults' \in 0 .. MaxFaults
  BY <1>1 DEF RetryLoop, RetryEnds, autoConnectAC, HostLinkTypeOK, ACSide
<1>3. /\ retry' \in [at : {"off", "trying", "waiting", "finishing"}, target : Targets]
      /\ idle' \in {"no", "gave up", "superseded", "intentional", "finishing"}
  <2>1. \A x \in {"trying", "waiting", "finishing"} :
            [retry EXCEPT !.at = x] \in [at : {"off", "trying", "waiting", "finishing"}, target : Targets]
    BY DEF HostLinkTypeOK
  <2>2. Off \in [at : {"off", "trying", "waiting", "finishing"}, target : Targets]
    BY DEF Off, Targets
  <2>3. CASE RetryEnds
    BY <2>2, <2>3 DEF RetryEnds, HostLinkTypeOK
  <2>4. CASE RetryLoop
    <3>1. idle' \in {"no", "gave up", "superseded", "intentional", "finishing"}
      BY <2>4 DEF RetryLoop, autoConnectAC, HostLinkTypeOK
    <3>2. \E x \in {"trying", "waiting", "finishing"} : retry' = [retry EXCEPT !.at = x]
      BY <2>4 DEF RetryLoop, autoConnectAC
    <3> QED BY <2>1, <3>1, <3>2
  <2> QED BY <2>3, <2>4
<1>4. conns' = conns \/ Spawn(retry.target)
  BY DEF RetryLoop, RetryEnds, autoConnectAC
<1>5. retry.target \in Targets
  BY DEF HostLinkTypeOK
<1>6. conns' \in [Conns -> ConnRecord] /\ PeerInv'
  BY <1>2, <1>4, <1>5, SpawnKeeps, ShutKeeps DEF ACSide
<1> QED BY <1>2, <1>3, <1>6 DEF HostLinkTypeOK, ACSide

\* A dial, and what comes of it.
LEMMA AttemptKeeps ==
  ASSUME HostLinkTypeOK, PeerInv, NEW c \in Conns,
         connectAC(c) \/ DialFails(c) \/ Connected(c)
  PROVE  HostLinkTypeOK' /\ PeerInv'
<1>1. CASE connectAC(c)
  <2>1. /\ Shut(conns, link.client) \in [Conns -> ConnRecord]
        /\ \A d \in Conns : LET v == Shut(conns, link.client)[d]
                            IN  /\ v.known = conns[d].known /\ v.reader = conns[d].reader
                                /\ v.lr # conns[d].lr => v.lr = "closed"
    BY ShutSteady
  <2>2. PICK s \in [Conns -> ConnRecord] : s = Shut(conns, link.client)
    BY <2>1
  <2>3. [s[c] EXCEPT !.lr = "dialing"] \in ConnRecord
    BY ConnFields
  <2>4. conns' = [s EXCEPT ![c] = [s[c] EXCEPT !.lr = "dialing"]]
    BY <1>1, <2>2 DEF connectAC
  <2>5. conns' \in [Conns -> ConnRecord]
    BY <2>3, <2>4
  <2>6. Early(c)
    BY <1>1 DEF connectAC, Early
  <2>7. \A d \in Conns : conns'[d].known = conns[d].known /\ conns'[d].reader = conns[d].reader
    BY <2>1, <2>2, <2>4 DEF ConnRecord
  <2>8. \A d \in Conns : Early(d)' => Early(d)
    BY <2>1, <2>2, <2>4, <2>6 DEF Early
  <2>9. UNCHANGED <<retry, ACSide, ops, faults>>
    BY <1>1 DEF connectAC
  <2>10. PeerInv'
    BY <2>7, <2>8, <2>9 DEF PeerInv, ACSide
  <2>11. link' = [[link EXCEPT !.client = None] EXCEPT !.target = conns[c].to]
    BY <1>1 DEF connectAC, HostLinkTypeOK, LinkRecord
  <2>12. link' \in LinkRecord
    <3>1. [link EXCEPT !.client = None] \in LinkRecord
      BY DEF HostLinkTypeOK, LinkRecord
    <3>2. \A r \in LinkRecord, x \in Targets : [r EXCEPT !.target = x] \in LinkRecord
      BY DEF LinkRecord
    <3> QED BY <3>1, <3>2, <2>11 DEF HostLinkTypeOK, ConnRecord
  <2>13. idle' \in {"no", "gave up", "superseded", "intentional", "finishing"}
    BY <1>1 DEF connectAC, HostLinkTypeOK
  <2> QED BY <2>5, <2>9, <2>10, <2>12, <2>13 DEF HostLinkTypeOK, ACSide
<1>2. CASE DialFails(c)
  <2>1. conns' \in [Conns -> ConnRecord] /\ PeerInv'
    BY <1>2, NoConnIsOne, OneConn DEF DialFails, NoConn
  <2>2. Fault => faults' \in 0 .. MaxFaults
    BY OpsCounted
  <2> QED BY <1>2, <2>1, <2>2 DEF DialFails, HostLinkTypeOK, ACSide
<1>3. CASE Connected(c)
  <2>1. PICK x \in {"over", "open"} : conns' = [conns EXCEPT ![c].lr = x, ![c].reader = "reading"]
    BY <1>3 DEF Connected
  <2>2. PICK v : v = [[conns[c] EXCEPT !.lr = x] EXCEPT !.reader = "reading"]
    OBVIOUS
  <2>3. conns[c] \in ConnRecord
    BY DEF HostLinkTypeOK
  <2>4. v \in ConnRecord
    BY <2>2, <2>3, ConnFields
  <2>5. conns' = [conns EXCEPT ![c] = v]
    BY <2>1, <2>2 DEF HostLinkTypeOK, ConnRecord
  <2>6. ~conns[c].known
    BY <1>3 DEF Connected, PeerInv, Early
  <2>7. v.known = conns[c].known /\ v.lr = x
    BY <2>2, <2>3 DEF ConnRecord
  <2>8. UNCHANGED <<retry, ACSide, ops, faults, idle>>
    BY <1>3 DEF Connected
  <2>9. conns' \in [Conns -> ConnRecord] /\ PeerInv'
    BY <2>4, <2>5, <2>6, <2>7, <2>8, OneConn
  <2>10. link' \in LinkRecord
    BY <1>3 DEF Connected, HostLinkTypeOK, LinkRecord
  <2> QED BY <2>8, <2>9, <2>10 DEF HostLinkTypeOK, ACSide
<1> QED BY <1>1, <1>2, <1>3

\* What LR does with a connection it has.
LEMMA ConnectionKeeps ==
  ASSUME HostLinkTypeOK, PeerInv, NEW c \in Conns,
         \/ pushStateToAC(c) \/ Breaks(c) \/ readLoopEnds(c) \/ TearDown(c) \/ Resume(c)
  PROVE  HostLinkTypeOK' /\ PeerInv'
<1>1. conns[c] \in ConnRecord
  BY DEF HostLinkTypeOK
<1>2. PICK v \in ConnRecord :
          /\ conns' = [conns EXCEPT ![c] = v]
          /\ v.known = conns[c].known /\ v.reader = conns[c].reader
          /\ v.lr \in {"none", "spawned", "dialing"} => v.lr = conns[c].lr
  <2>1. ASSUME NEW x \in {"open", "closed", "dropped", "over"}, NEW w,
               w = [conns[c] EXCEPT !.lr = x]
        PROVE  w \in ConnRecord /\ w.known = conns[c].known /\ w.reader = conns[c].reader /\ w.lr = x
    <3>1. w \in ConnRecord
      BY <2>1, <1>1, ConnFields
    <3>2. w.known = conns[c].known /\ w.reader = conns[c].reader /\ w.lr = x
      BY <2>1, <1>1 DEF ConnRecord
    <3> QED BY <3>1, <3>2
  <2>2. CASE \E x \in {"open", "closed", "dropped", "over"} :
                 conns' = [conns EXCEPT ![c] = [conns[c] EXCEPT !.lr = x]]
    <3>1. PICK x \in {"open", "closed", "dropped", "over"} :
              conns' = [conns EXCEPT ![c] = [conns[c] EXCEPT !.lr = x]]
      BY <2>2
    <3>2. PICK w : w = [conns[c] EXCEPT !.lr = x]
      OBVIOUS
    <3>3. w \in ConnRecord /\ w.known = conns[c].known /\ w.reader = conns[c].reader /\ w.lr = x
      BY <2>1, <3>2
    <3> QED BY <3>1, <3>2, <3>3
  <2>3. CASE pushStateToAC(c)
    <3>1. [conns[c] EXCEPT !.pushed = "sent"] \in ConnRecord
      BY <1>1, ConnFields
    <3> QED BY <1>1, <2>3, <3>1 DEF pushStateToAC, ConnRecord
  <2>4. CASE Breaks(c)
    <3>1. [conns[c] EXCEPT !.cut = TRUE] \in ConnRecord
      BY <1>1, ConnFields
    <3> QED BY <1>1, <2>4, <3>1 DEF Breaks, ConnRecord
  <2>5. CASE readLoopEnds(c)
    BY <2>2, <2>5 DEF readLoopEnds
  <2>6. CASE TearDown(c)
    BY <2>2, <2>6 DEF TearDown
  <2>7. CASE Resume(c)
    BY <2>2, <2>7 DEF Resume
  <2> QED BY <2>3, <2>4, <2>5, <2>6, <2>7
<1>3. UNCHANGED <<ACSide, ops>> /\ faults' \in 0 .. MaxFaults
  <2>1. Fault => faults' \in 0 .. MaxFaults
    BY OpsCounted
  <2>2. faults \in 0 .. MaxFaults
    BY DEF HostLinkTypeOK
  <2> QED BY <2>1, <2>2 DEF pushStateToAC, Breaks, readLoopEnds, TearDown, Resume, ACSide
<1>4. conns' \in [Conns -> ConnRecord] /\ PeerInv'
  BY <1>2, <1>3, OneConn DEF PeerInv, Early
<1>5. /\ link' \in LinkRecord
      /\ retry' \in [at : {"off", "trying", "waiting", "finishing"}, target : Targets]
      /\ idle' \in {"no", "gave up", "superseded", "intentional", "finishing"}
  <2>1. CASE TearDown(c)
    <3>1. link' = link \/ link' = [[link EXCEPT !.client = None] EXCEPT !.intentional = FALSE]
      BY <2>1 DEF TearDown, HostLinkTypeOK, LinkRecord
    <3>2. [link EXCEPT !.client = None] \in LinkRecord
      BY DEF HostLinkTypeOK, LinkRecord
    <3>3. \A r \in LinkRecord : [r EXCEPT !.intentional = FALSE] \in LinkRecord
      BY DEF LinkRecord
    <3> QED BY <2>1, <3>1, <3>2, <3>3 DEF TearDown, HostLinkTypeOK
  <2>2. CASE Resume(c)
    <3>1. conns[c].to \in Targets
      BY <1>1 DEF ConnRecord
    <3>2. CASE link.enabled
      <4>1. [link EXCEPT !.enabled = TRUE] \in LinkRecord
        BY DEF HostLinkTypeOK, LinkRecord
      <4>2. [at |-> "trying", target |-> conns[c].to]
                \in [at : {"off", "trying", "waiting", "finishing"}, target : Targets]
        BY <3>1
      <4> QED BY <2>2, <3>2, <4>1, <4>2 DEF Resume, startAutoConnectAC, HostLinkTypeOK
    <3>3. CASE ~link.enabled
      BY <2>2, <3>3 DEF Resume, HostLinkTypeOK
    <3> QED BY <3>2, <3>3
  <2>3. CASE pushStateToAC(c) \/ Breaks(c) \/ readLoopEnds(c)
    BY <2>3 DEF pushStateToAC, Breaks, readLoopEnds, HostLinkTypeOK
  <2> QED BY <2>1, <2>2, <2>3
<1> QED BY <1>3, <1>4, <1>5 DEF HostLinkTypeOK, ACSide

\* A message makes c the host's connection, if none came over it before.
LEMMA MessageKeeps ==
  ASSUME HostLinkTypeOK, PeerInv, NEW c \in Conns, Heartbeat(c) \/ HostData(c)
  PROVE  HostLinkTypeOK' /\ PeerInv'
<1>1. conns[c] \in ConnRecord /\ conns[c].reader = "reading"
  BY DEF HostLinkTypeOK, Heartbeat, HostData, Arrives
<1>2. PICK v \in ConnRecord : /\ conns' = [conns EXCEPT ![c] = v]
                              /\ v.known /\ v.reader = conns[c].reader /\ v.lr = conns[c].lr
  <2>1. [conns[c] EXCEPT !.known = TRUE] \in ConnRecord
    BY <1>1, ConnFields
  <2>2. CASE Heartbeat(c)
    BY <1>1, <2>1, <2>2 DEF Heartbeat, ConnRecord
  <2>3. CASE HostData(c)
    <3>1. PICK v : v = [[conns[c] EXCEPT !.known = TRUE] EXCEPT !.pushed = "read"]
      OBVIOUS
    <3>2. v \in ConnRecord
      BY <2>1, <3>1, ConnFields
    <3>3. v.known /\ v.reader = conns[c].reader /\ v.lr = conns[c].lr
      BY <1>1, <3>1 DEF ConnRecord
    <3>4. conns' = [conns EXCEPT ![c] = v]
      BY <1>1, <2>3, <3>1 DEF HostData, HostLinkTypeOK, ConnRecord
    <3> QED BY <3>2, <3>3, <3>4
  <2> QED BY <2>2, <2>3
<1>3. /\ conns' \in [Conns -> ConnRecord] /\ conns'[c] = v
      /\ \A d \in Conns \ {c} : conns'[d] = conns[d]
  BY <1>2, ConnChanges
<1>4. /\ peer' = (IF conns[c].known THEN peer ELSE c)
      /\ late' = (IF conns[c].known THEN late ELSE late \cup {d \in Conns \ {c} : conns[d].known})
      /\ UNCHANGED <<link, retry, ops, faults, idle>> /\ host' \in BOOLEAN
  BY DEF Heartbeat, HostData, setConn, Others, HostLinkTypeOK
<1>5. PeerInv'
  <2>1. \A d \in Conns : Early(d)' => conns'[d].reader # "reading" /\ ~conns'[d].known
    BY <1>1, <1>2, <1>3 DEF PeerInv, Early
  <2>2. ASSUME NEW d \in Conns \ late', conns'[d].known, conns'[d].reader = "reading"
        PROVE  peer' = d
    BY <1>1, <1>2, <1>3, <1>4, <2>2 DEF PeerInv
  <2> QED BY <2>1, <2>2 DEF PeerInv
<1>6. peer' \in {None} \cup Conns /\ late' \subseteq Conns
  BY <1>4 DEF HostLinkTypeOK
<1> QED BY <1>3, <1>4, <1>5, <1>6 DEF HostLinkTypeOK

\* AC's reader of a connection ends, and the connection is forgotten.
LEMMA EndKeeps ==
  ASSUME HostLinkTypeOK, PeerInv, NEW c \in Conns, handleConnEnds(c) \/ Forgotten(c)
  PROVE  HostLinkTypeOK' /\ PeerInv'
<1>1. conns[c] \in ConnRecord
  BY DEF HostLinkTypeOK
<1>2. CASE handleConnEnds(c)
  <2>1. PICK v \in ConnRecord : /\ conns' = [conns EXCEPT ![c] = v]
                                /\ v.known = conns[c].known /\ v.reader = "ended" /\ v.lr = conns[c].lr
    <3>1. [conns[c] EXCEPT !.reader = "ended"] \in ConnRecord
      BY <1>1, ConnFields
    <3> QED BY <1>1, <1>2, <3>1 DEF handleConnEnds, ConnRecord
  <2>2. /\ conns' \in [Conns -> ConnRecord] /\ conns'[c] = v
        /\ \A d \in Conns \ {c} : conns'[d] = conns[d]
    BY <2>1, ConnChanges
  <2>3. /\ late' = (IF conns[c].known THEN late \cup {d \in Conns \ {c} : conns[d].known} ELSE late)
        /\ ~conns[c].known => peer' = peer /\ host' = host
        /\ conns[c].known => peer' = None /\ host' = FALSE
        /\ UNCHANGED <<link, retry, ops, faults, idle>>
    BY <1>2 DEF handleConnEnds, ACSide, Others
  <2>4. PeerInv'
    BY <2>1, <2>2, <2>3 DEF PeerInv, Early
  <2>5. peer' \in {None} \cup Conns /\ late' \subseteq Conns /\ host' \in BOOLEAN
    BY <2>3 DEF HostLinkTypeOK
  <2> QED BY <2>2, <2>3, <2>4, <2>5 DEF HostLinkTypeOK
<1>3. CASE Forgotten(c)
  <2>1. /\ conns' \in [Conns -> ConnRecord] /\ conns'[c] = NoConn
        /\ \A d \in Conns \ {c} : conns'[d] = conns[d]
    BY <1>3, NoConnIsOne, ConnChanges DEF Forgotten
  <2>2. late' = late \ {c} /\ UNCHANGED <<link, retry, peer, host, ops, faults, idle>>
    BY <1>3 DEF Forgotten
  <2>3. PeerInv'
    BY <2>1, <2>2 DEF PeerInv, Early, NoConn
  <2> QED BY <2>1, <2>2, <2>3 DEF HostLinkTypeOK
<1> QED BY <1>2, <1>3

\* What LR and AC do with the connection between them.
LEMMA HostLinkKept ==
  ASSUME HostLinkTypeOK, PeerInv, [HostLinkNext]_hostLinkVars
  PROVE  HostLinkTypeOK' /\ PeerInv'
<1>1. CASE UNCHANGED hostLinkVars
  BY <1>1 DEF hostLinkVars, HostLinkTypeOK, PeerInv, Early
<1> QED
  BY <1>1, OperatorKeeps, RetryKeeps, AttemptKeeps, ConnectionKeeps, MessageKeeps, EndKeeps
  DEF HostLinkNext

\* A host shown as connected has a connection that is read.
LEMMA PeerIsReachable == HostLinkTypeOK /\ PeerInv => ConnectedIsReachable
<1>1. \A c \in Conns : c # None
  BY HostLinkAssumption DEF None, Conns
<1> QED BY <1>1 DEF PeerInv, ConnectedIsReachable

-----------------------------------------------------------------------------
(***************************************************************************)
(* Repository watch.  BuiltWasMade compares what the watch takes as built  *)
(* with what was made.  Between the two lies the make itself, so BuildInv  *)
(* follows a build from its start over its end to the note the watch takes *)
(* of it.                                                                  *)
(***************************************************************************)
\* A make is the watch's exactly when the watch waits for it; until the watch has
\* taken note of it, HEAD is where it began unless the tree was changed under it;
\* and what the watch took note of last is what it takes for built.
BuildInv ==
    /\ op.at = "making" <=> make = "watch"
    /\ op.at \in {"making", "made"} /\ ~stirred => head = op.from
    /\ lastMade # NoHead => watch.builtHead = lastMade

\* The repository with one field changed.
LEMMA RepoFields ==
  ASSUME NEW r \in RepoRecord, NEW b \in BOOLEAN
  PROVE  /\ [r EXCEPT !.dirty = b] \in RepoRecord
         /\ [r EXCEPT !.behind = b] \in RepoRecord
         /\ [r EXCEPT !.ahead = b] \in RepoRecord
         /\ [r EXCEPT !.condoc = b] \in RepoRecord
         /\ [r EXCEPT !.building = b] \in RepoRecord
         /\ [r EXCEPT !.rebase = b] \in RepoRecord
         /\ \A x \in Branches : [r EXCEPT !.branch = x] \in RepoRecord
         /\ \A x \in Branches, h \in Heads : [r EXCEPT !.tips[x] = h] \in RepoRecord
  BY DEF RepoRecord

\* The watch with one field changed.
LEMMA WatchFields ==
  ASSUME NEW w \in WatchRecord
  PROVE  /\ \A h \in Heads : /\ [w EXCEPT !.request = h] \in WatchRecord
                             /\ [w EXCEPT !.built = h] \in WatchRecord
                             /\ [w EXCEPT !.failed = h] \in WatchRecord
         /\ \A b \in BOOLEAN : /\ [w EXCEPT !.dirty = b] \in WatchRecord
                               /\ [w EXCEPT !.building = b] \in WatchRecord
                               /\ [w EXCEPT !.auto = b] \in WatchRecord
         /\ \A x \in {"off", "counting", "over"} : /\ [w EXCEPT !.grace = x] \in WatchRecord
                                                   /\ [w EXCEPT !.debounce = x] \in WatchRecord
         /\ \A h \in Heads \cup {NoHead} : /\ [w EXCEPT !.head = h] \in WatchRecord
                                           /\ [w EXCEPT !.builtHead = h] \in WatchRecord
                                           /\ [w EXCEPT !.readAt = h] \in WatchRecord
                                           /\ [w EXCEPT !.armedHead = h] \in WatchRecord
  BY DEF WatchRecord

\* The operation in hand with one field changed.
LEMMA OpFields ==
  ASSUME NEW o \in OpRecord
  PROVE  /\ \A x \in {"free", "polling", "polled", "making", "made"} : [o EXCEPT !.at = x] \in OpRecord
         /\ \A x \in {"watch", "operator"} : [o EXCEPT !.by = x] \in OpRecord
         /\ \A x \in {"none", "ff", "rebase"} : [o EXCEPT !.pull = x] \in OpRecord
         /\ \A x \in Heads : [o EXCEPT !.from = x] \in OpRecord
         /\ \A x \in BOOLEAN : [o EXCEPT !.ok = x] \in OpRecord
         /\ Released \in OpRecord
<1>1. 0 \in Heads
  BY RepoWatchAssumption DEF Heads
<1> QED BY <1>1 DEF OpRecord, Released

\* maybeFinishBuild says nothing of what was built.
LEMMA FinishBuild ==
  ASSUME NEW w \in WatchRecord
  PROVE  maybeFinishBuild(w) \in WatchRecord /\ maybeFinishBuild(w).builtHead = w.builtHead
<1>1. maybeFinishBuild(w).builtHead = w.builtHead
  BY DEF maybeFinishBuild, WatchRecord
<1>2. [[w EXCEPT !.building = TRUE] EXCEPT !.grace = "off"] \in WatchRecord
      /\ [[w EXCEPT !.building = FALSE] EXCEPT !.grace = "off"] \in WatchRecord
      /\ [w EXCEPT !.grace = "counting"] \in WatchRecord
  BY WatchFields
<1>3. /\ [w EXCEPT !.building = TRUE, !.grace = "off"]
            = [[w EXCEPT !.building = TRUE] EXCEPT !.grace = "off"]
      /\ [w EXCEPT !.building = FALSE, !.grace = "off"]
            = [[w EXCEPT !.building = FALSE] EXCEPT !.grace = "off"]
  BY DEF WatchRecord
<1>4. maybeFinishBuild(w) \in WatchRecord
  BY <1>2, <1>3 DEF maybeFinishBuild
<1> QED BY <1>1, <1>4

\* Nor does calling the automatic rebuild off,
LEMMA Disarm ==
  ASSUME NEW w \in WatchRecord
  PROVE  Disarmed(w) \in WatchRecord /\ Disarmed(w).builtHead = w.builtHead
<1>1. [[w EXCEPT !.debounce = "off"] EXCEPT !.armedHead = NoHead] \in WatchRecord
  BY WatchFields
<1>2. Disarmed(w) = [[w EXCEPT !.debounce = "off"] EXCEPT !.armedHead = NoHead]
  BY DEF Disarmed, WatchRecord
<1>3. Disarmed(w).builtHead = w.builtHead
  BY DEF Disarmed, WatchRecord
<1> QED BY <1>1, <1>2, <1>3

\* nor arming it.
LEMMA AutoRebuild ==
  ASSUME NEW w \in WatchRecord
  PROVE  maybeAutoRebuild(w) \in WatchRecord /\ maybeAutoRebuild(w).builtHead = w.builtHead
<1>1. PICK v : v = [[w EXCEPT !.debounce = "counting"] EXCEPT !.armedHead = w.head]
  OBVIOUS
<1>2. w.head \in Heads \cup {NoHead}
  BY DEF WatchRecord
<1>3. v \in WatchRecord
  BY <1>1, <1>2, WatchFields
<1>4. v = [w EXCEPT !.debounce = "counting", !.armedHead = w.head] /\ v.builtHead = w.builtHead
  BY <1>1 DEF WatchRecord
<1> QED BY <1>3, <1>4, Disarm DEF maybeAutoRebuild

\* Nor does reading the request.
LEMMA RefreshKeeps ==
  ASSUME NEW w \in WatchRecord, NEW found \in Heads
  PROVE  refreshUfabuild(w, found) \in WatchRecord /\ refreshUfabuild(w, found).builtHead = w.builtHead
<1>1. w.head \in Heads \cup {NoHead}
  BY DEF WatchRecord
<1>2. [[w EXCEPT !.request = found] EXCEPT !.readAt = w.head] \in WatchRecord
  BY <1>1, WatchFields
<1>3. [w EXCEPT !.request = found, !.readAt = w.head]
      = [[w EXCEPT !.request = found] EXCEPT !.readAt = w.head]
  BY DEF WatchRecord
<1>4. refreshUfabuild(w, found).builtHead = w.builtHead
  BY DEF refreshUfabuild, WatchRecord
<1> QED BY <1>2, <1>3, <1>4 DEF refreshUfabuild

\* The watch a new LR makes.
LEMMA NewWatch ==
  ASSUME NEW r \in RepoRecord, NEW reqs \in [Heads -> Heads], NEW auto \in BOOLEAN
  PROVE  newRepoWatch(r, reqs, auto) \subseteq WatchRecord
<1>1. r.tips[r.branch] \in Heads /\ r.building \in BOOLEAN
  BY DEF RepoRecord
<1>2. reqs[r.tips[r.branch]] \in Heads /\ 0 \in Heads
  BY <1>1, RepoWatchAssumption DEF Heads
<1>3. ASSUME NEW h \in Heads \cup {NoHead}, NEW q \in Heads
      PROVE  [head |-> h, builtHead |-> h, dirty |-> FALSE, building |-> r.building,
              grace |-> "off", auto |-> auto, debounce |-> "off", armedHead |-> NoHead,
              request |-> q, readAt |-> h, built |-> q, failed |-> 0] \in WatchRecord
  BY <1>1, <1>2 DEF WatchRecord
<1>4. {r.tips[r.branch], NoHead} \subseteq Heads \cup {NoHead}
      /\ {reqs[r.tips[r.branch]], 0} \subseteq Heads
  BY <1>1, <1>2
<1> QED BY <1>3, <1>4 DEF newRepoWatch

\* Nothing has been made, and nobody is making.
LEMMA RepoStart == RepoWatchInit => RepoWatchTypeOK /\ BuildInv
<1> SUFFICES ASSUME RepoWatchInit PROVE RepoWatchTypeOK /\ BuildInv
  OBVIOUS
<1>1. 0 \in Heads /\ NoHead \notin Heads
  BY RepoWatchAssumption DEF Heads, NoHead
<1>2. repo \in RepoRecord
  BY <1>1 DEF RepoWatchInit, RepoRecord, Branches
<1>3. watch \in WatchRecord
  BY <1>1, <1>2, NewWatch DEF RepoWatchInit
<1>4. op \in OpRecord /\ make = NoMake /\ op.at = "free"
  BY <1>1 DEF RepoWatchInit, OpRecord, Released
<1>5. events \in 0 .. MaxEvents
  BY RepoWatchAssumption DEF RepoWatchInit
<1>6. /\ requestOf \in [Heads -> Heads] /\ lastHead \in Heads /\ ufabuildWatch \in BOOLEAN
      /\ lastMade \in Heads \cup {NoHead} /\ stirred \in BOOLEAN /\ lastMade = NoHead
  BY <1>1 DEF RepoWatchInit
<1> QED BY <1>2, <1>3, <1>4, <1>5, <1>6 DEF RepoWatchTypeOK, BuildInv, NoMake

\* The commit that comes next.
LEMMA AdvanceKeeps ==
  ASSUME RepoWatchTypeOK, NEW r \in RepoRecord, NEW b \in Branches, Advance(r, b)
  PROVE  repo' \in RepoRecord /\ requestOf' \in [Heads -> Heads] /\ lastHead' \in Heads
<1>1. lastHead' \in Heads /\ r.tips[b] \in Heads
  <2>1. lastHead \in Heads
    BY DEF RepoWatchTypeOK
  <2> QED BY <2>1, RepoWatchAssumption DEF Advance, Heads, RepoRecord
<1>2. repo' \in RepoRecord
  BY <1>1, RepoFields DEF Advance
<1>3. requestOf' \in [Heads -> Heads]
  BY <1>1, RepoWatchAssumption DEF Advance, RepoWatchTypeOK, Heads
<1> QED BY <1>1, <1>2, <1>3

\* What happens in the repository is bounded.
LEMMA EventCounts ==
  ASSUME RepoWatchTypeOK
  PROVE  /\ Event => events' \in 0 .. MaxEvents
         /\ \A failed : Fails(failed) => events' \in 0 .. MaxEvents
<1>1. events \in 0 .. MaxEvents /\ MaxEvents \in Nat
  BY RepoWatchAssumption DEF RepoWatchTypeOK
<1> QED BY <1>1 DEF Event, Fails

\* What others do in the repository.  A commit moves HEAD, and stirs a make.
LEMMA HandCommitKeeps ==
  ASSUME RepoWatchTypeOK, BuildInv, HandCommit
  PROVE  RepoWatchTypeOK' /\ BuildInv'
<1>1. repo \in RepoRecord /\ repo.branch \in Branches
  BY DEF RepoWatchTypeOK, RepoRecord
<1>2. PICK locked \in BOOLEAN :
          Advance([repo EXCEPT !.dirty = FALSE, !.ahead = TRUE, !.condoc = locked], repo.branch)
  BY DEF HandCommit
<1>3. [repo EXCEPT !.dirty = FALSE, !.ahead = TRUE, !.condoc = locked] \in RepoRecord
  <2>1. [repo EXCEPT !.dirty = FALSE, !.ahead = TRUE, !.condoc = locked]
        = [[[repo EXCEPT !.dirty = FALSE] EXCEPT !.ahead = TRUE] EXCEPT !.condoc = locked]
    BY <1>1 DEF RepoRecord
  <2> QED BY <1>1, <2>1, RepoFields
<1>4. repo' \in RepoRecord /\ requestOf' \in [Heads -> Heads] /\ lastHead' \in Heads
  BY <1>1, <1>2, <1>3, AdvanceKeeps
<1>5. UNCHANGED <<events, make, watch, op, ufabuildWatch, lastMade>>
  BY DEF HandCommit, QuietWatch, watchVars
<1>6. stirred' = (stirred \/ op.at \in {"making", "made"})
  BY DEF HandCommit, Stirs
<1> QED BY <1>4, <1>5, <1>6 DEF RepoWatchTypeOK, BuildInv

\* Somebody edits, pushes or makes by hand.
LEMMA OthersKeep ==
  ASSUME RepoWatchTypeOK, BuildInv, HandEdit \/ RemoteMoves \/ HandMake
  PROVE  RepoWatchTypeOK' /\ BuildInv'
<1>1. repo \in RepoRecord
  BY DEF RepoWatchTypeOK
<1>2. repo' \in RepoRecord /\ head' = head
  <2>1. /\ (~repo.dirty) \in BOOLEAN /\ (~repo.rebase) \in BOOLEAN
    BY <1>1 DEF RepoRecord
  <2>2. /\ \/ repo' = [repo EXCEPT !.dirty = ~repo.dirty]
           \/ repo' = [repo EXCEPT !.behind = TRUE]
           \/ repo' = [repo EXCEPT !.ahead = FALSE]
           \/ repo' = [repo EXCEPT !.rebase = ~repo.rebase]
           \/ repo' = [repo EXCEPT !.building = TRUE]
    BY DEF HandEdit, RemoteMoves, HandMake
  <2>3. repo' \in RepoRecord
    BY <1>1, <2>1, <2>2, RepoFields
  <2>4. repo'.tips = repo.tips /\ repo'.branch = repo.branch
    BY <1>1, <2>2 DEF RepoRecord
  <2> QED BY <2>3, <2>4 DEF head
<1>3. events' \in 0 .. MaxEvents
  BY EventCounts DEF HandEdit, RemoteMoves, HandMake
<1>4. UNCHANGED <<requestOf, lastHead, watch, op, ufabuildWatch, lastMade>>
  BY DEF HandEdit, RemoteMoves, HandMake, QuietWatch, watchVars
<1>5. stirred' = stirred \/ stirred' = (stirred \/ op.at \in {"making", "made"})
  BY DEF HandEdit, RemoteMoves, HandMake, Stirs
<1>6. make' = make \/ (make = NoMake /\ make' = "hand")
  BY DEF HandEdit, RemoteMoves, HandMake
<1> QED BY <1>2, <1>3, <1>4, <1>5, <1>6 DEF RepoWatchTypeOK, BuildInv, NoMake

\* A make that ends leaves HEAD where it is.
LEMMA MakeEndsKeeps ==
  ASSUME RepoWatchTypeOK, BuildInv, MakeEnds
  PROVE  RepoWatchTypeOK' /\ BuildInv'
<1>1. repo \in RepoRecord /\ op \in OpRecord
  BY DEF RepoWatchTypeOK
<1>2. PICK ok \in BOOLEAN, killed \in BOOLEAN :
          /\ Fails(killed)
          /\ repo' = [repo EXCEPT !.building = killed]
          /\ op' = IF make = "watch" THEN [op EXCEPT !.at = "made", !.ok = ok] ELSE op
  BY DEF MakeEnds
<1>3. repo' \in RepoRecord /\ head' = head
  <2>1. repo' = [repo EXCEPT !.building = killed]
    BY <1>2
  <2>2. repo' \in RepoRecord
    BY <1>1, <2>1, RepoFields
  <2>3. head' = head
    BY <1>1, <2>1 DEF head, RepoRecord
  <2> QED BY <2>2, <2>3
<1>4. events' \in 0 .. MaxEvents
  BY <1>2, EventCounts
<1>5. UNCHANGED <<requestOf, lastHead, watch, ufabuildWatch, lastMade, stirred>> /\ make' = NoMake
  BY DEF MakeEnds
<1>6. CASE make = "watch"
  <2>1. op' = [[op EXCEPT !.at = "made"] EXCEPT !.ok = ok]
    BY <1>1, <1>2, <1>6 DEF OpRecord
  <2>2. op' \in OpRecord
    BY <1>1, <2>1, OpFields
  <2>3. op'.at = "made" /\ op'.from = op.from
    BY <1>1, <2>1 DEF OpRecord
  <2> QED BY <1>3, <1>4, <1>5, <1>6, <2>2, <2>3 DEF RepoWatchTypeOK, BuildInv, NoMake
<1>7. CASE make # "watch"
  BY <1>2, <1>3, <1>4, <1>5, <1>7 DEF RepoWatchTypeOK, BuildInv, NoMake
<1> QED BY <1>6, <1>7

\* A poll begins only while nobody holds opMu,
LEMMA LookKeeps ==
  ASSUME RepoWatchTypeOK, NEW by \in {"watch", "operator"}, NEW r, Look(by, r)
  PROVE  op.at = "free" /\ op' \in OpRecord /\ op'.at = "polling"
<1>1. PICK pull \in {"none", "ff", "rebase"} :
          op' = [Released EXCEPT !.at = "polling", !.by = by, !.pull = pull]
  BY DEF Look, PullFor
<1>2. op' = [[[Released EXCEPT !.at = "polling"] EXCEPT !.by = by] EXCEPT !.pull = pull]
  BY <1>1 DEF Released
<1>3. Released \in OpRecord
  BY OpFields DEF RepoWatchTypeOK
<1>4. [[Released EXCEPT !.at = "polling"] EXCEPT !.by = by] \in OpRecord
  <2>1. [Released EXCEPT !.at = "polling"] \in OpRecord
    BY <1>3, OpFields
  <2> QED BY <2>1, OpFields
<1>5. op' \in OpRecord
  BY <1>2, <1>4, OpFields
<1>6. op'.at = "polling"
  BY <1>2 DEF Released
<1> QED BY <1>5, <1>6 DEF Look

\* so it pulls while nobody makes, and what it writes down is not what was built.
LEMMA PollKeeps ==
  ASSUME RepoWatchTypeOK, BuildInv, PollLooks \/ PollRecords
  PROVE  RepoWatchTypeOK' /\ BuildInv'
<1>1. repo \in RepoRecord /\ op \in OpRecord /\ watch \in WatchRecord
  BY DEF RepoWatchTypeOK
<1>2. CASE PollLooks
  <2>1. op.at = "free" /\ op' \in OpRecord /\ op'.at = "polling"
    BY <1>2, LookKeeps DEF PollLooks
  <2>2. UNCHANGED <<repo, requestOf, lastHead, events, make, ufabuildWatch, lastMade, stirred, watch>>
    BY <1>2 DEF PollLooks, QuietRepo, repoVars
  <2> QED BY <2>1, <2>2 DEF RepoWatchTypeOK, BuildInv, head
<1>3. CASE PollRecords
  <2>1. op.at = "polling" /\ Pull
    BY <1>3 DEF PollRecords
  <2>2. repo' \in RepoRecord /\ requestOf' \in [Heads -> Heads] /\ lastHead' \in Heads
    <3>1. CASE UNCHANGED <<repo, requestOf, lastHead>>
      BY <3>1 DEF RepoWatchTypeOK
    <3>2. ASSUME NEW locked \in BOOLEAN,
                 Advance([repo EXCEPT !.behind = FALSE, !.condoc = locked], repo.branch)
          PROVE  repo' \in RepoRecord /\ requestOf' \in [Heads -> Heads] /\ lastHead' \in Heads
      <4>1. [repo EXCEPT !.behind = FALSE, !.condoc = locked]
            = [[repo EXCEPT !.behind = FALSE] EXCEPT !.condoc = locked]
        BY <1>1 DEF RepoRecord
      <4>2. [repo EXCEPT !.behind = FALSE, !.condoc = locked] \in RepoRecord
        BY <1>1, <4>1, RepoFields
      <4>3. repo.branch \in Branches
        BY <1>1 DEF RepoRecord
      <4> QED BY <3>2, <4>2, <4>3, AdvanceKeeps
    <3>3. CASE repo' = [repo EXCEPT !.rebase = TRUE] /\ UNCHANGED <<requestOf, lastHead>>
      BY <1>1, <3>3, RepoFields DEF RepoWatchTypeOK
    <3> QED BY <2>1, <3>1, <3>2, <3>3 DEF Pull
  <2>3. head' \in Heads /\ requestOf'[head'] \in Heads /\ repo'.dirty \in BOOLEAN
    BY <2>2 DEF head, RepoRecord
  <2>4. watch' = watch
        \/ \E failed \in BOOLEAN :
              watch' = refreshUfabuild([watch EXCEPT !.dirty = repo'.dirty, !.head = head'],
                                       IF failed THEN 0 ELSE requestOf'[head'])
    BY <1>3 DEF PollRecords
  <2>5. [watch EXCEPT !.dirty = repo'.dirty, !.head = head'] \in WatchRecord
        /\ [watch EXCEPT !.dirty = repo'.dirty, !.head = head'].builtHead = watch.builtHead
    <3>1. [watch EXCEPT !.dirty = repo'.dirty, !.head = head']
          = [[watch EXCEPT !.dirty = repo'.dirty] EXCEPT !.head = head']
      BY <1>1 DEF WatchRecord
    <3>2. [watch EXCEPT !.dirty = repo'.dirty] \in WatchRecord
      BY <1>1, <2>3, WatchFields
    <3>3. [[watch EXCEPT !.dirty = repo'.dirty] EXCEPT !.head = head'] \in WatchRecord
      BY <2>3, <3>2, WatchFields
    <3>4. [watch EXCEPT !.dirty = repo'.dirty, !.head = head'].builtHead = watch.builtHead
      BY <1>1 DEF WatchRecord
    <3> QED BY <3>1, <3>3, <3>4
  <2>6. watch' \in WatchRecord /\ watch'.builtHead = watch.builtHead
    <3>1. \A failed \in BOOLEAN : (IF failed THEN 0 ELSE requestOf'[head']) \in Heads
      BY <2>3, RepoWatchAssumption DEF Heads
    <3> QED BY <1>1, <2>4, <2>5, <3>1, RefreshKeeps
  <2>7. op' \in OpRecord /\ op'.at \in {"polled", "free"}
    <3>1. CASE op' = [op EXCEPT !.at = "polled"]
      <4>1. op' \in OpRecord
        BY <1>1, <3>1, OpFields
      <4> QED BY <1>1, <3>1, <4>1 DEF OpRecord
    <3>2. CASE op' = Released
      BY <1>1, <3>2, OpFields DEF Released
    <3> QED BY <1>3, <3>1, <3>2 DEF PollRecords
  <2>8. UNCHANGED <<make, ufabuildWatch, lastMade, stirred>>
    BY <1>3 DEF PollRecords
  <2>9. events' \in 0 .. MaxEvents
    BY <1>3, EventCounts DEF PollRecords
  <2> QED BY <2>1, <2>2, <2>6, <2>7, <2>8, <2>9 DEF RepoWatchTypeOK, BuildInv
<1> QED BY <1>2, <1>3

\* A make begins at HEAD.
LEMMA StartMakeKeeps ==
  ASSUME RepoWatchTypeOK, BuildInv, NEW w \in WatchRecord, w.builtHead = watch.builtHead,
         op.at \in {"free", "polled"}, StartMake(w)
  PROVE  RepoWatchTypeOK' /\ BuildInv'
<1>1. repo \in RepoRecord /\ head \in Heads
  BY DEF RepoWatchTypeOK, RepoRecord, head
<1>2. watch' = [[w EXCEPT !.building = TRUE] EXCEPT !.grace = "off"]
  BY DEF StartMake, WatchRecord
<1>3. watch' \in WatchRecord
  BY <1>2, WatchFields
<1>4. watch'.builtHead = watch.builtHead
  BY <1>2 DEF WatchRecord
<1>5. op' \in OpRecord /\ op'.at = "making" /\ op'.from = head
  <2>1. op' = [[Released EXCEPT !.at = "making"] EXCEPT !.from = head]
    BY DEF StartMake, Released
  <2>2. Released \in OpRecord
    BY OpFields DEF RepoWatchTypeOK
  <2>3. [Released EXCEPT !.at = "making"] \in OpRecord
    BY <2>2, OpFields
  <2>4. op' \in OpRecord
    BY <1>1, <2>1, <2>3, OpFields
  <2>5. op'.at = "making" /\ op'.from = head
    BY <2>1 DEF Released
  <2> QED BY <2>4, <2>5
<1>6. make' = "watch"
  BY DEF StartMake
<1>7. repo' = [repo EXCEPT !.building = TRUE]
  BY DEF StartMake
<1>8. repo' \in RepoRecord /\ head' = head
  <2>1. repo' \in RepoRecord
    BY <1>1, <1>7, RepoFields
  <2>2. head' = head
    BY <1>1, <1>7 DEF head, RepoRecord
  <2> QED BY <2>1, <2>2
<1>9. stirred' = (repo.dirty \/ make # NoMake)
      /\ UNCHANGED <<requestOf, lastHead, events, ufabuildWatch, lastMade>>
  BY DEF StartMake
<1> QED BY <1>1, <1>3, <1>4, <1>5, <1>6, <1>8, <1>9 DEF RepoWatchTypeOK, BuildInv, RepoRecord

\* The watch makes up its mind: a make, or none.
LEMMA DecideKeeps ==
  ASSUME RepoWatchTypeOK, BuildInv, WatchDecides \/ requestRebuild
  PROVE  RepoWatchTypeOK' /\ BuildInv'
<1>1. watch \in WatchRecord
  BY DEF RepoWatchTypeOK
<1>2. CASE requestRebuild
  BY <1>1, <1>2, StartMakeKeeps DEF requestRebuild
<1>3. CASE WatchDecides
  <2>1. PICK w \in WatchRecord : w = maybeFinishBuild(watch) /\ w.builtHead = watch.builtHead
    BY <1>1, FinishBuild
  <2>2. op.at = "polled"
    BY <1>3 DEF WatchDecides
  <2>3. CASE autoRebuildDue(w)
    <3>1. StartMake(Disarmed(w))
      BY <1>3, <2>1, <2>3 DEF WatchDecides
    <3> QED BY <2>1, <2>2, <3>1, Disarm, StartMakeKeeps
  <2>4. CASE ~autoRebuildDue(w)
    <3>1. watch' = maybeAutoRebuild(w) /\ op' = Released
          /\ UNCHANGED <<repo, requestOf, lastHead, events, make, ufabuildWatch, lastMade, stirred>>
      BY <1>3, <2>1, <2>4 DEF WatchDecides, QuietRepo, repoVars
    <3>2. watch' \in WatchRecord /\ watch'.builtHead = watch.builtHead
      BY <2>1, <3>1, AutoRebuild
    <3>3. op' \in OpRecord /\ op'.at = "free"
      BY <3>1, OpFields DEF Released, RepoWatchTypeOK
    <3> QED BY <2>2, <3>1, <3>2, <3>3 DEF RepoWatchTypeOK, BuildInv, head
  <2> QED BY <2>3, <2>4
<1> QED BY <1>2, <1>3

\* The make is over and the watch takes note.
LEMMA BuildRecordKeeps ==
  ASSUME RepoWatchTypeOK, BuildInv, RecordBuild
  PROVE  RepoWatchTypeOK' /\ BuildInv'
<1>1. watch \in WatchRecord /\ repo \in RepoRecord /\ op \in OpRecord
  BY DEF RepoWatchTypeOK
<1>2. /\ head \in Heads /\ repo.dirty \in BOOLEAN /\ op.ok \in BOOLEAN /\ op.from \in Heads
      /\ watch.dirty \in BOOLEAN /\ watch.head \in Heads \cup {NoHead}
      /\ watch.builtHead \in Heads \cup {NoHead} /\ watch.built \in Heads
      /\ watch.request \in Heads /\ 0 \in Heads
  BY <1>1, RepoWatchAssumption DEF head, RepoRecord, OpRecord, WatchRecord, Heads
<1>3. PICK dirtyRead \in BOOLEAN, headRead \in BOOLEAN :
          /\ Fails(~dirtyRead \/ ~headRead)
          /\ watch' = maybeFinishBuild(
                  [watch EXCEPT !.dirty = IF dirtyRead THEN repo.dirty ELSE @,
                                !.head = IF headRead THEN head ELSE @,
                                !.builtHead = IF op.ok /\ headRead THEN head ELSE @,
                                !.built = IF op.ok THEN watch.request ELSE @,
                                !.failed = IF op.ok THEN 0 ELSE watch.request])
          /\ lastMade' = IF ~(op.ok /\ headRead) THEN lastMade
                         ELSE IF stirred THEN NoHead ELSE op.from
  BY DEF RecordBuild
<1>4. PICK w : w = [watch EXCEPT !.dirty = IF dirtyRead THEN repo.dirty ELSE @,
                                 !.head = IF headRead THEN head ELSE @,
                                 !.builtHead = IF op.ok /\ headRead THEN head ELSE @,
                                 !.built = IF op.ok THEN watch.request ELSE @,
                                 !.failed = IF op.ok THEN 0 ELSE watch.request]
  OBVIOUS
<1>5. w = [[[[[watch EXCEPT !.dirty = IF dirtyRead THEN repo.dirty ELSE watch.dirty]
               EXCEPT !.head = IF headRead THEN head ELSE watch.head]
               EXCEPT !.builtHead = IF op.ok /\ headRead THEN head ELSE watch.builtHead]
               EXCEPT !.built = IF op.ok THEN watch.request ELSE watch.built]
               EXCEPT !.failed = IF op.ok THEN 0 ELSE watch.request]
  BY <1>1, <1>4 DEF WatchRecord
<1>6. w \in WatchRecord
  <2>1. [watch EXCEPT !.dirty = IF dirtyRead THEN repo.dirty ELSE watch.dirty] \in WatchRecord
    BY <1>1, <1>2, WatchFields
  <2>2. [[watch EXCEPT !.dirty = IF dirtyRead THEN repo.dirty ELSE watch.dirty]
               EXCEPT !.head = IF headRead THEN head ELSE watch.head] \in WatchRecord
    BY <1>2, <2>1, WatchFields
  <2>3. [[[watch EXCEPT !.dirty = IF dirtyRead THEN repo.dirty ELSE watch.dirty]
               EXCEPT !.head = IF headRead THEN head ELSE watch.head]
               EXCEPT !.builtHead = IF op.ok /\ headRead THEN head ELSE watch.builtHead] \in WatchRecord
    BY <1>2, <2>2, WatchFields
  <2>4. [[[[watch EXCEPT !.dirty = IF dirtyRead THEN repo.dirty ELSE watch.dirty]
               EXCEPT !.head = IF headRead THEN head ELSE watch.head]
               EXCEPT !.builtHead = IF op.ok /\ headRead THEN head ELSE watch.builtHead]
               EXCEPT !.built = IF op.ok THEN watch.request ELSE watch.built] \in WatchRecord
    BY <1>2, <2>3, WatchFields
  <2> QED BY <1>2, <1>5, <2>4, WatchFields
<1>7. w.builtHead = IF op.ok /\ headRead THEN head ELSE watch.builtHead
  BY <1>1, <1>5 DEF WatchRecord
<1>8. op.at = "made" /\ op' = Released /\ UNCHANGED <<repo, requestOf, lastHead, make, ufabuildWatch, stirred>>
  BY DEF RecordBuild, repoVars
<1>9. watch' \in WatchRecord /\ watch'.builtHead = w.builtHead
  BY <1>3, <1>4, <1>6, FinishBuild
<1>10. op' \in OpRecord /\ op'.at = "free"
  BY <1>1, <1>8, OpFields DEF Released
<1>11. events' \in 0 .. MaxEvents
  BY <1>3, EventCounts
<1>12. CASE op.ok /\ headRead
  <2>1. watch'.builtHead = head
    BY <1>7, <1>9, <1>12
  <2>2. lastMade' = IF stirred THEN NoHead ELSE op.from
    BY <1>3, <1>12
  <2> QED BY <1>2, <1>8, <1>9, <1>10, <1>11, <2>1, <2>2 DEF RepoWatchTypeOK, BuildInv, head
<1>13. CASE ~(op.ok /\ headRead)
  <2>1. watch'.builtHead = watch.builtHead /\ lastMade' = lastMade
    BY <1>3, <1>7, <1>9, <1>13
  <2>2. RepoWatchTypeOK'
    BY <1>8, <1>9, <1>10, <1>11, <2>1 DEF RepoWatchTypeOK
  <2>3. BuildInv'
    BY <1>8, <1>10, <2>1 DEF BuildInv
  <2> QED BY <2>2, <2>3
<1> QED BY <1>12, <1>13

\* The grace and debounce timers, and the operator's choice of automatic builds.
LEMMA TimersKeep ==
  ASSUME RepoWatchTypeOK, BuildInv, GraceOver \/ DebounceOver \/ setAutoRebuild
  PROVE  RepoWatchTypeOK' /\ BuildInv'
<1>1. watch \in WatchRecord /\ (~watch.auto) \in BOOLEAN /\ events \in 0 .. MaxEvents
  BY DEF RepoWatchTypeOK
<1>2. \/ watch' = [watch EXCEPT !.grace = "over"]
      \/ watch' = [watch EXCEPT !.debounce = "over"]
      \/ watch' = [watch EXCEPT !.auto = ~watch.auto]
  BY DEF GraceOver, DebounceOver, setAutoRebuild
<1>3. watch' \in WatchRecord
  BY <1>1, <1>2, WatchFields
<1>4. watch'.builtHead = watch.builtHead
  BY <1>1, <1>2 DEF WatchRecord
<1>5. UNCHANGED <<repo, requestOf, lastHead, op, make, ufabuildWatch, lastMade, stirred>>
      /\ events' \in 0 .. MaxEvents
  BY <1>1, EventCounts DEF GraceOver, DebounceOver, setAutoRebuild, QuietRepo, repoVars
<1> QED BY <1>3, <1>4, <1>5 DEF RepoWatchTypeOK, BuildInv, head

\* LR restarts, or the operator switches branches.
LEMMA OperatorRepoKeeps ==
  ASSUME RepoWatchTypeOK, BuildInv, LRRestarts \/ \E b \in Branches : switchBranch(b)
  PROVE  RepoWatchTypeOK' /\ BuildInv'
<1>1. /\ repo \in RepoRecord /\ watch \in WatchRecord /\ watch.auto \in BOOLEAN
      /\ op \in OpRecord
  BY DEF RepoWatchTypeOK, WatchRecord
<1>2. CASE LRRestarts
  <2>1. watch' \in WatchRecord
    BY <1>1, <1>2, NewWatch DEF LRRestarts, RepoWatchTypeOK
  <2>2. op' \in OpRecord /\ op'.at = "free" /\ lastMade' = NoHead /\ stirred' = FALSE
    BY <1>1, <1>2, OpFields DEF LRRestarts, Released
  <2>3. make' \in {NoMake, "hand"}
    BY <1>2 DEF LRRestarts
  <2>4. events' \in 0 .. MaxEvents /\ UNCHANGED <<repo, requestOf, lastHead, ufabuildWatch>>
    BY <1>2, EventCounts DEF LRRestarts, repoVars
  <2> QED BY <2>1, <2>2, <2>3, <2>4 DEF RepoWatchTypeOK, BuildInv, NoMake
<1>3. ASSUME NEW b \in Branches, switchBranch(b)
      PROVE  RepoWatchTypeOK' /\ BuildInv'
  <2>1. repo' \in RepoRecord
    <3>1. ASSUME NEW behind \in BOOLEAN
          PROVE  [repo EXCEPT !.branch = b, !.ahead = FALSE, !.behind = behind] \in RepoRecord
      <4>1. [repo EXCEPT !.branch = b, !.ahead = FALSE, !.behind = behind]
            = [[[repo EXCEPT !.branch = b] EXCEPT !.ahead = FALSE] EXCEPT !.behind = behind]
        BY <1>1 DEF RepoRecord
      <4>2. [repo EXCEPT !.branch = b] \in RepoRecord
        BY <1>1, RepoFields
      <4>3. [[repo EXCEPT !.branch = b] EXCEPT !.ahead = FALSE] \in RepoRecord
        BY <4>2, RepoFields
      <4> QED BY <4>1, <4>3, RepoFields
    <3> QED BY <1>1, <1>3, <3>1 DEF switchBranch
  <2>2. op.at = "free" /\ op' \in OpRecord /\ op'.at = "polling"
    BY <1>3, LookKeeps DEF switchBranch
  <2>3. /\ UNCHANGED <<requestOf, lastHead, watch, make, ufabuildWatch, lastMade, stirred>>
        /\ events' \in 0 .. MaxEvents
    BY <1>3, EventCounts DEF switchBranch
  <2> QED BY <2>1, <2>2, <2>3 DEF RepoWatchTypeOK, BuildInv
<1> QED BY <1>2, <1>3

\* What the watch, the operator and everybody else do with the repository.
LEMMA RepoKept ==
  ASSUME RepoWatchTypeOK, BuildInv, [RepoWatchNext]_repoWatchVars
  PROVE  RepoWatchTypeOK' /\ BuildInv'
<1>1. CASE UNCHANGED repoWatchVars
  BY <1>1 DEF repoWatchVars, repoVars, watchVars, RepoWatchTypeOK, BuildInv, head
<1> QED
  BY <1>1, HandCommitKeeps, OthersKeep, MakeEndsKeeps, PollKeeps, DecideKeeps, BuildRecordKeeps,
     TimersKeep, OperatorRepoKeeps
  DEF RepoWatchNext

\* What is taken for built is what the last build the watch took note of was made of.
LEMMA MadeIsBuilt == RepoWatchTypeOK /\ BuildInv => BuiltWasMade
  BY DEF BuildInv, BuiltWasMade

-----------------------------------------------------------------------------
(***************************************************************************)
(* Control runs.  RecordingsApart is about a run that is over.  The        *)
(* invariant says what each request of a run can be while it is on: the    *)
(* requests nobody has made yet, who holds the recorder and the mouse, and *)
(* for each recording the robot was never out of reach for where it is     *)
(* between request, recording and answer.                                  *)
(***************************************************************************)
\* The robot has begun this recording and not let go of it.
Held(r) == clip = r \/ r \in lrRecs
\* Nothing is asked of the robot for this recording, and it is not held.
QuietRec(r) ==
    starts[r] # "sent" /\ stops[r] \notin {"sent", "finishing"} /\ ~Held(r)

\* Where the run is.
RunInv ==
    /\ run.status = "running" <=> run.at # "idle"
    /\ run.at # "idle" => run.n > 0 /\ run.step \in DOMAIN Steps
    /\ \A b \in BlockIds :
          /\ records[b].status = "pending" => ~records[b].rec /\ records[b].done = "nil"
          /\ records[b].status = "starting" => /\ run.at = "starting"
                                               /\ ~records[b].rec /\ records[b].done = "nil"
          /\ records[b].rec => records[b].done = "nil" /\ run.at # "idle"
          /\ records[b].done = "open" => run.at # "idle"
          /\ run.n = 0 => records[b].status = "pending"

\* Requests nobody has made yet.
FreshRequests ==
    /\ \A n \in 1 .. MaxRuns, b \in BlockIds :
          n > run.n => starts[Rec(n, b)] = "none" /\ stops[Rec(n, b)] = "none"
    /\ \A b \in BlockIds :
          run.n > 0 /\ records[b].done = "nil" => stops[This(b)] = "none"
    /\ \A n \in 1 .. MaxRuns, i \in DOMAIN Steps :
          (\/ n > run.n
           \/ n = run.n /\ (i > run.step \/ (i = run.step /\ run.at \in {"starting", "step"})))
          => jobs[Job(n, i)].at = "none"

\* Who can have the recorder and the mouse.
HolderInv ==
    /\ clip \in Recs => clip \in lrRecs \/ stops[clip] = "finishing"
    /\ clip \in Jobs => sequencing = clip
    /\ \A j \in Jobs : jobs[j].at = "running" <=> sequencing = j

\* A recording of the run the robot was never out of reach for.
HeardRec(b) ==
    LET r == This(b) rc == records[b] IN
    /\ rc.status = "starting" =>
          /\ starts[r] \in {"sent", "recording", "refused"} /\ stops[r] = "none"
          /\ starts[r] = "recording" => r \in lrRecs
          /\ starts[r] # "recording" => ~Held(r)
    /\ rc.rec => starts[r] = "recording" /\ stops[r] = "none" /\ r \in lrRecs
    /\ rc.done = "open" =>
          /\ starts[r] # "sent" /\ stops[r] # "none"
          /\ stops[r] \in {"tail", "sent"} => r \in lrRecs
          /\ stops[r] \notin {"tail", "sent"} => r \notin lrRecs
          /\ stops[r] \in {"saved", "error"} => ~Held(r)
    /\ rc.status # "starting" /\ ~rc.rec /\ rc.done # "open" => QuietRec(r)

\* Requests the robot was never out of reach for are answered for the run that
\* made them; those of other runs are quiet.
HeardInv ==
    /\ \A n \in 1 .. MaxRuns, b \in BlockIds :
          Rec(n, b) \notin unheard => /\ n # run.n => QuietRec(Rec(n, b))
                                      /\ n = run.n => HeardRec(b)
    /\ \A j \in Jobs \ unheard :
          jobs[j].at \in {"sent", "running"}
          => j = ThisJob /\ run.at \in {"robot", "stopping robot"}

\* As long as nothing has gone wrong.
CalmInv ==
    trouble = 0 =>
        /\ unheard = {} /\ robotUp /\ clip # Person
        /\ \A r \in Recs : starts[r] # "refused"
        /\ \A j \in Jobs : ~jobs[j].busy
        /\ run.at \in {"robot", "stopping robot"} =>
              /\ jobs[ThisJob].at # "none"
              /\ jobs[ThisJob].at = "sent" /\ ~jobs[ThisJob].noRecord => ~recordingHere

\* Together.
ControlInv == RunInv /\ FreshRequests /\ HolderInv /\ HeardInv /\ CalmInv

\* Recordings and jobs are named by the run and by their place in it.
LEMMA Names ==
  /\ \A n, m, b, c : Rec(n, b) = Rec(m, c) => n = m /\ b = c
  /\ \A n, m, b, c : Job(n, b) = Job(m, c) => n = m /\ b = c
  /\ \A n, m, b, i : Rec(n, b) # Job(m, i)
  /\ \A n, b : Rec(n, b)[2] = n /\ Job(n, b)[2] = n
  BY DEF Rec, Job

\* Neither is named like nobody or like the person at the robot.
LEMMA Strangers ==
  /\ \A n, b : Rec(n, b) # Nobody /\ Rec(n, b) # Person
  /\ \A n, b : Job(n, b) # Nobody /\ Job(n, b) # Person
  /\ Nobody # Person
  BY DEF Rec, Job, Nobody, Person

\* All of them are named so.
LEMMA NamedRecs ==
  /\ \A n \in 1 .. MaxRuns, b \in BlockIds : Rec(n, b) \in Recs
  /\ \A r \in Recs : \E n \in 1 .. MaxRuns, b \in BlockIds : r = Rec(n, b)
  /\ \A n \in 1 .. MaxRuns, i \in DOMAIN Steps : Job(n, i) \in Jobs
  /\ \A j \in Jobs : \E n \in 1 .. MaxRuns, i \in DOMAIN Steps : j = Job(n, i)
  BY DEF Recs, Jobs

\* Recordings, jobs, nobody and the person are different holders.
LEMMA Apart ==
  Recs \cap Jobs = {} /\ {Nobody, Person} \cap (Recs \cup Jobs) = {}
  BY Names, Strangers, NamedRecs

\* A run with one field changed.
LEMMA RunFields ==
  ASSUME NEW r \in RunRecord
  PROVE  /\ \A x \in {"idle", "starting", "step", "robot", "stopping robot", "saving"} :
                [r EXCEPT !.at = x] \in RunRecord
         /\ \A x \in {"no", "error", "cancelled"} : [r EXCEPT !.failed = x] \in RunRecord
         /\ \A x \in {"none", "running", "success", "error", "cancelled"} :
                [r EXCEPT !.status = x] \in RunRecord
         /\ \A x \in BOOLEAN : [r EXCEPT !.cancel = x] \in RunRecord
         /\ \A x \in 0 .. Len(Steps) + 1 : [r EXCEPT !.step = x] \in RunRecord
  BY DEF RunRecord

\* A recording block with one field changed.
LEMMA BlockFields ==
  ASSUME NEW r \in BlockRecord
  PROVE  /\ \A x \in BOOLEAN : [r EXCEPT !.rec = x] \in BlockRecord
         /\ \A x \in {"nil", "open", "closed"} : [r EXCEPT !.done = x] \in BlockRecord
         /\ \A x \in {"pending", "starting", "recording", "saving", "saved", "error", "skipped"} :
                [r EXCEPT !.status = x] \in BlockRecord
  BY DEF BlockRecord

\* A job with one field changed.
LEMMA JobFields ==
  ASSUME NEW r \in JobRecord
  PROVE  /\ \A x \in {"none", "sent", "running", "done"} : [r EXCEPT !.at = x] \in JobRecord
         /\ \A x \in BOOLEAN : /\ [r EXCEPT !.ok = x] \in JobRecord
                               /\ [r EXCEPT !.busy = x] \in JobRecord
                               /\ [r EXCEPT !.noRecord = x] \in JobRecord
                               /\ [r EXCEPT !.cancel = x] \in JobRecord
         /\ NoJob \in JobRecord
  BY DEF JobRecord, NoJob

\* No run has begun, and nobody holds anything.
LEMMA ControlStart == ControlInit => ControlTypeOK /\ ControlInv
<1> SUFFICES ASSUME ControlInit PROVE ControlTypeOK /\ ControlInv
  OBVIOUS
<1>1. run \in RunRecord /\ run.n = 0 /\ run.at = "idle" /\ run.status = "none" /\ run.step = 0
  <2>1. Len(Steps) \in Nat
    BY ControlRunsAssumption
  <2> QED BY <2>1, ControlRunsAssumption DEF ControlInit, RunRecord
<1>2. records \in [BlockIds -> BlockRecord] /\ \A b \in BlockIds : records[b] = NewRecord
  BY DEF ControlInit, BlockRecord, NewRecord
<1>3. jobs \in [Jobs -> JobRecord] /\ \A j \in Jobs : jobs[j] = NoJob
  BY JobFields DEF ControlInit, JobRecord, NoJob
<1>4. ControlTypeOK
  BY <1>1, <1>2, <1>3, ControlRunsAssumption DEF ControlTypeOK, ControlInit
<1>5. RunInv
  BY <1>1, <1>2 DEF RunInv, NewRecord
<1>6. FreshRequests
  BY <1>1, <1>3, NamedRecs DEF FreshRequests, ControlInit, NoJob
<1>7. HolderInv
  BY <1>3, Apart DEF HolderInv, ControlInit, NoJob
<1>8. HeardInv
  BY <1>1, <1>3, NamedRecs, Strangers DEF HeardInv, QuietRec, Held, ControlInit, NoJob
<1>9. CalmInv
  BY <1>1, <1>3, Strangers DEF CalmInv, ControlInit, NoJob
<1> QED BY <1>4, <1>5, <1>6, <1>7, <1>8, <1>9 DEF ControlInv

\* The run goes on by itself, or gives up a request: what is asked of the robot
\* stays as it is.
LEMMA RunAlone ==
  ASSUME ControlTypeOK, ControlInv, run' \in RunRecord,
         UNCHANGED <<records, starts, stops, jobs, clip, lrRecs, sequencing, robotUp>>,
         unheard \subseteq unheard', unheard' \subseteq Recs \cup Jobs,
         trouble' \in 0 .. MaxTrouble, trouble' = 0 => trouble = 0 /\ unheard' = unheard,
         run'.n = run.n, run'.step = run.step,
         run'.status = "running" <=> run'.at # "idle",
         run'.at # "idle" => run.at # "idle",
         run'.at = "idle" => \A b \in BlockIds : ~records[b].rec /\ records[b].done # "open",
         run.at = "starting" => run'.at = "starting" \/ Waiting = {},
         run'.at \in {"starting", "step"} => run.at \in {"starting", "step"},
         run'.at \in {"robot", "stopping robot"} => run.at \in {"robot", "stopping robot"},
         run.at \in {"robot", "stopping robot"} =>
             run'.at \in {"robot", "stopping robot"} \/ jobs[ThisJob].at \in {"none", "done"}
             \/ ThisJob \in unheard'
  PROVE  ControlTypeOK' /\ ControlInv'
<1>1. ControlTypeOK'
  BY DEF ControlTypeOK
<1>2. RunInv'
  BY DEF ControlInv, RunInv, Waiting
<1>3. FreshRequests'
  BY DEF ControlInv, FreshRequests, This
<1>4. HolderInv'
  BY DEF ControlInv, HolderInv
<1>5. HeardInv'
  <2>1. \A r : QuietRec(r)' <=> QuietRec(r)
    BY DEF QuietRec, Held
  <2>2. \A b \in BlockIds : HeardRec(b)' <=> HeardRec(b)
    <3>1. \A b \in BlockIds : This(b)' = This(b)
      BY DEF This
    <3>2. ASSUME NEW b \in BlockIds PROVE HeardRec(b)' <=> HeardRec(b)
      <4>1. This(b)' = This(b) /\ (QuietRec(This(b))' <=> QuietRec(This(b)))
        BY <2>1, <3>1
      <4> QED BY <4>1 DEF HeardRec, Held
    <3> QED BY <3>2
  <2>3. ThisJob' = ThisJob
    BY DEF ThisJob
  <2>4. \A j \in Jobs \ unheard :
           jobs[j].at \in {"sent", "running"} => j = ThisJob /\ run.at \in {"robot", "stopping robot"}
    BY DEF ControlInv, HeardInv
  <2>5. \A j \in Jobs \ unheard' : jobs[j].at \in {"sent", "running"} => run'.at \in {"robot", "stopping robot"}
    BY <2>4
  <2> QED BY <2>1, <2>2, <2>3, <2>4, <2>5 DEF ControlInv, HeardInv
<1>6. CalmInv'
  BY DEF ControlInv, CalmInv, ThisJob, recordingHere
<1> QED BY <1>1, <1>2, <1>3, <1>4, <1>5, <1>6 DEF ControlInv

\* What the type says of the run.
LEMMA RunTyped == ControlTypeOK => run \in RunRecord /\ unheard \subseteq Recs \cup Jobs /\ trouble \in 0 .. MaxTrouble
  BY DEF ControlTypeOK

\* The run is cancelled, goes on to its step, or ends.
LEMMA CancelKeeps ==
  ASSUME ControlTypeOK, ControlInv, cancel \/ beginStep \/ execute
  PROVE  ControlTypeOK' /\ ControlInv'
<1>1. run \in RunRecord /\ RunInv
  BY RunTyped DEF ControlInv
<1>2. UNCHANGED <<records, starts, stops, jobs, clip, lrRecs, sequencing, robotUp, trouble, unheard>>
  BY DEF cancel, beginStep, execute, asked, RobotKeeps, robotVars
<1>3. CASE cancel
  <2>1. run' = [run EXCEPT !.cancel = TRUE]
    BY <1>3 DEF cancel
  <2>2. run' \in RunRecord
    BY <1>1, <2>1, RunFields
  <2>3. run'.n = run.n /\ run'.step = run.step /\ run'.at = run.at /\ run'.status = run.status
    BY <1>1, <2>1 DEF RunRecord
  <2> QED BY <1>1, <1>2, <2>2, <2>3, RunAlone, RunTyped DEF RunInv
<1>4. CASE beginStep
  <2>1. run' = [run EXCEPT !.at = "step"]
    BY <1>4 DEF beginStep
  <2>2. run' \in RunRecord
    BY <1>1, <2>1, RunFields
  <2>3. run'.n = run.n /\ run'.step = run.step /\ run'.at = "step" /\ run'.status = run.status
    BY <1>1, <2>1 DEF RunRecord
  <2>4. run.at = "starting" /\ Waiting = {}
    BY <1>4 DEF beginStep
  <2> QED BY <1>1, <1>2, <2>2, <2>3, <2>4, RunAlone, RunTyped DEF RunInv
<1>5. CASE execute
  <2>1. PICK s \in {"success", "error", "cancelled"} : run' = [run EXCEPT !.at = "idle", !.status = s]
    <3>1. run.failed \in {"no", "error", "cancelled"}
      BY <1>1 DEF RunRecord
    <3> QED BY <1>5, <3>1 DEF execute
  <2>2. run' = [[run EXCEPT !.at = "idle"] EXCEPT !.status = s]
    BY <1>1, <2>1 DEF RunRecord
  <2>3. run' \in RunRecord
    <3>1. [run EXCEPT !.at = "idle"] \in RunRecord
      BY <1>1, RunFields
    <3> QED BY <2>2, <3>1, RunFields
  <2>4. run'.n = run.n /\ run'.step = run.step /\ run'.at = "idle" /\ run'.status = s
    BY <1>1, <2>2 DEF RunRecord
  <2>5. run.at = "saving" /\ \A b \in BlockIds : ~records[b].rec /\ records[b].done # "open"
    BY <1>5 DEF execute
  <2> QED BY <1>1, <1>2, <2>3, <2>4, <2>5, RunAlone, RunTyped DEF RunInv
<1> QED BY <1>3, <1>4, <1>5

\* Troubles are bounded.
LEMMA TroubleCounted ==
  ASSUME ControlTypeOK, Trouble
  PROVE  trouble' \in 0 .. MaxTrouble /\ trouble' # 0
<1>1. MaxTrouble \in Nat /\ trouble \in 0 .. MaxTrouble
  BY ControlRunsAssumption DEF ControlTypeOK
<1>2. trouble < MaxTrouble /\ trouble' = trouble + 1
  BY DEF Trouble
<1> QED BY <1>1, <1>2

\* A request that is given up is never answered for its run.
LEMMA GivenUp ==
  ASSUME ControlTypeOK, NEW q \in Recs \cup Jobs, NEW coming \in BOOLEAN, GiveUp(q, coming)
  PROVE  /\ unheard \subseteq unheard' /\ unheard' \subseteq Recs \cup Jobs /\ q \in unheard'
         /\ unheard' = unheard \cup {q}
         /\ trouble' \in 0 .. MaxTrouble
         /\ trouble' = 0 => trouble = 0 /\ ~coming
<1>1. unheard' = unheard \cup {q} /\ unheard \subseteq Recs \cup Jobs /\ trouble \in 0 .. MaxTrouble
  BY RunTyped DEF GiveUp
<1>2. CASE coming
  BY <1>1, <1>2, TroubleCounted DEF GiveUp
<1>3. CASE ~coming
  BY <1>1, <1>3 DEF GiveUp
<1> QED BY <1>1, <1>2, <1>3

\* The names of the run that is on.
LEMMA CurrentRun ==
  ASSUME ControlTypeOK, RunInv, run.at # "idle"
  PROVE  /\ run.n \in 1 .. MaxRuns /\ run.step \in DOMAIN Steps
         /\ ThisJob \in Jobs /\ \A b \in BlockIds : This(b) \in Recs
<1>1. run.n \in 0 .. MaxRuns /\ MaxRuns \in Nat
  BY RunTyped, ControlRunsAssumption DEF RunRecord
<1>2. run.n > 0 /\ run.step \in DOMAIN Steps
  BY DEF RunInv
<1>3. run.n \in 1 .. MaxRuns
  BY <1>1, <1>2
<1> QED BY <1>2, <1>3, NamedRecs DEF ThisJob, This

\* A step that fails, and what it leaves unanswered.
LEMMA StepFails ==
  ASSUME ControlTypeOK, ControlInv, NEW why \in {"error", "cancelled"}, stepFails(why),
         UNCHANGED <<clip, lrRecs, sequencing, robotUp>>,
         run.at \in {"step", "robot", "stopping robot"},
         \/ /\ UNCHANGED <<trouble, unheard>>
            /\ run.at # "step" => jobs[ThisJob].at = "done"
         \/ run.at # "step" /\ GiveUp(ThisJob, jobs[ThisJob].at # "none")
  PROVE  ControlTypeOK' /\ ControlInv'
<1>1. run \in RunRecord /\ RunInv /\ unheard \subseteq Recs \cup Jobs
  BY RunTyped DEF ControlInv
<1>2. run' = [[run EXCEPT !.at = "saving"] EXCEPT !.failed = why]
  BY <1>1 DEF stepFails, RunRecord
<1>3. run' \in RunRecord
  <2>1. [run EXCEPT !.at = "saving"] \in RunRecord
    BY <1>1, RunFields
  <2> QED BY <1>2, <2>1, RunFields
<1>4. run'.n = run.n /\ run'.step = run.step /\ run'.at = "saving" /\ run'.status = run.status
  BY <1>1, <1>2 DEF RunRecord
<1>5. UNCHANGED <<records, starts, stops, jobs>>
  BY DEF stepFails, asked
<1>6. ThisJob \in Jobs
  BY <1>1, CurrentRun
<1>7. /\ unheard \subseteq unheard' /\ unheard' \subseteq Recs \cup Jobs
      /\ trouble' \in 0 .. MaxTrouble
      /\ run.at # "step" => jobs[ThisJob].at = "done" \/ ThisJob \in unheard'
      /\ trouble' = 0 => trouble = 0 /\ unheard' = unheard
  <2>1. CASE UNCHANGED <<trouble, unheard>> /\ (run.at # "step" => jobs[ThisJob].at = "done")
    BY <1>1, <2>1, RunTyped
  <2>2. CASE run.at # "step" /\ GiveUp(ThisJob, jobs[ThisJob].at # "none")
    <3>1. trouble = 0 => jobs[ThisJob].at # "none"
      BY <2>2 DEF ControlInv, CalmInv
    <3>2. /\ unheard \subseteq unheard' /\ unheard' \subseteq Recs \cup Jobs /\ ThisJob \in unheard'
          /\ trouble' \in 0 .. MaxTrouble
          /\ trouble' = 0 => trouble = 0 /\ ~(jobs[ThisJob].at # "none")
      BY <1>6, <2>2, GivenUp
    <3> QED BY <3>1, <3>2
  <2> QED BY <2>1, <2>2
<1> QED BY <1>1, <1>3, <1>4, <1>5, <1>7, RunAlone DEF RunInv

\* What a step leaves alone stays as well heard of as it was.
LEMMA QuietAfter ==
  ASSUME NEW r, QuietRec(r), starts'[r] = starts[r], stops'[r] = stops[r],
         r \in lrRecs' => r \in lrRecs, clip' = r => clip = r
  PROVE  QuietRec(r)'
  BY DEF QuietRec, Held

\* The same for a recording of the run.
LEMMA HeardAfter ==
  ASSUME NEW b, HeardRec(b), run'.n = run.n, records'[b] = records[b],
         starts'[This(b)] = starts[This(b)], stops'[This(b)] = stops[This(b)],
         This(b) \in lrRecs' <=> This(b) \in lrRecs, clip' = This(b) => clip = This(b)
  PROVE  HeardRec(b)'
<1>1. This(b)' = This(b)
  BY DEF This
<1>2. QuietRec(This(b)) => QuietRec(This(b))'
  BY QuietAfter, <1>1 DEF QuietRec, Held
<1> QED BY <1>1, <1>2 DEF HeardRec, Held

\* A recording that asks for something is one of the run's.
LEMMA OfThisRun ==
  ASSUME HeardInv, NEW n \in 1 .. MaxRuns, NEW b \in BlockIds, Rec(n, b) \notin unheard,
         ~QuietRec(Rec(n, b))
  PROVE  /\ n = run.n /\ Rec(n, b) = This(b) /\ HeardRec(b)
         /\ records[b].status = "starting" \/ records[b].rec \/ records[b].done = "open"
<1>1. n = run.n /\ HeardRec(b)
  BY DEF HeardInv
<1> QED BY <1>1 DEF This, HeardRec

\* What the type says of the blocks.
LEMMA BlocksTyped ==
  ControlTypeOK => /\ \A b \in BlockIds : records[b] \in BlockRecord
                   /\ \A b \in BlockIds : records[b].rec \in BOOLEAN
  BY DEF ControlTypeOK, BlockRecord

\* StartRecord: the block waits for the robot's answer, or fails at once.
LEMMA StartRecordKeeps ==
  ASSUME ControlTypeOK, ControlInv, NEW b \in BlockIds, startRecord(b)
  PROVE  ControlTypeOK' /\ ControlInv'
<1>1. /\ run.at = "starting" /\ records[b].status = "pending"
      /\ UNCHANGED <<run, stops, jobs, clip, lrRecs, sequencing, robotUp, trouble, unheard>>
  BY DEF startRecord, StartsHere, RobotKeeps, robotVars
<1>2. RunInv /\ FreshRequests /\ HolderInv /\ HeardInv /\ CalmInv
  BY DEF ControlInv
<1>3. run.n \in 1 .. MaxRuns /\ This(b) \in Recs
  BY <1>1, <1>2, CurrentRun
<1>4. PICK s \in {"starting", "error"} :
         /\ records' = [records EXCEPT ![b].status = s]
         /\ starts' = IF s = "starting" THEN [starts EXCEPT ![This(b)] = "sent"] ELSE starts
  BY DEF startRecord
<1>5. /\ records \in [BlockIds -> BlockRecord] /\ starts \in [Recs -> {"none", "sent", "waiting", "recording", "refused"}]
  BY DEF ControlTypeOK
<1>6. /\ records' \in [BlockIds -> BlockRecord]
      /\ \A c \in BlockIds \ {b} : records'[c] = records[c]
      /\ records'[b] = [records[b] EXCEPT !.status = s]
  BY <1>4, <1>5, BlockFields
<1>7. /\ records'[b].status = s /\ records'[b].rec = records[b].rec
      /\ records'[b].done = records[b].done
  BY <1>4, <1>5, <1>6 DEF BlockRecord
<1>8. /\ starts' \in [Recs -> {"none", "sent", "waiting", "recording", "refused"}]
      /\ \A r \in Recs : r # This(b) => starts'[r] = starts[r]
      /\ starts'[This(b)] = IF s = "starting" THEN "sent" ELSE starts[This(b)]
  BY <1>3, <1>4, <1>5
<1>9. ~records[b].rec /\ records[b].done = "nil" /\ stops[This(b)] = "none"
  BY <1>1, <1>2, <1>3 DEF RunInv, FreshRequests
<1>10. ControlTypeOK'
  BY <1>1, <1>6, <1>8 DEF ControlTypeOK
<1>11. RunInv'
  <2>1. run.n # 0 /\ run' = run
    BY <1>1, <1>3
  <2>2. \A c \in BlockIds :
           /\ records'[c].status \in {"pending", "starting"} => ~records'[c].rec /\ records'[c].done = "nil"
           /\ records'[c].rec => records'[c].done = "nil"
    <3>1. \A c \in BlockIds \ {b} :
             /\ records[c].status \in {"pending", "starting"} => ~records[c].rec /\ records[c].done = "nil"
             /\ records[c].rec => records[c].done = "nil"
      BY <1>2 DEF RunInv
    <3>2. ~records'[b].rec /\ records'[b].done = "nil"
      BY <1>7, <1>9
    <3> QED BY <1>6, <3>1, <3>2
  <2>3. \A c \in BlockIds :
           /\ records'[c].status = "pending" => ~records'[c].rec /\ records'[c].done = "nil"
           /\ records'[c].status = "starting" => /\ run.at = "starting"
                                                 /\ ~records'[c].rec /\ records'[c].done = "nil"
           /\ records'[c].rec => records'[c].done = "nil" /\ run.at # "idle"
           /\ records'[c].done = "open" => run.at # "idle"
           /\ run.n = 0 => records'[c].status = "pending"
    BY <1>1, <2>1, <2>2
  <2> QED BY <1>2, <2>1, <2>3 DEF RunInv
<1>12. FreshRequests'
  <2>1. \A n \in 1 .. MaxRuns, c \in BlockIds : n > run.n => starts'[Rec(n, c)] = starts[Rec(n, c)]
    BY <1>3, <1>8, Names, NamedRecs DEF This
  <2>2. \A c \in BlockIds : records'[c].done = records[c].done
    BY <1>6, <1>7
  <2> QED BY <1>1, <1>2, <2>1, <2>2 DEF FreshRequests, This
<1>13. HolderInv'
  BY <1>1, <1>2 DEF HolderInv
<1>14. HeardInv'
  <2>1. ASSUME NEW n \in 1 .. MaxRuns, NEW c \in BlockIds, Rec(n, c) \notin unheard
        PROVE  /\ n # run.n => QuietRec(Rec(n, c))'
               /\ n = run.n => HeardRec(c)'
    <3>1. Rec(n, c) \in Recs
      BY NamedRecs
    <3>2. CASE n # run.n
      <4>1. Rec(n, c) # This(b)
        BY <3>2, Names DEF This
      <4>2. QuietRec(Rec(n, c))
        BY <1>2, <2>1, <3>2 DEF HeardInv
      <4> QED BY <1>1, <1>8, <3>1, <3>2, <4>1, <4>2, QuietAfter
    <3>3. CASE n = run.n
      <4>1. HeardRec(c) /\ Rec(n, c) = This(c) /\ This(c)' = This(c)
        BY <1>1, <1>2, <2>1, <3>3 DEF HeardInv, This
      <4>2. CASE c # b
        <5>1. This(c) # This(b)
          BY <4>2, Names DEF This
        <5> QED BY <1>1, <1>6, <1>8, <3>1, <3>3, <4>1, <4>2, <5>1, HeardAfter
      <4>3. CASE c = b
        <5>1. QuietRec(This(b))
          BY <1>1, <1>9, <4>1, <4>3 DEF HeardRec
        <5> QED BY <1>1, <1>7, <1>8, <1>9, <3>3, <4>1, <4>3, <5>1 DEF HeardRec, QuietRec, Held
      <4> QED BY <4>2, <4>3
    <3> QED BY <3>2, <3>3
  <2> QED BY <1>1, <1>2, <2>1 DEF HeardInv, ThisJob
<1>15. CalmInv'
  <2>1. recordingHere' <=> recordingHere
    BY <1>6, <1>7 DEF recordingHere
  <2> QED BY <1>1, <1>2, <1>8, <2>1 DEF CalmInv, ThisJob
<1> QED BY <1>10, <1>11, <1>12, <1>13, <1>14, <1>15 DEF ControlInv

\* The robot's answer, or none.
LEMMA AnsweredKeeps ==
  ASSUME ControlTypeOK, ControlInv, NEW b \in BlockIds, recordAnswered(b)
  PROVE  ControlTypeOK' /\ ControlInv'
<1>1. /\ records[b].status = "starting"
      /\ UNCHANGED <<run, starts, stops, jobs, clip, lrRecs, sequencing, robotUp>>
  BY DEF recordAnswered, Waiting, asked, robotVars
<1>2. RunInv /\ FreshRequests /\ HolderInv /\ HeardInv /\ CalmInv
  BY DEF ControlInv
<1>3. run.at = "starting" /\ ~records[b].rec /\ records[b].done = "nil"
  BY <1>1, <1>2 DEF RunInv
<1>4. run.n \in 1 .. MaxRuns /\ This(b) \in Recs
  BY <1>2, <1>3, CurrentRun
<1>5. PICK on \in BOOLEAN :
         /\ records' = IF on THEN [records EXCEPT ![b].status = "recording", ![b].rec = TRUE]
                       ELSE [records EXCEPT ![b].status = "error"]
         /\ on => starts[This(b)] = "recording" /\ UNCHANGED <<trouble, unheard>>
         /\ ~on => \/ starts[This(b)] = "refused" /\ UNCHANGED <<trouble, unheard>>
                   \/ /\ starts[This(b)] \notin {"recording", "refused"}
                      /\ GiveUp(This(b), starts[This(b)] # "none")
  <2>1. CASE starts[This(b)] = "recording"
    <3>1. /\ records' = [records EXCEPT ![b].status = "recording", ![b].rec = TRUE]
          /\ UNCHANGED <<trouble, unheard>>
      BY <2>1 DEF recordAnswered
    <3> WITNESS TRUE \in BOOLEAN
    <3> QED BY <2>1, <3>1
  <2>2. CASE starts[This(b)] # "recording"
    <3>1. /\ records' = [records EXCEPT ![b].status = "error"]
          /\ \/ starts[This(b)] = "refused" /\ UNCHANGED <<trouble, unheard>>
             \/ /\ starts[This(b)] \notin {"recording", "refused"}
                /\ GiveUp(This(b), starts[This(b)] # "none")
      BY <2>2 DEF recordAnswered
    <3> WITNESS FALSE \in BOOLEAN
    <3> QED BY <3>1
  <2> QED BY <2>1, <2>2
<1>6. /\ unheard \subseteq unheard' /\ unheard' \subseteq Recs \cup Jobs
      /\ trouble' \in 0 .. MaxTrouble
      /\ trouble' = 0 => trouble = 0 /\ unheard' = unheard
      /\ ~on /\ starts[This(b)] # "refused" => This(b) \in unheard'
  <2>1. CASE UNCHANGED <<trouble, unheard>> /\ (on \/ starts[This(b)] = "refused")
    BY <2>1, RunTyped
  <2>2. CASE /\ starts[This(b)] \notin {"recording", "refused"}
             /\ GiveUp(This(b), starts[This(b)] # "none")
    <3>1. trouble = 0 => starts[This(b)] = "sent"
      BY <1>1, <1>2, <1>4, <2>2 DEF CalmInv, HeardInv, HeardRec, This
    <3>2. /\ unheard \subseteq unheard' /\ unheard' \subseteq Recs \cup Jobs /\ This(b) \in unheard'
          /\ trouble' \in 0 .. MaxTrouble
          /\ trouble' = 0 => trouble = 0 /\ ~(starts[This(b)] # "none")
      BY <1>4, <2>2, GivenUp
    <3> QED BY <3>1, <3>2
  <2> QED BY <1>5, <2>1, <2>2
<1>7. /\ records' \in [BlockIds -> BlockRecord]
      /\ \A c \in BlockIds \ {b} : records'[c] = records[c]
      /\ records'[b].rec = on /\ records'[b].done = "nil"
      /\ records'[b].status = IF on THEN "recording" ELSE "error"
  <2>1. records \in [BlockIds -> BlockRecord]
    BY DEF ControlTypeOK
  <2>2. PICK q : q = IF on THEN [[records[b] EXCEPT !.status = "recording"] EXCEPT !.rec = TRUE]
                     ELSE [records[b] EXCEPT !.status = "error"]
    OBVIOUS
  <2>3. q \in BlockRecord
    <3>1. [records[b] EXCEPT !.status = "recording"] \in BlockRecord /\ [records[b] EXCEPT !.status = "error"] \in BlockRecord
      BY <2>1, BlockFields
    <3>2. [[records[b] EXCEPT !.status = "recording"] EXCEPT !.rec = TRUE] \in BlockRecord
      BY <3>1, BlockFields
    <3> QED BY <2>2, <3>1, <3>2
  <2>4. records' = [records EXCEPT ![b] = q]
    <3>1. CASE on
      <4>1. records' = [records EXCEPT ![b].status = "recording", ![b].rec = TRUE]
        BY <1>5, <3>1
      <4> QED BY <2>1, <2>2, <3>1, <4>1
    <3>2. CASE ~on
      <4>1. records' = [records EXCEPT ![b].status = "error"]
        BY <1>5, <3>2
      <4> QED BY <2>1, <2>2, <3>2, <4>1
    <3> QED BY <3>1, <3>2
  <2>5. /\ q.rec = on /\ q.done = "nil" /\ q.status = IF on THEN "recording" ELSE "error"
    BY <1>3, <2>1, <2>2 DEF BlockRecord
  <2> QED BY <2>1, <2>3, <2>4, <2>5
<1>8. ControlTypeOK'
  BY <1>1, <1>6, <1>7 DEF ControlTypeOK
<1>9. RunInv'
  BY <1>1, <1>2, <1>3, <1>4, <1>7 DEF RunInv
<1>10. FreshRequests'
  <2>1. \A c \in BlockIds : records'[c].done = records[c].done
    BY <1>3, <1>7
  <2> QED BY <1>1, <1>2, <2>1 DEF FreshRequests, This
<1>11. HolderInv'
  BY <1>1, <1>2 DEF HolderInv
<1>12. HeardInv'
  <2>1. ASSUME NEW n \in 1 .. MaxRuns, NEW c \in BlockIds, Rec(n, c) \notin unheard'
        PROVE  /\ n # run.n => QuietRec(Rec(n, c))'
               /\ n = run.n => HeardRec(c)'
    <3>1. Rec(n, c) \in Recs /\ Rec(n, c) \notin unheard
      BY <1>6, <2>1, NamedRecs
    <3>2. CASE n # run.n
      <4>1. QuietRec(Rec(n, c))
        BY <1>2, <3>1, <3>2 DEF HeardInv
      <4> QED BY <1>1, <3>1, <3>2, <4>1, QuietAfter
    <3>3. CASE n = run.n
      <4>1. HeardRec(c) /\ Rec(n, c) = This(c) /\ This(c)' = This(c)
        BY <1>1, <1>2, <3>1, <3>3 DEF HeardInv, This
      <4>2. CASE c # b
        BY <1>1, <1>7, <3>1, <3>3, <4>1, <4>2, HeardAfter
      <4>3. CASE c = b
        <5>1. on \/ starts[This(b)] = "refused"
          BY <1>6, <2>1, <4>1, <4>3
        <5>2. on => starts[This(b)] = "recording"
          BY <1>5
        <5> QED BY <1>1, <1>7, <3>3, <4>1, <4>3, <5>1, <5>2 DEF HeardRec, QuietRec, Held
      <4> QED BY <4>2, <4>3
    <3> QED BY <3>2, <3>3
  <2> QED BY <1>1, <1>2, <1>6, <2>1 DEF HeardInv, ThisJob
<1>13. CalmInv'
  BY <1>1, <1>2, <1>3, <1>6 DEF CalmInv, ThisJob
<1> QED BY <1>8, <1>9, <1>10, <1>11, <1>12, <1>13 DEF ControlInv

\* StopRecord, and where the run goes on.
LEMMA StoppingKeeps ==
  ASSUME ControlTypeOK, ControlInv, NEW bs \in SUBSET BlockIds, stopRecord(bs),
         \A b \in bs : records[b].rec,
         UNCHANGED <<starts, jobs, clip, lrRecs, sequencing, robotUp, trouble, unheard>>,
         run' \in RunRecord, run'.n = run.n, run'.status = run.status,
         run.at \in {"step", "robot", "saving"},
         run.at = "robot" => jobs[ThisJob].at = "done",
         \/ run'.at = "saving" /\ run'.step = run.step
         \/ run'.at = "starting" /\ run'.step = run.step + 1 /\ run'.step \in DOMAIN Steps
  PROVE  ControlTypeOK' /\ ControlInv'
<1>1. RunInv /\ FreshRequests /\ HolderInv /\ HeardInv /\ CalmInv
  BY DEF ControlInv
<1>2. run.n \in 1 .. MaxRuns /\ run.step \in DOMAIN Steps /\ \A b \in BlockIds : This(b) \in Recs
  BY <1>1, CurrentRun
<1>3. /\ records' = [b \in BlockIds |-> IF b \in bs THEN [[records[b] EXCEPT !.rec = FALSE] EXCEPT !.done = "open"]
                                        ELSE records[b]]
      /\ \A b \in BlockIds : records[b] \in BlockRecord
  <2>1. \A b \in BlockIds : records[b] \in BlockRecord
    BY BlocksTyped
  <2>2. \A b \in BlockIds : [records[b] EXCEPT !.rec = FALSE, !.done = "open"]
                            = [[records[b] EXCEPT !.rec = FALSE] EXCEPT !.done = "open"]
    BY <2>1 DEF BlockRecord
  <2> QED BY <2>1, <2>2 DEF stopRecord
<1>4. \A b \in BlockIds \ bs : records'[b] = records[b]
  BY <1>3
<1>5. \A b \in bs : /\ records'[b] \in BlockRecord
                    /\ ~records'[b].rec /\ records'[b].done = "open"
                    /\ records'[b].status = records[b].status
  <2> TAKE b \in bs
  <2>1. b \in BlockIds /\ records[b] \in BlockRecord
    BY <1>3
  <2>2. records'[b] = [[records[b] EXCEPT !.rec = FALSE] EXCEPT !.done = "open"]
    BY <1>3, <2>1
  <2>3. [records[b] EXCEPT !.rec = FALSE] \in BlockRecord
    BY <2>1, BlockFields
  <2>4. records'[b] \in BlockRecord
    BY <2>2, <2>3, BlockFields
  <2>5. ~records'[b].rec /\ records'[b].done = "open" /\ records'[b].status = records[b].status
    BY <2>1, <2>2 DEF BlockRecord
  <2> QED BY <2>4, <2>5
<1>6. records' \in [BlockIds -> BlockRecord]
  <2>1. \A b \in BlockIds : records'[b] \in BlockRecord
    BY <1>3, <1>4, <1>5
  <2>2. \E f : records' = [b \in BlockIds |-> f[b]]
    <3>1. records' = [b \in BlockIds |-> records'[b]]
      BY <1>3
    <3> QED BY <3>1
  <2> QED BY <2>1, <2>2
<1>7. /\ \A b \in bs : records[b].done = "nil" /\ records[b].status # "starting" /\ records[b].status # "pending"
      /\ \A b \in bs : stops[This(b)] = "none"
  <2>1. \A b \in bs : records[b].done = "nil" /\ records[b].status # "starting" /\ records[b].status # "pending"
    BY <1>1 DEF RunInv
  <2>2. run.n > 0
    BY <1>2
  <2> QED BY <1>1, <2>1, <2>2 DEF FreshRequests
<1>8. /\ stops' \in [Recs -> {"none", "tail", "sent", "finishing", "saved", "error"}]
      /\ \A b \in bs : stops'[This(b)] = "tail"
      /\ \A r \in Recs : (\A b \in bs : r # This(b)) => stops'[r] = stops[r]
  <2>1. stops \in [Recs -> {"none", "tail", "sent", "finishing", "saved", "error"}]
    BY DEF ControlTypeOK
  <2> QED BY <1>2, <2>1 DEF stopRecord
<1>9. ControlTypeOK'
  BY <1>6, <1>8 DEF ControlTypeOK
<1>10. RunInv'
  <2>1. run'.n > 0 /\ run'.step \in DOMAIN Steps /\ run'.at # "idle" /\ run'.status = "running"
    BY <1>1, <1>2 DEF RunInv
  <2>2. ASSUME NEW b \in BlockIds
        PROVE  /\ records'[b].status = "pending" => ~records'[b].rec /\ records'[b].done = "nil"
               /\ records'[b].status # "starting"
               /\ records'[b].rec => records'[b].done = "nil"
    <3>1. CASE b \in bs
      BY <1>5, <1>7, <3>1
    <3>2. CASE b \notin bs
      BY <1>1, <1>4, <3>2 DEF RunInv
    <3> QED BY <3>1, <3>2
  <2>3. run'.n # 0
    BY <2>1
  <2> QED BY <2>1, <2>2, <2>3 DEF RunInv
<1>11. FreshRequests'
  <2>1. \A n \in 1 .. MaxRuns, b \in BlockIds : n > run.n => stops'[Rec(n, b)] = stops[Rec(n, b)]
    <3> SUFFICES ASSUME NEW n \in 1 .. MaxRuns, NEW b \in BlockIds, n > run.n
                 PROVE  stops'[Rec(n, b)] = stops[Rec(n, b)]
      OBVIOUS
    <3>1. n # run.n
      BY <1>2
    <3>2. \A c \in bs : Rec(n, b) # This(c)
      BY <3>1, Names DEF This
    <3> QED BY <1>8, <3>2, NamedRecs
  <2>2. ASSUME NEW b \in BlockIds, run.n > 0, records'[b].done = "nil"
        PROVE  stops'[This(b)] = "none"
    <3>1. b \notin bs
      BY <1>5, <2>2
    <3>2. stops[This(b)] = "none"
      BY <1>1, <1>4, <2>2, <3>1 DEF FreshRequests
    <3>3. \A c \in bs : This(b) # This(c)
      BY <3>1, Names DEF This
    <3> QED BY <1>2, <1>8, <3>2, <3>3
  <2>3. ASSUME NEW n \in 1 .. MaxRuns, NEW i \in DOMAIN Steps,
               \/ n > run'.n
               \/ n = run'.n /\ (i > run'.step \/ (i = run'.step /\ run'.at \in {"starting", "step"}))
        PROVE  jobs[Job(n, i)].at = "none"
    <3>1. DOMAIN Steps \subseteq Nat
      BY ControlRunsAssumption
    <3>2. i \in Nat /\ run.step \in Nat /\ (i = run.step + 1 => i > run.step)
      BY <1>2, <3>1
    <3>3. i > run.step + 1 => i > run.step
      BY <3>2
    <3>6. n > run.n \/ (n = run.n /\ i > run.step)
      <4>1. CASE run'.at = "starting" /\ run'.step = run.step + 1
        <5>1. n > run.n \/ (n = run.n /\ (i > run.step + 1 \/ i = run.step + 1))
          BY <1>2, <2>3, <3>2, <4>1
        <5> QED BY <3>2, <3>3, <5>1
      <4>2. CASE run'.at = "saving" /\ run'.step = run.step
        BY <1>2, <2>3, <3>2, <4>2
      <4> QED BY <4>1, <4>2
    <3> QED BY <1>1, <3>6 DEF FreshRequests
  <2>4. \A b : This(b)' = This(b)
    BY DEF This
  <2> QED BY <1>1, <2>1, <2>2, <2>3, <2>4 DEF FreshRequests
<1>12. HolderInv'
  <2>1. \A r \in Recs : stops[r] = "finishing" => stops'[r] = "finishing"
    BY <1>7, <1>8
  <2> QED BY <1>1, <2>1 DEF HolderInv
<1>13. HeardInv'
  <2>1. ASSUME NEW n \in 1 .. MaxRuns, NEW c \in BlockIds, Rec(n, c) \notin unheard
        PROVE  /\ n # run.n => QuietRec(Rec(n, c))'
               /\ n = run.n => HeardRec(c)'
    <3>1. Rec(n, c) \in Recs
      BY NamedRecs
    <3>2. CASE n # run.n
      <4>1. QuietRec(Rec(n, c)) /\ \A b \in bs : Rec(n, c) # This(b)
        <5>1. QuietRec(Rec(n, c))
          BY <1>1, <2>1, <3>2 DEF HeardInv
        <5>2. \A b : Rec(n, c) # This(b)
          BY <3>2, Names DEF This
        <5> QED BY <5>1, <5>2
      <4>2. stops'[Rec(n, c)] = stops[Rec(n, c)]
        BY <1>8, <3>1, <4>1
      <4>3. QuietRec(Rec(n, c))'
        BY <4>1, <4>2, QuietAfter
      <4> QED BY <3>2, <4>3
    <3>3. CASE n = run.n
      <4>1. HeardRec(c) /\ Rec(n, c) = This(c) /\ This(c)' = This(c)
        BY <1>1, <2>1, <3>3 DEF HeardInv, This
      <4>2. CASE c \notin bs
        <5>1. \A b \in bs : This(c) # This(b)
          BY <4>2, Names DEF This
        <5>2. stops'[This(c)] = stops[This(c)] /\ records'[c] = records[c]
          BY <1>2, <1>4, <1>8, <4>2, <5>1
        <5>3. HeardRec(c)'
          BY <4>1, <5>2, HeardAfter
        <5> QED BY <3>3, <5>3
      <4>3. CASE c \in bs
        <5>1. starts[This(c)] = "recording" /\ This(c) \in lrRecs
          BY <4>1, <4>3 DEF HeardRec
        <5>2. HeardRec(c)'
          BY <1>5, <1>7, <1>8, <4>1, <4>3, <5>1 DEF HeardRec, Held
        <5> QED BY <3>3, <5>2
      <4> QED BY <4>2, <4>3
    <3> QED BY <3>2, <3>3
  <2>2. \A j \in Jobs \ unheard : jobs[j].at \notin {"sent", "running"}
    BY <1>1 DEF HeardInv
  <2> QED BY <2>1, <2>2 DEF HeardInv
<1>14. CalmInv'
  BY <1>1 DEF CalmInv
<1> QED BY <1>9, <1>10, <1>11, <1>12, <1>13, <1>14 DEF ControlInv

\* A step that is done, and the recordings that end with it.
LEMMA StepDone ==
  ASSUME ControlTypeOK, ControlInv, stopRecordings,
         UNCHANGED <<clip, lrRecs, sequencing, robotUp, trouble, unheard>>,
         run.at \in {"step", "robot"}, run.at = "robot" => jobs[ThisJob].at = "done"
  PROVE  ControlTypeOK' /\ ControlInv'
<1>1. run \in RunRecord /\ RunInv
  BY RunTyped DEF ControlInv
<1>2. run.step \in DOMAIN Steps /\ DOMAIN Steps = 1 .. Len(Steps) /\ Len(Steps) \in Nat
  BY <1>1, ControlRunsAssumption, CurrentRun
<1>3. UNCHANGED <<starts, jobs>>
  BY DEF stopRecordings
<1>4. stopRecord({b \in BlockIds : Blocks[b].to = run.step /\ records[b].rec})
  BY DEF stopRecordings
<1>5. CASE run.step = Len(Steps)
  <2>1. run' = [run EXCEPT !.at = "saving"]
    BY <1>5 DEF stopRecordings
  <2>2. /\ run' \in RunRecord /\ run'.n = run.n /\ run'.status = run.status
        /\ run'.at = "saving" /\ run'.step = run.step
    <3>1. run' \in RunRecord
      BY <1>1, <2>1, RunFields
    <3> QED BY <1>1, <2>1, <3>1 DEF RunRecord
  <2> QED BY <1>3, <1>4, <2>2, StoppingKeeps
<1>6. CASE run.step # Len(Steps)
  <2>1. PICK k : k = run.step + 1
    OBVIOUS
  <2>2. k \in 0 .. Len(Steps) + 1 /\ k \in DOMAIN Steps
    BY <1>2, <1>6, <2>1
  <2>3. run' = [[run EXCEPT !.at = "starting"] EXCEPT !.step = k]
    BY <1>1, <1>6, <2>1 DEF stopRecordings, RunRecord
  <2>4. [run EXCEPT !.at = "starting"] \in RunRecord
    BY <1>1, RunFields
  <2>5. run' \in RunRecord
    BY <2>2, <2>3, <2>4, RunFields
  <2>6. run'.n = run.n /\ run'.status = run.status /\ run'.at = "starting" /\ run'.step = k
    BY <1>1, <2>3 DEF RunRecord
  <2> QED BY <1>3, <1>4, <2>1, <2>2, <2>5, <2>6, StoppingKeeps
<1> QED BY <1>5, <1>6

\* A step that asks the operator.
LEMMA AskKeeps ==
  ASSUME ControlTypeOK, ControlInv, opAskUser
  PROVE  ControlTypeOK' /\ ControlInv'
<1>1. run.at = "step" /\ UNCHANGED <<clip, lrRecs, sequencing, robotUp, trouble, unheard>>
  BY DEF opAskUser, RobotKeeps, robotVars
<1>2. stopRecordings \/ stepFails("error") \/ stepFails("cancelled")
  BY DEF opAskUser
<1>3. ASSUME stopRecordings PROVE ControlTypeOK' /\ ControlInv'
  BY <1>1, <1>3, StepDone
<1>4. ASSUME NEW why \in {"error", "cancelled"}, stepFails(why) PROVE ControlTypeOK' /\ ControlInv'
  BY <1>1, <1>4, StepFails
<1> QED BY <1>2, <1>3, <1>4

\* RobotRun: the robot is asked, or is not there.
LEMMA RobotRunKeeps ==
  ASSUME ControlTypeOK, ControlInv, robotRun
  PROVE  ControlTypeOK' /\ ControlInv'
<1>1. run.at = "step" /\ UNCHANGED <<clip, lrRecs, sequencing, robotUp, trouble, unheard>>
  BY DEF robotRun, RobotKeeps, robotVars
<1>2. CASE ~robotUp
  <2>1. stepFails("error")
    BY <1>2 DEF robotRun
  <2> QED BY <1>1, <2>1, StepFails
<1>3. CASE robotUp
  <2>1. RunInv /\ FreshRequests /\ HolderInv /\ HeardInv /\ CalmInv /\ run \in RunRecord
    BY RunTyped DEF ControlInv
  <2>2. run.n \in 1 .. MaxRuns /\ run.step \in DOMAIN Steps /\ ThisJob \in Jobs
    BY <1>1, <2>1, CurrentRun
  <2>3. PICK q : q = [[NoJob EXCEPT !.at = "sent"] EXCEPT !.noRecord = recordingHere]
    OBVIOUS
  <2>4. q \in JobRecord /\ q.at = "sent" /\ q.noRecord = recordingHere /\ q.busy = FALSE
    <3>1. NoJob \in JobRecord /\ recordingHere \in BOOLEAN
      BY DEF recordingHere, NoJob, JobRecord
    <3>2. [NoJob EXCEPT !.at = "sent"] \in JobRecord
      BY <3>1, JobFields
    <3>3. q \in JobRecord
      BY <2>3, <3>1, <3>2, JobFields
    <3> QED BY <2>3, <3>3 DEF NoJob
  <2>5. /\ run' = [run EXCEPT !.at = "robot"] /\ UNCHANGED <<records, starts, stops>>
        /\ jobs' = [jobs EXCEPT ![ThisJob] = q]
    <3>1. [NoJob EXCEPT !.at = "sent", !.noRecord = recordingHere] = q
      BY <2>3 DEF NoJob
    <3> QED BY <1>3, <3>1 DEF robotRun
  <2>6. run' \in RunRecord
    BY <2>1, <2>5, RunFields
  <2>7. run'.n = run.n /\ run'.step = run.step /\ run'.at = "robot" /\ run'.status = run.status
    BY <2>1, <2>5 DEF RunRecord
  <2>8. /\ jobs' \in [Jobs -> JobRecord] /\ jobs'[ThisJob] = q
        /\ \A j \in Jobs \ {ThisJob} : jobs'[j] = jobs[j]
    <3>1. jobs \in [Jobs -> JobRecord]
      BY DEF ControlTypeOK
    <3> QED BY <2>2, <2>4, <2>5, <3>1
  <2>9. jobs[ThisJob].at = "none"
    <3>1. run.n \in Nat /\ run.step \in Nat
      BY <2>2, ControlRunsAssumption
    <3> QED BY <1>1, <2>1, <2>2 DEF FreshRequests, ThisJob
  <2>10. ThisJob' = ThisJob /\ \A b : This(b)' = This(b)
    BY <2>7 DEF ThisJob, This
  <2>11. ControlTypeOK'
    BY <1>1, <2>5, <2>6, <2>8 DEF ControlTypeOK
  <2>12. RunInv'
    <3>1. \A b \in BlockIds : records[b].status # "starting"
      BY <1>1, <2>1 DEF RunInv
    <3>2. run.status = "running" /\ run.n > 0
      BY <1>1, <2>1 DEF RunInv
    <3> QED BY <2>1, <2>2, <2>5, <2>7, <3>1, <3>2 DEF RunInv
  <2>13. FreshRequests'
    <3>1. ASSUME NEW n \in 1 .. MaxRuns, NEW i \in DOMAIN Steps,
                 \/ n > run.n
                 \/ n = run.n /\ i > run.step
          PROVE  jobs'[Job(n, i)].at = "none"
      <4>1. jobs[Job(n, i)].at = "none" /\ Job(n, i) \in Jobs
        BY <2>1, <3>1, NamedRecs DEF FreshRequests
      <4>2. run.n \in Nat /\ run.step \in Nat
        BY <2>2, ControlRunsAssumption
      <4>3. n # run.n \/ i # run.step
        BY <3>1, <4>2
      <4>4. Job(n, i) # ThisJob
        BY <4>3, Names DEF ThisJob
      <4> QED BY <2>8, <4>1, <4>4
    <3> QED BY <2>1, <2>5, <2>7, <2>10, <3>1 DEF FreshRequests
  <2>14. HolderInv'
    <3>1. sequencing # ThisJob
      BY <2>1, <2>2, <2>9 DEF HolderInv
    <3> QED BY <1>1, <2>1, <2>4, <2>5, <2>8, <3>1 DEF HolderInv
  <2>15. HeardInv'
    <3>1. ASSUME NEW n \in 1 .. MaxRuns, NEW c \in BlockIds, Rec(n, c) \notin unheard
          PROVE  /\ n # run.n => QuietRec(Rec(n, c))'
                 /\ n = run.n => HeardRec(c)'
      <4>1. n # run.n => QuietRec(Rec(n, c))
        BY <2>1, <3>1 DEF HeardInv
      <4>2. n = run.n => HeardRec(c)
        BY <2>1, <3>1 DEF HeardInv
      <4> QED BY <1>1, <2>5, <2>7, <4>1, <4>2, QuietAfter, HeardAfter
    <3>2. \A j \in Jobs \ unheard : jobs'[j].at \in {"sent", "running"} => j = ThisJob
      BY <1>1, <2>1, <2>8 DEF HeardInv
    <3> QED BY <1>1, <2>7, <2>10, <3>1, <3>2 DEF HeardInv
  <2>16. CalmInv'
    <3>1. recordingHere' = recordingHere
      BY <2>5 DEF recordingHere
    <3>2. \A j \in Jobs : jobs'[j].busy => jobs[j].busy
      BY <2>4, <2>8
    <3> QED BY <1>1, <2>1, <2>4, <2>5, <2>8, <2>10, <3>1, <3>2 DEF CalmInv
  <2> QED BY <2>11, <2>12, <2>13, <2>14, <2>15, <2>16 DEF ControlInv
<1> QED BY <1>2, <1>3

\* The robot reports, has stopped, or takes too long.
LEMMA ReportKeeps ==
  ASSUME ControlTypeOK, ControlInv, robotReports \/ robotStopped \/ robotRunBudget
  PROVE  ControlTypeOK' /\ ControlInv'
<1>1. UNCHANGED <<clip, lrRecs, sequencing, robotUp>>
  BY DEF robotReports, robotStopped, robotRunBudget, RobotKeeps, robotVars
<1>2. CASE robotReports
  <2>1. run.at = "robot" /\ jobs[ThisJob].at = "done" /\ UNCHANGED <<trouble, unheard>>
    BY <1>2 DEF robotReports, RobotKeeps
  <2>2. stopRecordings \/ stepFails("error")
    BY <1>2 DEF robotReports
  <2>3. ASSUME stopRecordings PROVE ControlTypeOK' /\ ControlInv'
    BY <1>1, <2>1, <2>3, StepDone
  <2>4. ASSUME NEW why \in {"error", "cancelled"}, stepFails(why) PROVE ControlTypeOK' /\ ControlInv'
    BY <1>1, <2>1, <2>4, StepFails
  <2> QED BY <2>2, <2>3, <2>4
<1>3. CASE robotStopped
  <2>1. /\ run.at = "stopping robot"
        /\ \/ UNCHANGED <<trouble, unheard>> /\ jobs[ThisJob].at = "done"
           \/ GiveUp(ThisJob, jobs[ThisJob].at # "none")
    BY <1>3 DEF robotStopped
  <2>2. stepFails("cancelled")
    BY <1>3 DEF robotStopped
  <2>3. ASSUME NEW why \in {"error", "cancelled"}, stepFails(why) PROVE ControlTypeOK' /\ ControlInv'
    BY <1>1, <2>1, <2>3, StepFails
  <2> QED BY <2>2, <2>3
<1>4. CASE robotRunBudget
  <2>1. run.at = "robot" /\ GiveUp(ThisJob, jobs[ThisJob].at # "none")
    BY <1>4 DEF robotRunBudget
  <2>2. stepFails("error")
    BY <1>4 DEF robotRunBudget
  <2>3. ASSUME NEW why \in {"error", "cancelled"}, stepFails(why) PROVE ControlTypeOK' /\ ControlInv'
    BY <1>1, <2>1, <2>3, StepFails
  <2> QED BY <2>2, <2>3
<1> QED BY <1>2, <1>3, <1>4

\* CancelRobotRun: the robot is told, and waited for.
LEMMA CancelRunKeeps ==
  ASSUME ControlTypeOK, ControlInv, cancelRobotRun
  PROVE  ControlTypeOK' /\ ControlInv'
<1>1. /\ run.at = "robot" /\ run' = [run EXCEPT !.at = "stopping robot"]
      /\ UNCHANGED <<records, starts, stops, clip, lrRecs, sequencing, robotUp, trouble, unheard>>
  BY DEF cancelRobotRun, RobotKeeps, robotVars
<1>2. RunInv /\ FreshRequests /\ HolderInv /\ HeardInv /\ CalmInv /\ run \in RunRecord
  BY RunTyped DEF ControlInv
<1>3. run.n \in 1 .. MaxRuns /\ run.step \in DOMAIN Steps /\ ThisJob \in Jobs
  BY <1>1, <1>2, CurrentRun
<1>4. run' \in RunRecord
  BY <1>1, <1>2, RunFields
<1>5. run'.n = run.n /\ run'.step = run.step /\ run'.at = "stopping robot" /\ run'.status = run.status
  BY <1>1, <1>2 DEF RunRecord
<1>6. PICK q \in BOOLEAN : jobs' = [jobs EXCEPT ![ThisJob].cancel = q]
  <2>1. (robotUp /\ jobs[ThisJob].at # "done") \in BOOLEAN
    OBVIOUS
  <2> QED BY <2>1 DEF cancelRobotRun
<1>7. /\ jobs' \in [Jobs -> JobRecord]
      /\ \A j \in Jobs : /\ jobs'[j].at = jobs[j].at /\ jobs'[j].busy = jobs[j].busy
                         /\ jobs'[j].noRecord = jobs[j].noRecord
  <2>1. jobs \in [Jobs -> JobRecord] /\ \A j \in Jobs : jobs[j] \in JobRecord
    BY DEF ControlTypeOK
  <2>2. /\ jobs' \in [Jobs -> JobRecord] /\ jobs'[ThisJob] = [jobs[ThisJob] EXCEPT !.cancel = q]
        /\ \A j \in Jobs \ {ThisJob} : jobs'[j] = jobs[j]
    BY <1>3, <1>6, <2>1, JobFields
  <2>3. /\ jobs'[ThisJob].at = jobs[ThisJob].at /\ jobs'[ThisJob].busy = jobs[ThisJob].busy
        /\ jobs'[ThisJob].noRecord = jobs[ThisJob].noRecord
    BY <1>3, <2>1, <2>2 DEF JobRecord
  <2> QED BY <2>2, <2>3
<1>8. ThisJob' = ThisJob /\ \A b : This(b)' = This(b)
  BY <1>5 DEF ThisJob, This
<1>9. ControlTypeOK'
  BY <1>1, <1>4, <1>7 DEF ControlTypeOK
<1>10. RunInv'
  <2>1. run.n > 0 /\ \A b \in BlockIds : records[b].status # "starting"
    BY <1>1, <1>2 DEF RunInv
  <2> QED BY <1>1, <1>2, <1>5, <2>1 DEF RunInv
<1>11. FreshRequests'
  <2>1. \A n \in 1 .. MaxRuns, i \in DOMAIN Steps : jobs'[Job(n, i)].at = jobs[Job(n, i)].at
    BY <1>7, NamedRecs
  <2>2. \A n \in 1 .. MaxRuns, i \in DOMAIN Steps :
           (n > run'.n \/ (n = run'.n /\ (i > run'.step \/ (i = run'.step /\ run'.at \in {"starting", "step"}))))
           => jobs[Job(n, i)].at = "none"
    BY <1>2, <1>5 DEF FreshRequests
  <2>3. /\ \A n \in 1 .. MaxRuns, b \in BlockIds :
              n > run'.n => starts'[Rec(n, b)] = "none" /\ stops'[Rec(n, b)] = "none"
        /\ \A b \in BlockIds :
              run'.n > 0 /\ records'[b].done = "nil" => stops'[This(b)] = "none"
    BY <1>1, <1>2, <1>5 DEF FreshRequests
  <2>4. \A n \in 1 .. MaxRuns, i \in DOMAIN Steps :
           (n > run'.n \/ (n = run'.n /\ (i > run'.step \/ (i = run'.step /\ run'.at \in {"starting", "step"}))))
           => jobs'[Job(n, i)].at = "none"
    BY <2>1, <2>2
  <2> QED BY <1>8, <2>3, <2>4 DEF FreshRequests
<1>12. HolderInv'
  BY <1>1, <1>2, <1>7 DEF HolderInv
<1>13. HeardInv'
  <2>1. ASSUME NEW n \in 1 .. MaxRuns, NEW c \in BlockIds, Rec(n, c) \notin unheard
        PROVE  /\ n # run.n => QuietRec(Rec(n, c))'
               /\ n = run.n => HeardRec(c)'
    <3>1. n # run.n => QuietRec(Rec(n, c))
      BY <1>2, <2>1 DEF HeardInv
    <3>2. n = run.n => HeardRec(c)
      BY <1>2, <2>1 DEF HeardInv
    <3> QED BY <1>1, <1>5, <3>1, <3>2, QuietAfter, HeardAfter
  <2> QED BY <1>1, <1>2, <1>5, <1>7, <1>8, <2>1 DEF HeardInv
<1>14. CalmInv'
  <2>1. recordingHere' = recordingHere
    BY <1>1 DEF recordingHere
  <2> QED BY <1>1, <1>2, <1>3, <1>5, <1>7, <1>8, <2>1 DEF CalmInv
<1> QED BY <1>9, <1>10, <1>11, <1>12, <1>13, <1>14 DEF ControlInv

\* FinishRecordings: what is recording is stopped, what has not started skipped.
LEMMA FinishKeeps ==
  ASSUME ControlTypeOK, ControlInv, finishRecordings
  PROVE  ControlTypeOK' /\ ControlInv'
<1>1. /\ run.at = "saving"
      /\ UNCHANGED <<run, starts, jobs, clip, lrRecs, sequencing, robotUp, trouble, unheard>>
  BY DEF finishRecordings, RobotKeeps, robotVars
<1>2. PICK on : on = {b \in BlockIds : records[b].rec}
  OBVIOUS
<1>3. CASE on # {}
  <2>1. stopRecord(on) /\ on \in SUBSET BlockIds /\ \A b \in on : records[b].rec
    BY <1>2, <1>3 DEF finishRecordings
  <2> QED BY <1>1, <2>1, StoppingKeeps, RunTyped
<1>4. CASE on = {}
  <2>1. /\ records' = [b \in BlockIds |->
               IF records[b].status = "pending" THEN [records[b] EXCEPT !.status = "skipped"]
               ELSE records[b]]
        /\ UNCHANGED stops
    BY <1>2, <1>4 DEF finishRecordings
  <2>2. RunInv /\ FreshRequests /\ HolderInv /\ HeardInv /\ CalmInv
    BY DEF ControlInv
  <2>3. run.n \in 1 .. MaxRuns /\ run.n # 0
    BY <1>1, <2>2, CurrentRun
  <2>4. \A b \in BlockIds :
           /\ records'[b] \in BlockRecord
           /\ records'[b].rec = records[b].rec /\ records'[b].done = records[b].done
           /\ records'[b].status = IF records[b].status = "pending" THEN "skipped" ELSE records[b].status
    <3> TAKE b \in BlockIds
    <3>1. records[b] \in BlockRecord
      BY BlocksTyped
    <3>2. records'[b] = IF records[b].status = "pending" THEN [records[b] EXCEPT !.status = "skipped"]
                        ELSE records[b]
      BY <2>1
    <3>3. records'[b] \in BlockRecord
      BY <3>1, <3>2, BlockFields
    <3> QED BY <3>1, <3>2, <3>3 DEF BlockRecord
  <2>5. records' \in [BlockIds -> BlockRecord]
    <3>1. records' = [b \in BlockIds |-> records'[b]]
      BY <2>1
    <3> QED BY <2>4, <3>1
  <2>6. ControlTypeOK'
    BY <1>1, <2>1, <2>5 DEF ControlTypeOK
  <2>7. RunInv'
    <3>1. \A b \in BlockIds :
             /\ records'[b].status # "pending"
             /\ records'[b].status = "starting" => records[b].status = "starting"
      BY <2>4
    <3> QED BY <1>1, <2>2, <2>3, <2>4, <3>1 DEF RunInv
  <2>8. FreshRequests'
    BY <1>1, <2>1, <2>2, <2>4 DEF FreshRequests, This
  <2>9. HolderInv'
    BY <1>1, <2>1, <2>2 DEF HolderInv
  <2>10. HeardInv'
    <3>1. ASSUME NEW n \in 1 .. MaxRuns, NEW c \in BlockIds, Rec(n, c) \notin unheard
          PROVE  /\ n # run.n => QuietRec(Rec(n, c))'
                 /\ n = run.n => HeardRec(c)'
      <4>1. n # run.n => QuietRec(Rec(n, c))
        BY <2>2, <3>1 DEF HeardInv
      <4>2. n = run.n => HeardRec(c)
        BY <2>2, <3>1 DEF HeardInv
      <4>3. QuietRec(Rec(n, c)) => QuietRec(Rec(n, c))'
        BY <1>1, <2>1, QuietAfter
      <4>4. HeardRec(c) => HeardRec(c)'
        <5>1. This(c)' = This(c) /\ (QuietRec(This(c)) => QuietRec(This(c))')
          BY <1>1, <2>1 DEF This, QuietRec, Held
        <5>2. /\ records'[c].rec <=> records[c].rec
              /\ records'[c].done = records[c].done
              /\ records'[c].status = "starting" <=> records[c].status = "starting"
          BY <2>4
        <5> QED BY <1>1, <2>1, <5>1, <5>2 DEF HeardRec, Held
      <4> QED BY <4>1, <4>2, <4>3, <4>4
    <3> QED BY <1>1, <2>2, <3>1 DEF HeardInv, ThisJob
  <2>11. CalmInv'
    <3>1. recordingHere' <=> recordingHere
      BY <2>4 DEF recordingHere
    <3> QED BY <1>1, <2>1, <2>2, <3>1 DEF CalmInv, ThisJob
  <2> QED BY <2>6, <2>7, <2>8, <2>9, <2>10, <2>11 DEF ControlInv
<1> QED BY <1>3, <1>4

\* The goroutine that stops a recording asks the robot.
LEMMA SendStopKeeps ==
  ASSUME ControlTypeOK, ControlInv, NEW b \in BlockIds, sendStop(b)
  PROVE  ControlTypeOK' /\ ControlInv'
<1>1. /\ records[b].done = "open" /\ stops[This(b)] = "tail"
      /\ UNCHANGED <<run, starts, jobs, clip, lrRecs, sequencing, robotUp, trouble>>
      /\ records' = [records EXCEPT ![b].status = "saving"]
      /\ unheard' = IF robotUp THEN unheard ELSE unheard \cup {This(b)}
  BY DEF sendStop, robotVars
<1>2. RunInv /\ FreshRequests /\ HolderInv /\ HeardInv /\ CalmInv
  BY DEF ControlInv
<1>3. run.at # "idle"
  BY <1>1, <1>2 DEF RunInv
<1>4. run.n \in 1 .. MaxRuns /\ This(b) \in Recs
  BY <1>2, <1>3, CurrentRun
<1>5. /\ records' \in [BlockIds -> BlockRecord]
      /\ \A c \in BlockIds \ {b} : records'[c] = records[c]
      /\ records'[b].rec = records[b].rec /\ records'[b].done = "open"
      /\ records'[b].status = "saving"
  <2>1. records \in [BlockIds -> BlockRecord]
    BY DEF ControlTypeOK
  <2>2. [records[b] EXCEPT !.status = "saving"] \in BlockRecord
    BY <2>1, BlockFields
  <2>3. /\ records' \in [BlockIds -> BlockRecord]
        /\ \A c \in BlockIds \ {b} : records'[c] = records[c]
        /\ records'[b] = [records[b] EXCEPT !.status = "saving"]
    BY <1>1, <2>1, <2>2
  <2> QED BY <1>1, <2>1, <2>3 DEF BlockRecord
<1>6. ~records[b].rec
  BY <1>1, <1>2 DEF RunInv
<1>7. /\ stops' \in [Recs -> {"none", "tail", "sent", "finishing", "saved", "error"}]
      /\ \A r \in Recs : r # This(b) => stops'[r] = stops[r]
      /\ stops'[This(b)] = IF robotUp THEN "sent" ELSE "error"
  <2>1. stops \in [Recs -> {"none", "tail", "sent", "finishing", "saved", "error"}]
    BY DEF ControlTypeOK
  <2>2. stops' = [stops EXCEPT ![This(b)] = IF robotUp THEN "sent" ELSE "error"]
    BY DEF sendStop
  <2> QED BY <1>4, <2>1, <2>2
<1>8. ControlTypeOK'
  <2>1. unheard' \subseteq Recs \cup Jobs
    BY <1>1, <1>4, RunTyped
  <2> QED BY <1>1, <1>5, <1>7, <2>1 DEF ControlTypeOK
<1>9. RunInv'
  <2>1. run.n # 0
    BY <1>4
  <2>2. \A c \in BlockIds \ {b} :
           /\ records[c].status = "pending" => ~records[c].rec /\ records[c].done = "nil"
           /\ records[c].status = "starting" => /\ run.at = "starting"
                                                /\ ~records[c].rec /\ records[c].done = "nil"
           /\ records[c].rec => records[c].done = "nil" /\ run.at # "idle"
    BY <1>2 DEF RunInv
  <2>3. \A c \in BlockIds :
           /\ records'[c].status = "pending" => ~records'[c].rec /\ records'[c].done = "nil"
           /\ records'[c].status = "starting" => /\ run.at = "starting"
                                                 /\ ~records'[c].rec /\ records'[c].done = "nil"
           /\ records'[c].rec => records'[c].done = "nil" /\ run.at # "idle"
    BY <1>5, <1>6, <2>2
  <2> QED BY <1>1, <1>2, <1>3, <2>1, <2>3 DEF RunInv
<1>10. FreshRequests'
  <2>1. \A n \in 1 .. MaxRuns, c \in BlockIds : n > run.n => stops'[Rec(n, c)] = stops[Rec(n, c)]
    BY <1>4, <1>7, Names, NamedRecs DEF This
  <2>2. ASSUME NEW c \in BlockIds, run.n > 0, records'[c].done = "nil"
        PROVE  stops'[This(c)] = "none"
    <3>1. c # b /\ This(c) # This(b) /\ This(c) \in Recs
      BY <1>2, <1>3, <1>5, <2>2, Names, CurrentRun DEF This
    <3>2. stops[This(c)] = "none"
      BY <1>2, <1>5, <2>2, <3>1 DEF FreshRequests
    <3> QED BY <1>7, <3>1, <3>2
  <2>3. \A c : This(c)' = This(c)
    BY <1>1 DEF This
  <2> QED BY <1>1, <1>2, <2>1, <2>2, <2>3 DEF FreshRequests
<1>11. HolderInv'
  <2>1. \A r \in Recs : stops[r] = "finishing" => stops'[r] = "finishing"
    BY <1>1, <1>7
  <2> QED BY <1>1, <1>2, <2>1 DEF HolderInv
<1>12. HeardInv'
  <2>1. ASSUME NEW n \in 1 .. MaxRuns, NEW c \in BlockIds, Rec(n, c) \notin unheard'
        PROVE  /\ n # run.n => QuietRec(Rec(n, c))'
               /\ n = run.n => HeardRec(c)'
    <3>1. Rec(n, c) \in Recs /\ Rec(n, c) \notin unheard
      BY <1>1, <2>1, NamedRecs
    <3>2. CASE n # run.n
      <4>1. Rec(n, c) # This(b)
        BY <3>2, Names DEF This
      <4>2. QuietRec(Rec(n, c))
        BY <1>2, <3>1, <3>2 DEF HeardInv
      <4> QED BY <1>1, <1>7, <3>1, <3>2, <4>1, <4>2, QuietAfter
    <3>3. CASE n = run.n
      <4>1. HeardRec(c) /\ Rec(n, c) = This(c) /\ This(c)' = This(c)
        BY <1>1, <1>2, <3>1, <3>3 DEF HeardInv, This
      <4>2. CASE c # b
        <5>1. This(c) # This(b)
          BY <4>2, Names DEF This
        <5> QED BY <1>1, <1>5, <1>7, <3>1, <3>3, <4>1, <4>2, <5>1, HeardAfter
      <4>3. CASE c = b
        <5>1. robotUp /\ stops'[This(b)] = "sent"
          BY <1>1, <1>7, <2>1, <4>1, <4>3
        <5>2. starts[This(b)] # "sent" /\ This(b) \in lrRecs
          BY <1>1, <4>1, <4>3 DEF HeardRec
        <5> QED BY <1>1, <1>5, <1>6, <3>3, <4>1, <4>3, <5>1, <5>2 DEF HeardRec
      <4> QED BY <4>2, <4>3
    <3> QED BY <3>2, <3>3
  <2>2. \A j \in Jobs \ unheard' : j \in Jobs \ unheard
    BY <1>1
  <2> QED BY <1>1, <1>2, <2>1, <2>2 DEF HeardInv, ThisJob
<1>13. CalmInv'
  <2>1. recordingHere' <=> recordingHere
    BY <1>1, <1>5 DEF recordingHere
  <2> QED BY <1>1, <1>2, <2>1 DEF CalmInv, ThisJob
<1> QED BY <1>8, <1>9, <1>10, <1>11, <1>12, <1>13 DEF ControlInv

\* It hears the recording is saved, or that it is not, or gives up.
LEMMA SavedKeeps ==
  ASSUME ControlTypeOK, ControlInv, NEW b \in BlockIds, recordSaved(b)
  PROVE  ControlTypeOK' /\ ControlInv'
<1>1. /\ records[b].done = "open" /\ stops[This(b)] # "tail"
      /\ UNCHANGED <<run, starts, stops, jobs, clip, lrRecs, sequencing, robotUp>>
  BY DEF recordSaved, robotVars, asked
<1>2. RunInv /\ FreshRequests /\ HolderInv /\ HeardInv /\ CalmInv
  BY DEF ControlInv
<1>3. run.at # "idle" /\ ~records[b].rec
  BY <1>1, <1>2 DEF RunInv
<1>4. run.n \in 1 .. MaxRuns /\ This(b) \in Recs
  BY <1>2, <1>3, CurrentRun
<1>5. PICK s \in {"saved", "error"} :
         records' = [records EXCEPT ![b].done = "closed", ![b].status = s]
  BY DEF recordSaved
<1>6. /\ records' \in [BlockIds -> BlockRecord]
      /\ \A c \in BlockIds \ {b} : records'[c] = records[c]
      /\ ~records'[b].rec /\ records'[b].done = "closed"
      /\ records'[b].status = s
  <2>1. records \in [BlockIds -> BlockRecord]
    BY DEF ControlTypeOK
  <2>2. PICK q : q = [[records[b] EXCEPT !.done = "closed"] EXCEPT !.status = s]
    OBVIOUS
  <2>3. [records[b] EXCEPT !.done = "closed"] \in BlockRecord
    BY <2>1, BlockFields
  <2>4. q \in BlockRecord
    BY <2>2, <2>3, BlockFields
  <2>5. records' = [records EXCEPT ![b] = q]
    BY <1>5, <2>1, <2>2
  <2>6. ~q.rec /\ q.done = "closed" /\ q.status = s
    BY <1>3, <2>1, <2>2 DEF BlockRecord
  <2> QED BY <2>1, <2>4, <2>5, <2>6
<1>7. /\ unheard \subseteq unheard' /\ unheard' \subseteq Recs \cup Jobs
      /\ trouble' \in 0 .. MaxTrouble
      /\ trouble' = 0 => trouble = 0 /\ unheard' = unheard
      /\ stops[This(b)] \notin {"saved", "error"} => This(b) \in unheard'
  <2>1. CASE stops[This(b)] \in {"saved", "error"}
    <3>1. UNCHANGED <<trouble, unheard>>
      BY <2>1 DEF recordSaved
    <3> QED BY <2>1, <3>1, RunTyped
  <2>2. CASE stops[This(b)] \notin {"saved", "error"}
    <3>1. GiveUp(This(b), stops[This(b)] # "none")
      BY <2>2 DEF recordSaved
    <3>2. trouble = 0 => stops[This(b)] # "none"
      BY <1>1, <1>2, <1>4 DEF CalmInv, HeardInv, HeardRec, This
    <3>3. /\ unheard \subseteq unheard' /\ unheard' \subseteq Recs \cup Jobs /\ This(b) \in unheard'
          /\ trouble' \in 0 .. MaxTrouble
          /\ trouble' = 0 => trouble = 0 /\ ~(stops[This(b)] # "none")
      BY <1>4, <3>1, GivenUp
    <3> QED BY <3>2, <3>3
  <2> QED BY <2>1, <2>2
<1>8. ControlTypeOK'
  BY <1>1, <1>6, <1>7 DEF ControlTypeOK
<1>9. RunInv'
  <2>1. run.n # 0
    BY <1>4
  <2>2. \A c \in BlockIds \ {b} :
           /\ records[c].status = "pending" => ~records[c].rec /\ records[c].done = "nil"
           /\ records[c].status = "starting" => /\ run.at = "starting"
                                                /\ ~records[c].rec /\ records[c].done = "nil"
           /\ records[c].rec => records[c].done = "nil" /\ run.at # "idle"
    BY <1>2 DEF RunInv
  <2>3. \A c \in BlockIds :
           /\ records'[c].status = "pending" => ~records'[c].rec /\ records'[c].done = "nil"
           /\ records'[c].status = "starting" => /\ run.at = "starting"
                                                 /\ ~records'[c].rec /\ records'[c].done = "nil"
           /\ records'[c].rec => records'[c].done = "nil" /\ run.at # "idle"
    BY <1>6, <2>2
  <2> QED BY <1>1, <1>2, <1>3, <2>1, <2>3 DEF RunInv
<1>10. FreshRequests'
  <2>1. \A c \in BlockIds : records'[c].done = "nil" => records[c].done = "nil"
    BY <1>6
  <2> QED BY <1>1, <1>2, <2>1 DEF FreshRequests, This
<1>11. HolderInv'
  BY <1>1, <1>2 DEF HolderInv
<1>12. HeardInv'
  <2>1. ASSUME NEW n \in 1 .. MaxRuns, NEW c \in BlockIds, Rec(n, c) \notin unheard'
        PROVE  /\ n # run.n => QuietRec(Rec(n, c))'
               /\ n = run.n => HeardRec(c)'
    <3>1. Rec(n, c) \in Recs /\ Rec(n, c) \notin unheard
      BY <1>7, <2>1, NamedRecs
    <3>2. CASE n # run.n
      <4>1. QuietRec(Rec(n, c))
        BY <1>2, <3>1, <3>2 DEF HeardInv
      <4> QED BY <1>1, <3>1, <3>2, <4>1, QuietAfter
    <3>3. CASE n = run.n
      <4>1. HeardRec(c) /\ Rec(n, c) = This(c) /\ This(c)' = This(c)
        BY <1>1, <1>2, <3>1, <3>3 DEF HeardInv, This
      <4>2. CASE c # b
        BY <1>1, <1>6, <3>1, <3>3, <4>1, <4>2, HeardAfter
      <4>3. CASE c = b
        <5>1. stops[This(b)] \in {"saved", "error"}
          BY <1>7, <2>1, <4>1, <4>3
        <5>2. QuietRec(This(b))
          BY <1>1, <4>1, <4>3, <5>1 DEF HeardRec, QuietRec
        <5> QED BY <1>1, <1>6, <3>3, <4>1, <4>3, <5>2 DEF HeardRec, QuietRec, Held
      <4> QED BY <4>2, <4>3
    <3> QED BY <3>2, <3>3
  <2>2. \A j \in Jobs \ unheard' : j \in Jobs \ unheard
    BY <1>7
  <2> QED BY <1>1, <1>2, <2>1, <2>2 DEF HeardInv, ThisJob
<1>13. CalmInv'
  <2>1. recordingHere' => recordingHere
    BY <1>1, <1>6 DEF recordingHere
  <2> QED BY <1>1, <1>2, <1>7, <2>1 DEF CalmInv, ThisJob
<1> QED BY <1>8, <1>9, <1>10, <1>11, <1>12, <1>13 DEF ControlInv

\* What the robot does leaves the run where it is.
LEMMA RobotFrame ==
  ASSUME ControlInv, LRKeeps
  PROVE  /\ RunInv' /\ recordingHere' = recordingHere /\ ThisJob' = ThisJob
         /\ \A b : This(b)' = This(b)
         /\ UNCHANGED <<run, records, robotUp, unheard>>
<1>1. UNCHANGED <<run, records, robotUp, unheard>>
  BY DEF LRKeeps
<1> QED BY <1>1 DEF ControlInv, RunInv, recordingHere, ThisJob, This

\* A robot that makes no request leaves those nobody has made alone.
LEMMA RobotFresh ==
  ASSUME ControlInv, LRKeeps, ControlTypeOK,
         \A r \in Recs : starts[r] = "none" => starts'[r] = "none",
         \A r \in Recs : stops[r] = "none" => stops'[r] = "none",
         \A j \in Jobs : jobs[j].at = "none" => jobs'[j].at = "none"
  PROVE  FreshRequests'
<1>1. UNCHANGED <<run, records>> /\ \A b : This(b)' = This(b)
  BY RobotFrame
<1>2. FreshRequests /\ RunInv
  BY DEF ControlInv
<1>3. \A n \in 1 .. MaxRuns, b \in BlockIds :
          n > run.n => starts'[Rec(n, b)] = "none" /\ stops'[Rec(n, b)] = "none"
  BY <1>2, NamedRecs DEF FreshRequests
<1>4. \A b \in BlockIds : run.n > 0 /\ records[b].done = "nil" => stops'[This(b)] = "none"
  <2>1. run.n > 0 => run.n \in 1 .. MaxRuns
    <3>1. run.n \in 0 .. MaxRuns /\ MaxRuns \in Nat
      BY RunTyped, ControlRunsAssumption DEF RunRecord
    <3> QED BY <3>1
  <2> QED BY <1>2, <2>1, NamedRecs DEF FreshRequests, This
<1>5. \A n \in 1 .. MaxRuns, i \in DOMAIN Steps :
          (\/ n > run.n
           \/ n = run.n /\ (i > run.step \/ (i = run.step /\ run.at \in {"starting", "step"})))
          => jobs'[Job(n, i)].at = "none"
  BY <1>2, NamedRecs DEF FreshRequests
<1> QED BY <1>1, <1>3, <1>4, <1>5 DEF FreshRequests

\* A robot that changes one recording leaves the others as well heard of.
LEMMA RobotHeard ==
  ASSUME ControlInv, LRKeeps, NEW q,
         \A r \in Recs \ {q} : /\ starts'[r] = starts[r] /\ stops'[r] = stops[r]
                               /\ r \in lrRecs' <=> r \in lrRecs
                               /\ clip' = r => clip = r,
         \A n \in 1 .. MaxRuns, b \in BlockIds :
             Rec(n, b) = q /\ q \notin unheard => /\ n # run.n => QuietRec(q)'
                                                  /\ n = run.n => HeardRec(b)',
         \A j \in Jobs : jobs'[j].at \in {"sent", "running"} => jobs[j].at \in {"sent", "running"}
  PROVE  HeardInv'
<1>1. /\ UNCHANGED <<run, records, unheard>> /\ ThisJob' = ThisJob
      /\ \A b : This(b)' = This(b)
  BY RobotFrame
<1>2. HeardInv
  BY DEF ControlInv
<1>3. ASSUME NEW n \in 1 .. MaxRuns, NEW c \in BlockIds, Rec(n, c) \notin unheard
      PROVE  /\ n # run.n => QuietRec(Rec(n, c))'
             /\ n = run.n => HeardRec(c)'
  <2>1. CASE Rec(n, c) = q
    <3>1. /\ n # run.n => QuietRec(q)'
          /\ n = run.n => HeardRec(c)'
      BY <1>3, <2>1
    <3>2. QuietRec(q)' <=> QuietRec(Rec(n, c))'
      BY <2>1
    <3> QED BY <3>1, <3>2
  <2>2. CASE Rec(n, c) # q
    <3>1. Rec(n, c) \in Recs \ {q}
      BY <2>2, NamedRecs
    <3>2. CASE n # run.n
      <4>1. QuietRec(Rec(n, c))
        BY <1>2, <1>3, <3>2 DEF HeardInv
      <4> QED BY <3>1, <3>2, <4>1, QuietAfter
    <3>3. CASE n = run.n
      <4>1. HeardRec(c) /\ Rec(n, c) = This(c)
        BY <1>2, <1>3, <3>3 DEF HeardInv, This
      <4> QED BY <1>1, <3>1, <3>3, <4>1, HeardAfter
    <3> QED BY <3>2, <3>3
  <2> QED BY <2>1, <2>2
<1>4. \A j \in Jobs \ unheard :
          jobs'[j].at \in {"sent", "running"} => j = ThisJob /\ run.at \in {"robot", "stopping robot"}
  BY <1>2 DEF HeardInv
<1> QED BY <1>1, <1>3, <1>4 DEF HeardInv

\* A recording's request, as the robot answers it.
LEMMA StartAnswerKeeps ==
  ASSUME ControlTypeOK, ControlInv, NEW r \in Recs, startLRRecording(r)
  PROVE  ControlTypeOK' /\ ControlInv'
<1>1. /\ robotUp /\ starts[r] = "sent" /\ UNCHANGED <<sequencing, stops, jobs>> /\ LRKeeps
  BY DEF startLRRecording
<1>2. RunInv /\ FreshRequests /\ HolderInv /\ HeardInv /\ CalmInv
  BY DEF ControlInv
<1>3. PICK a \in {"recording", "refused"} :
         /\ starts' = [starts EXCEPT ![r] = a]
         /\ a = "recording" => clip = Nobody /\ clip' = r /\ lrRecs' = lrRecs \cup {r} /\ UNCHANGED trouble
         /\ a = "refused" => /\ UNCHANGED <<clip, lrRecs>>
                             /\ \/ clip # Nobody /\ ~lrRecordBusy /\ UNCHANGED trouble
                                \/ Trouble
  BY DEF startLRRecording
<1>4. /\ starts' \in [Recs -> {"none", "sent", "waiting", "recording", "refused"}]
      /\ starts'[r] = a /\ \A q \in Recs \ {r} : starts'[q] = starts[q]
  <2>1. starts \in [Recs -> {"none", "sent", "waiting", "recording", "refused"}]
    BY DEF ControlTypeOK
  <2> QED BY <1>3, <2>1
<1>5. PICK n \in 1 .. MaxRuns, b \in BlockIds : r = Rec(n, b)
  BY NamedRecs
<1>6. r \notin unheard => /\ n = run.n /\ r = This(b) /\ records[b].status = "starting" /\ run.at = "starting"
                          /\ ~records[b].rec /\ records[b].done = "nil"
                          /\ stops[r] = "none" /\ ~Held(r)
  <2> SUFFICES ASSUME r \notin unheard
               PROVE  /\ n = run.n /\ r = This(b) /\ records[b].status = "starting" /\ run.at = "starting"
                      /\ ~records[b].rec /\ records[b].done = "nil"
                      /\ stops[r] = "none" /\ ~Held(r)
    OBVIOUS
  <2>1. /\ n = run.n /\ r = This(b) /\ HeardRec(b)
        /\ records[b].status = "starting" \/ records[b].rec \/ records[b].done = "open"
    BY <1>1, <1>2, <1>5, OfThisRun DEF QuietRec
  <2>2. records[b].status = "starting"
    BY <1>1, <2>1 DEF HeardRec
  <2>3. run.at = "starting" /\ ~records[b].rec /\ records[b].done = "nil"
    BY <1>2, <2>2 DEF RunInv
  <2>4. stops[r] = "none" /\ ~Held(r)
    BY <1>1, <2>1, <2>2 DEF HeardRec
  <2> QED BY <2>1, <2>2, <2>3, <2>4
<1>7. trouble' \in 0 .. MaxTrouble /\ (trouble' = 0 => trouble = 0 /\ (a = "refused" => clip # Nobody /\ ~lrRecordBusy))
  BY <1>3, TroubleCounted, RunTyped
<1>8. ControlTypeOK'
  BY <1>1, <1>3, <1>4, <1>7 DEF ControlTypeOK, LRKeeps
<1>9. RunInv'
  BY <1>1, RobotFrame
<1>10. FreshRequests'
  BY <1>1, <1>4, RobotFresh
<1>11. HolderInv'
  <2>1. CASE a = "recording"
    <3>1. clip' = r /\ r \in lrRecs' /\ r \notin Jobs
      BY <1>3, <2>1, Apart
    <3> QED BY <1>1, <1>2, <3>1 DEF HolderInv
  <2>2. CASE a = "refused"
    BY <1>1, <1>2, <1>3, <2>2 DEF HolderInv
  <2> QED BY <2>1, <2>2
<1>12. HeardInv'
  <2>1. \A q \in Recs \ {r} : /\ starts'[q] = starts[q] /\ stops'[q] = stops[q]
                              /\ q \in lrRecs' <=> q \in lrRecs
                              /\ clip' = q => clip = q
    BY <1>1, <1>3, <1>4
  <2>2. ASSUME NEW m \in 1 .. MaxRuns, NEW c \in BlockIds, Rec(m, c) = r, r \notin unheard
        PROVE  m = run.n /\ HeardRec(c)'
    <3>1. m = run.n /\ c = b
      BY <1>5, <1>6, <2>2, Names
    <3>2. This(b)' = This(b) /\ records' = records
      BY <1>1, RobotFrame
    <3>3. a = "recording" => r \in lrRecs'
      BY <1>3
    <3>4. a = "refused" => ~(clip' = r \/ r \in lrRecs')
      BY <1>3, <1>6, <2>2 DEF Held
    <3>5. HeardRec(b)'
      BY <1>1, <1>4, <1>6, <2>2, <3>2, <3>3, <3>4 DEF HeardRec, Held
    <3> QED BY <3>1, <3>5
  <2> QED BY <1>1, <2>1, <2>2, RobotHeard
<1>13. CalmInv'
  <2> SUFFICES ASSUME trouble' = 0 PROVE CalmInv'
    BY DEF CalmInv
  <2>1. trouble = 0 /\ unheard = {} /\ robotUp /\ clip # Person
    BY <1>2, <1>7 DEF CalmInv
  <2>2. run.at = "starting"
    BY <1>6, <2>1
  <2>3. a = "recording"
    <3> SUFFICES ASSUME a = "refused" PROVE FALSE
      OBVIOUS
    <3>1. clip # Nobody /\ lrRecs = {} /\ \A q \in Recs : stops[q] # "finishing"
      BY <1>7 DEF lrRecordBusy, Stopping
    <3>2. clip \notin Recs
      BY <1>2, <3>1 DEF HolderInv
    <3>3. clip \in Jobs
      BY <2>1, <3>1, <3>2 DEF ControlTypeOK
    <3>4. jobs[clip].at = "running"
      BY <1>2, <3>3 DEF HolderInv
    <3> QED BY <1>2, <2>1, <2>2, <3>3, <3>4 DEF HeardInv
  <2>4. clip' = r /\ r # Person
    BY <1>3, <2>3, Apart
  <2>5. \A q \in Recs : starts'[q] # "refused"
    BY <1>2, <1>4, <2>1, <2>3 DEF CalmInv
  <2>6. UNCHANGED <<run, robotUp, unheard, jobs>>
    BY <1>1 DEF LRKeeps
  <2> QED BY <1>2, <2>1, <2>2, <2>4, <2>5, <2>6 DEF CalmInv
<1> QED BY <1>8, <1>9, <1>10, <1>11, <1>12, <1>13 DEF ControlInv

\* The recorder is let go of.
LEMMA MaxKeeps ==
  ASSUME ControlTypeOK, ControlInv, NEW r \in Recs, lrRecordMax(r)
  PROVE  ControlTypeOK' /\ ControlInv'
<1>1. clip' = Nobody /\ UNCHANGED <<lrRecs, sequencing, starts, stops, jobs, trouble>> /\ LRKeeps
  BY DEF lrRecordMax, asked
<1>2. RunInv /\ FreshRequests /\ HolderInv /\ HeardInv /\ CalmInv
  BY DEF ControlInv
<1>3. ControlTypeOK'
  BY <1>1 DEF ControlTypeOK, LRKeeps
<1>4. HolderInv'
  BY <1>1, <1>2, Apart DEF HolderInv
<1>5. \A q \in Recs : Nobody # q
  BY Apart
<1>6. HeardInv'
  <2>1. \A q \in Recs \ {Nobody} : /\ starts'[q] = starts[q] /\ stops'[q] = stops[q]
                                   /\ q \in lrRecs' <=> q \in lrRecs
                                   /\ clip' = q => clip = q
    BY <1>1
  <2>2. \A n \in 1 .. MaxRuns, b \in BlockIds : Rec(n, b) # Nobody
    BY Strangers
  <2> QED BY <1>1, <2>1, <2>2, RobotHeard
<1>7. CalmInv'
  BY <1>1, <1>2, RobotFrame, Strangers DEF CalmInv
<1> QED BY <1>1, <1>3, <1>4, <1>6, <1>7, RobotFrame, RobotFresh DEF ControlInv

\* The robot stops a recording and saves it.
LEMMA StopAnswerKeeps ==
  ASSUME ControlTypeOK, ControlInv, NEW r \in Recs, stopLRRecording(r) \/ finish(r)
  PROVE  ControlTypeOK' /\ ControlInv'
<1>1. UNCHANGED <<sequencing, starts, jobs, trouble>> /\ LRKeeps
  BY DEF stopLRRecording, finish
<1>2. RunInv /\ FreshRequests /\ HolderInv /\ HeardInv /\ CalmInv
  BY DEF ControlInv
<1>3. PICK a \in {"finishing", "saved", "error"} :
         /\ stops' = [stops EXCEPT ![r] = a]
         /\ \/ /\ stops[r] = "sent" /\ r \in lrRecs /\ a = "finishing"
               /\ lrRecs' = lrRecs \ {r} /\ UNCHANGED clip
            \/ stops[r] = "sent" /\ r \notin lrRecs /\ a = "error" /\ UNCHANGED <<lrRecs, clip>>
            \/ /\ stops[r] = "finishing" /\ a # "finishing"
               /\ clip' = (IF clip = r THEN Nobody ELSE clip) /\ UNCHANGED lrRecs
  BY DEF stopLRRecording, finish
<1>4. /\ stops' \in [Recs -> {"none", "tail", "sent", "finishing", "saved", "error"}]
      /\ stops'[r] = a /\ \A q \in Recs \ {r} : stops'[q] = stops[q]
  <2>1. stops \in [Recs -> {"none", "tail", "sent", "finishing", "saved", "error"}]
    BY DEF ControlTypeOK
  <2> QED BY <1>3, <2>1
<1>5. PICK n \in 1 .. MaxRuns, b \in BlockIds : r = Rec(n, b)
  BY NamedRecs
<1>6. stops[r] \in {"sent", "finishing"} /\ r # Nobody /\ r # Person
  BY <1>3, Apart
<1>7. r \notin unheard => /\ n = run.n /\ r = This(b) /\ HeardRec(b)
                          /\ records[b].status # "starting" /\ ~records[b].rec /\ records[b].done = "open"
                          /\ starts[r] # "sent"
  <2> SUFFICES ASSUME r \notin unheard
               PROVE  /\ n = run.n /\ r = This(b) /\ HeardRec(b)
                      /\ records[b].status # "starting" /\ ~records[b].rec /\ records[b].done = "open"
                      /\ starts[r] # "sent"
    OBVIOUS
  <2>1. /\ n = run.n /\ r = This(b) /\ HeardRec(b)
        /\ records[b].status = "starting" \/ records[b].rec \/ records[b].done = "open"
    BY <1>2, <1>5, <1>6, OfThisRun DEF QuietRec
  <2>2. records[b].status # "starting" /\ ~records[b].rec
    BY <1>6, <2>1 DEF HeardRec
  <2> QED BY <2>1, <2>2 DEF HeardRec
<1>8. ControlTypeOK'
  BY <1>1, <1>3, <1>4 DEF ControlTypeOK, LRKeeps
<1>9. HolderInv'
  <2>1. CASE clip' \in Recs
    <3>1. clip' = clip /\ (clip \in lrRecs \/ stops[clip] = "finishing") /\ clip \notin Jobs
      BY <1>2, <1>3, <2>1, Apart DEF HolderInv
    <3>2. clip # r => clip \in lrRecs' \/ stops'[clip] = "finishing"
      BY <1>3, <1>4, <2>1, <3>1
    <3>3. clip = r => r \in lrRecs' \/ stops'[r] = "finishing"
      <4>1. ASSUME clip = r, r \notin lrRecs, stops[r] = "finishing" PROVE FALSE
        BY <1>3, <2>1, <4>1, Apart
      <4> QED BY <1>3, <1>4, <3>1, <4>1
    <3> QED BY <1>1, <1>2, <3>1, <3>2, <3>3 DEF HolderInv
  <2>2. CASE clip' \notin Recs
    <3>1. clip' = clip \/ clip' = Nobody
      BY <1>3
    <3> QED BY <1>1, <1>2, <2>2, <3>1, Apart DEF HolderInv
  <2> QED BY <2>1, <2>2
<1>10. FreshRequests'
  BY <1>1, <1>4, <1>6, RobotFresh
<1>11. HeardInv'
  <2>1. \A q \in Recs \ {r} : /\ starts'[q] = starts[q] /\ stops'[q] = stops[q]
                              /\ q \in lrRecs' <=> q \in lrRecs
                              /\ clip' = q => clip = q
    BY <1>1, <1>3, <1>4, Apart
  <2>2. ASSUME NEW m \in 1 .. MaxRuns, NEW c \in BlockIds, Rec(m, c) = r, r \notin unheard
        PROVE  m = run.n /\ HeardRec(c)'
    <3>1. m = run.n /\ c = b
      BY <1>5, <1>7, <2>2, Names
    <3>2. This(b)' = This(b) /\ records' = records
      BY <1>1, RobotFrame
    <3>3. r \notin lrRecs'
      BY <1>3, <1>7, <2>2 DEF HeardRec
    <3>4. a # "finishing" => ~(clip' = r \/ r \in lrRecs')
      <4>1. stops[r] = "sent" => r \in lrRecs
        BY <1>7, <2>2 DEF HeardRec
      <4> QED BY <1>3, <1>6, <3>3, <4>1
    <3>5. HeardRec(b)'
      BY <1>1, <1>3, <1>4, <1>7, <2>2, <3>2, <3>3, <3>4 DEF HeardRec, Held
    <3> QED BY <3>1, <3>5
  <2> QED BY <1>1, <2>1, <2>2, RobotHeard
<1>12. CalmInv'
  <2>1. clip' = clip \/ clip' = Nobody
    BY <1>3
  <2> QED BY <1>1, <1>2, <2>1, RobotFrame, Strangers DEF CalmInv
<1> QED BY <1>1, <1>8, <1>9, <1>10, <1>11, <1>12, RobotFrame DEF ControlInv

\* A robot run begins, or the robot is busy.
LEMMA SequenceKeeps ==
  ASSUME ControlTypeOK, ControlInv, NEW j \in Jobs, runSequence(j)
  PROVE  ControlTypeOK' /\ ControlInv'
<1>1. robotUp /\ jobs[j].at = "sent" /\ UNCHANGED <<lrRecs, starts, stops, trouble>> /\ LRKeeps
  BY DEF runSequence
<1>2. RunInv /\ FreshRequests /\ HolderInv /\ HeardInv /\ CalmInv
  BY DEF ControlInv
<1>3. PICK busy \in BOOLEAN :
         /\ busy <=> (sequencing # Nobody \/ (~jobs[j].noRecord /\ clip # Nobody))
         /\ jobs' = [jobs EXCEPT ![j].at = IF busy THEN "done" ELSE "running", ![j].busy = busy]
         /\ sequencing' = (IF busy THEN sequencing ELSE j)
         /\ clip' = (IF busy \/ jobs[j].noRecord THEN clip ELSE j)
  <2>1. PICK busy : busy = (sequencing # Nobody \/ (~jobs[j].noRecord /\ clip # Nobody))
    OBVIOUS
  <2>2. busy \in BOOLEAN
    BY <2>1
  <2> WITNESS busy \in BOOLEAN
  <2> QED BY <2>1 DEF runSequence
<1>4. /\ jobs' \in [Jobs -> JobRecord] /\ \A k \in Jobs \ {j} : jobs'[k] = jobs[k]
      /\ jobs'[j].at = (IF busy THEN "done" ELSE "running") /\ jobs'[j].busy = busy
  <2>1. jobs \in [Jobs -> JobRecord]
    BY DEF ControlTypeOK
  <2>2. PICK x \in {"done", "running"} : x = IF busy THEN "done" ELSE "running"
    OBVIOUS
  <2>3. PICK q : q = [[jobs[j] EXCEPT !.at = x] EXCEPT !.busy = busy]
    OBVIOUS
  <2>4. [jobs[j] EXCEPT !.at = x] \in JobRecord
    BY <2>1, JobFields
  <2>5. q \in JobRecord
    BY <2>3, <2>4, JobFields
  <2>6. jobs' = [jobs EXCEPT ![j] = q]
    BY <1>3, <2>1, <2>2, <2>3
  <2>7. q.at = x /\ q.busy = busy
    BY <2>1, <2>3 DEF JobRecord
  <2> QED BY <2>1, <2>2, <2>5, <2>6, <2>7
<1>5. j \notin Recs /\ j # Nobody /\ j # Person
  BY Apart
<1>6. ControlTypeOK'
  BY <1>1, <1>3, <1>4 DEF ControlTypeOK, LRKeeps
<1>7. HolderInv'
  <2>1. sequencing # j
    BY <1>1, <1>2 DEF HolderInv
  <2>2. CASE busy
    BY <1>1, <1>2, <1>3, <1>4, <2>1, <2>2 DEF HolderInv
  <2>3. CASE ~busy
    <3>1. sequencing = Nobody /\ sequencing' = j /\ \A k \in Jobs : jobs[k].at # "running"
      BY <1>2, <1>3, <2>3, Apart DEF HolderInv
    <3>2. clip \notin Jobs
      BY <1>2, <3>1, Apart DEF HolderInv
    <3>3. clip' \in Jobs => clip' = j
      BY <1>3, <3>2
    <3>4. clip' \in Recs => clip' = clip
      BY <1>3, <1>5
    <3> QED BY <1>1, <1>2, <1>4, <2>3, <3>1, <3>3, <3>4 DEF HolderInv
  <2> QED BY <2>2, <2>3
<1>8. FreshRequests'
  <2>1. \A k \in Jobs : jobs[k].at = "none" => jobs'[k].at = "none"
    BY <1>1, <1>4
  <2> QED BY <1>1, <2>1, RobotFresh
<1>9. HeardInv'
  <2>1. \A q \in Recs \ {Nobody} : /\ starts'[q] = starts[q] /\ stops'[q] = stops[q]
                                   /\ q \in lrRecs' <=> q \in lrRecs
                                   /\ clip' = q => clip = q
    BY <1>1, <1>3, <1>5
  <2>2. \A n \in 1 .. MaxRuns, b \in BlockIds : Rec(n, b) # Nobody
    BY Strangers
  <2>3. \A k \in Jobs : jobs'[k].at \in {"sent", "running"} => jobs[k].at \in {"sent", "running"}
    BY <1>1, <1>4
  <2> QED BY <1>1, <2>1, <2>2, <2>3, RobotHeard
<1>10. CalmInv'
  <2> SUFFICES ASSUME trouble' = 0 PROVE CalmInv'
    BY DEF CalmInv
  <2>1. trouble = 0 /\ unheard = {} /\ robotUp /\ clip # Person
    BY <1>1, <1>2 DEF CalmInv
  <2>2. j = ThisJob /\ run.at \in {"robot", "stopping robot"}
    BY <1>1, <1>2, <2>1 DEF HeardInv
  <2>3. sequencing = Nobody
    <3>1. ASSUME sequencing \in Jobs PROVE FALSE
      <4>1. jobs[sequencing].at = "running"
        BY <1>2, <3>1 DEF HolderInv
      <4>2. sequencing = ThisJob
        BY <1>2, <2>1, <3>1, <4>1 DEF HeardInv
      <4> QED BY <1>1, <2>2, <4>1, <4>2
    <3> QED BY <3>1 DEF ControlTypeOK
  <2>4. ~jobs[j].noRecord => clip = Nobody
    <3> SUFFICES ASSUME ~jobs[j].noRecord, clip # Nobody PROVE FALSE
      OBVIOUS
    <3>1. ~recordingHere
      BY <1>1, <1>2, <2>1, <2>2 DEF CalmInv
    <3>2. clip \notin Jobs
      BY <1>2, <2>3, Apart DEF HolderInv
    <3>3. clip \in Recs
      BY <2>1, <3>2 DEF ControlTypeOK
    <3>4. PICK n \in 1 .. MaxRuns, b \in BlockIds : clip = Rec(n, b)
      BY <3>3, NamedRecs
    <3>5. records[b].status = "starting" \/ records[b].rec \/ records[b].done = "open"
      BY <1>2, <2>1, <3>4, OfThisRun DEF QuietRec, Held
    <3>6. records[b].status # "starting"
      BY <1>2, <2>2 DEF RunInv
    <3> QED BY <3>1, <3>5, <3>6 DEF recordingHere
  <2>5. ~busy
    BY <1>3, <2>3, <2>4
  <2>6. clip' # Person /\ \A k \in Jobs : ~jobs'[k].busy
    BY <1>2, <1>3, <1>4, <1>5, <2>1, <2>5 DEF CalmInv
  <2>7. jobs'[ThisJob].at = "running"
    BY <1>4, <2>2, <2>5
  <2> QED BY <1>1, <1>2, <2>1, <2>6, <2>7, RobotFrame DEF CalmInv
<1> QED BY <1>1, <1>6, <1>7, <1>8, <1>9, <1>10, RobotFrame DEF ControlInv

\* A robot run ends.
LEMMA SequenceEnds ==
  ASSUME ControlTypeOK, ControlInv, NEW j \in Jobs, runForLR(j)
  PROVE  ControlTypeOK' /\ ControlInv'
<1>1. /\ robotUp /\ jobs[j].at = "running" /\ UNCHANGED <<lrRecs, starts, stops, trouble>> /\ LRKeeps
      /\ sequencing' = Nobody /\ clip' = (IF clip = j THEN Nobody ELSE clip)
  BY DEF runForLR
<1>2. RunInv /\ FreshRequests /\ HolderInv /\ HeardInv /\ CalmInv
  BY DEF ControlInv
<1>3. PICK ok \in BOOLEAN : jobs' = [jobs EXCEPT ![j].at = "done", ![j].ok = ok]
  BY DEF runForLR
<1>4. /\ jobs' \in [Jobs -> JobRecord] /\ \A k \in Jobs \ {j} : jobs'[k] = jobs[k]
      /\ jobs'[j].at = "done" /\ jobs'[j].busy = jobs[j].busy
  <2>1. jobs \in [Jobs -> JobRecord]
    BY DEF ControlTypeOK
  <2>2. PICK q : q = [[jobs[j] EXCEPT !.at = "done"] EXCEPT !.ok = ok]
    OBVIOUS
  <2>3. [jobs[j] EXCEPT !.at = "done"] \in JobRecord
    BY <2>1, JobFields
  <2>4. q \in JobRecord
    BY <2>2, <2>3, JobFields
  <2>5. jobs' = [jobs EXCEPT ![j] = q]
    BY <1>3, <2>1, <2>2
  <2>6. q.at = "done" /\ q.busy = jobs[j].busy
    BY <2>1, <2>2 DEF JobRecord
  <2> QED BY <2>1, <2>4, <2>5, <2>6
<1>5. j \notin Recs /\ j # Nobody
  BY Apart
<1>6. ControlTypeOK'
  BY <1>1, <1>4 DEF ControlTypeOK, LRKeeps
<1>7. HolderInv'
  <2>1. sequencing = j
    BY <1>1, <1>2 DEF HolderInv
  <2>2. \A k \in Jobs : jobs'[k].at # "running"
    BY <1>2, <1>4, <2>1 DEF HolderInv
  <2>3. clip' \notin Jobs
    BY <1>1, <1>2, <2>1, Apart DEF HolderInv
  <2>4. clip' \in Recs => clip' = clip
    BY <1>1, Apart
  <2> QED BY <1>1, <1>2, <2>2, <2>3, <2>4, Apart DEF HolderInv
<1>8. FreshRequests'
  <2>1. \A k \in Jobs : jobs[k].at = "none" => jobs'[k].at = "none"
    BY <1>1, <1>4
  <2> QED BY <1>1, <2>1, RobotFresh
<1>9. HeardInv'
  <2>1. \A q \in Recs \ {Nobody} : /\ starts'[q] = starts[q] /\ stops'[q] = stops[q]
                                   /\ q \in lrRecs' <=> q \in lrRecs
                                   /\ clip' = q => clip = q
    BY <1>1
  <2>2. \A n \in 1 .. MaxRuns, b \in BlockIds : Rec(n, b) # Nobody
    BY Strangers
  <2>3. \A k \in Jobs : jobs'[k].at \in {"sent", "running"} => jobs[k].at \in {"sent", "running"}
    BY <1>1, <1>4
  <2> QED BY <1>1, <2>1, <2>2, <2>3, RobotHeard
<1>10. CalmInv'
  <2>1. \A k \in Jobs : /\ jobs'[k].at \in {"none", "sent"} => jobs'[k] = jobs[k]
                        /\ jobs'[k].busy = jobs[k].busy
    BY <1>4
  <2>2. clip' # Person \/ clip = Person
    BY <1>1, Strangers
  <2>3. run.at \in {"robot", "stopping robot"} => ThisJob \in Jobs
    BY <1>2, CurrentRun
  <2> QED BY <1>1, <1>2, <2>1, <2>2, <2>3, RobotFrame DEF CalmInv
<1> QED BY <1>1, <1>6, <1>7, <1>8, <1>9, <1>10, RobotFrame DEF ControlInv

\* Somebody's native clip.
LEMMA ClipKeeps ==
  ASSUME ControlTypeOK, ControlInv, recordNativeClip
  PROVE  ControlTypeOK' /\ ControlInv'
<1>1. UNCHANGED <<lrRecs, sequencing, starts, stops, jobs>> /\ LRKeeps /\ clip' \in {Nobody, Person}
  BY DEF recordNativeClip, asked
<1>2. RunInv /\ FreshRequests /\ HolderInv /\ HeardInv /\ CalmInv
  BY DEF ControlInv
<1>3. trouble' \in 0 .. MaxTrouble /\ (trouble' = 0 => trouble = 0 /\ clip' = Nobody)
  <2>1. CASE Trouble
    BY <2>1, TroubleCounted
  <2>2. CASE clip' = Nobody /\ UNCHANGED trouble
    BY <2>2, RunTyped
  <2> QED BY <2>1, <2>2 DEF recordNativeClip
<1>4. ControlTypeOK'
  BY <1>1, <1>3 DEF ControlTypeOK, LRKeeps
<1>5. HolderInv'
  BY <1>1, <1>2, Apart DEF HolderInv
<1>6. HeardInv'
  <2>1. \A q \in Recs \ {Nobody} : /\ starts'[q] = starts[q] /\ stops'[q] = stops[q]
                                   /\ q \in lrRecs' <=> q \in lrRecs
                                   /\ clip' = q => clip = q
    BY <1>1, Apart
  <2>2. \A n \in 1 .. MaxRuns, b \in BlockIds : Rec(n, b) # Nobody
    BY Strangers
  <2> QED BY <1>1, <2>1, <2>2, RobotHeard
<1>7. CalmInv'
  BY <1>1, <1>2, <1>3, RobotFrame, Strangers DEF CalmInv
<1> QED BY <1>1, <1>4, <1>5, <1>6, <1>7, RobotFrame, RobotFresh DEF ControlInv

\* The robot's end, and its return.
LEMMA DeathKeeps ==
  ASSUME ControlTypeOK, ControlInv, RobotDies
  PROVE  ControlTypeOK' /\ ControlInv'
<1>1. /\ clip' = Nobody /\ lrRecs' = {} /\ sequencing' = Nobody /\ robotUp' = FALSE
      /\ UNCHANGED <<run, records>> /\ Trouble
      /\ starts' = [r \in Recs |-> IF starts[r] = "sent" THEN "none" ELSE starts[r]]
      /\ stops' = [r \in Recs |-> IF stops[r] \in {"sent", "finishing"} THEN "none" ELSE stops[r]]
      /\ jobs' = [j \in Jobs |-> IF jobs[j].at \in {"sent", "running"} THEN NoJob ELSE jobs[j]]
      /\ unheard' = unheard \cup {r \in Recs : r[2] = run.n} \cup {j \in Jobs : j[2] = run.n}
  BY DEF RobotDies
<1>2. RunInv /\ FreshRequests /\ HolderInv /\ HeardInv /\ CalmInv
  BY DEF ControlInv
<1>3. trouble' \in 0 .. MaxTrouble /\ trouble' # 0
  BY <1>1, TroubleCounted
<1>4. ControlTypeOK'
  <2>1. NoJob \in JobRecord
    BY DEF NoJob, JobRecord
  <2>2. jobs' \in [Jobs -> JobRecord]
    BY <1>1, <2>1 DEF ControlTypeOK
  <2>3. /\ starts' \in [Recs -> {"none", "sent", "waiting", "recording", "refused"}]
        /\ stops' \in [Recs -> {"none", "tail", "sent", "finishing", "saved", "error"}]
    BY <1>1 DEF ControlTypeOK
  <2>4. unheard' \subseteq Recs \cup Jobs
    BY <1>1, RunTyped
  <2> QED BY <1>1, <1>3, <2>2, <2>3, <2>4 DEF ControlTypeOK
<1>5. RunInv'
  BY <1>1, <1>2 DEF RunInv
<1>6. \A b : This(b)' = This(b)
  BY <1>1 DEF This
<1>7. FreshRequests'
  <2>1. \A n \in 1 .. MaxRuns, b \in BlockIds :
            n > run.n => starts'[Rec(n, b)] = "none" /\ stops'[Rec(n, b)] = "none"
    BY <1>1, <1>2, NamedRecs DEF FreshRequests
  <2>2. \A b \in BlockIds : run.n > 0 /\ records[b].done = "nil" => stops'[This(b)] = "none"
    <3>1. run.n > 0 => run.n \in 1 .. MaxRuns
      <4>1. run.n \in 0 .. MaxRuns /\ MaxRuns \in Nat
        BY RunTyped, ControlRunsAssumption DEF RunRecord
      <4> QED BY <4>1
    <3> QED BY <1>1, <1>2, <3>1, NamedRecs DEF FreshRequests, This
  <2>3. \A j \in Jobs : jobs[j].at = "none" => jobs'[j].at = "none"
    BY <1>1 DEF NoJob
  <2>4. \A n \in 1 .. MaxRuns, i \in DOMAIN Steps :
            (\/ n > run.n
             \/ n = run.n /\ (i > run.step \/ (i = run.step /\ run.at \in {"starting", "step"})))
            => jobs'[Job(n, i)].at = "none"
    BY <1>2, <2>3, NamedRecs DEF FreshRequests
  <2> QED BY <1>1, <1>6, <2>1, <2>2, <2>4 DEF FreshRequests
<1>8. \A j \in Jobs : jobs'[j].at \notin {"sent", "running"}
  BY <1>1 DEF NoJob
<1>9. HolderInv'
  BY <1>1, <1>8, Apart DEF HolderInv
<1>10. HeardInv'
  <2>1. ASSUME NEW n \in 1 .. MaxRuns, NEW c \in BlockIds, Rec(n, c) \notin unheard'
        PROVE  n # run.n /\ QuietRec(Rec(n, c))'
    <3>1. Rec(n, c) \in Recs /\ Rec(n, c)[2] = n
      BY NamedRecs, Names
    <3>2. n # run.n
      BY <1>1, <2>1, <3>1
    <3>3. QuietRec(Rec(n, c))'
      BY <1>1, <3>1, Apart DEF QuietRec, Held
    <3> QED BY <3>2, <3>3
  <2> QED BY <1>1, <1>8, <2>1 DEF HeardInv
<1>11. CalmInv'
  BY <1>3 DEF CalmInv
<1> QED BY <1>4, <1>5, <1>7, <1>9, <1>10, <1>11 DEF ControlInv

\* The robot can be reached again.
LEMMA ReturnKeeps ==
  ASSUME ControlTypeOK, ControlInv, RobotReturns
  PROVE  ControlTypeOK' /\ ControlInv'
<1>1. /\ robotUp' = TRUE
      /\ UNCHANGED <<run, records, starts, stops, jobs, clip, lrRecs, sequencing, trouble, unheard>>
  BY DEF RobotReturns, asked, robotVars
<1>2. \A b : This(b)' = This(b) /\ HeardRec(b)' = HeardRec(b)
  BY <1>1 DEF This, HeardRec, QuietRec, Held
<1>3. \A r : QuietRec(r)' = QuietRec(r)
  BY <1>1 DEF QuietRec, Held
<1>4. RunInv /\ FreshRequests /\ HolderInv /\ HeardInv /\ CalmInv
  BY DEF ControlInv
<1>5. ControlTypeOK'
  BY <1>1 DEF ControlTypeOK
<1>6. RunInv' /\ HolderInv'
  BY <1>1, <1>4 DEF RunInv, HolderInv
<1>7. FreshRequests'
  BY <1>1, <1>2, <1>4 DEF FreshRequests
<1>8. HeardInv'
  <2>1. ThisJob' = ThisJob
    BY <1>1 DEF ThisJob
  <2> QED BY <1>1, <1>2, <1>3, <1>4, <2>1 DEF HeardInv
<1>9. CalmInv'
  BY <1>1, <1>4 DEF CalmInv, ThisJob, recordingHere
<1> QED BY <1>5, <1>6, <1>7, <1>8, <1>9 DEF ControlInv

\* A new run: what is over of the earlier ones is forgotten.
LEMMA StartKeeps ==
  ASSUME ControlTypeOK, ControlInv, start
  PROVE  ControlTypeOK' /\ ControlInv'
<1>1. /\ run.status # "running" /\ run.n < MaxRuns
      /\ run' = [n |-> run.n + 1, step |-> 1, failed |-> "no", at |-> "starting",
                 status |-> "running", cancel |-> FALSE]
      /\ records' = [b \in BlockIds |-> NewRecord]
      /\ UNCHANGED <<clip, lrRecs, sequencing, robotUp, trouble>>
  BY DEF start, robotVars
<1>2. PICK over :
         /\ over = {r \in Recs : /\ r # clip /\ r \notin lrRecs /\ starts[r] # "sent"
                                 /\ stops[r] \notin {"sent", "finishing"}}
                   \cup {j \in Jobs : jobs[j].at \in {"none", "done"}}
         /\ starts' = [r \in Recs |-> IF r \in over THEN "none" ELSE starts[r]]
         /\ stops' = [r \in Recs |-> IF r \in over THEN "none" ELSE stops[r]]
         /\ jobs' = [j \in Jobs |-> IF j \in over THEN NoJob ELSE jobs[j]]
         /\ unheard' = unheard \ over
  BY DEF start, Forget
<1>3. RunInv /\ FreshRequests /\ HolderInv /\ HeardInv /\ CalmInv
  BY DEF ControlInv
<1>4. run.n \in Nat /\ MaxRuns \in Nat /\ run.n + 1 \in 1 .. MaxRuns
  <2>1. run.n \in 0 .. MaxRuns /\ MaxRuns \in Nat
    BY RunTyped, ControlRunsAssumption DEF RunRecord
  <2> QED BY <1>1, <2>1
<1>5. /\ run' \in RunRecord /\ run'.n = run.n + 1 /\ run'.step = 1 /\ run'.at = "starting"
      /\ run'.status = "running" /\ 1 \in DOMAIN Steps
  <2>1. Len(Steps) \in Nat /\ Len(Steps) > 0 /\ DOMAIN Steps = 1 .. Len(Steps)
    BY ControlRunsAssumption
  <2>2. 1 \in 0 .. Len(Steps) + 1 /\ run.n + 1 \in 0 .. MaxRuns /\ 1 \in DOMAIN Steps
    BY <1>4, <2>1
  <2> QED BY <1>1, <2>2 DEF RunRecord
<1>6. /\ records' \in [BlockIds -> BlockRecord]
      /\ \A b \in BlockIds : ~records'[b].rec /\ records'[b].done = "nil" /\ records'[b].status = "pending"
  BY <1>1 DEF NewRecord, BlockRecord
<1>7. run.at = "idle"
  BY <1>1, <1>3 DEF RunInv
<1>8. \A r \in Recs : r \in over <=> QuietRec(r)
  <2>1. \A r \in Recs : r \notin Jobs
    BY Apart
  <2> QED BY <1>2, <2>1 DEF QuietRec, Held
<1>9. \A j \in Jobs : j \in over <=> jobs[j].at \in {"none", "done"}
  <2>1. \A j \in Jobs : j \notin Recs
    BY Apart
  <2> QED BY <1>2, <2>1
<1>10. ControlTypeOK'
  <2>1. NoJob \in JobRecord
    BY DEF NoJob, JobRecord
  <2>2. jobs' \in [Jobs -> JobRecord]
    BY <1>2, <2>1 DEF ControlTypeOK
  <2>3. /\ starts' \in [Recs -> {"none", "sent", "waiting", "recording", "refused"}]
        /\ stops' \in [Recs -> {"none", "tail", "sent", "finishing", "saved", "error"}]
    BY <1>2 DEF ControlTypeOK
  <2>4. unheard' \subseteq Recs \cup Jobs
    BY <1>2, RunTyped
  <2> QED BY <1>1, <1>5, <1>6, <2>2, <2>3, <2>4 DEF ControlTypeOK
<1>11. RunInv'
  <2>1. run'.n > 0 /\ run'.n # 0
    BY <1>4, <1>5
  <2> QED BY <1>5, <1>6, <2>1 DEF RunInv
<1>12. \A n \in 1 .. MaxRuns, b \in BlockIds :
          n >= run.n + 1 => starts'[Rec(n, b)] = "none" /\ stops'[Rec(n, b)] = "none"
  <2>1. \A n \in 1 .. MaxRuns : n >= run.n + 1 => n > run.n
    BY <1>4
  <2> QED BY <1>2, <1>3, <2>1, NamedRecs DEF FreshRequests
<1>13. \A n \in 1 .. MaxRuns, i \in DOMAIN Steps : n >= run.n + 1 => jobs'[Job(n, i)].at = "none"
  <2>1. \A n \in 1 .. MaxRuns : n >= run.n + 1 => n > run.n
    BY <1>4
  <2> QED BY <1>2, <1>3, <2>1, NamedRecs DEF FreshRequests, NoJob
<1>14. FreshRequests'
  <2>1. \A n \in 1 .. MaxRuns : (n > run'.n \/ n = run'.n) => n >= run.n + 1
    BY <1>4, <1>5
  <2>2. \A b : This(b)' = Rec(run.n + 1, b)
    BY <1>5 DEF This
  <2>3. \A b \in BlockIds : stops'[Rec(run.n + 1, b)] = "none"
    BY <1>4, <1>12
  <2> QED BY <1>12, <1>13, <2>1, <2>2, <2>3 DEF FreshRequests
<1>15. HolderInv'
  <2>1. \A r \in Recs : clip = r => stops'[r] = stops[r]
    BY <1>2, <1>8 DEF QuietRec, Held
  <2>2. \A j \in Jobs : jobs'[j].at = "running" <=> jobs[j].at = "running"
    BY <1>2, <1>9 DEF NoJob
  <2> QED BY <1>1, <1>3, <2>1, <2>2 DEF HolderInv
<1>16. HeardInv'
  <2>1. ASSUME NEW n \in 1 .. MaxRuns, NEW c \in BlockIds, Rec(n, c) \notin unheard'
        PROVE  QuietRec(Rec(n, c))'
    <3>1. Rec(n, c) \in Recs
      BY NamedRecs
    <3>2. QuietRec(Rec(n, c))
      <4>1. CASE Rec(n, c) \in over
        BY <1>8, <3>1, <4>1
      <4>2. CASE Rec(n, c) \notin unheard
        <5>1. ASSUME ~QuietRec(Rec(n, c)) PROVE FALSE
          <6>1. records[c].status = "starting" \/ records[c].rec \/ records[c].done = "open"
            BY <1>3, <4>2, <5>1, OfThisRun
          <6> QED BY <1>3, <1>7, <6>1 DEF RunInv
        <5> QED BY <5>1
      <4> QED BY <1>2, <2>1, <4>1, <4>2
    <3>3. starts'[Rec(n, c)] = "none" /\ stops'[Rec(n, c)] = "none"
      BY <1>2, <1>8, <3>1, <3>2
    <3> QED BY <1>1, <3>2, <3>3 DEF QuietRec, Held
  <2>2. ASSUME NEW c \in BlockIds, QuietRec(This(c))' PROVE HeardRec(c)'
    BY <1>6, <2>2 DEF HeardRec
  <2>3. \A n, c : n = run'.n => Rec(n, c) = This(c)'
    BY DEF This
  <2>4. ASSUME NEW n \in 1 .. MaxRuns, NEW c \in BlockIds, Rec(n, c) \notin unheard', n = run'.n
        PROVE  HeardRec(c)'
    <3>1. QuietRec(Rec(n, c))'
      BY <2>1, <2>4
    <3>2. QuietRec(This(c))'
      BY <2>3, <2>4, <3>1
    <3> QED BY <2>2, <3>2
  <2>5. \A j \in Jobs : j \notin unheard' => jobs'[j].at \notin {"sent", "running"}
    <3> SUFFICES ASSUME NEW j \in Jobs, j \notin unheard', jobs'[j].at \in {"sent", "running"} PROVE FALSE
      OBVIOUS
    <3>1. j \notin over /\ jobs[j].at \in {"sent", "running"}
      BY <1>2 DEF NoJob
    <3>2. j \notin unheard
      BY <1>2, <3>1
    <3> QED BY <1>3, <1>7, <3>1, <3>2 DEF HeardInv
  <2> QED BY <2>1, <2>4, <2>5 DEF HeardInv
<1>17. CalmInv'
  <2>1. \A r \in Recs : starts'[r] = "refused" => starts[r] = "refused"
    BY <1>2
  <2>2. \A j \in Jobs : jobs'[j].busy => jobs[j].busy
    BY <1>2 DEF NoJob
  <2>3. unheard = {} => unheard' = {}
    BY <1>2
  <2> QED BY <1>1, <1>3, <1>5, <2>1, <2>2, <2>3 DEF CalmInv
<1> QED BY <1>10, <1>11, <1>14, <1>15, <1>16, <1>17 DEF ControlInv

\* What the control run and the robot do.
LEMMA ControlKept ==
  ASSUME ControlTypeOK, ControlInv, [ControlNext]_controlVars
  PROVE  ControlTypeOK' /\ ControlInv'
<1>1. CASE UNCHANGED controlVars
  <2>1. UNCHANGED <<run, records, starts, stops, jobs, clip, lrRecs, sequencing, robotUp, trouble, unheard>>
    BY <1>1 DEF controlVars, asked, robotVars
  <2>2. RunInv
    BY DEF ControlInv
  <2> QED BY <2>1, <2>2, RunAlone, RunTyped DEF RunInv
<1>2. CASE ControlNext
  BY <1>2, StartKeeps, CancelKeeps, AskKeeps, RobotRunKeeps, ReportKeeps, CancelRunKeeps,
     FinishKeeps,
     StartRecordKeeps, AnsweredKeeps, SendStopKeeps, SavedKeeps, StartAnswerKeeps, MaxKeeps,
     StopAnswerKeeps, SequenceKeeps, SequenceEnds, ClipKeeps, DeathKeeps, ReturnKeeps DEF ControlNext
<1> QED BY <1>1, <1>2

\* The robot's recorder around a run.
LEMMA RecorderIsShared ==
  ASSUME ControlTypeOK, ControlInv
  PROVE  RecordingsApart
<1>1. RunInv /\ HolderInv /\ HeardInv /\ CalmInv
  BY DEF ControlInv
<1>2. RecordingsGiveWay
  BY <1>1 DEF CalmInv, RecordingsGiveWay
<1>3. ASSUME run.status # "running" PROVE QuietAfterRun
  <2>1. run.at = "idle"
    BY <1>1, <1>3 DEF RunInv
  <2>2. \A r \in Recs \ unheard : QuietRec(r)
    <3> SUFFICES ASSUME NEW r \in Recs \ unheard, ~QuietRec(r) PROVE FALSE
      OBVIOUS
    <3>1. PICK n \in 1 .. MaxRuns, b \in BlockIds : r = Rec(n, b)
      BY NamedRecs
    <3>2. records[b].status = "starting" \/ records[b].rec \/ records[b].done = "open"
      BY <1>1, <3>1, OfThisRun
    <3> QED BY <1>1, <2>1, <3>2 DEF RunInv
  <2>3. \A j \in Jobs \ unheard : jobs[j].at # "running"
    BY <1>1, <2>1 DEF HeardInv
  <2>4. sequencing \in {Nobody} \cup unheard
    BY <1>1, <2>3 DEF HolderInv, ControlTypeOK
  <2>5. clip \in {Nobody, Person} \cup unheard
    BY <1>1, <2>2, <2>4, Apart DEF HolderInv, ControlTypeOK, QuietRec, Held
  <2> QED BY <2>2, <2>4, <2>5 DEF QuietAfterRun, QuietRec
<1>4. ASSUME run.status = "running" PROVE QuietAfterRun
  BY <1>4 DEF QuietAfterRun
<1> QED BY <1>2, <1>3, <1>4 DEF RecordingsApart

-----------------------------------------------------------------------------
(***************************************************************************)
(* Managed applications.  SingletonsAlone counts processes; the code keeps *)
(* rows.  RowInv ties the two together, LaunchInv and AloneInv cover the   *)
(* time between the check of a launch and its row, and LeftInv the restart *)
(* of LR, which throws the rows away.                                      *)
(***************************************************************************)
\* An instance whose process is about to be started.
Launching(i) == \E c \in Callers : caller[c].pc = "launching" /\ caller[c].instance = i
\* An instance that runs as far as LR knows, or is about to.
Busy(i) == managed[i].status = "running" \/ Launching(i)

\* A launch has a fresh instance: numbered, with neither process nor row.
LaunchInv ==
    /\ \A c \in Callers : caller[c].pc = "launching" =>
          /\ caller[c].instance \in Instances
          /\ caller[c].instance[2] <= instanceSeq[caller[c].instance[1]]
          /\ child[caller[c].instance] = "none"
          /\ managed[caller[c].instance] = Dismissed
    /\ \A i \in Instances : i[2] > instanceSeq[i[1]] =>
          child[i] = "none" /\ managed[i] = Dismissed

\* A process is alive only under a row that says it runs, and dead under one
\* that says it does not: excused applications aside.
RowInv ==
    /\ \A i \in Instances : Alive(i) /\ i[1] \notin excused => managed[i].status = "running"
    /\ StoppedIsGone

\* Nobody launches the same instance twice; one instance of a singleton is
\* busy at most, and none beside one of a conflicting application.
AloneInv ==
    /\ \A c, d \in Callers :
          /\ caller[c].pc = "launching" /\ caller[d].pc = "launching"
          /\ caller[c].instance = caller[d].instance
          => c = d
    /\ \A a \in Singletons \ excused : \A i, j \in InstancesOf(a) : Busy(i) /\ Busy(j) => i = j
    /\ \A a \in Apps \ excused : \A b \in Conflicts(a) \ excused :
          \A i \in InstancesOf(a), j \in InstancesOf(b) : ~(Busy(i) /\ Busy(j))

\* Nobody is left behind unless it is excused: while LR stops, whoever is alive
\* has been told to stop.
LeftInv ==
    /\ orphans \subseteq excused
    /\ lr = "stopping" =>
          \A i \in Instances : Alive(i) /\ i[1] \notin excused => i \in stopped

\* Together.
AppsInv == LaunchInv /\ RowInv /\ AloneInv /\ LeftInv

\* A row with one field changed.
LEMMA ManagedFields ==
  ASSUME NEW r \in ManagedRecord
  PROVE  /\ \A x \in {"none", "running", "exited", "failed"} :
               [r EXCEPT !.status = x] \in ManagedRecord
         /\ \A x \in BOOLEAN : /\ [r EXCEPT !.terminating = x] \in ManagedRecord
                               /\ [r EXCEPT !.detached = x] \in ManagedRecord
  BY DEF ManagedRecord

\* Rows and callers at rest, and the callers' other states.
LEMMA RestingRecords ==
  /\ Dismissed \in ManagedRecord /\ Dismissed.status = "none"
  /\ Free \in CallerRecord /\ Free.pc = "idle"
  /\ \A i \in Instances : [pc |-> "launching", instance |-> i] \in CallerRecord
  /\ \A i \in Instances : [pc |-> "restarting", instance |-> i] \in CallerRecord
  BY DEF Dismissed, ManagedRecord, Free, CallerRecord

\* An instance is its application and its number.
LEMMA InstanceNames ==
  /\ \A a \in Apps, n \in 1 .. MaxInstances : <<a, n>> \in Instances
  /\ \A i \in Instances : i[1] \in Apps /\ i[2] \in 1 .. MaxInstances /\ i = <<i[1], i[2]>>
  BY DEF Instances

\* The instances of an application, counted.
LEMMA InstancesCounted ==
  ASSUME NEW a \in Apps, NEW K \in SUBSET InstancesOf(a)
  PROVE  IsFiniteSet(K) /\ Cardinality(K) \in 0 .. MaxInstances
<1>1. MaxInstances \in Nat
  BY ManagedAppsAssumption
<1>2. IsFiniteSet(1 .. MaxInstances) /\ Cardinality(1 .. MaxInstances) = MaxInstances
  BY <1>1, FS_Interval
<1>3. PICK f : f = [n \in 1 .. MaxInstances |-> <<a, n>>]
  OBVIOUS
<1>4. f \in Surjection(1 .. MaxInstances, InstancesOf(a))
  BY <1>3, InstanceNames DEF Surjection, InstancesOf
<1>5. IsFiniteSet(InstancesOf(a)) /\ Cardinality(InstancesOf(a)) <= MaxInstances
  BY <1>2, <1>4, FS_Surjection
<1>6. IsFiniteSet(K) /\ Cardinality(K) <= Cardinality(InstancesOf(a))
  BY <1>5, FS_Subset
<1>7. Cardinality(K) \in Nat /\ Cardinality(InstancesOf(a)) \in Nat
  BY <1>5, <1>6, FS_CardinalityType
<1> QED BY <1>1, <1>5, <1>6, <1>7

\* runningCount counts the rows that say they run.
LEMMA RunningCounted ==
  ASSUME NEW a \in Apps, NEW rows
  PROVE  /\ runningCount(rows, a) \in 0 .. MaxInstances
         /\ runningCount(rows, a) = 0 <=> \A i \in InstancesOf(a) : rows[i].status # "running"
<1> DEFINE K == {i \in InstancesOf(a) : rows[i].status = "running"}
<1>1. IsFiniteSet(K) /\ Cardinality(K) \in 0 .. MaxInstances
  BY InstancesCounted
<1>2. Cardinality(K) = 0 <=> K = {}
  BY <1>1, FS_EmptySet
<1>3. runningCount(rows, a) = Cardinality(K)
  BY DEF runningCount
<1> QED BY <1>1, <1>2, <1>3

\* Nothing runs.
LEMMA ManagedAppsStart == ManagedAppsInit => ManagedAppsTypeOK /\ AppsInv
<1> SUFFICES ASSUME ManagedAppsInit PROVE ManagedAppsTypeOK /\ AppsInv
  OBVIOUS
<1>1. /\ managed = [i \in Instances |-> Dismissed] /\ child = [i \in Instances |-> "none"]
      /\ instanceSeq = [a \in Apps |-> 0] /\ caller = [c \in Callers |-> Free]
  BY DEF ManagedAppsInit, FreshLR
<1>2. MaxInstances \in Nat /\ MaxCommands \in Nat /\ MaxRestarts \in Nat
  BY ManagedAppsAssumption
<1>3. ManagedAppsTypeOK
  BY <1>1, <1>2, RestingRecords, ManagedAppsAssumption DEF ManagedAppsInit, ManagedAppsTypeOK
<1>4. LaunchInv
  BY <1>1, RestingRecords DEF LaunchInv
<1>5. RowInv
  BY <1>1, RestingRecords DEF RowInv, StoppedIsGone, Alive
<1>6. \A i \in Instances : ~Busy(i)
  BY <1>1, RestingRecords DEF Busy, Launching
<1>7. AloneInv
  BY <1>1, <1>6, RestingRecords DEF AloneInv, InstancesOf
<1>8. LeftInv
  BY DEF LeftInv, ManagedAppsInit
<1> QED BY <1>3, <1>4, <1>5, <1>7, <1>8 DEF AppsInv

\* A step that launches nothing.
LEMMA AloneAfter ==
  ASSUME AloneInv, excused \subseteq excused',
         \A c \in Callers : caller'[c].pc = "launching" => caller'[c] = caller[c],
         \A i \in Instances : managed'[i].status = "running" => Busy(i)
  PROVE  AloneInv'
<1>1. \A i \in Instances : Busy(i)' => Busy(i)
  BY DEF Busy, Launching
<1>2. \A a : InstancesOf(a) \subseteq Instances
  BY DEF InstancesOf
<1>3. \A a \in Singletons \ excused' : \A i, j \in InstancesOf(a) : Busy(i)' /\ Busy(j)' => i = j
  BY <1>1, <1>2 DEF AloneInv
<1>4. \A a \in Apps \ excused' : \A b \in Conflicts(a) \ excused' :
          \A i \in InstancesOf(a), j \in InstancesOf(b) : ~(Busy(i)' /\ Busy(j)')
  BY <1>1, <1>2 DEF AloneInv
<1>5. \A c, d \in Callers :
          /\ caller'[c].pc = "launching" /\ caller'[d].pc = "launching"
          /\ caller'[c].instance = caller'[d].instance
          => c = d
  BY DEF AloneInv
<1> QED BY <1>3, <1>4, <1>5 DEF AloneInv

\* A step that gives no new instance its number.
LEMMA LaunchAfter ==
  ASSUME LaunchInv, ManagedAppsTypeOK, UNCHANGED instanceSeq,
         \A c \in Callers : caller'[c].pc = "launching" => caller'[c] = caller[c],
         \A i \in Instances : managed[i] = Dismissed /\ child[i] = "none" =>
             \/ managed'[i] = Dismissed /\ child'[i] = "none"
             \/ ~(i[2] > instanceSeq[i[1]]) /\ ~Launching(i)'
  PROVE  LaunchInv'
<1>1. ASSUME NEW c \in Callers, caller'[c].pc = "launching"
      PROVE  /\ caller'[c].instance \in Instances
             /\ caller'[c].instance[2] <= instanceSeq'[caller'[c].instance[1]]
             /\ child'[caller'[c].instance] = "none"
             /\ managed'[caller'[c].instance] = Dismissed
  <2>1. caller'[c] = caller[c] /\ Launching(caller[c].instance)'
    BY <1>1 DEF Launching
  <2> QED BY <1>1, <2>1 DEF LaunchInv
<1>2. \A i \in Instances : i[2] > instanceSeq'[i[1]] =>
          child'[i] = "none" /\ managed'[i] = Dismissed
  BY DEF LaunchInv
<1> QED BY <1>1, <1>2 DEF LaunchInv

\* A step that starts no process and ends rows of dead ones only.
LEMMA RowsAfter ==
  ASSUME RowInv, excused \subseteq excused',
         \A i \in Instances : Alive(i)' => Alive(i),
         \A i \in Instances : Alive(i)' /\ i[1] \notin excused' /\ managed[i].status = "running"
                              => managed'[i].status = "running",
         \A i \in Instances : managed'[i].status \in {"exited", "failed"} =>
             managed'[i].status = managed[i].status \/ ~Alive(i)'
  PROVE  RowInv'
<1>1. \A i \in Instances : Alive(i)' /\ i[1] \notin excused' => managed'[i].status = "running"
  BY DEF RowInv
<1>2. \A i \in Instances : managed'[i].status \in {"exited", "failed"} => ~Alive(i)'
  BY DEF RowInv, StoppedIsGone
<1> QED BY <1>1, <1>2 DEF RowInv, StoppedIsGone

\* A step that leaves LR as it is.
LEMMA LeftAfter ==
  ASSUME LeftInv, excused \subseteq excused', UNCHANGED <<orphans, lr, stopped>>,
         lr = "stopping" => \A i \in Instances : Alive(i)' /\ i[1] \notin excused' => Alive(i)
  PROVE  LeftInv'
  BY DEF LeftInv

\* The check of a launch, and the instance it makes.
LEMMA LaunchChecked ==
  ASSUME ManagedAppsTypeOK, LaunchInv, AloneInv, NEW c \in Callers, NEW a \in Apps,
         caller[c].pc # "launching", CheckLaunch(c, managed', a),
         managed' \in [Instances -> ManagedRecord],
         \A i \in Instances : managed'[i] = managed[i] \/ managed'[i] = Dismissed,
         UNCHANGED child, excused \cup Overlap(a) \subseteq excused'
  PROVE  /\ caller' \in [Callers -> CallerRecord] /\ instanceSeq' \in [Apps -> 0 .. MaxInstances]
         /\ LaunchInv' /\ AloneInv'
<1>1. /\ caller \in [Callers -> CallerRecord] /\ instanceSeq \in [Apps -> 0 .. MaxInstances]
      /\ MaxInstances \in Nat
  BY ManagedAppsAssumption DEF ManagedAppsTypeOK
<1>2. \A i \in Instances : managed'[i].status = "running" => managed[i].status = "running"
  BY RestingRecords
<1>3. CASE Refused(managed', a) \/ instanceSeq[a] = MaxInstances
  <2>1. caller' = [caller EXCEPT ![c] = Free] /\ UNCHANGED instanceSeq
    BY <1>3 DEF CheckLaunch
  <2>2. /\ caller' \in [Callers -> CallerRecord]
        /\ \A d \in Callers : caller'[d].pc = "launching" => caller'[d] = caller[d]
    BY <1>1, <2>1, RestingRecords
  <2>3. AloneInv'
    BY <1>2, <2>2, AloneAfter DEF Busy
  <2>4. LaunchInv'
    BY <2>1, <2>2, LaunchAfter
  <2> QED BY <1>1, <2>1, <2>2, <2>3, <2>4
<1>4. CASE ~Refused(managed', a) /\ instanceSeq[a] # MaxInstances
  <2>1. PICK n : n = instanceSeq[a] + 1
    OBVIOUS
  <2>2. PICK i : i = <<a, n>>
    OBVIOUS
  <2>3. n \in 1 .. MaxInstances /\ n > instanceSeq[a] /\ i \in Instances /\ i[1] = a /\ i[2] = n
    BY <1>1, <1>4, <2>1, <2>2, InstanceNames
  <2>4. /\ instanceSeq' = [instanceSeq EXCEPT ![a] = n]
        /\ caller' = [caller EXCEPT ![c] = [pc |-> "launching", instance |-> i]]
    BY <1>4, <2>1, <2>2 DEF CheckLaunch
  <2>5. /\ instanceSeq' \in [Apps -> 0 .. MaxInstances] /\ instanceSeq'[a] = n
        /\ \A b \in Apps \ {a} : instanceSeq'[b] = instanceSeq[b]
    BY <1>1, <2>3, <2>4
  <2>6. /\ caller' \in [Callers -> CallerRecord]
        /\ caller'[c].pc = "launching" /\ caller'[c].instance = i
        /\ \A d \in Callers \ {c} : caller'[d] = caller[d]
    <3>1. [pc |-> "launching", instance |-> i] \in CallerRecord
      BY <2>3, RestingRecords
    <3> QED BY <1>1, <2>4, <3>1
  <2>7. \A b \in Apps, m \in Nat : m > instanceSeq'[b] => m > instanceSeq[b]
    BY <1>1, <2>3, <2>5
  <2>8. child[i] = "none" /\ managed[i] = Dismissed
    BY <2>3 DEF LaunchInv
  <2>9. LaunchInv'
    <3>1. ASSUME NEW d \in Callers, caller'[d].pc = "launching"
          PROVE  /\ caller'[d].instance \in Instances
                 /\ caller'[d].instance[2] <= instanceSeq'[caller'[d].instance[1]]
                 /\ child'[caller'[d].instance] = "none"
                 /\ managed'[caller'[d].instance] = Dismissed
      <4>1. CASE d = c
        BY <2>3, <2>5, <2>6, <2>8, <4>1
      <4>2. CASE d # c
        <5>1. /\ caller'[d] = caller[d] /\ caller[d].instance \in Instances
              /\ caller[d].instance[2] <= instanceSeq[caller[d].instance[1]]
              /\ child'[caller[d].instance] = "none"
              /\ managed'[caller[d].instance] = Dismissed
          BY <2>6, <3>1, <4>2 DEF LaunchInv
        <5>2. /\ caller[d].instance[1] \in Apps /\ caller[d].instance[2] \in Nat
              /\ instanceSeq[caller[d].instance[1]] \in Nat /\ instanceSeq'[caller[d].instance[1]] \in Nat
          BY <1>1, <2>5, <5>1, InstanceNames
        <5>3. ~(caller[d].instance[2] > instanceSeq'[caller[d].instance[1]])
          BY <2>7, <5>1, <5>2
        <5>4. caller[d].instance[2] <= instanceSeq'[caller[d].instance[1]]
          BY <5>2, <5>3
        <5> QED BY <5>1, <5>4
      <4> QED BY <4>1, <4>2
    <3>2. ASSUME NEW k \in Instances, k[2] > instanceSeq'[k[1]]
          PROVE  child'[k] = "none" /\ managed'[k] = Dismissed
      <4>1. k[2] > instanceSeq[k[1]]
        BY <2>7, <3>2, InstanceNames
      <4> QED BY <4>1 DEF LaunchInv
    <3> QED BY <3>1, <3>2 DEF LaunchInv
  <2>10. \A k \in Instances : Busy(k)' => managed'[k].status = "running" \/ Launching(k) \/ k = i
    BY <2>6 DEF Busy, Launching
  <2>11. \A k \in Instances : Busy(k)' => Busy(k) \/ k = i
    BY <1>2, <2>10 DEF Busy
  <2>12. \A b : InstancesOf(b) \subseteq Instances /\ \A k \in InstancesOf(b) : k[1] = b
    BY DEF InstancesOf
  <2>13. ASSUME a \notin excused', NEW b \in {a} \cup Conflicts(a), NEW k \in InstancesOf(b)
         PROVE  ~Launching(k)
    <3>1. Unseen(a) = {}
      BY <2>13 DEF Overlap
    <3> QED BY <2>12, <2>13, <3>1 DEF Unseen, Launching
  <2>14. \A b \in Conflicts(a) : \A k \in InstancesOf(b) : managed'[k].status # "running"
    <3> SUFFICES ASSUME NEW b \in Conflicts(a)
                 PROVE  \A k \in InstancesOf(b) : managed'[k].status # "running"
      OBVIOUS
    <3>1. b \in Apps /\ ~(runningCount(managed', b) > 0)
      BY <1>4 DEF Refused, conflictingRunning, Conflicts
    <3>2. runningCount(managed', b) = 0
      BY <1>1, <3>1, RunningCounted
    <3> QED BY <3>1, <3>2, RunningCounted
  <2>15. a \in Singletons => \A k \in InstancesOf(a) : managed'[k].status # "running"
    <3>1. a \in Singletons => ~(runningCount(managed', a) > 0)
      BY <1>4 DEF Refused
    <3>2. a \in Singletons => runningCount(managed', a) = 0
      BY <1>1, <3>1, RunningCounted
    <3> QED BY <3>2, RunningCounted
  <2>16. \A x, y \in Apps : y \in Conflicts(x) => x \in Conflicts(y) /\ x # y
    BY DEF Conflicts
  <2>17. ASSUME NEW x \in Singletons \ excused', NEW j \in InstancesOf(x), NEW k \in InstancesOf(x),
                Busy(j)', Busy(k)'
         PROVE  j = k
    <3>1. CASE x = a
      BY <2>10, <2>12, <2>13, <2>15, <2>17, <3>1
    <3>2. CASE x # a
      <4>1. Busy(j) /\ Busy(k) /\ x \in Singletons \ excused
        BY <2>3, <2>11, <2>12, <2>17, <3>2
      <4> QED BY <4>1 DEF AloneInv
    <3> QED BY <3>1, <3>2
  <2>18. ASSUME NEW x \in Apps \ excused', NEW y \in Conflicts(x) \ excused',
                NEW j \in InstancesOf(x), NEW k \in InstancesOf(y), Busy(j)', Busy(k)'
         PROVE  FALSE
    <3>1. y \in Apps /\ x # y
      BY DEF Conflicts
    <3>2. CASE x = a
      BY <2>3, <2>10, <2>12, <2>13, <2>14, <2>18, <3>1, <3>2
    <3>3. CASE y = a
      <4>1. x \in Conflicts(a)
        BY <2>16, <3>1, <3>3
      <4> QED BY <2>3, <2>10, <2>12, <2>13, <2>14, <2>18, <3>1, <3>3, <4>1
    <3>4. CASE x # a /\ y # a
      <4>1. Busy(j) /\ Busy(k) /\ x \in Apps \ excused /\ y \in Conflicts(x) \ excused
        BY <2>3, <2>11, <2>12, <2>18, <3>4
      <4> QED BY <4>1 DEF AloneInv
    <3> QED BY <3>2, <3>3, <3>4
  <2>19. ASSUME NEW d \in Callers, NEW e \in Callers,
                caller'[d].pc = "launching", caller'[e].pc = "launching",
                caller'[d].instance = caller'[e].instance
         PROVE  d = e
    <3>1. \A f \in Callers \ {c} : caller'[f].pc = "launching" => caller'[f].instance # i
      <4> SUFFICES ASSUME NEW f \in Callers \ {c}, caller[f].pc = "launching", caller[f].instance = i
                   PROVE  FALSE
        BY <2>6
      <4>1. n <= instanceSeq[a]
        BY <2>3 DEF LaunchInv
      <4> QED BY <1>1, <2>3, <4>1
    <3> QED BY <2>6, <2>19, <3>1 DEF AloneInv
  <2>20. AloneInv'
    BY <2>17, <2>18, <2>19 DEF AloneInv
  <2> QED BY <2>5, <2>6, <2>9, <2>20
<1> QED BY <1>3, <1>4

\* What the type says, field by field.
LEMMA AppsTyped ==
  ManagedAppsTypeOK =>
      /\ managed \in [Instances -> ManagedRecord]
      /\ child \in [Instances -> {"none", "running", "term", "kill", "gone"}]
      /\ instanceSeq \in [Apps -> 0 .. MaxInstances] /\ caller \in [Callers -> CallerRecord]
      /\ pending \in [Apps -> 0 .. MaxInstances] /\ excused \subseteq Apps /\ orphans \subseteq Apps
      /\ \A i \in Instances : managed[i] \in ManagedRecord /\ managed[i].terminating \in BOOLEAN
      /\ commands \in 0 .. MaxCommands /\ MaxCommands \in Nat
      /\ "operator" \in Callers /\ "auto" \in Callers
  BY ManagedAppsAssumption DEF ManagedAppsTypeOK, ManagedRecord, Callers

\* The operator's commands are bounded.
LEMMA CommandCounted ==
  ASSUME ManagedAppsTypeOK, Command
  PROVE  commands' \in 0 .. MaxCommands
<1>1. commands \in 0 .. MaxCommands /\ MaxCommands \in Nat
  BY AppsTyped
<1> QED BY <1>1 DEF Command

\* A launch is asked for, by the operator or at the start.
LEMMA LaunchKeeps ==
  ASSUME ManagedAppsTypeOK, AppsInv, NEW a \in Apps, Launch(a) \/ startAutoLaunch(a)
  PROVE  ManagedAppsTypeOK' /\ AppsInv'
<1>1. LaunchInv /\ RowInv /\ AloneInv /\ LeftInv
  BY DEF AppsInv
<1>2. PICK c \in Callers : CheckLaunch(c, managed, a) /\ caller[c] = Free
  BY DEF Launch, startAutoLaunch, Callers
<1>3. /\ excused' = excused \cup Overlap(a)
      /\ UNCHANGED <<managed, child, lr, stopped, carried, restarts, orphans>>
  BY DEF Launch, startAutoLaunch, lifeVars
<1>4. commands' \in 0 .. MaxCommands /\ pending' \in [Apps -> 0 .. MaxInstances]
  <2>1. CASE Launch(a)
    <3>1. Command /\ UNCHANGED pending
      BY <2>1 DEF Launch
    <3> QED BY <3>1, AppsTyped, CommandCounted
  <2>2. CASE startAutoLaunch(a)
    <3>1. UNCHANGED commands /\ pending' = [pending EXCEPT ![a] = @ - 1] /\ pending[a] > 0
      BY <2>2 DEF startAutoLaunch
    <3>2. pending[a] \in 0 .. MaxInstances /\ MaxInstances \in Nat
      BY AppsTyped, ManagedAppsAssumption
    <3>3. pending[a] - 1 \in 0 .. MaxInstances
      BY <3>1, <3>2
    <3> QED BY <3>1, <3>3, AppsTyped
  <2> QED BY <2>1, <2>2
<1>5. excused' \subseteq Apps
  BY <1>3, AppsTyped DEF Overlap, Unseen, Conflicts
<1>6. /\ caller' \in [Callers -> CallerRecord] /\ instanceSeq' \in [Apps -> 0 .. MaxInstances]
      /\ LaunchInv' /\ AloneInv'
  <2>1. CheckLaunch(c, managed', a) /\ caller[c].pc # "launching"
    BY <1>2, <1>3, RestingRecords
  <2> QED BY <1>1, <1>3, <2>1, AppsTyped, LaunchChecked
<1>7. RowInv'
  BY <1>1, <1>3, RowsAfter DEF Alive
<1>8. LeftInv'
  BY <1>1, <1>3, LeftAfter DEF Alive
<1>9. ManagedAppsTypeOK'
  BY <1>3, <1>4, <1>5, <1>6 DEF ManagedAppsTypeOK
<1> QED BY <1>6, <1>7, <1>8, <1>9 DEF AppsInv

\* A launch, recorded: the process runs, or did not start.
LEMMA RecordKeeps ==
  ASSUME ManagedAppsTypeOK, AppsInv, NEW c \in Callers, launchManaged(c) \/ recordLaunchFailure(c)
  PROVE  ManagedAppsTypeOK' /\ AppsInv'
<1>1. LaunchInv /\ RowInv /\ AloneInv /\ LeftInv
  BY DEF AppsInv
<1>2. /\ caller[c].pc = "launching" /\ caller' = [caller EXCEPT ![c] = Free]
      /\ UNCHANGED <<instanceSeq, pending, commands, lr, stopped, carried, restarts, orphans>>
  BY DEF launchManaged, recordLaunchFailure, lifeVars
<1>3. PICK i : i = caller[c].instance
  OBVIOUS
<1>4. /\ i \in Instances /\ i[1] \in Apps /\ i[2] \in 1 .. MaxInstances /\ i[2] <= instanceSeq[i[1]]
      /\ child[i] = "none" /\ managed[i] = Dismissed
  BY <1>1, <1>2, <1>3, InstanceNames DEF LaunchInv
<1>5. PICK row \in ManagedRecord :
         /\ managed' = [managed EXCEPT ![i] = row]
         /\ \/ /\ row.status = "failed" /\ UNCHANGED <<child, excused>>
            \/ /\ row.status = "running" /\ child' = [child EXCEPT ![i] = "running"]
               /\ excused' = excused \cup (IF lr = "stopping" THEN {i[1]} ELSE {})
  <2>1. CASE recordLaunchFailure(c)
    <3>1. managed' = [managed EXCEPT ![i] = [managed[i] EXCEPT !.status = "failed"]]
      BY <1>3, <2>1, AppsTyped DEF recordLaunchFailure
    <3>2. [managed[i] EXCEPT !.status = "failed"] \in ManagedRecord
      BY <1>4, AppsTyped, ManagedFields
    <3>3. [managed[i] EXCEPT !.status = "failed"].status = "failed"
      BY <1>4, AppsTyped DEF ManagedRecord
    <3>4. UNCHANGED <<child, excused>>
      BY <2>1 DEF recordLaunchFailure
    <3> QED BY <3>1, <3>2, <3>3, <3>4
  <2>2. CASE launchManaged(c)
    <3>1. PICK detached \in Hostings(i[1]) :
             managed' = [managed EXCEPT ![i] = [Dismissed EXCEPT !.status = "running", !.detached = detached]]
      BY <1>3, <2>2 DEF launchManaged
    <3>2. detached \in BOOLEAN
      BY DEF Hostings
    <3>3. PICK row : row = [[Dismissed EXCEPT !.status = "running"] EXCEPT !.detached = detached]
      OBVIOUS
    <3>4. row = [Dismissed EXCEPT !.status = "running", !.detached = detached] /\ row.status = "running"
      BY <3>3 DEF Dismissed
    <3>5. [Dismissed EXCEPT !.status = "running"] \in ManagedRecord
      BY RestingRecords, ManagedFields
    <3>6. row \in ManagedRecord
      BY <3>2, <3>3, <3>5, ManagedFields
    <3>7. /\ child' = [child EXCEPT ![i] = "running"]
          /\ excused' = excused \cup (IF lr = "stopping" THEN {i[1]} ELSE {})
      BY <1>3, <2>2 DEF launchManaged
    <3> QED BY <3>1, <3>4, <3>6, <3>7
  <2> QED BY <2>1, <2>2
<1>6. /\ managed' \in [Instances -> ManagedRecord] /\ managed'[i] = row
      /\ \A k \in Instances \ {i} : managed'[k] = managed[k]
  BY <1>4, <1>5, AppsTyped
<1>7. /\ child' \in [Instances -> {"none", "running", "term", "kill", "gone"}]
      /\ \A k \in Instances \ {i} : child'[k] = child[k]
      /\ row.status = "running" => child'[i] = "running"
      /\ row.status # "running" => child'[i] = "none"
      /\ row.status \in {"running", "failed"}
  BY <1>4, <1>5, AppsTyped
<1>8. /\ excused' \subseteq Apps /\ excused \subseteq excused'
      /\ row.status = "running" /\ lr = "stopping" => i[1] \in excused'
  BY <1>4, <1>5, AppsTyped
<1>9. /\ caller' \in [Callers -> CallerRecord]
      /\ \A d \in Callers : caller'[d].pc = "launching" => caller'[d] = caller[d] /\ d # c
  BY <1>2, AppsTyped, RestingRecords
<1>10. ManagedAppsTypeOK'
  BY <1>2, <1>6, <1>7, <1>8, <1>9 DEF ManagedAppsTypeOK
<1>11. LaunchInv'
  <2>1. ~Launching(i)'
    BY <1>1, <1>2, <1>3, <1>9 DEF AloneInv, Launching
  <2>2. ~(i[2] > instanceSeq[i[1]])
    <3>1. i[2] \in Nat /\ instanceSeq[i[1]] \in Nat
      BY <1>4, AppsTyped
    <3> QED BY <1>4, <3>1
  <2>3. \A k \in Instances : managed[k] = Dismissed /\ child[k] = "none" =>
             \/ managed'[k] = Dismissed /\ child'[k] = "none"
             \/ ~(k[2] > instanceSeq[k[1]]) /\ ~Launching(k)'
    BY <1>6, <1>7, <2>1, <2>2
  <2> QED BY <1>1, <1>2, <1>9, <2>3, LaunchAfter
<1>12. AloneInv'
  <2>1. Busy(i)
    BY <1>2, <1>3 DEF Busy, Launching
  <2> QED BY <1>1, <1>6, <1>8, <1>9, <2>1, AloneAfter DEF Busy
<1>13. RowInv'
  <2>1. \A k \in Instances \ {i} : Alive(k)' <=> Alive(k)
    BY <1>7 DEF Alive
  <2>2. Alive(i)' => row.status = "running"
    BY <1>7 DEF Alive
  <2>3. \A k \in Instances : Alive(k)' /\ k[1] \notin excused' => managed'[k].status = "running"
    BY <1>1, <1>6, <1>8, <2>1, <2>2 DEF RowInv
  <2>4. \A k \in Instances : managed'[k].status \in {"exited", "failed"} => ~Alive(k)'
    BY <1>1, <1>6, <2>1, <2>2 DEF RowInv, StoppedIsGone
  <2> QED BY <2>3, <2>4 DEF RowInv, StoppedIsGone
<1>14. LeftInv'
  <2>1. \A k \in Instances \ {i} : Alive(k)' <=> Alive(k)
    BY <1>7 DEF Alive
  <2>2. Alive(i)' => row.status = "running"
    BY <1>7 DEF Alive
  <2>3. lr = "stopping" => \A k \in Instances : Alive(k)' /\ k[1] \notin excused' => Alive(k)
    BY <1>8, <2>1, <2>2
  <2> QED BY <1>1, <1>2, <1>8, <2>3, LeftAfter
<1> QED BY <1>10, <1>11, <1>12, <1>13, <1>14 DEF AppsInv

\* What becomes of a process, and of its row.
LEMMA ChildKeeps ==
  ASSUME ManagedAppsTypeOK, AppsInv, NEW i \in Instances,
         ChildExits(i) \/ Escalate(i) \/ reapManaged(i)
  PROVE  ManagedAppsTypeOK' /\ AppsInv'
<1>1. LaunchInv /\ RowInv /\ AloneInv /\ LeftInv
  BY DEF AppsInv
<1>2. UNCHANGED <<instanceSeq, caller, pending, commands, lr, stopped, carried, restarts, orphans, excused>>
  BY DEF ChildExits, Escalate, reapManaged, launchVars, lifeVars
<1>3. PICK to \in {"none", "running", "term", "kill", "gone"}, status \in {"exited", "failed", "same"} :
         /\ status = "same" => UNCHANGED managed /\ child' = [child EXCEPT ![i] = to] /\ Alive(i)
         /\ status # "same" => /\ UNCHANGED child /\ child[i] = "gone" /\ managed[i].status = "running"
                               /\ managed' = [managed EXCEPT ![i].status = status]
         /\ to \in {"kill", "gone"}
  <2>1. CASE ChildExits(i)
    <3>1. UNCHANGED managed /\ child' = [child EXCEPT ![i] = "gone"] /\ Alive(i)
      BY <2>1 DEF ChildExits
    <3> QED BY <3>1
  <2>2. CASE Escalate(i)
    <3>1. UNCHANGED managed /\ child' = [child EXCEPT ![i] = "kill"] /\ Alive(i)
      BY <2>2 DEF Escalate, Alive
    <3> QED BY <3>1
  <2>3. CASE reapManaged(i)
    <3>1. UNCHANGED child /\ child[i] = "gone" /\ managed[i].status = "running"
      BY <2>3 DEF reapManaged
    <3>2. PICK status \in {"exited", "failed"} : managed' = [managed EXCEPT ![i].status = status]
      BY <2>3 DEF reapManaged
    <3> QED BY <3>1, <3>2
  <2> QED BY <2>1, <2>2, <2>3
<1>4. /\ managed' \in [Instances -> ManagedRecord]
      /\ \A k \in Instances \ {i} : managed'[k] = managed[k]
      /\ status = "same" => managed'[i] = managed[i]
      /\ status # "same" => managed'[i].status = status
  <2>1. CASE status = "same"
    BY <1>3, <2>1, AppsTyped
  <2>2. CASE status # "same"
    <3>1. managed \in [Instances -> ManagedRecord] /\ [managed[i] EXCEPT !.status = status] \in ManagedRecord
      BY <2>2, AppsTyped, ManagedFields
    <3>2. /\ managed' \in [Instances -> ManagedRecord]
          /\ \A k \in Instances \ {i} : managed'[k] = managed[k]
          /\ managed'[i] = [managed[i] EXCEPT !.status = status]
      BY <1>3, <2>2, <3>1
    <3>3. managed'[i].status = status
      BY <3>1, <3>2 DEF ManagedRecord
    <3> QED BY <2>2, <3>2, <3>3
  <2> QED BY <2>1, <2>2
<1>5. /\ child' \in [Instances -> {"none", "running", "term", "kill", "gone"}]
      /\ \A k \in Instances : child[k] = "none" => child'[k] = "none"
      /\ \A k \in Instances : Alive(k)' => Alive(k)
      /\ status # "same" => ~Alive(i)'
  BY <1>3, AppsTyped DEF Alive
<1>6. ManagedAppsTypeOK'
  BY <1>2, <1>4, <1>5 DEF ManagedAppsTypeOK
<1>7. LaunchInv'
  <2>1. \A k \in Instances : managed[k] = Dismissed => managed'[k] = Dismissed
    BY <1>3, <1>4, RestingRecords
  <2> QED BY <1>1, <1>2, <1>5, <2>1, LaunchAfter
<1>8. AloneInv'
  BY <1>1, <1>2, <1>4, AloneAfter DEF Busy
<1>9. RowInv'
  BY <1>1, <1>2, <1>4, <1>5, RowsAfter
<1>10. LeftInv'
  BY <1>1, <1>2, <1>5, LeftAfter
<1> QED BY <1>6, <1>7, <1>8, <1>9, <1>10 DEF AppsInv

\* TerminateManaged, on whatever instances.
LEMMA Terminated ==
  ASSUME ManagedAppsTypeOK, AppsInv, NEW stop \in SUBSET Instances, Terminate(stop)
  PROVE  /\ managed' \in [Instances -> ManagedRecord]
         /\ child' \in [Instances -> {"none", "running", "term", "kill", "gone"}]
         /\ excused' \subseteq Apps /\ excused \subseteq excused'
         /\ \A i \in Instances : Alive(i)' => Alive(i)
         /\ \A i \in Instances : Alive(i)' /\ i[1] \notin excused' /\ managed[i].status = "running"
                                 => managed'[i].status = "running"
         /\ \A i \in Instances : managed'[i].status # "none" => managed'[i].status = managed[i].status
         /\ \A i \in Instances : managed[i] = Dismissed /\ child[i] = "none" =>
                                     managed'[i] = Dismissed /\ child'[i] = "none"
<1>1. PICK dropped : dropped = {i \in stop : managed[i].detached \/ managed[i].status # "running"}
  OBVIOUS
<1>2. PICK sessions : sessions = {i \in dropped : managed[i].detached /\ Alive(i)}
  OBVIOUS
<1>3. managed' = [i \in Instances |-> IF i \in dropped THEN Dismissed
                                      ELSE [managed[i] EXCEPT !.terminating = @ \/ i \in stop]]
  BY <1>1 DEF Terminate
<1>4. PICK torn \in SUBSET sessions :
         /\ child' = [i \in Instances |->
                CASE i \in torn -> "gone"
                  [] i \in stop \ dropped /\ child[i] = "running" -> "term"
                  [] OTHER -> child[i]]
         /\ excused' = excused \cup {i[1] : i \in sessions \ torn}
  BY <1>1, <1>2 DEF Terminate
<1>5. dropped \subseteq Instances /\ sessions \subseteq dropped /\ torn \subseteq sessions
  BY <1>1, <1>2
<1>6. \A i \in Instances \ dropped :
         /\ managed'[i] \in ManagedRecord /\ managed'[i].status = managed[i].status
         /\ i \notin stop => managed'[i] = managed[i]
  <2> TAKE i \in Instances \ dropped
  <2>1. PICK t : t = (managed[i].terminating \/ i \in stop)
    OBVIOUS
  <2>2. t \in BOOLEAN /\ managed[i] \in ManagedRecord
    BY <2>1, AppsTyped
  <2>3. managed'[i] = [managed[i] EXCEPT !.terminating = t]
    BY <1>3, <2>1
  <2>4. managed'[i] \in ManagedRecord
    BY <2>2, <2>3, ManagedFields
  <2>5. managed'[i].status = managed[i].status
    BY <2>2, <2>3 DEF ManagedRecord
  <2>6. i \notin stop => t = managed[i].terminating
    BY <2>1, AppsTyped
  <2>7. i \notin stop => managed'[i] = managed[i]
    BY <2>2, <2>3, <2>6 DEF ManagedRecord
  <2> QED BY <2>4, <2>5, <2>7
<1>7. \A i \in dropped : managed'[i] = Dismissed
  BY <1>3, <1>5
<1>8. managed' \in [Instances -> ManagedRecord]
  <2>1. managed' = [i \in Instances |-> managed'[i]]
    BY <1>3
  <2>2. \A i \in Instances : managed'[i] \in ManagedRecord
    BY <1>6, <1>7, RestingRecords
  <2> QED BY <2>1, <2>2
<1>9. \A i \in Instances : /\ i \in torn => child'[i] = "gone"
                           /\ i \notin torn => child'[i] = child[i] \/ (child[i] = "running" /\ child'[i] = "term")
  <2> TAKE i \in Instances
  <2>1. child'[i] = CASE i \in torn -> "gone"
                      [] i \in stop \ dropped /\ child[i] = "running" -> "term"
                      [] OTHER -> child[i]
    BY <1>4
  <2>2. i \in torn => i \notin stop \ dropped
    BY <1>5
  <2>3. CASE i \in torn
    <3>1. child'[i] = "gone"
      BY <2>1, <2>2, <2>3
    <3> QED BY <2>3, <3>1
  <2>4. CASE i \notin torn /\ i \in stop \ dropped /\ child[i] = "running"
    <3>1. child'[i] = "term"
      BY <2>1, <2>4
    <3> QED BY <2>4, <3>1
  <2>5. CASE i \notin torn /\ ~(i \in stop \ dropped /\ child[i] = "running")
    <3>1. child'[i] = child[i]
      BY <2>1, <2>5
    <3> QED BY <2>5, <3>1
  <2> QED BY <2>3, <2>4, <2>5
<1>10. child' \in [Instances -> {"none", "running", "term", "kill", "gone"}]
  <2>1. child' = [i \in Instances |-> child'[i]]
    BY <1>4
  <2>2. \A i \in Instances : child'[i] \in {"none", "running", "term", "kill", "gone"}
    BY <1>9, AppsTyped
  <2> QED BY <2>1, <2>2
<1>11. excused' \subseteq Apps /\ excused \subseteq excused'
  BY <1>4, <1>5, AppsTyped, InstanceNames
<1>12. \A i \in Instances : Alive(i)' => Alive(i) /\ i \notin torn
  <2> SUFFICES ASSUME NEW i \in Instances, child'[i] \in {"running", "term", "kill"}
               PROVE  child[i] \in {"running", "term", "kill"} /\ i \notin torn
    BY DEF Alive
  <2>1. i \notin torn
    BY <1>9
  <2> QED BY <1>9, <2>1
<1>13. ASSUME NEW i \in Instances, Alive(i)', i[1] \notin excused', managed[i].status = "running"
       PROVE  managed'[i].status = "running"
  <2>1. i \notin dropped
    <3>1. ASSUME i \in dropped PROVE FALSE
      <4>1. i \in sessions \ torn
        BY <1>1, <1>2, <1>12, <1>13, <3>1
      <4> QED BY <1>4, <1>13, <4>1
    <3> QED BY <3>1
  <2> QED BY <1>6, <1>13, <2>1
<1>14. \A i \in Instances : managed'[i].status # "none" => managed'[i].status = managed[i].status
  BY <1>6, <1>7, RestingRecords
<1>15. ASSUME NEW i \in Instances, managed[i] = Dismissed, child[i] = "none"
       PROVE  managed'[i] = Dismissed /\ child'[i] = "none"
  <2>1. ~Alive(i) /\ i \notin torn
    BY <1>2, <1>4, <1>15 DEF Alive
  <2>2. child'[i] = "none"
    BY <1>9, <1>15, <2>1
  <2>3. i \in stop => i \in dropped
    BY <1>1, <1>15, RestingRecords
  <2>4. managed'[i] = Dismissed
    BY <1>6, <1>7, <1>15, <2>3
  <2> QED BY <2>2, <2>4
<1> QED BY <1>8, <1>10, <1>11, <1>12, <1>13, <1>14, <1>15

\* The operator has an instance stopped, or restarted.
LEMMA StoppingKeepsApps ==
  ASSUME ManagedAppsTypeOK, AppsInv, NEW i \in Instances, terminateManaged(i) \/ restartManaged(i)
  PROVE  ManagedAppsTypeOK' /\ AppsInv'
<1>1. LaunchInv /\ RowInv /\ AloneInv /\ LeftInv
  BY DEF AppsInv
<1>2. /\ Terminate({i}) /\ commands' \in 0 .. MaxCommands
      /\ UNCHANGED <<instanceSeq, pending, lr, stopped, carried, restarts, orphans>>
  BY CommandCounted DEF terminateManaged, restartManaged, launchVars, lifeVars
<1>3. /\ caller' \in [Callers -> CallerRecord]
      /\ \A c \in Callers : caller'[c].pc = "launching" => caller'[c] = caller[c]
  <2>1. CASE terminateManaged(i)
    BY <2>1, AppsTyped DEF terminateManaged, launchVars
  <2>2. CASE restartManaged(i)
    <3>1. PICK v \in CallerRecord : v.pc = "restarting" /\ caller' = [caller EXCEPT !["operator"] = v]
      BY <2>2, RestingRecords DEF restartManaged
    <3> QED BY <3>1, AppsTyped
  <2> QED BY <2>1, <2>2
<1>4. ManagedAppsTypeOK'
  BY <1>2, <1>3, Terminated DEF ManagedAppsTypeOK
<1>5. LaunchInv'
  BY <1>1, <1>2, <1>3, Terminated, LaunchAfter
<1>6. AloneInv'
  BY <1>1, <1>2, <1>3, Terminated, AloneAfter DEF Busy
<1>7. RowInv'
  BY <1>1, <1>2, Terminated, RowsAfter
<1>8. LeftInv'
  BY <1>1, <1>2, Terminated, LeftAfter
<1> QED BY <1>4, <1>5, <1>6, <1>7, <1>8 DEF AppsInv

\* RestartManaged launches again.
LEMMA RelaunchKeeps ==
  ASSUME ManagedAppsTypeOK, AppsInv, NEW i \in Instances, restartRelaunches(i)
  PROVE  ManagedAppsTypeOK' /\ AppsInv'
<1>1. LaunchInv /\ RowInv /\ AloneInv /\ LeftInv
  BY DEF AppsInv
<1>2. /\ caller["operator"] = [pc |-> "restarting", instance |-> i]
      /\ managed' = [managed EXCEPT ![i] = Dismissed]
      /\ CheckLaunch("operator", managed', i[1])
      /\ excused' = excused \cup Overlap(i[1]) \cup (IF Alive(i) THEN {i[1]} ELSE {})
      /\ UNCHANGED <<child, pending, commands, lr, stopped, carried, restarts, orphans>>
  BY DEF restartRelaunches, lifeVars
<1>3. /\ managed' \in [Instances -> ManagedRecord] /\ managed'[i] = Dismissed
      /\ \A k \in Instances \ {i} : managed'[k] = managed[k]
  BY <1>2, AppsTyped, RestingRecords
<1>4. i[1] \in Apps /\ "operator" \in Callers /\ caller["operator"].pc # "launching"
  BY <1>2, InstanceNames, AppsTyped
<1>5. /\ excused' \subseteq Apps /\ excused \subseteq excused'
      /\ Alive(i) => i[1] \in excused'
  BY <1>2, <1>4, AppsTyped DEF Overlap, Unseen, Conflicts
<1>6. /\ caller' \in [Callers -> CallerRecord] /\ instanceSeq' \in [Apps -> 0 .. MaxInstances]
      /\ LaunchInv' /\ AloneInv'
  <2>1. \A k \in Instances : managed'[k] = managed[k] \/ managed'[k] = Dismissed
    BY <1>3
  <2>2. excused \cup Overlap(i[1]) \subseteq excused'
    BY <1>2
  <2> QED BY <1>1, <1>2, <1>3, <1>4, <2>1, <2>2, LaunchChecked
<1>7. \A k \in Instances : Alive(k)' <=> Alive(k)
  BY <1>2 DEF Alive
<1>8. RowInv'
  BY <1>1, <1>3, <1>5, <1>7, RestingRecords, RowsAfter
<1>9. LeftInv'
  BY <1>1, <1>2, <1>5, <1>7, LeftAfter
<1>10. ManagedAppsTypeOK'
  BY <1>2, <1>3, <1>5, <1>6 DEF ManagedAppsTypeOK
<1> QED BY <1>6, <1>8, <1>9, <1>10 DEF AppsInv

\* LR's own restart: announced, everything told to stop, gone, and back.
LEMMA AnnounceKeeps ==
  ASSUME ManagedAppsTypeOK, AppsInv, announceRestart \/ relaunch \/ loaderStops
  PROVE  ManagedAppsTypeOK' /\ AppsInv'
<1>1. LaunchInv /\ RowInv /\ AloneInv /\ LeftInv
  BY DEF AppsInv
<1>2. /\ UNCHANGED <<managed, child, instanceSeq, caller, stopped, orphans, excused>>
      /\ lr' \in {"announcing", "up", "off"}
  BY DEF announceRestart, relaunch, loaderStops, launchVars
<1>3. /\ pending' \in [Apps -> 0 .. MaxInstances] /\ carried' \in [Apps -> 0 .. MaxInstances]
      /\ commands' \in 0 .. MaxCommands /\ restarts' \in 0 .. MaxRestarts
  <2>1. /\ carried \in [Apps -> 0 .. MaxInstances] /\ restarts \in 0 .. MaxRestarts
        /\ MaxRestarts \in Nat
    BY ManagedAppsAssumption DEF ManagedAppsTypeOK
  <2>2. CASE announceRestart
    <3>1. Command /\ carried' = [a \in Apps |-> runningCount(managed, a)] /\ UNCHANGED <<pending, restarts>>
      BY <2>2 DEF announceRestart, currentState, launchVars
    <3>2. carried' \in [Apps -> 0 .. MaxInstances]
      BY <3>1, RunningCounted
    <3> QED BY <2>1, <3>1, <3>2, CommandCounted, AppsTyped
  <2>3. CASE relaunch
    <3>1. /\ restarts < MaxRestarts /\ restarts' = restarts + 1 /\ pending' = carried
          /\ UNCHANGED <<commands, carried>>
      BY <2>3 DEF relaunch
    <3>2. restarts' \in 0 .. MaxRestarts
      BY <2>1, <3>1
    <3> QED BY <2>1, <3>1, <3>2, AppsTyped
  <2>4. CASE loaderStops
    <3>1. UNCHANGED <<pending, commands, carried, restarts>>
      BY <2>4 DEF loaderStops, launchVars
    <3> QED BY <2>1, <3>1, AppsTyped
  <2> QED BY <2>2, <2>3, <2>4
<1>4. ManagedAppsTypeOK'
  BY <1>2, <1>3 DEF ManagedAppsTypeOK
<1>5. LaunchInv'
  BY <1>1, <1>2, LaunchAfter
<1>6. AloneInv'
  BY <1>1, <1>2, AloneAfter DEF Busy
<1>7. RowInv'
  BY <1>1, <1>2, RowsAfter DEF Alive
<1>8. LeftInv'
  BY <1>1, <1>2 DEF LeftInv
<1> QED BY <1>4, <1>5, <1>6, <1>7, <1>8 DEF AppsInv

\* LR tells everything it runs to stop.
LEMMA RestartStopKeeps ==
  ASSUME ManagedAppsTypeOK, AppsInv, terminateManagedForRestart
  PROVE  ManagedAppsTypeOK' /\ AppsInv'
<1>1. LaunchInv /\ RowInv /\ AloneInv /\ LeftInv
  BY DEF AppsInv
<1>2. /\ lr' = "stopping" /\ stopped' = {i \in Instances : managed[i].status = "running"}
      /\ UNCHANGED <<instanceSeq, caller, pending, commands, carried, restarts, orphans>>
      /\ Terminate(stopped')
  BY DEF terminateManagedForRestart, launchVars
<1>3. PICK stop \in SUBSET Instances : stop = stopped'
  BY <1>2
<1>4. Terminate(stop)
  BY <1>2, <1>3
<1>5. ManagedAppsTypeOK'
  BY <1>2, <1>4, Terminated DEF ManagedAppsTypeOK
<1>6. LaunchInv'
  BY <1>1, <1>2, <1>4, Terminated, LaunchAfter
<1>7. AloneInv'
  BY <1>1, <1>2, <1>4, Terminated, AloneAfter DEF Busy
<1>8. RowInv'
  BY <1>1, <1>2, <1>4, Terminated, RowsAfter
<1>9. LeftInv'
  <2>1. excused \subseteq excused' /\ \A i \in Instances : Alive(i)' => Alive(i)
    BY <1>4, Terminated
  <2> QED BY <1>1, <1>2, <2>1 DEF LeftInv, RowInv
<1> QED BY <1>5, <1>6, <1>7, <1>8, <1>9 DEF AppsInv

\* LR is gone, and its table with it.
LEMMA ExitKeeps ==
  ASSUME ManagedAppsTypeOK, AppsInv, exitForRestart
  PROVE  ManagedAppsTypeOK' /\ AppsInv'
<1>1. LaunchInv /\ RowInv /\ AloneInv /\ LeftInv
  BY DEF AppsInv
<1>2. /\ lr = "stopping" /\ lr' = "down"
      /\ managed' = [i \in Instances |-> Dismissed] /\ child' = [i \in Instances |-> "none"]
      /\ instanceSeq' = [a \in Apps |-> 0] /\ caller' = [c \in Callers |-> Free]
      /\ stopped' = {} /\ pending' = [a \in Apps |-> 0]
      /\ orphans' = orphans \cup {i[1] : i \in {k \in Instances : Alive(k)}}
      /\ excused' = excused \cup {i[1] : i \in {k \in Instances : Alive(k)} \cap stopped}
      /\ UNCHANGED <<commands, carried, restarts>>
  BY DEF exitForRestart, FreshLR, NothingCarried
<1>3. MaxInstances \in Nat
  BY ManagedAppsAssumption
<1>4. ManagedAppsTypeOK'
  <2>1. orphans' \subseteq Apps /\ excused' \subseteq Apps
    BY <1>2, AppsTyped, InstanceNames
  <2>2. 0 \in 0 .. MaxInstances
    BY <1>3
  <2> QED BY <1>2, <2>1, <2>2, RestingRecords DEF ManagedAppsTypeOK
<1>5. LaunchInv'
  BY <1>2, RestingRecords DEF LaunchInv
<1>6. AloneInv'
  <2>1. /\ \A i \in Instances : managed'[i].status # "running"
        /\ \A c \in Callers : caller'[c].pc # "launching"
    BY <1>2, RestingRecords
  <2>2. excused \subseteq excused'
    BY <1>2
  <2> QED BY <1>1, <2>1, <2>2, AloneAfter
<1>7. RowInv'
  BY <1>2, RestingRecords DEF RowInv, StoppedIsGone, Alive
<1>8. LeftInv'
  <2>1. \A i \in Instances : Alive(i) => i[1] \in excused'
    BY <1>1, <1>2 DEF LeftInv
  <2> QED BY <1>1, <1>2, <2>1 DEF LeftInv
<1> QED BY <1>4, <1>5, <1>6, <1>7, <1>8 DEF AppsInv

\* What LR, its operator and its processes do.
LEMMA ManagedAppsKept ==
  ASSUME ManagedAppsTypeOK, AppsInv, [ManagedAppsNext]_managedAppsVars
  PROVE  ManagedAppsTypeOK' /\ AppsInv'
<1>1. CASE UNCHANGED managedAppsVars
  <2>1. UNCHANGED <<managed, child, instanceSeq, caller, pending, commands, lr, stopped, carried,
                    restarts, orphans, excused>>
    BY <1>1 DEF managedAppsVars, launchVars, lifeVars
  <2>2. \A i : (Alive(i)' <=> Alive(i)) /\ (Busy(i)' <=> Busy(i))
    BY <2>1 DEF Alive, Busy, Launching
  <2> QED BY <2>1, <2>2 DEF ManagedAppsTypeOK, AppsInv, LaunchInv, RowInv, StoppedIsGone,
      AloneInv, LeftInv
<1>2. CASE ManagedAppsNext
  BY <1>2, LaunchKeeps, RecordKeeps, ChildKeeps, StoppingKeepsApps, RelaunchKeeps, AnnounceKeeps,
     RestartStopKeeps, ExitKeeps DEF ManagedAppsNext
<1> QED BY <1>1, <1>2

\* What the rows say of a singleton is so.
LEMMA SingletonsKeepAlone ==
  ASSUME ManagedAppsTypeOK, AppsInv
  PROVE  SingletonsAlone
<1>1. RowInv /\ AloneInv /\ LeftInv
  BY DEF AppsInv
<1>2. Singletons \subseteq Apps
  BY ManagedAppsAssumption
<1>3. ASSUME NEW a \in Singletons \ excused
      PROVE  LET left == Cardinality({i \in InstancesOf(a) : Alive(i)})
                         + (IF a \in orphans THEN 1 ELSE 0)
             IN  /\ left <= 1
                 /\ left = 1 =>
                       \A b \in Conflicts(a) \ excused : \A i \in InstancesOf(b) : ~Alive(i)
  <2> DEFINE K == {i \in InstancesOf(a) : Alive(i)}
  <2>1. a \notin orphans /\ a \in Apps
    BY <1>1, <1>2, <1>3 DEF LeftInv
  <2>2. \A b : \A i \in InstancesOf(b) : i \in Instances /\ i[1] = b
    BY DEF InstancesOf
  <2>3. \A b : b \notin excused => \A i \in InstancesOf(b) : Alive(i) => Busy(i)
    BY <1>1, <2>2 DEF RowInv, Busy
  <2>4. IsFiniteSet(K)
    BY <2>1, InstancesCounted
  <2>5. \A x, y \in K : x = y
    BY <1>1, <1>3, <2>3 DEF AloneInv
  <2>6. /\ Cardinality(K) \in Nat /\ Cardinality(K) <= 1
        /\ Cardinality(K) = 0 <=> K = {}
    BY <2>4, <2>5, AtMostOne
  <2>7. ASSUME K # {}, NEW b \in Conflicts(a) \ excused, NEW i \in InstancesOf(b)
        PROVE  ~Alive(i)
    BY <1>1, <1>3, <2>1, <2>3, <2>7 DEF AloneInv
  <2>8. /\ Cardinality(K) + (IF a \in orphans THEN 1 ELSE 0) <= 1
        /\ Cardinality(K) + (IF a \in orphans THEN 1 ELSE 0) = 1 => K # {}
    <3> HIDE DEF K
    <3> QED BY <2>1, <2>6
  <2> QED BY <2>7, <2>8
<1> QED BY <1>1, <1>3 DEF SingletonsAlone, OnePerHost, RowInv

-----------------------------------------------------------------------------
(*************************************************************************)
(* Together.  A behaviour moves one service, so that each invariant is   *)
(* kept by the steps of its own service and by the others, which leave   *)
(* its variables alone.                                                  *)
(*************************************************************************)
LocalInv ==
    /\ LocalTypeOK
    /\ AppsInv
    /\ BuildInv
    /\ ControlInv
    /\ PeerInv
    /\ KeeperInv

\* Every service starts well.
LEMMA LocalStart == LocalInit => LocalInv
  BY ManagedAppsStart, RepoStart, ControlStart, HostLinkStart, TunnelsStart
  DEF LocalInit, LocalInv, LocalTypeOK

\* A step of one service keeps its own invariant, and those of the others.
LEMMA LocalKept == LocalInv /\ [LocalNext]_localVars => LocalInv'
<1> SUFFICES ASSUME LocalInv, [LocalNext]_localVars PROVE LocalInv'
  OBVIOUS
<1>1. /\ ManagedAppsTypeOK /\ AppsInv /\ RepoWatchTypeOK /\ BuildInv
      /\ ControlTypeOK /\ ControlInv /\ HostLinkTypeOK /\ PeerInv
      /\ TunnelsTypeOK /\ KeeperInv
  BY DEF LocalInv, LocalTypeOK
<1>2. /\ [ManagedAppsNext]_managedAppsVars /\ [RepoWatchNext]_repoWatchVars
      /\ [ControlNext]_controlVars /\ [HostLinkNext]_hostLinkVars
      /\ [TunnelsNext]_tunnelVars
  BY DEF LocalNext, localVars
<1>3. ManagedAppsTypeOK' /\ AppsInv'
  BY <1>1, <1>2, ManagedAppsKept
<1>4. RepoWatchTypeOK' /\ BuildInv'
  BY <1>1, <1>2, RepoKept
<1>5. ControlTypeOK' /\ ControlInv'
  BY <1>1, <1>2, ControlKept
<1>6. HostLinkTypeOK' /\ PeerInv'
  BY <1>1, <1>2, HostLinkKept
<1>7. TunnelsTypeOK' /\ KeeperInv'
  BY <1>1, <1>2, TunnelsKept
<1> QED BY <1>3, <1>4, <1>5, <1>6, <1>7 DEF LocalInv, LocalTypeOK

\* The invariants of the services hold together, whichever of them moves.
THEOREM LocalInvariant == LocalSpec => []LocalInv
  BY LocalStart, LocalKept, PTL DEF LocalSpec

\* Every service's state is what its code can hold.
THEOREM LocalTypes == LocalSpec => []LocalTypeOK
<1>1. LocalInv => LocalTypeOK
  BY DEF LocalInv
<1> QED BY <1>1, LocalInvariant, PTL

\* procman.go: however the launches of operators and of the start interleave
\* with exits, restarts and LR's own restart, a singleton runs once and never
\* beside an application it excludes: the applications the code itself lets
\* overlap (`excused`) aside.
THEOREM SingletonsStayAlone == LocalSpec => []SingletonsAlone
<1>1. LocalInv => SingletonsAlone
  BY SingletonsKeepAlone DEF LocalInv, LocalTypeOK
<1> QED BY <1>1, LocalInvariant, PTL

\* repowatch.go: what the watch takes as built is what was made last, as long as
\* nobody stirs the repository while it is made.
THEOREM WhatIsBuiltWasMade == LocalSpec => []BuiltWasMade
<1>1. LocalInv => BuiltWasMade
  BY MadeIsBuilt DEF LocalInv, LocalTypeOK
<1> QED BY <1>1, LocalInvariant, PTL

\* controlrecord.go: a run that is over has let go of the recorder and of the
\* mouse, and left no recording waiting.
THEOREM RecordingsStayApart == LocalSpec => []RecordingsApart
<1>1. LocalInv => RecordingsApart
  BY RecorderIsShared DEF LocalInv, LocalTypeOK
<1> QED BY <1>1, LocalInvariant, PTL

\* main.go and representable.go: a host shown as connected can be reached, and a
\* link has one opener or one tunnel that waits for it, never two.
THEOREM LinkStaysSound == LocalSpec => []LinkSound
<1>1. LocalInv => LinkSound
  BY PeerIsReachable, KeepersAreOne DEF LocalInv, LocalTypeOK, LinkSound
<1> QED BY <1>1, LocalInvariant, PTL
=============================================================================
