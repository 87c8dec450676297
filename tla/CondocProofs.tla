---------------------------- MODULE CondocProofs ----------------------------
(***************************************************************************)
(* The services a condoc goes through, proved right for any number of      *)
(* repositories, connections, pull requests and turns.  Each service has   *)
(* an inductive invariant of its own, in a section of its own: what it     *)
(* starts with, what each of its actions keeps, and the property that      *)
(* follows.  The last section puts them together.                          *)
(***************************************************************************)
EXTENDS MCCondocServices, InteractionProofs

-----------------------------------------------------------------------------
(***************************************************************************)
(* federation-command's link.  LinkAccounted is inductive once it is known *)
(* that the connections that came up are told apart: what a dial of the    *)
(* operator brought is nothing the loop's dials brought.                   *)
(***************************************************************************)
LinkFields == [client : 0 .. MaxDialed, dialed : 0 .. MaxDialed, open : SUBSET Links,
               watched : SUBSET Links, byHand : SUBSET Links, byLoop : SUBSET Links]

FcInv ==
    /\ link \in LinkFields
    /\ \A c \in link.byHand \cup link.byLoop : c <= link.dialed
    /\ link.byHand \cap link.byLoop = {}
    /\ LinkAccounted

\* Nothing is connected; with --auto-connect the loop dials.
LEMMA FcLinkStart == FcLinkInit => FcLinkTypeOK /\ FcInv
<1> SUFFICES ASSUME FcLinkInit PROVE FcLinkTypeOK /\ FcInv
  OBVIOUS
<1>1. link = [client |-> 0, dialed |-> 0, open |-> {}, watched |-> {}, byHand |-> {}, byLoop |-> {}]
      /\ link \in LinkFields
  BY FcLinkAssumption DEF FcLinkInit, LinkFields
<1> QED BY <1>1 DEF FcLinkInit, FcLinkTypeOK, FcInv, LinkFields, LinkAccounted, Dots, RemoteControlActive

\* What disconnectRepr leaves behind.
LEMMA Disconnects ==
  ASSUME FcLinkTypeOK, FcInv, disconnectRepr, UNCHANGED mode,
         NEW d \in Dots \ {"connected", "local"}, dot' = d
  PROVE  FcLinkTypeOK' /\ FcInv'
<1>1. link' \in LinkFields /\ link'.client = 0 /\ link'.open = link.open \ {link.client}
      /\ link'.dialed = link.dialed /\ link'.byHand = link.byHand /\ link'.byLoop = link.byLoop
  <2>1. 0 \in 0 .. MaxDialed
    BY FcLinkAssumption
  <2>2. link.open \ {link.client} \in SUBSET Links
    BY DEF FcInv, LinkFields
  <2> QED BY <2>1, <2>2 DEF disconnectRepr, FcInv, LinkFields
<1>2. retry' \in [on : BOOLEAN, armed : BOOLEAN, remote : BOOLEAN] /\ ~retry'.on
  BY DEF disconnectRepr, FcLinkTypeOK
<1> QED BY <1>1, <1>2 DEF disconnectRepr, FcInv, FcLinkTypeOK, LinkFields, LinkAccounted,
        RemoteControlActive

\* What adopting a connection leaves behind.
LEMMA AdoptsIt ==
  ASSUME FcLinkTypeOK, FcInv, NEW c \in link.byHand \cup link.byLoop, Adopts(c),
         dot' \in Dots, UNCHANGED dialing
  PROVE  FcLinkTypeOK' /\ FcInv'
<1>1. /\ c \in Links /\ link' \in LinkFields /\ link'.client = c /\ link'.dialed = link.dialed
      /\ link'.open = link.open \ ({link.client} \ {c})
      /\ link'.byHand = link.byHand \ {c} /\ link'.byLoop = link.byLoop \ {c}
  <2>1. c \in Links /\ c \in 0 .. MaxDialed
    BY FcLinkAssumption DEF FcInv, LinkFields, Links
  <2>2. /\ link.watched \cup {c} \in SUBSET Links
        /\ link.open \ ({link.client} \ {c}) \in SUBSET Links
        /\ link.byHand \ {c} \in SUBSET Links /\ link.byLoop \ {c} \in SUBSET Links
    BY <2>1 DEF FcInv, LinkFields
  <2> QED BY <2>1, <2>2 DEF Adopts, FcInv, LinkFields
<1>2. retry' \in [on : BOOLEAN, armed : BOOLEAN, remote : BOOLEAN] /\ ~retry'.on
  BY DEF Adopts, FcLinkTypeOK
<1>3. cmds' \in [listening : Nat, heard : Nat] /\ cmds'.listening + cmds'.heard > 0
  BY DEF Adopts, FcLinkTypeOK
<1>4. mode' \in [ride : BOOLEAN, condoc : BOOLEAN, before : {"idle", "connected", "local"},
                  gone : BOOLEAN]
  BY DEF Adopts, FcLinkTypeOK
<1> QED BY <1>1, <1>2, <1>3, <1>4 DEF FcInv, FcLinkTypeOK, LinkFields, LinkAccounted, Links

\* A late connection is closed, one of the operator's or one of the loop's.
LEMMA DiscardsIt ==
  ASSUME FcLinkTypeOK, FcInv, NEW c \in Links, Discards(c),
         c \in link.byLoop => ~retry.on, UNCHANGED <<dot, mode, retry, cmds, dialing>>
  PROVE  FcLinkTypeOK' /\ FcInv'
<1>1. /\ link' \in LinkFields /\ link'.client = link.client /\ link'.dialed = link.dialed
      /\ link'.open = link.open \ {c}
      /\ link'.byHand = link.byHand \ {c} /\ link'.byLoop = link.byLoop \ {c}
  BY DEF Discards, FcInv, LinkFields
<1> QED BY <1>1 DEF FcInv, FcLinkTypeOK, LinkFields, LinkAccounted, RemoteControlActive

\* What the loop does when a dial of it failed, or its timer fires.
LEMMA LoopGoes ==
  ASSUME FcLinkTypeOK, FcInv, NEW from, NEW to, LoopGoesOn(from, to),
         <<from, to>> \in {<<"timers", "byLoop">>, <<"byLoop", "timers">>}
  PROVE  FcLinkTypeOK' /\ FcInv'
<1>1. from \in {"timers", "byLoop"} /\ to \in {"timers", "byLoop"} /\ from # to
  OBVIOUS
<1>2. dialing' \in [byHand : Nat, byLoop : Nat, timers : Nat]
      /\ (retry'.on => dialing'.byLoop + dialing'.timers = dialing.byLoop + dialing.timers)
  <2>1. CASE dialing' = [dialing EXCEPT ![from] = @ - 1, ![to] = @ + 1] 
    BY <1>1, <2>1 DEF LoopGoesOn, FcLinkTypeOK
  <2>2. CASE dialing' = [dialing EXCEPT ![from] = @ - 1]
             /\ IF Looping THEN retry' = [retry EXCEPT !.on = FALSE] ELSE UNCHANGED retry
    <3>1. ~retry'.on
      BY <2>2 DEF Looping, FcInv, LinkAccounted, FcLinkTypeOK
    <3> QED BY <1>1, <2>2, <3>1 DEF LoopGoesOn, FcLinkTypeOK
  <2> QED BY <2>1, <2>2 DEF LoopGoesOn
<1>3. retry' \in [on : BOOLEAN, armed : BOOLEAN, remote : BOOLEAN]
      /\ (retry'.on => retry.on) /\ retry'.armed = retry.armed
  BY DEF LoopGoesOn, FcLinkTypeOK
<1> QED BY <1>2, <1>3 DEF LoopGoesOn, FcInv, FcLinkTypeOK, LinkAccounted, RemoteControlActive

\* enableAutoConnect and disableAutoConnect.
LEMMA LoopSet ==
  ASSUME FcLinkTypeOK, FcInv, enableAutoConnect \/ disableAutoConnect \/ UNCHANGED <<retry, dialing>>
  PROVE  /\ retry' \in [on : BOOLEAN, armed : BOOLEAN, remote : BOOLEAN]
         /\ dialing' \in [byHand : Nat, byLoop : Nat, timers : Nat]
         /\ retry'.on => /\ retry'.armed /\ link.client = 0
                         /\ dialing'.byLoop + dialing'.timers > 0 \/ link.byLoop # {}
<1>1. CASE UNCHANGED <<retry, dialing>>
  BY <1>1 DEF FcInv, FcLinkTypeOK, LinkAccounted
<1>2. CASE disableAutoConnect
  BY <1>2 DEF disableAutoConnect, FcLinkTypeOK
<1>3. CASE enableAutoConnect
  <2>1. CASE link.client # 0 \/ retry.on
    BY <1>3, <2>1 DEF enableAutoConnect, FcInv, FcLinkTypeOK, LinkAccounted
  <2>2. CASE ~(link.client # 0 \/ retry.on)
    <3>1. StartsLoop
      BY <1>3, <2>2 DEF enableAutoConnect
    <3>2. retry' \in [on : BOOLEAN, armed : BOOLEAN, remote : BOOLEAN] /\ retry'.armed
      BY <3>1 DEF StartsLoop, FcLinkTypeOK
    <3>3. dialing' \in [byHand : Nat, byLoop : Nat, timers : Nat]
          /\ dialing'.byLoop = dialing.byLoop + 1 /\ dialing'.timers = dialing.timers
      BY <3>1 DEF StartsLoop, FcLinkTypeOK
    <3> QED BY <2>2, <3>2, <3>3 DEF FcLinkTypeOK
  <2> QED BY <2>1, <2>2
<1> QED BY <1>1, <1>2, <1>3

Modes == [ride : BOOLEAN, condoc : BOOLEAN, before : {"idle", "connected", "local"}, gone : BOOLEAN]

\* What a line does to the loop.
LEMMA LineDoes ==
  ASSUME NEW line \in Lines, Executes(line)
  PROVE  enableAutoConnect \/ disableAutoConnect \/ UNCHANGED <<retry, dialing>>
<1>1. CASE line = "enable"
  BY <1>1 DEF Executes
<1>2. CASE line = "disable"
  BY <1>2 DEF Executes
<1>3. CASE line # "enable" /\ line # "disable"
  BY <1>3 DEF Executes
<1> QED BY <1>1, <1>2, <1>3

\* A mode starts with a dot of its own.
LEMMA ModeStarts ==
  ASSUME FcLinkTypeOK, NEW line, StartsMode(line)
  PROVE  dot' \in Dots /\ mode' \in Modes /\ mode'.gone = mode.gone /\ ~RemoteControlActive'
  BY DEF StartsMode, SetDot, FcLinkTypeOK, Modes, RemoteControlActive, Dots

\* Every step of the link.
LEMMA FcLinkKept ==
  ASSUME FcLinkTypeOK, FcInv, [FcLinkNext]_linkVars
  PROVE  FcLinkTypeOK' /\ FcInv'
<1> USE DEF SetDot
<1>1. CASE CtrlC
  <2>1. CASE disconnectRepr /\ SetDot("idle") /\ UNCHANGED mode
    BY <2>1, Disconnects DEF Dots
  <2>2. CASE dot' = "idle" /\ UNCHANGED <<mode, retry, link, dialing, cmds>>
    BY <2>2 DEF FcInv, FcLinkTypeOK, LinkAccounted, RemoteControlActive, Dots
  <2> QED BY <1>1, <2>1, <2>2 DEF CtrlC
<1>2. CASE UpOrDown
  <2>1. CASE disconnectRepr /\ SetDot("select") /\ UNCHANGED mode
    BY <2>1, Disconnects DEF Dots
  <2>2. CASE dot = "select" /\ dot' = "connecting" /\ dialing' = [dialing EXCEPT !.byHand = @ + 1]
             /\ UNCHANGED <<mode, retry, link, cmds>>
    BY <2>2 DEF FcInv, FcLinkTypeOK, LinkAccounted, RemoteControlActive, Dots
  <2>3. CASE dot' \in {"idle", "inactive"} /\ UNCHANGED <<mode, retry, link, dialing, cmds>>
    BY <2>3 DEF FcInv, FcLinkTypeOK, LinkAccounted, RemoteControlActive, Dots
  <2> QED BY <1>2, <2>1, <2>2, <2>3 DEF UpOrDown
<1>3. CASE handleRight
  <2>1. CASE disconnectRepr /\ SetDot("idle") /\ UNCHANGED mode
    BY <2>1, Disconnects DEF Dots
  <2>2. CASE dot' = (IF dot = "connected" THEN "local" ELSE "inactive")
             /\ UNCHANGED <<mode, retry, link, dialing, cmds>>
    BY <2>2 DEF FcInv, FcLinkTypeOK, LinkAccounted, RemoteControlActive, Dots
  <2> QED BY <1>3, <2>1, <2>2 DEF handleRight
<1>4. CASE Types \/ handleLeft \/ handleBackspace
  BY <1>4 DEF Types, handleLeft, handleBackspace, Rejecting, FcInv, FcLinkTypeOK, LinkAccounted,
     RemoteControlActive, Dots
<1>5. CASE reprConnectFailed
  <2>1. dialing' \in [byHand : Nat, byLoop : Nat, timers : Nat]
        /\ dialing'.byLoop = dialing.byLoop /\ dialing'.timers = dialing.timers
    BY <1>5 DEF reprConnectFailed, FcLinkTypeOK
  <2> QED BY <1>5, <2>1 DEF reprConnectFailed, FcInv, FcLinkTypeOK, LinkAccounted,
     RemoteControlActive, Dots
<1>6. CASE autoConnectTick
  BY <1>6, LoopGoes DEF autoConnectTick
<1>7. CASE autoConnectFails
  BY <1>7, LoopGoes DEF autoConnectFails
<1>8. CASE ListenerHears
  <2>1. cmds' \in [listening : Nat, heard : Nat] /\ cmds'.listening + cmds'.heard > 0
    BY <1>8 DEF ListenerHears, FcLinkTypeOK
  <2> QED BY <1>8, <2>1 DEF ListenerHears, FcInv, FcLinkTypeOK, LinkAccounted, RemoteControlActive
<1>9. ASSUME NEW line \in Lines, Enters(line) PROVE FcLinkTypeOK' /\ FcInv'
  <2>1. enableAutoConnect \/ disableAutoConnect \/ UNCHANGED <<retry, dialing>>
    BY <1>9, LineDoes DEF Enters
  <2>2. dot' \in Dots /\ mode' \in Modes /\ mode'.gone = mode.gone
        /\ (RemoteControlActive' => RemoteControlActive)
    <3>1. CASE StartsMode(line)
      BY <3>1, ModeStarts
    <3>2. CASE ~StartsMode(line)
      BY <1>9, <3>2 DEF Enters, FcLinkTypeOK, Modes, RemoteControlActive, Dots
    <3> QED BY <3>1, <3>2
  <2> QED BY <1>9, <2>1, <2>2, LoopSet DEF Enters, FcInv, FcLinkTypeOK, LinkAccounted, Modes
<1>10. ASSUME NEW line \in Lines, reprRemoteCmd(line) PROVE FcLinkTypeOK' /\ FcInv'
  <2>1. enableAutoConnect \/ disableAutoConnect \/ UNCHANGED <<retry, dialing>>
    BY <1>10, LineDoes DEF reprRemoteCmd
  <2>2. cmds' \in [listening : Nat, heard : Nat] /\ cmds'.listening + cmds'.heard > 0
    <3>1. cmds' = [cmds EXCEPT !.heard = @ - 1, !.listening = @ + 1] /\ cmds.heard > 0
      BY <1>10 DEF reprRemoteCmd
    <3>2. cmds' = [listening |-> cmds.listening + 1, heard |-> cmds.heard - 1]
      BY <3>1 DEF FcLinkTypeOK
    <3>3. cmds.heard - 1 \in Nat /\ cmds.listening + 1 \in Nat
          /\ (cmds.listening + 1) + (cmds.heard - 1) > 0
      BY <3>1 DEF FcLinkTypeOK
    <3> QED BY <3>2, <3>3
  <2>3. dot' \in Dots /\ mode' \in Modes /\ mode'.gone = mode.gone
        /\ (RemoteControlActive' => RemoteControlActive)
    <3>1. CASE StartsMode(line)
      BY <3>1, ModeStarts
    <3>2. CASE UNCHANGED <<dot, mode>>
      BY <3>2 DEF FcLinkTypeOK, Modes, RemoteControlActive
    <3> QED BY <1>10, <3>1, <3>2 DEF reprRemoteCmd
  <2>4. link' = link
    BY <1>10 DEF reprRemoteCmd
  <2> QED BY <2>1, <2>2, <2>3, <2>4, LoopSet DEF FcInv, FcLinkTypeOK, LinkAccounted, Modes
<1>11. ASSUME NEW kind \in {"byHand", "byLoop"}, ComesUp(kind) PROVE FcLinkTypeOK' /\ FcInv'
  <2> DEFINE c == link.dialed + 1
  <2>1. c \in Links /\ c \in 0 .. MaxDialed /\ c \notin link.byHand \cup link.byLoop
    <3>1. link.dialed \in 0 .. MaxDialed /\ link.dialed < MaxDialed
          /\ \A d \in link.byHand \cup link.byLoop : d <= link.dialed
      BY <1>11 DEF ComesUp, FcInv, LinkFields
    <3>2. c \in 1 .. MaxDialed /\ c \in 0 .. MaxDialed /\ ~(c <= link.dialed)
      BY <3>1, FcLinkAssumption
    <3> QED BY <3>1, <3>2 DEF Links
  <2>2. /\ link' \in LinkFields /\ link'.client = link.client /\ link'.dialed = c
        /\ link'.open = link.open \cup {c}
        /\ link'.byHand = IF kind = "byHand" THEN link.byHand \cup {c} ELSE link.byHand
        /\ link'.byLoop = IF kind = "byLoop" THEN link.byLoop \cup {c} ELSE link.byLoop
    <3>1. /\ link' = [link EXCEPT !.dialed = c, !.open = @ \cup {c}, ![kind] = @ \cup {c}]
          /\ link.open \cup {c} \in SUBSET Links /\ link.byHand \cup {c} \in SUBSET Links
          /\ link.byLoop \cup {c} \in SUBSET Links /\ c \in 0 .. MaxDialed
      BY <1>11, <2>1 DEF ComesUp, FcInv, LinkFields
    <3>2. CASE kind = "byHand"
      BY <3>1, <3>2 DEF FcInv, LinkFields
    <3>3. CASE kind = "byLoop"
      BY <3>1, <3>3 DEF FcInv, LinkFields
    <3> QED BY <3>2, <3>3
  <2>3. /\ dialing' \in [byHand : Nat, byLoop : Nat, timers : Nat]
        /\ kind = "byHand" => dialing'.byLoop = dialing.byLoop /\ dialing'.timers = dialing.timers
    BY <1>11 DEF ComesUp, FcLinkTypeOK
  <2>4. /\ \A d \in link'.byHand \cup link'.byLoop : d <= link'.dialed
        /\ link'.byHand \cap link'.byLoop = {}
    BY <2>1, <2>2 DEF FcInv, LinkFields, Links
  <2>5. LinkAccounted'
    <3>1. link'.open \subseteq {link'.client} \cup link'.byHand \cup link'.byLoop
      BY <2>2 DEF FcInv, LinkAccounted
    <3>2. retry'.on => /\ retry'.armed /\ link'.client = 0
                       /\ dialing'.byLoop + dialing'.timers > 0 \/ link'.byLoop # {}
      <4>1. CASE kind = "byHand"
        BY <1>11, <2>2, <2>3, <4>1 DEF ComesUp, FcInv, LinkAccounted
      <4>2. CASE kind = "byLoop"
        BY <1>11, <2>2, <4>2 DEF ComesUp, FcInv, LinkAccounted
      <4> QED BY <4>1, <4>2
    <3> QED BY <1>11, <2>2, <3>1, <3>2 DEF ComesUp, FcInv, LinkAccounted, RemoteControlActive
  <2> QED BY <1>11, <2>2, <2>3, <2>4, <2>5 DEF ComesUp, FcInv, FcLinkTypeOK, LinkFields
<1>12. ASSUME NEW c \in Links, Closes(c) PROVE FcLinkTypeOK' /\ FcInv'
  <2>1. /\ link' \in LinkFields /\ link'.client = link.client /\ link'.dialed = link.dialed
        /\ link'.open = link.open \ {c}
        /\ link'.byHand = link.byHand /\ link'.byLoop = link.byLoop
    BY <1>12 DEF Closes, FcInv, LinkFields
  <2> QED BY <1>12, <2>1 DEF Closes, FcInv, FcLinkTypeOK, LinkFields, LinkAccounted,
     RemoteControlActive
<1>13. ASSUME NEW c \in Links, reprConnected(c) PROVE FcLinkTypeOK' /\ FcInv'
  <2>1. CASE dot = "connecting"
    BY <1>13, <2>1, AdoptsIt DEF reprConnected, Dots
  <2>2. CASE dot # "connecting"
    <3>1. c \notin link.byLoop
      BY <1>13 DEF reprConnected, FcInv
    <3> QED BY <1>13, <2>2, <3>1, DiscardsIt DEF reprConnected
  <2> QED BY <2>1, <2>2
<1>14. ASSUME NEW c \in Links, autoConnectResult(c) PROVE FcLinkTypeOK' /\ FcInv'
  <2>1. CASE Looping
    BY <1>14, <2>1, AdoptsIt DEF autoConnectResult, autoConnectControlState, Dots
  <2>2. CASE ~Looping
    BY <1>14, <2>2, DiscardsIt DEF autoConnectResult, Looping, FcInv, LinkAccounted
  <2> QED BY <2>1, <2>2
<1>15. ASSUME NEW c \in Links, reprDisconnected(c) PROVE FcLinkTypeOK' /\ FcInv'
  <2>1. /\ link' \in LinkFields /\ link'.client = (IF link.client = c THEN 0 ELSE link.client)
        /\ link'.dialed = link.dialed /\ link'.open = link.open
        /\ link'.byHand = link.byHand /\ link'.byLoop = link.byLoop
    <3>1. 0 \in 0 .. MaxDialed /\ link.watched \ {c} \in SUBSET Links
      BY FcLinkAssumption DEF FcInv, LinkFields
    <3>2. link' = [link EXCEPT !.watched = @ \ {c}, !.client = IF link.client = c THEN 0 ELSE link.client]
      BY <1>15 DEF reprDisconnected
    <3> QED BY <3>1, <3>2 DEF FcInv, LinkFields
  <2>2. CASE link.client = c
    <3>1. ~retry.on /\ c # 0
      BY <2>2 DEF FcInv, LinkAccounted, Links
    <3>2. /\ retry' \in [on : BOOLEAN, armed : BOOLEAN, remote : BOOLEAN]
          /\ dialing' \in [byHand : Nat, byLoop : Nat, timers : Nat]
          /\ retry'.on => retry'.armed /\ dialing'.byLoop + dialing'.timers > 0
      <4>1. CASE StartsLoop
        <5>1. dialing' = [dialing EXCEPT !.byLoop = @ + 1]
          BY <4>1 DEF StartsLoop
        <5>2. retry' \in [on : BOOLEAN, armed : BOOLEAN, remote : BOOLEAN] /\ retry'.armed
          BY <4>1 DEF StartsLoop, FcLinkTypeOK
        <5> QED BY <5>1, <5>2 DEF FcLinkTypeOK
      <4>2. CASE UNCHANGED <<retry, dialing>>
        BY <3>1, <4>2 DEF FcLinkTypeOK
      <4> QED BY <1>15, <2>2, <4>1, <4>2 DEF reprDisconnected
    <3>3. dot' \in Dots \ {"connected", "local"}
      BY <1>15, <2>2 DEF reprDisconnected, RemoteControlActive, FcLinkTypeOK, Dots
    <3> QED BY <1>15, <2>1, <2>2, <3>1, <3>2, <3>3 DEF reprDisconnected, FcInv, FcLinkTypeOK,
       LinkFields, LinkAccounted, RemoteControlActive
  <2>3. CASE link.client # c
    BY <1>15, <2>1, <2>3 DEF reprDisconnected, FcInv, FcLinkTypeOK, LinkFields, LinkAccounted,
       RemoteControlActive
  <2> QED BY <2>2, <2>3
<1>16. CASE ModeShows
  BY <1>16 DEF ModeShows, FcInv, FcLinkTypeOK, LinkAccounted, RemoteControlActive, Dots
<1>17. CASE exitRidealong
  <2>1. dot' \in Dots /\ mode' \in Modes
    BY <1>17 DEF exitRidealong, FcLinkTypeOK, Modes, Dots
  <2>2. RemoteControlActive' => link.client # 0 \/ mode'.gone
    BY <1>17 DEF exitRidealong, FcLinkTypeOK, RemoteControlActive
  <2> QED BY <1>17, <2>1, <2>2 DEF exitRidealong, FcInv, FcLinkTypeOK, LinkAccounted, Modes
<1>18. CASE exitCondocMode
  BY <1>18 DEF exitCondocMode, FcInv, FcLinkTypeOK, LinkAccounted, RemoteControlActive, Dots
<1>19. CASE UNCHANGED linkVars
  BY <1>19 DEF linkVars, FcInv, FcLinkTypeOK, LinkFields, LinkAccounted, RemoteControlActive
<1> QED BY <1>1, <1>2, <1>3, <1>4, <1>5, <1>6, <1>7, <1>8, <1>9, <1>10, <1>11, <1>12, <1>13,
   <1>14, <1>15, <1>16, <1>17, <1>18, <1>19 DEF FcLinkNext

-----------------------------------------------------------------------------
(***************************************************************************)
(* A condoc's proposal, its pull requests and their merge.  LandsTogether  *)
(* needs what each kind of request has done so far: the branches pushed,   *)
(* the pull requests raised, the repositories merged.                      *)
(***************************************************************************)
Phases == {"none", "Proposed", "AwaitingStep", "Queued", "AgentRunning", "PRProposed", "PROpen",
           "Merged"}
PRLists == {prs \in Seq(PRNumbers) : Len(prs) <= RepoCount}
Pointers == [phase : Phases, stage : {"none", "queued", "signalled"},
             template : Templates \cup {"none"}, prs : PRLists, error : BOOLEAN,
             slopspace : BOOLEAN]
ProposalRequests == [kind : {"none", "check", "clone", "push", "accept", "propose", "await", "raise", "link",
                     "mirror", "ready", "merge", "delete"},
             repo : 1 .. RepoCount + 1, prs : PRLists, template : {"none"}]
Remotes == [branch : BOOLEAN, number : 0 .. MaxByHand + 2, ready : BOOLEAN, moved : BOOLEAN,
            pr : {"none", "open", "closed", "merged"}]

AllMerged == \A r \in RepoIds : remote[r].pr = "merged"
Standing == trees.exists /\ \A r \in RepoIds : remote[r].branch

\* What a pointer file says, against GitHub, the slopspace and the condoc.
PointerFits(p) ==
    /\ p \in Pointers
    /\ p.phase \in {"none", "Proposed"} => ~p.slopspace
    /\ p.stage # "none" => p.phase \in {"Queued", "AgentRunning"}
    /\ p.phase \notin {"PROpen", "Merged"} => mergedAll = << >>
    /\ p.slopspace /\ p.phase \notin {"PROpen", "Merged"} => Standing
    /\ p.slopspace /\ p.phase = "PROpen" => Standing \/ AllMerged
    /\ p.phase = "Merged" => AllMerged
    /\ p.phase = "PROpen" => /\ p.prs = mirrored /\ Len(mirrored) = RepoCount
                             /\ \A r \in RepoIds : mirrored[r] = remote[r].number

\* How far a request has come.
RequestFits ==
    /\ request \in ProposalRequests
    /\ request.kind \in {"none", "clone", "push", "propose", "await", "raise", "mirror", "ready",
                         "merge", "delete"}
    /\ request.kind = "none" => request = NoRequest
    /\ request.kind = "clone" => pointerOf.phase = "Proposed" /\ request.repo = 1
    /\ request.kind = "push" =>
          /\ pointerOf.phase = "Proposed" /\ trees.exists
          /\ \A i \in 1 .. RepoCount : i < request.repo => remote[PushOrder(i)].branch
    /\ request.kind \in {"propose", "await"} => pointerOf.stage # "none"
    /\ request.kind \in {"raise", "mirror"} =>
          /\ pointerOf.phase = "PRProposed" /\ Len(request.prs) = request.repo - 1
          /\ \A i \in 1 .. request.repo - 1 : request.prs[i] = remote[i].number
    /\ request.kind = "mirror" => request.prs = mirrored /\ request.repo = RepoCount + 1
    /\ request.kind \in {"ready", "merge", "delete"} => pointerOf.phase = "PROpen"
    /\ request.kind = "merge" => \A i \in 1 .. request.repo - 1 : remote[i].pr = "merged"
    /\ request.kind = "delete" => AllMerged

\* What Merge merged comes after all that is before it, in order.
MergedFits ==
    /\ mergedAll \in Seq(RepoIds)
    /\ \A i \in 1 .. Len(mergedAll) : \A r \in 1 .. mergedAll[i] : remote[r].pr = "merged"
    /\ \A i, j \in 1 .. Len(mergedAll) : i < j => mergedAll[i] < mergedAll[j]

GitHubFits ==
    /\ remote \in [RepoIds -> Remotes]
    /\ \A r \in RepoIds : remote[r].pr = "open" => remote[r].number > 0
    /\ trees \in [exists : BOOLEAN, changed : SUBSET RepoIds]
    /\ proposer \in {"none", "running", "done"}
    /\ hitches \in 0 .. MaxHitches /\ byHand \in 0 .. MaxByHand

ProposalInv == PointerFits(pointerOf) /\ RequestFits /\ MergedFits /\ GitHubFits

\* No request is one, and no list of pull requests a list.
LEMMA NoRequestIsOne == NoRequest \in ProposalRequests /\ << >> \in PRLists
<1>1. << >> \in PRLists
  BY CondocProposalsAssumption DEF PRLists
<1>2. 1 \in 1 .. RepoCount + 1
  BY CondocProposalsAssumption
<1> QED BY <1>1, <1>2 DEF NoRequest, ProposalRequests

\* Nobody asks for anything.
LEMMA IdleFits == ASSUME request' = NoRequest PROVE RequestFits'
  BY NoRequestIsOne DEF RequestFits, NoRequest

\* A pointer that is not there contradicts nothing as long as nothing is
\* merged.
LEMMA NoPointerFits == ASSUME mergedAll = << >> PROVE PointerFits(NoPointer)
  BY NoRequestIsOne DEF PointerFits, NoPointer, Pointers, Phases

\* A request that ends with the pointer written, or not.
LEMMA SavesFits ==
  ASSUME ProposalInv, NEW to, PointerFits(to), Saves(to),
         UNCHANGED <<remote, trees, mirrored, mergedAll>>,
         proposer' \in {"none", "running", "done"}, byHand' \in 0 .. MaxByHand
  PROVE  ProposalInv'
<1>1. request' = NoRequest /\ (pointerOf' = to \/ pointerOf' = pointerOf) /\ hitches' \in 0 .. MaxHitches
  BY CondocProposalsAssumption DEF Saves, Hitch, ProposalInv, GitHubFits
<1>2. PointerFits(pointerOf')
  BY <1>1 DEF ProposalInv
<1> QED BY <1>1, <1>2, IdleFits DEF ProposalInv, PointerFits, MergedFits, GitHubFits, Standing, AllMerged

\* A request that ends with its error in the pointer.
LEMMA RecordsFits ==
  ASSUME ProposalInv, NEW to, PointerFits(to), Records(to),
         UNCHANGED <<remote, trees, mirrored, mergedAll>>,
         proposer' \in {"none", "running", "done"}, byHand' \in 0 .. MaxByHand,
         Hitch \/ UNCHANGED hitches
  PROVE  ProposalInv'
<1>1. request' = NoRequest /\ pointerOf' = [to EXCEPT !.error = TRUE] /\ hitches' \in 0 .. MaxHitches
  BY CondocProposalsAssumption DEF Records, Hitch, ProposalInv, GitHubFits
<1>2. PointerFits(pointerOf')
  BY <1>1 DEF PointerFits, Pointers
<1> QED BY <1>1, <1>2, IdleFits DEF ProposalInv, PointerFits, MergedFits, GitHubFits, Standing, AllMerged

\* A request that goes on, everything else as it was.
LEMMA GoesOn ==
  ASSUME ProposalInv, RequestFits', Hitch \/ UNCHANGED hitches,
         UNCHANGED <<pointerOf, remote, trees, mirrored, mergedAll, proposer, byHand>>
  PROVE  ProposalInv'
<1>1. hitches' \in 0 .. MaxHitches
  BY CondocProposalsAssumption DEF Hitch, ProposalInv, GitHubFits
<1> QED BY <1>1 DEF ProposalInv, PointerFits, MergedFits, GitHubFits, Standing, AllMerged

\* Nothing is proposed yet.
LEMMA ProposalsStart == CondocProposalsInit => ProposalInv
<1> SUFFICES ASSUME CondocProposalsInit PROVE ProposalInv
  OBVIOUS
<1>1. PointerFits(pointerOf)
  BY NoPointerFits DEF CondocProposalsInit
<1>2. RequestFits
  BY NoRequestIsOne DEF CondocProposalsInit, RequestFits, NoRequest
<1>3. MergedFits
  BY DEF CondocProposalsInit, MergedFits
<1>4. GitHubFits
  BY CondocProposalsAssumption DEF CondocProposalsInit, GitHubFits, Remotes, NoRemote
<1> QED BY <1>1, <1>2, <1>3, <1>4 DEF ProposalInv

\* Up to the condoc's first step.
LEMMA ProposalKept ==
  ASSUME ProposalInv, Propose \/ DeleteProposal \/ CheckBranch \/ CreateSlopspace \/ PublishBranch \/ Accepts
  PROVE  ProposalInv'
<1> USE DEF Elsewhere
<1>1. CASE Propose
  <2>1. PointerFits([NoPointer EXCEPT !.phase = "Proposed"])
    BY <1>1, NoRequestIsOne DEF Propose, ProposalInv, PointerFits, NoPointer, Pointers, Phases
  <2> QED BY <1>1, <2>1, SavesFits DEF Propose, ProposalInv, GitHubFits
<1>2. CASE DeleteProposal
  <2>1. PointerFits(NoPointer)
    BY <1>2, NoPointerFits DEF DeleteProposal, ProposalInv, PointerFits
  <2> QED BY <1>2, <2>1, SavesFits DEF DeleteProposal, ProposalInv, GitHubFits
<1>3. CASE CheckBranch
  <2>1. request' = NoRequest \/ request' = [NoRequest EXCEPT !.kind = "clone"]
    BY <1>3 DEF CheckBranch, Unclaimed
  <2>2. CASE request' = [NoRequest EXCEPT !.kind = "clone"]
    <3>1. RequestFits'
      BY <1>3, <2>2, NoRequestIsOne DEF CheckBranch, RequestFits, NoRequest, ProposalRequests
    <3> QED BY <1>3, <3>1, GoesOn DEF CheckBranch
  <2> QED BY <1>3, <2>1, <2>2, IdleFits, GoesOn DEF CheckBranch
<1>4. CASE CreateSlopspace
  <2>1. CASE Hitch /\ request' = NoRequest /\ UNCHANGED trees
    BY <1>4, <2>1, IdleFits, GoesOn DEF CreateSlopspace
  <2>2. CASE /\ trees' = [exists |-> TRUE, changed |-> {CondocsRepo}]
             /\ request' = [request EXCEPT !.kind = "push"]
             /\ UNCHANGED hitches
    <3>1. trees'.exists /\ trees' \in [exists : BOOLEAN, changed : SUBSET RepoIds]
      BY <2>2, CondocProposalsAssumption DEF CondocsRepo, RepoIds
    <3>2. pointerOf.phase = "Proposed" /\ request.repo = 1 /\ request.kind = "clone"
      BY <1>4 DEF CreateSlopspace, ProposalInv, RequestFits
    <3>3. request' \in ProposalRequests /\ request'.kind = "push" /\ request'.repo = 1
      BY <2>2, <3>2 DEF ProposalInv, RequestFits, ProposalRequests
    <3>4. RequestFits'
      BY <1>4, <3>1, <3>2, <3>3 DEF CreateSlopspace, RequestFits
    <3>5. PointerFits(pointerOf)'
      BY <1>4, <3>1, <3>2 DEF CreateSlopspace, ProposalInv, PointerFits, AllMerged, Standing
    <3> QED BY <1>4, <2>2, <3>1, <3>4, <3>5 DEF CreateSlopspace, ProposalInv, GitHubFits, MergedFits
  <2> QED BY <1>4, <2>1, <2>2 DEF CreateSlopspace
<1>5. CASE PublishBranch
  <2>1. pointerOf.phase = "Proposed" /\ request.repo \in 1 .. RepoCount /\ trees.exists
    BY <1>5 DEF PublishBranch, ProposalInv, RequestFits, ProposalRequests
  <2>2. CASE Hitch /\ request' = NoRequest /\ UNCHANGED remote
             /\ trees' = [exists |-> FALSE, changed |-> {}]
    <3>1. hitches' \in 0 .. MaxHitches /\ trees' \in [exists : BOOLEAN, changed : SUBSET RepoIds]
      BY <2>2, CondocProposalsAssumption DEF Hitch, ProposalInv, GitHubFits
    <3>2. PointerFits(pointerOf)'
      BY <1>5, <2>1, <2>2 DEF PublishBranch, ProposalInv, PointerFits, AllMerged, Standing
    <3> QED BY <1>5, <2>2, <3>1, <3>2, IdleFits DEF PublishBranch, ProposalInv, GitHubFits, MergedFits
  <2>3. CASE /\ remote' = [remote EXCEPT ![PushOrder(request.repo)].branch = TRUE]
             /\ request' = [request EXCEPT !.repo = @ + 1]
             /\ UNCHANGED <<trees, hitches>>
    <3>1. PushOrder(request.repo) \in RepoIds
      BY <2>1, CondocProposalsAssumption DEF PushOrder, CondocsRepo, RepoIds
    <3>2. /\ remote' \in [RepoIds -> Remotes] /\ remote'[PushOrder(request.repo)].branch
          /\ \A r \in RepoIds : remote'[r].pr = remote[r].pr /\ remote'[r].number = remote[r].number
                                /\ (remote[r].branch => remote'[r].branch)
      BY <2>3, <3>1 DEF ProposalInv, GitHubFits, Remotes
    <3>3. request' \in ProposalRequests /\ request'.kind = "push" /\ request'.repo = request.repo + 1
      BY <1>5, <2>1, <2>3, CondocProposalsAssumption DEF PublishBranch, ProposalInv, RequestFits, ProposalRequests
    <3>4. \A i \in 1 .. RepoCount : i < request'.repo => remote'[PushOrder(i)].branch
      <4> SUFFICES ASSUME NEW i \in 1 .. RepoCount, i < request.repo + 1
                   PROVE  remote'[PushOrder(i)].branch
        BY <3>3
      <4>1. PushOrder(i) \in RepoIds
        BY CondocProposalsAssumption DEF PushOrder, CondocsRepo, RepoIds
      <4>2. CASE i = request.repo
        BY <3>2, <4>2
      <4>3. CASE i < request.repo
        BY <1>5, <3>2, <4>1, <4>3 DEF PublishBranch, ProposalInv, RequestFits
      <4> QED BY <2>1, <4>2, <4>3
    <3>5. RequestFits'
      BY <1>5, <2>1, <2>3, <3>3, <3>4 DEF PublishBranch, RequestFits
    <3>6. PointerFits(pointerOf)'
      BY <1>5, <2>1, <3>2 DEF PublishBranch, ProposalInv, PointerFits, AllMerged, Standing
    <3>7. MergedFits'
      <4>1. mergedAll' = << >>
        BY <1>5, <2>1 DEF PublishBranch, ProposalInv, PointerFits
      <4> QED BY <4>1 DEF MergedFits
    <3> QED BY <1>5, <2>3, <3>2, <3>5, <3>6, <3>7 DEF PublishBranch, ProposalInv, GitHubFits
  <2> QED BY <1>5, <2>2, <2>3 DEF PublishBranch
<1>6. CASE Accepts
  <2>1. \A i \in 1 .. RepoCount : remote[PushOrder(i)].branch
    <3>1. /\ request.repo > RepoCount /\ request.repo \in 1 .. RepoCount + 1
          /\ \A i \in 1 .. RepoCount : i < request.repo => remote[PushOrder(i)].branch
      BY <1>6 DEF Accepts, ProposalInv, RequestFits, ProposalRequests
    <3> QED BY <3>1, CondocProposalsAssumption
  <2>2. \A r \in RepoIds : remote[r].branch
    <3> SUFFICES ASSUME NEW r \in RepoIds PROVE remote[r].branch
      OBVIOUS
    <3>1. CASE r = RepoCount
      <4>1. 1 \in 1 .. RepoCount /\ PushOrder(1) = r
        BY <3>1, CondocProposalsAssumption DEF PushOrder, CondocsRepo
      <4> QED BY <2>1, <4>1
    <3>2. CASE r # RepoCount
      <4>1. r + 1 \in 1 .. RepoCount /\ PushOrder(r + 1) = r
        BY <3>2, CondocProposalsAssumption DEF PushOrder, RepoIds
      <4> QED BY <2>1, <4>1
    <3> QED BY <3>1, <3>2
  <2>3. Standing /\ pointerOf.phase = "Proposed"
    BY <1>6, <2>2 DEF Accepts, ProposalInv, RequestFits, Standing
  <2>4. PointerFits([pointerOf EXCEPT !.phase = "AwaitingStep", !.error = FALSE, !.slopspace = TRUE])
    BY <2>3 DEF ProposalInv, PointerFits, Pointers, Phases
  <2> QED BY <1>6, <2>4, SavesFits DEF Accepts, ProposalInv, GitHubFits
<1> QED BY <1>1, <1>2, <1>3, <1>4, <1>5, <1>6

\* The condoc completes, and the propose-PR turn.
LEMMA TurnKept ==
  ASSUME ProposalInv, WorkEnds \/ ProposeStarts \/ SubmitsProposal \/ ProposerEnds \/ TakesTemplate
                      \/ ResubmitProposal \/ RegeneratePRs \/ SavePRTemplate
  PROVE  ProposalInv'
<1> USE DEF Elsewhere
<1>1. CASE WorkEnds
  <2>1. PICK targets \in SUBSET (RepoIds \ {CondocsRepo}) : trees' = [trees EXCEPT !.changed = @ \cup targets]
    BY <1>1 DEF WorkEnds
  <2>2. trees' \in [exists : BOOLEAN, changed : SUBSET RepoIds] /\ trees'.exists = trees.exists
    BY <2>1 DEF ProposalInv, GitHubFits
  <2>3. PointerFits(pointerOf)'
    BY <1>1, <2>2 DEF WorkEnds, ProposalInv, PointerFits, Pointers, Phases, Standing, AllMerged
  <2>4. RequestFits'
    BY <1>1, IdleFits DEF WorkEnds, Unclaimed
  <2> QED BY <1>1, <2>2, <2>3, <2>4 DEF WorkEnds, ProposalInv, GitHubFits, MergedFits
<1>2. CASE ProposeStarts
  <2>1. RequestFits'
    <3>1. CASE request' = [NoRequest EXCEPT !.kind = "propose"]
      BY <1>2, <3>1, NoRequestIsOne DEF ProposeStarts, RequestFits, NoRequest, ProposalRequests
    <3>2. CASE request' = [NoRequest EXCEPT !.kind = "await"]
      BY <1>2, <3>2, NoRequestIsOne DEF ProposeStarts, RequestFits, NoRequest, ProposalRequests
    <3> QED BY <1>2, <3>1, <3>2 DEF ProposeStarts
  <2> QED BY <1>2, <2>1, GoesOn DEF ProposeStarts
<1>3. CASE SubmitsProposal
  <2>1. pointerOf.stage # "none"
    BY <1>3 DEF SubmitsProposal, ProposalInv, RequestFits
  <2>2. CASE Hitch /\ Records(pointerOf) /\ proposer' \in {"none", "running", "done"}
    BY <1>3, <2>2, RecordsFits DEF SubmitsProposal, ProposalInv, GitHubFits
  <2>3. CASE /\ pointerOf' = [pointerOf EXCEPT !.stage = "signalled", !.phase = "AgentRunning"]
             /\ request' = [request EXCEPT !.kind = "await"] /\ UNCHANGED hitches
             /\ proposer' = "running"
    <3>1. PointerFits(pointerOf')
      BY <2>1, <2>3 DEF ProposalInv, PointerFits, Pointers, Phases
    <3>2. pointerOf'.stage = "signalled"
      BY <2>3 DEF ProposalInv, PointerFits, Pointers
    <3>3. request' \in ProposalRequests /\ request'.kind = "await"
      BY <2>3 DEF ProposalInv, RequestFits, ProposalRequests
    <3>4. RequestFits'
      BY <3>2, <3>3 DEF RequestFits
    <3> QED BY <1>3, <2>3, <3>1, <3>4 DEF SubmitsProposal, ProposalInv, PointerFits, MergedFits, GitHubFits,
            Standing, AllMerged
  <2> QED BY <1>3, <2>2, <2>3 DEF SubmitsProposal, ProposalInv, GitHubFits
<1>4. CASE ProposerEnds
  BY <1>4 DEF ProposerEnds, ProposalInv, PointerFits, RequestFits, MergedFits, GitHubFits, Standing, AllMerged
<1>5. CASE TakesTemplate
  <2>1. PICK agents \in Templates \cup {"none"} :
           Saves([pointerOf EXCEPT !.phase = "PRProposed", !.stage = "none",
                      !.template = IF checkPRDrafts(agents) THEN agents ELSE defaultPRTemplate,
                      !.error = ~checkPRDrafts(agents)])
    BY <1>5 DEF TakesTemplate
  <2> DEFINE to == [pointerOf EXCEPT !.phase = "PRProposed", !.stage = "none",
                      !.template = IF checkPRDrafts(agents) THEN agents ELSE defaultPRTemplate,
                      !.error = ~checkPRDrafts(agents)]
  <2>2. pointerOf.phase \in {"Queued", "AgentRunning"}
    BY <1>5 DEF TakesTemplate, ProposalInv, RequestFits, PointerFits
  <2>3. /\ IF checkPRDrafts(agents) THEN agents \in Templates ELSE defaultPRTemplate \in Templates
        /\ (~checkPRDrafts(agents)) \in BOOLEAN
    BY DEF checkPRDrafts, Templates, defaultPRTemplate
  <2>4. PointerFits(to)
    BY <2>2, <2>3 DEF ProposalInv, PointerFits, Pointers, Phases
  <2> QED BY <1>5, <2>1, <2>4, SavesFits DEF TakesTemplate, ProposalInv, GitHubFits
<1>6. CASE ResubmitProposal
  <2>1. PointerFits([pointerOf EXCEPT !.error = FALSE])
    BY DEF ProposalInv, PointerFits, Pointers
  <2> QED BY <1>6, <2>1, SavesFits DEF ResubmitProposal, ProposalInv, GitHubFits
<1>7. CASE RegeneratePRs
  <2>1. PointerFits([pointerOf EXCEPT !.phase = "Queued", !.stage = "queued", !.error = FALSE])
    BY <1>7 DEF RegeneratePRs, ProposalInv, PointerFits, Pointers, Phases
  <2>2. byHand' \in 0 .. MaxByHand
    BY <1>7, CondocProposalsAssumption DEF RegeneratePRs, ProposalInv, GitHubFits
  <2> QED BY <1>7, <2>1, <2>2, SavesFits DEF RegeneratePRs, ProposalInv, GitHubFits
<1>8. CASE SavePRTemplate
  <2>1. PICK t \in Templates : Saves([pointerOf EXCEPT !.template = t])
    BY <1>8 DEF SavePRTemplate
  <2>2. PointerFits([pointerOf EXCEPT !.template = t])
    BY <1>8 DEF SavePRTemplate, ProposalInv, PointerFits, Pointers
  <2>3. byHand' \in 0 .. MaxByHand
    BY <1>8, CondocProposalsAssumption DEF SavePRTemplate, ProposalInv, GitHubFits
  <2> QED BY <1>8, <2>1, <2>2, <2>3, SavesFits DEF SavePRTemplate, ProposalInv, GitHubFits
<1> QED BY <1>1, <1>2, <1>3, <1>4, <1>5, <1>6, <1>7, <1>8

\* The pull requests are raised, repository after repository.
LEMMA ProposalRaiseKept ==
  ASSUME ProposalInv, RaiseStarts \/ RaiseNext \/ MirrorPRs \/ RaisedAll
  PROVE  ProposalInv'
<1> USE DEF Elsewhere
<1>1. CASE RaiseStarts
  <2>1. request' \in ProposalRequests /\ request'.kind = "raise" /\ request'.repo = 1 /\ request'.prs = << >>
    BY <1>1, NoRequestIsOne DEF RaiseStarts, NoRequest, ProposalRequests
  <2>2. RequestFits'
    BY <1>1, <2>1 DEF RaiseStarts, RequestFits
  <2> QED BY <1>1, <2>2, GoesOn DEF RaiseStarts
<1>2. CASE RaiseNext
  <2> DEFINE r == request.repo
             open == FindOpen(r)
             number == IF open THEN remote[r].number ELSE remote[r].number + 1
  <2>1. /\ pointerOf.phase = "PRProposed" /\ r \in RepoIds /\ Len(request.prs) = r - 1
        /\ \A i \in 1 .. r - 1 : request.prs[i] = remote[i].number
        /\ request.prs \in Seq(PRNumbers)
    BY <1>2 DEF RaiseNext, ProposalInv, RequestFits, ProposalRequests, RepoIds, PRLists
  <2>2. CASE Records([pointerOf EXCEPT !.prs = request.prs]) /\ UNCHANGED remote
             /\ (Hitch \/ UNCHANGED hitches)
    <3>1. PointerFits([pointerOf EXCEPT !.prs = request.prs])
      BY <2>1 DEF ProposalInv, RequestFits, PointerFits, Pointers, ProposalRequests
    <3> QED BY <1>2, <2>2, <3>1, RecordsFits DEF RaiseNext, ProposalInv, GitHubFits
  <2>3. CASE /\ open \/ (Creatable(r) /\ number \in PRNumbers)
             /\ remote' = [remote EXCEPT ![r].pr = "open", ![r].number = number,
                            ![r].ready = IF open THEN @ ELSE TRUE]
             /\ request' = [request EXCEPT !.repo = r + 1, !.prs = Append(@, number)]
             /\ UNCHANGED <<pointerOf, hitches>>
    <3>1. number \in PRNumbers
      BY <2>1, <2>3 DEF FindOpen, ProposalInv, GitHubFits, Remotes, PRNumbers
    <3> HIDE DEF number
    <3>2. /\ remote' \in [RepoIds -> Remotes] /\ remote'[r].number = number
          /\ \A q \in RepoIds : /\ remote'[q].branch = remote[q].branch
                                /\ q # r => remote'[q] = remote[q]
      <4>1. number \in 0 .. MaxByHand + 2
        BY <3>1 DEF PRNumbers
      <4> DEFINE new == [remote[r] EXCEPT !.pr = "open", !.number = number,
                                         !.ready = IF open THEN @ ELSE TRUE]
      <4>2. /\ remote[r] \in Remotes /\ open \in BOOLEAN
            /\ remote' = [remote EXCEPT ![r] = new]
        BY <2>1, <2>3 DEF ProposalInv, GitHubFits, FindOpen
      <4> HIDE DEF open
      <4>3. new \in Remotes /\ new.number = number /\ new.branch = remote[r].branch
        BY <4>1, <4>2 DEF Remotes
      <4> HIDE DEF new
      <4> QED BY <2>1, <4>2, <4>3 DEF ProposalInv, GitHubFits
    <3>3. \A q \in RepoIds : remote'[q].pr = "open" => remote'[q].number > 0
      <4>1. number > 0
        BY <3>1 DEF PRNumbers
      <4> QED BY <3>2, <4>1 DEF ProposalInv, GitHubFits
    <3>4. /\ Append(request.prs, number) \in Seq(PRNumbers) /\ Len(Append(request.prs, number)) = r
          /\ \A i \in 1 .. r : Append(request.prs, number)[i] = remote'[i].number
      <4>1. Append(request.prs, number) \in Seq(PRNumbers) /\ Len(Append(request.prs, number)) = r
        BY <2>1, <3>1 DEF RepoIds
      <4>2. ASSUME NEW i \in 1 .. r PROVE Append(request.prs, number)[i] = remote'[i].number
        <5>1. CASE i = r
          BY <2>1, <3>1, <3>2, <5>1 DEF RepoIds
        <5>2. CASE i # r
          <6>1. i \in 1 .. Len(request.prs) /\ i \in RepoIds /\ i \in 1 .. r - 1
            BY <2>1, <4>2, <5>2, CondocProposalsAssumption DEF RepoIds
          <6>2. Append(request.prs, number)[i] = request.prs[i]
            BY <2>1, <3>1, <6>1
          <6> QED BY <2>1, <3>2, <5>2, <6>1, <6>2
        <5> QED BY <5>1, <5>2
      <4> QED BY <4>1, <4>2
    <3>5. Append(request.prs, number) \in PRLists /\ r + 1 \in 1 .. RepoCount + 1
      BY <2>1, <3>4, CondocProposalsAssumption DEF PRLists, RepoIds
    <3>6. /\ request' \in ProposalRequests /\ request'.kind = "raise" /\ request'.repo = r + 1
          /\ request'.prs = Append(request.prs, number)
      BY <1>2, <2>3, <3>5 DEF RaiseNext, ProposalInv, RequestFits, ProposalRequests
    <3>7. RequestFits'
      <4>1. Len(request'.prs) = request'.repo - 1 /\ request'.repo - 1 = r
        BY <2>1, <3>4, <3>6 DEF RepoIds
      <4> QED BY <2>1, <2>3, <3>4, <3>6, <4>1 DEF RequestFits
    <3>8. pointerOf.phase = "PRProposed" /\ mergedAll = << >>
      BY <2>1 DEF ProposalInv, PointerFits
    <3>9. PointerFits(pointerOf)'
      BY <1>2, <2>3, <3>2, <3>8 DEF RaiseNext, ProposalInv, PointerFits, Standing
    <3>10. MergedFits'
      BY <1>2, <3>8 DEF RaiseNext, MergedFits
    <3> QED BY <1>2, <2>3, <3>2, <3>3, <3>7, <3>9, <3>10 DEF RaiseNext, ProposalInv, GitHubFits
  <2> QED BY <1>2, <2>2, <2>3 DEF RaiseNext
<1>3. CASE MirrorPRs
  <2>1. /\ pointerOf.phase = "PRProposed" /\ request.repo = RepoCount + 1 /\ Len(request.prs) = RepoCount
        /\ \A i \in RepoIds : request.prs[i] = remote[i].number
        /\ request.prs \in Seq(PRNumbers)
    BY <1>3, CondocProposalsAssumption DEF MirrorPRs, ProposalInv, RequestFits, ProposalRequests, RepoIds, PRLists
  <2>2. CASE request' = [request EXCEPT !.kind = "mirror"] /\ UNCHANGED <<pointerOf, hitches>>
    <3>1. /\ request' \in ProposalRequests /\ request'.kind = "mirror" /\ request'.repo = RepoCount + 1
          /\ request'.prs = request.prs
      BY <2>1, <2>2 DEF ProposalInv, RequestFits, ProposalRequests
    <3>2. request'.repo - 1 = RepoCount
      BY <3>1, CondocProposalsAssumption
    <3>3. RequestFits'
      BY <1>3, <2>1, <2>2, <3>1, <3>2 DEF MirrorPRs, RequestFits, RepoIds
    <3> QED BY <1>3, <2>1, <2>2, <3>3 DEF MirrorPRs, ProposalInv, PointerFits, MergedFits, GitHubFits,
            Standing, AllMerged
  <2>3. CASE Hitch /\ Records([pointerOf EXCEPT !.prs = request.prs])
    <3>1. /\ request' = NoRequest /\ pointerOf' = [pointerOf EXCEPT !.prs = request.prs, !.error = TRUE]
          /\ hitches' \in 0 .. MaxHitches
      BY <2>3, CondocProposalsAssumption DEF Records, Hitch, ProposalInv, GitHubFits, PointerFits, Pointers
    <3>2. PointerFits(pointerOf)'
      BY <1>3, <2>1, <3>1 DEF MirrorPRs, ProposalInv, RequestFits, ProposalRequests, PointerFits, Pointers,
         Standing, AllMerged
    <3> QED BY <1>3, <3>1, <3>2, IdleFits DEF MirrorPRs, ProposalInv, MergedFits, GitHubFits
  <2> QED BY <1>3, <2>2, <2>3 DEF MirrorPRs
<1>4. CASE RaisedAll
  <2>1. /\ pointerOf.phase = "PRProposed" /\ request.repo = RepoCount + 1 /\ Len(request.prs) = RepoCount
        /\ \A i \in RepoIds : request.prs[i] = remote[i].number
        /\ request.prs \in PRLists /\ request.prs = mirrored
    BY <1>4, CondocProposalsAssumption DEF RaisedAll, ProposalInv, RequestFits, ProposalRequests, RepoIds
  <2>2. PointerFits([pointerOf EXCEPT !.prs = request.prs, !.error = FALSE, !.phase = "PROpen"])
    BY <2>1 DEF ProposalInv, PointerFits, Pointers, Phases
  <2> QED BY <1>4, <2>2, SavesFits DEF RaisedAll, ProposalInv, GitHubFits
<1> QED BY <1>1, <1>2, <1>3, <1>4

\* What comes before a repository that Merge merged.
LEMMA AllMergedBefore ==
  ASSUME MergedFits, NEW i \in 1 .. Len(mergedAll), NEW q \in 1 .. mergedAll[i]
  PROVE  q \in RepoIds
<1>1. mergedAll[i] \in RepoIds
  BY DEF MergedFits
<1> QED BY <1>1, CondocProposalsAssumption DEF RepoIds

\* Merge: a look at every pull request, and the merges in order.
LEMMA ProposalMergeKept ==
  ASSUME ProposalInv, MergeStarts \/ LookReady \/ AllReady \/ MergeNext \/ CleanUp \/ MergedForGood
  PROVE  ProposalInv'
<1> USE DEF Elsewhere
<1>1. CASE MergeStarts
  <2>1. /\ request' \in ProposalRequests /\ request'.kind = "ready" /\ pointerOf.phase = "PROpen"
    BY <1>1, NoRequestIsOne DEF MergeStarts, NoRequest, ProposalRequests, ProposalInv, PointerFits, Pointers
  <2>2. /\ remote' \in [RepoIds -> Remotes]
        /\ \A q \in RepoIds : /\ remote'[q].branch = remote[q].branch /\ remote'[q].pr = remote[q].pr
                              /\ remote'[q].number = remote[q].number
    BY <1>1 DEF MergeStarts, ProposalInv, GitHubFits, Remotes
  <2>3. RequestFits'
    BY <1>1, <2>1 DEF MergeStarts, RequestFits
  <2>4. PointerFits(pointerOf)'
    BY <1>1, <2>1, <2>2 DEF MergeStarts, ProposalInv, PointerFits, Standing, AllMerged
  <2>5. MergedFits'
    <3>1. ASSUME NEW i \in 1 .. Len(mergedAll), NEW q \in 1 .. mergedAll[i] PROVE remote'[q].pr = "merged"
      <4>1. q \in RepoIds
        BY <3>1, AllMergedBefore DEF ProposalInv
      <4> QED BY <2>2, <3>1, <4>1 DEF ProposalInv, MergedFits
    <3> QED BY <1>1, <3>1 DEF MergeStarts, ProposalInv, MergedFits
  <2> QED BY <1>1, <2>2, <2>3, <2>4, <2>5 DEF MergeStarts, ProposalInv, GitHubFits
<1>2. CASE LookReady
  <2>1. CASE request' = [request EXCEPT !.repo = @ + 1] /\ UNCHANGED <<pointerOf, hitches>>
    <3>1. request' \in ProposalRequests /\ request'.kind = "ready"
      BY <1>2, <2>1, CondocProposalsAssumption DEF LookReady, ProposalInv, RequestFits, ProposalRequests
    <3>2. RequestFits'
      BY <1>2, <2>1, <3>1 DEF LookReady, ProposalInv, RequestFits
    <3> QED BY <1>2, <2>1, <3>2, GoesOn DEF LookReady
  <2>2. CASE Records(pointerOf) /\ (Hitch \/ UNCHANGED hitches)
    BY <1>2, <2>2, RecordsFits DEF LookReady, ProposalInv, GitHubFits
  <2> QED BY <1>2, <2>1, <2>2 DEF LookReady
<1>3. CASE AllReady
  <2>1. request' \in ProposalRequests /\ request'.kind = "merge" /\ request'.repo = 1
    <3>1. request' = [request EXCEPT !.kind = "merge", !.repo = 1] /\ request \in ProposalRequests
      BY <1>3 DEF AllReady, ProposalInv, RequestFits
    <3>2. 1 \in 1 .. RepoCount + 1
      BY CondocProposalsAssumption
    <3> QED BY <3>1, <3>2 DEF ProposalRequests
  <2>2. RequestFits'
    BY <1>3, <2>1 DEF AllReady, ProposalInv, RequestFits
  <2> QED BY <1>3, <2>2, GoesOn DEF AllReady
<1>4. CASE MergeNext
  <2> DEFINE r == request.repo
  <2>1. /\ pointerOf.phase = "PROpen" /\ r \in RepoIds /\ request.kind = "merge"
        /\ \A i \in 1 .. r - 1 : remote[i].pr = "merged"
    BY <1>4 DEF MergeNext, ProposalInv, RequestFits, ProposalRequests, RepoIds
  <2>2. CASE Records(pointerOf) /\ UNCHANGED <<remote, mergedAll>> /\ (Hitch \/ UNCHANGED hitches)
    BY <1>4, <2>2, RecordsFits DEF MergeNext, ProposalInv, GitHubFits
  <2>3. CASE /\ remote[r].pr = "merged" \/ Mergeable(r)
             /\ remote' = [remote EXCEPT ![r].pr = "merged"]
             /\ mergedAll' = IF remote[r].pr = "open" THEN Append(mergedAll, r) ELSE mergedAll
             /\ request' = [request EXCEPT !.repo = r + 1]
             /\ UNCHANGED <<pointerOf, hitches>>
    <3>1. /\ remote' \in [RepoIds -> Remotes] /\ remote'[r].pr = "merged"
          /\ \A q \in RepoIds : /\ remote'[q].branch = remote[q].branch
                                /\ remote'[q].number = remote[q].number
                                /\ q # r => remote'[q] = remote[q]
      BY <2>1, <2>3 DEF ProposalInv, GitHubFits, Remotes
    <3>2. \A q \in 1 .. r : remote'[q].pr = "merged"
      <4> SUFFICES ASSUME NEW q \in 1 .. r, q # r PROVE remote'[q].pr = "merged"
        BY <3>1
      <4>1. q \in RepoIds /\ q \in 1 .. r - 1
        BY <2>1, CondocProposalsAssumption DEF RepoIds
      <4> QED BY <2>1, <3>1, <4>1
    <3>3. request' \in ProposalRequests /\ request'.kind = "merge" /\ request'.repo = r + 1
      BY <2>1, <2>3, CondocProposalsAssumption DEF ProposalInv, RequestFits, ProposalRequests, RepoIds
    <3>4. RequestFits'
      <4>1. request'.repo - 1 = r
        BY <2>1, <3>3 DEF RepoIds
      <4> QED BY <2>1, <2>3, <3>2, <3>3, <4>1 DEF RequestFits
    <3>5. PointerFits(pointerOf)'
      BY <1>4, <2>1, <2>3, <3>1 DEF MergeNext, ProposalInv, PointerFits, Standing, AllMerged
    <3>6. \A i \in 1 .. Len(mergedAll) : \A q \in 1 .. mergedAll[i] : remote'[q].pr = "merged"
      <4> SUFFICES ASSUME NEW i \in 1 .. Len(mergedAll), NEW q \in 1 .. mergedAll[i]
                   PROVE  remote'[q].pr = "merged"
        OBVIOUS
      <4>1. q \in RepoIds /\ remote[q].pr = "merged"
        BY AllMergedBefore DEF ProposalInv, MergedFits
      <4> QED BY <3>1, <4>1
    <3>7. MergedFits'
      <4>1. CASE remote[r].pr # "open"
        BY <2>3, <3>6, <4>1 DEF ProposalInv, MergedFits
      <4>2. CASE remote[r].pr = "open"
        <5>1. mergedAll' = Append(mergedAll, r) /\ mergedAll \in Seq(RepoIds)
          BY <2>3, <4>2 DEF ProposalInv, MergedFits
        <5>2. /\ mergedAll' \in Seq(RepoIds) /\ Len(mergedAll') = Len(mergedAll) + 1
              /\ \A i \in 1 .. Len(mergedAll) : mergedAll'[i] = mergedAll[i]
              /\ mergedAll'[Len(mergedAll) + 1] = r
          BY <2>1, <5>1
        <5>3. \A i \in 1 .. Len(mergedAll) : mergedAll[i] < r
          <6> SUFFICES ASSUME NEW i \in 1 .. Len(mergedAll), ~(mergedAll[i] < r) PROVE FALSE
            OBVIOUS
          <6>1. r \in 1 .. mergedAll[i]
            <7>1. mergedAll[i] \in RepoIds
              BY <5>1
            <7> QED BY <2>1, <7>1 DEF RepoIds
          <6> QED BY <4>2, <6>1 DEF ProposalInv, MergedFits
        <5>4. \A i \in 1 .. Len(mergedAll') : \A q \in 1 .. mergedAll'[i] : remote'[q].pr = "merged"
          BY <3>2, <3>6, <5>1, <5>2
        <5>5. \A i, j \in 1 .. Len(mergedAll') : i < j => mergedAll'[i] < mergedAll'[j]
          <6> SUFFICES ASSUME NEW i \in 1 .. Len(mergedAll'), NEW j \in 1 .. Len(mergedAll'), i < j
                       PROVE  mergedAll'[i] < mergedAll'[j]
            OBVIOUS
          <6>1. i \in 1 .. Len(mergedAll)
            BY <5>1, <5>2
          <6>2. CASE j = Len(mergedAll) + 1
            BY <5>2, <5>3, <6>1, <6>2
          <6>3. CASE j # Len(mergedAll) + 1
            <7>1. j \in 1 .. Len(mergedAll)
              BY <5>1, <5>2, <6>3
            <7> QED BY <5>2, <6>1, <7>1 DEF ProposalInv, MergedFits
          <6> QED BY <6>2, <6>3
        <5> QED BY <5>2, <5>4, <5>5 DEF MergedFits
      <4> QED BY <4>1, <4>2
    <3>8. \A q \in RepoIds : remote'[q].pr = "open" => remote'[q].number > 0
      BY <3>1 DEF ProposalInv, GitHubFits
    <3> QED BY <1>4, <2>3, <3>1, <3>4, <3>5, <3>7, <3>8 DEF MergeNext, ProposalInv, GitHubFits
  <2> QED BY <1>4, <2>2, <2>3 DEF MergeNext
<1>5. CASE CleanUp
  <2>1. pointerOf.phase = "PROpen" /\ AllMerged
    BY <1>5, CondocProposalsAssumption DEF CleanUp, ProposalInv, RequestFits, ProposalRequests, RepoIds, AllMerged
  <2>2. /\ remote' \in [RepoIds -> Remotes]
        /\ \A q \in RepoIds : remote'[q].pr = remote[q].pr /\ remote'[q].number = remote[q].number
    <3>1. PICK kept \in SUBSET RepoIds :
             remote' = [q \in RepoIds |-> [remote[q] EXCEPT !.branch = q \in kept /\ @]]
      BY <1>5 DEF CleanUp
    <3>2. ASSUME NEW q \in RepoIds
          PROVE  /\ [remote[q] EXCEPT !.branch = q \in kept /\ @] \in Remotes
                 /\ remote'[q].pr = remote[q].pr /\ remote'[q].number = remote[q].number
      <4>1. remote[q] \in Remotes /\ remote'[q] = [remote[q] EXCEPT !.branch = q \in kept /\ @]
        BY <3>1 DEF ProposalInv, GitHubFits
      <4>2. (q \in kept /\ remote[q].branch) \in BOOLEAN
        OBVIOUS
      <4> QED BY <4>1, <4>2 DEF Remotes
    <3> QED BY <3>1, <3>2
  <2>3. AllMerged'
    BY <2>1, <2>2 DEF AllMerged
  <2>4. request' \in ProposalRequests /\ request'.kind = "delete"
    BY <1>5 DEF CleanUp, ProposalInv, RequestFits, ProposalRequests
  <2>5. RequestFits'
    BY <1>5, <2>1, <2>3, <2>4 DEF CleanUp, RequestFits
  <2>6. PointerFits(pointerOf)'
    BY <1>5, <2>1, <2>2, <2>3 DEF CleanUp, ProposalInv, PointerFits
  <2>7. MergedFits'
    <3>1. ASSUME NEW i \in 1 .. Len(mergedAll), NEW q \in 1 .. mergedAll[i] PROVE remote'[q].pr = "merged"
      <4>1. q \in RepoIds
        BY <3>1, AllMergedBefore DEF ProposalInv
      <4> QED BY <2>3, <4>1 DEF AllMerged
    <3> QED BY <1>5, <3>1 DEF CleanUp, ProposalInv, MergedFits
  <2>8. trees' \in [exists : BOOLEAN, changed : SUBSET RepoIds]
    BY <1>5 DEF CleanUp
  <2> QED BY <1>5, <2>2, <2>5, <2>6, <2>7, <2>8 DEF CleanUp, ProposalInv, GitHubFits
<1>6. CASE MergedForGood
  <2>1. AllMerged /\ pointerOf.phase = "PROpen"
    BY <1>6 DEF MergedForGood, ProposalInv, RequestFits
  <2>2. PointerFits([pointerOf EXCEPT !.phase = "Merged", !.error = FALSE])
    BY <2>1 DEF ProposalInv, PointerFits, Pointers, Phases
  <2> QED BY <1>6, <2>2, SavesFits DEF MergedForGood, ProposalInv, GitHubFits
<1> QED BY <1>1, <1>2, <1>3, <1>4, <1>5, <1>6

\* People at GitHub touch open pull requests only.
LEMMA ByHandKept ==
  ASSUME ProposalInv, NEW r \in RepoIds, AtGitHubByHand(r)
  PROVE  ProposalInv'
<1>1. /\ remote' \in [RepoIds -> Remotes]
      /\ \A q \in RepoIds : /\ remote'[q].branch = remote[q].branch /\ remote'[q].number = remote[q].number
                            /\ remote[q].pr # "open" => remote'[q].pr = remote[q].pr
                            /\ remote'[q].pr = "open" => remote[q].pr = "open"
  <2> DEFINE Touched(new) ==
               /\ new \in Remotes /\ new.branch = remote[r].branch /\ new.number = remote[r].number
               /\ remote' = [remote EXCEPT ![r] = new]
  <2>1. remote[r] \in Remotes /\ remote[r].pr = "open" /\ remote \in [RepoIds -> Remotes]
    BY DEF AtGitHubByHand, ProposalInv, GitHubFits
  <2>2. \E new : Touched(new)
    <3>1. CASE remote' = [remote EXCEPT ![r].pr = "merged"]
      <4>1. Touched([remote[r] EXCEPT !.pr = "merged"])
        BY <2>1, <3>1 DEF Remotes
      <4> QED BY <4>1
    <3>2. CASE remote' = [remote EXCEPT ![r].pr = "closed"]
      <4>1. Touched([remote[r] EXCEPT !.pr = "closed"])
        BY <2>1, <3>2 DEF Remotes
      <4> QED BY <4>1
    <3>3. CASE remote' = [remote EXCEPT ![r].ready = ~@]
      <4>1. Touched([remote[r] EXCEPT !.ready = ~@])
        BY <2>1, <3>3 DEF Remotes
      <4> QED BY <4>1
    <3>4. CASE remote' = [remote EXCEPT ![r].moved = TRUE]
      <4>1. Touched([remote[r] EXCEPT !.moved = TRUE])
        BY <2>1, <3>4 DEF Remotes
      <4> QED BY <4>1
    <3> QED BY <3>1, <3>2, <3>3, <3>4 DEF AtGitHubByHand
  <2>3. PICK new : Touched(new)
    BY <2>2
  <2> QED BY <2>1, <2>3
<1>2. byHand' \in 0 .. MaxByHand
  BY CondocProposalsAssumption DEF AtGitHubByHand, ProposalInv, GitHubFits
<1>3. AllMerged => AllMerged'
  BY <1>1 DEF AllMerged
<1>4. PointerFits(pointerOf)'
  BY <1>1, <1>3 DEF AtGitHubByHand, ProposalInv, PointerFits, Standing
<1>5. MergedFits'
  <2>1. ASSUME NEW i \in 1 .. Len(mergedAll), NEW q \in 1 .. mergedAll[i] PROVE remote'[q].pr = "merged"
    <3>1. q \in RepoIds /\ remote[q].pr = "merged"
      BY <2>1, AllMergedBefore DEF ProposalInv, MergedFits
    <3> QED BY <1>1, <3>1
  <2> QED BY <2>1 DEF AtGitHubByHand, ProposalInv, MergedFits
<1>6. RequestFits'
  <2>1. \A i \in 1 .. RepoCount : i \in RepoIds /\ PushOrder(i) \in RepoIds
    BY CondocProposalsAssumption DEF PushOrder, CondocsRepo, RepoIds
  <2>2. request.repo \in 1 .. RepoCount + 1
    BY DEF ProposalInv, RequestFits, ProposalRequests
  <2>3. \A i \in 1 .. request.repo - 1 : i \in RepoIds
    BY <2>2, CondocProposalsAssumption DEF RepoIds
  <2>4. request.kind = "push" =>
          \A i \in 1 .. RepoCount : i < request.repo => remote'[PushOrder(i)].branch
    BY <1>1, <2>1 DEF ProposalInv, RequestFits
  <2>5. request.kind \in {"raise", "mirror"} =>
          \A i \in 1 .. request.repo - 1 : request.prs[i] = remote'[i].number
    BY <1>1, <2>3 DEF ProposalInv, RequestFits
  <2>6. request.kind = "merge" => \A i \in 1 .. request.repo - 1 : remote'[i].pr = "merged"
    BY <1>1, <2>3 DEF ProposalInv, RequestFits
  <2> QED BY <1>3, <2>4, <2>5, <2>6 DEF AtGitHubByHand, ProposalInv, RequestFits
<1> QED BY <1>1, <1>2, <1>4, <1>5, <1>6 DEF AtGitHubByHand, ProposalInv, GitHubFits

\* Every step of the proposals and pull requests keeps the invariant.
LEMMA ProposalsKept ==
  ASSUME ProposalInv, [CondocProposalsNext]_proposalVars
  PROVE  ProposalInv'
<1>1. CASE CondoccerStops
  BY <1>1, IdleFits, GoesOn DEF CondoccerStops, Elsewhere
<1>2. CASE UNCHANGED proposalVars
  BY <1>2 DEF proposalVars, ProposalInv, PointerFits, RequestFits, MergedFits, GitHubFits, Standing, AllMerged
<1> QED BY <1>1, <1>2, ProposalKept, TurnKept, ProposalRaiseKept, ProposalMergeKept, ByHandKept DEF CondocProposalsNext

\* What the properties say.
LEMMA ProposalsSay == ProposalInv => CondocProposalsTypeOK /\ LandsTogether
<1> SUFFICES ASSUME ProposalInv PROVE CondocProposalsTypeOK /\ LandsTogether
  OBVIOUS
<1>1. CondocProposalsTypeOK
  <2>1. pointerOf.prs \in UNION {[1 .. n -> PRNumbers] : n \in 0 .. RepoCount}
    <3>1. pointerOf.prs \in Seq(PRNumbers) /\ Len(pointerOf.prs) <= RepoCount
      BY DEF ProposalInv, PointerFits, Pointers, PRLists
    <3>2. /\ pointerOf.prs \in [1 .. Len(pointerOf.prs) -> PRNumbers]
          /\ Len(pointerOf.prs) \in 0 .. RepoCount
      BY <3>1, LenProperties, CondocProposalsAssumption
    <3> QED BY <3>2
  <2>2. /\ pointerOf.phase \in Phases /\ pointerOf.stage \in {"none", "queued", "signalled"}
        /\ pointerOf.template \in Templates \cup {"none"}
    BY DEF ProposalInv, PointerFits, Pointers
  <2>3. /\ request.repo \in 1 .. RepoCount + 1
        /\ request.kind \in {"none", "check", "clone", "push", "accept", "propose", "await", "raise",
                              "link", "mirror", "ready", "merge", "delete"}
    BY DEF ProposalInv, RequestFits, ProposalRequests
  <2> QED BY <2>1, <2>2, <2>3 DEF ProposalInv, GitHubFits, Remotes, CondocProposalsTypeOK, Phases
<1>2. LandsTogether
  <2>1. DOMAIN mergedAll = 1 .. Len(mergedAll)
    BY DEF ProposalInv, MergedFits
  <2> QED BY <2>1 DEF ProposalInv, PointerFits, RequestFits, MergedFits, LandsTogether, Standing, AllMerged
<1> QED BY <1>1, <1>2

-----------------------------------------------------------------------------
(***************************************************************************)
(* The pointer repo.  Of the three parts of PointersDelivered the first is *)
(* about reports, the second needs that every commit of the pointer stands *)
(* before the file as it was saved, the third that nobody else ends turns. *)
(***************************************************************************)
Before(a, b) == a.n <= b.n /\ (a.n = b.n /\ ~a.turn => ~b.turn)

Clones == [state : {"missing", "ready", "rebasing"}, base : Nat, own : Seq(Commits),
           file : Files, saved : Files]
GitOps == [by : {"none", "write", "pull"}, tries : 0 .. MaxPushes,
           at : {"free", "commit", "push", "repull", "pull"}]
Reports == [push : BOOLEAN, pull : BOOLEAN, pulled : BOOLEAN]

PointerTyped ==
    /\ upstream \in Seq(Commits) /\ clone \in Clones /\ clone.base <= Len(upstream)
    /\ gitOp \in GitOps /\ reported \in Reports
    /\ turnBase \in Nat /\ troubles \in 0 .. MaxTroubles

\* What is not at GitHub yet was reported, unless something is at work on it.
Reported ==
    /\ gitOp.at # "free" => clone.state = "ready"
    /\ clone.state = "missing" => clone.own = << >>
    /\ gitOp.at \in {"free", "commit"} /\ reported.pulled /\ clone.own # << >>
          => reported.push \/ reported.pull

\* Who wrote what: the clone's own commits are its own, what it has not pulled
\* is others', and others say of no turn that it ended.
Authors ==
    /\ \A k \in 1 .. Len(clone.own) : ~clone.own[k].hand
    /\ \A i \in 1 .. Len(upstream) : i > clone.base => upstream[i].hand
    /\ \A i \in 1 .. Len(upstream) : upstream[i].hand => upstream[i].turn

\* The pointer's commits, in order, up to the file as it is.
InOrder ==
    /\ \A i, j \in 1 .. Len(upstream) :
          i < j /\ ~upstream[i].hand /\ ~upstream[j].hand => Before(upstream[i], upstream[j])
    /\ \A i \in 1 .. Len(upstream), k \in 1 .. Len(clone.own) :
          ~upstream[i].hand => Before(upstream[i], clone.own[k])
    /\ \A i, j \in 1 .. Len(clone.own) : i < j => Before(clone.own[i], clone.own[j])
    /\ \A i \in 1 .. Len(upstream) : ~upstream[i].hand => Before(upstream[i], clone.saved)
    /\ \A k \in 1 .. Len(clone.own) : Before(clone.own[k], clone.saved)
    /\ Before(clone.saved, clone.file)

\* After the base of a turn only that turn is ended.
TurnsEnd ==
    turnBase # Gone =>
      /\ \A i \in 1 .. Len(upstream) :
            i > turnBase /\ ~upstream[i].turn => upstream[i].n = clone.file.n
      /\ \A k \in 1 .. Len(clone.own) :
            clone.base + k > turnBase /\ ~clone.own[k].turn => clone.own[k].n = clone.file.n

PointerInv == PointerTyped /\ Reported /\ Authors /\ InOrder /\ TurnsEnd

\* Coming before goes on over a third.
LEMMA BeforeChains ==
  ASSUME NEW a, NEW b, NEW c, a.n \in Nat, b.n \in Nat, c.n \in Nat, Before(a, b), Before(b, c)
  PROVE  Before(a, c)
  BY DEF Before

\* What the type of a clone and of upstream says of each commit.
LEMMA CommitsNumbered ==
  ASSUME PointerTyped
  PROVE  /\ \A i \in 1 .. Len(upstream) : upstream[i] \in Commits /\ upstream[i].n \in Nat
         /\ \A k \in 1 .. Len(clone.own) : clone.own[k] \in Commits /\ clone.own[k].n \in Nat
         /\ clone.own \in Seq(Commits) /\ Len(clone.own) \in Nat /\ Len(upstream) \in Nat
         /\ clone.file \in Files /\ clone.saved \in Files /\ clone.base \in Nat
         /\ clone.file.n \in Nat /\ clone.saved.n \in Nat
<1>1. /\ upstream \in Seq(Commits) /\ clone.own \in Seq(Commits)
      /\ clone.file \in Files /\ clone.saved \in Files /\ clone.base \in Nat
  BY DEF PointerTyped, Clones
<1>2. /\ \A c \in Commits : c.n \in Nat
      /\ \A f \in Files : f.n \in Nat
  BY DEF Commits, Files
<1> QED BY <1>1, <1>2, ElementOfSeq, LenProperties

\* The history: what the clone has of the upstream, and its own after it.
LEMMA HistoryIs ==
  ASSUME PointerTyped
  PROVE  /\ HistoryOf \in Seq(Commits) /\ Len(HistoryOf) = clone.base + Len(clone.own)
         /\ \A i \in 1 .. Len(HistoryOf) :
               HistoryOf[i] = IF i <= clone.base THEN upstream[i] ELSE clone.own[i - clone.base]
<1>1. clone.base \in Nat /\ clone.base <= Len(upstream) /\ Len(upstream) \in Nat
  BY CommitsNumbered DEF PointerTyped
<1>2. \A i \in 1 .. clone.base : upstream[i] \in Commits
  BY <1>1, CommitsNumbered
<1>3. /\ SubSeq(upstream, 1, clone.base) \in Seq(Commits)
      /\ Len(SubSeq(upstream, 1, clone.base)) = clone.base
      /\ \A i \in 1 .. clone.base : SubSeq(upstream, 1, clone.base)[i] = upstream[i]
  <2>1. /\ SubSeq(upstream, 1, clone.base) \in Seq(Commits)
        /\ Len(SubSeq(upstream, 1, clone.base)) =
              IF 1 <= clone.base THEN clone.base - 1 + 1 ELSE 0
        /\ \A i \in 1 .. clone.base - 1 + 1 : SubSeq(upstream, 1, clone.base)[i] = upstream[1 + i - 1]
    BY <1>1, <1>2, SubSeqProperties
  <2> QED BY <1>1, <2>1
<1>4. clone.own \in Seq(Commits) /\ Len(clone.own) \in Nat
  BY CommitsNumbered
<1>5. /\ HistoryOf \in Seq(Commits)
      /\ Len(HistoryOf) = Len(SubSeq(upstream, 1, clone.base)) + Len(clone.own)
      /\ \A i \in 1 .. Len(SubSeq(upstream, 1, clone.base)) + Len(clone.own) :
            HistoryOf[i] = IF i <= Len(SubSeq(upstream, 1, clone.base))
                           THEN SubSeq(upstream, 1, clone.base)[i]
                           ELSE clone.own[i - Len(SubSeq(upstream, 1, clone.base))]
  BY <1>3, <1>4, ConcatProperties DEF HistoryOf
<1> QED BY <1>1, <1>3, <1>4, <1>5

\* The clone is missing or empty, and nothing was written.
LEMMA PointerStart == PointerRepoInit => PointerInv
<1> SUFFICES ASSUME PointerRepoInit PROVE PointerInv
  OBVIOUS
<1>1. NewPointer \in Files /\ NewPointer.n = 0 /\ ~NewPointer.turn
  BY PointerRepoAssumption DEF NewPointer, Files
<1>2. PICK state \in {"missing", "ready"} :
         clone = [state |-> state, base |-> 0, own |-> << >>, file |-> NewPointer, saved |-> NewPointer]
  BY DEF PointerRepoInit
<1>3. clone \in Clones /\ clone.own = << >> /\ clone.base = 0 /\ clone.file = clone.saved
  BY <1>1, <1>2 DEF Clones
<1>4. upstream = << >> /\ gitOp = NoOp /\ reported = Unreported /\ turnBase = 0 /\ troubles = 0
  BY DEF PointerRepoInit
<1>5. PointerTyped
  BY <1>3, <1>4, PointerRepoAssumption DEF PointerTyped, GitOps, NoOp, MaxPushes, Reports, Unreported
<1>6. Reported
  BY <1>3, <1>4 DEF Reported, NoOp
<1>7. Authors
  BY <1>3, <1>4 DEF Authors
<1>8. InOrder
  BY <1>1, <1>2, <1>3, <1>4 DEF InOrder, Before
<1>9. TurnsEnd
  BY <1>3, <1>4 DEF TurnsEnd
<1> QED BY <1>5, <1>6, <1>7, <1>8, <1>9 DEF PointerInv

\* What a write of the pointer file leaves, whatever its message.
LEMMA WritesKept ==
  ASSUME PointerInv, NEW file \in Files, NEW message \in BOOLEAN, WriteSpec(file, message),
         Before(clone.file, file), turnBase' \in Nat, TurnsEnd'
  PROVE  PointerInv'
<1>1. /\ clone' \in Clones /\ clone'.file = file /\ clone'.saved = clone.saved
      /\ clone'.own = clone.own /\ clone'.base = clone.base /\ clone'.state = clone.state
  BY DEF WriteSpec, PointerInv, PointerTyped, Clones
<1>2. gitOp' \in GitOps /\ gitOp'.at \in {"free", "commit"}
  <2>1. CASE gitOp' = gitOp
    BY <2>1 DEF WriteSpec, FreeOp, PointerInv, PointerTyped
  <2>2. CASE gitOp' = [NoOp EXCEPT !.by = "write", !.at = "commit"]
    <3>1. gitOp' = [by |-> "write", at |-> "commit", tries |-> 0]
      BY <2>2 DEF NoOp
    <3>2. 0 \in 0 .. MaxPushes
      BY DEF MaxPushes
    <3> QED BY <3>1, <3>2 DEF GitOps
  <2> QED BY <2>1, <2>2 DEF WriteSpec
<1>3. PointerTyped'
  BY <1>1, <1>2 DEF WriteSpec, PointerInv, PointerTyped
<1>4. Reported'
  BY <1>1, <1>2 DEF WriteSpec, FreeOp, PointerInv, Reported
<1>5. Authors'
  BY <1>1 DEF WriteSpec, PointerInv, Authors
<1>6. Before(clone.saved, file)
  <2>1. clone.saved.n \in Nat /\ clone.file.n \in Nat
    BY CommitsNumbered DEF PointerInv
  <2>2. file.n \in Nat
    BY DEF Files
  <2> QED BY <2>1, <2>2, BeforeChains DEF PointerInv, InOrder
<1>7. InOrder'
  BY <1>1, <1>6 DEF WriteSpec, PointerInv, InOrder
<1> QED BY <1>3, <1>4, <1>5, <1>7 DEF PointerInv

\* A turn begins, moves on and ends, and an error is written.
LEMMA TurnsKept ==
  ASSUME PointerInv, TurnBegins \/ TurnStaged \/ TurnCleared \/ ErrorWritten
  PROVE  PointerInv'
<1> USE CommitsNumbered DEF PointerInv
<1>1. CASE TurnBegins
  <2> DEFINE file == [n |-> clone.file.n + 1, turn |-> TRUE, stage |-> 0]
  <2>1. file \in Files /\ Before(clone.file, file)
    BY <1>1, PointerRepoAssumption DEF TurnBegins, Files, Before
  <2>2. turnBase' = clone.base + Len(clone.own) /\ turnBase' \in Nat
    BY <1>1, HistoryIs DEF TurnBegins
  <2>3. clone'.own = clone.own /\ clone'.base = clone.base /\ upstream' = upstream
    BY <1>1 DEF TurnBegins, WriteSpec, PointerTyped, Clones
  <2>4. TurnsEnd'
    <3>1. \A i \in 1 .. Len(upstream) : i > turnBase' => upstream[i].turn
      BY <2>2 DEF Authors
    <3> QED BY <2>2, <2>3, <3>1 DEF TurnsEnd
  <2> QED BY <1>1, <2>1, <2>2, <2>4, WritesKept DEF TurnBegins
<1>2. ASSUME NEW file \in Files, NEW message \in BOOLEAN, WriteSpec(file, message),
             Before(clone.file, file), file.n = clone.file.n, UNCHANGED turnBase
      PROVE  PointerInv'
  <2>1. clone'.own = clone.own /\ clone'.base = clone.base /\ upstream' = upstream
        /\ clone'.file.n = clone.file.n
    BY <1>2 DEF WriteSpec, PointerTyped, Clones
  <2>2. TurnsEnd'
    BY <1>2, <2>1 DEF TurnsEnd
  <2>3. turnBase' \in Nat
    BY <1>2 DEF PointerTyped
  <2> QED BY <1>2, <2>2, <2>3, WritesKept
<1>3. CASE TurnStaged
  <2>1. [clone.file EXCEPT !.stage = 1] \in Files /\ Before(clone.file, [clone.file EXCEPT !.stage = 1])
        /\ [clone.file EXCEPT !.stage = 1].n = clone.file.n
    <3>1. ASSUME NEW f \in Files
          PROVE  [f EXCEPT !.stage = 1] \in Files /\ [f EXCEPT !.stage = 1].n = f.n
                 /\ [f EXCEPT !.stage = 1].turn = f.turn
      BY DEF Files
    <3> QED BY <3>1 DEF Before
  <2> QED BY <1>2, <1>3, <2>1 DEF TurnStaged
<1>4. CASE TurnCleared
  <2>1. [clone.file EXCEPT !.turn = FALSE] \in Files /\ Before(clone.file, [clone.file EXCEPT !.turn = FALSE])
        /\ [clone.file EXCEPT !.turn = FALSE].n = clone.file.n
    <3>1. ASSUME NEW f \in Files
          PROVE  [f EXCEPT !.turn = FALSE] \in Files /\ [f EXCEPT !.turn = FALSE].n = f.n
                 /\ ~[f EXCEPT !.turn = FALSE].turn
      BY DEF Files
    <3> QED BY <3>1 DEF Before
  <2> QED BY <1>2, <1>4, <2>1 DEF TurnCleared
<1>5. CASE ErrorWritten
  <2>1. Before(clone.file, clone.file)
    BY DEF Before
  <2> QED BY <1>2, <1>5, <2>1 DEF ErrorWritten
<1> QED BY <1>1, <1>3, <1>4, <1>5

\* A step of git that leaves the commits where they are.
LEMMA CommitsStay ==
  ASSUME PointerInv, gitOp' \in GitOps, reported' \in Reports, Reported',
         clone' \in Clones, clone'.own = clone.own, clone'.base = clone.base,
         clone'.file = clone.file, clone'.saved = clone.saved,
         UNCHANGED <<upstream, turnBase>>, GitTrouble \/ UNCHANGED troubles
  PROVE  PointerInv'
<1>1. PointerTyped'
  BY PointerRepoAssumption DEF PointerInv, PointerTyped, GitTrouble
<1>2. Authors' /\ InOrder' /\ TurnsEnd'
  BY DEF PointerInv, Authors, InOrder, TurnsEnd
<1> QED BY <1>1, <1>2 DEF PointerInv

\* No operation of git is one.
LEMMA NoOpIsOne == NoOp \in GitOps /\ NoOp.at = "free"
  BY DEF NoOp, GitOps, MaxPushes

\* The clone is brought up to what the upstream is: no own commit, or a turn
\* base that the rebase did not reach.
LEMMA BasesMoved ==
  ASSUME PointerInv, gitOp' \in GitOps, reported' \in Reports, Reported',
         clone' \in Clones, clone'.own = clone.own, clone'.base = Len(upstream),
         clone'.file = clone.file, clone'.saved = clone.saved, UNCHANGED upstream,
         turnBase' \in Nat, GitTrouble \/ UNCHANGED troubles,
         turnBase' # Gone => /\ turnBase' = turnBase
                             /\ turnBase <= clone.base \/ clone.base = Len(upstream) \/ clone.own = << >>
  PROVE  PointerInv'
<1> USE CommitsNumbered DEF PointerInv
<1>1. PointerTyped'
  BY PointerRepoAssumption DEF PointerTyped, GitTrouble
<1>2. Authors' /\ InOrder'
  BY DEF Authors, InOrder
<1>3. TurnsEnd'
  <2> SUFFICES ASSUME turnBase' # Gone
               PROVE  /\ \A i \in 1 .. Len(upstream) :
                            i > turnBase /\ ~upstream[i].turn => upstream[i].n = clone.file.n
                      /\ \A k \in 1 .. Len(clone.own) :
                            Len(upstream) + k > turnBase /\ ~clone.own[k].turn
                               => clone.own[k].n = clone.file.n
    BY DEF TurnsEnd
  <2>1. turnBase' = turnBase /\ turnBase # Gone /\ turnBase \in Nat
    BY DEF PointerTyped
  <2>2. \A k \in 1 .. Len(clone.own) : Len(upstream) + k > turnBase => clone.base + k > turnBase
    <3>1. CASE turnBase <= clone.base
      BY <2>1, <3>1
    <3>2. CASE clone.base = Len(upstream)
      BY <3>2
    <3>3. CASE clone.own = << >>
      BY <3>3
    <3> QED BY <3>1, <3>2, <3>3
  <2> QED BY <2>1, <2>2 DEF TurnsEnd
<1> QED BY <1>1, <1>2, <1>3

\* The commit of the file: it stands after all that was committed before.
LEMMA CommitKept ==
  ASSUME PointerInv, CommitFile
  PROVE  PointerInv'
<1> USE CommitsNumbered DEF PointerInv
<1>1. gitOp.at = "commit" /\ gitOp \in GitOps /\ clone \in Clones /\ clone.state = "ready"
  BY DEF CommitFile, PointerTyped, Reported
<1>2. CASE GitTrouble /\ Ends /\ UNCHANGED clone
  <2>1. Reported'
    BY <1>1, <1>2, NoOpIsOne DEF CommitFile, Ends, Reported
  <2> QED BY <1>1, <1>2, <2>1, CommitsStay, NoOpIsOne DEF CommitFile, Ends, PointerTyped
<1>3. CASE gitOp' = [gitOp EXCEPT !.at = "push"] /\ UNCHANGED troubles /\ UNCHANGED clone
  <2>1. gitOp' \in GitOps /\ gitOp'.at = "push"
    BY <1>1, <1>3 DEF GitOps
  <2>2. Reported'
    BY <1>1, <1>3, <2>1 DEF CommitFile, Reported
  <2> QED BY <1>1, <1>3, <2>1, <2>2, CommitsStay DEF CommitFile, PointerTyped
<1>4. CASE /\ gitOp' = [gitOp EXCEPT !.at = "push"] /\ UNCHANGED troubles
           /\ clone' = [clone EXCEPT !.saved = clone.file,
                            !.own = Append(@, [ours |-> TRUE, n |-> clone.file.n,
                                               turn |-> clone.file.turn, hand |-> FALSE])]
  <2> DEFINE c == [ours |-> TRUE, n |-> clone.file.n, turn |-> clone.file.turn, hand |-> FALSE]
             m == Len(clone.own)
  <2>1. gitOp' \in GitOps /\ gitOp'.at = "push"
    BY <1>1, <1>4 DEF GitOps
  <2>2. c \in Commits /\ c.n = clone.file.n /\ c.turn = clone.file.turn /\ ~c.hand
    BY DEF Commits, Files
  <2> HIDE DEF c
  <2>3. /\ Append(clone.own, c) \in Seq(Commits) /\ Len(Append(clone.own, c)) = m + 1
        /\ \A k \in 1 .. m : Append(clone.own, c)[k] = clone.own[k]
        /\ Append(clone.own, c)[m + 1] = c
    BY <2>2, AppendProperties
  <2>4. clone' = [clone EXCEPT !.saved = clone.file, !.own = Append(clone.own, c)]
    BY <1>4 DEF c
  <2>5. /\ clone' \in Clones /\ clone'.saved = clone.file /\ clone'.file = clone.file
        /\ clone'.own = Append(clone.own, c) /\ clone'.base = clone.base /\ clone'.state = clone.state
    BY <1>1, <2>3, <2>4 DEF Clones
  <2>6. \A k \in 1 .. m + 1 : k \in 1 .. m \/ k = m + 1
    OBVIOUS
  <2>7. UNCHANGED <<upstream, reported, turnBase, troubles>>
    BY <1>4 DEF CommitFile
  <2>8. PointerTyped'
    BY <2>1, <2>5, <2>7 DEF PointerTyped
  <2>9. Reported'
    BY <1>1, <2>1, <2>5 DEF Reported
  <2>10. Authors'
    BY <2>2, <2>3, <2>5, <2>6, <2>7 DEF Authors
  <2>11. TurnsEnd'
    BY <2>2, <2>3, <2>5, <2>6, <2>7 DEF TurnsEnd
  <2>12. /\ \A i \in 1 .. Len(upstream) : ~upstream[i].hand => Before(upstream[i], clone.file)
         /\ \A k \in 1 .. m : Before(clone.own[k], clone.file)
    BY BeforeChains DEF InOrder
  <2>13. /\ \A a : Before(a, clone.file) <=> Before(a, c)
         /\ Before(c, clone.file) /\ Before(clone.file, clone.file)
    BY <2>2 DEF Before
  <2>14. InOrder'
    <3>1. \A i, j \in 1 .. m + 1 : i < j => Before(clone'.own[i], clone'.own[j])
      <4> SUFFICES ASSUME NEW i \in 1 .. m + 1, NEW j \in 1 .. m + 1, i < j
                   PROVE  Before(clone'.own[i], clone'.own[j])
        OBVIOUS
      <4>1. i \in 1 .. m /\ clone'.own[i] = clone.own[i]
        BY <2>3, <2>5
      <4>2. CASE j = m + 1
        BY <2>3, <2>5, <2>12, <2>13, <4>1, <4>2
      <4>3. CASE j \in 1 .. m
        BY <2>3, <2>5, <4>1, <4>3 DEF InOrder
      <4> QED BY <2>6, <4>2, <4>3
    <3>2. \A i \in 1 .. Len(upstream), k \in 1 .. m + 1 :
             ~upstream[i].hand => Before(upstream[i], clone'.own[k])
      BY <2>3, <2>5, <2>6, <2>12, <2>13 DEF InOrder
    <3>3. \A k \in 1 .. m + 1 : Before(clone'.own[k], clone.file)
      BY <2>3, <2>5, <2>6, <2>12, <2>13
    <3> QED BY <2>3, <2>5, <2>7, <2>12, <2>13, <3>1, <3>2, <3>3 DEF InOrder
  <2> QED BY <2>8, <2>9, <2>10, <2>11, <2>14
<1> QED BY <1>2, <1>3, <1>4 DEF CommitFile, Untroubled

\* The push that comes through: the own commits are the upstream's last.
LEMMA PushKept ==
  ASSUME PointerInv, Push
  PROVE  PointerInv'
<1> USE CommitsNumbered DEF PointerInv
<1>1. gitOp.at = "push" /\ gitOp \in GitOps /\ clone \in Clones /\ clone.state = "ready" /\ reported \in Reports
  BY DEF Push, PointerTyped, Reported
<1>2. CASE gitOp' = [gitOp EXCEPT !.at = "repull"] /\ UNCHANGED <<upstream, clone, reported>>
           /\ (GitTrouble \/ UNCHANGED troubles)
  <2>1. gitOp' \in GitOps /\ gitOp'.at = "repull"
    BY <1>1, <1>2 DEF GitOps
  <2>2. Reported'
    BY <1>1, <1>2, <2>1 DEF Reported
  <2> QED BY <1>1, <1>2, <2>1, <2>2, CommitsStay DEF Push
<1>3. CASE /\ clone.base = Len(upstream) /\ upstream' = upstream \o clone.own
           /\ clone' = [clone EXCEPT !.own = << >>, !.base = Len(upstream')]
           /\ reported' = IF gitOp.by = "pull" THEN [Unreported EXCEPT !.pulled = TRUE]
                          ELSE [reported EXCEPT !.push = FALSE]
           /\ Ends /\ UNCHANGED troubles
  <2> DEFINE n == Len(upstream)
             m == Len(clone.own)
  <2>1. /\ upstream' \in Seq(Commits) /\ Len(upstream') = n + m
        /\ \A i \in 1 .. n + m : upstream'[i] = IF i <= n THEN upstream[i] ELSE clone.own[i - n]
    <3>1. upstream \in Seq(Commits) /\ clone.own \in Seq(Commits)
      BY DEF PointerTyped
    <3> QED BY <1>3, <3>1, ConcatProperties, SMTT(30)
  <2>2. \A i \in 1 .. n + m : \/ i \in 1 .. n /\ upstream'[i] = upstream[i]
                              \/ i - n \in 1 .. m /\ i > n /\ upstream'[i] = clone.own[i - n]
    <3>1. n \in Nat /\ m \in Nat
      <4>1. upstream \in Seq(Commits) /\ clone.own \in Seq(Commits)
        BY DEF PointerTyped, Clones
      <4> QED BY <4>1, LenProperties
    <3> HIDE DEF n, m
    <3>2. SUFFICES ASSUME NEW i \in 1 .. n + m
                   PROVE  \/ i \in 1 .. n /\ upstream'[i] = upstream[i]
                          \/ i - n \in 1 .. m /\ i > n /\ upstream'[i] = clone.own[i - n]
      OBVIOUS
    <3>3. CASE i <= n
      BY <2>1, <3>1, <3>3
    <3>4. CASE i > n
      BY <2>1, <3>1, <3>4
    <3> QED BY <3>1, <3>3, <3>4
  <2>3. Len(upstream') \in Nat /\ << >> \in Seq(Commits)
    BY <2>1
  <2>4. /\ clone' \in Clones /\ clone'.own = << >> /\ clone'.base = n + m
        /\ clone'.file = clone.file /\ clone'.saved = clone.saved /\ clone'.state = clone.state
    BY <1>1, <1>3, <2>1, <2>3 DEF Clones
  <2>5. reported' \in Reports
    BY <1>1, <1>3 DEF Reports, Unreported
  <2>6. PointerTyped'
    BY <1>3, <2>1, <2>4, <2>5, NoOpIsOne DEF Push, Ends, PointerTyped
  <2>7. Reported'
    BY <1>1, <1>3, <2>4, NoOpIsOne DEF Ends, Reported
  <2>8. Authors'
    BY <1>3, <2>1, <2>2, <2>4 DEF Authors
  <2>9. TurnsEnd'
    <3>1. \A i \in 1 .. n + m : turnBase # Gone /\ i > turnBase /\ ~upstream'[i].turn
                                  => upstream'[i].n = clone.file.n
      <4> SUFFICES ASSUME NEW i \in 1 .. n + m, turnBase # Gone, i > turnBase, ~upstream'[i].turn
                   PROVE  upstream'[i].n = clone.file.n
        OBVIOUS
      <4>1. CASE i \in 1 .. n /\ upstream'[i] = upstream[i]
        BY <4>1 DEF TurnsEnd
      <4>2. CASE i - n \in 1 .. m /\ upstream'[i] = clone.own[i - n]
        <5>1. clone.base + (i - n) > turnBase
          BY <1>3, <4>2 DEF PointerTyped
        <5> QED BY <4>2, <5>1 DEF TurnsEnd
      <4> QED BY <2>2, <4>1, <4>2
    <3> QED BY <2>1, <2>4, <3>1 DEF Push, TurnsEnd
  <2>10. InOrder'
    <3>1. \A i, j \in 1 .. n + m : i < j /\ ~upstream'[i].hand /\ ~upstream'[j].hand
                                     => Before(upstream'[i], upstream'[j])
      <4> SUFFICES ASSUME NEW i \in 1 .. n + m, NEW j \in 1 .. n + m, i < j,
                          ~upstream'[i].hand, ~upstream'[j].hand
                   PROVE  Before(upstream'[i], upstream'[j])
        OBVIOUS
      <4>1. CASE j \in 1 .. n
        <5>1. i \in 1 .. n /\ upstream'[i] = upstream[i] /\ upstream'[j] = upstream[j]
          BY <2>1, <4>1
        <5> QED BY <4>1, <5>1 DEF InOrder
      <4>2. CASE i \in 1 .. n /\ j > n
        <5>1. upstream'[i] = upstream[i] /\ j - n \in 1 .. m /\ upstream'[j] = clone.own[j - n]
          <6>1. n \in Nat /\ m \in Nat /\ i <= n /\ ~(j <= n) /\ j - n \in 1 .. m
            BY <4>2
          <6> QED BY <2>1, <6>1
        <5> QED BY <4>2, <5>1 DEF InOrder
      <4>3. CASE i > n
        <5>1. /\ i - n \in 1 .. m /\ upstream'[i] = clone.own[i - n]
              /\ j - n \in 1 .. m /\ upstream'[j] = clone.own[j - n] /\ i - n < j - n
          BY <2>1, <4>3
        <5> QED BY <5>1 DEF InOrder
      <4> QED BY <4>1, <4>2, <4>3
    <3>2. \A i \in 1 .. n + m : ~upstream'[i].hand => Before(upstream'[i], clone.saved)
      BY <2>2 DEF InOrder
    <3> QED BY <2>1, <2>4, <3>1, <3>2 DEF InOrder
  <2> QED BY <2>6, <2>7, <2>8, <2>9, <2>10
<1> QED BY <1>2, <1>3 DEF Push, Untroubled

\* The rebase of a pull, of either kind.
LEMMA RebaseMoves ==
  ASSUME PointerInv, Rebased, UNCHANGED upstream
  PROVE  /\ clone' \in Clones /\ clone'.own = clone.own /\ clone'.base = Len(upstream)
         /\ clone'.file = clone.file /\ clone'.saved = clone.saved /\ clone'.state = clone.state
         /\ turnBase' \in Nat
         /\ turnBase' # Gone => /\ turnBase' = turnBase
                                /\ turnBase <= clone.base \/ clone.base = Len(upstream)
<1> USE CommitsNumbered DEF PointerInv
<1>1. /\ clone' \in Clones /\ clone'.own = clone.own /\ clone'.base = Len(upstream)
      /\ clone'.file = clone.file /\ clone'.saved = clone.saved /\ clone'.state = clone.state
  BY DEF Rebased, PointerTyped, Clones
<1>2. Incoming = << >> => clone.base = Len(upstream)
  <2>1. \A i \in clone.base + 1 .. Len(upstream) : upstream[i] \in Commits
    OBVIOUS
  <2>2. Len(Incoming) = IF clone.base + 1 <= Len(upstream) THEN Len(upstream) - (clone.base + 1) + 1 ELSE 0
    BY <2>1, SubSeqProperties DEF Incoming
  <2> QED BY <2>2 DEF PointerTyped
<1> QED BY <1>1, <1>2 DEF Rebased, Gone, PointerTyped

\* A pull begins, is retried after a push, and ends, with a rebase or a
\* conflict.
LEMMA PullsKept ==
  ASSUME PointerInv, PullAndRetry \/ PullStarts \/ Pulls
  PROVE  PointerInv'
<1> USE DEF PointerInv, Untroubled
<1>1. gitOp \in GitOps /\ clone \in Clones /\ reported \in Reports
  BY DEF PointerTyped
<1>2. CASE PullStarts
  <2>1. gitOp' \in GitOps /\ gitOp'.at = "pull"
    BY <1>2, NoOpIsOne DEF PullStarts, NoOp, GitOps
  <2>2. Reported'
    BY <1>2, <2>1 DEF PullStarts, Reported
  <2> QED BY <1>1, <1>2, <2>1, <2>2, CommitsStay DEF PullStarts
<1>3. ASSUME StopsRebasing \/ (GitTrouble /\ UNCHANGED <<clone, turnBase>>), Ends, UNCHANGED upstream,
             gitOp.at # "free", reported' \in Reports, reported'.push \/ reported'.pull
      PROVE  PointerInv'
  <2>1. /\ clone' \in Clones /\ clone'.own = clone.own /\ clone'.base = clone.base
        /\ clone'.file = clone.file /\ clone'.saved = clone.saved
        /\ clone'.state \in {"ready", "rebasing"}
    BY <1>1, <1>3 DEF StopsRebasing, Clones, Reported
  <2>2. Reported'
    BY <1>3, <2>1, NoOpIsOne DEF Ends, Reported
  <2> QED BY <1>3, <2>1, <2>2, CommitsStay, NoOpIsOne DEF StopsRebasing, Ends
<1>4. CASE PullAndRetry
  <2>1. PushFailed => reported' \in Reports /\ reported'.push
    <3>1. (reported.pull /\ gitOp.by # "pull") \in BOOLEAN /\ (reported.pulled \/ gitOp.by = "pull") \in BOOLEAN
      OBVIOUS
    <3> QED BY <1>1, <3>1 DEF PushFailed, Reports
  <2>2. CASE ~Conflicts /\ Rebased /\ UNCHANGED troubles
             /\ IF gitOp.tries + 1 < MaxPushes
                THEN /\ gitOp' = [gitOp EXCEPT !.at = "push", !.tries = @ + 1]
                     /\ UNCHANGED reported
                ELSE Ends /\ PushFailed
    <3>1. gitOp' \in GitOps /\ reported' \in Reports
          /\ (gitOp'.at = "push" \/ (gitOp'.at = "free" /\ reported'.push))
      <4>1. CASE gitOp.tries + 1 < MaxPushes
        <5>1. gitOp.tries + 1 \in 0 .. MaxPushes
          BY <1>1, <4>1 DEF GitOps, MaxPushes
        <5>2. gitOp' = [gitOp EXCEPT !.at = "push", !.tries = gitOp.tries + 1] /\ reported' = reported
          BY <2>2, <4>1
        <5> QED BY <1>1, <5>1, <5>2 DEF GitOps
      <4>2. CASE ~(gitOp.tries + 1 < MaxPushes)
        BY <2>1, <2>2, <4>2, NoOpIsOne DEF Ends
      <4> QED BY <4>1, <4>2
    <3>2. Reported'
      BY <1>4, <2>2, <3>1, RebaseMoves DEF PullAndRetry, Reported
    <3> QED BY <1>4, <2>2, <3>1, <3>2, RebaseMoves, BasesMoved DEF PullAndRetry
  <2>3. CASE (StopsRebasing \/ (GitTrouble /\ UNCHANGED <<clone, turnBase>>)) /\ Ends /\ PushFailed
    BY <1>3, <1>4, <2>1, <2>3 DEF PullAndRetry
  <2> QED BY <1>4, <2>2, <2>3 DEF PullAndRetry
<1>5. CASE Pulls
  <2>1. CASE ~Conflicts /\ Rebased /\ UNCHANGED troubles /\ clone.own # << >>
             /\ gitOp' = [gitOp EXCEPT !.at = "push"] /\ UNCHANGED reported
    <3>1. gitOp' \in GitOps /\ gitOp'.at = "push"
      BY <1>1, <2>1 DEF GitOps
    <3>2. Reported'
      BY <1>5, <2>1, <3>1, RebaseMoves DEF Pulls, Reported
    <3> QED BY <1>1, <1>5, <2>1, <3>1, <3>2, RebaseMoves, BasesMoved DEF Pulls
  <2>2. CASE ~Conflicts /\ Rebased /\ UNCHANGED troubles /\ clone.own = << >>
             /\ Ends /\ reported' = [reported EXCEPT !.pull = FALSE, !.pulled = TRUE]
    <3>1. reported' \in Reports /\ clone'.own = << >> /\ clone'.state = "ready"
      BY <1>1, <1>5, <2>2, RebaseMoves DEF Pulls, Reports, Reported
    <3>2. Reported'
      BY <2>2, <3>1, NoOpIsOne DEF Ends, Reported
    <3> QED BY <1>5, <2>2, <3>1, <3>2, NoOpIsOne, RebaseMoves, BasesMoved DEF Pulls, Ends
  <2>3. CASE (StopsRebasing \/ (GitTrouble /\ UNCHANGED <<clone, turnBase>>)) /\ Ends
             /\ reported' = [reported EXCEPT !.pull = TRUE]
    <3>1. reported' \in Reports /\ reported'.pull
      BY <1>1, <2>3 DEF Reports
    <3> QED BY <1>3, <1>5, <2>3, <3>1 DEF Pulls
  <2> QED BY <1>5, <2>1, <2>2, <2>3 DEF Pulls
<1> QED BY <1>2, <1>4, <1>5

\* Others push, and what is done by hand.
LEMMA OthersKept ==
  ASSUME PointerInv, OthersPush \/ HandEndsRebase \/ ClonePointer \/ CondoccerRestarts
  PROVE  PointerInv'
<1> USE CommitsNumbered DEF PointerInv, Untroubled
<1>1. gitOp \in GitOps /\ clone \in Clones /\ reported \in Reports
  BY DEF PointerTyped
<1>2. CASE OthersPush
  <2>1. PICK ours \in BOOLEAN :
           upstream' = Append(upstream, [ours |-> ours, n |-> 0, turn |-> TRUE, hand |-> TRUE])
    BY <1>2 DEF OthersPush
  <2> DEFINE c == [ours |-> ours, n |-> 0, turn |-> TRUE, hand |-> TRUE]
             n == Len(upstream)
  <2>2. c \in Commits /\ c.turn /\ c.hand
    BY PointerRepoAssumption DEF Commits
  <2>3. upstream' = Append(upstream, c)
    BY <2>1
  <2> HIDE DEF c
  <2>4. /\ upstream' \in Seq(Commits) /\ Len(upstream') = n + 1
        /\ \A i \in 1 .. n : upstream'[i] = upstream[i]
        /\ upstream'[n + 1] = c
    BY <2>2, <2>3, AppendProperties DEF PointerTyped
  <2>5. \A i \in 1 .. n + 1 : i \in 1 .. n \/ (upstream'[i].hand /\ upstream'[i].turn)
    BY <2>2, <2>4
  <2>6. PointerTyped'
    BY <1>2, <2>4 DEF OthersPush, PointerTyped
  <2>7. Reported'
    BY <1>2 DEF OthersPush, Reported
  <2>8. Authors'
    BY <1>2, <2>4, <2>5 DEF OthersPush, Authors
  <2>9. InOrder'
    BY <1>2, <2>4, <2>5 DEF OthersPush, InOrder
  <2>10. TurnsEnd'
    BY <1>2, <2>4, <2>5 DEF OthersPush, TurnsEnd
  <2> QED BY <2>6, <2>7, <2>8, <2>9, <2>10
<1>3. CASE HandEndsRebase
  <2>1. /\ clone' \in Clones /\ clone'.own = clone.own /\ clone'.base = Len(upstream)
        /\ clone'.file = clone.file /\ clone'.saved = clone.saved /\ clone'.state = "ready"
    BY <1>1, <1>3 DEF HandEndsRebase, Clones
  <2>2. Reported'
    BY <1>3, <2>1 DEF HandEndsRebase, FreeOp, Reported
  <2>3. turnBase' \in Nat /\ (turnBase' # Gone => turnBase' = turnBase /\ turnBase <= clone.base)
    BY <1>3 DEF HandEndsRebase, Gone, PointerTyped
  <2> QED BY <1>1, <1>3, <2>1, <2>2, <2>3, BasesMoved DEF HandEndsRebase
<1>4. CASE ClonePointer
  <2>1. CASE GitTrouble /\ UNCHANGED <<clone, reported>>
    <3>1. Reported'
      BY <1>4, <2>1 DEF ClonePointer, Reported
    <3> QED BY <1>1, <1>4, <2>1, <3>1, CommitsStay DEF ClonePointer
  <2>2. CASE /\ clone' = [clone EXCEPT !.state = "ready", !.base = Len(upstream)]
             /\ reported' = [reported EXCEPT !.pull = FALSE, !.pulled = TRUE]
             /\ UNCHANGED troubles
    <3>1. /\ clone' \in Clones /\ clone'.own = << >> /\ clone.own = << >> /\ clone'.base = Len(upstream)
          /\ clone'.file = clone.file /\ clone'.saved = clone.saved /\ clone'.state = "ready"
      BY <1>1, <1>4, <2>2 DEF ClonePointer, Clones, Reported
    <3>2. reported' \in Reports
      BY <1>1, <2>2 DEF Reports
    <3>3. Reported'
      BY <3>1 DEF Reported
    <3>4. turnBase' \in Nat /\ turnBase' = turnBase
      BY <1>4 DEF ClonePointer, PointerTyped
    <3> QED BY <1>1, <1>4, <2>2, <3>1, <3>2, <3>3, <3>4, BasesMoved DEF ClonePointer
  <2> QED BY <1>4, <2>1, <2>2 DEF ClonePointer
<1>5. CASE CondoccerRestarts
  <2>1. /\ clone' \in Clones /\ clone'.own = clone.own /\ clone'.base = clone.base
        /\ clone'.file = clone.file /\ clone'.saved = clone.saved
        /\ (clone'.state = "missing" => clone.state = "missing")
    BY <1>1, <1>5 DEF CondoccerRestarts, Clones
  <2>2. reported' \in Reports /\ ~reported'.pulled
    BY <1>5 DEF CondoccerRestarts, Unreported, Reports
  <2>3. Reported'
    BY <1>5, <2>1, <2>2, NoOpIsOne DEF CondoccerRestarts, Ends, Reported
  <2> QED BY <1>5, <2>1, <2>2, <2>3, CommitsStay, NoOpIsOne DEF CondoccerRestarts, Ends
<1> QED BY <1>2, <1>3, <1>4, <1>5

\* Every step of the pointer repository keeps the invariant.
LEMMA PointerKept ==
  ASSUME PointerInv, [PointerRepoNext]_pointerVars
  PROVE  PointerInv'
<1>1. CASE UNCHANGED pointerVars
  BY <1>1 DEF pointerVars, PointerInv, PointerTyped, Reported, Authors, InOrder, TurnsEnd
<1> QED BY <1>1, TurnsKept, CommitKept, PushKept, PullsKept, OthersKept DEF PointerRepoNext

\* What the properties say.
LEMMA PointerSays == PointerInv => PointerRepoTypeOK /\ PointersDelivered
<1> SUFFICES ASSUME PointerInv PROVE PointerRepoTypeOK /\ PointersDelivered
  OBVIOUS
<1> USE CommitsNumbered DEF PointerInv
<1>1. PointerRepoTypeOK
  BY DEF PointerTyped, Clones, GitOps, Reports, PointerRepoTypeOK
<1> DEFINE history == upstream \o clone.own
           written == {i \in DOMAIN history : ~history[i].hand}
           head == ResolveHead(turnBase)
<1>2. FreeOp /\ reported.pulled /\ clone.state = "ready" /\ clone.own # << >>
         => reported.push \/ reported.pull
  BY DEF Reported, FreeOp
<1>3. \A i, j \in written :
         i < j => /\ history[i].n <= history[j].n
                  /\ history[i].n = history[j].n /\ ~history[i].turn => ~history[j].turn
  <2> DEFINE n == Len(upstream)
             m == Len(clone.own)
  <2>1. /\ history \in Seq(Commits) /\ Len(history) = n + m /\ DOMAIN history = 1 .. n + m
        /\ \A i \in 1 .. n + m : history[i] = IF i <= n THEN upstream[i] ELSE clone.own[i - n]
    <3>1. /\ history \in Seq(Commits) /\ Len(history) = n + m
          /\ \A i \in 1 .. n + m : history[i] = IF i <= n THEN upstream[i] ELSE clone.own[i - n]
      BY ConcatProperties DEF PointerTyped
    <3> QED BY <3>1, LenProperties
  <2> HIDE DEF history
  <2> SUFFICES ASSUME NEW i \in 1 .. n + m, NEW j \in 1 .. n + m, i < j,
                      ~history[i].hand, ~history[j].hand
               PROVE  Before(history[i], history[j])
    BY <2>1 DEF Before
  <2>2. CASE j \in 1 .. n
    <3>1. i \in 1 .. n /\ history[i] = upstream[i] /\ history[j] = upstream[j]
      <4>1. n \in Nat /\ m \in Nat /\ i <= n /\ j <= n /\ i \in 1 .. n
        BY <2>2
      <4> QED BY <2>1, <4>1
    <3> QED BY <2>2, <3>1 DEF InOrder
  <2>3. CASE i \in 1 .. n /\ j > n
    <3>1. n \in Nat /\ m \in Nat /\ i <= n /\ ~(j <= n) /\ j - n \in 1 .. m
      BY <2>3
    <3>2. history[i] = upstream[i] /\ history[j] = clone.own[j - n]
      BY <2>1, <3>1
    <3> QED BY <2>3, <3>1, <3>2 DEF InOrder
  <2>4. CASE i > n
    <3>1. n \in Nat /\ m \in Nat /\ ~(i <= n) /\ ~(j <= n) /\ i - n \in 1 .. m /\ j - n \in 1 .. m
          /\ i - n < j - n
      BY <2>4
    <3>2. history[i] = clone.own[i - n] /\ history[j] = clone.own[j - n]
      BY <2>1, <3>1
    <3> QED BY <3>1, <3>2 DEF InOrder
  <2> QED BY <2>2, <2>3, <2>4
<1>4. head # 0 => HistoryOf[head].n = clone.file.n
  <2> DEFINE heads == {i \in DOMAIN HistoryOf : /\ i > turnBase /\ HistoryOf[i].ours
                                                /\ ~HistoryOf[i].turn}
  <2> SUFFICES ASSUME head # 0 PROVE HistoryOf[head].n = clone.file.n
    OBVIOUS
  <2>1. /\ DOMAIN HistoryOf = 1 .. Len(HistoryOf)
        /\ Len(HistoryOf) = clone.base + Len(clone.own)
        /\ \A i \in 1 .. Len(HistoryOf) :
              HistoryOf[i] = IF i <= clone.base THEN upstream[i] ELSE clone.own[i - clone.base]
    BY HistoryIs, LenProperties
  <2>2. turnBase # Gone /\ heads # {} /\ head = CHOOSE i \in heads : \A j \in heads : i <= j
    BY DEF ResolveHead
  <2>3. heads \in SUBSET Nat
    BY <2>1
  <2>4. \E i \in heads : \A j \in heads : i <= j
    BY <2>2, <2>3, LeastOf
  <2>5. head \in heads
    BY <2>2, <2>4
  <2> HIDE DEF head
  <2>6. head \in 1 .. clone.base + Len(clone.own) /\ head > turnBase /\ ~HistoryOf[head].turn
    BY <2>1, <2>5
  <2>7. CASE head <= clone.base
    <3>1. head \in 1 .. Len(upstream) /\ HistoryOf[head] = upstream[head]
      BY <2>1, <2>6, <2>7 DEF PointerTyped
    <3> QED BY <2>2, <2>6, <3>1 DEF TurnsEnd
  <2>8. CASE ~(head <= clone.base)
    <3>1. head - clone.base \in 1 .. Len(clone.own)
          /\ clone.base + (head - clone.base) = head
      BY <2>6, <2>8
    <3>2. HistoryOf[head] = clone.own[head - clone.base]
      BY <2>1, <2>6, <2>8
    <3> QED BY <2>2, <2>6, <3>1, <3>2 DEF TurnsEnd
  <2> QED BY <2>7, <2>8
<1> QED BY <1>1, <1>2, <1>3, <1>4 DEF PointersDelivered

-----------------------------------------------------------------------------
(***************************************************************************)
(* A work signal as files: what every step writes is a file.               *)
(***************************************************************************)
LEMMA FilesAreFiles ==
  /\ NoFile \in File /\ NewFile \in File
  /\ \A file \in File :
        /\ \A status \in {"pending", "processing", "completed", "failed"} :
              [file EXCEPT !.status = status] \in File
        /\ \A has \in {"absent", "nothing", "header", "all"} : [file EXCEPT !.has = has] \in File
        /\ [file EXCEPT !.output = TRUE] \in File
  BY DEF File, NoFile, NewFile

\* Signals start as files.
LEMMA SignalStart == SignalFilesInit => SignalFilesTypeOK
  BY FilesAreFiles, SignalFilesAssumption DEF SignalFilesInit, SignalFilesTypeOK, Completing

\* What Complete reads and writes are files.
LEMMA CompletesFiles ==
  ASSUME ongoing \in File, complete \in File, NEW pc, NEW file \in File, Completes(pc, file),
         NEW ended
  PROVE  ongoing' \in File /\ complete' \in File /\ After(pc, ended) \in Completing \cup {ended}
  BY FilesAreFiles DEF Completes, After, Completing

\* Every step of a signal writes files.
LEMMA SignalKept ==
  ASSUME SignalFilesTypeOK, [SignalFilesNext]_signalFileVars
  PROVE  SignalFilesTypeOK'
<1> USE FilesAreFiles
<1> DEFINE Pcs == {"idle", "found", "taking", "rewriting", "taken", "running", "ran"} \cup Completing
           Forcings == {"none", "failed", "done"} \cup Completing
<1>1. /\ workerAt \in [pc : Pcs, file : File] /\ forcing \in [pc : Forcings, file : File]
      /\ ongoing \in File /\ complete \in File
      /\ spent \in [forces : 0 .. MaxForces, stops : 0 .. MaxStops]
  BY DEF SignalFilesTypeOK
<1>2. \A pc \in Pcs, file \in File : WorkerTo(pc, file) => workerAt' \in [pc : Pcs, file : File]
  BY DEF WorkerTo
<1>3. CASE CreateOpens \/ CreateWrites \/ Poll \/ SignalResubmit \/ PollVanished
  BY <1>3 DEF CreateOpens, CreateWrites, Poll, SignalResubmit, PollVanished, SignalFilesTypeOK
<1>4. CASE abandonTurn
  <2>1. spent' \in [forces : 0 .. MaxForces, stops : 0 .. MaxStops]
    <3>1. spent' = [spent EXCEPT !.forces = @ + 1] /\ spent.forces < MaxForces
      BY <1>4 DEF abandonTurn
    <3>2. spent.forces \in 0 .. MaxForces
      BY <1>1
    <3>3. spent.forces + 1 \in 0 .. MaxForces
      BY <3>1, <3>2, SignalFilesAssumption
    <3> QED BY <1>1, <3>1, <3>3
  <2>2. forcing' \in [pc : Forcings, file : File]
    BY <1>1, <1>4 DEF abandonTurn, Completing
  <2> QED BY <1>4, <2>1, <2>2 DEF abandonTurn, SignalFilesTypeOK
<1>5. CASE ForceCompletes
  <2>1. ongoing' \in File /\ complete' \in File /\ After(forcing.pc, "done") \in Forcings
    BY <1>1, <1>5, CompletesFiles DEF ForceCompletes
  <2>2. forcing' \in [pc : Forcings, file : File]
    BY <1>1, <1>5, <2>1 DEF ForceCompletes
  <2> QED BY <1>5, <2>1, <2>2 DEF ForceCompletes, SignalFilesTypeOK
<1>6. CASE FindPendingForAgentType \/ TakeReads \/ TakeOpens \/ TakeWrites \/ ReadSignal
           \/ RecordOutput \/ CompleteReads
  <2>1. workerAt' \in [pc : Pcs, file : File]
    BY <1>1, <1>2, <1>6 DEF FindPendingForAgentType, TakeReads, TakeOpens, TakeWrites, ReadSignal,
       RecordOutput, CompleteReads, Completing
  <2>2. ongoing' \in File /\ complete' \in File
    BY <1>1, <1>6 DEF FindPendingForAgentType, TakeReads, TakeOpens, TakeWrites, ReadSignal,
       RecordOutput, CompleteReads
  <2>3. Quiet
    BY <1>6 DEF FindPendingForAgentType, TakeReads, TakeOpens, TakeWrites, ReadSignal,
       RecordOutput, CompleteReads
  <2> QED BY <2>1, <2>2, <2>3 DEF Quiet, SignalFilesTypeOK
<1>7. CASE WorkerFinishes
  <2>1. ongoing' \in File /\ complete' \in File /\ After(workerAt.pc, "idle") \in Pcs
    BY <1>1, <1>7, CompletesFiles DEF WorkerFinishes
  <2>2. workerAt' \in [pc : Pcs, file : File]
    BY <1>1, <1>2, <1>7, <2>1 DEF WorkerFinishes
  <2> QED BY <1>7, <2>1, <2>2 DEF WorkerFinishes, Quiet, SignalFilesTypeOK
<1>8. CASE WorkerEnds
  <2>1. spent' \in [forces : 0 .. MaxForces, stops : 0 .. MaxStops]
    <3>1. spent' = [spent EXCEPT !.stops = @ + 1] /\ spent.stops < MaxStops
      BY <1>8 DEF WorkerEnds
    <3>2. spent.stops \in 0 .. MaxStops
      BY <1>1
    <3>3. spent.stops + 1 \in 0 .. MaxStops
      BY <3>1, <3>2, SignalFilesAssumption
    <3> QED BY <1>1, <3>1, <3>3
  <2>2. workerAt' \in [pc : Pcs, file : File]
    BY <1>2, <1>8 DEF WorkerEnds
  <2>3. dead' \in {"no", "holding", "rewriting"}
    BY <1>8 DEF WorkerEnds, SignalFilesTypeOK
  <2> QED BY <1>8, <2>1, <2>2, <2>3 DEF WorkerEnds, SignalFilesTypeOK
<1>9. CASE UNCHANGED signalFileVars
  BY <1>9 DEF signalFileVars, SignalFilesTypeOK
<1> QED BY <1>3, <1>4, <1>5, <1>6, <1>7, <1>8, <1>9 DEF SignalFilesNext

-----------------------------------------------------------------------------
(***************************************************************************)
(* The services together.  One of them moves and the others stay as they   *)
(* started, so what each keeps they keep together.                         *)
(***************************************************************************)
CondocInv ==
    /\ InteractionsInv /\ SignalFilesTypeOK /\ ProposalInv /\ PointerInv
    /\ FcLinkTypeOK /\ FcInv

\* Each service starts as its invariant says.
LEMMA CondocStart == CondocInit => CondocInv
  BY InteractionsStart, SignalStart, ProposalsStart, PointerStart, FcLinkStart
     DEF CondocInit, CondocInv

\* A service that stays as it is keeps its invariant.
LEMMA CondocStays ==
  ASSUME CondocInv
  PROVE  /\ UNCHANGED v2Vars => InteractionsInv'
         /\ UNCHANGED signalFileVars => SignalFilesTypeOK'
         /\ UNCHANGED proposalVars => ProposalInv'
         /\ UNCHANGED pointerVars => PointerInv'
         /\ UNCHANGED linkVars => FcLinkTypeOK' /\ FcInv'
  BY InteractionsKept, SignalKept, ProposalsKept, PointerKept, FcLinkKept DEF CondocInv

\* So does every step of any of them.
LEMMA CondocKept ==
  ASSUME CondocInv, [CondocNext]_condocVars
  PROVE  CondocInv'
<1>1. CASE UNCHANGED condocVars
  BY <1>1, CondocStays DEF condocVars, CondocInv
<1>2. CASE /\ InteractionsNext
           /\ UNCHANGED <<signalFileVars, proposalVars, pointerVars, linkVars>>
  BY <1>2, CondocStays, InteractionsKept DEF CondocInv
<1>3. CASE SignalFilesNext /\ UNCHANGED <<v2Vars, proposalVars, pointerVars, linkVars>>
  BY <1>3, CondocStays, SignalKept DEF CondocInv
<1>4. CASE /\ CondocProposalsNext
           /\ UNCHANGED <<v2Vars, signalFileVars, pointerVars, linkVars>>
  BY <1>4, CondocStays, ProposalsKept DEF CondocInv
<1>5. CASE PointerRepoNext /\ UNCHANGED <<v2Vars, signalFileVars, proposalVars, linkVars>>
  BY <1>5, CondocStays, PointerKept DEF CondocInv
<1>6. CASE FcLinkNext /\ UNCHANGED <<v2Vars, signalFileVars, proposalVars, pointerVars>>
  BY <1>6, CondocStays, FcLinkKept DEF CondocInv
<1>. QED
  BY <1>1, <1>2, <1>3, <1>4, <1>5, <1>6 DEF CondocNext

\* The invariant of all the services holds throughout.
THEOREM CondocInvariant == CondocSpec => []CondocInv
  BY CondocStart, CondocKept, PTL DEF CondocSpec

\* Every service keeps its state, what it reads and what it has written in
\* the types the code declares, whatever the bounds.
THEOREM CondocTypes == CondocSpec => []CondocTypeOK
<1>1. CondocInv => CondocTypeOK
  BY InteractionsSay, ProposalsSay, PointerSays DEF CondocInv, CondocTypeOK
<1>. QED
  BY <1>1, CondocInvariant, PTL

\* What condocv2 and condoccer merge on the way to a condoc's end they merge
\* together; a pointer that was committed is at GitHub or known not to be, and
\* nobody's commit of it is lost or comes twice, however pushes cross.
THEOREM CondocsLandTogether == CondocSpec => []CondocsLand
<1>1. CondocInv => CondocsLand
  BY InteractionsSay, ProposalsSay, PointerSays DEF CondocInv, CondocsLand
<1>. QED
  BY <1>1, CondocInvariant, PTL

\* condocv2's step files have the sections their interactions call for, in
\* order, and the ranges of its records hold the commits of their turns and
\* no others.
THEOREM InteractionsAreRecorded == CondocSpec => []InteractionsRecorded
<1>1. CondocInv => InteractionsRecorded
  BY InteractionsSay DEF CondocInv
<1>. QED
  BY <1>1, CondocInvariant, PTL

\* federation-command's link: no connection is left open that nobody will
\* handle, the loop that dials is kept going, a dot that shows a connection has
\* one unless a ridealong put it back after the connection dropped, and a connection has its listener, however many dials overlap.
THEOREM LinksAccounted == CondocSpec => []LinkAccounted
<1>1. CondocInv => LinkAccounted
  BY DEF CondocInv, FcInv
<1>. QED
  BY <1>1, CondocInvariant, PTL
=============================================================================
