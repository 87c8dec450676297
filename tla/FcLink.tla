------------------------------- MODULE FcLink -------------------------------
(***************************************************************************)
(* federation-command's connection to local-representative                 *)
(* (federation-command/main.go, blinker.go).  The operator connects,       *)
(* changes the control mode and disconnects with the arrow keys; a         *)
(* background loop dials on its own for as long as its window lasts, and   *)
(* again after a connection drops.  Dials, timers and listeners run in     *)
(* goroutines whose messages reach Update in any order, late ones too.     *)
(*                                                                         *)
(* A ridealong and condoc mode take the keys, and show dots of their own;  *)
(* connections come and go meanwhile.                                      *)
(***************************************************************************)
EXTENDS Naturals, FiniteSets, Services

CONSTANTS MaxDialed,    \* connections that come up
          MaxDialing   \* dials, and chains of retries, at a time

ASSUME FcLinkAssumption ==
    MaxDialed \in Nat /\ MaxDialing \in Nat

VARIABLES dot,   \* the blinker's state; what the input holds is left open
          mode,  \* a ridealong, condoc mode; ridealongPrevState; history:
                 \* whether the connection was gone when a ridealong ended
          retry, \* autoConnect, autoConnectEnabled; remoteDefault
          link,  \* reprClient, open connections, adopted ones whose drop is
                 \* not handled, dials that succeeded and are not handled
          dialing, \* dials and retry timers under way
          cmds   \* listeners at remoteCmdCh, and the commands they returned

linkVars == <<dot, mode, retry, link, dialing, cmds>>

Dots == {"idle", "inactive", "select", "ridealong", "condoc", "connecting", "connected", "local"}
Links == 1 .. MaxDialed

FcLinkTypeOK ==
    /\ dot \in Dots
    /\ mode \in [ride : BOOLEAN, condoc : BOOLEAN, before : {"idle", "connected", "local"},
                  gone : BOOLEAN]
    /\ retry \in [on : BOOLEAN, armed : BOOLEAN, remote : BOOLEAN]
    /\ link.client \in 0 .. MaxDialed /\ link.dialed \in 0 .. MaxDialed
    /\ link.open \subseteq Links /\ link.watched \subseteq Links
    /\ link.byHand \subseteq Links /\ link.byLoop \subseteq Links
    /\ dialing \in [byHand : Nat, byLoop : Nat, timers : Nat]
    /\ cmds \in [listening : Nat, heard : Nat]

\* newAppModel and Init: --auto-connect implies remote control.
FcLinkInit ==
    \E auto \in BOOLEAN :
      /\ dot = "idle"
      /\ mode = [ride |-> FALSE, condoc |-> FALSE, before |-> "idle", gone |-> FALSE]
      /\ retry = [on |-> auto, armed |-> auto, remote |-> auto]
      /\ link = [client |-> 0, dialed |-> 0, open |-> {}, watched |-> {}, byHand |-> {}, byLoop |-> {}]
      /\ dialing = [byHand |-> 0, byLoop |-> IF auto THEN 1 ELSE 0, timers |-> 0]
      /\ cmds = [listening |-> 0, heard |-> 0]

RemoteControlActive == dot \in {"connected", "local"}
Rejecting == dot \in {"select", "connecting", "connected"}

SetDot(d) == dot' = d

\* The keys are the prompt's.
AtPrompt == ~mode.ride /\ ~mode.condoc

-----------------------------------------------------------------------------
\* What starts and ends the loop and the connection.
StartsLoop ==
    /\ retry' = [retry EXCEPT !.on = TRUE, !.armed = TRUE]
    /\ dialing' = [dialing EXCEPT !.byLoop = @ + 1]

enableAutoConnect ==
    IF link.client # 0 \/ retry.on
    THEN retry' = [retry EXCEPT !.armed = TRUE] /\ UNCHANGED dialing
    ELSE dialing.byLoop + dialing.timers < MaxDialing /\ StartsLoop

disableAutoConnect == retry' = [retry EXCEPT !.armed = FALSE, !.on = FALSE] /\ UNCHANGED dialing

disconnectRepr ==
    /\ retry' = [retry EXCEPT !.armed = FALSE, !.on = FALSE]
    /\ link' = [link EXCEPT !.client = 0, !.open = @ \ {link.client}]
    /\ cmds' = [cmds EXCEPT !.listening = 0]
    /\ UNCHANGED dialing

\* A connection becomes reprClient; the one before it, if any, is closed.
Adopts(c) ==
    /\ link' = [link EXCEPT !.client = c, !.watched = @ \cup {c}, !.open = @ \ ({link.client} \ {c}),
                            !.byHand = @ \ {c}, !.byLoop = @ \ {c}]
    /\ cmds' = [cmds EXCEPT !.listening = @ + 1]
    /\ retry' = [retry EXCEPT !.on = FALSE]
    /\ mode' = [mode EXCEPT !.gone = FALSE]

\* The deviation: a connection nobody waits for is let go of and not closed.
LateStaysOpen(c) == link' = [link EXCEPT !.byHand = @ \ {c}, !.byLoop = @ \ {c}]

Discards(c) ==
    link' = [link EXCEPT !.open = @ \ {c}, !.byHand = @ \ {c}, !.byLoop = @ \ {c}]

-----------------------------------------------------------------------------
\* A ridealong and condoc mode: started by a command, over when their menu, a
\* remote command or their end says so.  A ridealong puts back the dot of
\* before, whatever became of the connection; condoc mode does not.
StartsMode(line) ==
    \/ /\ line = "ridealong" /\ SetDot("ridealong")
       /\ mode' = [mode EXCEPT !.ride = TRUE,
                               !.before = IF RemoteControlActive THEN dot ELSE "idle"]
    \/ /\ line = "condoc" /\ ~mode.condoc /\ SetDot("condoc")
       /\ mode' = [mode EXCEPT !.condoc = TRUE]

\* While it runs something the dot is out, and idle after a command of before.
ModeShows ==
    /\ \/ mode.ride /\ SetDot("ridealong")
       \/ mode.condoc /\ SetDot("condoc")
       \/ ~AtPrompt /\ dot' \in {"inactive", "idle"}
    /\ UNCHANGED <<mode, retry, link, dialing, cmds>>

exitRidealong ==
    /\ mode.ride /\ SetDot(mode.before)
    /\ mode' = [mode EXCEPT !.ride = FALSE, !.before = "idle",
                            !.gone = mode.before # "idle" /\ link.client = 0]
    /\ UNCHANGED <<retry, link, dialing, cmds>>

exitCondocMode ==
    /\ mode.condoc /\ SetDot("idle") /\ mode' = [mode EXCEPT !.condoc = FALSE]
    /\ UNCHANGED <<retry, link, dialing, cmds>>

-----------------------------------------------------------------------------
\* The keyboard.  KeyCtrlC on the prompt clears it.
CtrlC ==
    /\ AtPrompt
    /\ IF RemoteControlActive \/ Rejecting
       THEN disconnectRepr /\ SetDot("idle")
       ELSE SetDot("idle") /\ UNCHANGED <<retry, link, dialing, cmds>>
    /\ UNCHANGED mode

Types ==
    /\ AtPrompt /\ ~Rejecting /\ SetDot(IF RemoteControlActive THEN dot ELSE "inactive")
    /\ UNCHANGED <<mode, retry, link, dialing, cmds>>

\* What a command line does, typed or sent by LR.
Executes(line) ==
    CASE line = "enable" -> enableAutoConnect
      [] line = "disable" -> disableAutoConnect
      [] OTHER -> UNCHANGED <<retry, dialing>>

Enters(line) ==
    /\ AtPrompt /\ ~Rejecting
    /\ \/ StartsMode(line)
       \/ /\ line \notin {"ridealong", "condoc"} /\ UNCHANGED mode
          /\ SetDot(IF line = "other" /\ ~RemoteControlActive THEN "idle" ELSE dot)
    /\ Executes(line)
    /\ UNCHANGED <<link, cmds>>

\* Up and Down: connect from select, back to select from a connection; in the
\* history the dot follows the text.
UpOrDown ==
    /\ AtPrompt /\ UNCHANGED mode
    /\ \/ /\ dot = "select" /\ dialing.byHand < MaxDialing
          /\ SetDot("connecting") /\ dialing' = [dialing EXCEPT !.byHand = @ + 1]
          /\ UNCHANGED <<retry, link, cmds>>
       \/ /\ dot \in {"connecting", "connected"}
          /\ disconnectRepr /\ SetDot("select")
       \/ /\ dot \in {"idle", "inactive"} /\ dot' \in {"idle", "inactive"}
          /\ UNCHANGED <<retry, link, dialing, cmds>>

handleLeft ==
    /\ AtPrompt
    /\ \/ dot = "idle" /\ SetDot("select")
       \/ dot = "inactive" /\ SetDot("idle")
       \/ dot = "local" /\ SetDot("connected")
    /\ UNCHANGED <<mode, retry, link, dialing, cmds>>

\* With text typed the dot goes out, that of a connection in local control too.
handleRight ==
    /\ AtPrompt /\ UNCHANGED mode
    /\ IF dot \in {"select", "connecting"}
       THEN disconnectRepr /\ SetDot("idle")
       ELSE /\ SetDot(IF dot = "connected" THEN "local" ELSE "inactive")
            /\ UNCHANGED <<retry, link, dialing, cmds>>

handleBackspace ==
    /\ AtPrompt /\ dot = "inactive" /\ SetDot("idle")
    /\ UNCHANGED <<mode, retry, link, dialing, cmds>>

-----------------------------------------------------------------------------
\* Dials come up or fail; LR closes connections; time passes.
ComesUp(kind) ==
    /\ dialing[kind] > 0 /\ link.dialed < MaxDialed
    /\ dialing' = [dialing EXCEPT ![kind] = @ - 1]
    /\ link' = [link EXCEPT !.dialed = @ + 1, !.open = @ \cup {link.dialed + 1},
                            ![kind] = @ \cup {link.dialed + 1}]
    /\ UNCHANGED <<dot, mode, retry, cmds>>

Closes(c) ==
    /\ c \in link.open /\ link' = [link EXCEPT !.open = @ \ {c}]
    /\ UNCHANGED <<dot, mode, retry, dialing, cmds>>

-----------------------------------------------------------------------------
\* Update's messages.
reprConnected(c) ==
    /\ c \in link.byHand
    /\ IF dot = "connecting"
       THEN Adopts(c) /\ SetDot("connected")
       ELSE Discards(c) /\ UNCHANGED <<dot, mode, retry, cmds>>
    /\ UNCHANGED dialing

reprConnectFailed ==
    /\ dialing.byHand > 0 /\ dialing' = [dialing EXCEPT !.byHand = @ - 1]
    /\ IF dot = "connecting" THEN SetDot("select") ELSE UNCHANGED dot
    /\ UNCHANGED <<mode, retry, link, cmds>>

Looping == retry.on /\ link.client = 0

\* On a tick the loop dials, after a dial that failed it waits for the interval;
\* once its window has passed it gives up (autoConnectGaveUp) at either.
LoopGoesOn(from, to) ==
    /\ dialing[from] > 0
    /\ \/ /\ Looping
          /\ dialing' = [dialing EXCEPT ![from] = @ - 1, ![to] = @ + 1]
          /\ UNCHANGED retry
       \/ /\ dialing' = [dialing EXCEPT ![from] = @ - 1]
          /\ IF Looping THEN retry' = [retry EXCEPT !.on = FALSE] ELSE UNCHANGED retry
    /\ UNCHANGED <<dot, mode, link, cmds>>

autoConnectTick == LoopGoesOn("timers", "byLoop")
autoConnectFails == LoopGoesOn("byLoop", "timers")

autoConnectControlState ==
    IF retry.remote \/ dot \in {"select", "connecting"} THEN "connected" ELSE "local"

autoConnectResult(c) ==
    /\ c \in link.byLoop
    /\ IF Looping
       THEN /\ Adopts(c)
            /\ SetDot(autoConnectControlState)
       ELSE Discards(c) /\ UNCHANGED <<dot, mode, retry, cmds>>
    /\ UNCHANGED dialing

\* The connection dropped: of one given up or replaced the message is stale.
reprDisconnected(c) ==
    /\ c \in link.watched \ link.open
    /\ link' = [link EXCEPT !.watched = @ \ {c}, !.client = IF @ = c THEN 0 ELSE @]
    /\ IF link.client = c
       THEN /\ IF RemoteControlActive THEN SetDot("idle") ELSE UNCHANGED dot
            /\ IF retry.armed THEN StartsLoop ELSE UNCHANGED <<retry, dialing>>
       ELSE UNCHANGED <<dot, retry, dialing>>
    /\ UNCHANGED <<mode, cmds>>

-----------------------------------------------------------------------------
\* Commands LR sends wait in remoteCmdCh, those of a connection given up too; a
\* listener takes one, and Update starts the next listener whatever it does with it.
ListenerHears ==
    /\ cmds.listening > 0 /\ link.dialed > 0
    /\ cmds' = [listening |-> cmds.listening - 1, heard |-> cmds.heard + 1]
    /\ UNCHANGED <<dot, mode, retry, link, dialing>>

\* It does what it says only while remote control shows.
reprRemoteCmd(line) ==
    /\ cmds.heard > 0
    /\ cmds' = [cmds EXCEPT !.heard = @ - 1, !.listening = @ + 1]
    /\ \/ dot = "connected" /\ Executes(line) /\ StartsMode(line)
       \/ /\ dot = "connected" /\ line \notin {"ridealong", "condoc"}
          /\ Executes(line) /\ UNCHANGED <<dot, mode>>
       \/ dot # "connected" /\ UNCHANGED <<dot, mode, retry, dialing>>
    /\ UNCHANGED link

Lines == {"enable", "disable", "ridealong", "condoc", "other"}

FcLinkNext ==
    \/ CtrlC \/ Types \/ UpOrDown \/ handleLeft \/ handleRight \/ handleBackspace
    \/ ModeShows \/ exitRidealong \/ exitCondocMode
    \/ reprConnectFailed \/ autoConnectTick \/ autoConnectFails
    \/ ListenerHears
    \/ \E line \in Lines : Enters(line) \/ reprRemoteCmd(line)
    \/ \E kind \in {"byHand", "byLoop"} : ComesUp(kind)
    \/ \E c \in Links : Closes(c) \/ reprConnected(c) \/ autoConnectResult(c) \/ reprDisconnected(c)

-----------------------------------------------------------------------------
\* Whatever the order of dials, cancellations, drops and late answers: every
\* open connection is the adopted one or a late one about to be handled (none
\* leaks, and LR never sees a second federation-command of this process); the
\* loop runs only while armed and unconnected, and never without a dial, a
\* timer or an answer that keeps it going; a dot that shows a connection has
\* one, unless it is a dot that a ridealong put back after the connection had
\* dropped; and a connection has a listener for LR's commands.
LinkAccounted ==
    /\ link.open \subseteq {link.client} \cup link.byHand \cup link.byLoop
    /\ retry.on => /\ retry.armed /\ link.client = 0
                   /\ dialing.byLoop + dialing.timers > 0 \/ link.byLoop # {}
    /\ RemoteControlActive => link.client # 0 \/ mode.gone
    /\ link.client # 0 => cmds.listening + cmds.heard > 0
=============================================================================
