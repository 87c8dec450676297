------------------------------- MODULE Claims -------------------------------
(***************************************************************************)
(* What condoccer's claims promise (slopspace.go: claim, release,          *)
(* deferForceComplete, takeForceComplete), with nothing said of what the   *)
(* holders do: a condoc is worked on by at most one of the driver, the     *)
(* turn loop and a Force Complete from the UI; the driver and the turn     *)
(* loop each work on one condoc at a time; and a Force Complete asked for  *)
(* while the turn loop holds the condoc is taken up before that claim ends.*)
(* Condoccer implements it.                                                *)
(***************************************************************************)
CONSTANT Condocs

VARIABLES holder,    \* who holds each condoc's claim
          requested  \* a Force Complete waits for the turn loop

claimVars == <<holder, requested>>

Holder == {"free", "driver", "loop", "ui"}

ClaimsInit ==
    /\ holder = [c \in Condocs |-> "free"]
    /\ requested = [c \in Condocs |-> FALSE]

Acquire(c, h) ==
    /\ holder[c] = "free"
    /\ h = "ui" \/ \A d \in Condocs : holder[d] # h
    /\ holder' = [holder EXCEPT ![c] = h]
    /\ UNCHANGED requested

\* Only a condoc the turn loop has to itself takes a request.
Request(c) ==
    /\ holder[c] = "loop"
    /\ requested' = [requested EXCEPT ![c] = TRUE]
    /\ UNCHANGED holder

TakeUp(c) ==
    /\ requested[c]
    /\ requested' = [requested EXCEPT ![c] = FALSE]
    /\ UNCHANGED holder

\* A claim with a request on it is not given up.
GiveUp(c) ==
    /\ holder[c] # "free" /\ ~requested[c]
    /\ holder' = [holder EXCEPT ![c] = "free"]
    /\ UNCHANGED requested

Restart ==
    /\ holder' = [c \in Condocs |-> "free"]
    /\ requested' = [c \in Condocs |-> FALSE]

ClaimsNext ==
    \/ \E c \in Condocs :
          \/ \E h \in Holder \ {"free"} : Acquire(c, h)
          \/ Request(c) \/ TakeUp(c) \/ GiveUp(c)
    \/ Restart

ClaimsSpec == ClaimsInit /\ [][ClaimsNext]_claimVars
=============================================================================
