------------------------------ MODULE WorkerTab -----------------------------
(***************************************************************************)
(* What a dungeon-keeper worker tells local-representative of itself       *)
(* (dungeon-keeper/repr.go): a snapshot of its signals and slopspaces,     *)
(* pushed by several goroutines when something may have changed, only if   *)
(* it did since the last push, over a connection that comes and goes.      *)
(* Each snapshot is cut to what one line of the protocol carries.          *)
(***************************************************************************)
EXTENDS Naturals, Sequences, Functions, Services

CONSTANTS MaxStateBytes, \* maxStateBytes, in units of a large prompt
          MaxTabEvents,     \* signals made, worked on or completed
          MaxDials       \* connections

ASSUME WorkerTabAssumption ==
    MaxStateBytes \in Nat /\ MaxTabEvents \in Nat /\ MaxDials \in Nat

VARIABLES work,    \* the signals' prompts and outputs, newest first; busy
          dialed,  \* connections made
          repr,    \* w.repr: the connection, 0 when there is none
          lastPushed, \* the snapshot last pushed, or Nothing
          pushing, \* the goroutine in pushState and what it has read
          callers, \* goroutines that are going to push
          untold,  \* history: others changed something, and no poll has begun since
          sent,    \* connection -> the snapshot LR has last been sent on it
          tabEvents

tabVars == <<work, dialed, repr, lastPushed, pushing, callers, untold, sent, tabEvents>>

Tellers == {"loop", "command", "connect"}
\* No snapshot: nobody is busy without a signal.
Nothing == [busy |-> TRUE, prompts |-> << >>, outputs |-> << >>]
Text == 0 .. 4
Snapshots == UNION {[busy : BOOLEAN, prompts : [1 .. n -> Text], outputs : [1 .. n -> Text]] :
                      n \in 0 .. 2}
NoPush == [by |-> "none", client |-> 0, busy |-> FALSE, st |-> Nothing, read |-> FALSE]

WorkerTabTypeOK ==
    /\ work \in Snapshots /\ lastPushed \in Snapshots
    /\ dialed \in 0 .. MaxDials /\ repr \in 0 .. MaxDials
    /\ pushing \in [by : Tellers \cup {"none"}, client : 0 .. MaxDials, busy : BOOLEAN,
                    st : Snapshots, read : BOOLEAN]
    /\ callers \subseteq Tellers /\ untold \in BOOLEAN
    /\ sent \in [1 .. MaxDials -> Snapshots] /\ tabEvents \in 0 .. MaxTabEvents

WorkerTabInit ==
    /\ work = [Nothing EXCEPT !.busy = FALSE] /\ dialed = 0 /\ repr = 0 /\ lastPushed = Nothing
    /\ pushing = NoPush /\ callers = {} /\ untold = FALSE /\ tabEvents = 0
    /\ sent = [c \in 1 .. MaxDials |-> Nothing]

-----------------------------------------------------------------------------
\* fitState: outputs go from the oldest, never the newest's; then all prompts
\* are cut to a half of their limit, a quarter, and so on; then the newest
\* output keeps its second half, and so on.
Total(f) == FoldFunction(+, 0, f)
Size(st) == Total(st.prompts) + Total(st.outputs)
Fits(st) == Size(st) <= MaxStateBytes

Shorter(text, limit) == IF text > limit THEN limit ELSE text
FirstOf(fitting, last) ==
    IF fitting = {} THEN last ELSE CHOOSE k \in fitting : \A j \in fitting : k <= j

WithoutOldest(st, k) ==
    [st EXCEPT !.outputs = [i \in DOMAIN @ |-> IF i > Len(@) - k /\ i > 1 THEN 0 ELSE @[i]]]
WithPrompts(st, k) == [st EXCEPT !.prompts = [i \in DOMAIN @ |-> Shorter(@[i], 4 \div 2 ^ k)]]
WithNewest(st, k) ==
    [st EXCEPT !.outputs = [i \in DOMAIN @ |-> IF i = 1 THEN @[i] \div 2 ^ k ELSE @[i]]]

fitState(st) ==
    LET n == Len(st.outputs)
        outs == WithoutOldest(st, FirstOf({k \in 0 .. n : Fits(WithoutOldest(st, k))}, n))
        cut == WithPrompts(outs, FirstOf({k \in 0 .. 2 : Fits(WithPrompts(outs, k))}, 2))
    IN  WithNewest(cut, FirstOf({k \in 0 .. 3 : Fits(WithNewest(cut, k))}, 3))

-----------------------------------------------------------------------------
Pushers == UNCHANGED <<dialed, repr, lastPushed, pushing, sent>>
TabEvent == tabEvents < MaxTabEvents /\ tabEvents' = tabEvents + 1
Wants(c) == callers' = callers \cup {c}

\* createSignal: the newest comes first, the oldest is no longer shown.
NewSignal(prompt) ==
    work' = [work EXCEPT !.prompts = SubSeq(<<prompt>> \o @, 1, IF Len(@) < 2 THEN Len(@) + 1 ELSE 2),
                         !.outputs = SubSeq(<<0>> \o @, 1, IF Len(@) < 2 THEN Len(@) + 1 ELSE 2)]

\* Work submitted from the tab is pushed; what others make is seen by a poll.
Submits ==
    /\ TabEvent /\ repr # 0 /\ "command" \notin callers /\ pushing.by # "command"
    /\ NewSignal(3)
    /\ Wants("command") /\ Pushers /\ UNCHANGED untold

OthersSubmit ==
    /\ TabEvent /\ NewSignal(3)
    /\ untold' = TRUE
    /\ Pushers /\ UNCHANGED callers

\* The watch loop: setBusy, the output of an agent, and a push on each round.
LoopFree == "loop" \notin callers /\ pushing.by # "loop"

LoopBusy ==
    /\ LoopFree /\ ~work.busy /\ work.prompts # << >> /\ TabEvent
    /\ work' = [work EXCEPT !.busy = TRUE]
    /\ Wants("loop") /\ Pushers /\ UNCHANGED untold

LoopDone ==
    /\ LoopFree /\ work.busy
    /\ work' = [work EXCEPT !.busy = FALSE, !.outputs = [@ EXCEPT ![1] = 4]]
    /\ Wants("loop") /\ Pushers /\ UNCHANGED <<untold, tabEvents>>

LoopPolls ==
    /\ LoopFree /\ ~work.busy
    /\ untold' = FALSE
    /\ Wants("loop") /\ Pushers /\ UNCHANGED <<work, tabEvents>>

\* A fresh connection, and a refresh, always get the current state.
Connects ==
    /\ repr = 0 /\ dialed < MaxDials
    /\ repr' = dialed + 1 /\ dialed' = dialed + 1
    /\ lastPushed' = Nothing
    /\ Wants("connect")
    /\ UNCHANGED <<work, pushing, untold, sent, tabEvents>>

Disconnects ==
    /\ repr # 0 /\ "connect" \notin callers /\ pushing.by # "connect"
    /\ repr' = 0
    /\ UNCHANGED <<work, dialed, lastPushed, pushing, callers, untold, sent, tabEvents>>

Refreshes ==
    /\ TabEvent /\ repr # 0 /\ "command" \notin callers /\ pushing.by # "command"
    /\ lastPushed' = Nothing
    /\ Wants("command")
    /\ UNCHANGED <<work, dialed, repr, pushing, untold, sent>>

-----------------------------------------------------------------------------
\* pushState: one goroutine at a time; what is pushed is read after the lock.
PushBegins(c) ==
    /\ pushing.by = "none" /\ c \in callers
    /\ callers' = callers \ {c}
    /\ pushing' = IF repr = 0 THEN NoPush
                  ELSE [NoPush EXCEPT !.by = c, !.client = repr, !.busy = work.busy]
    /\ UNCHANGED <<work, dialed, repr, lastPushed, untold, sent, tabEvents>>

PushReads ==
    /\ pushing.by # "none" /\ ~pushing.read
    /\ pushing' = [pushing EXCEPT !.read = TRUE,
                                  !.st = fitState([work EXCEPT !.busy = pushing.busy])]
    /\ UNCHANGED <<work, dialed, repr, lastPushed, callers, untold, sent, tabEvents>>

\* A mutant: whichever connection it is now is taken to have got the push.
PushSendsAnyway ==
    /\ pushing.read
    /\ IF lastPushed # pushing.st
       THEN /\ lastPushed' = pushing.st
            /\ sent' = [sent EXCEPT ![pushing.client] = pushing.st]
       ELSE UNCHANGED <<lastPushed, sent>>
    /\ pushing' = NoPush
    /\ UNCHANGED <<work, dialed, repr, callers, untold, tabEvents>>

PushSends ==
    /\ pushing.read
    /\ IF repr = pushing.client /\ lastPushed # pushing.st
       THEN /\ lastPushed' = pushing.st
            /\ sent' = [sent EXCEPT ![pushing.client] = pushing.st]
       ELSE UNCHANGED <<lastPushed, sent>>
    /\ pushing' = NoPush
    /\ UNCHANGED <<work, dialed, repr, callers, untold, tabEvents>>

WorkerTabNext ==
    \/ Submits \/ OthersSubmit \/ LoopBusy \/ LoopDone \/ LoopPolls
    \/ Connects \/ Disconnects \/ Refreshes
    \/ \E c \in Tellers : PushBegins(c)
    \/ PushReads \/ PushSends

-----------------------------------------------------------------------------
\* A push is taken for made only on the connection it was made on, so that a
\* state is never held back from one that has not had it; with no push under
\* way or due, and nothing done by others since the last poll, LR has what the
\* state is.  What is pushed fits a line, or has nothing left to cut.
TabIsCurrent ==
    /\ repr # 0 /\ lastPushed # Nothing => sent[repr] = lastPushed
    /\ repr # 0 /\ callers = {} /\ pushing.by = "none" /\ ~untold
          => sent[repr] = fitState(work)
    /\ \A c \in 1 .. MaxDials :
           Fits(sent[c]) \/ (Total(sent[c].outputs) = 0 /\ \A i \in DOMAIN sent[c].prompts :
                                                             sent[c].prompts[i] <= 1)
=============================================================================
