---------------------------- MODULE FcSessions ----------------------------
(***************************************************************************)
(* The session a federation-command is on, and where the records of the    *)
(* commands entered at it go (main.go, sessions_daily.go, sessions_set.go, *)
(* sessionlog.go).  Commands run one at a time in the terminal; asking for *)
(* one, running it and recording it are steps of their own, between which  *)
(* other commands, a new day, an archive or a restart may come.            *)
(***************************************************************************)
EXTENDS Naturals, Sequences, FiniteSets, SequencesExt, Services

CONSTANTS MaxFcCommands, MaxDays, MaxNamed, MaxFcStarts,
          FcSetups   \* whether LR drives the instance, and a host has a session of its

ASSUME FcSessionsAssumption ==
    /\ {MaxFcCommands, MaxDays, MaxNamed, MaxFcStarts} \subseteq Nat \ {0}
    /\ FcSetups \subseteq BOOLEAN \X BOOLEAN

VARIABLES shelf,   \* session -> its directory: whether there is one, whose its
                   \* session.yaml is, and what it says it follows
          typed,   \* the commands entered, and how far each is
          current, \* the instance: its session, and whether it was used in it
          picker,  \* the command the picker is open for, and the sessions it lists
          dynapane,    \* the dynamic pane, the command that waits for it to close,
                   \* and whether its closing is yet to be told
          day, starts,
          driven,  \* whether LR drives it: it takes no local line then
          peerHas  \* whether a connected host has the first named session

fcSessionVars ==
    <<shelf, typed, current, picker, dynapane, day, starts, driven, peerHas>>

Daily(d) == [kind |-> "daily", n |-> d]
Named(k) == [kind |-> "named", n |-> k]
NoSession == [kind |-> "none", n |-> 0]
SessionIds == {Daily(d) : d \in 1 .. MaxDays} \cup {Named(k) : k \in 1 .. MaxNamed}
Absent == [dir |-> FALSE, yaml |-> "none", follows |-> NoSession]
Closed1 == [for |-> 0, lists |-> {}]

Builtins == {"builtin", "set", "clear", "new", "rename"}
InTerminal == {"run", "models", "newi", "renamea", "archive", "create"}
FcLines == Builtins \cup {"run", "models", "newi", "renamea", "archive", "inspect",
                          "select", "note", "demo", "ride"}
StepLines == Builtins \cup {"run", "models"}

FcSessionsTypeOK ==
    /\ shelf \in [SessionIds -> [dir : BOOLEAN, yaml : {"none", "ours", "peers"},
                          follows : SessionIds \cup {NoSession}]]
    /\ \A n \in DOMAIN typed :
          /\ typed[n].line \in FcLines \cup {"create"} /\ typed[n].day \in 1 .. MaxDays
          /\ typed[n].at \in {"waiting", "asked", "running", "done", "picking",
                              "inspecting", "over", "dropped"}
          /\ Range(typed[n].home) \subseteq SessionIds \cup {NoSession}
    /\ current \in [here : SessionIds, active : BOOLEAN, riding : BOOLEAN]
    /\ picker.for \in 0 .. Len(typed) /\ picker.lists \subseteq SessionIds
    /\ dynapane \in [is : {"off", "open", "closing"}, pending : 0 .. Len(typed),
                     told : BOOLEAN]

Ours == [dir |-> TRUE, yaml |-> "ours", follows |-> NoSession]

FcSessionsInit ==
    /\ \E there \in {{Daily(1)}, {Daily(1), Named(1)}} :
          shelf = [i \in SessionIds |-> IF i \in there THEN Ours ELSE Absent]
    /\ typed = << >> /\ current = [here |-> Daily(1), active |-> FALSE, riding |-> FALSE]
    /\ picker = Closed1 /\ dynapane = [is |-> "off", pending |-> 0, told |-> FALSE]
    /\ day = 1 /\ starts = 1
    /\ \E u \in FcSetups : driven = u[1] /\ peerHas = u[2]
    /\ shelf[Named(1)].dir => ~peerHas

\* What a command reads and changes as it is carried out.
World == [shelf |-> shelf, typed |-> typed, current |-> current, picker |-> picker]
Becomes(w) ==
    /\ shelf' = w.shelf /\ typed' = w.typed
    /\ current' = w.current /\ picker' = w.picker

Blocked == \E n \in DOMAIN typed : typed[n].at = "running"
IsDefault(s) == s.kind = "daily"
Unused == {k \in 2 .. MaxNamed : ~ \E n \in DOMAIN typed : typed[n].made = Named(k)}
Lowest(ks) == CHOOSE k \in ks : \A j \in ks : k <= j

-----------------------------------------------------------------------------
\* One record in the log of the session the instance is on, if there is still
\* a directory to append to.
logRecord(w, n) ==
    LET s == w.current.here IN
    [w EXCEPT !.typed[n].at = "over", !.typed[n].ran = NoSession,
              !.typed[n].arg = NoSession,
              !.typed[n].home = Append(@, IF w.shelf[s].dir THEN s ELSE NoSession)]

\* A session of this host, whoever's session.yaml is there first.
createSession(w, s) ==
    [w EXCEPT !.shelf[s].dir = TRUE,
              !.shelf[s].yaml = IF @ = "none" THEN "ours" ELSE @]

switchToSession(w, s) == IF w.shelf[s].dir THEN [w EXCEPT !.current.here = s] ELSE w

applyFollowsFrom(w, s, f) ==
    IF f = NoSession THEN w ELSE [w EXCEPT !.shelf[s].follows = f]

\* A new session of this host's, what it follows, and the instance on it.
newSession(w, n, s, f) ==
    switchToSession([applyFollowsFrom(createSession(w, s), s, f)
                        EXCEPT !.typed[n].made = s], s)

\* The name goes into the session.yaml of the session the instance is on, which
\* becomes one of this host's if there is none.
updateSessionName(w) ==
    IF w.shelf[w.current.here].dir THEN createSession(w, w.current.here) ELSE w

\* Any host's that has the session, if they can be asked.
pullSessionFromPeers(w, s) ==
    {w} \cup (IF peerHas /\ s = Named(1)
              THEN {[w EXCEPT !.shelf[s].dir = TRUE, !.shelf[s].yaml = "peers"]} ELSE {})

sessionExistsLocally(w, s) == w.shelf[s].yaml # "none"

AsksTerminal(w, n, line) ==
    [w EXCEPT !.typed[n].at = "asked", !.typed[n].line = line,
              !.typed[n].ran = w.current.here]

-----------------------------------------------------------------------------
\* What changes at once is recorded at once, or by a message of its own when it
\* is a step of a ridealong.
Later(w, n) == [w EXCEPT !.typed[n].at = "done"]

Recorded(w, n, asks) == IF asks THEN logRecord(w, n) ELSE Later(w, n)

\* An existing session here or on a connected host, or else the operator is asked
\* whether to create it; within a ridealong it cannot be asked.
setSession(w, n, asks) ==
    {IF sessionExistsLocally(v, Named(1)) THEN Recorded(switchToSession(v, Named(1)), n, asks)
     ELSE IF asks THEN AsksTerminal(v, n, "create") ELSE Recorded(v, n, asks) :
        v \in IF sessionExistsLocally(w, Named(1)) THEN {w}
              ELSE pullSessionFromPeers(w, Named(1))}

\* Named at once, following any session there is.
handleNewSession(w, n, asks) ==
    {Recorded(newSession(w, n, Named(Lowest(Unused)), f), n, asks) :
        f \in {NoSession} \cup {s \in SessionIds : w.shelf[s].dir}}

handleRenameSession(w) == IF IsDefault(w.current.here) THEN w ELSE updateSessionName(w)

\* Over every directory there is; another picker that is open is gone.
buildSessionPicker(w, n) ==
    LET v == IF w.picker.for = 0 THEN w
             ELSE [w EXCEPT !.typed[w.picker.for].at = "dropped"]
    IN [v EXCEPT !.picker = [for |-> n, lists |-> {s \in SessionIds : w.shelf[s].dir}],
                 !.typed[n].at = "picking"]

\* clauditable makes the directory it needs, and today's default in full.
Dispatched(w, s) ==
    [w EXCEPT !.shelf[s].dir = TRUE,
              !.shelf[s].yaml = IF @ = "none" /\ s = Daily(day) THEN "ours" ELSE @]

handleSessionNote(w) ==
    IF w.current.here = Daily(day) THEN Dispatched(w, w.current.here) ELSE w

Builtin(w, n, asks) ==
    CASE w.typed[n].line = "builtin" -> {Recorded(w, n, asks)}
      [] w.typed[n].line = "set"     -> setSession(w, n, asks)
      [] w.typed[n].line = "clear"   ->
            {Recorded(newSession(w, n, Named(Lowest(Unused)), NoSession), n, asks)}
      [] w.typed[n].line = "new"     -> handleNewSession(w, n, asks)
      [] w.typed[n].line = "rename"  -> {Recorded(handleRenameSession(w), n, asks)}

handleUFACommand(w, n) ==
    IF w.typed[n].line = "inspect" THEN {[w EXCEPT !.typed[n].at = "inspecting"]}
    ELSE {AsksTerminal(w, n, w.typed[n].line)}

executeCommandCore(w, n) ==
    LET line == w.typed[n].line IN
    CASE line \in Builtins               -> Builtin(w, n, TRUE)
      [] line = "demo"                   -> {logRecord(w, n)}
      [] line = "ride"                   -> {logRecord([w EXCEPT !.current.riding = TRUE], n)}
      [] line = "note"                   -> {logRecord(handleSessionNote(w), n)}
      [] line = "select"                 -> {buildSessionPicker(w, n)}
      [] line \in {"archive", "inspect"} -> handleUFACommand(w, n)
      [] line = "newi"                   ->
            {[AsksTerminal(w, n, line) EXCEPT !.typed[n].arg = f] :
                f \in {NoSession} \cup {s \in SessionIds : w.shelf[s].dir}}
      [] line = "renamea"                ->
            {IF IsDefault(w.current.here) THEN logRecord(w, n) ELSE AsksTerminal(w, n, line)}
      [] OTHER                           -> {AsksTerminal(w, n, line)}

\* The dynamic pane is gone once a command is carried out, unless it asked for it.
Dismisses(n) == IF typed'[n].line = "demo" THEN "open" ELSE "off"

-----------------------------------------------------------------------------
\* Whether the default that is left was used by this instance.
hadActivity == current.active

staleDailyDefault(s) == IsDefault(s) /\ s # Daily(day)

\* Today's default, which follows the one that is left if it follows nothing yet.
rolloverDailyDefault(w) ==
    IF staleDailyDefault(w.current.here)
    THEN LET v == createSession(w, Daily(day))
             f == IF hadActivity /\ v.shelf[Daily(day)].follows = NoSession
                  THEN applyFollowsFrom(v, Daily(day), w.current.here) ELSE v
         IN switchToSession(f, Daily(day))
    ELSE w

Entered(line, step) ==
    [line |-> line, step |-> step, day |-> day, from |-> current.here, at |-> "waiting",
     ran |-> NoSession, arg |-> NoSession, made |-> NoSession, home |-> << >>]

Enterable(line) ==
    /\ ~Blocked /\ Len(typed) < MaxFcCommands
    /\ line \in {"clear", "new", "newi"} => Unused # {}

\* A line entered, here or at LR, on today's default if it was on another day's.
\* An open dynamic pane closes first, and the command waits for it.
executeCommand(line) ==
    LET n == Len(typed) + 1
        e == [World EXCEPT !.typed = Append(@, Entered(line, FALSE))]
        r == rolloverDailyDefault(e)
        w == [r EXCEPT !.typed[n].from = r.current.here, !.current.active = TRUE]
    IN /\ Enterable(line) /\ line \in FcLines /\ ~current.riding
       /\ driven \/ picker.for = 0
       /\ IF dynapane.is # "off" /\ line # "demo"
          THEN /\ Becomes(IF dynapane.pending = 0 THEN w
                          ELSE [w EXCEPT !.typed[dynapane.pending].at = "dropped"])
               /\ dynapane' = [dynapane EXCEPT !.is = "closing", !.pending = n]
          ELSE /\ \E v \in executeCommandCore(w, n) : Becomes(v)
               /\ dynapane' = [dynapane EXCEPT !.is = Dismisses(n)]
       /\ UNCHANGED <<day, starts, driven, peerHas>>

\* The next step of a ridealong: what is built in changes the instance itself,
\* the rest runs in the terminal, and either is recorded when it is done.
executeStep(line) ==
    LET n == Len(typed) + 1
        w == [World EXCEPT !.typed = Append(@, Entered(line, TRUE))]
    IN /\ Enterable(line) /\ line \in StepLines /\ current.riding
       /\ \E v \in IF line \in Builtins THEN Builtin(w, n, FALSE)
                   ELSE {AsksTerminal(w, n, line)} : Becomes(v)
       /\ UNCHANGED <<dynapane, day, starts, driven, peerHas>>

endRidealong ==
    /\ ~Blocked /\ current.riding
    /\ current' = [current EXCEPT !.riding = FALSE]
    /\ UNCHANGED <<shelf, typed, picker, dynapane, day, starts, driven, peerHas>>

\* Closed; and the message that it is carries out the command that waited.
rollsUp ==
    /\ ~Blocked /\ dynapane.is = "closing"
    /\ dynapane' = [dynapane EXCEPT !.is = "off", !.told = TRUE]
    /\ UNCHANGED <<shelf, typed, current, picker, day, starts, driven, peerHas>>

DynapaneRollUpDone ==
    /\ ~Blocked /\ dynapane.told
    /\ IF dynapane.pending = 0
       THEN /\ dynapane' = [dynapane EXCEPT !.told = FALSE]
            /\ UNCHANGED <<shelf, typed, current, picker>>
       ELSE /\ \E v \in executeCommandCore(World, dynapane.pending) : Becomes(v)
            /\ dynapane' = [is |-> Dismisses(dynapane.pending), pending |-> 0,
                            told |-> FALSE]
    /\ UNCHANGED <<day, starts, driven, peerHas>>

-----------------------------------------------------------------------------
\* The terminal is handed over, and nothing else is handled meanwhile.
TakesTerminal(n) ==
    /\ ~Blocked /\ typed[n].at = "asked"
    /\ Becomes([IF typed[n].line = "run" THEN Dispatched(World, typed[n].ran) ELSE World
                   EXCEPT !.typed[n].at = "running"])
    /\ UNCHANGED <<dynapane, day, starts, driven, peerHas>>

\* What comes of it: the session made, the name or the session agreed to, every
\* session moved away, or nothing.
Outcomes(n) ==
    LET none == [World EXCEPT !.typed[n].at = "done"]
        yes == [none EXCEPT !.typed[n].made = current.here]
    IN CASE typed[n].line = "newi" ->
              {none} \cup
              {[createSession(none, Named(k)) EXCEPT !.typed[n].made = Named(k)] :
                   k \in IF Unused = {} THEN {} ELSE {Lowest(Unused)}}
         [] typed[n].line = "archive" ->
              {none, [yes EXCEPT !.shelf = [s \in SessionIds |-> Absent]]}
         [] typed[n].line \in {"renamea", "create"} -> {none, yes}
         [] OTHER -> {none}

LeavesTerminal(n) ==
    /\ typed[n].at = "running"
    /\ \E v \in Outcomes(n) : Becomes(v)
    /\ UNCHANGED <<dynapane, day, starts, driven, peerHas>>

\* listModelsDoneMsg leaves no record.
listModelsDone(w, n) == [w EXCEPT !.typed[n].at = "over"]

sessionNewDone(w, n) ==
    LET s == w.typed[n].made IN
    IF s = NoSession \/ ~w.shelf[s].dir THEN logRecord(w, n)
    ELSE logRecord(switchToSession(applyFollowsFrom(w, s, w.typed[n].arg), s), n)

\* The session that is renamed is the one the instance is on by now.
sessionRenameDone(w, n) ==
    logRecord(IF w.typed[n].made = NoSession THEN w ELSE updateSessionName(w), n)

finishSessionCreateConfirm(w, n) ==
    logRecord(IF w.typed[n].made = NoSession THEN w
              ELSE switchToSession(createSession(w, Named(1)), Named(1)), n)

cmdDone(w, n) == logRecord(w, n)

Handled(w, n) ==
    CASE w.typed[n].step              -> logRecord(w, n)
      [] w.typed[n].line = "models"   -> listModelsDone(w, n)
      [] w.typed[n].line = "newi"     -> sessionNewDone(w, n)
      [] w.typed[n].line = "renamea"  -> sessionRenameDone(w, n)
      [] w.typed[n].line = "create"   -> finishSessionCreateConfirm(w, n)
      [] OTHER                        -> cmdDone(w, n)

\* The message that a command is done, or agents are inspected, is handled.
Update(n) ==
    /\ ~Blocked /\ typed[n].at \in {"done", "inspecting"}
    /\ Becomes(Handled(World, n))
    /\ UNCHANGED <<dynapane, day, starts, driven, peerHas>>

\* Enter in the picker: a session that is gone by now is not switched to.
handleSessionPickerKey(s) ==
    LET w == [World EXCEPT !.picker = Closed1] IN
    /\ ~Blocked /\ picker.for # 0 /\ s \in picker.lists \cup {NoSession}
    /\ Becomes(logRecord(IF s = NoSession THEN w ELSE switchToSession(w, s), picker.for))
    /\ UNCHANGED <<dynapane, day, starts, driven, peerHas>>

-----------------------------------------------------------------------------
NewDay ==
    /\ day < MaxDays /\ day' = day + 1
    /\ UNCHANGED <<shelf, typed, current, picker, dynapane, starts, driven, peerHas>>

\* The session handed back if LR knows it, or else today's, as is another day's
\* default.  What was not recorded yet never is.
FcRestarts ==
    \E handed \in {current.here, NoSession}, made \in BOOLEAN :
        LET today == handed = NoSession \/ staleDailyDefault(handed)
            s == IF today THEN Daily(day) ELSE handed IN
        /\ ~Blocked /\ starts < MaxFcStarts
        /\ made => today
        /\ shelf' = IF made THEN createSession(World, s).shelf
                    ELSE [shelf EXCEPT ![s].dir = TRUE]
        /\ current' = [here |-> s, active |-> FALSE, riding |-> FALSE]
        /\ typed' = [n \in DOMAIN typed |-> IF typed[n].at = "over" THEN typed[n]
                                            ELSE [typed[n] EXCEPT !.at = "dropped"]]
        /\ picker' = Closed1 /\ dynapane' = [is |-> "off", pending |-> 0, told |-> FALSE]
        /\ starts' = starts + 1
        /\ UNCHANGED <<day, driven, peerHas>>

FcSessionsNext ==
    /\ Moves("fcsessions")
    /\ \/ \E line \in FcLines : executeCommand(line)
       \/ \E line \in StepLines : executeStep(line)
       \/ endRidealong \/ rollsUp \/ DynapaneRollUpDone
       \/ \E n \in DOMAIN typed : TakesTerminal(n) \/ LeavesTerminal(n) \/ Update(n)
       \/ \E s \in SessionIds \cup {NoSession} : handleSessionPickerKey(s)
       \/ NewDay \/ FcRestarts

-----------------------------------------------------------------------------
Archives == {n \in DOMAIN typed : typed[n].line = "archive" /\ typed[n].made # NoSession}

(***************************************************************************)
(* A command is recorded once, when it is over, and a record is lost only  *)
(* when every session was archived: nothing else takes a session from      *)
(* under the instance (logRecord, appendSessionLog).                       *)
(***************************************************************************)
RecordedOnce ==
    \A n \in DOMAIN typed :
        /\ Len(typed[n].home) =
              (IF typed[n].at = "over" /\ (typed[n].step \/ typed[n].line # "models")
               THEN 1 ELSE 0)
        /\ NoSession \in Range(typed[n].home) => Archives # {}

(***************************************************************************)
(* Recorded in today's session (executeCommand): the default of an earlier *)
(* day than a command was entered on has its record only if somebody       *)
(* picked that default, or for a step of a ridealong, which does not roll  *)
(* over.                                                                   *)
(***************************************************************************)
RolledInTime ==
    \A n \in DOMAIN typed : \A s \in Range(typed[n].home) :
        (IsDefault(s) /\ s.n < typed[n].day) =>
            \/ typed[n].step
            \/ \E m \in DOMAIN typed :
                  typed[m].line = "select" /\ s \in Range(typed[m].home)

(***************************************************************************)
(* A daily default follows an earlier one, and one in which something was  *)
(* done (rolloverDailyDefault): entered or recorded there.                 *)
(***************************************************************************)
FollowsWork ==
    \A d \in 1 .. MaxDays :
        LET f == shelf[Daily(d)].follows IN
        f # NoSession =>
            /\ IsDefault(f) /\ f.n < d
            /\ \E n \in DOMAIN typed : typed[n].from = f \/ f \in Range(typed[n].home)

(***************************************************************************)
(* A session a connected host has becomes another one of this host's only  *)
(* when the operator agreed to it (handleSetSession), or renamed what an   *)
(* archive or a restart had left of it.                                    *)
(***************************************************************************)
NoSilentFork ==
    (peerHas /\ shelf[Named(1)].yaml = "ours") =>
        \/ \E n \in DOMAIN typed : typed[n].line = "create" /\ typed[n].made # NoSession
        \/ Archives # {}

CommandsKept == RecordedOnce /\ RolledInTime /\ FollowsWork /\ NoSilentFork
=============================================================================
