---------------------------- MODULE SessionLogs -----------------------------
(***************************************************************************)
(* One session on several hosts.  The host session.yaml names as owner     *)
(* writes session.jsonl; every other appends to a secondary log of its own *)
(* (clauditable, federation-command).  local-representative pulls the      *)
(* owner's files to the others and their logs to the owner, and            *)
(* session-manager fuses them there and prunes what has come back.  Each   *)
(* is a process of its own: only the locks on the logs order them.         *)
(***************************************************************************)
EXTENDS Naturals, SequencesExt, Services

CONSTANTS Hosts, Creator, \* where new-session ran
          MaxTurns,       \* records of all hosts
          MaxClaims       \* creations, renames and archivings of it elsewhere

ASSUME SessionLogsAssumption ==
    Creator \in Hosts /\ MaxTurns \in Nat /\ MaxClaims \in Nat

VARIABLES yaml,      \* session.yaml's owner; none, or one from before owners
          logs,      \* host -> session.jsonl, and secondary logs by their host
          writing,   \* an append: its log, and how far it is
          pulling,   \* a pull: the peer and the file it has decided to fetch
          pruning,   \* the turns session.jsonl had when a prune read it
          prompted,  \* hosts whose user is asked to create the session
          archived,  \* turns in archives
          written,   \* history: turns whose append has ended
          mishaps,   \* history: what may lose a turn
          claims

sessionVars == <<yaml, logs, writing, pulling, pruning, prompted, archived, written,
                 mishaps, claims>>

Turns == [host : Hosts, n : 1 .. MaxTurns]
LogNames == Hosts \cup {"primary"}
NotWriting == [at |-> "none", log |-> "primary", turn |-> [host |-> Creator, n |-> 1]]
NotPulling == [from |-> Creator, file |-> "none"]
NotPruning == [on |-> FALSE, have |-> {}]
TurnsIn(log) == {e.turn : e \in ToSet(log)}

SessionLogsTypeOK ==
    /\ yaml \in [Hosts -> Hosts \cup {"none", "unnamed"}]
    /\ \A h \in Hosts, l \in LogNames :
           /\ logs[h][l] \in Seq([turn : Turns, cut : BOOLEAN])
           /\ l # "primary" => \A e \in ToSet(logs[h][l]) : e.turn.host = l
    /\ writing \in [Hosts -> [at : {"none", "decided", "writing"}, log : LogNames, turn : Turns]]
    /\ pulling \in [Hosts -> [from : Hosts, file : {"none", "yaml"} \cup LogNames]]
    /\ \A h \in Hosts : pruning[h].have \subseteq Turns
    /\ prompted \subseteq Hosts /\ archived \subseteq Turns /\ written \subseteq Turns
    /\ mishaps \subseteq {"replaced", "stopped", "cut"}
    /\ claims \in 0 .. MaxClaims

SessionLogsInit ==
    /\ \E owner \in {Creator, "unnamed"} :
           yaml = [h \in Hosts |-> IF h = Creator THEN owner ELSE "none"]
    /\ logs = [h \in Hosts |-> [l \in LogNames |-> << >>]]
    /\ writing = [h \in Hosts |-> NotWriting]
    /\ pulling = [h \in Hosts |-> NotPulling]
    /\ pruning = [h \in Hosts |-> NotPruning]
    /\ prompted = {} /\ archived = {} /\ written = {} /\ mishaps = {} /\ claims = 0

-----------------------------------------------------------------------------
\* A session.yaml without an owner belongs to whichever host has it, a session
\* without session.yaml to nobody here.
isSessionOwner(h) == yaml[h] \in {h, "unnamed"}
HasSession(h) == yaml[h] # "none" \/ \E l \in LogNames : logs[h][l] # << >>

\* A mutant: a secondary log is named after the session's creator.
CreatorsTarget(h) == IF isSessionOwner(h) THEN "primary" ELSE Creator

writeTargetFor(h) == IF isSessionOwner(h) THEN "primary" ELSE h

\* A command is recorded: the log is chosen before it runs.  (federation-command
\* chooses at each record, with nothing in between.)
Taken == written \cup {writing[h].turn : h \in {g \in Hosts : writing[g].at # "none"}} \cup archived

RecordTurn(h) ==
    LET n == Cardinality({t.n : t \in Taken}) + 1 IN
    /\ Moves("sessions") /\ writing[h].at = "none" /\ n <= MaxTurns
    /\ writing' = [writing EXCEPT ![h] =
         [at |-> "decided", log |-> writeTargetFor(h), turn |-> [host |-> h, n |-> n]]]
    /\ UNCHANGED <<yaml, logs, pulling, pruning, prompted, archived, written, mishaps, claims>>

\* One write under the log's lock, which readers do not take: until it has
\* ended they may see part of it.
AppendBegins(h) ==
    LET w == writing[h] IN
    /\ w.at = "decided"
    /\ writing' = [writing EXCEPT ![h].at = "writing"]
    /\ logs' = [logs EXCEPT ![h][w.log] = Append(@, [turn |-> w.turn, cut |-> TRUE])]
    /\ UNCHANGED <<yaml, pulling, pruning, prompted, archived, written, mishaps, claims>>

AppendEnds(h) ==
    LET w == writing[h] IN
    /\ w.at = "writing"
    /\ writing' = [writing EXCEPT ![h] = NotWriting]
    /\ logs' = [logs EXCEPT ![h][w.log] =
         [i \in DOMAIN @ |-> IF @[i].turn = w.turn THEN [@[i] EXCEPT !.cut = FALSE] ELSE @[i]]]
    /\ written' = written \cup {w.turn}
    /\ UNCHANGED <<yaml, pulling, pruning, prompted, archived, mishaps, claims>>

Locked(h, l) == writing[h].at = "writing" /\ writing[h].log = l

-----------------------------------------------------------------------------
\* local-representative pulls one file from one peer; peers that cannot be
\* reached, and files, come in any order.  Pulls of a session are serialized.
AtPeer(p, f) == IF f = "yaml" THEN yaml[p] ELSE logs[p][f]
Has(h, f) == IF f = "yaml" THEN yaml[h] # "none" ELSE logs[h][f] # << >>

\* With no session.yaml here a peer that answers names the owner.
findSessionOwner(h) ==
    IF yaml[h] # "none" THEN {yaml[h]}
    ELSE {"unnamed"} \cup {yaml[p] : p \in {q \in Hosts \ {h} : yaml[q] # "none"}}

\* A mutant: secondary logs go from every host to every other.
AllowsCopies(h, p, f, owner) ==
    \/ f \in {"yaml", "primary"} /\ ~isSessionOwner(h) /\ (p = owner \/ ~Has(h, f))
    \/ f \notin {"yaml", "primary"}

\* The owner's own files come from the owner, or from anybody when there is
\* none here; a secondary log comes to the owner, from the host that writes it.
allows(h, p, f, owner) ==
    \/ f \in {"yaml", "primary"} /\ ~isSessionOwner(h) /\ (p = owner \/ ~Has(h, f))
    \/ f = p /\ isSessionOwner(h)

PullLooks(h, p, f) ==
    /\ Moves("sessions") /\ pulling[h].file = "none" /\ p # h
    /\ Has(p, f) /\ AtPeer(h, f) # AtPeer(p, f)
    /\ \E owner \in findSessionOwner(h) : allows(h, p, f, owner)
    /\ pulling' = [pulling EXCEPT ![h] = [from |-> p, file |-> f]]
    /\ UNCHANGED <<yaml, logs, writing, pruning, prompted, archived, written, mishaps, claims>>

\* What the peer has by now is renamed into place, over whatever is here by
\* now: should this host have claimed the session meanwhile, over its own.
fetchSessionFile(h) ==
    LET p == pulling[h].from
        f == pulling[h].file IN
    /\ f # "none" /\ Has(p, f)
    /\ IF f = "yaml" THEN yaml' = [yaml EXCEPT ![h] = yaml[p]] /\ UNCHANGED logs
                     ELSE logs' = [logs EXCEPT ![h][f] = logs[p][f]] /\ UNCHANGED yaml
    /\ mishaps' = IF f \in {"yaml", "primary"} /\ isSessionOwner(h) THEN mishaps \cup {"replaced"}
                  ELSE mishaps
    /\ pulling' = [pulling EXCEPT ![h] = NotPulling]
    /\ UNCHANGED <<writing, pruning, prompted, archived, written, claims>>

FetchFails(h) ==
    /\ pulling[h].file # "none"
    /\ pulling' = [pulling EXCEPT ![h] = NotPulling]
    /\ UNCHANGED <<yaml, logs, writing, pruning, prompted, archived, written, mishaps, claims>>

-----------------------------------------------------------------------------
\* session-manager, before it shows the session.  The owner appends the turns
\* of secondary logs that it does not have, in one write under the lock.  Of a
\* turn that was being written when its log was read it takes what there was.
fuseSecondaryLogs(h) ==
    LET Entries == UNION {ToSet(logs[h][k]) : k \in Hosts}
        Lacking == {e \in Entries : e.turn \notin TurnsIn(logs[h]["primary"])}
        Whole(t) == CHOOSE e \in Lacking : e.turn = t
        pending == [t \in {e.turn : e \in Lacking} |-> Whole(t)] IN
    /\ isSessionOwner(h) /\ ~Locked(h, "primary") /\ Lacking # {}
    /\ logs' = [logs EXCEPT ![h]["primary"] = @ \o SetToSeq({pending[t] : t \in DOMAIN pending})]
    /\ mishaps' = IF \E t \in DOMAIN pending : pending[t].cut THEN mishaps \cup {"cut"} ELSE mishaps
    /\ UNCHANGED <<yaml, writing, pulling, pruning, prompted, archived, written, claims>>

\* Another host drops from its log the turns that session.jsonl had when it was
\* read, once it has the log's lock.
PruneReads(h) ==
    /\ ~isSessionOwner(h) /\ ~pruning[h].on
    /\ logs[h][h] # << >> /\ logs[h]["primary"] # << >>
    /\ pruning' = [pruning EXCEPT ![h] = [on |-> TRUE, have |-> TurnsIn(logs[h]["primary"])]]
    /\ UNCHANGED <<yaml, logs, writing, pulling, prompted, archived, written, mishaps, claims>>

pruneSecondaryLog(h) ==
    LET keep == SelectSeq(logs[h][h], LAMBDA e : e.turn \notin pruning[h].have) IN
    /\ pruning[h].on /\ ~Locked(h, h)
    /\ pruning' = [pruning EXCEPT ![h] = NotPruning]
    /\ \/ logs' = [logs EXCEPT ![h][h] = keep] /\ UNCHANGED mishaps
       \/ \* a stop after the log is truncated, before what is kept is written
          /\ keep \notin {<< >>, logs[h][h]}
          /\ logs' = [logs EXCEPT ![h][h] = << >>]
          /\ mishaps' = mishaps \cup {"stopped"}
    /\ UNCHANGED <<yaml, writing, pulling, prompted, archived, written, claims>>

-----------------------------------------------------------------------------
\* set-session where no session.yaml could be pulled: the user is asked, and
\* may have it created here.
Claims == claims < MaxClaims /\ claims' = claims + 1

handleSetSession(h) ==
    /\ Moves("sessions") /\ yaml[h] = "none" /\ h \notin prompted /\ Claims
    /\ prompted' = prompted \cup {h}
    /\ UNCHANGED <<yaml, logs, writing, pulling, pruning, archived, written, mishaps>>

createSessionWithID(h) ==
    /\ h \in prompted /\ prompted' = prompted \ {h}
    /\ \/ yaml' = [yaml EXCEPT ![h] = IF @ = "none" THEN h ELSE @]
       \/ UNCHANGED yaml
    /\ UNCHANGED <<logs, writing, pulling, pruning, archived, written, mishaps, claims>>

\* A rename where there is no session.yaml writes one that names this host.
renameSession(h) ==
    /\ yaml[h] = "none" /\ HasSession(h) /\ Claims
    /\ yaml' = [yaml EXCEPT ![h] = h]
    /\ UNCHANGED <<logs, writing, pulling, pruning, prompted, archived, written, mishaps>>

archiveSessions(h) ==
    /\ HasSession(h) /\ writing[h].at = "none" /\ ~pruning[h].on /\ Claims
    /\ archived' = archived \cup UNION {TurnsIn(logs[h][l]) : l \in LogNames}
    /\ yaml' = [yaml EXCEPT ![h] = "none"]
    /\ logs' = [logs EXCEPT ![h] = [l \in LogNames |-> << >>]]
    /\ UNCHANGED <<writing, pulling, pruning, prompted, written, mishaps>>

-----------------------------------------------------------------------------
SessionLogsNext ==
    \/ \E h \in Hosts :
         \/ RecordTurn(h) \/ AppendBegins(h) \/ AppendEnds(h)
         \/ fetchSessionFile(h) \/ FetchFails(h)
         \/ fuseSecondaryLogs(h) \/ PruneReads(h) \/ pruneSecondaryLog(h)
         \/ handleSetSession(h) \/ createSessionWithID(h)
         \/ renameSession(h) \/ archiveSessions(h)
    \/ \E h, p \in Hosts, f \in {"yaml"} \cup LogNames : PullLooks(h, p, f)

-----------------------------------------------------------------------------
\* spliceSecondaryEntries: what a host shows of the session.
Shown(h) == UNION {TurnsIn(logs[h][l]) : l \in LogNames}
Owners == {h \in Hosts : isSessionOwner(h)}

\* No turn is lost on its way through the logs.  Whatever the hosts pull, fuse
\* and prune in between, a recorded turn is in the log of its own host, in an
\* owner's session.jsonl or in an archive; and as long as nobody else has
\* claimed or archived the session, every host shows its own turns, and no log
\* has one twice.  (Excepted: the accidents in mishaps.)
TurnsKept ==
    mishaps = {} =>
      /\ written \subseteq archived \cup UNION {TurnsIn(logs[h][h]) : h \in Hosts}
                            \cup UNION {TurnsIn(logs[h]["primary"]) : h \in Owners}
      /\ (claims = 0 /\ Owners = {Creator}) => \A t \in written : t \in Shown(t.host)
      /\ \A h \in Hosts, l \in LogNames : Len(logs[h][l]) = Cardinality(TurnsIn(logs[h][l]))
=============================================================================
