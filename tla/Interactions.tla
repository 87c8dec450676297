---------------------------- MODULE Interactions ----------------------------
(***************************************************************************)
(* condocv2's handler (condocv2/slopspace.go, complete.go, final.go): a    *)
(* condoc is proposed and begun, then takes prompts one at a time under a  *)
(* lock, and ends in pull requests, one for every repository with changes. *)
(* A turn loop carries out one interaction at a time, whichever condoc it  *)
(* is of; the driver's tick queues what a restart or a Resubmit left.      *)
(*                                                                         *)
(* A request of the UI is a step but for Prompt, whose lock is committed   *)
(* before the prompt is inserted.  A failing operation leaves what was     *)
(* done before it.  Other services' slopspaces are Other.                  *)
(***************************************************************************)
EXTENDS Services, Integers, SequencesExt

CONSTANTS Held,             \* the condocs this condocv2 holds
          Beginnings,       \* how far each of them is to begin with
          MaxTargets,       \* target repositories of each
          MaxInteractions,  \* interactions of a condoc
          MaxRequests,      \* requests of the human
          MaxMishaps        \* operations that fail, crashes, outside pushes

Repos == 1 .. MaxTargets
Beginning == {"proposed", "begun", "queued", "drafted"}
CondocRepo == MaxTargets + 1
PRRepos == 1 .. MaxTargets + 1
Nobody == "nobody"
Other == "other"

ASSUME InteractionsAssumption ==
    /\ IsFiniteSet(Held) /\ Beginnings \subseteq [Held -> Beginning]
    /\ MaxTargets \in Nat \ {0}
    /\ MaxInteractions \in Nat \ {0} /\ MaxRequests \in Nat /\ MaxMishaps \in Nat

VARIABLES spec,      \* the pointer files
          slop,      \* the slopspaces, with the step files
          branches,  \* the condocs' branches in the targets
          github,    \* the pull requests
          path,      \* whose slopspace is at the deploy path
          claimed,   \* slop.busy: who works on a condoc
          queue,     \* slop.queue
          turn,      \* the turn loop
          tick,      \* the driver: what its pass has still to do
          signals,   \* the work signals of each condoc, oldest first
          used       \* requests and mishaps so far

v2Vars == <<spec, slop, branches, github, path, claimed, queue, turn, tick, signals, used>>

Phase == {"absent", "Proposed", "AwaitingPrompt", "Locked", "PRDrafting",
          "PRProposed", "PROpen", "Merged", "Archived", "Abandoned"}
Stage == {"none", "locked", "prompted", "queued", "deployed", "signalled",
          "returned", "responded", "mapped", "recorded"}
Submitted == Stage \ {"none", "locked", "prompted"}

Positions == [Repos -> Nat]
NoBases == [t \in Repos |-> -1]

\* PointerSpec with its InteractionLock; sig names a signal of the condoc's.
PointerSpec == [phase : Phase, done : 0 .. MaxInteractions, stage : Stage, auto : BOOLEAN,
         bases : Positions \cup {NoBases}, heads : Positions \cup {NoBases}, sig : Nat,
         prs : [PRRepos -> {"none", "open", "merged"}], from : Phase, error : BOOLEAN]
NoSpec == [phase |-> "absent", done |-> 0, stage |-> "none", auto |-> FALSE,
           bases |-> NoBases, heads |-> NoBases, sig |-> 0,
           prs |-> [r \in PRRepos |-> "none"], from |-> "absent", error |-> FALSE]

Heading(kind, n, from, to) == [kind |-> kind, n |-> n, from |-> from, to |-> to]

\* file is the step file, pushed how much of it the condoc repo has, reply
\* whether the captured reply lies beside it, edits what agents changed.
NoSlop == [exists |-> FALSE, file |-> <<>>, pushed |-> 0, reply |-> FALSE,
           edits |-> [t \in Repos |-> FALSE]]

\* A branch as origin has it, how much of that the slopspace knows, and the
\* commits only the slopspace has; a commit is its interaction's number, 0 from
\* outside.
NoBranch == [origin |-> <<>>, known |-> 0, ahead |-> <<>>]
NewBranch == [origin |-> <<0>>, known |-> 1, ahead |-> <<>>]

NoTurn == [at |-> "idle", of |-> Nobody, spec |-> NoSpec]

InteractionsTypeOK ==
    /\ spec \in [Held -> PointerSpec]
    /\ \A c \in Held :
          /\ slop[c].exists \in BOOLEAN /\ slop[c].reply \in BOOLEAN
          /\ slop[c].pushed \in 0 .. Len(slop[c].file)
          /\ slop[c].edits \in [Repos -> BOOLEAN]
          /\ \A t \in Repos : \A i \in DOMAIN branches[c][t].origin :
                branches[c][t].origin[i] \in 0 .. MaxInteractions
          /\ \A i \in DOMAIN signals[c] : signals[c][i] \in {"pending", "taken", "done", "unread", "lost"}
    /\ github \in [Held -> [PRRepos -> {"none", "open", "merged"}]]
    /\ path \in Held \cup {Nobody, Other}
    /\ claimed \in [Held -> {"free", "ui", "tick", "turn"}]
    /\ queue \in Seq(Held)
    /\ turn.at \in {"idle", "stage", "save", "failed", "ended"} /\ turn.spec \in PointerSpec
    /\ tick \in [Held -> {"seen", "insert", "enqueue"}]
    /\ used \in [requests : 0 .. MaxRequests, mishaps : 0 .. MaxMishaps]

-----------------------------------------------------------------------------
\* The step file and the branches.

Zero == [t \in Repos |-> 0]
PromptOf(n) == Heading("Prompt", n, Zero, Zero)
ResponseOf(n) == Heading("Response", n, Zero, Zero)
Interaction(n, from, to) == <<PromptOf(n), ResponseOf(n), Heading("Record", n, from, to)>>

\* Mutant: a stage tried again appends its section again.
AppendAnyway(file, s) == Append(file, s)

\* Unless it is there already: a stage tried again after its commit failed.
appendSection(file, s) ==
    IF \E i \in DOMAIN file : file[i].kind = s.kind /\ file[i].n = s.n THEN file
    ELSE Append(file, s)

RepoHead(b) == b.known + Len(b.ahead)

\* The rebase puts what is unpushed on top of what others pushed.
gitIntegrateRemote(b) == [b EXCEPT !.known = Len(b.origin)]

gitCommit(b, n, changed) == IF changed THEN [b EXCEPT !.ahead = Append(@, n)] ELSE b

gitPush(b) == [origin |-> b.origin \o b.ahead, known |-> b.known + Len(b.ahead), ahead |-> <<>>]

\* Mutant: the head is read before the rebase brings in what others pushed.
HeadBefore(b, n, changed) == RepoHead(gitCommit(b, n, changed))

\* The head WriteRepoChanges returns.
WrittenHead(b, n, changed) == RepoHead(gitIntegrateRemote(gitCommit(b, n, changed)))

WriteRepoChanges(b, n, changed) == gitPush(gitIntegrateRemote(gitCommit(b, n, changed)))

\* condocv2 starts on the pointers there are: of a condoc that is proposed, that
\* takes prompts, whose first prompt was submitted, or that has its drafts after
\* one interaction that changed the targets.
BegunSlop == [NoSlop EXCEPT !.exists = TRUE]
QueuedSlop == [BegunSlop EXCEPT !.file = <<PromptOf(1)>>, !.pushed = 1]
DraftedSlop == [BegunSlop EXCEPT !.file = Interaction(1, [t \in Repos |-> 1], [t \in Repos |-> 2]),
                         !.pushed = 3]
StartSpec(k) ==
    CASE k = "proposed" -> [NoSpec EXCEPT !.phase = "Proposed"]
      [] k = "begun"    -> [NoSpec EXCEPT !.phase = "AwaitingPrompt"]
      [] k = "queued"   -> [NoSpec EXCEPT !.phase = "Locked", !.stage = "queued"]
      [] k = "drafted"  -> [NoSpec EXCEPT !.phase = "PRProposed", !.done = 1]

InteractionsInit ==
    /\ \E start \in Beginnings :
          /\ spec = [c \in Held |-> StartSpec(start[c])]
          /\ slop = [c \in Held |-> CASE start[c] = "proposed" -> NoSlop
                                       [] start[c] = "begun"    -> BegunSlop
                                       [] start[c] = "queued"   -> QueuedSlop
                                       [] start[c] = "drafted"  -> DraftedSlop]
          /\ branches = [c \in Held |-> [t \in Repos |->
                 CASE start[c] = "proposed" -> NoBranch
                   [] start[c] \in {"begun", "queued"} -> NewBranch
                   [] start[c] = "drafted"  -> [origin |-> <<0, 1>>, known |-> 2, ahead |-> <<>>]]]
    /\ github = [c \in Held |-> [r \in PRRepos |-> "none"]]
    /\ path = Nobody
    /\ claimed = [c \in Held |-> "free"] /\ queue = <<>> /\ turn = NoTurn
    /\ tick = [c \in Held |-> "seen"]
    /\ signals = [c \in Held |-> <<>>]
    /\ used = [requests |-> 0, mishaps |-> 0]

-----------------------------------------------------------------------------
\* The claims, requests and mishaps.

Mishap == used.mishaps < MaxMishaps /\ used' = [used EXCEPT !.mishaps = @ + 1]

\* What a handler of the UI begins with; its guard refuses, and changes nothing.
Request(c) ==
    /\ used.requests < MaxRequests /\ used' = [used EXCEPT !.requests = @ + 1]
    /\ claimed[c] = "free"

writeSpec(c, s) == spec' = [spec EXCEPT ![c] = s]

enqueueTurn(c) == queue' = IF turn.of = c \/ c \in ToSet(queue) THEN queue ELSE Append(queue, c)

dequeue(c) == queue' = RemoveFirst(queue, c)

IsFinal(phase) == phase \in {"Archived", "Abandoned"}

World == <<slop, branches, github, path, signals>>
Loops == <<claimed, queue, turn, tick>>

-----------------------------------------------------------------------------
\* From the proposal to the prompts.

slopPropose(c) ==
    /\ Request(c) /\ spec[c].phase = "absent"
    /\ writeSpec(c, [NoSpec EXCEPT !.phase = "Proposed"])
    /\ UNCHANGED <<World, Loops>>

slopWithdraw(c) ==
    /\ Request(c) /\ spec[c].phase = "Proposed"
    /\ writeSpec(c, NoSpec)
    /\ UNCHANGED <<World, Loops>>

\* Refused where the branch exists; undone, but for the branch at origin, when
\* one of its operations fails.
slopAccept(c) ==
    /\ Request(c) /\ spec[c].phase = "Proposed"
    /\ \A t \in Repos : branches[c][t] = NoBranch
    /\ slop' = [slop EXCEPT ![c] = [NoSlop EXCEPT !.exists = TRUE]]
    /\ branches' = [branches EXCEPT ![c] = [t \in Repos |-> NewBranch]]
    /\ writeSpec(c, [spec[c] EXCEPT !.phase = "AwaitingPrompt"])
    /\ UNCHANGED <<github, path, signals, Loops>>

slopAcceptFails(c) ==
    /\ Mishap /\ claimed[c] = "free" /\ spec[c].phase = "Proposed"
    /\ \A t \in Repos : branches[c][t] = NoBranch
    /\ \E got \in 0 .. MaxTargets :
          branches' = [branches EXCEPT ![c] =
              [t \in Repos |-> IF t <= got THEN NewBranch ELSE NoBranch]]
    /\ UNCHANGED <<spec, slop, github, path, signals, Loops>>

-----------------------------------------------------------------------------
\* An interaction: the lock and the prompt.

slopPrompt(c) ==
    /\ Request(c) /\ spec[c].phase = "AwaitingPrompt" /\ spec[c].stage = "none"
    /\ ~spec[c].error /\ spec[c].done < MaxInteractions
    /\ \E auto \in BOOLEAN :
          writeSpec(c, [spec[c] EXCEPT !.phase = "Locked", !.stage = "locked", !.auto = auto,
                                       !.bases = NoBases, !.heads = NoBases, !.sig = 0])
    /\ claimed' = [claimed EXCEPT ![c] = "ui"]
    /\ UNCHANGED <<World, queue, turn, tick>>

\* The lock's commit fails with the file written: the request has failed, and
\* the tick finds the lock and goes on with it.
slopPromptFails(c) ==
    /\ Mishap /\ claimed[c] = "free" /\ spec[c].phase = "AwaitingPrompt"
    /\ spec[c].stage = "none" /\ ~spec[c].error /\ spec[c].done < MaxInteractions
    /\ writeSpec(c, [spec[c] EXCEPT !.phase = "Locked", !.stage = "locked", !.auto = TRUE,
                                    !.bases = NoBases, !.heads = NoBases, !.sig = 0])
    /\ UNCHANGED <<World, Loops>>

Inserting(c) == claimed[c] \in {"ui", "tick"} /\ spec[c].stage = "locked"

\* The prompt's commit, and the queue when it is submitted at once.
insertPrompt(c) ==
    /\ Inserting(c) /\ path # c
    /\ LET file == appendSection(slop[c].file, PromptOf(spec[c].done + 1))
       IN  slop' = [slop EXCEPT ![c].file = file, ![c].pushed = Len(file)]
    /\ writeSpec(c, [spec[c] EXCEPT !.stage = IF spec[c].auto THEN "queued" ELSE "prompted"])
    /\ IF spec[c].auto THEN enqueueTurn(c) ELSE UNCHANGED queue
    /\ claimed' = [claimed EXCEPT ![c] = "free"]
    /\ UNCHANGED <<branches, github, path, signals, turn, tick, used>>

\* With the prompt in the file or not: setSpecError, and the lock keeps it.
insertPromptFails(c) ==
    /\ Inserting(c)
    /\ IF path = c THEN UNCHANGED <<slop, used>>
       ELSE /\ Mishap
            /\ \E wrote \in BOOLEAN :
                  slop' = IF wrote
                          THEN [slop EXCEPT ![c].file = appendSection(@, PromptOf(spec[c].done + 1))]
                          ELSE slop
    /\ writeSpec(c, [spec[c] EXCEPT !.error = TRUE])
    /\ claimed' = [claimed EXCEPT ![c] = "free"]
    /\ UNCHANGED <<branches, github, path, signals, queue, turn, tick>>

slopSubmit(c) ==
    /\ Request(c) /\ spec[c].stage = "prompted" /\ ~spec[c].error
    /\ writeSpec(c, [spec[c] EXCEPT !.stage = "queued"])
    /\ enqueueTurn(c)
    /\ UNCHANGED <<World, claimed, turn, tick>>

\* A draft turn starts over with a signal of its own.
slopResubmit(c) ==
    /\ Request(c) /\ spec[c].error
    /\ writeSpec(c, [spec[c] EXCEPT !.error = FALSE,
                                    !.sig = IF spec[c].phase = "PRDrafting" THEN 0 ELSE @])
    /\ UNCHANGED <<World, Loops>>

-----------------------------------------------------------------------------
\* The driver's tick: reads every pointer, then sees to each; the
\* order, of their names, is left open.

\* Mutant: only a turn that was never started is queued again.
DueQueuedOnly(s) ==
    CASE IsFinal(s.phase) \/ s.error -> "seen"
      [] s.phase = "PRDrafting" -> "enqueue"
      [] s.stage = "locked" -> "insert"
      [] s.stage = "queued" -> "enqueue"
      [] OTHER -> "seen"

Due(s) ==
    CASE IsFinal(s.phase) \/ s.error -> "seen"
      [] s.phase = "PRDrafting" -> "enqueue"
      [] s.stage = "locked" -> "insert"
      [] s.stage \in Submitted -> "enqueue"
      [] OTHER -> "seen"

\* A condoc queued already is passed over here: to queue it again does nothing
\* unless its turn ends within the pass, and then there is nothing to run.
DueNow(c) ==
    IF Due(spec[c]) = "enqueue" /\ (turn.of = c \/ c \in ToSet(queue)) THEN "seen"
    ELSE Due(spec[c])

Passing == \A c \in Held : claimed[c] # "tick"

TickReads ==
    /\ Passing /\ \A c \in Held : tick[c] = "seen"
    /\ tick' = [c \in Held |-> DueNow(c)]
    /\ tick' # tick
    /\ UNCHANGED <<spec, World, claimed, queue, turn, used>>

TickEnqueues(c) ==
    /\ Passing /\ tick[c] = "enqueue" /\ enqueueTurn(c)
    /\ tick' = [tick EXCEPT ![c] = "seen"]
    /\ UNCHANGED <<spec, World, claimed, turn, used>>

\* Read again under the claim; the phase is not looked at again.
TickInserts(c) ==
    /\ Passing /\ tick[c] = "insert"
    /\ tick' = [tick EXCEPT ![c] = "seen"]
    /\ claimed' = IF claimed[c] = "free" /\ spec[c].stage = "locked" /\ ~spec[c].error
                  THEN [claimed EXCEPT ![c] = "tick"] ELSE claimed
    /\ UNCHANGED <<spec, World, queue, turn, used>>

-----------------------------------------------------------------------------
\* The turn loop.

Runnable(s) ==
    /\ ~s.error /\ ~IsFinal(s.phase)
    /\ s.phase = "PRDrafting" \/ s.stage \in Submitted

slopTurnLoop ==
    /\ turn.at = "idle" /\ queue # <<>> /\ claimed[Head(queue)] = "free"
    /\ LET c == Head(queue) IN
       /\ claimed' = [claimed EXCEPT ![c] = "turn"]
       /\ turn' = [at |-> IF Runnable(spec[c]) THEN "stage" ELSE "ended", of |-> c,
                   spec |-> spec[c]]
    /\ UNCHANGED <<spec, World, queue, tick, used>>

At(stage) == turn.at = "stage" /\ turn.spec.phase # "PRDrafting" /\ turn.spec.stage = stage

me == turn.of

\* The stage is done, and to be saved; or has failed.
Reached(s) == turn' = [turn EXCEPT !.at = "save", !.spec = s]
Failed == turn' = [turn EXCEPT !.at = "failed"]
TurnKeeps == UNCHANGED <<spec, claimed, queue, tick>>

\* errTurnWait: it stays at the head of the queue.
TurnWaits ==
    /\ At("queued") /\ path \notin {Nobody, me}
    /\ turn' = NoTurn /\ claimed' = [claimed EXCEPT ![me] = "free"]
    /\ UNCHANGED <<spec, World, queue, tick, used>>

\* The bases once, after SyncRepo of every target unless deployed already; then
\* Deploy.
TurnDeploys ==
    /\ At("queued") /\ path \in {Nobody, me}
    /\ LET synced == IF path # me /\ turn.spec.bases = NoBases
                     THEN [t \in Repos |-> gitIntegrateRemote(branches[me][t])]
                     ELSE branches[me]
       IN  /\ branches' = [branches EXCEPT ![me] = synced]
           /\ Reached([turn.spec EXCEPT !.stage = "deployed",
                  !.bases = IF @ = NoBases THEN [t \in Repos |-> RepoHead(synced[t])] ELSE @])
    /\ path' = me
    /\ TurnKeeps /\ UNCHANGED <<slop, github, signals, used>>

TurnDeployFails ==
    /\ At("queued") /\ path \in {Nobody, me} /\ Mishap /\ Failed
    /\ TurnKeeps /\ UNCHANGED World

TurnSubmits ==
    /\ At("deployed")
    /\ IF path = me
       THEN /\ signals' = [signals EXCEPT ![me] = Append(@, "pending")]
            /\ Reached([turn.spec EXCEPT !.stage = "signalled", !.sig = Len(signals[me]) + 1])
       ELSE Failed /\ UNCHANGED signals
    /\ TurnKeeps /\ UNCHANGED <<slop, branches, github, path, used>>

\* awaitSignal; then the reply's file, and Return.
TurnCollects ==
    /\ At("signalled") /\ signals[me][turn.spec.sig] = "done"
    /\ slop' = [slop EXCEPT ![me].reply = TRUE]
    /\ \/ /\ path' = IF path = me THEN Nobody ELSE path
          /\ Reached([turn.spec EXCEPT !.stage = "returned"])
          /\ UNCHANGED used
       \/ Mishap /\ Failed /\ UNCHANGED path
    /\ TurnKeeps /\ UNCHANGED <<branches, github, signals>>

\* The signal cannot be read, or is gone: no Resubmit helps.
TurnSignalUnread ==
    /\ At("signalled") /\ signals[me][turn.spec.sig] = "unread"
    /\ Failed
    /\ TurnKeeps /\ UNCHANGED <<World, used>>

WritesFile(file) == slop' = [slop EXCEPT ![me].file = file, ![me].pushed = Len(file), ![me].reply = FALSE]

\* The reply's file goes when the response is committed, before the stage is
\* saved: without it the stage cannot be run again.
TurnResponds ==
    /\ At("returned")
    /\ LET file == appendSection(slop[me].file, ResponseOf(turn.spec.done + 1)) IN
       \/ /\ slop[me].reply /\ path # me
          /\ WritesFile(file) /\ Reached([turn.spec EXCEPT !.stage = "responded"])
          /\ UNCHANGED used
       \/ /\ ~slop[me].reply \/ path = me
          /\ Failed /\ UNCHANGED <<slop, used>>
       \/ /\ slop[me].reply /\ path # me
          /\ slop' = [slop EXCEPT ![me].file = file] /\ Mishap /\ Failed
    /\ TurnKeeps /\ UNCHANGED <<branches, github, path, signals>>

\* WriteRepoChanges in each target; of one that fails the commit may be left
\* unpushed.
TurnCommits ==
    /\ At("responded")
    /\ LET n == turn.spec.done + 1
           Write(t) == WriteRepoChanges(branches[me][t], n, slop[me].edits[t])
       IN  \/ /\ branches' = [branches EXCEPT ![me] = [t \in Repos |-> Write(t)]]
              /\ slop' = [slop EXCEPT ![me].edits = [t \in Repos |-> FALSE]]
              /\ Reached([turn.spec EXCEPT !.stage = "mapped",
                            !.heads = [t \in Repos |->
                                WrittenHead(branches[me][t], n, slop[me].edits[t])]])
              /\ UNCHANGED used
           \/ \E t \in Repos :
              /\ branches' = [branches EXCEPT ![me] = [u \in Repos |->
                     IF u < t THEN Write(u)
                     ELSE IF u = t THEN gitCommit(branches[me][t], n, slop[me].edits[t])
                     ELSE branches[me][u]]]
              /\ slop' = [slop EXCEPT ![me].edits = [u \in Repos |-> u > t /\ @[u]]]
              /\ Mishap /\ Failed
    /\ TurnKeeps /\ UNCHANGED <<github, path, signals>>

TurnRecords ==
    /\ At("mapped")
    /\ LET file == appendSection(slop[me].file,
                       Heading("Record", turn.spec.done + 1, turn.spec.bases, turn.spec.heads)) IN
       \/ WritesFile(file) /\ Reached([turn.spec EXCEPT !.stage = "recorded"]) /\ UNCHANGED used
       \/ slop' = [slop EXCEPT ![me].file = file] /\ Mishap /\ Failed
    /\ TurnKeeps /\ UNCHANGED <<branches, github, path, signals>>

\* Mutant: the pointer keeps the lock.
UnlockedKeeps ==
    /\ At("recorded")
    /\ writeSpec(me, [turn.spec EXCEPT !.phase = "AwaitingPrompt", !.done = @ + 1])
    /\ turn' = [turn EXCEPT !.at = "ended"] /\ UNCHANGED used
    /\ signals' = [signals EXCEPT ![me] = <<>>]
    /\ UNCHANGED <<slop, branches, github, path, claimed, queue, tick>>

\* The unlock commit; when it fails the unlocked pointer gets the error.
TurnUnlocks ==
    /\ At("recorded")
    /\ writeSpec(me, [turn.spec EXCEPT !.stage = "none", !.phase = "AwaitingPrompt",
                                       !.done = @ + 1])
    /\ \/ turn' = [turn EXCEPT !.at = "ended"] /\ UNCHANGED used
       \/ Mishap /\ Failed
    /\ signals' = [signals EXCEPT ![me] = <<>>]
    /\ UNCHANGED <<slop, branches, github, path, claimed, queue, tick>>

\* writeSpec after each stage.
TurnSaves ==
    /\ turn.at = "save"
    /\ \/ writeSpec(me, turn.spec) /\ turn' = [turn EXCEPT !.at = "stage"] /\ UNCHANGED used
       \/ Mishap /\ Failed /\ UNCHANGED spec
    /\ UNCHANGED <<World, claimed, queue, tick>>

\* setSpecError reads the pointer as it was last saved.
TurnFails ==
    /\ turn.at = "failed"
    /\ writeSpec(me, [spec[me] EXCEPT !.error = TRUE])
    /\ turn' = [turn EXCEPT !.at = "ended"]
    /\ UNCHANGED <<World, claimed, queue, tick, used>>

TurnEnds ==
    /\ turn.at = "ended"
    /\ dequeue(me) /\ turn' = NoTurn
    /\ claimed' = [claimed EXCEPT ![me] = "free"]
    /\ UNCHANGED <<spec, World, tick, used>>

-----------------------------------------------------------------------------
\* Completion: the drafts of the pull requests.

AtDraft == turn.at = "stage" /\ turn.spec.phase = "PRDrafting"

DraftSubmits ==
    /\ AtDraft /\ turn.spec.sig = 0
    /\ signals' = [signals EXCEPT ![me] = Append(@, "pending")]
    /\ Reached([turn.spec EXCEPT !.sig = Len(signals[me]) + 1])
    /\ TurnKeeps /\ UNCHANGED <<slop, branches, github, path, used>>

\* An unusable draft is replaced by a default one, with an error to say so.
DraftCollects ==
    /\ AtDraft /\ turn.spec.sig # 0 /\ signals[me][turn.spec.sig] = "done"
    /\ \E usable \in BOOLEAN :
          writeSpec(me, [turn.spec EXCEPT !.phase = "PRProposed", !.sig = 0, !.error = ~usable])
    /\ signals' = [signals EXCEPT ![me] = <<>>]
    /\ turn' = [turn EXCEPT !.at = "ended"]
    /\ UNCHANGED <<slop, branches, github, path, claimed, queue, tick, used>>

DraftSignalUnread ==
    /\ AtDraft /\ turn.spec.sig # 0 /\ signals[me][turn.spec.sig] = "unread"
    /\ Failed
    /\ TurnKeeps /\ UNCHANGED <<World, used>>

queueDraft(c) ==
    /\ writeSpec(c, [spec[c] EXCEPT !.phase = "PRDrafting", !.sig = 0, !.error = FALSE])
    /\ enqueueTurn(c)

\* Marks the condoc's files and saves the timeline record in the condoc repo.
slopComplete(c) ==
    /\ Request(c) /\ spec[c].phase = "AwaitingPrompt" /\ spec[c].stage = "none"
    /\ ~spec[c].error /\ spec[c].done > 0 /\ path # c
    /\ slop' = [slop EXCEPT ![c].pushed = Len(slop[c].file)]
    /\ queueDraft(c)
    /\ UNCHANGED <<branches, github, path, signals, claimed, turn, tick>>

slopRedraft(c) ==
    /\ Request(c) /\ spec[c].phase = "PRProposed"
    /\ queueDraft(c)
    /\ UNCHANGED <<World, claimed, turn, tick>>

-----------------------------------------------------------------------------
\* Raising and merging, targets first and the condoc repo last.

\* The targets whose branch has commits, and always the condoc repo.
prRepos(c) == {t \in Repos : RepoHead(branches[c][t]) > 1} \cup {CondocRepo}

\* The PRs of the repositories before r, raised or found open.
Raised(c, r) == [p \in PRRepos |-> IF p \in prRepos(c) /\ p < r THEN "open" ELSE github[c][p]]

\* Create is refused when the branch has been merged meanwhile.
Refused(c, r) == r \in prRepos(c) /\ github[c][r] = "merged"

slopRaisePRs(c) ==
    /\ spec[c].phase = "PRProposed" /\ path # c
    /\ \/ /\ Request(c) /\ \A r \in PRRepos : ~Refused(c, r)
          /\ github' = [github EXCEPT ![c] = Raised(c, CondocRepo + 1)]
          /\ writeSpec(c, [spec[c] EXCEPT !.phase = "PROpen", !.error = FALSE,
                 !.prs = [r \in PRRepos |-> IF r \in prRepos(c) THEN "open" ELSE "none"]])
       \/ \E r \in prRepos(c) :
             /\ \A p \in 1 .. r - 1 : ~Refused(c, p)
             /\ IF Refused(c, r) THEN Request(c) ELSE Mishap /\ claimed[c] = "free"
             /\ github' = [github EXCEPT ![c] = Raised(c, r)]
             /\ writeSpec(c, [spec[c] EXCEPT !.error = TRUE,
                    !.prs = [p \in PRRepos |-> IF p \in prRepos(c) /\ p < r THEN "open" ELSE "none"]])
    /\ UNCHANGED <<slop, branches, path, signals, Loops>>

\* Mutant: the run goes on past a pull request that does not merge.
MergedAround(c, r) ==
    [p \in PRRepos |-> IF spec[c].prs[p] # "none" /\ p # r THEN "merged" ELSE spec[c].prs[p]]

\* One that is merged already is passed over; one that does not merge ends it.
MergedBefore(c, r) ==
    [p \in PRRepos |-> IF spec[c].prs[p] # "none" /\ p < r THEN "merged" ELSE spec[c].prs[p]]

OnGitHub(c, merged) == [p \in PRRepos |-> IF merged[p] = "merged" THEN "merged" ELSE github[c][p]]

slopMerge(c) ==
    /\ spec[c].phase = "PROpen"
    /\ \/ /\ Request(c)
          /\ github' = [github EXCEPT ![c] = OnGitHub(c, MergedBefore(c, CondocRepo + 1))]
          /\ writeSpec(c, [spec[c] EXCEPT !.phase = "Merged", !.error = FALSE,
                                          !.prs = MergedBefore(c, CondocRepo + 1)])
          /\ slop' = IF path = c THEN slop ELSE [slop EXCEPT ![c] = NoSlop]
       \/ /\ Mishap /\ claimed[c] = "free"
          /\ \E r \in {p \in PRRepos : spec[c].prs[p] # "none"} :
                /\ github' = [github EXCEPT ![c] = OnGitHub(c, MergedBefore(c, r))]
                /\ writeSpec(c, [spec[c] EXCEPT !.error = TRUE, !.prs = MergedBefore(c, r)])
          /\ UNCHANGED slop
    /\ UNCHANGED <<branches, path, signals, Loops>>

\* A human merges one on GitHub.
MergedByHand(c, r) ==
    /\ Mishap /\ github[c][r] = "open"
    /\ github' = [github EXCEPT ![c][r] = "merged"]
    /\ UNCHANGED <<spec, slop, branches, path, signals, Loops>>

-----------------------------------------------------------------------------
\* The final states, which are marks only.

finalize(c, phase) == writeSpec(c, [spec[c] EXCEPT !.from = spec[c].phase, !.phase = phase])

slopArchive(c) ==
    /\ Request(c) /\ spec[c].phase = "Merged"
    /\ finalize(c, "Archived")
    /\ UNCHANGED <<World, Loops>>

slopAbandon(c) ==
    /\ Request(c) /\ spec[c].phase \notin {"absent", "Merged", "Archived", "Abandoned"}
    /\ finalize(c, "Abandoned") /\ dequeue(c)
    /\ UNCHANGED <<World, claimed, turn, tick>>

slopUnabandon(c) ==
    /\ Request(c) /\ spec[c].phase = "Abandoned"
    /\ writeSpec(c, [spec[c] EXCEPT !.phase = spec[c].from, !.from = "absent"])
    /\ UNCHANGED <<World, Loops>>

-----------------------------------------------------------------------------
\* The worker, other services and others' pushes; condocv2's end.

Oldest(c, i) == /\ signals[c][i] = "pending"
                /\ \A j \in 1 .. i - 1 : signals[c][j] # "pending"

NothingTaken == \A c \in Held : "taken" \notin ToSet(signals[c])

WorkerTakes(c, i) ==
    /\ NothingTaken /\ Oldest(c, i)
    /\ signals' = [signals EXCEPT ![c][i] = "taken"]
    /\ UNCHANGED <<spec, slop, branches, github, path, Loops, used>>

\* The agent changes what it likes of the targets in what is deployed; its
\* output may be more than the signal's reader takes.
WorkerCompletes(c, i) ==
    /\ signals[c][i] = "taken"
    /\ \/ signals' = [signals EXCEPT ![c][i] = "done"] /\ UNCHANGED used
       \/ signals' = [signals EXCEPT ![c][i] = "unread"] /\ Mishap
    /\ \E E \in SUBSET Repos :
          slop' = IF path \in Held /\ spec[c].phase # "PRDrafting"
                  THEN [slop EXCEPT ![path].edits = [t \in Repos |-> @[t] \/ t \in E]]
                  ELSE slop
    /\ UNCHANGED <<spec, branches, github, path, Loops>>

\* It dies, and leaves its signal in ongoing/ for good.
WorkerDies(c, i) ==
    /\ signals[c][i] = "taken" /\ Mishap
    /\ signals' = [signals EXCEPT ![c][i] = "lost"]
    /\ UNCHANGED <<spec, slop, branches, github, path, Loops>>

OtherDeploys ==
    /\ path = Nobody /\ Mishap /\ path' = Other
    /\ UNCHANGED <<spec, slop, branches, github, signals, Loops>>

OtherReturns ==
    /\ path = Other /\ path' = Nobody
    /\ UNCHANGED <<spec, slop, branches, github, signals, Loops, used>>

OutsidePush(c, t) ==
    /\ branches[c][t] # NoBranch /\ slop[c].exists /\ Mishap
    /\ branches' = [branches EXCEPT ![c][t].origin = Append(@, 0)]
    /\ UNCHANGED <<spec, slop, github, path, signals, Loops>>

\* The pointers stay, the queue and the claims go.
Restarts ==
    /\ Mishap
    /\ claimed' = [c \in Held |-> "free"] /\ queue' = <<>> /\ turn' = NoTurn
    /\ tick' = [c \in Held |-> "seen"]
    /\ UNCHANGED <<spec, World>>

TurnStep ==
    \/ slopTurnLoop \/ TurnWaits \/ TurnDeploys \/ TurnDeployFails \/ TurnSubmits
    \/ TurnCollects \/ TurnSignalUnread \/ TurnResponds \/ TurnCommits \/ TurnRecords
    \/ TurnUnlocks \/ TurnSaves \/ TurnFails \/ TurnEnds
    \/ DraftSubmits \/ DraftCollects \/ DraftSignalUnread

Requests(c) ==
    \/ slopPropose(c) \/ slopWithdraw(c) \/ slopAccept(c) \/ slopAcceptFails(c)
    \/ slopPrompt(c) \/ slopPromptFails(c) \/ slopSubmit(c) \/ slopResubmit(c)
    \/ slopComplete(c) \/ slopRedraft(c) \/ slopRaisePRs(c) \/ slopMerge(c)
    \/ slopArchive(c) \/ slopAbandon(c) \/ slopUnabandon(c)

Inserts(c) == insertPrompt(c) \/ insertPromptFails(c)

Surroundings ==
    \/ OtherDeploys \/ OtherReturns \/ Restarts
    \/ \E c \in Held :
          \/ \E i \in DOMAIN signals[c] :
                WorkerTakes(c, i) \/ WorkerCompletes(c, i) \/ WorkerDies(c, i)
          \/ \E t \in Repos : OutsidePush(c, t)
          \/ \E r \in PRRepos : MergedByHand(c, r)

InteractionsNext ==
    \/ TurnStep \/ TickReads \/ Surroundings
    \/ \E c \in Held : TickEnqueues(c) \/ TickInserts(c) \/ Inserts(c) \/ Requests(c)

InteractionsSpec == InteractionsInit /\ [][InteractionsNext]_v2Vars

\* The loops and the worker go on; an agent's run ends.
InteractionsFairness ==
    /\ WF_v2Vars(Moves("condocv2") /\ TurnStep)
    /\ WF_v2Vars(Moves("condocv2") /\ TickReads)
    /\ \A c \in Held :
          /\ WF_v2Vars(Moves("condocv2") /\ (TickEnqueues(c) \/ TickInserts(c)))
          /\ WF_v2Vars(Moves("condocv2") /\ Inserts(c))
          /\ WF_v2Vars(Moves("condocv2") /\ \E i \in DOMAIN signals[c] :
                                           WorkerTakes(c, i) \/ WorkerCompletes(c, i))

-----------------------------------------------------------------------------
\* The step file tells the interactions in order, every section once, and as
\* far as the pointer's stage says, with at most the next section ahead of it;
\* what the stage relies on is pushed.
SectionKinds == <<"Prompt", "Response", "Record">>

Told(stage) ==
    CASE stage \in {"none", "locked"} -> 0
      [] stage \in {"prompted", "queued", "deployed", "signalled", "returned"} -> 1
      [] stage \in {"responded", "mapped"} -> 2
      [] stage = "recorded" -> 3

SectionsInOrder ==
    \A c \in Held : slop[c].exists =>
        LET told == 3 * spec[c].done + Told(spec[c].stage) IN
        /\ \A i \in DOMAIN slop[c].file :
              /\ slop[c].file[i].kind = SectionKinds[((i - 1) % 3) + 1]
              /\ slop[c].file[i].n = ((i - 1) \div 3) + 1
        /\ Len(slop[c].file) \in told .. told + (IF spec[c].stage \in {"locked", "returned", "mapped"}
                                                 THEN 1 ELSE 0)
        /\ slop[c].pushed >= told

\* A record's range of a target's commits has those of its interaction and of
\* no other.
RangesTrue ==
    \A c \in Held : \A i \in DOMAIN slop[c].file :
        LET r == slop[c].file[i] IN
        r.kind = "Record" =>
            \A t \in Repos : \A p \in DOMAIN branches[c][t].origin :
                branches[c][t].origin[p] # 0 =>
                    (branches[c][t].origin[p] = r.n <=> p \in r.from[t] + 1 .. r.to[t])

\* Whatever fails, restarts or is pushed from outside between its commits, an
\* interaction is recorded once, in order, with the commits it made.
InteractionsRecorded == SectionsInOrder /\ RangesTrue

\* A condoc is merged, and its slopspace gone, only when the pull requests of
\* all repositories its agents changed are, the condoc repo's last of those
\* Merge itself merged.
MergedTogether ==
    \A c \in Held :
        /\ "Merged" \in {spec[c].phase, spec[c].from} =>
              /\ github[c][CondocRepo] = "merged"
              /\ \A t \in Repos :
                    (\E p \in DOMAIN branches[c][t].origin : branches[c][t].origin[p] # 0)
                    => github[c][t] = "merged"
        /\ spec[c].prs[CondocRepo] = "merged" =>
              \A r \in PRRepos : spec[c].prs[r] # "open"
        /\ ~slop[c].exists => "Merged" \in {spec[c].phase, spec[c].from} \/ spec[c].done = 0

Going(s) == Runnable(s) \/ (s.stage = "locked" /\ ~s.error /\ ~IsFinal(s.phase))

\* An interaction or draft once submitted ends or stops with an error, unless
\* its signal lost its worker or the head of the queue waits for a slopspace
\* that stays deployed.
InteractionEnds ==
    \A c \in Held :
        []<>((Moves("condocv2") /\ Going(spec[c])) =>
                \/ \E d \in Held : "lost" \in ToSet(signals[d])
                \/ (queue # <<>> /\ path \notin {Nobody, Head(queue)}))
=============================================================================
