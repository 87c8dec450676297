----------------------------- MODULE RepoWatch ------------------------------
(***************************************************************************)
(* The repository a local-representative watches, pulls and rebuilds       *)
(* (local-representative/repowatch.go, ufabuild.go).  A commit is a        *)
(* number; the poll, the operator's requests and a rebuild take turns on   *)
(* opMu, while people, condoccer and their own make work in the same tree. *)
(***************************************************************************)
EXTENDS Integers, Services

CONSTANTS MaxHeads,      \* commits that arrive after the first
          MaxEvents      \* other events: in the repository, asked of LR

ASSUME RepoWatchAssumption ==
    MaxHeads \in Nat /\ MaxEvents \in Nat

Heads == 0 .. MaxHeads
NoHead == -1
Branches == {"dev", "other"}
NoMake == "none"

VARIABLES repo,       \* the repository: tip of each branch, branch, tree, locks
          requestOf,  \* commit -> the commit of its .ufabuild request, 0 if none
          lastHead,   \* commits made
          events,     \* other events so far
          watch,      \* repoWatch's fields
          op,         \* who holds opMu and how far it is
          make,       \* who runs make, if anybody
          ufabuildWatch, \* -ufabuild-watch
          lastMade,   \* history: the commit this LR's last build it took note of was made
                      \* from, NoHead if the tree was changed under it
          stirred     \* history: the tree was changed under the build that runs

repoVars == <<repo, requestOf, lastHead>>
watchVars == <<watch, op>>
repoWatchVars == <<repoVars, events, watchVars, make, ufabuildWatch, lastMade, stirred>>

head == repo.tips[repo.branch]

RepoRecord ==
    [tips : [Branches -> Heads], branch : Branches, dirty : BOOLEAN, behind : BOOLEAN,
     ahead : BOOLEAN, condoc : BOOLEAN, building : BOOLEAN, rebase : BOOLEAN]

WatchRecord ==
    [head : Heads \cup {NoHead}, builtHead : Heads \cup {NoHead}, dirty : BOOLEAN, building : BOOLEAN,
     grace : {"off", "counting", "over"}, auto : BOOLEAN,
     debounce : {"off", "counting", "over"}, armedHead : Heads \cup {NoHead},
     request : Heads, readAt : Heads \cup {NoHead}, built : Heads, failed : Heads]

OpRecord ==
    [at : {"free", "polling", "polled", "making", "made"}, by : {"watch", "operator"},
     pull : {"none", "ff", "rebase"}, from : Heads, ok : BOOLEAN]

RepoWatchTypeOK ==
    /\ repo \in RepoRecord
    /\ requestOf \in [Heads -> Heads] /\ lastHead \in Heads
    /\ events \in 0 .. MaxEvents
    /\ watch \in WatchRecord /\ op \in OpRecord
    /\ make \in {NoMake, "watch", "hand"}
    /\ ufabuildWatch \in BOOLEAN
    /\ lastMade \in Heads \cup {NoHead} /\ stirred \in BOOLEAN

-----------------------------------------------------------------------------
\* newRepoWatch: the HEAD and the request found, or that git found none of
\* them, are taken as built.
newRepoWatch(r, reqs, auto) ==
    {[head |-> h, builtHead |-> h, dirty |-> FALSE, building |-> r.building,
      grace |-> "off", auto |-> auto, debounce |-> "off", armedHead |-> NoHead,
      request |-> q, readAt |-> h, built |-> q, failed |-> 0] :
         h \in {r.tips[r.branch], NoHead}, q \in {reqs[r.tips[r.branch]], 0}}

Released == [at |-> "free", by |-> "watch", pull |-> "none", from |-> 0, ok |-> FALSE]

RepoWatchInit ==
    /\ \E behind \in BOOLEAN :
           repo = [tips |-> [b \in Branches |-> 0], branch |-> "dev", dirty |-> FALSE,
                   behind |-> behind, ahead |-> FALSE, condoc |-> FALSE,
                   building |-> FALSE, rebase |-> FALSE]
    /\ requestOf = [h \in Heads |-> 0] /\ lastHead = 0
    /\ events = 0
    /\ op = Released /\ make = NoMake
    /\ ufabuildWatch \in BOOLEAN
    /\ watch \in newRepoWatch(repo, requestOf, ~ufabuildWatch)
    /\ lastMade = NoHead /\ stirred = FALSE

-----------------------------------------------------------------------------
\* Others in the same repository.

\* The commit that comes next: it leaves the build request alone, makes one of
\* its own, or spoils it.
Advance(r, b) ==
    /\ lastHead < MaxHeads /\ lastHead' = lastHead + 1
    /\ \E request \in {requestOf[r.tips[b]], lastHead', 0} :
           requestOf' = [requestOf EXCEPT ![lastHead'] = request]
    /\ repo' = [r EXCEPT !.tips[b] = lastHead']

Event == events < MaxEvents /\ events' = events + 1
Fails(failed) == IF failed THEN Event ELSE UNCHANGED events
Stirs == stirred' = (stirred \/ op.at \in {"making", "made"})
QuietWatch == UNCHANGED <<watchVars, ufabuildWatch, lastMade>>

\* A commit by hand or by condoccer, which may take or give up its lock.
HandCommit ==
    /\ ~repo.rebase /\ Stirs
    /\ \E locked \in BOOLEAN :
           Advance([repo EXCEPT !.dirty = FALSE, !.ahead = TRUE, !.condoc = locked],
                   repo.branch)
    /\ UNCHANGED <<events, make>> /\ QuietWatch

HandEdit ==
    /\ Event /\ Stirs
    /\ repo' = [repo EXCEPT !.dirty = ~@]
    /\ UNCHANGED <<requestOf, lastHead, make>> /\ QuietWatch

\* Commits reach the upstream branch, or leave here for it; a rebase stops
\* half way, or is finished.
RemoteMoves ==
    /\ Event
    /\ \/ repo' = [repo EXCEPT !.behind = TRUE]
       \/ ~repo.behind /\ repo' = [repo EXCEPT !.ahead = FALSE]
       \/ ~repo.dirty /\ repo' = [repo EXCEPT !.rebase = ~@]
    /\ UNCHANGED <<requestOf, lastHead, make, stirred>> /\ QuietWatch

HandMake ==
    /\ Event /\ make = NoMake
    /\ make' = "hand"
    /\ repo' = [repo EXCEPT !.building = TRUE]
    /\ UNCHANGED <<requestOf, lastHead, stirred>> /\ QuietWatch

\* make removes its lock and, if all builds, has swapped in the binaries; one
\* that is killed leaves the lock.
MakeEnds ==
    /\ make # NoMake
    /\ make' = NoMake
    /\ \E ok, killed \in BOOLEAN :
           /\ ~(ok /\ killed) /\ Fails(killed)
           /\ repo' = [repo EXCEPT !.building = killed]
           /\ op' = IF make = "watch" THEN [op EXCEPT !.at = "made", !.ok = ok] ELSE op
    /\ UNCHANGED <<requestOf, lastHead, watch, ufabuildWatch, lastMade, stirred>>

-----------------------------------------------------------------------------
\* The watcher, under opMu.
QuietRepo == UNCHANGED <<repoVars, events, make, ufabuildWatch, lastMade, stirred>>

\* The rebuild button is active.
rebuildReady(w) ==
    /\ ~repo.condoc /\ ~w.dirty
    /\ IF ufabuildWatch THEN w.request # 0 /\ w.request # w.built
                        ELSE w.head # w.builtHead

\* What the poll will pull: nothing over uncommitted work or in the middle of
\* somebody's rebase, and under a condoc lock nothing that replays a commit.
PullFor(r) ==
    IF r.dirty \/ r.rebase \/ ~r.behind THEN {"none"}
    ELSE {"none"} \cup
         (IF ~r.condoc THEN {"rebase"} ELSE IF r.ahead THEN {} ELSE {"ff"})

\* pollAndMaybePull as far as the pull; git that fails to say whether the tree
\* is clean, or to fetch, pulls nothing.
Look(by, r) ==
    /\ op.at = "free"
    /\ \E pull \in PullFor(r) : op' = [Released EXCEPT !.at = "polling", !.by = by, !.pull = pull]

PollLooks == Look("watch", repo) /\ UNCHANGED watch /\ QuietRepo

\* git moves the branch, refuses to, or stops at a conflict, and that rebase is
\* aborted, if git manages to.
Pull ==
    \/ UNCHANGED <<repo, requestOf, lastHead>>
    \/ /\ op.pull # "none" /\ ~repo.dirty /\ repo.behind /\ ~repo.rebase
       /\ op.pull = "ff" => ~repo.ahead
       /\ \E locked \in BOOLEAN :
              Advance([repo EXCEPT !.behind = FALSE, !.condoc = locked], repo.branch)
    \/ /\ op.pull = "rebase" /\ repo.ahead /\ ~repo.dirty
       /\ repo' = [repo EXCEPT !.rebase = TRUE]
       /\ UNCHANGED <<requestOf, lastHead>>

\* The request is read where HEAD has moved since it was read last.
refreshUfabuild(w, found) ==
    IF w.head = w.readAt /\ w.head # NoHead THEN w
    ELSE [w EXCEPT !.request = found, !.readAt = w.head]

\* The rest of the poll reads the repository again.  Where git fails it records
\* nothing, and where git fails to read the request, that there is none.
PollRecords ==
    /\ op.at = "polling" /\ Pull
    /\ \/ Fails(TRUE) /\ UNCHANGED watch
       \/ \E failed \in BOOLEAN :
              /\ Fails(failed)
              /\ watch' = refreshUfabuild([watch EXCEPT !.dirty = repo'.dirty, !.head = head'],
                                          IF failed THEN 0 ELSE requestOf'[head'])
    /\ op' = IF op.by = "watch" THEN [op EXCEPT !.at = "polled"] ELSE Released
    /\ UNCHANGED <<make, ufabuildWatch, lastMade, stirred>>

\* A mutant: every tick without the lock starts the grace period again.
GraceStartsAgain(w) ==
    IF repo.building THEN [w EXCEPT !.building = TRUE, !.grace = "off"]
    ELSE IF w.building THEN [w EXCEPT !.grace = "counting"] ELSE w

\* building lasts until the lock has been gone for the whole grace period.
maybeFinishBuild(w) ==
    CASE repo.building -> [w EXCEPT !.building = TRUE, !.grace = "off"]
      [] ~repo.building /\ w.building /\ w.grace = "off" -> [w EXCEPT !.grace = "counting"]
      [] ~repo.building /\ w.building /\ w.grace = "over" ->
             [w EXCEPT !.building = FALSE, !.grace = "off"]
      [] OTHER -> w

Disarmed(w) == [w EXCEPT !.debounce = "off", !.armedHead = NoHead]

\* Due at once for a request, after the debounce for HEAD having moved.
autoRebuildDue(w) ==
    /\ ~w.building /\ rebuildReady(w)
    /\ IF ufabuildWatch THEN w.request # w.failed
       ELSE w.auto /\ w.debounce = "over" /\ w.head = w.armedHead

\* What maybeAutoRebuild leaves of its timer.
maybeAutoRebuild(w) ==
    IF ufabuildWatch \/ ~w.auto \/ w.building \/ ~rebuildReady(w) \/ autoRebuildDue(w)
    THEN Disarmed(w)
    ELSE IF w.debounce = "off" \/ w.head # w.armedHead
    THEN [w EXCEPT !.debounce = "counting", !.armedHead = w.head]
    ELSE w

\* rebuild: make touches its lock.
StartMake(w) ==
    /\ watch' = [w EXCEPT !.building = TRUE, !.grace = "off"]
    /\ op' = [Released EXCEPT !.at = "making", !.from = head]
    /\ make' = "watch"
    /\ repo' = [repo EXCEPT !.building = TRUE]
    /\ stirred' = (repo.dirty \/ make # NoMake)
    /\ UNCHANGED <<requestOf, lastHead, events, ufabuildWatch, lastMade>>

\* The rest of the tick.
WatchDecides ==
    /\ op.at = "polled"
    /\ LET w == maybeFinishBuild(watch) IN
       IF autoRebuildDue(w) THEN StartMake(Disarmed(w))
       ELSE watch' = maybeAutoRebuild(w) /\ op' = Released /\ QuietRepo

\* The operator's press: what the last poll saw decides.
requestRebuild ==
    /\ op.at = "free" /\ ~watch.building /\ rebuildReady(watch)
    /\ StartMake(watch)

\* rebuild, once make has ended: HEAD is read again and, if git can, taken as
\* built.  The request is still the one make began with: only a poll reads another.
RecordBuild ==
    /\ op.at = "made"
    /\ \E dirtyRead, headRead \in BOOLEAN :
           /\ Fails(~dirtyRead \/ ~headRead)
           /\ watch' = maybeFinishBuild(
                  [watch EXCEPT !.dirty = IF dirtyRead THEN repo.dirty ELSE @,
                                !.head = IF headRead THEN head ELSE @,
                                !.builtHead = IF op.ok /\ headRead THEN head ELSE @,
                                !.built = IF op.ok THEN watch.request ELSE @,
                                !.failed = IF op.ok THEN 0 ELSE watch.request])
           /\ lastMade' = IF ~(op.ok /\ headRead) THEN lastMade
                         ELSE IF stirred THEN NoHead ELSE op.from
    /\ op' = Released
    /\ UNCHANGED <<repoVars, make, ufabuildWatch, stirred>>

GraceOver ==
    /\ watch.grace = "counting" /\ watch' = [watch EXCEPT !.grace = "over"]
    /\ UNCHANGED op /\ QuietRepo

DebounceOver ==
    /\ watch.debounce = "counting" /\ watch' = [watch EXCEPT !.debounce = "over"]
    /\ UNCHANGED op /\ QuietRepo

-----------------------------------------------------------------------------
\* The operator.
setAutoRebuild ==
    /\ Event /\ watch' = [watch EXCEPT !.auto = ~@]
    /\ UNCHANGED <<repoVars, op, make, ufabuildWatch, lastMade, stirred>>

\* A mutant: the switch does not wait for the rebuild under way.
SwitchesUnderMake(b) ==
    /\ Event
    /\ repo' = IF repo.condoc \/ repo.dirty \/ repo.rebase THEN repo
               ELSE [repo EXCEPT !.branch = b, !.ahead = FALSE, !.behind = FALSE]
    /\ UNCHANGED <<requestOf, lastHead, watch, op, make, ufabuildWatch, lastMade, stirred>>

\* Refused over a dirty tree, a build or a condoc lock, and by git; a poll that
\* may pull follows.
switchBranch(b) ==
    /\ Event
    /\ \/ UNCHANGED repo
       \/ /\ b # repo.branch
          /\ ~(watch.building \/ repo.building \/ repo.condoc \/ repo.dirty \/ repo.rebase)
          /\ \E behind \in BOOLEAN :
                 repo' = [repo EXCEPT !.branch = b, !.ahead = FALSE, !.behind = behind]
    /\ Look("operator", repo')
    /\ UNCHANGED <<requestOf, lastHead, watch, make, ufabuildWatch, lastMade, stirred>>

\* LR restarts, at the operator's request or into what it has built, and hands
\* auto-rebuild on; a make that runs goes on without it.
LRRestarts ==
    /\ Event
    /\ watch' \in newRepoWatch(repo, requestOf, watch.auto)
    /\ op' = Released /\ lastMade' = NoHead /\ stirred' = FALSE
    /\ make' = IF make = NoMake THEN make ELSE "hand"
    /\ UNCHANGED <<repoVars, ufabuildWatch>>

RepoWatchNext ==
    \/ HandCommit \/ HandEdit \/ RemoteMoves \/ HandMake \/ MakeEnds
    \/ PollLooks \/ PollRecords \/ WatchDecides \/ RecordBuild
    \/ GraceOver \/ DebounceOver \/ requestRebuild
    \/ setAutoRebuild \/ LRRestarts
    \/ \E b \in Branches : switchBranch(b)

RepoWatchSpec == RepoWatchInit /\ [][RepoWatchNext]_repoWatchVars

\* The tickers tick, timers run out, a make comes to an end.
RepoWatchFairness ==
    /\ WF_repoWatchVars(Moves("repo") /\ PollLooks) /\ WF_repoWatchVars(Moves("repo") /\ PollRecords)
    /\ WF_repoWatchVars(Moves("repo") /\ WatchDecides) /\ WF_repoWatchVars(Moves("repo") /\ RecordBuild)
    /\ WF_repoWatchVars(Moves("repo") /\ GraceOver) /\ WF_repoWatchVars(Moves("repo") /\ DebounceOver)
    /\ WF_repoWatchVars(Moves("repo") /\ MakeEnds)

-----------------------------------------------------------------------------
\* What is taken for built is what was made (repowatch.go rebuild): a poll never
\* pulls and a switch never switches under a make that somebody waits for, and
\* the head recorded is the one it was made from, unless people changed the tree
\* meanwhile; a build after which HEAD cannot be read leaves the one before.
BuiltWasMade == lastMade # NoHead => watch.builtHead = lastMade

\* The request at HEAD was not read when HEAD got there, and is not read again.
RequestMissed == watch.readAt = head /\ watch.request # requestOf[head]

\* A repository on which a build is waited for, for a request that is new or,
\* with auto-rebuild, for HEAD.
Waits ==
    /\ ~(repo.dirty \/ repo.condoc \/ repo.building \/ make = "watch")
    /\ IF ufabuildWatch THEN requestOf[head] \notin {0, watch.built, watch.failed}
       ELSE watch.auto /\ head # watch.builtHead

\* A repository that stays clean and free of locks gets a build (repowatch.go
\* maybeAutoRebuild), unless git failed when the request was to be read.
RebuildHappens == []<>(~Waits \/ (ufabuildWatch /\ RequestMissed))
=============================================================================
