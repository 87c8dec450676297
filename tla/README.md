# Verification of AI-evo1

AI-evo1 lets people write *condocs* (controlling documents) from which agents
work on repositories, on hosts that a federation of small services keeps going.
This directory holds TLA+ modules of the parts of it that make promises across
processes, restarts and failures.  At the centre is condoccer's slopspace
handler with the dungeon-keeper worker that runs its agents and the files through
which the two coordinate; around it, service by service, the rest.  TLC checks
the modules on small instances; TLAPS proves the central results for every
instance.  Paths below are relative to `src/`.

## 1. The system

### 1.1 Components

| Component | State it keeps | Operations | Interacts with |
|---|---|---|---|
| **condoccer slopspace handler** `condoccer/slopspace.go`, `slopspec.go` | a pointer file per condoc (phase, pending turn and its stage, error, PRs); in memory `busy`, `queue`, `running`, `force` | driver `slopTick`/`driveSpec` every 2 s, turn loop `slopTurnLoop`/`runTurn` every 1 s, Resubmit, Regenerate, Force Complete, proposals, PR raise/merge | slopspaces, work signals, GitHub, pointer repo |
| condoccer condoc files `condocfiles.go`, `main.go` | STEP, SUBSTEP and PR files in the condoc repo | directives, `detectPhase`, templates, the lock of a same-repo condoc | edited by people, the handler, and federation-command |
| condoccer pointer repo `pointer.go` | a git clone shared with other condoccers | commit, push, rebase-and-retry, pull | slopspace handler |
| condoccer resources and views | uploads, links, file listings | HTTP | frontends |
| **slopspace manager** `dungeon-keeper/pkg/slopspace` | `slopspaces/<id>/`, one deploy path per agent type, `SLOPSPACE.json`, `SLOPSPACE_ID` | Create, Deploy, Return, Delete, commit and push of the trees in it | linked by condoccer, condocv2, the panel and the worker |
| **work signals** `dungeon-keeper/pkg/worksignal` | files in `ongoing/` and `complete/` | Create, FindPending, TakeOwnership, AppendEvent, Complete | handler, condocv2, worker |
| **dungeon-keeper worker** `dungeon-keeper/main.go` | the signal in hand, a slopspace of its own | watch loop, `processSlopspaceWork` | signals, slopspaces, agents |
| worker-tab panel `dungeon-keeper/slopctl.go`, `repr.go` | the snapshot last pushed | deploy, return and command by hand; pushes of the worker's state | the same files, local-representative |
| dungeon-keeper read/write spaces, executor, git credentials | clones | I/O | worker |
| condocv2 | pointer files with an interaction lock; `claimed`, `queue` | interactions, drafts, raise, merge, final states | the same deploy path and signals, GitHub |
| representable | per host a connection, tunnels, pending commands | heartbeat, command, tunnel | every service |
| pr-keeper | none | GitHub client | condoccer, condocv2 |
| local-representative processes `procman.go`, `reststate.go`, `repowatch.go` | rows of launched applications, the watched repository, restart state | launch, terminate, restart, poll, build | ufa-loader |
| local-representative control `control*.go` | the run of a sequence, the library, pending answers | run, record, ask other nodes, edit | ianar, agent-coordinator |
| local-representative link, sessions and files | the connection, `host-cache` and `host-store`, session directories, tool runs | connect, auto-connect, tunnels; upload, hold, persist, sweep; pull; install, run | agent-coordinator, other hosts, dtt |
| agent-coordinator | what each host reported, the browsers | relays, broadcasts, the proxy | representable |
| federation-command | terminal session, blinker, ridealong, same-repo handler | commands, condoc mode, ridealongs, sessions | condoc files, local-representative, session logs |
| session-manager, clauditable, the-conversationalist | session directories | record, fold, fuse, prune | each other, on every host |
| ianar | the robot's runs, recorder and library | run, record, import, edit | local-representative, its tabs |
| dtt | directories of tools | install, create, run | local-representative |
| ufa-configurable, ufa-hostid, ufa-version, clod, ambiguous-agent, claudomation | none to speak of | command lines | |
| frontends, scripts, docs, condocs | | UI, build, prose | |

`PROJECT.json` lists them with their files and how far each is modelled.

### 1.2 How a turn runs

A person fills in a `Human-Prompt` and writes `!HANDOFF!`.  The driver consumes
the directive, commits and pushes the condoc repo, records a turn on the pointer
and queues it.  The turn loop claims the head of the queue and takes the turn
through its stages, writing the pointer after each:

    queued --sync targets, Deploy--> deployed --Create signal--> signalled
      --await complete/, capture reply, Return--> returned
      --write targets, append reply--> replied --commit, clear--> (no turn)

A worker that knows nothing of condocs finds the signal, takes it, runs the agent
in whatever is at the deploy path, and completes it.  Meanwhile people may
Resubmit an errored condoc or Force Complete any condoc: at once if the condoc is
not claimed; if its turn is running, a flag is left for the turn loop, which gives
up its wait, and abandons the turn (fail the signal, return the slopspace, write
the targets), finalises the files, and commits.

### 1.3 What is hard

* Three kinds of goroutine edit the same pointer and files, kept apart only by
  claims; two processes share the deploy path and the signals with no lock at all.
* The driver acts on pointers read at the start of a pass.
* A step of several fails, or a process stops between two: what is written down
  must say enough to go on, and no stage may be repeated that must not be.
* Force Complete interrupts a worker anywhere in its work, and may itself fail
  part way and be tried again.
* Workers die, and a signal nobody will complete blocks the head of the queue.
* Everything that is sent was computed a moment before: states shown to tabs and
  browsers, answers to requests given up, ends of connections already replaced.
* Files are the only thing many processes have in common: session logs, tool
  directories, the files tab, slopspaces; a step is a rename or a truncation.

The hazards are listed with their lines in `PROJECT.json`, each with the
properties aimed at it or the reason none is.

### 1.4 What makes each component correct

* **Handler**: a condoc is worked on by one goroutine; a Force Complete accepted
  is carried out; a turn only moves forward and has the evidence its stage speaks
  of; a prompt is pushed before it is run and is answered; a completed condoc
  stays completed.
* **Slopspaces**: one is deployed at a time, trees are neither lost nor mixed up,
  and a condoc without a turn is home with its tree.
* **Signals**: a signal created is in `ongoing/` or `complete/`, moves one way,
  and is eventually completed unless its worker is gone.
* **Worker**: an agent works on the tree its signal was meant for.
* **Condocs in their own repository**: what was committed is never lost by a retry
  or a revert, replies land under their prompts, the lock goes with the reply.
* **condocv2**: an interaction is recorded once, in order, with its commits; it
  ends, and a condoc is merged when all its repositories are.
* **Proposals, pull requests, pointers**: a condoc that is merged is merged
  everywhere, the condoc's own pull request last; a committed pointer is at GitHub
  or the panel says why not.
* **local-representative**: one process of a singleton; what is taken for built
  was; a control run ends and leaves nothing going; an auto-connecting host comes
  back, and its tunnels with it; a file is kept as long as was said.
* **Views**: what a tab, a browser or another host shows in the end is what is.
* **Sessions**: no turn is lost or doubled on its way between hosts, no record
  between concurrent commands, no command's record in another session.
* **Requests to other nodes**: an answer is taken only for what asked for it.

## 2. The modules

### 2.1 The turn of a condoc

| Module | Models | State and actions |
|---|---|---|
| `Slopspaces` | `pkg/slopspace`: Create, Deploy, Return; condocs and workers, and their assumption | deployed flags, the marker, and where each working tree is |
| `WorkSignals` | `pkg/worksignal` | a status per signal in `ongoing/`, whether it is in `complete/`, whether `Read` gives up on it |
| `Worker` | the watch loop of `dungeon-keeper/main.go` | the signal in hand; `Find`, `Take`, `Locate`, `DeployOwn`, `AgentExits`, `ReturnOwn`, `Finish`, `WorkerCrash` |
| `Condoccer` | `condoccer/slopspace.go` | pointers, files, claims, queue, driver, turn loop, force completes, restart; the properties and the fairness |
| `Claims` | the abstract specification of claims and force requests | implemented by `Condoccer` |
| `MCCondoccer` | what the configurations need | |
| `CondoccerProofs` | the proofs | |

`Condoccer` extends `Worker`, which extends `Slopspaces` and `WorkSignals`: the
shared variables are the shared files.  `Claims` is reached by `INSTANCE ... WITH`
in `Condoccer`.

| Variable | Code |
|---|---|
| `spec[c]` | the pointer file: phase, turn (kind, stage, signal), error.  The step, revision, substep and substep-revision turns differ in their prompt only and are kind `turn` |
| `doc[c]` | what `detectPhase` and the directive handlers make of the condoc's files |
| `dirty[c]` | the condoc repo holds an edit no pushed commit does |
| `replies[c]` | replies since the last prompt (2 means more) |
| `replyFile[c]` | the captured reply in the slopspace |
| `busy`, `queue`, `running`, `force` | the fields of `slop` |
| `tick` | the driver's list of pointers read at the start of a pass, as yet unvisited |
| `drive`, `loop`, `forcing[c]` | where `driveSpec`, `slopTurnLoop` and `forceCompleteClaimed` are, with the copy of the pointer each holds |
| `deployed`, `marker`, `homeTree`, `pathTree` | `SLOPSPACE.json`, `SLOPSPACE_ID`, and the writespaces directories by the slopspace whose tree they hold |
| `created`, `header`, `ongoing`, `complete`, `unreadable` | signal files |
| `worker[w]` | the worker's place in the watch loop |
| `used` | how often each bounded event has happened; not in the code |

An action is what happens between two points where another goroutine or process
can be seen to intervene.  What a goroutine does inside one critical section of
`slop.mu`, and a short UI edit under a claim, is one action.  The pointer copy a
goroutine holds is in its own state, so a write of a stale copy is visible.
Failing operations (git, a write) are separate actions that spend a `fault`;
a pointer write may fail with or without the file written.

What these modules abstract:

* Deploy, Return, and each move of a signal are one step each; `SlopspaceFiles`
  and `SignalFiles` have the renames and rewrites inside.
* The read of all pointers at the start of a pass is one step, as is the check and
  flagging of a deferred Force Complete.
* The several files written by one handoff or one completion are one edit; only
  `appendReply` against `addIterationTemplate` is split, because the retry sees it.
* The driver visits the condocs of a pass in any order; the code goes by file
  name, and which condoc has which name is not fixed.
* Recording an error is assumed to succeed, as are UI pointer writes.
* A handoff with an empty prompt, refused retries and reverts, and the status
  (completed or failed) a signal ends with, which only words the reply, are left
  out.  Every condoc has target repos.
* A worker's fresh slopspaces all have the worker's name.
* A worker that is running goes on after a crash of condoccer, and a worker that
  died starts again idle.
* The error of `awaitSignal` for a signal in neither directory is not an action:
  `TurnEvidence` says it cannot happen.
* Logging, locking of the maps, and the wording of HTTP answers are left out.

### 2.2 The services around it

Each of these modules has a service's whole state and is checked in one of three
compositions, `MCLocalServices`, `MCCondocServices` and `MCSharedServices`, but for
`SameRepoCondoc`, which has a run of its own.  The
services there share no state (where they do, as condoccer and the worker do, one
module has both sides), so a behaviour of a composition chooses one of them
(`service` in `Services`, fixed by the initial state) and moves it from beginning
to end; the others stay as they started.  That makes the states of a composition the
sum and not the product of its services, and one run check them all.

**On one host: `MCLocalServices`, proved in `LocalProofs`**

| Module | Models | State and actions |
|---|---|---|
| `ManagedApps` | `procman.go`, `reststate.go`, ufa-loader | rows against processes; launches between check and record, the reaper, escalation, LR's restart and what it carries over it |
| `RepoWatch` | `repowatch.go`, `ufabuild.go` | the repository and who holds `opMu`; polls, pulls, switches, builds, debounce and grace, beside people's commits and makes; any read of git may fail, and each leaves what the code leaves |
| `ControlRuns` | `control.go`, `controlrecord.go`; `ianar/lrrun.go`, `lrrecord.go` | a run, its recordings as requests and answers, the robot's recorder and mouse; cancels, budgets, the robot out of reach |
| `HostLink` | `local-representative/main.go`, `representable.go`, `agent-coordinator/main.go` | attempts, connections and their readers, what agent-coordinator takes the host for; auto-connect; openers and tunnels of each link: dialed, parked, claimed, used, ended |

What runs outside is chosen freely: when a process exits, a commit arrives, a
build ends.  In `ControlRuns` there is one robot and one run at a time (the code
refuses a second), a step asks the robot or a person; in `HostLink` there is one
host; operator commands are bounded.  `excused`, `late`, `unheard` and `stirred`
are history variables: each names the cases in which the code itself lets the
property fail (section 5.2), so that it can be stated, and proved, of all others.

**Through which a condoc goes: `MCCondocServices`, proved in `CondocProofs`,
`InteractionProofs` and `SameRepoProofs`**

| Module | Models | State and actions |
|---|---|---|
| `CondocDocs` | a condoc's files as federation-command and condoccer parse them | headings with letters, prompts and directives: pure operators |
| `SameRepoCondoc` | `federation-command/condoc.go` and condoccer's lock | the handler's session, its git sequences as jobs, the commits, branch and take branches; retries, reverts, substeps, git failures, reloads; condoccer's pass over the lock: the look, the write, the commit |
| `Interactions` | condocv2 | pointers with locks, step files, branches, pull requests, the deploy path; tick, turn loop, drafts, raise, merge, restarts, outside pushes |
| `SignalFiles` | one work signal as two files | truncating rewrites and `Complete` step by step, a poller, a worker that may die, a Force Complete |
| `CondocProposals` | condoccer's proposals and pull requests, pr-keeper | acceptance repository by repository, the propose-PR turn, raise, poll, merge; failures, stops, people at GitHub |
| `PointerRepo` | `condoccer/pointer.go`, the pushes of `slopspace.go` | the clone's history against upstream; commit, push, rebase, conflicts, pulls |
| `FcLink` | federation-command's connection | dot, dials, retry chains, listeners, connections; every message in any order; ridealongs and condoc mode as far as they take the keys and the dot |

`SameRepoCondoc` has the branch pushed to by one clone only, and the condoc mode
left while git or the agent is under way only when `Overlaps` says so; the condoc is
the only one of its repository.  One look of condoccer's, and one of the handler's,
reads the files at one moment.  Staging and committing are one step, since nothing
else reads the index, and a reset with what follows it is one unless it fails part
way (`ResetBreaks`).  `FcLink`
leaves out the input's text and focus, mode mismatches and the clock of the
window in which it dials on its own (its end may come at any time).

**Shown and handed over: `MCSharedServices`, proved in part in `HostProofs`**

| Module | Models | Abstractions |
|---|---|---|
| `SlopspaceFiles` | slopspaces as directories under a turn, the panel and the worker; renames and writes one by one, stops between any two | the `slopspace` command line, which checks nothing, is left out; repos in a tree are one |
| `WorkerTab` | the worker tab's snapshots (`dungeon-keeper/repr.go`) | a prompt or output is a unit of size; one host |
| `Ridealong` | federation-command's ridealongs | custom, review and fix jobs are one kind; the cached review is left out; of a dive skipped for want of steps the review it asks for is there, of one that cannot be parsed nothing else |
| `FcSessions` | the session a federation-command is on | run and agent lines are one kind, as are set-agent, model, cd and export; one instance, one session that a peer may have; history and multi-line input left out; ids of one second do not meet; clauditable is missing from the start or not at all |
| `SessionLogs` | one session's logs on several hosts | a record is a number; backoff and size limits left out |
| `SessionRecords` | concurrent commands of one session on one host | the wait of 200 ms is taken to make a start atomic; the end of the processed file's write and the removal of the writing file are one step; a primary's listing, reading, appending and renaming are four, and the listing fixes which files are read |
| `HostViews` | agent-coordinator between hosts and browsers | one kind of report stands for the nineteen; a browser's queue is full or not, and what is in it is shown; a host has one connection at a time; the list of nodes goes to all hosts in one step; started by ufa-loader |
| `NodeRequests` | a sequence's requests to another node | one operation at a time; prefix matching, symlinks and `max_size` left out |
| `FileExchange` | the files tab | two ids; a move is a rename; the writes and moves of a manifest may fail, which only the log hears of; broadcasts of the listing and stops of LR left out; a hold's expiry is computed as it is written |
| `Libraries`, `ControlLibrary`, `SequenceLibrary` | the two libraries, their files, examples and upgrades, and the robot's as sent to tabs | a sequence is one step, an action's content one of a few; templates and YAML left out, as are an unreadable file and a stop inside a save; one tab |
| `RobotSequences` | imports into the robot and their runs as tabs see them | two imports, one tab, whose queue may be full, a message of progress per run |
| `Tools` | dtt's tool directories and LR's catalog of them; runs of tools | one tool name; copying and removing a tree are one step; LR's restart left out of the catalog; a run from a tab and from agent-coordinator are one kind; dtt is killed before or after its tool, not in the middle; the listing stays good once it is |

Many of these properties hold but for cases that the code leaves open.  Such a case
is recorded by a history variable (`amiss`, `crossed`, `unnoted`, `mixed`,
`mishaps`, `excused`, `raced`, `missed`, `gone`, `story`) at the step where it occurs, never at the one
where it shows, and section 5.2 says what it does.

## 3. The runs

The `turn_*` runs but the last use `Spec`; symmetry is used for safety only.
Deadlock is checked in all runs of condoccer: the driver's pass never stops.  It is
not in the runs of services, which do come to rest: a run that is
over, a signal that ended, bounds that are used up.

| Run | Instance | What it shows |
|---|---|---|
| `turn_safety` | 2 condocs, 1 worker, 2 prompts, 2 signals, 1 fault, 1 restart | types; the stage says where the slopspace is and that the reply is captured (`StageLocatesSlopspace`); prompts are pushed first (`PromptCommitted`); one slopspace deployed (`OneDeployed`), trees kept (`TreesKept`), agents at their own tree (`AgentAtItsTree`), as long as nothing is force completed |
| `turn_races` | 2 condocs, 2 prompts, 2 force completes, 1 fault, 1 signal | claims exclude (`ClaimsExclusive`) and `Condoccer` implements `Claims` (`ImplementsClaims`); a condoc without a turn is home with its own tree, although workers overtaken by a force complete may wipe or swap trees meanwhile (`IdleHasItsTree`) |
| `turn_force` | 1 condoc, 2 prompts, 2 force completes, 2 faults, 1 restart, 1 Resubmit | no force complete is stranded (`ForceNeverStranded`), a turn's record has its signal and reply (`TurnEvidence`) and moves forward only (`TurnMovesForward`), completed condocs stay so and get no further reply (`CompletedForGood`) |
| `turn_live` | 1 condoc; a prompt, a force complete, a Resubmit, a restart, a worker crash, an over-long output; `FairSpec` | prompts are answered (`PromptsAnswered`), turns finish (`TurnsFinish`), force completes rescue (`ForceRescues`) |
| `local_services` | `MCLocalServices` | singletons run alone (`SingletonsAlone`), what is taken for built was made (`BuiltWasMade`), recordings and runs keep out of each other's way (`RecordingsApart`), a connected host is reachable and a link has one opener (`LinkSound`); with fairness, processes told to stop do and carried ones come back (`AppsSettle`), builds happen (`RebuildHappens`), runs end (`RunSettles`), hosts and tunnels come back (`LinkComesBack`) |
| `condoc_services` | `MCCondocServices` | interactions are recorded once, in order (`InteractionsRecorded`); merges are complete and pointers delivered (`CondocsLand`); connections, listeners, retry chains and dots are accounted for (`LinkAccounted`); with fairness, interactions and signals end (`InteractionEnds`, `SignalEnds`) |
| `same_repo` | `SameRepoCondoc` | nothing committed is lost by retries and reverts (`HistoryKept`), the lock goes with the reply (`ReleasedWithReply`) and the reply under its prompt (`ReplyUnderPrompt`); the types are the theorem `TypeInvariant`'s |
| `shared_services` | `MCSharedServices` | trees and metadata agree (`SlopspacesIntact`), rides run in order (`RideInOrder`), answers go to what asked (`AnswersAreTheirOwn`), tabs and browsers end with what is so (`ShownAsItIs`), records, turns, files, libraries, tools and sessions are kept (`KeptAsPromised`) |
| `error_waits` | violation of `ErrorWaits` | finding 1 |
| `one_deployed` | violation of `OneDeployed` once a force complete is allowed | finding 2 |
| `restart_resumes` | violation of `RestartResumes`: 2 condocs, 2 prompts, a restart | finding 3 |
| `force_completes` | violation of `ForceCompletes` | finding 4 |

What a property of the services excepts is an outcome of the code, recorded where it
comes about.  `RebuildHappens` excepts a request whose one reading failed
(`RequestMissed`); `LinkAccounted` a dot that a ridealong put back over a connection
that had dropped (`gone`); `ReleasedWithReply` a lock that condoccer wrote, on an earlier
look, after the handler took it away (`relocked`); `RecordsKept` a record folded by a
primary that listed it before its processed file was there (`early`).  `FilesKept` excepts what a manifest that
could not be written was to say (`unnoted`), `ImportsShown` a tab whose queue was full
(`missed`).  Without its exception each of them is violated; section 5.2 says how.

Some properties of the services are conjunctions of one per service, each true of a
service that does not move: `KeptAsPromised` is `RecordsKept`, `TurnsKept`,
`FilesKept`, `LibraryKept`, `RobotLibraryKept`, `ToolsKept`, `ToolRunsKept` and
`CommandsKept`; `ShownAsItIs` is `TabIsCurrent`, `ShownIsSo`, `TabsUpToDate` and
`ImportsShown`; `AnswersAreTheirOwn` is `AnswersAreTheirs` and `RunIsItsOwn`;
`CondocsLand` is `MergedTogether`, `LandsTogether` and `PointersDelivered`.

### 3.1 Bounds

**Condoccer.**  `Limit` bounds requests, faults, crashes and over-long outputs;
`MaxSignals` bounds the signals (`Create` has it as a guard).  Two condocs are what
it takes to have a turn wait for another's slopspace or a tree in the wrong place,
and one worker is what the start scripts run for an agent type.  Two prompts give a
second turn after the first, with whatever the first left behind.  Two faults
give a failure and a failing retry, two force completes a forced retry.  Safety
with one condoc (`turn_force`) concerns one pointer's history, where a second
condoc adds waiting only.  A turn that uses up `MaxSignals` is stuck in its stage,
which safety does not mind; `turn_live` has as many signals as its restart, its
Resubmit and its one turn, with the proposal's, can use.  With force completes,
`turn_races` has a single signal: the tree that gets lost belongs to the first
condoc's turn or the second's, and needs only one worker overtaken.  The proofs of
section 4 have none of these bounds.

**One host.**  Three applications, two of them singletons that exclude each other;
two instances and two commands give a launch against a launch, a restart or a stop,
and one restart of LR a state to come back from.  Two commits after the first and
one event of another kind (a failing read of git is one too), two runs of two steps with a recording around each and
one time that the robot is out of reach or a person has the recorder, two
connections, tunnels and links: each pair is one that is there and one that
replaces it.  `LocalProofs` has none of these bounds.

**Condocs.**  In `same_repo` two steps and two letters, two asks of the human, two
entries into condoc mode, seven commits, one git failure: a retry or revert has something
before and after it to confuse, and condoccer's pass a reply to fall into.  condocv2 has two condocs on one deploy path, one target each, two
interactions and one mishap; the second condoc waits queued.  A signal has two Force
Completes and one death of its worker.  Proposals have a target and the condoc
repo, two hitches and one thing done by hand.  The pointer repo has one turn, two
troubles and one foreign push, federation-command two connections and one dial at a
time.  `CondocProofs` and `SameRepoProofs` have none of
these bounds.

**Shared.**  Two of everything that can meet: slopspaces, hosts, handlers, editors,
installers, imports, commands, days; three processes of a session in three seconds, for a primary and
two that it folds, or one that two primaries fold; one manifest that is not written; one mishap, where its place matters and not its number.  The
rides are a file that dives into one that dives into an empty one, and one that
dives into itself.  `MaxFetched = 1` of three matches makes a fetch meet its limit,
`MaxStateBytes = 4` a snapshot its cut.  What `HostProofs` proves has none of
these bounds but the two sequences of the library.

### 3.2 Fairness

`FairSpec` assumes, beside `Spec`:

* weak fairness of the driver's pass, the turn loop, each force complete and each
  worker: goroutines and processes that poll and never block on each other.  A
  wait in `awaitSignal` is a disabled action, not an unfair one.
* strong fairness of `LoopClaim`: the loop tries for the claim each second while
  the driver holds it for the moments of an edit, so that it is free infinitely
  often and the loop gets it in the end.

Liveness is checked with one condoc in `turn_live` and, in `restart_resumes`, found
not to hold of two after a restart.

Nothing is assumed of people, faults, crashes or over-long outputs.  Agents are
assumed to exit (`WorkerRuns`), which the code leaves to the agent.  The
liveness properties make an exception of what only a person can repair: `Orphaned`,
a signal whose worker died or could not read it back; an error, which waits for a
person; and for `ForceRescues` a condoccer that stopped and so forgot the request.

The services state their own, for the behaviours that move them:

* `ManagedApps`: goroutines that launch, the reaper, the escalation after five
  seconds, LR's stop and ufa-loader's relaunch; a killed process ends, one that is
  merely asked to need not.
* `RepoWatch`: tickers tick, timers run out, and a make ends.  Nothing is assumed of git,
  whose failures are bounded as the other events are.
* `ControlRuns`: the engine, the robot's handlers and the timers of a run; a person
  at the robot ends a clip; a step that asks a person ends with the answer, a cancel or
  its time limit.
* `HostLink`: loops and readers go on, a dial to where nobody listens
  fails, the proxy closes what it claimed.
* `Interactions`, `SignalFiles`: the turn loop, the tick and workers, as condoccer's.

`shared_services` states none: its properties say what never happens.

## 4. The proofs

For every set of condocs and workers and all bounds, from `PartiesAssumption`
(condocs, workers and `None` are distinct), `WorkSignalsAssumption` and
`WorkerAssumption` (the bounds are natural numbers):

| Theorem | Module | Says |
|---|---|---|
| `Typing` | `CondoccerProofs` | `Spec => []TypeOK` |
| `ClaimsInvariant` | `CondoccerProofs` | `Spec => []ClaimInv` |
| `ClaimsAreExclusive` | `CondoccerProofs` | `Spec => []ClaimsExclusive` |
| `ForceIsNeverStranded` | `CondoccerProofs` | `Spec => []ForceNeverStranded` |
| `ClaimsImplemented` | `CondoccerProofs` | `Spec => ImplementsClaims` |
| `TurnInvariant` | `CondoccerProofs` | `Spec => []TurnInv` |
| `TurnsHaveEvidence` | `CondoccerProofs` | `Spec => []TurnEvidence` |
| `PromptsAreCommitted` | `CondoccerProofs` | `Spec => []PromptCommitted` |
| `IdleCondocsHaveTheirTree` | `CondoccerProofs` | `Spec => []IdleHasItsTree` |
| `StagesLocateSlopspaces` | `CondoccerProofs` | `Spec => [](NeverForced => StageLocatesSlopspace)` |
| `TurnsMoveForward` | `CondoccerProofs` | `Spec => TurnMovesForward` |
| `CompletedStays` | `CondoccerProofs` | `Spec => CompletedForGood` |
| `TreesInvariant` | `CondoccerProofs` | `Spec => [](UnderOneWorker => TreeInv)` |
| `OneIsDeployed` | `CondoccerProofs` | `Spec => [](UnderOneWorker => OneDeployed)` |
| `TreesAreKept` | `CondoccerProofs` | `Spec => [](UnderOneWorker => TreesKept)` |
| `AgentsAreAtTheirTree` | `CondoccerProofs` | `Spec => [](UnderOneWorker => AgentAtItsTree)` |

and for every set of applications, steps, blocks, connections, links and tunnels,
from the assumptions of `ManagedApps`, `RepoWatch`, `ControlRuns` and
`HostLink` (bounds are natural numbers, instances and blocks are of what there
is):

| Theorem | Module | Says |
|---|---|---|
| `LocalInvariant` | `LocalProofs` | `LocalSpec => []LocalInv` |
| `LocalTypes` | `LocalProofs` | `LocalSpec => []LocalTypeOK` |
| `SingletonsStayAlone` | `LocalProofs` | `LocalSpec => []SingletonsAlone` |
| `WhatIsBuiltWasMade` | `LocalProofs` | `LocalSpec => []BuiltWasMade` |
| `RecordingsStayApart` | `LocalProofs` | `LocalSpec => []RecordingsApart` |
| `LinkStaysSound` | `LocalProofs` | `LocalSpec => []LinkSound` |

for every set of steps and letters, condocs and repositories, connections, pushes
and bounds, from the assumptions of `CondocDocs`, `SameRepoCondoc`, `Interactions`,
`SignalFiles`, `CondocProposals`, `PointerRepo` and `FcLink`:

| Theorem | Module | Says |
|---|---|---|
| `CondocInvariant` | `CondocProofs` | `CondocSpec => []CondocInv` |
| `CondocTypes` | `CondocProofs` | `CondocSpec => []CondocTypeOK` |
| `CondocsLandTogether` | `CondocProofs` | `CondocSpec => []CondocsLand` |
| `InteractionsAreRecorded` | `CondocProofs` | `CondocSpec => []InteractionsRecorded` |
| `LinksAccounted` | `CondocProofs` | `CondocSpec => []LinkAccounted` |
| `TypeInvariant` | `SameRepoProofs` | `SameRepoSpec => []TypeInv` |
| `HandlerInvariant` | `SameRepoProofs` | `~Overlaps`: `SameRepoSpec => [](TypeInv /\ HandlerInv)` |
| `HistoryIsKept` | `SameRepoProofs` | `~Overlaps`: `SameRepoSpec => []HistoryKept` |
| `RepliesRelease` | `SameRepoProofs` | `~Overlaps`: `SameRepoSpec => []ReleasedWithReply` |

and for any number of calls, halts, requests, edits and restarts, from the
assumptions of `SlopspaceFiles` and `NodeRequests`:

| Theorem | Module | Says |
|---|---|---|
| `SlopspacesAreIntact` | `HostProofs` | `SharedSpec => []SlopspacesIntact` |
| `AnswersAreOnesOwn` | `HostProofs` | `SharedSpec => []AnswersAreTheirOwn` |

So every invariant and action property of the four `turn_*` runs, every invariant of
`local_services` and `condoc_services`, two of the three of `same_repo` and two of
`shared_services` are proved.  Each inductive invariant was checked by TLC on a small instance before it
was proved.

**Typing** goes component by component: frame lemmas say which variables each
process leaves alone, and one lemma per process types the rest, with one step
per action.  The one place that needs more than records and functions is the
queue, where `RemoveAt` is a concatenation of subsequences (`RemoveAtType`).

**Claims.**  `ClaimsExclusive` alone is not inductive.  When the turn loop releases
a condoc, nobody must be left at work on it, which needs to know that the force
completes begun by the loop are exactly the one the loop waits for; when Force
Complete sets the flag, the loop must not be past looking at it, which needs that
`running` is the loop's condoc until `takeForceComplete`.  `ClaimInv` adds these,
and that an idle driver or loop has no condoc.  Step lemmas (`DriverSteps`,
`LoopSteps`, `ForceSteps`, `HumanSteps`) first reduce the many actions of a process
to what they do to claims: take one, keep it, give it up.  The invariant and the
refinement are then argued on those few shapes.

**Refinement.**  The holder of a claim, which the code records nowhere, is read off
the driver, loop and force completes; the requests are the force flags.  Each shape
maps to `Acquire`, `Request`, `TakeUp`, `GiveUp`, a stutter, or for a restart
`Restart`.

**Turns.**  Condoccer acts on copies: the driver on a pointer read before it claimed
the condoc, the turn loop on one as old as the turn, with a stage it has carried out
and not saved, a force complete on one as old as its claim.  None of the properties
is inductive without saying of every copy what makes writing it safe.  `TurnInv` says
it in five parts: `RecordInv`, how each copy stands to the pointer (one of the
driver's that shows no turn is of a pointer that still has none, the loop's is the
pointer or a stage ahead of it, a force complete's is the pointer until it drops the
turn); `PromptInv`, what
is committed while a prompt waits; `EvidenceInv`, the signal and reply behind a stage
recorded or about to be; `HomeInv`, the tree is home when there is no turn, is about
to be none, or a force complete is at its commit; `LocatesInv`, where the slopspace
is at each stage.  Claims do half of the work (who is at work on a condoc works
on it alone: `DriverAlone`, `LoopAlone`, `ForceAlone`), and one lemma per process and
part the rest; a step of another condoc's or of a worker changes nothing that a part
reads (`OthersKeep`, `WorkersKeep`).  `LocatesInv` holds only until the first Force
Complete, for one that fails half way leaves the turn with its slopspace returned;
`NeverForced` says until when, and the run that checks the property says the same
with `Forces = 0`.  `CompletedForGood` and `TurnMovesForward` are action properties,
proved of each step under the invariant.

**Trees.**  Where trees are is nobody's promise alone: the turn loop looks at the
deploy path and then deploys, the worker takes signals in order and runs in whatever
is there.  `TreeInv` ties them together: signals not yet created have no files
(`FreshInv`), a worker holds the oldest signal of its condoc and nothing of its own
(`HoldInv`), a complete signal is older than any live one of its condoc
(`QueuedInv`), a live signal belongs to the turn of a condoc that is deployed
(`WorkInv`, `SaveSig`), and the deploy path holds the tree of whatever is marked
there and everything else is at home (`PathInv`).  It holds with one worker and
while nothing was force completed.  Both are needed: a Force Complete returns
the slopspace of a turn whose agent is still at work, after which the worker deploys
one of its own (the run `one_deployed`); and two workers can each find nothing
deployed before the other deploys.

**Local services.**  One inductive invariant per service, in a section of its own,
with one lemma per action; the composition (`LocalInv`) is their conjunction, since a
step moves one service and leaves the others' variables alone.

* `KeeperInv` (tunnels) says what `OneOpener` counts without counting: who keeps
  a link is its opener or one unclaimed tunnel, never two.  `AtMostOne`
  turns that into the cardinality.
* `PeerInv` (link) says which connection agent-coordinator takes a host's messages
  for; without it the end of an old connection could be taken for the present one's.
* `BuildInv` (repository) follows a build from its start over its end to the note
  taken of it.  HEAD is where the build began as long as nobody changed the tree, for no
  poll or switch gets in; and the note is taken only of a HEAD that git could read.
* `ControlInv` (control runs) is `RunInv`, where the run is; `FreshRequests`, what
  nobody has asked yet; `HolderInv`, who has the recorder and the mouse; `HeardInv`,
  for each recording that the robot was never out of reach for, where it is between
  request, recording and answer; and `CalmInv`, what is so while there was no
  trouble.
* `AppsInv` (applications) ties rows, which LR keeps, to processes, which the
  property counts (`RowInv`), covers the time between a launch's check and its row
  (`LaunchInv`, `AloneInv`) and the restart, which throws the rows away (`LeftInv`).

**Condoc services.**  `CondocInv` is one inductive invariant per service, as for
the local services.

* `SignalFilesTypeOK` is inductive as it stands.
* `FcInv` (link) adds to the property that no connection is both the operator's and the
  loop of retries'.  That a dot of before which a ridealong holds may be put back is in
  the property's exception, so that the invariant needs nothing of it.
* `ProposalInv` (proposals) says of each phase of the pointer and each kind of request
  what has been done so far, in the order of the repositories: those before the one the
  request is at have their branch, their pull request or their merge
  (`PointerFits`, `RequestFits`), and what was merged was so in that order (`MergedFits`).
  `MergedTogether` needs the order, for the condoc's own pull request comes last.
* `PointerInv` (pointer repo) says that what is not at GitHub yet was reported or is being
  worked on (`Reported`), who wrote which commit (`Authors`), that the pointer's commits
  stay in order through any rebase, up to the file as it is (`InOrder`), and that after
  the base of a turn only that turn is ended (`TurnsEnd`).  `PointersDelivered` is stated
  over positions and not over a filtered sequence, which the provers cannot unfold.
* `InteractionsInv` (condocv2) follows the copy that the turn, the tick or a request has
  of a pointer.  `PhaseFits` and `SectionsFit` say which step file goes with which stage,
  `CommitsFit` that what is recorded was committed and pushed first, `MergesFit` how far
  a merge has come, `TurnFits` what the turn has carried out and not saved, and
  `WorldFits` that a step file and the branches have sections and commits in order.
* `TypeInv` and `HandlerInv` (a condoc in its own repository).  `Orderly` has only the
  present session's job under way, and that job the one the session waits for; `Kept` says
  that what the handler committed is on the branch or on a take branch, and on a take
  branch before the branch is taken back; `BegunFresh` that a commit which started a step
  or a substep has its file as it was written, and so has the tree that a retry goes back
  to; `Unlocks` that while git has not failed, and condoccer has not written the lock on an
  earlier look, origin is never ahead of the branch here, the lock stays out of the tree
  from when the handler takes it away until its commit, and no commit that ends a turn
  leaves the lock to the human.  The steps of condoccer's pass are steps of it like the
  handler's: a look may be as old as it likes, its write and its commit come anywhere.
  All of it assumes `~Overlaps`: a session that was left while git or the agent was under
  way has its messages arrive in the next one, and then a retry can reset what the
  other's job just committed.  The run has `Overlaps = FALSE` too.

**Shared services.**  `SlopspacesInv` says of each call of the slopspace manager, stage
by stage, which directories it has moved and what the metadata still says (`SoFar`); one
call is under way at a time, so that all else is where the metadata has it, and what a
caller saw of the deploy path before its call is still so (`StillFree`).  It
says so, as the property does, until calls overlap or a halt cuts one off.  `NodesInv` ties requests to answers: a name is never given to a
second request (`RequestsFit`), an answer has what was saved for its own (`AnswersFit`),
the operation has only what an answer to one of its own tries brought (`ErrandFits`), and
until it is told that the node is there, a node waited for has not connected
(`ListsFit`).  `LineagesInv` says that each sequence made since the library was loaded
has a rev of its own, that is kept by every edit and rename and never given twice
(`RevsGoOn`); a run is then of the sequence that has its rev.  `RunIsItsOwn` excepts
sequences that came with the library, which all have rev 0, once one was renamed.  The
library is proved for two sequence names, which is what `Libraries` has: its merges give
revs in the order of the names.

**What stays with TLC.**
* Liveness (`PromptsAnswered`, `TurnsFinish`, `ForceRescues`, `AppsSettle`,
  `RebuildHappens`, `RunSettles`, `LinkComesBack`, `InteractionEnds`, `SignalEnds`), which
  needs fairness and `ENABLED`.
* What needs induction over data: `RideInOrder`, whose order is computed by walking the
  files of a ride; of `KeptAsPromised` the parts over logs (`TurnsKept`, `RecordsKept`);
  and `ReplyUnderPrompt`, which speaks of the sections of a file that passed through
  filters of sequences.
* `SharedTypeOK`, `ShownAsItIs` and the rest of `KeptAsPromised`: conjunctions over all
  the services of the composition, not all of which have an inductive invariant yet.

## 5. Findings

### 5.1 Shown by a run

1. **`error_waits`**: the driver queues a turn on a pointer read at the start of
   its pass, so a turn that failed meanwhile is run again without Resubmit
   (`condoccer/slopspace.go:825`).
2. **`one_deployed`**: a worker overtaken by a Force Complete deploys a slopspace of
   its own for a signal nobody wants; another condoc's turn deploys beside it, and
   a working tree is removed (`dungeon-keeper/main.go:854`).  `turn_races` shows
   that the damage does not go unnoticed: the turn errs.
3. **`restart_resumes`**: the queue is rebuilt in the order of the pointer files'
   names.  After a restart with condoc B's slopspace deployed, a condoc A that comes
   before it and has a turn to run is queued first and waits at the head for the
   path to be free, and B, behind it, never gets to return its slopspace: no turn
   runs again until one of them is force completed
   (`condoccer/slopspace.go:1421`, `:1513`).
4. **`force_completes`**: an agent output over 64 KiB makes the signal unreadable,
   so neither the worker nor Force Complete can end the turn
   (`dungeon-keeper/pkg/worksignal/worksignal.go:129`).

### 5.2 Met while modelling

Where the code does not keep what one would expect, or a comment says, the model
does what the code does and the properties except it.  By component:

**condoccer.**
* A Force Complete of a queued turn whose last commit fails leaves phase `queued` without
  a turn; after Resubmit nothing picks the condoc up, though the comment at
  `slopspace.go:1273` says that Resubmit does.
* A reply appended before its template fails is appended again by the retry
  (`OneReply` states it and is in no run); a stop between submitting a signal and
  saving it runs the agent twice.
* A failed Accept leaves the branch at origin, and accepting again is refused.  A
  target without changes can never get a pull request, so raising never succeeds.
  Raising again after a failed commit appends a second `## Pull Requests`.
* `setPointer` while a turn runs writes the old repo's pointer into the new one.
  "the rebase doesn't conflict" (`pushPointerLocked`) is not so when somebody edits a
  pointer file that is held.

**Signals.**  A poll of `complete/` between header and events takes a reply that is
cut.  `TakeOwnership` around a Force Complete writes the file back into `ongoing/`,
and the abandoned signal is run.  A worker that dies inside a rewrite leaves an empty
file that `Complete` cannot read; a stop inside Create one that nobody reads.

**Slopspaces as files.**  A Return cut off between rename and metadata, and retried,
removes the writespaces; after another deploy it moves the other's tree.  A Deploy
cut off leaves a tree without a marker, which the next Deploy clears; cut off between
marker and metadata, nobody can return or deploy.  A turn checks the marker before it
syncs the repos, and deploys after.  The panel deploys while a commit has `.git` in
the tree, and between a turn's Deploy and its signal; a turn that ends returns the
slopspace from under the agent of a panel's command.

**condocv2.**
* The reply file is removed before the stage is saved: after a stop in between
  every Resubmit fails.  A stop between submitting a signal and saving it runs the
  agent twice.
* The tick does not look at the final phase again: a prompt is inserted into an
  abandoned condoc.  A lock whose commit failed after the file write is taken as
  locked by the tick.
* A failed Deploy at the head of the queue, resubmitted, waits for a slopspace behind
  it.  Abandoning an errored condoc leaves its slopspace at the deploy path.  A lost or
  unreadable signal holds the turn loop for good; there is no Force Complete.
* condoccer and condocv2 check and then deploy the same path.
* A failed Accept cannot be repeated.  A pull request merged by hand before it is
  raised again makes Create refuse.

**federation-command, condocs.**
* `pendingRevisionLetter` compares the number of Revision headings with that of
  lettered replies: a Revision after a Retry is never run (`condoc.go:964`; condoccer
  counts the same way).  The second Substep of a letter never starts (`:1211`).
* A retry or revert whose git fails leaves phase RunningAgent for good, where not even
  force complete is looked at, though the comment at `:1750` says that it is honored
  in any phase with nothing in flight.  A failed push of Branching is followed by
  AwaitingStep with step 0.  A Revision asked for while GitFailed has its HANDOFF
  consumed by the retry.
* condoccer acts on the lock on a look taken at the start of its pass.  Written after the
  handler took it away, the lock is staged with the reply, which is then committed with it
  (`condoccer/main.go:1444`), where the comment at `condoc.go:519` has its removal in the
  very same commit.
* A retry or a revert restores its file over whatever tree it resets to: a file of a step
  that was completed, or one with substeps whose files the reset takes away.  A later reply
  then lands under another prompt (`condoc.go:1462`).
* The counter of take branches starts at 0 after a reload, so that the push of take 1
  is rejected.  A revert does not move the hash its step started at, a reload does
  not recover that of a substep, and `HEAD~n` counts commits that are not there.
* The text after `!REVERT-N!` (`:2716`) says HANDOFF runs the step again; it is
  ignored.  Messages carry no session, and `push --force` drops what others pushed.

**federation-command, link and ridealongs.**
* After a drop that was not intended the old listeners go on: they multiply, commands
  run out of order, and those of an old connection on the next.  Turning auto-connect
  off and on leaves two chains of retries.  A mode-mismatch verdict can be lost, or
  reach a new connection.
* Enter pressed twice runs a step twice and skips the next.  Auto-connect during a
  ridealong lets remote commands run in it.  A ridealong that ends puts back the dot it found, and in
  remote control takes the keys away, though the connection has dropped since
  (`main.go:3005`).  A jump to a waypoint after the last step ends the ride.  A file
  edited after the check for cycles can dive for ever.

**federation-command, sessions.**
* A command entered while the dynamic pane closes replaces the one that waits, which
  is never run; one entered between its closing and the message runs before it.
* A command's record lands in the session switched to while it ran, and `rename-session
  -a` then renames that one, even a daily default.  A remote select-session replaces an
  open picker, whose command is never recorded; the picker may select a daily default
  of an earlier day, which the next command leaves again.
* `session archive` loses its own record, and all later ones until something makes the
  directory again.  After a restart with an archived session the directory has no
  owner, and a rename claims it.  listModels leaves no record; steps of ridealongs do not
  roll over to a new day; what is not recorded at a stop is lost.

**Session logs and records.**
* `splitLogBlocks` drops only the last, partial line of a log that is being written, so
  that the record before it can lose its body (`session-manager/sessionlog.go:157`).
* A stop between `Truncate` and `WriteAt` of a prune loses the kept turns.  A pull
  decided before the session was claimed here renames over the claim.  A rename of a
  session without `session.yaml` claims it; one without an owner has two.  After an
  archive the owner's next append starts a log that replaces its peers' full ones.
  Identical headers make two records one.
* A primary that lists a secondary's record between its raw and its processed file folds
  the raw one and leaves the processed one to the next primary, which folds it again
  (`clauditable/main.go:785`), where FILE_PROCESSING_SEQUENCE.md has one entry per
  invocation.
* Two commands of one second share file names.  Two primaries fold a record twice, as
  does one that is killed before its renames; a half-written processed file is folded
  as it is; a killed primary leaves a writing file and nothing is folded any more.

**local-representative, processes and repository.**
* Two launches of a singleton between check and record both run; a launch while LR
  stops is orphaned; a second restart loses what the first had still to bring back.
* A build request is read once for a HEAD.  When git fails in that one reading it is kept
  as no request (`ufabuild.go:127`), and the repository, clean and unlocked, is not built
  until HEAD moves again, where DevMode.md has every LR on the branch build it straight
  away.
* A restart takes the current head for built, and a build after which HEAD cannot be
  read leaves the head built before, so that the same head is built again.  `requestRebuild` trusts a dirty flag up
  to five seconds old.  A make that is killed leaves `.building`.  "Each distinct
  request is built once" fails when a branch is switched back.  The comment at
  `repowatch.go:473` says that nothing moves HEAD while a build holds `opMu`, the one
  at line 486 that the repo may have moved: people do move it.

**The link.**
* `acIntentionalDisconnect` stays set when the connection was superseded; a wakeup of
  `startAutoConnectAC` is lost to a loop about to end; a late attempt of auto-connect
  closes the operator's connection; `acAutoConnectEnabled` is read without its lock
  (`main.go:977`).
* A client's `disconnect()` of its old connection clears the new one, and
  `SendCommand` drops commands from then on.  The end of an old connection, read late,
  clears what agent-coordinator has of the new one.  A dead tunnel stays parked and is
  claimed.
* A recording whose start timed out may begin after the run is over.

**Nodes and views.**
* A capture refused because the robot is down reads the robot's state afterwards.  A
  wait for a node to connect anew is satisfied by the asker's own reconnection, or by
  lists that arrive late; a reconnection faster than its drop is noticed does not count.
* agent-coordinator computes what is available outside the lock it stores it under, and
  lists sent by two handlers may cross; a browser's first snapshot may overwrite a newer
  broadcast; a message that does not fit a browser's queue of 64 is lost; `services` is
  not cleared at a disconnect.

**Files.**
* "the data file's own mtime only ever reflects its original upload time"
  (`files.go`, `writeManifest`) is not so after a markup commit.
* A highlight around a hold takes the hold back.  A sweep that reads a manifest being
  written removes a file that is held, and one that has looked removes it while the hold
  is answered.  A commit around a persist leaves a second copy that hides the stored one
  and is swept; around a delete it brings the file back.  A sweep between the moves of a
  persist removes the manifest.  A file still being uploaded is moved as it is.
* A manifest that cannot be written or moved is logged and the request answered as done
  (`files.go:645`): the hold or the highlight is lost.

**Libraries and imports.**
* `restoreExamples` records the shipped versions before its commit: after a failed one
  the next save has a record ahead of copies nobody edited, which are never upgraded; the
  same after a failed save at start.
* A sequence loaded from the file, renamed to the id of one that was deleted while
  running, takes that run for its own.  An older build sets a newer library aside.
  In ianar, an edited copy of a retired action whose op is gone sets the whole library
  aside, and a retired action kept because it was in use loses its record.
* `importForLR` says it has run the sequence before it has.  An import that timed out may
  have been merged.  Two imported runs mix in what a new tab is shown.  Snapshots of
  a library sent out of order leave a tab with the older one.

**Tools.**
* A stop between the renames of an install leaves the tool only as `.old`, and two
  forced installs can remove each other's.  An install that failed after it changed
  the directory asks for no listing.
* A save of a run may miss files when the run is dropped meanwhile.  A run's limit comes
  from a stale catalog.  LR's restart removes working directories under the dtt processes
  of the LR before it.

## 6. Not modelled, and the plan

Left out for good: the executor, read and write spaces, speech, what a robot does on the
desktop, the agent wrappers and configuration (sequential I/O), condoccer's resources and
views, and the frontends, except that Force Complete is enabled in the phases the UI
offers it in.  Within modelled parts, what a table of section 2 or a note of
`PROJECT.json` leaves out.

To prove next, in this order:

1. `ShownAsItIs`, part by part: `TabsUpToDate` and `ImportsShown`, which are close to
   inductive, then `TabIsCurrent` and `ShownIsSo`.
2. The parts of `KeptAsPromised` without logs: `ToolsKept`, `ToolRunsKept`, `FilesKept`,
   `LibraryKept` (on top of `LineagesInv`), and with them `SharedTypeOK`.
3. That `SlopspaceFiles` without halts implements the steps of `Slopspaces`, and
   `SignalFiles` those of `WorkSignals`.
