--------------------------- MODULE SameRepoCondoc ---------------------------
(***************************************************************************)
(* A condoc kept in the repository it works on: federation-command's       *)
(* handler (condoc.go), which polls the files, runs the agent and commits, *)
(* and condoccer, which shows the condoc, writes what the human asks into  *)
(* its files and keeps the repository's .condoc lock (main.go).            *)
(*                                                                         *)
(* The handler is an event loop: it starts a git sequence or the agent and *)
(* goes on when the message of its end arrives.  The messages carry no     *)
(* session, so those of a session left meanwhile reach the next one.       *)
(*                                                                         *)
(* The repository is one clone's: nothing else pushes to the branch, and   *)
(* the pull every 30 s finds nothing.                                      *)
(***************************************************************************)
EXTENDS CondocDocs

CONSTANTS MaxAsks,      \* what the human asks for
          MaxSessions,  \* times condoc mode is entered
          MaxCommits,   \* commits made
          MaxTrouble,   \* git operations that fail
          Overlaps      \* whether condoc mode is entered while a session that
                        \* was left still has git or the agent under way

ASSUME SameRepoAssumption ==
    /\ MaxAsks \in Nat /\ MaxSessions \in Nat \ {0}
    /\ MaxCommits \in Nat /\ MaxCommits > 2 /\ MaxTrouble \in Nat /\ Overlaps \in BOOLEAN

VARIABLES session,   \* CondocSession, of the condoc mode entered last
          jobs,      \* what each condoc mode entered has under way
          work,      \* the working tree
          log,       \* every commit made
          tips,      \* the branch here and at origin, and origin's take branches
          seen,      \* the phase condoccer saw last, and how far its pass is with
                     \* the lock: what to make it, and the commit it was written on
          counts,    \* asks, sessions, trouble so far
          story      \* history: what went wrong before, see Astray

gitVars == <<work, log, tips>>
sameRepoVars == <<session, jobs, gitVars, seen, counts, story>>

CondocPhase == {"Proposed", "Branching", "AwaitingStep", "StepStarting", "RunningAgent",
                "Committing", "AwaitingAction", "HumanCommitting", "GitFailed"}

CommitKind == {"proposed", "accepted", "started", "prompt", "replied", "completed",
               "closed", "took", "reverted", "lock", "recovery"}

\* What a commit's message says: its kind, the step and the substep.
Message == [kind : CommitKind, step : 0 .. MaxSteps, sub : 0 .. MaxLetters]
About(kind, step, sub) == [kind |-> kind, step |-> step, sub |-> sub]

CommitId == 0 .. MaxCommits + 1
Sessions == 1 .. MaxSessions

\* doc is the file a retry or revert restores, target or back where it resets
\* to, take the branch it saves to.
Job == [at : {"none", "commit", "push", "run", "take", "reset", "force", "done", "failed"},
        does : {"git", "agent", "retry", "revert"}, msg : Message,
        target : CommitId, back : Nat, take : Nat, doc : Doc, revert : Revert]
NoJob == [at |-> "none", does |-> "git", msg |-> About("proposed", 0, 0), target |-> 0,
          back |-> 0, take |-> 0, doc |-> NoDoc, revert |-> NoRevert]

\* What explains a property's not holding: the session's start stayed behind,
\* when a revert went to another step than the one at hand or HEAD could not be
\* read; a retry or a revert brought back a file that does not fit the tree, see
\* Mislays; condoccer wrote the lock when the handler had taken it away.
Astray == {"behind", "mislaid", "relocked"}

NoMsg == About("proposed", 0, 0)

SameRepoTypeOK ==
    /\ session \in [active : BOOLEAN, phase : CondocPhase, next : CondocPhase,
                    step : 0 .. MaxSteps, file : BOOLEAN, sub : 0 .. MaxLetters,
                    letter : 0 .. MaxLetters + 1, start : CommitId, subStart : CommitId,
                    takes : Nat, last : Message, failed : CondocPhase]
    /\ jobs \in [Sessions -> Job]
    /\ IsTree(work)
    /\ \A i \in DOMAIN log : log[i].parent < i /\ log[i].msg \in Message /\ IsTree(log[i].tree)
    /\ tips \in [head : CommitId, origin : CommitId, takes : [1 .. MaxAsks -> CommitId]]
    /\ seen \in [phase : {"new", "proposed", "awaiting_step", "agent_running",
                          "awaiting_action", "completed"},
                 at : {"idle", "change", "commit"}, on : BOOLEAN, head : CommitId]
    /\ counts \in [asks : 0 .. MaxAsks, sessions : 0 .. MaxSessions, trouble : 0 .. MaxTrouble]
    /\ story \in SUBSET Astray

NewSession == [active |-> TRUE, phase |-> "Proposed", next |-> "AwaitingAction", step |-> 0,
               file |-> FALSE, sub |-> 0, letter |-> 0, start |-> 0, subStart |-> 0,
               takes |-> 0, last |-> NoMsg, failed |-> "Committing"]

Proposal == [main |-> [step |-> 0, filled |-> TRUE, completed |-> FALSE,
                       directives |-> {}, revert |-> NoRevert],
             stepDoc |-> [s \in Steps |-> NoDoc],
             subDoc |-> [s \in Steps |-> [l \in Letters |-> NoDoc]],
             lock |-> FALSE]

Accepted == [Proposal EXCEPT !.main = templateStep(@, 1)]
Started == [Accepted EXCEPT !.main = [removeMainPrompt(@) EXCEPT !.filled = TRUE],
                            !.stepDoc[1] = writeStepFile]
FirstReply == [Started EXCEPT
    !.stepDoc[1] = addNextRevisionTemplate(appendReplyToStepFile(@, Unlettered), Unlettered)]

\* A proposal that has been written and not yet committed, or condoc mode
\* entered on a condoc whose first step has its reply.
SameRepoInit ==
    /\ \/ /\ session = NewSession
          /\ work = Proposal
          /\ log = <<[parent |-> 0, tree |-> Proposal, msg |-> NoMsg]>>
          /\ tips = [head |-> 1, origin |-> 0, takes |-> [n \in 1 .. MaxAsks |-> 0]]
       \/ /\ session = [NewSession EXCEPT !.phase = "AwaitingAction", !.step = 1,
                                           !.file = TRUE, !.start = 3]
          /\ work = FirstReply
          /\ log = <<[parent |-> 0, tree |-> Proposal, msg |-> NoMsg],
                     [parent |-> 1, tree |-> Accepted, msg |-> About("accepted", 1, 0)],
                     [parent |-> 2, tree |-> Started, msg |-> About("started", 1, 0)],
                     [parent |-> 3, tree |-> FirstReply, msg |-> About("replied", 1, 0)]>>
          /\ tips = [head |-> 4, origin |-> 4, takes |-> [n \in 1 .. MaxAsks |-> 0]]
    /\ jobs = [n \in Sessions |-> NoJob]
    /\ seen = [phase |-> "new", at |-> "idle", on |-> FALSE, head |-> 0]
    /\ counts = [asks |-> 0, sessions |-> 1, trouble |-> 0]
    /\ story = {}

-----------------------------------------------------------------------------
\* git.

History(i) ==
    LET anc[j \in 0 .. Len(log)] == IF j = 0 THEN {} ELSE {j} \cup anc[log[j].parent]
    IN  anc[i]

\* HEAD~k, 0 when there is no such commit.
Back(i, k) ==
    LET up[j \in 0 .. k] == IF j = 0 THEN i
                            ELSE IF up[j - 1] = 0 THEN 0 ELSE log[up[j - 1]].parent
    IN  up[k]

HeadTree == log[tips.head].tree

CommitOn(parent, tree, msg) ==
    /\ Len(log) <= MaxCommits
    /\ log' = Append(log, [parent |-> parent, tree |-> tree, msg |-> msg])
    /\ tips' = [tips EXCEPT !.head = Len(log) + 1]

\* git add . and commit; nothing to commit is no error.
CommitAll(tree, msg) ==
    IF tree = HeadTree THEN UNCHANGED <<log, tips>> ELSE CommitOn(tips.head, tree, msg)

\* The last commit that started a step, or a substep of it.
StartedAt(step, sub) ==
    {i \in History(tips.head) : log[i].msg = About("started", step, sub)}

LatestStart(step, sub) ==
    IF StartedAt(step, sub) = {} THEN 0 ELSE LastOf(StartedAt(step, sub))

Trouble == counts.trouble < MaxTrouble /\ counts' = [counts EXCEPT !.trouble = @ + 1]

-----------------------------------------------------------------------------
\* The handler's event loop.

Me == counts.sessions

\* tea.Exec keeps the loop from everything while the agent runs.
LoopFree == \A n \in Sessions : jobs[n].at # "run"

Under(n) == jobs[n].at # "none"

Runs(job) == jobs' = [jobs EXCEPT ![Me] = job]

\* runGit: commit all as msg, then push.
runGit(s, msg) ==
    /\ session' = [s EXCEPT !.last = msg]
    /\ Runs([NoJob EXCEPT !.at = "commit", !.msg = msg])

\* The file of a step, or of a substep of it.
FileOf(t, step, sub) == IF sub # 0 THEN t.subDoc[step][sub] ELSE t.stepDoc[step]

WithFile(t, step, sub, d) ==
    IF sub # 0 THEN [t EXCEPT !.subDoc[step][sub] = d] ELSE [t EXCEPT !.stepDoc[step] = d]

activeDoc == FileOf(work, session.step, session.sub)

\* The tree with the active step or substep file replaced.
WithActive(t, d) == WithFile(t, session.step, session.sub, d)

Says(directive) == directive \in activeDoc.directives
MainSays(directive) == directive \in work.main.directives

\* The tick acts in these phases, on the force complete before all else.
Ticks(phase) ==
    /\ session.active /\ session.phase = phase /\ LoopFree
    /\ ~(/\ phase \in {"AwaitingStep", "AwaitingAction", "GitFailed"}
         /\ session.step > 0 /\ MainSays("force"))

HandlerRest == UNCHANGED <<log, tips, seen, counts>>

condocAcceptProposal ==
    /\ Ticks("Proposed") /\ MainSays("handoff")
    /\ work' = [work EXCEPT !.main = templateStep(@, 1)]
    /\ runGit([session EXCEPT !.phase = "Branching"], About("accepted", 1, 0))
    /\ UNCHANGED story /\ HandlerRest

condocStartStep ==
    /\ Ticks("AwaitingStep") /\ MainSays("handoff") /\ ~MainSays("completed")
    /\ work.main.step > 0
    /\ LET n == work.main.step IN
       /\ work' = [work EXCEPT !.stepDoc[n] = writeStepFile,
                               !.main = [removeMainPrompt(@) EXCEPT !.filled = TRUE]]
       /\ runGit([session EXCEPT !.step = n, !.file = TRUE, !.letter = 0,
                                 !.phase = "StepStarting"], About("started", n, 0))
    /\ UNCHANGED story /\ HandlerRest

\* condocFinish: the lock goes in the commit that completes the condoc.
Finish(t, s) ==
    /\ work' = [t EXCEPT !.main = finalizeMainFile(@), !.lock = FALSE]
    /\ runGit([s EXCEPT !.active = FALSE], About("completed", s.step, 0))

condocCompleteCondoc ==
    /\ Ticks("AwaitingStep") /\ MainSays("completed")
    /\ Finish(work, session)
    /\ UNCHANGED story /\ HandlerRest

\* The open substep and step are closed with the condoc.
ForceCompleted(t) ==
    LET sub == IF session.sub # 0 /\ t.subDoc[session.step][session.sub].exists
               THEN [t EXCEPT !.subDoc[session.step][session.sub] = finalizeStepFile(@)]
               ELSE t
    IN  IF session.file THEN [sub EXCEPT !.stepDoc[session.step] = finalizeStepFile(@)]
        ELSE sub

condocForceComplete ==
    /\ session.active /\ LoopFree
    /\ session.phase \in {"AwaitingStep", "AwaitingAction", "GitFailed"}
    /\ session.step > 0 /\ MainSays("force")
    /\ session.file => work.stepDoc[session.step].exists
    /\ Finish(ForceCompleted(work), session)
    /\ UNCHANGED story /\ HandlerRest

\* A !HANDOFF! in the active file runs the sequence that failed again.
condocRetryFailedGit ==
    /\ Ticks("GitFailed")
    /\ IF session.file
       THEN /\ Says("handoff")
            /\ work' = WithActive(work, [activeDoc EXCEPT !.directives = @ \ {"handoff"}])
       ELSE /\ MainSays("handoff")
            /\ work' = [work EXCEPT !.main.directives = @ \ {"handoff"}]
    /\ runGit([session EXCEPT !.phase = session.failed], session.last)
    /\ UNCHANGED story /\ HandlerRest

\* What the step or substep file asks for, in the order it is looked for.
Asked(what) ==
    /\ Ticks("AwaitingAction") /\ session.file /\ activeDoc.revert = NoRevert
    /\ CASE what = "complete" -> Says("completed")
         [] what = "retry"    -> Says("handoff") /\ ~Says("completed") /\ RetryPending(activeDoc)
         [] what = "substep"  -> /\ Says("handoff") /\ ~Says("completed")
                                 /\ session.sub = 0 /\ ~RetryPending(activeDoc)
                                 /\ PendingSubsteps(work, session.step) # {}
         [] what = "revision" -> /\ Says("handoff") /\ ~Says("completed") /\ ~RetryPending(activeDoc)
                                 /\ session.sub # 0 \/ PendingSubsteps(work, session.step) = {}
                                 /\ pendingRevisionLetter(activeDoc) # Unlettered

condocCompleteSubstep ==
    /\ Asked("complete") /\ session.sub # 0
    /\ work' = [work EXCEPT
           !.subDoc[session.step][session.sub] = finalizeStepFile(@),
           !.stepDoc[session.step] = addNextRevisionTemplate(@, lastReplyLetter(@))]
    /\ runGit([session EXCEPT !.sub = 0, !.subStart = 0, !.letter = 0,
                              !.phase = "Committing", !.next = "AwaitingAction"],
              About("closed", session.step, session.sub))
    /\ UNCHANGED story /\ HandlerRest

condocCompleteStep ==
    /\ Asked("complete") /\ session.sub = 0 /\ session.step < MaxSteps
    /\ work' = [work EXCEPT !.stepDoc[session.step] = finalizeStepFile(@),
                            !.main = templateStep(@, session.step + 1)]
    /\ runGit([session EXCEPT !.phase = "Committing", !.next = "AwaitingStep",
                              !.file = FALSE, !.step = @ + 1],
              About("closed", session.step, 0))
    /\ UNCHANGED story /\ HandlerRest

condocRunRevision ==
    /\ Asked("revision")
    /\ work' = WithActive(work, removeHumanPromptSection(activeDoc))
    /\ runGit([session EXCEPT !.letter = pendingRevisionLetter(activeDoc),
                              !.phase = "HumanCommitting"],
              About("prompt", session.step, session.sub))
    /\ UNCHANGED story /\ HandlerRest

condocStartSubstep ==
    /\ Asked("substep")
    /\ LET l == pendingSubstepLetter(work, session.step) IN
       /\ work' = [work EXCEPT !.subDoc[session.step][l] = writeStepFile,
                               !.stepDoc[session.step] = markSubstepInStepFile(@, l)]
       /\ runGit([session EXCEPT !.sub = l, !.letter = 0, !.phase = "StepStarting"],
                 About("started", session.step, l))
    /\ UNCHANGED story /\ HandlerRest

-----------------------------------------------------------------------------
\* Retry and revert: a sequence that rewrites the branch.

\* Mutant: a substep's retry goes back to the start of its step.
StepStart(r) == IF r.from = Start THEN session.start ELSE 0

retryTarget(r) ==
    IF r.from = Start THEN (IF session.sub # 0 THEN session.subStart ELSE session.start) ELSE 0

\* One is refused before the first reply, or when it goes back no step.
condocRunRetry ==
    /\ Asked("retry") /\ Named(activeDoc, "Reply") # {}
    /\ LET r == PendingRetry(activeDoc)
           back == retryFromStepsBack(activeDoc, r.from)
       IN  /\ back > 0
           /\ session' = [session EXCEPT !.takes = @ + 1, !.letter = r.letter,
                                         !.phase = "RunningAgent"]
           /\ Runs([NoJob EXCEPT !.at = "take", !.does = "retry", !.take = session.takes + 1,
                        !.target = retryTarget(r), !.back = back,
                        !.doc = removeHumanPromptSection(activeDoc),
                        !.msg = About("took", session.step, session.sub)])
    /\ UNCHANGED <<work, story>> /\ HandlerRest

\* Of the step's or substep's start, and refused when there is no such commit.
revertSub(r) == IF r.sub = 0 THEN 0 ELSE r.iter

RevertTo(r) ==
    /\ LatestStart(r.step, revertSub(r)) # 0
    /\ session' = [session EXCEPT !.takes = @ + 1, !.phase = "RunningAgent", !.step = r.step,
                                  !.file = TRUE, !.sub = 0, !.subStart = 0, !.letter = 0]
    /\ Runs([NoJob EXCEPT !.at = "take", !.does = "revert", !.take = session.takes + 1,
                 !.target = LatestStart(r.step, revertSub(r)), !.revert = r,
                 !.doc = removeHumanPromptSection(FileOf(work, r.step, revertSub(r))),
                 !.msg = About("reverted", r.step, revertSub(r))])
    /\ story' = IF r.step # session.step \/ ~session.file THEN story \cup {"behind"} ELSE story
    /\ UNCHANGED work /\ HandlerRest

condocRevert ==
    \/ /\ Ticks("AwaitingAction") /\ session.file /\ activeDoc.revert # NoRevert
       /\ RevertTo(activeDoc.revert)
    \/ /\ Ticks("AwaitingStep") \/ Ticks("Proposed")
       /\ ~MainSays("handoff") /\ ~MainSays("completed") /\ work.main.revert # NoRevert
       /\ RevertTo(work.main.revert)

\* Mutant: a take branch that is refused is not waited for.
PushTakeAnyway(n) ==
    LET j == jobs[n] IN
    /\ j.at = "take" /\ j.take \in DOMAIN tips.takes
    /\ jobs' = [jobs EXCEPT ![n].at = "reset"]
    /\ IF tips.takes[j.take] = 0 \/ tips.takes[j.take] \in History(tips.head)
       THEN tips' = [tips EXCEPT !.takes[j.take] = tips.head]
       ELSE UNCHANGED tips
    /\ UNCHANGED <<session, work, log, seen, counts, story>>

\* Push HEAD to the take branch, which must be new or behind it.
PushTake(n) ==
    LET j == jobs[n] IN
    /\ j.at = "take" /\ j.take \in DOMAIN tips.takes
    /\ IF tips.takes[j.take] = 0 \/ tips.takes[j.take] \in History(tips.head)
       THEN /\ tips' = [tips EXCEPT !.takes[j.take] = tips.head]
            /\ jobs' = [jobs EXCEPT ![n].at = "reset"]
       ELSE jobs' = [jobs EXCEPT ![n].at = "failed"] /\ UNCHANGED tips
    /\ UNCHANGED <<session, work, log, seen, counts, story>>

ResetTo(j) == IF j.target # 0 THEN j.target ELSE Back(tips.head, j.back)

\* The tree after the reset: the step's document outlives a retry, and a
\* revert cuts it, or the substep's, before the iteration it names.
AfterReset(j) ==
    LET t == log[ResetTo(j)].tree
        step == j.msg.step
        sub == j.msg.sub
        cut == CASE j.revert.sub # 0 -> trimContentBeforeIterationReply(j.doc, j.revert.sub)
                 [] j.revert.sub = 0 /\ j.revert.iter # 0 ->
                        trimContentBeforeIterationReply(j.doc, j.revert.iter)
                 [] OTHER -> StripIterations(removeHumanPromptSection(t.stepDoc[step]))
        file == IF j.does = "retry" THEN j.doc ELSE addHumanPrompt(cut)
    IN  WithFile(t, step, sub, file)

\* The restored file is of a step that was completed, or has substeps whose
\* files the reset took away; a substep's file is not the one its step has open.
Mislays(j) ==
    LET t == AfterReset(j)
        d == t.stepDoc[j.msg.step]
    IN  IF j.msg.sub # 0 THEN d.substep # j.msg.sub
        ELSE Named(d, "Completed") # {} \/ PendingSubsteps(t, j.msg.step) # {}

\* Of a lock not in HEAD, git reset --hard leaves one that was never added.
Stays(j) == {FALSE, j.does = "retry" /\ work.lock /\ ~HeadTree.lock}

\* git reset --hard, the file restored, the diff written, committed.  A
\* revert lands at "awaiting action", so the lock goes with it.
ResetAndRestore(n) ==
    LET j == jobs[n] IN
    /\ j.at = "reset"
    /\ IF ResetTo(j) = 0
       THEN /\ jobs' = [jobs EXCEPT ![n].at = "failed"]
            /\ UNCHANGED gitVars
       ELSE LET t == [AfterReset(j) EXCEPT !.lock = @ /\ j.does = "retry"] IN
            /\ \E stays \in Stays(j) : work' = [t EXCEPT !.lock = @ \/ stays]
            /\ CommitOn(ResetTo(j), t, j.msg)
            /\ jobs' = [jobs EXCEPT ![n].at = "force"]
    /\ story' = IF ResetTo(j) # 0 /\ Mislays(j) THEN story \cup {"mislaid"} ELSE story
    /\ UNCHANGED <<session, seen, counts>>

\* It fails part way: the branch is reset, and the file restored or not.
ResetBreaks(n) ==
    LET j == jobs[n] IN
    /\ j.at = "reset" /\ ResetTo(j) # 0 /\ Trouble
    /\ tips' = [tips EXCEPT !.head = ResetTo(j)]
    /\ \E t \in {log[ResetTo(j)].tree, AfterReset(j)}, stays \in Stays(j) :
           work' = [t EXCEPT !.lock = @ \/ stays]
    /\ jobs' = [jobs EXCEPT ![n].at = "failed"]
    /\ story' = IF Mislays(j) THEN story \cup {"mislaid"} ELSE story
    /\ UNCHANGED <<session, log, seen>>

ForcePush(n) ==
    /\ jobs[n].at = "force"
    /\ tips' = [tips EXCEPT !.origin = tips.head]
    /\ jobs' = [jobs EXCEPT ![n].at = "done"]
    /\ UNCHANGED <<session, work, log, seen, counts, story>>

-----------------------------------------------------------------------------
\* A git sequence, and the agent.

GitCommit(n) ==
    /\ jobs[n].at = "commit"
    /\ CommitAll(work, jobs[n].msg)
    /\ jobs' = [jobs EXCEPT ![n].at = "push"]
    /\ UNCHANGED <<session, work, seen, counts, story>>

\* A push is refused once origin holds what the branch does not.
GitPush(n) ==
    /\ jobs[n].at = "push"
    /\ IF tips.origin = 0 \/ tips.origin \in History(tips.head)
       THEN /\ tips' = [tips EXCEPT !.origin = tips.head]
            /\ jobs' = [jobs EXCEPT ![n].at = "done"]
       ELSE jobs' = [jobs EXCEPT ![n].at = "failed"] /\ UNCHANGED tips
    /\ UNCHANGED <<session, work, log, seen, counts, story>>

GitFails(n) ==
    /\ jobs[n].at \in {"commit", "push", "take", "reset", "force"} /\ Trouble
    /\ jobs' = [jobs EXCEPT ![n].at = "failed"]
    /\ UNCHANGED <<session, gitVars, seen, story>>

\* condocAgentExec, by the agent's own exit or killed for a force complete,
\* which keeps one from starting at all.
AgentExits(n) ==
    /\ jobs[n].at = "run"
    /\ jobs' = [jobs EXCEPT ![n].at = "done"]
    /\ UNCHANGED <<session, gitVars, seen, counts, story>>

-----------------------------------------------------------------------------
\* The messages of their end, each taken by whatever session there is.

Arrives(n, does) == jobs[n].at \in {"done", "failed"} /\ jobs[n].does = does /\ LoopFree
Taken(n) == jobs' = [jobs EXCEPT ![n] = NoJob]
AgentRuns(n) == jobs' = [jobs EXCEPT ![n] = [NoJob EXCEPT !.at = "run", !.does = "agent"]]

handleCondocGitDone(n) ==
    /\ Arrives(n, "git")
    /\ IF ~session.active THEN Taken(n) /\ UNCHANGED session
       ELSE IF jobs[n].at = "failed"
       THEN /\ Taken(n)
            /\ session' =
                 IF session.phase \in {"StepStarting", "HumanCommitting", "Committing"}
                 THEN [session EXCEPT !.failed = session.phase, !.phase = "GitFailed"]
                 ELSE [session EXCEPT !.phase = "AwaitingStep"]
       ELSE CASE session.phase = "Branching" ->
                     /\ session' = [session EXCEPT !.phase = "AwaitingStep", !.step = 1]
                     /\ Taken(n)
              [] session.phase = "StepStarting" ->
                     /\ session' =
                          IF session.sub # 0
                          THEN [session EXCEPT !.phase = "RunningAgent", !.subStart = tips.head]
                          ELSE [session EXCEPT !.phase = "RunningAgent", !.start = tips.head]
                     /\ AgentRuns(n)
              [] session.phase = "HumanCommitting" ->
                     /\ session' = [session EXCEPT !.phase = "RunningAgent"]
                     /\ AgentRuns(n)
              [] session.phase = "Committing" ->
                     /\ session' = [session EXCEPT !.phase = session.next]
                     /\ Taken(n)
              [] OTHER -> UNCHANGED session /\ Taken(n)
    /\ UNCHANGED <<gitVars, seen, counts, story>>

\* HEAD cannot be read when a step has started: the session keeps the start of
\* before.
StartUnread(n) ==
    /\ Arrives(n, "git") /\ session.active /\ jobs[n].at = "done"
    /\ session.phase = "StepStarting" /\ Trouble
    /\ session' = [session EXCEPT !.phase = "RunningAgent"]
    /\ AgentRuns(n)
    /\ story' = story \cup {"behind"}
    /\ UNCHANGED <<gitVars, seen>>

\* A retry whose sequence failed is only reported: the phase stays.
handleCondocRetryReady(n) ==
    /\ Arrives(n, "retry")
    /\ IF session.active /\ jobs[n].at = "done" THEN AgentRuns(n) ELSE Taken(n)
    /\ UNCHANGED <<session, gitVars, seen, counts, story>>

handleCondocRevertDone(n) ==
    /\ Arrives(n, "revert") /\ Taken(n)
    /\ session' = IF session.active /\ jobs[n].at = "done"
                  THEN [session EXCEPT !.step = jobs[n].msg.step, !.file = TRUE,
                            !.sub = jobs[n].msg.sub,
                            !.subStart = IF jobs[n].msg.sub # 0 THEN jobs[n].target ELSE 0,
                            !.phase = "AwaitingAction"]
                  ELSE session
    /\ UNCHANGED <<gitVars, seen, counts, story>>

\* Mutant: the lock is left to condoccer.
LeftLocked(t) == t

Unlocked(t) == [t EXCEPT !.lock = FALSE]

\* The reply is written under the prompt, and a template after it; the lock
\* goes in the commit of the reply.
Replied == appendReplyToStepFile(activeDoc, session.letter)

handleCondocAgentDone(n) ==
    /\ Arrives(n, "agent") /\ session.active /\ session.file /\ activeDoc.exists
    /\ session.letter < MaxLetters
    /\ IF MainSays("force")
       THEN /\ work' = [Unlocked(ForceCompleted(WithActive(work, Replied)))
                            EXCEPT !.main = finalizeMainFile(@)]
            /\ session' = [session EXCEPT !.active = FALSE,
                                          !.last = About("completed", session.step, 0)]
            /\ jobs' = [jobs EXCEPT ![n] = [NoJob EXCEPT !.at = "commit",
                                     !.msg = About("completed", session.step, 0)]]
       ELSE /\ work' = Unlocked(WithActive(work, addNextRevisionTemplate(Replied, session.letter)))
            /\ session' = [session EXCEPT !.phase = "Committing", !.next = "AwaitingAction",
                                          !.last = About("replied", session.step, session.sub)]
            /\ jobs' = [jobs EXCEPT ![n] = [NoJob EXCEPT !.at = "commit",
                                     !.msg = About("replied", session.step, session.sub)]]
    /\ UNCHANGED <<log, tips, seen, counts, story>>

-----------------------------------------------------------------------------
\* Condoc mode is left from its menu, and entered again on the same file.

exitCondoc ==
    /\ session.active /\ LoopFree
    /\ session' = [session EXCEPT !.active = FALSE]
    /\ UNCHANGED <<jobs, gitVars, seen, counts, story>>

loadCondocSession ==
    /\ ~session.active /\ LoopFree /\ counts.sessions < MaxSessions /\ ~work.main.completed
    /\ Overlaps \/ \A n \in Sessions : ~Under(n)
    /\ counts' = [counts EXCEPT !.sessions = @ + 1]
    /\ LET n == work.main.step
           d == work.stepDoc[n]
           sub == IF d.substep # 0 /\ Named(work.subDoc[n][d.substep], "Completed") = {}
                  THEN d.substep ELSE 0
       IN  IF n = 0 THEN session' = NewSession
           ELSE IF ~work.main.filled
           THEN session' = [NewSession EXCEPT !.phase = "AwaitingStep", !.step = n]
           ELSE /\ d.exists
                /\ session' = [NewSession EXCEPT !.phase = "AwaitingAction", !.step = n,
                                   !.file = TRUE, !.sub = sub, !.start = LatestStart(n, 0)]
    /\ story' = story \ {"behind"}
    /\ UNCHANGED <<jobs, gitVars, seen>>

-----------------------------------------------------------------------------
\* condoccer: the lock, and what the human asks for.

\* A pass of watchLoop looks at the files, and acts on what it saw: the lock is
\* written or removed, git adds it, and commits it in a commit of its own.
PassEnds == seen' = [seen EXCEPT !.at = "idle", !.on = FALSE, !.head = 0]

updateCondocLock ==
    LET v == detectPhase(work)
    IN  /\ seen.at = "idle" /\ seen.phase # v.phase
        /\ seen' = [seen EXCEPT !.phase = v.phase, !.on = ~Safe(v),
                       !.at = IF seen.phase = "new" /\ Safe(v) THEN "idle" ELSE "change"]
        /\ UNCHANGED <<session, jobs, gitVars, counts, story>>

\* writeCondocLock, removeCondocLock: to remove what is not there ends the pass.
changeCondocLock ==
    /\ seen.at = "change"
    /\ work' = [work EXCEPT !.lock = seen.on]
    /\ IF seen.on \/ work.lock
       THEN seen' = [seen EXCEPT !.at = "commit", !.head = IF seen.on THEN tips.head ELSE 0]
       ELSE PassEnds
    /\ story' = IF seen.on /\ Safe(detectPhase(work)) THEN story \cup {"relocked"} ELSE story
    /\ UNCHANGED <<session, jobs, log, tips, counts>>

\* commitCondocLock: add, diff and commit of .condoc as it is by then; nothing
\* else reads the index.  A lock written again says when: it differs until
\* somebody has committed it.
commitCondocLock ==
    /\ seen.at = "commit" /\ PassEnds
    /\ IF work.lock # HeadTree.lock \/ (seen.on /\ work.lock /\ tips.head = seen.head)
       THEN CommitOn(tips.head, [HeadTree EXCEPT !.lock = work.lock], About("lock", 0, 0))
       ELSE UNCHANGED <<log, tips>>
    /\ UNCHANGED <<session, jobs, work, counts, story>>

\* The file or git refuses, git still after ten tries at its index: it is logged.
LockGivenUp ==
    /\ seen.at # "idle" /\ Trouble /\ PassEnds
    /\ UNCHANGED <<session, jobs, gitVars, story>>

LockPass ==
    updateCondocLock \/ changeCondocLock \/ commitCondocLock \/ LockGivenUp

Asks == counts.asks < MaxAsks /\ counts' = [counts EXCEPT !.asks = @ + 1]
OthersRest == UNCHANGED <<session, jobs, log, tips, seen, story>>

\* A directive goes to the file condoccer takes to be active.
ShownDoc(d) ==
    /\ detectPhase(work).phase = "awaiting_action"
    /\ work' = WithFile(work, work.main.step, detectPhase(work).sub, d)

Shown == IF detectPhase(work).phase = "awaiting_action"
         THEN FileOf(work, work.main.step, detectPhase(work).sub) ELSE NoDoc

\* Accept the proposal, start the step filled in, or complete the condoc.
AskOfMain ==
    /\ Asks /\ detectPhase(work).phase \in {"proposed", "awaiting_step"}
    /\ \E d \in {"handoff", "completed"} :
           /\ d = "completed" => work.main.step > 1
           /\ work' = [work EXCEPT !.main.directives = @ \cup {d}]
    /\ OthersRest

AskToComplete ==
    /\ Asks /\ ShownDoc([Shown EXCEPT !.directives = @ \cup {"completed"}])
    /\ OthersRest

\* replaceIterationPlaceholder: the template becomes what is asked for.
Fill(head, from) ==
    /\ Named(Shown, "Template") # {}
    /\ LET i == LastOf(Named(Shown, "Template"))
           l == Shown.sections[i].letter
       IN  /\ l <= MaxLetters
           /\ ShownDoc([Shown EXCEPT !.sections[i] = [heading(head, l) EXCEPT !.from = from],
                                     !.directives = @ \cup {"handoff"}])

AskForIteration ==
    /\ Asks
    /\ \/ Fill("Revision", Previous)
       \/ \E from \in {Previous, Start} : Fill("Retry", from)
       \/ detectPhase(work).sub = 0 /\ Fill("Substep", Previous)
    /\ OthersRest

\* What the frontend offers: an earlier step, or the one at hand, or where
\* an iteration of it begins.  It goes to the main file but for a step at hand.
Begun(d, heads) ==
    {0} \cup {d.sections[i].letter : i \in {j \in DOMAIN d.sections : d.sections[j].head \in heads}}

Offered(v, n) ==
    LET iterations == {"Revision", "Retry"}
        earlier == {[step |-> s, iter |-> l, sub |-> 0] : s \in 1 .. n - 1, l \in 0 .. MaxLetters}
    IN  {r \in earlier : r.iter \in Begun(work.stepDoc[r.step], iterations)}
        \cup CASE v.phase # "awaiting_action" -> {}
               [] v.phase = "awaiting_action" /\ v.sub # 0 ->
                     {[step |-> n, iter |-> v.sub, sub |-> l] :
                          l \in Begun(work.subDoc[n][v.sub], iterations)}
               [] OTHER -> {[step |-> n, iter |-> l, sub |-> 0] :
                                l \in Begun(work.stepDoc[n], iterations \cup {"Substep"})}

AskToRevert ==
    /\ Asks
    /\ LET v == detectPhase(work) IN
       \E r \in Offered(v, work.main.step) :
           IF v.phase = "awaiting_action" THEN ShownDoc([Shown EXCEPT !.revert = r])
           ELSE work' = [work EXCEPT !.main.revert = r]
    /\ OthersRest

AskToForce ==
    /\ Asks /\ work.main.step > 0 /\ ~work.main.completed
    /\ work' = [work EXCEPT !.main.directives = @ \cup {"force"}]
    /\ OthersRest

\* Resubmit commits all there is, then hands the file off again.
Resubmit ==
    /\ Asks /\ ~work.main.completed /\ work.main.step > 0 /\ work.main.filled
    /\ work.stepDoc[work.main.step].exists
    /\ LET n == work.main.step
           sub == detectPhase(work).sub
           d == FileOf(work, n, sub)
       IN  /\ work' = WithFile(work, n, sub, [d EXCEPT !.directives = @ \cup {"handoff"}])
           /\ CommitAll(work, About("recovery", 0, 0))
    /\ UNCHANGED <<session, jobs, seen, story>>

-----------------------------------------------------------------------------
HandlerTick ==
    \/ condocAcceptProposal \/ condocStartStep \/ condocCompleteCondoc
    \/ condocForceComplete \/ condocRetryFailedGit \/ condocCompleteSubstep
    \/ condocCompleteStep \/ condocRunRevision \/ condocStartSubstep
    \/ condocRunRetry \/ condocRevert

JobStep(n) ==
    \/ PushTake(n) \/ ResetAndRestore(n) \/ ForcePush(n) \/ GitCommit(n) \/ GitPush(n)
    \/ AgentExits(n) \/ handleCondocGitDone(n) \/ handleCondocRetryReady(n)
    \/ handleCondocRevertDone(n) \/ handleCondocAgentDone(n)

HumanAsks ==
    \/ AskOfMain \/ AskToComplete \/ AskForIteration \/ AskToRevert \/ AskToForce
    \/ Resubmit

SameRepoNext ==
    \/ HandlerTick
    \/ \E n \in Sessions : JobStep(n) \/ GitFails(n) \/ ResetBreaks(n) \/ StartUnread(n)
    \/ exitCondoc \/ loadCondocSession
    \/ LockPass \/ HumanAsks

SameRepoSpec == SameRepoInit /\ [][SameRepoNext]_sameRepoVars

-----------------------------------------------------------------------------
\* As it was when the handler wrote it.
Fresh(d) == d.exists /\ d.sections = <<>>

HandlerCommits == CommitKind \ {"lock", "recovery"}

\* What the handler has committed is never lost: a retry or a revert takes the
\* branch back and forces it on origin only when a take branch has what it
\* leaves.
WorkKept ==
    \A i \in DOMAIN log :
        log[i].msg.kind \in HandlerCommits =>
            i \in History(tips.head) \cup History(tips.origin)
                  \cup UNION {History(tips.takes[n]) : n \in DOMAIN tips.takes}

\* A retry from the start goes back to where its own step or substep started:
\* its file is in that tree, and nothing has been answered or asked in it.
RetryStartsHere ==
    "behind" \in story \/ \A n \in Sessions :
        (jobs[n].does = "retry" /\ jobs[n].at \in {"take", "reset"} /\ jobs[n].target # 0) =>
            Fresh(FileOf(log[jobs[n].target].tree, jobs[n].msg.step, jobs[n].msg.sub))

\* Retries and reverts lose nothing: what was on the branch is kept, and they
\* go back to where their step began.
HistoryKept == WorkKept /\ RetryStartsHere

\* A commit of a reply, a revert or the completion that leaves the condoc to
\* the human takes the lock away with it (removeCondocLockFile).
RepliesUnlocked ==
    \A i \in DOMAIN log :
        log[i].msg.kind \in {"replied", "reverted", "completed"} /\ log[i].tree.lock =>
            ~Safe(detectPhase(log[i].tree))

\* It does, wherever condoccer's looks, writes and commits of the lock fall
\* between, while git does not fail and condoccer does not write the lock, on an
\* earlier look, after the handler took it away.
ReleasedWithReply == counts.trouble > 0 \/ "relocked" \in story \/ RepliesUnlocked

\* A reply with a letter stands right under the iteration it answers.
ReplyUnderPrompt ==
    "mislaid" \in story \/ \A s \in Steps : LET d == work.stepDoc[s] IN
        \A i \in LetteredReplies(d) :
            /\ i > 1 /\ d.sections[i-1].head \in {"Revision", "Retry"}
            /\ d.sections[i-1].letter = d.sections[i].letter

=============================================================================
