--------------------------- MODULE CondocProposals --------------------------
(***************************************************************************)
(* What stands before and after the work of a condoc in condoccer's        *)
(* slopspace scheme (condoccer/slopspace.go, slopspec.go, pr-keeper): the  *)
(* proposal and its acceptance, the propose-PR turn, the pull requests and *)
(* their merge.  Every request goes repository by repository and may fail  *)
(* or be cut off between two, and people act on GitHub meanwhile.          *)
(***************************************************************************)
EXTENDS Naturals, Sequences, Services

CONSTANTS RepoCount,  \* the targets, then the condoc repo
          MaxHitches, \* calls that fail, stops of condoccer
          MaxByHand   \* what people do on GitHub

ASSUME CondocProposalsAssumption ==
    RepoCount \in Nat \ {0} /\ MaxHitches \in Nat /\ MaxByHand \in Nat

VARIABLES pointerOf, \* the pointer file
          request,   \* the request or turn that holds the claim, and its repo
          remote,    \* repo -> the branch and the latest pull request at GitHub
          trees,     \* the slopspace there is, and what its trees hold
          mirrored,  \* the condoc's last Pull Requests section
          proposer,  \* the signal of the propose-PR turn
          mergedAll, \* history: the pull requests merged by Merge, in order
          hitches, byHand

proposalVars == <<pointerOf, request, remote, trees, mirrored, proposer, mergedAll,
                  hitches, byHand>>

RepoIds == 1 .. RepoCount
CondocsRepo == RepoCount
NoPointer == [phase |-> "none", stage |-> "none", template |-> "none",
              prs |-> << >>, error |-> FALSE, slopspace |-> FALSE]
NoRequest == [kind |-> "none", repo |-> 1, prs |-> << >>, template |-> "none"]
NoRemote == [branch |-> FALSE, number |-> 0, pr |-> "none", ready |-> FALSE, moved |-> FALSE]
PRNumbers == 1 .. MaxByHand + 2

\* A template as parsePRTemplate leaves it, one that lists every repo once and
\* no other, and the one that is filled in when the agent's is unusable.
Templates == {"covers", "parses"}
checkPRDrafts(template) == template = "covers"
defaultPRTemplate == "covers"

CondocProposalsTypeOK ==
    /\ pointerOf.phase \in {"none", "Proposed", "AwaitingStep", "Queued", "AgentRunning",
                            "PRProposed", "PROpen", "Merged"}
    /\ pointerOf.stage \in {"none", "queued", "signalled"}
    /\ pointerOf.template \in Templates \cup {"none"}
    /\ pointerOf.prs \in UNION {[1 .. n -> PRNumbers] : n \in 0 .. RepoCount}
    /\ request.kind \in {"none", "check", "clone", "push", "accept", "propose", "await", "raise", "link",
                         "mirror", "ready", "merge", "delete"}
    /\ request.repo \in 1 .. RepoCount + 1
    /\ remote \in [RepoIds -> [branch : BOOLEAN, number : 0 .. MaxByHand + 2, ready : BOOLEAN,
                               moved : BOOLEAN, pr : {"none", "open", "closed", "merged"}]]
    /\ trees \in [exists : BOOLEAN, changed : SUBSET RepoIds]
    /\ proposer \in {"none", "running", "done"}
    /\ hitches \in 0 .. MaxHitches /\ byHand \in 0 .. MaxByHand

CondocProposalsInit ==
    /\ pointerOf = NoPointer /\ request = NoRequest
    /\ remote = [r \in RepoIds |-> NoRemote]
    /\ trees = [exists |-> FALSE, changed |-> {}]
    /\ mirrored = << >> /\ proposer = "none" /\ mergedAll = << >>
    /\ hitches = 0 /\ byHand = 0

Hitch == hitches < MaxHitches /\ hitches' = hitches + 1
Unclaimed == request = NoRequest
AtGitHub == UNCHANGED <<remote, byHand>>
Elsewhere == UNCHANGED <<mirrored, proposer, mergedAll, byHand>>

\* writeSpec returns an error with the file written or not; the request ends.
Saves(spec) ==
    /\ request' = NoRequest
    /\ \/ pointerOf' = spec /\ UNCHANGED hitches
       \/ Hitch /\ pointerOf' \in {pointerOf, spec}

\* The error of a request is recorded in the pointer with what spec holds.
Records(spec) == request' = NoRequest /\ pointerOf' = [spec EXCEPT !.error = TRUE]

-----------------------------------------------------------------------------
\* slopPropose, a new proposal: validateProposal has the condoc repo apart
\* from the targets, no target twice, and a branch not condocv2's.
Propose ==
    /\ Unclaimed /\ pointerOf.phase = "none"
    /\ Saves([NoPointer EXCEPT !.phase = "Proposed"])
    /\ UNCHANGED <<remote, trees>> /\ Elsewhere

DeleteProposal ==
    /\ Unclaimed /\ pointerOf.phase = "Proposed"
    /\ Saves(NoPointer)
    /\ UNCHANGED <<remote, trees>> /\ Elsewhere

\* slopAccept: the branch must be free everywhere.
CheckBranch ==
    /\ Unclaimed /\ pointerOf.phase = "Proposed"
    /\ \/ Hitch /\ UNCHANGED request
       \/ /\ request' = IF \A r \in RepoIds : ~remote[r].branch
                        THEN [NoRequest EXCEPT !.kind = "clone"] ELSE NoRequest
          /\ UNCHANGED hitches
    /\ UNCHANGED <<pointerOf, remote, trees>> /\ Elsewhere

\* The slopspace gets a writespace per repo, and the condoc its first step;
\* a failure is undone.
CreateSlopspace ==
    /\ request.kind = "clone"
    /\ \/ Hitch /\ request' = NoRequest /\ UNCHANGED trees
       \/ /\ trees' = [exists |-> TRUE, changed |-> {CondocsRepo}]
          /\ request' = [request EXCEPT !.kind = "push"]
          /\ UNCHANGED hitches
    /\ UNCHANGED <<pointerOf, remote>> /\ Elsewhere

\* The condoc repo first, then each target.  What was published stays when
\* the accept is undone.
PushOrder(i) == IF i = 1 THEN CondocsRepo ELSE i - 1

PublishBranch ==
    /\ request.kind = "push" /\ request.repo <= RepoCount
    /\ \/ /\ Hitch /\ request' = NoRequest
          /\ trees' = [exists |-> FALSE, changed |-> {}] /\ UNCHANGED remote
       \/ /\ remote' = [remote EXCEPT ![PushOrder(request.repo)].branch = TRUE]
          /\ request' = [request EXCEPT !.repo = @ + 1]
          /\ UNCHANGED <<trees, hitches>>
    /\ UNCHANGED pointerOf /\ Elsewhere

Accepts ==
    /\ request.kind = "push" /\ request.repo > RepoCount
    /\ Saves([pointerOf EXCEPT !.phase = "AwaitingStep", !.error = FALSE, !.slopspace = TRUE])
    /\ UNCHANGED <<remote, trees>> /\ Elsewhere

\* The condoc is worked on (module Condoccer) and completes: agents changed
\* some of the targets, and a propose-PR turn is queued.
WorkEnds ==
    /\ Unclaimed /\ pointerOf.phase = "AwaitingStep"
    /\ \E targets \in SUBSET (RepoIds \ {CondocsRepo}) :
           trees' = [trees EXCEPT !.changed = @ \cup targets]
    /\ pointerOf' = [pointerOf EXCEPT !.phase = "Queued", !.stage = "queued"]
    /\ UNCHANGED <<request, remote, hitches>> /\ Elsewhere

-----------------------------------------------------------------------------
\* runProposeTurn.  A turn that failed waits for Resubmit.
ProposeStarts ==
    /\ Unclaimed /\ pointerOf.stage # "none" /\ ~pointerOf.error
    /\ request' = [NoRequest EXCEPT
                      !.kind = IF pointerOf.stage = "queued" THEN "propose" ELSE "await"]
    /\ UNCHANGED <<pointerOf, remote, trees, hitches>> /\ Elsewhere

\* prepareProposeWorkdir, submitSignal and the save that records the signal.
SubmitsProposal ==
    /\ request.kind = "propose"
    /\ \/ /\ Hitch /\ Records(pointerOf) /\ UNCHANGED proposer
       \/ /\ proposer' = "running"
          /\ \/ /\ pointerOf' = [pointerOf EXCEPT !.stage = "signalled", !.phase = "AgentRunning"]
                /\ request' = [request EXCEPT !.kind = "await"] /\ UNCHANGED hitches
             \/ Hitch /\ Records(pointerOf)
    /\ UNCHANGED <<remote, trees, mirrored, mergedAll, byHand>>

ProposerEnds ==
    /\ proposer = "running" /\ proposer' = "done"
    /\ UNCHANGED <<pointerOf, request, remote, trees, mirrored, mergedAll, hitches, byHand>>

\* The agent's template if it parses and covers the repos, else the default
\* with an error that says so.
TakesTemplate ==
    /\ request.kind = "await" /\ proposer = "done"
    /\ \E agents \in Templates \cup {"none"} :
           Saves([pointerOf EXCEPT !.phase = "PRProposed", !.stage = "none",
                      !.template = IF checkPRDrafts(agents) THEN agents ELSE defaultPRTemplate,
                      !.error = ~checkPRDrafts(agents)])
    /\ UNCHANGED <<remote, trees>> /\ Elsewhere

ResubmitProposal ==
    /\ Unclaimed /\ pointerOf.stage # "none" /\ pointerOf.error
    /\ Saves([pointerOf EXCEPT !.error = FALSE])
    /\ UNCHANGED <<remote, trees>> /\ Elsewhere

\* slopRegeneratePRs and slopSavePRTemplate: the latter asks that the template
\* parse, not that it cover the repos.
RegeneratePRs ==
    /\ Unclaimed /\ pointerOf.phase = "PRProposed" /\ byHand < MaxByHand
    /\ byHand' = byHand + 1
    /\ Saves([pointerOf EXCEPT !.phase = "Queued", !.stage = "queued", !.error = FALSE])
    /\ UNCHANGED <<remote, trees, mirrored, proposer, mergedAll>>

SavePRTemplate ==
    /\ Unclaimed /\ pointerOf.phase = "PRProposed" /\ byHand < MaxByHand
    /\ byHand' = byHand + 1
    /\ \E t \in Templates : Saves([pointerOf EXCEPT !.template = t])
    /\ UNCHANGED <<remote, trees, mirrored, proposer, mergedAll>>

-----------------------------------------------------------------------------
\* slopAcceptPRs, with the template as it is in the form.
RaiseStarts ==
    /\ Unclaimed /\ pointerOf.phase = "PRProposed" /\ checkPRDrafts(pointerOf.template)
    /\ request' = [NoRequest EXCEPT !.kind = "raise"]
    /\ UNCHANGED <<pointerOf, remote, trees, hitches>> /\ Elsewhere

\* GitHub: no pull request without a commit, and one open for a branch.
Creatable(r) == remote[r].branch /\ r \in trees.changed
FindOpen(r) == remote[r].pr = "open"

\* FindOpen, or Create; a failure is recorded with the pull requests so far.
RaiseNext ==
    /\ request.kind = "raise" /\ request.repo <= RepoCount
    /\ LET r == request.repo
           open == FindOpen(r)
           number == IF open THEN remote[r].number ELSE remote[r].number + 1
       IN
       \/ /\ open \/ (Creatable(r) /\ number \in PRNumbers)
          /\ remote' = [remote EXCEPT ![r].pr = "open", ![r].number = number,
                            ![r].ready = IF open THEN @ ELSE TRUE]
          /\ request' = [request EXCEPT !.repo = r + 1, !.prs = Append(@, number)]
          /\ UNCHANGED <<pointerOf, hitches>>
       \/ /\ \/ ~open /\ ~Creatable(r) /\ UNCHANGED hitches
             \/ Hitch
          /\ Records([pointerOf EXCEPT !.prs = request.prs]) /\ UNCHANGED remote
    /\ UNCHANGED trees /\ Elsewhere

\* The links, whose failure is only logged; the section in the condoc, and its
\* commit; the save.
MirrorPRs ==
    /\ request.kind = "raise" /\ request.repo > RepoCount
    /\ mirrored' = request.prs
    /\ \/ request' = [request EXCEPT !.kind = "mirror"] /\ UNCHANGED <<pointerOf, hitches>>
       \/ Hitch /\ Records([pointerOf EXCEPT !.prs = request.prs])
    /\ UNCHANGED <<remote, trees, proposer, mergedAll, byHand>>

RaisedAll ==
    /\ request.kind = "mirror"
    /\ Saves([pointerOf EXCEPT !.prs = request.prs, !.error = FALSE, !.phase = "PROpen"])
    /\ UNCHANGED <<remote, trees>> /\ Elsewhere

-----------------------------------------------------------------------------
\* slopMerge.  Every pull request must be mergeable, or merged, before any is
\* merged.
MergeStarts ==
    /\ Unclaimed /\ pointerOf.phase = "PROpen"
    /\ request' = [NoRequest EXCEPT !.kind = "ready", !.prs = pointerOf.prs]
    /\ remote' = [r \in RepoIds |-> [remote[r] EXCEPT !.moved = FALSE]]
    /\ UNCHANGED <<pointerOf, trees, hitches>> /\ Elsewhere

ReadyOrMerged(r) ==
    \/ remote[r].pr = "merged"
    \/ remote[r].pr = "open" /\ remote[r].ready

LookReady ==
    /\ request.kind = "ready" /\ request.repo <= RepoCount
    /\ \/ /\ ReadyOrMerged(request.repo)
          /\ request' = [request EXCEPT !.repo = @ + 1] /\ UNCHANGED <<pointerOf, hitches>>
       \/ /\ ~ReadyOrMerged(request.repo) /\ Records(pointerOf) /\ UNCHANGED hitches
       \/ Hitch /\ Records(pointerOf)
    /\ UNCHANGED <<remote, trees>> /\ Elsewhere

AllReady ==
    /\ request.kind = "ready" /\ request.repo > RepoCount
    /\ request' = [request EXCEPT !.kind = "merge", !.repo = 1]
    /\ UNCHANGED <<pointerOf, remote, trees, hitches>> /\ Elsewhere

\* GitHub: a merge at the head that was looked at.
Mergeable(r) == remote[r].pr = "open" /\ remote[r].ready /\ ~remote[r].moved

\* A mutant: a pull request that cannot be merged is passed over.
MergePast ==
    /\ request.kind = "merge" /\ request.repo <= RepoCount
    /\ LET r == request.repo IN
       /\ IF Mergeable(r)
          THEN /\ remote' = [remote EXCEPT ![r].pr = "merged"]
               /\ mergedAll' = Append(mergedAll, r)
          ELSE UNCHANGED <<remote, mergedAll>>
       /\ request' = [request EXCEPT !.repo = r + 1]
    /\ UNCHANGED <<pointerOf, trees, mirrored, proposer, byHand, hitches>>

\* One after another, each at the head that was looked at; a merge that GitHub
\* refuses ends the run, with those merged before it merged.
MergeNext ==
    /\ request.kind = "merge" /\ request.repo <= RepoCount
    /\ LET r == request.repo IN
       \/ /\ remote[r].pr = "merged" \/ Mergeable(r)
          /\ remote' = [remote EXCEPT ![r].pr = "merged"]
          /\ mergedAll' = IF remote[r].pr = "open" THEN Append(mergedAll, r) ELSE mergedAll
          /\ request' = [request EXCEPT !.repo = r + 1]
          /\ UNCHANGED <<pointerOf, hitches>>
       \/ /\ \/ Hitch
             \/ ~Mergeable(r) /\ remote[r].pr # "merged" /\ UNCHANGED hitches
          /\ Records(pointerOf) /\ UNCHANGED <<remote, mergedAll>>
    /\ UNCHANGED <<trees, mirrored, proposer, byHand>>

\* All merged: the branches and the slopspace go, as far as they can.
CleanUp ==
    /\ request.kind = "merge" /\ request.repo > RepoCount
    /\ \E kept \in SUBSET RepoIds :
           /\ kept # {} => hitches < MaxHitches
           /\ remote' = [r \in RepoIds |-> [remote[r] EXCEPT !.branch = r \in kept /\ @]]
    /\ trees' = [exists |-> FALSE, changed |-> {}]
    /\ request' = [request EXCEPT !.kind = "delete"]
    /\ UNCHANGED <<pointerOf, hitches>> /\ Elsewhere

MergedForGood ==
    /\ request.kind = "delete"
    /\ Saves([pointerOf EXCEPT !.phase = "Merged", !.error = FALSE])
    /\ UNCHANGED <<remote, trees>> /\ Elsewhere

-----------------------------------------------------------------------------
\* People at GitHub: a pull request merged or closed by hand, a check that
\* fails or passes, a commit pushed to the branch.
AtGitHubByHand(r) ==
    /\ byHand < MaxByHand /\ byHand' = byHand + 1
    /\ remote[r].pr = "open"
    /\ \/ remote' = [remote EXCEPT ![r].pr = "merged"]
       \/ remote' = [remote EXCEPT ![r].pr = "closed"]
       \/ remote' = [remote EXCEPT ![r].ready = ~@]
       \/ remote' = [remote EXCEPT ![r].moved = TRUE]
    /\ UNCHANGED <<pointerOf, request, trees, mirrored, proposer, mergedAll, hitches>>

\* condoccer stops: the request is forgotten; a turn goes on from its stage.
CondoccerStops ==
    /\ ~Unclaimed /\ Hitch
    /\ request' = NoRequest
    /\ UNCHANGED <<pointerOf, remote, trees>> /\ Elsewhere

CondocProposalsNext ==
    \/ Propose \/ DeleteProposal \/ CheckBranch \/ CreateSlopspace \/ PublishBranch \/ Accepts
    \/ WorkEnds \/ ProposeStarts \/ SubmitsProposal \/ ProposerEnds \/ TakesTemplate
    \/ ResubmitProposal \/ RegeneratePRs \/ SavePRTemplate
    \/ RaiseStarts \/ RaiseNext \/ MirrorPRs \/ RaisedAll
    \/ MergeStarts \/ LookReady \/ AllReady \/ MergeNext \/ CleanUp \/ MergedForGood
    \/ CondoccerStops
    \/ \E r \in RepoIds : AtGitHubByHand(r)

-----------------------------------------------------------------------------
\* A condoc that was accepted has its slopspace, and its branch everywhere,
\* until it is merged; one that is merged is merged in every repository; and
\* Merge itself never merges a repository before the ones that come first, so
\* that the condoc's pull request is the last.  What the pointer lists once the
\* pull requests are open is what the condoc lists.
LandsTogether ==
    /\ pointerOf.slopspace /\ pointerOf.phase # "Merged" /\ request.kind # "delete"
          => \/ trees.exists /\ \A r \in RepoIds : remote[r].branch
             \/ \A r \in RepoIds : remote[r].pr = "merged"
    /\ pointerOf.phase = "Merged" \/ request.kind = "delete"
          => \A r \in RepoIds : remote[r].pr = "merged"
    /\ \A i, j \in DOMAIN mergedAll : i < j => mergedAll[i] < mergedAll[j]
    /\ pointerOf.phase = "PROpen" =>
          /\ pointerOf.prs = mirrored /\ Len(mirrored) = RepoCount
          /\ \A r \in RepoIds : mirrored[r] = remote[r].number
=============================================================================
