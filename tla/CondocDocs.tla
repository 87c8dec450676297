----------------------------- MODULE CondocDocs -----------------------------
(***************************************************************************)
(* The markdown files of a condoc as federation-command and condoccer read *)
(* and edit them (federation-command/condoc.go, condoccer/main.go).  A     *)
(* file is its headings in order, the text under its Human-Prompt heading, *)
(* and the directives at its end.  A letter is a number, A being 1.        *)
(***************************************************************************)
EXTENDS Integers, SequencesExt

CONSTANTS MaxSteps,    \* steps of a condoc
          MaxLetters   \* letters of a step's iterations

ASSUME CondocDocsAssumption == MaxSteps \in Nat \ {0} /\ MaxLetters \in Nat \ {0}

Steps == 1 .. MaxSteps
Letters == 1 .. MaxLetters
Unlettered == 0

\* What a retry goes back to; the other headings carry "previous".
From == {-1, 0} \cup Letters
Previous == -1
Start == 0

Section == [head : {"Reply", "Revision", "Retry", "Substep", "Template", "Completed"},
            letter : 0 .. MaxLetters + 1, from : From]

\* !REVERT-N!, !REVERT-N-X! and !REVERT-N-X-Y!, 0 for a letter not given.
Revert == [step : 0 .. MaxSteps, iter : 0 .. MaxLetters, sub : 0 .. MaxLetters]
NoRevert == [step |-> 0, iter |-> 0, sub |-> 0]

Directive == {"handoff", "completed", "force"}

\* A file in the Impls directory; substep is the letter its prompt calls active.
Doc == [exists : BOOLEAN, sections : Seq(Section), prompt : BOOLEAN,
        substep : 0 .. MaxLetters, directives : SUBSET Directive, revert : Revert]
NoDoc == [exists |-> FALSE, sections |-> <<>>, prompt |-> FALSE, substep |-> 0,
          directives |-> {}, revert |-> NoRevert]

\* The main file: the last step it names, whether its title has been replaced.
Main == [step : 0 .. MaxSteps, filled : BOOLEAN, completed : BOOLEAN,
         directives : SUBSET Directive, revert : Revert]

\* The working tree, or a commit's: the condoc, the agents' work, .condoc.
IsTree(t) ==
    /\ t.main \in Main
    /\ t.stepDoc \in [Steps -> Doc]
    /\ t.subDoc \in [Steps -> [Letters -> Doc]]
    /\ t.lock \in BOOLEAN

-----------------------------------------------------------------------------
\* Editing.

removeHumanPromptSection(d) ==
    [d EXCEPT !.prompt = FALSE, !.substep = 0, !.directives = {}, !.revert = NoRevert]

addHumanPrompt(d) == [d EXCEPT !.prompt = TRUE]

heading(head, letter) == [head |-> head, letter |-> letter, from |-> Previous]

addSection(d, s) == [d EXCEPT !.sections = Append(@, s)]

writeStepFile == [NoDoc EXCEPT !.exists = TRUE]

\* The next template, under a prompt of its own.
addNextRevisionTemplate(d, letter) ==
    addHumanPrompt(addSection(removeHumanPromptSection(d), heading("Template", letter + 1)))

appendReplyToStepFile(d, letter) ==
    addSection(removeHumanPromptSection(d), heading("Reply", letter))

removeUnfilledRevisionTemplates(sections) ==
    LET kept[i \in 0 .. Len(sections)] ==
            CASE i = 0 -> <<>>
              [] i > 0 /\ sections[i].head = "Template" -> kept[i - 1]
              [] OTHER -> Append(kept[i - 1], sections[i])
    IN  kept[Len(sections)]

finalizeStepFile(d) ==
    addSection([removeHumanPromptSection(d) EXCEPT
                    !.sections = removeUnfilledRevisionTemplates(@)],
               heading("Completed", Unlettered))

markSubstepInStepFile(d, letter) ==
    [addHumanPrompt(removeHumanPromptSection(d)) EXCEPT !.substep = letter]

removeMainPrompt(m) == [m EXCEPT !.directives = {}, !.revert = NoRevert]

templateStep(m, n) == [removeMainPrompt(m) EXCEPT !.step = n, !.filled = FALSE]

\* An unstarted step's template is dropped.
finalizeMainFile(m) ==
    [removeMainPrompt(m) EXCEPT !.completed = TRUE, !.filled = TRUE,
                                !.step = IF m.filled THEN @ ELSE @ - 1]

-----------------------------------------------------------------------------
\* Reading.

Named(d, head) == {i \in DOMAIN d.sections : d.sections[i].head = head}
LetteredReplies(d) == {i \in Named(d, "Reply") : d.sections[i].letter # Unlettered}
LastOf(S) == CHOOSE i \in S : \A j \in S : j <= i
FirstOf(S) == CHOOSE i \in S : \A j \in S : i <= j

lastReplyLetter(d) ==
    IF LetteredReplies(d) = {} THEN Unlettered
    ELSE d.sections[LastOf(LetteredReplies(d))].letter

\* Mutant: a revision that has its reply is pending still.
RevisionAgain(d) ==
    IF Named(d, "Revision") # {} /\ Cardinality(Named(d, "Revision")) >= Cardinality(LetteredReplies(d))
    THEN d.sections[LastOf(Named(d, "Revision"))].letter
    ELSE Unlettered

\* The last revision, when there are more revisions than lettered replies.
pendingRevisionLetter(d) ==
    IF Cardinality(Named(d, "Revision")) > Cardinality(LetteredReplies(d))
    THEN d.sections[LastOf(Named(d, "Revision"))].letter
    ELSE Unlettered

\* The last retry, unless a reply bears its letter.
RetryPending(d) ==
    /\ Named(d, "Retry") # {}
    /\ \A i \in LetteredReplies(d) :
           d.sections[i].letter # d.sections[LastOf(Named(d, "Retry"))].letter

PendingRetry(d) == d.sections[LastOf(Named(d, "Retry"))]

retryFromStepsBack(d, from) ==
    CASE from = Previous -> 1
      [] from = Start -> Cardinality(Named(d, "Reply"))
      [] OTHER -> Cardinality({i \in LetteredReplies(d) : d.sections[i].letter > from})

\* Substep headings whose file has not been written.
PendingSubsteps(t, step) ==
    {i \in Named(t.stepDoc[step], "Substep") :
        ~t.subDoc[step][t.stepDoc[step].sections[i].letter].exists}

pendingSubstepLetter(t, step) ==
    t.stepDoc[step].sections[FirstOf(PendingSubsteps(t, step))].letter

trimContentBeforeIterationReply(d, letter) ==
    LET S == {i \in Named(d, "Reply") : d.sections[i].letter = letter}
    IN  IF S = {} THEN d
        ELSE [d EXCEPT !.sections = SubSeq(@, 1, FirstOf(S) - 1)]

\* Everything from the first iteration on.
StripIterations(d) ==
    LET S == Named(d, "Reply") \cup Named(d, "Revision") \cup Named(d, "Retry")
    IN  IF S = {} THEN d
        ELSE [d EXCEPT !.sections = SubSeq(@, 1, FirstOf(S) - 1)]

stepLastEventIsSubstep(d) ==
    /\ Named(d, "Substep") # {}
    /\ \A i \in Named(d, "Reply") \cup Named(d, "Revision") \cup Named(d, "Retry") :
           i < LastOf(Named(d, "Substep"))

-----------------------------------------------------------------------------
\* condoccer's view of the files: the phase, and the substep if one is active.

View(phase, sub) == [phase |-> phase, sub |-> sub, resumed |-> FALSE]

Acting(d) == d.directives \cap {"handoff", "completed"} # {}

DetectStep(t, step) ==
    LET d == t.stepDoc[step]
        sub == IF d.substep = 0 THEN NoDoc ELSE t.subDoc[step][d.substep]
    IN  CASE ~d.exists -> View("proposed", 0)
          [] d.exists /\ ~d.prompt -> View("agent_running", 0)
          [] d.exists /\ d.prompt /\ d.substep = 0 ->
                IF Acting(d) THEN View("agent_running", 0)
                ELSE [View("awaiting_action", 0) EXCEPT !.resumed = stepLastEventIsSubstep(d)]
          [] OTHER ->
                IF Named(sub, "Completed") # {}
                THEN [View("awaiting_action", 0) EXCEPT !.resumed = TRUE]
                ELSE IF sub.prompt /\ ~Acting(sub) THEN View("awaiting_action", d.substep)
                ELSE View("agent_running", d.substep)

detectFilePhase(t) ==
    CASE t.main.completed -> View("completed", 0)
      [] ~t.main.completed /\ t.main.step = 0 -> View("proposed", 0)
      [] ~t.main.completed /\ t.main.step > 0 /\ ~t.main.filled -> View("awaiting_step", 0)
      [] OTHER -> DetectStep(t, t.main.step)

detectPhase(t) ==
    LET v == detectFilePhase(t)
    IN  IF v.phase # "completed" /\ "force" \in t.main.directives
        THEN [v EXCEPT !.phase = "agent_running", !.resumed = FALSE]
        ELSE v

\* Where condoccer takes the lock away: at the end, or where the human's turn is.
Safe(v) == v.phase = "completed" \/ (v.phase = "awaiting_action" /\ ~v.resumed)
=============================================================================
