---------------------------- MODULE SameRepoProofs ----------------------------
(***************************************************************************)
(* federation-command's handler and condoccer, on one condoc: nothing the  *)
(* handler committed is lost, a retry from the start goes back to where    *)
(* its own step began, and a reply takes the lock away with it, for any    *)
(* number of steps, asks, sessions, commits and failures of git.           *)
(*                                                                         *)
(* Each needs to know who is at work, as the messages that end a git       *)
(* sequence or the agent name no session.  Four parts, kept one after the  *)
(* other:                                                                  *)
(*   Orderly     what is under way is what the session waits for;          *)
(*   Kept        what the handler committed is on the branch or on a take  *)
(*               branch, and on a take branch before the branch is reset;  *)
(*   BegunFresh  a commit that starts a step has its file as it was        *)
(*               written, and so has the tree until it is made;            *)
(*   Unlocks     while git has not failed, the branch goes where origin    *)
(*               can take it, and no commit that ends a turn is locked.    *)
(***************************************************************************)
EXTENDS SameRepoCondoc, FiniteSetTheorems, SequenceTheorems, TLAPS

-----------------------------------------------------------------------------
(***************************************************************************)
(* SameRepoTypeOK is an invariant of SameRepoCondoc, for any number of     *)
(* steps, letters, asks, sessions and commits, whether or not condoc mode  *)
(* is entered while something is under way.                                *)
(*                                                                         *)
(* What has to be known beside the types is what fits together: a revert   *)
(* is to a step, a commit's parent was made before it, a job is at a stage *)
(* of what it does, and the session has a step where it has a file.        *)
(* TypeInv says so of the session, the jobs, the trees, the log and the    *)
(* branches.                                                               *)
(***************************************************************************)

\* A set of numbers has a least one.
LEMMA LeastNumber ==
  ASSUME NEW T \in SUBSET Nat, T # {}
  PROVE  \E m \in T : \A k \in T : m <= k
<1>1. PICK n \in T : TRUE
  OBVIOUS
<1> DEFINE S == 0 .. n
           Below(m) == {k \in T : k < m}
           Fam == {Below(m) : m \in T \cap S}
<1>2. IsFiniteSet(S)
  BY <1>1, FS_Interval
<1>3. IsWellFoundedOn(StrictSubsetOrdering(S), SUBSET S)
  <2>1. FiniteSubsetsOf(S) = SUBSET S
    BY <1>2, FS_FiniteSubsetsOfFinite
  <2>2. IsWellFoundedOn(StrictSubsetOrdering(S), FiniteSubsetsOf(S))
    BY FS_StrictSubsetOrderingWellFounded
  <2> QED BY <2>1, <2>2, Zenon
<1>4. ASSUME NEW m \in T \cap S PROVE Below(m) \in SUBSET S
  <2>1. \A k \in T : k < m => k \in 0 .. n
    BY <1>1
  <2> QED BY <2>1
<1>5. Fam \subseteq SUBSET S /\ Fam # {}
  <2>1. n \in T \cap S
    BY <1>1
  <2> QED BY <2>1, <1>4
<1>6. PICK X \in Fam : \A Y \in Fam : ~(<<Y, X>> \in StrictSubsetOrdering(S))
  BY <1>3, <1>5, WFMin
<1>7. PICK m \in T \cap S : X = Below(m)
  BY <1>6
<1>8. ASSUME NEW k \in T, k < m PROVE FALSE
  <2>1. k \in T \cap S
    BY <1>1, <1>8
  <2>2. Below(k) \in Fam /\ Below(m) \in SUBSET S /\ Below(k) \in SUBSET S
    BY <2>1, <1>4
  <2>3. Below(k) \subseteq Below(m) /\ Below(k) # Below(m)
    <3>1. k \in Below(m) /\ k \notin Below(k)
      BY <1>8
    <3>2. \A j \in Below(k) : j < m
      BY <1>8
    <3> QED BY <3>1, <3>2
  <2>4. <<Below(k), Below(m)>> \in StrictSubsetOrdering(S)
    BY <2>2, <2>3 DEF StrictSubsetOrdering
  <2> QED BY <1>6, <1>7, <2>2, <2>4
<1> QED BY <1>7, <1>8


-----------------------------------------------------------------------------
(* Sets of numbers, and the files.                                         *)

\* FirstOf is the first of a set.
LEMMA FirstIs ==
  ASSUME NEW T \in SUBSET Nat, T # {}
  PROVE  FirstOf(T) \in T /\ \A k \in T : FirstOf(T) <= k
  BY LeastNumber DEF FirstOf

\* LastOf is the last of a set that has a bound.
LEMMA LastIs ==
  ASSUME NEW n \in Nat, NEW T \in SUBSET (0 .. n), T # {}
  PROVE  LastOf(T) \in T /\ \A k \in T : k <= LastOf(T)
<1> DEFINE Mirror == {n - k : k \in T}
<1>1. Mirror \in SUBSET Nat /\ Mirror # {}
  <2>1. \A k \in T : n - k \in Nat
    OBVIOUS
  <2> QED BY <2>1
<1>2. PICK m \in Mirror : \A k \in Mirror : m <= k
  BY <1>1, LeastNumber
<1>3. PICK t \in T : m = n - t
  BY <1>2
<1>4. ASSUME NEW k \in T PROVE k <= t
  <2>1. n - t <= n - k
    BY <1>2, <1>3
  <2>2. n \in Int /\ t \in Int /\ k \in Int
    BY <1>3
  <2> QED BY <2>1, <2>2
<1>5. \E i \in T : \A j \in T : j <= i
  BY <1>3, <1>4
<1> QED BY <1>5 DEF LastOf

RevertFits(r) == r = NoRevert \/ (r.step \in Steps /\ (r.sub # 0 => r.iter # 0))

SectionTyped(s) ==
    /\ s.head \in {"Revision", "Retry", "Substep"} => s.letter \in Letters
    /\ s.head = "Template" => s.letter >= 1
    /\ s.head = "Reply" => s.letter <= MaxLetters

Sections == {s \in Section : SectionTyped(s)}

DocFits(d) == d \in Doc /\ d.sections \in Seq(Sections) /\ RevertFits(d.revert)

Tree == [main : Main, stepDoc : [Steps -> Doc], subDoc : [Steps -> [Letters -> Doc]], lock : BOOLEAN]

TreeFits(t) ==
    /\ t \in Tree
    /\ RevertFits(t.main.revert) /\ (~t.main.filled => t.main.step >= 1)
    /\ \A s \in Steps : DocFits(t.stepDoc[s]) /\ \A l \in Letters : DocFits(t.subDoc[s][l])

\* A file's parts, and back.
LEMMA DocParts ==
  ASSUME NEW d, DocFits(d)
  PROVE  /\ d = [exists |-> d.exists, sections |-> d.sections, prompt |-> d.prompt,
                 substep |-> d.substep, directives |-> d.directives, revert |-> d.revert]
         /\ d.exists \in BOOLEAN /\ d.prompt \in BOOLEAN /\ d.substep \in 0 .. MaxLetters
         /\ d.directives \in SUBSET Directive /\ d.revert \in Revert /\ RevertFits(d.revert)
         /\ d.sections \in Seq(Sections) /\ Len(d.sections) \in Nat
         /\ DOMAIN d.sections = 1 .. Len(d.sections)
         /\ \A i \in 1 .. Len(d.sections) : d.sections[i] \in Section /\ SectionTyped(d.sections[i])
<1>1. d.sections \in Seq(Sections)
  BY DEF DocFits
<1>2. \A i \in 1 .. Len(d.sections) : d.sections[i] \in Sections
  BY <1>1
<1>3. d \in Doc /\ RevertFits(d.revert)
  BY DEF DocFits
<1>4. d = [exists |-> d.exists, sections |-> d.sections, prompt |-> d.prompt,
           substep |-> d.substep, directives |-> d.directives, revert |-> d.revert]
  BY <1>3 DEF Doc
<1>5. /\ d.exists \in BOOLEAN /\ d.prompt \in BOOLEAN /\ d.substep \in 0 .. MaxLetters
      /\ d.directives \in SUBSET Directive /\ d.revert \in Revert
  BY <1>3 DEF Doc
<1>6. \A i \in 1 .. Len(d.sections) : d.sections[i] \in Section /\ SectionTyped(d.sections[i])
  BY <1>2 DEF Sections
<1>7. Len(d.sections) \in Nat /\ DOMAIN d.sections = 1 .. Len(d.sections)
  BY <1>1
<1> QED BY <1>1, <1>3, <1>4, <1>5, <1>6, <1>7, Zenon

\* A file with other sections, or other parts.
LEMMA DocOf ==
  ASSUME NEW e \in BOOLEAN, NEW s \in Seq(Sections), NEW p \in BOOLEAN, NEW u \in 0 .. MaxLetters,
         NEW w \in SUBSET Directive, NEW r \in Revert, RevertFits(r)
  PROVE  DocFits([exists |-> e, sections |-> s, prompt |-> p, substep |-> u, directives |-> w,
                  revert |-> r])
<1>1. s \in Seq(Section)
  <2>1. Sections \subseteq Section
    BY DEF Sections
  <2> QED BY <2>1
<1> QED BY <1>1 DEF DocFits, Doc

\* No revert is asked for: a revert that fits.
LEMMA NoRevertFits == NoRevert \in Revert /\ RevertFits(NoRevert)
  BY CondocDocsAssumption DEF NoRevert, Revert, RevertFits

\* A file that is not there, and one just written, fit.
LEMMA NoDocFits == DocFits(NoDoc) /\ DocFits(writeStepFile) /\ Fresh(writeStepFile)
<1>1. <<>> \in Seq(Sections)
  OBVIOUS
<1>2. 0 \in 0 .. MaxLetters /\ {} \in SUBSET Directive
  BY CondocDocsAssumption
<1>3. DocFits(NoDoc)
  BY <1>1, <1>2, NoRevertFits, DocOf DEF NoDoc
<1>4. NoDoc \in Doc /\ TRUE \in BOOLEAN
  BY <1>3 DEF DocFits
<1>5. /\ writeStepFile \in Doc /\ writeStepFile.exists /\ writeStepFile.sections = NoDoc.sections
      /\ writeStepFile.revert = NoDoc.revert
  BY <1>4 DEF writeStepFile, Doc
<1>6. NoDoc.sections = <<>>
  BY DEF NoDoc
<1>7. DocFits(writeStepFile)
  BY <1>3, <1>5 DEF DocFits
<1> QED BY <1>3, <1>5, <1>6, <1>7 DEF Fresh

\* Headings the handler and condoccer write.
LEMMA HeadingFits ==
  /\ \A l \in 0 .. MaxLetters : heading("Reply", l) \in Sections
  /\ \A l \in 1 .. MaxLetters + 1 : heading("Template", l) \in Sections
  /\ heading("Completed", Unlettered) \in Sections
  /\ \A l \in Letters, h \in {"Revision", "Retry", "Substep"}, f \in {Previous, Start} :
         [heading(h, l) EXCEPT !.from = f] \in Sections
<1>1. /\ \A l \in 0 .. MaxLetters : l \in 0 .. MaxLetters + 1 /\ l <= MaxLetters
      /\ \A l \in 1 .. MaxLetters + 1 : l \in 0 .. MaxLetters + 1 /\ l >= 1
      /\ \A l \in Letters : l \in 0 .. MaxLetters + 1
      /\ Unlettered \in 0 .. MaxLetters + 1
      /\ Previous \in From /\ Start \in From
  BY CondocDocsAssumption DEF Letters, From, Previous, Start, Unlettered
<1>2. \A h, l, f : [heading(h, l) EXCEPT !.from = f] = [head |-> h, letter |-> l, from |-> f]
  BY DEF heading
<1>3. \A h, l : heading(h, l) = [head |-> h, letter |-> l, from |-> Previous]
  BY DEF heading
<1>4. \A l \in 0 .. MaxLetters : heading("Reply", l) \in Sections
  BY <1>1, <1>3 DEF Sections, Section, SectionTyped
<1>5. \A l \in 1 .. MaxLetters + 1 : heading("Template", l) \in Sections
  BY <1>1, <1>3 DEF Sections, Section, SectionTyped
<1>6. heading("Completed", Unlettered) \in Sections
  BY <1>1, <1>3 DEF Sections, Section, SectionTyped
<1>7. ASSUME NEW l \in Letters, NEW h \in {"Revision", "Retry", "Substep"}, NEW f \in {Previous, Start}
      PROVE  [heading(h, l) EXCEPT !.from = f] \in Sections
  <2>1. [heading(h, l) EXCEPT !.from = f] = [head |-> h, letter |-> l, from |-> f]
    BY <1>2
  <2> QED BY <1>1, <2>1 DEF Sections, Section, SectionTyped
<1> QED BY <1>4, <1>5, <1>6, <1>7

\* Editing a file.
LEMMA Stripped ==
  ASSUME NEW d, DocFits(d)
  PROVE  LET e == removeHumanPromptSection(d) IN
         /\ DocFits(e) /\ e.exists = d.exists /\ e.sections = d.sections /\ ~e.prompt
         /\ e.substep = 0 /\ e.directives = {} /\ e.revert = NoRevert
<1> DEFINE e == [d EXCEPT !.prompt = FALSE, !.substep = 0, !.directives = {}, !.revert = NoRevert]
<1>1. d \in Doc /\ d.sections \in Seq(Sections) /\ RevertFits(NoRevert)
  BY NoRevertFits DEF DocFits
<1>2. 0 \in 0 .. MaxLetters /\ {} \in SUBSET Directive /\ FALSE \in BOOLEAN /\ NoRevert \in Revert
  BY CondocDocsAssumption, NoRevertFits
<1>3. e \in Doc
  BY <1>1, <1>2 DEF Doc
<1>4. e.exists = d.exists /\ e.sections = d.sections /\ e.substep = 0 /\ e.directives = {}
      /\ e.revert = NoRevert
  BY <1>1 DEF Doc
<1>5. ~e.prompt
  BY <1>1 DEF Doc
<1> HIDE DEF e
<1>6. DocFits(e)
  BY <1>1, <1>3, <1>4 DEF DocFits
<1>7. removeHumanPromptSection(d) = e
  BY DEF removeHumanPromptSection, e
<1> QED BY <1>4, <1>5, <1>6, <1>7

\* The file with sections of its own.
LEMMA Resectioned ==
  ASSUME NEW d, DocFits(d), NEW q \in Seq(Sections)
  PROVE  LET e == [d EXCEPT !.sections = q] IN
         /\ DocFits(e) /\ e.sections = q /\ e.exists = d.exists /\ e.prompt = d.prompt
         /\ e.substep = d.substep /\ e.revert = d.revert /\ e.directives = d.directives
<1> DEFINE e == [d EXCEPT !.sections = q]
<1>1. d \in Doc /\ q \in Seq(Section)
  <2>1. Sections \subseteq Section
    BY DEF Sections
  <2> QED BY <2>1 DEF DocFits
<1>2. e \in Doc
  BY <1>1 DEF Doc
<1>3. e.sections = q /\ e.exists = d.exists /\ e.prompt = d.prompt
      /\ e.substep = d.substep /\ e.revert = d.revert /\ e.directives = d.directives
  BY <1>1 DEF Doc
<1> HIDE DEF e
<1>4. DocFits(e)
  BY <1>2, <1>3 DEF DocFits
<1> QED BY <1>3, <1>4 DEF e

\* A section is put after the others.
LEMMA SectionAdded ==
  ASSUME NEW d, DocFits(d), NEW s \in Sections
  PROVE  /\ DocFits(addSection(d, s))
         /\ addSection(d, s).sections = Append(d.sections, s)
         /\ addSection(d, s).exists = d.exists /\ addSection(d, s).prompt = d.prompt
         /\ addSection(d, s).substep = d.substep /\ addSection(d, s).revert = d.revert
         /\ addSection(d, s).directives = d.directives
<1>1. Append(d.sections, s) \in Seq(Sections)
  BY DocParts, AppendProperties
<1>2. addSection(d, s) = [d EXCEPT !.sections = Append(d.sections, s)]
  BY DEF addSection
<1> DEFINE q == Append(d.sections, s)
<1> HIDE DEF q
<1>3. q \in Seq(Sections) /\ addSection(d, s) = [d EXCEPT !.sections = q]
  BY <1>1, <1>2 DEF q
<1>4. q = Append(d.sections, s)
  BY DEF q
<1> DEFINE e == [d EXCEPT !.sections = q]
<1>5. DocFits(e) /\ e.sections = q /\ e.exists = d.exists /\ e.prompt = d.prompt
      /\ e.substep = d.substep /\ e.revert = d.revert /\ e.directives = d.directives
  BY <1>3, Resectioned
<1>6. addSection(d, s) = e
  BY <1>3
<1> HIDE DEF e
<1> QED BY <1>4, <1>5, <1>6

\* The human prompt goes into a file and leaves its sections alone.
LEMMA Prompted ==
  ASSUME NEW d, DocFits(d)
  PROVE  LET e == addHumanPrompt(d) IN
         /\ DocFits(e) /\ e.sections = d.sections /\ e.exists = d.exists /\ e.prompt
         /\ e.substep = d.substep /\ e.revert = d.revert /\ e.directives = d.directives
<1> DEFINE e == [d EXCEPT !.prompt = TRUE]
<1>1. d \in Doc /\ TRUE \in BOOLEAN
  BY DEF DocFits
<1>2. e \in Doc /\ e.sections = d.sections /\ e.exists = d.exists /\ e.prompt
         /\ e.substep = d.substep /\ e.revert = d.revert /\ e.directives = d.directives
  BY <1>1 DEF Doc
<1> HIDE DEF e
<1>3. DocFits(e)
  BY <1>2 DEF DocFits
<1>4. addHumanPrompt(d) = e
  BY DEF addHumanPrompt, e
<1> QED BY <1>2, <1>3, <1>4

\* The template of the next iteration goes last.
LEMMA Templated ==
  ASSUME NEW d, DocFits(d), NEW l \in 0 .. MaxLetters
  PROVE  LET e == addNextRevisionTemplate(d, l) IN
         /\ DocFits(e) /\ e.exists = d.exists /\ e.prompt /\ e.substep = 0
         /\ e.sections = Append(d.sections, heading("Template", l + 1))
<1>1. l + 1 \in 1 .. MaxLetters + 1
  BY CondocDocsAssumption
<1>2. heading("Template", l + 1) \in Sections
  BY <1>1, HeadingFits
<1> DEFINE b == removeHumanPromptSection(d)
           f == addSection(b, heading("Template", l + 1))
<1>3. DocFits(b) /\ b.sections = d.sections /\ b.exists = d.exists /\ b.substep = 0
  BY Stripped
<1>4. DocFits(f) /\ f.sections = Append(d.sections, heading("Template", l + 1))
      /\ f.exists = d.exists /\ f.substep = 0
  BY <1>2, <1>3, SectionAdded
<1> QED BY <1>4, Prompted DEF addNextRevisionTemplate

\* The reply goes last, and the file no longer waits for the human.
LEMMA Answered ==
  ASSUME NEW d, DocFits(d), NEW l \in 0 .. MaxLetters
  PROVE  LET e == appendReplyToStepFile(d, l) IN
         /\ DocFits(e) /\ e.exists = d.exists /\ ~e.prompt /\ e.substep = 0
         /\ e.sections = Append(d.sections, heading("Reply", l))
<1>2. heading("Reply", l) \in Sections
  BY HeadingFits
<1> DEFINE b == removeHumanPromptSection(d)
<1>3. DocFits(b) /\ b.sections = d.sections /\ b.exists = d.exists /\ b.substep = 0 /\ ~b.prompt
  BY Stripped
<1> QED BY <1>2, <1>3, SectionAdded DEF appendReplyToStepFile

\* A step file names the substep it has open.
LEMMA Marked ==
  ASSUME NEW d, DocFits(d), NEW l \in Letters
  PROVE  LET e == markSubstepInStepFile(d, l) IN
         DocFits(e) /\ e.exists = d.exists /\ e.prompt /\ e.substep = l /\ e.sections = d.sections
<1> DEFINE b == removeHumanPromptSection(d)
           f == addHumanPrompt(b)
<1>1. DocFits(b) /\ b.sections = d.sections /\ b.exists = d.exists
  BY Stripped
<1>2. DocFits(f) /\ f.sections = d.sections /\ f.exists = d.exists /\ f.prompt
  BY <1>1, Prompted
<1>3. markSubstepInStepFile(d, l) = [exists |-> f.exists, sections |-> f.sections, prompt |-> f.prompt,
          substep |-> l, directives |-> f.directives, revert |-> f.revert]
  <2>1. f \in Doc
    BY <1>2 DEF DocFits
  <2> HIDE DEF f
  <2>2. [f EXCEPT !.substep = l] = [exists |-> f.exists, sections |-> f.sections, prompt |-> f.prompt,
          substep |-> l, directives |-> f.directives, revert |-> f.revert]
    BY <2>1 DEF Doc
  <2> QED BY <2>2 DEF markSubstepInStepFile, f
<1>4. l \in 0 .. MaxLetters
  BY CondocDocsAssumption DEF Letters
<1>5. DocFits([exists |-> f.exists, sections |-> f.sections, prompt |-> f.prompt,
          substep |-> l, directives |-> f.directives, revert |-> f.revert])
  <2> HIDE DEF f
  <2> QED BY <1>2, <1>4, DocParts, DocOf
<1> HIDE DEF f
<1> QED BY <1>2, <1>3, <1>5

\* The function removeUnfilledRevisionTemplates counts on.
KeptUpTo(q, n, f) ==
    f = [i \in 0 .. n |-> CASE i = 0 -> <<>>
                            [] i > 0 /\ q[i].head = "Template" -> f[i - 1]
                            [] OTHER -> Append(f[i - 1], q[i])]

\* There is a function that counts through the sections that are kept.
LEMMA KeptExists ==
  ASSUME NEW q, NEW m \in Nat
  PROVE  \E f : KeptUpTo(q, m, f)
<1> DEFINE Bad == {n \in Nat : ~\E f : KeptUpTo(q, n, f)}
<1>1. SUFFICES ASSUME Bad # {} PROVE FALSE
  OBVIOUS
<1>2. PICK n \in Bad : \A k \in Bad : n <= k
  BY <1>1, LeastNumber
<1>3. n \in Nat
  OBVIOUS
<1>4. CASE n = 0
  <2> DEFINE f == [i \in 0 .. 0 |-> <<>>]
  <2>1. f = [i \in 0 .. 0 |-> CASE i = 0 -> <<>>
                            [] i > 0 /\ q[i].head = "Template" -> f[i - 1]
                            [] OTHER -> Append(f[i - 1], q[i])]
    <3>1. ASSUME NEW i \in 0 .. 0
          PROVE  <<>> = CASE i = 0 -> <<>>
                            [] i > 0 /\ q[i].head = "Template" -> f[i - 1]
                            [] OTHER -> Append(f[i - 1], q[i])
      <4>1. i = 0
        OBVIOUS
      <4> QED BY <4>1
    <3> QED BY <3>1
  <2>2. KeptUpTo(q, n, f)
    BY <2>1, <1>4 DEF KeptUpTo
  <2> QED BY <2>2
<1>5. CASE n > 0
  <2>1. n - 1 \in Nat /\ n - 1 \notin Bad
    BY <1>2, <1>3, <1>5
  <2>2. PICK g : KeptUpTo(q, n - 1, g)
    BY <2>1
  <2> DEFINE B(i, h) == CASE i = 0 -> <<>>
                            [] i > 0 /\ q[i].head = "Template" -> h[i - 1]
                            [] OTHER -> Append(h[i - 1], q[i])
             f == [i \in 0 .. n |-> IF i < n THEN g[i] ELSE B(n, g)]
  <2>3. ASSUME NEW i \in 0 .. n PROVE f[i] = B(i, f)
    <3>1. CASE i < n
      <4>1. i \in 0 .. n - 1 /\ f[i] = g[i]
        BY <1>3, <3>1
      <4>2. g[i] = B(i, g)
        BY <2>2, <4>1 DEF KeptUpTo
      <4>3. i > 0 => f[i - 1] = g[i - 1]
        BY <1>3, <3>1
      <4>4. B(i, g) = B(i, f)
        BY <4>1, <4>3
      <4> QED BY <4>1, <4>2, <4>4
    <3>2. CASE i = n
      <4>1. f[i] = B(i, g)
        BY <1>3, <3>2
      <4>2. f[i - 1] = g[i - 1]
        BY <1>3, <1>5, <3>2
      <4>3. B(i, g) = B(i, f)
        BY <4>2
      <4> QED BY <4>1, <4>3
    <3> QED BY <1>3, <3>1, <3>2
  <2>4. f = [i \in 0 .. n |-> B(i, f)]
    <3>1. f = [i \in 0 .. n |-> f[i]]
      OBVIOUS
    <3> HIDE DEF f, B
    <3> QED BY <3>1, <2>3
  <2>5. KeptUpTo(q, n, f)
    <3> HIDE DEF f
    <3> QED BY <2>4 DEF KeptUpTo
  <2> QED BY <2>5
<1> QED BY <1>3, <1>4, <1>5

\* What removeUnfilledRevisionTemplates keeps: the same without a template,
\* and all but the last when that is the only one.
LEMMA TemplatesDropped ==
  ASSUME NEW q \in Seq(Sections)
  PROVE  LET k == removeUnfilledRevisionTemplates(q) IN
         /\ k \in Seq(Sections)
         /\ \A i \in 1 .. Len(k) : k[i].head # "Template"
         /\ (\A i \in 1 .. Len(q) - 1 : q[i].head # "Template") =>
                k = IF Len(q) > 0 /\ q[Len(q)].head = "Template" THEN SubSeq(q, 1, Len(q) - 1)
                    ELSE q
<1> DEFINE N == Len(q)
<1>0. N \in Nat
  OBVIOUS
<1>1. PICK f : /\ KeptUpTo(q, N, f)
               /\ removeUnfilledRevisionTemplates(q) = f[N]
  <2> DEFINE kept == CHOOSE f : f = [i \in 0 .. N |-> CASE i = 0 -> <<>>
                            [] i > 0 /\ q[i].head = "Template" -> f[i - 1]
                            [] OTHER -> Append(f[i - 1], q[i])]
  <2>1. KeptUpTo(q, N, kept)
    BY <1>0, KeptExists DEF KeptUpTo
  <2>2. removeUnfilledRevisionTemplates(q) = kept[N]
    BY Zenon DEF removeUnfilledRevisionTemplates
  <2> QED BY <2>1, <2>2
<1>2. f[0] = <<>> /\ \A i \in 1 .. N : f[i] = IF q[i].head = "Template" THEN f[i - 1]
                                            ELSE Append(f[i - 1], q[i])
  <2>1. f = [i \in 0 .. N |-> CASE i = 0 -> <<>>
                            [] i > 0 /\ q[i].head = "Template" -> f[i - 1]
                            [] OTHER -> Append(f[i - 1], q[i])]
    BY <1>1 DEF KeptUpTo
  <2>2. f[0] = <<>>
    BY <2>1, <1>0
  <2>3. ASSUME NEW i \in 1 .. N PROVE f[i] = IF q[i].head = "Template" THEN f[i - 1]
                                            ELSE Append(f[i - 1], q[i])
    <3>1. i \in 0 .. N /\ i > 0 /\ i # 0
      BY <1>0
    <3> QED BY <2>1, <3>1
  <2> QED BY <2>2, <2>3
<1>3. \A i \in 1 .. N : q[i] \in Sections
  OBVIOUS
<1> HIDE DEF N
<1> DEFINE Good(i) == /\ f[i] \in Seq(Sections)
                      /\ \A j \in 1 .. Len(f[i]) : f[i][j].head # "Template"
                      /\ (\A j \in 1 .. i : q[j].head # "Template") =>
                             Len(f[i]) = i /\ \A j \in 1 .. i : f[i][j] = q[j]
           Bad == {n \in 0 .. N : ~Good(n)}
<1>4. Bad = {}
  <2>1. SUFFICES ASSUME Bad # {} PROVE FALSE
    OBVIOUS
  <2>2. PICK n \in Bad : \A k \in Bad : n <= k
    <3>1. Bad \in SUBSET Nat
      BY <1>0
    <3> QED BY <2>1, <3>1, LeastNumber
  <2>3. n \in 0 .. N /\ n \in Nat
    BY <1>0
  <2>4. Good(0)
    <3>1. <<>> \in Seq(Sections) /\ Len(<<>>) = 0
      OBVIOUS
    <3>2. \A j \in 1 .. 0 : FALSE
      OBVIOUS
    <3> QED BY <1>2, <3>1, <3>2
  <2>5. CASE n > 0
    <3>1. n - 1 \in 0 .. N /\ n \in 1 .. N /\ n - 1 \in Nat
      BY <1>0, <2>3, <2>5
    <3>2. Good(n - 1)
      <4>1. n - 1 \notin Bad
        BY <2>2, <2>3, <3>1
      <4> QED BY <3>1, <4>1
    <3>3. CASE q[n].head = "Template"
      <4>1. f[n] = f[n - 1]
        BY <1>2, <3>1, <3>3
      <4>2. ~\A j \in 1 .. n : q[j].head # "Template"
        BY <3>3, <3>1
      <4>3. Good(n)
        BY <3>2, <4>1, <4>2
      <4> QED BY <2>2, <4>3
    <3>4. CASE q[n].head # "Template"
      <4> DEFINE g == f[n - 1]
      <4>1. f[n] = Append(g, q[n]) /\ q[n] \in Sections
        BY <1>2, <1>3, <3>1, <3>4
      <4>2. g \in Seq(Sections) /\ Len(g) \in Nat
        BY <3>2
      <4>3. Len(f[n]) = Len(g) + 1 /\ f[n] \in Seq(Sections) /\ f[n][Len(g) + 1] = q[n]
            /\ \A j \in 1 .. Len(g) : f[n][j] = g[j]
        <5> HIDE DEF g
        <5> QED BY <4>1, <4>2, AppendProperties
      <4>4. \A j \in 1 .. Len(f[n]) : f[n][j].head # "Template"
        <5> HIDE DEF g
        <5>1. \A j \in 1 .. Len(g) : g[j].head # "Template"
          BY <3>2 DEF g
        <5>2. \A j \in 1 .. Len(g) + 1 : j \in 1 .. Len(g) \/ j = Len(g) + 1
          BY <4>2
        <5> QED BY <4>3, <5>1, <5>2, <3>4
      <4>5. ASSUME \A j \in 1 .. n : q[j].head # "Template"
            PROVE  Len(f[n]) = n /\ \A j \in 1 .. n : f[n][j] = q[j]
        <5>1. \A j \in 1 .. n - 1 : q[j].head # "Template"
          BY <4>5, <3>1
        <5>2. Len(g) = n - 1 /\ \A j \in 1 .. n - 1 : g[j] = q[j]
          BY <3>2, <5>1
        <5> HIDE DEF g
        <5>3. Len(g) + 1 = n
          BY <5>2, <3>1
        <5>4. \A j \in 1 .. n : j \in 1 .. n - 1 \/ j = n
          BY <3>1
        <5> QED BY <4>3, <5>2, <5>3, <5>4
      <4>6. Good(n)
        BY <4>3, <4>4, <4>5
      <4> QED BY <2>2, <4>6
    <3> QED BY <3>3, <3>4
  <2>6. n = 0 => FALSE
    BY <2>2, <2>4
  <2> QED BY <2>3, <2>5, <2>6
<1>5. Good(N)
  <2>1. N \in 0 .. N
    BY <1>0
  <2> QED BY <1>4, <2>1
<1>6. ASSUME \A i \in 1 .. N - 1 : q[i].head # "Template"
      PROVE  f[N] = IF N > 0 /\ q[N].head = "Template" THEN SubSeq(q, 1, N - 1) ELSE q
  <2>1. CASE N > 0 /\ q[N].head = "Template"
    <3>1. N - 1 \in 0 .. N /\ N \in 1 .. N /\ N - 1 \in Nat
      BY <1>0, <2>1
    <3>2. f[N] = f[N - 1] /\ Good(N - 1)
      BY <1>2, <1>4, <2>1, <3>1
    <3>3. Len(f[N]) = N - 1 /\ f[N] \in Seq(Sections) /\ \A j \in 1 .. N - 1 : f[N][j] = q[j]
      BY <1>6, <3>2
    <3> DEFINE p == SubSeq(q, 1, N - 1)
    <3>4. p \in Seq(Sections) /\ Len(p) = N - 1 /\ \A j \in 1 .. N - 1 : p[j] = q[j]
      <4>1. \A j \in 1 .. N - 1 : q[j] \in Sections /\ 1 + j - 1 = j
        BY <1>0, <1>3
      <4>2. 1 \in Int /\ N - 1 \in Int /\ (N - 1) - 1 + 1 = N - 1
        BY <1>0
      <4>3. p \in Seq(Sections) /\ Len(p) = (IF 1 <= N - 1 THEN (N - 1) - 1 + 1 ELSE 0)
            /\ \A j \in 1 .. (N - 1) - 1 + 1 : p[j] = q[1 + j - 1]
        BY <4>1, <4>2, SubSeqProperties
      <4>4. Len(p) = N - 1
        BY <4>3, <3>1
      <4> QED BY <4>1, <4>2, <4>3, <4>4
    <3> HIDE DEF p
    <3>5. f[N] = p
      BY <3>1, <3>3, <3>4, SeqEqual
    <3> QED BY <2>1, <3>5 DEF p
  <2>2. CASE ~(N > 0 /\ q[N].head = "Template")
    <3>1. \A j \in 1 .. N : q[j].head # "Template"
      BY <1>0, <1>6, <2>2
    <3>2. Len(f[N]) = N /\ \A j \in 1 .. N : f[N][j] = q[j]
      BY <1>5, <3>1
    <3>3. f[N] = q
      BY <1>0, <1>5, <3>2, SeqEqual DEF N
    <3> QED BY <2>2, <3>3
  <2> QED BY <2>1, <2>2
<1> QED BY <1>1, <1>5, <1>6 DEF N

\* A file that is closed.
LEMMA Finalized ==
  ASSUME NEW d, DocFits(d)
  PROVE  LET e == finalizeStepFile(d)
             k == removeUnfilledRevisionTemplates(d.sections)
         IN  /\ DocFits(e) /\ e.exists = d.exists /\ ~e.prompt /\ e.substep = 0 /\ e.directives = {}
             /\ e.sections = Append(k, heading("Completed", Unlettered))
<1> DEFINE b == removeHumanPromptSection(d)
           k == removeUnfilledRevisionTemplates(d.sections)
           c == [b EXCEPT !.sections = k]
<1>1. DocFits(b) /\ b.exists = d.exists /\ b.sections = d.sections /\ ~b.prompt /\ b.substep = 0
      /\ b.directives = {}
  BY Stripped
<1>2. k \in Seq(Sections)
  BY DocParts, TemplatesDropped
<1> HIDE DEF b, k
<1>3. DocFits(c) /\ c.exists = d.exists /\ c.sections = k /\ ~c.prompt /\ c.substep = 0 /\ c.directives = {}
  BY <1>1, <1>2, Resectioned
<1>4. finalizeStepFile(d) = addSection(c, heading("Completed", Unlettered))
  BY <1>1 DEF finalizeStepFile, b, k
<1> HIDE DEF c
<1> DEFINE h == heading("Completed", Unlettered)
           e == addSection(c, h)
<1>5. h \in Sections
  BY HeadingFits
<1> HIDE DEF h
<1>6. DocFits(e) /\ e.sections = Append(c.sections, h) /\ e.exists = c.exists /\ e.prompt = c.prompt
      /\ e.substep = c.substep /\ e.directives = c.directives
  BY <1>3, <1>5, SectionAdded
<1>7. finalizeStepFile(d) = e
  BY <1>4 DEF h
<1> HIDE DEF e
<1> QED BY <1>3, <1>6, <1>7 DEF k, h

-----------------------------------------------------------------------------
(* The trees.                                                              *)

\* The parts of a tree's main file.
LEMMA MainParts ==
  ASSUME NEW t, TreeFits(t)
  PROVE  /\ t.main \in Main /\ t.main.step \in 0 .. MaxSteps /\ t.main.filled \in BOOLEAN
         /\ t.main.completed \in BOOLEAN /\ t.main.directives \in SUBSET Directive
         /\ t.main.revert \in Revert /\ RevertFits(t.main.revert) /\ t.lock \in BOOLEAN
         /\ ~t.main.filled => t.main.step >= 1
<1>1. t.main \in Main /\ t.lock \in BOOLEAN
  BY DEF TreeFits, Tree
<1>2. /\ t.main.step \in 0 .. MaxSteps /\ t.main.filled \in BOOLEAN
      /\ t.main.completed \in BOOLEAN /\ t.main.directives \in SUBSET Directive
      /\ t.main.revert \in Revert
  BY <1>1 DEF Main
<1> QED BY <1>1, <1>2 DEF TreeFits

\* The file of a step or a substep.
LEMMA FileFits ==
  ASSUME NEW t, TreeFits(t), NEW s \in Steps, NEW l \in 0 .. MaxLetters
  PROVE  DocFits(FileOf(t, s, l))
<1>1. l # 0 => l \in Letters
  BY CondocDocsAssumption DEF Letters
<1> QED BY <1>1 DEF TreeFits, FileOf

\* A tree with another main file, another lock, another file.
LEMMA MainReplaced ==
  ASSUME NEW t, TreeFits(t), NEW m \in Main, RevertFits(m.revert), ~m.filled => m.step >= 1
  PROVE  LET u == [t EXCEPT !.main = m] IN
         /\ TreeFits(u) /\ u.main = m /\ u.lock = t.lock
         /\ u.stepDoc = t.stepDoc /\ u.subDoc = t.subDoc
<1> DEFINE u == [t EXCEPT !.main = m]
<1>1. t \in Tree
  BY DEF TreeFits
<1>2. u \in Tree /\ u.main = m /\ u.lock = t.lock /\ u.stepDoc = t.stepDoc /\ u.subDoc = t.subDoc
  BY <1>1 DEF Tree
<1> HIDE DEF u
<1>3. TreeFits(u)
  BY <1>2 DEF TreeFits
<1> QED BY <1>2, <1>3 DEF u

\* A tree with the lock set or taken away.
LEMMA LockReplaced ==
  ASSUME NEW t, TreeFits(t), NEW on \in BOOLEAN
  PROVE  LET u == [t EXCEPT !.lock = on] IN
         /\ TreeFits(u) /\ u.main = t.main /\ u.lock = on
         /\ u.stepDoc = t.stepDoc /\ u.subDoc = t.subDoc
<1> DEFINE u == [t EXCEPT !.lock = on]
<1>1. t \in Tree
  BY DEF TreeFits
<1>2. u \in Tree /\ u.main = t.main /\ u.lock = on /\ u.stepDoc = t.stepDoc /\ u.subDoc = t.subDoc
  BY <1>1 DEF Tree
<1> HIDE DEF u
<1>3. TreeFits(u)
  BY <1>2 DEF TreeFits
<1> QED BY <1>2, <1>3 DEF u

\* A tree with one step's file replaced.
LEMMA StepReplaced ==
  ASSUME NEW t, TreeFits(t), NEW s \in Steps, NEW d, DocFits(d)
  PROVE  LET u == [t EXCEPT !.stepDoc[s] = d] IN
         /\ TreeFits(u) /\ u.main = t.main /\ u.lock = t.lock /\ u.subDoc = t.subDoc
         /\ u.stepDoc = [t.stepDoc EXCEPT ![s] = d]
         /\ \A x \in Steps : u.stepDoc[x] = IF x = s THEN d ELSE t.stepDoc[x]
<1> DEFINE u == [t EXCEPT !.stepDoc[s] = d]
           w == [t.stepDoc EXCEPT ![s] = d]
<1>1. t \in Tree /\ d \in Doc
  BY DEF TreeFits, DocFits
<1>2. t.stepDoc \in [Steps -> Doc]
  BY <1>1 DEF Tree
<1>3. w \in [Steps -> Doc] /\ \A x \in Steps : w[x] = IF x = s THEN d ELSE t.stepDoc[x]
  BY <1>1, <1>2
<1>4. u = [t EXCEPT !.stepDoc = w]
  BY DEF w
<1> HIDE DEF w
<1>5. u \in Tree /\ u.main = t.main /\ u.lock = t.lock /\ u.stepDoc = w /\ u.subDoc = t.subDoc
  BY <1>1, <1>3, <1>4 DEF Tree
<1> HIDE DEF u
<1>6. TreeFits(u)
  BY <1>3, <1>5 DEF TreeFits
<1> QED BY <1>3, <1>5, <1>6 DEF u, w

\* A tree with one substep's file replaced.
LEMMA SubReplaced ==
  ASSUME NEW t, TreeFits(t), NEW s \in Steps, NEW l \in Letters, NEW d, DocFits(d)
  PROVE  LET u == [t EXCEPT !.subDoc[s][l] = d] IN
         /\ TreeFits(u) /\ u.main = t.main /\ u.lock = t.lock /\ u.stepDoc = t.stepDoc
         /\ \A x \in Steps, y \in Letters :
                u.subDoc[x][y] = IF x = s /\ y = l THEN d ELSE t.subDoc[x][y]
<1> DEFINE u == [t EXCEPT !.subDoc[s][l] = d]
           w == [t.subDoc EXCEPT ![s][l] = d]
<1>1. t \in Tree /\ d \in Doc
  BY DEF TreeFits, DocFits
<1>2. t.subDoc \in [Steps -> [Letters -> Doc]]
  BY <1>1 DEF Tree
<1>3. w \in [Steps -> [Letters -> Doc]]
  BY <1>1, <1>2
<1>4. \A x \in Steps, y \in Letters : w[x][y] = IF x = s /\ y = l THEN d ELSE t.subDoc[x][y]
  BY <1>1, <1>2
<1>5. u = [t EXCEPT !.subDoc = w]
  BY DEF w
<1> HIDE DEF w
<1>6. u \in Tree /\ u.main = t.main /\ u.lock = t.lock /\ u.stepDoc = t.stepDoc /\ u.subDoc = w
  BY <1>1, <1>3, <1>5 DEF Tree
<1> HIDE DEF u
<1>7. TreeFits(u)
  BY <1>4, <1>6 DEF TreeFits
<1> QED BY <1>4, <1>6, <1>7 DEF u

\* A tree with the file of a step or a substep replaced.
LEMMA FileReplaced ==
  ASSUME NEW t, TreeFits(t), NEW s \in Steps, NEW l \in 0 .. MaxLetters, NEW d, DocFits(d)
  PROVE  LET u == WithFile(t, s, l, d) IN
         /\ TreeFits(u) /\ u.main = t.main /\ u.lock = t.lock
         /\ \A x \in Steps, y \in 0 .. MaxLetters :
                FileOf(u, x, y) = IF x = s /\ y = l THEN d ELSE FileOf(t, x, y)
<1>0. \A y \in 0 .. MaxLetters : y # 0 => y \in Letters
  BY CondocDocsAssumption DEF Letters
<1>1. CASE l # 0
  <2> DEFINE u == [t EXCEPT !.subDoc[s][l] = d]
  <2>1. l \in Letters /\ WithFile(t, s, l, d) = u
    BY <1>0, <1>1 DEF WithFile
  <2>2. /\ TreeFits(u) /\ u.main = t.main /\ u.lock = t.lock /\ u.stepDoc = t.stepDoc
        /\ \A x \in Steps, y \in Letters : u.subDoc[x][y] = IF x = s /\ y = l THEN d ELSE t.subDoc[x][y]
    BY <2>1, SubReplaced
  <2> HIDE DEF u
  <2> QED BY <1>0, <1>1, <2>1, <2>2 DEF FileOf
<1>2. CASE l = 0
  <2> DEFINE u == [t EXCEPT !.stepDoc[s] = d]
  <2>1. WithFile(t, s, l, d) = u
    BY <1>2 DEF WithFile
  <2>2. /\ TreeFits(u) /\ u.main = t.main /\ u.lock = t.lock /\ u.subDoc = t.subDoc
        /\ \A x \in Steps : u.stepDoc[x] = IF x = s THEN d ELSE t.stepDoc[x]
    BY StepReplaced
  <2> HIDE DEF u
  <2> QED BY <1>0, <1>2, <2>1, <2>2 DEF FileOf
<1> QED BY <1>1, <1>2

\* Editing the main file.
LEMMA MainStripped ==
  ASSUME NEW m \in Main
  PROVE  LET n == removeMainPrompt(m) IN
         /\ n \in Main /\ n.step = m.step /\ n.filled = m.filled /\ n.completed = m.completed
         /\ n.directives = {} /\ n.revert = NoRevert
<1>1. {} \in SUBSET Directive /\ NoRevert \in Revert
  BY NoRevertFits
<1> QED BY <1>1 DEF removeMainPrompt, Main

\* The main file with the template of a step.
LEMMA MainTemplated ==
  ASSUME NEW m \in Main, NEW k \in Steps
  PROVE  LET n == templateStep(m, k) IN
         /\ n \in Main /\ n.step = k /\ ~n.filled /\ n.completed = m.completed
         /\ n.directives = {} /\ n.revert = NoRevert /\ RevertFits(n.revert) /\ n.step >= 1
<1> DEFINE b == removeMainPrompt(m)
           n == [b EXCEPT !.step = k, !.filled = FALSE]
<1>1. /\ b \in Main /\ b.step = m.step /\ b.filled = m.filled /\ b.completed = m.completed
      /\ b.directives = {} /\ b.revert = NoRevert
  BY MainStripped
<1>2. k \in 0 .. MaxSteps /\ k >= 1 /\ FALSE \in BOOLEAN
  BY CondocDocsAssumption DEF Steps
<1> HIDE DEF b
<1>3. /\ n \in Main /\ n.step = k /\ ~n.filled /\ n.completed = b.completed
      /\ n.directives = b.directives /\ n.revert = b.revert
  BY <1>1, <1>2 DEF Main
<1>4. n = templateStep(m, k)
  BY DEF templateStep, b
<1> HIDE DEF n
<1> QED BY <1>1, <1>2, <1>3, <1>4, NoRevertFits

\* The main file once the step in it has been started.
LEMMA MainFilled ==
  ASSUME NEW m \in Main
  PROVE  LET n == [removeMainPrompt(m) EXCEPT !.filled = TRUE] IN
         /\ n \in Main /\ n.step = m.step /\ n.filled /\ n.completed = m.completed
         /\ n.directives = {} /\ n.revert = NoRevert /\ RevertFits(n.revert)
<1> DEFINE b == removeMainPrompt(m)
           n == [b EXCEPT !.filled = TRUE]
<1>1. /\ b \in Main /\ b.step = m.step /\ b.filled = m.filled /\ b.completed = m.completed
      /\ b.directives = {} /\ b.revert = NoRevert
  BY MainStripped
<1> HIDE DEF b
<1>3. /\ n \in Main /\ n.step = b.step /\ n.filled /\ n.completed = b.completed
      /\ n.directives = b.directives /\ n.revert = b.revert
  BY <1>1 DEF Main
<1> HIDE DEF n
<1> QED BY <1>1, <1>3, NoRevertFits DEF n, b

\* The main file of a condoc that is completed.
LEMMA MainFinalized ==
  ASSUME NEW m \in Main, ~m.filled => m.step >= 1
  PROVE  LET n == finalizeMainFile(m) IN
         n \in Main /\ n.completed /\ n.filled /\ n.directives = {} /\ RevertFits(n.revert)
<1> DEFINE b == removeMainPrompt(m)
           k == IF m.filled THEN b.step ELSE b.step - 1
           n == [b EXCEPT !.completed = TRUE, !.filled = TRUE, !.step = k]
<1>1. /\ b \in Main /\ b.step = m.step /\ b.filled = m.filled /\ b.completed = m.completed
      /\ b.directives = {} /\ b.revert = NoRevert
  BY MainStripped
<1> HIDE DEF b
<1>2. k \in 0 .. MaxSteps
  <2>1. m.step \in 0 .. MaxSteps
    BY DEF Main
  <2> QED BY <1>1, <2>1, CondocDocsAssumption
<1>3. n = finalizeMainFile(m)
  BY DEF finalizeMainFile, b
<1> HIDE DEF k
<1>4. /\ n \in Main /\ n.filled /\ n.completed
      /\ n.directives = b.directives /\ n.revert = b.revert
  BY <1>1, <1>2 DEF Main
<1> HIDE DEF n
<1> QED BY <1>1, <1>3, <1>4, NoRevertFits

\* The main file with other directives.
LEMMA MainDirected ==
  ASSUME NEW m \in Main, NEW w \in SUBSET Directive
  PROVE  LET n == [m EXCEPT !.directives = w] IN
         /\ n \in Main /\ n.step = m.step /\ n.filled = m.filled /\ n.completed = m.completed
         /\ n.directives = w /\ n.revert = m.revert
  BY DEF Main

\* The main file with a revert asked for.
LEMMA MainReverting ==
  ASSUME NEW m \in Main, NEW r \in Revert
  PROVE  LET n == [m EXCEPT !.revert = r] IN
         /\ n \in Main /\ n.step = m.step /\ n.filled = m.filled /\ n.completed = m.completed
         /\ n.directives = m.directives /\ n.revert = r
  BY DEF Main

\* A step's file with other directives.
LEMMA Directed ==
  ASSUME NEW d, DocFits(d), NEW w \in SUBSET Directive
  PROVE  LET e == [d EXCEPT !.directives = w] IN
         /\ DocFits(e) /\ e.sections = d.sections /\ e.exists = d.exists /\ e.prompt = d.prompt
         /\ e.substep = d.substep /\ e.revert = d.revert /\ e.directives = w
<1> DEFINE e == [d EXCEPT !.directives = w]
<1>1. d \in Doc
  BY DEF DocFits
<1>2. e \in Doc /\ e.sections = d.sections /\ e.exists = d.exists /\ e.prompt = d.prompt
      /\ e.substep = d.substep /\ e.revert = d.revert /\ e.directives = w
  BY <1>1 DEF Doc
<1> HIDE DEF e
<1>3. DocFits(e)
  BY <1>2 DEF DocFits
<1> QED BY <1>2, <1>3 DEF e

\* A step's file with a revert asked for.
LEMMA Reverting ==
  ASSUME NEW d, DocFits(d), NEW r \in Revert, RevertFits(r)
  PROVE  LET e == [d EXCEPT !.revert = r] IN
         /\ DocFits(e) /\ e.sections = d.sections /\ e.exists = d.exists /\ e.prompt = d.prompt
         /\ e.substep = d.substep /\ e.revert = r /\ e.directives = d.directives
<1> DEFINE e == [d EXCEPT !.revert = r]
<1>1. d \in Doc
  BY DEF DocFits
<1>2. e \in Doc /\ e.sections = d.sections /\ e.exists = d.exists /\ e.prompt = d.prompt
      /\ e.substep = d.substep /\ e.revert = r /\ e.directives = d.directives
  BY <1>1 DEF Doc
<1> HIDE DEF e
<1>3. DocFits(e)
  BY <1>2 DEF DocFits
<1> QED BY <1>2, <1>3 DEF e

-----------------------------------------------------------------------------
(* The commits: each one's parent was made before it.                      *)

Commit == [parent : Nat, tree : Tree, msg : Message]

Linked(L) == L \in Seq(Commit) /\ \A i \in 1 .. Len(L) : L[i].parent \in 0 .. i - 1

AncestorsUpTo(L, n, f) ==
    f = [j \in 0 .. n |-> IF j = 0 THEN {} ELSE {j} \cup f[L[j].parent]]

\* A commit and those before it.
Past(L, i) == (CHOOSE f : AncestorsUpTo(L, Len(L), f))[i]

\* A commit's history is computed from the log alone.
LEMMA HistoryMeans == \A i : History(i) = Past(log, i)
  BY Zenon DEF History, Past, AncestorsUpTo

\* There is a function to every commit's ancestors.
LEMMA AncestorsExist ==
  ASSUME NEW L, Linked(L), NEW m \in 0 .. Len(L)
  PROVE  \E f : AncestorsUpTo(L, m, f)
<1> DEFINE Bad == {n \in 0 .. Len(L) : ~\E f : AncestorsUpTo(L, n, f)}
<1>0. Len(L) \in Nat
  BY DEF Linked
<1>1. SUFFICES ASSUME Bad # {} PROVE FALSE
  OBVIOUS
<1>2. PICK n \in Bad : \A k \in Bad : n <= k
  <2>1. Bad \in SUBSET Nat
    BY <1>0
  <2> QED BY <1>1, <2>1, LeastNumber
<1>3. n \in Nat /\ n \in 0 .. Len(L)
  BY <1>0
<1>4. CASE n = 0
  <2> DEFINE f == [i \in 0 .. 0 |-> {}]
  <2>1. ASSUME NEW i \in 0 .. 0 PROVE {} = IF i = 0 THEN {} ELSE {i} \cup f[L[i].parent]
    OBVIOUS
  <2>2. f = [j \in 0 .. 0 |-> IF j = 0 THEN {} ELSE {j} \cup f[L[j].parent]]
    BY <2>1
  <2>3. AncestorsUpTo(L, n, f)
    <3> HIDE DEF f
    <3> QED BY <2>2, <1>4 DEF AncestorsUpTo
  <2> QED BY <2>3
<1>5. CASE n > 0
  <2>1. n - 1 \in 0 .. Len(L) /\ n - 1 \notin Bad
    BY <1>0, <1>2, <1>3, <1>5
  <2>2. PICK g : AncestorsUpTo(L, n - 1, g)
    BY <2>1
  <2> DEFINE B(i, h) == IF i = 0 THEN {} ELSE {i} \cup h[L[i].parent]
             f == [i \in 0 .. n |-> IF i < n THEN g[i] ELSE B(n, g)]
  <2>3. ASSUME NEW i \in 0 .. n PROVE f[i] = B(i, f)
    <3>0. i # 0 => L[i].parent \in 0 .. n - 1 /\ f[L[i].parent] = g[L[i].parent]
      <4>1. SUFFICES ASSUME i # 0 PROVE L[i].parent \in 0 .. n - 1 /\ f[L[i].parent] = g[L[i].parent]
        OBVIOUS
      <4>2. i \in 1 .. Len(L)
        BY <1>0, <1>3, <4>1
      <4>3. L[i].parent \in 0 .. i - 1
        BY <4>2 DEF Linked
      <4>4. L[i].parent \in 0 .. n - 1 /\ L[i].parent \in 0 .. n /\ L[i].parent < n
        BY <1>3, <4>3
      <4> QED BY <4>4
    <3>1. CASE i < n
      <4>1. i \in 0 .. n - 1 /\ f[i] = g[i]
        BY <1>3, <3>1
      <4>2. g[i] = B(i, g)
        BY <2>2, <4>1 DEF AncestorsUpTo
      <4>4. B(i, g) = B(i, f)
        BY <3>0
      <4> QED BY <4>1, <4>2, <4>4
    <3>2. CASE i = n
      <4>1. f[i] = B(i, g)
        BY <1>3, <3>2
      <4>3. B(i, g) = B(i, f)
        BY <3>0
      <4> QED BY <4>1, <4>3
    <3> QED BY <1>3, <3>1, <3>2
  <2>4. f = [i \in 0 .. n |-> B(i, f)]
    <3>1. f = [i \in 0 .. n |-> f[i]]
      OBVIOUS
    <3> HIDE DEF f, B
    <3> QED BY <3>1, <2>3
  <2>5. AncestorsUpTo(L, n, f)
    <3> HIDE DEF f
    <3> QED BY <2>4 DEF AncestorsUpTo
  <2> QED BY <2>5
<1> QED BY <1>3, <1>4, <1>5

\* A commit's past is itself and its parent's past.
LEMMA PastUnfolds ==
  ASSUME NEW L, Linked(L)
  PROVE  /\ Past(L, 0) = {}
         /\ \A i \in 1 .. Len(L) : Past(L, i) = {i} \cup Past(L, L[i].parent)
<1> DEFINE f == CHOOSE f : AncestorsUpTo(L, Len(L), f)
<1>0. Len(L) \in Nat /\ Len(L) \in 0 .. Len(L)
  BY DEF Linked
<1>1. AncestorsUpTo(L, Len(L), f)
  BY <1>0, AncestorsExist
<1>2. \A i : Past(L, i) = f[i]
  BY DEF Past
<1> HIDE DEF f
<1>3. f[0] = {}
  BY <1>0, <1>1 DEF AncestorsUpTo
<1>4. ASSUME NEW i \in 1 .. Len(L) PROVE f[i] = {i} \cup f[L[i].parent]
  <2>1. i \in 0 .. Len(L) /\ i # 0
    BY <1>0
  <2> QED BY <1>1, <2>1 DEF AncestorsUpTo
<1> QED BY <1>2, <1>3, <1>4

\* Induction over the commits.
LEMMA PastBelow ==
  ASSUME NEW L, Linked(L)
  PROVE  \A i \in 0 .. Len(L) : Past(L, i) \subseteq 1 .. i /\ (i > 0 => i \in Past(L, i))
<1> DEFINE Bad == {i \in 0 .. Len(L) : ~(Past(L, i) \subseteq 1 .. i)}
<1>0. Len(L) \in Nat
  BY DEF Linked
<1>1. Bad = {}
  <2>1. SUFFICES ASSUME Bad # {} PROVE FALSE
    OBVIOUS
  <2>2. PICK n \in Bad : \A k \in Bad : n <= k
    <3>1. Bad \in SUBSET Nat
      BY <1>0
    <3> QED BY <2>1, <3>1, LeastNumber
  <2>3. n \in Nat /\ n \in 0 .. Len(L) /\ n # 0
    BY <1>0, <2>2, PastUnfolds
  <2>4. n \in 1 .. Len(L)
    BY <1>0, <2>3
  <2> DEFINE p == L[n].parent
  <2>5. p \in 0 .. n - 1
    BY <2>4 DEF Linked
  <2>6. Past(L, n) = {n} \cup Past(L, p)
    BY <2>4, PastUnfolds
  <2> HIDE DEF p
  <2>7. p \in 0 .. Len(L) /\ p < n /\ p \in Nat
    BY <1>0, <2>3, <2>5
  <2>8. p \notin Bad
    BY <2>2, <2>3, <2>7
  <2>9. Past(L, p) \subseteq 1 .. p
    BY <2>7, <2>8
  <2>10. Past(L, n) \subseteq 1 .. n
    <3>1. \A x \in 1 .. p : x \in 1 .. n
      BY <2>3, <2>7
    <3>2. n \in 1 .. n
      BY <2>3
    <3> QED BY <2>6, <2>9, <3>1, <3>2
  <2> QED BY <2>2, <2>10
<1>2. ASSUME NEW i \in 0 .. Len(L), i > 0 PROVE i \in Past(L, i)
  <2>1. i \in 1 .. Len(L)
    BY <1>0, <1>2
  <2> QED BY <2>1, PastUnfolds
<1> QED BY <1>1, <1>2

\* What is in a commit's past has its own past there too.
LEMMA PastOfPast ==
  ASSUME NEW L, Linked(L)
  PROVE  \A i \in 0 .. Len(L) : \A j \in Past(L, i) : Past(L, j) \subseteq Past(L, i)
<1> DEFINE Ok(i) == \A j \in Past(L, i) : Past(L, j) \subseteq Past(L, i)
           Bad == {i \in 0 .. Len(L) : ~Ok(i)}
<1>0. Len(L) \in Nat
  BY DEF Linked
<1>1. Bad = {}
  <2>1. SUFFICES ASSUME Bad # {} PROVE FALSE
    OBVIOUS
  <2>2. PICK n \in Bad : \A k \in Bad : n <= k
    <3>1. Bad \in SUBSET Nat
      BY <1>0
    <3> QED BY <2>1, <3>1, LeastNumber
  <2>3. n \in Nat /\ n \in 0 .. Len(L) /\ n # 0
    BY <1>0, <2>2, PastUnfolds
  <2>4. n \in 1 .. Len(L)
    BY <1>0, <2>3
  <2> DEFINE p == L[n].parent
  <2>5. p \in 0 .. n - 1
    BY <2>4 DEF Linked
  <2>6. Past(L, n) = {n} \cup Past(L, p)
    BY <2>4, PastUnfolds
  <2> HIDE DEF p
  <2>7. p \in 0 .. Len(L) /\ p < n /\ p \in Nat
    BY <1>0, <2>3, <2>5
  <2>8. p \notin Bad
    BY <2>2, <2>3, <2>7
  <2>9. Ok(p)
    BY <2>7, <2>8
  <2>10. Ok(n)
    BY <2>6, <2>9
  <2> QED BY <2>2, <2>10
<1> QED BY <1>1

\* One more commit changes nothing of those there were.
LEMMA PastAppended ==
  ASSUME NEW L, Linked(L), NEW c \in Commit, c.parent \in 0 .. Len(L)
  PROVE  /\ Linked(Append(L, c)) /\ Len(Append(L, c)) = Len(L) + 1
         /\ \A i \in 1 .. Len(L) : Append(L, c)[i] = L[i]
         /\ Append(L, c)[Len(L) + 1] = c
         /\ \A i \in 0 .. Len(L) : Past(Append(L, c), i) = Past(L, i)
         /\ Past(Append(L, c), Len(L) + 1) = {Len(L) + 1} \cup Past(L, c.parent)
<1> DEFINE M == Append(L, c)
           N == Len(L)
<1>0. N \in Nat /\ L \in Seq(Commit)
  BY DEF Linked
<1>1. M \in Seq(Commit) /\ Len(M) = N + 1 /\ M[N + 1] = c /\ \A i \in 1 .. N : M[i] = L[i]
  BY <1>0, AppendProperties
<1>8. \A i \in 1 .. N : L[i].parent \in 0 .. i - 1
  BY DEF Linked
<1> HIDE DEF M, N
<1>2. Linked(M)
  <2>1. \A i \in 1 .. N + 1 : i \in 1 .. N \/ (i = N + 1 /\ 0 .. i - 1 = 0 .. N)
    BY <1>0
  <2>2. \A i \in 1 .. N : M[i].parent \in 0 .. i - 1
    BY <1>1, <1>8
  <2>3. M[N + 1].parent \in 0 .. N
    BY <1>1 DEF N
  <2> QED BY <1>1, <2>1, <2>2, <2>3 DEF Linked
<1> DEFINE Bad == {i \in 0 .. N : Past(M, i) # Past(L, i)}
<1>3. Bad = {}
  <2>1. SUFFICES ASSUME Bad # {} PROVE FALSE
    OBVIOUS
  <2>2. PICK n \in Bad : \A k \in Bad : n <= k
    <3>1. Bad \in SUBSET Nat
      BY <1>0
    <3> QED BY <2>1, <3>1, LeastNumber
  <2>3. n \in Nat /\ n \in 0 .. N /\ n # 0
    <3>1. Past(M, 0) = Past(L, 0)
      BY <1>2, PastUnfolds
    <3> QED BY <1>0, <2>2, <3>1
  <2>4. n \in 1 .. N /\ n \in 1 .. Len(M)
    BY <1>0, <1>1, <2>3
  <2> DEFINE p == L[n].parent
  <2>5. p \in 0 .. n - 1 /\ M[n].parent = p
    BY <1>1, <1>8, <2>4
  <2>6. Past(L, n) = {n} \cup Past(L, p) /\ Past(M, n) = {n} \cup Past(M, p)
    BY <1>2, <2>4, <2>5, PastUnfolds DEF N
  <2> HIDE DEF p
  <2>7. p \in 0 .. N /\ p < n /\ p \in Nat
    BY <1>0, <2>3, <2>5
  <2>8. p \notin Bad
    BY <2>2, <2>3, <2>7
  <2> QED BY <2>2, <2>6, <2>7, <2>8
<1>4. Past(M, N + 1) = {N + 1} \cup Past(M, c.parent)
  <2>1. N + 1 \in 1 .. Len(M)
    BY <1>0, <1>1
  <2> QED BY <1>1, <1>2, <2>1, PastUnfolds
<1>5. Past(M, c.parent) = Past(L, c.parent)
  BY <1>3 DEF N
<1> QED BY <1>1, <1>2, <1>3, <1>4, <1>5 DEF M, N

UpTo(L, i, n, f) ==
    f = [j \in 0 .. n |-> IF j = 0 THEN i ELSE IF f[j - 1] = 0 THEN 0 ELSE L[f[j - 1]].parent]

\* There is a function to the commits above one.
LEMMA UpExists ==
  ASSUME NEW L, NEW i, NEW m \in Nat
  PROVE  \E f : UpTo(L, i, m, f)
<1> DEFINE Bad == {n \in Nat : ~\E f : UpTo(L, i, n, f)}
<1>1. SUFFICES ASSUME Bad # {} PROVE FALSE
  OBVIOUS
<1>2. PICK n \in Bad : \A k \in Bad : n <= k
  BY <1>1, LeastNumber
<1>3. n \in Nat
  OBVIOUS
<1>4. CASE n = 0
  <2> DEFINE f == [j \in 0 .. 0 |-> i]
  <2>1. ASSUME NEW j \in 0 .. 0 PROVE i = IF j = 0 THEN i ELSE IF f[j - 1] = 0 THEN 0 ELSE L[f[j - 1]].parent
    OBVIOUS
  <2>2. f = [j \in 0 .. 0 |-> IF j = 0 THEN i ELSE IF f[j - 1] = 0 THEN 0 ELSE L[f[j - 1]].parent]
    BY <2>1
  <2>3. UpTo(L, i, n, f)
    <3> HIDE DEF f
    <3> QED BY <2>2, <1>4 DEF UpTo
  <2> QED BY <2>3
<1>5. CASE n > 0
  <2>1. n - 1 \in Nat /\ n - 1 \notin Bad
    BY <1>2, <1>3, <1>5
  <2>2. PICK g : UpTo(L, i, n - 1, g)
    BY <2>1
  <2> DEFINE B(j, h) == IF j = 0 THEN i ELSE IF h[j - 1] = 0 THEN 0 ELSE L[h[j - 1]].parent
             f == [j \in 0 .. n |-> IF j < n THEN g[j] ELSE B(n, g)]
  <2>3. ASSUME NEW j \in 0 .. n PROVE f[j] = B(j, f)
    <3>0. j # 0 => f[j - 1] = g[j - 1]
      BY <1>3
    <3>4. B(j, g) = B(j, f)
      BY <3>0
    <3>1. CASE j < n
      <4>1. j \in 0 .. n - 1 /\ f[j] = g[j]
        BY <1>3, <3>1
      <4>2. g[j] = B(j, g)
        BY <2>2, <4>1 DEF UpTo
      <4> QED BY <3>4, <4>1, <4>2
    <3>2. CASE j = n
      <4>1. f[j] = B(j, g)
        BY <1>3, <3>2
      <4> QED BY <3>4, <4>1
    <3> QED BY <1>3, <3>1, <3>2
  <2>4. f = [j \in 0 .. n |-> B(j, f)]
    <3>1. f = [j \in 0 .. n |-> f[j]]
      OBVIOUS
    <3> HIDE DEF f, B
    <3> QED BY <3>1, <2>3
  <2>5. UpTo(L, i, n, f)
    <3> HIDE DEF f
    <3> QED BY <2>4 DEF UpTo
  <2> QED BY <2>5
<1> QED BY <1>3, <1>4, <1>5

\* HEAD~k is a commit, or 0.
LEMMA BackIs ==
  ASSUME Linked(log), NEW i \in 0 .. Len(log), NEW k \in Nat
  PROVE  Back(i, k) \in 0 .. Len(log)
<1>1. PICK f : UpTo(log, i, k, f) /\ Back(i, k) = f[k]
  <2> DEFINE up == CHOOSE up : up = [j \in 0 .. k |-> IF j = 0 THEN i
                        ELSE IF up[j - 1] = 0 THEN 0 ELSE log[up[j - 1]].parent]
  <2>1. UpTo(log, i, k, up)
    <3>1. \E f : UpTo(log, i, k, f)
      BY UpExists
    <3> QED BY <3>1, Zenon DEF UpTo
  <2>2. Back(i, k) = up[k]
    BY Zenon DEF Back
  <2> QED BY <2>1, <2>2
<1>0. Len(log) \in Nat
  BY DEF Linked
<1> DEFINE Bad == {n \in 0 .. k : f[n] \notin 0 .. Len(log)}
<1>2. Bad = {}
  <2>1. SUFFICES ASSUME Bad # {} PROVE FALSE
    OBVIOUS
  <2>2. PICK n \in Bad : \A x \in Bad : n <= x
    <3>1. Bad \in SUBSET Nat
      OBVIOUS
    <3> QED BY <2>1, <3>1, LeastNumber
  <2>3. n \in 0 .. k /\ n \in Nat
    OBVIOUS
  <2>4. f[n] = IF n = 0 THEN i ELSE IF f[n - 1] = 0 THEN 0 ELSE log[f[n - 1]].parent
    BY <1>1, <2>3 DEF UpTo
  <2>5. n # 0
    BY <2>2, <2>4
  <2>6. n - 1 \in 0 .. k /\ n - 1 \notin Bad
    BY <2>2, <2>3, <2>5
  <2> DEFINE p == f[n - 1]
  <2>7. p \in 0 .. Len(log)
    BY <2>6
  <2>8. f[n] = IF p = 0 THEN 0 ELSE log[p].parent
    BY <2>4, <2>5
  <2> HIDE DEF p
  <2>9. p # 0 => log[p].parent \in 0 .. Len(log)
    <3>1. SUFFICES ASSUME p # 0 PROVE log[p].parent \in 0 .. Len(log)
      OBVIOUS
    <3>2. p \in 1 .. Len(log)
      BY <1>0, <2>7, <3>1
    <3>3. log[p].parent \in 0 .. p - 1
      BY <3>2 DEF Linked
    <3> QED BY <1>0, <3>2, <3>3
  <2>10. f[n] \in 0 .. Len(log)
    BY <1>0, <2>8, <2>9
  <2> QED BY <2>2, <2>10
<1>3. k \in 0 .. k
  OBVIOUS
<1> QED BY <1>1, <1>2, <1>3

-----------------------------------------------------------------------------
(* The types, and what of them fits together.                              *)

SessionFields == [active : BOOLEAN, phase : CondocPhase, next : CondocPhase,
                  step : 0 .. MaxSteps, file : BOOLEAN, sub : 0 .. MaxLetters,
                  letter : 0 .. MaxLetters + 1, start : CommitId, subStart : CommitId,
                  takes : Nat, last : Message, failed : CondocPhase]

SessionFits(s, L) ==
    /\ s \in SessionFields
    /\ s.file => s.step \in Steps
    /\ s.sub # 0 => s.step \in Steps
    /\ s.start <= Len(L) /\ s.subStart <= Len(L)

\* A job's stages are those of what it does.
Staged(at, does) ==
    /\ at \in {"commit", "push"} => does = "git"
    /\ at = "run" => does = "agent"
    /\ at \in {"take", "reset", "force"} => does \in {"retry", "revert"}

JobFits(j, L) ==
    /\ j \in Job /\ DocFits(j.doc) /\ j.target <= Len(L) /\ Staged(j.at, j.does)
    /\ j.does \in {"retry", "revert"} => j.msg.step \in Steps

LogFits(L) ==
    /\ Linked(L) /\ Len(L) \in 1 .. MaxCommits + 1
    /\ \A i \in 1 .. Len(L) : TreeFits(L[i].tree)

TipsFit(p, L) ==
    p \in [head : 1 .. Len(L), origin : 0 .. Len(L), takes : [1 .. MaxAsks -> 0 .. Len(L)]]

Seen == [phase : {"new", "proposed", "awaiting_step", "agent_running", "awaiting_action", "completed"},
         at : {"idle", "change", "commit"}, on : BOOLEAN, head : CommitId]

CountsFit ==
    /\ counts \in [asks : 0 .. MaxAsks, sessions : 1 .. MaxSessions, trouble : 0 .. MaxTrouble]
    /\ seen \in Seen
    /\ story \in SUBSET Astray

JobsFit(J, L) == J \in [Sessions -> Job] /\ \A n \in Sessions : JobFits(J[n], L)

TypeInv ==
    /\ SessionFits(session, log) /\ JobsFit(jobs, log) /\ TreeFits(work)
    /\ LogFits(log) /\ TipsFit(tips, log) /\ CountsFit

\* The inductive invariant types the state.
LEMMA TypeInvType == TypeInv => SameRepoTypeOK
<1> SUFFICES ASSUME TypeInv PROVE SameRepoTypeOK
  OBVIOUS
<1>1. \A i \in DOMAIN log : log[i].parent < i /\ log[i].msg \in Message /\ IsTree(log[i].tree)
  <2>1. SUFFICES ASSUME NEW i \in DOMAIN log
                 PROVE  log[i].parent < i /\ log[i].msg \in Message /\ IsTree(log[i].tree)
    OBVIOUS
  <2>2. log \in Seq(Commit) /\ i \in 1 .. Len(log)
    BY DEF TypeInv, LogFits, Linked
  <2>3. log[i] \in Commit /\ log[i].parent \in 0 .. i - 1
    BY <2>2 DEF TypeInv, LogFits, Linked
  <2>4. log[i].msg \in Message /\ log[i].tree \in Tree
    BY <2>3 DEF Commit
  <2> QED BY <2>2, <2>3, <2>4 DEF Tree, IsTree
<1>2. IsTree(work)
  BY DEF TypeInv, TreeFits, Tree, IsTree
<1>3. tips \in [head : CommitId, origin : CommitId, takes : [1 .. MaxAsks -> CommitId]]
  <2>1. Len(log) \in Nat /\ Len(log) <= MaxCommits + 1
    BY SameRepoAssumption DEF TypeInv, LogFits
  <2>2. \A i \in 0 .. Len(log) : i \in CommitId
    BY <2>1, SameRepoAssumption DEF CommitId
  <2>3. \A i \in 1 .. Len(log) : i \in CommitId
    BY <2>1, <2>2
  <2>4. tips.takes \in [1 .. MaxAsks -> CommitId]
    <3>1. tips.takes \in [1 .. MaxAsks -> 0 .. Len(log)]
      BY DEF TypeInv, TipsFit
    <3> QED BY <2>2, <3>1
  <2>5. tips \in [head : 1 .. Len(log), origin : 0 .. Len(log), takes : [1 .. MaxAsks -> 0 .. Len(log)]]
    BY DEF TypeInv, TipsFit
  <2> QED BY <2>2, <2>3, <2>4, <2>5
<1>4. counts \in [asks : 0 .. MaxAsks, sessions : 0 .. MaxSessions, trouble : 0 .. MaxTrouble]
  BY SameRepoAssumption DEF TypeInv, CountsFit
<1> QED BY <1>1, <1>2, <1>3, <1>4 DEF TypeInv, SameRepoTypeOK, SessionFits, SessionFields, JobsFit, CountsFit, Seen

\* Messages are records of their fields.
LEMMA StringTypes ==
  /\ Message = [kind : CommitKind, step : 0 .. MaxSteps, sub : 0 .. MaxLetters]
  /\ \A k \in CommitKind, s \in 0 .. MaxSteps, l \in 0 .. MaxLetters :
         About(k, s, l) \in Message /\ About(k, s, l).kind = k /\ About(k, s, l).step = s
         /\ About(k, s, l).sub = l
  /\ NoMsg \in Message /\ NoMsg.kind = "proposed"
<1>1. 0 \in 0 .. MaxSteps /\ 0 \in 0 .. MaxLetters
  BY CondocDocsAssumption
<1> QED BY <1>1 DEF Message, About, NoMsg, CommitKind

\* A job that commits.
LEMMA GitJob ==
  ASSUME NEW msg \in Message, NEW L, Len(L) \in Nat
  PROVE  LET j == [NoJob EXCEPT !.at = "commit", !.msg = msg] IN
         /\ JobFits(j, L) /\ j.at = "commit" /\ j.does = "git" /\ j.msg = msg
         /\ JobFits(NoJob, L) /\ NoJob.at = "none" /\ NoJob.does = "git"
<1> DEFINE j == [NoJob EXCEPT !.at = "commit", !.msg = msg]
<1>1. 0 \in CommitId /\ 0 \in Nat /\ NoRevert \in Revert /\ NoDoc \in Doc /\ NoMsg \in Message
  BY SameRepoAssumption, NoRevertFits, NoDocFits, StringTypes DEF CommitId, DocFits
<1>2. NoJob = [at |-> "none", does |-> "git", msg |-> NoMsg, target |-> 0,
          back |-> 0, take |-> 0, doc |-> NoDoc, revert |-> NoRevert]
  BY DEF NoJob, NoMsg
<1>3. NoJob \in Job
  BY <1>1, <1>2 DEF Job
<1>4. j \in Job /\ j.at = "commit" /\ j.does = NoJob.does /\ j.msg = msg /\ j.target = NoJob.target
      /\ j.doc = NoJob.doc
  BY <1>3 DEF Job
<1>5. NoJob.at = "none" /\ NoJob.does = "git" /\ NoJob.target = 0 /\ NoJob.doc = NoDoc
  BY <1>2
<1> HIDE DEF j
<1> QED BY <1>1, <1>3, <1>4, <1>5, NoDocFits DEF JobFits, Staged, j

\* A job that runs the agent fits.
LEMMA AgentJob ==
  ASSUME NEW L, Len(L) \in Nat
  PROVE  LET j == [NoJob EXCEPT !.at = "run", !.does = "agent"] IN
         JobFits(j, L) /\ j.at = "run" /\ j.does = "agent"
<1> DEFINE j == [NoJob EXCEPT !.at = "run", !.does = "agent"]
<1>1. JobFits(NoJob, L)
  BY GitJob, StringTypes
<1>2. NoJob \in Job /\ DocFits(NoJob.doc) /\ NoJob.target <= Len(L)
  BY <1>1 DEF JobFits
<1>4. j \in Job /\ j.at = "run" /\ j.does = "agent" /\ j.msg = NoJob.msg /\ j.target = NoJob.target
      /\ j.doc = NoJob.doc
  BY <1>2 DEF Job
<1> HIDE DEF j
<1> QED BY <1>2, <1>4 DEF JobFits, Staged, j

\* A job that goes on.
LEMMA JobGoesOn ==
  ASSUME NEW L, NEW j, JobFits(j, L),
         NEW a \in {"none", "commit", "push", "run", "take", "reset", "force", "done", "failed"},
         Staged(a, j.does), NEW k, k = [j EXCEPT !.at = a]
  PROVE  /\ JobFits(k, L) /\ k.at = a /\ k.does = j.does /\ k.msg = j.msg /\ k.target = j.target
         /\ k.doc = j.doc /\ k.revert = j.revert /\ k.take = j.take /\ k.back = j.back
<1>1. j \in Job
  BY DEF JobFits
<1>2. k \in Job /\ k.at = a /\ k.does = j.does /\ k.msg = j.msg /\ k.target = j.target
      /\ k.doc = j.doc /\ k.revert = j.revert /\ k.take = j.take /\ k.back = j.back
  BY <1>1 DEF Job
<1> QED BY <1>2 DEF JobFits

\* One job replaced by one that fits.
LEMMA JobReplaced ==
  ASSUME NEW L, NEW J, JobsFit(J, L), NEW n \in Sessions, NEW j, JobFits(j, L)
  PROVE  JobsFit([J EXCEPT ![n] = j], L)
  BY DEF JobsFit, JobFits

Moved(J, n, a) == [J EXCEPT ![n].at = a]

\* One job at another stage.
LEMMA JobMoved ==
  ASSUME NEW L, NEW J, JobsFit(J, L), NEW n \in Sessions,
         NEW a \in {"none", "commit", "push", "run", "take", "reset", "force", "done", "failed"},
         Staged(a, J[n].does), NEW K, K = Moved(J, n, a)
  PROVE  /\ JobsFit(K, L) /\ \A m \in Sessions \ {n} : K[m] = J[m]
         /\ K[n].at = a /\ K[n].does = J[n].does /\ K[n].msg = J[n].msg /\ K[n].target = J[n].target
         /\ K[n].doc = J[n].doc /\ K[n].revert = J[n].revert
         /\ K[n].take = J[n].take /\ K[n].back = J[n].back
<1> DEFINE j == [J[n] EXCEPT !.at = a]
<1>1. J \in [Sessions -> Job] /\ JobFits(J[n], L)
  BY DEF JobsFit
<1>2. K = [J EXCEPT ![n] = j]
  BY DEF Moved
<1>3. JobFits(j, L) /\ j.at = a /\ j.does = J[n].does /\ j.msg = J[n].msg /\ j.target = J[n].target
      /\ j.doc = J[n].doc /\ j.revert = J[n].revert /\ j.take = J[n].take /\ j.back = J[n].back
  <2> DEFINE i == J[n]
  <2>1. JobFits(i, L) /\ Staged(a, i.does)
    BY <1>1
  <2> HIDE DEF i
  <2> DEFINE k == [i EXCEPT !.at = a]
  <2>2. JobFits(k, L) /\ k.at = a /\ k.does = i.does /\ k.msg = i.msg /\ k.target = i.target
        /\ k.doc = i.doc /\ k.revert = i.revert /\ k.take = i.take /\ k.back = i.back
    <3>1. k = [i EXCEPT !.at = a]
      OBVIOUS
    <3> HIDE DEF k
    <3> QED BY <2>1, <3>1, JobGoesOn
  <2>3. j = k
    BY DEF i
  <2> HIDE DEF k
  <2> QED BY <2>2, <2>3 DEF i
<1> HIDE DEF j
<1>4. JobsFit(K, L)
  <2>1. JobsFit([J EXCEPT ![n] = j], L)
    BY <1>3, JobReplaced
  <2> QED BY <1>2, <2>1
<1>5. K[n] = j /\ \A m \in Sessions \ {n} : K[m] = J[m]
  BY <1>1, <1>2
<1> QED BY <1>3, <1>4, <1>5

\* A longer log takes nothing from what fitted a shorter one.
LEMMA LogGrows ==
  ASSUME NEW L, LogFits(L), NEW M, LogFits(M), Len(L) <= Len(M)
  PROVE  /\ \A s : SessionFits(s, L) => SessionFits(s, M)
         /\ \A J : JobsFit(J, L) => JobsFit(J, M)
         /\ \A j : JobFits(j, L) => JobFits(j, M)
<1>1. Len(L) \in Int /\ Len(M) \in Int
  BY SameRepoAssumption DEF LogFits, Linked
<1>2. CommitId \subseteq Int
  BY DEF CommitId
<1>3. ASSUME NEW s, SessionFits(s, L) PROVE SessionFits(s, M)
  <2>1. s.start \in Int /\ s.subStart \in Int
    BY <1>2, <1>3 DEF SessionFits, SessionFields
  <2> QED BY <1>1, <1>3, <2>1 DEF SessionFits
<1>4. ASSUME NEW j, JobFits(j, L) PROVE JobFits(j, M)
  <2>1. j.target \in Int
    BY <1>2, <1>4 DEF JobFits, Job
  <2> QED BY <1>1, <1>4, <2>1 DEF JobFits
<1> QED BY <1>3, <1>4 DEF JobsFit

\* A commit.
LEMMA CommitMade ==
  ASSUME TypeInv, NEW p \in 0 .. Len(log), NEW t, TreeFits(t), NEW msg \in Message,
         CommitOn(p, t, msg)
  PROVE  /\ LogFits(log') /\ TipsFit(tips', log') /\ Len(log') = Len(log) + 1
         /\ \A i \in 1 .. Len(log) : log'[i] = log[i]
         /\ log'[Len(log) + 1] = [parent |-> p, tree |-> t, msg |-> msg]
         /\ tips'.head = Len(log) + 1 /\ tips'.origin = tips.origin /\ tips'.takes = tips.takes
         /\ \A i \in 0 .. Len(log) : Past(log', i) = Past(log, i)
         /\ Past(log', Len(log) + 1) = {Len(log) + 1} \cup Past(log, p)
<1> DEFINE c == [parent |-> p, tree |-> t, msg |-> msg]
           N == Len(log)
<1>1. Linked(log) /\ N \in Nat /\ N >= 1 /\ N <= MaxCommits + 1
  BY SameRepoAssumption DEF TypeInv, LogFits, Linked
<1>2. c \in Commit /\ c.parent = p /\ c.tree = t
  <2>1. p \in Nat /\ t \in Tree
    BY <1>1 DEF TreeFits
  <2> QED BY <2>1 DEF Commit
<1>3. log' = Append(log, c) /\ N <= MaxCommits
  BY DEF CommitOn
<1> HIDE DEF c
<1>4. /\ Linked(log') /\ Len(log') = N + 1
      /\ \A i \in 1 .. N : log'[i] = log[i]
      /\ log'[N + 1] = c
      /\ \A i \in 0 .. N : Past(log', i) = Past(log, i)
      /\ Past(log', N + 1) = {N + 1} \cup Past(log, p)
  BY <1>1, <1>2, <1>3, PastAppended
<1> HIDE DEF N
<1>5. LogFits(log')
  <2>1. N + 1 \in 1 .. MaxCommits + 1
    BY <1>1, <1>3, SameRepoAssumption
  <2>2. \A i \in 1 .. N : TreeFits(log[i].tree)
    BY DEF TypeInv, LogFits, N
  <2>3. \A i \in 1 .. N + 1 : i \in 1 .. N \/ i = N + 1
    BY <1>1
  <2>4. TreeFits(log'[N + 1].tree)
    BY <1>2, <1>4
  <2>5. \A i \in 1 .. N + 1 : TreeFits(log'[i].tree)
    BY <1>4, <2>2, <2>3, <2>4
  <2> QED BY <1>4, <2>1, <2>5 DEF LogFits
<1>6. tips' = [tips EXCEPT !.head = N + 1]
  BY DEF CommitOn, N
<1>7. tips \in [head : 1 .. N, origin : 0 .. N, takes : [1 .. MaxAsks -> 0 .. N]]
  BY DEF TypeInv, TipsFit, N
<1>8. tips'.head = N + 1 /\ tips'.origin = tips.origin /\ tips'.takes = tips.takes
      /\ tips' = [head |-> tips'.head, origin |-> tips'.origin, takes |-> tips'.takes]
  BY <1>6, <1>7
<1>9. TipsFit(tips', log')
  <2>1. N + 1 \in 1 .. N + 1 /\ \A i \in 0 .. N : i \in 0 .. N + 1
    BY <1>1
  <2>2. tips.origin \in 0 .. N + 1 /\ tips.takes \in [1 .. MaxAsks -> 0 .. N + 1]
    BY <1>7, <2>1
  <2> QED BY <1>4, <1>8, <2>1, <2>2 DEF TipsFit
<1> QED BY <1>4, <1>5, <1>8, <1>9 DEF N, c

-----------------------------------------------------------------------------
(* Each action keeps the types.  First the handler's tick.                 *)

\* The parts of a session, and its file.
LEMMA SessionParts ==
  ASSUME TypeInv
  PROVE  /\ session \in SessionFields /\ session.active \in BOOLEAN /\ session.file \in BOOLEAN
         /\ session.phase \in CondocPhase /\ session.failed \in CondocPhase /\ session.next \in CondocPhase
         /\ session.step \in 0 .. MaxSteps /\ session.sub \in 0 .. MaxLetters
         /\ session.letter \in 0 .. MaxLetters + 1
         /\ session.last \in Message /\ session.takes \in Nat
         /\ session.start \in CommitId /\ session.subStart \in CommitId
         /\ session.file => session.step \in Steps /\ DocFits(activeDoc)
         /\ session.sub # 0 => session.step \in Steps /\ session.sub \in Letters
         /\ session.start <= Len(log) /\ session.subStart <= Len(log)
         /\ Len(log) \in Nat /\ 0 <= Len(log) /\ TreeFits(work)
<1>1. session \in SessionFields /\ TreeFits(work)
  BY DEF TypeInv, SessionFits
<1>2. /\ session.active \in BOOLEAN /\ session.file \in BOOLEAN
      /\ session.phase \in CondocPhase /\ session.failed \in CondocPhase /\ session.next \in CondocPhase
      /\ session.step \in 0 .. MaxSteps /\ session.sub \in 0 .. MaxLetters
      /\ session.letter \in 0 .. MaxLetters + 1
      /\ session.last \in Message /\ session.takes \in Nat
      /\ session.start \in CommitId /\ session.subStart \in CommitId
  BY <1>1 DEF SessionFields
<1>3. session.sub # 0 => session.sub \in Letters
  BY <1>2, CondocDocsAssumption DEF Letters
<1>4. session.file => session.step \in Steps /\ DocFits(activeDoc)
  BY <1>1, <1>2, FileFits DEF TypeInv, SessionFits, activeDoc
<1>5. Len(log) \in Nat /\ 0 <= Len(log)
  BY DEF TypeInv, LogFits, Linked
<1> QED BY <1>1, <1>2, <1>3, <1>4, <1>5 DEF TypeInv, SessionFits

\* Numbers of steps, letters and commits.
LEMMA Numbers ==
  /\ 0 \in 0 .. MaxSteps /\ 0 \in 0 .. MaxLetters /\ 0 \in 0 .. MaxLetters + 1 /\ 0 \in CommitId
  /\ 1 \in Steps /\ 1 \in 0 .. MaxSteps /\ Steps \subseteq 0 .. MaxSteps /\ 0 \notin Steps
  /\ Letters \subseteq 0 .. MaxLetters
  /\ \A k \in 0 .. MaxSteps : k > 0 => k \in Steps
  /\ \A k \in 0 .. MaxSteps : k < MaxSteps => k + 1 \in Steps
  /\ 0 .. MaxLetters \subseteq 0 .. MaxLetters + 1
  BY CondocDocsAssumption, SameRepoAssumption DEF Steps, Letters, CommitId

\* A tick of the handler that sets the session, its job and the tree.
LEMMA TickKeeps ==
  ASSUME TypeInv, UNCHANGED <<log, tips, seen, counts>>, SessionFits(session', log),
         NEW j, JobFits(j, log), Runs(j), TreeFits(work'), story' \in SUBSET Astray
  PROVE  TypeInv'
<1>1. JobsFit(jobs', log)
  <2>1. Me \in Sessions
    BY DEF TypeInv, CountsFit, Me, Sessions
  <2> QED BY <2>1, JobReplaced DEF TypeInv, Runs
<1> QED BY <1>1 DEF TypeInv, CountsFit

\* Where the session is unchanged but for phase, last message and letters.
LEMMA RunGitKeeps ==
  ASSUME TypeInv, UNCHANGED <<log, tips, seen, counts, story>>,
         NEW s, SessionFits(s, log), NEW msg \in Message, runGit(s, msg), TreeFits(work')
  PROVE  TypeInv'
<1> DEFINE e == [s EXCEPT !.last = msg]
<1>1. s \in SessionFields
  BY DEF SessionFits
<1>2. e \in SessionFields /\ e.file = s.file /\ e.step = s.step /\ e.sub = s.sub
      /\ e.start = s.start /\ e.subStart = s.subStart
  BY <1>1 DEF SessionFields
<1>3. session' = e
  BY DEF runGit
<1> HIDE DEF e
<1>4. SessionFits(session', log)
  BY <1>2, <1>3 DEF SessionFits
<1> DEFINE j == [NoJob EXCEPT !.at = "commit", !.msg = msg]
<1>5. JobFits(j, log) /\ Runs(j)
  BY GitJob, SessionParts DEF runGit
<1>6. story' \in SUBSET Astray
  BY DEF TypeInv, CountsFit
<1> HIDE DEF j
<1> QED BY <1>4, <1>5, <1>6, TickKeeps

\* condocAcceptProposal.
LEMMA AcceptKeeps == ASSUME TypeInv, condocAcceptProposal PROVE TypeInv'
<1> DEFINE s == [session EXCEPT !.phase = "Branching"]
           m == templateStep(work.main, 1)
           msg == About("accepted", 1, 0)
<1>1. m \in Main /\ RevertFits(m.revert) /\ m.step >= 1
  BY SessionParts, MainParts, MainTemplated, Numbers
<1>2. work' = [work EXCEPT !.main = m]
  BY DEF condocAcceptProposal
<1> HIDE DEF m
<1>3. TreeFits(work')
  BY <1>1, <1>2, SessionParts, MainReplaced
<1>4. SessionFits(s, log)
  <2>1. "Branching" \in CondocPhase
    BY DEF CondocPhase
  <2>2. s \in SessionFields /\ s.file = session.file /\ s.step = session.step /\ s.sub = session.sub
        /\ s.start = session.start /\ s.subStart = session.subStart
    BY <2>1, SessionParts DEF SessionFields
  <2> HIDE DEF s
  <2> QED BY <2>2 DEF SessionFits, TypeInv
<1>5. msg \in Message /\ runGit(s, msg)
  BY StringTypes, Numbers DEF condocAcceptProposal, CommitKind
<1> HIDE DEF s, msg
<1> QED BY <1>3, <1>4, <1>5, RunGitKeeps DEF condocAcceptProposal, HandlerRest

\* condocStartStep.
LEMMA StartStepKeeps == ASSUME TypeInv, condocStartStep PROVE TypeInv'
<1> DEFINE n == work.main.step
           s == [session EXCEPT !.step = n, !.file = TRUE, !.letter = 0, !.phase = "StepStarting"]
           msg == About("started", n, 0)
           m == [removeMainPrompt(work.main) EXCEPT !.filled = TRUE]
           u == [work EXCEPT !.stepDoc[n] = writeStepFile]
<1>1. n \in Steps /\ n \in 0 .. MaxSteps
  BY SessionParts, MainParts, Numbers DEF condocStartStep
<1>2. m \in Main /\ m.filled /\ RevertFits(m.revert)
  BY SessionParts, MainParts, MainFilled
<1>3. TreeFits(u) /\ u.main = work.main
  BY <1>1, NoDocFits, SessionParts, StepReplaced
<1>4. work' = [u EXCEPT !.main = m]
  BY DEF condocStartStep
<1> HIDE DEF m, u
<1>5. TreeFits(work')
  BY <1>2, <1>3, <1>4, MainReplaced
<1>6. SessionFits(s, log)
  <2>1. "StepStarting" \in CondocPhase /\ TRUE \in BOOLEAN
    BY DEF CondocPhase
  <2>2. s \in SessionFields /\ s.step = n
        /\ s.start = session.start /\ s.subStart = session.subStart
    BY <1>1, <2>1, SessionParts, Numbers DEF SessionFields
  <2> HIDE DEF s
  <2> QED BY <1>1, <2>2 DEF SessionFits, TypeInv
<1>7. msg \in Message /\ runGit(s, msg)
  BY <1>1, StringTypes, Numbers DEF condocStartStep, CommitKind
<1> HIDE DEF s, msg
<1> QED BY <1>5, <1>6, <1>7, RunGitKeeps DEF condocStartStep, HandlerRest

\* condocFinish.
LEMMA FinishKeeps ==
  ASSUME TypeInv, NEW t, TreeFits(t), Finish(t, session), UNCHANGED story, HandlerRest
  PROVE  TypeInv'
<1> DEFINE s == [session EXCEPT !.active = FALSE]
           m == finalizeMainFile(t.main)
           u == [t EXCEPT !.main = m]
           msg == About("completed", session.step, 0)
<1>1. m \in Main /\ m.filled /\ RevertFits(m.revert)
  BY MainParts, MainFinalized
<1> HIDE DEF m
<1>2. TreeFits(u)
  BY <1>1, MainReplaced
<1>3. work' = [u EXCEPT !.lock = FALSE]
  BY DEF Finish, m
<1> HIDE DEF u
<1>4. TreeFits(work')
  BY <1>2, <1>3, LockReplaced
<1>5. SessionFits(s, log)
  <2>1. FALSE \in BOOLEAN
    OBVIOUS
  <2>2. s \in SessionFields /\ s.step = session.step /\ s.file = session.file /\ s.sub = session.sub
        /\ s.start = session.start /\ s.subStart = session.subStart
    BY <2>1, SessionParts DEF SessionFields
  <2> HIDE DEF s
  <2> QED BY <2>2 DEF SessionFits, TypeInv
<1>6. msg \in Message /\ runGit(s, msg)
  <2>1. "completed" \in CommitKind
    BY DEF CommitKind
  <2>2. msg \in Message
    BY <2>1, StringTypes, SessionParts, Numbers
  <2>3. runGit(s, msg)
    BY DEF Finish
  <2> QED BY <2>2, <2>3
<1> HIDE DEF s, msg
<1> QED BY <1>4, <1>5, <1>6, RunGitKeeps DEF HandlerRest

\* condocCompleteCondoc.
LEMMA CompleteCondocKeeps == ASSUME TypeInv, condocCompleteCondoc PROVE TypeInv'
  BY FinishKeeps DEF condocCompleteCondoc, TypeInv

\* The files closed with the condoc.
LEMMA ForceCompletedFits ==
  ASSUME TypeInv, NEW t, TreeFits(t)
  PROVE  TreeFits(ForceCompleted(t)) /\ ForceCompleted(t).main = t.main /\ ForceCompleted(t).lock = t.lock
<1> DEFINE open == session.sub # 0 /\ t.subDoc[session.step][session.sub].exists
           d == finalizeStepFile(t.subDoc[session.step][session.sub])
           u == IF open THEN [t EXCEPT !.subDoc[session.step][session.sub] = d] ELSE t
           e == finalizeStepFile(u.stepDoc[session.step])
<1>1. TreeFits(u) /\ u.main = t.main /\ u.lock = t.lock
  <2>1. CASE open
    <3>1. session.step \in Steps /\ session.sub \in Letters
      BY <2>1, SessionParts
    <3>2. DocFits(d)
      BY <3>1, Finalized DEF TreeFits
    <3> HIDE DEF d
    <3> QED BY <2>1, <3>1, <3>2, SubReplaced
  <2>2. CASE ~open
    BY <2>2
  <2> QED BY <2>1, <2>2
<1>2. ForceCompleted(t) = IF session.file THEN [u EXCEPT !.stepDoc[session.step] = e] ELSE u
  BY DEF ForceCompleted
<1> HIDE DEF u
<1>3. CASE session.file
  <2>1. session.step \in Steps
    BY <1>3, SessionParts
  <2>2. DocFits(e)
    BY <1>1, <2>1, Finalized DEF TreeFits
  <2> HIDE DEF e
  <2> QED BY <1>1, <1>2, <1>3, <2>1, <2>2, StepReplaced
<1> QED BY <1>1, <1>2, <1>3

\* condocForceComplete.
LEMMA ForceCompleteKeeps == ASSUME TypeInv, condocForceComplete PROVE TypeInv'
  BY FinishKeeps, ForceCompletedFits DEF condocForceComplete, TypeInv

\* The handler's file, with what becomes of it.
LEMMA ActiveReplaced ==
  ASSUME TypeInv, session.file, NEW t, TreeFits(t), NEW d, DocFits(d)
  PROVE  LET u == WithActive(t, d) IN
         /\ TreeFits(u) /\ u.main = t.main /\ u.lock = t.lock
         /\ \A x \in Steps, y \in 0 .. MaxLetters :
                FileOf(u, x, y) = IF x = session.step /\ y = session.sub THEN d ELSE FileOf(t, x, y)
  BY FileReplaced, SessionParts DEF WithActive

\* condocRetryFailedGit.
LEMMA RetryGitKeeps == ASSUME TypeInv, condocRetryFailedGit PROVE TypeInv'
<1> DEFINE s == [session EXCEPT !.phase = session.failed]
<1>1. TreeFits(work')
  <2>1. CASE session.file
    <3> DEFINE w == activeDoc.directives \ {"handoff"}
               d == [activeDoc EXCEPT !.directives = w]
    <3>1. DocFits(activeDoc)
      BY <2>1, SessionParts
    <3>2. w \in SUBSET Directive
      BY <3>1, DocParts
    <3> HIDE DEF w
    <3>3. DocFits(d)
      BY <3>1, <3>2, Directed
    <3>4. work' = WithActive(work, d)
      BY <2>1 DEF condocRetryFailedGit, w
    <3> HIDE DEF d
    <3> QED BY <2>1, <3>3, <3>4, SessionParts, ActiveReplaced
  <2>2. CASE ~session.file
    <3> DEFINE w == work.main.directives \ {"handoff"}
               m == [work.main EXCEPT !.directives = w]
    <3>1. work.main \in Main /\ w \in SUBSET Directive /\ RevertFits(work.main.revert)
          /\ (~work.main.filled => work.main.step >= 1)
      BY SessionParts, MainParts
    <3>2. work' = [work EXCEPT !.main = m]
      BY <2>2 DEF condocRetryFailedGit
    <3> HIDE DEF w
    <3>3. m \in Main /\ RevertFits(m.revert) /\ (~m.filled => m.step >= 1)
      BY <3>1, MainDirected
    <3> HIDE DEF m
    <3> QED BY <3>2, <3>3, SessionParts, MainReplaced
  <2> QED BY <2>1, <2>2
<1>2. SessionFits(s, log)
  <2>2. s \in SessionFields /\ s.step = session.step /\ s.file = session.file /\ s.sub = session.sub
        /\ s.start = session.start /\ s.subStart = session.subStart
    BY SessionParts DEF SessionFields
  <2> HIDE DEF s
  <2> QED BY <2>2 DEF SessionFits, TypeInv
<1>3. runGit(s, session.last) /\ session.last \in Message
  BY SessionParts DEF condocRetryFailedGit
<1> HIDE DEF s
<1> QED BY <1>1, <1>2, <1>3, RunGitKeeps DEF condocRetryFailedGit, HandlerRest

\* What is read in a file.
LEMMA NamedIs ==
  ASSUME NEW d, DocFits(d), NEW h
  PROVE  /\ Named(d, h) \subseteq 1 .. Len(d.sections) /\ Len(d.sections) \in Nat
         /\ Named(d, h) \in SUBSET (0 .. Len(d.sections)) /\ Named(d, h) \in SUBSET Nat
         /\ IsFiniteSet(Named(d, h)) /\ Cardinality(Named(d, h)) \in Nat
         /\ \A i \in Named(d, h) : d.sections[i] \in Section /\ SectionTyped(d.sections[i])
                                   /\ d.sections[i].head = h
         /\ Named(d, h) # {} => LastOf(Named(d, h)) \in Named(d, h) /\ FirstOf(Named(d, h)) \in Named(d, h)
                /\ (\A i \in Named(d, h) : i <= LastOf(Named(d, h)))
<1> DEFINE S == Named(d, h)
           n == Len(d.sections)
<1>1. n \in Nat /\ DOMAIN d.sections = 1 .. n
  BY DocParts
<1>2. S \subseteq 1 .. n
  BY <1>1 DEF Named
<1>3. S \in SUBSET (0 .. n) /\ S \in SUBSET Nat
  <2>1. \A i \in 1 .. n : i \in 0 .. n /\ i \in Nat
    BY <1>1
  <2> QED BY <1>2, <2>1
<1>4. IsFiniteSet(S) /\ Cardinality(S) \in Nat
  <2>1. IsFiniteSet(1 .. n)
    BY <1>1, FS_Interval
  <2>2. IsFiniteSet(S)
    BY <1>2, <2>1, FS_Subset
  <2> QED BY <2>2, FS_CardinalityType
<1>5. \A i \in S : d.sections[i] \in Section /\ SectionTyped(d.sections[i]) /\ d.sections[i].head = h
  BY <1>1, <1>2, DocParts DEF Named
<1>6. S # {} => LastOf(S) \in S /\ FirstOf(S) \in S /\ \A i \in S : i <= LastOf(S)
  <2> HIDE DEF S, n
  <2> QED BY <1>1, <1>3, LastIs, FirstIs
<1> HIDE DEF S, n
<1> QED BY <1>1, <1>2, <1>3, <1>4, <1>5, <1>6 DEF S, n

\* The letter of the last reply is a letter.
LEMMA RepliesAre ==
  ASSUME NEW d, DocFits(d)
  PROVE  /\ LetteredReplies(d) \subseteq Named(d, "Reply")
         /\ IsFiniteSet(LetteredReplies(d)) /\ Cardinality(LetteredReplies(d)) \in Nat
         /\ LetteredReplies(d) # {} => LastOf(LetteredReplies(d)) \in LetteredReplies(d)
         /\ lastReplyLetter(d) \in 0 .. MaxLetters
<1>1. LetteredReplies(d) \subseteq Named(d, "Reply")
  BY DEF LetteredReplies
<1>2. IsFiniteSet(LetteredReplies(d)) /\ Cardinality(LetteredReplies(d)) \in Nat
  BY <1>1, NamedIs, FS_Subset, FS_CardinalityType
<1>3. LetteredReplies(d) # {} => LastOf(LetteredReplies(d)) \in LetteredReplies(d)
  BY <1>1, NamedIs, LastIs
<1>4. \A i \in LetteredReplies(d) : d.sections[i].letter \in 0 .. MaxLetters
  <2>1. SUFFICES ASSUME NEW i \in LetteredReplies(d) PROVE d.sections[i].letter \in 0 .. MaxLetters
    OBVIOUS
  <2>2. d.sections[i] \in Section /\ SectionTyped(d.sections[i]) /\ d.sections[i].head = "Reply"
    BY <1>1, NamedIs
  <2>3. d.sections[i].letter \in 0 .. MaxLetters + 1 /\ d.sections[i].letter <= MaxLetters
    BY <2>2 DEF Section, SectionTyped
  <2> QED BY <2>3, CondocDocsAssumption
<1>5. lastReplyLetter(d) \in 0 .. MaxLetters
  BY <1>3, <1>4, Numbers DEF lastReplyLetter, Unlettered
<1> QED BY <1>1, <1>2, <1>3, <1>5

\* So is that of the revision that is asked for.
LEMMA PendingRevision ==
  ASSUME NEW d, DocFits(d)
  PROVE  /\ pendingRevisionLetter(d) \in 0 .. MaxLetters
         /\ pendingRevisionLetter(d) # Unlettered => Named(d, "Revision") # {}
<1>1. CASE Cardinality(Named(d, "Revision")) > Cardinality(LetteredReplies(d))
  <2>1. Named(d, "Revision") # {}
    <3>1. SUFFICES ASSUME Named(d, "Revision") = {} PROVE FALSE
      OBVIOUS
    <3>2. Cardinality(Named(d, "Revision")) = 0
      BY <3>1, FS_EmptySet
    <3> QED BY <1>1, <3>2, RepliesAre
  <2> DEFINE i == LastOf(Named(d, "Revision"))
  <2>2. d.sections[i] \in Section /\ SectionTyped(d.sections[i]) /\ d.sections[i].head = "Revision"
    BY <2>1, NamedIs
  <2>3. d.sections[i].letter \in Letters
    BY <2>2 DEF SectionTyped
  <2>4. pendingRevisionLetter(d) = d.sections[i].letter
    BY <1>1 DEF pendingRevisionLetter
  <2> QED BY <2>1, <2>3, <2>4, Numbers
<1>2. CASE ~(Cardinality(Named(d, "Revision")) > Cardinality(LetteredReplies(d)))
  <2>1. pendingRevisionLetter(d) = 0
    BY <1>2 DEF pendingRevisionLetter, Unlettered
  <2> QED BY <2>1, Numbers DEF Unlettered
<1> QED BY <1>1, <1>2

\* The substep to start next is one the step's file names, and not there.
LEMMA PendingSubstep ==
  ASSUME NEW t, TreeFits(t), NEW s \in Steps, PendingSubsteps(t, s) # {}
  PROVE  /\ pendingSubstepLetter(t, s) \in Letters
         /\ \E i \in Named(t.stepDoc[s], "Substep") :
                /\ pendingSubstepLetter(t, s) = t.stepDoc[s].sections[i].letter
                /\ i = FirstOf(PendingSubsteps(t, s))
         /\ ~t.subDoc[s][pendingSubstepLetter(t, s)].exists
<1> DEFINE d == t.stepDoc[s]
           P == PendingSubsteps(t, s)
           i == FirstOf(P)
<1>1. DocFits(d)
  BY DEF TreeFits
<1>2. P \subseteq Named(d, "Substep")
  BY DEF PendingSubsteps
<1>3. P \in SUBSET Nat
  BY <1>1, <1>2, NamedIs
<1>4. i \in P
  BY <1>3, FirstIs
<1>5. d.sections[i] \in Section /\ SectionTyped(d.sections[i]) /\ d.sections[i].head = "Substep"
  BY <1>1, <1>2, <1>4, NamedIs
<1>6. d.sections[i].letter \in Letters
  BY <1>5 DEF SectionTyped
<1>7. pendingSubstepLetter(t, s) = d.sections[i].letter
  BY DEF pendingSubstepLetter
<1>8. ~t.subDoc[s][d.sections[i].letter].exists
  BY <1>4 DEF PendingSubsteps
<1> QED BY <1>2, <1>4, <1>6, <1>7, <1>8

\* The retry that is asked for is a section of the file.
LEMMA PendingRetryIs ==
  ASSUME NEW d, DocFits(d), RetryPending(d)
  PROVE  /\ PendingRetry(d) \in Section /\ PendingRetry(d).letter \in Letters
         /\ PendingRetry(d).letter \in 0 .. MaxLetters + 1
         /\ retryFromStepsBack(d, PendingRetry(d).from) \in Nat
<1> DEFINE i == LastOf(Named(d, "Retry"))
<1>1. d.sections[i] \in Section /\ SectionTyped(d.sections[i]) /\ d.sections[i].head = "Retry"
  BY NamedIs DEF RetryPending
<1>2. d.sections[i].letter \in Letters /\ d.sections[i].letter \in 0 .. MaxLetters + 1
  BY <1>1 DEF SectionTyped, Section
<1>3. PendingRetry(d) = d.sections[i]
  BY DEF PendingRetry
<1>4. \A f : retryFromStepsBack(d, f) \in Nat
  <2>1. SUFFICES ASSUME NEW f PROVE retryFromStepsBack(d, f) \in Nat
    OBVIOUS
  <2> DEFINE S == {k \in LetteredReplies(d) : d.sections[k].letter > f}
  <2>2. Cardinality(S) \in Nat
    <3>1. S \subseteq LetteredReplies(d)
      OBVIOUS
    <3> HIDE DEF S
    <3> QED BY <3>1, RepliesAre, FS_Subset, FS_CardinalityType
  <2>3. Cardinality(Named(d, "Reply")) \in Nat
    BY NamedIs
  <2> QED BY <2>2, <2>3 DEF retryFromStepsBack
<1> QED BY <1>1, <1>2, <1>3, <1>4

-----------------------------------------------------------------------------
\* Where the file of a step or a substep asks for something.
LEMMA AskedOf ==
  ASSUME TypeInv, NEW what, Asked(what)
  PROVE  session.active /\ session.file /\ session.phase = "AwaitingAction" /\ LoopFree
         /\ session.step \in Steps /\ DocFits(activeDoc)
  BY SessionParts DEF Asked, Ticks

\* condocCompleteSubstep.
LEMMA CompleteSubstepKeeps == ASSUME TypeInv, condocCompleteSubstep PROVE TypeInv'
<1> DEFINE st == session.step
           s == [session EXCEPT !.sub = 0, !.subStart = 0, !.letter = 0,
                                !.phase = "Committing", !.next = "AwaitingAction"]
           msg == About("closed", session.step, session.sub)
           d == finalizeStepFile(work.subDoc[st][session.sub])
           u == [work EXCEPT !.subDoc[st][session.sub] = d]
           e == addNextRevisionTemplate(work.stepDoc[st], lastReplyLetter(work.stepDoc[st]))
<1>1. st \in Steps /\ session.sub \in Letters /\ session.file
  BY SessionParts, AskedOf DEF condocCompleteSubstep
<1>2. DocFits(work.subDoc[st][session.sub]) /\ DocFits(work.stepDoc[st])
  BY <1>1, SessionParts DEF TreeFits
<1>3. DocFits(d)
  BY <1>2, Finalized
<1>4. DocFits(e)
  BY <1>2, RepliesAre, Templated
<1>5. work' = [u EXCEPT !.stepDoc[st] = e]
  BY DEF condocCompleteSubstep
<1>6. TreeFits(u)
  <2> HIDE DEF d
  <2> QED BY <1>1, <1>3, SessionParts, SubReplaced
<1>7. TreeFits(work')
  <2> HIDE DEF u, e
  <2> QED BY <1>1, <1>4, <1>5, <1>6, StepReplaced
<1>8. SessionFits(s, log)
  <2>1. "Committing" \in CondocPhase /\ "AwaitingAction" \in CondocPhase
    BY DEF CondocPhase
  <2>2. s \in SessionFields /\ s.step = session.step /\ s.file = session.file /\ s.sub = 0
        /\ s.start = session.start /\ s.subStart = 0
    BY <2>1, SessionParts, Numbers DEF SessionFields
  <2> HIDE DEF s
  <2> QED BY <2>2, SessionParts DEF SessionFits
<1>9. msg \in Message /\ runGit(s, msg)
  <2>1. "closed" \in CommitKind
    BY DEF CommitKind
  <2> QED BY <2>1, SessionParts, StringTypes DEF condocCompleteSubstep
<1> HIDE DEF s, msg
<1> QED BY <1>7, <1>8, <1>9, RunGitKeeps DEF condocCompleteSubstep, HandlerRest

\* condocCompleteStep.
LEMMA CompleteStepKeeps == ASSUME TypeInv, condocCompleteStep PROVE TypeInv'
<1> DEFINE st == session.step
           s == [session EXCEPT !.phase = "Committing", !.next = "AwaitingStep",
                              !.file = FALSE, !.step = @ + 1]
           msg == About("closed", session.step, 0)
           d == finalizeStepFile(work.stepDoc[st])
           u == [work EXCEPT !.stepDoc[st] = d]
           m == templateStep(work.main, st + 1)
<1>1. st \in Steps /\ st + 1 \in Steps
  BY SessionParts, AskedOf, Numbers DEF condocCompleteStep
<1>2. DocFits(d)
  BY <1>1, SessionParts, Finalized DEF TreeFits
<1>3. m \in Main /\ RevertFits(m.revert) /\ m.step >= 1
  BY <1>1, SessionParts, MainParts, MainTemplated
<1>4. work' = [u EXCEPT !.main = m]
  BY DEF condocCompleteStep
<1>5. TreeFits(u)
  <2> HIDE DEF d
  <2> QED BY <1>1, <1>2, SessionParts, StepReplaced
<1>6. TreeFits(work')
  <2> HIDE DEF u, m
  <2> QED BY <1>3, <1>4, <1>5, MainReplaced
<1>8. SessionFits(s, log)
  <2>1. "Committing" \in CondocPhase /\ "AwaitingStep" \in CondocPhase /\ FALSE \in BOOLEAN
    BY DEF CondocPhase
  <2>0. st + 1 \in 0 .. MaxSteps
    BY <1>1, Numbers
  <2>2. s \in SessionFields /\ s.step = st + 1 /\ s.sub = session.sub
        /\ s.start = session.start /\ s.subStart = session.subStart
    BY <2>0, <2>1, SessionParts DEF SessionFields
  <2> HIDE DEF s
  <2> QED BY <1>1, <2>2, SessionParts DEF SessionFits
<1>9. msg \in Message /\ runGit(s, msg)
  <2>1. "closed" \in CommitKind
    BY DEF CommitKind
  <2> QED BY <2>1, SessionParts, StringTypes, Numbers DEF condocCompleteStep
<1> HIDE DEF s, msg
<1> QED BY <1>6, <1>8, <1>9, RunGitKeeps DEF condocCompleteStep, HandlerRest

\* condocRunRevision.
LEMMA RunRevisionKeeps == ASSUME TypeInv, condocRunRevision PROVE TypeInv'
<1> DEFINE s == [session EXCEPT !.letter = pendingRevisionLetter(activeDoc), !.phase = "HumanCommitting"]
           msg == About("prompt", session.step, session.sub)
           d == removeHumanPromptSection(activeDoc)
<1>1. session.file /\ DocFits(activeDoc)
  BY AskedOf DEF condocRunRevision
<1>2. DocFits(d)
  BY <1>1, Stripped
<1>3. TreeFits(work')
  <2>1. work' = WithActive(work, d)
    BY DEF condocRunRevision
  <2> HIDE DEF d
  <2> QED BY <1>1, <1>2, <2>1, SessionParts, ActiveReplaced
<1>8. SessionFits(s, log)
  <2>1. "HumanCommitting" \in CondocPhase
    BY DEF CondocPhase
  <2>0. pendingRevisionLetter(activeDoc) \in 0 .. MaxLetters + 1
    BY <1>1, PendingRevision, Numbers
  <2>2. s \in SessionFields /\ s.step = session.step /\ s.file = session.file /\ s.sub = session.sub
        /\ s.start = session.start /\ s.subStart = session.subStart
    BY <2>0, <2>1, SessionParts DEF SessionFields
  <2> HIDE DEF s
  <2> QED BY <2>2, SessionParts DEF SessionFits
<1>9. msg \in Message /\ runGit(s, msg)
  <2>1. "prompt" \in CommitKind
    BY DEF CommitKind
  <2> QED BY <2>1, SessionParts, StringTypes DEF condocRunRevision
<1> HIDE DEF s, msg
<1> QED BY <1>3, <1>8, <1>9, RunGitKeeps DEF condocRunRevision, HandlerRest

\* condocStartSubstep.
LEMMA StartSubstepKeeps == ASSUME TypeInv, condocStartSubstep PROVE TypeInv'
<1> DEFINE st == session.step
           l == pendingSubstepLetter(work, st)
           s == [session EXCEPT !.sub = l, !.letter = 0, !.phase = "StepStarting"]
           msg == About("started", st, l)
           u == [work EXCEPT !.subDoc[st][l] = writeStepFile]
           d == markSubstepInStepFile(work.stepDoc[st], l)
<1>1. st \in Steps /\ session.file
  BY AskedOf DEF condocStartSubstep
<1>2. l \in Letters
  BY <1>1, SessionParts, PendingSubstep DEF condocStartSubstep, Asked
<1>3. DocFits(d)
  BY <1>1, <1>2, SessionParts, Marked DEF TreeFits
<1>4. work' = [u EXCEPT !.stepDoc[st] = d]
  BY DEF condocStartSubstep
<1>5. TreeFits(u)
  BY <1>1, <1>2, SessionParts, NoDocFits, SubReplaced
<1>6. TreeFits(work')
  <2> HIDE DEF u, d
  <2> QED BY <1>1, <1>3, <1>4, <1>5, StepReplaced
<1>8. SessionFits(s, log)
  <2>1. "StepStarting" \in CondocPhase
    BY DEF CondocPhase
  <2>0. l \in 0 .. MaxLetters
    BY <1>2, Numbers
  <2> HIDE DEF l
  <2>2. s \in SessionFields /\ s.step = session.step /\ s.file = session.file
        /\ s.start = session.start /\ s.subStart = session.subStart
    BY <2>0, <2>1, SessionParts, Numbers DEF SessionFields
  <2> HIDE DEF s
  <2> QED BY <1>1, <2>2, SessionParts DEF SessionFits
<1>9. msg \in Message /\ runGit(s, msg)
  <2>1. "started" \in CommitKind
    BY DEF CommitKind
  <2>2. msg \in Message
    BY <1>2, <2>1, SessionParts, StringTypes, Numbers
  <2>3. runGit(s, msg)
    BY DEF condocStartSubstep
  <2> QED BY <2>2, <2>3
<1> HIDE DEF s, msg
<1> QED BY <1>6, <1>8, <1>9, RunGitKeeps DEF condocStartSubstep, HandlerRest

\* Retry and revert.
LEMMA RunRetryKeeps == ASSUME TypeInv, condocRunRetry PROVE TypeInv'
<1> DEFINE r == PendingRetry(activeDoc)
           back == retryFromStepsBack(activeDoc, r.from)
           d == removeHumanPromptSection(activeDoc)
           msg == About("took", session.step, session.sub)
           to == retryTarget(r)
           k == session.takes + 1
           j == [NoJob EXCEPT !.at = "take", !.does = "retry", !.take = k,
                        !.target = to, !.back = back, !.doc = d, !.msg = msg]
           s == [session EXCEPT !.takes = @ + 1, !.letter = r.letter, !.phase = "RunningAgent"]
<1>1. session.file /\ session.step \in Steps /\ DocFits(activeDoc) /\ RetryPending(activeDoc)
  BY AskedOf DEF condocRunRetry, Asked
<1>2. r.letter \in 0 .. MaxLetters + 1 /\ back \in Nat
  BY <1>1, PendingRetryIs
<1>3. DocFits(d) /\ d \in Doc
  BY <1>1, Stripped DEF DocFits
<1>4. to \in CommitId /\ to <= Len(log)
  BY SessionParts, Numbers DEF retryTarget
<1>5. msg \in Message /\ msg.step = session.step
  <2>1. "took" \in CommitKind
    BY DEF CommitKind
  <2> QED BY <2>1, SessionParts, StringTypes
<1>6. session' = s /\ Runs(j)
  BY DEF condocRunRetry
<1>7. k \in Nat
  BY SessionParts
<1> HIDE DEF d, msg, back, to, r, k
<1>8. JobFits(j, log)
  <2>1. NoJob \in Job
    BY GitJob, StringTypes, SessionParts DEF JobFits
  <2>2. j \in Job /\ j.doc = d /\ j.target = to /\ j.msg = msg /\ j.at = "take"
        /\ j.does \in {"retry", "revert"}
    BY <1>2, <1>3, <1>4, <1>5, <1>7, <2>1 DEF Job
  <2> HIDE DEF j
  <2> QED BY <1>1, <1>3, <1>4, <1>5, <2>2 DEF JobFits, Staged
<1>9. SessionFits(session', log)
  <2>1. "RunningAgent" \in CondocPhase
    BY DEF CondocPhase
  <2>2. s \in SessionFields /\ s.step = session.step /\ s.file = session.file /\ s.sub = session.sub
        /\ s.start = session.start /\ s.subStart = session.subStart
    <3>1. session.takes + 1 \in Nat
      BY SessionParts
    <3> QED BY <1>2, <2>1, <3>1, SessionParts DEF SessionFields
  <2> HIDE DEF s
  <2> QED BY <1>6, <2>2, SessionParts DEF SessionFits
<1>10. TreeFits(work') /\ story' \in SUBSET Astray /\ HandlerRest
  BY SessionParts DEF condocRunRetry, TypeInv, CountsFit
<1> HIDE DEF j, s
<1> QED BY <1>6, <1>8, <1>9, <1>10, TickKeeps DEF HandlerRest

\* The last commit that started a step.
LEMMA LatestStartIs ==
  ASSUME TypeInv, NEW s, NEW l
  PROVE  /\ LatestStart(s, l) \in 0 .. Len(log) /\ LatestStart(s, l) \in CommitId
         /\ LatestStart(s, l) # 0 => LatestStart(s, l) \in StartedAt(s, l)
<1>1. Linked(log) /\ Len(log) \in Nat /\ Len(log) <= MaxCommits + 1 /\ tips.head \in 0 .. Len(log)
  BY SameRepoAssumption DEF TypeInv, LogFits, Linked, TipsFit
<1>2. StartedAt(s, l) \in SUBSET (0 .. Len(log))
  <2>1. StartedAt(s, l) \subseteq Past(log, tips.head)
    BY HistoryMeans DEF StartedAt
  <2>2. Past(log, tips.head) \subseteq 1 .. tips.head
    BY <1>1, PastBelow
  <2>3. \A i \in 1 .. tips.head : i \in 0 .. Len(log)
    BY <1>1
  <2> QED BY <2>1, <2>2, <2>3
<1>3. \A i \in 0 .. Len(log) : i \in CommitId
  BY <1>1, SameRepoAssumption DEF CommitId
<1>4. LatestStart(s, l) = IF StartedAt(s, l) = {} THEN 0 ELSE LastOf(StartedAt(s, l))
  BY DEF LatestStart
<1>5. StartedAt(s, l) # {} => LastOf(StartedAt(s, l)) \in StartedAt(s, l)
  <2> DEFINE S == StartedAt(s, l)
             n == Len(log)
  <2>1. n \in Nat /\ S \in SUBSET (0 .. n)
    BY <1>1, <1>2
  <2> HIDE DEF S, n
  <2>2. S # {} => LastOf(S) \in S
    BY <2>1, LastIs
  <2> QED BY <2>2 DEF S
<1>6. LatestStart(s, l) # 0 => LatestStart(s, l) \in StartedAt(s, l)
  BY <1>4, <1>5
<1>7. LatestStart(s, l) \in 0 .. Len(log)
  BY <1>1, <1>2, <1>6
<1> QED BY <1>3, <1>6, <1>7

\* A revert to a step, a substep or an iteration of one.
LEMMA RevertToKeeps ==
  ASSUME TypeInv, NEW r \in Revert, RevertFits(r), r # NoRevert, RevertTo(r), UNCHANGED work, HandlerRest
  PROVE  TypeInv'
<1> DEFINE d == removeHumanPromptSection(FileOf(work, r.step, revertSub(r)))
           msg == About("reverted", r.step, revertSub(r))
           to == LatestStart(r.step, revertSub(r))
           k == session.takes + 1
           j == [NoJob EXCEPT !.at = "take", !.does = "revert", !.take = k,
                        !.target = to, !.revert = r, !.doc = d, !.msg = msg]
           s == [session EXCEPT !.takes = @ + 1, !.phase = "RunningAgent", !.step = r.step,
                                  !.file = TRUE, !.sub = 0, !.subStart = 0, !.letter = 0]
<1>1. r.step \in Steps /\ revertSub(r) \in 0 .. MaxLetters
  BY Numbers DEF RevertFits, Revert, revertSub
<1>3. DocFits(d) /\ d \in Doc
  <2>1. DocFits(FileOf(work, r.step, revertSub(r)))
    BY <1>1, SessionParts, FileFits
  <2> QED BY <2>1, Stripped DEF DocFits
<1>4. to \in CommitId /\ to <= Len(log)
  BY LatestStartIs, SessionParts
<1>5. msg \in Message /\ msg.step = r.step
  <2>1. "reverted" \in CommitKind
    BY DEF CommitKind
  <2> DEFINE x == r.step
             y == revertSub(r)
  <2>2. x \in 0 .. MaxSteps /\ y \in 0 .. MaxLetters
    BY <1>1, Numbers
  <2> HIDE DEF y
  <2> QED BY <2>1, <2>2, StringTypes DEF y
<1>6. session' = s /\ Runs(j)
  BY DEF RevertTo
<1>7. k \in Nat
  BY SessionParts
<1> HIDE DEF d, msg, to, k
<1>8. JobFits(j, log)
  <2>1. NoJob \in Job
    BY GitJob, StringTypes, SessionParts DEF JobFits
  <2>2. j \in Job /\ j.doc = d /\ j.target = to /\ j.msg = msg /\ j.at = "take"
        /\ j.does \in {"retry", "revert"}
    BY <1>3, <1>4, <1>5, <1>7, <2>1 DEF Job
  <2> HIDE DEF j
  <2> QED BY <1>1, <1>3, <1>4, <1>5, <2>2 DEF JobFits, Staged
<1>9. SessionFits(session', log)
  <2>1. "RunningAgent" \in CondocPhase /\ TRUE \in BOOLEAN /\ r.step \in 0 .. MaxSteps
    BY <1>1, Numbers DEF CondocPhase
  <2>2. s \in SessionFields /\ s.step = r.step /\ s.sub = 0
        /\ s.start = session.start /\ s.subStart = 0
    <3>1. session.takes + 1 \in Nat
      BY SessionParts
    <3> QED BY <2>1, <3>1, SessionParts, Numbers DEF SessionFields
  <2> HIDE DEF s
  <2> QED BY <1>1, <1>6, <2>2, SessionParts DEF SessionFits
<1>10. TreeFits(work')
  BY SessionParts
<1>11. story' \in SUBSET Astray
  BY DEF RevertTo, TypeInv, CountsFit, Astray
<1> HIDE DEF j, s
<1> QED BY <1>6, <1>8, <1>9, <1>10, <1>11, TickKeeps DEF HandlerRest

\* condocRevert.
LEMMA RevertKeeps == ASSUME TypeInv, condocRevert PROVE TypeInv'
<1>1. CASE session.file /\ activeDoc.revert # NoRevert /\ RevertTo(activeDoc.revert)
  <2>1. activeDoc.revert \in Revert /\ RevertFits(activeDoc.revert)
    BY <1>1, SessionParts, DocParts
  <2>2. UNCHANGED work /\ HandlerRest
    BY <1>1 DEF RevertTo
  <2> QED BY <1>1, <2>1, <2>2, RevertToKeeps
<1>2. CASE work.main.revert # NoRevert /\ RevertTo(work.main.revert)
  <2>1. work.main.revert \in Revert /\ RevertFits(work.main.revert)
    BY SessionParts, MainParts
  <2>2. UNCHANGED work /\ HandlerRest
    BY <1>2 DEF RevertTo
  <2> QED BY <1>2, <2>1, <2>2, RevertToKeeps
<1> QED BY <1>1, <1>2 DEF condocRevert

\* What a reset leaves.
LEMMA Trimmed ==
  ASSUME NEW d, DocFits(d), NEW l
  PROVE  LET e == trimContentBeforeIterationReply(d, l) IN
         /\ DocFits(e) /\ e.exists = d.exists /\ e.prompt = d.prompt /\ e.substep = d.substep
         /\ e.directives = d.directives
<1> DEFINE S == {i \in Named(d, "Reply") : d.sections[i].letter = l}
           q == SubSeq(d.sections, 1, FirstOf(S) - 1)
<1>1. CASE S = {}
  BY <1>1 DEF trimContentBeforeIterationReply
<1>2. CASE S # {}
  <2>1. S \subseteq 1 .. Len(d.sections) /\ S \in SUBSET Nat /\ Len(d.sections) \in Nat
    BY NamedIs
  <2>2. FirstOf(S) \in S
    <3> HIDE DEF S
    <3> QED BY <1>2, <2>1, FirstIs
  <2>3. q \in Seq(Sections)
    <3> DEFINE n == FirstOf(S) - 1
    <3>1. n \in Int /\ \A i \in 1 .. n : i \in 1 .. Len(d.sections)
      <4> DEFINE m == FirstOf(S)
      <4>1. m \in 1 .. Len(d.sections)
        BY <2>1, <2>2
      <4> HIDE DEF m
      <4>2. m - 1 \in Int /\ \A i \in 1 .. m - 1 : i \in 1 .. Len(d.sections)
        BY <2>1, <4>1
      <4> QED BY <4>2 DEF m
    <3>2. \A i \in 1 .. Len(d.sections) : d.sections[i] \in Sections
      BY DocParts
    <3> HIDE DEF n
    <3>3. SubSeq(d.sections, 1, n) \in Seq(Sections)
      BY <3>1, <3>2, SubSeqProperties
    <3> QED BY <3>3 DEF n
  <2>4. trimContentBeforeIterationReply(d, l) = [d EXCEPT !.sections = q]
    BY <1>2 DEF trimContentBeforeIterationReply
  <2> HIDE DEF q
  <2> DEFINE e == [d EXCEPT !.sections = q]
  <2>5. DocFits(e) /\ e.exists = d.exists /\ e.prompt = d.prompt /\ e.substep = d.substep
         /\ e.directives = d.directives
    BY <2>3, Resectioned
  <2> HIDE DEF e
  <2> QED BY <2>4, <2>5 DEF e
<1> QED BY <1>1, <1>2

\* A file without its iterations is a file.
LEMMA IterationsStripped ==
  ASSUME NEW d, DocFits(d)
  PROVE  LET e == StripIterations(d) IN
         /\ DocFits(e) /\ e.exists = d.exists /\ e.prompt = d.prompt /\ e.substep = d.substep
         /\ e.directives = d.directives
<1> DEFINE S == Named(d, "Reply") \cup Named(d, "Revision") \cup Named(d, "Retry")
           q == SubSeq(d.sections, 1, FirstOf(S) - 1)
<1>1. CASE S = {}
  BY <1>1 DEF StripIterations
<1>2. CASE S # {}
  <2>1. S \subseteq 1 .. Len(d.sections) /\ S \in SUBSET Nat /\ Len(d.sections) \in Nat
    BY NamedIs
  <2>2. FirstOf(S) \in S
    <3> HIDE DEF S
    <3> QED BY <1>2, <2>1, FirstIs
  <2>3. q \in Seq(Sections)
    <3> DEFINE n == FirstOf(S) - 1
    <3>1. n \in Int /\ \A i \in 1 .. n : i \in 1 .. Len(d.sections)
      <4> DEFINE m == FirstOf(S)
      <4>1. m \in 1 .. Len(d.sections)
        BY <2>1, <2>2
      <4> HIDE DEF m
      <4>2. m - 1 \in Int /\ \A i \in 1 .. m - 1 : i \in 1 .. Len(d.sections)
        BY <2>1, <4>1
      <4> QED BY <4>2 DEF m
    <3>2. \A i \in 1 .. Len(d.sections) : d.sections[i] \in Sections
      BY DocParts
    <3> HIDE DEF n
    <3>3. SubSeq(d.sections, 1, n) \in Seq(Sections)
      BY <3>1, <3>2, SubSeqProperties
    <3> QED BY <3>3 DEF n
  <2>4. StripIterations(d) = [d EXCEPT !.sections = q]
    BY <1>2 DEF StripIterations
  <2> HIDE DEF q
  <2> DEFINE e == [d EXCEPT !.sections = q]
  <2>5. DocFits(e) /\ e.exists = d.exists /\ e.prompt = d.prompt /\ e.substep = d.substep
         /\ e.directives = d.directives
    BY <2>3, Resectioned
  <2> HIDE DEF e
  <2> QED BY <2>4, <2>5 DEF e
<1> QED BY <1>1, <1>2

\* The tree after a reset is that of a commit, with one file put back.
LEMMA ResetIs ==
  ASSUME TypeInv, NEW n \in Sessions, jobs[n].does \in {"retry", "revert"}, ResetTo(jobs[n]) # 0
  PROVE  /\ ResetTo(jobs[n]) \in 1 .. Len(log) /\ TreeFits(log[ResetTo(jobs[n])].tree)
         /\ TreeFits(AfterReset(jobs[n]))
         /\ \E f : DocFits(f) /\ AfterReset(jobs[n]) = WithFile(log[ResetTo(jobs[n])].tree,
                                     jobs[n].msg.step, jobs[n].msg.sub, f)
<1> DEFINE j == jobs[n]
           t == log[ResetTo(j)].tree
           cut == CASE j.revert.sub # 0 -> trimContentBeforeIterationReply(j.doc, j.revert.sub)
                 [] j.revert.sub = 0 /\ j.revert.iter # 0 ->
                        trimContentBeforeIterationReply(j.doc, j.revert.iter)
                 [] OTHER -> StripIterations(removeHumanPromptSection(t.stepDoc[j.msg.step]))
           file == IF j.does = "retry" THEN j.doc ELSE addHumanPrompt(cut)
<1>1. JobFits(j, log) /\ j \in Job /\ j.msg.step \in Steps /\ DocFits(j.doc)
  BY DEF TypeInv, JobsFit, JobFits
<1>2. j.msg \in Message /\ j.msg.sub \in 0 .. MaxLetters /\ j.back \in Nat /\ j.target \in CommitId
  BY <1>1 DEF Job, Message
<1>3. Linked(log) /\ Len(log) \in Nat /\ tips.head \in 0 .. Len(log)
  BY DEF TypeInv, LogFits, Linked, TipsFit
<1>4. ResetTo(j) \in 1 .. Len(log)
  <2>1. Back(tips.head, j.back) \in 0 .. Len(log)
    BY <1>2, <1>3, BackIs
  <2>2. j.target \in 0 .. Len(log)
    BY <1>1, <1>2, <1>3, SameRepoAssumption DEF JobFits, CommitId
  <2>3. ResetTo(j) \in 0 .. Len(log)
    BY <2>1, <2>2 DEF ResetTo
  <2> QED BY <1>3, <2>3
<1>5. TreeFits(t)
  BY <1>4 DEF TypeInv, LogFits
<1>6. DocFits(file)
  <2>1. DocFits(t.stepDoc[j.msg.step])
    BY <1>1, <1>5 DEF TreeFits
  <2>2. DocFits(cut)
    BY <1>1, <2>1, Stripped, Trimmed, IterationsStripped
  <2> HIDE DEF cut
  <2> QED BY <1>1, <2>2, Prompted
<1>7. AfterReset(j) = WithFile(t, j.msg.step, j.msg.sub, file)
  BY DEF AfterReset
<1> HIDE DEF file, t
<1>8. TreeFits(AfterReset(j))
  BY <1>1, <1>2, <1>5, <1>6, <1>7, FileReplaced
<1> QED BY <1>4, <1>5, <1>6, <1>7, <1>8 DEF t

\* The steps of a git sequence, and of the agent.
LEMMA PushTakeKeeps == ASSUME TypeInv, NEW n \in Sessions, PushTake(n) PROVE TypeInv'
<1>1. JobsFit(jobs', log)
  <2>1. jobs' = Moved(jobs, n, "reset") \/ jobs' = Moved(jobs, n, "failed")
    BY DEF PushTake, Moved
  <2>2. Staged("reset", jobs[n].does) /\ Staged("failed", jobs[n].does)
    BY DEF PushTake, TypeInv, JobsFit, JobFits, Staged
  <2>3. CASE jobs' = Moved(jobs, n, "reset")
    BY <2>2, <2>3, JobMoved DEF TypeInv
  <2>4. CASE jobs' = Moved(jobs, n, "failed")
    BY <2>2, <2>4, JobMoved DEF TypeInv
  <2> QED BY <2>1, <2>3, <2>4
<1>2. TipsFit(tips', log)
  <2>1. tips \in [head : 1 .. Len(log), origin : 0 .. Len(log), takes : [1 .. MaxAsks -> 0 .. Len(log)]]
    BY DEF TypeInv, TipsFit
  <2> DEFINE k == [tips.takes EXCEPT ![jobs[n].take] = tips.head]
  <2>2. k \in [1 .. MaxAsks -> 0 .. Len(log)]
    <3>1. tips.head \in 0 .. Len(log)
      BY <2>1, SessionParts
    <3> QED BY <2>1, <3>1
  <2>3. tips' = tips \/ tips' = [tips EXCEPT !.takes = k]
    BY DEF PushTake
  <2> HIDE DEF k
  <2> QED BY <2>1, <2>2, <2>3 DEF TipsFit
<1>3. UNCHANGED <<session, work, log, seen, counts, story>>
  BY DEF PushTake
<1> QED BY <1>1, <1>2, <1>3 DEF TypeInv, CountsFit

\* A tree with the lock that a reset leaves.
LEMMA LockStays ==
  ASSUME NEW t, TreeFits(t), NEW stays, NEW u, u = [t EXCEPT !.lock = @ \/ stays]
  PROVE  /\ TreeFits(u) /\ u.main = t.main /\ u.stepDoc = t.stepDoc /\ u.subDoc = t.subDoc
         /\ u.lock <=> t.lock \/ stays
<1> DEFINE on == t.lock \/ stays
<1>1. u = [t EXCEPT !.lock = on] /\ on \in BOOLEAN
  OBVIOUS
<1> HIDE DEF on
<1>2. /\ TreeFits(u) /\ u.main = t.main /\ u.lock = on
      /\ u.stepDoc = t.stepDoc /\ u.subDoc = t.subDoc
  BY <1>1, LockReplaced
<1> QED BY <1>2 DEF on

\* git reset, the file restored and committed.
LEMMA ResetKeeps == ASSUME TypeInv, NEW n \in Sessions, ResetAndRestore(n) PROVE TypeInv'
<1>0. jobs[n].does \in {"retry", "revert"}
  BY DEF ResetAndRestore, TypeInv, JobsFit, JobFits, Staged
<1> DEFINE j == jobs[n]
           t == [AfterReset(j) EXCEPT !.lock = @ /\ j.does = "retry"]
<1>1. story' \in SUBSET Astray /\ UNCHANGED <<session, seen, counts>>
  BY DEF ResetAndRestore, TypeInv, CountsFit, Astray
<1>2. CASE ResetTo(j) = 0
  <2>1. jobs' = Moved(jobs, n, "failed") /\ UNCHANGED <<work, log, tips>>
    BY <1>2 DEF ResetAndRestore, gitVars, Moved
  <2>2. JobsFit(jobs', log)
    BY <2>1, JobMoved DEF TypeInv, Staged
  <2> QED BY <1>1, <2>1, <2>2 DEF TypeInv, CountsFit, TipsFit
<1>3. CASE ResetTo(j) # 0
  <2>1. ResetTo(j) \in 1 .. Len(log) /\ TreeFits(AfterReset(j))
    BY <1>0, <1>3, ResetIs
  <2>2. TreeFits(t)
    <3> DEFINE on == AfterReset(j).lock /\ j.does = "retry"
    <3>1. t = [AfterReset(j) EXCEPT !.lock = on] /\ on \in BOOLEAN
      OBVIOUS
    <3> HIDE DEF on
    <3>2. TreeFits([AfterReset(j) EXCEPT !.lock = on])
      BY <2>1, <3>1, LockReplaced
    <3> QED BY <3>1, <3>2
  <2>3. PICK stays \in Stays(j) : /\ work' = [t EXCEPT !.lock = @ \/ stays]
                                 /\ CommitOn(ResetTo(j), t, j.msg) /\ jobs' = Moved(jobs, n, "force")
    BY <1>3 DEF ResetAndRestore, Moved
  <2>4. j.msg \in Message /\ ResetTo(j) \in 0 .. Len(log)
    BY <2>1 DEF TypeInv, JobsFit, Job
  <2> HIDE DEF t
  <2>5. LogFits(log') /\ TipsFit(tips', log') /\ Len(log) <= Len(log')
    <3>1. LogFits(log') /\ TipsFit(tips', log') /\ Len(log') = Len(log) + 1
      BY <2>2, <2>3, <2>4, CommitMade
    <3> QED BY <3>1, SessionParts
  <2>0. Staged("force", j.does)
    BY <1>0 DEF Staged
  <2>6. JobsFit(jobs', log) /\ SessionFits(session', log)
    BY <1>1, <2>0, <2>3, JobMoved DEF TypeInv
  <2>7. JobsFit(jobs', log') /\ SessionFits(session', log')
    BY <2>5, <2>6, LogGrows DEF TypeInv
  <2>8. TreeFits(work')
    BY <2>2, <2>3, LockStays
  <2> QED BY <1>1, <2>3, <2>5, <2>7, <2>8 DEF TypeInv, CountsFit
<1> QED BY <1>2, <1>3

\* One more trouble.
LEMMA TroubleKeeps ==
  ASSUME TypeInv, Trouble
  PROVE  counts' \in [asks : 0 .. MaxAsks, sessions : 1 .. MaxSessions, trouble : 0 .. MaxTrouble]
<1>1. counts \in [asks : 0 .. MaxAsks, sessions : 1 .. MaxSessions, trouble : 0 .. MaxTrouble]
  BY DEF TypeInv, CountsFit
<1>2. counts.trouble + 1 \in 0 .. MaxTrouble
  BY <1>1, SameRepoAssumption DEF Trouble
<1> QED BY <1>1, <1>2 DEF Trouble

\* The sequence stops part way.
LEMMA ResetBreaksKeeps == ASSUME TypeInv, NEW n \in Sessions, ResetBreaks(n) PROVE TypeInv'
<1> DEFINE j == jobs[n]
<1>0. j.does \in {"retry", "revert"} /\ ResetTo(j) # 0
  BY DEF ResetBreaks, TypeInv, JobsFit, JobFits, Staged
<1>1. /\ story' \in SUBSET Astray /\ UNCHANGED <<session, log, seen>>
      /\ jobs' = Moved(jobs, n, "failed") /\ Trouble
      /\ tips' = [tips EXCEPT !.head = ResetTo(j)]
  BY DEF ResetBreaks, TypeInv, CountsFit, Astray, Moved
<1>2. ResetTo(j) \in 1 .. Len(log) /\ TreeFits(AfterReset(j)) /\ TreeFits(log[ResetTo(j)].tree)
  BY <1>0, ResetIs
<1>3. TreeFits(work')
  <2>1. PICK t \in {log[ResetTo(j)].tree, AfterReset(j)}, stays \in Stays(j) :
               work' = [t EXCEPT !.lock = @ \/ stays]
    BY DEF ResetBreaks
  <2> QED BY <1>2, <2>1, LockStays
<1>4. TipsFit(tips', log)
  BY <1>1, <1>2 DEF TypeInv, TipsFit
<1>5. JobsFit(jobs', log)
  BY <1>1, JobMoved DEF TypeInv, Staged
<1>6. counts' \in [asks : 0 .. MaxAsks, sessions : 1 .. MaxSessions, trouble : 0 .. MaxTrouble]
  BY <1>1, TroubleKeeps
<1> QED BY <1>1, <1>3, <1>4, <1>5, <1>6 DEF TypeInv, CountsFit

\* Where the log, the branches and the files stay.
LEMMA JobOnly ==
  ASSUME TypeInv, NEW n \in Sessions, UNCHANGED <<work, log, tips, seen, counts, story>>,
         SessionFits(session', log), JobsFit(jobs', log)
  PROVE  TypeInv'
  BY DEF TypeInv, CountsFit, TipsFit

\* Origin's branch comes to where the one here is.
LEMMA OriginMoves ==
  ASSUME TypeInv, tips' = [tips EXCEPT !.origin = tips.head]
  PROVE  TipsFit(tips', log) /\ tips'.head = tips.head /\ tips'.takes = tips.takes
         /\ tips'.origin = tips.head
<1>1. tips \in [head : 1 .. Len(log), origin : 0 .. Len(log), takes : [1 .. MaxAsks -> 0 .. Len(log)]]
  BY DEF TypeInv, TipsFit
<1>2. tips.head \in 0 .. Len(log)
  BY <1>1, SessionParts
<1> QED BY <1>1, <1>2 DEF TipsFit

\* The push that forces.
LEMMA ForcePushKeeps == ASSUME TypeInv, NEW n \in Sessions, ForcePush(n) PROVE TypeInv'
<1>1. JobsFit(jobs', log)
  <2>1. jobs' = Moved(jobs, n, "done")
    BY DEF ForcePush, Moved
  <2> QED BY <2>1, JobMoved DEF TypeInv, Staged
<1>2. TipsFit(tips', log)
  BY OriginMoves DEF ForcePush
<1> QED BY <1>1, <1>2 DEF TypeInv, CountsFit, ForcePush

\* The push, refused or not.
LEMMA GitPushKeeps == ASSUME TypeInv, NEW n \in Sessions, GitPush(n) PROVE TypeInv'
<1>1. JobsFit(jobs', log)
  <2>1. jobs' = Moved(jobs, n, "done") \/ jobs' = Moved(jobs, n, "failed")
    BY DEF GitPush, Moved
  <2>2. Staged("done", jobs[n].does) /\ Staged("failed", jobs[n].does)
    BY DEF Staged
  <2>3. CASE jobs' = Moved(jobs, n, "done")
    BY <2>2, <2>3, JobMoved DEF TypeInv
  <2>4. CASE jobs' = Moved(jobs, n, "failed")
    BY <2>2, <2>4, JobMoved DEF TypeInv
  <2> QED BY <2>1, <2>3, <2>4
<1>2. TipsFit(tips', log)
  <2>1. tips' = tips \/ tips' = [tips EXCEPT !.origin = tips.head]
    BY DEF GitPush
  <2> QED BY <2>1, OriginMoves DEF TypeInv
<1> QED BY <1>1, <1>2 DEF TypeInv, CountsFit, GitPush

\* git add . and commit, and what it leaves of the types.
LEMMA CommitAllKeeps ==
  ASSUME TypeInv, NEW t, TreeFits(t), NEW msg \in Message, CommitAll(t, msg)
  PROVE  /\ LogFits(log') /\ TipsFit(tips', log') /\ Len(log) <= Len(log')
         /\ JobsFit(jobs, log') /\ SessionFits(session, log')
         /\ \A J : JobsFit(J, log) => JobsFit(J, log')
<1>1. CASE UNCHANGED <<log, tips>>
  BY <1>1, SessionParts DEF TypeInv
<1>2. CASE CommitOn(tips.head, t, msg)
  <2>1. tips.head \in 0 .. Len(log)
    BY SessionParts DEF TypeInv, TipsFit
  <2>2. LogFits(log') /\ TipsFit(tips', log') /\ Len(log') = Len(log) + 1
    BY <1>2, <2>1, CommitMade
  <2>3. Len(log) <= Len(log')
    BY <2>2, SessionParts
  <2> QED BY <2>2, <2>3, LogGrows DEF TypeInv
<1> QED BY <1>1, <1>2 DEF CommitAll

\* The commit of all there is.
LEMMA GitCommitKeeps == ASSUME TypeInv, NEW n \in Sessions, GitCommit(n) PROVE TypeInv'
<1>1. jobs[n].msg \in Message
  BY DEF TypeInv, JobsFit, Job
<1>2. LogFits(log') /\ TipsFit(tips', log') /\ JobsFit(jobs, log') /\ SessionFits(session, log')
  BY <1>1, CommitAllKeeps, SessionParts DEF GitCommit
<1>3. JobsFit(jobs', log')
  <2>0. jobs' = Moved(jobs, n, "push")
    BY DEF GitCommit, Moved
  <2>1. JobsFit(jobs', log)
    <3>1. Staged("push", jobs[n].does)
      BY DEF GitCommit, TypeInv, JobsFit, JobFits, Staged
    <3> QED BY <2>0, <3>1, JobMoved DEF TypeInv
  <2> QED BY <1>1, <2>1, CommitAllKeeps, SessionParts DEF GitCommit
<1> QED BY <1>2, <1>3 DEF TypeInv, CountsFit, GitCommit

\* git fails.
LEMMA GitFailsKeeps == ASSUME TypeInv, NEW n \in Sessions, GitFails(n) PROVE TypeInv'
<1>1. JobsFit(jobs', log)
  <2>1. jobs' = Moved(jobs, n, "failed")
    BY DEF GitFails, Moved
  <2> QED BY <2>1, JobMoved DEF TypeInv, Staged
<1>2. counts' \in [asks : 0 .. MaxAsks, sessions : 1 .. MaxSessions, trouble : 0 .. MaxTrouble]
  BY TroubleKeeps DEF GitFails
<1> QED BY <1>1, <1>2 DEF TypeInv, CountsFit, GitFails, gitVars, TipsFit

\* The agent exits.
LEMMA AgentExitsKeeps == ASSUME TypeInv, NEW n \in Sessions, AgentExits(n) PROVE TypeInv'
<1>1. JobsFit(jobs', log)
  <2>1. jobs' = Moved(jobs, n, "done")
    BY DEF AgentExits, Moved
  <2> QED BY <2>1, JobMoved DEF TypeInv, Staged
<1> QED BY <1>1, JobOnly DEF TypeInv, AgentExits, gitVars

\* The messages of their end.
LEMMA TakenFits ==
  ASSUME TypeInv, NEW n \in Sessions, Taken(n) \/ AgentRuns(n)
  PROVE  JobsFit(jobs', log)
<1>1. JobFits(NoJob, log) /\ JobFits([NoJob EXCEPT !.at = "run", !.does = "agent"], log)
  BY SessionParts, GitJob, AgentJob, StringTypes
<1> QED BY <1>1, JobReplaced DEF TypeInv, Taken, AgentRuns

\* handleCondocGitDone.
LEMMA GitDoneKeeps == ASSUME TypeInv, NEW n \in Sessions, handleCondocGitDone(n) PROVE TypeInv'
<1>1. JobsFit(jobs', log)
  <2>1. Taken(n) \/ AgentRuns(n)
    BY Zenon DEF handleCondocGitDone
  <2> QED BY <2>1, TakenFits
<1>2. tips.head \in CommitId /\ tips.head <= Len(log) /\ tips.head \in Nat
  <2>1. tips.head \in 1 .. Len(log) /\ Len(log) \in Nat /\ Len(log) <= MaxCommits + 1
    BY SameRepoAssumption DEF TypeInv, TipsFit, LogFits, Linked
  <2> QED BY <2>1, SameRepoAssumption DEF CommitId
<1>3. {"AwaitingStep", "GitFailed", "RunningAgent"} \subseteq CondocPhase
  BY DEF CondocPhase
<1>4. SessionFits(session', log)
  <2>1. \/ session' = session
        \/ session' = [session EXCEPT !.failed = session.phase, !.phase = "GitFailed"]
        \/ session' = [session EXCEPT !.phase = "AwaitingStep"]
        \/ session' = [session EXCEPT !.phase = "AwaitingStep", !.step = 1]
        \/ session' = [session EXCEPT !.phase = "RunningAgent", !.subStart = tips.head]
        \/ session' = [session EXCEPT !.phase = "RunningAgent", !.start = tips.head]
        \/ session' = [session EXCEPT !.phase = "RunningAgent"]
        \/ session' = [session EXCEPT !.phase = session.next]
    BY DEF handleCondocGitDone
  <2>2. session' \in SessionFields
    BY <1>2, <1>3, <2>1, SessionParts, Numbers DEF SessionFields
  <2>3. /\ session'.file = session.file /\ session'.sub = session.sub
        /\ session'.step = session.step \/ session'.step \in Steps
        /\ session'.start = session.start \/ session'.start = tips.head
        /\ session'.subStart = session.subStart \/ session'.subStart = tips.head
    BY <2>1, SessionParts, Numbers DEF SessionFields
  <2> QED BY <1>2, <2>2, <2>3, SessionParts DEF SessionFits
<1> QED BY <1>1, <1>4, JobOnly DEF handleCondocGitDone, gitVars

\* HEAD cannot be read.
LEMMA StartUnreadKeeps == ASSUME TypeInv, NEW n \in Sessions, StartUnread(n) PROVE TypeInv'
<1>1. JobsFit(jobs', log)
  BY TakenFits DEF StartUnread
<1>2. SessionFits(session', log)
  <2>1. session' = [session EXCEPT !.phase = "RunningAgent"] /\ "RunningAgent" \in CondocPhase
    BY DEF StartUnread, CondocPhase
  <2>2. session' \in SessionFields
    BY <2>1, SessionParts DEF SessionFields
  <2>3. /\ session'.file = session.file /\ session'.sub = session.sub /\ session'.step = session.step
        /\ session'.start = session.start /\ session'.subStart = session.subStart
    BY <2>1, SessionParts DEF SessionFields
  <2> QED BY <2>2, <2>3, SessionParts DEF SessionFits
<1>3. counts' \in [asks : 0 .. MaxAsks, sessions : 1 .. MaxSessions, trouble : 0 .. MaxTrouble]
  BY TroubleKeeps DEF StartUnread
<1>4. story' \in SUBSET Astray
  BY DEF StartUnread, TypeInv, CountsFit, Astray
<1> QED BY <1>1, <1>2, <1>3, <1>4 DEF TypeInv, CountsFit, StartUnread, gitVars, TipsFit

\* handleCondocRetryReady.
LEMMA RetryReadyKeeps == ASSUME TypeInv, NEW n \in Sessions, handleCondocRetryReady(n) PROVE TypeInv'
<1>1. JobsFit(jobs', log)
  BY TakenFits DEF handleCondocRetryReady
<1> QED BY <1>1, JobOnly DEF handleCondocRetryReady, gitVars, TypeInv

\* handleCondocRevertDone.
LEMMA RevertDoneKeeps == ASSUME TypeInv, NEW n \in Sessions, handleCondocRevertDone(n) PROVE TypeInv'
<1>1. JobsFit(jobs', log)
  BY TakenFits DEF handleCondocRevertDone
<1>2. SessionFits(session', log)
  <2>1. CASE session.active /\ jobs[n].at = "done"
    <3> DEFINE j == jobs[n]
               b == IF j.msg.sub # 0 THEN j.target ELSE 0
    <3>1. j \in Job /\ j.target <= Len(log) /\ j.msg.step \in Steps
      BY DEF TypeInv, JobsFit, JobFits, handleCondocRevertDone, Arrives
    <3>2. j.msg.step \in 0 .. MaxSteps /\ j.msg.sub \in 0 .. MaxLetters /\ j.target \in CommitId
      BY <3>1 DEF Job, Message
    <3>3. b \in CommitId /\ b <= Len(log)
      BY <3>1, <3>2, Numbers, SessionParts
    <3>4. session' = [session EXCEPT !.step = j.msg.step, !.file = TRUE,
                            !.sub = j.msg.sub, !.subStart = b, !.phase = "AwaitingAction"]
      BY <2>1 DEF handleCondocRevertDone
    <3> HIDE DEF j, b
    <3>5. "AwaitingAction" \in CondocPhase
      BY DEF CondocPhase
    <3>6. session' \in SessionFields /\ session'.step = j.msg.step /\ session'.sub = j.msg.sub
          /\ session'.start = session.start /\ session'.subStart = b
      BY <3>2, <3>3, <3>4, <3>5, SessionParts DEF SessionFields
    <3> QED BY <3>1, <3>3, <3>6, SessionParts DEF SessionFits
  <2>2. CASE ~(session.active /\ jobs[n].at = "done")
    BY <2>2 DEF handleCondocRevertDone, TypeInv
  <2> QED BY <2>1, <2>2
<1> QED BY <1>1, <1>2, JobOnly DEF handleCondocRevertDone, gitVars

\* handleCondocAgentDone.
LEMMA AgentDoneKeeps == ASSUME TypeInv, NEW n \in Sessions, handleCondocAgentDone(n) PROVE TypeInv'
<1>0. session.file /\ session.step \in Steps /\ DocFits(activeDoc) /\ session.letter \in 0 .. MaxLetters
      /\ TreeFits(work)
  BY SessionParts, CondocDocsAssumption DEF handleCondocAgentDone
<1> DEFINE d == Replied
           e == addNextRevisionTemplate(d, session.letter)
           gone == About("completed", session.step, 0)
           said == About("replied", session.step, session.sub)
           jc == [NoJob EXCEPT !.at = "commit", !.msg = gone]
           jr == [NoJob EXCEPT !.at = "commit", !.msg = said]
<1>1. DocFits(d)
  BY <1>0, Answered DEF Replied
<1>2. DocFits(e)
  <2> HIDE DEF d
  <2> QED BY <1>0, <1>1, Templated
<1>3. gone \in Message /\ said \in Message
  <2>1. "completed" \in CommitKind /\ "replied" \in CommitKind
    BY DEF CommitKind
  <2> QED BY <2>1, StringTypes, SessionParts, Numbers
<1>4. JobFits(jc, log) /\ JobFits(jr, log)
  <2> HIDE DEF gone, said
  <2> QED BY <1>3, GitJob, SessionParts
<1>5. \A t : TreeFits(t) => TreeFits(Unlocked(t)) /\ Unlocked(t).main = t.main
  BY LockReplaced DEF Unlocked
<1>6. CASE MainSays("force")
  <2> DEFINE u == ForceCompleted(WithActive(work, d))
             v == Unlocked(u)
             m == finalizeMainFile(v.main)
  <2>1. TreeFits(v)
    <3> HIDE DEF d
    <3>1. TreeFits(WithActive(work, d))
      BY <1>0, <1>1, ActiveReplaced
    <3>2. TreeFits(u)
      BY <3>1, ForceCompletedFits
    <3> HIDE DEF u
    <3> QED BY <1>5, <3>2
  <2>2. work' = [v EXCEPT !.main = m]
    BY <1>6 DEF handleCondocAgentDone
  <2> HIDE DEF v
  <2>3. m \in Main /\ m.filled /\ RevertFits(m.revert)
    BY <2>1, MainParts, MainFinalized
  <2> HIDE DEF m
  <2>4. TreeFits(work')
    BY <2>1, <2>2, <2>3, MainReplaced
  <2>5. session' = [session EXCEPT !.active = FALSE, !.last = gone] /\ jobs' = [jobs EXCEPT ![n] = jc]
    BY <1>6 DEF handleCondocAgentDone
  <2> HIDE DEF gone, jc
  <2>6. session' \in SessionFields /\ session'.file = session.file /\ session'.step = session.step
        /\ session'.sub = session.sub /\ session'.start = session.start
        /\ session'.subStart = session.subStart
    BY <1>3, <2>5, SessionParts DEF SessionFields
  <2>7. SessionFits(session', log)
    BY <2>6, SessionParts DEF SessionFits
  <2>8. JobsFit(jobs', log)
    BY <1>4, <2>5, JobReplaced DEF TypeInv
  <2> QED BY <2>4, <2>7, <2>8 DEF TypeInv, CountsFit, handleCondocAgentDone, TipsFit
<1>7. CASE ~MainSays("force")
  <2>1. work' = Unlocked(WithActive(work, e))
    BY <1>7 DEF handleCondocAgentDone
  <2> HIDE DEF e
  <2>4. TreeFits(work')
    BY <1>0, <1>2, <1>5, <2>1, ActiveReplaced
  <2>5. session' = [session EXCEPT !.phase = "Committing", !.next = "AwaitingAction", !.last = said]
        /\ jobs' = [jobs EXCEPT ![n] = jr]
    BY <1>7 DEF handleCondocAgentDone
  <2> HIDE DEF said, jr
  <2>9. "Committing" \in CondocPhase /\ "AwaitingAction" \in CondocPhase
    BY DEF CondocPhase
  <2>6. session' \in SessionFields /\ session'.file = session.file /\ session'.step = session.step
        /\ session'.sub = session.sub /\ session'.start = session.start
        /\ session'.subStart = session.subStart
    BY <1>3, <2>5, <2>9, SessionParts DEF SessionFields
  <2>7. SessionFits(session', log)
    BY <2>6, SessionParts DEF SessionFits
  <2>8. JobsFit(jobs', log)
    BY <1>4, <2>5, JobReplaced DEF TypeInv
  <2> QED BY <2>4, <2>7, <2>8 DEF TypeInv, CountsFit, handleCondocAgentDone, TipsFit
<1> QED BY <1>6, <1>7

\* Condoc mode left, and entered again.
LEMMA ExitKeeps == ASSUME TypeInv, exitCondoc PROVE TypeInv'
<1>1. session' \in SessionFields /\ session'.file = session.file /\ session'.step = session.step
        /\ session'.sub = session.sub /\ session'.start = session.start
        /\ session'.subStart = session.subStart
  BY SessionParts DEF exitCondoc, SessionFields
<1>2. SessionFits(session', log)
  BY <1>1, SessionParts DEF SessionFits
<1> QED BY <1>2 DEF TypeInv, exitCondoc, gitVars, CountsFit, TipsFit

\* A session as it begins.
LEMMA NewSessionFits ==
  /\ NewSession \in SessionFields /\ NewSession.step = 0 /\ ~NewSession.file /\ NewSession.sub = 0
  /\ NewSession.start = 0 /\ NewSession.subStart = 0 /\ NewSession.active
  /\ NewSession.phase = "Proposed" /\ NewSession.next = "AwaitingAction"
  /\ NewSession.last = NoMsg /\ NewSession.failed = "Committing"
<1>1. {"Proposed", "AwaitingAction", "Committing"} \subseteq CondocPhase /\ 0 \in Nat
  BY DEF CondocPhase
<1> QED BY <1>1, Numbers, StringTypes DEF NewSession, SessionFields

\* Condoc mode entered again.
LEMMA LoadKeeps == ASSUME TypeInv, loadCondocSession PROVE TypeInv'
<1> DEFINE n == work.main.step
           d == work.stepDoc[n]
           sub == IF d.substep # 0 /\ Named(work.subDoc[n][d.substep], "Completed") = {}
                  THEN d.substep ELSE 0
           to == LatestStart(n, 0)
<1>1. SessionFits(session', log)
  <2>0. n \in 0 .. MaxSteps /\ (n # 0 => n \in Steps)
    BY SessionParts, MainParts, Numbers
  <2>00. {"AwaitingStep", "AwaitingAction"} \subseteq CondocPhase
    BY DEF CondocPhase
  <2>1. CASE n = 0
    <3>1. session' = NewSession
      BY <2>1 DEF loadCondocSession
    <3> QED BY <3>1, NewSessionFits, SessionParts DEF SessionFits
  <2>2. CASE n # 0 /\ ~work.main.filled
    <3> DEFINE s == [NewSession EXCEPT !.phase = "AwaitingStep", !.step = n]
    <3>1. session' = s
      BY <2>2 DEF loadCondocSession
    <3>2. s \in SessionFields /\ s.step = n /\ ~s.file /\ s.sub = 0 /\ s.start = 0 /\ s.subStart = 0
      BY <2>0, <2>00, NewSessionFits DEF SessionFields
    <3> HIDE DEF s
    <3> QED BY <3>1, <3>2, SessionParts DEF SessionFits
  <2>3. CASE n # 0 /\ work.main.filled
    <3> DEFINE s == [NewSession EXCEPT !.phase = "AwaitingAction", !.step = n,
                                   !.file = TRUE, !.sub = sub, !.start = to]
    <3>1. session' = s
      BY <2>3 DEF loadCondocSession
    <3>2. sub \in 0 .. MaxLetters
      <4>1. DocFits(d)
        BY <2>0, <2>3, SessionParts DEF TreeFits
      <4> HIDE DEF d
      <4> QED BY <4>1, DocParts, Numbers
    <3>3. to \in CommitId /\ to <= Len(log)
      BY LatestStartIs, SessionParts
    <3> HIDE DEF sub, to
    <3>4. s \in SessionFields /\ s.step = n /\ s.start = to /\ s.subStart = 0
      BY <2>0, <2>00, <3>2, <3>3, NewSessionFits DEF SessionFields
    <3> HIDE DEF s
    <3> QED BY <2>0, <2>3, <3>1, <3>3, <3>4, SessionParts DEF SessionFits
  <2> QED BY <2>1, <2>2, <2>3
<1>2. counts' \in [asks : 0 .. MaxAsks, sessions : 1 .. MaxSessions, trouble : 0 .. MaxTrouble]
  <2>1. counts \in [asks : 0 .. MaxAsks, sessions : 1 .. MaxSessions, trouble : 0 .. MaxTrouble]
    BY DEF TypeInv, CountsFit
  <2>2. counts.sessions + 1 \in 1 .. MaxSessions
    BY <2>1, SameRepoAssumption DEF loadCondocSession
  <2> QED BY <2>1, <2>2 DEF loadCondocSession
<1>3. story' \in SUBSET Astray
  BY DEF loadCondocSession, TypeInv, CountsFit
<1> QED BY <1>1, <1>2, <1>3 DEF TypeInv, loadCondocSession, gitVars, CountsFit, TipsFit

\* What condoccer sees.
LEMMA PhaseSeen ==
  ASSUME NEW t, TreeFits(t)
  PROVE  LET v == detectPhase(t) IN
         /\ v.phase \in {"proposed", "awaiting_step", "agent_running", "awaiting_action", "completed"}
         /\ v.sub \in 0 .. MaxLetters
         /\ (v.phase = "awaiting_action" \/ v.sub # 0) => t.main.step \in Steps
<1> DEFINE w == DetectStep(t, t.main.step)
           v == detectFilePhase(t)
           S == {"proposed", "awaiting_step", "agent_running", "awaiting_action", "completed"}
<1>0. t.main.step \in 0 .. MaxSteps /\ t.main.completed \in BOOLEAN /\ t.main.filled \in BOOLEAN
  BY MainParts
<1>1. t.main.step \in Steps => w.phase \in S /\ w.sub \in 0 .. MaxLetters
  <2> SUFFICES ASSUME t.main.step \in Steps PROVE w.phase \in S /\ w.sub \in 0 .. MaxLetters
    OBVIOUS
  <2> DEFINE d == t.stepDoc[t.main.step]
  <2>1. d.substep \in 0 .. MaxLetters /\ d.exists \in BOOLEAN /\ d.prompt \in BOOLEAN
    BY DocParts DEF TreeFits
  <2> QED BY <2>1, Numbers DEF DetectStep, View
<1>2. /\ v.phase \in S /\ v.sub \in 0 .. MaxLetters
      /\ (v.phase = "awaiting_action" \/ v.sub # 0) => t.main.step \in Steps
  <2> HIDE DEF w
  <2>1. CASE t.main.completed \/ t.main.step = 0 \/ ~t.main.filled
    <3>1. v \in {View("completed", 0), View("proposed", 0), View("awaiting_step", 0)}
      BY <1>0, <2>1 DEF detectFilePhase
    <3> QED BY <3>1, Numbers DEF View
  <2>2. CASE ~(t.main.completed \/ t.main.step = 0 \/ ~t.main.filled)
    <3>1. v = w /\ t.main.step \in Steps
      BY <1>0, <2>2, Numbers DEF detectFilePhase, w
    <3> QED BY <1>1, <3>1
  <2> QED BY <2>1, <2>2
<1>3. detectPhase(t) = IF v.phase # "completed" /\ "force" \in t.main.directives
                       THEN [v EXCEPT !.phase = "agent_running", !.resumed = FALSE] ELSE v
  BY DEF detectPhase
<1>4. v = [phase |-> v.phase, sub |-> v.sub, resumed |-> v.resumed]
  BY DEF detectFilePhase, DetectStep, View
<1> HIDE DEF v
<1>5. \/ detectPhase(t) = v
      \/ detectPhase(t).phase = "agent_running" /\ detectPhase(t).sub = v.sub
  BY <1>3, <1>4
<1> DEFINE x == detectPhase(t)
<1> HIDE DEF x
<1>6. CASE x = v
  BY <1>2, <1>6 DEF x
<1>7. CASE x.phase = "agent_running" /\ x.sub = v.sub
  <2>1. x.phase \in S /\ x.phase # "awaiting_action"
    BY <1>7
  <2> QED BY <1>2, <1>7, <2>1 DEF x
<1> QED BY <1>5, <1>6, <1>7 DEF x

\* The end of a pass.
LEMMA PassEnded ==
  ASSUME TypeInv, PassEnds
  PROVE  seen' \in Seen /\ seen'.at = "idle" /\ ~seen'.on
<1>1. seen \in Seen /\ 0 \in CommitId
  BY SameRepoAssumption DEF TypeInv, CountsFit, CommitId
<1> QED BY <1>1 DEF PassEnds, Seen

\* condoccer looks.
LEMMA LookKeeps == ASSUME TypeInv, updateCondocLock PROVE TypeInv'
<1>1. seen' \in Seen
  <2> DEFINE v == detectPhase(work)
  <2>1. v.phase \in {"proposed", "awaiting_step", "agent_running", "awaiting_action", "completed"}
    BY SessionParts, PhaseSeen
  <2> HIDE DEF v
  <2>2. \E at \in {"idle", "change"}, on \in BOOLEAN :
            seen' = [seen EXCEPT !.phase = v.phase, !.on = on, !.at = at]
    BY DEF updateCondocLock, Safe, v
  <2>3. seen \in Seen
    BY DEF TypeInv, CountsFit
  <2> QED BY <2>1, <2>2, <2>3 DEF Seen
<1> QED BY <1>1 DEF TypeInv, updateCondocLock, gitVars, CountsFit, TipsFit

\* It writes the lock, or takes it away.
LEMMA ChangeKeeps == ASSUME TypeInv, changeCondocLock PROVE TypeInv'
<1>0. seen \in Seen
  BY DEF TypeInv, CountsFit
<1>1. TreeFits(work')
  <2>1. work' = [work EXCEPT !.lock = seen.on] /\ seen.on \in BOOLEAN
    BY <1>0 DEF changeCondocLock, Seen
  <2> QED BY <2>1, SessionParts, LockReplaced
<1>2. seen' \in Seen
  <2>1. tips.head \in CommitId /\ 0 \in CommitId
    <3>1. tips.head \in 1 .. Len(log) /\ Len(log) \in Nat /\ Len(log) <= MaxCommits + 1
      BY SameRepoAssumption DEF TypeInv, TipsFit, LogFits, Linked
    <3> QED BY <3>1, SameRepoAssumption DEF CommitId
  <2>2. \/ PassEnds
        \/ \E h \in CommitId : seen' = [seen EXCEPT !.at = "commit", !.head = h]
    BY <2>1 DEF changeCondocLock
  <2> QED BY <1>0, <2>2, PassEnded DEF Seen
<1>3. story' \in SUBSET Astray
  BY DEF changeCondocLock, TypeInv, CountsFit, Astray
<1> QED BY <1>1, <1>2, <1>3 DEF TypeInv, changeCondocLock, CountsFit, TipsFit

\* It commits what .condoc is by then.
LEMMA CommitLockKeeps == ASSUME TypeInv, commitCondocLock PROVE TypeInv'
<1>1. seen' \in Seen /\ UNCHANGED <<session, jobs, work, counts, story>>
  BY PassEnded DEF commitCondocLock
<1>2. CASE UNCHANGED <<log, tips>>
  BY <1>1, <1>2 DEF TypeInv, CountsFit, TipsFit
<1>3. CASE CommitOn(tips.head, [HeadTree EXCEPT !.lock = work.lock], About("lock", 0, 0))
  <2>1. TreeFits(HeadTree)
    BY DEF TypeInv, LogFits, TipsFit, HeadTree
  <2> DEFINE t == [HeadTree EXCEPT !.lock = work.lock]
             msg == About("lock", 0, 0)
  <2>2. TreeFits(t)
    <3>1. work.lock \in BOOLEAN
      BY DEF TypeInv, TreeFits, Tree
    <3> QED BY <2>1, <3>1, LockReplaced
  <2>3. msg \in Message
    <3>1. "lock" \in CommitKind
      BY DEF CommitKind
    <3> QED BY <3>1, StringTypes, Numbers
  <2> HIDE DEF t, msg
  <2>4. tips.head \in 0 .. Len(log) /\ CommitOn(tips.head, t, msg)
    BY <1>3, SessionParts DEF TypeInv, TipsFit, t, msg
  <2>5. LogFits(log') /\ TipsFit(tips', log') /\ Len(log') = Len(log) + 1
    BY <2>2, <2>3, <2>4, CommitMade
  <2>6. Len(log) <= Len(log')
    BY <2>5, SessionParts
  <2>7. JobsFit(jobs, log') /\ SessionFits(session, log')
    BY <2>5, <2>6, LogGrows DEF TypeInv
  <2> QED BY <1>1, <2>5, <2>7 DEF TypeInv, CountsFit
<1> QED BY <1>2, <1>3 DEF commitCondocLock

\* A pass of condoccer.
LEMMA LockKeeps == ASSUME TypeInv, LockPass PROVE TypeInv'
<1>1. CASE LockGivenUp
  <2>1. seen' \in Seen
    BY <1>1, PassEnded DEF LockGivenUp
  <2>2. counts' \in [asks : 0 .. MaxAsks, sessions : 1 .. MaxSessions, trouble : 0 .. MaxTrouble]
    BY <1>1, TroubleKeeps DEF LockGivenUp
  <2> QED BY <1>1, <2>1, <2>2 DEF LockGivenUp, TypeInv, CountsFit, gitVars, TipsFit
<1> QED BY <1>1, LookKeeps, ChangeKeeps, CommitLockKeeps DEF LockPass

\* What the human asks for.
LEMMA AskKeeps ==
  ASSUME TypeInv, Asks, UNCHANGED <<session, jobs, log, tips, seen, story>>, TreeFits(work')
  PROVE  TypeInv'
<1>1. counts' \in [asks : 0 .. MaxAsks, sessions : 1 .. MaxSessions, trouble : 0 .. MaxTrouble]
  <2>1. counts \in [asks : 0 .. MaxAsks, sessions : 1 .. MaxSessions, trouble : 0 .. MaxTrouble]
    BY DEF TypeInv, CountsFit
  <2>2. counts.asks + 1 \in 0 .. MaxAsks
    BY <2>1, SameRepoAssumption DEF Asks
  <2> QED BY <2>1, <2>2 DEF Asks
<1> QED BY <1>1 DEF TypeInv, CountsFit, TipsFit

\* A directive in the main file.
LEMMA MainAsked ==
  ASSUME TypeInv, NEW d \in Directive, work' = [work EXCEPT !.main.directives = @ \cup {d}]
  PROVE  /\ TreeFits(work') /\ work'.lock = work.lock /\ work'.stepDoc = work.stepDoc
         /\ work'.subDoc = work.subDoc
         /\ work'.main.step = work.main.step /\ work'.main.filled = work.main.filled
         /\ work'.main.completed = work.main.completed
         /\ work'.main.directives = work.main.directives \cup {d}
         /\ work'.main.revert = work.main.revert
<1> DEFINE w == work.main.directives \cup {d}
           m == [work.main EXCEPT !.directives = w]
<1>1. work.main \in Main /\ w \in SUBSET Directive /\ RevertFits(work.main.revert)
      /\ (~work.main.filled => work.main.step >= 1)
  BY SessionParts, MainParts
<1>2. work' = [work EXCEPT !.main = m]
  OBVIOUS
<1> HIDE DEF w
<1>3. /\ m \in Main /\ m.step = work.main.step /\ m.filled = work.main.filled
      /\ m.completed = work.main.completed /\ m.directives = w /\ m.revert = work.main.revert
  BY <1>1, MainDirected
<1> HIDE DEF m
<1>4. LET u == [work EXCEPT !.main = m] IN
         /\ TreeFits(u) /\ u.main = m /\ u.lock = work.lock
         /\ u.stepDoc = work.stepDoc /\ u.subDoc = work.subDoc
  BY <1>1, <1>3, SessionParts, MainReplaced
<1> QED BY <1>2, <1>3, <1>4 DEF w

\* The file that condoccer takes to be active.
LEMMA ShownIs ==
  ASSUME TypeInv, detectPhase(work).phase = "awaiting_action"
  PROVE  /\ Shown = FileOf(work, work.main.step, detectPhase(work).sub) /\ DocFits(Shown)
         /\ work.main.step \in Steps /\ detectPhase(work).sub \in 0 .. MaxLetters
<1>1. work.main.step \in Steps /\ detectPhase(work).sub \in 0 .. MaxLetters
  BY SessionParts, PhaseSeen
<1>2. Shown = FileOf(work, work.main.step, detectPhase(work).sub)
  BY DEF Shown
<1> QED BY <1>1, <1>2, SessionParts, FileFits

\* That file replaced.
LEMMA ShownKeeps ==
  ASSUME TypeInv, NEW d, ShownDoc(d), DocFits(d)
  PROVE  /\ TreeFits(work') /\ work'.main = work.main /\ work'.lock = work.lock
         /\ \A x \in Steps, y \in 0 .. MaxLetters :
                FileOf(work', x, y) = IF x = work.main.step /\ y = detectPhase(work).sub THEN d
                                      ELSE FileOf(work, x, y)
<1>1. work.main.step \in Steps /\ detectPhase(work).sub \in 0 .. MaxLetters
  BY ShownIs DEF ShownDoc
<1>2. work' = WithFile(work, work.main.step, detectPhase(work).sub, d)
  BY DEF ShownDoc
<1> DEFINE n == work.main.step
           l == detectPhase(work).sub
<1> HIDE DEF n, l
<1>3. n \in Steps /\ l \in 0 .. MaxLetters /\ work' = WithFile(work, n, l, d)
  BY <1>1, <1>2 DEF n, l
<1>4. /\ TreeFits(work') /\ work'.main = work.main /\ work'.lock = work.lock
      /\ \A x \in Steps, y \in 0 .. MaxLetters :
                FileOf(work', x, y) = IF x = n /\ y = l THEN d ELSE FileOf(work, x, y)
  BY <1>3, SessionParts, FileReplaced
<1> QED BY <1>4 DEF n, l

\* The proposal accepted, a step started, or the condoc completed.
LEMMA AskOfMainKeeps == ASSUME TypeInv, AskOfMain PROVE TypeInv'
<1>1. PICK d \in {"handoff", "completed"} : work' = [work EXCEPT !.main.directives = @ \cup {d}]
  BY DEF AskOfMain
<1>2. TreeFits(work')
  BY <1>1, MainAsked DEF Directive
<1> QED BY <1>2, AskKeeps DEF AskOfMain, OthersRest

\* A force complete asked for.
LEMMA AskToForceKeeps == ASSUME TypeInv, AskToForce PROVE TypeInv'
<1>1. work' = [work EXCEPT !.main.directives = @ \cup {"force"}] /\ "force" \in Directive
  BY DEF AskToForce, Directive
<1>2. TreeFits(work')
  BY <1>1, MainAsked
<1> QED BY <1>2, AskKeeps DEF AskToForce, OthersRest

\* The file shown, directed or with its template filled.
LEMMA ShownDirected ==
  ASSUME TypeInv, NEW w \in Directive, ShownDoc([Shown EXCEPT !.directives = @ \cup {w}])
  PROVE  LET d == [Shown EXCEPT !.directives = @ \cup {w}] IN
         /\ DocFits(d) /\ d.sections = Shown.sections /\ d.exists = Shown.exists
         /\ d.prompt = Shown.prompt /\ d.substep = Shown.substep /\ d.revert = Shown.revert
<1> DEFINE x == Shown.directives \cup {w}
           d == [Shown EXCEPT !.directives = x]
<1>1. DocFits(Shown)
  BY ShownIs DEF ShownDoc
<1>2. x \in SUBSET Directive
  BY <1>1, DocParts
<1> HIDE DEF x
<1>3. /\ DocFits(d) /\ d.sections = Shown.sections /\ d.exists = Shown.exists
      /\ d.prompt = Shown.prompt /\ d.substep = Shown.substep /\ d.revert = Shown.revert
  BY <1>1, <1>2, Directed
<1> QED BY <1>3 DEF x

\* A step or a substep completed.
LEMMA AskToCompleteKeeps == ASSUME TypeInv, AskToComplete PROVE TypeInv'
<1> DEFINE d == [Shown EXCEPT !.directives = @ \cup {"completed"}]
<1>1. ShownDoc(d)
  BY DEF AskToComplete
<1>2. DocFits(d)
  BY <1>1, ShownDirected DEF Directive
<1> HIDE DEF d
<1>3. TreeFits(work')
  BY <1>1, <1>2, ShownKeeps
<1> QED BY <1>3, AskKeeps DEF AskToComplete, OthersRest

\* A filled template.
LEMMA FilledIs ==
  ASSUME TypeInv, NEW h \in {"Revision", "Retry", "Substep"}, NEW f \in {Previous, Start}, Fill(h, f)
  PROVE  \E i, d :
            /\ i \in Named(Shown, "Template") /\ i = LastOf(Named(Shown, "Template"))
            /\ Shown.sections[i].letter \in Letters
            /\ ShownDoc(d) /\ DocFits(d) /\ d.exists = Shown.exists /\ d.prompt = Shown.prompt
            /\ d.substep = Shown.substep /\ "handoff" \in d.directives
            /\ d.sections = [Shown.sections EXCEPT ![i] =
                                [heading(h, Shown.sections[i].letter) EXCEPT !.from = f]]
<1> DEFINE i == LastOf(Named(Shown, "Template"))
           l == Shown.sections[i].letter
           s == [heading(h, l) EXCEPT !.from = f]
           q == [Shown.sections EXCEPT ![i] = s]
           w == Shown.directives \cup {"handoff"}
           d == [Shown EXCEPT !.sections = q, !.directives = w]
<1>0. Named(Shown, "Template") # {} /\ ShownDoc([Shown EXCEPT !.sections[i] = s,
                                     !.directives = @ \cup {"handoff"}]) /\ l <= MaxLetters
  BY DEF Fill
<1>1. DocFits(Shown)
  BY <1>0, ShownIs DEF ShownDoc
<1>2. i \in Named(Shown, "Template") /\ i \in 1 .. Len(Shown.sections)
  BY <1>0, <1>1, NamedIs
<1>3. Shown.sections[i] \in Section /\ SectionTyped(Shown.sections[i])
      /\ Shown.sections[i].head = "Template"
  BY <1>1, <1>2, NamedIs
<1>4. l \in Letters
  BY <1>0, <1>3 DEF Section, SectionTyped, Letters
<1>5. s \in Sections
  BY <1>4, HeadingFits
<1>6. ShownDoc(d)
  BY <1>0
<1> HIDE DEF s
<1>7. q \in Seq(Sections)
  <2> DEFINE Q == Shown.sections
  <2>1. Q \in Seq(Sections)
    BY <1>1, DocParts
  <2>0. i \in 1 .. Len(Q)
    BY <1>2 DEF Q
  <2> HIDE DEF Q, i
  <2>2. [Q EXCEPT ![i] = s] \in Seq(Sections)
    BY <1>5, <2>0, <2>1, ExceptSeq
  <2> QED BY <2>2 DEF Q, i
<1>8. w \in SUBSET Directive /\ "handoff" \in w
  BY <1>1, DocParts DEF Directive
<1> HIDE DEF q, w
<1>9. Shown \in Doc /\ RevertFits(Shown.revert) /\ q \in Seq(Section)
  <2>1. Sections \subseteq Section
    BY DEF Sections
  <2> QED BY <1>1, <1>7, <2>1 DEF DocFits
<1>10. d \in Doc /\ d.exists = Shown.exists /\ d.prompt = Shown.prompt
       /\ d.substep = Shown.substep /\ d.sections = q /\ d.revert = Shown.revert
       /\ d.directives = w
  BY <1>8, <1>9 DEF Doc
<1> HIDE DEF d
<1>11. DocFits(d)
  BY <1>7, <1>9, <1>10 DEF DocFits
<1> HIDE DEF i
<1>12. /\ i = LastOf(Named(Shown, "Template"))
       /\ Shown.sections[i].letter \in Letters
       /\ ShownDoc(d) /\ DocFits(d) /\ d.exists = Shown.exists /\ d.prompt = Shown.prompt
       /\ d.substep = Shown.substep /\ "handoff" \in d.directives
       /\ d.sections = [Shown.sections EXCEPT ![i] =
                           [heading(h, Shown.sections[i].letter) EXCEPT !.from = f]]
  BY <1>4, <1>6, <1>8, <1>10, <1>11 DEF i, q, s
<1> QED BY <1>2, <1>12

\* A revision, a retry or a substep asked for.
LEMMA AskForIterationKeeps == ASSUME TypeInv, AskForIteration PROVE TypeInv'
<1>1. PICK h \in {"Revision", "Retry", "Substep"}, f \in {Previous, Start} : Fill(h, f)
  BY DEF AskForIteration
<1>2. PICK d : ShownDoc(d) /\ DocFits(d)
  BY <1>1, FilledIs
<1>3. TreeFits(work')
  BY <1>2, ShownKeeps
<1> QED BY <1>3, AskKeeps DEF AskForIteration, OthersRest

\* What a revert offered to the human names.
LEMMA OfferedFits ==
  ASSUME TypeInv, NEW r \in Offered(detectPhase(work), work.main.step)
  PROVE  r \in Revert /\ RevertFits(r)
<1> DEFINE n == work.main.step
           v == detectPhase(work)
<1>0. n \in 0 .. MaxSteps /\ v.sub \in 0 .. MaxLetters /\ (v.phase = "awaiting_action" => n \in Steps)
  BY SessionParts, MainParts, PhaseSeen
<1>1. ASSUME NEW d, DocFits(d), NEW H \in SUBSET {"Revision", "Retry", "Substep"}, NEW l \in Begun(d, H)
      PROVE  l \in 0 .. MaxLetters
  <2>1. CASE l = 0
    BY <2>1, Numbers
  <2>2. CASE l # 0
    <3>1. PICK i \in DOMAIN d.sections : l = d.sections[i].letter /\ d.sections[i].head \in H
      BY <1>1, <2>2 DEF Begun
    <3>2. SectionTyped(d.sections[i])
      BY <1>1, <3>1, DocParts
    <3>3. l \in Letters
      BY <3>1, <3>2 DEF SectionTyped
    <3> QED BY <3>3, Numbers
  <2> QED BY <2>1, <2>2
<1>2. CASE \E s \in 1 .. n - 1, l \in 0 .. MaxLetters : r = [step |-> s, iter |-> l, sub |-> 0]
  <2>1. PICK s \in 1 .. n - 1, l \in 0 .. MaxLetters : r = [step |-> s, iter |-> l, sub |-> 0]
    BY <1>2
  <2>2. s \in Steps
    BY <1>0, CondocDocsAssumption DEF Steps
  <2> QED BY <2>1, <2>2, Numbers DEF Revert, RevertFits
<1>3. CASE v.phase = "awaiting_action" /\ v.sub # 0
           /\ \E l \in Begun(work.subDoc[n][v.sub], {"Revision", "Retry"}) :
                   r = [step |-> n, iter |-> v.sub, sub |-> l]
  <2>1. PICK l \in Begun(work.subDoc[n][v.sub], {"Revision", "Retry"}) :
                   r = [step |-> n, iter |-> v.sub, sub |-> l]
    BY <1>3
  <2>2. DocFits(work.subDoc[n][v.sub])
    <3>1. v.sub \in Letters
      BY <1>0, <1>3, CondocDocsAssumption DEF Letters
    <3> QED BY <1>0, <1>3, <3>1, SessionParts DEF TreeFits
  <2>3. l \in 0 .. MaxLetters
    BY <1>1, <2>2
  <2> HIDE DEF n, v
  <2> QED BY <1>0, <1>3, <2>1, <2>3, Numbers DEF Revert, RevertFits
<1>4. CASE v.phase = "awaiting_action" /\ v.sub = 0
           /\ \E l \in Begun(work.stepDoc[n], {"Revision", "Retry", "Substep"}) :
                   r = [step |-> n, iter |-> l, sub |-> 0]
  <2>1. PICK l \in Begun(work.stepDoc[n], {"Revision", "Retry", "Substep"}) :
                   r = [step |-> n, iter |-> l, sub |-> 0]
    BY <1>4
  <2>2. DocFits(work.stepDoc[n])
    BY <1>0, <1>4, SessionParts DEF TreeFits
  <2>3. l \in 0 .. MaxLetters
    BY <1>1, <2>2
  <2> HIDE DEF n, v
  <2> QED BY <1>0, <1>4, <2>1, <2>3, Numbers DEF Revert, RevertFits
<1>5. {"Revision", "Retry"} \cup {"Substep"} = {"Revision", "Retry", "Substep"}
  OBVIOUS
<1> HIDE DEF v, n
<1>6. r \in Offered(v, n)
  BY DEF v, n
<1> QED BY <1>2, <1>3, <1>4, <1>5, <1>6 DEF Offered

\* A revert asked for.
LEMMA AskToRevertKeeps == ASSUME TypeInv, AskToRevert PROVE TypeInv'
<1>1. PICK r \in Offered(detectPhase(work), work.main.step) :
           IF detectPhase(work).phase = "awaiting_action" THEN ShownDoc([Shown EXCEPT !.revert = r])
           ELSE work' = [work EXCEPT !.main.revert = r]
  BY DEF AskToRevert
<1>2. r \in Revert /\ RevertFits(r)
  BY OfferedFits
<1>3. TreeFits(work')
  <2>1. CASE detectPhase(work).phase = "awaiting_action"
    <3> DEFINE d == [Shown EXCEPT !.revert = r]
    <3>1. ShownDoc(d) /\ DocFits(Shown)
      BY <1>1, <2>1, ShownIs
    <3>2. DocFits(d)
      BY <1>2, <3>1, Reverting
    <3> HIDE DEF d
    <3> QED BY <3>1, <3>2, ShownKeeps
  <2>2. CASE detectPhase(work).phase # "awaiting_action"
    <3> DEFINE m == [work.main EXCEPT !.revert = r]
    <3>1. work' = [work EXCEPT !.main = m]
      BY <1>1, <2>2
    <3>2. m \in Main /\ RevertFits(m.revert) /\ (~m.filled => m.step >= 1)
      BY <1>2, SessionParts, MainParts, MainReverting
    <3> HIDE DEF m
    <3> QED BY <3>1, <3>2, SessionParts, MainReplaced
  <2> QED BY <2>1, <2>2
<1> QED BY <1>3, AskKeeps DEF AskToRevert, OthersRest

\* What there is committed and handed off again.
LEMMA ResubmitKeeps == ASSUME TypeInv, Resubmit PROVE TypeInv'
<1> DEFINE n == work.main.step
           sub == detectPhase(work).sub
           d == FileOf(work, n, sub)
           w == d.directives \cup {"handoff"}
           e == [d EXCEPT !.directives = w]
           msg == About("recovery", 0, 0)
<1>1. n \in Steps /\ sub \in 0 .. MaxLetters
  BY SessionParts, MainParts, PhaseSeen, Numbers DEF Resubmit
<1>2. DocFits(d)
  BY <1>1, SessionParts, FileFits
<1>3. work' = WithFile(work, n, sub, e)
  BY DEF Resubmit
<1>4. w \in SUBSET Directive
  BY <1>2, DocParts DEF Directive
<1> HIDE DEF d, w
<1>5. DocFits(e)
  BY <1>2, <1>4, Directed
<1> HIDE DEF e, n, sub
<1>6. TreeFits(work')
  BY <1>1, <1>3, <1>5, SessionParts, FileReplaced
<1>7. msg \in Message /\ CommitAll(work, msg)
  <2>1. "recovery" \in CommitKind
    BY DEF CommitKind
  <2> QED BY <2>1, StringTypes, Numbers DEF Resubmit
<1> HIDE DEF msg
<1>8. LogFits(log') /\ TipsFit(tips', log') /\ JobsFit(jobs, log') /\ SessionFits(session, log')
  BY <1>7, SessionParts, CommitAllKeeps
<1>9. counts' \in [asks : 0 .. MaxAsks, sessions : 1 .. MaxSessions, trouble : 0 .. MaxTrouble]
  <2>1. counts \in [asks : 0 .. MaxAsks, sessions : 1 .. MaxSessions, trouble : 0 .. MaxTrouble]
    BY DEF TypeInv, CountsFit
  <2>2. counts.asks + 1 \in 0 .. MaxAsks
    BY <2>1, SameRepoAssumption DEF Resubmit, Asks
  <2> QED BY <2>1, <2>2 DEF Resubmit, Asks
<1> QED BY <1>6, <1>8, <1>9 DEF TypeInv, Resubmit, CountsFit

\* Every step keeps the types.
LEMMA TypesKept == ASSUME TypeInv, SameRepoNext PROVE TypeInv'
<1>1. CASE HandlerTick
  BY <1>1, AcceptKeeps, StartStepKeeps, CompleteCondocKeeps, ForceCompleteKeeps, RetryGitKeeps,
     CompleteSubstepKeeps, CompleteStepKeeps, RunRevisionKeeps, StartSubstepKeeps, RunRetryKeeps,
     RevertKeeps DEF HandlerTick
<1>2. CASE \E n \in Sessions : JobStep(n) \/ GitFails(n) \/ ResetBreaks(n) \/ StartUnread(n)
  BY <1>2, PushTakeKeeps, ResetKeeps, ForcePushKeeps, GitCommitKeeps, GitPushKeeps, AgentExitsKeeps,
     GitDoneKeeps, RetryReadyKeeps, RevertDoneKeeps, AgentDoneKeeps, GitFailsKeeps, ResetBreaksKeeps,
     StartUnreadKeeps DEF JobStep
<1>3. CASE exitCondoc \/ loadCondocSession \/ LockPass
  BY <1>3, ExitKeeps, LoadKeeps, LockKeeps
<1>4. CASE HumanAsks
  BY <1>4, AskOfMainKeeps, AskToCompleteKeeps, AskForIterationKeeps, AskToRevertKeeps,
     AskToForceKeeps, ResubmitKeeps DEF HumanAsks
<1> QED BY <1>1, <1>2, <1>3, <1>4 DEF SameRepoNext

\* Nothing happens.
LEMMA TypesStutter == ASSUME TypeInv, UNCHANGED sameRepoVars PROVE TypeInv'
  BY DEF TypeInv, sameRepoVars, gitVars, CountsFit, TipsFit

-----------------------------------------------------------------------------
(* The two beginnings.                                                     *)

\* The tree of a proposal.
LEMMA ProposalIs ==
  /\ TreeFits(Proposal) /\ Proposal.main.step = 0 /\ Proposal.main.filled /\ ~Proposal.main.completed
  /\ ~Proposal.lock
  /\ \A s \in Steps, l \in 0 .. MaxLetters : FileOf(Proposal, s, l) = NoDoc
<1> DEFINE m == [step |-> 0, filled |-> TRUE, completed |-> FALSE, directives |-> {}, revert |-> NoRevert]
           S == [s \in Steps |-> NoDoc]
           U == [s \in Steps |-> [l \in Letters |-> NoDoc]]
<1>1. m \in Main /\ m.filled /\ RevertFits(m.revert) /\ m.step = 0 /\ ~m.completed
  <2>1. {} \in SUBSET Directive
    OBVIOUS
  <2> QED BY <2>1, Numbers, NoRevertFits DEF Main
<1>2. S \in [Steps -> Doc] /\ U \in [Steps -> [Letters -> Doc]]
      /\ \A s \in Steps : S[s] = NoDoc /\ \A l \in Letters : U[s][l] = NoDoc
  BY NoDocFits DEF DocFits
<1>3. Proposal = [main |-> m, stepDoc |-> S, subDoc |-> U, lock |-> FALSE]
  BY DEF Proposal
<1> HIDE DEF m, S, U
<1>4. Proposal.main = m /\ Proposal.stepDoc = S /\ Proposal.subDoc = U /\ ~Proposal.lock
      /\ Proposal \in Tree
  BY <1>1, <1>2, <1>3 DEF Tree
<1>5. TreeFits(Proposal)
  BY <1>1, <1>2, <1>4, NoDocFits DEF TreeFits
<1>6. \A l \in 0 .. MaxLetters : l # 0 => l \in Letters
  BY CondocDocsAssumption DEF Letters
<1> QED BY <1>1, <1>2, <1>4, <1>5, <1>6 DEF FileOf

\* The tree of one that has been accepted.
LEMMA AcceptedIs ==
  /\ TreeFits(Accepted) /\ Accepted.main.step = 1 /\ ~Accepted.main.filled /\ ~Accepted.main.completed
  /\ ~Accepted.lock
  /\ \A s \in Steps, l \in 0 .. MaxLetters : FileOf(Accepted, s, l) = NoDoc
<1> DEFINE m == templateStep(Proposal.main, 1)
<1>1. m \in Main /\ m.step = 1 /\ ~m.filled /\ ~m.completed /\ RevertFits(m.revert) /\ m.step >= 1
  BY ProposalIs, MainParts, MainTemplated, Numbers
<1>2. Accepted = [Proposal EXCEPT !.main = m]
  BY DEF Accepted
<1> HIDE DEF m
<1>3. /\ TreeFits(Accepted) /\ Accepted.main = m /\ Accepted.lock = Proposal.lock
      /\ Accepted.stepDoc = Proposal.stepDoc /\ Accepted.subDoc = Proposal.subDoc
  BY <1>1, <1>2, ProposalIs, MainReplaced
<1> QED BY <1>1, <1>3, ProposalIs DEF FileOf

\* The tree with the first step started.
LEMMA StartedIs ==
  /\ TreeFits(Started) /\ Started.main.step = 1 /\ Started.main.filled /\ ~Started.main.completed
  /\ ~Started.lock
  /\ \A s \in Steps, l \in 0 .. MaxLetters :
         FileOf(Started, s, l) = IF s = 1 /\ l = 0 THEN writeStepFile ELSE NoDoc
<1> DEFINE m == [removeMainPrompt(Accepted.main) EXCEPT !.filled = TRUE]
           u == WithFile(Accepted, 1, 0, writeStepFile)
<1>1. m \in Main /\ m.step = 1 /\ m.filled /\ ~m.completed /\ RevertFits(m.revert)
  BY AcceptedIs, MainParts, MainFilled
<1>2. /\ TreeFits(u) /\ u.main = Accepted.main /\ u.lock = Accepted.lock
      /\ \A s \in Steps, l \in 0 .. MaxLetters :
            FileOf(u, s, l) = IF s = 1 /\ l = 0 THEN writeStepFile ELSE FileOf(Accepted, s, l)
  BY AcceptedIs, Numbers, NoDocFits, FileReplaced
<1>3. Started = [u EXCEPT !.main = m]
  BY DEF Started, WithFile
<1> HIDE DEF m, u
<1>4. /\ TreeFits(Started) /\ Started.main = m /\ Started.lock = u.lock
      /\ Started.stepDoc = u.stepDoc /\ Started.subDoc = u.subDoc
  BY <1>1, <1>2, <1>3, MainReplaced
<1>5. \A s \in Steps, l \in 0 .. MaxLetters : FileOf(Started, s, l) = FileOf(u, s, l)
  BY <1>4 DEF FileOf
<1> QED BY <1>1, <1>2, <1>4, <1>5, AcceptedIs

FirstDoc == addNextRevisionTemplate(appendReplyToStepFile(writeStepFile, Unlettered), Unlettered)

\* The tree with the first step's reply.
LEMMA FirstReplyIs ==
  /\ TreeFits(FirstReply) /\ FirstReply.main.step = 1 /\ FirstReply.main.filled
  /\ ~FirstReply.main.completed /\ ~FirstReply.lock
  /\ DocFits(FirstDoc) /\ FirstDoc.exists /\ FirstDoc.substep = 0
  /\ FirstDoc.sections = Append(Append(<<>>, heading("Reply", Unlettered)), heading("Template", 1))
  /\ \A s \in Steps, l \in 0 .. MaxLetters :
         FileOf(FirstReply, s, l) = IF s = 1 /\ l = 0 THEN FirstDoc ELSE NoDoc
<1> DEFINE r == appendReplyToStepFile(writeStepFile, Unlettered)
<1>0. Unlettered \in 0 .. MaxLetters /\ Unlettered + 1 = 1
  BY Numbers DEF Unlettered
<1>1. writeStepFile.exists /\ writeStepFile.sections = <<>>
  BY NoDocFits DEF Fresh
<1>2. DocFits(r) /\ r.exists /\ r.sections = Append(<<>>, heading("Reply", Unlettered))
  BY <1>0, <1>1, NoDocFits, Answered
<1>3. FirstDoc = addNextRevisionTemplate(r, Unlettered)
  BY DEF FirstDoc
<1> HIDE DEF r
<1>4. /\ DocFits(FirstDoc) /\ FirstDoc.exists /\ FirstDoc.substep = 0
      /\ FirstDoc.sections = Append(Append(<<>>, heading("Reply", Unlettered)), heading("Template", 1))
  BY <1>0, <1>2, <1>3, Templated
<1>5. Started.stepDoc[1] = writeStepFile
  BY StartedIs, Numbers DEF FileOf
<1>6. FirstReply = WithFile(Started, 1, 0, FirstDoc)
  BY <1>5 DEF FirstReply, WithFile, FirstDoc
<1> DEFINE u == WithFile(Started, 1, 0, FirstDoc)
<1>7. /\ TreeFits(u) /\ u.main = Started.main /\ u.lock = Started.lock
      /\ \A s \in Steps, l \in 0 .. MaxLetters :
            FileOf(u, s, l) = IF s = 1 /\ l = 0 THEN FirstDoc ELSE FileOf(Started, s, l)
  BY <1>4, StartedIs, Numbers, FileReplaced
<1> HIDE DEF u
<1> QED BY <1>4, <1>6, <1>7, StartedIs DEF u

\* The log that condoc mode was entered on, and the one it began.
FirstLog == <<[parent |-> 0, tree |-> Proposal, msg |-> NoMsg]>>
LaterLog == <<[parent |-> 0, tree |-> Proposal, msg |-> NoMsg],
              [parent |-> 1, tree |-> Accepted, msg |-> About("accepted", 1, 0)],
              [parent |-> 2, tree |-> Started, msg |-> About("started", 1, 0)],
              [parent |-> 3, tree |-> FirstReply, msg |-> About("replied", 1, 0)]>>

\* The logs the two beginnings have.
LEMMA FirstLogs ==
  /\ Len(FirstLog) = 1 /\ Len(LaterLog) = 4 /\ LogFits(FirstLog) /\ LogFits(LaterLog)
  /\ FirstLog[1] = [parent |-> 0, tree |-> Proposal, msg |-> NoMsg]
  /\ LaterLog[1] = [parent |-> 0, tree |-> Proposal, msg |-> NoMsg]
  /\ LaterLog[2] = [parent |-> 1, tree |-> Accepted, msg |-> About("accepted", 1, 0)]
  /\ LaterLog[3] = [parent |-> 2, tree |-> Started, msg |-> About("started", 1, 0)]
  /\ LaterLog[4] = [parent |-> 3, tree |-> FirstReply, msg |-> About("replied", 1, 0)]
<1> DEFINE c1 == [parent |-> 0, tree |-> Proposal, msg |-> NoMsg]
           c2 == [parent |-> 1, tree |-> Accepted, msg |-> About("accepted", 1, 0)]
           c3 == [parent |-> 2, tree |-> Started, msg |-> About("started", 1, 0)]
           c4 == [parent |-> 3, tree |-> FirstReply, msg |-> About("replied", 1, 0)]
<1>1. {"accepted", "started", "replied"} \subseteq CommitKind
  BY DEF CommitKind
<1>2. /\ About("accepted", 1, 0) \in Message /\ About("started", 1, 0) \in Message
      /\ About("replied", 1, 0) \in Message /\ NoMsg \in Message
  BY <1>1, StringTypes, Numbers
<1>3. Proposal \in Tree /\ Accepted \in Tree /\ Started \in Tree /\ FirstReply \in Tree
  BY ProposalIs, AcceptedIs, StartedIs, FirstReplyIs DEF TreeFits
<1>4. c1 \in Commit /\ c2 \in Commit /\ c3 \in Commit /\ c4 \in Commit
  BY <1>2, <1>3 DEF Commit
<1>5. /\ c1.parent = 0 /\ c1.tree = Proposal /\ c2.parent = 1 /\ c2.tree = Accepted
      /\ c3.parent = 2 /\ c3.tree = Started /\ c4.parent = 3 /\ c4.tree = FirstReply
  OBVIOUS
<1>6. FirstLog = <<c1>> /\ LaterLog = <<c1, c2, c3, c4>>
  BY DEF FirstLog, LaterLog
<1> HIDE DEF c1, c2, c3, c4
<1>7. /\ FirstLog \in Seq(Commit) /\ Len(FirstLog) = 1 /\ FirstLog[1] = c1
      /\ LaterLog \in Seq(Commit) /\ Len(LaterLog) = 4
      /\ LaterLog[1] = c1 /\ LaterLog[2] = c2 /\ LaterLog[3] = c3 /\ LaterLog[4] = c4
  BY <1>4, <1>6
<1>8. 1 \in 1 .. MaxCommits + 1 /\ 4 \in 1 .. MaxCommits + 1
  BY SameRepoAssumption
<1>9. LogFits(FirstLog)
  <2>1. \A i \in 1 .. 1 : i = 1
    OBVIOUS
  <2>2. Linked(FirstLog)
    BY <1>5, <1>7, <2>1 DEF Linked
  <2> QED BY <1>5, <1>7, <1>8, <2>1, <2>2, ProposalIs DEF LogFits
<1>10. LogFits(LaterLog)
  <2>1. \A i \in 1 .. 4 : i = 1 \/ i = 2 \/ i = 3 \/ i = 4
    OBVIOUS
  <2>2. \A i \in 1 .. 4 : LaterLog[i].parent \in 0 .. i - 1
    BY <1>5, <1>7, <2>1
  <2>3. \A i \in 1 .. 4 : TreeFits(LaterLog[i].tree)
    BY <1>5, <1>7, <2>1, ProposalIs, AcceptedIs, StartedIs, FirstReplyIs
  <2> QED BY <1>7, <1>8, <2>2, <2>3 DEF LogFits, Linked
<1> QED BY <1>7, <1>9, <1>10 DEF c1, c2, c3, c4

\* Both beginnings are typed.
LEMMA TypesAtFirst == SameRepoInit => TypeInv
<1> SUFFICES ASSUME SameRepoInit PROVE TypeInv
  OBVIOUS
<1> DEFINE none == [n \in 1 .. MaxAsks |-> 0]
<1>1. CountsFit
  <2>1. 0 \in 0 .. MaxAsks /\ 1 \in 1 .. MaxSessions /\ 0 \in 0 .. MaxTrouble /\ 0 \in CommitId
    BY SameRepoAssumption DEF CommitId
  <2> QED BY <2>1 DEF SameRepoInit, CountsFit, Seen
<1>2. \A L : Len(L) \in Nat => JobsFit(jobs, L)
  <2>1. jobs = [n \in Sessions |-> NoJob]
    BY DEF SameRepoInit
  <2>2. ASSUME NEW L, Len(L) \in Nat PROVE JobFits(NoJob, L)
    BY <2>2, GitJob, StringTypes
  <2> QED BY <2>1, <2>2 DEF JobsFit, JobFits
<1>3. CASE session = NewSession /\ work = Proposal /\ log = FirstLog
           /\ tips = [head |-> 1, origin |-> 0, takes |-> none]
  <2>1. TipsFit(tips, log)
    <3>1. \A k \in 1 .. MaxAsks : 0 \in 0 .. 1
      OBVIOUS
    <3> QED BY <1>3, <3>1, FirstLogs DEF TipsFit
  <2>2. SessionFits(session, log)
    BY <1>3, NewSessionFits, FirstLogs DEF SessionFits
  <2> QED BY <1>1, <1>2, <1>3, <2>1, <2>2, FirstLogs, ProposalIs DEF TypeInv
<1>4. CASE /\ session = [NewSession EXCEPT !.phase = "AwaitingAction", !.step = 1,
                                           !.file = TRUE, !.start = 3]
           /\ work = FirstReply /\ log = LaterLog
           /\ tips = [head |-> 4, origin |-> 4, takes |-> none]
  <2>1. TipsFit(tips, log)
    <3>1. none \in [1 .. MaxAsks -> 0 .. 4]
      OBVIOUS
    <3> HIDE DEF none
    <3> QED BY <1>4, <3>1, FirstLogs DEF TipsFit
  <2>2. SessionFits(session, log)
    <3>1. 3 \in CommitId /\ "AwaitingAction" \in CondocPhase /\ TRUE \in BOOLEAN
      BY SameRepoAssumption DEF CommitId, CondocPhase
    <3>2. session \in SessionFields /\ session.step = 1 /\ session.sub = 0 /\ session.start = 3
          /\ session.subStart = 0
      BY <1>4, <3>1, NewSessionFits, Numbers DEF SessionFields
    <3> QED BY <1>4, <3>2, FirstLogs, Numbers DEF SessionFits
  <2> QED BY <1>1, <1>2, <1>4, <2>1, <2>2, FirstLogs, FirstReplyIs DEF TypeInv
<1> QED BY <1>3, <1>4 DEF SameRepoInit, FirstLog, LaterLog

\* The types hold throughout.
THEOREM TypeInvariant == SameRepoSpec => []TypeInv
<1>1. SameRepoInit => TypeInv
  BY TypesAtFirst
<1>2. TypeInv /\ [SameRepoNext]_sameRepoVars => TypeInv'
  BY TypesKept, TypesStutter
<1> QED BY <1>1, <1>2, PTL DEF SameRepoSpec

-----------------------------------------------------------------------------
(* What one session at a time keeps in order, when condoc mode is entered  *)
(* only after what a session left has ended.                               *)

GitPhases == {"Branching", "StepStarting", "HumanCommitting", "Committing"}
GitKinds == {"proposed", "accepted", "started", "prompt", "replied", "completed", "closed"}

IsAt(s, phase) == s.phase = phase \/ (s.phase = "GitFailed" /\ s.failed = phase)
Starting(s) == IsAt(s, "StepStarting")

\* The session waits for the job that is under way.
Serves(s, j) ==
    /\ j.does = "git" => s.phase \in GitPhases /\ j.msg = s.last
    /\ j.does # "git" => s.phase = "RunningAgent"
    /\ j.does = "revert" => s.file /\ s.step = j.msg.step

SessionInOrder(s) ==
    /\ s.failed \in {"StepStarting", "HumanCommitting", "Committing"}
    /\ s.next \in {"AwaitingAction", "AwaitingStep"}
    /\ s.last.kind \in GitKinds /\ (s.last.kind = "started" => s.last.step \in Steps)
    /\ s.phase \in {"Proposed", "Branching", "AwaitingStep"} => ~s.file /\ s.sub = 0
    /\ IsAt(s, "Committing") /\ s.next = "AwaitingStep" => ~s.file /\ s.sub = 0
    /\ IsAt(s, "HumanCommitting") \/ IsAt(s, "Committing") => s.last.kind # "started"
    /\ Starting(s) => s.file /\ s.last = About("started", s.step, s.sub)

JobInOrder(j, L) ==
    /\ j.does = "git" => j.msg.kind \in GitKinds /\ (j.msg.kind = "started" => j.msg.step \in Steps)
    /\ j.does = "retry" => j.msg.kind = "took"
    /\ j.does = "revert" => /\ j.msg.kind = "reverted" /\ j.target \in DOMAIN L
                            /\ L[j.target].msg = About("started", j.msg.step, j.msg.sub)

Orderly ==
    /\ \A n \in Sessions : jobs[n].at # "none" => n = Me
    /\ \A n \in Sessions : JobInOrder(jobs[n], log)
    /\ session.active => SessionInOrder(session)
    /\ session.active /\ jobs[Me].at # "none" => Serves(session, jobs[Me])

\* What the handler committed is on the branch or on a take branch, and on a
\* take branch before the branch is taken back.
Saved == UNION {History(tips.takes[n]) : n \in DOMAIN tips.takes}

Kept ==
    /\ \A i \in DOMAIN log : log[i].msg.kind \in HandlerCommits => i \in History(tips.head) \cup Saved
    /\ (\E n \in Sessions : jobs[n].at = "reset") =>
           \A i \in DOMAIN log : log[i].msg.kind \in HandlerCommits => i \in Saved

\* A commit that started a step or a substep has its file as it was written.
FreshStart(c) == c.msg.step \in Steps /\ Fresh(FileOf(c.tree, c.msg.step, c.msg.sub))
StartsFresh(L) == \A i \in DOMAIN L : L[i].msg.kind = "started" => FreshStart(L[i])

\* So has the tree while such a commit is made, and the branch once it is.
JobFresh(j, t, head) ==
    j.does = "git" /\ j.at # "none" /\ j.msg.kind = "started" =>
        /\ Fresh(FileOf(t, j.msg.step, j.msg.sub))
        /\ j.at \in {"push", "done"} => Fresh(FileOf(head, j.msg.step, j.msg.sub))

SessionFresh(s, t) == Starting(s) => Fresh(FileOf(t, s.step, s.sub))

\* Where the session would go back to.
StartFresh(s, L) ==
    /\ s.start # 0 /\ ~(Starting(s) /\ s.sub = 0) => Fresh(FileOf(L[s.start].tree, s.step, 0))
    /\ s.sub # 0 /\ s.subStart # 0 /\ ~Starting(s) =>
           Fresh(FileOf(L[s.subStart].tree, s.step, s.sub))

BegunFresh ==
    /\ StartsFresh(log)
    /\ \A n \in Sessions : JobFresh(jobs[n], work, HeadTree)
    /\ session.active => SessionFresh(session, work)
    /\ session.active /\ session.file /\ "behind" \notin story => StartFresh(session, log)
    /\ RetryStartsHere

\* While git has not failed, and condoccer has not written the lock on a look
\* from before the handler took it away: no sequence fails, origin's branch is behind the
\* one here but while that is rewritten, and where the handler is about to
\* commit what ends its turn, the lock is gone or the turn is not the human's.
CalmJob(j, t) ==
    /\ j.does = "git" => j.at # "failed"
    /\ j.at = "commit" /\ j.msg.kind \in {"replied", "completed"} /\ t.lock => ~Safe(detectPhase(t))

OriginBehind == tips.origin \in {0} \cup History(tips.head) \/ \E n \in Sessions : jobs[n].at = "force"

Released(L) ==
    \A i \in DOMAIN L : L[i].msg.kind \in {"replied", "reverted", "completed"} /\ L[i].tree.lock =>
        ~Safe(detectPhase(L[i].tree))

TroubleFree ==
    /\ session.active => session.phase # "GitFailed"
    /\ \A n \in Sessions : CalmJob(jobs[n], work)
    /\ OriginBehind /\ Released(log)

Unlocks == counts.trouble = 0 /\ "relocked" \notin story => TroubleFree

-----------------------------------------------------------------------------
(* What the handler's turns do.                                            *)

\* A session has s's fields and a last message of its own.
Becomes(s, msg) ==
    /\ session'.active = s.active /\ session'.phase = s.phase /\ session'.next = s.next
    /\ session'.step = s.step /\ session'.file = s.file /\ session'.sub = s.sub
    /\ session'.letter = s.letter /\ session'.start = s.start /\ session'.subStart = s.subStart
    /\ session'.failed = s.failed /\ session'.last = msg

\* The job of the session at hand is this one, and the others' are as before.
JobIs(at, does, msg) ==
    /\ jobs'[Me].at = at /\ jobs'[Me].does = does /\ jobs'[Me].msg = msg
    /\ \A n \in Sessions : n # Me => jobs'[n] = jobs[n]

SameFiles(u, t) == \A x \in Steps, y \in 0 .. MaxLetters : FileOf(u, x, y) = FileOf(t, x, y)

OneFile(u, t, s, l, d) ==
    \A x \in Steps, y \in 0 .. MaxLetters :
        FileOf(u, x, y) = IF x = s /\ y = l THEN d ELSE FileOf(t, x, y)

\* The condoc mode entered last is one of them.
LEMMA MeIs == ASSUME TypeInv PROVE Me \in Sessions
  BY DEF TypeInv, CountsFit, Me, Sessions

\* The parts of what a session has under way.
LEMMA JobsAre ==
  ASSUME TypeInv, NEW n \in Sessions
  PROVE  jobs[n] \in Job /\ jobs[n].msg \in Message /\ jobs[n].msg.step \in 0 .. MaxSteps
         /\ jobs[n].msg.sub \in 0 .. MaxLetters /\ jobs[n].target \in CommitId
         /\ JobFits(jobs[n], log) /\ jobs \in [Sessions -> Job]
  BY DEF TypeInv, JobsFit, JobFits, Job, Message

\* What runGit does to the session and its job.
LEMMA RunGitIs ==
  ASSUME TypeInv, NEW s \in SessionFields, NEW msg \in Message, runGit(s, msg)
  PROVE  Becomes(s, msg) /\ JobIs("commit", "git", msg)
<1>1. Becomes(s, msg)
  BY DEF runGit, Becomes, SessionFields
<1> DEFINE j == [NoJob EXCEPT !.at = "commit", !.msg = msg]
<1>2. j.at = "commit" /\ j.does = "git" /\ j.msg = msg
  BY SessionParts, GitJob
<1>3. jobs' = [jobs EXCEPT ![Me] = j]
  BY DEF runGit, Runs
<1> HIDE DEF j
<1>4. JobIs("commit", "git", msg)
  BY <1>2, <1>3, MeIs, JobsAre DEF JobIs
<1> QED BY <1>1, <1>4

\* What condocAcceptProposal does.
LEMMA AcceptDoes ==
  ASSUME TypeInv, condocAcceptProposal
  PROVE  /\ Becomes([session EXCEPT !.phase = "Branching"], About("accepted", 1, 0))
         /\ JobIs("commit", "git", About("accepted", 1, 0))
         /\ SameFiles(work', work) /\ ~work'.main.filled /\ work'.main.revert = NoRevert
         /\ work'.main.completed = work.main.completed
<1> DEFINE s == [session EXCEPT !.phase = "Branching"]
           msg == About("accepted", 1, 0)
           m == templateStep(work.main, 1)
<1>1. s \in SessionFields /\ msg \in Message /\ runGit(s, msg)
  <2>1. "Branching" \in CondocPhase /\ "accepted" \in CommitKind
    BY DEF CondocPhase, CommitKind
  <2> QED BY <2>1, SessionParts, StringTypes, Numbers DEF SessionFields, condocAcceptProposal
<1>2. m \in Main /\ ~m.filled /\ m.completed = work.main.completed /\ m.revert = NoRevert
      /\ RevertFits(m.revert) /\ m.step >= 1
  BY SessionParts, MainParts, MainTemplated, Numbers
<1>3. work' = [work EXCEPT !.main = m]
  BY DEF condocAcceptProposal
<1> HIDE DEF m, s, msg
<1>4. work'.main = m /\ work'.stepDoc = work.stepDoc /\ work'.subDoc = work.subDoc
  BY <1>2, <1>3, SessionParts, MainReplaced
<1> QED BY <1>1, <1>2, <1>4, RunGitIs DEF SameFiles, FileOf, s, msg

\* What condocStartStep does.
LEMMA StartStepDoes ==
  ASSUME TypeInv, condocStartStep
  PROVE  LET n == work.main.step
             s == [session EXCEPT !.step = n, !.file = TRUE, !.letter = 0, !.phase = "StepStarting"]
         IN  /\ n \in Steps /\ s \in SessionFields
             /\ Becomes(s, About("started", n, 0)) /\ JobIs("commit", "git", About("started", n, 0))
             /\ OneFile(work', work, n, 0, writeStepFile)
             /\ work'.main.step = n /\ work'.main.revert = NoRevert
             /\ work'.main.completed = work.main.completed
<1> DEFINE n == work.main.step
           s == [session EXCEPT !.step = n, !.file = TRUE, !.letter = 0, !.phase = "StepStarting"]
           msg == About("started", n, 0)
           m == [removeMainPrompt(work.main) EXCEPT !.filled = TRUE]
           u == WithFile(work, n, 0, writeStepFile)
<1>1. n \in Steps /\ n \in 0 .. MaxSteps
  BY SessionParts, MainParts, Numbers DEF condocStartStep
<1>2. m \in Main /\ m.filled /\ RevertFits(m.revert) /\ m.step = n /\ m.revert = NoRevert
      /\ m.completed = work.main.completed
  BY SessionParts, MainParts, MainFilled
<1>3. TreeFits(u) /\ OneFile(u, work, n, 0, writeStepFile)
  BY <1>1, NoDocFits, SessionParts, FileReplaced, Numbers DEF OneFile
<1>4. work' = [u EXCEPT !.main = m]
  BY DEF condocStartStep, WithFile
<1>5. s \in SessionFields /\ msg \in Message /\ runGit(s, msg)
  <2>1. "StepStarting" \in CondocPhase /\ "started" \in CommitKind /\ TRUE \in BOOLEAN
    BY DEF CondocPhase, CommitKind
  <2> QED BY <1>1, <2>1, SessionParts, StringTypes, Numbers DEF SessionFields, condocStartStep
<1> HIDE DEF m, u, s, msg, n
<1>6. work'.main = m /\ work'.stepDoc = u.stepDoc /\ work'.subDoc = u.subDoc
  BY <1>2, <1>3, <1>4, MainReplaced
<1>7. OneFile(work', work, n, 0, writeStepFile)
  BY <1>3, <1>6 DEF OneFile, FileOf
<1>8. Becomes(s, msg) /\ JobIs("commit", "git", msg)
  BY <1>5, RunGitIs
<1> QED BY <1>1, <1>2, <1>5, <1>6, <1>7, <1>8 DEF s, msg, n

\* The condoc is finished.
LEMMA FinishDoes ==
  ASSUME TypeInv, NEW t, TreeFits(t), Finish(t, session)
  PROVE  /\ Becomes([session EXCEPT !.active = FALSE], About("completed", session.step, 0))
         /\ JobIs("commit", "git", About("completed", session.step, 0))
         /\ SameFiles(work', t) /\ ~work'.lock /\ work'.main.completed /\ work'.main.revert = NoRevert
<1> DEFINE s == [session EXCEPT !.active = FALSE]
           m == finalizeMainFile(t.main)
           u == [t EXCEPT !.main = m]
           msg == About("completed", session.step, 0)
<1>1. m \in Main /\ m.filled /\ RevertFits(m.revert) /\ m.completed
  BY MainParts, MainFinalized
<1>2. m.revert = NoRevert
  <2>1. t.main \in Main
    BY MainParts
  <2>2. removeMainPrompt(t.main).revert = NoRevert /\ removeMainPrompt(t.main) \in Main
    BY <2>1, MainStripped
  <2> HIDE DEF u
  <2> QED BY <2>2 DEF finalizeMainFile, Main
<1> HIDE DEF m
<1>3. TreeFits(u) /\ u.main = m /\ u.stepDoc = t.stepDoc /\ u.subDoc = t.subDoc
  BY <1>1, MainReplaced
<1>4. work' = [u EXCEPT !.lock = FALSE]
  BY DEF Finish, m
<1> HIDE DEF u
<1>5. work'.main = m /\ ~work'.lock /\ work'.stepDoc = t.stepDoc /\ work'.subDoc = t.subDoc
  BY <1>3, <1>4, LockReplaced
<1>6. s \in SessionFields /\ msg \in Message /\ runGit(s, msg)
  <2>1. "completed" \in CommitKind /\ FALSE \in BOOLEAN
    BY DEF CommitKind
  <2>2. runGit(s, msg)
    BY DEF Finish
  <2> QED BY <2>1, <2>2, SessionParts, StringTypes, Numbers DEF SessionFields
<1> HIDE DEF s, msg
<1> QED BY <1>1, <1>2, <1>5, <1>6, RunGitIs DEF SameFiles, FileOf, s, msg

\* What condocCompleteCondoc does.
LEMMA CompleteCondocDoes ==
  ASSUME TypeInv, condocCompleteCondoc
  PROVE  /\ Becomes([session EXCEPT !.active = FALSE], About("completed", session.step, 0))
         /\ JobIs("commit", "git", About("completed", session.step, 0))
         /\ SameFiles(work', work) /\ ~work'.lock /\ work'.main.completed /\ work'.main.revert = NoRevert
  BY FinishDoes, SessionParts DEF condocCompleteCondoc

\* The open substep's file closed, and then the step's.
LEMMA ForceCompletedIs ==
  ASSUME TypeInv, NEW t, TreeFits(t)
  PROVE  LET open == session.sub # 0 /\ t.subDoc[session.step][session.sub].exists IN
         \A x \in Steps, y \in 0 .. MaxLetters :
             FileOf(ForceCompleted(t), x, y) =
                 IF \/ session.file /\ x = session.step /\ y = 0
                    \/ open /\ x = session.step /\ y = session.sub
                 THEN finalizeStepFile(FileOf(t, x, y)) ELSE FileOf(t, x, y)
<1> DEFINE n == session.step
           l == session.sub
           open == l # 0 /\ t.subDoc[n][l].exists
           d == finalizeStepFile(FileOf(t, n, l))
           u == IF open THEN WithFile(t, n, l, d) ELSE t
           e == finalizeStepFile(FileOf(u, n, 0))
<1>1. TreeFits(u) /\ \A x \in Steps, y \in 0 .. MaxLetters :
         FileOf(u, x, y) = IF open /\ x = n /\ y = l THEN d ELSE FileOf(t, x, y)
  <2>1. CASE open
    <3>1. n \in Steps /\ l \in 0 .. MaxLetters
      BY <2>1, SessionParts
    <3>2. DocFits(d)
      BY <3>1, Finalized, FileFits
    <3> HIDE DEF d
    <3> QED BY <2>1, <3>1, <3>2, FileReplaced
  <2>2. CASE ~open
    BY <2>2
  <2> QED BY <2>1, <2>2
<1>2. ForceCompleted(t) = IF session.file THEN WithFile(u, n, 0, e) ELSE u
  <2>1. u = IF open THEN [t EXCEPT !.subDoc[n][l] = d] ELSE t
    BY DEF WithFile
  <2>2. open => d = finalizeStepFile(t.subDoc[n][l])
    BY DEF FileOf
  <2>3. e = finalizeStepFile(u.stepDoc[n]) /\ WithFile(u, n, 0, e) = [u EXCEPT !.stepDoc[n] = e]
    BY DEF FileOf, WithFile
  <2> HIDE DEF u, e
  <2>4. ForceCompleted(t) = IF session.file THEN [u EXCEPT !.stepDoc[n] = finalizeStepFile(@)] ELSE u
    BY <2>1, <2>2 DEF ForceCompleted
  <2> QED BY <2>3, <2>4
<1> HIDE DEF u
<1>3. CASE session.file
  <2>1. n \in Steps
    BY <1>3, SessionParts
  <2>2. DocFits(e)
    BY <1>1, <2>1, FileFits, Finalized, Numbers
  <2>3. open => l # 0
    OBVIOUS
  <2>4. FileOf(u, n, 0) = FileOf(t, n, 0)
    BY <1>1, <2>1, <2>3, Numbers
  <2> HIDE DEF d, open
  <2>5. e = finalizeStepFile(FileOf(t, n, 0))
    BY <2>4
  <2> HIDE DEF e
  <2>6. \A x \in Steps, y \in 0 .. MaxLetters :
           FileOf(ForceCompleted(t), x, y) = IF x = n /\ y = 0 THEN e ELSE FileOf(u, x, y)
    <3> DEFINE w == WithFile(u, n, 0, e)
    <3>1. ForceCompleted(t) = w
      BY <1>2, <1>3
    <3>2. \A x \in Steps, y \in 0 .. MaxLetters :
             FileOf(w, x, y) = IF x = n /\ y = 0 THEN e ELSE FileOf(u, x, y)
      <4> HIDE DEF n
      <4> QED BY <1>1, <2>1, <2>2, Numbers, FileReplaced
    <3> HIDE DEF w
    <3> QED BY <3>1, <3>2
  <2> QED BY <1>1, <1>3, <2>3, <2>5, <2>6 DEF d, open
<1>4. CASE ~session.file
  BY <1>1, <1>2, <1>4
<1> QED BY <1>3, <1>4

\* What condocForceComplete does.
LEMMA ForceCompleteDoes ==
  ASSUME TypeInv, condocForceComplete
  PROVE  /\ Becomes([session EXCEPT !.active = FALSE], About("completed", session.step, 0))
         /\ JobIs("commit", "git", About("completed", session.step, 0))
         /\ SameFiles(work', ForceCompleted(work)) /\ ~work'.lock /\ work'.main.completed
         /\ work'.main.revert = NoRevert
  BY FinishDoes, ForceCompletedFits, SessionParts DEF condocForceComplete

\* A file with other directives, and nothing else changed.
Alike(e, d) == e.exists = d.exists /\ e.sections = d.sections /\ e.prompt = d.prompt
               /\ e.substep = d.substep /\ e.revert = d.revert

\* What condocRetryFailedGit does.
LEMMA RetryGitDoes ==
  ASSUME TypeInv, condocRetryFailedGit
  PROVE  /\ session.phase = "GitFailed" /\ session.active
         /\ Becomes([session EXCEPT !.phase = session.failed], session.last)
         /\ JobIs("commit", "git", session.last)
         /\ \A x \in Steps, y \in 0 .. MaxLetters : Alike(FileOf(work', x, y), FileOf(work, x, y))
         /\ work'.main.step = work.main.step /\ work'.main.filled = work.main.filled
         /\ work'.main.completed = work.main.completed /\ work'.main.revert = work.main.revert
<1> DEFINE s == [session EXCEPT !.phase = session.failed]
<1>1. s \in SessionFields /\ session.last \in Message /\ runGit(s, session.last)
  BY SessionParts DEF SessionFields, condocRetryFailedGit
<1>2. /\ \A x \in Steps, y \in 0 .. MaxLetters : Alike(FileOf(work', x, y), FileOf(work, x, y))
      /\ work'.main.step = work.main.step /\ work'.main.filled = work.main.filled
      /\ work'.main.completed = work.main.completed /\ work'.main.revert = work.main.revert
  <2>1. CASE session.file
    <3> DEFINE w == activeDoc.directives \ {"handoff"}
               d == [activeDoc EXCEPT !.directives = w]
    <3>1. DocFits(activeDoc) /\ session.step \in Steps
      BY <2>1, SessionParts
    <3>2. w \in SUBSET Directive
      BY <3>1, DocParts
    <3>3. work' = WithActive(work, d)
      BY <2>1 DEF condocRetryFailedGit
    <3> HIDE DEF w
    <3>4. DocFits(d) /\ Alike(d, activeDoc)
      BY <3>1, <3>2, Directed DEF Alike
    <3> HIDE DEF d
    <3>5. work'.main = work.main /\ \A x \in Steps, y \in 0 .. MaxLetters :
              FileOf(work', x, y) = IF x = session.step /\ y = session.sub THEN d ELSE FileOf(work, x, y)
      BY <2>1, <3>3, <3>4, SessionParts, ActiveReplaced
    <3> QED BY <3>4, <3>5 DEF Alike, activeDoc
  <2>2. CASE ~session.file
    <3> DEFINE w == work.main.directives \ {"handoff"}
               m == [work.main EXCEPT !.directives = w]
    <3>1. work.main \in Main /\ w \in SUBSET Directive /\ RevertFits(work.main.revert)
          /\ (~work.main.filled => work.main.step >= 1)
      BY SessionParts, MainParts
    <3>2. work' = [work EXCEPT !.main = m]
      BY <2>2 DEF condocRetryFailedGit
    <3> HIDE DEF w
    <3>3. m \in Main /\ RevertFits(m.revert) /\ (~m.filled => m.step >= 1) /\ m.step = work.main.step
          /\ m.filled = work.main.filled /\ m.completed = work.main.completed
          /\ m.revert = work.main.revert
      BY <3>1, MainDirected
    <3> HIDE DEF m
    <3>4. work'.main = m /\ work'.stepDoc = work.stepDoc /\ work'.subDoc = work.subDoc
      BY <3>2, <3>3, SessionParts, MainReplaced
    <3> QED BY <3>3, <3>4 DEF Alike, FileOf
  <2> QED BY <2>1, <2>2
<1>3. session.phase = "GitFailed" /\ session.active
  BY DEF condocRetryFailedGit, Ticks
<1> QED BY <1>1, <1>2, <1>3, RunGitIs

\* What condocCompleteSubstep does.
LEMMA CompleteSubstepDoes ==
  ASSUME TypeInv, condocCompleteSubstep
  PROVE  LET s == [session EXCEPT !.sub = 0, !.subStart = 0, !.letter = 0,
                                  !.phase = "Committing", !.next = "AwaitingAction"]
             n == session.step
             l == session.sub
             d == work.stepDoc[n]
         IN  /\ s \in SessionFields /\ n \in Steps /\ l \in Letters
             /\ Becomes(s, About("closed", n, l)) /\ JobIs("commit", "git", About("closed", n, l))
             /\ work'.main = work.main
             /\ \A x \in Steps, y \in 0 .. MaxLetters :
                   FileOf(work', x, y) =
                       IF x = n /\ y = 0 THEN addNextRevisionTemplate(d, lastReplyLetter(d))
                       ELSE IF x = n /\ y = l THEN finalizeStepFile(FileOf(work, n, l))
                       ELSE FileOf(work, x, y)
<1> DEFINE n == session.step
           l == session.sub
           s == [session EXCEPT !.sub = 0, !.subStart = 0, !.letter = 0,
                                !.phase = "Committing", !.next = "AwaitingAction"]
           msg == About("closed", n, l)
           d == finalizeStepFile(FileOf(work, n, l))
           u == WithFile(work, n, l, d)
           e == addNextRevisionTemplate(work.stepDoc[n], lastReplyLetter(work.stepDoc[n]))
<1>1. n \in Steps /\ l \in Letters /\ session.file /\ l # 0 /\ l \in 0 .. MaxLetters
  BY SessionParts, AskedOf DEF condocCompleteSubstep
<1>2. DocFits(FileOf(work, n, l)) /\ DocFits(work.stepDoc[n])
  BY <1>1, SessionParts, FileFits DEF TreeFits
<1>3. DocFits(d)
  BY <1>2, Finalized
<1>4. DocFits(e)
  BY <1>2, RepliesAre, Templated
<1>5. TreeFits(u) /\ u.main = work.main /\ OneFile(u, work, n, l, d)
  <2> HIDE DEF d
  <2> QED BY <1>1, <1>3, SessionParts, FileReplaced DEF OneFile
<1>6. work' = WithFile(u, n, 0, e)
  BY <1>1 DEF condocCompleteSubstep, WithFile, FileOf
<1> HIDE DEF u, e
<1>7. work'.main = u.main /\ OneFile(work', u, n, 0, e)
  <2> DEFINE w == WithFile(u, n, 0, e)
  <2>1. DocFits(e)
    BY <1>4 DEF e
  <2>2. w.main = u.main /\ OneFile(w, u, n, 0, e)
    <3> HIDE DEF n
    <3> QED BY <1>1, <1>5, <2>1, Numbers, FileReplaced DEF OneFile
  <2> QED BY <1>6, <2>2
<1>8. s \in SessionFields /\ msg \in Message /\ runGit(s, msg)
  <2>1. "Committing" \in CondocPhase /\ "AwaitingAction" \in CondocPhase /\ "closed" \in CommitKind
    BY DEF CondocPhase, CommitKind
  <2>2. runGit(s, msg)
    BY DEF condocCompleteSubstep
  <2>3. s \in SessionFields
    BY <2>1, SessionParts, Numbers DEF SessionFields
  <2>4. msg \in Message
    BY <2>1, SessionParts, StringTypes
  <2> QED BY <2>2, <2>3, <2>4
<1>9. Becomes(s, msg) /\ JobIs("commit", "git", msg)
  <2> HIDE DEF s, msg
  <2> QED BY <1>8, RunGitIs
<1>10. \A x \in Steps, y \in 0 .. MaxLetters :
          FileOf(work', x, y) = IF x = n /\ y = 0 THEN e
                                ELSE IF x = n /\ y = l THEN d ELSE FileOf(work, x, y)
  <2> HIDE DEF d
  <2> QED BY <1>1, <1>5, <1>7 DEF OneFile
<1> QED BY <1>1, <1>5, <1>7, <1>8, <1>9, <1>10 DEF e

\* What condocCompleteStep does.
LEMMA CompleteStepDoes ==
  ASSUME TypeInv, condocCompleteStep
  PROVE  LET s == [session EXCEPT !.phase = "Committing", !.next = "AwaitingStep",
                                  !.file = FALSE, !.step = @ + 1]
             n == session.step
         IN  /\ s \in SessionFields /\ n \in Steps /\ session.sub = 0
             /\ Becomes(s, About("closed", n, 0)) /\ JobIs("commit", "git", About("closed", n, 0))
             /\ ~work'.main.filled /\ work'.main.revert = NoRevert
             /\ work'.main.completed = work.main.completed
             /\ OneFile(work', work, n, 0, finalizeStepFile(work.stepDoc[n]))
<1> DEFINE n == session.step
           s == [session EXCEPT !.phase = "Committing", !.next = "AwaitingStep",
                                !.file = FALSE, !.step = @ + 1]
           msg == About("closed", n, 0)
           d == finalizeStepFile(work.stepDoc[n])
           u == WithFile(work, n, 0, d)
           m == templateStep(work.main, n + 1)
<1>1. n \in Steps /\ n + 1 \in Steps /\ session.sub = 0
  BY SessionParts, AskedOf, Numbers DEF condocCompleteStep
<1>2. DocFits(d)
  BY <1>1, SessionParts, Finalized DEF TreeFits
<1>3. m \in Main /\ RevertFits(m.revert) /\ m.step >= 1 /\ ~m.filled /\ m.revert = NoRevert
      /\ m.completed = work.main.completed
  BY <1>1, SessionParts, MainParts, MainTemplated
<1>4. work' = [u EXCEPT !.main = m]
  BY DEF condocCompleteStep, WithFile
<1> HIDE DEF d
<1>5. TreeFits(u) /\ OneFile(u, work, n, 0, d)
  BY <1>1, <1>2, SessionParts, FileReplaced, Numbers DEF OneFile
<1> HIDE DEF u, m
<1>6. work'.main = m /\ work'.stepDoc = u.stepDoc /\ work'.subDoc = u.subDoc
  BY <1>3, <1>4, <1>5, MainReplaced
<1>7. OneFile(work', work, n, 0, d)
  BY <1>5, <1>6 DEF OneFile, FileOf
<1>8. s \in SessionFields /\ msg \in Message /\ runGit(s, msg)
  <2>1. "Committing" \in CondocPhase /\ "AwaitingStep" \in CondocPhase /\ FALSE \in BOOLEAN
        /\ "closed" \in CommitKind
    BY DEF CondocPhase, CommitKind
  <2>2. runGit(s, msg)
    BY DEF condocCompleteStep
  <2>3. msg \in Message
    BY <2>1, SessionParts, StringTypes, Numbers
  <2>4. n + 1 \in 0 .. MaxSteps
    BY <1>1, Numbers
  <2>5. s \in SessionFields
    BY <2>1, <2>4, SessionParts DEF SessionFields
  <2> QED BY <2>2, <2>3, <2>5
<1> HIDE DEF s, msg
<1>9. Becomes(s, msg) /\ JobIs("commit", "git", msg)
  BY <1>8, RunGitIs
<1> QED BY <1>1, <1>3, <1>6, <1>7, <1>8, <1>9 DEF s, msg, d

\* What condocRunRevision does.
LEMMA RunRevisionDoes ==
  ASSUME TypeInv, condocRunRevision
  PROVE  LET s == [session EXCEPT !.letter = pendingRevisionLetter(activeDoc), !.phase = "HumanCommitting"]
             n == session.step
             l == session.sub
         IN  /\ s \in SessionFields /\ n \in Steps
             /\ Becomes(s, About("prompt", n, l)) /\ JobIs("commit", "git", About("prompt", n, l))
             /\ work'.main = work.main
             /\ OneFile(work', work, n, l, removeHumanPromptSection(activeDoc))
<1> DEFINE s == [session EXCEPT !.letter = pendingRevisionLetter(activeDoc), !.phase = "HumanCommitting"]
           msg == About("prompt", session.step, session.sub)
           d == removeHumanPromptSection(activeDoc)
<1>1. session.file /\ DocFits(activeDoc) /\ session.step \in Steps
  BY AskedOf DEF condocRunRevision
<1>2. DocFits(d)
  BY <1>1, Stripped
<1>3. work' = WithActive(work, d)
  BY DEF condocRunRevision
<1> HIDE DEF d
<1>4. work'.main = work.main /\ OneFile(work', work, session.step, session.sub, d)
  BY <1>1, <1>2, <1>3, SessionParts, ActiveReplaced DEF OneFile
<1>8. s \in SessionFields /\ msg \in Message /\ runGit(s, msg)
  <2>1. "HumanCommitting" \in CondocPhase /\ "prompt" \in CommitKind
    BY DEF CondocPhase, CommitKind
  <2>0. pendingRevisionLetter(activeDoc) \in 0 .. MaxLetters + 1
    BY <1>1, PendingRevision, Numbers
  <2>2. runGit(s, msg)
    BY DEF condocRunRevision
  <2>3. msg \in Message
    BY <2>1, SessionParts, StringTypes
  <2>5. s \in SessionFields
    BY <2>0, <2>1, SessionParts DEF SessionFields
  <2> QED BY <2>2, <2>3, <2>5
<1> HIDE DEF s, msg
<1>9. Becomes(s, msg) /\ JobIs("commit", "git", msg)
  BY <1>8, RunGitIs
<1> QED BY <1>1, <1>4, <1>8, <1>9 DEF s, msg, d

\* What condocStartSubstep does.
LEMMA StartSubstepDoes ==
  ASSUME TypeInv, condocStartSubstep
  PROVE  LET n == session.step
             l == pendingSubstepLetter(work, n)
             s == [session EXCEPT !.sub = l, !.letter = 0, !.phase = "StepStarting"]
         IN  /\ s \in SessionFields /\ n \in Steps /\ l \in Letters /\ session.sub = 0
             /\ Becomes(s, About("started", n, l)) /\ JobIs("commit", "git", About("started", n, l))
             /\ work'.main = work.main
             /\ \A x \in Steps, y \in 0 .. MaxLetters :
                   FileOf(work', x, y) =
                       IF x = n /\ y = 0 THEN markSubstepInStepFile(work.stepDoc[n], l)
                       ELSE IF x = n /\ y = l THEN writeStepFile
                       ELSE FileOf(work, x, y)
<1> DEFINE n == session.step
           l == pendingSubstepLetter(work, n)
           s == [session EXCEPT !.sub = l, !.letter = 0, !.phase = "StepStarting"]
           msg == About("started", n, l)
           u == WithFile(work, n, l, writeStepFile)
           d == markSubstepInStepFile(work.stepDoc[n], l)
<1>1. n \in Steps /\ session.file /\ session.sub = 0
  BY AskedOf DEF condocStartSubstep, Asked
<1>2. l \in Letters /\ l # 0 /\ l \in 0 .. MaxLetters
  <2>1. l \in Letters
    BY <1>1, SessionParts, PendingSubstep DEF condocStartSubstep, Asked
  <2> HIDE DEF l
  <2> QED BY <2>1, CondocDocsAssumption DEF Letters
<1>3. DocFits(d)
  BY <1>1, <1>2, SessionParts, Marked DEF TreeFits
<1>4. work' = WithFile(u, n, 0, d)
  BY <1>2 DEF condocStartSubstep, WithFile
<1> HIDE DEF l, d
<1>5. TreeFits(u) /\ u.main = work.main /\ OneFile(u, work, n, l, writeStepFile)
  <2> DEFINE b == writeStepFile
             w == WithFile(work, n, l, b)
  <2>1. DocFits(b) /\ TreeFits(work)
    BY NoDocFits, SessionParts
  <2>2. TreeFits(w) /\ w.main = work.main /\ OneFile(w, work, n, l, b)
    <3> HIDE DEF n, b
    <3> QED BY <1>1, <1>2, <2>1, FileReplaced DEF OneFile
  <2> QED BY <2>2
<1>7. work'.main = u.main /\ OneFile(work', u, n, 0, d)
  <2> DEFINE w == WithFile(u, n, 0, d)
  <2>2. w.main = u.main /\ OneFile(w, u, n, 0, d)
    <3> HIDE DEF n, u
    <3> QED BY <1>1, <1>3, <1>5, Numbers, FileReplaced DEF OneFile
  <2> QED BY <1>4, <2>2
<1>8. s \in SessionFields /\ msg \in Message /\ runGit(s, msg)
  <2>1. "StepStarting" \in CondocPhase /\ "started" \in CommitKind
    BY DEF CondocPhase, CommitKind
  <2>2. runGit(s, msg)
    BY DEF condocStartSubstep, l
  <2>3. msg \in Message
    BY <1>2, <2>1, SessionParts, StringTypes
  <2>5. s \in SessionFields
    BY <1>2, <2>1, SessionParts, Numbers DEF SessionFields
  <2> QED BY <2>2, <2>3, <2>5
<1> HIDE DEF s, msg, u
<1>9. Becomes(s, msg) /\ JobIs("commit", "git", msg)
  BY <1>8, RunGitIs
<1>10. \A x \in Steps, y \in 0 .. MaxLetters :
          FileOf(work', x, y) = IF x = n /\ y = 0 THEN d
                                ELSE IF x = n /\ y = l THEN writeStepFile ELSE FileOf(work, x, y)
  BY <1>2, <1>5, <1>7 DEF OneFile
<1> QED BY <1>1, <1>2, <1>5, <1>7, <1>8, <1>9, <1>10 DEF s, msg, d, l

\* A retry or a revert begins: its job has these parts.
TakeIs(does, msg, target, doc, revert) ==
    /\ JobIs("take", does, msg)
    /\ jobs'[Me].target = target /\ jobs'[Me].doc = doc /\ jobs'[Me].revert = revert

\* What condocRunRetry does.
LEMMA RunRetryDoes ==
  ASSUME TypeInv, condocRunRetry
  PROVE  LET r == PendingRetry(activeDoc)
             s == [session EXCEPT !.takes = @ + 1, !.letter = r.letter, !.phase = "RunningAgent"]
         IN  /\ session.step \in Steps
             /\ Becomes(s, session.last) /\ session'.letter = r.letter /\ session'.phase = "RunningAgent"
             /\ TakeIs("retry", About("took", session.step, session.sub), retryTarget(r),
                       removeHumanPromptSection(activeDoc), NoRevert)
<1> DEFINE r == PendingRetry(activeDoc)
           back == retryFromStepsBack(activeDoc, r.from)
           d == removeHumanPromptSection(activeDoc)
           msg == About("took", session.step, session.sub)
           to == retryTarget(r)
           k == session.takes + 1
           j == [NoJob EXCEPT !.at = "take", !.does = "retry", !.take = k,
                        !.target = to, !.back = back, !.doc = d, !.msg = msg]
           s == [session EXCEPT !.takes = @ + 1, !.letter = r.letter, !.phase = "RunningAgent"]
<1>1. session.step \in Steps
  BY AskedOf DEF condocRunRetry
<1>2. session' = s /\ Runs(j)
  BY DEF condocRunRetry
<1> HIDE DEF d, msg, back, to, r, k
<1>3. NoJob \in Job /\ NoJob.revert = NoRevert
  BY GitJob, StringTypes, SessionParts DEF JobFits, NoJob
<1>4. j.at = "take" /\ j.does = "retry" /\ j.msg = msg /\ j.target = to /\ j.doc = d
      /\ j.revert = NoRevert
  BY <1>3 DEF Job
<1>5. session' \in SessionFields => Becomes(s, session.last) /\ session'.letter = r.letter
                                    /\ session'.phase = "RunningAgent"
  BY <1>2, SessionParts DEF Becomes, SessionFields
<1>6. session' \in SessionFields
  BY RunRetryKeeps DEF TypeInv, SessionFits
<1>7. jobs' = [jobs EXCEPT ![Me] = j]
  BY <1>2 DEF Runs
<1> HIDE DEF j, s
<1>8. TakeIs("retry", msg, to, d, NoRevert)
  BY <1>4, <1>7, MeIs, JobsAre DEF TakeIs, JobIs
<1> QED BY <1>1, <1>5, <1>6, <1>8 DEF s, msg, to, d, r

\* What a revert to a step, a substep or an iteration begins.
LEMMA RevertToDoes ==
  ASSUME TypeInv, NEW r \in Revert, RevertFits(r), r # NoRevert, RevertTo(r)
  PROVE  LET s == [session EXCEPT !.takes = @ + 1, !.phase = "RunningAgent", !.step = r.step,
                                  !.file = TRUE, !.sub = 0, !.subStart = 0, !.letter = 0]
             to == LatestStart(r.step, revertSub(r))
         IN  /\ r.step \in Steps /\ revertSub(r) \in 0 .. MaxLetters
             /\ Becomes(s, session.last) /\ s \in SessionFields
             /\ to \in StartedAt(r.step, revertSub(r)) /\ to \in 1 .. Len(log)
             /\ log[to].msg = About("started", r.step, revertSub(r))
             /\ TakeIs("revert", About("reverted", r.step, revertSub(r)), to,
                       removeHumanPromptSection(FileOf(work, r.step, revertSub(r))), r)
<1> DEFINE d == removeHumanPromptSection(FileOf(work, r.step, revertSub(r)))
           msg == About("reverted", r.step, revertSub(r))
           to == LatestStart(r.step, revertSub(r))
           k == session.takes + 1
           j == [NoJob EXCEPT !.at = "take", !.does = "revert", !.take = k,
                        !.target = to, !.revert = r, !.doc = d, !.msg = msg]
           s == [session EXCEPT !.takes = @ + 1, !.phase = "RunningAgent", !.step = r.step,
                                  !.file = TRUE, !.sub = 0, !.subStart = 0, !.letter = 0]
<1>1. r.step \in Steps /\ revertSub(r) \in 0 .. MaxLetters
  BY Numbers DEF RevertFits, Revert, revertSub
<1>2. session' = s /\ Runs(j) /\ to # 0
  BY DEF RevertTo
<1>3. to \in StartedAt(r.step, revertSub(r)) /\ to \in 1 .. Len(log)
  <2>1. to \in 0 .. Len(log)
    BY LatestStartIs
  <2>2. to \in StartedAt(r.step, revertSub(r))
    BY <1>2, LatestStartIs
  <2> HIDE DEF to
  <2>3. to # 0
    BY <1>2
  <2> QED BY <2>1, <2>2, <2>3, SessionParts
<1>4. log[to].msg = About("started", r.step, revertSub(r))
  <2> HIDE DEF to
  <2> QED BY <1>3 DEF StartedAt
<1> HIDE DEF d, msg, to, k
<1>5. NoJob \in Job
  BY GitJob, StringTypes, SessionParts DEF JobFits
<1>6. j.at = "take" /\ j.does = "revert" /\ j.msg = msg /\ j.target = to /\ j.doc = d
      /\ j.revert = r
  BY <1>5 DEF Job
<1>7. s \in SessionFields
  <2>1. "RunningAgent" \in CondocPhase /\ TRUE \in BOOLEAN /\ r.step \in 0 .. MaxSteps
    BY <1>1, Numbers DEF CondocPhase
  <2>2. session.takes + 1 \in Nat
    BY SessionParts
  <2> QED BY <2>1, <2>2, SessionParts, Numbers DEF SessionFields
<1>8. Becomes(s, session.last)
  BY <1>2, SessionParts DEF Becomes, SessionFields
<1>9. jobs' = [jobs EXCEPT ![Me] = j]
  BY <1>2 DEF Runs
<1> HIDE DEF j, s
<1>10. TakeIs("revert", msg, to, d, r)
  BY <1>6, <1>9, MeIs, JobsAre DEF TakeIs, JobIs
<1> QED BY <1>1, <1>3, <1>4, <1>7, <1>8, <1>10 DEF s, msg, to, d

\* Where condocRevert finds the revert it takes up.
LEMMA RevertDoes ==
  ASSUME TypeInv, condocRevert
  PROVE  /\ session.active /\ session.phase \in {"AwaitingAction", "AwaitingStep", "Proposed"}
         /\ LoopFree
         /\ \E r : /\ r \in Revert /\ RevertFits(r) /\ r # NoRevert /\ RevertTo(r)
                   /\ \/ session.file /\ r = activeDoc.revert
                      \/ r = work.main.revert
<1>1. CASE Ticks("AwaitingAction") /\ session.file /\ activeDoc.revert # NoRevert /\ RevertTo(activeDoc.revert)
  <2>1. activeDoc.revert \in Revert /\ RevertFits(activeDoc.revert)
    BY <1>1, SessionParts, DocParts
  <2> QED BY <1>1, <2>1 DEF Ticks
<1>2. CASE (Ticks("AwaitingStep") \/ Ticks("Proposed")) /\ work.main.revert # NoRevert /\ RevertTo(work.main.revert)
  <2>1. work.main.revert \in Revert /\ RevertFits(work.main.revert)
    BY SessionParts, MainParts
  <2> QED BY <1>2, <2>1 DEF Ticks
<1> QED BY <1>1, <1>2 DEF condocRevert

-----------------------------------------------------------------------------
(* What becomes of the branch.                                             *)

\* A commit on p, with this tree and message.
Recorded(p, t, msg) ==
    /\ Len(log') = Len(log) + 1
    /\ \A i \in 1 .. Len(log) : log'[i] = log[i]
    /\ log'[Len(log) + 1].tree = t /\ log'[Len(log) + 1].msg = msg
    /\ tips'.head = Len(log) + 1 /\ tips'.origin = tips.origin /\ tips'.takes = tips.takes
    /\ \A i \in 0 .. Len(log) : Past(log', i) = Past(log, i)
    /\ Past(log', Len(log) + 1) = {Len(log) + 1} \cup Past(log, p)

NoCommit == log' = log /\ tips' = tips

\* The branches are at commits there are.
LEMMA TipsAre ==
  ASSUME TypeInv
  PROVE  /\ tips.head \in 1 .. Len(log) /\ tips.origin \in 0 .. Len(log)
         /\ tips.takes \in [1 .. MaxAsks -> 0 .. Len(log)]
         /\ tips.head \in 0 .. Len(log) /\ TreeFits(HeadTree) /\ Linked(log)
         /\ DOMAIN log = 1 .. Len(log) /\ Len(log) \in Nat /\ Len(log) >= 1
         /\ \A i \in 1 .. Len(log) : TreeFits(log[i].tree)
<1>1. /\ tips.head \in 1 .. Len(log) /\ tips.origin \in 0 .. Len(log)
      /\ tips.takes \in [1 .. MaxAsks -> 0 .. Len(log)]
  BY DEF TypeInv, TipsFit
<1>2. LogFits(log) /\ Len(log) \in Nat /\ Len(log) >= 1
  BY SameRepoAssumption DEF TypeInv, LogFits
<1>3. tips.head \in 0 .. Len(log)
  BY <1>1, <1>2
<1>4. DOMAIN log = 1 .. Len(log)
  BY <1>2 DEF LogFits, Linked
<1> QED BY <1>1, <1>2, <1>3, <1>4 DEF LogFits, HeadTree

\* What a commit adds to the log.
LEMMA CommitRecorded ==
  ASSUME TypeInv, NEW p \in 0 .. Len(log), NEW t, TreeFits(t), NEW msg \in Message,
         CommitOn(p, t, msg)
  PROVE  Recorded(p, t, msg)
<1>1. log'[Len(log) + 1] = [parent |-> p, tree |-> t, msg |-> msg]
  BY CommitMade
<1>2. log'[Len(log) + 1].tree = t /\ log'[Len(log) + 1].msg = msg
  BY <1>1
<1> QED BY <1>2, CommitMade DEF Recorded

\* A commit of all there is records it, or finds it recorded.
LEMMA CommitAllDoes ==
  ASSUME TypeInv, NEW t, TreeFits(t), NEW msg \in Message, CommitAll(t, msg)
  PROVE  (NoCommit /\ t = HeadTree) \/ Recorded(tips.head, t, msg)
<1>1. CASE t = HeadTree
  BY <1>1 DEF CommitAll, NoCommit
<1>2. CASE t # HeadTree
  <2>1. CommitOn(tips.head, t, msg)
    BY <1>2 DEF CommitAll
  <2> QED BY <2>1, TipsAre, CommitRecorded
<1> QED BY <1>1, <1>2

\* Trouble is counted, and nothing else.
LEMMA TroubleCounts ==
  ASSUME TypeInv, Trouble
  PROVE  /\ counts'.sessions = counts.sessions /\ counts'.asks = counts.asks
         /\ counts'.trouble # 0
<1>1. counts \in [asks : 0 .. MaxAsks, sessions : 1 .. MaxSessions, trouble : 0 .. MaxTrouble]
  BY DEF TypeInv, CountsFit
<1>2. counts.trouble + 1 # 0
  BY <1>1, SameRepoAssumption
<1> QED BY <1>1, <1>2 DEF Trouble

\* What a sequence that stops part way does.
LEMMA ResetBreaksDoes ==
  ASSUME TypeInv, NEW n \in Sessions, ResetBreaks(n)
  PROVE  /\ jobs[n].at = "reset" /\ jobs[n].does \in {"retry", "revert"}
         /\ session' = session /\ log' = log /\ jobs' = Moved(jobs, n, "failed")
         /\ counts'.sessions = counts.sessions /\ counts'.trouble # 0 /\ story \subseteq story'
         /\ "behind" \in story' <=> "behind" \in story
         /\ tips'.head \in 1 .. Len(log) /\ tips'.takes = tips.takes
<1>1. jobs[n].does \in {"retry", "revert"} /\ jobs[n].at = "reset" /\ ResetTo(jobs[n]) # 0
  BY DEF ResetBreaks, TypeInv, JobsFit, JobFits, Staged
<1>2. ResetTo(jobs[n]) \in 1 .. Len(log)
  BY <1>1, ResetIs
<1>3. tips'.head = ResetTo(jobs[n]) /\ tips'.takes = tips.takes
  BY DEF ResetBreaks, TypeInv, TipsFit
<1>4. counts'.sessions = counts.sessions /\ counts'.trouble # 0
  BY TroubleCounts DEF ResetBreaks
<1>5. /\ session' = session /\ log' = log /\ jobs' = Moved(jobs, n, "failed") /\ story \subseteq story'
      /\ "behind" \in story' <=> "behind" \in story
  BY DEF ResetBreaks, Moved
<1> QED BY <1>1, <1>2, <1>3, <1>4, <1>5

\* What a reset does.
LEMMA ResetDoes ==
  ASSUME TypeInv, NEW n \in Sessions, ResetAndRestore(n)
  PROVE  /\ jobs[n].at = "reset" /\ jobs[n].does \in {"retry", "revert"}
         /\ session' = session /\ counts' = counts
         /\ \/ NoCommit /\ work' = work /\ jobs' = Moved(jobs, n, "failed") /\ story' = story
            \/ /\ jobs' = Moved(jobs, n, "force") /\ ResetTo(jobs[n]) \in 1 .. Len(log)
               /\ story' = IF Mislays(jobs[n]) THEN story \cup {"mislaid"} ELSE story
               /\ \E t : (jobs[n].does = "revert" => ~t.lock) /\ Recorded(ResetTo(jobs[n]), t, jobs[n].msg)
<1> DEFINE j == jobs[n]
           on == AfterReset(j).lock /\ j.does = "retry"
           t == [AfterReset(j) EXCEPT !.lock = on]
<1>1. j.does \in {"retry", "revert"} /\ j.at = "reset"
  BY DEF ResetAndRestore, TypeInv, JobsFit, JobFits, Staged
<1>2. CASE ResetTo(j) = 0
  BY <1>1, <1>2 DEF ResetAndRestore, gitVars, Moved, NoCommit
<1>3. CASE ResetTo(j) # 0
  <2>1. ResetTo(j) \in 1 .. Len(log) /\ TreeFits(AfterReset(j))
    BY <1>1, <1>3, ResetIs
  <2>2. TreeFits(t) /\ t.lock = on
    <3>1. on \in BOOLEAN
      OBVIOUS
    <3> HIDE DEF on
    <3> QED BY <2>1, <3>1, LockReplaced
  <2>3. CommitOn(ResetTo(j), t, j.msg) /\ jobs' = Moved(jobs, n, "force")
    BY <1>3 DEF ResetAndRestore, Moved
  <2>4. j.msg \in Message /\ ResetTo(j) \in 0 .. Len(log)
    BY <2>1 DEF TypeInv, JobsFit, Job
  <2>5. j.does = "revert" => ~on
    OBVIOUS
  <2> HIDE DEF t, on
  <2>6. Recorded(ResetTo(j), t, j.msg)
    BY <2>2, <2>3, <2>4, CommitRecorded
  <2>7. story' = IF Mislays(j) THEN story \cup {"mislaid"} ELSE story
    BY <1>3 DEF ResetAndRestore
  <2>8. session' = session /\ counts' = counts
    BY DEF ResetAndRestore
  <2> QED BY <1>1, <2>1, <2>2, <2>3, <2>5, <2>6, <2>7, <2>8
<1> QED BY <1>2, <1>3

\* What the commit of a git sequence does.
LEMMA GitCommitDoes ==
  ASSUME TypeInv, NEW n \in Sessions, GitCommit(n)
  PROVE  /\ jobs[n].at = "commit" /\ jobs[n].does = "git" /\ jobs' = Moved(jobs, n, "push")
         /\ UNCHANGED <<session, work, seen, counts, story>>
         /\ (NoCommit /\ work = HeadTree) \/ Recorded(tips.head, work, jobs[n].msg)
<1>1. jobs[n].msg \in Message
  BY JobsAre
<1>2. CommitAll(work, jobs[n].msg) /\ jobs[n].at = "commit"
  BY DEF GitCommit
<1>3. jobs[n].does = "git"
  BY <1>2, JobsAre DEF JobFits, Staged
<1> QED BY <1>1, <1>2, <1>3, SessionParts, CommitAllDoes DEF GitCommit, Moved

\* What a pass of condoccer does.
LEMMA LockDoes ==
  ASSUME TypeInv, TypeInv', LockPass
  PROVE  /\ UNCHANGED <<session, jobs>> /\ counts'.sessions = counts.sessions
         /\ counts' = counts \/ counts'.trouble # 0
         /\ story' \in {story, story \cup {"relocked"}}
         /\ work'.main = work.main /\ SameFiles(work', work)
         /\ work'.lock => work.lock \/ "relocked" \in story' \/ ~Safe(detectPhase(work))
         /\ \/ NoCommit
            \/ \E t : SameFiles(t, HeadTree) /\ Recorded(tips.head, t, About("lock", 0, 0))
<1>1. CASE updateCondocLock
  BY <1>1 DEF updateCondocLock, gitVars, NoCommit, SameFiles
<1>2. CASE LockGivenUp
  <2>1. UNCHANGED <<session, jobs, work, log, tips, story>> /\ Trouble
    BY <1>2 DEF LockGivenUp, gitVars
  <2>2. counts'.sessions = counts.sessions /\ counts'.trouble # 0
    BY <2>1, TroubleCounts
  <2> QED BY <2>1, <2>2 DEF NoCommit, SameFiles
<1>3. CASE changeCondocLock
  <2>1. /\ UNCHANGED <<session, jobs, log, tips, counts>> /\ work' = [work EXCEPT !.lock = seen.on]
        /\ story' = IF seen.on /\ Safe(detectPhase(work)) THEN story \cup {"relocked"} ELSE story
    BY <1>3 DEF changeCondocLock
  <2>2. seen.on \in BOOLEAN
    BY DEF TypeInv, CountsFit, Seen
  <2>3. work'.main = work.main /\ SameFiles(work', work) /\ work'.lock = seen.on
    BY <2>1, <2>2, SessionParts, LockReplaced DEF SameFiles, FileOf
  <2>4. work'.lock => "relocked" \in story' \/ ~Safe(detectPhase(work))
    BY <2>1, <2>3
  <2> QED BY <2>1, <2>3, <2>4 DEF NoCommit
<1>4. CASE commitCondocLock
  <2>1. UNCHANGED <<session, jobs, work, counts, story>> /\ SameFiles(work', work)
    BY <1>4 DEF commitCondocLock, SameFiles
  <2>2. NoCommit \/ CommitOn(tips.head, [HeadTree EXCEPT !.lock = work.lock], About("lock", 0, 0))
    BY <1>4 DEF commitCondocLock, NoCommit
  <2>3. ASSUME CommitOn(tips.head, [HeadTree EXCEPT !.lock = work.lock], About("lock", 0, 0))
        PROVE  \E t : SameFiles(t, HeadTree) /\ Recorded(tips.head, t, About("lock", 0, 0))
    <3> DEFINE t == [HeadTree EXCEPT !.lock = work.lock]
               msg == About("lock", 0, 0)
    <3>1. work.lock \in BOOLEAN
      BY DEF TypeInv, TreeFits, Tree
    <3>2. TreeFits(t) /\ SameFiles(t, HeadTree)
      BY <3>1, TipsAre, LockReplaced DEF SameFiles, FileOf
    <3>3. msg \in Message
      <4>1. "lock" \in CommitKind
        BY DEF CommitKind
      <4> QED BY <4>1, StringTypes, Numbers
    <3>4. CommitOn(tips.head, t, msg)
      BY <2>3
    <3> HIDE DEF t, msg
    <3>5. Recorded(tips.head, t, msg)
      BY <3>2, <3>3, <3>4, TipsAre, CommitRecorded
    <3> QED BY <3>2, <3>5 DEF msg
  <2> QED BY <2>1, <2>2, <2>3
<1> QED BY <1>1, <1>2, <1>3, <1>4 DEF LockPass

\* What the human hands off again is committed first, as it stands.
LEMMA ResubmitDoes ==
  ASSUME TypeInv, Resubmit
  PROVE  LET n == work.main.step
             sub == detectPhase(work).sub
         IN  /\ UNCHANGED <<session, jobs, story>> /\ counts'.trouble = counts.trouble
             /\ counts'.sessions = counts.sessions /\ n \in Steps /\ sub \in 0 .. MaxLetters
             /\ (NoCommit /\ work = HeadTree) \/ Recorded(tips.head, work, About("recovery", 0, 0))
             /\ work'.main = work.main /\ work'.lock = work.lock /\ ~work.main.completed
             /\ \E d : /\ DocFits(d) /\ Alike(d, FileOf(work, n, sub)) /\ Acting(d)
                       /\ OneFile(work', work, n, sub, d)
<1> DEFINE n == work.main.step
           sub == detectPhase(work).sub
           f == FileOf(work, n, sub)
           x == f.directives \cup {"handoff"}
           d == [f EXCEPT !.directives = x]
           u == WithFile(work, n, sub, d)
           msg == About("recovery", 0, 0)
<1>1. n \in Steps /\ sub \in 0 .. MaxLetters /\ TreeFits(work)
  BY SessionParts, MainParts, PhaseSeen, Numbers DEF Resubmit
<1>2. DocFits(f)
  BY <1>1, FileFits
<1>3. x \in SUBSET Directive /\ "handoff" \in x
  BY <1>2, DocParts DEF Directive
<1>4. work' = u /\ CommitAll(work, msg)
  BY DEF Resubmit
<1>5. UNCHANGED <<session, jobs, story>> /\ ~work.main.completed
  BY DEF Resubmit
<1>6. counts'.trouble = counts.trouble /\ counts'.sessions = counts.sessions
  BY DEF Resubmit, Asks, TypeInv, CountsFit
<1> HIDE DEF n, sub, f, x
<1>7. DocFits(d) /\ Alike(d, f) /\ d.directives = x
  BY <1>2, <1>3, Directed DEF Alike
<1>8. Acting(d)
  BY <1>3, <1>7 DEF Acting
<1> HIDE DEF d
<1>9. u.main = work.main /\ u.lock = work.lock /\ OneFile(u, work, n, sub, d)
  BY <1>1, <1>7, FileReplaced DEF OneFile
<1> HIDE DEF u
<1>10. msg \in Message
  <2>1. "recovery" \in CommitKind
    BY DEF CommitKind
  <2> QED BY <2>1, StringTypes, Numbers
<1> HIDE DEF msg
<1>11. (NoCommit /\ work = HeadTree) \/ Recorded(tips.head, work, msg)
  BY <1>1, <1>4, <1>10, CommitAllDoes
<1> QED BY <1>1, <1>4, <1>5, <1>6, <1>7, <1>8, <1>9, <1>11 DEF n, sub, f, msg

\* What has been committed stays.
LogStays == \A i \in 1 .. Len(log) : i \in 1 .. Len(log') /\ log'[i] = log[i]

\* A commit leaves those before it and their histories as they were.
LEMMA RecordedStays ==
  ASSUME TypeInv, NEW p, NEW t, NEW msg, Recorded(p, t, msg)
  PROVE  LogStays
  BY SessionParts DEF LogStays, Recorded

\* So does what makes none.
LEMMA NoCommitStays ==
  ASSUME TypeInv, log' = log
  PROVE  LogStays
  BY DEF LogStays

\* So does every step.
LEMMA LogStaysNext ==
  ASSUME TypeInv, TypeInv', SameRepoNext
  PROVE  LogStays
<1>1. CASE HandlerTick
  <2>1. log' = log
    BY <1>1 DEF HandlerTick, HandlerRest, condocAcceptProposal, condocStartStep, condocCompleteCondoc,
       condocForceComplete, condocRetryFailedGit, condocCompleteSubstep, condocCompleteStep,
       condocRunRevision, condocStartSubstep, condocRunRetry, condocRevert, RevertTo
  <2> QED BY <2>1, NoCommitStays
<1>2. ASSUME NEW n \in Sessions, JobStep(n) \/ GitFails(n) \/ ResetBreaks(n) \/ StartUnread(n)
      PROVE  LogStays
  <2>1. CASE ResetAndRestore(n)
    BY <2>1, ResetDoes, RecordedStays, NoCommitStays DEF NoCommit
  <2>2. CASE GitCommit(n)
    BY <2>2, GitCommitDoes, RecordedStays, NoCommitStays DEF NoCommit
  <2>3. CASE ~ResetAndRestore(n) /\ ~GitCommit(n)
    <3>1. log' = log
      BY <1>2, <2>3 DEF JobStep, GitFails, ResetBreaks, StartUnread, PushTake, ForcePush, GitPush, AgentExits, handleCondocGitDone,
         handleCondocRetryReady, handleCondocRevertDone, handleCondocAgentDone, gitVars
    <3> QED BY <3>1, NoCommitStays
  <2> QED BY <2>1, <2>2, <2>3
<1>3. CASE exitCondoc \/ loadCondocSession
  <2>1. log' = log
    BY <1>3 DEF exitCondoc, loadCondocSession, gitVars
  <2> QED BY <2>1, NoCommitStays
<1>4. CASE LockPass
  BY <1>4, LockDoes, RecordedStays, NoCommitStays DEF NoCommit
<1>5. CASE HumanAsks
  <2>1. CASE Resubmit
    BY <2>1, ResubmitDoes, RecordedStays, NoCommitStays DEF NoCommit
  <2>2. CASE ~Resubmit
    <3>1. log' = log
      BY <1>5, <2>2 DEF HumanAsks, AskOfMain, AskToComplete, AskForIteration, AskToRevert, AskToForce, OthersRest
    <3> QED BY <3>1, NoCommitStays
  <2> QED BY <2>1, <2>2
<1> QED BY <1>1, <1>2, <1>3, <1>4, <1>5 DEF SameRepoNext

-----------------------------------------------------------------------------
(* One session at a time: what it waits for is its own.                    *)

\* While the session waits for the human nothing is under way.
LEMMA NothingUnderWay ==
  ASSUME TypeInv, Orderly, session.active,
         session.phase \in {"Proposed", "AwaitingStep", "AwaitingAction", "GitFailed"}
  PROVE  \A n \in Sessions : jobs[n].at = "none"
<1>1. ~Serves(session, jobs[Me])
  BY DEF Serves, GitPhases
<1>2. jobs[Me].at = "none"
  BY <1>1 DEF Orderly
<1> QED BY <1>2 DEF Orderly

\* A job that is under way is that of the session at hand.
LEMMA MineOnly ==
  ASSUME Orderly, NEW n \in Sessions, jobs[n].at # "none"
  PROVE  n = Me
  BY DEF Orderly

\* What a step of one session's has to keep.
LEMMA OrderHolds ==
  ASSUME TypeInv, Orderly, LogStays, counts'.sessions = counts.sessions,
         \A n \in Sessions : n # Me => jobs'[n] = jobs[n],
         JobInOrder(jobs'[Me], log),
         session'.active => SessionInOrder(session'),
         session'.active /\ jobs'[Me].at # "none" => Serves(session', jobs'[Me])
  PROVE  Orderly'
<1>1. Me' = Me
  BY DEF Me
<1>2. \A n \in Sessions : JobInOrder(jobs'[n], log)
  BY DEF Orderly
<1>3. ASSUME NEW j, JobInOrder(j, log) PROVE JobInOrder(j, log')
  <2>1. DOMAIN log = 1 .. Len(log) /\ \A i \in 1 .. Len(log) : i \in DOMAIN log' /\ log'[i] = log[i]
    <3>1. Len(log') \in Nat
      BY DEF LogStays
    <3> QED BY TipsAre DEF LogStays
  <2> QED BY <1>3, <2>1 DEF JobInOrder
<1>4. \A n \in Sessions : jobs'[n].at # "none" => n = Me
  BY DEF Orderly
<1> QED BY <1>1, <1>2, <1>3, <1>4 DEF Orderly

\* A message of a commit.
MsgInOrder(m) == m.kind \in GitKinds /\ (m.kind = "started" => m.step \in Steps)

\* The handler's turn starts a git sequence.
LEMMA GitTurn ==
  ASSUME TypeInv, Orderly, LogStays, counts'.sessions = counts.sessions,
         NEW m, JobIs("commit", "git", m), MsgInOrder(m), session'.last = m,
         session'.active => SessionInOrder(session') /\ session'.phase \in GitPhases
  PROVE  Orderly'
<1>1. JobInOrder(jobs'[Me], log)
  BY DEF JobIs, JobInOrder, MsgInOrder
<1>2. session'.active => Serves(session', jobs'[Me])
  BY DEF JobIs, Serves
<1> QED BY <1>1, <1>2, OrderHolds DEF JobIs

\* The messages git sequences commit.
LEMMA MessagesInOrder ==
  ASSUME NEW k \in GitKinds, NEW s, NEW l, k = "started" => s \in Steps
  PROVE  MsgInOrder(About(k, s, l)) /\ About(k, s, l).kind = k /\ About(k, s, l).step = s
  BY DEF About, MsgInOrder

\* A tick keeps the order: the session begins one thing, and is free to.
LEMMA TickKeepsOrder ==
  ASSUME TypeInv, Orderly, HandlerTick
  PROVE  Orderly'
<1>0. LogStays /\ counts' = counts
  <2>1. log' = log /\ counts' = counts
    BY DEF HandlerTick, HandlerRest, condocAcceptProposal, condocStartStep, condocCompleteCondoc,
       condocForceComplete, condocRetryFailedGit, condocCompleteSubstep, condocCompleteStep,
       condocRunRevision, condocStartSubstep, condocRunRetry, condocRevert, RevertTo
  <2> QED BY <2>1, NoCommitStays
<1>s. session \in SessionFields
  BY SessionParts
<1>1. CASE condocAcceptProposal
  <2> DEFINE s == [session EXCEPT !.phase = "Branching"]
             m == About("accepted", 1, 0)
  <2>1. Becomes(s, m) /\ JobIs("commit", "git", m)
    BY <1>1, AcceptDoes
  <2>2. MsgInOrder(m) /\ m.kind = "accepted" /\ m.kind \in GitKinds
    BY MessagesInOrder DEF GitKinds
  <2>3. session.active /\ session.phase = "Proposed" /\ SessionInOrder(session)
    BY <1>1 DEF condocAcceptProposal, Ticks, Orderly
  <2>4. /\ s.phase = "Branching" /\ s.file = session.file /\ s.sub = session.sub
        /\ s.failed = session.failed /\ s.next = session.next
    BY <1>s DEF SessionFields
  <2> HIDE DEF s, m
  <2>5. SessionInOrder(session') /\ session'.phase \in GitPhases
    BY <2>1, <2>2, <2>3, <2>4 DEF Becomes, SessionInOrder, Starting, IsAt, GitPhases
  <2> QED BY <1>0, <2>1, <2>2, <2>5, GitTurn DEF Becomes
<1>2. CASE condocStartStep
  <2> DEFINE n == work.main.step
             s == [session EXCEPT !.step = n, !.file = TRUE, !.letter = 0, !.phase = "StepStarting"]
             m == About("started", n, 0)
  <2>1. Becomes(s, m) /\ JobIs("commit", "git", m) /\ n \in Steps
    BY <1>2, StartStepDoes
  <2>2. MsgInOrder(m) /\ m.kind \in GitKinds /\ m.kind = "started" /\ m.step = n
    BY <2>1, MessagesInOrder DEF GitKinds
  <2>3. session.active /\ session.phase = "AwaitingStep" /\ SessionInOrder(session)
    BY <1>2 DEF condocStartStep, Ticks, Orderly
  <2>4. /\ s.phase = "StepStarting" /\ s.file /\ s.sub = session.sub /\ s.step = n
        /\ s.failed = session.failed /\ s.next = session.next
    BY <1>s DEF SessionFields
  <2>5. session.sub = 0
    BY <2>3 DEF SessionInOrder
  <2>6. m = About("started", session'.step, session'.sub)
    BY <2>1, <2>4, <2>5 DEF Becomes
  <2> HIDE DEF s, m, n
  <2>7. SessionInOrder(session') /\ session'.phase \in GitPhases
    BY <2>1, <2>2, <2>3, <2>4, <2>6 DEF Becomes, SessionInOrder, Starting, IsAt, GitPhases
  <2> QED BY <1>0, <2>1, <2>2, <2>7, GitTurn DEF Becomes
<1>3. CASE condocCompleteCondoc \/ condocForceComplete
  <2> DEFINE s == [session EXCEPT !.active = FALSE]
             m == About("completed", session.step, 0)
  <2>1. Becomes(s, m) /\ JobIs("commit", "git", m)
    BY <1>3, FinishDoes, ForceCompleteDoes, SessionParts DEF condocCompleteCondoc
  <2>2. MsgInOrder(m)
    BY MessagesInOrder DEF GitKinds
  <2>3. ~s.active
    BY <1>s DEF SessionFields
  <2> HIDE DEF s, m
  <2> QED BY <1>0, <2>1, <2>2, <2>3, GitTurn DEF Becomes
<1>5. CASE condocRetryFailedGit
  <2> DEFINE s == [session EXCEPT !.phase = session.failed]
             m == session.last
  <2>1. Becomes(s, m) /\ JobIs("commit", "git", m) /\ session.phase = "GitFailed" /\ session.active
    BY <1>5, RetryGitDoes
  <2>2. SessionInOrder(session)
    BY <2>1 DEF Orderly
  <2>3. /\ s.phase = session.failed /\ s.file = session.file /\ s.sub = session.sub
        /\ s.step = session.step /\ s.failed = session.failed /\ s.next = session.next
    BY <1>s DEF SessionFields
  <2> HIDE DEF s
  <2>4. SessionInOrder(session') /\ session'.phase \in GitPhases /\ MsgInOrder(m)
    BY <2>1, <2>2, <2>3 DEF Becomes, SessionInOrder, Starting, IsAt, GitPhases, MsgInOrder
  <2> QED BY <1>0, <2>1, <2>4, GitTurn DEF Becomes
<1>6. CASE condocCompleteSubstep
  <2> DEFINE n == session.step
             l == session.sub
             s == [session EXCEPT !.sub = 0, !.subStart = 0, !.letter = 0,
                                  !.phase = "Committing", !.next = "AwaitingAction"]
             m == About("closed", n, l)
  <2>1. Becomes(s, m) /\ JobIs("commit", "git", m)
    BY <1>6, CompleteSubstepDoes
  <2>2. MsgInOrder(m) /\ m.kind \in GitKinds /\ m.kind = "closed"
    BY MessagesInOrder DEF GitKinds
  <2>3. SessionInOrder(session)
    BY <1>6, AskedOf DEF condocCompleteSubstep, Orderly
  <2>4. /\ s.phase = "Committing" /\ s.sub = 0
        /\ s.failed = session.failed /\ s.next = "AwaitingAction"
    BY <1>s DEF SessionFields
  <2> HIDE DEF s, m, n, l
  <2>7. SessionInOrder(session') /\ session'.phase \in GitPhases
    BY <2>1, <2>2, <2>3, <2>4 DEF Becomes, SessionInOrder, Starting, IsAt, GitPhases
  <2> QED BY <1>0, <2>1, <2>2, <2>7, GitTurn DEF Becomes
<1>7. CASE condocCompleteStep
  <2> DEFINE n == session.step
             s == [session EXCEPT !.phase = "Committing", !.next = "AwaitingStep",
                                  !.file = FALSE, !.step = @ + 1]
             m == About("closed", n, 0)
  <2>1. Becomes(s, m) /\ JobIs("commit", "git", m) /\ session.sub = 0
    BY <1>7, CompleteStepDoes
  <2>2. MsgInOrder(m) /\ m.kind \in GitKinds /\ m.kind = "closed"
    BY MessagesInOrder DEF GitKinds
  <2>3. SessionInOrder(session)
    BY <1>7, AskedOf DEF condocCompleteStep, Orderly
  <2>4. /\ s.phase = "Committing" /\ s.sub = session.sub /\ ~s.file
        /\ s.failed = session.failed /\ s.next = "AwaitingStep"
    BY <1>s DEF SessionFields
  <2> HIDE DEF s, m, n
  <2>7. SessionInOrder(session') /\ session'.phase \in GitPhases
    BY <2>1, <2>2, <2>3, <2>4 DEF Becomes, SessionInOrder, Starting, IsAt, GitPhases
  <2> QED BY <1>0, <2>1, <2>2, <2>7, GitTurn DEF Becomes
<1>8. CASE condocRunRevision
  <2> DEFINE s == [session EXCEPT !.letter = pendingRevisionLetter(activeDoc), !.phase = "HumanCommitting"]
             m == About("prompt", session.step, session.sub)
  <2>1. Becomes(s, m) /\ JobIs("commit", "git", m)
    BY <1>8, RunRevisionDoes
  <2>2. MsgInOrder(m) /\ m.kind \in GitKinds /\ m.kind = "prompt"
    BY MessagesInOrder DEF GitKinds
  <2>3. SessionInOrder(session)
    BY <1>8, AskedOf DEF condocRunRevision, Orderly
  <2>4. s.phase = "HumanCommitting" /\ s.failed = session.failed /\ s.next = session.next
    BY <1>s DEF SessionFields
  <2> HIDE DEF s, m
  <2>7. SessionInOrder(session') /\ session'.phase \in GitPhases
    BY <2>1, <2>2, <2>3, <2>4 DEF Becomes, SessionInOrder, Starting, IsAt, GitPhases
  <2> QED BY <1>0, <2>1, <2>2, <2>7, GitTurn DEF Becomes
<1>9. CASE condocStartSubstep
  <2> DEFINE n == session.step
             l == pendingSubstepLetter(work, n)
             s == [session EXCEPT !.sub = l, !.letter = 0, !.phase = "StepStarting"]
             m == About("started", n, l)
  <2>1. Becomes(s, m) /\ JobIs("commit", "git", m) /\ n \in Steps /\ session.file
    BY <1>9, StartSubstepDoes, AskedOf DEF condocStartSubstep
  <2>2. MsgInOrder(m) /\ m.kind \in GitKinds /\ m.kind = "started" /\ m.step = n
    BY <2>1, MessagesInOrder DEF GitKinds
  <2>3. SessionInOrder(session)
    BY <1>9, AskedOf DEF condocStartSubstep, Orderly
  <2>4. /\ s.phase = "StepStarting" /\ s.file = session.file /\ s.sub = l /\ s.step = n
        /\ s.failed = session.failed /\ s.next = session.next
    BY <1>s DEF SessionFields
  <2>6. m = About("started", session'.step, session'.sub)
    BY <2>1, <2>4 DEF Becomes
  <2> HIDE DEF s, m, n, l
  <2>7. SessionInOrder(session') /\ session'.phase \in GitPhases
    BY <2>1, <2>2, <2>3, <2>4, <2>6 DEF Becomes, SessionInOrder, Starting, IsAt, GitPhases
  <2> QED BY <1>0, <2>1, <2>2, <2>7, GitTurn DEF Becomes
<1>10. CASE condocRunRetry
  <2> DEFINE r == PendingRetry(activeDoc)
             s == [session EXCEPT !.takes = @ + 1, !.letter = r.letter, !.phase = "RunningAgent"]
             m == About("took", session.step, session.sub)
  <2>1. Becomes(s, session.last) /\ JobIs("take", "retry", m)
    BY <1>10, RunRetryDoes DEF TakeIs
  <2>2. m.kind = "took"
    BY DEF About
  <2>3. SessionInOrder(session)
    BY <1>10, AskedOf DEF condocRunRetry, Orderly
  <2>4. s.phase = "RunningAgent" /\ s.failed = session.failed /\ s.next = session.next
    BY <1>s DEF SessionFields
  <2> HIDE DEF s, m
  <2>5. JobInOrder(jobs'[Me], log) /\ Serves(session', jobs'[Me])
    BY <2>1, <2>2, <2>4 DEF JobIs, JobInOrder, Serves, Becomes
  <2>7. SessionInOrder(session')
    BY <2>1, <2>3, <2>4 DEF Becomes, SessionInOrder, Starting, IsAt
  <2> QED BY <1>0, <2>1, <2>5, <2>7, OrderHolds DEF JobIs
<1>11. CASE condocRevert
  <2>1. PICK r : r \in Revert /\ RevertFits(r) /\ r # NoRevert /\ RevertTo(r)
    BY <1>11, RevertDoes
  <2> DEFINE s == [session EXCEPT !.takes = @ + 1, !.phase = "RunningAgent", !.step = r.step,
                                  !.file = TRUE, !.sub = 0, !.subStart = 0, !.letter = 0]
             to == LatestStart(r.step, revertSub(r))
             m == About("reverted", r.step, revertSub(r))
  <2>2. /\ Becomes(s, session.last) /\ JobIs("take", "revert", m) /\ to \in 1 .. Len(log)
        /\ log[to].msg = About("started", r.step, revertSub(r)) /\ jobs'[Me].target = to
    BY <2>1, RevertToDoes DEF TakeIs
  <2>3. m.kind = "reverted" /\ m.step = r.step /\ m.sub = revertSub(r)
    BY DEF About
  <2>4. session.active /\ SessionInOrder(session)
    BY <1>11, RevertDoes DEF Orderly
  <2>5. /\ s.phase = "RunningAgent" /\ s.failed = session.failed /\ s.next = session.next
        /\ s.file /\ s.step = r.step
    BY <1>s DEF SessionFields
  <2>6. DOMAIN log = 1 .. Len(log)
    BY TipsAre
  <2> HIDE DEF s, m, to
  <2>7. JobInOrder(jobs'[Me], log) /\ Serves(session', jobs'[Me])
    BY <2>2, <2>3, <2>5, <2>6 DEF JobIs, JobInOrder, Serves, Becomes
  <2>8. SessionInOrder(session')
    BY <2>2, <2>4, <2>5 DEF Becomes, SessionInOrder, Starting, IsAt
  <2> QED BY <1>0, <2>2, <2>7, <2>8, OrderHolds DEF JobIs
<1> QED BY <1>1, <1>2, <1>3, <1>5, <1>6, <1>7, <1>8, <1>9, <1>10, <1>11 DEF HandlerTick

\* A job that goes on is the same job.
LEMMA MovedInOrder ==
  ASSUME TypeInv, Orderly, LogStays, counts'.sessions = counts.sessions, session' = session,
         NEW n \in Sessions, jobs[n].at # "none", Staged(jobs'[n].at, jobs[n].does),
         NEW a \in {"none", "commit", "push", "run", "take", "reset", "force", "done", "failed"},
         jobs' = Moved(jobs, n, a)
  PROVE  Orderly'
<1>1. n = Me /\ Me \in Sessions
  BY MineOnly
<1>2. jobs'[n].at = a
  BY JobsAre DEF Moved, Job
<1>3. /\ jobs'[n].does = jobs[n].does /\ jobs'[n].msg = jobs[n].msg
      /\ jobs'[n].target = jobs[n].target
      /\ \A m \in Sessions \ {n} : jobs'[m] = jobs[m]
  BY <1>2, JobMoved DEF TypeInv
<1>4. JobInOrder(jobs'[Me], log)
  BY <1>1, <1>3 DEF Orderly, JobInOrder
<1>5. session'.active => SessionInOrder(session') /\ Serves(session', jobs'[Me])
  BY <1>1, <1>3 DEF Orderly, Serves
<1> QED BY <1>1, <1>3, <1>4, <1>5, OrderHolds

\* So does every stage of what is under way.
LEMMA StagesKeepOrder ==
  ASSUME TypeInv, TypeInv', Orderly, NEW n \in Sessions,
         PushTake(n) \/ ResetAndRestore(n) \/ ForcePush(n) \/ GitCommit(n) \/ GitPush(n)
             \/ AgentExits(n) \/ GitFails(n) \/ ResetBreaks(n)
  PROVE  Orderly'
<1>1. LogStays
  <2>1. SameRepoNext
    BY DEF SameRepoNext, JobStep
  <2> QED BY <2>1, LogStaysNext
<1>2. /\ counts'.sessions = counts.sessions /\ session' = session /\ jobs[n].at # "none"
      /\ \E a \in {"reset", "failed", "force", "done", "push"} :
            jobs' = Moved(jobs, n, a) /\ Staged(a, jobs[n].does)
  <2>0. Staged(jobs[n].at, jobs[n].does) /\ \A d : Staged("failed", d) /\ Staged("done", d)
    BY JobsAre DEF JobFits, Staged
  <2>1. CASE PushTake(n)
    <3>1. jobs[n].does \in {"retry", "revert"} /\ Staged("reset", jobs[n].does)
      BY <2>0, <2>1 DEF PushTake, Staged
    <3> QED BY <2>0, <2>1, <3>1 DEF PushTake, Moved
  <2>2. CASE ResetAndRestore(n)
    <3>1. Staged("force", jobs[n].does) /\ counts' = counts /\ session' = session
      BY <2>2, ResetDoes DEF Staged
    <3> QED BY <2>0, <2>2, <3>1, ResetDoes
  <2>3. CASE ForcePush(n) \/ AgentExits(n)
    BY <2>0, <2>3 DEF ForcePush, AgentExits, Moved
  <2>4. CASE GitCommit(n)
    <3>1. Staged("push", jobs[n].does)
      BY <2>4, GitCommitDoes DEF Staged
    <3> QED BY <2>4, <3>1, GitCommitDoes
  <2>5. CASE GitPush(n)
    BY <2>0, <2>5 DEF GitPush, Moved
  <2>6. CASE GitFails(n)
    <3>1. counts'.sessions = counts.sessions
      BY <2>6, TroubleCounts DEF GitFails
    <3> QED BY <2>0, <2>6, <3>1 DEF GitFails, Moved
  <2>7. CASE ResetBreaks(n)
    BY <2>0, <2>7, ResetBreaksDoes
  <2> QED BY <2>1, <2>2, <2>3, <2>4, <2>5, <2>6, <2>7
<1>3. PICK a \in {"reset", "failed", "force", "done", "push"} :
          jobs' = Moved(jobs, n, a) /\ Staged(a, jobs[n].does)
  BY <1>2
<1>4. jobs'[n].at = a
  BY <1>3, JobsAre DEF Moved, Job
<1> QED BY <1>1, <1>2, <1>3, <1>4, MovedInOrder

-----------------------------------------------------------------------------
(* What the messages of a job's end do.                                    *)

\* The job is over, or the agent runs in its place.
Ended(n) == /\ jobs'[n].at = "none" /\ jobs'[n].does = "git" /\ jobs'[n].msg = NoMsg
            /\ \A m \in Sessions : m # n => jobs'[m] = jobs[m]
AgentOn(n) == /\ jobs'[n].at = "run" /\ jobs'[n].does = "agent"
              /\ \A m \in Sessions : m # n => jobs'[m] = jobs[m]

\* What is left of a job when its message is taken, or the agent runs next.
LEMMA EndedIs ==
  ASSUME TypeInv, NEW n \in Sessions
  PROVE  (Taken(n) => Ended(n)) /\ (AgentRuns(n) => AgentOn(n))
<1> DEFINE a == [NoJob EXCEPT !.at = "run", !.does = "agent"]
<1>1. NoJob.at = "none" /\ NoJob.does = "git" /\ NoJob.msg = NoMsg
  BY DEF NoJob, NoMsg
<1>2. a.at = "run" /\ a.does = "agent"
  BY SessionParts, AgentJob
<1> HIDE DEF a
<1>3. jobs \in [Sessions -> Job]
  BY JobsAre
<1>4. Taken(n) => jobs' = [jobs EXCEPT ![n] = NoJob]
  BY DEF Taken
<1>5. AgentRuns(n) => jobs' = [jobs EXCEPT ![n] = a]
  BY DEF AgentRuns, a
<1> QED BY <1>1, <1>2, <1>3, <1>4, <1>5 DEF Ended, AgentOn

\* What a message leaves of the session.
Waits(failed, phase, step, start, subStart) ==
    /\ session'.failed = failed /\ session'.phase = phase /\ session'.step = step
    /\ session'.start = start /\ session'.subStart = subStart
    /\ session'.active = session.active /\ session'.file = session.file
    /\ session'.sub = session.sub /\ session'.last = session.last
    /\ session'.next = session.next /\ session'.letter = session.letter

\* What handleCondocGitDone does.
LEMMA GitDoneDoes ==
  ASSUME TypeInv, NEW n \in Sessions, handleCondocGitDone(n)
  PROVE  LET s == session IN
         /\ jobs[n].does = "git" /\ jobs[n].at \in {"done", "failed"}
         /\ UNCHANGED <<work, log, tips, seen, counts, story>>
         /\ \/ ~s.active /\ session' = session /\ Ended(n)
            \/ /\ s.active /\ jobs[n].at = "failed" /\ Ended(n)
               /\ \/ /\ s.phase \in {"StepStarting", "HumanCommitting", "Committing"}
                     /\ Waits(s.phase, "GitFailed", s.step, s.start, s.subStart)
                  \/ /\ s.phase \notin {"StepStarting", "HumanCommitting", "Committing"}
                     /\ Waits(s.failed, "AwaitingStep", s.step, s.start, s.subStart)
            \/ /\ s.active /\ jobs[n].at = "done"
               /\ \/ /\ s.phase = "Branching" /\ Ended(n)
                     /\ Waits(s.failed, "AwaitingStep", 1, s.start, s.subStart)
                  \/ /\ s.phase = "StepStarting" /\ AgentOn(n) /\ s.sub # 0
                     /\ Waits(s.failed, "RunningAgent", s.step, s.start, tips.head)
                  \/ /\ s.phase = "StepStarting" /\ AgentOn(n) /\ s.sub = 0
                     /\ Waits(s.failed, "RunningAgent", s.step, tips.head, s.subStart)
                  \/ /\ s.phase = "HumanCommitting" /\ AgentOn(n)
                     /\ Waits(s.failed, "RunningAgent", s.step, s.start, s.subStart)
                  \/ /\ s.phase = "Committing" /\ Ended(n)
                     /\ Waits(s.failed, s.next, s.step, s.start, s.subStart)
                  \/ s.phase \notin GitPhases /\ session' = session /\ Ended(n)
<1>1. session \in SessionFields
  BY SessionParts
<1>2. jobs[n].does = "git" /\ jobs[n].at \in {"done", "failed"}
      /\ UNCHANGED <<work, log, tips, seen, counts, story>>
  BY DEF handleCondocGitDone, Arrives, gitVars
<1>3. CASE ~session.active
  BY <1>2, <1>3, EndedIs DEF handleCondocGitDone
<1>4. CASE session.active /\ jobs[n].at = "failed"
  <2>1. Ended(n)
    BY <1>4, EndedIs DEF handleCondocGitDone
  <2>2. session' = IF session.phase \in {"StepStarting", "HumanCommitting", "Committing"}
                   THEN [session EXCEPT !.failed = session.phase, !.phase = "GitFailed"]
                   ELSE [session EXCEPT !.phase = "AwaitingStep"]
    BY <1>4 DEF handleCondocGitDone
  <2> QED BY <1>1, <1>2, <1>4, <2>1, <2>2 DEF Waits, SessionFields
<1>5. CASE session.active /\ jobs[n].at = "done"
  <2>1. CASE session.phase = "Branching"
    <3>1. Ended(n) /\ session' = [session EXCEPT !.phase = "AwaitingStep", !.step = 1]
      BY <1>5, <2>1, EndedIs DEF handleCondocGitDone
    <3> QED BY <1>1, <1>2, <1>5, <2>1, <3>1 DEF Waits, SessionFields
  <2>2. CASE session.phase = "StepStarting"
    <3>1. AgentOn(n) /\ session' = IF session.sub # 0
                          THEN [session EXCEPT !.phase = "RunningAgent", !.subStart = tips.head]
                          ELSE [session EXCEPT !.phase = "RunningAgent", !.start = tips.head]
      BY <1>5, <2>2, EndedIs DEF handleCondocGitDone
    <3> QED BY <1>1, <1>2, <1>5, <2>2, <3>1 DEF Waits, SessionFields
  <2>3. CASE session.phase = "HumanCommitting"
    <3>1. AgentOn(n) /\ session' = [session EXCEPT !.phase = "RunningAgent"]
      BY <1>5, <2>3, EndedIs DEF handleCondocGitDone
    <3> QED BY <1>1, <1>2, <1>5, <2>3, <3>1 DEF Waits, SessionFields
  <2>4. CASE session.phase = "Committing"
    <3>1. Ended(n) /\ session' = [session EXCEPT !.phase = session.next]
      BY <1>5, <2>4, EndedIs DEF handleCondocGitDone
    <3> QED BY <1>1, <1>2, <1>5, <2>4, <3>1 DEF Waits, SessionFields
  <2>5. CASE session.phase \notin GitPhases
    <3>1. Ended(n) /\ session' = session
      BY <1>5, <2>5, EndedIs DEF handleCondocGitDone, GitPhases
    <3> QED BY <1>1, <1>2, <1>5, <2>5, <3>1
  <2> QED BY <2>1, <2>2, <2>3, <2>4, <2>5 DEF GitPhases
<1> QED BY <1>2, <1>3, <1>4, <1>5

\* What an unread HEAD leaves.
LEMMA StartUnreadDoes ==
  ASSUME TypeInv, NEW n \in Sessions, StartUnread(n)
  PROVE  LET s == session IN
         /\ jobs[n].does = "git" /\ jobs[n].at = "done" /\ s.active /\ s.phase = "StepStarting"
         /\ UNCHANGED <<work, log, tips>> /\ story' = story \cup {"behind"}
         /\ counts'.sessions = counts.sessions /\ counts'.trouble # 0 /\ AgentOn(n)
         /\ Waits(s.failed, "RunningAgent", s.step, s.start, s.subStart)
<1>1. session' = [session EXCEPT !.phase = "RunningAgent"] /\ session \in SessionFields
  BY SessionParts DEF StartUnread
<1>2. Waits(session.failed, "RunningAgent", session.step, session.start, session.subStart)
  BY <1>1 DEF Waits, SessionFields
<1>3. counts'.sessions = counts.sessions /\ counts'.trouble # 0 /\ AgentOn(n)
  BY TroubleCounts, EndedIs DEF StartUnread
<1> QED BY <1>2, <1>3 DEF StartUnread, Arrives, gitVars

\* What handleCondocRetryReady does.
LEMMA RetryReadyDoes ==
  ASSUME TypeInv, NEW n \in Sessions, handleCondocRetryReady(n)
  PROVE  /\ jobs[n].does = "retry" /\ jobs[n].at \in {"done", "failed"}
         /\ UNCHANGED <<session, work, log, tips, seen, counts, story>>
         /\ (session.active /\ jobs[n].at = "done" /\ AgentOn(n)) \/ Ended(n)
  BY EndedIs DEF handleCondocRetryReady, Arrives, gitVars

\* What handleCondocRevertDone does.
LEMMA RevertDoneDoes ==
  ASSUME TypeInv, NEW n \in Sessions, handleCondocRevertDone(n)
  PROVE  LET m == jobs[n].msg IN
         /\ jobs[n].does = "revert" /\ jobs[n].at \in {"done", "failed"} /\ Ended(n)
         /\ m.step \in Steps /\ m.sub \in 0 .. MaxLetters
         /\ UNCHANGED <<work, log, tips, seen, counts, story>>
         /\ session'.active = session.active /\ session'.failed = session.failed
         /\ session'.last = session.last /\ session'.next = session.next
         /\ session'.start = session.start /\ session'.letter = session.letter
         /\ \/ session' = session /\ (~session.active \/ jobs[n].at = "failed")
            \/ /\ session.active /\ jobs[n].at = "done" /\ session'.phase = "AwaitingAction"
               /\ session'.step = m.step /\ session'.file /\ session'.sub = m.sub
               /\ session'.subStart = IF m.sub # 0 THEN jobs[n].target ELSE 0
<1>1. session \in SessionFields
  BY SessionParts
<1>2. jobs[n].does = "revert" /\ jobs[n].at \in {"done", "failed"} /\ Ended(n)
      /\ UNCHANGED <<work, log, tips, seen, counts, story>>
  BY EndedIs DEF handleCondocRevertDone, Arrives, gitVars
<1>3. jobs[n].msg.step \in Steps /\ jobs[n].msg.sub \in 0 .. MaxLetters
  BY <1>2, JobsAre DEF JobFits
<1>4. session' = IF session.active /\ jobs[n].at = "done"
                 THEN [session EXCEPT !.step = jobs[n].msg.step, !.file = TRUE,
                            !.sub = jobs[n].msg.sub,
                            !.subStart = IF jobs[n].msg.sub # 0 THEN jobs[n].target ELSE 0,
                            !.phase = "AwaitingAction"]
                 ELSE session
  BY DEF handleCondocRevertDone
<1> QED BY <1>1, <1>2, <1>3, <1>4 DEF SessionFields

\* The agent has answered, and its condoc goes on or, forced, is finished.
LEMMA AgentDoneDoes ==
  ASSUME TypeInv, NEW n \in Sessions, handleCondocAgentDone(n)
  PROVE  LET s == session
             gone == About("completed", s.step, 0)
             said == About("replied", s.step, s.sub)
             e == addNextRevisionTemplate(Replied, s.letter)
         IN
         /\ jobs[n].does = "agent" /\ jobs[n].at \in {"done", "failed"}
         /\ s.active /\ s.file /\ s.step \in Steps /\ activeDoc.exists /\ s.letter \in 0 .. MaxLetters
         /\ UNCHANGED <<log, tips, seen, counts, story>>
         /\ \A m \in Sessions : m # n => jobs'[m] = jobs[m]
         /\ jobs'[n].at = "commit" /\ jobs'[n].does = "git"
         /\ ~work'.lock /\ TreeFits(work')
         /\ \/ /\ MainSays("force") /\ jobs'[n].msg = gone /\ ~session'.active
               /\ work'.main.completed /\ work'.main.revert = NoRevert
               /\ \E t : /\ TreeFits(t) /\ OneFile(t, work, s.step, s.sub, Replied)
                         /\ SameFiles(work', ForceCompleted(t))
            \/ /\ ~MainSays("force") /\ jobs'[n].msg = said
               /\ work'.main = work.main /\ OneFile(work', work, s.step, s.sub, e)
               /\ session'.phase = "Committing" /\ session'.next = "AwaitingAction"
               /\ session'.last = said /\ session'.active
               /\ session'.failed = s.failed /\ session'.file /\ session'.sub = s.sub
               /\ session'.step = s.step /\ session'.letter = s.letter
               /\ session'.start = s.start /\ session'.subStart = s.subStart
<1>0. session.file /\ session.step \in Steps /\ DocFits(activeDoc) /\ session.letter \in 0 .. MaxLetters
      /\ TreeFits(work) /\ session.active /\ activeDoc.exists
      /\ jobs[n].does = "agent" /\ jobs[n].at \in {"done", "failed"}
      /\ UNCHANGED <<log, tips, seen, counts, story>>
  BY SessionParts, CondocDocsAssumption DEF handleCondocAgentDone, Arrives
<1> DEFINE d == Replied
           e == addNextRevisionTemplate(d, session.letter)
           gone == About("completed", session.step, 0)
           said == About("replied", session.step, session.sub)
           jc == [NoJob EXCEPT !.at = "commit", !.msg = gone]
           jr == [NoJob EXCEPT !.at = "commit", !.msg = said]
<1>1. DocFits(d)
  BY <1>0, Answered DEF Replied
<1>2. DocFits(e)
  <2> HIDE DEF d
  <2> QED BY <1>0, <1>1, Templated
<1>3. gone \in Message /\ said \in Message
  <2>1. "completed" \in CommitKind /\ "replied" \in CommitKind
    BY DEF CommitKind
  <2> QED BY <2>1, StringTypes, SessionParts, Numbers
<1>4. /\ jc.at = "commit" /\ jc.does = "git" /\ jc.msg = gone
      /\ jr.at = "commit" /\ jr.does = "git" /\ jr.msg = said
  <2> HIDE DEF gone, said
  <2> QED BY <1>3, GitJob, SessionParts
<1>t. TreeFits(work')
  <2>1. TypeInv'
    BY AgentDoneKeeps
  <2> QED BY <2>1 DEF TypeInv
<1>6. CASE MainSays("force")
  <2> DEFINE t == WithActive(work, d)
             u == ForceCompleted(t)
             v == Unlocked(u)
             m == finalizeMainFile(v.main)
  <2>0. TreeFits(t) /\ OneFile(t, work, session.step, session.sub, d)
    <3> HIDE DEF d
    <3> QED BY <1>0, <1>1, ActiveReplaced DEF OneFile
  <2>1. TreeFits(v) /\ ~v.lock /\ v.stepDoc = u.stepDoc /\ v.subDoc = u.subDoc
    <3> HIDE DEF t
    <3>2. TreeFits(u)
      BY <2>0, ForceCompletedFits
    <3> HIDE DEF u
    <3>3. FALSE \in BOOLEAN /\ v = [u EXCEPT !.lock = FALSE]
      BY DEF Unlocked
    <3> HIDE DEF v
    <3> QED BY <3>2, <3>3, LockReplaced
  <2>2. work' = [v EXCEPT !.main = m]
    BY <1>6 DEF handleCondocAgentDone
  <2> HIDE DEF v
  <2>3. m \in Main /\ m.filled /\ RevertFits(m.revert) /\ m.completed
    BY <2>1, MainParts, MainFinalized
  <2>r. m.revert = NoRevert
    <3>1. v.main \in Main
      BY <2>1, MainParts
    <3>2. removeMainPrompt(v.main).revert = NoRevert /\ removeMainPrompt(v.main) \in Main
      BY <3>1, MainStripped
    <3> QED BY <3>2 DEF finalizeMainFile, Main
  <2> HIDE DEF m
  <2>4. work'.main = m /\ ~work'.lock /\ work'.stepDoc = v.stepDoc /\ work'.subDoc = v.subDoc
    BY <2>1, <2>2, <2>3, MainReplaced
  <2>5. session' = [session EXCEPT !.active = FALSE, !.last = gone] /\ jobs' = [jobs EXCEPT ![n] = jc]
    BY <1>6 DEF handleCondocAgentDone
  <2> HIDE DEF jc
  <2>6. jobs'[n] = jc /\ \A k \in Sessions : k # n => jobs'[k] = jobs[k]
    BY <2>5, JobsAre
  <2>7. ~session'.active
    BY <2>5, SessionParts DEF SessionFields
  <2>8. SameFiles(work', u)
    BY <2>1, <2>4 DEF SameFiles, FileOf
  <2> HIDE DEF t
  <2> QED BY <1>0, <1>4, <1>6, <1>t, <2>0, <2>3, <2>r, <2>4, <2>6, <2>7, <2>8
<1>7. CASE ~MainSays("force")
  <2> DEFINE u == WithActive(work, e)
  <2>1. work' = Unlocked(u)
    BY <1>7 DEF handleCondocAgentDone
  <2>2. TreeFits(u) /\ u.main = work.main /\ OneFile(u, work, session.step, session.sub, e)
    <3> HIDE DEF e
    <3> QED BY <1>0, <1>2, ActiveReplaced DEF OneFile
  <2> HIDE DEF u
  <2>3. work'.main = work.main /\ ~work'.lock /\ work'.stepDoc = u.stepDoc /\ work'.subDoc = u.subDoc
    BY <2>1, <2>2, LockReplaced DEF Unlocked
  <2>4. OneFile(work', work, session.step, session.sub, e)
    BY <2>2, <2>3 DEF OneFile, FileOf
  <2>5. session' = [session EXCEPT !.phase = "Committing", !.next = "AwaitingAction", !.last = said]
        /\ jobs' = [jobs EXCEPT ![n] = jr]
    BY <1>7 DEF handleCondocAgentDone
  <2> HIDE DEF jr, said
  <2>6. /\ session'.phase = "Committing" /\ session'.next = "AwaitingAction"
        /\ session'.last = said /\ session'.active
        /\ session'.failed = session.failed /\ session'.file /\ session'.sub = session.sub
        /\ session'.step = session.step /\ session'.letter = session.letter
        /\ session'.start = session.start /\ session'.subStart = session.subStart
    BY <1>0, <2>5, SessionParts DEF SessionFields
  <2>7. jobs'[n] = jr /\ \A k \in Sessions : k # n => jobs'[k] = jobs[k]
    BY <2>5, JobsAre
  <2> QED BY <1>0, <1>4, <1>7, <1>t, <2>3, <2>4, <2>6, <2>7 DEF said
<1> QED BY <1>6, <1>7

\* What leaving condoc mode does.
LEMMA ExitDoes ==
  ASSUME TypeInv, exitCondoc
  PROVE  ~session'.active /\ UNCHANGED <<jobs, work, log, tips, seen, counts, story>>
  BY SessionParts DEF exitCondoc, SessionFields, gitVars

\* What entering condoc mode does.
LEMMA LoadDoes ==
  ASSUME TypeInv, loadCondocSession
  PROVE  LET n == work.main.step
             d == work.stepDoc[n]
         IN  /\ UNCHANGED <<jobs, work, log, tips, seen>> /\ story' = story \ {"behind"}
             /\ counts'.sessions = counts.sessions + 1 /\ counts'.trouble = counts.trouble
             /\ Overlaps \/ \A k \in Sessions : jobs[k].at = "none"
             /\ session'.last = NoMsg /\ session'.next = "AwaitingAction" /\ session'.active
             /\ session'.failed = "Committing" /\ session'.subStart = 0 /\ session'.letter = 0
             /\ ~work.main.completed
             /\ \/ n = 0 /\ session'.phase = "Proposed" /\ ~session'.file /\ session'.sub = 0
                \/ n # 0 /\ session'.phase = "AwaitingStep" /\ ~session'.file /\ session'.sub = 0
                \/ /\ n \in Steps /\ session'.phase = "AwaitingAction" /\ session'.step = n
                   /\ session'.file /\ d.exists /\ session'.start = LatestStart(n, 0)
                   /\ work.main.filled
                   /\ session'.sub = IF d.substep # 0 /\ Named(work.subDoc[n][d.substep], "Completed") = {}
                                     THEN d.substep ELSE 0
<1> DEFINE n == work.main.step
           d == work.stepDoc[n]
           sub == IF d.substep # 0 /\ Named(work.subDoc[n][d.substep], "Completed") = {}
                  THEN d.substep ELSE 0
<1>1. UNCHANGED <<jobs, work, log, tips, seen>> /\ story' = story \ {"behind"} /\ ~work.main.completed
  BY DEF loadCondocSession, gitVars
<1>2. counts'.sessions = counts.sessions + 1 /\ counts'.trouble = counts.trouble
  BY DEF loadCondocSession, TypeInv, CountsFit
<1>3. Overlaps \/ \A k \in Sessions : jobs[k].at = "none"
  BY DEF loadCondocSession, Under
<1>4. NewSession \in SessionFields /\ NewSession.letter = 0
  BY NewSessionFits DEF NewSession
<1>0. n \in 0 .. MaxSteps /\ (n # 0 => n \in Steps)
  BY SessionParts, MainParts, Numbers
<1>5. CASE n = 0
  BY <1>1, <1>2, <1>3, <1>4, <1>5, NewSessionFits DEF loadCondocSession
<1>6. CASE n # 0 /\ ~work.main.filled
  <2>1. session' = [NewSession EXCEPT !.phase = "AwaitingStep", !.step = n]
    BY <1>6 DEF loadCondocSession
  <2> HIDE DEF n
  <2>2. /\ session'.phase = "AwaitingStep" /\ ~session'.file /\ session'.sub = 0
        /\ session'.last = NoMsg /\ session'.next = "AwaitingAction" /\ session'.active
        /\ session'.failed = "Committing" /\ session'.subStart = 0 /\ session'.letter = 0
    BY <1>4, <2>1, NewSessionFits DEF SessionFields
  <2> QED BY <1>1, <1>2, <1>3, <1>6, <2>2 DEF n
<1>7. CASE n # 0 /\ work.main.filled
  <2>1. d.exists /\ session' = [NewSession EXCEPT !.phase = "AwaitingAction", !.step = n,
                                   !.file = TRUE, !.sub = sub, !.start = LatestStart(n, 0)]
    BY <1>7 DEF loadCondocSession
  <2> HIDE DEF n, d, sub
  <2>2. /\ session'.phase = "AwaitingAction" /\ session'.file /\ session'.sub = sub
        /\ session'.step = n /\ session'.start = LatestStart(n, 0)
        /\ session'.last = NoMsg /\ session'.next = "AwaitingAction" /\ session'.active
        /\ session'.failed = "Committing" /\ session'.subStart = 0 /\ session'.letter = 0
    BY <1>4, <2>1, NewSessionFits DEF SessionFields
  <2> QED BY <1>0, <1>1, <1>2, <1>3, <1>7, <2>1, <2>2 DEF n, d, sub
<1> QED BY <1>5, <1>6, <1>7

-----------------------------------------------------------------------------
(* The order is kept by the messages, by a new session and from outside.   *)

\* The end of a git sequence is for the session that began it.
LEMMA GitDoneKeepsOrder ==
  ASSUME TypeInv, Orderly, NEW n \in Sessions, handleCondocGitDone(n)
  PROVE  Orderly'
<1>1. n = Me /\ jobs[n].at # "none" /\ jobs[n].does = "git"
  BY GitDoneDoes, MineOnly
<1>2. LogStays /\ counts' = counts
  BY GitDoneDoes, NoCommitStays
<1>3. session.active => SessionInOrder(session) /\ Serves(session, jobs[n])
  BY <1>1 DEF Orderly
<1>4. session.active => session.phase \in GitPhases
  BY <1>1, <1>3 DEF Serves
<1>5. \A m \in Sessions : m # Me => jobs'[m] = jobs[m]
  BY <1>1, GitDoneDoes DEF Ended, AgentOn
<1>6. JobInOrder(jobs'[Me], log)
  <2>1. Ended(n) \/ AgentOn(n)
    BY GitDoneDoes
  <2>2. NoMsg.kind = "proposed"
    BY DEF NoMsg, About
  <2> QED BY <1>1, <2>1, <2>2 DEF Ended, AgentOn, JobInOrder, GitKinds
<1>7. session'.active => SessionInOrder(session')
  <2>1. CASE ~session.active
    BY <2>1, GitDoneDoes
  <2>2. CASE session.active /\ session'.phase = "GitFailed" /\ session'.failed = session.phase
             /\ Waits(session.phase, "GitFailed", session.step, session.start, session.subStart)
             /\ session.phase \in {"StepStarting", "HumanCommitting", "Committing"}
    BY <1>3, <2>2 DEF SessionInOrder, Starting, IsAt, Waits
  <2>3. CASE /\ session.active /\ session.phase = "Branching" /\ session'.phase = "AwaitingStep"
             /\ \E k : Waits(session.failed, "AwaitingStep", k, session.start, session.subStart)
    BY <1>3, <2>3 DEF SessionInOrder, Starting, IsAt, Waits
  <2>4. CASE /\ session.active /\ session'.phase = "RunningAgent"
             /\ \E a, b : Waits(session.failed, "RunningAgent", session.step, a, b)
    BY <1>3, <2>4 DEF SessionInOrder, Starting, IsAt, Waits
  <2>5. CASE /\ session.active /\ session.phase = "Committing"
             /\ Waits(session.failed, session.next, session.step, session.start, session.subStart)
    BY <1>3, <2>5 DEF SessionInOrder, Starting, IsAt, Waits
  <2>6. \/ ~session.active
        \/ /\ session.active /\ session.phase \in {"StepStarting", "HumanCommitting", "Committing"}
           /\ Waits(session.phase, "GitFailed", session.step, session.start, session.subStart)
        \/ /\ session.active /\ session.phase = "Branching"
           /\ \E k : Waits(session.failed, "AwaitingStep", k, session.start, session.subStart)
        \/ /\ session.active /\ \E a, b : Waits(session.failed, "RunningAgent", session.step, a, b)
        \/ /\ session.active /\ session.phase = "Committing"
           /\ Waits(session.failed, session.next, session.step, session.start, session.subStart)
    <3>1. CASE session.active /\ jobs[n].at = "failed"
      BY <1>4, <3>1, GitDoneDoes DEF GitPhases
    <3>2. CASE session.active /\ jobs[n].at = "done"
      BY <1>4, <3>2, GitDoneDoes
    <3> QED BY <3>1, <3>2, GitDoneDoes
  <2> QED BY <2>1, <2>2, <2>3, <2>4, <2>5, <2>6 DEF Waits
<1>8. session'.active /\ jobs'[Me].at # "none" => Serves(session', jobs'[Me])
  <2>1. jobs'[Me].at # "none" => AgentOn(n)
    BY <1>1, GitDoneDoes DEF Ended
  <2>2. session'.active /\ AgentOn(n) /\ ~Ended(n) => session'.phase = "RunningAgent"
    BY GitDoneDoes DEF Waits
  <2>3. AgentOn(n) => ~Ended(n)
    BY DEF AgentOn, Ended
  <2> QED BY <1>1, <2>1, <2>2, <2>3 DEF Serves, AgentOn
<1> QED BY <1>2, <1>5, <1>6, <1>7, <1>8, OrderHolds

\* So is one after which HEAD cannot be read.
LEMMA StartUnreadKeepsOrder ==
  ASSUME TypeInv, Orderly, NEW n \in Sessions, StartUnread(n)
  PROVE  Orderly'
<1>1. n = Me /\ jobs[n].at # "none" /\ jobs[n].does = "git"
  BY StartUnreadDoes, MineOnly
<1>2. LogStays /\ counts'.sessions = counts.sessions
  BY StartUnreadDoes, NoCommitStays
<1>3. SessionInOrder(session)
  BY StartUnreadDoes DEF Orderly
<1>4. AgentOn(n) /\ Waits(session.failed, "RunningAgent", session.step, session.start, session.subStart)
  BY StartUnreadDoes
<1>5. SessionInOrder(session')
  BY <1>3, <1>4 DEF SessionInOrder, Starting, IsAt, Waits
<1>6. JobInOrder(jobs'[Me], log) /\ Serves(session', jobs'[Me])
  BY <1>1, <1>4 DEF AgentOn, JobInOrder, Serves, Waits
<1> QED BY <1>1, <1>2, <1>4, <1>5, <1>6, OrderHolds DEF AgentOn

\* So are the ends of a retry, of a revert and of the agent.
LEMMA OtherEndsKeepOrder ==
  ASSUME TypeInv, Orderly, NEW n \in Sessions,
         handleCondocRetryReady(n) \/ handleCondocRevertDone(n) \/ handleCondocAgentDone(n)
  PROVE  Orderly'
<1>0. NoMsg.kind = "proposed"
  BY DEF NoMsg, About
<1>1. CASE handleCondocRetryReady(n)
  <2>1. n = Me /\ LogStays /\ counts' = counts /\ session' = session /\ jobs[n].does = "retry"
        /\ jobs[n].at # "none"
    BY <1>1, RetryReadyDoes, MineOnly, NoCommitStays
  <2>2. session.active => SessionInOrder(session) /\ Serves(session, jobs[n])
    BY <2>1 DEF Orderly
  <2>3. AgentOn(n) \/ Ended(n)
    BY <1>1, RetryReadyDoes
  <2>4. JobInOrder(jobs'[Me], log)
    BY <1>0, <2>1, <2>3 DEF Ended, AgentOn, JobInOrder, GitKinds
  <2>5. session'.active /\ jobs'[Me].at # "none" => Serves(session', jobs'[Me])
    BY <2>1, <2>2, <2>3 DEF Ended, AgentOn, Serves
  <2>6. \A m \in Sessions : m # Me => jobs'[m] = jobs[m]
    BY <2>1, <2>3 DEF Ended, AgentOn
  <2> QED BY <2>1, <2>2, <2>4, <2>5, <2>6, OrderHolds
<1>2. CASE handleCondocRevertDone(n)
  <2>1. n = Me /\ LogStays /\ counts' = counts /\ Ended(n)
    BY <1>2, RevertDoneDoes, MineOnly, NoCommitStays
  <2>2. session.active => SessionInOrder(session)
    BY DEF Orderly
  <2>4. JobInOrder(jobs'[Me], log)
    BY <1>0, <2>1 DEF Ended, JobInOrder, GitKinds
  <2>5. session'.active => SessionInOrder(session')
    BY <1>2, <2>2, RevertDoneDoes DEF SessionInOrder, Starting, IsAt
  <2>6. \A m \in Sessions : m # Me => jobs'[m] = jobs[m]
    BY <2>1 DEF Ended
  <2>7. jobs'[Me].at = "none"
    BY <2>1 DEF Ended
  <2> QED BY <2>1, <2>4, <2>5, <2>6, <2>7, OrderHolds
<1>3. CASE handleCondocAgentDone(n)
  <2> DEFINE m == jobs'[n].msg
  <2>1. n = Me /\ LogStays /\ counts' = counts /\ \A k \in Sessions : k # Me => jobs'[k] = jobs[k]
    BY <1>3, AgentDoneDoes, MineOnly, NoCommitStays
  <2>2. session.active /\ SessionInOrder(session)
    BY <1>3, AgentDoneDoes DEF Orderly
  <2>3. jobs'[n].at = "commit" /\ jobs'[n].does = "git"
    BY <1>3, AgentDoneDoes
  <2>4. CASE ~session'.active /\ m = About("completed", session.step, 0)
    <3>1. MsgInOrder(m)
      BY <2>4, MessagesInOrder DEF GitKinds
    <3>2. JobInOrder(jobs'[Me], log)
      BY <2>1, <2>3, <3>1 DEF JobInOrder, MsgInOrder
    <3> QED BY <2>1, <2>4, <3>2, OrderHolds
  <2>5. CASE /\ m = About("replied", session.step, session.sub) /\ session'.last = m
             /\ session'.phase = "Committing" /\ session'.next = "AwaitingAction"
             /\ session'.active /\ session'.failed = session.failed
    <3>1. MsgInOrder(m) /\ m.kind \in GitKinds /\ m.kind = "replied"
      BY <2>5, MessagesInOrder DEF GitKinds
    <3>2. JobInOrder(jobs'[Me], log)
      BY <2>1, <2>3, <3>1 DEF JobInOrder, MsgInOrder
    <3>3. SessionInOrder(session') /\ Serves(session', jobs'[Me])
      BY <2>1, <2>2, <2>3, <2>5, <3>1 DEF SessionInOrder, Starting, IsAt, Serves, GitPhases
    <3> QED BY <2>1, <3>2, <3>3, OrderHolds
  <2> QED BY <1>3, <2>4, <2>5, AgentDoneDoes
<1> QED BY <1>1, <1>2, <1>3

\* Where the session and its jobs stay, or it is left.
LEMMA OutsideKeepsOrder ==
  ASSUME TypeInv, Orderly, LogStays, counts'.sessions = counts.sessions, jobs' = jobs,
         session' = session \/ ~session'.active
  PROVE  Orderly'
  BY MeIs, OrderHolds DEF Orderly

\* A session that begins finds nothing under way.
LEMMA LoadKeepsOrder ==
  ASSUME TypeInv, Orderly, ~Overlaps, loadCondocSession
  PROVE  Orderly'
<1>1. \A k \in Sessions : jobs'[k] = jobs[k] /\ jobs'[k].at = "none"
  BY LoadDoes
<1>2. log' = log
  BY LoadDoes
<1>3. NoMsg.kind = "proposed"
  BY DEF NoMsg, About
<1>4. SessionInOrder(session')
  BY <1>3, LoadDoes DEF SessionInOrder, Starting, IsAt, GitKinds
<1>5. Me' \in Sessions
  <2>1. TypeInv'
    BY LoadKeeps
  <2> QED BY <2>1 DEF TypeInv, CountsFit, Me, Sessions
<1> QED BY <1>1, <1>2, <1>4, <1>5 DEF Orderly

\* Every step keeps the order.
LEMMA OrderKept ==
  ASSUME TypeInv, TypeInv', Orderly, ~Overlaps, SameRepoNext
  PROVE  Orderly'
<1>0. LogStays
  BY LogStaysNext
<1>1. CASE HandlerTick
  BY <1>1, TickKeepsOrder
<1>2. ASSUME NEW n \in Sessions, JobStep(n) \/ GitFails(n) \/ ResetBreaks(n) \/ StartUnread(n)
      PROVE  Orderly'
  BY <1>2, StagesKeepOrder, GitDoneKeepsOrder, OtherEndsKeepOrder, StartUnreadKeepsOrder DEF JobStep
<1>3. CASE exitCondoc
  BY <1>0, <1>3, ExitDoes, OutsideKeepsOrder
<1>4. CASE loadCondocSession
  BY <1>4, LoadKeepsOrder
<1>5. CASE LockPass
  BY <1>0, <1>5, LockDoes, OutsideKeepsOrder
<1>6. CASE HumanAsks
  <2>1. counts'.sessions = counts.sessions
    <3>1. Asks
      BY <1>6 DEF HumanAsks, AskOfMain, AskToComplete, AskForIteration, AskToRevert, AskToForce, Resubmit
    <3> QED BY <3>1 DEF Asks, TypeInv, CountsFit
  <2>2. session' = session /\ jobs' = jobs
    BY <1>6 DEF HumanAsks, AskOfMain, AskToComplete, AskForIteration, AskToRevert, AskToForce,
       Resubmit, OthersRest
  <2> QED BY <1>0, <2>1, <2>2, OutsideKeepsOrder
<1> QED BY <1>1, <1>2, <1>3, <1>4, <1>5, <1>6 DEF SameRepoNext

\* So does nothing.
LEMMA OrderStutters ==
  ASSUME Orderly, UNCHANGED sameRepoVars
  PROVE  Orderly'
  BY DEF Orderly, sameRepoVars, gitVars, Me

\* Both beginnings are in order.
LEMMA OrderAtFirst == SameRepoInit => Orderly
<1> SUFFICES ASSUME SameRepoInit PROVE Orderly
  OBVIOUS
<1>1. TypeInv
  BY TypesAtFirst
<1>2. \A n \in Sessions : jobs[n] = NoJob
  BY DEF SameRepoInit
<1>3. NoJob.at = "none" /\ NoJob.does = "git" /\ NoJob.msg.kind = "proposed"
  BY DEF NoJob, About
<1>4. \A n \in Sessions : jobs[n].at = "none" /\ JobInOrder(jobs[n], log)
  BY <1>2, <1>3 DEF JobInOrder, GitKinds
<1>5. NoMsg.kind = "proposed"
  BY DEF NoMsg, About
<1>6. SessionInOrder(session)
  <2>1. CASE session = NewSession
    BY <1>5, <2>1, NewSessionFits DEF SessionInOrder, Starting, IsAt, GitKinds
  <2>2. CASE session = [NewSession EXCEPT !.phase = "AwaitingAction", !.step = 1,
                                           !.file = TRUE, !.start = 3]
    BY <1>5, <2>2, NewSessionFits DEF SessionInOrder, Starting, IsAt, GitKinds, SessionFields
  <2> QED BY <2>1, <2>2 DEF SameRepoInit
<1> QED BY <1>1, <1>4, <1>6, MeIs DEF Orderly

-----------------------------------------------------------------------------
(* What the handler committed is kept.                                     *)

Handlers(L) == {i \in 1 .. Len(L) : L[i].msg.kind \in HandlerCommits}
SavedIn(L, takes) == UNION {Past(L, takes[n]) : n \in 1 .. MaxAsks}

KeptIn(L, head, takes) == Handlers(L) \subseteq Past(L, head) \cup SavedIn(L, takes)
Resetting(J) == \E n \in Sessions : J[n].at = "reset"

\* Kept, in terms of the log and the branches; nothing committed is lost.
LEMMA KeptMeans ==
  ASSUME TypeInv
  PROVE  /\ Kept <=> /\ KeptIn(log, tips.head, tips.takes)
                     /\ Resetting(jobs) => Handlers(log) \subseteq SavedIn(log, tips.takes)
         /\ Kept => WorkKept
<1>1. Saved = SavedIn(log, tips.takes)
  <2>1. DOMAIN tips.takes = 1 .. MaxAsks
    BY TipsAre
  <2> QED BY <2>1, HistoryMeans DEF Saved, SavedIn
<1>2. DOMAIN log = 1 .. Len(log)
  BY TipsAre
<1>3. Kept <=> /\ KeptIn(log, tips.head, tips.takes)
               /\ Resetting(jobs) => Handlers(log) \subseteq SavedIn(log, tips.takes)
  BY <1>1, <1>2, HistoryMeans DEF Kept, KeptIn, Resetting, Handlers
<1>4. Kept => WorkKept
  BY DEF Kept, WorkKept, Saved
<1> QED BY <1>3, <1>4

\* A commit of the handler's is on the branch; the other commits lose nothing.
LEMMA RecordedKeeps ==
  ASSUME TypeInv, Kept, NEW p \in 0 .. Len(log), NEW t, NEW msg, Recorded(p, t, msg),
         p = tips.head \/ Handlers(log) \subseteq SavedIn(log, tips.takes)
  PROVE  /\ KeptIn(log', tips'.head, tips'.takes)
         /\ msg.kind \notin HandlerCommits /\ Handlers(log) \subseteq SavedIn(log, tips.takes) =>
                Handlers(log') \subseteq SavedIn(log', tips'.takes)
<1> DEFINE N == Len(log)
<1>1. N \in Nat /\ \A k \in 1 .. MaxAsks : tips.takes[k] \in 0 .. N
  BY TipsAre
<1>2. SavedIn(log', tips'.takes) = SavedIn(log, tips.takes)
  BY <1>1 DEF Recorded, SavedIn
<1>3. Past(log', tips'.head) = {N + 1} \cup Past(log, p)
  BY DEF Recorded
<1>4. Handlers(log') \subseteq Handlers(log) \cup {N + 1}
      /\ (msg.kind \notin HandlerCommits => Handlers(log') \subseteq Handlers(log))
  <2>1. \A i \in 1 .. Len(log') : i \in 1 .. N \/ i = N + 1
    BY <1>1 DEF Recorded
  <2>2. \A i \in 1 .. N : log'[i] = log[i]
    BY DEF Recorded
  <2>3. log'[N + 1].msg = msg
    BY DEF Recorded
  <2> HIDE DEF N
  <2> QED BY <2>1, <2>2, <2>3 DEF Handlers, N
<1>5. Handlers(log) \subseteq Past(log, p) \cup SavedIn(log, tips.takes)
  BY KeptMeans DEF KeptIn
<1> HIDE DEF N
<1> QED BY <1>2, <1>3, <1>4, <1>5 DEF KeptIn

\* A take branch moves on to the branch's end, and has what it had.
LEMMA TakeKeeps ==
  ASSUME TypeInv, Kept, NEW k \in 1 .. MaxAsks, tips' = [tips EXCEPT !.takes[k] = tips.head], log' = log,
         tips.takes[k] = 0 \/ tips.takes[k] \in History(tips.head)
  PROVE  /\ KeptIn(log', tips'.head, tips'.takes)
         /\ Handlers(log') \subseteq SavedIn(log', tips'.takes)
<1>1. /\ tips.takes \in [1 .. MaxAsks -> 0 .. Len(log)] /\ Linked(log) /\ tips.head \in 0 .. Len(log)
  BY TipsAre
<1>2. tips'.head = tips.head /\ tips'.takes[k] = tips.head
      /\ \A m \in 1 .. MaxAsks : m # k => tips'.takes[m] = tips.takes[m]
  BY <1>1 DEF TypeInv, TipsFit
<1>3. Past(log, tips.takes[k]) \subseteq Past(log, tips.head)
  <2>1. CASE tips.takes[k] = 0
    BY <1>1, <2>1, PastUnfolds
  <2>2. CASE tips.takes[k] \in History(tips.head)
    BY <1>1, <2>2, HistoryMeans, PastOfPast
  <2> QED BY <2>1, <2>2
<1>4. SavedIn(log, tips.takes) \cup Past(log, tips.head) \subseteq SavedIn(log, tips'.takes)
  BY <1>2, <1>3 DEF SavedIn
<1>5. Handlers(log) \subseteq Past(log, tips.head) \cup SavedIn(log, tips.takes)
  BY KeptMeans DEF KeptIn
<1> QED BY <1>2, <1>4, <1>5 DEF KeptIn

KeptForm == /\ KeptIn(log, tips.head, tips.takes)
            /\ Resetting(jobs) => Handlers(log) \subseteq SavedIn(log, tips.takes)

\* The same, as a state predicate to prime.
LEMMA KeptIsForm == TypeInv => (Kept <=> KeptForm)
  BY KeptMeans DEF KeptForm

\* The same, of the next state.
LEMMA KeptHolds ==
  ASSUME TypeInv', KeptIn(log', tips'.head, tips'.takes),
         Resetting(jobs') => Handlers(log') \subseteq SavedIn(log', tips'.takes)
  PROVE  Kept'
<1>1. (TypeInv => (Kept <=> KeptForm))'
  BY KeptIsForm, PTL
<1> QED BY <1>1 DEF KeptForm

\* Where the log, the branch and its take branches stay.
LEMMA KeptStays ==
  ASSUME TypeInv, TypeInv', Kept, log' = log, tips'.head = tips.head, tips'.takes = tips.takes,
         Resetting(jobs') => Resetting(jobs)
  PROVE  Kept'
<1>1. KeptIn(log', tips'.head, tips'.takes)
  BY KeptMeans
<1>2. Resetting(jobs') => Handlers(log') \subseteq SavedIn(log', tips'.takes)
  BY KeptMeans
<1> QED BY <1>1, <1>2, KeptHolds

\* A turn of the handler's, or a message, leaves no job about to reset.
LEMMA NoReset ==
  ASSUME TypeInv, Orderly, NEW n \in Sessions, jobs[n].at # "none",
         \A m \in Sessions : m # n => jobs'[m] = jobs[m], jobs'[n].at # "reset"
  PROVE  ~Resetting(jobs')
  BY DEF Orderly, Resetting

\* A stage of what is under way leaves no commit of the handler's behind.
LEMMA StagesKeep ==
  ASSUME TypeInv, TypeInv', Orderly, Kept, NEW n \in Sessions,
         PushTake(n) \/ ResetAndRestore(n) \/ ForcePush(n) \/ GitCommit(n) \/ GitPush(n)
             \/ AgentExits(n) \/ GitFails(n) \/ ResetBreaks(n)
  PROVE  Kept'
<1>0. \A a : Moved(jobs, n, a)[n].at = a /\ \A m \in Sessions : m # n => Moved(jobs, n, a)[m] = jobs[m]
  BY JobsAre DEF Moved, Job
<1>1. CASE PushTake(n)
  <2> DEFINE k == jobs[n].take
  <2>1. k \in 1 .. MaxAsks
    BY <1>1, TipsAre DEF PushTake
  <2>2. CASE tips.takes[k] = 0 \/ tips.takes[k] \in History(tips.head)
    <3>1. tips' = [tips EXCEPT !.takes[k] = tips.head] /\ log' = log
      BY <1>1, <2>2 DEF PushTake
    <3> HIDE DEF k
    <3> QED BY <2>1, <2>2, <3>1, TakeKeeps, KeptHolds
  <2>3. CASE ~(tips.takes[k] = 0 \/ tips.takes[k] \in History(tips.head))
    <3>1. jobs' = Moved(jobs, n, "failed") /\ tips' = tips /\ log' = log
      BY <1>1, <2>3 DEF PushTake, Moved
    <3>2. Resetting(jobs') => Resetting(jobs)
      BY <1>0, <3>1 DEF Resetting
    <3> QED BY <3>1, <3>2, KeptStays
  <2> QED BY <2>2, <2>3
<1>2. CASE ResetAndRestore(n)
  <2>1. jobs[n].at = "reset" /\ Resetting(jobs)
    BY <1>2, ResetDoes DEF Resetting
  <2>2. CASE NoCommit /\ jobs' = Moved(jobs, n, "failed")
    BY <1>0, <2>1, <2>2, KeptStays DEF NoCommit
  <2>3. CASE /\ jobs' = Moved(jobs, n, "force") /\ ResetTo(jobs[n]) \in 1 .. Len(log)
             /\ \E t : Recorded(ResetTo(jobs[n]), t, jobs[n].msg)
    <3>1. Handlers(log) \subseteq SavedIn(log, tips.takes)
      BY <2>1, KeptMeans
    <3>2. ResetTo(jobs[n]) \in 0 .. Len(log)
      BY <2>3, TipsAre
    <3>3. KeptIn(log', tips'.head, tips'.takes)
      BY <2>3, <3>1, <3>2, RecordedKeeps
    <3>4. ~Resetting(jobs')
      BY <1>0, <2>1, <2>3, NoReset
    <3> QED BY <3>3, <3>4, KeptHolds
  <2> QED BY <1>2, <2>2, <2>3, ResetDoes
<1>3. CASE ForcePush(n) \/ GitPush(n)
  <2>1. log' = log /\ tips'.head = tips.head /\ tips'.takes = tips.takes
    BY <1>3, OriginMoves DEF ForcePush, GitPush
  <2>2. jobs' = Moved(jobs, n, "done") \/ jobs' = Moved(jobs, n, "failed")
    BY <1>3 DEF ForcePush, GitPush, Moved
  <2>3. Resetting(jobs') => Resetting(jobs)
    BY <1>0, <2>2 DEF Resetting
  <2> QED BY <2>1, <2>3, KeptStays
<1>4. CASE GitCommit(n)
  <2>1. jobs[n].at # "none" /\ jobs'[n].at # "reset" /\ \A m \in Sessions : m # n => jobs'[m] = jobs[m]
    BY <1>0, <1>4, GitCommitDoes
  <2>2. ~Resetting(jobs')
    BY <2>1, NoReset
  <2>3. KeptIn(log', tips'.head, tips'.takes)
    <3>1. CASE NoCommit
      BY <3>1, KeptMeans DEF NoCommit
    <3>2. CASE Recorded(tips.head, work, jobs[n].msg)
      BY <3>2, TipsAre, RecordedKeeps
    <3> QED BY <1>4, <3>1, <3>2, GitCommitDoes
  <2> QED BY <2>2, <2>3, KeptHolds
<1>5. CASE AgentExits(n) \/ GitFails(n)
  <2>1. log' = log /\ tips' = tips
    BY <1>5 DEF AgentExits, GitFails, gitVars
  <2>2. jobs' = Moved(jobs, n, "done") \/ jobs' = Moved(jobs, n, "failed")
    BY <1>5 DEF AgentExits, GitFails, Moved
  <2>3. Resetting(jobs') => Resetting(jobs)
    BY <1>0, <2>2 DEF Resetting
  <2> QED BY <2>1, <2>3, KeptStays
<1>6. CASE ResetBreaks(n)
  <2>1. /\ jobs[n].at = "reset" /\ Resetting(jobs) /\ log' = log /\ tips'.takes = tips.takes
        /\ jobs' = Moved(jobs, n, "failed")
    BY <1>6, ResetBreaksDoes DEF Resetting
  <2>2. Handlers(log) \subseteq SavedIn(log, tips.takes)
    BY <2>1, KeptMeans
  <2>3. KeptIn(log', tips'.head, tips'.takes)
    BY <2>1, <2>2 DEF KeptIn
  <2>4. ~Resetting(jobs')
    BY <1>0, <2>1, NoReset
  <2> QED BY <2>3, <2>4, KeptHolds
<1> QED BY <1>1, <1>2, <1>3, <1>4, <1>5, <1>6

\* Where only the session's job moves, and not to its reset.
LEMMA TurnsKeep ==
  ASSUME TypeInv, TypeInv', Orderly, Kept, log' = log, tips' = tips, NEW n \in Sessions,
         jobs'[n].at # "reset", \A m \in Sessions : m # n => jobs'[m] = jobs[m]
  PROVE  Kept'
<1>1. Resetting(jobs') => Resetting(jobs)
  BY DEF Resetting
<1> QED BY <1>1, KeptStays

\* Neither does any other step.
LEMMA KeptKept ==
  ASSUME TypeInv, TypeInv', Orderly, Kept, SameRepoNext
  PROVE  Kept'
<1>1. CASE HandlerTick
  <2>1. log' = log /\ tips' = tips
    BY <1>1 DEF HandlerTick, HandlerRest, condocAcceptProposal, condocStartStep, condocCompleteCondoc,
       condocForceComplete, condocRetryFailedGit, condocCompleteSubstep, condocCompleteStep,
       condocRunRevision, condocStartSubstep, condocRunRetry, condocRevert, RevertTo
  <2>2. \E at, does, m : at \in {"commit", "take"} /\ JobIs(at, does, m)
    <3>1. CASE condocRevert
      <4>1. PICK r : r \in Revert /\ RevertFits(r) /\ r # NoRevert /\ RevertTo(r)
        BY <3>1, RevertDoes
      <4>2. JobIs("take", "revert", About("reverted", r.step, revertSub(r)))
        BY <4>1, RevertToDoes DEF TakeIs
      <4> QED BY <4>2
    <3>2. CASE condocRunRetry
      BY <3>2, RunRetryDoes DEF TakeIs
    <3>3. CASE condocCompleteCondoc
      BY <3>3, FinishDoes, SessionParts DEF condocCompleteCondoc
    <3> QED BY <1>1, <3>1, <3>2, <3>3, AcceptDoes, StartStepDoes, ForceCompleteDoes, RetryGitDoes,
            CompleteSubstepDoes, CompleteStepDoes, RunRevisionDoes, StartSubstepDoes DEF HandlerTick
  <2> QED BY <2>1, <2>2, MeIs, TurnsKeep DEF JobIs
<1>2. ASSUME NEW n \in Sessions, JobStep(n) \/ GitFails(n) \/ ResetBreaks(n) \/ StartUnread(n)
      PROVE  Kept'
  <2>1. CASE PushTake(n) \/ ResetAndRestore(n) \/ ForcePush(n) \/ GitCommit(n) \/ GitPush(n)
             \/ AgentExits(n) \/ GitFails(n) \/ ResetBreaks(n)
    BY <2>1, StagesKeep
  <2>2. CASE handleCondocGitDone(n) \/ handleCondocRetryReady(n) \/ handleCondocRevertDone(n)
             \/ StartUnread(n)
    <3>1. log' = log /\ tips' = tips /\ (Ended(n) \/ AgentOn(n))
      BY <2>2, GitDoneDoes, RetryReadyDoes, RevertDoneDoes, StartUnreadDoes
    <3> QED BY <3>1, TurnsKeep DEF Ended, AgentOn
  <2>3. CASE handleCondocAgentDone(n)
    <3>1. /\ log' = log /\ tips' = tips /\ jobs'[n].at = "commit"
          /\ \A m \in Sessions : m # n => jobs'[m] = jobs[m]
      BY <2>3, AgentDoneDoes
    <3> QED BY <3>1, TurnsKeep
  <2> QED BY <1>2, <2>1, <2>2, <2>3 DEF JobStep
<1>3. CASE exitCondoc \/ loadCondocSession
  <2>1. log' = log /\ tips' = tips /\ jobs' = jobs
    BY <1>3 DEF exitCondoc, loadCondocSession, gitVars
  <2> QED BY <2>1, KeptStays
<1>4. CASE jobs' = jobs /\ \E t, k : k \in {"lock", "recovery"} /\ Recorded(tips.head, t, About(k, 0, 0))
  <2>1. PICK t, k : k \in {"lock", "recovery"} /\ Recorded(tips.head, t, About(k, 0, 0))
    BY <1>4
  <2>2. About(k, 0, 0).kind \notin HandlerCommits
    BY <2>1 DEF About, HandlerCommits
  <2>3. KeptIn(log', tips'.head, tips'.takes)
        /\ (Handlers(log) \subseteq SavedIn(log, tips.takes) => Handlers(log') \subseteq SavedIn(log', tips'.takes))
    BY <2>1, <2>2, TipsAre, RecordedKeeps
  <2>4. Resetting(jobs') => Handlers(log) \subseteq SavedIn(log, tips.takes)
    BY <1>4, KeptMeans
  <2> QED BY <2>3, <2>4, KeptHolds
<1>5. CASE jobs' = jobs /\ NoCommit
  BY <1>5, KeptStays DEF NoCommit
<1>6. CASE LockPass
  BY <1>4, <1>5, <1>6, LockDoes
<1>7. CASE HumanAsks
  <2>1. CASE Resubmit
    BY <1>4, <1>5, <2>1, ResubmitDoes
  <2>2. CASE ~Resubmit
    <3>1. log' = log /\ tips' = tips /\ jobs' = jobs
      BY <1>7, <2>2 DEF HumanAsks, AskOfMain, AskToComplete, AskForIteration, AskToRevert, AskToForce, OthersRest
    <3> QED BY <3>1, KeptStays
  <2> QED BY <2>1, <2>2
<1> QED BY <1>1, <1>2, <1>3, <1>6, <1>7 DEF SameRepoNext

\* At first everything is on the branch.
LEMMA KeptAtFirst == SameRepoInit => Kept
<1> SUFFICES ASSUME SameRepoInit PROVE Kept
  OBVIOUS
<1>1. TypeInv
  BY TypesAtFirst
<1>2. ~Resetting(jobs)
  BY DEF SameRepoInit, Resetting, NoJob
<1>3. Handlers(log) \subseteq Past(log, tips.head)
  <2>1. Linked(log) /\ tips.head = Len(log) /\ \A i \in 1 .. Len(log) : log[i].parent = i - 1
    <3>1. CASE log = FirstLog /\ tips.head = 1
      <4>1. \A i \in 1 .. 1 : i = 1
        OBVIOUS
      <4> QED BY <3>1, <4>1, FirstLogs DEF LogFits
    <3>2. CASE log = LaterLog /\ tips.head = 4
      <4>1. \A i \in 1 .. 4 : i = 1 \/ i = 2 \/ i = 3 \/ i = 4
        OBVIOUS
      <4> QED BY <3>2, <4>1, FirstLogs DEF LogFits
    <3> QED BY <3>1, <3>2 DEF SameRepoInit, FirstLog, LaterLog
  <2>2. \A i \in 1 .. Len(log) : i \in Past(log, Len(log))
    <3>1. CASE Len(log) = 1
      <4>1. Past(log, 1) = {1} \cup Past(log, 0)
        BY <2>1, <3>1, PastUnfolds
      <4> QED BY <3>1, <4>1
    <3>2. CASE Len(log) = 4
      <4>1. /\ Past(log, 4) = {4} \cup Past(log, 3) /\ Past(log, 3) = {3} \cup Past(log, 2)
            /\ Past(log, 2) = {2} \cup Past(log, 1) /\ Past(log, 1) = {1} \cup Past(log, 0)
        <5>1. /\ 1 \in 1 .. 4 /\ 2 \in 1 .. 4 /\ 3 \in 1 .. 4 /\ 4 \in 1 .. 4
              /\ log[4].parent = 3 /\ log[3].parent = 2 /\ log[2].parent = 1 /\ log[1].parent = 0
          BY <2>1, <3>2
        <5>2. \A i \in 1 .. Len(log) : Past(log, i) = {i} \cup Past(log, log[i].parent)
          BY <2>1, PastUnfolds
        <5> QED BY <3>2, <5>1, <5>2
      <4>2. Past(log, 4) = {4, 3, 2, 1} \cup Past(log, 0)
        BY <4>1
      <4>3. \A i \in 1 .. 4 : i = 1 \/ i = 2 \/ i = 3 \/ i = 4
        OBVIOUS
      <4> QED BY <3>2, <4>2, <4>3
    <3>3. Len(log) = 1 \/ Len(log) = 4
      BY FirstLogs DEF SameRepoInit, FirstLog, LaterLog
    <3> QED BY <3>1, <3>2, <3>3
  <2> QED BY <2>1, <2>2 DEF Handlers
<1> QED BY <1>1, <1>2, <1>3, KeptMeans DEF KeptIn

-----------------------------------------------------------------------------
(* A retry from the start goes back to where its step began.               *)

RetryFresh(j, L) ==
    j.does = "retry" /\ j.at \in {"take", "reset"} /\ j.target # 0 =>
        Fresh(FileOf(L[j.target].tree, j.msg.step, j.msg.sub))

\* RetryStartsHere, one job at a time.
LEMMA RetriesAre ==
  RetryStartsHere <=> ("behind" \in story \/ \A n \in Sessions : RetryFresh(jobs[n], log))
  BY DEF RetryStartsHere, RetryFresh

\* Directives are no part of what makes a file as it was written.
LEMMA FreshAlike ==
  ASSUME NEW e, NEW d, Alike(e, d)
  PROVE  Fresh(e) <=> Fresh(d)
  BY DEF Alike, Fresh

\* The log after a step is a log.
LEMMA LogAfter ==
  ASSUME TypeInv'
  PROVE  DOMAIN log' = 1 .. Len(log') /\ Len(log') \in Nat
<1>1. Linked(log')
  BY DEF TypeInv, LogFits
<1> QED BY <1>1 DEF Linked

\* Where nothing is committed.
LEMMA BegunUnlogged ==
  ASSUME BegunFresh, log' = log, tips'.head = tips.head,
         \A n \in Sessions : JobFresh(jobs'[n], work', HeadTree),
         session'.active => SessionFresh(session', work'),
         session'.active /\ session'.file /\ "behind" \notin story' => StartFresh(session', log),
         "behind" \notin story' => \A n \in Sessions : RetryFresh(jobs'[n], log)
  PROVE  BegunFresh'
<1>1. HeadTree' = HeadTree
  BY DEF HeadTree
<1>2. RetryStartsHere'
  BY DEF RetryStartsHere, RetryFresh
<1> QED BY <1>1, <1>2 DEF BegunFresh

\* Where a commit is made, and the session stays as it is.
LEMMA BegunLogged ==
  ASSUME TypeInv, TypeInv', BegunFresh, NEW p, NEW t, NEW msg, Recorded(p, t, msg), session' = session,
         story \subseteq story',
         msg.kind = "started" => msg.step \in Steps /\ Fresh(FileOf(t, msg.step, msg.sub)),
         \A n \in Sessions : JobFresh(jobs'[n], work', t),
         session.active => SessionFresh(session, work'),
         "behind" \notin story => \A n \in Sessions : RetryFresh(jobs'[n], log),
         \A n \in Sessions : jobs'[n].target \in 0 .. Len(log)
  PROVE  BegunFresh'
<1> DEFINE N == Len(log)
<1>1. N \in Nat /\ DOMAIN log = 1 .. N /\ DOMAIN log' = 1 .. N + 1
      /\ \A i \in 1 .. N + 1 : i \in 1 .. N \/ i = N + 1
  <2>1. N \in Nat /\ DOMAIN log = 1 .. N
    BY TipsAre
  <2>2. Len(log') = N + 1
    BY DEF Recorded
  <2> HIDE DEF N
  <2> QED BY <2>1, <2>2, LogAfter
<1>2. /\ \A i \in 1 .. N : log'[i] = log[i]
      /\ log'[N + 1].tree = t /\ log'[N + 1].msg = msg /\ tips'.head = N + 1
  BY DEF Recorded
<1>3. session.start \in 0 .. N /\ session.subStart \in 0 .. N
  <2>1. session.start \in CommitId /\ session.subStart \in CommitId /\ session.start <= N /\ session.subStart <= N
    BY SessionParts
  <2> QED BY <1>1, <2>1, SameRepoAssumption DEF CommitId
<1> HIDE DEF N
<1>4. HeadTree' = t
  BY <1>2 DEF HeadTree
<1>5. StartsFresh(log')
  BY <1>1, <1>2 DEF BegunFresh, StartsFresh, FreshStart
<1>6. session.active /\ session.file /\ "behind" \notin story' => StartFresh(session, log')
  <2>1. StartFresh(session, log) => StartFresh(session, log')
    BY <1>1, <1>2, <1>3 DEF StartFresh
  <2> QED BY <2>1 DEF BegunFresh
<1>7. RetryStartsHere'
  <2>1. \A n \in Sessions : RetryFresh(jobs'[n], log) => RetryFresh(jobs'[n], log')
    <3>1. \A n \in Sessions : jobs'[n].target \in 0 .. N
      BY DEF N
    <3> QED BY <1>1, <1>2, <3>1 DEF RetryFresh
  <2>2. "behind" \in story' \/ \A n \in Sessions : RetryFresh(jobs'[n], log')
    BY <2>1
  <2> QED BY <2>2 DEF RetryStartsHere, RetryFresh
<1> QED BY <1>4, <1>5, <1>6, <1>7 DEF BegunFresh

\* A turn that starts a git sequence.
LEMMA GitTurnBegun ==
  ASSUME TypeInv, Orderly, BegunFresh, log' = log, tips' = tips, story' = story,
         \A n \in Sessions : jobs[n].at = "none", NEW m, JobIs("commit", "git", m),
         m.kind = "started" => Fresh(FileOf(work', m.step, m.sub)),
         session'.active => SessionFresh(session', work'),
         session'.active /\ session'.file /\ "behind" \notin story => StartFresh(session', log)
  PROVE  BegunFresh'
<1>1. \A n \in Sessions : JobFresh(jobs'[n], work', HeadTree)
  BY DEF JobIs, JobFresh
<1>2. \A n \in Sessions : RetryFresh(jobs'[n], log)
  BY DEF JobIs, RetryFresh
<1> QED BY <1>1, <1>2, BegunUnlogged

\* The fields of a message; a file just written is as it was written.
LEMMA Kinds ==
  /\ \A k, s, l : About(k, s, l).kind = k /\ About(k, s, l).step = s /\ About(k, s, l).sub = l
  /\ Fresh(writeStepFile)
  BY NoDocFits DEF About

\* A tick keeps the starts: a retry goes to where its own step began.
LEMMA TickKeepsBegun ==
  ASSUME TypeInv, Orderly, BegunFresh, HandlerTick
  PROVE  BegunFresh'
<1>0. log' = log /\ tips' = tips
  BY DEF HandlerTick, HandlerRest, condocAcceptProposal, condocStartStep, condocCompleteCondoc,
       condocForceComplete, condocRetryFailedGit, condocCompleteSubstep, condocCompleteStep,
       condocRunRevision, condocStartSubstep, condocRunRetry, condocRevert, RevertTo
<1>s. session \in SessionFields
  BY SessionParts
<1>1. CASE condocAcceptProposal
  <2> DEFINE s == [session EXCEPT !.phase = "Branching"]
             m == About("accepted", 1, 0)
  <2>1. Becomes(s, m) /\ JobIs("commit", "git", m) /\ story' = story
    BY <1>1, AcceptDoes DEF condocAcceptProposal
  <2>2. m.kind # "started"
    BY Kinds
  <2>3. session.active /\ session.phase = "Proposed" /\ SessionInOrder(session)
    BY <1>1 DEF condocAcceptProposal, Ticks, Orderly
  <2>4. s.phase = "Branching" /\ s.file = session.file
    BY <1>s DEF SessionFields
  <2> HIDE DEF s, m
  <2>5. ~Starting(session') /\ ~session'.file
    BY <2>1, <2>3, <2>4 DEF Becomes, SessionInOrder, Starting, IsAt
  <2> QED BY <1>0, <2>1, <2>2, <2>3, <2>5, NothingUnderWay, GitTurnBegun DEF SessionFresh
<1>2. CASE condocStartStep
  <2> DEFINE n == work.main.step
             s == [session EXCEPT !.step = n, !.file = TRUE, !.letter = 0, !.phase = "StepStarting"]
             m == About("started", n, 0)
  <2>1. Becomes(s, m) /\ JobIs("commit", "git", m) /\ n \in Steps /\ story' = story
        /\ OneFile(work', work, n, 0, writeStepFile)
    BY <1>2, StartStepDoes DEF condocStartStep
  <2>2. m.step = n /\ m.sub = 0
    BY Kinds
  <2>3. session.active /\ session.phase = "AwaitingStep" /\ SessionInOrder(session)
    BY <1>2 DEF condocStartStep, Ticks, Orderly
  <2>4. s.phase = "StepStarting" /\ s.sub = session.sub /\ s.step = n
    BY <1>s DEF SessionFields
  <2>5. session.sub = 0
    BY <2>3 DEF SessionInOrder
  <2> HIDE DEF s, m, n
  <2>6. Fresh(FileOf(work', n, 0))
    BY <2>1, Numbers, Kinds DEF OneFile
  <2>7. SessionFresh(session', work') /\ StartFresh(session', log)
    BY <2>1, <2>4, <2>5, <2>6 DEF Becomes, Starting, IsAt, SessionFresh, StartFresh
  <2> QED BY <1>0, <2>1, <2>2, <2>3, <2>6, <2>7, NothingUnderWay, GitTurnBegun
<1>3. CASE condocCompleteCondoc \/ condocForceComplete
  <2> DEFINE s == [session EXCEPT !.active = FALSE]
             m == About("completed", session.step, 0)
  <2>1. Becomes(s, m) /\ JobIs("commit", "git", m) /\ story' = story
    BY <1>3, FinishDoes, ForceCompleteDoes, SessionParts DEF condocCompleteCondoc, condocForceComplete
  <2>2. m.kind # "started"
    BY Kinds
  <2>3. session.active /\ session.phase \in {"AwaitingStep", "AwaitingAction", "GitFailed"}
    BY <1>3 DEF condocCompleteCondoc, condocForceComplete, Ticks
  <2>4. ~s.active
    BY <1>s DEF SessionFields
  <2> HIDE DEF s, m
  <2>5. ~session'.active
    BY <2>1, <2>4 DEF Becomes
  <2> QED BY <1>0, <2>1, <2>2, <2>3, <2>5, NothingUnderWay, GitTurnBegun
<1>5. CASE condocRetryFailedGit
  <2> DEFINE s == [session EXCEPT !.phase = session.failed]
             m == session.last
  <2>1. Becomes(s, m) /\ JobIs("commit", "git", m) /\ session.phase = "GitFailed" /\ session.active
        /\ story' = story
        /\ \A x \in Steps, y \in 0 .. MaxLetters : Alike(FileOf(work', x, y), FileOf(work, x, y))
    BY <1>5, RetryGitDoes DEF condocRetryFailedGit
  <2>2. SessionInOrder(session)
    BY <2>1 DEF Orderly
  <2>3. /\ s.phase = session.failed /\ s.file = session.file /\ s.sub = session.sub
        /\ s.step = session.step /\ s.failed = session.failed
        /\ s.start = session.start /\ s.subStart = session.subStart /\ s.active = session.active
    BY <1>s DEF SessionFields
  <2> HIDE DEF s
  <2>4. Starting(session') <=> Starting(session)
    BY <2>1, <2>2, <2>3 DEF Becomes, SessionInOrder, Starting, IsAt
  <2>5. Starting(session) => session.step \in Steps /\ Fresh(FileOf(work', session.step, session.sub))
    <3>1. Starting(session) => Fresh(FileOf(work, session.step, session.sub)) /\ session.file
      BY <2>1, <2>2 DEF BegunFresh, SessionFresh, SessionInOrder
    <3> QED BY <2>1, <3>1, SessionParts, FreshAlike
  <2>6. m.kind = "started" => Starting(session)
    BY <2>1, <2>2 DEF SessionInOrder, Starting, IsAt
  <2>7. m.kind = "started" => m.step = session.step /\ m.sub = session.sub
    BY <2>2, <2>6, Kinds DEF SessionInOrder
  <2>8. SessionFresh(session', work')
    BY <2>1, <2>3, <2>4, <2>5 DEF SessionFresh, Becomes
  <2>9. session.file /\ "behind" \notin story => StartFresh(session', log)
    BY <2>1, <2>3, <2>4 DEF BegunFresh, StartFresh, Becomes
  <2> QED BY <1>0, <2>1, <2>3, <2>5, <2>6, <2>7, <2>8, <2>9, NothingUnderWay, GitTurnBegun DEF Becomes
<1>6. CASE condocCompleteSubstep
  <2> DEFINE n == session.step
             l == session.sub
             s == [session EXCEPT !.sub = 0, !.subStart = 0, !.letter = 0,
                                  !.phase = "Committing", !.next = "AwaitingAction"]
             m == About("closed", n, l)
  <2>1. Becomes(s, m) /\ JobIs("commit", "git", m) /\ story' = story
    BY <1>6, CompleteSubstepDoes DEF condocCompleteSubstep
  <2>2. m.kind # "started"
    BY Kinds
  <2>3. session.active /\ session.file /\ session.phase = "AwaitingAction"
    BY <1>6, AskedOf DEF condocCompleteSubstep
  <2>4. s.phase = "Committing" /\ s.sub = 0 /\ s.step = session.step /\ s.start = session.start
    BY <1>s DEF SessionFields
  <2> HIDE DEF s, m, n, l
  <2>5. SessionFresh(session', work')
    BY <2>1, <2>4 DEF Becomes, SessionFresh, Starting, IsAt
  <2>6. "behind" \notin story => StartFresh(session', log)
    BY <2>1, <2>3, <2>4 DEF BegunFresh, StartFresh, Becomes, Starting, IsAt
  <2> QED BY <1>0, <2>1, <2>2, <2>3, <2>5, <2>6, NothingUnderWay, GitTurnBegun
<1>7. CASE condocCompleteStep
  <2> DEFINE n == session.step
             s == [session EXCEPT !.phase = "Committing", !.next = "AwaitingStep",
                                  !.file = FALSE, !.step = @ + 1]
             m == About("closed", n, 0)
  <2>1. Becomes(s, m) /\ JobIs("commit", "git", m) /\ story' = story
    BY <1>7, CompleteStepDoes DEF condocCompleteStep
  <2>2. m.kind # "started"
    BY Kinds
  <2>3. session.active /\ session.file /\ session.phase = "AwaitingAction"
    BY <1>7, AskedOf DEF condocCompleteStep
  <2>4. s.phase = "Committing" /\ ~s.file
    BY <1>s DEF SessionFields
  <2> HIDE DEF s, m, n
  <2>5. SessionFresh(session', work') /\ ~session'.file
    BY <2>1, <2>4 DEF Becomes, SessionFresh, Starting, IsAt
  <2> QED BY <1>0, <2>1, <2>2, <2>3, <2>5, NothingUnderWay, GitTurnBegun
<1>8. CASE condocRunRevision
  <2> DEFINE s == [session EXCEPT !.letter = pendingRevisionLetter(activeDoc), !.phase = "HumanCommitting"]
             m == About("prompt", session.step, session.sub)
  <2>1. Becomes(s, m) /\ JobIs("commit", "git", m) /\ story' = story
    BY <1>8, RunRevisionDoes DEF condocRunRevision
  <2>2. m.kind # "started"
    BY Kinds
  <2>3. session.active /\ session.file /\ session.phase = "AwaitingAction"
    BY <1>8, AskedOf DEF condocRunRevision
  <2>4. s.phase = "HumanCommitting" /\ s.step = session.step /\ s.sub = session.sub
        /\ s.start = session.start /\ s.subStart = session.subStart
    BY <1>s DEF SessionFields
  <2> HIDE DEF s, m
  <2>5. SessionFresh(session', work')
    BY <2>1, <2>4 DEF Becomes, SessionFresh, Starting, IsAt
  <2>6. "behind" \notin story => StartFresh(session', log)
    BY <2>1, <2>3, <2>4 DEF BegunFresh, StartFresh, Becomes, Starting, IsAt
  <2> QED BY <1>0, <2>1, <2>2, <2>3, <2>5, <2>6, NothingUnderWay, GitTurnBegun
<1>9. CASE condocStartSubstep
  <2> DEFINE n == session.step
             l == pendingSubstepLetter(work, n)
             s == [session EXCEPT !.sub = l, !.letter = 0, !.phase = "StepStarting"]
             m == About("started", n, l)
  <2>1. Becomes(s, m) /\ JobIs("commit", "git", m) /\ n \in Steps /\ l \in Letters /\ story' = story
    BY <1>9, StartSubstepDoes DEF condocStartSubstep
  <2>2. FileOf(work', n, l) = writeStepFile
    <3>1. l \in 0 .. MaxLetters /\ l # 0
      BY <2>1, CondocDocsAssumption DEF Letters
    <3>2. \A x \in Steps, y \in 0 .. MaxLetters :
                   FileOf(work', x, y) =
                       IF x = n /\ y = 0 THEN markSubstepInStepFile(work.stepDoc[n], l)
                       ELSE IF x = n /\ y = l THEN writeStepFile
                       ELSE FileOf(work, x, y)
      BY <1>9, StartSubstepDoes
    <3> HIDE DEF n, l
    <3> QED BY <2>1, <3>1, <3>2
  <2>3. session.active /\ session.file /\ session.phase = "AwaitingAction" /\ session.sub = 0
    BY <1>9, AskedOf DEF condocStartSubstep, Asked
  <2>4. s.phase = "StepStarting" /\ s.step = n /\ s.sub = l
        /\ s.start = session.start /\ s.subStart = session.subStart
    BY <1>s DEF SessionFields
  <2>7. m.step = n /\ m.sub = l
    BY Kinds
  <2>8. l # 0
    BY <2>1, CondocDocsAssumption DEF Letters
  <2> HIDE DEF s, m, l
  <2>5. SessionFresh(session', work')
    BY <2>1, <2>2, <2>4, Kinds DEF Becomes, SessionFresh
  <2>6. "behind" \notin story => StartFresh(session', log)
    BY <2>1, <2>3, <2>4, <2>8 DEF BegunFresh, StartFresh, Becomes, Starting, IsAt
  <2>9. Fresh(FileOf(work', m.step, m.sub))
    BY <2>2, <2>7, Kinds
  <2> QED BY <1>0, <2>1, <2>3, <2>5, <2>6, <2>9, NothingUnderWay, GitTurnBegun
<1>10. CASE condocRunRetry
  <2> DEFINE r == PendingRetry(activeDoc)
             s == [session EXCEPT !.takes = @ + 1, !.letter = r.letter, !.phase = "RunningAgent"]
             m == About("took", session.step, session.sub)
  <2>1. Becomes(s, session.last) /\ JobIs("take", "retry", m) /\ jobs'[Me].target = retryTarget(r)
        /\ story' = story
    BY <1>10, RunRetryDoes DEF TakeIs, condocRunRetry
  <2>2. m.step = session.step /\ m.sub = session.sub
    BY Kinds
  <2>3. session.active /\ session.file /\ session.phase = "AwaitingAction"
    BY <1>10, AskedOf DEF condocRunRetry
  <2>4. s.phase = "RunningAgent" /\ s.step = session.step /\ s.sub = session.sub
        /\ s.start = session.start /\ s.subStart = session.subStart
    BY <1>s DEF SessionFields
  <2>n. \A n \in Sessions : jobs[n].at = "none"
    BY <2>3, NothingUnderWay
  <2>7. "behind" \notin story => StartFresh(session, log)
    BY <2>3 DEF BegunFresh
  <2>8. ~Starting(session)
    BY <2>3 DEF Starting, IsAt
  <2>9. "behind" \notin story /\ retryTarget(r) # 0 =>
            Fresh(FileOf(log[retryTarget(r)].tree, session.step, session.sub))
    BY <2>7, <2>8 DEF StartFresh, retryTarget
  <2> HIDE DEF s, m, r
  <2>5. SessionFresh(session', work')
    BY <2>1, <2>4 DEF Becomes, SessionFresh, Starting, IsAt
  <2>6. "behind" \notin story => StartFresh(session', log)
    BY <2>1, <2>4, <2>7, <2>8 DEF StartFresh, Becomes, Starting, IsAt
  <2>10. \A n \in Sessions : JobFresh(jobs'[n], work', HeadTree)
    BY <2>1, <2>n DEF JobIs, JobFresh
  <2>11. "behind" \notin story' => \A n \in Sessions : RetryFresh(jobs'[n], log)
    BY <2>1, <2>2, <2>9, <2>n DEF JobIs, RetryFresh
  <2> QED BY <1>0, <2>1, <2>5, <2>6, <2>10, <2>11, BegunUnlogged
<1>11. CASE condocRevert
  <2>1. PICK r : r \in Revert /\ RevertFits(r) /\ r # NoRevert /\ RevertTo(r)
    BY <1>11, RevertDoes
  <2> DEFINE s == [session EXCEPT !.takes = @ + 1, !.phase = "RunningAgent", !.step = r.step,
                                  !.file = TRUE, !.sub = 0, !.subStart = 0, !.letter = 0]
             m == About("reverted", r.step, revertSub(r))
  <2>2. /\ Becomes(s, session.last) /\ JobIs("take", "revert", m)
    BY <2>1, RevertToDoes DEF TakeIs
  <2>4. session.active /\ session.phase \in {"AwaitingAction", "AwaitingStep", "Proposed"}
    BY <1>11, RevertDoes
  <2>5. /\ s.phase = "RunningAgent" /\ s.sub = 0 /\ s.step = r.step /\ s.start = session.start
    BY <1>s DEF SessionFields
  <2>n. \A n \in Sessions : jobs[n].at = "none"
    BY <2>4, NothingUnderWay
  <2>6. story' = IF r.step # session.step \/ ~session.file THEN story \cup {"behind"} ELSE story
    BY <2>1 DEF RevertTo
  <2> HIDE DEF s, m
  <2>7. SessionFresh(session', work')
    BY <2>2, <2>5 DEF Becomes, SessionFresh, Starting, IsAt
  <2>8. "behind" \notin story' => StartFresh(session', log)
    <3>1. "behind" \notin story' => "behind" \notin story /\ r.step = session.step /\ session.file
      BY <2>6
    <3>2. ~Starting(session)
      BY <2>4 DEF Starting, IsAt
    <3> QED BY <2>2, <2>4, <2>5, <3>1, <3>2 DEF BegunFresh, StartFresh, Becomes, Starting, IsAt
  <2>10. \A n \in Sessions : JobFresh(jobs'[n], work', HeadTree)
    BY <2>2, <2>n DEF JobIs, JobFresh
  <2>11. \A n \in Sessions : RetryFresh(jobs'[n], log)
    BY <2>2, <2>n DEF JobIs, RetryFresh
  <2> QED BY <1>0, <2>7, <2>8, <2>10, <2>11, BegunUnlogged
<1> QED BY <1>1, <1>2, <1>3, <1>5, <1>6, <1>7, <1>8, <1>9, <1>10, <1>11 DEF HandlerTick

-----------------------------------------------------------------------------
(* The same of the stages, of the messages and from outside.               *)

\* A file that is as it was written is not touched.
FreshStays ==
    \A x \in Steps, y \in 0 .. MaxLetters : Fresh(FileOf(work, x, y)) => Fresh(FileOf(work', x, y))

\* What leaves the session and its job, and files as they were written.
LEMMA BegunStays ==
  ASSUME TypeInv, Orderly, BegunFresh, NoCommit, session' = session,
         story \subseteq story', jobs' = jobs, FreshStays
  PROVE  BegunFresh'
<1>1. \A n \in Sessions : JobFresh(jobs'[n], work', HeadTree)
  <2>1. ASSUME NEW n \in Sessions PROVE JobFresh(jobs'[n], work', HeadTree)
    <3>1. JobFresh(jobs[n], work, HeadTree) /\ JobInOrder(jobs[n], log)
      BY DEF BegunFresh, Orderly
    <3>2. jobs[n].msg.sub \in 0 .. MaxLetters
      BY JobsAre
    <3> QED BY <3>1, <3>2 DEF JobFresh, JobInOrder, FreshStays
  <2> QED BY <2>1
<1>2. session.active => SessionFresh(session, work')
  <2>1. session.active => SessionFresh(session, work) /\ (Starting(session) => session.file)
    BY DEF BegunFresh, Orderly, SessionInOrder
  <2> QED BY <2>1, SessionParts DEF SessionFresh, FreshStays
<1>3. "behind" \notin story => \A n \in Sessions : RetryFresh(jobs[n], log)
  BY RetriesAre DEF BegunFresh
<1>4. session.active /\ session.file /\ "behind" \notin story => StartFresh(session, log)
  BY DEF BegunFresh
<1> QED BY <1>1, <1>2, <1>3, <1>4, BegunUnlogged DEF NoCommit

\* What leaves files alone, or alike, leaves them as they were written.
LEMMA SameStays ==
  ASSUME TypeInv, \A x \in Steps, y \in 0 .. MaxLetters :
              FileOf(work', x, y) = FileOf(work, x, y) \/ Alike(FileOf(work', x, y), FileOf(work, x, y))
                  \/ ~Fresh(FileOf(work, x, y))
  PROVE  FreshStays
  BY FreshAlike DEF FreshStays

\* What a job goes back to is a commit there is.
LEMMA TargetsAre ==
  ASSUME TypeInv, NEW n \in Sessions
  PROVE  jobs[n].target \in 0 .. Len(log)
<1>1. jobs[n].target \in CommitId /\ jobs[n].target <= Len(log)
  BY JobsAre DEF JobFits
<1> QED BY <1>1, TipsAre, SameRepoAssumption DEF CommitId

\* A commit from outside, of this tree, with the files of the branch or of the
\* working tree.
LEMMA BegunOutside ==
  ASSUME TypeInv, TypeInv', Orderly, BegunFresh, NEW t, NEW msg, Recorded(tips.head, t, msg),
         session' = session, story \subseteq story', jobs' = jobs, FreshStays, msg.kind # "started",
         SameFiles(t, HeadTree) \/ t = work
  PROVE  BegunFresh'
<1>1. \A n \in Sessions : JobFresh(jobs'[n], work', t)
  <2>1. ASSUME NEW n \in Sessions PROVE JobFresh(jobs'[n], work', t)
    <3>1. JobFresh(jobs[n], work, HeadTree) /\ JobInOrder(jobs[n], log)
      BY DEF BegunFresh, Orderly
    <3>2. jobs[n].msg.sub \in 0 .. MaxLetters
      BY JobsAre
    <3> QED BY <3>1, <3>2 DEF JobFresh, JobInOrder, FreshStays, SameFiles
  <2> QED BY <2>1
<1>2. session.active => SessionFresh(session, work')
  <2>1. session.active => SessionFresh(session, work) /\ (Starting(session) => session.file)
    BY DEF BegunFresh, Orderly, SessionInOrder
  <2> QED BY <2>1, SessionParts DEF SessionFresh, FreshStays
<1>3. "behind" \notin story => \A n \in Sessions : RetryFresh(jobs[n], log)
  BY RetriesAre DEF BegunFresh
<1> QED BY <1>1, <1>2, <1>3, TargetsAre, BegunLogged

\* A stage of what is under way keeps the starts.
LEMMA StagesKeepBegun ==
  ASSUME TypeInv, TypeInv', Orderly, BegunFresh, NEW n \in Sessions,
         PushTake(n) \/ ResetAndRestore(n) \/ ForcePush(n) \/ GitCommit(n) \/ GitPush(n)
             \/ AgentExits(n) \/ GitFails(n)
  PROVE  BegunFresh'
<1> DEFINE j == jobs[n]
<1>0. /\ JobFresh(j, work, HeadTree) /\ JobInOrder(j, log) /\ Staged(j.at, j.does)
      /\ j.msg.sub \in 0 .. MaxLetters
      /\ session.active => SessionFresh(session, work)
      /\ session.active /\ session.file /\ "behind" \notin story => StartFresh(session, log)
      /\ "behind" \notin story => \A m \in Sessions : RetryFresh(jobs[m], log)
      /\ \A m \in Sessions : JobFresh(jobs[m], work, HeadTree)
  BY JobsAre, RetriesAre DEF BegunFresh, Orderly, JobFits
<1>1. ASSUME NEW a \in {"none", "commit", "push", "run", "take", "reset", "force", "done", "failed"},
             jobs' = Moved(jobs, n, a)
      PROVE  /\ jobs'[n].at = a /\ jobs'[n].does = j.does /\ jobs'[n].msg = j.msg
             /\ jobs'[n].target = j.target /\ \A m \in Sessions : m # n => jobs'[m] = jobs[m]
  BY <1>1, JobsAre DEF Moved, Job
<1>2. ASSUME NEW a \in {"reset", "force", "done", "failed"}, jobs' = Moved(jobs, n, a), log' = log,
             work' = work, session' = session, story' = story, tips'.head = tips.head,
             a = "reset" => j.at = "take", a = "done" /\ j.does = "git" => j.at = "push", j.at # "none"
      PROVE  BegunFresh'
  <2>1. /\ jobs'[n].at = a /\ jobs'[n].does = j.does /\ jobs'[n].msg = j.msg
        /\ jobs'[n].target = j.target /\ \A m \in Sessions : m # n => jobs'[m] = jobs[m]
    BY <1>1, <1>2
  <2> HIDE DEF j
  <2>2. \A m \in Sessions : JobFresh(jobs'[m], work', HeadTree)
    <3>1. JobFresh(jobs'[n], work, HeadTree)
      BY <1>0, <1>2, <2>1 DEF JobFresh, Staged
    <3> QED BY <1>0, <1>2, <2>1, <3>1
  <2>3. "behind" \notin story => \A m \in Sessions : RetryFresh(jobs'[m], log)
    <3>1. RetryFresh(j, log) => RetryFresh(jobs'[n], log)
      BY <1>2, <2>1 DEF RetryFresh
    <3> QED BY <1>0, <2>1, <3>1 DEF j
  <2> QED BY <1>0, <1>2, <2>2, <2>3, BegunUnlogged
<1>3. CASE PushTake(n) \/ ForcePush(n) \/ GitPush(n) \/ AgentExits(n) \/ GitFails(n)
  <2>1. tips.head \in 1 .. Len(log) /\ tips'.head = tips.head
    BY <1>3, SessionParts, TipsAre DEF PushTake, ForcePush, GitPush, AgentExits, GitFails, gitVars, TypeInv, TipsFit
  <2>2. log' = log /\ work' = work /\ session' = session /\ story' = story
    BY <1>3 DEF PushTake, ForcePush, GitPush, AgentExits, GitFails, gitVars
  <2>3. \E a \in {"reset", "force", "done", "failed"} :
            /\ jobs' = Moved(jobs, n, a) /\ (a = "reset" => j.at = "take")
            /\ (a = "done" /\ j.does = "git" => j.at = "push") /\ j.at # "none"
    BY <1>0, <1>3 DEF PushTake, ForcePush, GitPush, AgentExits, GitFails, Moved, Staged
  <2> QED BY <1>2, <2>1, <2>2, <2>3
<1>4. CASE GitCommit(n)
  <2>1. /\ j.at = "commit" /\ j.does = "git" /\ jobs' = Moved(jobs, n, "push")
        /\ UNCHANGED <<session, work, seen, counts, story>>
        /\ (NoCommit /\ work = HeadTree) \/ Recorded(tips.head, work, j.msg)
    BY <1>4, GitCommitDoes
  <2>2. /\ jobs'[n].at = "push" /\ jobs'[n].does = j.does /\ jobs'[n].msg = j.msg
        /\ jobs'[n].target = j.target /\ \A m \in Sessions : m # n => jobs'[m] = jobs[m]
    BY <1>1, <2>1
  <2> HIDE DEF j
  <2>3. \A m \in Sessions : JobFresh(jobs'[m], work, work)
    <3>1. JobFresh(jobs'[n], work, work)
      BY <1>0, <2>1, <2>2 DEF JobFresh
    <3>2. \A m \in Sessions : m # n => jobs[m].at = "none"
      BY <2>1, MineOnly DEF j
    <3> QED BY <2>2, <3>1, <3>2 DEF JobFresh
  <2>4. "behind" \notin story => \A m \in Sessions : RetryFresh(jobs'[m], log)
    BY <1>0, <2>1, <2>2 DEF RetryFresh
  <2>5. \A m \in Sessions : jobs'[m].target \in 0 .. Len(log)
    BY <2>2, TargetsAre DEF j
  <2>6. CASE NoCommit /\ work = HeadTree
    <3>1. log' = log /\ tips' = tips
      BY <2>6 DEF NoCommit
    <3> QED BY <1>0, <2>1, <2>3, <2>4, <2>6, <3>1, BegunUnlogged
  <2>7. CASE Recorded(tips.head, work, j.msg)
    <3>1. j.msg.kind = "started" => j.msg.step \in Steps /\ Fresh(FileOf(work, j.msg.step, j.msg.sub))
      BY <1>0, <2>1 DEF JobFresh, JobInOrder
    <3> DEFINE g == j.msg
    <3>2. Recorded(tips.head, work, g) /\ (g.kind = "started" => g.step \in Steps /\ Fresh(FileOf(work, g.step, g.sub)))
      BY <2>7, <3>1
    <3> HIDE DEF g
    <3>3. story \subseteq story' /\ session' = session /\ work' = work
      BY <2>1
    <3> QED BY <1>0, <2>3, <2>4, <2>5, <3>2, <3>3, BegunLogged
  <2> QED BY <2>1, <2>6, <2>7
<1>5. CASE ResetAndRestore(n)
  <2>1. j.at = "reset" /\ j.does \in {"retry", "revert"} /\ session' = session
    BY <1>5, ResetDoes
  <2>2. n = Me /\ \A m \in Sessions : m # n => jobs[m].at = "none"
    BY <2>1, MineOnly
  <2>3. session.active => ~Starting(session)
    <3>1. session.active => Serves(session, jobs[n])
      BY <2>1, <2>2 DEF Orderly
    <3> QED BY <2>1, <3>1 DEF Serves, Starting, IsAt
  <2>4. j.msg.kind # "started"
    BY <1>0, <2>1 DEF JobInOrder
  <2>5. CASE NoCommit /\ work' = work /\ jobs' = Moved(jobs, n, "failed") /\ story' = story
    BY <1>2, <2>1, <2>5 DEF NoCommit
  <2>6. CASE /\ jobs' = Moved(jobs, n, "force") /\ (\E t : Recorded(ResetTo(j), t, j.msg))
             /\ story' = IF Mislays(j) THEN story \cup {"mislaid"} ELSE story
    <3>0. PICK t : Recorded(ResetTo(j), t, j.msg)
      BY <2>6
    <3>1. /\ jobs'[n].at = "force" /\ jobs'[n].does = j.does /\ jobs'[n].msg = j.msg
          /\ jobs'[n].target = j.target /\ \A m \in Sessions : m # n => jobs'[m] = jobs[m]
      BY <1>1, <2>6
    <3>2. \A m \in Sessions : jobs'[m].target \in 0 .. Len(log)
      BY <3>1, TargetsAre
    <3> DEFINE g == j.msg
               p == ResetTo(j)
    <3>3. Recorded(p, t, g) /\ g.kind # "started" /\ jobs'[n].msg = g /\ story \subseteq story'
      BY <2>4, <2>6, <3>0, <3>1
    <3>4. session.active => SessionFresh(session, work')
      BY <2>3 DEF SessionFresh
    <3>5. \A m \in Sessions : JobFresh(jobs'[m], work', t)
      BY <2>1, <2>2, <3>1 DEF JobFresh
    <3>6. \A m \in Sessions : RetryFresh(jobs'[m], log)
      BY <2>2, <3>1 DEF RetryFresh
    <3> HIDE DEF g, p, j
    <3> QED BY <2>1, <3>2, <3>3, <3>4, <3>5, <3>6, BegunLogged
  <2> QED BY <1>5, <2>5, <2>6, ResetDoes
<1> QED BY <1>3, <1>4, <1>5

\* So does a reset that stops part way.
LEMMA ResetBreaksKeepsBegun ==
  ASSUME TypeInv, Orderly, BegunFresh, NEW n \in Sessions, ResetBreaks(n)
  PROVE  BegunFresh'
<1>1. /\ jobs[n].at = "reset" /\ jobs[n].does \in {"retry", "revert"} /\ session' = session /\ log' = log
      /\ jobs' = Moved(jobs, n, "failed")
      /\ "behind" \in story' <=> "behind" \in story
  BY ResetBreaksDoes
<1>2. n = Me /\ \A m \in Sessions : m # n => jobs[m].at = "none"
  BY <1>1, MineOnly
<1>3. /\ jobs'[n].at = "failed" /\ jobs'[n].does = jobs[n].does
      /\ \A m \in Sessions : m # n => jobs'[m] = jobs[m]
  <2>1. jobs' = Moved(jobs, n, "failed") /\ Staged("failed", jobs[n].does) /\ JobsFit(jobs, log)
    BY <1>1 DEF Staged, TypeInv
  <2> QED BY <2>1, JobMoved
<1>4. session.active => ~Starting(session)
  <2>1. session.active => Serves(session, jobs[n])
    BY <1>1, <1>2 DEF Orderly
  <2> QED BY <1>1, <2>1 DEF Serves, Starting, IsAt
<1>5. \A m \in Sessions : JobFresh(jobs'[m], work', HeadTree')
  BY <1>1, <1>2, <1>3 DEF JobFresh
<1>6. \A m \in Sessions : RetryFresh(jobs'[m], log')
  BY <1>2, <1>3 DEF RetryFresh
<1>7. RetryStartsHere'
  BY <1>6 DEF RetryStartsHere, RetryFresh
<1>8. StartsFresh(log') /\ (session'.active => SessionFresh(session', work'))
  BY <1>1, <1>4 DEF BegunFresh, SessionFresh
<1>9. session'.active /\ session'.file /\ "behind" \notin story' => StartFresh(session', log')
  BY <1>1 DEF BegunFresh
<1> QED BY <1>5, <1>7, <1>8, <1>9 DEF BegunFresh

\* What a message's end leaves, once the session it leaves is known.
LEMMA BegunEnded ==
  ASSUME TypeInv, BegunFresh, log' = log, tips'.head = tips.head, NEW n \in Sessions,
         \A m \in Sessions : m # n => jobs'[m] = jobs[m] /\ jobs[m].at = "none",
         jobs'[n].at \in {"none", "run", "commit"},
         jobs'[n].does # "git" \/ jobs'[n].at = "none" \/ jobs'[n].msg.kind # "started",
         session'.active => SessionFresh(session', work'),
         session'.active /\ session'.file /\ "behind" \notin story' => StartFresh(session', log)
  PROVE  BegunFresh'
<1>1. \A m \in Sessions : JobFresh(jobs'[m], work', HeadTree)
  BY DEF JobFresh
<1>2. \A m \in Sessions : RetryFresh(jobs'[m], log)
  BY DEF RetryFresh
<1> QED BY <1>1, <1>2, BegunUnlogged

\* The commit that starts a step is where the session would go back to.
LEMMA GitDoneKeepsBegun ==
  ASSUME TypeInv, Orderly, BegunFresh, NEW n \in Sessions, handleCondocGitDone(n)
  PROVE  BegunFresh'
<1> DEFINE j == jobs[n]
           s == session
<1>1. j.does = "git" /\ j.at \in {"done", "failed"} /\ log' = log /\ tips' = tips /\ work' = work
      /\ story' = story
  BY GitDoneDoes
<1>2. n = Me /\ \A m \in Sessions : m # n => jobs[m].at = "none" /\ jobs'[m] = jobs[m]
  BY <1>1, MineOnly, GitDoneDoes DEF Ended, AgentOn
<1>3. s.active => SessionInOrder(s) /\ s.phase \in GitPhases /\ j.msg = s.last /\ SessionFresh(s, work)
  BY <1>1, <1>2 DEF Orderly, Serves, BegunFresh
<1>4. s.active /\ s.file /\ "behind" \notin story => StartFresh(s, log)
  BY DEF BegunFresh
<1>5. JobFresh(j, work, HeadTree)
  BY DEF BegunFresh
<1>6. jobs'[n].at \in {"none", "run"} /\ (jobs'[n].does # "git" \/ jobs'[n].at = "none")
  <2>1. Ended(n) \/ AgentOn(n)
    BY GitDoneDoes
  <2> QED BY <2>1 DEF Ended, AgentOn
<1>7. session'.active => SessionFresh(session', work')
      /\ (session'.file /\ "behind" \notin story => StartFresh(session', log))
  <2>1. CASE ~s.active
    BY <2>1, GitDoneDoes
  <2>2. CASE /\ s.active /\ s.phase \in {"StepStarting", "HumanCommitting", "Committing"}
             /\ Waits(s.phase, "GitFailed", s.step, s.start, s.subStart)
    <3>1. (Starting(session') <=> Starting(s)) /\ session'.step = s.step /\ session'.sub = s.sub
          /\ session'.start = s.start /\ session'.subStart = s.subStart /\ session'.file = s.file
      BY <2>2 DEF Starting, IsAt, Waits
    <3> QED BY <1>1, <1>3, <1>4, <2>2, <3>1 DEF SessionFresh, StartFresh
  <2>3. CASE /\ s.active /\ s.phase = "Branching"
             /\ \E k : Waits(s.failed, "AwaitingStep", k, s.start, s.subStart)
    BY <1>3, <2>3 DEF SessionInOrder, Starting, IsAt, Waits, SessionFresh
  <2>4. CASE /\ s.active /\ s.phase = "StepStarting" /\ j.at = "done"
             /\ \/ s.sub # 0 /\ Waits(s.failed, "RunningAgent", s.step, s.start, tips.head)
                \/ s.sub = 0 /\ Waits(s.failed, "RunningAgent", s.step, tips.head, s.subStart)
    <3>1. Starting(s) /\ j.msg = About("started", s.step, s.sub)
      BY <1>3, <2>4 DEF Starting, IsAt, SessionInOrder
    <3>2. Fresh(FileOf(HeadTree, s.step, s.sub))
      BY <1>1, <1>5, <2>4, <3>1, Kinds DEF JobFresh
    <3>3. ~Starting(session') /\ session'.step = s.step /\ session'.sub = s.sub /\ session'.file = s.file
      BY <2>4 DEF Waits, Starting, IsAt
    <3>4. session'.file /\ "behind" \notin story => StartFresh(session', log)
      BY <1>4, <2>4, <3>1, <3>2, <3>3 DEF StartFresh, Waits, HeadTree
    <3> QED BY <3>3, <3>4 DEF SessionFresh
  <2>5. CASE /\ s.active /\ s.phase \in {"HumanCommitting", "Committing"}
             /\ \E f \in {"RunningAgent", s.next} : Waits(s.failed, f, s.step, s.start, s.subStart)
    <3>1. ~Starting(s) /\ s.next \in {"AwaitingAction", "AwaitingStep"}
      BY <1>3, <2>5 DEF Starting, IsAt, SessionInOrder
    <3>2. ~Starting(session') /\ session'.step = s.step /\ session'.sub = s.sub
          /\ session'.start = s.start /\ session'.subStart = s.subStart /\ session'.file = s.file
      BY <2>5, <3>1 DEF Starting, IsAt, Waits
    <3> QED BY <1>1, <1>3, <1>4, <2>5, <3>1, <3>2 DEF SessionFresh, StartFresh
  <2> QED
    <3>1. CASE s.active /\ j.at = "failed" /\ s.phase # "Branching"
      BY <1>3, <2>2, <3>1, GitDoneDoes DEF GitPhases
    <3>2. CASE s.active /\ j.at = "failed" /\ s.phase = "Branching"
      BY <2>3, <3>2, GitDoneDoes
    <3>3. CASE s.active /\ j.at = "done"
      BY <1>3, <2>3, <2>4, <2>5, <3>3, GitDoneDoes
    <3> QED BY <1>1, <2>1, <3>1, <3>2, <3>3
<1> HIDE DEF j, s
<1> QED BY <1>1, <1>2, <1>6, <1>7, BegunEnded

\* When HEAD cannot be read the session's start is behind.
LEMMA StartUnreadKeepsBegun ==
  ASSUME TypeInv, Orderly, BegunFresh, NEW n \in Sessions, StartUnread(n)
  PROVE  BegunFresh'
<1>1. /\ jobs[n].does = "git" /\ jobs[n].at = "done" /\ log' = log /\ tips' = tips /\ AgentOn(n)
      /\ "behind" \in story' /\ Waits(session.failed, "RunningAgent", session.step, session.start, session.subStart)
  BY StartUnreadDoes
<1>2. n = Me /\ \A m \in Sessions : m # n => jobs[m].at = "none" /\ jobs'[m] = jobs[m]
  BY <1>1, MineOnly DEF AgentOn
<1>3. jobs'[n].at = "run" /\ jobs'[n].does # "git" /\ SessionFresh(session', work')
  BY <1>1 DEF AgentOn, Waits, SessionFresh, Starting, IsAt
<1> QED BY <1>1, <1>2, <1>3, BegunEnded

\* The other ends keep the starts.
LEMMA OtherEndsKeepBegun ==
  ASSUME TypeInv, Orderly, BegunFresh, NEW n \in Sessions,
         handleCondocRetryReady(n) \/ handleCondocRevertDone(n) \/ handleCondocAgentDone(n)
  PROVE  BegunFresh'
<1> DEFINE j == jobs[n]
           s == session
<1>1. jobs[n].at # "none" /\ jobs[n].does # "git" /\ log' = log /\ tips' = tips /\ story' = story
  <2>1. CASE handleCondocRetryReady(n)
    BY <2>1, RetryReadyDoes
  <2>2. CASE handleCondocRevertDone(n)
    BY <2>2, RevertDoneDoes
  <2>3. CASE handleCondocAgentDone(n)
    BY <2>3, AgentDoneDoes
  <2> QED BY <2>1, <2>2, <2>3
<1>2. n = Me /\ \A m \in Sessions : m # n => jobs[m].at = "none"
  BY <1>1, MineOnly
<1>3. s.active => s.phase = "RunningAgent" /\ ~Starting(s)
                  /\ (j.does = "revert" => s.file /\ s.step = j.msg.step)
  BY <1>1, <1>2 DEF Orderly, Serves, Starting, IsAt
<1>4. s.active /\ s.file /\ "behind" \notin story => StartFresh(s, log)
  BY DEF BegunFresh
<1>5. CASE handleCondocRetryReady(n)
  <2>1. session' = s /\ (Ended(n) \/ AgentOn(n))
    BY <1>5, RetryReadyDoes
  <2>2. /\ \A m \in Sessions : m # n => jobs'[m] = jobs[m]
        /\ jobs'[n].at \in {"none", "run"} /\ (jobs'[n].does # "git" \/ jobs'[n].at = "none")
    BY <2>1 DEF Ended, AgentOn
  <2> HIDE DEF j
  <2> QED BY <1>1, <1>2, <1>3, <1>4, <2>1, <2>2, BegunEnded DEF SessionFresh
<1>6. CASE handleCondocRevertDone(n)
  <2>1. Ended(n) /\ j.does = "revert" /\ session'.active = s.active /\ session'.start = s.start
    BY <1>6, RevertDoneDoes
  <2>2. /\ \A m \in Sessions : m # n => jobs'[m] = jobs[m]
        /\ jobs'[n].at = "none"
    BY <2>1 DEF Ended
  <2>3. session'.active => ~Starting(session')
        /\ (session'.file /\ "behind" \notin story => StartFresh(session', log))
    <3>1. CASE session' = s
      BY <1>3, <1>4, <3>1
    <3>2. CASE /\ s.active /\ session'.phase = "AwaitingAction"
               /\ session'.step = j.msg.step /\ session'.file /\ session'.sub = j.msg.sub
               /\ session'.subStart = IF j.msg.sub # 0 THEN j.target ELSE 0
      <4>1. session'.step = s.step /\ s.file /\ ~Starting(session')
        BY <1>3, <2>1, <3>2 DEF Starting, IsAt
      <4>2. j.target \in DOMAIN log /\ log[j.target].msg = About("started", j.msg.step, j.msg.sub)
        BY <2>1 DEF Orderly, JobInOrder
      <4>3. Fresh(FileOf(log[j.target].tree, j.msg.step, j.msg.sub))
        BY <4>2, Kinds DEF BegunFresh, StartsFresh, FreshStart
      <4> QED BY <1>3, <1>4, <2>1, <3>2, <4>1, <4>3 DEF StartFresh
    <3> QED BY <1>6, <3>1, <3>2, RevertDoneDoes
  <2> HIDE DEF j, s
  <2> QED BY <1>1, <1>2, <2>2, <2>3, BegunEnded DEF SessionFresh
<1>7. CASE handleCondocAgentDone(n)
  <2>1. /\ \A m \in Sessions : m # n => jobs'[m] = jobs[m]
        /\ jobs'[n].at = "commit" /\ s.active /\ s.file
    BY <1>7, AgentDoneDoes
  <2>2. jobs'[n].msg.kind # "started"
    <3>1. jobs'[n].msg \in {About("completed", s.step, 0), About("replied", s.step, s.sub)}
      BY <1>7, AgentDoneDoes
    <3> QED BY <3>1, Kinds
  <2>3. session'.active => ~Starting(session')
        /\ (session'.file /\ "behind" \notin story => StartFresh(session', log))
    <3>1. CASE ~session'.active
      BY <3>1
    <3>2. CASE /\ session'.phase = "Committing" /\ session'.sub = s.sub
               /\ session'.step = s.step /\ session'.start = s.start /\ session'.subStart = s.subStart
      BY <1>3, <1>4, <2>1, <3>2 DEF Starting, IsAt, StartFresh
    <3> QED BY <1>7, <3>1, <3>2, AgentDoneDoes
  <2> HIDE DEF j, s
  <2> QED BY <1>1, <1>2, <2>1, <2>2, <2>3, BegunEnded DEF SessionFresh
<1> QED BY <1>5, <1>6, <1>7

\* A session that begins finds its start in the history.
LEMMA LoadKeepsBegun ==
  ASSUME TypeInv, Orderly, BegunFresh, ~Overlaps, loadCondocSession
  PROVE  BegunFresh'
<1>1. log' = log /\ tips' = tips /\ work' = work /\ jobs' = jobs /\ \A m \in Sessions : jobs[m].at = "none"
  BY LoadDoes
<1>2. ~Starting(session') /\ session'.subStart = 0
  BY LoadDoes DEF Starting, IsAt
<1>3. session'.file => StartFresh(session', log)
  <2> DEFINE k == LatestStart(work.main.step, 0)
  <2>1. session'.file => work.main.step \in Steps /\ session'.step = work.main.step /\ session'.start = k
    BY LoadDoes
  <2>2. k # 0 => k \in Past(log, tips.head) /\ log[k].msg = About("started", work.main.step, 0)
    BY LatestStartIs, HistoryMeans DEF StartedAt
  <2>3. Past(log, tips.head) \subseteq DOMAIN log
    <3>1. Past(log, tips.head) \subseteq 1 .. tips.head /\ tips.head \in 1 .. Len(log)
      BY TipsAre, PastBelow
    <3> QED BY <3>1, TipsAre
  <2> HIDE DEF k
  <2>4. k # 0 => Fresh(FileOf(log[k].tree, work.main.step, 0))
    BY <2>2, <2>3, Kinds DEF BegunFresh, StartsFresh, FreshStart
  <2> QED BY <1>2, <2>1, <2>4 DEF StartFresh
<1>4. \A m \in Sessions : JobFresh(jobs'[m], work', HeadTree) /\ RetryFresh(jobs'[m], log)
  BY <1>1 DEF JobFresh, RetryFresh
<1> QED BY <1>1, <1>2, <1>3, <1>4, BegunUnlogged DEF SessionFresh

\* What the human asks for leaves a file that is as it was written alone.
LEMMA AsksStayFresh ==
  ASSUME TypeInv, HumanAsks
  PROVE  FreshStays
<1>1. CASE AskOfMain \/ AskToForce
  <2>1. PICK d \in Directive : work' = [work EXCEPT !.main.directives = @ \cup {d}]
    BY <1>1 DEF AskOfMain, AskToForce, Directive
  <2> QED BY <2>1, MainAsked DEF FreshStays, FileOf
<1>2. ASSUME NEW d, ShownDoc(d), DocFits(d), Fresh(Shown) => Fresh(d)
      PROVE  FreshStays
  <2> DEFINE l == detectPhase(work).sub
  <2>1. Shown = FileOf(work, work.main.step, l)
    BY <1>2, ShownIs DEF ShownDoc
  <2>2. \A x \in Steps, y \in 0 .. MaxLetters :
                FileOf(work', x, y) = IF x = work.main.step /\ y = l THEN d ELSE FileOf(work, x, y)
    BY <1>2, ShownKeeps
  <2> HIDE DEF l
  <2> QED BY <1>2, <2>1, <2>2 DEF FreshStays
<1>3. CASE AskToComplete
  <2> DEFINE d == [Shown EXCEPT !.directives = @ \cup {"completed"}]
  <2>1. ShownDoc(d)
    BY <1>3 DEF AskToComplete
  <2>2. DocFits(d) /\ d.sections = Shown.sections /\ d.exists = Shown.exists
    BY <2>1, ShownDirected DEF Directive
  <2> HIDE DEF d
  <2> QED BY <1>2, <2>1, <2>2 DEF Fresh
<1>4. CASE AskForIteration
  <2>1. PICK h \in {"Revision", "Retry", "Substep"}, f \in {Previous, Start} : Fill(h, f)
    BY <1>4 DEF AskForIteration
  <2>2. PICK d : ShownDoc(d) /\ DocFits(d)
    BY <2>1, FilledIs
  <2>3. Named(Shown, "Template") # {}
    BY <2>1 DEF Fill
  <2>4. ~Fresh(Shown)
    <3>1. Shown.sections = <<>> => DOMAIN Shown.sections = {}
      OBVIOUS
    <3> QED BY <2>3, <3>1 DEF Fresh, Named
  <2> QED BY <1>2, <2>2, <2>4
<1>5. CASE AskToRevert
  <2>1. PICK r \in Offered(detectPhase(work), work.main.step) :
           IF detectPhase(work).phase = "awaiting_action" THEN ShownDoc([Shown EXCEPT !.revert = r])
           ELSE work' = [work EXCEPT !.main.revert = r]
    BY <1>5 DEF AskToRevert
  <2>2. r \in Revert /\ RevertFits(r)
    BY OfferedFits
  <2>3. CASE detectPhase(work).phase = "awaiting_action"
    <3> DEFINE d == [Shown EXCEPT !.revert = r]
    <3>1. ShownDoc(d) /\ DocFits(Shown)
      BY <2>1, <2>3, ShownIs
    <3>2. DocFits(d) /\ d.sections = Shown.sections /\ d.exists = Shown.exists
      BY <2>2, <3>1, Reverting
    <3> HIDE DEF d
    <3> QED BY <1>2, <3>1, <3>2 DEF Fresh
  <2>4. CASE detectPhase(work).phase # "awaiting_action"
    <3> DEFINE m == [work.main EXCEPT !.revert = r]
    <3>1. work' = [work EXCEPT !.main = m]
      BY <2>1, <2>4
    <3>2. m \in Main /\ RevertFits(m.revert) /\ (~m.filled => m.step >= 1)
      BY <2>2, SessionParts, MainParts, MainReverting
    <3> HIDE DEF m
    <3>3. work'.stepDoc = work.stepDoc /\ work'.subDoc = work.subDoc
      BY <3>1, <3>2, SessionParts, MainReplaced
    <3> QED BY <3>3 DEF FreshStays, FileOf
  <2> QED BY <2>3, <2>4
<1>6. CASE Resubmit
  <2> DEFINE l == detectPhase(work).sub
             n == work.main.step
  <2>1. PICK d : Alike(d, FileOf(work, n, l)) /\ OneFile(work', work, n, l, d)
    BY <1>6, ResubmitDoes
  <2> HIDE DEF l, n
  <2> QED BY <2>1, FreshAlike DEF FreshStays, OneFile
<1> QED BY <1>1, <1>3, <1>4, <1>5, <1>6 DEF HumanAsks

\* What the human asks for is never asked in a file being started.
LEMMA AsksKeepBegun ==
  ASSUME TypeInv, TypeInv', Orderly, BegunFresh, HumanAsks
  PROVE  BegunFresh'
<1>1. FreshStays
  BY AsksStayFresh
<1>2. CASE Resubmit
  <2>1. session' = session /\ story' = story /\ jobs' = jobs
    BY <1>2, ResubmitDoes
  <2>2. CASE NoCommit
    BY <1>1, <2>1, <2>2, BegunStays
  <2>3. CASE Recorded(tips.head, work, About("recovery", 0, 0))
    <3> DEFINE g == About("recovery", 0, 0)
    <3>1. g.kind # "started" /\ Recorded(tips.head, work, g)
      BY <2>3, Kinds
    <3> HIDE DEF g
    <3> QED BY <1>1, <2>1, <3>1, BegunOutside
  <2> QED BY <1>2, <2>2, <2>3, ResubmitDoes
<1>3. CASE ~Resubmit
  <2>1. OthersRest
    BY <1>3 DEF HumanAsks, AskOfMain, AskToComplete, AskForIteration, AskToRevert, AskToForce
  <2>2. NoCommit /\ session' = session /\ story' = story /\ jobs' = jobs
    BY <2>1 DEF OthersRest, NoCommit
  <2> QED BY <1>1, <2>2, BegunStays
<1> QED BY <1>2, <1>3

\* A pass of condoccer commits no file of its own.
LEMMA LockKeepsBegun ==
  ASSUME TypeInv, TypeInv', Orderly, BegunFresh, LockPass
  PROVE  BegunFresh'
<1>1. session' = session /\ story \subseteq story' /\ jobs' = jobs
  BY LockDoes
<1>2. FreshStays
  BY LockDoes DEF FreshStays, SameFiles
<1>3. CASE NoCommit
  BY <1>1, <1>2, <1>3, BegunStays
<1>4. CASE \E t : SameFiles(t, HeadTree) /\ Recorded(tips.head, t, About("lock", 0, 0))
  <2> DEFINE g == About("lock", 0, 0)
  <2>1. PICK t : SameFiles(t, HeadTree) /\ Recorded(tips.head, t, g)
    BY <1>4
  <2>2. g.kind # "started"
    BY Kinds
  <2> HIDE DEF g
  <2> QED BY <1>1, <1>2, <2>1, <2>2, BegunOutside
<1> QED BY <1>3, <1>4, LockDoes

\* Every step keeps the starts.
LEMMA BegunKept ==
  ASSUME TypeInv, TypeInv', Orderly, BegunFresh, ~Overlaps, SameRepoNext
  PROVE  BegunFresh'
<1>1. CASE HandlerTick
  BY <1>1, TickKeepsBegun
<1>2. ASSUME NEW n \in Sessions, JobStep(n) \/ GitFails(n) \/ ResetBreaks(n) \/ StartUnread(n)
      PROVE  BegunFresh'
  BY <1>2, StagesKeepBegun, GitDoneKeepsBegun, OtherEndsKeepBegun, ResetBreaksKeepsBegun,
     StartUnreadKeepsBegun DEF JobStep
<1>3. CASE exitCondoc
  <2>1. ~session'.active /\ UNCHANGED <<jobs, work, log, tips, story>>
    BY <1>3, ExitDoes
  <2>2. (\A m \in Sessions : JobFresh(jobs[m], work, HeadTree))
        /\ ("behind" \notin story => \A m \in Sessions : RetryFresh(jobs[m], log))
    BY RetriesAre DEF BegunFresh
  <2> QED BY <2>1, <2>2, BegunUnlogged
<1> QED BY <1>1, <1>2, <1>3, LoadKeepsBegun, LockKeepsBegun, AsksKeepBegun DEF SameRepoNext

\* So does nothing.
LEMMA BegunStutters ==
  ASSUME BegunFresh, UNCHANGED sameRepoVars
  PROVE  BegunFresh'
  BY DEF BegunFresh, sameRepoVars, gitVars, HeadTree, RetryStartsHere

\* Both beginnings have their starts.
LEMMA BegunAtFirst == SameRepoInit => BegunFresh
<1> SUFFICES ASSUME SameRepoInit PROVE BegunFresh
  OBVIOUS
<1>2. \A n \in Sessions : jobs[n] = NoJob
  BY DEF SameRepoInit
<1>3. NoJob.at = "none" /\ NoJob.does = "git"
  BY DEF NoJob
<1>4. (\A n \in Sessions : JobFresh(jobs[n], work, HeadTree)) /\ RetryStartsHere
  BY <1>2, <1>3 DEF JobFresh, RetryStartsHere
<1>5. Orderly
  BY OrderAtFirst
<1>6. CASE session = NewSession /\ log = FirstLog
  <2>1. DOMAIN log = 1 .. 1 /\ log[1].msg.kind = "proposed"
    <3>1. NoMsg.kind = "proposed"
      BY Kinds DEF NoMsg
    <3>2. DOMAIN FirstLog = 1 .. 1
      BY FirstLogs DEF LogFits, Linked
    <3>3. log[1].msg = NoMsg
      BY <1>6, FirstLogs
    <3> QED BY <1>6, <3>1, <3>2, <3>3
  <2>3. \A i \in 1 .. 1 : i = 1
    OBVIOUS
  <2>4. StartsFresh(log)
    BY <2>1, <2>3 DEF StartsFresh
  <2>2. ~Starting(session) /\ ~session.file
    BY <1>6, NewSessionFits DEF Starting, IsAt
  <2> QED BY <1>4, <2>2, <2>4 DEF BegunFresh, SessionFresh
<1>7. CASE /\ session = [NewSession EXCEPT !.phase = "AwaitingAction", !.step = 1,
                                           !.file = TRUE, !.start = 3]
           /\ log = LaterLog
  <2>3. DOMAIN log = 1 .. 4 /\ \A i \in 1 .. 4 : i = 1 \/ i = 2 \/ i = 3 \/ i = 4
    BY <1>7, FirstLogs DEF LogFits, Linked
  <2>4. /\ log[1].msg = NoMsg /\ log[2].msg = About("accepted", 1, 0)
        /\ log[3].msg = About("started", 1, 0) /\ log[4].msg = About("replied", 1, 0)
        /\ log[3].tree = Started
    BY <1>7, FirstLogs
  <2>5. /\ log[1].msg.kind # "started" /\ log[2].msg.kind # "started" /\ log[4].msg.kind # "started"
        /\ log[3].msg.step = 1 /\ log[3].msg.sub = 0
    BY <2>4, Kinds DEF NoMsg
  <2>6. 1 \in Steps /\ Fresh(FileOf(Started, 1, 0))
    BY StartedIs, Numbers, NoDocFits
  <2>1. StartsFresh(log) /\ Fresh(FileOf(log[3].tree, 1, 0))
    BY <2>3, <2>4, <2>5, <2>6 DEF StartsFresh, FreshStart
  <2>2. ~Starting(session) /\ session.step = 1 /\ session.start = 3 /\ session.sub = 0
    BY <1>7, NewSessionFits DEF Starting, IsAt, SessionFields
  <2> QED BY <1>4, <2>1, <2>2 DEF BegunFresh, SessionFresh, StartFresh
<1> QED BY <1>6, <1>7 DEF SameRepoInit, FirstLog, LaterLog

-----------------------------------------------------------------------------
(* What condoccer takes for the human's turn.                              *)

\* A substep the step's prompt calls active and whose file is not closed.
OpenSub(t, d) == d.substep # 0 /\ Named(FileOf(t, t.main.step, d.substep), "Completed") = {}

\* The step file is up, under its prompt, and nothing is asked for in the file
\* shown.
Waiting(t) ==
    LET d == FileOf(t, t.main.step, 0)
        e == FileOf(t, t.main.step, d.substep)
    IN  /\ t.main.step > 0 /\ t.main.filled /\ d.exists /\ d.prompt
        /\ IF d.substep = 0 THEN ~Acting(d) ELSE OpenSub(t, d) => e.prompt /\ ~Acting(e)

Resumed(t) ==
    LET d == FileOf(t, t.main.step, 0) IN
    IF d.substep = 0 THEN stepLastEventIsSubstep(d) ELSE ~OpenSub(t, d)

\* The phase condoccer finds in the files.
LEMMA PhaseIs ==
  ASSUME NEW t, TreeFits(t)
  PROVE  LET d == FileOf(t, t.main.step, 0)
             v == detectPhase(t)
             forced == "force" \in t.main.directives
         IN  /\ (v.phase = "completed") <=> t.main.completed
             /\ (v.phase = "awaiting_action") <=> (~t.main.completed /\ ~forced /\ Waiting(t))
             /\ v.phase = "awaiting_action" => (v.resumed <=> Resumed(t))
             /\ ~t.main.completed /\ t.main.filled /\ t.main.step > 0 /\ d.exists =>
                    v.sub = IF d.prompt /\ OpenSub(t, d) THEN d.substep ELSE 0
             /\ ~t.main.completed /\ ~t.main.filled => v.sub = 0
<1> DEFINE n == t.main.step
           d == FileOf(t, n, 0)
           u == detectFilePhase(t)
           forced == "force" \in t.main.directives
           sub == IF d.substep = 0 THEN NoDoc ELSE t.subDoc[n][d.substep]
<1>1. n \in 0 .. MaxSteps /\ t.main.completed \in BOOLEAN /\ t.main.filled \in BOOLEAN
      /\ (n > 0 => n \in Steps) /\ (~t.main.filled => n > 0)
  BY MainParts, Numbers
<1>2. n \in Steps => /\ d.exists \in BOOLEAN /\ d.prompt \in BOOLEAN /\ d.substep \in 0 .. MaxLetters
  BY FileFits, DocParts, Numbers
<1>3. d = t.stepDoc[n] /\ (d.substep # 0 => sub = FileOf(t, n, d.substep))
  BY DEF FileOf
<1>4. n \in Steps /\ d.substep # 0 => sub.prompt \in BOOLEAN
  BY <1>2, <1>3, FileFits, DocParts
<1>5. detectPhase(t) = IF u.phase # "completed" /\ forced
                       THEN [u EXCEPT !.phase = "agent_running", !.resumed = FALSE] ELSE u
  BY DEF detectPhase
<1> DEFINE w == DetectStep(t, n)
<1>6. n \in Steps =>
         /\ w.phase # "completed"
         /\ (w.phase = "awaiting_action") <=>
                /\ d.exists /\ d.prompt
                /\ IF d.substep = 0 THEN ~Acting(d)
                   ELSE Named(sub, "Completed") # {} \/ (sub.prompt /\ ~Acting(sub))
         /\ w.phase = "awaiting_action" =>
                (w.resumed <=> IF d.substep = 0 THEN stepLastEventIsSubstep(d)
                               ELSE Named(sub, "Completed") # {})
         /\ d.exists => w.sub = IF d.prompt /\ d.substep # 0 /\ Named(sub, "Completed") = {} THEN d.substep ELSE 0
         /\ w = [phase |-> w.phase, sub |-> w.sub, resumed |-> w.resumed]
  <2> SUFFICES ASSUME n \in Steps
               PROVE  /\ w.phase # "completed"
                      /\ (w.phase = "awaiting_action") <=>
                             /\ d.exists /\ d.prompt
                             /\ IF d.substep = 0 THEN ~Acting(d)
                                ELSE Named(sub, "Completed") # {} \/ (sub.prompt /\ ~Acting(sub))
                      /\ w.phase = "awaiting_action" =>
                             (w.resumed <=> IF d.substep = 0 THEN stepLastEventIsSubstep(d)
                                            ELSE Named(sub, "Completed") # {})
                      /\ d.exists => w.sub = IF d.prompt /\ d.substep # 0 /\ Named(sub, "Completed") = {}
                                             THEN d.substep ELSE 0
                      /\ w = [phase |-> w.phase, sub |-> w.sub, resumed |-> w.resumed]
    OBVIOUS
  <2>1. w = CASE ~d.exists -> View("proposed", 0)
          [] d.exists /\ ~d.prompt -> View("agent_running", 0)
          [] d.exists /\ d.prompt /\ d.substep = 0 ->
                IF Acting(d) THEN View("agent_running", 0)
                ELSE [View("awaiting_action", 0) EXCEPT !.resumed = stepLastEventIsSubstep(d)]
          [] OTHER ->
                IF Named(sub, "Completed") # {}
                THEN [View("awaiting_action", 0) EXCEPT !.resumed = TRUE]
                ELSE IF sub.prompt /\ ~Acting(sub) THEN View("awaiting_action", d.substep)
                ELSE View("agent_running", d.substep)
    BY <1>3 DEF DetectStep
  <2> DEFINE e == d.exists
             p == d.prompt
             a == Acting(d)
             r == stepLastEventIsSubstep(d)
             c == Named(sub, "Completed") # {}
             b == sub.prompt /\ ~Acting(sub)
             k == d.substep
  <2>2. e \in BOOLEAN /\ p \in BOOLEAN /\ a \in BOOLEAN /\ r \in BOOLEAN /\ c \in BOOLEAN /\ b \in BOOLEAN
    BY <1>2 DEF Acting, stepLastEventIsSubstep
  <2>3. w = CASE ~e -> View("proposed", 0)
          [] e /\ ~p -> View("agent_running", 0)
          [] e /\ p /\ k = 0 -> IF a THEN View("agent_running", 0)
                           ELSE [View("awaiting_action", 0) EXCEPT !.resumed = r]
          [] OTHER -> IF c THEN [View("awaiting_action", 0) EXCEPT !.resumed = TRUE]
                      ELSE IF b THEN View("awaiting_action", k) ELSE View("agent_running", k)
    BY <2>1
  <2> HIDE DEF w, e, p, a, r, c, b, k
  <2>4. CASE ~e
    <3>1. w = View("proposed", 0)
      BY <2>2, <2>3, <2>4
    <3>2. w = [phase |-> "proposed", sub |-> 0, resumed |-> FALSE]
      BY <3>1 DEF View
    <3>3. w.phase = "proposed" /\ w.sub = 0 /\ w.resumed = FALSE
      BY <3>2
    <3> QED BY <2>2, <2>4, <3>2, <3>3 DEF e, p, a, r, c, b, k
  <2>5. CASE e /\ ~p
    <3>1. w = View("agent_running", 0)
      BY <2>2, <2>3, <2>5
    <3>2. w = [phase |-> "agent_running", sub |-> 0, resumed |-> FALSE]
      BY <3>1 DEF View
    <3>3. w.phase = "agent_running" /\ w.sub = 0 /\ w.resumed = FALSE
      BY <3>2
    <3> QED BY <2>2, <2>5, <3>2, <3>3 DEF e, p, a, r, c, b, k
  <2>6. CASE e /\ p /\ k = 0 /\ a
    <3>1. w = View("agent_running", 0)
      BY <2>2, <2>3, <2>6
    <3>2. w = [phase |-> "agent_running", sub |-> 0, resumed |-> FALSE]
      BY <3>1 DEF View
    <3>3. w.phase = "agent_running" /\ w.sub = 0 /\ w.resumed = FALSE
      BY <3>2
    <3> QED BY <2>2, <2>6, <3>2, <3>3 DEF e, p, a, r, c, b, k
  <2>7. CASE e /\ p /\ k = 0 /\ ~a
    <3>1. w = [View("awaiting_action", 0) EXCEPT !.resumed = r]
      BY <2>2, <2>3, <2>7
    <3>2. w = [phase |-> "awaiting_action", sub |-> 0, resumed |-> r]
      BY <3>1 DEF View
    <3>3. w.phase = "awaiting_action" /\ w.sub = 0 /\ w.resumed = r
      BY <3>2
    <3> QED BY <2>7, <3>2, <3>3 DEF e, p, a, r, c, b, k
  <2>8. CASE e /\ p /\ k # 0 /\ c
    <3>1. w = [View("awaiting_action", 0) EXCEPT !.resumed = TRUE]
      BY <2>2, <2>3, <2>8
    <3>2. w = [phase |-> "awaiting_action", sub |-> 0, resumed |-> TRUE]
      BY <3>1 DEF View
    <3>3. w.phase = "awaiting_action" /\ w.sub = 0 /\ w.resumed = TRUE
      BY <3>2
    <3> QED BY <2>8, <3>2, <3>3 DEF e, p, a, r, c, b, k
  <2>9. CASE e /\ p /\ k # 0 /\ ~c /\ b
    <3>1. w = View("awaiting_action", k)
      BY <2>2, <2>3, <2>9
    <3>2. w = [phase |-> "awaiting_action", sub |-> k, resumed |-> FALSE]
      BY <3>1 DEF View
    <3>3. w.phase = "awaiting_action" /\ w.sub = k /\ w.resumed = FALSE
      BY <3>2
    <3> QED BY <2>9, <3>2, <3>3 DEF e, p, a, r, c, b, k
  <2>10. CASE e /\ p /\ k # 0 /\ ~c /\ ~b
    <3>1. w = View("agent_running", k)
      BY <2>2, <2>3, <2>10
    <3>2. w = [phase |-> "agent_running", sub |-> k, resumed |-> FALSE]
      BY <3>1 DEF View
    <3>3. w.phase = "agent_running" /\ w.sub = k
      BY <3>2
    <3> QED BY <2>10, <3>2, <3>3 DEF e, p, a, r, c, b, k
  <2> QED BY <2>2, <2>4, <2>5, <2>6, <2>7, <2>8, <2>9, <2>10
<1>7. u = CASE t.main.completed -> View("completed", 0)
      [] ~t.main.completed /\ n = 0 -> View("proposed", 0)
      [] ~t.main.completed /\ n > 0 /\ ~t.main.filled -> View("awaiting_step", 0)
      [] OTHER -> w
  BY DEF detectFilePhase
<1>8. OpenSub(t, d) <=> d.substep # 0 /\ Named(sub, "Completed") = {}
  BY <1>3 DEF OpenSub
<1>9. Waiting(t) <=> /\ n > 0 /\ t.main.filled /\ d.exists /\ d.prompt
                     /\ IF d.substep = 0 THEN ~Acting(d)
                        ELSE Named(sub, "Completed") # {} \/ (sub.prompt /\ ~Acting(sub))
  BY <1>3, <1>8 DEF Waiting
<1>10. Resumed(t) <=> IF d.substep = 0 THEN stepLastEventIsSubstep(d) ELSE Named(sub, "Completed") # {}
  BY <1>8 DEF Resumed
<1> HIDE DEF w, sub, u
<1>11. ASSUME NEW x, x \in {View("completed", 0), View("proposed", 0), View("awaiting_step", 0)}
       PROVE  x = [phase |-> x.phase, sub |-> 0, resumed |-> FALSE]
  BY <1>11 DEF View
<1>12. u = [phase |-> u.phase, sub |-> u.sub, resumed |-> u.resumed]
  <2>1. u \in {View("completed", 0), View("proposed", 0), View("awaiting_step", 0)} \/ (u = w /\ n \in Steps)
    BY <1>1, <1>7
  <2> QED BY <1>6, <2>1 DEF View
<1>13. /\ (u.phase = "completed") <=> t.main.completed
       /\ (u.phase = "awaiting_action") <=> (~t.main.completed /\ Waiting(t))
       /\ u.phase = "awaiting_action" => (u.resumed <=> Resumed(t))
       /\ ~t.main.completed /\ t.main.filled /\ n > 0 /\ d.exists =>
              u.sub = IF d.prompt /\ OpenSub(t, d) THEN d.substep ELSE 0
       /\ ~t.main.completed /\ ~t.main.filled => u.sub = 0
  <2>1. CASE t.main.completed
    <3>1. u = View("completed", 0)
      BY <1>1, <1>7, <2>1
    <3> QED BY <2>1, <3>1 DEF View
  <2>2. CASE ~t.main.completed /\ n = 0
    <3>1. u = View("proposed", 0)
      BY <1>1, <1>7, <2>2
    <3> QED BY <1>1, <1>9, <2>2, <3>1 DEF View
  <2>3. CASE ~t.main.completed /\ n > 0 /\ ~t.main.filled
    <3>1. u = View("awaiting_step", 0)
      BY <1>1, <1>7, <2>3
    <3> QED BY <1>9, <2>3, <3>1 DEF View
  <2>4. CASE ~t.main.completed /\ n > 0 /\ t.main.filled
    <3>1. u = w /\ n \in Steps
      BY <1>1, <1>7, <2>4
    <3> HIDE DEF d, n
    <3> QED BY <1>6, <1>8, <1>9, <1>10, <2>4, <3>1
  <2> QED BY <1>1, <2>1, <2>2, <2>3, <2>4
<1> HIDE DEF d, n
<1>14. CASE u.phase # "completed" /\ forced
  <2>1. detectPhase(t) = [phase |-> "agent_running", sub |-> u.sub, resumed |-> FALSE]
    BY <1>5, <1>12, <1>14
  <2>2. detectPhase(t).phase = "agent_running" /\ detectPhase(t).sub = u.sub
    BY <2>1
  <2> QED BY <1>13, <1>14, <2>2 DEF d, n
<1>15. CASE ~(u.phase # "completed" /\ forced)
  <2>1. detectPhase(t) = u
    BY <1>5, <1>15
  <2> QED BY <1>13, <1>15, <2>1 DEF d, n
<1> QED BY <1>14, <1>15

\* When the files are the human's.
LEMMA SafeIs ==
  ASSUME NEW t, TreeFits(t)
  PROVE  Safe(detectPhase(t)) <=>
             t.main.completed \/ ("force" \notin t.main.directives /\ Waiting(t) /\ ~Resumed(t))
  BY PhaseIs DEF Safe

\* The lock is not read.
LEMMA SafeOfFiles ==
  ASSUME NEW t, NEW u, TreeFits(t), TreeFits(u), SameFiles(t, u),
         t.main.completed = u.main.completed, t.main.directives = u.main.directives,
         t.main.step = u.main.step, t.main.filled = u.main.filled
  PROVE  Safe(detectPhase(t)) <=> Safe(detectPhase(u))
<1>1. t.main.step > 0 => t.main.step \in Steps
  BY MainParts, Numbers
<1>2. CASE t.main.step > 0
  <2> DEFINE d == FileOf(t, t.main.step, 0)
  <2>1. d = FileOf(u, u.main.step, 0) /\ d.substep \in 0 .. MaxLetters
    BY <1>1, <1>2, FileFits, DocParts, Numbers DEF SameFiles
  <2>2. FileOf(t, t.main.step, d.substep) = FileOf(u, u.main.step, d.substep)
    BY <1>1, <1>2, <2>1 DEF SameFiles
  <2> HIDE DEF d
  <2>3. (Waiting(t) <=> Waiting(u)) /\ (Resumed(t) <=> Resumed(u))
    BY <2>1, <2>2 DEF Waiting, Resumed, OpenSub, d
  <2> QED BY <2>3, SafeIs
<1>3. CASE ~(t.main.step > 0)
  BY <1>3, SafeIs DEF Waiting
<1> QED BY <1>2, <1>3

-----------------------------------------------------------------------------
(* No ask hands the condoc back: where it is not the human's turn, it is   *)
(* not after what the human asks for.                                      *)

\* Whether a step waits for the human is read from its files.
LEMMA WaitingOfFiles ==
  ASSUME NEW t, NEW u, TreeFits(t), TreeFits(u), SameFiles(t, u),
         t.main.step = u.main.step, t.main.filled = u.main.filled
  PROVE  (Waiting(t) <=> Waiting(u)) /\ (t.main.step > 0 => (Resumed(t) <=> Resumed(u)))
<1>1. t.main.step > 0 => t.main.step \in Steps
  BY MainParts, Numbers
<1>2. CASE t.main.step > 0
  <2> DEFINE d == FileOf(t, t.main.step, 0)
  <2>1. d = FileOf(u, u.main.step, 0) /\ d.substep \in 0 .. MaxLetters
    BY <1>1, <1>2, FileFits, DocParts, Numbers DEF SameFiles
  <2>2. FileOf(t, t.main.step, d.substep) = FileOf(u, u.main.step, d.substep)
    BY <1>1, <1>2, <2>1 DEF SameFiles
  <2> HIDE DEF d
  <2> QED BY <2>1, <2>2 DEF Waiting, Resumed, OpenSub, d
<1>3. CASE ~(t.main.step > 0)
  BY <1>3 DEF Waiting
<1> QED BY <1>2, <1>3

\* Directed in the file shown, or where nothing but its revert changes.
LEMMA ShownUnsafe ==
  ASSUME TypeInv, TypeInv', NEW d, ShownDoc(d), DocFits(d), d.substep = Shown.substep,
         Acting(d) \/ d.sections = Shown.sections, ~Safe(detectPhase(work))
  PROVE  ~Safe(detectPhase(work'))
<1> DEFINE n == work.main.step
           l == detectPhase(work).sub
           f == FileOf(work, n, 0)
           g == FileOf(work', n, 0)
<1>1. n \in Steps /\ l \in 0 .. MaxLetters /\ Shown = FileOf(work, n, l)
      /\ detectPhase(work).phase = "awaiting_action"
  BY ShownIs DEF ShownDoc
<1>2. TreeFits(work) /\ TreeFits(work') /\ work'.main = work.main
      /\ \A x \in Steps, y \in 0 .. MaxLetters :
                FileOf(work', x, y) = IF x = n /\ y = l THEN d ELSE FileOf(work, x, y)
  BY SessionParts, ShownKeeps
<1>3. ~work.main.completed /\ "force" \notin work.main.directives /\ Waiting(work) /\ Resumed(work)
  BY <1>1, <1>2, PhaseIs, SafeIs
<1>4. l = 0
  <2>1. f.exists /\ f.prompt /\ work.main.filled /\ n > 0 /\ ~OpenSub(work, f)
    BY <1>3 DEF Waiting, Resumed, OpenSub
  <2> QED BY <1>2, <1>3, <2>1, PhaseIs
<1>5. g = d /\ f = Shown /\ f.substep \in 0 .. MaxLetters
  BY <1>1, <1>2, <1>4, FileFits, DocParts, Numbers
<1> HIDE DEF l, n
<1>6. CASE f.substep # 0
  <2>1. FileOf(work', n, g.substep) = FileOf(work, n, f.substep)
    BY <1>1, <1>2, <1>4, <1>5, <1>6
  <2>2. Resumed(work')
    BY <1>2, <1>3, <1>5, <1>6, <2>1 DEF Resumed, OpenSub, n
  <2> QED BY <1>2, <1>3, <2>2, SafeIs
<1>7. CASE f.substep = 0 /\ Acting(d)
  <2>1. ~Waiting(work')
    BY <1>2, <1>5, <1>7 DEF Waiting, n
  <2> QED BY <1>2, <1>3, <2>1, SafeIs
<1>8. CASE f.substep = 0 /\ d.sections = Shown.sections
  <2>1. stepLastEventIsSubstep(g)
    BY <1>3, <1>5, <1>8 DEF Resumed, stepLastEventIsSubstep, Named, n
  <2>2. Resumed(work')
    BY <1>2, <1>5, <1>8, <2>1 DEF Resumed, n
  <2> QED BY <1>2, <1>3, <2>2, SafeIs
<1> QED BY <1>6, <1>7, <1>8

\* A file handed off again is the handler's.
LEMMA ResubmitUnsafe ==
  ASSUME TypeInv, TypeInv', Resubmit
  PROVE  ~Safe(detectPhase(work'))
<1> DEFINE n == work.main.step
           l == detectPhase(work).sub
           f == FileOf(work, n, 0)
           g == FileOf(work', n, 0)
<1>1. n \in Steps /\ l \in 0 .. MaxLetters /\ work'.main = work.main /\ ~work.main.completed
      /\ TreeFits(work) /\ TreeFits(work')
  BY ResubmitDoes, SessionParts DEF TypeInv
<1>2. PICK d : /\ DocFits(d) /\ Alike(d, FileOf(work, n, l)) /\ Acting(d)
               /\ OneFile(work', work, n, l, d)
  BY ResubmitDoes
<1>3. work.main.filled /\ f.exists /\ n > 0
  BY DEF Resubmit, FileOf
<1>4. l = IF f.prompt /\ OpenSub(work, f) THEN f.substep ELSE 0
  BY <1>1, <1>3, PhaseIs
<1>5. f.substep \in 0 .. MaxLetters
  BY <1>1, FileFits, DocParts, Numbers
<1>6. \A x \in Steps, y \in 0 .. MaxLetters :
          FileOf(work', x, y) = IF x = n /\ y = l THEN d ELSE FileOf(work, x, y)
  BY <1>2 DEF OneFile
<1> HIDE DEF l
<1>7. CASE f.prompt /\ OpenSub(work, f)
  <2>1. l # 0 /\ l = f.substep
    BY <1>4, <1>7 DEF OpenSub
  <2>2. g = f /\ FileOf(work', n, f.substep) = d
    BY <1>1, <1>5, <1>6, <2>1, Numbers
  <2>3. Named(d, "Completed") = {}
    BY <1>2, <1>7, <2>1 DEF Alike, Named, OpenSub
  <2> HIDE DEF f, g, n
  <2>4. ~Waiting(work')
    BY <1>1, <1>2, <2>1, <2>2, <2>3 DEF Waiting, OpenSub, n, g
  <2> QED BY <1>1, <2>4, SafeIs
<1>8. CASE ~(f.prompt /\ OpenSub(work, f))
  <2>1. l = 0 /\ g = d /\ Alike(d, f)
    BY <1>1, <1>2, <1>4, <1>6, <1>8, Numbers
  <2>2. CASE ~f.prompt
    <3>1. ~Waiting(work')
      BY <1>1, <2>1, <2>2 DEF Waiting, Alike
    <3> QED BY <1>1, <3>1, SafeIs
  <2>3. CASE f.substep = 0
    <3>1. ~Waiting(work')
      BY <1>1, <1>2, <2>1, <2>3 DEF Waiting, Alike
    <3> QED BY <1>1, <3>1, SafeIs
  <2>4. CASE f.prompt /\ f.substep # 0
    <3>1. FileOf(work', n, g.substep) = FileOf(work, n, f.substep) /\ g.substep = f.substep
      BY <1>1, <1>5, <1>6, <2>1, <2>4 DEF Alike
    <3>2. Resumed(work')
      BY <1>1, <1>8, <2>4, <3>1 DEF Resumed, OpenSub
    <3> QED BY <1>1, <3>2, SafeIs
  <2> QED BY <2>2, <2>3, <2>4
<1> QED BY <1>7, <1>8

\* What the human asks for never takes the turn back.
LEMMA AsksStayUnsafe ==
  ASSUME TypeInv, TypeInv', HumanAsks
  PROVE  work'.lock = work.lock /\ (~Safe(detectPhase(work)) => ~Safe(detectPhase(work')))
<1>0. TreeFits(work) /\ TreeFits(work')
  BY DEF TypeInv
<1>1. CASE AskOfMain \/ AskToForce
  <2>1. PICK d \in Directive : work' = [work EXCEPT !.main.directives = @ \cup {d}]
    BY <1>1 DEF AskOfMain, AskToForce, Directive
  <2>2. /\ work'.lock = work.lock /\ work'.stepDoc = work.stepDoc /\ work'.subDoc = work.subDoc
        /\ work'.main.step = work.main.step /\ work'.main.filled = work.main.filled
        /\ work'.main.completed = work.main.completed
        /\ work'.main.directives = work.main.directives \cup {d}
    BY <2>1, MainAsked
  <2>3. SameFiles(work', work)
    BY <2>2 DEF SameFiles, FileOf
  <2>4. (Waiting(work') <=> Waiting(work)) /\ (work.main.step > 0 => (Resumed(work') <=> Resumed(work)))
    BY <1>0, <2>2, <2>3, WaitingOfFiles
  <2>5. Waiting(work) => work.main.step > 0
    BY DEF Waiting
  <2> QED BY <1>0, <2>2, <2>4, <2>5, SafeIs
<1>3. CASE AskToComplete
  <2> DEFINE d == [Shown EXCEPT !.directives = @ \cup {"completed"}]
  <2>1. ShownDoc(d)
    BY <1>3 DEF AskToComplete
  <2>2. DocFits(d) /\ d.sections = Shown.sections /\ d.substep = Shown.substep
    BY <2>1, ShownDirected DEF Directive
  <2> HIDE DEF d
  <2> QED BY <2>1, <2>2, ShownUnsafe, ShownKeeps
<1>4. CASE AskForIteration
  <2>1. PICK h \in {"Revision", "Retry", "Substep"}, f \in {Previous, Start} : Fill(h, f)
    BY <1>4 DEF AskForIteration
  <2>2. PICK d : ShownDoc(d) /\ DocFits(d) /\ d.substep = Shown.substep /\ "handoff" \in d.directives
    BY <2>1, FilledIs
  <2>3. Acting(d)
    BY <2>2 DEF Acting
  <2> QED BY <2>2, <2>3, ShownUnsafe, ShownKeeps
<1>5. CASE AskToRevert
  <2>1. PICK r \in Offered(detectPhase(work), work.main.step) :
           IF detectPhase(work).phase = "awaiting_action" THEN ShownDoc([Shown EXCEPT !.revert = r])
           ELSE work' = [work EXCEPT !.main.revert = r]
    BY <1>5 DEF AskToRevert
  <2>2. r \in Revert /\ RevertFits(r)
    BY OfferedFits
  <2>3. CASE detectPhase(work).phase = "awaiting_action"
    <3> DEFINE d == [Shown EXCEPT !.revert = r]
    <3>1. ShownDoc(d) /\ DocFits(Shown)
      BY <2>1, <2>3, ShownIs
    <3>2. DocFits(d) /\ d.sections = Shown.sections /\ d.substep = Shown.substep
      BY <2>2, <3>1, Reverting
    <3> HIDE DEF d
    <3> QED BY <3>1, <3>2, ShownUnsafe, ShownKeeps
  <2>4. CASE detectPhase(work).phase # "awaiting_action"
    <3> DEFINE m == [work.main EXCEPT !.revert = r]
    <3>1. work' = [work EXCEPT !.main = m]
      BY <2>1, <2>4
    <3>2. /\ m \in Main /\ RevertFits(m.revert) /\ (~m.filled => m.step >= 1)
          /\ m.step = work.main.step /\ m.filled = work.main.filled
          /\ m.completed = work.main.completed /\ m.directives = work.main.directives
      BY <2>2, SessionParts, MainParts, MainReverting
    <3> HIDE DEF m
    <3>3. work'.stepDoc = work.stepDoc /\ work'.subDoc = work.subDoc /\ work'.main = m
          /\ work'.lock = work.lock
      BY <3>1, <3>2, SessionParts, MainReplaced
    <3>4. SameFiles(work', work)
      BY <3>3 DEF SameFiles, FileOf
    <3> QED BY <1>0, <3>2, <3>3, <3>4, SafeOfFiles
  <2> QED BY <2>3, <2>4
<1>6. CASE Resubmit
  BY <1>6, ResubmitDoes, ResubmitUnsafe
<1> QED BY <1>1, <1>3, <1>4, <1>5, <1>6 DEF HumanAsks

-----------------------------------------------------------------------------
(* While git has not failed.                                               *)

BehindIn(L, head, origin, J) == origin = 0 \/ origin \in Past(L, head) \/ \E n \in Sessions : J[n].at = "force"

BehindForm == BehindIn(log, tips.head, tips.origin, jobs)

\* OriginBehind, as a state predicate to prime.
LEMMA BehindIs == OriginBehind <=> BehindForm
  BY HistoryMeans DEF OriginBehind, BehindForm, BehindIn

\* The same, of the next state.
LEMMA BehindHolds ==
  ASSUME BehindIn(log', tips'.head, tips'.origin, jobs')
  PROVE  OriginBehind'
<1>1. BehindForm'
  BY DEF BehindForm
<1>2. (OriginBehind <=> BehindForm)'
  BY BehindIs, PTL
<1> QED BY <1>1, <1>2

\* Where nothing is committed.
LEMMA CalmUnlogged ==
  ASSUME TypeInv, TroubleFree, log' = log, tips'.head = tips.head,
         \/ tips'.origin = tips.origin /\ \A n \in Sessions : jobs[n].at = "force" => jobs'[n].at = "force"
         \/ tips'.origin = tips.head,
         \A n \in Sessions : CalmJob(jobs'[n], work'),
         session'.active => session'.phase # "GitFailed"
  PROVE  TroubleFree'
<1>1. tips.head \in Past(log, tips.head)
  BY TipsAre, PastBelow
<1>2. BehindIn(log', tips'.head, tips'.origin, jobs')
  BY <1>1, BehindIs DEF TroubleFree, BehindForm, BehindIn
<1>3. Released(log')
  BY DEF TroubleFree
<1> QED BY <1>2, <1>3, BehindHolds DEF TroubleFree

\* Where a commit is made.
LEMMA CalmLogged ==
  ASSUME TypeInv, TypeInv', TroubleFree, NEW p, NEW t, NEW msg, Recorded(p, t, msg),
         msg.kind \in {"replied", "reverted", "completed"} /\ t.lock => ~Safe(detectPhase(t)),
         \/ p = tips.head /\ \A n \in Sessions : jobs[n].at = "force" => jobs'[n].at = "force"
         \/ \E n \in Sessions : jobs'[n].at = "force",
         \A n \in Sessions : CalmJob(jobs'[n], work'),
         session'.active => session'.phase # "GitFailed"
  PROVE  TroubleFree'
<1> DEFINE N == Len(log)
<1>1. N \in Nat /\ DOMAIN log = 1 .. N /\ DOMAIN log' = 1 .. N + 1
      /\ \A i \in 1 .. N + 1 : i \in 1 .. N \/ i = N + 1
  <2>1. N \in Nat /\ DOMAIN log = 1 .. N
    BY TipsAre
  <2>2. Len(log') = N + 1
    BY DEF Recorded
  <2> HIDE DEF N
  <2> QED BY <2>1, <2>2, LogAfter
<1>2. /\ \A i \in 1 .. N : log'[i] = log[i]
      /\ log'[N + 1].tree = t /\ log'[N + 1].msg = msg /\ tips'.head = N + 1
      /\ tips'.origin = tips.origin /\ Past(log', N + 1) = {N + 1} \cup Past(log, p)
  BY DEF Recorded
<1> HIDE DEF N
<1>3. Released(log')
  BY <1>1, <1>2 DEF TroubleFree, Released
<1>4. BehindIn(log', tips'.head, tips'.origin, jobs')
  BY <1>2, BehindIs DEF TroubleFree, BehindForm, BehindIn
<1> QED BY <1>3, <1>4, BehindHolds DEF TroubleFree

\* A tick begins with the branch where origin can take it.
LEMMA TickKeepsCalm ==
  ASSUME TypeInv, Orderly, TroubleFree, HandlerTick
  PROVE  TroubleFree'
<1>0. log' = log /\ tips' = tips
  BY DEF HandlerTick, HandlerRest, condocAcceptProposal, condocStartStep, condocCompleteCondoc,
       condocForceComplete, condocRetryFailedGit, condocCompleteSubstep, condocCompleteStep,
       condocRunRevision, condocStartSubstep, condocRunRetry, condocRevert, RevertTo
<1>s. session \in SessionFields
  BY SessionParts
<1>c. session.active /\ session.phase \in {"Proposed", "AwaitingStep", "AwaitingAction", "GitFailed"}
  BY DEF HandlerTick, condocAcceptProposal, condocStartStep, condocCompleteCondoc,
       condocForceComplete, condocRetryFailedGit, condocCompleteSubstep, condocCompleteStep,
       condocRunRevision, condocStartSubstep, condocRunRetry, condocRevert, Asked, Ticks
<1>n. \A n \in Sessions : jobs[n].at = "none"
  BY <1>c, NothingUnderWay
<1>1. ASSUME NEW at, NEW does, NEW m, JobIs(at, does, m), at = "commit" \/ (at = "take" /\ does # "git"),
             m.kind \in {"replied", "completed"} => at # "commit" \/ ~work'.lock,
             session'.active => session'.phase # "GitFailed"
      PROVE  TroubleFree'
  <2>1. \A n \in Sessions : CalmJob(jobs'[n], work')
    BY <1>1, <1>n DEF JobIs, CalmJob
  <2> QED BY <1>0, <1>1, <1>n, <2>1, CalmUnlogged
<1>2. CASE condocAcceptProposal
  <2>1. JobIs("commit", "git", About("accepted", 1, 0)) /\ session'.phase = [session EXCEPT !.phase = "Branching"].phase
    BY <1>2, AcceptDoes DEF Becomes
  <2>2. [session EXCEPT !.phase = "Branching"].phase = "Branching"
    BY <1>s DEF SessionFields
  <2> QED BY <1>1, <2>1, <2>2, Kinds
<1>3. CASE condocStartStep
  <2> DEFINE s == [session EXCEPT !.step = work.main.step, !.file = TRUE, !.letter = 0, !.phase = "StepStarting"]
  <2>1. JobIs("commit", "git", About("started", work.main.step, 0)) /\ session'.phase = s.phase
    BY <1>3, StartStepDoes DEF Becomes
  <2>2. s.phase = "StepStarting"
    BY <1>s DEF SessionFields
  <2> QED BY <1>1, <2>1, <2>2, Kinds
<1>4. CASE condocCompleteCondoc \/ condocForceComplete
  <2> DEFINE s == [session EXCEPT !.active = FALSE]
  <2>1. JobIs("commit", "git", About("completed", session.step, 0)) /\ session'.active = s.active /\ ~work'.lock
    BY <1>4, CompleteCondocDoes, ForceCompleteDoes DEF Becomes
  <2>2. ~s.active
    BY <1>s DEF SessionFields
  <2> QED BY <1>1, <2>1, <2>2
<1>5. CASE condocRetryFailedGit
  BY <1>5, <1>c, RetryGitDoes DEF TroubleFree
<1>6. CASE condocCompleteSubstep
  <2> DEFINE s == [session EXCEPT !.sub = 0, !.subStart = 0, !.letter = 0,
                                  !.phase = "Committing", !.next = "AwaitingAction"]
  <2>1. JobIs("commit", "git", About("closed", session.step, session.sub)) /\ session'.phase = s.phase
    BY <1>6, CompleteSubstepDoes DEF Becomes
  <2>2. s.phase = "Committing"
    BY <1>s DEF SessionFields
  <2> QED BY <1>1, <2>1, <2>2, Kinds
<1>7. CASE condocCompleteStep
  <2> DEFINE s == [session EXCEPT !.phase = "Committing", !.next = "AwaitingStep",
                                  !.file = FALSE, !.step = @ + 1]
  <2>1. JobIs("commit", "git", About("closed", session.step, 0)) /\ session'.phase = s.phase
    BY <1>7, CompleteStepDoes DEF Becomes
  <2>2. s.phase = "Committing"
    BY <1>s DEF SessionFields
  <2> QED BY <1>1, <2>1, <2>2, Kinds
<1>8. CASE condocRunRevision
  <2> DEFINE s == [session EXCEPT !.letter = pendingRevisionLetter(activeDoc), !.phase = "HumanCommitting"]
  <2>1. JobIs("commit", "git", About("prompt", session.step, session.sub)) /\ session'.phase = s.phase
    BY <1>8, RunRevisionDoes DEF Becomes
  <2>2. s.phase = "HumanCommitting"
    BY <1>s DEF SessionFields
  <2> QED BY <1>1, <2>1, <2>2, Kinds
<1>9. CASE condocStartSubstep
  <2> DEFINE l == pendingSubstepLetter(work, session.step)
             s == [session EXCEPT !.sub = l, !.letter = 0, !.phase = "StepStarting"]
  <2>1. JobIs("commit", "git", About("started", session.step, l)) /\ session'.phase = s.phase
    BY <1>9, StartSubstepDoes DEF Becomes
  <2>2. s.phase = "StepStarting"
    BY <1>s DEF SessionFields
  <2> QED BY <1>1, <2>1, <2>2, Kinds
<1>10. CASE condocRunRetry
  <2>1. JobIs("take", "retry", About("took", session.step, session.sub)) /\ session'.phase = "RunningAgent"
    BY <1>10, RunRetryDoes DEF TakeIs
  <2> QED BY <1>1, <2>1
<1>11. CASE condocRevert
  <2>1. PICK r : r \in Revert /\ RevertFits(r) /\ r # NoRevert /\ RevertTo(r)
    BY <1>11, RevertDoes
  <2> DEFINE s == [session EXCEPT !.takes = @ + 1, !.phase = "RunningAgent", !.step = r.step,
                                  !.file = TRUE, !.sub = 0, !.subStart = 0, !.letter = 0]
  <2>2. JobIs("take", "revert", About("reverted", r.step, revertSub(r))) /\ session'.phase = s.phase
    BY <2>1, RevertToDoes DEF TakeIs, Becomes
  <2>3. s.phase = "RunningAgent"
    BY <1>s DEF SessionFields
  <2> QED BY <1>1, <2>2, <2>3
<1> QED BY <1>2, <1>3, <1>4, <1>5, <1>6, <1>7, <1>8, <1>9, <1>10, <1>11 DEF HandlerTick

\* While git does not fail, what is under way neither fails nor is refused.
LEMMA StagesKeepCalm ==
  ASSUME TypeInv, TypeInv', Orderly, TroubleFree, NEW n \in Sessions,
         PushTake(n) \/ ResetAndRestore(n) \/ ForcePush(n) \/ GitCommit(n) \/ GitPush(n) \/ AgentExits(n)
  PROVE  TroubleFree'
<1> DEFINE j == jobs[n]
<1>0. session' = session /\ Staged(j.at, j.does) /\ CalmJob(j, work) /\ j.at # "none" /\ JobInOrder(j, log)
  BY JobsAre DEF TroubleFree, JobFits, Orderly, PushTake, ResetAndRestore, ForcePush, GitCommit, GitPush, AgentExits
<1>1. \A m \in Sessions : m # n => jobs[m].at = "none"
  BY <1>0, MineOnly
<1>2. ASSUME NEW a \in {"none", "commit", "push", "run", "take", "reset", "force", "done", "failed"},
             jobs' = Moved(jobs, n, a), a # "commit", j.does = "git" => a # "failed"
      PROVE  jobs'[n].at = a /\ \A m \in Sessions : CalmJob(jobs'[m], work')
  <2>1. /\ jobs'[n].at = a /\ jobs'[n].does = j.does /\ \A m \in Sessions : m # n => jobs'[m] = jobs[m]
    BY <1>2, JobsAre DEF Moved, Job
  <2>2. CalmJob(jobs'[n], work')
    BY <1>2, <2>1 DEF CalmJob
  <2>3. \A m \in Sessions : m # n => CalmJob(jobs'[m], work')
    BY <1>1, <2>1 DEF CalmJob
  <2> QED BY <2>1, <2>2, <2>3
<1>3. session'.active => session'.phase # "GitFailed"
  BY <1>0 DEF TroubleFree
<1>4. CASE PushTake(n)
  <2>1. tips'.head = tips.head /\ tips'.origin = tips.origin
    BY <1>4 DEF PushTake, TypeInv, TipsFit
  <2>2. PICK a \in {"reset", "failed"} : jobs' = Moved(jobs, n, a) /\ log' = log /\ j.at = "take"
    BY <1>4 DEF PushTake, Moved
  <2>3. j.does # "git"
    BY <1>0, <2>2 DEF Staged
  <2> HIDE DEF j
  <2> QED BY <1>1, <1>2, <1>3, <2>1, <2>2, <2>3, CalmUnlogged DEF j
<1>5. CASE ForcePush(n)
  <2>1. tips'.head = tips.head /\ tips'.origin = tips.head /\ log' = log /\ jobs' = Moved(jobs, n, "done")
    BY <1>5 DEF ForcePush, TypeInv, TipsFit, Moved
  <2> QED BY <1>2, <1>3, <2>1, CalmUnlogged
<1>6. CASE GitPush(n)
  <2>1. tips.origin = 0 \/ tips.origin \in History(tips.head)
    BY <1>1, <1>6 DEF GitPush, TroubleFree, OriginBehind
  <2>2. tips'.head = tips.head /\ tips'.origin = tips.head /\ log' = log /\ jobs' = Moved(jobs, n, "done")
    BY <1>6, <2>1 DEF GitPush, TypeInv, TipsFit, Moved
  <2> QED BY <1>2, <1>3, <2>2, CalmUnlogged
<1>7. CASE AgentExits(n)
  <2>1. tips' = tips /\ log' = log /\ jobs' = Moved(jobs, n, "done") /\ j.at = "run"
    BY <1>7 DEF AgentExits, gitVars, Moved
  <2>2. \A m \in Sessions : jobs[m].at = "force" => jobs'[m].at = "force"
    BY <1>1, <2>1
  <2> HIDE DEF j
  <2> QED BY <1>2, <1>3, <2>1, <2>2, CalmUnlogged
<1>8. CASE GitCommit(n)
  <2>1. /\ j.at = "commit" /\ jobs' = Moved(jobs, n, "push")
        /\ (NoCommit /\ work = HeadTree) \/ Recorded(tips.head, work, j.msg)
    BY <1>8, GitCommitDoes
  <2>2. \A m \in Sessions : CalmJob(jobs'[m], work')
    BY <1>2, <2>1
  <2>3. \A m \in Sessions : jobs[m].at = "force" => jobs'[m].at = "force"
    BY <1>1, <2>1
  <2>4. CASE NoCommit
    BY <1>3, <2>2, <2>3, <2>4, CalmUnlogged DEF NoCommit
  <2>5. CASE Recorded(tips.head, work, j.msg)
    <3> DEFINE g == j.msg
    <3>1. j.does = "git"
      BY <1>0, <2>1 DEF Staged
    <3>2. g.kind # "reverted"
      BY <1>0, <3>1 DEF JobInOrder, GitKinds
    <3>3. g.kind \in {"replied", "reverted", "completed"} /\ work.lock => ~Safe(detectPhase(work))
      BY <1>0, <2>1, <3>2 DEF CalmJob
    <3>4. Recorded(tips.head, work, g)
      BY <2>5
    <3> HIDE DEF g, j
    <3> QED BY <1>3, <2>2, <2>3, <3>3, <3>4, CalmLogged
  <2> QED BY <2>1, <2>4, <2>5
<1>9. CASE ResetAndRestore(n)
  <2>1. j.at = "reset" /\ j.does \in {"retry", "revert"}
    BY <1>9, ResetDoes
  <2>2. CASE NoCommit /\ jobs' = Moved(jobs, n, "failed")
    <3>1. \A m \in Sessions : CalmJob(jobs'[m], work')
      BY <1>2, <2>1, <2>2
    <3>2. \A m \in Sessions : jobs[m].at = "force" => jobs'[m].at = "force"
      BY <1>1, <2>1
    <3> QED BY <1>3, <2>2, <3>1, <3>2, CalmUnlogged DEF NoCommit
  <2>3. CASE /\ jobs' = Moved(jobs, n, "force")
             /\ \E t : (j.does = "revert" => ~t.lock) /\ Recorded(ResetTo(j), t, j.msg)
    <3>0. PICK t : (j.does = "revert" => ~t.lock) /\ Recorded(ResetTo(j), t, j.msg)
      BY <2>3
    <3> DEFINE g == j.msg
               p == ResetTo(j)
    <3>1. (\A m \in Sessions : CalmJob(jobs'[m], work')) /\ jobs'[n].at = "force"
      BY <1>2, <2>3
    <3>2. g.kind \in {"replied", "reverted", "completed"} /\ t.lock => ~Safe(detectPhase(t))
      BY <1>0, <2>1, <3>0 DEF JobInOrder
    <3>3. Recorded(p, t, g)
      BY <3>0
    <3> HIDE DEF g, p, j
    <3> QED BY <1>3, <3>1, <3>2, <3>3, CalmLogged
  <2> QED BY <1>9, <2>2, <2>3, ResetDoes
<1> QED BY <1>4, <1>5, <1>6, <1>7, <1>8, <1>9

\* Before a turn ends, the lock is taken away with it.
LEMMA EndsKeepCalm ==
  ASSUME TypeInv, Orderly, TroubleFree, NEW n \in Sessions,
         handleCondocGitDone(n) \/ handleCondocRetryReady(n) \/ handleCondocRevertDone(n)
             \/ handleCondocAgentDone(n)
  PROVE  TroubleFree'
<1>0. jobs[n].at \in {"done", "failed"} /\ log' = log /\ tips' = tips
  <2>1. CASE handleCondocGitDone(n)
    BY <2>1, GitDoneDoes
  <2>2. CASE handleCondocRetryReady(n)
    BY <2>2, RetryReadyDoes
  <2>3. CASE handleCondocRevertDone(n)
    BY <2>3, RevertDoneDoes
  <2>4. CASE handleCondocAgentDone(n)
    BY <2>4, AgentDoneDoes
  <2> QED BY <2>1, <2>2, <2>3, <2>4
<1>1. n = Me /\ \A m \in Sessions : m # n => jobs[m].at = "none"
  BY <1>0, MineOnly
<1>2. session.active => session.phase # "GitFailed" /\ session.next \in {"AwaitingAction", "AwaitingStep"}
  BY DEF TroubleFree, Orderly, SessionInOrder
<1>3. ASSUME \A m \in Sessions : m # n => jobs'[m] = jobs[m],
             jobs'[n].at \in {"none", "run"} \/ (jobs'[n].at = "commit" /\ ~work'.lock),
             session'.active => session'.phase # "GitFailed"
      PROVE  TroubleFree'
  <2>1. \A m \in Sessions : CalmJob(jobs'[m], work')
    <3>1. CalmJob(jobs'[n], work')
      BY <1>3 DEF CalmJob
    <3>2. \A m \in Sessions : m # n => CalmJob(jobs'[m], work')
      BY <1>1, <1>3 DEF CalmJob
    <3> QED BY <3>1, <3>2
  <2>2. \A m \in Sessions : jobs[m].at # "force"
    BY <1>0, <1>1
  <2> QED BY <1>0, <1>3, <2>1, <2>2, CalmUnlogged
<1>4. CASE handleCondocGitDone(n)
  <2>1. Ended(n) \/ AgentOn(n)
    BY <1>4, GitDoneDoes
  <2>2. jobs[n].does = "git" /\ jobs[n].at # "failed"
    BY <1>4, GitDoneDoes DEF TroubleFree, CalmJob
  <2>3. session'.active => session'.phase # "GitFailed"
    BY <1>0, <1>2, <1>4, <2>2, GitDoneDoes DEF Waits
  <2> QED BY <1>3, <2>1, <2>3 DEF Ended, AgentOn
<1>5. CASE handleCondocRetryReady(n)
  BY <1>2, <1>3, <1>5, RetryReadyDoes DEF Ended, AgentOn
<1>6. CASE handleCondocRevertDone(n)
  <2>1. Ended(n) /\ (session'.active => session'.phase # "GitFailed")
    BY <1>2, <1>6, RevertDoneDoes
  <2> QED BY <1>3, <2>1 DEF Ended
<1>7. CASE handleCondocAgentDone(n)
  <2>1. session'.active => session'.phase # "GitFailed"
    BY <1>7, AgentDoneDoes
  <2> QED BY <1>3, <1>7, <2>1, AgentDoneDoes
<1> QED BY <1>4, <1>5, <1>6, <1>7

\* Condoccer and the human leave it so.
LEMMA OutsideKeepsCalm ==
  ASSUME TypeInv, TypeInv', Orderly, TroubleFree, LockPass \/ HumanAsks, "relocked" \notin story'
  PROVE  TroubleFree'
<1>0. TreeFits(work) /\ TreeFits(work') /\ jobs' = jobs /\ session' = session
  BY LockDoes DEF TypeInv, HumanAsks, AskOfMain, AskToComplete, AskForIteration, AskToRevert,
     AskToForce, Resubmit, OthersRest
<1>1. \A n \in Sessions : CalmJob(jobs'[n], work')
  <2>1. CASE LockPass
    <3>1. /\ work'.main = work.main /\ SameFiles(work', work)
          /\ work'.lock => work.lock \/ ~Safe(detectPhase(work))
      BY <2>1, LockDoes
    <3>2. Safe(detectPhase(work')) <=> Safe(detectPhase(work))
      BY <1>0, <3>1, SafeOfFiles
    <3> QED BY <1>0, <3>1, <3>2 DEF TroubleFree, CalmJob
  <2>2. CASE HumanAsks
    BY <1>0, <2>2, AsksStayUnsafe DEF TroubleFree, CalmJob
  <2> QED BY <2>1, <2>2
<1>2. NoCommit \/ \E t, k : k \in {"lock", "recovery"} /\ Recorded(tips.head, t, About(k, 0, 0))
  <2>1. CASE LockPass
    BY <2>1, LockDoes
  <2>2. CASE Resubmit
    BY <2>2, ResubmitDoes
  <2>3. CASE HumanAsks /\ ~Resubmit
    BY <2>3 DEF HumanAsks, AskOfMain, AskToComplete, AskForIteration, AskToRevert, AskToForce, OthersRest, NoCommit
  <2> QED BY <2>1, <2>2, <2>3
<1>3. session'.active => session'.phase # "GitFailed"
  BY <1>0 DEF TroubleFree
<1>4. CASE NoCommit
  BY <1>0, <1>1, <1>3, <1>4, CalmUnlogged DEF NoCommit
<1>5. CASE \E t, k : k \in {"lock", "recovery"} /\ Recorded(tips.head, t, About(k, 0, 0))
  <2>1. PICK t, k : k \in {"lock", "recovery"} /\ Recorded(tips.head, t, About(k, 0, 0))
    BY <1>5
  <2> DEFINE g == About(k, 0, 0)
  <2>2. Recorded(tips.head, t, g) /\ g.kind \notin {"replied", "reverted", "completed"}
    BY <2>1, Kinds
  <2> HIDE DEF g
  <2> QED BY <1>0, <1>1, <1>3, <2>2, CalmLogged
<1> QED BY <1>2, <1>4, <1>5

\* Every step keeps replies unlocked, as long as git has not failed and no lock
\* is written on an old look.
LEMMA UnlocksKept ==
  ASSUME TypeInv, TypeInv', Orderly, Unlocks, ~Overlaps, SameRepoNext
  PROVE  Unlocks'
<1> SUFFICES ASSUME counts'.trouble = 0, "relocked" \notin story' PROVE TroubleFree'
  BY DEF Unlocks
<1>1. /\ \A n \in Sessions : ~GitFails(n) /\ ~ResetBreaks(n) /\ ~StartUnread(n)
      /\ ~LockGivenUp
  BY TroubleCounts DEF GitFails, ResetBreaks, StartUnread, LockGivenUp
<1>2. counts'.trouble = counts.trouble /\ ("relocked" \in story => "relocked" \in story')
  <2>1. CASE HandlerTick
    BY <2>1 DEF HandlerTick, HandlerRest, condocAcceptProposal, condocStartStep, condocCompleteCondoc,
       condocForceComplete, condocRetryFailedGit, condocCompleteSubstep, condocCompleteStep,
       condocRunRevision, condocStartSubstep, condocRunRetry, condocRevert, RevertTo
  <2>2. CASE \E n \in Sessions : JobStep(n)
    BY <2>2 DEF JobStep, PushTake, ResetAndRestore, ForcePush, GitCommit, GitPush, AgentExits,
       handleCondocGitDone, handleCondocRetryReady, handleCondocRevertDone, handleCondocAgentDone
  <2>3. CASE exitCondoc
    BY <2>3 DEF exitCondoc
  <2>4. CASE LockPass
    <3>1. counts' = counts /\ story \subseteq story'
      BY <2>4, LockDoes
    <3> QED BY <3>1
  <2>5. CASE loadCondocSession
    BY <2>5, LoadDoes
  <2>6. CASE HumanAsks
    <3>1. Asks
      BY <2>6 DEF HumanAsks, AskOfMain, AskToComplete, AskForIteration, AskToRevert, AskToForce, Resubmit
    <3>2. story' = story
      BY <2>6 DEF HumanAsks, AskOfMain, AskToComplete, AskForIteration, AskToRevert, AskToForce, Resubmit, OthersRest
    <3> QED BY <3>1, <3>2 DEF Asks, TypeInv, CountsFit
  <2> QED BY <1>1, <2>1, <2>2, <2>3, <2>4, <2>5, <2>6 DEF SameRepoNext
<1>3. TroubleFree
  BY <1>2 DEF Unlocks
<1>4. CASE HandlerTick
  BY <1>3, <1>4, TickKeepsCalm
<1>5. ASSUME NEW n \in Sessions, JobStep(n) PROVE TroubleFree'
  BY <1>3, <1>5, StagesKeepCalm, EndsKeepCalm DEF JobStep
<1>6. CASE exitCondoc
  BY <1>3, <1>6, ExitDoes, CalmUnlogged DEF TroubleFree
<1>7. CASE loadCondocSession
  <2>1. /\ jobs' = jobs /\ log' = log /\ tips' = tips /\ work' = work
        /\ session'.phase \in {"Proposed", "AwaitingStep", "AwaitingAction"}
    BY <1>7, LoadDoes
  <2> QED BY <1>3, <2>1, CalmUnlogged DEF TroubleFree
<1>8. CASE LockPass \/ HumanAsks
  BY <1>3, <1>8, OutsideKeepsCalm
<1> QED BY <1>1, <1>4, <1>5, <1>6, <1>7, <1>8 DEF SameRepoNext

\* So does nothing.
LEMMA UnlocksStutter ==
  ASSUME Unlocks, UNCHANGED sameRepoVars
  PROVE  Unlocks'
<1>1. (OriginBehind <=> BehindForm) /\ (OriginBehind <=> BehindForm)'
  BY BehindIs, PTL
<1>2. BehindForm' <=> BehindForm
  BY DEF BehindForm, sameRepoVars, gitVars
<1> QED BY <1>1, <1>2 DEF Unlocks, TroubleFree, sameRepoVars, gitVars

\* What the invariant says of the commits there are.
LEMMA UnlocksRelease == Unlocks /\ CountsFit => ReleasedWithReply
<1>1. CountsFit => counts.trouble > 0 \/ counts.trouble = 0
  BY DEF CountsFit
<1>2. Released(log) => ReleasedWithReply
  BY DEF Released, ReleasedWithReply, RepliesUnlocked
<1> QED BY <1>1, <1>2 DEF Unlocks, TroubleFree, ReleasedWithReply

\* Nothing has been committed locked at first.
LEMMA UnlocksAtFirst == SameRepoInit => Unlocks
<1> SUFFICES ASSUME SameRepoInit PROVE TroubleFree
  BY DEF Unlocks
<1>1. TypeInv
  BY TypesAtFirst
<1>2. \A n \in Sessions : CalmJob(jobs[n], work)
  BY DEF SameRepoInit, NoJob, CalmJob
<1>3. session.phase # "GitFailed"
  <2>1. CASE session = NewSession
    BY <2>1, NewSessionFits
  <2>2. CASE session = [NewSession EXCEPT !.phase = "AwaitingAction", !.step = 1,
                                           !.file = TRUE, !.start = 3]
    BY <2>2, NewSessionFits DEF SessionFields
  <2> QED BY <2>1, <2>2 DEF SameRepoInit
<1>4. OriginBehind
  <2>1. tips.origin = 0 \/ tips.origin = tips.head
    BY DEF SameRepoInit
  <2>2. tips.head \in Past(log, tips.head)
    BY <1>1, TipsAre, PastBelow
  <2> QED BY <2>1, <2>2, BehindIs DEF BehindForm, BehindIn
<1>5. Released(log)
  <2>1. CASE log = FirstLog
    <3>1. DOMAIN log = 1 .. 1 /\ \A i \in 1 .. 1 : i = 1
      BY <2>1, FirstLogs DEF LogFits, Linked
    <3> QED BY <2>1, <3>1, FirstLogs, ProposalIs DEF Released
  <2>2. CASE log = LaterLog
    <3>1. DOMAIN log = 1 .. 4 /\ \A i \in 1 .. 4 : i = 1 \/ i = 2 \/ i = 3 \/ i = 4
      BY <2>2, FirstLogs DEF LogFits, Linked
    <3>2. ~log[1].tree.lock /\ ~log[2].tree.lock /\ ~log[3].tree.lock /\ ~log[4].tree.lock
      BY <2>2, FirstLogs, ProposalIs, AcceptedIs, StartedIs, FirstReplyIs
    <3> QED BY <3>1, <3>2 DEF Released
  <2> QED BY <2>1, <2>2 DEF SameRepoInit, FirstLog, LaterLog
<1> QED BY <1>2, <1>3, <1>4, <1>5 DEF TroubleFree

-----------------------------------------------------------------------------
(***************************************************************************)
(* What holds of the handler throughout, when condoc mode is entered only  *)
(* after what a session left has ended.                                    *)
(***************************************************************************)
HandlerInv == Orderly /\ Kept /\ BegunFresh /\ Unlocks

\* Both beginnings are in order.
LEMMA HandlerAtFirst == SameRepoInit => HandlerInv
  BY OrderAtFirst, KeptAtFirst, BegunAtFirst, UnlocksAtFirst DEF HandlerInv

\* Every step keeps them so.
LEMMA HandlerKept ==
  ASSUME TypeInv, HandlerInv, ~Overlaps, SameRepoNext
  PROVE  HandlerInv'
<1>1. TypeInv'
  BY TypesKept
<1> QED BY <1>1, OrderKept, KeptKept, BegunKept, UnlocksKept DEF HandlerInv

\* A step of another service changes nothing of the handler's.
LEMMA HandlerStutters ==
  ASSUME TypeInv, HandlerInv, UNCHANGED sameRepoVars
  PROVE  HandlerInv'
<1>1. TypeInv'
  BY TypesStutter
<1>2. Kept'
  <2>1. log' = log /\ tips' = tips /\ jobs' = jobs
    BY DEF sameRepoVars, gitVars
  <2>2. Resetting(jobs') => Resetting(jobs)
    BY <2>1
  <2> QED BY <1>1, <2>1, <2>2, KeptStays DEF HandlerInv
<1> QED BY <1>2, OrderStutters, BegunStutters, UnlocksStutter DEF HandlerInv

\* What the invariant says: nothing the handler committed is lost, a retry
\* goes back to its own step's start, and a reply takes the lock away.
LEMMA HandlerSays == TypeInv /\ HandlerInv => HistoryKept /\ ReleasedWithReply
<1>1. TypeInv => CountsFit
  BY DEF TypeInv
<1> QED BY <1>1, KeptMeans, UnlocksRelease DEF HandlerInv, BegunFresh, HistoryKept

\* While condoc mode is entered only after what a session left has ended, the
\* handler's invariant holds of federation-command's handler and condoccer:
\* one session is served at a time, what is committed is saved before the branch
\* is taken back, where a step began its files are as they were written, and
\* turns end unlocked unless git fails or condoccer acts on an old look.
THEOREM HandlerInvariant ==
  ASSUME ~Overlaps
  PROVE  SameRepoSpec => [](TypeInv /\ HandlerInv)
<1>1. SameRepoInit => TypeInv /\ HandlerInv
  BY TypesAtFirst, HandlerAtFirst
<1>2. TypeInv /\ HandlerInv /\ [SameRepoNext]_sameRepoVars => TypeInv' /\ HandlerInv'
  BY TypesKept, TypesStutter, HandlerKept, HandlerStutters
<1> QED BY <1>1, <1>2, PTL DEF SameRepoSpec

\* Nothing the handler has committed is lost to a retry or a revert, and a retry
\* from the start goes back to where its own step or substep began.
THEOREM HistoryIsKept ==
  ASSUME ~Overlaps
  PROVE  SameRepoSpec => []HistoryKept
<1>1. TypeInv /\ HandlerInv => HistoryKept
  BY HandlerSays
<1>2. SameRepoSpec => [](TypeInv /\ HandlerInv)
  BY HandlerInvariant
<1> QED BY <1>1, <1>2, PTL

\* A commit that leaves the condoc to the human takes the lock away with it,
\* wherever condoccer's looks, writes and commits fall between, while git does
\* not fail and no lock is written on a look from before.
THEOREM RepliesRelease ==
  ASSUME ~Overlaps
  PROVE  SameRepoSpec => []ReleasedWithReply
<1>1. TypeInv /\ HandlerInv => ReleasedWithReply
  BY HandlerSays
<1>2. SameRepoSpec => [](TypeInv /\ HandlerInv)
  BY HandlerInvariant
<1> QED BY <1>1, <1>2, PTL
=============================================================================
