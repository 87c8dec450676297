------------------------- MODULE InteractionProofs --------------------------
(***************************************************************************)
(* condocv2, proved right for any condocs, repositories, numbers of        *)
(* interactions and requests, and bounds on what goes wrong: the step file *)
(* of a condoc has its sections in order and as many as the interactions   *)
(* recorded, every commit of a turn is in the range its record gives, and  *)
(* a condoc is merged together with its repositories or not at all.        *)
(*                                                                         *)
(* None of it is inductive alone.  What condocv2 writes it decides on a    *)
(* copy of the pointer that is as old as the request or the turn, and what *)
(* it writes reaches the pointer, the slopspace, the branches and GitHub   *)
(* one after another, with a failure or a crash between any two.           *)
(* InteractionsInv says how each copy stands to what is there.             *)
(***************************************************************************)
EXTENDS Interactions, FiniteSetTheorems, SequenceTheorems, TLAPS

\* A nonempty set of naturals has a least element.
LEMMA LeastOf ==
  ASSUME NEW T \in SUBSET Nat, T # {}
  PROVE  \E m \in T : \A k \in T : m <= k
<1>1. PICK n \in T : TRUE
  OBVIOUS
<1> DEFINE S == 0 .. n
           Below(m) == {k \in T : k < m}
           Fam == {Below(m) : m \in T \cap S}
<1>2. IsFiniteSet(S)
  BY <1>1, FS_Interval
<1>3. IsWellFoundedOn(StrictSubsetOrdering(S), SUBSET S)
  <2>1. FiniteSubsetsOf(S) = SUBSET S
    BY <1>2, FS_FiniteSubsetsOfFinite
  <2>2. IsWellFoundedOn(StrictSubsetOrdering(S), FiniteSubsetsOf(S))
    BY FS_StrictSubsetOrderingWellFounded
  <2> QED BY <2>1, <2>2, Zenon
<1>4. ASSUME NEW m \in T \cap S PROVE Below(m) \in SUBSET S
  <2>1. \A k \in T : k < m => k \in 0 .. n
    BY <1>1
  <2> QED BY <2>1
<1>5. Fam \subseteq SUBSET S /\ Fam # {}
  <2>1. n \in T \cap S
    BY <1>1
  <2> QED BY <2>1, <1>4
<1>6. PICK X \in Fam : \A Y \in Fam : ~(<<Y, X>> \in StrictSubsetOrdering(S))
  BY <1>3, <1>5, WFMin
<1>7. PICK m \in T \cap S : X = Below(m)
  BY <1>6
<1>8. ASSUME NEW k \in T, k < m PROVE FALSE
  <2>1. k \in T \cap S
    BY <1>1, <1>8
  <2>2. Below(k) \in Fam /\ Below(m) \in SUBSET S /\ Below(k) \in SUBSET S
    BY <2>1, <1>4
  <2>3. Below(k) \subseteq Below(m) /\ Below(k) # Below(m)
    <3>1. k \in Below(m) /\ k \notin Below(k)
      BY <1>8
    <3>2. \A j \in Below(k) : j < m
      BY <1>8
    <3> QED BY <3>1, <3>2
  <2>4. <<Below(k), Below(m)>> \in StrictSubsetOrdering(S)
    BY <2>2, <2>3 DEF StrictSubsetOrdering
  <2> QED BY <1>6, <1>7, <2>2, <2>4
<1> QED BY <1>7, <1>8

-----------------------------------------------------------------------------
(***************************************************************************)
(* condocv2's handler.  A condoc is told apart in its pointer, s, and what *)
(* stands of it elsewhere: its slopspace sl, its branches br and its pull  *)
(* requests gh.  What the pointer as it is saved says fits the rest, and   *)
(* so does the pointer a turn is about to save.                            *)
(***************************************************************************)
Headings == [kind : {"Prompt", "Response", "Record"}, n : Nat, from : [Repos -> Int], to : [Repos -> Int]]
Slops == [exists : BOOLEAN, file : Seq(Headings), pushed : Nat, reply : BOOLEAN, edits : [Repos -> BOOLEAN]]
Branches == [origin : Seq(0 .. MaxInteractions), known : Nat, ahead : Seq(0 .. MaxInteractions)]
PRStates == {"none", "open", "merged"}
SignalStates == {"pending", "taken", "done", "unread", "lost"}

\* The phase a condoc is in, or was in before it was given up or put away.
PhaseOf(s) == IF IsFinal(s.phase) THEN s.from ELSE s.phase

FileInOrder(file) ==
    \A i \in 1 .. Len(file) : /\ file[i].kind = SectionKinds[((i - 1) % 3) + 1]
                              /\ file[i].n = ((i - 1) \div 3) + 1

\* The commits agents made come after the first and are known; so are the
\* ranges of the records.
BranchFits(b) ==
    /\ b.known <= Len(b.origin)
    /\ \A p \in 1 .. Len(b.origin) : b.origin[p] # 0 => p > 1 /\ p <= b.known

RecordFits(r, b, t) ==
    /\ r.to[t] <= b.known
    /\ \A p \in 1 .. Len(b.origin) :
          b.origin[p] # 0 => (b.origin[p] = r.n <=> (r.from[t] < p /\ p <= r.to[t]))

WorldFits(sl, br) ==
    /\ FileInOrder(sl.file)
    /\ sl.pushed <= Len(sl.file)
    /\ ~sl.exists => sl.file = << >>
    /\ \A t \in Repos : BranchFits(br[t]) /\ (sl.exists => br[t].known >= 1)
    /\ \A i \in 1 .. Len(sl.file), t \in Repos :
          sl.file[i].kind = "Record" => RecordFits(sl.file[i], br[t], t)

\* Which phases and stages go together.
PhaseFits(s) ==
    /\ ~IsFinal(s.phase) => s.from = "absent"
    /\ s.phase = "Archived" => s.from = "Merged"
    /\ s.phase = "Abandoned" => s.from \notin {"absent", "Merged", "Archived", "Abandoned"}
    /\ s.stage # "none" <=> PhaseOf(s) = "Locked"
    /\ s.stage # "none" => s.done < MaxInteractions
    /\ PhaseOf(s) \in {"absent", "Proposed"} => s.done = 0

\* The step file against the stage.
SectionsFit(s, sl) ==
    /\ sl.exists \/ PhaseOf(s) \in {"absent", "Proposed", "Merged"}
    /\ PhaseOf(s) \in {"absent", "Proposed"} => ~sl.exists
    /\ sl.exists => LET told == 3 * s.done + Told(s.stage) IN
                    /\ told <= Len(sl.file)
                    /\ Len(sl.file) <= told + (IF s.stage \in {"locked", "returned", "mapped"} THEN 1 ELSE 0)
                    /\ sl.pushed >= told

\* The commits against the stage: those of the interaction under way, and how
\* they lie to the bases and the heads the pointer has.
CommitsFit(s, b, t) ==
    /\ Len(b.ahead) > 0 => s.stage = "responded"
    /\ \A k \in 1 .. Len(b.ahead) : b.ahead[k] = s.done + 1
    /\ \A p \in 1 .. Len(b.origin) :
          /\ b.origin[p] <= s.done + 1
          /\ b.origin[p] = s.done + 1 => s.stage \in {"responded", "mapped", "recorded"}
    /\ s.stage \in {"locked", "prompted", "queued"} => s.bases = NoBases
    /\ s.stage \in Submitted \ {"queued"} =>
          /\ s.bases \in Positions /\ s.bases[t] <= b.known
          /\ \A p \in 1 .. Len(b.origin) :
                b.origin[p] # 0 => (b.origin[p] = s.done + 1 <=> s.bases[t] < p)
    /\ s.stage \in {"mapped", "recorded"} =>
          /\ s.heads \in Positions /\ s.heads[t] <= b.known
          /\ \A p \in 1 .. Len(b.origin) : b.origin[p] = s.done + 1 => p <= s.heads[t]

\* The pull requests against the phase.
MergesFit(s, br, gh) ==
    /\ PhaseOf(s) \in {"absent", "Proposed"} =>
          \A t \in Repos : \A p \in 1 .. Len(br[t].origin) : br[t].origin[p] = 0
    /\ PhaseOf(s) # "Merged" => s.prs[CondocRepo] # "merged"
    /\ PhaseOf(s) = "PROpen" =>
          /\ s.prs[CondocRepo] # "none"
          /\ \A t \in Repos : \A p \in 1 .. Len(br[t].origin) : br[t].origin[p] # 0 => s.prs[t] # "none"
    /\ PhaseOf(s) = "Merged" =>
          /\ \A r \in PRRepos : s.prs[r] # "open"
          /\ gh[CondocRepo] = "merged"
          /\ \A t \in Repos : \A p \in 1 .. Len(br[t].origin) : br[t].origin[p] # 0 => gh[t] = "merged"

CondocFits(s, sl, br, gh) ==
    /\ PhaseFits(s) /\ SectionsFit(s, sl) /\ MergesFit(s, br, gh)
    /\ \A t \in Repos : CommitsFit(s, br[t], t)

WorldTyped ==
    /\ slop \in [Held -> Slops] /\ branches \in [Held -> [Repos -> Branches]]
    /\ github \in [Held -> [PRRepos -> PRStates]] /\ signals \in [Held -> Seq(SignalStates)]
    /\ path \in Held \cup {Nobody, Other}

LoopsTyped ==
    /\ claimed \in [Held -> {"free", "ui", "tick", "turn"}] /\ queue \in Seq(Held)
    /\ turn \in [at : {"idle", "stage", "save", "failed", "ended"}, of : Held \cup {Nobody}, spec : PointerSpec]
    /\ tick \in [Held -> {"seen", "insert", "enqueue"}]

UsedTyped == used \in [requests : 0 .. MaxRequests, mishaps : 0 .. MaxMishaps]

InteractionsTyped == spec \in [Held -> PointerSpec] /\ WorldTyped /\ LoopsTyped /\ UsedTyped

\* The turn loop holds the claim of the condoc it is at, and what it knows of
\* the pointer is what is saved, or goes one stage further.
TurnFits ==
    turn.at # "idle" =>
      /\ turn.of \in Held /\ claimed[turn.of] = "turn"
      /\ turn.at = "stage" => turn.spec = spec[turn.of]
      /\ turn.at \in {"stage", "save"} =>
            /\ ~IsFinal(turn.spec.phase)
            /\ CondocFits(turn.spec, slop[turn.of], branches[turn.of], github[turn.of])

InteractionsInv ==
    /\ InteractionsTyped /\ TurnFits
    /\ \A c \in Held : /\ WorldFits(slop[c], branches[c])
                       /\ CondocFits(spec[c], slop[c], branches[c], github[c])

-----------------------------------------------------------------------------
\* The parameters.
LEMMA V2Numbers ==
    /\ MaxTargets \in Nat \ {0} /\ MaxInteractions \in Nat \ {0}
    /\ MaxRequests \in Nat /\ MaxMishaps \in Nat
    /\ CondocRepo \in PRRepos /\ Repos \subseteq PRRepos /\ CondocRepo \notin Repos
    /\ \A r \in PRRepos : r \in Nat /\ r <= CondocRepo
BY InteractionsAssumption DEF Repos, PRRepos, CondocRepo

\* An index below one more than a length is within the length or just after
\* it.
LEMMA LastOrBefore ==
    ASSUME NEW l \in Nat, NEW i \in 1 .. l + 1
    PROVE  i \in 1 .. l \/ i = l + 1
OBVIOUS

\* Counting sections by threes: the kind and the interaction of the next one.
LEMMA Thirds ==
    ASSUME NEW j \in Nat
    PROVE  j % 3 \in 0 .. 2 /\ j \div 3 \in Nat /\ j = 3 * (j \div 3) + (j % 3)
OBVIOUS

\* The same, of a section after so many interactions.
LEMMA ThirdsOf ==
    ASSUME NEW d \in Nat, NEW k \in 0 .. 2
    PROVE  (3 * d + k) % 3 = k /\ (3 * d + k) \div 3 = d
OBVIOUS

\* The sections of a step file in order: a record is every third of them.
LEMMA RecordNumbers ==
    ASSUME NEW file \in Seq(Headings), FileInOrder(file), NEW i \in 1 .. Len(file),
           file[i].kind = "Record"
    PROVE  file[i].n \in Nat /\ i = 3 * file[i].n
<1>1. i \in Nat /\ i >= 1
  OBVIOUS
<1>2. /\ file[i].kind = SectionKinds[((i - 1) % 3) + 1]
      /\ file[i].n = ((i - 1) \div 3) + 1
  BY DEF FileInOrder
<1>3. (i - 1) % 3 \in 0 .. 2 /\ (i - 1) = 3 * ((i - 1) \div 3) + ((i - 1) % 3) /\ (i - 1) \div 3 \in Nat
  <2>1. i - 1 \in Nat
    BY <1>1
  <2>. QED
    BY <2>1, Thirds
<1>4. (i - 1) % 3 = 2
  BY <1>2, <1>3 DEF SectionKinds
<1>. QED
  BY <1>2, <1>3, <1>4

\* What appendSection leaves: the file with the next section at its end,
\* whether it was there already or not.
LEMMA SectionAppended ==
    ASSUME NEW file \in Seq(Headings), FileInOrder(file), NEW d \in Nat, NEW k \in 0 .. 2,
           NEW h \in Headings, h.kind = SectionKinds[k + 1], h.n = d + 1,
           Len(file) \in {3 * d + k, 3 * d + k + 1}
    PROVE  /\ appendSection(file, h) \in Seq(Headings)
           /\ FileInOrder(appendSection(file, h))
           /\ Len(appendSection(file, h)) = 3 * d + k + 1
           /\ \/ appendSection(file, h) = file
              \/ appendSection(file, h) = Append(file, h)
<1>1. Len(file) \in Nat /\ DOMAIN file = 1 .. Len(file) /\ 3 * d + k + 1 \in Nat
  BY LenProperties
<1>2. CASE Len(file) = 3 * d + k
  <2>1. ASSUME NEW i \in DOMAIN file, file[i].kind = h.kind, file[i].n = h.n PROVE FALSE
    <3>1. i \in Nat /\ i >= 1 /\ i <= 3 * d + k
      BY <1>1, <1>2
    <3>2. /\ file[i].kind = SectionKinds[((i - 1) % 3) + 1]
          /\ file[i].n = ((i - 1) \div 3) + 1
      BY <1>1 DEF FileInOrder
    <3>. DEFINE q == (i - 1) \div 3
                 m == (i - 1) % 3
    <3>3. m \in 0 .. 2 /\ i - 1 = 3 * q + m /\ q \in Nat
      <4>1. i - 1 \in Nat
        BY <3>1
      <4>. QED
        BY <4>1, Thirds
    <3>6. SectionKinds[m + 1] = SectionKinds[k + 1] /\ q + 1 = d + 1
      BY <3>2, <2>1
    <3>. HIDE DEF m, q
    <3>4. m = k
      BY <3>6, <3>3 DEF SectionKinds
    <3>5. q = d
      BY <3>3, <3>6
    <3>. QED
      BY <3>1, <3>3, <3>4, <3>5
  <2>2. appendSection(file, h) = Append(file, h)
    BY <2>1 DEF appendSection
  <2>3. /\ Append(file, h) \in Seq(Headings) /\ Len(Append(file, h)) = Len(file) + 1
        /\ \A i \in 1 .. Len(file) : Append(file, h)[i] = file[i]
        /\ Append(file, h)[Len(file) + 1] = h
    BY AppendProperties
  <2>4. ((3 * d + k + 1 - 1) % 3) = k /\ ((3 * d + k + 1 - 1) \div 3) = d
    <3>1. 3 * d + k + 1 - 1 = 3 * d + k
      OBVIOUS
    <3>. QED
      BY <3>1, ThirdsOf
  <2>5. FileInOrder(Append(file, h))
    <3>1. SUFFICES ASSUME NEW i \in 1 .. Len(file) + 1
                   PROVE  /\ Append(file, h)[i].kind = SectionKinds[((i - 1) % 3) + 1]
                          /\ Append(file, h)[i].n = ((i - 1) \div 3) + 1
      BY <2>3 DEF FileInOrder
    <3>2. CASE i \in 1 .. Len(file)
      BY <3>2, <2>3 DEF FileInOrder
    <3>3. CASE i = Len(file) + 1
      <4>1. i = 3 * d + k + 1 /\ Append(file, h)[i] = h
        BY <3>3, <2>3, <1>2
      <4>2. i - 1 = 3 * d + k + 1 - 1
        BY <4>1
      <4>3. ((i - 1) % 3) = k /\ ((i - 1) \div 3) = d
        BY <4>2, <2>4
      <4>. QED
        BY <4>1, <4>3
    <3>4. i \in 1 .. Len(file) \/ i = Len(file) + 1
      BY <1>1, LastOrBefore
    <3>. QED
      BY <3>2, <3>3, <3>4
  <2>. QED
    BY <2>2, <2>3, <2>5, <1>2
<1>3. CASE Len(file) = 3 * d + k + 1
  <2>1. 3 * d + k + 1 \in DOMAIN file
    BY <1>1, <1>3
  <2>2. ((3 * d + k + 1 - 1) % 3) = k /\ ((3 * d + k + 1 - 1) \div 3) = d
    <3>1. 3 * d + k + 1 - 1 = 3 * d + k
      OBVIOUS
    <3>. QED
      BY <3>1, ThirdsOf
  <2>3. file[3 * d + k + 1].kind = h.kind /\ file[3 * d + k + 1].n = h.n
    <3>1. 3 * d + k + 1 \in 1 .. Len(file)
      BY <1>1, <2>1
    <3>2. /\ file[3 * d + k + 1].kind = SectionKinds[((3 * d + k + 1 - 1) % 3) + 1]
          /\ file[3 * d + k + 1].n = ((3 * d + k + 1 - 1) \div 3) + 1
      BY <3>1 DEF FileInOrder
    <3>. QED
      BY <3>2, <2>2
  <2>4. appendSection(file, h) = file
    BY <2>1, <2>3 DEF appendSection
  <2>. QED
    BY <2>4, <1>3
<1>. QED
  BY <1>2, <1>3

\* A file that grows by a section that is no record, or not at all, keeps the
\* records it has.
LEMMA WorldGrows ==
    ASSUME NEW sl \in Slops, NEW br \in [Repos -> Branches], WorldFits(sl, br),
           NEW h \in Headings, NEW sl2 \in Slops,
           sl2.file \in {sl.file, Append(sl.file, h)}, FileInOrder(sl2.file),
           h.kind = "Record" => \A t \in Repos : RecordFits(h, br[t], t),
           sl2.pushed <= Len(sl2.file), sl2.exists = sl.exists, sl.exists
    PROVE  WorldFits(sl2, br)
<1>1. sl.file \in Seq(Headings) /\ sl2.file \in Seq(Headings)
  BY DEF Slops
<1>2. CASE sl2.file = sl.file
  BY <1>2 DEF WorldFits
<1>3. CASE sl2.file = Append(sl.file, h)
  <2>1. /\ Len(sl2.file) = Len(sl.file) + 1 /\ Len(sl.file) \in Nat
        /\ \A i \in 1 .. Len(sl.file) : sl2.file[i] = sl.file[i]
        /\ sl2.file[Len(sl.file) + 1] = h
    BY <1>1, <1>3, AppendProperties, LenProperties
  <2>2. ASSUME NEW i \in 1 .. Len(sl2.file), NEW t \in Repos, sl2.file[i].kind = "Record"
        PROVE  RecordFits(sl2.file[i], br[t], t)
    <3>1. CASE i \in 1 .. Len(sl.file)
      BY <2>1, <2>2, <3>1 DEF WorldFits
    <3>2. CASE i = Len(sl.file) + 1
      BY <2>1, <2>2, <3>2
    <3>. QED
      BY <3>1, <3>2, <2>1
  <2>. QED
    BY <2>2 DEF WorldFits
<1>. QED
  BY <1>2, <1>3

-----------------------------------------------------------------------------
\* The branches.  An outside push leaves a branch as it fits.
LEMMA BranchPushed ==
    ASSUME NEW b \in Branches
    PROVE  LET b2 == [b EXCEPT !.origin = Append(@, 0)] IN
           /\ b2 \in Branches /\ b2.known = b.known /\ b2.ahead = b.ahead
           /\ Len(b2.origin) = Len(b.origin) + 1
           /\ \A p \in 1 .. Len(b2.origin) :
                 b2.origin[p] # 0 => p \in 1 .. Len(b.origin) /\ b2.origin[p] = b.origin[p]
<1>1. b.origin \in Seq(0 .. MaxInteractions) /\ 0 \in 0 .. MaxInteractions
  BY V2Numbers DEF Branches
<1>2. /\ Append(b.origin, 0) \in Seq(0 .. MaxInteractions)
      /\ Len(Append(b.origin, 0)) = Len(b.origin) + 1 /\ Len(b.origin) \in Nat
      /\ \A i \in 1 .. Len(b.origin) : Append(b.origin, 0)[i] = b.origin[i]
      /\ Append(b.origin, 0)[Len(b.origin) + 1] = 0
  BY <1>1, AppendProperties, LenProperties
<1>3. ASSUME NEW p \in 1 .. Len(b.origin) + 1, Append(b.origin, 0)[p] # 0
      PROVE  p \in 1 .. Len(b.origin) /\ Append(b.origin, 0)[p] = b.origin[p]
  BY <1>2, <1>3
<1>. QED
  BY <1>2, <1>3 DEF Branches

\* What gitCommit and WriteRepoChanges make of one.
LEMMA BranchCommitted ==
    ASSUME NEW b \in Branches, NEW n \in 1 .. MaxInteractions, NEW changed \in BOOLEAN,
           \A k \in 1 .. Len(b.ahead) : b.ahead[k] = n
    PROVE  LET b2 == gitCommit(b, n, changed) IN
           /\ b2 \in Branches /\ b2.known = b.known /\ b2.origin = b.origin
           /\ \A k \in 1 .. Len(b2.ahead) : b2.ahead[k] = n
<1>1. b.ahead \in Seq(0 .. MaxInteractions) /\ n \in 0 .. MaxInteractions
  BY V2Numbers DEF Branches
<1>2. /\ Append(b.ahead, n) \in Seq(0 .. MaxInteractions)
      /\ Len(Append(b.ahead, n)) = Len(b.ahead) + 1 /\ Len(b.ahead) \in Nat
      /\ \A i \in 1 .. Len(b.ahead) : Append(b.ahead, n)[i] = b.ahead[i]
      /\ Append(b.ahead, n)[Len(b.ahead) + 1] = n
  BY <1>1, AppendProperties, LenProperties
<1>3. ASSUME NEW k \in 1 .. Len(b.ahead) + 1 PROVE Append(b.ahead, n)[k] = n
  BY <1>2, <1>3
<1>. QED
  BY <1>2, <1>3 DEF Branches, gitCommit

\* A commit of the turn is pushed on top of what others pushed, and of
\* nothing else.
LEMMA BranchWritten ==
    ASSUME NEW b \in Branches, NEW n \in 1 .. MaxInteractions, NEW changed \in BOOLEAN,
           \A k \in 1 .. Len(b.ahead) : b.ahead[k] = n
    PROVE  LET b2 == WriteRepoChanges(b, n, changed) IN
           /\ b2 \in Branches /\ b2.known = Len(b2.origin) /\ Len(b2.origin) >= Len(b.origin)
           /\ b2.ahead = << >> /\ WrittenHead(b, n, changed) = Len(b2.origin)
           /\ \A p \in 1 .. Len(b2.origin) :
                 \/ p \in 1 .. Len(b.origin) /\ b2.origin[p] = b.origin[p]
                 \/ p > Len(b.origin) /\ b2.origin[p] = n
<1>. DEFINE m == gitCommit(b, n, changed)
<1>1. m \in Branches /\ m.origin = b.origin /\ \A k \in 1 .. Len(m.ahead) : m.ahead[k] = n
  BY BranchCommitted
<1>. HIDE DEF m
<1>2. /\ m.origin \in Seq(0 .. MaxInteractions) /\ m.ahead \in Seq(0 .. MaxInteractions)
      /\ m.known \in Nat
  BY <1>1 DEF Branches
<1>. DEFINE lo == Len(m.origin)
            la == Len(m.ahead)
            o == m.origin \o m.ahead
<1>3. lo \in Nat /\ la \in Nat /\ lo = Len(b.origin)
  BY <1>1, <1>2, LenProperties
<1>4. /\ o \in Seq(0 .. MaxInteractions) /\ Len(o) = lo + la
      /\ \A p \in 1 .. lo + la : o[p] = IF p <= lo THEN m.origin[p] ELSE m.ahead[p - lo]
  BY <1>2, ConcatProperties
<1>5. gitPush(gitIntegrateRemote(m)) = [origin |-> o, known |-> Len(o), ahead |-> << >>]
  BY <1>1, <1>2, <1>3, <1>4 DEF gitPush, gitIntegrateRemote, Branches
<1>6. RepoHead(gitIntegrateRemote(m)) = Len(o)
  BY <1>1, <1>2, <1>3, <1>4 DEF RepoHead, gitIntegrateRemote, Branches
<1>12. \A k \in 1 .. la : m.ahead[k] = n
  BY <1>1
<1>. HIDE DEF o, lo, la
<1>7. ASSUME NEW p \in 1 .. Len(o)
      PROVE  \/ p \in 1 .. Len(b.origin) /\ o[p] = b.origin[p]
             \/ p > Len(b.origin) /\ o[p] = n
  <2>0. p \in 1 .. lo + la
    BY <1>4
  <2>1. CASE p <= lo
    <3>1. o[p] = m.origin[p]
      BY <2>0, <2>1, <1>4
    <3>. QED
      BY <2>0, <2>1, <3>1, <1>1, <1>3
  <2>2. CASE p > lo
    <3>1. p - lo \in 1 .. la /\ ~(p <= lo)
      BY <2>0, <2>2, <1>3
    <3>2. o[p] = m.ahead[p - lo]
      BY <2>0, <3>1, <1>4
    <3>. QED
      BY <2>2, <3>1, <3>2, <1>12, <1>3
  <2>. QED
    BY <2>0, <2>1, <2>2, <1>3
<1>8. << >> \in Seq(0 .. MaxInteractions) /\ Len(o) \in Nat
  BY <1>3, <1>4, EmptySeq
<1>9. [origin |-> o, known |-> Len(o), ahead |-> << >>] \in Branches
  BY <1>4, <1>8 DEF Branches
<1>10. Len(o) >= Len(b.origin)
  BY <1>3, <1>4
<1>11. /\ WriteRepoChanges(b, n, changed) = [origin |-> o, known |-> Len(o), ahead |-> << >>]
       /\ WrittenHead(b, n, changed) = Len(o)
  BY <1>5, <1>6 DEF WriteRepoChanges, WrittenHead, m
<1>. QED
  BY <1>7, <1>9, <1>10, <1>11

-----------------------------------------------------------------------------
\* The commits of a branch against a pointer and a record.
LEMMA BranchNumbers ==
    ASSUME NEW b \in Branches
    PROVE  /\ b.known \in Nat /\ Len(b.origin) \in Nat /\ Len(b.ahead) \in Nat
           /\ \A p \in 1 .. Len(b.origin) : b.origin[p] \in 0 .. MaxInteractions
<1>1. b.origin \in Seq(0 .. MaxInteractions) /\ b.ahead \in Seq(0 .. MaxInteractions) /\ b.known \in Nat
  BY DEF Branches
<1>. QED
  BY <1>1, LenProperties, ElementOfSeq

\* What is counted in a pointer is a natural number.
LEMMA PointerNumbers ==
    ASSUME NEW s \in PointerSpec
    PROVE  /\ s.done \in Nat /\ s.done <= MaxInteractions
           /\ s.bases \in Positions => \A t \in Repos : s.bases[t] \in Nat
           /\ s.heads \in Positions => \A t \in Repos : s.heads[t] \in Nat
BY V2Numbers DEF PointerSpec, Positions

\* What others push changes nothing of it.
LEMMA PushedFits ==
    ASSUME NEW b \in Branches, NEW b2 \in Branches, NEW t \in Repos,
           b2.known = b.known, b2.ahead = b.ahead, Len(b2.origin) = Len(b.origin) + 1,
           \A p \in 1 .. Len(b2.origin) :
              b2.origin[p] # 0 => p \in 1 .. Len(b.origin) /\ b2.origin[p] = b.origin[p]
    PROVE  /\ BranchFits(b) => BranchFits(b2)
           /\ \A r : RecordFits(r, b, t) => RecordFits(r, b2, t)
           /\ \A s \in PointerSpec : CommitsFit(s, b, t) => CommitsFit(s, b2, t)
<1>1. /\ b.known \in Nat /\ Len(b.origin) \in Nat
      /\ \A p \in 1 .. Len(b2.origin) : b2.origin[p] \in 0 .. MaxInteractions
  BY BranchNumbers
<1>2. ASSUME BranchFits(b) PROVE BranchFits(b2)
  <2>1. ASSUME NEW p \in 1 .. Len(b2.origin), b2.origin[p] # 0 PROVE p > 1 /\ p <= b2.known
    BY <2>1, <1>2 DEF BranchFits
  <2>2. b2.known <= Len(b2.origin)
    BY <1>1, <1>2 DEF BranchFits
  <2>. QED
    BY <2>1, <2>2 DEF BranchFits
<1>3. ASSUME NEW r, RecordFits(r, b, t) PROVE RecordFits(r, b2, t)
  BY <1>3 DEF RecordFits
<1>4. ASSUME NEW s \in PointerSpec, CommitsFit(s, b, t) PROVE CommitsFit(s, b2, t)
  <2>1. s.done \in Nat
    BY PointerNumbers
  <2>2. \A p \in 1 .. Len(b2.origin) :
          /\ b2.origin[p] <= s.done + 1
          /\ b2.origin[p] = s.done + 1 => s.stage \in {"responded", "mapped", "recorded"}
    <3>1. SUFFICES ASSUME NEW p \in 1 .. Len(b2.origin)
                   PROVE  /\ b2.origin[p] <= s.done + 1
                          /\ b2.origin[p] = s.done + 1 => s.stage \in {"responded", "mapped", "recorded"}
      OBVIOUS
    <3>2. CASE b2.origin[p] = 0
      BY <3>2, <2>1
    <3>3. CASE b2.origin[p] # 0
      BY <3>3, <1>4 DEF CommitsFit
    <3>. QED
      BY <3>2, <3>3
  <2>3. ASSUME s.stage \in Submitted \ {"queued"}
        PROVE  /\ s.bases \in Positions /\ s.bases[t] <= b2.known
               /\ \A p \in 1 .. Len(b2.origin) :
                    b2.origin[p] # 0 => (b2.origin[p] = s.done + 1 <=> s.bases[t] < p)
    BY <2>3, <1>4 DEF CommitsFit
  <2>4. ASSUME s.stage \in {"mapped", "recorded"}
        PROVE  /\ s.heads \in Positions /\ s.heads[t] <= b2.known
               /\ \A p \in 1 .. Len(b2.origin) : b2.origin[p] = s.done + 1 => p <= s.heads[t]
    <3>1. ASSUME NEW p \in 1 .. Len(b2.origin), b2.origin[p] = s.done + 1 PROVE p <= s.heads[t]
      <4>1. b2.origin[p] # 0
        BY <3>1, <2>1
      <4>. QED
        BY <4>1, <3>1, <2>4, <1>4 DEF CommitsFit
    <3>. QED
      BY <3>1, <2>4, <1>4 DEF CommitsFit
  <2>. QED
    BY <2>2, <2>3, <2>4, <1>4 DEF CommitsFit
<1>. QED
  BY <1>2, <1>3, <1>4

\* Nor does the rebase.
LEMMA IntegratedFits ==
    ASSUME NEW b \in Branches, NEW t \in Repos, BranchFits(b)
    PROVE  LET b2 == gitIntegrateRemote(b) IN
           /\ b2 \in Branches /\ BranchFits(b2) /\ b2.known >= b.known
           /\ b2.known = Len(b.origin) /\ b2.origin = b.origin /\ b2.ahead = b.ahead
           /\ \A r \in Headings : RecordFits(r, b, t) => RecordFits(r, b2, t)
<1>. DEFINE b2 == gitIntegrateRemote(b)
<1>1. b.known \in Nat /\ Len(b.origin) \in Nat
  BY BranchNumbers
<1>2. b2 \in Branches /\ b2.known = Len(b.origin) /\ b2.origin = b.origin /\ b2.ahead = b.ahead
  BY <1>1 DEF gitIntegrateRemote, Branches
<1>. HIDE DEF b2
<1>3. BranchFits(b2) /\ b2.known >= b.known
  BY <1>1, <1>2 DEF BranchFits
<1>4. ASSUME NEW r \in Headings, RecordFits(r, b, t) PROVE RecordFits(r, b2, t)
  <2>1. r.to[t] \in Int
    BY DEF Headings
  <2>. QED
    BY <1>1, <1>2, <1>3, <1>4, <2>1 DEF RecordFits
<1>5. /\ b2 \in Branches /\ BranchFits(b2) /\ b2.known >= b.known
      /\ b2.known = Len(b.origin) /\ b2.origin = b.origin /\ b2.ahead = b.ahead
      /\ \A r \in Headings : RecordFits(r, b, t) => RecordFits(r, b2, t)
  BY <1>2, <1>3, <1>4
<1>. QED
  BY <1>5 DEF b2

\* The commits an interaction makes are after its base and in the range of no
\* earlier record; its head has them all.
LEMMA WrittenFits ==
    ASSUME NEW b \in Branches, NEW b2 \in Branches, NEW t \in Repos, NEW s \in PointerSpec,
           s.stage = "responded", BranchFits(b), b.known >= 1, CommitsFit(s, b, t),
           b2.known = Len(b2.origin), Len(b2.origin) >= Len(b.origin), b2.ahead = << >>,
           \A p \in 1 .. Len(b2.origin) :
              \/ p \in 1 .. Len(b.origin) /\ b2.origin[p] = b.origin[p]
              \/ p > Len(b.origin) /\ b2.origin[p] = s.done + 1
    PROVE  /\ BranchFits(b2) /\ b2.known >= 1 /\ CommitsFit(s, b2, t)
           /\ \A r \in Headings : RecordFits(r, b, t) /\ r.n <= s.done => RecordFits(r, b2, t)
           /\ \A s2 \in PointerSpec :
                 /\ s2.stage = "mapped" /\ s2.done = s.done /\ s2.bases = s.bases
                 /\ s2.heads \in Positions /\ s2.heads[t] = Len(b2.origin)
                 => CommitsFit(s2, b2, t)
<1>1. /\ b.known \in Nat /\ Len(b.origin) \in Nat /\ b2.known \in Nat /\ Len(b2.origin) \in Nat
      /\ \A p \in 1 .. Len(b.origin) : b.origin[p] \in Nat
  BY BranchNumbers, V2Numbers
<1>2. s.done \in Nat /\ s.bases[t] \in Nat /\ s.bases \in Positions /\ s.bases[t] <= b.known
  <2>1. s.bases \in Positions /\ s.bases[t] <= b.known
    BY DEF CommitsFit, Submitted, Stage
  <2>. QED
    BY <2>1, PointerNumbers
<1>3. b2.known >= b.known /\ b2.known >= 1
  BY <1>1 DEF BranchFits
<1>4. BranchFits(b2)
  <2>1. SUFFICES ASSUME NEW p \in 1 .. Len(b2.origin), b2.origin[p] # 0
                 PROVE  p > 1 /\ p <= b2.known
    BY <1>1 DEF BranchFits
  <2>. QED
    BY <2>1, <1>1 DEF BranchFits
<1>5. ASSUME NEW r \in Headings, RecordFits(r, b, t), r.n <= s.done PROVE RecordFits(r, b2, t)
  <2>1. r.to[t] \in Int /\ r.from[t] \in Int /\ r.n \in Nat /\ r.to[t] <= b.known
    BY <1>5 DEF Headings, RecordFits
  <2>2. ASSUME NEW p \in 1 .. Len(b2.origin), b2.origin[p] # 0
        PROVE  b2.origin[p] = r.n <=> (r.from[t] < p /\ p <= r.to[t])
    <3>1. CASE p \in 1 .. Len(b.origin) /\ b2.origin[p] = b.origin[p]
      BY <3>1, <2>2, <1>5 DEF RecordFits
    <3>2. CASE p > Len(b.origin) /\ b2.origin[p] = s.done + 1
      <4>1. b2.origin[p] # r.n
        BY <3>2, <1>2, <1>5, <2>1
      <4>2. p > r.to[t]
        BY <3>2, <1>1, <2>1 DEF BranchFits
      <4>. QED
        BY <4>1, <4>2, <2>1
    <3>. QED
      BY <3>1, <3>2
  <2>. QED
    BY <2>1, <2>2, <1>1, <1>3 DEF RecordFits
<1>6. \A p \in 1 .. Len(b2.origin) :
        /\ b2.origin[p] <= s.done + 1
        /\ b2.origin[p] # 0 => (b2.origin[p] = s.done + 1 <=> s.bases[t] < p)
  <2>1. SUFFICES ASSUME NEW p \in 1 .. Len(b2.origin)
                 PROVE  /\ b2.origin[p] <= s.done + 1
                        /\ b2.origin[p] # 0 => (b2.origin[p] = s.done + 1 <=> s.bases[t] < p)
    OBVIOUS
  <2>2. CASE p \in 1 .. Len(b.origin) /\ b2.origin[p] = b.origin[p]
    BY <2>2 DEF CommitsFit, Submitted, Stage
  <2>3. CASE p > Len(b.origin) /\ b2.origin[p] = s.done + 1
    <3>1. s.bases[t] < p
      BY <2>3, <1>1, <1>2 DEF BranchFits
    <3>. QED
      BY <2>3, <3>1, <1>2
  <2>. QED
    BY <2>2, <2>3
<1>7. Len(b2.ahead) = 0
  BY EmptySeq
<1>8. s.bases[t] <= b2.known
  BY <1>1, <1>2, <1>3
<1>9. CommitsFit(s, b2, t)
  BY <1>2, <1>6, <1>7, <1>8 DEF CommitsFit, Submitted, Stage
<1>10. ASSUME NEW s2 \in PointerSpec, s2.stage = "mapped", s2.done = s.done, s2.bases = s.bases,
              s2.heads \in Positions, s2.heads[t] = Len(b2.origin)
       PROVE  CommitsFit(s2, b2, t)
  BY <1>1, <1>2, <1>6, <1>7, <1>8, <1>10 DEF CommitsFit, Submitted, Stage
<1>. QED
  BY <1>3, <1>4, <1>5, <1>9, <1>10

\* A commit that could not be pushed.
LEMMA CommittedFits ==
    ASSUME NEW b \in Branches, NEW b2 \in Branches, NEW t \in Repos, NEW s \in PointerSpec,
           s.stage = "responded", CommitsFit(s, b, t),
           b2.known = b.known, b2.origin = b.origin, \A k \in 1 .. Len(b2.ahead) : b2.ahead[k] = s.done + 1
    PROVE  CommitsFit(s, b2, t)
BY DEF CommitsFit, Submitted, Stage

-----------------------------------------------------------------------------
\* The pointer against the rest.  Only some of its fields tell, and of the
\* pull requests which are merged.
LEMMA SameFits ==
    ASSUME NEW s \in PointerSpec, NEW s2 \in PointerSpec, NEW sl \in Slops, NEW sl2 \in Slops,
           NEW br \in [Repos -> Branches],
           NEW gh \in [PRRepos -> PRStates], NEW gh2 \in [PRRepos -> PRStates],
           s2.phase = s.phase, s2.from = s.from, s2.stage = s.stage, s2.done = s.done,
           s2.bases = s.bases, s2.heads = s.heads, s2.prs = s.prs,
           sl2.exists = sl.exists, sl2.file = sl.file, sl2.pushed = sl.pushed,
           \A r \in PRRepos : gh[r] = "merged" => gh2[r] = "merged",
           CondocFits(s, sl, br, gh)
    PROVE  CondocFits(s2, sl2, br, gh2)
<1>1. PhaseFits(s2) /\ SectionsFit(s2, sl2)
  BY DEF CondocFits, PhaseFits, PhaseOf, SectionsFit
<1>2. MergesFit(s2, br, gh2)
  BY V2Numbers DEF CondocFits, MergesFit, PhaseOf
<1>3. \A t \in Repos : CommitsFit(s2, br[t], t)
  BY DEF CondocFits, CommitsFit
<1>. QED
  BY <1>1, <1>2, <1>3 DEF CondocFits

\* A slopspace with the same step file fits the branches as before.
LEMMA SameWorld ==
    ASSUME NEW sl \in Slops, NEW sl2 \in Slops, NEW br,
           sl2.exists = sl.exists, sl2.file = sl.file, sl2.pushed = sl.pushed,
           WorldFits(sl, br)
    PROVE  WorldFits(sl2, br)
BY DEF WorldFits

\* Under the lock the stages follow each other.
LEMMA LockedFits ==
    ASSUME NEW s \in PointerSpec, NEW s2 \in PointerSpec, NEW sl \in Slops, NEW sl2 \in Slops,
           NEW br, NEW br2, NEW gh,
           s2.phase = s.phase, s2.from = s.from, s2.done = s.done, s2.prs = s.prs,
           s.stage # "none", s2.stage # "none", sl2.exists = sl.exists,
           CondocFits(s, sl, br, gh),
           sl.exists => SectionsFit(s2, sl2), \A t \in Repos : CommitsFit(s2, br2[t], t)
    PROVE  CondocFits(s2, sl2, br2, gh)
<1>1. PhaseOf(s) = "Locked" /\ PhaseOf(s2) = "Locked" /\ PhaseFits(s2) /\ sl.exists
  BY DEF CondocFits, PhaseFits, PhaseOf, SectionsFit, IsFinal
<1>2. MergesFit(s2, br2, gh)
  BY <1>1 DEF CondocFits, MergesFit
<1>. QED
  BY <1>1, <1>2 DEF CondocFits

\* A step is of one condoc and leaves the others.
OnlyCondoc(c) ==
    \A d \in Held \ {c} : /\ spec'[d] = spec[d] /\ slop'[d] = slop[d]
                          /\ branches'[d] = branches[d] /\ github'[d] = github[d]

\* An action on one condoc has only to say that this condoc still fits.
LEMMA OthersKeep ==
    ASSUME InteractionsInv, NEW c \in Held, OnlyCondoc(c), InteractionsTyped', TurnFits',
           WorldFits(slop'[c], branches'[c]),
           CondocFits(spec'[c], slop'[c], branches'[c], github'[c])
    PROVE  InteractionsInv'
<1>1. ASSUME NEW d \in Held
      PROVE  /\ WorldFits(slop'[d], branches'[d])
             /\ CondocFits(spec'[d], slop'[d], branches'[d], github'[d])
  <2>1. CASE d = c
    BY <2>1
  <2>2. CASE d # c
    BY <2>2 DEF OnlyCondoc, InteractionsInv
  <2>. QED
    BY <2>1, <2>2
<1>. QED
  BY <1>1 DEF InteractionsInv

\* While the turn loop is at another condoc, or the step leaves what the loop
\* has of this one.
LEMMA TurnElsewhere ==
    ASSUME InteractionsInv, NEW c \in Held, OnlyCondoc(c), turn' = turn,
           claimed[c] # "turn", \A d \in Held \ {c} : claimed'[d] = claimed[d]
    PROVE  TurnFits'
<1>1. SUFFICES ASSUME turn.at # "idle" PROVE TurnFits'
  BY DEF TurnFits
<1>2. turn.of \in Held /\ claimed[turn.of] = "turn" /\ turn.of # c
  BY <1>1 DEF InteractionsInv, TurnFits
<1>3. /\ spec'[turn.of] = spec[turn.of] /\ slop'[turn.of] = slop[turn.of]
      /\ branches'[turn.of] = branches[turn.of] /\ github'[turn.of] = github[turn.of]
      /\ claimed'[turn.of] = claimed[turn.of]
  BY <1>2 DEF OnlyCondoc
<1>. QED
  BY <1>2, <1>3 DEF InteractionsInv, TurnFits

\* What a step of the turn loop owes: the new stage, when it is reached, fits,
\* and the pointer as it is saved still does.
LEMMA TurnReaches ==
    ASSUME InteractionsInv, turn.at = "stage", NEW s \in PointerSpec, Reached(s),
           ~IsFinal(s.phase), UNCHANGED <<spec, claimed, queue, tick>>,
           OnlyCondoc(me), WorldTyped', UsedTyped',
           WorldFits(slop'[me], branches'[me]),
           CondocFits(spec[me], slop'[me], branches'[me], github'[me]),
           CondocFits(s, slop'[me], branches'[me], github'[me])
    PROVE  InteractionsInv'
<1>1. turn.of \in Held /\ claimed[turn.of] = "turn" /\ me = turn.of
  BY DEF InteractionsInv, TurnFits, me
<1>2. /\ turn' \in [at : {"idle", "stage", "save", "failed", "ended"}, of : Held \cup {Nobody}, spec : PointerSpec]
      /\ turn'.at = "save" /\ turn'.of = turn.of /\ turn'.spec = s
  BY DEF InteractionsInv, InteractionsTyped, LoopsTyped, Reached
<1>3. InteractionsTyped'
  BY <1>2 DEF InteractionsInv, InteractionsTyped, LoopsTyped
<1>4. TurnFits'
  BY <1>1, <1>2 DEF TurnFits
<1>. QED
  BY <1>1, <1>3, <1>4, OthersKeep

\* A turn that fails or ends has only to leave its condoc fitting.
LEMMA TurnStops ==
    ASSUME InteractionsInv, turn.at # "idle", NEW at \in {"failed", "ended"}, turn' = [turn EXCEPT !.at = at],
           spec' \in [Held -> PointerSpec], UNCHANGED <<claimed, queue, tick>>,
           OnlyCondoc(me), WorldTyped', UsedTyped',
           WorldFits(slop'[me], branches'[me]),
           CondocFits(spec'[me], slop'[me], branches'[me], github'[me])
    PROVE  InteractionsInv'
<1>1. turn.of \in Held /\ claimed[turn.of] = "turn" /\ me = turn.of
  BY DEF InteractionsInv, TurnFits, me
<1>2. /\ turn' \in [at : {"idle", "stage", "save", "failed", "ended"}, of : Held \cup {Nobody}, spec : PointerSpec]
      /\ turn'.at = at /\ turn'.of = turn.of
  BY DEF InteractionsInv, InteractionsTyped, LoopsTyped
<1>3. InteractionsTyped'
  BY <1>2 DEF InteractionsInv, InteractionsTyped, LoopsTyped
<1>4. TurnFits'
  BY <1>1, <1>2 DEF TurnFits
<1>. QED
  BY <1>1, <1>3, <1>4, OthersKeep

-----------------------------------------------------------------------------
\* The turn loop's steps.
LEMMA NoSpecTyped ==
    NoSpec \in PointerSpec /\ Zero \in Positions /\ NoTurn.spec = NoSpec
<1>1. 0 \in 0 .. MaxInteractions
  BY V2Numbers
<1>. QED
  BY <1>1 DEF NoSpec, PointerSpec, Phase, Stage, NoBases, Zero, Positions, NoTurn

\* A mishap is counted within its bound.
LEMMA UsedStays ==
    ASSUME InteractionsInv, Mishap \/ UNCHANGED used
    PROVE  UsedTyped'
<1>1. used \in [requests : 0 .. MaxRequests, mishaps : 0 .. MaxMishaps]
  BY DEF InteractionsInv, InteractionsTyped, UsedTyped
<1>2. CASE Mishap
  <2>1. used.mishaps + 1 \in 0 .. MaxMishaps
    BY <1>1, <1>2, V2Numbers DEF Mishap
  <2>. QED
    BY <1>1, <1>2, <2>1 DEF Mishap, UsedTyped
<1>. QED
  BY <1>1, <1>2 DEF UsedTyped

\* So is a request.
LEMMA UsedByRequest ==
    ASSUME InteractionsInv, NEW c, Request(c)
    PROVE  UsedTyped'
<1>1. used \in [requests : 0 .. MaxRequests, mishaps : 0 .. MaxMishaps]
  BY DEF InteractionsInv, InteractionsTyped, UsedTyped
<1>2. used.requests + 1 \in 0 .. MaxRequests
  BY <1>1, V2Numbers DEF Request
<1>. QED
  BY <1>1, <1>2 DEF Request, UsedTyped

\* What the invariant says of one condoc.
LEMMA CondocAt ==
    ASSUME InteractionsInv, NEW c \in Held
    PROVE  /\ spec[c] \in PointerSpec /\ slop[c] \in Slops /\ branches[c] \in [Repos -> Branches]
           /\ github[c] \in [PRRepos -> PRStates] /\ signals[c] \in Seq(SignalStates)
           /\ WorldFits(slop[c], branches[c])
           /\ CondocFits(spec[c], slop[c], branches[c], github[c])
BY DEF InteractionsInv, InteractionsTyped, WorldTyped

\* What it says of the turn under way.
LEMMA TurnAt ==
    ASSUME InteractionsInv, turn.at # "idle"
    PROVE  /\ me \in Held /\ me = turn.of /\ claimed[me] = "turn" /\ turn.spec \in PointerSpec
           /\ turn.at = "stage" => turn.spec = spec[me]
           /\ turn.at \in {"stage", "save"} =>
                 /\ ~IsFinal(turn.spec.phase)
                 /\ CondocFits(turn.spec, slop[me], branches[me], github[me])
BY DEF InteractionsInv, InteractionsTyped, LoopsTyped, TurnFits, me

\* At a stage the pointer is locked and the slopspace is there.
LEMMA StageAt ==
    ASSUME NEW s \in PointerSpec, NEW sl, NEW br, NEW gh, CondocFits(s, sl, br, gh),
           s.stage # "none"
    PROVE  PhaseOf(s) = "Locked" /\ sl.exists /\ s.done \in Nat /\ s.done + 1 \in 1 .. MaxInteractions
<1>1. PhaseOf(s) = "Locked" /\ s.done < MaxInteractions /\ sl.exists
  BY DEF CondocFits, PhaseFits, SectionsFit
<1>. QED
  BY <1>1, PointerNumbers, V2Numbers

\* The turn at the head waits for another slopspace to leave the path.
LEMMA TurnWaitsKept ==
    ASSUME InteractionsInv, TurnWaits PROVE InteractionsInv'
<1>1. me \in Held /\ claimed \in [Held -> {"free", "ui", "tick", "turn"}]
  BY TurnAt DEF TurnWaits, At, InteractionsInv, InteractionsTyped, LoopsTyped
<1>2. turn'.at = "idle" /\ turn' \in [at : {"idle", "stage", "save", "failed", "ended"}, of : Held \cup {Nobody}, spec : PointerSpec]
  BY NoSpecTyped DEF TurnWaits, NoTurn
<1>3. claimed' \in [Held -> {"free", "ui", "tick", "turn"}]
  BY <1>1 DEF TurnWaits
<1>4. TurnFits'
  BY <1>2 DEF TurnFits
<1>5. LoopsTyped'
  BY <1>2, <1>3 DEF TurnWaits, InteractionsInv, InteractionsTyped, LoopsTyped
<1>6. WorldTyped' /\ UsedTyped' /\ spec' = spec /\ slop' = slop /\ branches' = branches /\ github' = github
  BY DEF TurnWaits, World, InteractionsInv, InteractionsTyped, WorldTyped, UsedTyped
<1>7. OnlyCondoc(me)
  BY <1>6 DEF OnlyCondoc
<1>. QED
  BY <1>1, <1>4, <1>5, <1>6, <1>7, OthersKeep, CondocAt DEF InteractionsInv, InteractionsTyped

\* The slopspace is deployed and its branches synchronised: the bases are
\* those.
LEMMA TurnDeploysKept ==
    ASSUME InteractionsInv, TurnDeploys PROVE InteractionsInv'
<1>. DEFINE synced == IF path # me /\ turn.spec.bases = NoBases
                      THEN [t \in Repos |-> gitIntegrateRemote(branches[me][t])]
                      ELSE branches[me]
            bases == IF turn.spec.bases = NoBases THEN [t \in Repos |-> RepoHead(synced[t])]
                     ELSE turn.spec.bases
            s == [turn.spec EXCEPT !.stage = "deployed", !.bases = bases]
<1>1. /\ turn.at = "stage" /\ turn.spec.stage = "queued" /\ path' = me
      /\ branches' = [branches EXCEPT ![me] = synced] /\ Reached(s)
      /\ UNCHANGED <<spec, claimed, queue, tick>> /\ UNCHANGED <<slop, github, signals, used>>
  BY DEF TurnDeploys, At, TurnKeeps
<1>2. /\ me \in Held /\ turn.spec \in PointerSpec /\ turn.spec = spec[me] /\ ~IsFinal(turn.spec.phase)
      /\ CondocFits(turn.spec, slop[me], branches[me], github[me])
  BY <1>1, TurnAt
<1>3. slop[me] \in Slops /\ branches[me] \in [Repos -> Branches] /\ WorldFits(slop[me], branches[me])
  BY <1>2, CondocAt
<1>4. slop[me].exists /\ turn.spec.done \in Nat /\ turn.spec.bases = NoBases
  <2>1. turn.spec.stage # "none" /\ turn.spec.stage \in {"locked", "prompted", "queued"}
    BY <1>1
  <2>2. PICK t \in Repos : TRUE
    BY V2Numbers DEF Repos
  <2>. QED
    <3>1. slop[me].exists /\ turn.spec.done \in Nat
      BY <1>2, <2>1, StageAt
    <3>2. CommitsFit(turn.spec, branches[me][t], t)
      BY <1>2, <2>2 DEF CondocFits
    <3>. QED
      BY <2>1, <3>1, <3>2 DEF CommitsFit
<1>5. ASSUME NEW t \in Repos
      PROVE  /\ synced[t] \in Branches /\ BranchFits(synced[t]) /\ synced[t].known >= 1
             /\ \A r \in Headings : RecordFits(r, branches[me][t], t) => RecordFits(r, synced[t], t)
             /\ CommitsFit(turn.spec, synced[t], t)
             /\ RepoHead(synced[t]) = synced[t].known /\ synced[t].known \in Nat
             /\ \A p \in 1 .. Len(synced[t].origin) : synced[t].origin[p] # 0 =>
                   p <= synced[t].known /\ synced[t].origin[p] <= turn.spec.done
             /\ Len(synced[t].ahead) = 0
  <2>. DEFINE b == branches[me][t]
              b2 == synced[t]
  <2>1. /\ b \in Branches /\ BranchFits(b) /\ b.known >= 1 /\ CommitsFit(turn.spec, b, t)
    BY <1>2, <1>3, <1>4 DEF WorldFits, CondocFits
  <2>2. /\ b.known \in Nat /\ Len(b.origin) \in Nat /\ Len(b.ahead) \in Nat
        /\ \A p \in 1 .. Len(b.origin) : b.origin[p] \in Nat
    BY <2>1, BranchNumbers, V2Numbers
  <2>3. /\ Len(b.ahead) = 0
        /\ \A p \in 1 .. Len(b.origin) : b.origin[p] <= turn.spec.done
    <3>1. ~(Len(b.ahead) > 0)
      BY <2>1, <1>1 DEF CommitsFit
    <3>2. ASSUME NEW p \in 1 .. Len(b.origin) PROVE b.origin[p] <= turn.spec.done
      <4>1. b.origin[p] <= turn.spec.done + 1 /\ b.origin[p] # turn.spec.done + 1
        BY <2>1, <1>1 DEF CommitsFit
      <4>. QED
        BY <4>1, <1>4, <2>2
    <3>. QED
      BY <2>2, <3>1, <3>2
  <2>4. CASE b2 = b
    <3>1. RepoHead(b2) = b2.known
      <4>1. RepoHead(b) = b.known
        <5>. HIDE DEF b
        <5>. QED
          BY <2>2, <2>3 DEF RepoHead
      <4>. QED
        BY <2>4, <4>1
    <3>2. \A p \in 1 .. Len(b.origin) : b.origin[p] # 0 => p <= b.known
      BY <2>1 DEF BranchFits
    <3>. QED
      BY <2>1, <2>2, <2>3, <2>4, <3>1, <3>2
  <2>5. CASE b2 = gitIntegrateRemote(b)
    <3>1. /\ b2 \in Branches /\ BranchFits(b2) /\ b2.known >= b.known
          /\ b2.known = Len(b.origin) /\ b2.origin = b.origin /\ b2.ahead = b.ahead
          /\ \A r \in Headings : RecordFits(r, b, t) => RecordFits(r, b2, t)
      BY <2>1, <2>5, IntegratedFits
    <3>. HIDE DEF b, b2, synced
    <3>4. b2.known \in Nat /\ Len(b2.ahead) = 0
      BY <2>2, <2>3, <3>1
    <3>2. RepoHead(b2) = b2.known /\ b2.known >= 1
      BY <2>1, <2>2, <3>1, <3>4 DEF RepoHead
    <3>3. CommitsFit(turn.spec, b2, t)
      BY <2>1, <3>1, <1>1 DEF CommitsFit, Submitted, Stage
    <3>. QED
      BY <2>2, <2>3, <3>1, <3>2, <3>3, <3>4 DEF b, b2, BranchFits
  <2>. QED
    BY <2>4, <2>5
<1>6. synced \in [Repos -> Branches]
  BY <1>3, <1>5 DEF gitIntegrateRemote
<1>. HIDE DEF synced
<1>7. bases = [t \in Repos |-> RepoHead(synced[t])] /\ bases \in Positions
  BY <1>4, <1>5 DEF Positions
<1>8. /\ s \in PointerSpec /\ s.stage = "deployed" /\ s.bases = bases /\ s.phase = turn.spec.phase
      /\ s.from = turn.spec.from /\ s.done = turn.spec.done /\ s.prs = turn.spec.prs
  BY <1>2, <1>7 DEF PointerSpec, Stage
<1>. HIDE DEF s, bases
<1>9. /\ branches' \in [Held -> [Repos -> Branches]] /\ branches'[me] = synced
      /\ \A d \in Held \ {me} : branches'[d] = branches[d]
  BY <1>1, <1>2, <1>6 DEF InteractionsInv, InteractionsTyped, WorldTyped
<1>10. WorldFits(slop[me], synced)
  <2>1. \A i \in 1 .. Len(slop[me].file) : slop[me].file[i] \in Headings
    BY <1>3, ElementOfSeq DEF Slops
  <2>. QED
    BY <1>3, <1>5, <2>1 DEF WorldFits
<1>11. CondocFits(turn.spec, slop[me], synced, github[me])
  <2>1. SectionsFit(turn.spec, slop[me]) /\ \A t \in Repos : CommitsFit(turn.spec, synced[t], t)
    BY <1>2, <1>5 DEF CondocFits
  <2>2. turn.spec.stage # "none"
    BY <1>1
  <2>. QED
    BY <1>2, <1>3, <2>1, <2>2, LockedFits
<1>12. ASSUME NEW t \in Repos PROVE CommitsFit(s, synced[t], t)
  <2>1. s.bases[t] = synced[t].known
    BY <1>5, <1>7, <1>8
  <2>2. \A p \in 1 .. Len(synced[t].origin) :
           synced[t].origin[p] # 0 => (synced[t].origin[p] = s.done + 1 <=> s.bases[t] < p)
    <3>1. SUFFICES ASSUME NEW p \in 1 .. Len(synced[t].origin), synced[t].origin[p] # 0
                   PROVE  synced[t].origin[p] # s.done + 1 /\ ~(s.bases[t] < p)
      OBVIOUS
    <3>2. p <= synced[t].known /\ synced[t].origin[p] <= turn.spec.done /\ synced[t].origin[p] \in Nat
      BY <3>1, <1>5, BranchNumbers, V2Numbers
    <3>. QED
      BY <3>2, <2>1, <1>4, <1>5, <1>8
  <2>3. s.bases[t] <= synced[t].known
    BY <1>5, <2>1
  <2>4. \A p \in 1 .. Len(synced[t].origin) :
          /\ synced[t].origin[p] <= s.done + 1
          /\ synced[t].origin[p] # s.done + 1
    <3>1. SUFFICES ASSUME NEW p \in 1 .. Len(synced[t].origin)
                   PROVE  synced[t].origin[p] <= s.done + 1 /\ synced[t].origin[p] # s.done + 1
      OBVIOUS
    <3>2. synced[t].origin[p] \in Nat /\ synced[t].origin[p] <= turn.spec.done
      BY <1>4, <1>5, BranchNumbers, V2Numbers
    <3>. QED
      BY <3>2, <1>4, <1>8
  <2>. QED
    BY <1>5, <1>7, <1>8, <2>2, <2>3, <2>4 DEF CommitsFit, Submitted, Stage
<1>13. CondocFits(s, slop[me], synced, github[me])
  <2>1. SectionsFit(s, slop[me])
    BY <1>1, <1>2, <1>8 DEF CondocFits, SectionsFit, Told, PhaseOf
  <2>. QED
    <3>1. turn.spec.stage # "none" /\ s.stage # "none"
      BY <1>1, <1>8
    <3>. QED
      BY <1>2, <1>3, <1>8, <1>12, <2>1, <3>1, LockedFits
<1>14. WorldTyped' /\ UsedTyped'
  BY <1>1, <1>2, <1>9, UsedStays DEF InteractionsInv, InteractionsTyped, WorldTyped
<1>15. OnlyCondoc(me) /\ ~IsFinal(s.phase)
  BY <1>1, <1>2, <1>8, <1>9 DEF OnlyCondoc
<1>. QED
  BY <1>1, <1>2, <1>8, <1>9, <1>10, <1>11, <1>13, <1>14, <1>15, TurnReaches

\* The deploy fails.
LEMMA TurnDeployFailsKept ==
    ASSUME InteractionsInv, TurnDeployFails PROVE InteractionsInv'
<1>1. /\ turn.at = "stage" /\ turn' = [turn EXCEPT !.at = "failed"]
      /\ UNCHANGED <<spec, claimed, queue, tick>> /\ UNCHANGED World
  BY DEF TurnDeployFails, At, TurnKeeps, Failed
<1>2. me \in Held /\ turn.at # "idle"
  BY <1>1, TurnAt
<1>3. WorldTyped' /\ UsedTyped' /\ OnlyCondoc(me) /\ spec' \in [Held -> PointerSpec]
      /\ spec' = spec /\ slop' = slop /\ branches' = branches /\ github' = github
  BY <1>1, UsedStays DEF TurnDeployFails, World, InteractionsInv, InteractionsTyped, WorldTyped, OnlyCondoc
<1>. QED
  BY <1>1, <1>2, <1>3, CondocAt, TurnStops

\* The signal cannot be read, or is in neither directory.
LEMMA TurnSignalUnreadKept ==
    ASSUME InteractionsInv, TurnSignalUnread \/ DraftSignalUnread PROVE InteractionsInv'
<1>1. /\ turn.at = "stage" /\ turn' = [turn EXCEPT !.at = "failed"]
      /\ UNCHANGED <<spec, claimed, queue, tick>> /\ UNCHANGED World /\ UNCHANGED used
  BY DEF TurnSignalUnread, DraftSignalUnread, At, AtDraft, TurnKeeps, Failed
<1>2. me \in Held /\ turn.at # "idle"
  BY <1>1, TurnAt
<1>3. WorldTyped' /\ UsedTyped' /\ OnlyCondoc(me) /\ spec' \in [Held -> PointerSpec]
      /\ spec' = spec /\ slop' = slop /\ branches' = branches /\ github' = github
  BY <1>1, UsedStays DEF World, InteractionsInv, InteractionsTyped, WorldTyped, OnlyCondoc
<1>. QED
  BY <1>1, <1>2, <1>3, CondocAt, TurnStops

\* A signal more.
LEMMA SignalMore ==
    ASSUME InteractionsInv, NEW c \in Held, signals' = [signals EXCEPT ![c] = Append(@, "pending")]
    PROVE  signals' \in [Held -> Seq(SignalStates)] /\ Len(signals[c]) + 1 \in Nat
<1>1. signals \in [Held -> Seq(SignalStates)] /\ "pending" \in SignalStates
  BY DEF InteractionsInv, InteractionsTyped, WorldTyped, SignalStates
<1>2. signals[c] \in Seq(SignalStates) /\ Append(signals[c], "pending") \in Seq(SignalStates)
  BY <1>1, AppendProperties
<1>. QED
  BY <1>1, <1>2, LenProperties

\* The signal is submitted, from a slopspace that is deployed.
LEMMA TurnSubmitsKept ==
    ASSUME InteractionsInv, TurnSubmits PROVE InteractionsInv'
<1>1. /\ turn.at = "stage" /\ turn.spec.stage = "deployed"
      /\ UNCHANGED <<spec, claimed, queue, tick>> /\ UNCHANGED <<slop, branches, github, path, used>>
  BY DEF TurnSubmits, At, TurnKeeps
<1>2. /\ me \in Held /\ turn.spec \in PointerSpec /\ turn.spec = spec[me] /\ ~IsFinal(turn.spec.phase)
      /\ CondocFits(turn.spec, slop[me], branches[me], github[me])
  BY <1>1, TurnAt
<1>3. slop[me] \in Slops /\ branches[me] \in [Repos -> Branches] /\ WorldFits(slop[me], branches[me])
  BY <1>2, CondocAt
<1>4. OnlyCondoc(me) /\ UsedTyped'
  BY <1>1, UsedStays DEF OnlyCondoc
<1>5. CASE path = me
  <2>. DEFINE n == Len(signals[me]) + 1
              s == [turn.spec EXCEPT !.stage = "signalled", !.sig = n]
  <2>1. signals' = [signals EXCEPT ![me] = Append(@, "pending")] /\ Reached(s)
    BY <1>5 DEF TurnSubmits
  <2>2. signals' \in [Held -> Seq(SignalStates)] /\ n \in Nat
    BY <1>2, <2>1, SignalMore
  <2>. HIDE DEF n
  <2>3. /\ s \in PointerSpec /\ s.stage = "signalled" /\ s.bases = turn.spec.bases /\ s.phase = turn.spec.phase
        /\ s.from = turn.spec.from /\ s.done = turn.spec.done /\ s.prs = turn.spec.prs
    BY <1>2, <2>2 DEF PointerSpec, Stage
  <2>. HIDE DEF s
  <2>4. WorldTyped'
    BY <1>1, <2>2 DEF InteractionsInv, InteractionsTyped, WorldTyped
  <2>5. SectionsFit(s, slop[me])
    BY <1>1, <1>2, <2>3 DEF CondocFits, SectionsFit, Told, PhaseOf
  <2>6. \A t \in Repos : CommitsFit(s, branches[me][t], t)
    BY <1>1, <1>2, <2>3 DEF CondocFits, CommitsFit, Submitted, Stage
  <2>7. CondocFits(s, slop[me], branches[me], github[me])
    <3>1. turn.spec.stage # "none" /\ s.stage # "none"
      BY <1>1, <2>3
    <3>. QED
      BY <1>2, <1>3, <2>3, <2>5, <2>6, <3>1, LockedFits
  <2>8. ~IsFinal(s.phase)
    BY <1>2, <2>3
  <2>. QED
    BY <1>1, <1>2, <1>3, <1>4, <2>1, <2>3, <2>4, <2>7, <2>8, TurnReaches
<1>6. CASE path # me
  <2>1. turn' = [turn EXCEPT !.at = "failed"] /\ signals' = signals
    BY <1>6 DEF TurnSubmits, Failed
  <2>2. WorldTyped' /\ spec' \in [Held -> PointerSpec] /\ turn.at # "idle"
    BY <1>1, <2>1 DEF InteractionsInv, InteractionsTyped, WorldTyped
  <2>. QED
    BY <1>1, <1>2, <1>3, <1>4, <2>1, <2>2, TurnStops
<1>. QED
  BY <1>5, <1>6

\* The agent has answered: the reply is collected and the slopspace returned.
LEMMA TurnCollectsKept ==
    ASSUME InteractionsInv, TurnCollects PROVE InteractionsInv'
<1>. DEFINE sl == [slop[me] EXCEPT !.reply = TRUE]
            s == [turn.spec EXCEPT !.stage = "returned"]
<1>1. /\ turn.at = "stage" /\ turn.spec.stage = "signalled"
      /\ slop' = [slop EXCEPT ![me].reply = TRUE]
      /\ UNCHANGED <<spec, claimed, queue, tick>> /\ UNCHANGED <<branches, github, signals>>
  BY DEF TurnCollects, At, TurnKeeps
<1>2. /\ me \in Held /\ turn.spec \in PointerSpec /\ turn.spec = spec[me] /\ ~IsFinal(turn.spec.phase)
      /\ CondocFits(turn.spec, slop[me], branches[me], github[me])
  BY <1>1, TurnAt
<1>3. /\ slop[me] \in Slops /\ branches[me] \in [Repos -> Branches] /\ WorldFits(slop[me], branches[me])
      /\ github[me] \in [PRRepos -> PRStates]
  BY <1>2, CondocAt
<1>4. /\ sl \in Slops /\ sl.exists = slop[me].exists /\ sl.file = slop[me].file /\ sl.pushed = slop[me].pushed
  BY <1>3 DEF Slops
<1>5. slop' = [slop EXCEPT ![me] = sl]
  BY <1>1
<1>. HIDE DEF sl
<1>6. slop' \in [Held -> Slops] /\ slop'[me] = sl /\ \A d \in Held \ {me} : slop'[d] = slop[d]
  BY <1>2, <1>4, <1>5 DEF InteractionsInv, InteractionsTyped, WorldTyped
<1>7. WorldFits(sl, branches[me])
  BY <1>3, <1>4, SameWorld
<1>8. CondocFits(turn.spec, sl, branches[me], github[me])
  BY <1>2, <1>3, <1>4, SameFits
<1>9. /\ path' \in Held \cup {Nobody, Other} /\ UsedTyped'
      /\ Reached(s) \/ turn' = [turn EXCEPT !.at = "failed"]
  <2>1. path' \in Held \cup {Nobody, Other} /\ (Reached(s) \/ turn' = [turn EXCEPT !.at = "failed"])
    BY DEF TurnCollects, Failed, InteractionsInv, InteractionsTyped, WorldTyped
  <2>. QED
    BY <2>1, UsedStays DEF TurnCollects
<1>10. WorldTyped' /\ OnlyCondoc(me) /\ spec' \in [Held -> PointerSpec]
  BY <1>1, <1>6, <1>9 DEF InteractionsInv, InteractionsTyped, WorldTyped, OnlyCondoc
<1>11. CASE Reached(s)
  <2>3. /\ s \in PointerSpec /\ s.stage = "returned" /\ s.bases = turn.spec.bases /\ s.phase = turn.spec.phase
        /\ s.from = turn.spec.from /\ s.done = turn.spec.done /\ s.prs = turn.spec.prs
    BY <1>2 DEF PointerSpec, Stage
  <2>. HIDE DEF s
  <2>5. SectionsFit(s, sl)
    <3>1. /\ sl.exists \/ PhaseOf(s) \in {"absent", "Proposed", "Merged"}
          /\ PhaseOf(s) \in {"absent", "Proposed"} => ~sl.exists
      BY <1>8, <2>3 DEF CondocFits, SectionsFit, PhaseOf
    <3>2. Told(s.stage) = 1 /\ Told(turn.spec.stage) = 1
      BY <1>1, <2>3 DEF Told
    <3>3. sl.file \in Seq(Headings) /\ Len(sl.file) \in Nat /\ s.done \in Nat
      BY <1>4, <2>3, LenProperties, PointerNumbers DEF Slops
    <3>. QED
      BY <1>1, <1>8, <2>3, <3>1, <3>2, <3>3 DEF CondocFits, SectionsFit
  <2>6. \A t \in Repos : CommitsFit(s, branches[me][t], t)
    BY <1>1, <1>2, <2>3 DEF CondocFits, CommitsFit, Submitted, Stage
  <2>7. CondocFits(s, sl, branches[me], github[me])
    <3>1. turn.spec.stage # "none" /\ s.stage # "none"
      BY <1>1, <2>3
    <3>. QED
      BY <1>2, <1>4, <1>8, <2>3, <2>5, <2>6, <3>1, LockedFits
  <2>8. ~IsFinal(s.phase)
    BY <1>2, <2>3
  <2>. QED
    BY <1>1, <1>2, <1>6, <1>7, <1>8, <1>9, <1>10, <1>11, <2>3, <2>7, <2>8, TurnReaches
<1>12. CASE turn' = [turn EXCEPT !.at = "failed"]
  <2>1. turn.at # "idle"
    BY <1>1
  <2>. QED
    BY <1>1, <1>2, <1>6, <1>7, <1>8, <1>9, <1>10, <1>12, <2>1, TurnStops
<1>. QED
  BY <1>9, <1>11, <1>12

\* A section is appended by the stage that owes it: told is what the pointer
\* as it is saved tells of the file, and the new pointer a section more.
LEMMA SectionFits ==
    ASSUME NEW s \in PointerSpec, NEW s2 \in PointerSpec, NEW sl \in Slops, NEW sl2 \in Slops,
           NEW br \in [Repos -> Branches], NEW gh \in [PRRepos -> PRStates], NEW h \in Headings,
           CondocFits(s, sl, br, gh), WorldFits(sl, br), s.stage \in {"locked", "returned", "mapped"},
           s2.phase = s.phase, s2.from = s.from, s2.done = s.done, s2.prs = s.prs,
           s2.stage \in Stage, Told(s2.stage) = Told(s.stage) + 1,
           h.kind = SectionKinds[Told(s.stage) + 1], h.n = s.done + 1,
           h.kind = "Record" => \A t \in Repos : RecordFits(h, br[t], t),
           sl2.file = appendSection(sl.file, h), sl2.exists = sl.exists,
           sl2.pushed \in {sl.pushed, Len(sl2.file)},
           \A t \in Repos : CommitsFit(s2, br[t], t)
    PROVE  /\ WorldFits(sl2, br) /\ CondocFits(s, sl2, br, gh)
           /\ sl2.pushed = Len(sl2.file) => CondocFits(s2, sl2, br, gh)
<1>. DEFINE d == s.done
            k == Told(s.stage)
            told == 3 * d + k
<1>1. /\ s.stage # "none" /\ s2.stage # "none" /\ k \in 0 .. 2 /\ Told(s2.stage) = k + 1
  BY DEF Told, Stage
<1>2. sl.exists /\ d \in Nat
  BY <1>1, StageAt
<1>3. /\ sl.file \in Seq(Headings) /\ FileInOrder(sl.file) /\ Len(sl.file) \in Nat /\ sl.pushed \in Nat
      /\ sl.pushed <= Len(sl.file)
  BY LenProperties DEF Slops, WorldFits
<1>4. told <= Len(sl.file) /\ Len(sl.file) <= told + 1 /\ sl.pushed >= told
  BY <1>2, <1>3 DEF CondocFits, SectionsFit
<1>5. told \in Nat
  BY <1>1, <1>2
<1>6. Len(sl.file) \in {3 * d + k, 3 * d + k + 1}
  BY <1>3, <1>4, <1>5
<1>7. /\ sl2.file \in Seq(Headings) /\ FileInOrder(sl2.file)
      /\ Len(sl2.file) = 3 * d + k + 1
      /\ sl2.file \in {sl.file, Append(sl.file, h)}
  <2>. HIDE DEF k, d, told
  <2>1. h.kind = SectionKinds[k + 1] /\ h.n = d + 1
    BY DEF k, d
  <2>2. /\ appendSection(sl.file, h) \in Seq(Headings)
        /\ FileInOrder(appendSection(sl.file, h))
        /\ Len(appendSection(sl.file, h)) = 3 * d + k + 1
        /\ \/ appendSection(sl.file, h) = sl.file
           \/ appendSection(sl.file, h) = Append(sl.file, h)
    BY <2>1, <1>1, <1>2, <1>3, <1>6, SectionAppended
  <2>. QED
    BY <2>2
<1>8. Len(sl2.file) = told + 1 /\ sl2.pushed <= Len(sl2.file) /\ sl2.pushed >= told
  BY <1>3, <1>4, <1>5, <1>7
<1>9. WorldFits(sl2, br)
  BY <1>2, <1>7, <1>8, WorldGrows
<1>10. PhaseOf(s) = "Locked"
  BY <1>1, StageAt
<1>11. SectionsFit(s, sl2)
  <2>1. told <= Len(sl2.file) /\ Len(sl2.file) <= told + 1
    BY <1>5, <1>8
  <2>. QED
    BY <1>2, <1>8, <1>10, <2>1 DEF SectionsFit
<1>12. \A t \in Repos : CommitsFit(s, br[t], t)
  BY DEF CondocFits
<1>13. CondocFits(s, sl2, br, gh)
  BY <1>1, <1>11, <1>12, LockedFits
<1>14. ASSUME sl2.pushed = Len(sl2.file) PROVE CondocFits(s2, sl2, br, gh)
  <2>1. 3 * s2.done + Told(s2.stage) = told + 1
    BY <1>1, <1>2
  <2>2. SectionsFit(s2, sl2)
    <3>1. PhaseOf(s2) = "Locked"
      BY <1>10 DEF PhaseOf
    <3>2. Len(sl2.file) = told + 1 /\ told + 1 \in Nat
      BY <1>5, <1>8
    <3>3. s2.stage \in {"locked", "returned", "mapped"} => told + 1 <= told + 2
      BY <1>5
    <3>. HIDE DEF told
    <3>. QED
      BY <1>2, <1>14, <2>1, <3>1, <3>2 DEF SectionsFit
  <2>. QED
    BY <1>1, <1>12, <2>2, LockedFits
<1>. QED
  BY <1>9, <1>13, <1>14

\* Every heading of a step file is one.
LEMMA HeadingTyped ==
    ASSUME NEW n \in Nat
    PROVE  PromptOf(n) \in Headings /\ ResponseOf(n) \in Headings
BY DEF PromptOf, ResponseOf, Heading, Headings, Zero

\* The reply is appended to the step file.
LEMMA TurnRespondsKept ==
    ASSUME InteractionsInv, TurnResponds PROVE InteractionsInv'
<1>. DEFINE h == ResponseOf(turn.spec.done + 1)
            file == appendSection(slop[me].file, h)
            s == [turn.spec EXCEPT !.stage = "responded"]
            sl == [slop[me] EXCEPT !.file = file, !.pushed = Len(file), !.reply = FALSE]
            slF == [slop[me] EXCEPT !.file = file]
<1>1. /\ turn.at = "stage" /\ turn.spec.stage = "returned"
      /\ UNCHANGED <<spec, claimed, queue, tick>> /\ UNCHANGED <<branches, github, path, signals>>
  BY DEF TurnResponds, At, TurnKeeps
<1>2. /\ me \in Held /\ turn.spec \in PointerSpec /\ turn.spec = spec[me] /\ ~IsFinal(turn.spec.phase)
      /\ CondocFits(turn.spec, slop[me], branches[me], github[me])
  BY <1>1, TurnAt
<1>3. /\ slop[me] \in Slops /\ branches[me] \in [Repos -> Branches] /\ WorldFits(slop[me], branches[me])
      /\ github[me] \in [PRRepos -> PRStates]
  BY <1>2, CondocAt
<1>4. /\ s \in PointerSpec /\ s.stage = "responded" /\ s.bases = turn.spec.bases /\ s.phase = turn.spec.phase
      /\ s.from = turn.spec.from /\ s.done = turn.spec.done /\ s.prs = turn.spec.prs
  BY <1>2 DEF PointerSpec, Stage
<1>5. /\ turn.spec.stage # "none" /\ Told(turn.spec.stage) = 1 /\ Told(s.stage) = Told(turn.spec.stage) + 1
      /\ s.stage \in Stage /\ turn.spec.stage \in {"locked", "returned", "mapped"}
  BY <1>1, <1>4 DEF Told, Stage
<1>6. slop[me].exists /\ turn.spec.done \in Nat
  BY <1>2, <1>5, StageAt
<1>7. h \in Headings /\ h.kind = SectionKinds[Told(turn.spec.stage) + 1] /\ h.n = turn.spec.done + 1 /\ h.kind # "Record"
  BY <1>5, <1>6, HeadingTyped DEF ResponseOf, Heading, SectionKinds
<1>8. \A t \in Repos : CommitsFit(s, branches[me][t], t)
  BY <1>1, <1>2, <1>4 DEF CondocFits, CommitsFit, Submitted, Stage
<1>9. file \in Seq(Headings) /\ Len(file) \in Nat
  <2>1. slop[me].file \in Seq(Headings)
    BY <1>3 DEF Slops
  <2>2. file \in Seq(Headings)
    BY <2>1, <1>7, AppendProperties DEF appendSection
  <2>. QED
    BY <2>2, LenProperties
<1>. HIDE DEF h, s
<1>10. /\ sl \in Slops /\ sl.file = file /\ sl.pushed = Len(file) /\ sl.exists = slop[me].exists
       /\ slF \in Slops /\ slF.file = file /\ slF.pushed = slop[me].pushed /\ slF.exists = slop[me].exists
  <2>. HIDE DEF file
  <2>. QED
    BY <1>3, <1>9 DEF Slops
<1>. HIDE DEF sl, slF
<1>11. /\ WorldFits(sl, branches[me]) /\ CondocFits(turn.spec, sl, branches[me], github[me])
       /\ CondocFits(s, sl, branches[me], github[me])
  <2>1. sl.file = appendSection(slop[me].file, h) /\ sl.pushed \in {slop[me].pushed, Len(sl.file)}
    BY <1>10
  <2>2. h.kind = "Record" => \A t \in Repos : RecordFits(h, branches[me][t], t)
    BY <1>7
  <2>. HIDE DEF file
  <2>3. WorldFits(sl, branches[me]) /\ CondocFits(turn.spec, sl, branches[me], github[me])
    BY <1>2, <1>3, <1>4, <1>5, <1>7, <1>8, <1>10, <2>1, <2>2, SectionFits, SMTT(40)
  <2>4. sl.pushed = Len(sl.file)
    BY <1>10
  <2>5. CondocFits(s, sl, branches[me], github[me])
    BY <1>2, <1>3, <1>4, <1>5, <1>7, <1>8, <1>10, <2>1, <2>2, <2>4, SectionFits
  <2>. QED
    BY <2>3, <2>5
<1>12. WorldFits(slF, branches[me]) /\ CondocFits(turn.spec, slF, branches[me], github[me])
  <2>1. slF.file = appendSection(slop[me].file, h) /\ slF.pushed \in {slop[me].pushed, Len(slF.file)}
    BY <1>10
  <2>2. h.kind = "Record" => \A t \in Repos : RecordFits(h, branches[me][t], t)
    BY <1>7
  <2>. HIDE DEF file
  <2>3. WorldFits(slF, branches[me]) /\ CondocFits(turn.spec, slF, branches[me], github[me])
    BY <1>2, <1>3, <1>4, <1>5, <1>7, <1>8, <1>10, <2>1, <2>2, SectionFits, SMTT(40)
  <2>. QED
    BY <2>3
<1>13. UsedTyped' /\ spec' \in [Held -> PointerSpec] /\ turn.at # "idle" /\ ~IsFinal(s.phase)
  BY <1>1, <1>2, <1>4, UsedStays DEF TurnResponds, InteractionsInv, InteractionsTyped
<1>14. \/ slop' = [slop EXCEPT ![me] = sl] /\ Reached(s)
       \/ slop' = slop /\ turn' = [turn EXCEPT !.at = "failed"]
       \/ slop' = [slop EXCEPT ![me] = slF] /\ turn' = [turn EXCEPT !.at = "failed"]
  BY DEF TurnResponds, WritesFile, Failed, s, sl, slF, h
<1>15. slop' \in [Held -> Slops] /\ WorldTyped' /\ OnlyCondoc(me)
  <2>1. slop' \in [Held -> Slops] /\ \A d \in Held \ {me} : slop'[d] = slop[d]
    BY <1>2, <1>10, <1>14 DEF InteractionsInv, InteractionsTyped, WorldTyped
  <2>. QED
    BY <1>1, <2>1 DEF InteractionsInv, InteractionsTyped, WorldTyped, OnlyCondoc
<1>16. slop \in [Held -> Slops]
  BY DEF InteractionsInv, InteractionsTyped, WorldTyped
<1>17. CASE slop' = [slop EXCEPT ![me] = sl] /\ Reached(s)
  <2>1. slop'[me] = sl
    BY <1>2, <1>16, <1>17
  <2>. QED
    BY <1>1, <1>2, <1>4, <1>11, <1>13, <1>15, <1>17, <2>1, TurnReaches
<1>18. CASE slop' = slop /\ turn' = [turn EXCEPT !.at = "failed"]
  BY <1>1, <1>2, <1>3, <1>13, <1>15, <1>18, TurnStops
<1>19. CASE slop' = [slop EXCEPT ![me] = slF] /\ turn' = [turn EXCEPT !.at = "failed"]
  <2>1. slop'[me] = slF
    BY <1>2, <1>16, <1>19
  <2>. QED
    BY <1>1, <1>2, <1>12, <1>13, <1>15, <1>19, <2>1, TurnStops
<1>. QED
  BY <1>14, <1>17, <1>18, <1>19

\* The ranges of the commits are appended to the step file.
LEMMA TurnRecordsKept ==
    ASSUME InteractionsInv, TurnRecords PROVE InteractionsInv'
<1>. DEFINE h == Heading("Record", turn.spec.done + 1, turn.spec.bases, turn.spec.heads)
            file == appendSection(slop[me].file, h)
            s == [turn.spec EXCEPT !.stage = "recorded"]
            sl == [slop[me] EXCEPT !.file = file, !.pushed = Len(file), !.reply = FALSE]
            slF == [slop[me] EXCEPT !.file = file]
<1>1. /\ turn.at = "stage" /\ turn.spec.stage = "mapped"
      /\ UNCHANGED <<spec, claimed, queue, tick>> /\ UNCHANGED <<branches, github, path, signals>>
  BY DEF TurnRecords, At, TurnKeeps
<1>2. /\ me \in Held /\ turn.spec \in PointerSpec /\ turn.spec = spec[me] /\ ~IsFinal(turn.spec.phase)
      /\ CondocFits(turn.spec, slop[me], branches[me], github[me])
  BY <1>1, TurnAt
<1>3. /\ slop[me] \in Slops /\ branches[me] \in [Repos -> Branches] /\ WorldFits(slop[me], branches[me])
      /\ github[me] \in [PRRepos -> PRStates]
  BY <1>2, CondocAt
<1>4. /\ s \in PointerSpec /\ s.stage = "recorded" /\ s.bases = turn.spec.bases /\ s.heads = turn.spec.heads
      /\ s.phase = turn.spec.phase
      /\ s.from = turn.spec.from /\ s.done = turn.spec.done /\ s.prs = turn.spec.prs
  BY <1>2 DEF PointerSpec, Stage
<1>5. /\ turn.spec.stage # "none" /\ Told(turn.spec.stage) = 2 /\ Told(s.stage) = Told(turn.spec.stage) + 1
      /\ s.stage \in Stage /\ turn.spec.stage \in {"locked", "returned", "mapped"}
  BY <1>1, <1>4 DEF Told, Stage
<1>6. slop[me].exists /\ turn.spec.done \in Nat
  BY <1>2, <1>5, StageAt
<1>20. turn.spec.bases \in Positions /\ turn.spec.heads \in Positions
  <2>1. PICK t \in Repos : TRUE
    BY V2Numbers DEF Repos
  <2>2. CommitsFit(turn.spec, branches[me][t], t)
    BY <1>2, <2>1 DEF CondocFits
  <2>. QED
    BY <1>1, <2>2 DEF CommitsFit, Submitted, Stage
<1>7. h \in Headings /\ h.kind = SectionKinds[Told(turn.spec.stage) + 1] /\ h.n = turn.spec.done + 1
      /\ h.from = turn.spec.bases /\ h.to = turn.spec.heads
  <2>1. turn.spec.bases \in [Repos -> Int] /\ turn.spec.heads \in [Repos -> Int]
    BY <1>20 DEF Positions
  <2>. QED
    BY <1>5, <1>6, <2>1 DEF Heading, Headings, SectionKinds
<1>21. \A t \in Repos : RecordFits(h, branches[me][t], t)
  <2>1. SUFFICES ASSUME NEW t \in Repos PROVE RecordFits(h, branches[me][t], t)
    OBVIOUS
  <2>. DEFINE b == branches[me][t]
  <2>2. CommitsFit(turn.spec, b, t)
    BY <1>2 DEF CondocFits
  <2>. HIDE DEF b, h
  <2>3. turn.spec.heads[t] <= b.known
    BY <1>1, <2>2 DEF CommitsFit
  <2>4. ASSUME NEW p \in 1 .. Len(b.origin), b.origin[p] # 0
        PROVE  b.origin[p] = turn.spec.done + 1 <=> (turn.spec.bases[t] < p /\ p <= turn.spec.heads[t])
    BY <1>1, <2>2, <2>4 DEF CommitsFit, Submitted, Stage
  <2>5. RecordFits(h, b, t)
    BY <1>7, <2>3, <2>4 DEF RecordFits
  <2>. QED
    BY <2>5 DEF b
<1>8. \A t \in Repos : CommitsFit(s, branches[me][t], t)
  BY <1>1, <1>2, <1>4 DEF CondocFits, CommitsFit, Submitted, Stage
<1>9. file \in Seq(Headings) /\ Len(file) \in Nat
  <2>1. slop[me].file \in Seq(Headings)
    BY <1>3 DEF Slops
  <2>2. file \in Seq(Headings)
    BY <2>1, <1>7, AppendProperties DEF appendSection
  <2>. QED
    BY <2>2, LenProperties
<1>. HIDE DEF h, s
<1>10. /\ sl \in Slops /\ sl.file = file /\ sl.pushed = Len(file) /\ sl.exists = slop[me].exists
       /\ slF \in Slops /\ slF.file = file /\ slF.pushed = slop[me].pushed /\ slF.exists = slop[me].exists
  <2>. HIDE DEF file
  <2>. QED
    BY <1>3, <1>9 DEF Slops
<1>. HIDE DEF sl, slF
<1>11. /\ WorldFits(sl, branches[me]) /\ CondocFits(turn.spec, sl, branches[me], github[me])
       /\ CondocFits(s, sl, branches[me], github[me])
  <2>1. sl.file = appendSection(slop[me].file, h) /\ sl.pushed \in {slop[me].pushed, Len(sl.file)}
    BY <1>10
  <2>2. h.kind = "Record" => \A t \in Repos : RecordFits(h, branches[me][t], t)
    BY <1>21
  <2>. HIDE DEF file
  <2>3. WorldFits(sl, branches[me]) /\ CondocFits(turn.spec, sl, branches[me], github[me])
    BY <1>2, <1>3, <1>4, <1>5, <1>7, <1>8, <1>10, <2>1, <2>2, SectionFits, SMTT(40)
  <2>4. sl.pushed = Len(sl.file)
    BY <1>10
  <2>5. CondocFits(s, sl, branches[me], github[me])
    BY <1>2, <1>3, <1>4, <1>5, <1>7, <1>8, <1>10, <2>1, <2>2, <2>4, SectionFits
  <2>. QED
    BY <2>3, <2>5
<1>12. WorldFits(slF, branches[me]) /\ CondocFits(turn.spec, slF, branches[me], github[me])
  <2>1. slF.file = appendSection(slop[me].file, h) /\ slF.pushed \in {slop[me].pushed, Len(slF.file)}
    BY <1>10
  <2>2. h.kind = "Record" => \A t \in Repos : RecordFits(h, branches[me][t], t)
    BY <1>21
  <2>. HIDE DEF file
  <2>3. WorldFits(slF, branches[me]) /\ CondocFits(turn.spec, slF, branches[me], github[me])
    BY <1>2, <1>3, <1>4, <1>5, <1>7, <1>8, <1>10, <2>1, <2>2, SectionFits, SMTT(40)
  <2>. QED
    BY <2>3
<1>13. UsedTyped' /\ spec' \in [Held -> PointerSpec] /\ turn.at # "idle" /\ ~IsFinal(s.phase)
  BY <1>1, <1>2, <1>4, UsedStays DEF TurnRecords, InteractionsInv, InteractionsTyped
<1>14. \/ slop' = [slop EXCEPT ![me] = sl] /\ Reached(s)
       \/ slop' = [slop EXCEPT ![me] = slF] /\ turn' = [turn EXCEPT !.at = "failed"]
  BY DEF TurnRecords, WritesFile, Failed, s, sl, slF, h
<1>15. slop' \in [Held -> Slops] /\ WorldTyped' /\ OnlyCondoc(me)
  <2>1. slop' \in [Held -> Slops] /\ \A d \in Held \ {me} : slop'[d] = slop[d]
    BY <1>2, <1>10, <1>14 DEF InteractionsInv, InteractionsTyped, WorldTyped
  <2>. QED
    BY <1>1, <2>1 DEF InteractionsInv, InteractionsTyped, WorldTyped, OnlyCondoc
<1>16. slop \in [Held -> Slops]
  BY DEF InteractionsInv, InteractionsTyped, WorldTyped
<1>17. CASE slop' = [slop EXCEPT ![me] = sl] /\ Reached(s)
  <2>1. slop'[me] = sl
    BY <1>2, <1>16, <1>17
  <2>. QED
    BY <1>1, <1>2, <1>4, <1>11, <1>13, <1>15, <1>17, <2>1, TurnReaches
<1>19. CASE slop' = [slop EXCEPT ![me] = slF] /\ turn' = [turn EXCEPT !.at = "failed"]
  <2>1. slop'[me] = slF
    BY <1>2, <1>16, <1>19
  <2>. QED
    BY <1>1, <1>2, <1>12, <1>13, <1>15, <1>19, <2>1, TurnStops
<1>. QED
  BY <1>14, <1>17, <1>19

\* What WriteRepoChanges leaves of every target's branch, and gitCommit of the
\* one that could not be pushed, fits the stage and the records.
LEMMA CommitsAt ==
    ASSUME InteractionsInv, At("responded"), NEW t \in Repos
    PROVE  LET b == branches[me][t]
               n == turn.spec.done + 1
               w == WriteRepoChanges(b, n, slop[me].edits[t])
               m == gitCommit(b, n, slop[me].edits[t])
               head == WrittenHead(b, n, slop[me].edits[t])
           IN  /\ w \in Branches /\ m \in Branches /\ head = Len(w.origin) /\ head \in Nat
               /\ \A x \in {b, w, m} :
                     /\ BranchFits(x) /\ x.known >= 1 /\ CommitsFit(turn.spec, x, t)
                     /\ \A r \in Headings :
                           RecordFits(r, b, t) /\ r.n <= turn.spec.done => RecordFits(r, x, t)
               /\ \A s2 \in PointerSpec :
                     /\ s2.stage = "mapped" /\ s2.done = turn.spec.done /\ s2.bases = turn.spec.bases
                     /\ s2.heads \in Positions /\ s2.heads[t] = head
                     => CommitsFit(s2, w, t)
<1>. DEFINE b == branches[me][t]
            n == turn.spec.done + 1
            w == WriteRepoChanges(b, n, slop[me].edits[t])
            m == gitCommit(b, n, slop[me].edits[t])
            head == WrittenHead(b, n, slop[me].edits[t])
<1>1. turn.at = "stage" /\ turn.spec.stage = "responded"
  BY DEF At
<1>2. /\ me \in Held /\ turn.spec \in PointerSpec
      /\ CondocFits(turn.spec, slop[me], branches[me], github[me])
  BY <1>1, TurnAt
<1>3. slop[me] \in Slops /\ branches[me] \in [Repos -> Branches] /\ WorldFits(slop[me], branches[me])
  BY <1>2, CondocAt
<1>4. slop[me].exists /\ n \in 1 .. MaxInteractions /\ turn.spec.done \in Nat /\ slop[me].edits[t] \in BOOLEAN
  <2>1. turn.spec.stage # "none"
    BY <1>1
  <2>2. slop[me].edits[t] \in BOOLEAN
    BY <1>3 DEF Slops
  <2>. QED
    BY <1>2, <2>1, <2>2, StageAt
<1>5. b \in Branches /\ BranchFits(b) /\ b.known >= 1 /\ CommitsFit(turn.spec, b, t)
  BY <1>2, <1>3, <1>4 DEF WorldFits, CondocFits
<1>6. \A k \in 1 .. Len(b.ahead) : b.ahead[k] = n
  BY <1>5 DEF CommitsFit
<1>. HIDE DEF b
<1>7. /\ m \in Branches /\ m.known = b.known /\ m.origin = b.origin
      /\ \A k \in 1 .. Len(m.ahead) : m.ahead[k] = n
  <2>. HIDE DEF n
  <2>. QED
    BY <1>4, <1>5, <1>6, BranchCommitted
<1>8. /\ w \in Branches /\ w.known = Len(w.origin) /\ Len(w.origin) >= Len(b.origin)
      /\ w.ahead = << >> /\ head = Len(w.origin)
      /\ \A p \in 1 .. Len(w.origin) :
            \/ p \in 1 .. Len(b.origin) /\ w.origin[p] = b.origin[p]
            \/ p > Len(b.origin) /\ w.origin[p] = n
  <2>. HIDE DEF n
  <2>. QED
    BY <1>4, <1>5, <1>6, BranchWritten
<1>. HIDE DEF w, m, head
<1>9. head \in Nat
  BY <1>8, BranchNumbers
<1>10. /\ BranchFits(w) /\ w.known >= 1 /\ CommitsFit(turn.spec, w, t)
       /\ \A r \in Headings : RecordFits(r, b, t) /\ r.n <= turn.spec.done => RecordFits(r, w, t)
       /\ \A s2 \in PointerSpec :
             /\ s2.stage = "mapped" /\ s2.done = turn.spec.done /\ s2.bases = turn.spec.bases
             /\ s2.heads \in Positions /\ s2.heads[t] = Len(w.origin)
             => CommitsFit(s2, w, t)
  BY <1>1, <1>2, <1>5, <1>8, WrittenFits
<1>11. BranchFits(m) /\ m.known >= 1 /\ \A r : RecordFits(r, b, t) => RecordFits(r, m, t)
  BY <1>5, <1>7 DEF BranchFits, RecordFits
<1>12. CommitsFit(turn.spec, m, t)
  BY <1>1, <1>2, <1>5, <1>7, CommittedFits
<1>13. /\ w \in Branches /\ m \in Branches /\ head = Len(w.origin) /\ head \in Nat
       /\ \A x \in {b, w, m} :
             /\ BranchFits(x) /\ x.known >= 1 /\ CommitsFit(turn.spec, x, t)
             /\ \A r \in Headings :
                   RecordFits(r, b, t) /\ r.n <= turn.spec.done => RecordFits(r, x, t)
       /\ \A s2 \in PointerSpec :
             /\ s2.stage = "mapped" /\ s2.done = turn.spec.done /\ s2.bases = turn.spec.bases
             /\ s2.heads \in Positions /\ s2.heads[t] = head
             => CommitsFit(s2, w, t)
  BY <1>5, <1>7, <1>8, <1>9, <1>10, <1>11, <1>12
<1>. QED
  BY <1>13 DEF b, w, m, head

\* The work is committed and pushed, rebased onto what others pushed, target
\* by target.
LEMMA TurnCommitsKept ==
    ASSUME InteractionsInv, TurnCommits PROVE InteractionsInv'
<1>. DEFINE n == turn.spec.done + 1
            Write(t) == WriteRepoChanges(branches[me][t], n, slop[me].edits[t])
            Commit(t) == gitCommit(branches[me][t], n, slop[me].edits[t])
            heads == [t \in Repos |-> WrittenHead(branches[me][t], n, slop[me].edits[t])]
            s == [turn.spec EXCEPT !.stage = "mapped", !.heads = heads]
<1>1. /\ turn.at = "stage" /\ turn.spec.stage = "responded" /\ At("responded")
      /\ UNCHANGED <<spec, claimed, queue, tick>> /\ UNCHANGED <<github, path, signals>>
  BY DEF TurnCommits, At, TurnKeeps
<1>2. /\ me \in Held /\ turn.spec \in PointerSpec /\ turn.spec = spec[me] /\ ~IsFinal(turn.spec.phase)
      /\ CondocFits(turn.spec, slop[me], branches[me], github[me]) /\ turn.at # "idle"
  BY <1>1, TurnAt
<1>3. /\ slop[me] \in Slops /\ branches[me] \in [Repos -> Branches] /\ WorldFits(slop[me], branches[me])
      /\ github[me] \in [PRRepos -> PRStates]
  BY <1>2, CondocAt
<1>4. turn.spec.stage # "none" /\ slop[me].exists /\ turn.spec.done \in Nat
  BY <1>1, <1>2, StageAt
<1>5. ASSUME NEW t \in Repos
      PROVE  /\ Write(t) \in Branches /\ Commit(t) \in Branches /\ heads[t] \in Nat
             /\ \A x \in {branches[me][t], Write(t), Commit(t)} :
                   /\ BranchFits(x) /\ x.known >= 1 /\ CommitsFit(turn.spec, x, t)
                   /\ \A r \in Headings :
                         RecordFits(r, branches[me][t], t) /\ r.n <= turn.spec.done => RecordFits(r, x, t)
             /\ \A s2 \in PointerSpec :
                   /\ s2.stage = "mapped" /\ s2.done = turn.spec.done /\ s2.bases = turn.spec.bases
                   /\ s2.heads \in Positions /\ s2.heads[t] = heads[t]
                   => CommitsFit(s2, Write(t), t)
  <2>1. heads[t] = WrittenHead(branches[me][t], n, slop[me].edits[t])
    OBVIOUS
  <2>. HIDE DEF heads
  <2>. QED
    BY <1>1, <2>1, CommitsAt
<1>6. heads \in Positions
  BY <1>5 DEF Positions
<1>7. /\ s \in PointerSpec /\ s.stage = "mapped" /\ s.bases = turn.spec.bases /\ s.heads = heads
      /\ s.phase = turn.spec.phase
      /\ s.from = turn.spec.from /\ s.done = turn.spec.done /\ s.prs = turn.spec.prs
  <2>. HIDE DEF heads
  <2>. QED
    BY <1>2, <1>6 DEF PointerSpec, Stage
<1>. HIDE DEF heads, n, Write, Commit
<1>8. ASSUME NEW i \in 1 .. Len(slop[me].file), slop[me].file[i].kind = "Record"
      PROVE  slop[me].file[i] \in Headings /\ slop[me].file[i].n <= turn.spec.done
  <2>1. slop[me].file \in Seq(Headings) /\ Len(slop[me].file) \in Nat
    BY <1>3, LenProperties DEF Slops
  <2>2. slop[me].file[i] \in Headings
    BY <2>1, ElementOfSeq
  <2>3. slop[me].file[i].n \in Nat /\ i = 3 * slop[me].file[i].n
    BY <1>3, <1>8, <2>1, RecordNumbers DEF WorldFits
  <2>4. Len(slop[me].file) <= 3 * turn.spec.done + 2
    <3>1. Told(turn.spec.stage) = 2
      BY <1>1 DEF Told
    <3>2. SectionsFit(turn.spec, slop[me])
      BY <1>2 DEF CondocFits
    <3>. QED
      BY <1>1, <1>4, <2>1, <3>1, <3>2 DEF SectionsFit
  <2>. QED
    BY <1>4, <2>1, <2>2, <2>3, <2>4
<1>. DEFINE Edited(sl) == sl \in Slops /\ sl.exists = slop[me].exists /\ sl.file = slop[me].file /\ sl.pushed = slop[me].pushed
            Written(br) == br \in [Repos -> Branches]
                           /\ \A t \in Repos : br[t] \in {branches[me][t], Write(t), Commit(t)}
<1>9. ASSUME NEW sl, NEW br, Edited(sl), Written(br)
      PROVE  /\ WorldFits(sl, br) /\ CondocFits(turn.spec, sl, br, github[me])
             /\ SectionsFit(turn.spec, sl)
  <2>1. ASSUME NEW t \in Repos
        PROVE  /\ BranchFits(br[t]) /\ br[t].known >= 1 /\ CommitsFit(turn.spec, br[t], t)
               /\ \A r \in Headings :
                     RecordFits(r, branches[me][t], t) /\ r.n <= turn.spec.done => RecordFits(r, br[t], t)
    <3>1. br[t] \in {branches[me][t], Write(t), Commit(t)}
      BY <1>9
    <3>. QED
      BY <1>5, <3>1
  <2>2. WorldFits(slop[me], br)
    <3>1. ASSUME NEW i \in 1 .. Len(slop[me].file), NEW t \in Repos, slop[me].file[i].kind = "Record"
          PROVE  RecordFits(slop[me].file[i], br[t], t)
      <4>1. slop[me].file[i] \in Headings /\ slop[me].file[i].n <= turn.spec.done
        BY <1>8, <3>1
      <4>2. RecordFits(slop[me].file[i], branches[me][t], t)
        BY <1>3, <3>1 DEF WorldFits
      <4>. QED
        BY <2>1, <4>1, <4>2
    <3>. QED
      BY <1>3, <2>1, <3>1 DEF WorldFits
  <2>3. WorldFits(sl, br)
    BY <1>3, <1>9, <2>2, SameWorld
  <2>4. SectionsFit(turn.spec, sl)
    BY <1>2, <1>9 DEF CondocFits, SectionsFit
  <2>5. CondocFits(turn.spec, sl, br, github[me])
    <3>1. sl \in Slops /\ sl.exists = slop[me].exists
      BY <1>9
    <3>. QED
      BY <1>2, <1>3, <1>4, <2>1, <2>4, <3>1, LockedFits
  <2>. QED
    BY <2>3, <2>4, <2>5
<1>10. \/ /\ branches' = [branches EXCEPT ![me] = [t \in Repos |-> Write(t)]]
          /\ slop' = [slop EXCEPT ![me].edits = [t \in Repos |-> FALSE]]
          /\ Reached(s) /\ UNCHANGED used
       \/ \E t \in Repos :
          /\ branches' = [branches EXCEPT ![me] = [u \in Repos |->
                 IF u < t THEN Write(u) ELSE IF u = t THEN Commit(t) ELSE branches[me][u]]]
          /\ slop' = [slop EXCEPT ![me].edits = [u \in Repos |-> u > t /\ @[u]]]
          /\ Mishap /\ turn' = [turn EXCEPT !.at = "failed"]
  BY DEF TurnCommits, Failed, n, Write, Commit, heads
<1>11. slop \in [Held -> Slops] /\ branches \in [Held -> [Repos -> Branches]] /\ UsedTyped' /\ spec' \in [Held -> PointerSpec]
  <2>1. Mishap \/ UNCHANGED used
    BY <1>10
  <2>. QED
    BY <1>1, <2>1, UsedStays DEF InteractionsInv, InteractionsTyped, WorldTyped
<1>12. ASSUME NEW sl, NEW br, Edited(sl), Written(br), slop' = [slop EXCEPT ![me] = sl],
              branches' = [branches EXCEPT ![me] = br]
       PROVE  WorldTyped' /\ OnlyCondoc(me) /\ slop'[me] = sl /\ branches'[me] = br
  <2>1. /\ slop' \in [Held -> Slops] /\ branches' \in [Held -> [Repos -> Branches]]
        /\ slop'[me] = sl /\ branches'[me] = br
        /\ \A d \in Held \ {me} : slop'[d] = slop[d] /\ branches'[d] = branches[d]
    BY <1>2, <1>11, <1>12
  <2>. QED
    BY <1>1, <2>1 DEF InteractionsInv, InteractionsTyped, WorldTyped, OnlyCondoc
<1>13. ASSUME NEW e \in [Repos -> BOOLEAN] PROVE Edited([slop[me] EXCEPT !.edits = e])
  BY <1>3, <1>13 DEF Slops
<1>14. CASE /\ branches' = [branches EXCEPT ![me] = [t \in Repos |-> Write(t)]]
            /\ slop' = [slop EXCEPT ![me].edits = [t \in Repos |-> FALSE]]
            /\ Reached(s) /\ UNCHANGED used
  <2>. DEFINE br == [t \in Repos |-> Write(t)]
              e == [t \in Repos |-> FALSE]
              sl == [slop[me] EXCEPT !.edits = e]
  <2>1. Edited(sl)
    <3>1. e \in [Repos -> BOOLEAN]
      OBVIOUS
    <3>. HIDE DEF e
    <3>. QED
      BY <1>13, <3>1
  <2>2. Written(br)
    BY <1>5
  <2>3. slop' = [slop EXCEPT ![me] = sl] /\ branches' = [branches EXCEPT ![me] = br]
    BY <1>14
  <2>4. \A t \in Repos : br[t] = Write(t)
    OBVIOUS
  <2>. HIDE DEF br, sl, Edited, Written
  <2>5. /\ WorldTyped' /\ OnlyCondoc(me) /\ slop'[me] = sl /\ branches'[me] = br
        /\ WorldFits(sl, br) /\ CondocFits(turn.spec, sl, br, github[me]) /\ SectionsFit(turn.spec, sl)
    BY <1>9, <1>12, <2>1, <2>2, <2>3
  <2>. HIDE DEF s
  <2>6. SectionsFit(s, sl)
    <3>1. Told(turn.spec.stage) = Told(s.stage) /\ PhaseOf(s) = PhaseOf(turn.spec)
      BY <1>1, <1>7 DEF Told, PhaseOf
    <3>2. sl \in Slops
      BY <2>1 DEF Edited
    <3>3. sl.file \in Seq(Headings) /\ Len(sl.file) \in Nat
      BY <3>2, LenProperties DEF Slops
    <3>. QED
      BY <1>1, <1>4, <1>7, <2>5, <3>1, <3>3 DEF SectionsFit, Told
  <2>7. \A t \in Repos : CommitsFit(s, br[t], t)
    BY <1>5, <1>6, <1>7, <2>4
  <2>8. CondocFits(s, sl, br, github[me])
    <3>1. s.stage # "none" /\ sl \in Slops
      BY <1>7, <2>1 DEF Edited
    <3>. QED
      BY <1>2, <1>4, <1>7, <2>5, <2>6, <2>7, <3>1, LockedFits
  <2>9. ~IsFinal(s.phase)
    BY <1>2, <1>7
  <2>. QED
    BY <1>1, <1>2, <1>7, <1>11, <1>14, <2>5, <2>8, <2>9, TurnReaches
<1>15. ASSUME NEW t \in Repos,
              branches' = [branches EXCEPT ![me] = [u \in Repos |->
                 IF u < t THEN Write(u) ELSE IF u = t THEN Commit(t) ELSE branches[me][u]]],
              slop' = [slop EXCEPT ![me].edits = [u \in Repos |-> u > t /\ @[u]]],
              turn' = [turn EXCEPT !.at = "failed"]
       PROVE  InteractionsInv'
  <2>. DEFINE br == [u \in Repos |-> IF u < t THEN Write(u) ELSE IF u = t THEN Commit(t) ELSE branches[me][u]]
              e == [u \in Repos |-> u > t /\ slop[me].edits[u]]
              sl == [slop[me] EXCEPT !.edits = e]
  <2>1. Edited(sl)
    <3>1. e \in [Repos -> BOOLEAN]
      OBVIOUS
    <3>. HIDE DEF e
    <3>. QED
      BY <1>13, <3>1
  <2>2. Written(br)
    BY <1>3, <1>5
  <2>3. slop' = [slop EXCEPT ![me] = sl] /\ branches' = [branches EXCEPT ![me] = br]
    BY <1>15
  <2>. HIDE DEF br, sl, Edited, Written
  <2>5. /\ WorldTyped' /\ OnlyCondoc(me) /\ slop'[me] = sl /\ branches'[me] = br
        /\ WorldFits(sl, br) /\ CondocFits(turn.spec, sl, br, github[me])
    BY <1>9, <1>12, <2>1, <2>2, <2>3
  <2>. QED
    BY <1>1, <1>2, <1>11, <1>15, <2>5, TurnStops
<1>. QED
  BY <1>10, <1>14, <1>15

\* The unlock: the interaction is done, and the next may begin.
LEMMA UnlockedFits ==
    ASSUME NEW s \in PointerSpec, NEW s2 \in PointerSpec, NEW sl \in Slops,
           NEW br \in [Repos -> Branches], NEW gh,
           CondocFits(s, sl, br, gh), s.stage = "recorded", ~IsFinal(s.phase),
           s2.phase = "AwaitingPrompt", s2.from = s.from, s2.stage = "none", s2.done = s.done + 1,
           s2.prs = s.prs
    PROVE  CondocFits(s2, sl, br, gh)
<1>1. PhaseOf(s) = "Locked" /\ sl.exists /\ s.done \in Nat /\ s.from = "absent"
  BY StageAt DEF CondocFits, PhaseFits
<1>2. PhaseOf(s2) = "AwaitingPrompt" /\ ~IsFinal(s2.phase)
  BY DEF PhaseOf, IsFinal
<1>3. PhaseFits(s2)
  BY <1>1, <1>2 DEF PhaseFits, IsFinal
<1>4. SectionsFit(s2, sl)
  <2>1. Told(s.stage) = 3 /\ Told(s2.stage) = 0
    BY DEF Told
  <2>2. sl.file \in Seq(Headings) /\ Len(sl.file) \in Nat /\ sl.pushed \in Nat
    BY LenProperties DEF Slops
  <2>3. SectionsFit(s, sl)
    BY DEF CondocFits
  <2>4. 3 * s2.done + 0 = 3 * s.done + 3
    BY <1>1
  <2>. QED
    BY <1>1, <1>2, <2>1, <2>2, <2>3, <2>4 DEF SectionsFit
<1>5. MergesFit(s2, br, gh)
  BY <1>1, <1>2 DEF CondocFits, MergesFit
<1>6. ASSUME NEW t \in Repos PROVE CommitsFit(s2, br[t], t)
  <2>1. CommitsFit(s, br[t], t) /\ br[t] \in Branches
    BY DEF CondocFits
  <2>. DEFINE b == br[t]
  <2>2. /\ Len(b.ahead) \in Nat /\ Len(b.origin) \in Nat
        /\ \A p \in 1 .. Len(b.origin) : b.origin[p] \in Nat
    BY <2>1, BranchNumbers, V2Numbers
  <2>. HIDE DEF b
  <2>3. ~(Len(b.ahead) > 0) /\ \A p \in 1 .. Len(b.origin) : b.origin[p] <= s.done + 1
    BY <2>1 DEF CommitsFit, b
  <2>4. \A p \in 1 .. Len(b.origin) : b.origin[p] <= s2.done + 1 /\ b.origin[p] # s2.done + 1
    BY <1>1, <2>2, <2>3
  <2>5. \A k \in 1 .. Len(b.ahead) : FALSE
    BY <2>2, <2>3
  <2>6. CommitsFit(s2, b, t)
    BY <2>3, <2>4, <2>5 DEF CommitsFit, Submitted
  <2>. QED
    BY <2>6 DEF b
<1>. QED
  BY <1>3, <1>4, <1>5, <1>6 DEF CondocFits

\* The turn is over: the interaction counts as done and the pointer is
\* unlocked.
LEMMA TurnUnlocksKept ==
    ASSUME InteractionsInv, TurnUnlocks PROVE InteractionsInv'
<1>. DEFINE done == turn.spec.done + 1
            s == [turn.spec EXCEPT !.stage = "none", !.phase = "AwaitingPrompt", !.done = done]
<1>1. /\ turn.at = "stage" /\ turn.spec.stage = "recorded" /\ spec' = [spec EXCEPT ![me] = s]
      /\ signals' = [signals EXCEPT ![me] = << >>]
      /\ UNCHANGED <<slop, branches, github, path, claimed, queue, tick>>
      /\ \/ turn' = [turn EXCEPT !.at = "ended"] \/ turn' = [turn EXCEPT !.at = "failed"]
  BY DEF TurnUnlocks, At, writeSpec, Failed
<1>2. /\ me \in Held /\ turn.spec \in PointerSpec /\ turn.spec = spec[me] /\ ~IsFinal(turn.spec.phase)
      /\ CondocFits(turn.spec, slop[me], branches[me], github[me]) /\ turn.at # "idle"
  BY <1>1, TurnAt
<1>3. /\ slop[me] \in Slops /\ branches[me] \in [Repos -> Branches] /\ WorldFits(slop[me], branches[me])
  BY <1>2, CondocAt
<1>4. done \in 0 .. MaxInteractions /\ turn.spec.stage # "none"
  BY <1>1, <1>2, StageAt, V2Numbers
<1>5. /\ s \in PointerSpec /\ s.stage = "none" /\ s.phase = "AwaitingPrompt" /\ s.done = turn.spec.done + 1
      /\ s.from = turn.spec.from /\ s.prs = turn.spec.prs
  <2>1. s \in PointerSpec /\ s.done = done
    <3>. HIDE DEF done
    <3>. QED
      BY <1>2, <1>4 DEF PointerSpec, Stage, Phase
  <2>. QED
    BY <1>2, <2>1 DEF PointerSpec
<1>. HIDE DEF s
<1>6. CondocFits(s, slop[me], branches[me], github[me])
  BY <1>1, <1>2, <1>3, <1>5, UnlockedFits
<1>7. spec' \in [Held -> PointerSpec] /\ spec'[me] = s /\ \A d \in Held \ {me} : spec'[d] = spec[d]
  BY <1>1, <1>2, <1>5 DEF InteractionsInv, InteractionsTyped
<1>8. UsedTyped'
  <2>1. Mishap \/ UNCHANGED used
    BY DEF TurnUnlocks
  <2>. QED
    BY <2>1, UsedStays
<1>9. signals' \in [Held -> Seq(SignalStates)]
  <2>1. << >> \in Seq(SignalStates)
    BY EmptySeq
  <2>. QED
    BY <1>1, <2>1 DEF InteractionsInv, InteractionsTyped, WorldTyped
<1>10. WorldTyped' /\ OnlyCondoc(me)
  BY <1>1, <1>7, <1>9 DEF InteractionsInv, InteractionsTyped, WorldTyped, OnlyCondoc
<1>. QED
  BY <1>1, <1>2, <1>3, <1>6, <1>7, <1>8, <1>10, TurnStops

\* The stage that was carried out is saved.
LEMMA TurnSavesKept ==
    ASSUME InteractionsInv, TurnSaves PROVE InteractionsInv'
<1>1. turn.at = "save" /\ UNCHANGED World /\ UNCHANGED <<claimed, queue, tick>>
  BY DEF TurnSaves
<1>2. /\ me \in Held /\ me = turn.of /\ turn.spec \in PointerSpec /\ ~IsFinal(turn.spec.phase)
      /\ CondocFits(turn.spec, slop[me], branches[me], github[me]) /\ turn.at # "idle"
      /\ claimed[me] = "turn"
  BY <1>1, TurnAt
<1>3. /\ WorldFits(slop[me], branches[me]) /\ CondocFits(spec[me], slop[me], branches[me], github[me])
  BY <1>2, CondocAt
<1>4. UsedTyped' /\ WorldTyped' /\ slop' = slop /\ branches' = branches /\ github' = github
  <2>1. Mishap \/ UNCHANGED used
    BY DEF TurnSaves
  <2>. QED
    BY <1>1, <2>1, UsedStays DEF World, InteractionsInv, InteractionsTyped, WorldTyped
<1>5. CASE spec' = [spec EXCEPT ![me] = turn.spec] /\ turn' = [turn EXCEPT !.at = "stage"]
  <2>1. spec' \in [Held -> PointerSpec] /\ spec'[me] = turn.spec /\ \A d \in Held \ {me} : spec'[d] = spec[d]
    BY <1>2, <1>5 DEF InteractionsInv, InteractionsTyped
  <2>2. /\ turn' \in [at : {"idle", "stage", "save", "failed", "ended"}, of : Held \cup {Nobody}, spec : PointerSpec]
        /\ turn'.at = "stage" /\ turn'.of = turn.of /\ turn'.spec = turn.spec
    BY <1>5 DEF InteractionsInv, InteractionsTyped, LoopsTyped
  <2>3. InteractionsTyped'
    BY <1>1, <1>4, <2>1, <2>2 DEF InteractionsInv, InteractionsTyped, LoopsTyped
  <2>4. TurnFits'
    <3>1. turn'.of = me /\ claimed'[me] = "turn"
      BY <1>1, <1>2, <2>2
    <3>. QED
      BY <1>2, <1>4, <2>1, <2>2, <3>1 DEF TurnFits
  <2>5. OnlyCondoc(me)
    BY <1>4, <2>1 DEF OnlyCondoc
  <2>. QED
    BY <1>2, <1>3, <1>4, <2>1, <2>3, <2>4, <2>5, OthersKeep
<1>6. CASE turn' = [turn EXCEPT !.at = "failed"] /\ UNCHANGED spec
  <2>1. spec' \in [Held -> PointerSpec] /\ OnlyCondoc(me)
    BY <1>4, <1>6 DEF OnlyCondoc, InteractionsInv, InteractionsTyped
  <2>. QED
    BY <1>1, <1>2, <1>3, <1>4, <1>6, <2>1, TurnStops
<1>. QED
  BY <1>5, <1>6 DEF TurnSaves, writeSpec, Failed

\* A turn that failed leaves its error on the pointer.
LEMMA TurnFailsKept ==
    ASSUME InteractionsInv, TurnFails PROVE InteractionsInv'
<1>. DEFINE s == [spec[me] EXCEPT !.error = TRUE]
<1>1. /\ turn.at = "failed" /\ UNCHANGED World /\ UNCHANGED <<claimed, queue, tick, used>>
      /\ spec' = [spec EXCEPT ![me] = s] /\ turn' = [turn EXCEPT !.at = "ended"]
  BY DEF TurnFails, writeSpec
<1>2. me \in Held /\ turn.at # "idle"
  BY <1>1, TurnAt
<1>3. /\ spec[me] \in PointerSpec /\ slop[me] \in Slops /\ branches[me] \in [Repos -> Branches]
      /\ github[me] \in [PRRepos -> PRStates]
      /\ WorldFits(slop[me], branches[me]) /\ CondocFits(spec[me], slop[me], branches[me], github[me])
  BY <1>2, CondocAt
<1>4. UsedTyped' /\ WorldTyped' /\ slop' = slop /\ branches' = branches /\ github' = github
  BY <1>1, UsedStays DEF World, InteractionsInv, InteractionsTyped, WorldTyped
<1>5. /\ s \in PointerSpec /\ s.phase = spec[me].phase /\ s.from = spec[me].from /\ s.stage = spec[me].stage
      /\ s.done = spec[me].done /\ s.bases = spec[me].bases /\ s.heads = spec[me].heads /\ s.prs = spec[me].prs
  BY <1>3 DEF PointerSpec
<1>. HIDE DEF s
<1>6. CondocFits(s, slop[me], branches[me], github[me])
  BY <1>3, <1>5, SameFits
<1>7. spec' \in [Held -> PointerSpec] /\ spec'[me] = s /\ \A d \in Held \ {me} : spec'[d] = spec[d]
  BY <1>1, <1>2, <1>5 DEF InteractionsInv, InteractionsTyped
<1>8. OnlyCondoc(me)
  BY <1>4, <1>7 DEF OnlyCondoc
<1>. QED
  BY <1>1, <1>2, <1>3, <1>4, <1>6, <1>7, <1>8, TurnStops

\* The queue has condocs that are held.
LEMMA Enqueued ==
    ASSUME InteractionsInv, NEW c \in Held, enqueueTurn(c)
    PROVE  queue' \in Seq(Held)
BY AppendProperties DEF enqueueTurn, InteractionsInv, InteractionsTyped, LoopsTyped

\* What is left of a queue is of condocs that were in it.
LEMMA Dequeued ==
    ASSUME InteractionsInv, NEW c \in Held, dequeue(c)
    PROVE  queue' \in Seq(Held)
<1>1. queue \in Seq(Held)
  BY DEF InteractionsInv, InteractionsTyped, LoopsTyped
<1>2. CASE \E i \in 1 .. Len(queue) : queue[i] = c
  <2>. DEFINE I == {i \in 1 .. Len(queue) : queue[i] = c}
              k == Min(I)
  <2>1. k \in I
    <3>1. I \in SUBSET Nat /\ I # {}
      BY <1>2
    <3>. HIDE DEF I
    <3>2. \E m \in I : \A j \in I : m <= j
      BY <3>1, LeastOf
    <3>. QED
      BY <3>2 DEF Min
  <2>. HIDE DEF k
  <2>2. k \in 1 .. Len(queue) /\ Len(queue) \in Nat
    BY <1>1, <2>1, LenProperties
  <2>3. queue' = SubSeq(queue, 1, k - 1) \o SubSeq(queue, k + 1, Len(queue))
    BY <1>2, <2>2 DEF dequeue, RemoveFirst, RemoveAt, SelectInSeq, k
  <2>4. SubSeq(queue, 1, k - 1) \in Seq(Held)
    <3>1. \A i \in 1 .. k - 1 : queue[i] \in Held
      <4>1. \A i \in 1 .. k - 1 : i \in 1 .. Len(queue)
        BY <2>2
      <4>. QED
        BY <1>1, <4>1, ElementOfSeq
    <3>. QED
      BY <2>2, <3>1, SubSeqProperties
  <2>5. SubSeq(queue, k + 1, Len(queue)) \in Seq(Held)
    <3>1. \A i \in k + 1 .. Len(queue) : queue[i] \in Held
      <4>1. \A i \in k + 1 .. Len(queue) : i \in 1 .. Len(queue)
        BY <2>2
      <4>. QED
        BY <1>1, <4>1, ElementOfSeq
    <3>. QED
      BY <2>2, <3>1, SubSeqProperties
  <2>. QED
    BY <2>3, <2>4, <2>5, ConcatProperties
<1>3. CASE ~ \E i \in 1 .. Len(queue) : queue[i] = c
  BY <1>1, <1>3 DEF dequeue, RemoveFirst
<1>. QED
  BY <1>2, <1>3

\* The turn loop lets go of the turn.
LEMMA TurnEndsKept ==
    ASSUME InteractionsInv, TurnEnds PROVE InteractionsInv'
<1>1. /\ me \in Held /\ claimed \in [Held -> {"free", "ui", "tick", "turn"}]
  BY TurnAt DEF TurnEnds, InteractionsInv, InteractionsTyped, LoopsTyped
<1>2. turn'.at = "idle" /\ turn' \in [at : {"idle", "stage", "save", "failed", "ended"}, of : Held \cup {Nobody}, spec : PointerSpec]
  BY NoSpecTyped DEF TurnEnds, NoTurn
<1>3. claimed' \in [Held -> {"free", "ui", "tick", "turn"}] /\ queue' \in Seq(Held)
  BY <1>1, Dequeued DEF TurnEnds
<1>4. TurnFits'
  BY <1>2 DEF TurnFits
<1>5. LoopsTyped'
  BY <1>2, <1>3 DEF TurnEnds, InteractionsInv, InteractionsTyped, LoopsTyped
<1>6. WorldTyped' /\ UsedTyped' /\ spec' = spec /\ slop' = slop /\ branches' = branches /\ github' = github
  BY DEF TurnEnds, World, InteractionsInv, InteractionsTyped, WorldTyped, UsedTyped
<1>7. OnlyCondoc(me)
  BY <1>6 DEF OnlyCondoc
<1>. QED
  BY <1>1, <1>4, <1>5, <1>6, <1>7, OthersKeep, CondocAt DEF InteractionsInv, InteractionsTyped

\* The turn loop takes up the head of the queue.
LEMMA slopTurnLoopKept ==
    ASSUME InteractionsInv, slopTurnLoop PROVE InteractionsInv'
<1>. DEFINE c == Head(queue)
<1>1. c \in Held /\ queue \in Seq(Held) /\ claimed \in [Held -> {"free", "ui", "tick", "turn"}]
  <2>1. queue \in Seq(Held) /\ queue # << >> /\ claimed \in [Held -> {"free", "ui", "tick", "turn"}]
    BY DEF slopTurnLoop, InteractionsInv, InteractionsTyped, LoopsTyped
  <2>. QED
    BY <2>1, HeadTailProperties
<1>2. /\ claimed' = [claimed EXCEPT ![c] = "turn"]
      /\ turn' = [at |-> IF Runnable(spec[c]) THEN "stage" ELSE "ended", of |-> c, spec |-> spec[c]]
      /\ UNCHANGED <<spec, World, queue, tick, used>>
  BY DEF slopTurnLoop
<1>. HIDE DEF c
<1>3. /\ spec[c] \in PointerSpec /\ WorldFits(slop[c], branches[c])
      /\ CondocFits(spec[c], slop[c], branches[c], github[c])
  BY <1>1, CondocAt
<1>4. /\ turn' \in [at : {"idle", "stage", "save", "failed", "ended"}, of : Held \cup {Nobody}, spec : PointerSpec]
      /\ claimed' \in [Held -> {"free", "ui", "tick", "turn"}] /\ claimed'[c] = "turn"
      /\ turn'.of = c /\ turn'.spec = spec[c] /\ (turn'.at = "stage" => ~IsFinal(spec[c].phase))
      /\ turn'.at # "save"
  BY <1>1, <1>2, <1>3 DEF Runnable
<1>5. LoopsTyped'
  BY <1>1, <1>2, <1>4 DEF InteractionsInv, InteractionsTyped, LoopsTyped
<1>6. WorldTyped' /\ UsedTyped' /\ spec' = spec /\ slop' = slop /\ branches' = branches /\ github' = github
  BY <1>2 DEF World, InteractionsInv, InteractionsTyped, WorldTyped, UsedTyped
<1>7. TurnFits'
  BY <1>1, <1>3, <1>4, <1>6 DEF TurnFits
<1>8. OnlyCondoc(c)
  BY <1>6 DEF OnlyCondoc
<1>. QED
  BY <1>1, <1>3, <1>5, <1>6, <1>7, <1>8, OthersKeep DEF InteractionsInv, InteractionsTyped

\* Outside the lock, on the way to the pull requests, the phases follow each
\* other.
LEMMA PlainFits ==
    ASSUME NEW s \in PointerSpec, NEW s2 \in PointerSpec, NEW sl \in Slops,
           NEW br, NEW gh, CondocFits(s, sl, br, gh),
           s.phase \in {"AwaitingPrompt", "PRDrafting", "PRProposed"}, 
           s2.phase \in {"AwaitingPrompt", "PRDrafting", "PRProposed"},
           s2.from = s.from, s2.stage = s.stage, s2.done = s.done,
           s2.prs[CondocRepo] # "merged"
    PROVE  CondocFits(s2, sl, br, gh)
<1>1. PhaseOf(s) = s.phase /\ PhaseOf(s2) = s2.phase /\ ~IsFinal(s.phase) /\ ~IsFinal(s2.phase)
  BY DEF PhaseOf, IsFinal
<1>2. s.stage = "none"
  BY <1>1 DEF CondocFits, PhaseFits
<1>3. PhaseFits(s2) /\ SectionsFit(s2, sl)
  BY <1>1, <1>2 DEF CondocFits, PhaseFits, SectionsFit
<1>4. MergesFit(s2, br, gh)
  BY <1>1 DEF MergesFit
<1>5. \A t \in Repos : CommitsFit(s2, br[t], t)
  BY <1>2 DEF CondocFits, CommitsFit, Submitted
<1>. QED
  BY <1>3, <1>4, <1>5 DEF CondocFits

\* The signal for the draft of the pull request is submitted.
LEMMA DraftSubmitsKept ==
    ASSUME InteractionsInv, DraftSubmits PROVE InteractionsInv'
<1>. DEFINE n == Len(signals[me]) + 1
            s == [turn.spec EXCEPT !.sig = n]
<1>1. /\ turn.at = "stage" /\ Reached(s) /\ signals' = [signals EXCEPT ![me] = Append(@, "pending")]
      /\ UNCHANGED <<spec, claimed, queue, tick>> /\ UNCHANGED <<slop, branches, github, path, used>>
  BY DEF DraftSubmits, AtDraft, TurnKeeps
<1>2. /\ me \in Held /\ turn.spec \in PointerSpec /\ turn.spec = spec[me] /\ ~IsFinal(turn.spec.phase)
      /\ CondocFits(turn.spec, slop[me], branches[me], github[me])
  BY <1>1, TurnAt
<1>3. /\ slop[me] \in Slops /\ branches[me] \in [Repos -> Branches] /\ WorldFits(slop[me], branches[me])
      /\ github[me] \in [PRRepos -> PRStates]
  BY <1>2, CondocAt
<1>4. signals' \in [Held -> Seq(SignalStates)] /\ n \in Nat
  BY <1>1, <1>2, SignalMore
<1>. HIDE DEF n
<1>5. /\ s \in PointerSpec /\ s.phase = turn.spec.phase /\ s.from = turn.spec.from /\ s.stage = turn.spec.stage
      /\ s.done = turn.spec.done /\ s.bases = turn.spec.bases /\ s.heads = turn.spec.heads /\ s.prs = turn.spec.prs
  BY <1>2, <1>4 DEF PointerSpec
<1>. HIDE DEF s
<1>6. CondocFits(s, slop[me], branches[me], github[me])
  BY <1>2, <1>3, <1>5, SameFits
<1>7. WorldTyped' /\ UsedTyped' /\ OnlyCondoc(me) /\ ~IsFinal(s.phase)
  BY <1>1, <1>2, <1>4, <1>5, UsedStays DEF InteractionsInv, InteractionsTyped, WorldTyped, OnlyCondoc
<1>. QED
  BY <1>1, <1>2, <1>3, <1>5, <1>6, <1>7, TurnReaches

\* The draft is collected.
LEMMA DraftCollectsKept ==
    ASSUME InteractionsInv, DraftCollects PROVE InteractionsInv'
<1>1. PICK usable \in BOOLEAN :
        writeSpec(me, [turn.spec EXCEPT !.phase = "PRProposed", !.sig = 0, !.error = ~usable])
  BY DEF DraftCollects
<1>. DEFINE e == ~usable
            s == [turn.spec EXCEPT !.phase = "PRProposed", !.sig = 0, !.error = e]
<1>2. /\ turn.at = "stage" /\ turn.spec.phase = "PRDrafting" /\ spec' = [spec EXCEPT ![me] = s]
      /\ signals' = [signals EXCEPT ![me] = << >>] /\ turn' = [turn EXCEPT !.at = "ended"]
      /\ UNCHANGED <<slop, branches, github, path, claimed, queue, tick, used>>
  BY <1>1 DEF DraftCollects, AtDraft, writeSpec
<1>3. /\ me \in Held /\ turn.spec \in PointerSpec /\ turn.spec = spec[me] /\ ~IsFinal(turn.spec.phase)
      /\ CondocFits(turn.spec, slop[me], branches[me], github[me]) /\ turn.at # "idle"
  BY <1>2, TurnAt
<1>4. /\ slop[me] \in Slops /\ WorldFits(slop[me], branches[me])
  BY <1>3, CondocAt
<1>5. e \in BOOLEAN
  OBVIOUS
<1>. HIDE DEF e
<1>6. /\ s \in PointerSpec /\ s.phase = "PRProposed" /\ s.from = turn.spec.from /\ s.stage = turn.spec.stage
      /\ s.done = turn.spec.done /\ s.prs = turn.spec.prs
  BY <1>3, <1>5 DEF PointerSpec, Phase
<1>. HIDE DEF s
<1>7. CondocFits(s, slop[me], branches[me], github[me])
  <2>1. s.prs[CondocRepo] # "merged"
    BY <1>2, <1>3, <1>6 DEF CondocFits, MergesFit, PhaseOf, IsFinal
  <2>. QED
    BY <1>2, <1>3, <1>4, <1>6, <2>1, PlainFits
<1>8. spec' \in [Held -> PointerSpec] /\ spec'[me] = s /\ \A d \in Held \ {me} : spec'[d] = spec[d]
  BY <1>2, <1>3, <1>6 DEF InteractionsInv, InteractionsTyped
<1>9. signals' \in [Held -> Seq(SignalStates)]
  <2>1. << >> \in Seq(SignalStates)
    BY EmptySeq
  <2>. QED
    BY <1>2, <2>1 DEF InteractionsInv, InteractionsTyped, WorldTyped
<1>10. WorldTyped' /\ OnlyCondoc(me) /\ UsedTyped'
  BY <1>2, <1>8, <1>9, UsedStays DEF InteractionsInv, InteractionsTyped, WorldTyped, OnlyCondoc
<1>. QED
  BY <1>2, <1>3, <1>4, <1>7, <1>8, <1>10, TurnStops

\* Every step of the turn loop.
LEMMA TurnStepKept ==
    ASSUME InteractionsInv, TurnStep PROVE InteractionsInv'
BY slopTurnLoopKept, TurnWaitsKept, TurnDeploysKept, TurnDeployFailsKept, TurnSubmitsKept,
   TurnCollectsKept, TurnSignalUnreadKept, TurnRespondsKept, TurnCommitsKept, TurnRecordsKept,
   TurnUnlocksKept, TurnSavesKept, TurnFailsKept, TurnEndsKept,
   DraftSubmitsKept, DraftCollectsKept DEF TurnStep

-----------------------------------------------------------------------------
\* The driver's tick.
LEMMA TicksKept ==
    ASSUME InteractionsInv, TickReads \/ \E c \in Held : TickEnqueues(c) \/ TickInserts(c)
    PROVE  InteractionsInv'
<1>1. UNCHANGED <<spec, World, turn, used>>
  BY DEF TickReads, TickEnqueues, TickInserts
<1>2. tick' \in [Held -> {"seen", "insert", "enqueue"}]
  <2>1. tick \in [Held -> {"seen", "insert", "enqueue"}]
    BY DEF InteractionsInv, InteractionsTyped, LoopsTyped
  <2>2. ASSUME TickReads PROVE tick' \in [Held -> {"seen", "insert", "enqueue"}]
    <3>1. \A c \in Held : DueNow(c) \in {"seen", "insert", "enqueue"}
      BY DEF DueNow, Due
    <3>. QED
      BY <2>2, <3>1 DEF TickReads
  <2>. QED
    BY <2>1, <2>2 DEF TickEnqueues, TickInserts
<1>3. queue' \in Seq(Held)
  BY Enqueued DEF TickReads, TickEnqueues, TickInserts, InteractionsInv, InteractionsTyped, LoopsTyped
<1>4. /\ claimed' \in [Held -> {"free", "ui", "tick", "turn"}]
      /\ \A c \in Held : claimed[c] = "turn" => claimed'[c] = "turn"
  BY DEF TickReads, TickEnqueues, TickInserts, InteractionsInv, InteractionsTyped, LoopsTyped
<1>5. InteractionsTyped' /\ spec' = spec /\ slop' = slop /\ branches' = branches /\ github' = github
  BY <1>1, <1>2, <1>3, <1>4 DEF World, InteractionsInv, InteractionsTyped, WorldTyped, LoopsTyped, UsedTyped
<1>6. TurnFits'
  BY <1>1, <1>4, <1>5 DEF InteractionsInv, TurnFits
<1>. QED
  BY <1>5, <1>6 DEF InteractionsInv

-----------------------------------------------------------------------------
\* The requests of the UI: the turn loop is elsewhere.
LEMMA RequestKept ==
    ASSUME InteractionsInv, NEW c \in Held, claimed[c] # "turn", turn' = turn, OnlyCondoc(c),
           \A d \in Held \ {c} : claimed'[d] = claimed[d],
           spec' \in [Held -> PointerSpec], WorldTyped', UsedTyped', tick' = tick,
           claimed' \in [Held -> {"free", "ui", "tick", "turn"}], queue' \in Seq(Held),
           WorldFits(slop'[c], branches'[c]),
           CondocFits(spec'[c], slop'[c], branches'[c], github'[c])
    PROVE  InteractionsInv'
<1>1. InteractionsTyped'
  BY DEF InteractionsInv, InteractionsTyped, LoopsTyped
<1>2. TurnFits'
  BY TurnElsewhere
<1>. QED
  BY <1>1, <1>2, OthersKeep

\* One that writes the pointer and nothing else, but for the queue.
LEMMA SpecKept ==
    ASSUME InteractionsInv, NEW c \in Held, claimed[c] = "free",
           NEW s \in PointerSpec, spec' = [spec EXCEPT ![c] = s],
           UNCHANGED <<World, claimed, turn, tick>>, queue' \in Seq(Held), UsedTyped',
           CondocFits(s, slop[c], branches[c], github[c])
    PROVE  InteractionsInv'
<1>1. spec' \in [Held -> PointerSpec] /\ spec'[c] = s /\ \A d \in Held \ {c} : spec'[d] = spec[d]
  BY DEF InteractionsInv, InteractionsTyped
<1>2. /\ slop' = slop /\ branches' = branches /\ github' = github /\ path' = path /\ signals' = signals
      /\ claimed' = claimed /\ turn' = turn /\ tick' = tick
  BY DEF World
<1>3. OnlyCondoc(c) /\ WorldTyped' /\ claimed' \in [Held -> {"free", "ui", "tick", "turn"}]
  BY <1>1, <1>2 DEF OnlyCondoc, InteractionsInv, InteractionsTyped, WorldTyped, LoopsTyped
<1>4. WorldFits(slop'[c], branches'[c]) /\ CondocFits(spec'[c], slop'[c], branches'[c], github'[c])
  BY <1>1, <1>2, CondocAt
<1>. QED
  BY <1>1, <1>2, <1>3, <1>4, RequestKept

\* Before a condoc is accepted nothing stands of it.
LEMMA EarlyFits ==
    ASSUME NEW s \in PointerSpec, NEW s2 \in PointerSpec, NEW sl \in Slops, NEW br \in [Repos -> Branches], NEW gh,
           CondocFits(s, sl, br, gh), PhaseOf(s) \in {"absent", "Proposed"},
           s2.phase \in {"absent", "Proposed"}, s2.from = "absent", s2.stage = "none", s2.done = 0,
           s2.prs[CondocRepo] # "merged"
    PROVE  CondocFits(s2, sl, br, gh)
<1>1. PhaseOf(s2) \in {"absent", "Proposed"} /\ ~IsFinal(s2.phase)
  BY DEF PhaseOf, IsFinal
<1>2. /\ ~sl.exists /\ s.stage = "none"
      /\ \A t \in Repos : \A p \in 1 .. Len(br[t].origin) : br[t].origin[p] = 0
  BY DEF CondocFits, PhaseFits, SectionsFit, MergesFit
<1>3. PhaseFits(s2)
  BY <1>1, V2Numbers DEF PhaseFits, IsFinal
<1>4. SectionsFit(s2, sl) /\ MergesFit(s2, br, gh)
  BY <1>1, <1>2 DEF SectionsFit, MergesFit
<1>5. ASSUME NEW t \in Repos PROVE CommitsFit(s2, br[t], t)
  <2>1. CommitsFit(s, br[t], t) /\ br[t] \in Branches
    BY DEF CondocFits
  <2>2. Len(br[t].ahead) \in Nat
    BY <2>1, BranchNumbers
  <2>3. ~(Len(br[t].ahead) > 0) /\ \A k \in 1 .. Len(br[t].ahead) : FALSE
    BY <1>2, <2>1, <2>2 DEF CommitsFit
  <2>. QED
    BY <1>2, <2>3 DEF CommitsFit, Submitted
<1>. QED
  BY <1>3, <1>4, <1>5 DEF CondocFits

\* A condoc is proposed.
LEMMA ProposeKept ==
    ASSUME InteractionsInv, NEW c \in Held, slopPropose(c) \/ slopWithdraw(c) PROVE InteractionsInv'
<1>1. PICK s \in {[NoSpec EXCEPT !.phase = "Proposed"], NoSpec} : spec' = [spec EXCEPT ![c] = s]
  BY DEF slopPropose, slopWithdraw, writeSpec
<1>2. /\ spec[c].phase \in {"absent", "Proposed"} /\ claimed[c] = "free"
      /\ UNCHANGED <<World, claimed, turn, tick>> /\ UNCHANGED queue
  BY DEF slopPropose, slopWithdraw, Request, Loops
<1>3. UsedTyped' /\ queue' \in Seq(Held)
  BY <1>2, UsedByRequest DEF slopPropose, slopWithdraw, InteractionsInv, InteractionsTyped, LoopsTyped
<1>4. /\ s \in PointerSpec /\ s.phase \in {"absent", "Proposed"} /\ s.from = "absent" /\ s.stage = "none" /\ s.done = 0
      /\ s.prs[CondocRepo] # "merged"
  <2>1. NoSpec \in PointerSpec
    BY NoSpecTyped
  <2>2. NoSpec.prs[CondocRepo] = "none"
    BY V2Numbers DEF NoSpec
  <2>3. NoSpec.phase = "absent" /\ NoSpec.from = "absent" /\ NoSpec.stage = "none" /\ NoSpec.done = 0
    BY DEF NoSpec
  <2>. QED
    BY <1>1, <2>1, <2>2, <2>3 DEF PointerSpec, Phase
<1>5. PhaseOf(spec[c]) \in {"absent", "Proposed"}
  BY <1>2 DEF PhaseOf, IsFinal
<1>6. CondocFits(s, slop[c], branches[c], github[c])
  BY <1>4, <1>5, CondocAt, EarlyFits
<1>. QED
  BY <1>1, <1>2, <1>3, <1>4, <1>6, SpecKept

\* The branches a proposal creates have no commits of an interaction.
LEMMA FirstBranches ==
    /\ NewBranch \in Branches /\ NoBranch \in Branches
    /\ BranchFits(NewBranch) /\ BranchFits(NoBranch) /\ NewBranch.known = 1
    /\ Len(NewBranch.origin) = 1 /\ NewBranch.origin[1] = 0 /\ Len(NewBranch.ahead) = 0
    /\ Len(NoBranch.origin) = 0 /\ Len(NoBranch.ahead) = 0
<1>1. 0 \in 0 .. MaxInteractions
  BY V2Numbers
<1>2. << >> \in Seq(0 .. MaxInteractions) /\ Len(<< >>) = 0
  BY EmptySeq
<1>3. <<0>> \in Seq(0 .. MaxInteractions) /\ Len(<<0>>) = 1 /\ <<0>>[1] = 0
  BY <1>1
<1>4. NewBranch \in Branches /\ NoBranch \in Branches
  BY <1>2, <1>3 DEF NewBranch, NoBranch, Branches
<1>. QED
  BY <1>2, <1>3, <1>4 DEF NewBranch, NoBranch, BranchFits

\* Without commits of agents a branch fits any pointer that has no bases.
LEMMA FreshCommits ==
    ASSUME NEW s \in PointerSpec, s.stage \in {"none", "locked", "prompted", "queued"},
           s.stage # "none" => s.bases = NoBases, NEW t \in Repos,
           NEW b \in {NewBranch, NoBranch}
    PROVE  CommitsFit(s, b, t) /\ \A p \in 1 .. Len(b.origin) : b.origin[p] = 0
<1>1. \A p \in 1 .. Len(b.origin) : b.origin[p] = 0
  BY FirstBranches
<1>2. Len(b.ahead) = 0 /\ s.done \in Nat
  BY FirstBranches, PointerNumbers
<1>. QED
  BY <1>1, <1>2 DEF CommitsFit, Submitted

\* A proposal is accepted.
LEMMA AcceptKept ==
    ASSUME InteractionsInv, NEW c \in Held, slopAccept(c) PROVE InteractionsInv'
<1>. DEFINE sl == [NoSlop EXCEPT !.exists = TRUE]
            br == [t \in Repos |-> NewBranch]
            s == [spec[c] EXCEPT !.phase = "AwaitingPrompt"]
<1>1. /\ Request(c) /\ spec[c].phase = "Proposed" /\ claimed[c] = "free"
      /\ slop' = [slop EXCEPT ![c] = sl] /\ branches' = [branches EXCEPT ![c] = br]
      /\ spec' = [spec EXCEPT ![c] = s] /\ UNCHANGED <<github, path, signals, Loops>>
  BY DEF slopAccept, writeSpec, Request
<1>2. /\ spec[c] \in PointerSpec /\ CondocFits(spec[c], slop[c], branches[c], github[c])
  BY CondocAt
<1>3. /\ s \in PointerSpec /\ s.phase = "AwaitingPrompt" /\ s.from = spec[c].from /\ s.stage = spec[c].stage
      /\ s.done = spec[c].done /\ s.prs = spec[c].prs
  BY <1>2 DEF PointerSpec, Phase
<1>. HIDE DEF s
<1>4. /\ s.from = "absent" /\ s.stage = "none" /\ s.done = 0 /\ s.prs[CondocRepo] # "merged"
  BY <1>1, <1>2, <1>3 DEF CondocFits, PhaseFits, MergesFit, PhaseOf, IsFinal
<1>5. /\ sl \in Slops /\ sl.exists /\ sl.file = << >> /\ sl.pushed = 0 /\ Len(sl.file) = 0
  <2>1. << >> \in Seq(Headings) /\ Len(<< >>) = 0
    BY EmptySeq
  <2>. QED
    BY <2>1 DEF NoSlop, Slops
<1>6. br \in [Repos -> Branches] /\ \A t \in Repos : br[t] = NewBranch
  BY FirstBranches
<1>. HIDE DEF sl, br
<1>7. WorldFits(sl, br)
  BY <1>5, <1>6, FirstBranches DEF WorldFits, FileInOrder
<1>8. PhaseOf(s) = "AwaitingPrompt" /\ ~IsFinal(s.phase)
  BY <1>3 DEF PhaseOf, IsFinal
<1>9. CondocFits(s, sl, br, github[c])
  <2>1. PhaseFits(s)
    BY <1>4, <1>8 DEF PhaseFits, IsFinal
  <2>2. SectionsFit(s, sl)
    BY <1>4, <1>5, <1>8 DEF SectionsFit, Told
  <2>3. MergesFit(s, br, github[c])
    BY <1>4, <1>8 DEF MergesFit
  <2>4. \A t \in Repos : CommitsFit(s, br[t], t)
    BY <1>3, <1>4, <1>6, FreshCommits
  <2>. QED
    BY <2>1, <2>2, <2>3, <2>4 DEF CondocFits
<1>10. /\ spec' \in [Held -> PointerSpec] /\ slop' \in [Held -> Slops] /\ branches' \in [Held -> [Repos -> Branches]]
       /\ spec'[c] = s /\ slop'[c] = sl /\ branches'[c] = br
       /\ \A d \in Held \ {c} : spec'[d] = spec[d] /\ slop'[d] = slop[d] /\ branches'[d] = branches[d]
  BY <1>1, <1>3, <1>5, <1>6 DEF InteractionsInv, InteractionsTyped, WorldTyped
<1>11. OnlyCondoc(c) /\ WorldTyped' /\ UsedTyped'
  BY <1>1, <1>10, UsedByRequest DEF OnlyCondoc, InteractionsInv, InteractionsTyped, WorldTyped
<1>12. /\ claimed' = claimed /\ turn' = turn /\ tick' = tick /\ github' = github /\ queue' \in Seq(Held)
       /\ claimed' \in [Held -> {"free", "ui", "tick", "turn"}]
  BY <1>1 DEF Loops, InteractionsInv, InteractionsTyped, LoopsTyped
<1>. QED
  BY <1>1, <1>7, <1>9, <1>10, <1>11, <1>12, RequestKept

\* It fails to be, with some of its branches and its slopspace made.
LEMMA AcceptFailsKept ==
    ASSUME InteractionsInv, NEW c \in Held, slopAcceptFails(c) PROVE InteractionsInv'
<1>1. PICK got \in 0 .. MaxTargets :
        branches' = [branches EXCEPT ![c] = [t \in Repos |-> IF t <= got THEN NewBranch ELSE NoBranch]]
  BY DEF slopAcceptFails
<1>. DEFINE br == [t \in Repos |-> IF t <= got THEN NewBranch ELSE NoBranch]
<1>2. /\ Mishap /\ spec[c].phase = "Proposed" /\ claimed[c] = "free"
      /\ UNCHANGED <<spec, slop, github, path, signals, Loops>>
  BY DEF slopAcceptFails
<1>3. /\ spec[c] \in PointerSpec /\ slop[c] \in Slops /\ CondocFits(spec[c], slop[c], branches[c], github[c])
      /\ WorldFits(slop[c], branches[c])
  BY CondocAt
<1>4. br \in [Repos -> Branches] /\ \A t \in Repos : br[t] \in {NewBranch, NoBranch}
  BY FirstBranches
<1>5. branches' = [branches EXCEPT ![c] = br]
  BY <1>1
<1>. HIDE DEF br
<1>6. /\ PhaseOf(spec[c]) = "Proposed" /\ ~IsFinal(spec[c].phase) /\ spec[c].stage = "none" /\ ~slop[c].exists
      /\ slop[c].file = << >>
  BY <1>2, <1>3 DEF CondocFits, PhaseFits, SectionsFit, WorldFits, PhaseOf, IsFinal
<1>7. WorldFits(slop[c], br)
  BY <1>3, <1>4, <1>6, FirstBranches, EmptySeq DEF WorldFits
<1>8. CondocFits(spec[c], slop[c], br, github[c])
  <2>1. \A t \in Repos : CommitsFit(spec[c], br[t], t) /\ \A p \in 1 .. Len(br[t].origin) : br[t].origin[p] = 0
    BY <1>3, <1>4, <1>6, FreshCommits
  <2>2. MergesFit(spec[c], br, github[c])
    BY <1>3, <1>6, <2>1 DEF CondocFits, MergesFit
  <2>. QED
    BY <1>3, <2>1, <2>2 DEF CondocFits
<1>9. /\ branches' \in [Held -> [Repos -> Branches]] /\ branches'[c] = br
      /\ \A d \in Held \ {c} : branches'[d] = branches[d]
  BY <1>4, <1>5 DEF InteractionsInv, InteractionsTyped, WorldTyped
<1>10. OnlyCondoc(c) /\ WorldTyped' /\ UsedTyped' /\ spec' \in [Held -> PointerSpec]
  BY <1>2, <1>9, UsedStays DEF OnlyCondoc, InteractionsInv, InteractionsTyped, WorldTyped
<1>12. /\ claimed' = claimed /\ turn' = turn /\ tick' = tick /\ github' = github /\ queue' \in Seq(Held)
       /\ slop' = slop /\ spec' = spec
       /\ claimed' \in [Held -> {"free", "ui", "tick", "turn"}]
  BY <1>2 DEF Loops, InteractionsInv, InteractionsTyped, LoopsTyped
<1>. QED
  BY <1>2, <1>7, <1>8, <1>9, <1>10, <1>12, RequestKept

\* The lock: of a condoc that takes prompts, or under the lock another stage of
\* the same told length, with no bases yet.
LEMMA LockFits ==
    ASSUME NEW s \in PointerSpec, NEW s2 \in PointerSpec, NEW sl \in Slops, NEW br, NEW gh,
           CondocFits(s, sl, br, gh), s.phase = "AwaitingPrompt", s.done < MaxInteractions,
           s2.phase = "Locked", s2.stage = "locked", s2.from = s.from, s2.done = s.done,
           s2.prs = s.prs, s2.bases = NoBases
    PROVE  CondocFits(s2, sl, br, gh)
<1>1. PhaseOf(s) = "AwaitingPrompt" /\ PhaseOf(s2) = "Locked" /\ ~IsFinal(s.phase) /\ ~IsFinal(s2.phase)
  BY DEF PhaseOf, IsFinal
<1>2. s.stage = "none"
  BY <1>1 DEF CondocFits, PhaseFits
<1>3. PhaseFits(s2)
  BY <1>1, <1>2 DEF CondocFits, PhaseFits, IsFinal
<1>4. SectionsFit(s2, sl)
  <2>1. Told(s.stage) = 0 /\ Told(s2.stage) = 0
    BY <1>2 DEF Told
  <2>2. sl.file \in Seq(Headings) /\ Len(sl.file) \in Nat /\ s.done \in Nat
    BY LenProperties, PointerNumbers DEF Slops
  <2>. QED
    BY <1>1, <1>2, <2>1, <2>2 DEF CondocFits, SectionsFit
<1>5. MergesFit(s2, br, gh)
  BY <1>1 DEF CondocFits, MergesFit
<1>6. \A t \in Repos : CommitsFit(s2, br[t], t)
  BY <1>2 DEF CondocFits, CommitsFit, Submitted
<1>. QED
  BY <1>3, <1>4, <1>5, <1>6 DEF CondocFits

\* A prompt is asked for: the pointer is locked, before anything is written
\* to files.
LEMMA PromptKept ==
    ASSUME InteractionsInv, NEW c \in Held, slopPrompt(c) \/ slopPromptFails(c) PROVE InteractionsInv'
<1>1. PICK auto \in BOOLEAN : spec' = [spec EXCEPT ![c] =
        [spec[c] EXCEPT !.phase = "Locked", !.stage = "locked", !.auto = auto,
                        !.bases = NoBases, !.heads = NoBases, !.sig = 0]]
  BY DEF slopPrompt, slopPromptFails, writeSpec
<1>. DEFINE s == [spec[c] EXCEPT !.phase = "Locked", !.stage = "locked", !.auto = auto,
                                 !.bases = NoBases, !.heads = NoBases, !.sig = 0]
<1>2. /\ spec[c].phase = "AwaitingPrompt" /\ spec[c].done < MaxInteractions /\ claimed[c] = "free"
      /\ UNCHANGED <<World, queue, turn, tick>>
      /\ claimed' \in {claimed, [claimed EXCEPT ![c] = "ui"]}
  BY DEF slopPrompt, slopPromptFails, Request, Loops
<1>3. UsedTyped'
  BY UsedByRequest, UsedStays DEF slopPrompt, slopPromptFails
<1>4. /\ spec[c] \in PointerSpec /\ slop[c] \in Slops /\ CondocFits(spec[c], slop[c], branches[c], github[c])
      /\ WorldFits(slop[c], branches[c])
  BY CondocAt
<1>5. /\ s \in PointerSpec /\ s.phase = "Locked" /\ s.stage = "locked" /\ s.from = spec[c].from
      /\ s.done = spec[c].done /\ s.prs = spec[c].prs /\ s.bases = NoBases
  <2>1. NoBases \in Positions \cup {NoBases}
    OBVIOUS
  <2>. QED
    BY <1>4, <2>1 DEF PointerSpec, Phase, Stage
<1>6. spec' = [spec EXCEPT ![c] = s]
  BY <1>1
<1>. HIDE DEF s
<1>7. CondocFits(s, slop[c], branches[c], github[c])
  BY <1>2, <1>4, <1>5, LockFits
<1>8. /\ spec' \in [Held -> PointerSpec] /\ spec'[c] = s /\ \A d \in Held \ {c} : spec'[d] = spec[d]
      /\ claimed' \in [Held -> {"free", "ui", "tick", "turn"}]
      /\ \A d \in Held \ {c} : claimed'[d] = claimed[d]
  BY <1>2, <1>5, <1>6 DEF InteractionsInv, InteractionsTyped, LoopsTyped
<1>9. /\ slop' = slop /\ branches' = branches /\ github' = github /\ turn' = turn /\ tick' = tick
      /\ WorldTyped' /\ queue' \in Seq(Held)
  BY <1>2 DEF World, InteractionsInv, InteractionsTyped, WorldTyped, LoopsTyped
<1>10. OnlyCondoc(c)
  BY <1>8, <1>9 DEF OnlyCondoc
<1>. QED
  BY <1>2, <1>3, <1>4, <1>7, <1>8, <1>9, <1>10, RequestKept

\* A prompt that waits for it is submitted and queued.
LEMMA SubmitKept ==
    ASSUME InteractionsInv, NEW c \in Held, slopSubmit(c) PROVE InteractionsInv'
<1>. DEFINE s == [spec[c] EXCEPT !.stage = "queued"]
<1>1. /\ spec' = [spec EXCEPT ![c] = s] /\ spec[c].stage = "prompted" /\ claimed[c] = "free"
      /\ UNCHANGED <<World, claimed, turn, tick>> /\ queue' \in Seq(Held) /\ UsedTyped'
  BY Enqueued, UsedByRequest DEF slopSubmit, writeSpec, Request
<1>2. /\ spec[c] \in PointerSpec /\ slop[c] \in Slops /\ CondocFits(spec[c], slop[c], branches[c], github[c])
  BY CondocAt
<1>3. /\ s \in PointerSpec /\ s.stage = "queued" /\ s.phase = spec[c].phase /\ s.from = spec[c].from
      /\ s.done = spec[c].done /\ s.prs = spec[c].prs /\ s.bases = spec[c].bases
  BY <1>2 DEF PointerSpec, Stage
<1>. HIDE DEF s
<1>4. CondocFits(s, slop[c], branches[c], github[c])
  <2>1. s.stage # "none" /\ spec[c].stage # "none"
    BY <1>1, <1>3
  <2>2. \A t \in Repos : CommitsFit(s, branches[c][t], t)
    BY <1>1, <1>2, <1>3 DEF CondocFits, CommitsFit, Submitted
  <2>3. SectionsFit(s, slop[c])
    BY <1>1, <1>2, <1>3 DEF CondocFits, SectionsFit, Told, PhaseOf
  <2>. QED
    BY <1>2, <1>3, <2>1, <2>2, <2>3, LockedFits
<1>. QED
  BY <1>1, <1>3, <1>4, SpecKept

\* An error is taken off a pointer, to be tried again.
LEMMA ResubmitKept ==
    ASSUME InteractionsInv, NEW c \in Held, slopResubmit(c) PROVE InteractionsInv'
<1>. DEFINE n == IF spec[c].phase = "PRDrafting" THEN 0 ELSE spec[c].sig
            s == [spec[c] EXCEPT !.error = FALSE, !.sig = n]
<1>1. /\ spec' = [spec EXCEPT ![c] = s] /\ claimed[c] = "free"
      /\ UNCHANGED <<World, claimed, turn, tick>> /\ UNCHANGED queue /\ UsedTyped'
  BY UsedByRequest DEF slopResubmit, writeSpec, Request, Loops
<1>2. /\ spec[c] \in PointerSpec /\ slop[c] \in Slops /\ CondocFits(spec[c], slop[c], branches[c], github[c])
      /\ branches[c] \in [Repos -> Branches] /\ github[c] \in [PRRepos -> PRStates]
  BY CondocAt
<1>3. n \in Nat
  BY <1>2 DEF PointerSpec
<1>. HIDE DEF n
<1>4. /\ s \in PointerSpec /\ s.phase = spec[c].phase /\ s.from = spec[c].from /\ s.stage = spec[c].stage
      /\ s.done = spec[c].done /\ s.bases = spec[c].bases /\ s.heads = spec[c].heads /\ s.prs = spec[c].prs
  BY <1>2, <1>3 DEF PointerSpec
<1>. HIDE DEF s
<1>5. CondocFits(s, slop[c], branches[c], github[c])
  BY <1>2, <1>4, SameFits
<1>6. queue' \in Seq(Held)
  BY <1>1 DEF InteractionsInv, InteractionsTyped, LoopsTyped
<1>. QED
  BY <1>1, <1>4, <1>5, <1>6, SpecKept

\* The prompt of a locked condoc gets into the step file.
LEMMA InsertKept ==
    ASSUME InteractionsInv, NEW c \in Held, insertPrompt(c) PROVE InteractionsInv'
<1>. DEFINE h == PromptOf(spec[c].done + 1)
            file == appendSection(slop[c].file, h)
            sl == [slop[c] EXCEPT !.file = file, !.pushed = Len(file)]
            stage == IF spec[c].auto THEN "queued" ELSE "prompted"
            s == [spec[c] EXCEPT !.stage = stage]
<1>1. /\ claimed[c] \in {"ui", "tick"} /\ spec[c].stage = "locked"
      /\ slop' = [slop EXCEPT ![c] = sl]
      /\ spec' = [spec EXCEPT ![c] = s] /\ claimed' = [claimed EXCEPT ![c] = "free"]
      /\ UNCHANGED <<branches, github, path, signals, turn, tick, used>>
      /\ enqueueTurn(c) \/ UNCHANGED queue
  BY DEF insertPrompt, Inserting, writeSpec
<1>2. /\ spec[c] \in PointerSpec /\ slop[c] \in Slops /\ CondocFits(spec[c], slop[c], branches[c], github[c])
      /\ branches[c] \in [Repos -> Branches] /\ github[c] \in [PRRepos -> PRStates]
      /\ WorldFits(slop[c], branches[c])
  BY CondocAt
<1>3. stage \in {"queued", "prompted"}
  OBVIOUS
<1>. HIDE DEF stage
<1>4. /\ s \in PointerSpec /\ s.stage \in {"queued", "prompted"} /\ s.phase = spec[c].phase /\ s.from = spec[c].from
      /\ s.done = spec[c].done /\ s.prs = spec[c].prs /\ s.bases = spec[c].bases
  BY <1>2, <1>3 DEF PointerSpec, Stage
<1>. HIDE DEF s
<1>5. /\ spec[c].stage # "none" /\ Told(spec[c].stage) = 0 /\ Told(s.stage) = Told(spec[c].stage) + 1
      /\ s.stage \in Stage /\ spec[c].stage \in {"locked", "returned", "mapped"}
  BY <1>1, <1>4 DEF Told, Stage
<1>6. slop[c].exists /\ spec[c].done \in Nat
  BY <1>2, <1>5, StageAt
<1>7. h \in Headings /\ h.kind = SectionKinds[Told(spec[c].stage) + 1] /\ h.n = spec[c].done + 1 /\ h.kind # "Record"
  BY <1>5, <1>6, HeadingTyped DEF PromptOf, Heading, SectionKinds
<1>8. \A t \in Repos : CommitsFit(s, branches[c][t], t)
  BY <1>1, <1>2, <1>4 DEF CondocFits, CommitsFit, Submitted, Stage
<1>. HIDE DEF h
<1>9. file \in Seq(Headings) /\ Len(file) \in Nat
  <2>1. slop[c].file \in Seq(Headings)
    BY <1>2 DEF Slops
  <2>2. file \in Seq(Headings)
    BY <2>1, <1>7, AppendProperties DEF appendSection
  <2>. QED
    BY <2>2, LenProperties
<1>10. /\ sl \in Slops /\ sl.file = file /\ sl.pushed = Len(file) /\ sl.exists = slop[c].exists
  <2>. HIDE DEF file
  <2>. QED
    BY <1>2, <1>9 DEF Slops
<1>. HIDE DEF sl
<1>11. WorldFits(sl, branches[c]) /\ CondocFits(s, sl, branches[c], github[c])
  <2>1. sl.file = appendSection(slop[c].file, h) /\ sl.pushed \in {slop[c].pushed, Len(sl.file)}
    BY <1>10
  <2>2. h.kind = "Record" => \A t \in Repos : RecordFits(h, branches[c][t], t)
    BY <1>7
  <2>4. sl.pushed = Len(sl.file)
    BY <1>10
  <2>. HIDE DEF file
  <2>. QED
    BY <1>2, <1>4, <1>5, <1>7, <1>8, <1>10, <2>1, <2>2, <2>4, SectionFits, SMTT(40)
<1>12. queue' \in Seq(Held) /\ UsedTyped'
  BY <1>1, Enqueued, UsedStays DEF InteractionsInv, InteractionsTyped, LoopsTyped
<1>13. /\ spec' \in [Held -> PointerSpec] /\ spec'[c] = s /\ slop' \in [Held -> Slops] /\ slop'[c] = sl
       /\ \A d \in Held \ {c} : spec'[d] = spec[d] /\ slop'[d] = slop[d] /\ claimed'[d] = claimed[d]
       /\ claimed' \in [Held -> {"free", "ui", "tick", "turn"}]
  BY <1>1, <1>4, <1>10 DEF InteractionsInv, InteractionsTyped, WorldTyped, LoopsTyped
<1>14. OnlyCondoc(c) /\ WorldTyped'
  BY <1>1, <1>13 DEF OnlyCondoc, InteractionsInv, InteractionsTyped, WorldTyped
<1>. QED
  BY <1>1, <1>11, <1>12, <1>13, <1>14, RequestKept

\* It fails to, with the section written or not.
LEMMA InsertFailsKept ==
    ASSUME InteractionsInv, NEW c \in Held, insertPromptFails(c) PROVE InteractionsInv'
<1>. DEFINE h == PromptOf(spec[c].done + 1)
            file == appendSection(slop[c].file, h)
            slF == [slop[c] EXCEPT !.file = file]
            q == [spec[c] EXCEPT !.stage = "prompted"]
            s == [spec[c] EXCEPT !.error = TRUE]
<1>1. /\ claimed[c] \in {"ui", "tick"} /\ spec[c].stage = "locked"
      /\ slop' = slop \/ slop' = [slop EXCEPT ![c] = slF]
      /\ spec' = [spec EXCEPT ![c] = s] /\ claimed' = [claimed EXCEPT ![c] = "free"]
      /\ UNCHANGED <<branches, github, path, signals, queue, turn, tick>>
      /\ Mishap \/ UNCHANGED used
  BY DEF insertPromptFails, Inserting, writeSpec
<1>2. /\ spec[c] \in PointerSpec /\ slop[c] \in Slops /\ CondocFits(spec[c], slop[c], branches[c], github[c])
      /\ branches[c] \in [Repos -> Branches] /\ github[c] \in [PRRepos -> PRStates]
      /\ WorldFits(slop[c], branches[c])
  BY CondocAt
<1>4. /\ q \in PointerSpec /\ q.stage = "prompted" /\ q.phase = spec[c].phase /\ q.from = spec[c].from
      /\ q.done = spec[c].done /\ q.prs = spec[c].prs /\ q.bases = spec[c].bases
  BY <1>2 DEF PointerSpec, Stage
<1>3. /\ s \in PointerSpec /\ s.phase = spec[c].phase /\ s.from = spec[c].from /\ s.stage = spec[c].stage
      /\ s.done = spec[c].done /\ s.bases = spec[c].bases /\ s.heads = spec[c].heads /\ s.prs = spec[c].prs
  BY <1>2 DEF PointerSpec
<1>. HIDE DEF s, q
<1>5. /\ spec[c].stage # "none" /\ Told(spec[c].stage) = 0 /\ Told(q.stage) = Told(spec[c].stage) + 1
      /\ q.stage \in Stage /\ spec[c].stage \in {"locked", "returned", "mapped"}
  BY <1>1, <1>4 DEF Told, Stage
<1>6. slop[c].exists /\ spec[c].done \in Nat
  BY <1>2, <1>5, StageAt
<1>7. h \in Headings /\ h.kind = SectionKinds[Told(spec[c].stage) + 1] /\ h.n = spec[c].done + 1 /\ h.kind # "Record"
  BY <1>5, <1>6, HeadingTyped DEF PromptOf, Heading, SectionKinds
<1>8. \A t \in Repos : CommitsFit(q, branches[c][t], t)
  BY <1>1, <1>2, <1>4 DEF CondocFits, CommitsFit, Submitted, Stage
<1>. HIDE DEF h
<1>9. file \in Seq(Headings) /\ Len(file) \in Nat
  <2>1. slop[c].file \in Seq(Headings)
    BY <1>2 DEF Slops
  <2>2. file \in Seq(Headings)
    BY <2>1, <1>7, AppendProperties DEF appendSection
  <2>. QED
    BY <2>2, LenProperties
<1>10. slF \in Slops /\ slF.file = file /\ slF.pushed = slop[c].pushed /\ slF.exists = slop[c].exists
  <2>. HIDE DEF file
  <2>. QED
    BY <1>2, <1>9 DEF Slops
<1>. HIDE DEF slF
<1>11. WorldFits(slF, branches[c]) /\ CondocFits(spec[c], slF, branches[c], github[c])
  <2>1. slF.file = appendSection(slop[c].file, h) /\ slF.pushed \in {slop[c].pushed, Len(slF.file)}
    BY <1>10
  <2>2. h.kind = "Record" => \A t \in Repos : RecordFits(h, branches[c][t], t)
    BY <1>7
  <2>. HIDE DEF file
  <2>. QED
    BY <1>2, <1>4, <1>5, <1>7, <1>8, <1>10, <2>1, <2>2, SectionFits, SMTT(40)
<1>12. UsedTyped' /\ queue' \in Seq(Held) /\ slop \in [Held -> Slops]
  BY <1>1, UsedStays DEF InteractionsInv, InteractionsTyped, LoopsTyped, WorldTyped
<1>13. /\ slop' \in [Held -> Slops] /\ slop'[c] \in {slop[c], slF}
       /\ \A d \in Held \ {c} : slop'[d] = slop[d]
  BY <1>1, <1>10, <1>12
<1>14. /\ spec' \in [Held -> PointerSpec] /\ spec'[c] = s
       /\ \A d \in Held \ {c} : spec'[d] = spec[d] /\ claimed'[d] = claimed[d]
       /\ claimed' \in [Held -> {"free", "ui", "tick", "turn"}]
  BY <1>1, <1>3 DEF InteractionsInv, InteractionsTyped, LoopsTyped
<1>15. OnlyCondoc(c) /\ WorldTyped'
  BY <1>1, <1>13, <1>14 DEF OnlyCondoc, InteractionsInv, InteractionsTyped, WorldTyped
<1>16. WorldFits(slop'[c], branches[c]) /\ CondocFits(spec[c], slop'[c], branches[c], github[c]) /\ slop'[c] \in Slops
  BY <1>2, <1>10, <1>11, <1>13
<1>17. CondocFits(s, slop'[c], branches[c], github[c])
  BY <1>2, <1>3, <1>16, SameFits
<1>. QED
  BY <1>1, <1>12, <1>13, <1>14, <1>15, <1>16, <1>17, RequestKept

\* A draft of the pull request is asked for, the first or another.
LEMMA DraftKept ==
    ASSUME InteractionsInv, NEW c \in Held, slopComplete(c) \/ slopRedraft(c) PROVE InteractionsInv'
<1>. DEFINE s == [spec[c] EXCEPT !.phase = "PRDrafting", !.sig = 0, !.error = FALSE]
            n == Len(slop[c].file)
            slC == [slop[c] EXCEPT !.pushed = n]
<1>1. /\ spec' = [spec EXCEPT ![c] = s] /\ spec[c].phase \in {"AwaitingPrompt", "PRProposed"} /\ claimed[c] = "free"
      /\ UNCHANGED <<branches, github, path, signals, claimed, turn, tick>> /\ enqueueTurn(c)
      /\ slop' = slop \/ slop' = [slop EXCEPT ![c] = slC]
  BY DEF slopComplete, slopRedraft, queueDraft, writeSpec, Request, World
<1>2. /\ spec[c] \in PointerSpec /\ slop[c] \in Slops /\ CondocFits(spec[c], slop[c], branches[c], github[c])
      /\ branches[c] \in [Repos -> Branches] /\ WorldFits(slop[c], branches[c])
  BY CondocAt
<1>3. /\ s \in PointerSpec /\ s.phase = "PRDrafting" /\ s.from = spec[c].from /\ s.stage = spec[c].stage
      /\ s.done = spec[c].done /\ s.prs = spec[c].prs
  BY <1>2 DEF PointerSpec, Phase
<1>. HIDE DEF s
<1>4. slop[c].file \in Seq(Headings) /\ n \in Nat /\ slop[c].pushed \in Nat
  BY <1>2, LenProperties DEF Slops
<1>5. slC \in Slops /\ slC.file = slop[c].file /\ slC.pushed = n /\ slC.exists = slop[c].exists
  <2>. HIDE DEF n
  <2>. QED
    BY <1>2, <1>4 DEF Slops
<1>. HIDE DEF slC
<1>6. ASSUME NEW sl \in {slop[c], slC}
      PROVE  WorldFits(sl, branches[c]) /\ CondocFits(s, sl, branches[c], github[c])
  <2>1. sl \in Slops /\ sl.file = slop[c].file /\ sl.exists = slop[c].exists
        /\ sl.pushed \in Nat /\ sl.pushed >= slop[c].pushed /\ sl.pushed <= n
    BY <1>2, <1>4, <1>5 DEF WorldFits
  <2>2. WorldFits(sl, branches[c])
    BY <1>2, <2>1 DEF WorldFits
  <2>3. SectionsFit(spec[c], sl)
    <3>1. SectionsFit(spec[c], slop[c])
      BY <1>2 DEF CondocFits
    <3>2. Told(spec[c].stage) \in Nat /\ spec[c].done \in Nat
      BY <1>2, PointerNumbers DEF Told, PointerSpec, Stage
    <3>3. 3 * spec[c].done + Told(spec[c].stage) \in Nat
      BY <3>2
    <3>. DEFINE told == 3 * spec[c].done + Told(spec[c].stage)
    <3>4. sl.exists => sl.pushed >= told
      <4>1. ASSUME sl.exists PROVE slop[c].pushed >= told
        BY <2>1, <3>1, <4>1 DEF SectionsFit
      <4>. HIDE DEF told
      <4>2. told \in Nat
        BY <3>3 DEF told
      <4>. QED
        BY <1>4, <2>1, <4>1, <4>2
    <3>. QED
      BY <2>1, <3>1, <3>4 DEF SectionsFit
  <2>4. CondocFits(spec[c], sl, branches[c], github[c])
    BY <1>2, <2>3 DEF CondocFits
  <2>5. s.prs[CondocRepo] # "merged"
    BY <1>1, <1>2, <1>3 DEF CondocFits, MergesFit, PhaseOf, IsFinal
  <2>. QED
    BY <1>1, <1>2, <1>3, <2>1, <2>2, <2>4, <2>5, PlainFits
<1>7. /\ spec' \in [Held -> PointerSpec] /\ spec'[c] = s /\ slop' \in [Held -> Slops] /\ slop'[c] \in {slop[c], slC}
      /\ \A d \in Held \ {c} : spec'[d] = spec[d] /\ slop'[d] = slop[d]
  BY <1>1, <1>3, <1>5 DEF InteractionsInv, InteractionsTyped, WorldTyped
<1>8. UsedTyped' /\ queue' \in Seq(Held)
  BY <1>1, Enqueued, UsedByRequest DEF slopComplete, slopRedraft
<1>9. OnlyCondoc(c) /\ WorldTyped' /\ claimed' \in [Held -> {"free", "ui", "tick", "turn"}]
  BY <1>1, <1>7 DEF OnlyCondoc, InteractionsInv, InteractionsTyped, WorldTyped, LoopsTyped
<1>10. WorldFits(slop'[c], branches[c]) /\ CondocFits(s, slop'[c], branches[c], github[c])
  BY <1>6, <1>7
<1>. QED
  BY <1>1, <1>7, <1>8, <1>9, <1>10, RequestKept

\* A repository agents changed is one that gets a pull request.
LEMMA ChangedRepos ==
    ASSUME InteractionsInv, NEW c \in Held, NEW t \in Repos, NEW p \in 1 .. Len(branches[c][t].origin),
           branches[c][t].origin[p] # 0
    PROVE  t \in prRepos(c)
<1>. DEFINE b == branches[c][t]
<1>1. b \in Branches /\ BranchFits(b)
  BY CondocAt DEF WorldFits
<1>2. b.known \in Nat /\ Len(b.ahead) \in Nat
  BY <1>1, BranchNumbers
<1>3. p > 1 /\ p <= b.known /\ p \in Nat
  BY <1>1 DEF BranchFits
<1>. HIDE DEF b
<1>4. RepoHead(b) > 1
  BY <1>2, <1>3 DEF RepoHead
<1>. QED
  BY <1>4 DEF prRepos, b

\* Pull requests are raised, repository by repository.
LEMMA RaiseKept ==
    ASSUME InteractionsInv, NEW c \in Held, slopRaisePRs(c) PROVE InteractionsInv'
<1>1. /\ spec[c].phase = "PRProposed" /\ claimed[c] = "free"
      /\ UNCHANGED <<slop, branches, path, signals, Loops>>
      /\ Mishap \/ Request(c)
      /\ \E r \in PRRepos \cup {CondocRepo + 1} : github' = [github EXCEPT ![c] = Raised(c, r)]
  <2>1. prRepos(c) \subseteq PRRepos
    BY V2Numbers DEF prRepos
  <2>2. /\ \/ Request(c) /\ github' = [github EXCEPT ![c] = Raised(c, CondocRepo + 1)]
           \/ \E r \in prRepos(c) : /\ Request(c) \/ (Mishap /\ claimed[c] = "free")
                                    /\ github' = [github EXCEPT ![c] = Raised(c, r)]
        /\ spec[c].phase = "PRProposed" /\ UNCHANGED <<slop, branches, path, signals, Loops>>
    BY DEF slopRaisePRs
  <2>3. Request(c) => claimed[c] = "free"
    BY DEF Request
  <2>. HIDE DEF Request, Mishap
  <2>. QED
    BY <2>1, <2>2, <2>3
<1>2. /\ spec[c] \in PointerSpec /\ slop[c] \in Slops /\ CondocFits(spec[c], slop[c], branches[c], github[c])
      /\ branches[c] \in [Repos -> Branches] /\ github[c] \in [PRRepos -> PRStates] /\ WorldFits(slop[c], branches[c])
  BY CondocAt
<1>3. PICK r \in PRRepos \cup {CondocRepo + 1} : github' = [github EXCEPT ![c] = Raised(c, r)]
  BY <1>1
<1>. DEFINE gh == Raised(c, r)
<1>4. gh \in [PRRepos -> PRStates]
  BY <1>2 DEF Raised, PRStates
<1>5. \E prs \in [PRRepos -> {"none", "open"}] :
         \/ /\ spec' = [spec EXCEPT ![c] = [spec[c] EXCEPT !.phase = "PROpen", !.error = FALSE, !.prs = prs]]
            /\ prs = [q \in PRRepos |-> IF q \in prRepos(c) THEN "open" ELSE "none"]
         \/ spec' = [spec EXCEPT ![c] = [spec[c] EXCEPT !.error = TRUE, !.prs = prs]]
  <2>1. CASE spec' = [spec EXCEPT ![c] = [spec[c] EXCEPT !.phase = "PROpen", !.error = FALSE,
                 !.prs = [q \in PRRepos |-> IF q \in prRepos(c) THEN "open" ELSE "none"]]]
    <3>. DEFINE prs == [q \in PRRepos |-> IF q \in prRepos(c) THEN "open" ELSE "none"]
    <3>1. prs \in [PRRepos -> {"none", "open"}]
      OBVIOUS
    <3>. QED
      BY <2>1, <3>1
  <2>2. ASSUME NEW x \in prRepos(c), spec' = [spec EXCEPT ![c] = [spec[c] EXCEPT !.error = TRUE,
                    !.prs = [p \in PRRepos |-> IF p \in prRepos(c) /\ p < x THEN "open" ELSE "none"]]]
        PROVE  \E prs \in [PRRepos -> {"none", "open"}] :
                  spec' = [spec EXCEPT ![c] = [spec[c] EXCEPT !.error = TRUE, !.prs = prs]]
    <3>. DEFINE prs == [p \in PRRepos |-> IF p \in prRepos(c) /\ p < x THEN "open" ELSE "none"]
    <3>1. prs \in [PRRepos -> {"none", "open"}]
      OBVIOUS
    <3>. QED
      BY <2>2, <3>1
  <2>. QED
    BY <2>1, <2>2 DEF slopRaisePRs, writeSpec
<1>6. PICK prs \in [PRRepos -> {"none", "open"}] :
         \/ /\ spec' = [spec EXCEPT ![c] = [spec[c] EXCEPT !.phase = "PROpen", !.error = FALSE, !.prs = prs]]
            /\ prs = [q \in PRRepos |-> IF q \in prRepos(c) THEN "open" ELSE "none"]
         \/ spec' = [spec EXCEPT ![c] = [spec[c] EXCEPT !.error = TRUE, !.prs = prs]]
  BY <1>5
<1>7. prs \in [PRRepos -> {"none", "open", "merged"}] /\ prs[CondocRepo] # "merged"
  BY V2Numbers
<1>9. PhaseOf(spec[c]) = "PRProposed" /\ ~IsFinal(spec[c].phase) /\ spec[c].stage = "none"
  BY <1>1, <1>2 DEF PhaseOf, IsFinal, CondocFits, PhaseFits
<1>10. CondocFits(spec[c], slop[c], branches[c], gh)
  <2>1. MergesFit(spec[c], branches[c], gh)
    BY <1>2, <1>9 DEF CondocFits, MergesFit
  <2>. QED
    BY <1>2, <2>1 DEF CondocFits
<1>. HIDE DEF gh
<1>11. ASSUME NEW s, s \in {[spec[c] EXCEPT !.phase = "PROpen", !.error = FALSE, !.prs = prs],
                            [spec[c] EXCEPT !.error = TRUE, !.prs = prs]},
              s.phase = "PROpen" => prs = [q \in PRRepos |-> IF q \in prRepos(c) THEN "open" ELSE "none"]
       PROVE  s \in PointerSpec /\ CondocFits(s, slop[c], branches[c], gh)
  <2>1. /\ s \in PointerSpec /\ s.phase \in {"PROpen", "PRProposed"} /\ s.from = spec[c].from /\ s.stage = spec[c].stage
        /\ s.done = spec[c].done /\ s.prs = prs
    <3>1. CASE s = [spec[c] EXCEPT !.phase = "PROpen", !.error = FALSE, !.prs = prs]
      BY <1>2, <1>7, <3>1 DEF PointerSpec, Phase
    <3>2. CASE s = [spec[c] EXCEPT !.error = TRUE, !.prs = prs]
      BY <1>1, <1>2, <1>7, <3>2 DEF PointerSpec, Phase
    <3>. QED
      BY <1>11, <3>1, <3>2
  <2>2. CASE s.phase = "PRProposed"
    BY <1>2, <1>7, <1>9, <1>10, <1>1, <2>1, <2>2, PlainFits
  <2>3. CASE s.phase = "PROpen"
    <3>1. PhaseOf(s) = "PROpen" /\ ~IsFinal(s.phase)
      BY <2>3 DEF PhaseOf, IsFinal
    <3>2. PhaseFits(s) /\ SectionsFit(s, slop[c])
      BY <1>9, <1>10, <2>1, <3>1 DEF CondocFits, PhaseFits, SectionsFit
    <3>3. MergesFit(s, branches[c], gh)
      <4>1. prs[CondocRepo] = "open"
        BY <1>11, <2>3, V2Numbers DEF prRepos
      <4>2. ASSUME NEW t \in Repos, NEW p \in 1 .. Len(branches[c][t].origin), branches[c][t].origin[p] # 0
            PROVE  prs[t] # "none"
        <5>1. t \in prRepos(c) /\ t \in PRRepos
          BY <4>2, ChangedRepos, V2Numbers
        <5>. QED
          BY <1>11, <2>3, <5>1
      <4>. QED
        BY <2>1, <3>1, <4>1, <4>2 DEF MergesFit
    <3>4. \A t \in Repos : CommitsFit(s, branches[c][t], t)
      BY <1>9, <1>10, <2>1 DEF CondocFits, CommitsFit, Submitted
    <3>. QED
      BY <2>1, <3>2, <3>3, <3>4 DEF CondocFits
  <2>. QED
    BY <2>1, <2>2, <2>3
<1>12. PICK s \in PointerSpec : spec' = [spec EXCEPT ![c] = s] /\ CondocFits(s, slop[c], branches[c], gh)
  <2>1. CASE /\ spec' = [spec EXCEPT ![c] = [spec[c] EXCEPT !.phase = "PROpen", !.error = FALSE, !.prs = prs]]
             /\ prs = [q \in PRRepos |-> IF q \in prRepos(c) THEN "open" ELSE "none"]
    <3>. DEFINE s == [spec[c] EXCEPT !.phase = "PROpen", !.error = FALSE, !.prs = prs]
    <3>1. s \in PointerSpec /\ CondocFits(s, slop[c], branches[c], gh)
      <4>. HIDE DEF s
      <4>1. s \in {[spec[c] EXCEPT !.phase = "PROpen", !.error = FALSE, !.prs = prs],
                            [spec[c] EXCEPT !.error = TRUE, !.prs = prs]}
        BY DEF s
      <4>. QED
        BY <1>11, <2>1, <4>1
    <3>. QED
      BY <2>1, <3>1
  <2>2. CASE spec' = [spec EXCEPT ![c] = [spec[c] EXCEPT !.error = TRUE, !.prs = prs]]
    <3>. DEFINE s == [spec[c] EXCEPT !.error = TRUE, !.prs = prs]
    <3>2. s.phase = "PRProposed"
      BY <1>1, <1>2 DEF PointerSpec
    <3>1. s \in PointerSpec /\ CondocFits(s, slop[c], branches[c], gh)
      <4>. HIDE DEF s
      <4>1. s \in {[spec[c] EXCEPT !.phase = "PROpen", !.error = FALSE, !.prs = prs],
                            [spec[c] EXCEPT !.error = TRUE, !.prs = prs]}
        BY DEF s
      <4>. QED
        BY <1>11, <3>2, <4>1
    <3>. QED
      BY <2>2, <3>1
  <2>. QED
    BY <1>6, <2>1, <2>2
<1>13. /\ spec' \in [Held -> PointerSpec] /\ spec'[c] = s
       /\ github' \in [Held -> [PRRepos -> PRStates]] /\ github'[c] = gh
       /\ \A d \in Held \ {c} : spec'[d] = spec[d] /\ github'[d] = github[d]
  BY <1>3, <1>4, <1>12 DEF InteractionsInv, InteractionsTyped, WorldTyped, gh
<1>14. /\ UsedTyped' /\ claimed' = claimed /\ queue' = queue /\ turn' = turn /\ tick' = tick
  BY <1>1, UsedByRequest, UsedStays DEF Loops
<1>15. /\ OnlyCondoc(c) /\ WorldTyped' /\ claimed' \in [Held -> {"free", "ui", "tick", "turn"}] /\ queue' \in Seq(Held)
  BY <1>1, <1>13, <1>14 DEF OnlyCondoc, InteractionsInv, InteractionsTyped, WorldTyped, LoopsTyped
<1>. QED
  BY <1>1, <1>2, <1>12, <1>13, <1>14, <1>15, RequestKept

\* They are merged, the repositories of targets first.
LEMMA MergeKept ==
    ASSUME InteractionsInv, NEW c \in Held, slopMerge(c) PROVE InteractionsInv'
<1>. DEFINE whole == MergedBefore(c, CondocRepo + 1)
            sM == [spec[c] EXCEPT !.phase = "Merged", !.error = FALSE, !.prs = whole]
<1>1. /\ spec[c].phase = "PROpen" /\ claimed[c] = "free"
      /\ UNCHANGED <<branches, path, signals, Loops>>
      /\ Mishap \/ Request(c)
  BY DEF slopMerge, Request
<1>2. /\ spec[c] \in PointerSpec /\ slop[c] \in Slops /\ CondocFits(spec[c], slop[c], branches[c], github[c])
      /\ branches[c] \in [Repos -> Branches] /\ github[c] \in [PRRepos -> PRStates] /\ WorldFits(slop[c], branches[c])
      /\ spec[c].prs \in [PRRepos -> PRStates]
  BY CondocAt DEF PointerSpec, PRStates
<1>3. /\ PhaseOf(spec[c]) = "PROpen" /\ ~IsFinal(spec[c].phase) /\ spec[c].stage = "none"
      /\ spec[c].prs[CondocRepo] # "none" /\ spec[c].prs[CondocRepo] # "merged"
      /\ \A t \in Repos : \A p \in 1 .. Len(branches[c][t].origin) :
            branches[c][t].origin[p] # 0 => spec[c].prs[t] # "none"
  BY <1>1, <1>2 DEF PhaseOf, IsFinal, CondocFits, PhaseFits, MergesFit
<1>4. ASSUME NEW r \in Int
      PROVE  /\ MergedBefore(c, r) \in [PRRepos -> PRStates]
             /\ OnGitHub(c, MergedBefore(c, r)) \in [PRRepos -> PRStates]
             /\ \A q \in PRRepos : /\ MergedBefore(c, r)[q] = (IF spec[c].prs[q] # "none" /\ q < r THEN "merged" ELSE spec[c].prs[q])
                                   /\ MergedBefore(c, r)[q] = "merged" => OnGitHub(c, MergedBefore(c, r))[q] = "merged"
  BY <1>2 DEF MergedBefore, OnGitHub, PRStates
<1>5. CASE /\ github' = [github EXCEPT ![c] = OnGitHub(c, whole)] /\ spec' = [spec EXCEPT ![c] = sM]
           /\ slop' = slop \/ slop' = [slop EXCEPT ![c] = NoSlop]
  <2>. DEFINE gh == OnGitHub(c, whole)
  <2>0. CondocRepo + 1 \in Int
    BY V2Numbers
  <2>1. /\ whole \in [PRRepos -> PRStates] /\ gh \in [PRRepos -> PRStates]
        /\ \A q \in PRRepos : /\ whole[q] = (IF spec[c].prs[q] # "none" /\ q < CondocRepo + 1 THEN "merged" ELSE spec[c].prs[q])
                              /\ whole[q] = "merged" => gh[q] = "merged"
    BY <1>4, <2>0
  <2>2. \A q \in PRRepos : spec[c].prs[q] # "none" => whole[q] = "merged" /\ gh[q] = "merged"
    <3>1. \A q \in PRRepos : q < CondocRepo + 1
      BY V2Numbers
    <3>. QED
      BY <2>1, <3>1
  <2>3. \A q \in PRRepos : whole[q] # "open"
    BY <2>1, <2>2
  <2>. HIDE DEF whole, gh
  <2>4. /\ sM \in PointerSpec /\ sM.phase = "Merged" /\ sM.from = spec[c].from /\ sM.stage = spec[c].stage
        /\ sM.done = spec[c].done /\ sM.prs = whole
    BY <1>2, <2>1 DEF PointerSpec, Phase, PRStates
  <2>. HIDE DEF sM
  <2>5. PhaseOf(sM) = "Merged" /\ ~IsFinal(sM.phase)
    BY <2>4 DEF PhaseOf, IsFinal
  <2>6. PhaseFits(sM)
    BY <1>2, <1>3, <2>4, <2>5 DEF CondocFits, PhaseFits
  <2>7. MergesFit(sM, branches[c], gh)
    BY <1>3, <2>2, <2>3, <2>4, <2>5, V2Numbers DEF MergesFit
  <2>8. \A t \in Repos : CommitsFit(sM, branches[c][t], t)
    BY <1>2, <1>3, <2>4 DEF CondocFits, CommitsFit, Submitted
  <2>9. NoSlop \in Slops /\ NoSlop.file = << >> /\ Len(NoSlop.file) = 0 /\ ~NoSlop.exists /\ NoSlop.pushed = 0
    <3>1. << >> \in Seq(Headings) /\ Len(<< >>) = 0
      BY EmptySeq
    <3>. QED
      BY <3>1 DEF NoSlop, Slops
  <2>10. ASSUME NEW sl \in {slop[c], NoSlop}
         PROVE  WorldFits(sl, branches[c]) /\ SectionsFit(sM, sl)
    <3>1. CASE sl = slop[c]
      BY <1>2, <1>3, <2>4, <2>5, <3>1 DEF CondocFits, SectionsFit
    <3>2. CASE sl = NoSlop
      <4>1. WorldFits(NoSlop, branches[c])
        BY <1>2, <2>9 DEF WorldFits, FileInOrder
      <4>2. SectionsFit(sM, NoSlop)
        BY <2>5, <2>9 DEF SectionsFit
      <4>. QED
        BY <3>2, <4>1, <4>2
    <3>. QED
      BY <3>1, <3>2
  <2>11. /\ spec' \in [Held -> PointerSpec] /\ spec'[c] = sM
         /\ github' \in [Held -> [PRRepos -> PRStates]] /\ github'[c] = gh
         /\ slop' \in [Held -> Slops] /\ slop'[c] \in {slop[c], NoSlop}
         /\ \A d \in Held \ {c} : spec'[d] = spec[d] /\ github'[d] = github[d] /\ slop'[d] = slop[d]
    BY <1>5, <2>1, <2>4, <2>9 DEF InteractionsInv, InteractionsTyped, WorldTyped, gh
  <2>12. UsedTyped' /\ claimed' = claimed /\ queue' = queue /\ turn' = turn /\ tick' = tick
    BY <1>1, UsedByRequest, UsedStays DEF Loops
  <2>13. /\ OnlyCondoc(c) /\ WorldTyped' /\ claimed' \in [Held -> {"free", "ui", "tick", "turn"}] /\ queue' \in Seq(Held)
    BY <1>1, <2>11, <2>12 DEF OnlyCondoc, InteractionsInv, InteractionsTyped, WorldTyped, LoopsTyped
  <2>14. WorldFits(slop'[c], branches[c]) /\ CondocFits(sM, slop'[c], branches[c], gh)
    BY <2>6, <2>7, <2>8, <2>10, <2>11 DEF CondocFits
  <2>. QED
    BY <1>1, <2>11, <2>12, <2>13, <2>14, RequestKept
<1>6. ASSUME NEW r \in PRRepos, github' = [github EXCEPT ![c] = OnGitHub(c, MergedBefore(c, r))],
             spec' = [spec EXCEPT ![c] = [spec[c] EXCEPT !.error = TRUE, !.prs = MergedBefore(c, r)]],
             slop' = slop
      PROVE  InteractionsInv'
  <2>. DEFINE prs == MergedBefore(c, r)
              gh == OnGitHub(c, prs)
              s == [spec[c] EXCEPT !.error = TRUE, !.prs = prs]
  <2>0. r \in Int /\ ~(CondocRepo < r) /\ CondocRepo \in PRRepos
    BY V2Numbers
  <2>1. /\ prs \in [PRRepos -> PRStates] /\ gh \in [PRRepos -> PRStates]
        /\ \A q \in PRRepos : prs[q] = (IF spec[c].prs[q] # "none" /\ q < r THEN "merged" ELSE spec[c].prs[q])
    BY <1>4, <2>0
  <2>2. /\ prs[CondocRepo] = spec[c].prs[CondocRepo]
        /\ \A q \in PRRepos : spec[c].prs[q] # "none" => prs[q] # "none"
    BY <2>0, <2>1
  <2>. HIDE DEF prs, gh
  <2>3. /\ s \in PointerSpec /\ s.phase = "PROpen" /\ s.from = spec[c].from /\ s.stage = spec[c].stage
        /\ s.done = spec[c].done /\ s.prs = prs
    BY <1>1, <1>2, <2>1 DEF PointerSpec, PRStates
  <2>4. spec' = [spec EXCEPT ![c] = s] /\ github' = [github EXCEPT ![c] = gh]
    BY <1>6 DEF prs, gh
  <2>. HIDE DEF s
  <2>5. PhaseOf(s) = "PROpen" /\ ~IsFinal(s.phase)
    BY <2>3 DEF PhaseOf, IsFinal
  <2>6. PhaseFits(s) /\ SectionsFit(s, slop[c])
    BY <1>2, <1>3, <2>3, <2>5 DEF CondocFits, PhaseFits, SectionsFit
  <2>7. MergesFit(s, branches[c], gh)
    BY <1>3, <2>2, <2>3, <2>5, V2Numbers DEF MergesFit
  <2>8. \A t \in Repos : CommitsFit(s, branches[c][t], t)
    BY <1>2, <1>3, <2>3 DEF CondocFits, CommitsFit, Submitted
  <2>11. /\ spec' \in [Held -> PointerSpec] /\ spec'[c] = s
         /\ github' \in [Held -> [PRRepos -> PRStates]] /\ github'[c] = gh
         /\ \A d \in Held \ {c} : spec'[d] = spec[d] /\ github'[d] = github[d]
    BY <2>1, <2>3, <2>4 DEF InteractionsInv, InteractionsTyped, WorldTyped
  <2>12. UsedTyped' /\ claimed' = claimed /\ queue' = queue /\ turn' = turn /\ tick' = tick
    BY <1>1, UsedByRequest, UsedStays DEF Loops
  <2>13. /\ OnlyCondoc(c) /\ WorldTyped' /\ claimed' \in [Held -> {"free", "ui", "tick", "turn"}] /\ queue' \in Seq(Held)
    BY <1>1, <1>6, <2>11, <2>12 DEF OnlyCondoc, InteractionsInv, InteractionsTyped, WorldTyped, LoopsTyped
  <2>14. CondocFits(s, slop[c], branches[c], gh)
    BY <2>6, <2>7, <2>8 DEF CondocFits
  <2>. QED
    BY <1>1, <1>2, <1>6, <2>11, <2>12, <2>13, <2>14, RequestKept
<1>. QED
  BY <1>5, <1>6 DEF slopMerge, writeSpec

\* Final is a mark: the phase it was in stays in from.
LEMMA FinalKept ==
    ASSUME InteractionsInv, NEW c \in Held, slopArchive(c) \/ slopAbandon(c) \/ slopUnabandon(c)
    PROVE  InteractionsInv'
<1>1. PICK s : /\ spec' = [spec EXCEPT ![c] = s] 
               /\ \/ /\ spec[c].phase = "Merged" /\ s = [spec[c] EXCEPT !.from = spec[c].phase, !.phase = "Archived"]
                  \/ /\ spec[c].phase \notin {"absent", "Merged", "Archived", "Abandoned"}
                     /\ s = [spec[c] EXCEPT !.from = spec[c].phase, !.phase = "Abandoned"]
                  \/ /\ spec[c].phase = "Abandoned"
                     /\ s = [spec[c] EXCEPT !.phase = spec[c].from, !.from = "absent"]
  BY DEF slopArchive, slopAbandon, slopUnabandon, finalize, writeSpec
<1>2. /\ claimed[c] = "free" /\ UNCHANGED <<World, claimed, turn, tick>> /\ UsedTyped'
      /\ dequeue(c) \/ queue' = queue
  BY UsedByRequest DEF slopArchive, slopAbandon, slopUnabandon, Request, Loops
<1>3. queue' \in Seq(Held)
  BY <1>2, Dequeued DEF InteractionsInv, InteractionsTyped, LoopsTyped
<1>4. /\ spec[c] \in PointerSpec /\ slop[c] \in Slops /\ CondocFits(spec[c], slop[c], branches[c], github[c])
  BY CondocAt
<1>5. /\ s \in PointerSpec /\ s.stage = spec[c].stage /\ s.done = spec[c].done
      /\ s.bases = spec[c].bases /\ s.heads = spec[c].heads /\ s.prs = spec[c].prs
      /\ \/ spec[c].phase = "Merged" /\ s.phase = "Archived" /\ s.from = "Merged"
         \/ /\ spec[c].phase \notin {"absent", "Merged", "Archived", "Abandoned"}
            /\ s.phase = "Abandoned" /\ s.from = spec[c].phase
         \/ spec[c].phase = "Abandoned" /\ s.phase = spec[c].from /\ s.from = "absent"
  BY <1>1, <1>4 DEF PointerSpec, Phase
<1>6. PhaseFits(spec[c])
  BY <1>4 DEF CondocFits
<1>7. PhaseOf(s) = PhaseOf(spec[c])
  BY <1>5, <1>6 DEF PhaseFits, PhaseOf, IsFinal
<1>8. PhaseFits(s)
  BY <1>5, <1>6, <1>7 DEF PhaseFits, IsFinal
<1>9. SectionsFit(s, slop[c]) /\ MergesFit(s, branches[c], github[c])
  BY <1>4, <1>5, <1>7 DEF CondocFits, SectionsFit, MergesFit
<1>10. \A t \in Repos : CommitsFit(s, branches[c][t], t)
  BY <1>4, <1>5 DEF CondocFits, CommitsFit
<1>11. CondocFits(s, slop[c], branches[c], github[c])
  BY <1>8, <1>9, <1>10 DEF CondocFits
<1>. QED
  BY <1>1, <1>2, <1>3, <1>5, <1>11, SpecKept

\* Every request of the user interface.
LEMMA RequestsKept ==
    ASSUME InteractionsInv, NEW c \in Held, Inserts(c) \/ Requests(c) PROVE InteractionsInv'
BY ProposeKept, AcceptKept, AcceptFailsKept, PromptKept, SubmitKept, ResubmitKept, InsertKept,
   InsertFailsKept, DraftKept, RaiseKept, MergeKept, FinalKept DEF Inserts, Requests

-----------------------------------------------------------------------------
\* The worker, other services and others' pushes move what stands of a condoc
\* under whatever pointer it has.
LEMMA WorldMoves ==
    ASSUME InteractionsInv, UNCHANGED <<spec, Loops>>, WorldTyped', UsedTyped',
           \A c \in Held : /\ WorldFits(slop'[c], branches'[c])
                           /\ \A s \in PointerSpec :
                                CondocFits(s, slop[c], branches[c], github[c])
                                => CondocFits(s, slop'[c], branches'[c], github'[c])
    PROVE  InteractionsInv'
<1>1. spec' = spec /\ claimed' = claimed /\ queue' = queue /\ turn' = turn /\ tick' = tick
  BY DEF Loops
<1>2. InteractionsTyped'
  BY <1>1 DEF InteractionsInv, InteractionsTyped, LoopsTyped
<1>3. turn.spec \in PointerSpec
  BY DEF InteractionsInv, InteractionsTyped, LoopsTyped
<1>4. TurnFits'
  BY <1>1, <1>3 DEF InteractionsInv, TurnFits
<1>5. \A c \in Held : spec[c] \in PointerSpec
  BY DEF InteractionsInv, InteractionsTyped
<1>. QED
  BY <1>1, <1>2, <1>4, <1>5 DEF InteractionsInv

\* A signal in another state is a signal.
LEMMA SignalMoves ==
    ASSUME InteractionsInv, NEW c \in Held, NEW i \in DOMAIN signals[c], NEW x \in SignalStates,
           signals' = [signals EXCEPT ![c][i] = x]
    PROVE  signals' \in [Held -> Seq(SignalStates)]
<1>1. signals \in [Held -> Seq(SignalStates)] /\ signals[c] \in Seq(SignalStates)
  BY DEF InteractionsInv, InteractionsTyped, WorldTyped
<1>2. [signals[c] EXCEPT ![i] = x] \in Seq(SignalStates)
  BY <1>1, ExceptSeq
<1>. QED
  BY <1>1, <1>2

\* A worker takes a signal, answers it or dies.
LEMMA WorkerKept ==
    ASSUME InteractionsInv, NEW c \in Held, NEW i \in DOMAIN signals[c],
           WorkerTakes(c, i) \/ WorkerCompletes(c, i) \/ WorkerDies(c, i)
    PROVE  InteractionsInv'
<1>1. /\ UNCHANGED <<spec, branches, github, path, Loops>> /\ (Mishap \/ UNCHANGED used)
      /\ \E x \in SignalStates : signals' = [signals EXCEPT ![c][i] = x]
  BY DEF WorkerTakes, WorkerCompletes, WorkerDies, SignalStates
<1>2. signals' \in [Held -> Seq(SignalStates)] /\ UsedTyped'
  BY <1>1, SignalMoves, UsedStays
<1>3. slop \in [Held -> Slops]
  BY DEF InteractionsInv, InteractionsTyped, WorldTyped
<1>4. \/ slop' = slop
      \/ /\ path \in Held
         /\ \E E \in SUBSET Repos : slop' = [slop EXCEPT ![path].edits = [t \in Repos |-> @[t] \/ t \in E]]
  BY DEF WorkerTakes, WorkerCompletes, WorkerDies
<1>5. /\ slop' \in [Held -> Slops]
      /\ \A d \in Held : /\ slop'[d].exists = slop[d].exists /\ slop'[d].file = slop[d].file
                         /\ slop'[d].pushed = slop[d].pushed
  <2>1. CASE slop' = slop
    BY <1>3, <2>1
  <2>2. ASSUME path \in Held, NEW E \in SUBSET Repos,
               slop' = [slop EXCEPT ![path].edits = [t \in Repos |-> @[t] \/ t \in E]]
        PROVE  /\ slop' \in [Held -> Slops]
               /\ \A d \in Held : /\ slop'[d].exists = slop[d].exists /\ slop'[d].file = slop[d].file
                                  /\ slop'[d].pushed = slop[d].pushed
    <3>. DEFINE e == [t \in Repos |-> slop[path].edits[t] \/ t \in E]
                sl == [slop[path] EXCEPT !.edits = e]
    <3>1. slop[path] \in Slops /\ slop[path].edits \in [Repos -> BOOLEAN]
      BY <1>3, <2>2 DEF Slops
    <3>2. e \in [Repos -> BOOLEAN]
      BY <3>1
    <3>3. slop' = [slop EXCEPT ![path] = sl]
      BY <2>2
    <3>. HIDE DEF e
    <3>4. sl \in Slops /\ sl.exists = slop[path].exists /\ sl.file = slop[path].file /\ sl.pushed = slop[path].pushed
      BY <3>1, <3>2 DEF Slops
    <3>. HIDE DEF sl
    <3>. QED
      BY <1>3, <2>2, <3>3, <3>4
  <2>. QED
    BY <1>4, <2>1, <2>2
<1>6. WorldTyped' /\ branches' = branches /\ github' = github
  BY <1>1, <1>2, <1>5 DEF InteractionsInv, InteractionsTyped, WorldTyped
<1>7. ASSUME NEW d \in Held
      PROVE  /\ WorldFits(slop'[d], branches'[d])
             /\ \A s \in PointerSpec :
                  CondocFits(s, slop[d], branches[d], github[d])
                  => CondocFits(s, slop'[d], branches'[d], github'[d])
  <2>1. /\ slop[d] \in Slops /\ slop'[d] \in Slops /\ WorldFits(slop[d], branches[d])
        /\ branches[d] \in [Repos -> Branches] /\ github[d] \in [PRRepos -> PRStates]
    BY <1>5, CondocAt
  <2>2. WorldFits(slop'[d], branches[d])
    BY <1>5, <2>1, SameWorld
  <2>3. ASSUME NEW s \in PointerSpec, CondocFits(s, slop[d], branches[d], github[d])
        PROVE  CondocFits(s, slop'[d], branches[d], github[d])
    BY <1>5, <2>1, <2>3, SameFits
  <2>. QED
    BY <1>6, <2>2, <2>3
<1>8. UNCHANGED <<spec, Loops>>
  BY <1>1
<1>. QED
  BY <1>2, <1>6, <1>7, <1>8, WorldMoves

\* Somebody else pushes to a branch.
LEMMA OutsidePushKept ==
    ASSUME InteractionsInv, NEW c \in Held, NEW t \in Repos, OutsidePush(c, t) PROVE InteractionsInv'
<1>. DEFINE b == branches[c][t]
            b2 == [b EXCEPT !.origin = Append(@, 0)]
            br2 == [branches[c] EXCEPT ![t] = b2]
<1>1. /\ Mishap /\ UNCHANGED <<spec, slop, github, path, signals, Loops>>
      /\ branches' = [branches EXCEPT ![c] = br2]
  BY DEF OutsidePush
<1>2. branches \in [Held -> [Repos -> Branches]] /\ branches[c] \in [Repos -> Branches] /\ b \in Branches
  BY DEF InteractionsInv, InteractionsTyped, WorldTyped
<1>. HIDE DEF b
<1>3. /\ b2 \in Branches /\ b2.known = b.known /\ b2.ahead = b.ahead
      /\ Len(b2.origin) = Len(b.origin) + 1
      /\ \A p \in 1 .. Len(b2.origin) :
            b2.origin[p] # 0 => p \in 1 .. Len(b.origin) /\ b2.origin[p] = b.origin[p]
  BY <1>2, BranchPushed
<1>. HIDE DEF b2
<1>4. /\ BranchFits(b) => BranchFits(b2)
      /\ \A r : RecordFits(r, b, t) => RecordFits(r, b2, t)
      /\ \A s \in PointerSpec : CommitsFit(s, b, t) => CommitsFit(s, b2, t)
  BY <1>2, <1>3, PushedFits
<1>5. /\ br2 \in [Repos -> Branches] /\ br2[t] = b2 /\ \A u \in Repos \ {t} : br2[u] = branches[c][u]
      /\ branches[c][t] = b
  BY <1>2, <1>3 DEF b
<1>. HIDE DEF br2
<1>6. /\ branches' \in [Held -> [Repos -> Branches]] /\ branches'[c] = br2
      /\ \A d \in Held \ {c} : branches'[d] = branches[d]
  BY <1>1, <1>2, <1>5
<1>7. WorldTyped' /\ UsedTyped' /\ slop' = slop /\ github' = github
  BY <1>1, <1>6, UsedStays DEF InteractionsInv, InteractionsTyped, WorldTyped
<1>8. ASSUME NEW u \in Repos
      PROVE  /\ BranchFits(branches[c][u]) => BranchFits(br2[u])
             /\ br2[u].known = branches[c][u].known
             /\ \A r : RecordFits(r, branches[c][u], u) => RecordFits(r, br2[u], u)
             /\ \A s \in PointerSpec : CommitsFit(s, branches[c][u], u) => CommitsFit(s, br2[u], u)
             /\ \A p \in 1 .. Len(br2[u].origin) : br2[u].origin[p] # 0 =>
                   p \in 1 .. Len(branches[c][u].origin) /\ br2[u].origin[p] = branches[c][u].origin[p]
  BY <1>3, <1>4, <1>5
<1>9. WorldFits(slop[c], br2)
  BY <1>8, CondocAt DEF WorldFits
<1>10. ASSUME NEW s \in PointerSpec, CondocFits(s, slop[c], branches[c], github[c])
       PROVE  CondocFits(s, slop[c], br2, github[c])
  <2>1. MergesFit(s, br2, github[c])
    <3>1. MergesFit(s, branches[c], github[c])
      BY <1>10 DEF CondocFits
    <3>2. ASSUME NEW u \in Repos, NEW p \in 1 .. Len(br2[u].origin), br2[u].origin[p] # 0
          PROVE  p \in 1 .. Len(branches[c][u].origin) /\ branches[c][u].origin[p] # 0
      <4>1. p \in 1 .. Len(branches[c][u].origin) /\ br2[u].origin[p] = branches[c][u].origin[p]
        BY <1>8, <3>2
      <4>. QED
        BY <3>2, <4>1
    <3>. QED
      BY <3>1, <3>2 DEF MergesFit
  <2>. QED
    BY <1>8, <1>10, <2>1 DEF CondocFits
<1>11. ASSUME NEW d \in Held
       PROVE  /\ WorldFits(slop'[d], branches'[d])
              /\ \A s \in PointerSpec :
                   CondocFits(s, slop[d], branches[d], github[d])
                   => CondocFits(s, slop'[d], branches'[d], github'[d])
  <2>1. CASE d = c
    BY <1>6, <1>7, <1>9, <1>10, <2>1
  <2>2. CASE d # c
    BY <1>6, <1>7, <2>2, CondocAt
  <2>. QED
    BY <2>1, <2>2
<1>12. UNCHANGED <<spec, Loops>>
  BY <1>1
<1>. QED
  BY <1>7, <1>11, <1>12, WorldMoves

\* Somebody merges a pull request by hand.
LEMMA MergedByHandKept ==
    ASSUME InteractionsInv, NEW c \in Held, NEW r \in PRRepos, MergedByHand(c, r) PROVE InteractionsInv'
<1>. DEFINE gh == [github[c] EXCEPT ![r] = "merged"]
<1>1. /\ Mishap /\ UNCHANGED <<spec, slop, branches, path, signals, Loops>>
      /\ github' = [github EXCEPT ![c] = gh]
  BY DEF MergedByHand
<1>2. github \in [Held -> [PRRepos -> PRStates]] /\ github[c] \in [PRRepos -> PRStates]
  BY DEF InteractionsInv, InteractionsTyped, WorldTyped
<1>3. gh \in [PRRepos -> PRStates] /\ \A q \in PRRepos : github[c][q] = "merged" => gh[q] = "merged"
  BY <1>2 DEF PRStates
<1>. HIDE DEF gh
<1>4. /\ github' \in [Held -> [PRRepos -> PRStates]] /\ github'[c] = gh
      /\ \A d \in Held \ {c} : github'[d] = github[d]
  BY <1>1, <1>2, <1>3
<1>5. WorldTyped' /\ UsedTyped' /\ slop' = slop /\ branches' = branches
  BY <1>1, <1>4, UsedStays DEF InteractionsInv, InteractionsTyped, WorldTyped
<1>6. ASSUME NEW d \in Held
      PROVE  /\ WorldFits(slop'[d], branches'[d])
             /\ \A s \in PointerSpec :
                  CondocFits(s, slop[d], branches[d], github[d])
                  => CondocFits(s, slop'[d], branches'[d], github'[d])
  <2>1. CASE d = c
    <3>1. ASSUME NEW s \in PointerSpec, CondocFits(s, slop[c], branches[c], github[c])
          PROVE  CondocFits(s, slop[c], branches[c], gh)
      BY <1>2, <1>3, <3>1, CondocAt, SameFits
    <3>. QED
      BY <1>4, <1>5, <2>1, <3>1, CondocAt
  <2>2. CASE d # c
    BY <1>4, <1>5, <2>2, CondocAt
  <2>. QED
    BY <2>1, <2>2
<1>7. UNCHANGED <<spec, Loops>>
  BY <1>1
<1>. QED
  BY <1>5, <1>6, <1>7, WorldMoves

\* What happens around condocv2.
LEMMA SurroundingsKept ==
    ASSUME InteractionsInv, Surroundings PROVE InteractionsInv'
<1>1. CASE OtherDeploys \/ OtherReturns
  <2>1. /\ UNCHANGED <<spec, slop, branches, github, signals, Loops>> /\ (Mishap \/ UNCHANGED used)
        /\ path' \in {Nobody, Other}
    BY <1>1 DEF OtherDeploys, OtherReturns
  <2>2. WorldTyped' /\ UsedTyped' /\ slop' = slop /\ branches' = branches /\ github' = github
    BY <2>1, UsedStays DEF InteractionsInv, InteractionsTyped, WorldTyped
  <2>3. UNCHANGED <<spec, Loops>>
    BY <2>1
  <2>4. \A c \in Held : WorldFits(slop[c], branches[c])
    BY CondocAt
  <2>. QED
    BY <2>2, <2>3, <2>4, WorldMoves
<1>2. CASE Restarts
  <2>1. /\ UNCHANGED <<spec, World>> /\ Mishap
        /\ claimed' = [c \in Held |-> "free"] /\ queue' = <<>> /\ turn' = NoTurn
        /\ tick' = [c \in Held |-> "seen"]
    BY <1>2 DEF Restarts
  <2>2. turn'.at = "idle" /\ turn' \in [at : {"idle", "stage", "save", "failed", "ended"}, of : Held \cup {Nobody}, spec : PointerSpec]
    BY <2>1, NoSpecTyped DEF NoTurn
  <2>3. LoopsTyped'
    <3>1. << >> \in Seq(Held)
      BY EmptySeq
    <3>. QED
      BY <2>1, <2>2, <3>1 DEF LoopsTyped
  <2>4. WorldTyped' /\ UsedTyped' /\ spec' = spec /\ slop' = slop /\ branches' = branches /\ github' = github
    BY <2>1, UsedStays DEF World, InteractionsInv, InteractionsTyped, WorldTyped
  <2>5. TurnFits'
    BY <2>2 DEF TurnFits
  <2>. QED
    BY <2>3, <2>4, <2>5 DEF InteractionsInv, InteractionsTyped
<1>3. ASSUME NEW c \in Held, \E i \in DOMAIN signals[c] :
                WorkerTakes(c, i) \/ WorkerCompletes(c, i) \/ WorkerDies(c, i)
      PROVE  InteractionsInv'
  BY <1>3, WorkerKept
<1>. QED
  BY <1>1, <1>2, <1>3, OutsidePushKept, MergedByHandKept DEF Surroundings

\* Every step of condocv2, its workers and what is around it keeps the
\* invariant.
LEMMA InteractionsKept ==
    ASSUME InteractionsInv, [InteractionsNext]_v2Vars PROVE InteractionsInv'
<1>1. CASE InteractionsNext
  BY <1>1, TurnStepKept, TicksKept, SurroundingsKept, RequestsKept DEF InteractionsNext
<1>2. CASE UNCHANGED v2Vars
  <2>1. UNCHANGED <<spec, slop, branches, github, path, claimed, queue, turn, tick, signals, used>>
    BY <1>2 DEF v2Vars
  <2>2. WorldTyped' /\ UsedTyped' /\ slop' = slop /\ branches' = branches /\ github' = github
    BY <2>1 DEF InteractionsInv, InteractionsTyped, WorldTyped, UsedTyped
  <2>3. UNCHANGED <<spec, Loops>>
    BY <2>1 DEF Loops
  <2>4. \A c \in Held : WorldFits(slop[c], branches[c])
    BY CondocAt
  <2>. QED
    BY <2>2, <2>3, <2>4, WorldMoves
<1>. QED
  BY <1>1, <1>2

-----------------------------------------------------------------------------
\* The pointers condocv2 starts on.
LEMMA FirstSpecs ==
    ASSUME NEW k \in Beginning
    PROVE  LET s == StartSpec(k) IN
           /\ s \in PointerSpec /\ s.from = "absent" /\ s.bases = NoBases /\ s.prs[CondocRepo] = "none"
           /\ k = "proposed" => s.phase = "Proposed" /\ s.stage = "none" /\ s.done = 0
           /\ k = "begun" => s.phase = "AwaitingPrompt" /\ s.stage = "none" /\ s.done = 0
           /\ k = "queued" => s.phase = "Locked" /\ s.stage = "queued" /\ s.done = 0
           /\ k = "drafted" => s.phase = "PRProposed" /\ s.stage = "none" /\ s.done = 1
<1>1. NoSpec \in PointerSpec /\ 1 \in 0 .. MaxInteractions
  BY NoSpecTyped, V2Numbers
<1>2. /\ NoSpec.from = "absent" /\ NoSpec.bases = NoBases /\ NoSpec.prs[CondocRepo] = "none"
      /\ NoSpec.stage = "none" /\ NoSpec.done = 0
  BY V2Numbers DEF NoSpec
<1>. HIDE DEF NoSpec
<1>3. CASE k = "proposed"
  BY <1>1, <1>2, <1>3 DEF StartSpec, PointerSpec, Phase
<1>4. CASE k = "begun"
  BY <1>1, <1>2, <1>4 DEF StartSpec, PointerSpec, Phase
<1>5. CASE k = "queued"
  BY <1>1, <1>2, <1>5 DEF StartSpec, PointerSpec, Phase, Stage
<1>6. CASE k = "drafted"
  BY <1>1, <1>2, <1>6 DEF StartSpec, PointerSpec, Phase
<1>. QED
  BY <1>3, <1>4, <1>5, <1>6 DEF Beginning

\* The slopspaces condocs begin with.
LEMMA FirstSlops ==
    /\ NoSlop \in Slops /\ NoSlop.file = << >> /\ NoSlop.pushed = 0 /\ ~NoSlop.exists
    /\ BegunSlop \in Slops /\ BegunSlop.file = << >> /\ BegunSlop.pushed = 0 /\ BegunSlop.exists
    /\ QueuedSlop \in Slops /\ QueuedSlop.file = <<PromptOf(1)>> /\ QueuedSlop.pushed = 1 /\ QueuedSlop.exists
    /\ DraftedSlop \in Slops /\ DraftedSlop.pushed = 3 /\ DraftedSlop.exists
    /\ DraftedSlop.file = Interaction(1, [t \in Repos |-> 1], [t \in Repos |-> 2])
<1>1. << >> \in Seq(Headings)
  BY EmptySeq
<1>2. NoSlop \in Slops /\ NoSlop.file = << >> /\ NoSlop.pushed = 0 /\ ~NoSlop.exists
  BY <1>1 DEF NoSlop, Slops
<1>3. PromptOf(1) \in Headings /\ ResponseOf(1) \in Headings
  BY HeadingTyped
<1>4. Heading("Record", 1, [t \in Repos |-> 1], [t \in Repos |-> 2]) \in Headings
  BY DEF Heading, Headings
<1>5. <<PromptOf(1)>> \in Seq(Headings)
  BY <1>3
<1>. DEFINE i == Interaction(1, [t \in Repos |-> 1], [t \in Repos |-> 2])
<1>6. i \in Seq(Headings)
  BY <1>3, <1>4 DEF Interaction
<1>. HIDE DEF i
<1>. DEFINE p == <<PromptOf(1)>>
<1>. HIDE DEF p
<1>7. BegunSlop \in Slops /\ BegunSlop.file = << >> /\ BegunSlop.pushed = 0 /\ BegunSlop.exists
  BY <1>2 DEF BegunSlop, Slops
<1>8. QueuedSlop \in Slops /\ QueuedSlop.file = p /\ QueuedSlop.pushed = 1 /\ QueuedSlop.exists
  BY <1>5, <1>7 DEF QueuedSlop, Slops, p
<1>9. DraftedSlop \in Slops /\ DraftedSlop.pushed = 3 /\ DraftedSlop.exists /\ DraftedSlop.file = i
  BY <1>6, <1>7 DEF DraftedSlop, Slops, i
<1>. QED
  BY <1>2, <1>7, <1>8, <1>9 DEF p, i

FirstSlop(k) == CASE k = "proposed" -> NoSlop [] k = "begun" -> BegunSlop
                  [] k = "queued" -> QueuedSlop [] k = "drafted" -> DraftedSlop
DraftedBranch == [origin |-> <<0, 1>>, known |-> 2, ahead |-> << >>]
FirstBranch(k) == CASE k = "proposed" -> NoBranch [] k \in {"begun", "queued"} -> NewBranch
                    [] k = "drafted" -> DraftedBranch

\* The branch of a condoc that begins after its first interaction.
LEMMA DraftedBranchFits ==
    /\ DraftedBranch \in Branches /\ BranchFits(DraftedBranch) /\ DraftedBranch.known = 2
    /\ Len(DraftedBranch.origin) = 2 /\ Len(DraftedBranch.ahead) = 0
    /\ DraftedBranch.origin[1] = 0 /\ DraftedBranch.origin[2] = 1
<1>1. 0 \in 0 .. MaxInteractions /\ 1 \in 0 .. MaxInteractions
  BY V2Numbers
<1>2. << >> \in Seq(0 .. MaxInteractions) /\ Len(<< >>) = 0
  BY EmptySeq
<1>3. <<0, 1>> \in Seq(0 .. MaxInteractions) /\ Len(<<0, 1>>) = 2 /\ <<0, 1>>[1] = 0 /\ <<0, 1>>[2] = 1
  BY <1>1
<1>. DEFINE o == <<0, 1>>
<1>. HIDE DEF o
<1>4. /\ DraftedBranch \in Branches /\ DraftedBranch.known = 2 /\ DraftedBranch.origin = o
      /\ DraftedBranch.ahead = << >>
  BY <1>2, <1>3 DEF DraftedBranch, Branches, o
<1>5. Len(o) = 2 /\ o[1] = 0 /\ o[2] = 1
  BY <1>3 DEF o
<1>6. BranchFits(DraftedBranch)
  BY <1>4, <1>5 DEF BranchFits
<1>. QED
  BY <1>2, <1>4, <1>5, <1>6

\* The files and branches of condocs at the beginning fit each other.
LEMMA FirstWorlds ==
    ASSUME NEW k \in Beginning, NEW br, br = [t \in Repos |-> FirstBranch(k)]
    PROVE  br \in [Repos -> Branches] /\ FirstSlop(k) \in Slops /\ WorldFits(FirstSlop(k), br)
<1>1. br \in [Repos -> Branches] /\ \A t \in Repos : br[t] = FirstBranch(k)
  BY FirstBranches, DraftedBranchFits DEF FirstBranch, Beginning
<1>2. FirstSlop(k) \in Slops
  BY FirstSlops DEF FirstSlop, Beginning
<1>3. CASE k = "proposed"
  <2>1. FirstSlop(k) = NoSlop /\ \A t \in Repos : br[t] = NoBranch
    BY <1>1, <1>3 DEF FirstSlop, FirstBranch
  <2>. QED
    BY <1>1, <1>2, <2>1, FirstSlops, FirstBranches, EmptySeq DEF WorldFits, FileInOrder
<1>4. CASE k = "begun"
  <2>1. FirstSlop(k) = BegunSlop /\ \A t \in Repos : br[t] = NewBranch
    BY <1>1, <1>4 DEF FirstSlop, FirstBranch
  <2>. QED
    BY <1>1, <1>2, <2>1, FirstSlops, FirstBranches, EmptySeq DEF WorldFits, FileInOrder
<1>5. CASE k = "queued"
  <2>1. FirstSlop(k) = QueuedSlop /\ \A t \in Repos : br[t] = NewBranch
    BY <1>1, <1>5 DEF FirstSlop, FirstBranch
  <2>. DEFINE file == <<PromptOf(1)>>
  <2>2. Len(file) = 1 /\ file[1].kind = "Prompt" /\ file[1].n = 1
    BY DEF PromptOf, Heading
  <2>3. (1 - 1) % 3 = 0 /\ (1 - 1) \div 3 = 0
    OBVIOUS
  <2>. HIDE DEF file
  <2>4. FileInOrder(file)
    BY <2>2, <2>3 DEF FileInOrder, SectionKinds
  <2>5. QueuedSlop.file = file
    BY FirstSlops DEF file
  <2>6. \A i \in 1 .. Len(file) : file[i].kind # "Record"
    BY <2>2
  <2>. QED
    BY <2>1, <2>2, <2>4, <2>5, <2>6, FirstSlops, FirstBranches DEF WorldFits
<1>6. CASE k = "drafted"
  <2>1. FirstSlop(k) = DraftedSlop /\ \A t \in Repos : br[t] = DraftedBranch
    BY <1>1, <1>6 DEF FirstSlop, FirstBranch
  <2>. DEFINE r == Heading("Record", 1, [t \in Repos |-> 1], [t \in Repos |-> 2])
              file == <<PromptOf(1), ResponseOf(1), r>>
  <2>2. /\ Len(file) = 3 /\ file[1].kind = "Prompt" /\ file[1].n = 1
        /\ file[2].kind = "Response" /\ file[2].n = 1 /\ file[3].kind = "Record" /\ file[3].n = 1
        /\ file[3] = r
    BY DEF PromptOf, ResponseOf, Heading
  <2>3. r.n = 1 /\ \A t \in Repos : r.from[t] = 1 /\ r.to[t] = 2
    BY DEF Heading
  <2>5. DraftedSlop.file = file
    BY FirstSlops DEF Interaction
  <2>. HIDE DEF file, r
  <2>7. ((1 - 1) % 3 = 0 /\ (1 - 1) \div 3 = 0) /\ ((2 - 1) % 3 = 1 /\ (2 - 1) \div 3 = 0) /\ ((3 - 1) % 3 = 2 /\ (3 - 1) \div 3 = 0)
    OBVIOUS
  <2>4. FileInOrder(file)
    <3>1. SUFFICES ASSUME NEW i \in 1 .. 3
                   PROVE  /\ file[i].kind = SectionKinds[((i - 1) % 3) + 1]
                          /\ file[i].n = ((i - 1) \div 3) + 1
      BY <2>2 DEF FileInOrder
    <3>2. i = 1 \/ i = 2 \/ i = 3
      OBVIOUS
    <3>3. CASE i = 1
      BY <3>3, <2>2, <2>7 DEF SectionKinds
    <3>4. CASE i = 2
      BY <3>4, <2>2, <2>7 DEF SectionKinds
    <3>5. CASE i = 3
      BY <3>5, <2>2, <2>7 DEF SectionKinds
    <3>. QED
      BY <3>2, <3>3, <3>4, <3>5
  <2>6. \A t \in Repos : RecordFits(r, DraftedBranch, t)
    BY <2>3, DraftedBranchFits DEF RecordFits
  <2>8. \A i \in 1 .. Len(file) : file[i].kind = "Record" => file[i] = r
    <3>1. SUFFICES ASSUME NEW i \in 1 .. 3, file[i].kind = "Record" PROVE file[i] = r
      BY <2>2
    <3>2. i = 1 \/ i = 2 \/ i = 3
      OBVIOUS
    <3>. QED
      BY <2>2, <3>1, <3>2
  <2>. QED
    BY <2>1, <2>2, <2>4, <2>5, <2>6, <2>8, FirstSlops, DraftedBranchFits DEF WorldFits
<1>. QED
  BY <1>1, <1>2, <1>3, <1>4, <1>5, <1>6 DEF Beginning

\* And their pointers fit them.
LEMMA FirstFits ==
    ASSUME NEW k \in Beginning, NEW br, br = [t \in Repos |-> FirstBranch(k)],
           NEW gh
    PROVE  CondocFits(StartSpec(k), FirstSlop(k), br, gh)
<1>. DEFINE s == StartSpec(k)
            sl == FirstSlop(k)
<1>1. \A t \in Repos : br[t] = FirstBranch(k)
  OBVIOUS
<1>2. /\ s \in PointerSpec /\ s.from = "absent" /\ s.bases = NoBases /\ s.prs[CondocRepo] = "none"
      /\ k = "proposed" => s.phase = "Proposed" /\ s.stage = "none" /\ s.done = 0
      /\ k = "begun" => s.phase = "AwaitingPrompt" /\ s.stage = "none" /\ s.done = 0
      /\ k = "queued" => s.phase = "Locked" /\ s.stage = "queued" /\ s.done = 0
      /\ k = "drafted" => s.phase = "PRProposed" /\ s.stage = "none" /\ s.done = 1
  BY FirstSpecs
<1>. HIDE DEF s
<1>3. PhaseOf(s) = s.phase /\ ~IsFinal(s.phase)
  BY <1>2 DEF PhaseOf, IsFinal, Beginning
<1>4. PhaseFits(s)
  BY <1>2, <1>3, V2Numbers DEF PhaseFits, IsFinal, Beginning
<1>5. SectionsFit(s, sl)
  <2>1. Told("none") = 0 /\ Told("queued") = 1
    BY DEF Told
  <2>2. /\ Len(BegunSlop.file) = 0 /\ Len(QueuedSlop.file) = 1 /\ Len(DraftedSlop.file) = 3
    BY FirstSlops, EmptySeq DEF Interaction
  <2>3. CASE k = "proposed"
    BY <1>2, <1>3, <2>3, FirstSlops DEF FirstSlop, SectionsFit
  <2>4. CASE k = "begun"
    BY <1>2, <1>3, <2>1, <2>2, <2>4, FirstSlops DEF FirstSlop, SectionsFit
  <2>5. CASE k = "queued"
    <3>1. s.stage = "queued" /\ s.done = 0 /\ PhaseOf(s) = "Locked"
      BY <1>2, <1>3, <2>5
    <3>2. sl = QueuedSlop /\ Len(sl.file) = 1 /\ QueuedSlop.exists
      BY <2>2, <2>5, FirstSlops DEF FirstSlop
    <3>3. 3 * s.done + Told(s.stage) = 1
      BY <2>1, <3>1
    <3>. QED
      BY <3>1, <3>2, <3>3, <2>1, FirstSlops DEF SectionsFit
  <2>6. CASE k = "drafted"
    <3>1. s.stage = "none" /\ s.done = 1 /\ PhaseOf(s) = "PRProposed"
      BY <1>2, <1>3, <2>6
    <3>2. sl = DraftedSlop /\ Len(sl.file) = 3
      BY <2>2, <2>6, FirstSlops DEF FirstSlop
    <3>3. 3 * s.done + Told(s.stage) = 3
      BY <2>1, <3>1
    <3>. QED
      BY <3>1, <3>2, <3>3, <2>1, FirstSlops DEF SectionsFit
  <2>. QED
    BY <2>3, <2>4, <2>5, <2>6 DEF Beginning
<1>6. ASSUME NEW t \in Repos
      PROVE  /\ CommitsFit(s, br[t], t)
             /\ k # "drafted" => \A p \in 1 .. Len(br[t].origin) : br[t].origin[p] = 0
  <2>1. CASE k # "drafted"
    <3>1. br[t] \in {NewBranch, NoBranch}
      BY <1>1, <2>1 DEF FirstBranch, Beginning
    <3>2. s.stage \in {"none", "queued"}
      BY <1>2, <2>1 DEF Beginning
    <3>. QED
      BY <1>2, <3>1, <3>2, FreshCommits
  <2>2. CASE k = "drafted"
    <3>1. br[t] = DraftedBranch
      BY <1>1, <2>2 DEF FirstBranch
    <3>2. \A p \in 1 .. 2 : DraftedBranch.origin[p] <= 2 /\ DraftedBranch.origin[p] # 2
      <4>1. SUFFICES ASSUME NEW p \in 1 .. 2 PROVE DraftedBranch.origin[p] <= 2 /\ DraftedBranch.origin[p] # 2
        OBVIOUS
      <4>2. p = 1 \/ p = 2
        OBVIOUS
      <4>. QED
        BY <4>2, DraftedBranchFits
    <3>3. CommitsFit(s, DraftedBranch, t)
      BY <1>2, <2>2, <3>2, DraftedBranchFits DEF CommitsFit, Submitted
    <3>. QED
      BY <2>2, <3>1, <3>3
  <2>. QED
    BY <2>1, <2>2
<1>7. MergesFit(s, br, gh)
  BY <1>2, <1>3, <1>6 DEF MergesFit, Beginning
<1>. QED
  BY <1>4, <1>5, <1>6, <1>7 DEF CondocFits, s

\* condocv2 starts as the invariant says.
LEMMA InteractionsStart ==
    ASSUME InteractionsInit PROVE InteractionsInv
<1>1. PICK start \in Beginnings :
        /\ spec = [c \in Held |-> StartSpec(start[c])]
        /\ slop = [c \in Held |-> FirstSlop(start[c])]
        /\ branches = [c \in Held |-> [t \in Repos |-> FirstBranch(start[c])]]
  BY DEF InteractionsInit, FirstSlop, FirstBranch, DraftedBranch
<1>2. \A c \in Held : start[c] \in Beginning
  BY <1>1, InteractionsAssumption
<1>3. ASSUME NEW c \in Held
      PROVE  /\ spec[c] \in PointerSpec /\ slop[c] \in Slops /\ branches[c] \in [Repos -> Branches]
             /\ WorldFits(slop[c], branches[c])
             /\ CondocFits(spec[c], slop[c], branches[c], github[c])
  <2>1. spec[c] = StartSpec(start[c]) /\ slop[c] = FirstSlop(start[c])
        /\ branches[c] = [t \in Repos |-> FirstBranch(start[c])]
    BY <1>1
  <2>. QED
    BY <1>2, <2>1, FirstSpecs, FirstWorlds, FirstFits
<1>4. spec \in [Held -> PointerSpec] /\ slop \in [Held -> Slops] /\ branches \in [Held -> [Repos -> Branches]]
  BY <1>1, <1>3
<1>5. << >> \in Seq(Held) /\ << >> \in Seq(SignalStates)
  BY EmptySeq
<1>6. WorldTyped
  BY <1>4, <1>5 DEF InteractionsInit, WorldTyped, PRStates
<1>7. turn.at = "idle" /\ turn \in [at : {"idle", "stage", "save", "failed", "ended"}, of : Held \cup {Nobody}, spec : PointerSpec]
  BY NoSpecTyped DEF InteractionsInit, NoTurn
<1>8. LoopsTyped
  BY <1>5, <1>7 DEF InteractionsInit, LoopsTyped
<1>9. UsedTyped
  BY V2Numbers DEF InteractionsInit, UsedTyped
<1>10. TurnFits
  BY <1>7 DEF TurnFits
<1>. QED
  BY <1>3, <1>4, <1>6, <1>8, <1>9, <1>10 DEF InteractionsInv, InteractionsTyped

\* What the invariant says of condocv2.
LEMMA InteractionsSay ==
    ASSUME InteractionsInv PROVE InteractionsTypeOK /\ InteractionsRecorded /\ MergedTogether
<1>1. ASSUME NEW c \in Held
      PROVE  /\ spec[c] \in PointerSpec /\ slop[c] \in Slops /\ branches[c] \in [Repos -> Branches]
             /\ slop[c].file \in Seq(Headings) /\ Len(slop[c].file) \in Nat /\ DOMAIN slop[c].file = 1 .. Len(slop[c].file)
             /\ slop[c].pushed \in Nat /\ spec[c].done \in Nat
             /\ WorldFits(slop[c], branches[c])
             /\ CondocFits(spec[c], slop[c], branches[c], github[c])
  <2>1. /\ spec[c] \in PointerSpec /\ slop[c] \in Slops /\ branches[c] \in [Repos -> Branches]
        /\ slop[c].file \in Seq(Headings) /\ slop[c].pushed \in Nat
        /\ WorldFits(slop[c], branches[c])
        /\ CondocFits(spec[c], slop[c], branches[c], github[c])
    BY CondocAt DEF Slops
  <2>. QED
    BY <2>1, LenProperties, PointerNumbers
<1>2. ASSUME NEW c \in Held, NEW t \in Repos
      PROVE  /\ branches[c][t] \in Branches /\ DOMAIN branches[c][t].origin = 1 .. Len(branches[c][t].origin)
             /\ \A p \in 1 .. Len(branches[c][t].origin) : branches[c][t].origin[p] \in 0 .. MaxInteractions
  <2>1. branches[c][t] \in Branches /\ branches[c][t].origin \in Seq(0 .. MaxInteractions)
    BY <1>1 DEF Branches
  <2>. QED
    BY <2>1, LenProperties, BranchNumbers
<1>3. InteractionsTypeOK
  <2>1. ASSUME NEW c \in Held
        PROVE  /\ slop[c].exists \in BOOLEAN /\ slop[c].reply \in BOOLEAN
               /\ slop[c].pushed \in 0 .. Len(slop[c].file)
               /\ slop[c].edits \in [Repos -> BOOLEAN]
               /\ \A t \in Repos : \A i \in DOMAIN branches[c][t].origin :
                     branches[c][t].origin[i] \in 0 .. MaxInteractions
               /\ \A i \in DOMAIN signals[c] : signals[c][i] \in {"pending", "taken", "done", "unread", "lost"}
    <3>1. signals[c] \in Seq(SignalStates)
      BY CondocAt
    <3>2. \A i \in DOMAIN signals[c] : signals[c][i] \in SignalStates
      BY <3>1, LenProperties, ElementOfSeq
    <3>3. slop[c].exists \in BOOLEAN /\ slop[c].reply \in BOOLEAN /\ slop[c].edits \in [Repos -> BOOLEAN]
      BY <1>1 DEF Slops
    <3>4. slop[c].pushed \in 0 .. Len(slop[c].file)
      BY <1>1 DEF WorldFits
    <3>. QED
      BY <1>2, <3>2, <3>3, <3>4 DEF SignalStates
  <2>. QED
    BY <2>1 DEF InteractionsTypeOK, InteractionsInv, InteractionsTyped, WorldTyped, LoopsTyped, UsedTyped, PRStates
<1>4. SectionsInOrder
  <2>1. SUFFICES ASSUME NEW c \in Held, slop[c].exists
                 PROVE  LET told == 3 * spec[c].done + Told(spec[c].stage) IN
                        /\ \A i \in DOMAIN slop[c].file :
                              /\ slop[c].file[i].kind = SectionKinds[((i - 1) % 3) + 1]
                              /\ slop[c].file[i].n = ((i - 1) \div 3) + 1
                        /\ Len(slop[c].file) \in told .. told + (IF spec[c].stage \in {"locked", "returned", "mapped"}
                                                                 THEN 1 ELSE 0)
                        /\ slop[c].pushed >= told
    BY DEF SectionsInOrder
  <2>. DEFINE told == 3 * spec[c].done + Told(spec[c].stage)
              more == IF spec[c].stage \in {"locked", "returned", "mapped"} THEN 1 ELSE 0
  <2>2. \A i \in DOMAIN slop[c].file :
              /\ slop[c].file[i].kind = SectionKinds[((i - 1) % 3) + 1]
              /\ slop[c].file[i].n = ((i - 1) \div 3) + 1
    BY <1>1 DEF WorldFits, FileInOrder
  <2>3. told <= Len(slop[c].file) /\ Len(slop[c].file) <= told + more /\ slop[c].pushed >= told
    BY <1>1, <2>1 DEF CondocFits, SectionsFit
  <2>4. Told(spec[c].stage) \in Nat
    BY <1>1 DEF Told, PointerSpec, Stage
  <2>5. told \in Nat /\ more \in Nat
    BY <1>1, <2>4
  <2>. HIDE DEF told, more
  <2>6. Len(slop[c].file) \in told .. told + more
    BY <1>1, <2>3, <2>5
  <2>. QED
    BY <2>2, <2>3, <2>6 DEF told, more
<1>5. RangesTrue
  <2>1. SUFFICES ASSUME NEW c \in Held, NEW i \in 1 .. Len(slop[c].file), slop[c].file[i].kind = "Record",
                        NEW t \in Repos, NEW p \in 1 .. Len(branches[c][t].origin), branches[c][t].origin[p] # 0
                 PROVE  LET r == slop[c].file[i] IN
                        branches[c][t].origin[p] = r.n <=> p \in r.from[t] + 1 .. r.to[t]
    BY <1>1, <1>2 DEF RangesTrue
  <2>. DEFINE r == slop[c].file[i]
  <2>2. r \in Headings
    BY <1>1, ElementOfSeq
  <2>3. RecordFits(r, branches[c][t], t)
    BY <1>1, <2>1 DEF WorldFits
  <2>. HIDE DEF r
  <2>4. branches[c][t].origin[p] = r.n <=> (r.from[t] < p /\ p <= r.to[t])
    BY <2>1, <2>3 DEF RecordFits
  <2>5. r.from[t] \in Int /\ r.to[t] \in Int /\ p \in Int
    BY <2>2 DEF Headings
  <2>6. (r.from[t] < p /\ p <= r.to[t]) <=> p \in r.from[t] + 1 .. r.to[t]
    BY <2>5
  <2>. QED
    BY <2>4, <2>6 DEF r
<1>6. MergedTogether
  <2>1. SUFFICES ASSUME NEW c \in Held
                 PROVE  /\ "Merged" \in {spec[c].phase, spec[c].from} =>
                              /\ github[c][CondocRepo] = "merged"
                              /\ \A t \in Repos :
                                    (\E p \in DOMAIN branches[c][t].origin : branches[c][t].origin[p] # 0)
                                    => github[c][t] = "merged"
                        /\ spec[c].prs[CondocRepo] = "merged" =>
                              \A r \in PRRepos : spec[c].prs[r] # "open"
                        /\ ~slop[c].exists => "Merged" \in {spec[c].phase, spec[c].from} \/ spec[c].done = 0
    BY DEF MergedTogether
  <2>2. /\ PhaseFits(spec[c]) /\ SectionsFit(spec[c], slop[c]) /\ MergesFit(spec[c], branches[c], github[c])
    BY <1>1 DEF CondocFits
  <2>3. "Merged" \in {spec[c].phase, spec[c].from} <=> PhaseOf(spec[c]) = "Merged"
    BY <2>2 DEF PhaseFits, PhaseOf, IsFinal
  <2>4. \A t \in Repos : DOMAIN branches[c][t].origin = 1 .. Len(branches[c][t].origin)
    BY <1>2
  <2>. QED
    BY <2>2, <2>3, <2>4 DEF PhaseFits, SectionsFit, MergesFit
<1>. QED
  BY <1>3, <1>4, <1>5, <1>6 DEF InteractionsRecorded
=============================================================================
