----------------------------- MODULE Libraries -----------------------------
(***************************************************************************)
(* A library of actions and of sequences of them, as the robot tab         *)
(* (ianar/seqv2.go) and the control tab (local-representative              *)
(* /controllib.go) keep them, and what an edit makes of one.  Of an action *)
(* there are contents that were shipped as a built-in example and contents *)
(* of somebody's own; the shipped one called new has no longer the control *)
(* the others have.  A sequence is one step: an action, and the controls   *)
(* it sets.                                                                *)
(***************************************************************************)
EXTENDS Functions

ActIds == {"a", "b"}
SeqIds == {"q", "r"}

Controls(text) == IF text = "new" THEN {} ELSE {"p"}
Step(act, with) == [of |-> act, with |-> with]
Steps == [of : ActIds, with : SUBSET {"p"}]

IsLibrary(lib) ==
    /\ DOMAIN lib.acts \subseteq ActIds /\ DOMAIN lib.seqs \subseteq SeqIds
    /\ \A q \in DOMAIN lib.seqs : lib.seqs[q] \in Steps

\* An action is checked against the ops there are, a sequence against its
\* action.
validate(step, acts) == step.of \in DOMAIN acts /\ step.with \subseteq Controls(acts[step.of])

checkLibrary(lib, known) ==
    /\ Range(lib.acts) \subseteq known
    /\ \A q \in DOMAIN lib.seqs : validate(lib.seqs[q], lib.acts)

\* What f has, and for the rest what g has.
Onto(f, g) == [k \in DOMAIN f \cup DOMAIN g |-> IF k \in DOMAIN f THEN f[k] ELSE g[k]]

With(f, k, v) == Onto([j \in {k} |-> v], f)
Without(f, k) == Restrict(f, DOMAIN f \ {k})

actionInUse(lib, a) == \E q \in DOMAIN lib.seqs : lib.seqs[q].of = a

\* Renaming an action renames it in the sequences that use it.
renameActionRefs(seqs, from, to) ==
    [q \in DOMAIN seqs |-> IF seqs[q].of = from THEN [seqs[q] EXCEPT !.of = to] ELSE seqs[q]]

\* A content under an id, in the place of the one called prev before.
IdFree(f, id, prev) == id = prev \/ id \notin DOMAIN f

ActionSaved(lib, a, text, prev) ==
    [acts |-> With(Without(lib.acts, prev), a, text),
     seqs |-> renameActionRefs(lib.seqs, prev, a)]

SequenceSaved(lib, q, step, prev) == [lib EXCEPT !.seqs = With(Without(@, prev), q, step)]

\* An import replaces what has the same id.
Merged(lib, doc) == [acts |-> Onto(doc.acts, lib.acts), seqs |-> Onto(doc.seqs, lib.seqs)]

\* Sequences go out with the actions they use.
Exported(lib, ids) ==
    LET of == {lib.seqs[q].of : q \in ids} IN
    [acts |-> Restrict(lib.acts, of), seqs |-> Restrict(lib.seqs, ids)]

\* A copy of an example that still is what was recorded of it.
Unedited(f, k, rec) == k \in DOMAIN rec /\ k \in DOMAIN f /\ rec[k] = f[k]

\* The deviation: an edited copy is replaced as well.
UpgradedAnyway(f, rec, shipped) ==
    [k \in DOMAIN f |-> IF k \in DOMAIN shipped THEN shipped[k] ELSE f[k]]

\* Copies that were not edited become those of this build; the others stay.
Upgraded(f, rec, shipped) ==
    [k \in DOMAIN f |-> IF k \in DOMAIN shipped /\ Unedited(f, k, rec) THEN shipped[k] ELSE f[k]]

\* What is recorded of them then.
RecordOf(f, rec, shipped) ==
    Onto(Restrict(shipped, {k \in DOMAIN f \cap DOMAIN shipped : f[k] = shipped[k]}), rec)

Contents(lib) == Onto(lib.acts, lib.seqs)
=============================================================================
