--------------------------- MODULE ControlLibrary ---------------------------
(***************************************************************************)
(* local-representative's library of control sequences (controllib.go):    *)
(* edited from the control tabs, imported from files, saved as one file    *)
(* after each change, and loaded by whichever build of                     *)
(* local-representative is started next, which brings the built-in         *)
(* examples nobody edited up to its own version.  Edits hold the library's *)
(* lock; putting the examples back takes it twice.                         *)
(***************************************************************************)
EXTENDS Libraries, Naturals, FiniteSets, Services

CONSTANTS MaxEdits, MaxLaunches

ASSUME ControlLibraryAssumption == MaxEdits \in Nat /\ MaxLaunches \in Nat

VARIABLES lib,       \* actions and sequences in memory
          examples,  \* what is recorded of the examples, in memory
          saved,     \* the file: whether it is there, and what it holds
          build,     \* the build that runs
          revs,      \* revs, lastRev
          lastRun,   \* the engine's run: its sequence, and which one of that id
          restoring, \* restoreExamples has recorded them, and not merged yet
          own,       \* id -> what somebody saved or imported last under it
          gone,      \* examples somebody deleted
          lineage,   \* sequence id -> since when it is this one
          outcome,   \* of the last load: whether the examples fitted in, and of
                     \* the changes since: whether the record is ahead of the copies
          libCount      \* changes asked for, and launches

ctlLibVars == <<lib, examples, saved, build, revs, lastRun, restoring, own, gone, lineage,
                outcome, libCount>>

\* What each build ships.  The newer one has ops the older has not, and an
\* example more.
ShippedActs == <<[a |-> "old"], [a |-> "new", b |-> "new"]>>
ShippedSeqs == <<[q |-> Step("a", {"p"})], [q |-> Step("a", {})]>>
Shipped(b) == [acts |-> ShippedActs[b], seqs |-> ShippedSeqs[b]]
Known(b) == IF b = 1 THEN {"old", "mine"} ELSE {"old", "mine", "new"}

NoCtlRun == [seq |-> "none", rev |-> 0, of |-> <<"none", 0>>, going |-> FALSE]

ControlLibraryTypeOK ==
    /\ IsLibrary(lib) /\ IsLibrary(saved.lib)
    /\ DOMAIN examples \subseteq ActIds \cup SeqIds
    /\ saved.there \in BOOLEAN /\ build \in {1, 2} /\ restoring \in BOOLEAN
    /\ DOMAIN revs.of \subseteq SeqIds /\ revs.last \in Nat
    /\ lastRun.seq \in SeqIds \cup {"none"} /\ lastRun.going \in BOOLEAN
    /\ DOMAIN own \subseteq ActIds \cup SeqIds /\ gone \subseteq ActIds \cup SeqIds
    /\ DOMAIN lineage = DOMAIN lib.seqs
    /\ outcome.fits \in BOOLEAN /\ outcome.ahead \in BOOLEAN

Loaded(l) == [q \in DOMAIN l.seqs |-> <<q, 0>>]
NoFile(b) == [there |-> FALSE, lib |-> Shipped(b), rec |-> Contents(Shipped(b))]

\* newControlLibrary: the examples, in memory only.
ControlLibraryInit ==
    /\ build = 1 /\ lib = Shipped(1) /\ examples = Contents(Shipped(1)) /\ saved = NoFile(1)
    /\ revs = [of |-> << >>, last |-> 0] /\ lastRun = NoCtlRun /\ restoring = FALSE
    /\ own = << >> /\ gone = {} /\ lineage = Loaded(Shipped(1))
    /\ outcome = [fits |-> TRUE, ahead |-> FALSE]
    /\ libCount = [edits |-> 0, launches |-> 0]

-----------------------------------------------------------------------------
seqRev(r, q) == IF q \in DOMAIN r.of THEN r.of[q] ELSE 0
newRev(r, q) == [of |-> With(r.of, q, r.last + 1), last |-> r.last + 1]

\* dropStaleRun: a run that is over, of a sequence no longer there.
dropStaleRun(l, r) ==
    lastRun' = IF \/ lastRun.going \/ lastRun.seq = "none"
                  \/ lastRun.seq \in DOMAIN l.seqs /\ seqRev(r, lastRun.seq) = lastRun.rev
               THEN lastRun ELSE NoCtlRun

checkControlLibrary(l, b) == checkLibrary(l, Known(b))

\* The file: the library, and what is recorded of the examples.
encodeControlLib(l, rec) == [there |-> TRUE, lib |-> l, rec |-> rec]

\* commit, in a request that asks for l: checked, written to the file beside
\* and renamed, and only then what there is in memory.
commit(l, r, line, mine, deleted) ==
    /\ Moves("library") /\ libCount.edits < MaxEdits
    /\ libCount' = [libCount EXCEPT !.edits = @ + 1]
    /\ \/ /\ checkControlLibrary(l, build)
          /\ lib' = l /\ saved' = encodeControlLib(l, examples)
          /\ revs' = r /\ lineage' = line /\ dropStaleRun(l, r)
          /\ own' = mine /\ gone' = deleted \cap DOMAIN examples
       \/ UNCHANGED <<lib, saved, revs, lineage, lastRun, own, gone>>
    /\ UNCHANGED <<examples, build>>

Since(q) == <<q, libCount.edits + 1>>

\* A renamed action leaves its old id, and edits the sequences that use it.
saveAction(a, text, prev) ==
    LET l == ActionSaved(lib, a, text, prev)
        touched == {q \in DOMAIN l.seqs : l.seqs[q] # lib.seqs[q]} IN
    /\ IdFree(lib.acts, a, prev) /\ text \in Known(build)
    /\ commit(l, revs, lineage,
              With(Onto(Restrict(l.seqs, touched), IF prev = a THEN own ELSE Without(own, prev)), a, text),
              (gone \cup (IF prev \in DOMAIN lib.acts THEN {prev} ELSE {})) \ {a})
    /\ UNCHANGED <<restoring, outcome>>

deleteAction(a) ==
    /\ a \in DOMAIN lib.acts /\ ~actionInUse(lib, a)
    /\ commit([lib EXCEPT !.acts = Without(@, a)], revs, lineage, Without(own, a), gone \cup {a})
    /\ UNCHANGED <<restoring, outcome>>

\* A sequence renamed keeps its rev, and stays the one it is.
saveSequence(q, step, prev) ==
    LET new == prev \notin DOMAIN lib.seqs
        kept == Without(revs.of, prev)
        moved == IF prev # q /\ prev \in DOMAIN revs.of
                 THEN [revs EXCEPT !.of = With(kept, q, revs.of[prev])] ELSE revs IN
    /\ IdFree(lib.seqs, q, prev)
    /\ commit(SequenceSaved(lib, q, step, prev), IF new THEN newRev(revs, q) ELSE moved,
              With(Without(lineage, prev), q, IF new THEN Since(q) ELSE lineage[prev]),
              With(Without(own, prev), q, step),
              (gone \cup (IF new THEN {} ELSE {prev})) \ {q})
    /\ UNCHANGED <<restoring, outcome>>

deleteSequence(q) ==
    /\ q \in DOMAIN lib.seqs
    /\ commit([lib EXCEPT !.seqs = Without(@, q)], [revs EXCEPT !.of = Without(@, q)],
              Without(lineage, q), Without(own, q), gone \cup {q})
    /\ UNCHANGED <<restoring, outcome>>

\* merge: a sequence that comes in, or uses an action that changes, is another
\* from then on.
Affected(doc, l) ==
    {q \in DOMAIN l.seqs :
        \/ q \in DOMAIN doc.seqs
        \/ LET a == l.seqs[q].of IN
           a \in DOMAIN doc.acts /\ a \in DOMAIN lib.acts /\ doc.acts[a] # lib.acts[a]}

\* The deviation: only what comes in is.
RenewedIn(doc, l) == DOMAIN doc.seqs

Renewed(doc, l) == Affected(doc, l)

merge(doc, mine, deleted) ==
    LET l == Merged(lib, doc)
        renewed == Renewed(doc, l)
        next(q) == revs.last + (IF q = "r" /\ "q" \in renewed THEN 2 ELSE 1) IN
    commit(l, [of |-> Onto([q \in renewed |-> next(q)], revs.of), last |-> revs.last + Cardinality(renewed)],
           [q \in DOMAIN l.seqs |-> IF q \in Affected(doc, l) THEN Since(q) ELSE lineage[q]],
           mine, deleted)

\* What is composed, and what files hold.
SavedSteps == {Step("a", {"p"}), Step("b", {})}

Docs == {[acts |-> [a |-> "mine"], seqs |-> [q |-> Step("a", {"p"})]],
         [acts |-> [b |-> "mine"], seqs |-> [r |-> Step("b", {"p"})]]}

handleLibRequest == \* import
    /\ \E doc \in Docs : merge(doc, Onto(Contents(doc), own), gone \ DOMAIN Contents(doc))
    /\ UNCHANGED <<restoring, outcome>>

\* restoreExamples records them first.
recordExamples ==
    /\ Moves("library") /\ ~restoring /\ libCount.edits < MaxEdits
    /\ restoring' = TRUE
    /\ examples' = Onto(Contents(Shipped(build)), examples)
    /\ outcome' = [outcome EXCEPT !.ahead = TRUE]
    /\ UNCHANGED <<lib, saved, build, revs, lastRun, own, gone, lineage, libCount>>

restoreExamples ==
    /\ restoring /\ restoring' = FALSE
    /\ merge(Shipped(build), Restrict(own, DOMAIN own \ DOMAIN Contents(Shipped(build))),
             gone \ DOMAIN Contents(Shipped(build)))
    /\ outcome' = [outcome EXCEPT !.ahead = lib' # Merged(lib, Shipped(build))]

-----------------------------------------------------------------------------
\* upgradeControlExamples: as Upgraded, with the examples it has never had.
upgradeControlExamples(f, rec, shipped) ==
    Onto(Upgraded(f, rec, shipped), Restrict(shipped, DOMAIN shipped \ DOMAIN rec))

StartsAnew(b) ==
    /\ lib' = Shipped(b) /\ examples' = Contents(Shipped(b)) /\ saved' = NoFile(b)
    /\ own' = << >> /\ gone' = {} /\ lineage' = Loaded(Shipped(b))
    /\ outcome' = [fits |-> TRUE, ahead |-> FALSE]

\* openControlLibrary, as a build of local-representative starts.  A file it
\* cannot take is set aside; examples that do not fit the rest, or that cannot
\* be saved, are left as they are.
openControlLibrary(b) ==
    LET s == Shipped(b)
        up == [acts |-> upgradeControlExamples(saved.lib.acts, saved.rec, s.acts),
               seqs |-> upgradeControlExamples(saved.lib.seqs, saved.rec, s.seqs)]
        rec == RecordOf(Contents(up), saved.rec, Contents(s))
        fits == checkControlLibrary(up, b)
        as(l, rc, held) ==
            /\ lib' = l /\ examples' = rc /\ lineage' = Loaded(l)
            /\ own' = Restrict(own, {k \in DOMAIN own : ~Unedited(own, k, saved.rec)
                                                       /\ ~Unedited(own, k, Contents(s))})
            /\ saved' = IF held THEN encodeControlLib(l, rc) ELSE saved
            /\ outcome' = [fits |-> fits, ahead |-> outcome.ahead \/ (rc # saved.rec /\ ~held)]
            /\ UNCHANGED gone IN
    /\ Moves("library") /\ libCount.launches < MaxLaunches
    /\ libCount' = [libCount EXCEPT !.launches = @ + 1]
    /\ build' = b /\ restoring' = FALSE /\ lastRun' = NoCtlRun
    /\ revs' = [of |-> << >>, last |-> 0]
    /\ IF ~saved.there \/ ~checkControlLibrary(saved.lib, b) THEN StartsAnew(b)
       ELSE IF up # saved.lib /\ ~fits THEN as(saved.lib, saved.rec, TRUE)
       ELSE \/ as(up, rec, TRUE)
            \/ as(saved.lib, rec, FALSE)

-----------------------------------------------------------------------------
\* compile: the run is of what there is now.
compile(q) ==
    /\ Moves("library") /\ q \in DOMAIN lib.seqs /\ ~lastRun.going
    /\ lastRun' = [seq |-> q, rev |-> seqRev(revs, q), of |-> lineage[q], going |-> TRUE]
    /\ UNCHANGED <<lib, examples, saved, build, revs, restoring, own, gone, lineage, outcome, libCount>>

RunIsOver ==
    /\ lastRun.going /\ lastRun' = [lastRun EXCEPT !.going = FALSE]
    /\ UNCHANGED <<lib, examples, saved, build, revs, restoring, own, gone, lineage, outcome, libCount>>

ControlLibraryNext ==
    \/ \E a, p \in ActIds, text \in {"old", "mine"} : saveAction(a, text, p)
    \/ \E a \in ActIds : deleteAction(a)
    \/ \E q, p \in SeqIds, step \in SavedSteps : saveSequence(q, step, p)
    \/ \E q \in SeqIds : deleteSequence(q) \/ compile(q)
    \/ handleLibRequest \/ recordExamples \/ restoreExamples
    \/ \E b \in {1, 2} : openControlLibrary(b)
    \/ RunIsOver

-----------------------------------------------------------------------------
\* export: what goes out comes in again anywhere.
ExportsWhole ==
    \A ids \in SUBSET DOMAIN lib.seqs : checkControlLibrary(Exported(lib, ids), build)

\* What was last saved or imported is there, what was deleted does not come
\* back, and the examples nobody edited are this build's, over any changes,
\* failed ones too, and any builds started since: but for those left out
\* because they do not fit, and those whose record a failed change has put
\* ahead of them.
LibraryKept ==
    LET here == Contents(lib)
        shipped == Contents(Shipped(build)) IN
    /\ \A k \in DOMAIN own : k \in DOMAIN here /\ here[k] = own[k]
    /\ gone \cap DOMAIN here = {}
    /\ saved.there => saved.lib = lib /\ checkControlLibrary(lib, build)
    /\ outcome.fits /\ ~outcome.ahead =>
         \A k \in (DOMAIN here \cap DOMAIN shipped) \ DOMAIN own : here[k] = shipped[k]
    /\ ExportsWhole

\* A run is never taken for one of another sequence of the same name, unless
\* both were loaded with the library, and one has been renamed since.
RunIsItsOwn ==
    LET q == lastRun.seq IN
    q \in DOMAIN lib.seqs /\ seqRev(revs, q) = lastRun.rev =>
        lineage[q] = lastRun.of \/ (lineage[q][2] = 0 /\ lastRun.of[2] = 0 /\ (lineage[q][1] # q \/ lastRun.of[1] # q))
=============================================================================
