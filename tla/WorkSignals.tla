----------------------------- MODULE WorkSignals -----------------------------
(***************************************************************************)
(* dungeon-keeper/pkg/worksignal: the files by which work is handed to a   *)
(* worker.  A signal is one file in ongoing/, which the worker moves to    *)
(* complete/ when it is done.  The submitter polls for that file.          *)
(*                                                                         *)
(* Signals are numbered in the order they are created: their file names    *)
(* carry the role and the second of creation, and a submitter moves on to  *)
(* the next free second.  Each call of the Manager is one step.  The       *)
(* condocs and the workers are those that share the slopspaces.            *)
(***************************************************************************)
EXTENDS Slopspaces, Naturals

CONSTANT MaxSignals  \* bound on the signals created in a behaviour

ASSUME WorkSignalsAssumption == MaxSignals \in Nat

\* A condoc's turn, or whoever else hands a worker something to do.
Role == Condocs \cup {None}

SignalId == 1 .. MaxSignals

VARIABLES created,   \* signals created so far
          header,    \* role and work type, fixed at creation
          ongoing,   \* status in ongoing/, or "absent"
          complete,  \* it is in complete/, completed or failed
          unreadable \* signals in ongoing/ with a line Read gives up on

signalVars == <<created, header, ongoing, complete, unreadable>>

WorkType == {"slopspace", "in-place"}

WorkSignalsTypeOK ==
    /\ created \in 0 .. MaxSignals
    /\ header \in [SignalId -> [role : Role, work : WorkType]]
    /\ ongoing \in [SignalId -> {"absent", "pending", "processing"}]
    /\ complete \in [SignalId -> BOOLEAN]
    /\ unreadable \in SUBSET SignalId

\* The header of a signal that does not exist is arbitrary and never read.
WorkSignalsInit ==
    /\ created = 0
    /\ header = [i \in SignalId |-> [role |-> None, work |-> "slopspace"]]
    /\ ongoing = [i \in SignalId |-> "absent"]
    /\ complete = [i \in SignalId |-> FALSE]
    /\ unreadable = {}

-----------------------------------------------------------------------------
Create(role, work) ==
    /\ created < MaxSignals
    /\ created' = created + 1
    /\ header' = [header EXCEPT ![created + 1] = [role |-> role, work |-> work]]
    /\ ongoing' = [ongoing EXCEPT ![created + 1] = "pending"]
    /\ UNCHANGED <<complete, unreadable>>

\* Read stops with an error at a line over 64 KiB, its scanner's limit, and
\* every other operation begins with it.
Readable(i) == ongoing[i] # "absent" /\ i \notin unreadable

\* Pending signals, first by file name: of one role, the oldest comes first.
\* Which role comes first is a matter of names.
Pending == {i \in 1 .. created : ongoing[i] = "pending" /\ Readable(i)}

FirstPending ==
    {i \in Pending :
        \A j \in Pending : header[j].role = header[i].role => i <= j}

TakeOwnership(i) ==
    /\ Readable(i)
    /\ ongoing' = [ongoing EXCEPT ![i] = "processing"]
    /\ UNCHANGED <<created, header, complete, unreadable>>

\* AppendEvent, of an output that makes a line too long.  Appending reads
\* nothing and needs only the file.
AppendTooLong(i) ==
    /\ unreadable' = unreadable \cup {j \in SignalId : j = i /\ ongoing[j] # "absent"}
    /\ UNCHANGED <<created, header, ongoing, complete>>

\* The status it ends with, completed or failed, only words the reply.
Complete(i) ==
    /\ Readable(i)
    /\ complete' = [complete EXCEPT ![i] = TRUE]
    /\ ongoing' = [ongoing EXCEPT ![i] = "absent"]
    /\ UNCHANGED <<created, header, unreadable>>
=============================================================================
