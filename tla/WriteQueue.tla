----------------------------- MODULE WriteQueue -----------------------------
(***************************************************************************)
(* What callers of SqliteWriter may rely on, without batches, savepoints   *)
(* or threads: accepted jobs are written in the order they were accepted,  *)
(* each at most once and before its answer, and a job answered as done was *)
(* written.                                                                *)
(***************************************************************************)
EXTENDS Naturals, Sequences, SequencesExt

CONSTANTS Job, None

VARIABLES
  accepted,  \* the jobs the queue took, in order
  db,        \* the committed writes, in order
  reply      \* what each job was answered

vars == <<accepted, db, reply>>

Init ==
  /\ accepted = <<>> /\ db = <<>>
  /\ reply = [j \in Job |-> None]

Accept(j) ==
  /\ ~Contains(accepted, j)
  /\ accepted' = Append(accepted, j)
  /\ UNCHANGED <<db, reply>>

\* j was accepted before k.
Before(j, k) ==
  \E m, n \in DOMAIN accepted : m < n /\ accepted[m] = j /\ accepted[n] = k

\* A commit makes the writes of some jobs, none of them answered, durable.
Write ==
  /\ IsPrefix(db, db')
  /\ \A i \in DOMAIN db' : Contains(accepted, db'[i])
  /\ \A i \in DOMAIN db' \ DOMAIN db : reply[db'[i]] = None
  /\ \A i, k \in DOMAIN db' : i < k => Before(db'[i], db'[k])
  /\ UNCHANGED <<accepted, reply>>

Answer ==
  /\ \A j \in Job : reply'[j] # reply[j] =>
       /\ reply[j] = None /\ Contains(accepted, j)
       /\ reply'[j] = "ok" => Contains(db, j)
  /\ UNCHANGED <<accepted, db>>

Next == (\E j \in Job : Accept(j)) \/ Write \/ Answer

Spec == Init /\ [][Next]_vars
=============================================================================
