---------------------------- MODULE SqliteWriter ----------------------------
(***************************************************************************)
(* The single-writer SQLite helper (crates/sc-runtime-db-sqlite): callers  *)
(* on many threads put jobs in a bounded queue and wait for an answer; one *)
(* thread takes them in batches, each batch one BEGIN IMMEDIATE            *)
(* transaction, and answers after its commit.                              *)
(*                                                                         *)
(* Contiguous statements share a savepoint; when one of them fails, the    *)
(* savepoint is rolled back and they are run again one by one.  A          *)
(* transaction body has a savepoint of its own.                            *)
(*                                                                         *)
(* SQLite is external.  A savepoint opened with no transaction open starts *)
(* one, which its release commits; a failing statement may roll back the   *)
(* whole transaction (a full disk, an I/O error, a conflict clause         *)
(* ROLLBACK); a COMMIT without a transaction is an error.                  *)
(***************************************************************************)
EXTENDS Naturals, Sequences, SequencesExt, FiniteSets

CONSTANTS
  Statement,  \* the jobs that are one statement (execute)
  Body,       \* the jobs that are a transaction body
  Capacity,   \* CHANNEL_CAPACITY
  None

Job == Statement \cup Body

ASSUME JobAssumption == IsFiniteSet(Job) /\ Statement \cap Body = {}
ASSUME CapacityAssumption == Capacity \in Nat \ {0}

Result == {"ok", "error", "commit", "closed"}
ASSUME NoneAssumption == None \notin Result \cup Job

VARIABLES
  handles,   \* a SqliteWriter is alive
  caller,    \* "new", "waiting", or what the job's call returned
  reply,     \* what was sent on the job's reply channel
  queue,     \* the job channel
  accepted,  \* history: the jobs it took, in order
  pc,        \* where the writer thread is
  batch,     \* the jobs of the batch still to be run
  group,     \* the statements still to be replayed
  open,      \* SQLite has the outer transaction open
  tx,        \* the writes in it
  done,      \* the outcomes not yet answered, in order
  db,        \* the committed writes, in order
  join       \* where the drop of the last handle is

database == <<open, tx, db>>
work     == <<batch, group, done>>
vars == <<handles, caller, reply, queue, accepted, pc, work, database, join>>

Outcome(j, r) == [job |-> j, result |-> r]

-----------------------------------------------------------------------------
(* Callers (SqliteWriter::execute, transaction, drop)                      *)

Room == Len(queue) < Capacity

Accept(j) ==
  /\ handles /\ caller[j] = "new"
  /\ pc # "ended" /\ Room
  /\ queue' = Append(queue, j)
  /\ accepted' = Append(accepted, j)
  /\ caller' = [caller EXCEPT ![j] = "waiting"]
  /\ UNCHANGED <<handles, reply, pc, work, database, join>>

\* try_send fails: the thread is gone, or the queue is full.
Refuse(j) ==
  /\ handles /\ caller[j] = "new"
  /\ \/ pc = "ended" /\ caller' = [caller EXCEPT ![j] = "closed"]
     \/ pc # "ended" /\ ~Room /\ caller' = [caller EXCEPT ![j] = "full"]
  /\ UNCHANGED <<handles, reply, queue, accepted, pc, work, database, join>>

Return(j) ==
  /\ caller[j] = "waiting"
  /\ reply[j] # None
  /\ caller' = [caller EXCEPT ![j] = reply[j]]
  /\ UNCHANGED <<handles, reply, queue, accepted, pc, work, database, join>>

\* The write deadline passes; the job stays where it is.
GiveUp(j) ==
  /\ caller[j] = "waiting"
  /\ reply[j] = None
  /\ caller' = [caller EXCEPT ![j] = "deadline"]
  /\ UNCHANGED <<handles, reply, queue, accepted, pc, work, database, join>>

\* A waiting call borrows its handle, so the last one is dropped after it.
DropLast ==
  /\ handles /\ \A j \in Job : caller[j] # "waiting"
  /\ handles' = FALSE
  /\ join' = "joining"
  /\ UNCHANGED <<caller, reply, queue, accepted, pc, work, database>>

\* join_within: the thread has finished, or SHUTDOWN_JOIN has passed.
JoinWithin ==
  /\ join = "joining"
  /\ join' \in (IF pc = "ended" THEN {"joined"} ELSE {"gaveUp"})
  /\ UNCHANGED <<handles, caller, reply, queue, accepted, pc, work, database>>

-----------------------------------------------------------------------------
(* The writer thread takes a batch                                         *)

Receive ==
  /\ pc = "idle" /\ queue # <<>>
  /\ batch' = <<Head(queue)>>
  /\ queue' = Tail(queue)
  /\ pc' = "collecting"
  /\ UNCHANGED <<handles, caller, reply, accepted, group, done, database, join>>

Collect ==
  /\ pc = "collecting" /\ queue # <<>>
  /\ batch' = Append(batch, Head(queue))
  /\ queue' = Tail(queue)
  /\ UNCHANGED <<handles, caller, reply, accepted, pc, group, done, database, join>>

\* The queue is empty, and stayed so until the time budget was spent or every
\* handle is gone: BEGIN IMMEDIATE.
Begin ==
  /\ pc = "collecting" /\ queue = <<>>
  /\ open' = TRUE
  /\ pc' = "running"
  /\ UNCHANGED <<handles, caller, reply, queue, accepted, work, tx, db, join>>

Answered(outcomes) ==
  [j \in Job |-> IF \E i \in DOMAIN outcomes : outcomes[i].job = j
                 THEN (CHOOSE o \in ToSet(outcomes) : o.job = j).result
                 ELSE reply[j]]

All(jobs, r) == [i \in DOMAIN jobs |-> Outcome(jobs[i], r)]

\* fail_batch: the transaction did not begin.
BeginFails ==
  /\ pc = "collecting" /\ queue = <<>>
  /\ reply' = Answered(All(batch, "error"))
  /\ batch' = <<>>
  /\ pc' = "idle"
  /\ UNCHANGED <<handles, caller, queue, accepted, group, done, database, join>>

-----------------------------------------------------------------------------
(* Running the jobs of a batch                                             *)

\* The statements at the head of the batch: as many as there are in a row.
Group ==
  LET n == SelectInSeq(batch, LAMBDA j : j \in Body)
  IN IF n = 0 THEN batch ELSE SubSeq(batch, 1, n - 1)

Rest(jobs) == SubSeq(batch, Len(jobs) + 1, Len(batch))

\* The release of a savepoint, which commits if the savepoint was outermost.
Released(jobs) ==
  IF open THEN tx' = tx \o jobs /\ UNCHANGED <<open, db>>
  ELSE db' = db \o jobs /\ UNCHANGED <<open, tx>>

\* What is left after the first n jobs of a savepoint were run and it was
\* dropped: a savepoint that is dropped rolls its writes back.
RolledBack(jobs, n) == UNCHANGED database

\* SQLite rolls back the whole transaction with the statement that fails.
TransactionLost ==
  /\ open' = FALSE
  /\ tx' = <<>>
  /\ UNCHANGED db

\* Two or more statements in one savepoint.
RunGroup ==
  /\ pc = "running" /\ Len(Group) > 1
  /\ \/ /\ done' = done \o All(Group, "ok")
        /\ Released(Group)
        /\ UNCHANGED <<pc, group>>
     \/ \E r \in {"error", "commit"} :  \* not opened, or not released
          /\ done' = done \o All(Group, r)
          /\ RolledBack(Group, 0)
          /\ UNCHANGED <<pc, group>>
     \/ /\ pc' = "replaying"
        /\ group' = Group
        /\ \/ \E n \in 0 .. Len(Group) - 1 : RolledBack(Group, n)
           \/ TransactionLost
        /\ UNCHANGED done
  /\ batch' = Rest(Group)
  /\ UNCHANGED <<handles, caller, reply, queue, accepted, join>>

\* One job in a savepoint of its own: a body, a lone statement, or the next
\* statement of a group that is replayed.
Alone(j) ==
  \/ /\ pc = "running" /\ batch # <<>>
     /\ j = Head(batch) /\ Len(Group) <= 1
     /\ batch' = Tail(batch)
     /\ UNCHANGED <<pc, group>>
  \/ /\ pc = "replaying"
     /\ j = Head(group)
     /\ group' = Tail(group)
     /\ pc' = IF Len(group) = 1 THEN "running" ELSE "replaying"
     /\ UNCHANGED batch

RunOne(j) ==
  /\ Alone(j)
  /\ \/ done' = Append(done, Outcome(j, "ok")) /\ Released(<<j>>)
     \/ \E r \in {"error", "commit"} :
          done' = Append(done, Outcome(j, r)) /\ RolledBack(<<j>>, 1)
     \/ done' = Append(done, Outcome(j, "error")) /\ TransactionLost
  /\ UNCHANGED <<handles, caller, reply, queue, accepted, join>>

\* A job panics: the transaction is dropped, everyone in the batch is answered
\* and the thread ends.
Panic ==
  /\ (pc = "running" /\ batch # <<>>) \/ pc = "replaying"
  /\ reply' = Answered(All(group \o batch, "closed") \o
                       [i \in DOMAIN done |-> Outcome(done[i].job, "closed")])
  /\ TransactionLost
  /\ batch' = <<>> /\ group' = <<>> /\ done' = <<>>
  /\ pc' = "leaving"
  /\ UNCHANGED <<handles, caller, queue, accepted, join>>

-----------------------------------------------------------------------------
(* The end of a batch                                                      *)

Commit ==
  /\ pc = "running" /\ batch = <<>>
  /\ open
  /\ db' = db \o tx
  /\ tx' = <<>> /\ open' = FALSE
  /\ pc' = "replying"
  /\ UNCHANGED <<handles, caller, reply, queue, accepted, work, join>>

\* (The mutant answers what the savepoints said.)
FailedSilently(outcomes) == outcomes

\* apply_commit_failure.
Failed(outcomes) ==
  [i \in DOMAIN outcomes |->
     IF outcomes[i].result = "ok" THEN Outcome(outcomes[i].job, "commit") ELSE outcomes[i]]

\* The commit fails, as it does when the transaction is no longer open; the
\* drop of the transaction rolls back.
CommitFails ==
  /\ pc = "running" /\ batch = <<>>
  /\ TransactionLost
  /\ done' = Failed(done)
  /\ pc' = "replying"
  /\ UNCHANGED <<handles, caller, reply, queue, accepted, batch, group, join>>

Reply ==
  /\ pc = "replying"
  /\ reply' = Answered(done)
  /\ done' = <<>>
  /\ pc' = "idle"
  /\ UNCHANGED <<handles, caller, queue, accepted, batch, group, database, join>>

-----------------------------------------------------------------------------
(* The end of the thread                                                   *)

NoSender == ~handles

\* Every handle is gone and the queue is drained: recv fails.
Disconnected ==
  /\ pc = "idle" /\ queue = <<>> /\ NoSender
  /\ pc' = "leaving"
  /\ UNCHANGED <<handles, caller, reply, queue, accepted, work, database, join>>

\* (The mutant's receiver outlives the thread.)
KeepsQueue == reply

\* The receiver is dropped, and with each job left in it the reply slot, which
\* answers for itself.
ClosesQueue == Answered(All(queue, "closed"))

Leave ==
  /\ pc = "leaving"
  /\ reply' = ClosesQueue
  /\ queue' = <<>>
  /\ pc' = "ended"
  /\ UNCHANGED <<handles, caller, accepted, work, database, join>>

-----------------------------------------------------------------------------
Init ==
  /\ handles = TRUE
  /\ caller = [j \in Job |-> "new"]
  /\ reply = [j \in Job |-> None]
  /\ queue = <<>> /\ accepted = <<>>
  /\ pc = "idle"
  /\ batch = <<>> /\ group = <<>> /\ done = <<>>
  /\ open = FALSE /\ tx = <<>> /\ db = <<>>
  /\ join = "none"

Thread ==
  \/ Receive \/ Collect \/ Begin \/ BeginFails
  \/ RunGroup \/ (\E j \in Job : RunOne(j)) \/ Panic
  \/ Commit \/ CommitFails \/ Reply
  \/ Disconnected \/ Leave

Next ==
  \/ \E j \in Job : Accept(j) \/ Refuse(j) \/ Return(j) \/ GiveUp(j)
  \/ DropLast \/ JoinWithin
  \/ Thread

Spec == Init /\ [][Next]_vars

\* The thread runs, and bodies return.
FairSpec == Spec /\ WF_vars(Thread)

-----------------------------------------------------------------------------
(* Properties                                                              *)

Place == {"idle", "collecting", "running", "replaying", "replying", "leaving", "ended"}

SavepointOutcome == [job : Job, result : {"ok", "error", "commit"}]

TypeOK ==
  /\ handles \in BOOLEAN /\ open \in BOOLEAN
  /\ caller \in [Job -> Result \cup {"new", "waiting", "full", "deadline"}]
  /\ reply \in [Job -> Result \cup {None}]
  /\ queue \in Seq(Job) /\ accepted \in Seq(Job) /\ batch \in Seq(Job)
  /\ group \in Seq(Job) /\ tx \in Seq(Job) /\ db \in Seq(Job)
  /\ Len(queue) <= Capacity
  /\ pc \in Place
  /\ done \in Seq(SavepointOutcome)
  /\ join \in {"none", "joining", "joined", "gaveUp"}

Queue == INSTANCE WriteQueue

\* Batches, savepoints and replays keep what WriteQueue promises the callers.
WriteQueueSpec == Queue!Spec

\* When the drop of the last handle returns because the thread ended, no accepted
\* job is left without an answer, also those whose callers gave up.
JoinedIsDrained == join = "joined" => \A i \in DOMAIN accepted : reply[accepted[i]] # None

\* Every accepted job is answered, whatever fails and whoever stopped waiting.
AcceptedIsAnswered == \A j \in Job : caller[j] = "waiting" ~> reply[j] # None

-----------------------------------------------------------------------------
(* What the documentation says and the code does not keep                  *)

\* error.rs, on a Commit error: "The commit did not succeed."
CommitErrorMeansAbsent == \A j \in Job : reply[j] = "commit" => ~Contains(db, j)
=============================================================================
