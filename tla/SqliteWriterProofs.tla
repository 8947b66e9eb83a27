------------------------- MODULE SqliteWriterProofs -------------------------
(***************************************************************************)
(* What holds of the SQLite writer for every set of statements and bodies  *)
(* and every capacity of the channel: type correctness, that a drop of the *)
(* last handle which joins the thread leaves nobody unanswered, and that   *)
(* batches, savepoints and replays implement WriteQueue.                   *)
(*                                                                         *)
(* The inductive invariant puts the accepted jobs in one line:             *)
(*                                                                         *)
(*    accepted = answered, done, group, batch, queue                       *)
(*                                                                         *)
(* A job moves from right to left only.  The written jobs are a            *)
(* subsequence of the line up to `done`, those in the open transaction are *)
(* in `done`, and none of the jobs right of the answered ones has a reply. *)
(***************************************************************************)
EXTENDS SqliteWriter, SequenceTheorems, WellFoundedInduction, TLAPS

\* How many jobs were answered, and were run.
Settled == Len(accepted) - Len(queue) - Len(batch) - Len(group) - Len(done)
Ran == Settled + Len(done)
Batched == Ran + Len(group)
Queued == Batched + Len(batch)

Line ==
  /\ Settled \in Nat
  /\ \A i \in DOMAIN done : done[i].job = accepted[Settled + i]
  /\ \A i \in DOMAIN group : group[i] = accepted[Ran + i]
  /\ \A i \in DOMAIN batch : batch[i] = accepted[Batched + i]
  /\ \A i \in DOMAIN queue : queue[i] = accepted[Queued + i]

Once == \A m, n \in DOMAIN accepted : accepted[m] = accepted[n] => m = n

\* A job that was not called is neither in the line nor answered.
NewIsNowhere ==
  \A j \in Job : caller[j] = "new" =>
    reply[j] = None /\ \A m \in DOMAIN accepted : accepted[m] # j

AnsweredFirst == \A m \in DOMAIN accepted : reply[accepted[m]] = None <=> m > Settled

\* The jobs of `written` stand in the line between `from` and `to`, in its order.
Within(written, from, to) ==
  \A i \in DOMAIN written : \E m \in from + 1 .. to : accepted[m] = written[i]

InOrder(written) ==
  \A i, k \in DOMAIN written : i < k => Queue!Before(written[i], written[k])

WrittenInOrder ==
  /\ Within(db, 0, Ran) /\ InOrder(db)
  /\ Within(tx, Settled, Ran) /\ InOrder(tx)
  /\ \A i \in DOMAIN db, k \in DOMAIN tx : Queue!Before(db[i], tx[k])

\* What a savepoint said is true of the open transaction, and what is about to
\* be answered is true of the database.
OkIsWritten ==
  \A i \in DOMAIN done : done[i].result = "ok" =>
    /\ open => Contains(tx, done[i].job)
    /\ pc = "replying" => Contains(db, done[i].job)

\* Where the thread is tells what it has in hand.
InHand ==
  /\ done # <<>> => pc \in {"running", "replaying", "replying"}
  /\ group # <<>> <=> pc = "replaying"
  /\ batch # <<>> => pc \in {"collecting", "running", "replaying"}
  /\ open => pc \in {"running", "replaying"}
  /\ ~open => tx = <<>>
  /\ pc = "ended" => queue = <<>>
  /\ join = "joined" => pc = "ended"

IInv ==
  /\ TypeOK
  /\ Line
  /\ Once
  /\ NewIsNowhere
  /\ AnsweredFirst
  /\ WrittenInOrder
  /\ OkIsWritten
  /\ InHand

-----------------------------------------------------------------------------
(* The operators of the model                                              *)

LEMMA LeastNat ==
  ASSUME NEW I, I \subseteq Nat, I # {}
  PROVE  \E x \in I : \A y \in I : x <= y
<1>1. \E x \in I : \A y \in I : ~ (<<y, x>> \in OpToRel(<, Nat))
  BY NatLessThanWellFounded, WFMin
<1>2. PICK x \in I : \A y \in I : ~ (<<y, x>> \in OpToRel(<, Nat))
  BY <1>1
<1>3. ASSUME NEW y \in I PROVE x <= y
  <2>1. x \in Nat /\ y \in Nat /\ ~(y < x)
    BY <1>2 DEF OpToRel
  <2>2. QED BY <2>1
<1>4. QED BY <1>3

\* The first group of a batch is a prefix of it, and Rest is what follows.
LEMMA GroupIsPrefix ==
  ASSUME batch \in Seq(Job)
  PROVE  \E k \in 0 .. Len(batch) :
           Group = SubSeq(batch, 1, k) /\ Rest(Group) = SubSeq(batch, k + 1, Len(batch))
<1> DEFINE I == {i \in 1 .. Len(batch) : batch[i] \in Body}
           n == SelectInSeq(batch, LAMBDA j : j \in Body)
<1>1. n = 0 \/ n \in 1 .. Len(batch)
  <2>1. CASE I = {}
    BY <2>1 DEF SelectInSeq
  <2>2. CASE I # {}
    <3>. I \subseteq Nat
      OBVIOUS
    <3>1. PICK x \in I : \A y \in I : x <= y
      BY <2>2, LeastNat
    <3>2. Min(I) \in I
      BY <3>1 DEF Min
    <3>3. n = Min(I)
      BY <2>2 DEF SelectInSeq
    <3>4. QED BY <3>2, <3>3
  <2>3. QED BY <2>1, <2>2
<1>2. Group = IF n = 0 THEN batch ELSE SubSeq(batch, 1, n - 1)
  BY DEF Group
<1> HIDE DEF n
<1>3. \E k \in 0 .. Len(batch) : Group = SubSeq(batch, 1, k) /\ Len(Group) = k
  <2>1. CASE n = 0
    <3>1. Group = SubSeq(batch, 1, Len(batch)) /\ Len(Group) = Len(batch)
      BY <1>2, <2>1
    <3>2. QED BY <3>1
  <2>2. CASE n # 0
    <3>1. n - 1 \in 0 .. Len(batch) /\ Group = SubSeq(batch, 1, n - 1)
      BY <1>1, <1>2, <2>2
    <3>2. Len(Group) = n - 1
      BY <3>1
    <3>3. QED BY <3>1, <3>2
  <2>3. QED BY <2>1, <2>2
<1>4. QED BY <1>3 DEF Rest

WriterOutcome == [job : Job, result : Result]

LEMMA FunctionIsSeq ==
  ASSUME NEW S, NEW n \in Nat, NEW f, f \in [1 .. n -> S]
  PROVE  f \in Seq(S) /\ Len(f) = n
BY SeqDef

\* A release appends to the transaction that is open, or to the database.
LEMMA ReleasedOK ==
  ASSUME TypeOK, NEW jobs \in Seq(Job), Released(jobs)
  PROVE  /\ tx' \in Seq(Job) /\ db' \in Seq(Job) /\ open' = open
         /\ open => tx' = tx \o jobs /\ db' = db
         /\ ~open => tx' = tx /\ db' = db \o jobs
<1>1. tx \in Seq(Job) /\ db \in Seq(Job)
  BY DEF TypeOK
<1>2. CASE open
  <2>1. tx' = tx \o jobs /\ db' = db /\ open' = open
    BY <1>2 DEF Released
  <2>2. tx' \in Seq(Job) /\ db' \in Seq(Job)
    BY <1>1, <2>1
  <2>3. QED BY <1>2, <2>1, <2>2
<1>3. CASE ~open
  <2>1. db' = db \o jobs /\ tx' = tx /\ open' = open
    BY <1>3 DEF Released
  <2>2. tx' \in Seq(Job) /\ db' \in Seq(Job)
    BY <1>1, <2>1
  <2>3. QED BY <1>3, <2>1, <2>2
<1>4. QED BY <1>2, <1>3

\* So much for a savepoint that is rolled back, alone or with the transaction.
LEMMA KeptOrLostOK ==
  ASSUME TypeOK, UNCHANGED database \/ TransactionLost
  PROVE  /\ tx' \in Seq(Job) /\ db' \in Seq(Job) /\ open' \in BOOLEAN
         /\ db' = db /\ ((tx' = tx /\ open' = open) \/ (tx' = <<>> /\ open' = FALSE))
<1>1. db' = db /\ ((tx' = tx /\ open' = open) \/ (tx' = <<>> /\ open' = FALSE))
  BY DEF TransactionLost, database
<1>2. tx \in Seq(Job) /\ db \in Seq(Job) /\ open \in BOOLEAN /\ <<>> \in Seq(Job)
  BY DEF TypeOK
<1>3. tx' \in Seq(Job) /\ db' \in Seq(Job)
  BY <1>1, <1>2
<1>4. open' \in BOOLEAN
  BY <1>1, <1>2
<1>5. QED BY <1>1, <1>3, <1>4

\* One result for each job of a sequence, in its order.
LEMMA AllOK ==
  ASSUME NEW jobs \in Seq(Job), NEW R, NEW r \in R
  PROVE  /\ All(jobs, r) \in Seq([job : Job, result : R])
         /\ Len(All(jobs, r)) = Len(jobs)
         /\ \A i \in 1 .. Len(jobs) : All(jobs, r)[i].job = jobs[i] /\ All(jobs, r)[i].result = r
<1> DEFINE S == [job : Job, result : R]
<1>1. All(jobs, r) \in [1 .. Len(jobs) -> S]
  BY DEF All, Outcome
<1>2. \A i \in 1 .. Len(jobs) : All(jobs, r)[i].job = jobs[i] /\ All(jobs, r)[i].result = r
  BY DEF All, Outcome
<1> HIDE DEF S
<1>3. All(jobs, r) \in Seq(S) /\ Len(All(jobs, r)) = Len(jobs)
  BY <1>1, FunctionIsSeq
<1>4. QED BY <1>2, <1>3 DEF S

LEMMA FailedOK ==
  ASSUME done \in Seq(SavepointOutcome)
  PROVE  /\ Failed(done) \in Seq(SavepointOutcome)
         /\ Len(Failed(done)) = Len(done)
         /\ \A i \in 1 .. Len(done) : /\ Failed(done)[i].job = done[i].job
                                      /\ Failed(done)[i].result # "ok"
<1>1. \A i \in 1 .. Len(done) : done[i] \in SavepointOutcome
  OBVIOUS
<1>2. ASSUME NEW i \in 1 .. Len(done)
      PROVE  /\ Failed(done)[i] \in SavepointOutcome
             /\ Failed(done)[i].job = done[i].job /\ Failed(done)[i].result # "ok"
  BY <1>1 DEF Failed, Outcome, SavepointOutcome
<1>3. Failed(done) = [i \in 1 .. Len(done) |-> Failed(done)[i]]
  BY DEF Failed
<1>4. QED BY <1>2, <1>3, FunctionIsSeq

LEMMA ClosedOK ==
  ASSUME done \in Seq(SavepointOutcome)
  PROVE  LET closed == [i \in DOMAIN done |-> Outcome(done[i].job, "closed")] IN
         /\ closed \in Seq(WriterOutcome)
         /\ Len(closed) = Len(done)
         /\ \A i \in 1 .. Len(done) : closed[i].job = done[i].job /\ closed[i].result = "closed"
<1> DEFINE closed == [i \in DOMAIN done |-> Outcome(done[i].job, "closed")]
<1>1. \A i \in 1 .. Len(done) : done[i] \in SavepointOutcome
  OBVIOUS
<1>2. \A i \in 1 .. Len(done) : done[i].job \in Job
  BY <1>1 DEF SavepointOutcome
<1>3. closed \in [1 .. Len(done) -> WriterOutcome]
  BY <1>2 DEF Outcome, Result, WriterOutcome
<1>4. \A i \in 1 .. Len(done) : closed[i].job = done[i].job /\ closed[i].result = "closed"
  BY DEF Outcome
<1> HIDE DEF closed
<1>5. closed \in Seq(WriterOutcome) /\ Len(closed) = Len(done)
  BY <1>3, FunctionIsSeq
<1>6. QED BY <1>4, <1>5 DEF closed

\* An answer changes the replies of the jobs it names, and of no other.
LEMMA AnsweredOK ==
  ASSUME TypeOK, NEW outcomes \in Seq(WriterOutcome)
  PROVE  /\ Answered(outcomes) \in [Job -> Result \cup {None}]
         /\ \A j \in Job :
              \/ /\ \A i \in DOMAIN outcomes : outcomes[i].job # j
                 /\ Answered(outcomes)[j] = reply[j]
              \/ \E i \in DOMAIN outcomes : /\ outcomes[i].job = j
                                            /\ Answered(outcomes)[j] = outcomes[i].result
<1>1. ASSUME NEW j \in Job
      PROVE  \/ /\ \A i \in DOMAIN outcomes : outcomes[i].job # j
                /\ Answered(outcomes)[j] = reply[j]
             \/ \E i \in DOMAIN outcomes : /\ outcomes[i].job = j
                                           /\ Answered(outcomes)[j] = outcomes[i].result
  <2>1. CASE \A i \in DOMAIN outcomes : outcomes[i].job # j
    BY <2>1 DEF Answered
  <2>2. CASE \E i \in DOMAIN outcomes : outcomes[i].job = j
    <3> DEFINE o == CHOOSE o \in ToSet(outcomes) : o.job = j
    <3>1. \E x \in ToSet(outcomes) : x.job = j
      BY <2>2 DEF ToSet
    <3>2. o \in ToSet(outcomes) /\ o.job = j
      BY <3>1
    <3>3. PICK i \in DOMAIN outcomes : o = outcomes[i]
      BY <3>2 DEF ToSet
    <3>4. Answered(outcomes)[j] = o.result
      BY <2>2 DEF Answered
    <3>5. QED BY <3>2, <3>3, <3>4
  <2>3. QED BY <2>1, <2>2
<1>2. Answered(outcomes) = [j \in Job |-> Answered(outcomes)[j]]
  BY DEF Answered
<1>3. ASSUME NEW j \in Job PROVE Answered(outcomes)[j] \in Result \cup {None}
  <2>1. reply[j] \in Result \cup {None}
    BY DEF TypeOK
  <2>2. ASSUME NEW i \in DOMAIN outcomes PROVE outcomes[i].result \in Result
    <3>1. outcomes[i] \in WriterOutcome
      BY <2>2
    <3>2. QED BY <3>1 DEF WriterOutcome
  <2>3. \A i \in DOMAIN outcomes : outcomes[i].result \in Result
    BY <2>2
  <2>4. QED BY <1>1, <2>1, <2>3
<1>4. QED BY <1>1, <1>2, <1>3

LEMMA TailOK ==
  ASSUME NEW s \in Seq(Job), s # <<>>
  PROVE  /\ Head(s) = s[1] /\ s[1] \in Job /\ Len(s) \in Nat \ {0}
         /\ Tail(s) \in Seq(Job) /\ Len(Tail(s)) = Len(s) - 1
         /\ \A i \in 1 .. Len(s) - 1 : Tail(s)[i] = s[i + 1]
OBVIOUS

LEMMA OneOK ==
  ASSUME NEW j \in Job
  PROVE  <<j>> \in Seq(Job) /\ Len(<<j>>) = 1 /\ <<j>>[1] = j
OBVIOUS

-----------------------------------------------------------------------------
(* Types                                                                   *)

LEMMA InitTyped == Init => TypeOK
<1> SUFFICES ASSUME Init PROVE TypeOK
  OBVIOUS
<1>1. caller \in [Job -> Result \cup {"new", "waiting", "full", "deadline"}]
  BY DEF Init
<1>2. reply \in [Job -> Result \cup {None}]
  BY DEF Init
<1>3. <<>> \in Seq(Job) /\ <<>> \in Seq(SavepointOutcome)
  OBVIOUS
<1>4. Len(queue) <= Capacity
  BY CapacityAssumption DEF Init
<1>5. QED BY <1>1, <1>2, <1>3, <1>4 DEF Init, TypeOK, Place

LEMMA TypesKept == TypeOK /\ [Next]_vars => TypeOK'
<1> SUFFICES ASSUME TypeOK, [Next]_vars PROVE TypeOK'
  OBVIOUS
<1> USE DEF Place, database, work
<1>1. ASSUME NEW j \in Job, Accept(j) \/ Refuse(j) \/ Return(j) \/ GiveUp(j) PROVE TypeOK'
  <2>1. CASE Accept(j)
    <3>1. /\ queue' = Append(queue, j) /\ accepted' = Append(accepted, j)
          /\ Len(queue) < Capacity
      BY <2>1 DEF Accept, Room
    <3>2. caller' \in [Job -> Result \cup {"new", "waiting", "full", "deadline"}]
      BY <2>1 DEF Accept, TypeOK
    <3>3. queue \in Seq(Job) /\ accepted \in Seq(Job)
      BY DEF TypeOK
    <3>4. queue' \in Seq(Job) /\ Len(queue') = Len(queue) + 1
      BY <3>1, <3>3
    <3>5. accepted' \in Seq(Job)
      BY <3>1, <3>3
    <3>6. Len(queue') <= Capacity
      BY <3>1, <3>3, <3>4, CapacityAssumption
    <3>7. UNCHANGED <<handles, open, reply, batch, group, tx, db, pc, done, join>>
      BY <2>1 DEF Accept
    <3>8. QED BY <3>2, <3>4, <3>5, <3>6, <3>7 DEF TypeOK
  <2>2. CASE Refuse(j)
    BY <2>2 DEF Refuse, Result, TypeOK
  <2>3. CASE Return(j)
    BY <2>3 DEF Return, TypeOK
  <2>4. CASE GiveUp(j)
    BY <2>4 DEF GiveUp, TypeOK
  <2>5. QED BY <1>1, <2>1, <2>2, <2>3, <2>4
<1>2. CASE DropLast \/ JoinWithin
  BY <1>2 DEF DropLast, JoinWithin, TypeOK
<1>3. CASE Receive \/ Collect
  <2>1. /\ queue # <<>> /\ queue' = Tail(queue)
        /\ batch' = <<Head(queue)>> \/ batch' = Append(batch, Head(queue))
    BY <1>3 DEF Receive, Collect
  <2>2. queue' \in Seq(Job) /\ Len(queue') = Len(queue) - 1
    BY <2>1, TailOK DEF TypeOK
  <2>3. batch' \in Seq(Job)
    <3>1. Head(queue) \in Job /\ batch \in Seq(Job)
      BY <2>1, TailOK DEF TypeOK
    <3>2. CASE batch' = <<Head(queue)>>
      BY <3>1, <3>2
    <3>3. CASE batch' = Append(batch, Head(queue))
      BY <3>1, <3>3
    <3>4. QED BY <2>1, <3>2, <3>3
  <2>4. Len(queue') <= Capacity
    BY <2>2, CapacityAssumption DEF TypeOK
  <2>5. /\ UNCHANGED <<handles, caller, reply, accepted, group, done, open, tx, db, join>>
        /\ pc' \in Place
    BY <1>3 DEF TypeOK, Receive, Collect
  <2>6. QED BY <2>2, <2>3, <2>4, <2>5 DEF TypeOK
<1>4. CASE Begin
  BY <1>4 DEF Begin, TypeOK
<1>5. CASE BeginFails
  <2>1. reply' \in [Job -> Result \cup {None}]
    <3>1. batch \in Seq(Job) /\ "error" \in Result /\ reply' = Answered(All(batch, "error"))
      BY <1>5 DEF BeginFails, TypeOK, Result
    <3>2. All(batch, "error") \in Seq(WriterOutcome)
      BY <3>1, AllOK DEF WriterOutcome
    <3>3. QED BY <3>1, <3>2, AnsweredOK
  <2>2. <<>> \in Seq(Job)
    OBVIOUS
  <2>3. QED BY <1>5, <2>1, <2>2 DEF BeginFails, TypeOK
<1>6. CASE RunGroup
  <2>1. PICK k \in 0 .. Len(batch) :
          Group = SubSeq(batch, 1, k) /\ Rest(Group) = SubSeq(batch, k + 1, Len(batch))
    BY GroupIsPrefix DEF TypeOK
  <2>2. Group \in Seq(Job)
    BY <2>1 DEF TypeOK
  <2>3. batch' \in Seq(Job)
    <3>1. batch' = SubSeq(batch, k + 1, Len(batch)) /\ batch \in Seq(Job)
      BY <1>6, <2>1 DEF RunGroup, TypeOK
    <3>2. QED BY <3>1
  <2>4. ASSUME NEW r \in {"ok", "error", "commit"}, done' = done \o All(Group, r)
        PROVE  done' \in Seq(SavepointOutcome)
    <3>1. All(Group, r) \in Seq(SavepointOutcome)
      BY <2>2, AllOK DEF SavepointOutcome
    <3>2. done \in Seq(SavepointOutcome)
      BY DEF TypeOK
    <3>3. QED BY <2>4, <3>1, <3>2
  <2>5. done' \in Seq(SavepointOutcome)
    <3>1. \/ \E r \in {"ok", "error", "commit"} : done' = done \o All(Group, r)
          \/ done' = done
      BY <1>6 DEF RunGroup
    <3>2. QED BY <2>4, <3>1 DEF TypeOK
  <2>6. group' \in Seq(Job) /\ pc' \in Place
    BY <1>6, <2>2 DEF RunGroup, TypeOK
  <2>7. tx' \in Seq(Job) /\ db' \in Seq(Job) /\ open' \in BOOLEAN
    <3>1. Released(Group) \/ UNCHANGED database \/ TransactionLost
      BY <1>6 DEF RunGroup, RolledBack
    <3>2. CASE Released(Group)
      BY <2>2, <3>2, ReleasedOK DEF TypeOK
    <3>3. CASE UNCHANGED database \/ TransactionLost
      BY <3>3, KeptOrLostOK
    <3>4. QED BY <3>1, <3>2, <3>3
  <2>8. UNCHANGED <<handles, caller, reply, queue, accepted, join>>
    BY <1>6 DEF RunGroup
  <2>9. QED BY <2>3, <2>5, <2>6, <2>7, <2>8 DEF TypeOK
<1>7. ASSUME NEW j \in Job, RunOne(j) PROVE TypeOK'
  <2>1. batch' \in Seq(Job) /\ group' \in Seq(Job)
    <3>1. /\ batch' = batch \/ (batch # <<>> /\ batch' = Tail(batch))
          /\ group' = group \/ group' = Tail(group)
      BY <1>7 DEF RunOne, Alone
    <3>2. group = <<>> => Tail(group) \in Seq(Job)
      OBVIOUS
    <3>3. QED BY <3>1, <3>2, TailOK DEF TypeOK
  <2>2. pc' \in Place
    BY <1>7 DEF RunOne, Alone, TypeOK
  <2>3. done' \in Seq(SavepointOutcome)
    <3>1. PICK r \in {"ok", "error", "commit"} : done' = Append(done, Outcome(j, r))
      BY <1>7 DEF RunOne
    <3>2. Outcome(j, r) \in SavepointOutcome
      BY DEF Outcome, SavepointOutcome
    <3>3. QED BY <3>1, <3>2 DEF TypeOK
  <2>4. tx' \in Seq(Job) /\ db' \in Seq(Job) /\ open' \in BOOLEAN
    <3>1. Released(<<j>>) \/ UNCHANGED database \/ TransactionLost
      BY <1>7 DEF RunOne, RolledBack
    <3>2. CASE Released(<<j>>)
      BY <3>2, OneOK, ReleasedOK DEF TypeOK
    <3>3. CASE UNCHANGED database \/ TransactionLost
      BY <3>3, KeptOrLostOK
    <3>4. QED BY <3>1, <3>2, <3>3
  <2>5. UNCHANGED <<handles, caller, reply, queue, accepted, join>>
    BY <1>7 DEF RunOne
  <2>6. QED BY <2>1, <2>2, <2>3, <2>4, <2>5 DEF TypeOK
<1>8. CASE Panic
  <2>1. reply' \in [Job -> Result \cup {None}]
    <3> DEFINE closed == [i \in DOMAIN done |-> Outcome(done[i].job, "closed")]
    <3>1. All(group \o batch, "closed") \in Seq(WriterOutcome)
      <4>1. group \o batch \in Seq(Job) /\ "closed" \in Result
        BY DEF TypeOK, Result
      <4>2. QED BY <4>1, AllOK DEF WriterOutcome
    <3>2. closed \in Seq(WriterOutcome)
      BY ClosedOK DEF TypeOK
    <3>3. reply' = Answered(All(group \o batch, "closed") \o closed)
      BY <1>8 DEF Panic
    <3> HIDE DEF closed
    <3>4. All(group \o batch, "closed") \o closed \in Seq(WriterOutcome)
      BY <3>1, <3>2
    <3>5. QED BY <3>3, <3>4, AnsweredOK
  <2>2. <<>> \in Seq(Job) /\ <<>> \in Seq(SavepointOutcome)
    OBVIOUS
  <2>3. QED BY <1>8, <2>1, <2>2 DEF Panic, TransactionLost, TypeOK
<1>9. CASE Commit \/ CommitFails
  <2>1. done' \in Seq(SavepointOutcome)
    BY <1>9, FailedOK DEF Commit, CommitFails, TypeOK
  <2>2. db' \in Seq(Job)
    <3>1. db' = db \o tx \/ db' = db
      BY <1>9 DEF Commit, CommitFails, TransactionLost
    <3>2. db \in Seq(Job) /\ db \o tx \in Seq(Job)
      BY DEF TypeOK
    <3>3. QED BY <3>1, <3>2
  <2>3. /\ tx' = <<>> /\ open' = FALSE /\ pc' \in Place
        /\ UNCHANGED <<handles, caller, reply, queue, accepted, batch, group, join>>
    BY <1>9 DEF Commit, CommitFails, TransactionLost
  <2>4. tx' \in Seq(Job)
    BY <2>3
  <2>5. QED BY <2>1, <2>2, <2>3, <2>4 DEF TypeOK
<1>10. CASE Reply
  <2>1. \A s : s \in Seq(SavepointOutcome) => s \in Seq(WriterOutcome)
    <3>1. SavepointOutcome \subseteq WriterOutcome
      BY DEF SavepointOutcome, WriterOutcome, Result
    <3>2. QED BY <3>1, SeqMonotonic
  <2>2. reply' \in [Job -> Result \cup {None}]
    BY <1>10, <2>1, AnsweredOK DEF Reply, TypeOK
  <2>3. <<>> \in Seq(SavepointOutcome)
    OBVIOUS
  <2>4. QED BY <1>10, <2>2, <2>3 DEF Reply, TypeOK
<1>11. CASE Disconnected
  BY <1>11 DEF Disconnected, TypeOK
<1>12. CASE Leave
  <2>1. reply' \in [Job -> Result \cup {None}]
    <3>1. queue \in Seq(Job) /\ "closed" \in Result /\ reply' = Answered(All(queue, "closed"))
      BY <1>12 DEF Leave, ClosesQueue, TypeOK, Result
    <3>2. All(queue, "closed") \in Seq(WriterOutcome)
      BY <3>1, AllOK DEF WriterOutcome
    <3>3. QED BY <3>1, <3>2, AnsweredOK
  <2>2. <<>> \in Seq(Job) /\ Len(<<>>) <= Capacity
    BY CapacityAssumption
  <2>3. QED BY <1>12, <2>1, <2>2 DEF Leave, TypeOK
<1>13. CASE UNCHANGED vars
  BY <1>13 DEF vars, TypeOK
<1>14. QED
  BY <1>1, <1>2, <1>3, <1>4, <1>5, <1>6, <1>7, <1>8, <1>9, <1>10, <1>11, <1>12, <1>13
  DEF Next, Thread

\* Queues, batches, savepoints and answers hold what they should, whatever fails.
THEOREM TypeCorrect == Spec => []TypeOK
<1>1. QED BY InitTyped, TypesKept, PTL DEF Spec

-----------------------------------------------------------------------------
(* Where the thread is, and what it has in hand                            *)

LEMMA ClosedIsEmpty ==
  ASSUME TypeOK, InHand, NEW jobs \in Seq(Job),
         Released(jobs) \/ UNCHANGED database \/ TransactionLost
  PROVE  ~open' => tx' = <<>>
<1>1. ~open => tx = <<>>
  BY DEF InHand
<1>2. CASE Released(jobs)
  <2>1. /\ open' = open
        /\ ~open => tx' = tx
    BY <1>2, ReleasedOK
  <2>2. QED BY <1>1, <2>1
<1>3. CASE UNCHANGED database \/ TransactionLost
  BY <1>1, <1>3 DEF TransactionLost, database
<1>4. QED BY <1>2, <1>3

LEMMA HandKept == TypeOK /\ InHand /\ [Next]_vars => InHand'
<1> SUFFICES ASSUME TypeOK, InHand, [Next]_vars PROVE InHand'
  OBVIOUS
<1> USE DEF InHand, database, work
<1>1. CASE \E j \in Job : Accept(j) \/ Refuse(j) \/ Return(j) \/ GiveUp(j)
  BY <1>1 DEF Accept, Refuse, Return, GiveUp
<1>2. CASE DropLast \/ JoinWithin
  BY <1>2 DEF DropLast, JoinWithin
<1>3. CASE Receive
  BY <1>3 DEF Receive
<1>4. CASE Collect
  BY <1>4 DEF Collect
<1>5. CASE Begin
  BY <1>5 DEF Begin
<1>6. CASE BeginFails
  BY <1>6 DEF BeginFails
<1>7. CASE RunGroup
  <2>1. Group # <<>>
    <3>1. Len(Group) > 1
      BY <1>7 DEF RunGroup
    <3>2. Len(<<>>) = 0
      OBVIOUS
    <3>3. QED BY <3>1, <3>2
  <2>2. pc = "running" /\ pc' \in {"running", "replaying"}
    BY <1>7 DEF RunGroup
  <2>3. group' # <<>> <=> pc' = "replaying"
    BY <1>7, <2>1, <2>2 DEF RunGroup
  <2>4. ~open' => tx' = <<>>
    <3>1. Group \in Seq(Job)
      BY GroupIsPrefix DEF TypeOK
    <3>2. Released(Group) \/ UNCHANGED database \/ TransactionLost
      BY <1>7 DEF RunGroup, RolledBack
    <3>3. QED BY <3>1, <3>2, ClosedIsEmpty
  <2>5. UNCHANGED <<queue, join>>
    BY <1>7 DEF RunGroup
  <2>6. QED BY <2>2, <2>3, <2>4, <2>5
<1>8. ASSUME NEW j \in Job, RunOne(j) PROVE InHand'
  <2>1. pc \in {"running", "replaying"} /\ pc' \in {"running", "replaying"}
    BY <1>8 DEF RunOne, Alone
  <2>2. group' # <<>> <=> pc' = "replaying"
    <3>1. CASE pc = "running"
      BY <1>8, <3>1 DEF RunOne, Alone
    <3>2. CASE pc = "replaying"
      <4>1. /\ group # <<>> /\ group' = Tail(group)
            /\ pc' = IF Len(group) = 1 THEN "running" ELSE "replaying"
        BY <1>8, <3>2 DEF RunOne, Alone
      <4>2. Len(group) \in Nat \ {0} /\ Len(group') = Len(group) - 1 /\ group' \in Seq(Job)
        BY <4>1, TailOK DEF TypeOK
      <4>3. group' # <<>> <=> Len(group) # 1
        BY <4>2
      <4>4. QED BY <4>1, <4>3
    <3>3. QED BY <2>1, <3>1, <3>2
  <2>3. ~open' => tx' = <<>>
    <3>1. Released(<<j>>) \/ UNCHANGED database \/ TransactionLost
      BY <1>8 DEF RunOne, RolledBack
    <3>2. QED BY <3>1, OneOK, ClosedIsEmpty
  <2>4. UNCHANGED <<queue, join>>
    BY <1>8 DEF RunOne
  <2>5. QED BY <2>1, <2>2, <2>3, <2>4
<1>9. CASE Panic
  BY <1>9 DEF Panic, TransactionLost
<1>10. CASE Commit
  BY <1>10 DEF Commit
<1>11. CASE CommitFails
  BY <1>11 DEF CommitFails, TransactionLost
<1>12. CASE Reply
  BY <1>12 DEF Reply
<1>13. CASE Disconnected \/ Leave
  BY <1>13 DEF Disconnected, Leave
<1>14. CASE UNCHANGED vars
  BY <1>14 DEF vars
<1>15. QED
  BY <1>1, <1>2, <1>3, <1>4, <1>5, <1>6, <1>7, <1>8, <1>9, <1>10, <1>11, <1>12, <1>13, <1>14
  DEF Next, Thread

-----------------------------------------------------------------------------
(* Answers                                                                 *)

LEMMA Lengths ==
  ASSUME TypeOK
  PROVE  /\ Len(accepted) \in Nat /\ Len(queue) \in Nat /\ Len(batch) \in Nat
         /\ Len(group) \in Nat /\ Len(done) \in Nat
         /\ Settled \in Int
         /\ Settled + Len(done) + Len(group) + Len(batch) + Len(queue) = Len(accepted)
BY DEF TypeOK, Settled

\* Outcomes that name the jobs of the line up to k, those already answered
\* aside, answer just these.
Answers(outcomes, k) ==
  /\ outcomes \in Seq(WriterOutcome) /\ k \in Settled .. Len(accepted)
  /\ \A i \in DOMAIN outcomes : \E m \in Settled + 1 .. k : accepted[m] = outcomes[i].job
  /\ \A m \in Settled + 1 .. k : \E i \in DOMAIN outcomes : outcomes[i].job = accepted[m]

LEMMA AnswersOK ==
  ASSUME IInv, NEW outcomes, NEW k, Answers(outcomes, k), reply' = Answered(outcomes)
  PROVE  /\ \A m \in DOMAIN accepted : reply'[accepted[m]] = None <=> m > k
         /\ \A j \in Job : caller[j] = "new" => reply'[j] = None
         /\ \A j \in Job : reply'[j] # reply[j] =>
              /\ reply[j] = None /\ Contains(accepted, j)
              /\ \E i \in DOMAIN outcomes : /\ outcomes[i].job = j
                                            /\ reply'[j] = outcomes[i].result
<1>1. /\ outcomes \in Seq(WriterOutcome) /\ k \in Settled .. Len(accepted)
      /\ Settled \in Nat /\ Len(accepted) \in Nat /\ accepted \in Seq(Job)
      /\ DOMAIN accepted = 1 .. Len(accepted)
  BY Lengths DEF Answers, IInv, Line, TypeOK
<1>2. \A j \in Job :
        \/ (\A i \in DOMAIN outcomes : outcomes[i].job # j) /\ reply'[j] = reply[j]
        \/ \E i \in DOMAIN outcomes : outcomes[i].job = j /\ reply'[j] = outcomes[i].result
  BY <1>1, AnsweredOK DEF IInv
<1>3. \A i \in DOMAIN outcomes : outcomes[i].result # None
  <2>1. ASSUME NEW i \in DOMAIN outcomes PROVE outcomes[i].result # None
    <3>1. outcomes[i] \in WriterOutcome
      BY <1>1, <2>1
    <3>2. outcomes[i].result \in Result
      BY <3>1 DEF WriterOutcome
    <3>3. QED BY <3>2, NoneAssumption
  <2>2. QED BY <2>1
<1>4. \A m, n \in 1 .. Len(accepted) : accepted[m] = accepted[n] => m = n
  BY <1>1 DEF IInv, Once
<1>5. \A m \in 1 .. Len(accepted) : accepted[m] \in Job /\ (reply[accepted[m]] = None <=> m > Settled)
  BY <1>1 DEF IInv, AnsweredFirst
<1>6. \A i \in DOMAIN outcomes : \E m \in Settled + 1 .. k : accepted[m] = outcomes[i].job
  BY DEF Answers
<1>7. \A m \in Settled + 1 .. k : \E i \in DOMAIN outcomes : outcomes[i].job = accepted[m]
  BY DEF Answers
<1>8. ASSUME NEW m \in 1 .. Len(accepted) PROVE reply'[accepted[m]] = None <=> m > k
  <2>1. CASE m \in Settled + 1 .. k
    <3>1. reply'[accepted[m]] # None
      BY <1>2, <1>3, <1>5, <1>7, <2>1
    <3>2. QED BY <1>1, <2>1, <3>1
  <2>2. CASE m \notin Settled + 1 .. k
    <3>1. \A i \in DOMAIN outcomes : outcomes[i].job # accepted[m]
      <4>1. ASSUME NEW i \in DOMAIN outcomes, outcomes[i].job = accepted[m] PROVE FALSE
        <5>1. PICK n \in Settled + 1 .. k : accepted[n] = outcomes[i].job
          BY <1>6
        <5>2. n \in 1 .. Len(accepted)
          BY <1>1
        <5>3. n = m
          BY <1>4, <4>1, <5>1, <5>2
        <5>4. QED BY <2>2, <5>1, <5>3
      <4>2. QED BY <4>1
    <3>2. reply'[accepted[m]] = reply[accepted[m]]
      BY <1>2, <1>5, <3>1
    <3>3. QED BY <1>1, <1>5, <2>2, <3>2
  <2>3. QED BY <2>1, <2>2
<1>9. ASSUME NEW j \in Job, NEW i \in DOMAIN outcomes, outcomes[i].job = j
      PROVE  reply[j] = None /\ Contains(accepted, j) /\ caller[j] # "new"
  <2>1. PICK m \in Settled + 1 .. k : accepted[m] = j
    BY <1>6, <1>9
  <2>2. m \in 1 .. Len(accepted) /\ m > Settled
    BY <1>1
  <2>3. QED BY <1>1, <1>5, <2>1, <2>2 DEF Contains, IInv, NewIsNowhere
<1>10. ASSUME NEW j \in Job, caller[j] = "new" PROVE reply'[j] = None
  <2>1. \A i \in DOMAIN outcomes : outcomes[i].job # j
    BY <1>9, <1>10
  <2>2. QED BY <1>2, <1>10, <2>1 DEF IInv, NewIsNowhere
<1>11. ASSUME NEW j \in Job, reply'[j] # reply[j]
       PROVE  /\ reply[j] = None /\ Contains(accepted, j)
              /\ \E i \in DOMAIN outcomes : /\ outcomes[i].job = j
                                            /\ reply'[j] = outcomes[i].result
  BY <1>2, <1>9, <1>11
<1>12. QED BY <1>1, <1>8, <1>10, <1>11

\* What is known of the line, in the words of its positions.
LEMMA Positions ==
  ASSUME IInv
  PROVE  /\ Len(accepted) \in Nat /\ Len(queue) \in Nat /\ Len(batch) \in Nat
         /\ Len(group) \in Nat /\ Len(done) \in Nat /\ Settled \in Nat
         /\ Ran = Settled + Len(done) /\ Batched = Ran + Len(group)
         /\ Queued = Batched + Len(batch) /\ Len(accepted) = Queued + Len(queue)
         /\ \A i \in 1 .. Len(done) : done[i].job = accepted[Settled + i]
         /\ \A i \in 1 .. Len(group) : group[i] = accepted[Ran + i]
         /\ \A i \in 1 .. Len(batch) : batch[i] = accepted[Batched + i]
         /\ \A i \in 1 .. Len(queue) : queue[i] = accepted[Queued + i]
<1>1. /\ Len(accepted) \in Nat /\ Len(queue) \in Nat /\ Len(batch) \in Nat
      /\ Len(group) \in Nat /\ Len(done) \in Nat
      /\ Settled + Len(done) + Len(group) + Len(batch) + Len(queue) = Len(accepted)
  BY Lengths DEF IInv
<1>2. /\ DOMAIN done = 1 .. Len(done) /\ DOMAIN group = 1 .. Len(group)
      /\ DOMAIN batch = 1 .. Len(batch) /\ DOMAIN queue = 1 .. Len(queue)
  BY DEF IInv, TypeOK
<1>3. Settled \in Nat /\ Line
  BY DEF IInv, Line
<1>4. Ran = Settled + Len(done) /\ Batched = Ran + Len(group) /\ Queued = Batched + Len(batch)
  BY DEF Ran, Batched, Queued
<1>5. Len(accepted) = Queued + Len(queue)
  BY <1>1, <1>3, <1>4
<1>6. QED BY <1>1, <1>2, <1>3, <1>4, <1>5 DEF Line

\* The lengths alone: what the arithmetic on places needs, without the jobs that stand there.
LEMMA Places ==
  ASSUME IInv
  PROVE  /\ Len(accepted) \in Nat /\ Len(queue) \in Nat /\ Len(batch) \in Nat
         /\ Len(group) \in Nat /\ Len(done) \in Nat /\ Settled \in Nat
         /\ Ran = Settled + Len(done) /\ Batched = Ran + Len(group)
         /\ Queued = Batched + Len(batch) /\ Len(accepted) = Queued + Len(queue)
BY Positions

\* The part of the line that a sequence of outcomes with one result answers.
LEMMA AnswersAll ==
  ASSUME IInv, NEW jobs \in Seq(Job), NEW r \in Result, NEW k \in Settled .. Len(accepted),
         k = Settled + Len(jobs),
         \A i \in 1 .. Len(jobs) : jobs[i] = accepted[Settled + i]
  PROVE  /\ Answers(All(jobs, r), k)
         /\ \A i \in DOMAIN All(jobs, r) : All(jobs, r)[i].result = r
<1>1. /\ All(jobs, r) \in Seq(WriterOutcome) /\ Len(All(jobs, r)) = Len(jobs)
      /\ \A i \in 1 .. Len(jobs) : All(jobs, r)[i].job = jobs[i] /\ All(jobs, r)[i].result = r
  BY AllOK DEF WriterOutcome
<1>2. DOMAIN All(jobs, r) = 1 .. Len(jobs) /\ Len(jobs) \in Nat
  BY <1>1
<1>3. Settled \in Nat
  BY Places
<1>4. ASSUME NEW i \in 1 .. Len(jobs)
      PROVE  \E m \in Settled + 1 .. k : accepted[m] = All(jobs, r)[i].job
  <2>1. Settled + i \in Settled + 1 .. k
    BY <1>2, <1>3
  <2>2. QED BY <1>1, <2>1
<1>5. ASSUME NEW m \in Settled + 1 .. k
      PROVE  \E i \in 1 .. Len(jobs) : All(jobs, r)[i].job = accepted[m]
  <2>1. m - Settled \in 1 .. Len(jobs) /\ Settled + (m - Settled) = m
    BY <1>2, <1>3
  <2>2. All(jobs, r)[m - Settled].job = accepted[m]
    BY <1>1, <2>1
  <2>3. QED BY <2>1, <2>2
<1>6. QED BY <1>1, <1>2, <1>4, <1>5 DEF Answers

\* Every batch that ends, and the end of the thread, answers the next jobs of the
\* line, up to the ones it leaves; and what it answers as done is written.
AnswersNext(outcomes) ==
  /\ reply' = Answered(outcomes)
  /\ Answers(outcomes, Settled')
  /\ \A i \in DOMAIN outcomes : outcomes[i].result = "ok" => Contains(db, outcomes[i].job)

LEMMA BeginFailsAnswers == IInv /\ BeginFails => \E outcomes : AnswersNext(outcomes)
<1> SUFFICES ASSUME IInv, BeginFails PROVE AnswersNext(All(batch, "error"))
  OBVIOUS
<1>1. /\ reply' = Answered(All(batch, "error"))
      /\ batch' = <<>> /\ UNCHANGED <<accepted, queue, group, done>>
      /\ done = <<>> /\ group = <<>>
  BY DEF BeginFails, IInv, InHand
<1>2. Len(<<>>) = 0
  OBVIOUS
<1>3. Settled' = Settled + Len(batch) /\ Settled' \in Settled .. Len(accepted) /\ Batched = Settled
  BY <1>1, <1>2, Places DEF Settled
<1>4. batch \in Seq(Job) /\ "error" \in Result
  BY DEF IInv, TypeOK, Result
<1>5. \A i \in 1 .. Len(batch) : batch[i] = accepted[Settled + i]
  BY <1>3, Positions
<1>6. /\ Answers(All(batch, "error"), Settled')
      /\ \A i \in DOMAIN All(batch, "error") : All(batch, "error")[i].result = "error"
  BY <1>3, <1>4, <1>5, AnswersAll
<1>7. QED BY <1>1, <1>6 DEF AnswersNext

LEMMA LeaveAnswers == IInv /\ Leave => \E outcomes : AnswersNext(outcomes)
<1> SUFFICES ASSUME IInv, Leave PROVE AnswersNext(All(queue, "closed"))
  OBVIOUS
<1>1. /\ reply' = Answered(All(queue, "closed"))
      /\ queue' = <<>> /\ UNCHANGED <<accepted, batch, group, done>>
      /\ done = <<>> /\ group = <<>> /\ batch = <<>>
  BY DEF Leave, ClosesQueue, IInv, InHand, work
<1>2. Len(<<>>) = 0
  OBVIOUS
<1>3. Settled' = Settled + Len(queue) /\ Settled' \in Settled .. Len(accepted) /\ Queued = Settled
  BY <1>1, <1>2, Places DEF Settled
<1>4. queue \in Seq(Job) /\ "closed" \in Result
  BY DEF IInv, TypeOK, Result
<1>5. \A i \in 1 .. Len(queue) : queue[i] = accepted[Settled + i]
  BY <1>3, Positions
<1>6. /\ Answers(All(queue, "closed"), Settled')
      /\ \A i \in DOMAIN All(queue, "closed") : All(queue, "closed")[i].result = "closed"
  BY <1>3, <1>4, <1>5, AnswersAll
<1>7. QED BY <1>1, <1>6 DEF AnswersNext

LEMMA ReplyAnswers == IInv /\ Reply => \E outcomes : AnswersNext(outcomes)
<1> SUFFICES ASSUME IInv, Reply PROVE AnswersNext(done)
  OBVIOUS
<1>1. /\ reply' = Answered(done) /\ pc = "replying"
      /\ done' = <<>> /\ UNCHANGED <<accepted, queue, batch, group>>
      /\ group = <<>> /\ batch = <<>>
  BY DEF Reply, IInv, InHand
<1>2. Len(<<>>) = 0
  OBVIOUS
<1>3. Settled' = Settled + Len(done) /\ Settled' \in Settled .. Len(accepted)
  BY <1>1, <1>2, Places DEF Settled
<1>4. SavepointOutcome \subseteq WriterOutcome
  BY DEF SavepointOutcome, WriterOutcome, Result
<1>5. done \in Seq(WriterOutcome) /\ DOMAIN done = 1 .. Len(done)
  BY <1>4, SeqMonotonic DEF IInv, TypeOK
<1>6. ASSUME NEW i \in 1 .. Len(done)
      PROVE  \E m \in Settled + 1 .. Settled' : accepted[m] = done[i].job
  <2>1. Settled + i \in Settled + 1 .. Settled' /\ accepted[Settled + i] = done[i].job
    <3>1. Len(done) \in Nat /\ Settled \in Nat /\ done[i].job = accepted[Settled + i]
      BY Positions
    <3>2. Settled + i \in Settled + 1 .. Settled'
      BY <1>3, <3>1
    <3>3. QED BY <3>1, <3>2
  <2>2. QED BY <2>1
<1>7. ASSUME NEW m \in Settled + 1 .. Settled'
      PROVE  \E i \in 1 .. Len(done) : done[i].job = accepted[m]
  <2>1. m - Settled \in 1 .. Len(done) /\ Settled + (m - Settled) = m
    BY SMTT(30), <1>3, Positions
  <2>2. done[m - Settled].job = accepted[m]
    BY <2>1, Positions
  <2>3. QED BY <2>1, <2>2
<1>8. \A i \in DOMAIN done : done[i].result = "ok" => Contains(db, done[i].job)
  BY <1>1 DEF IInv, OkIsWritten
<1>9. QED BY <1>1, <1>3, <1>5, <1>6, <1>7, <1>8 DEF AnswersNext, Answers

LEMMA PanicAnswers == IInv /\ Panic => \E outcomes : AnswersNext(outcomes)
<1> SUFFICES ASSUME IInv, Panic PROVE \E outcomes : AnswersNext(outcomes)
  OBVIOUS
<1> DEFINE closed == [i \in DOMAIN done |-> Outcome(done[i].job, "closed")]
           left == All(group \o batch, "closed")
           outcomes == left \o closed
<1>1. /\ reply' = Answered(outcomes)
      /\ batch' = <<>> /\ group' = <<>> /\ done' = <<>> /\ UNCHANGED <<accepted, queue>>
  BY DEF Panic
<1>2. Len(<<>>) = 0
  OBVIOUS
<1>3. /\ Settled' = Settled + Len(done) + Len(group) + Len(batch)
      /\ Settled' \in Settled .. Len(accepted)
  BY <1>1, <1>2, Places DEF Settled
<1>4. group \in Seq(Job) /\ batch \in Seq(Job) /\ done \in Seq(SavepointOutcome)
  BY DEF IInv, TypeOK
<1>5. /\ group \o batch \in Seq(Job) /\ Len(group \o batch) = Len(group) + Len(batch)
      /\ \A i \in 1 .. Len(group) + Len(batch) : (group \o batch)[i] = accepted[Ran + i]
  <2>1. /\ group \o batch \in Seq(Job) /\ Len(group \o batch) = Len(group) + Len(batch)
        /\ \A i \in 1 .. Len(group) + Len(batch) :
             (group \o batch)[i] = IF i <= Len(group) THEN group[i] ELSE batch[i - Len(group)]
    BY <1>4
  <2>2. ASSUME NEW i \in 1 .. Len(group) + Len(batch) PROVE (group \o batch)[i] = accepted[Ran + i]
    <3>1. CASE i <= Len(group)
      BY <2>1, <3>1, Positions
    <3>2. CASE i > Len(group)
      <4>1. i - Len(group) \in 1 .. Len(batch) /\ Batched + (i - Len(group)) = Ran + i
        BY <3>2, Places
      <4>2. (group \o batch)[i] = batch[i - Len(group)]
        BY <2>1, <3>2, Places
      <4>3. QED BY <4>1, <4>2, Positions
    <3>3. QED BY <3>1, <3>2, Places
  <2>3. QED BY <2>1, <2>2
<1>6. /\ left \in Seq(WriterOutcome) /\ Len(left) = Len(group) + Len(batch)
      /\ \A i \in 1 .. Len(group) + Len(batch) :
           left[i].job = accepted[Ran + i] /\ left[i].result = "closed"
  <2> DEFINE jobs == group \o batch
  <2>1. "closed" \in Result
    BY DEF Result
  <2>2. /\ jobs \in Seq(Job) /\ Len(jobs) = Len(group) + Len(batch)
        /\ \A i \in 1 .. Len(group) + Len(batch) : jobs[i] = accepted[Ran + i]
    BY <1>5
  <2> HIDE DEF jobs
  <2>3. /\ All(jobs, "closed") \in Seq(WriterOutcome) /\ Len(All(jobs, "closed")) = Len(jobs)
        /\ \A i \in 1 .. Len(jobs) : /\ All(jobs, "closed")[i].job = jobs[i]
                                      /\ All(jobs, "closed")[i].result = "closed"
    BY <2>1, <2>2, AllOK DEF WriterOutcome
  <2>4. left = All(jobs, "closed")
    BY DEF jobs
  <2> HIDE DEF left
  <2>5. QED BY <2>2, <2>3, <2>4
<1>7. /\ closed \in Seq(WriterOutcome) /\ Len(closed) = Len(done)
      /\ \A i \in 1 .. Len(done) :
           closed[i].job = accepted[Settled + i] /\ closed[i].result = "closed"
  BY <1>4, ClosedOK, Positions
<1> HIDE DEF left, closed
<1>8. /\ outcomes \in Seq(WriterOutcome)
      /\ DOMAIN outcomes = 1 .. Len(left) + Len(done)
      /\ \A i \in 1 .. Len(left) + Len(done) :
           outcomes[i] = IF i <= Len(left) THEN left[i] ELSE closed[i - Len(left)]
  <2>1. Len(closed) = Len(done) /\ left \in Seq(WriterOutcome) /\ closed \in Seq(WriterOutcome)
    BY <1>6, <1>7
  <2>2. /\ outcomes \in Seq(WriterOutcome)
        /\ Len(outcomes) = Len(left) + Len(closed)
        /\ \A i \in 1 .. Len(left) + Len(closed) :
             outcomes[i] = IF i <= Len(left) THEN left[i] ELSE closed[i - Len(left)]
    BY <2>1, ConcatProperties
  <2> HIDE DEF outcomes
  <2>3. DOMAIN outcomes = 1 .. Len(outcomes)
    BY <2>2
  <2>4. QED BY <2>1, <2>2, <2>3
<1> HIDE DEF outcomes
<1>9. ASSUME NEW i \in 1 .. Len(left) + Len(done)
      PROVE  /\ \E m \in Settled + 1 .. Settled' : accepted[m] = outcomes[i].job
             /\ outcomes[i].result = "closed"
  <2>1. CASE i <= Len(left)
    <3>1. Ran + i \in Settled + 1 .. Settled' /\ i \in 1 .. Len(group) + Len(batch)
      BY SMTT(30), <1>3, <1>6, <2>1, Places
    <3>2. QED BY <1>6, <1>8, <2>1, <3>1
  <2>2. CASE i > Len(left)
    <3>1. i - Len(left) \in 1 .. Len(done)
      BY <1>6, <2>2, Places
    <3>2. Settled + (i - Len(left)) \in Settled + 1 .. Settled'
      BY SMTT(30), <1>3, <3>1, Places
    <3>3. outcomes[i] = closed[i - Len(left)]
      BY <1>6, <1>8, <2>2, Places
    <3>4. QED BY <1>7, <3>1, <3>2, <3>3
  <2>3. QED BY <1>6, <2>1, <2>2, Places
<1>10. ASSUME NEW m \in Settled + 1 .. Settled'
       PROVE  \E i \in 1 .. Len(left) + Len(done) : outcomes[i].job = accepted[m]
  <2>1. CASE m <= Ran
    <3>1. PICK i \in 1 .. Len(done) : m = Settled + i
      <4>1. m - Settled \in 1 .. Len(done) /\ m = Settled + (m - Settled)
        BY <1>3, <2>1, Places
      <4>2. QED BY <4>1
    <3>2. Len(left) \in Nat
      BY <1>6
    <3>3. /\ Len(left) + i \in 1 .. Len(left) + Len(done) /\ ~(Len(left) + i <= Len(left))
          /\ (Len(left) + i) - Len(left) = i
      BY <3>2, Places
    <3>4. outcomes[Len(left) + i] = closed[i]
      BY <1>8, <3>3
    <3>5. outcomes[Len(left) + i].job = accepted[m]
      BY <1>7, <3>1, <3>4
    <3>6. QED BY <3>3, <3>5
  <2>2. CASE m > Ran
    <3>1. m - Ran \in 1 .. Len(left) /\ Ran + (m - Ran) = m
      BY SMTT(30), <1>3, <1>6, <2>2, Places
    <3>2. m - Ran \in 1 .. Len(left) + Len(done)
      BY <1>6, <3>1, Places
    <3>3. outcomes[m - Ran].job = accepted[m]
      BY <1>6, <1>8, <3>1, <3>2
    <3>4. QED BY <3>2, <3>3
  <2>3. QED BY <1>3, <2>1, <2>2, Places
<1>11. AnswersNext(outcomes)
  BY <1>1, <1>3, <1>8, <1>9, <1>10 DEF AnswersNext, Answers, outcomes
<1>12. QED BY <1>11

-----------------------------------------------------------------------------
(* The line                                                                *)

Ordered == Line /\ Once /\ NewIsNowhere /\ AnsweredFirst

\* Jobs that only move within the line leave it in order.
LEMMA OrderedIfMoved ==
  ASSUME IInv, UNCHANGED <<accepted, reply>>, Settled' = Settled, Line',
         \A j \in Job : caller'[j] = "new" => caller[j] = "new"
  PROVE  Ordered'
BY DEF IInv, Ordered, Once, NewIsNowhere, AnsweredFirst

LEMMA OrderedUnmoved ==
  ASSUME IInv, UNCHANGED <<accepted, queue, batch, group, done, reply>>,
         \A j \in Job : caller'[j] = "new" => caller[j] = "new"
  PROVE  Ordered' /\ Settled' = Settled /\ Ran' = Ran
<1>1. Settled' = Settled /\ Ran' = Ran /\ Batched' = Batched /\ Queued' = Queued
  BY DEF Settled, Ran, Batched, Queued
<1>2. Line'
  BY <1>1 DEF IInv, Line
<1>3. QED BY <1>1, <1>2, OrderedIfMoved

LEMMA AcceptOrders ==
  ASSUME IInv, NEW j \in Job, Accept(j)
  PROVE  Ordered' /\ Settled' = Settled /\ Ran' = Ran
<1>1. /\ queue' = Append(queue, j) /\ accepted' = Append(accepted, j)
      /\ caller[j] = "new" /\ caller' = [caller EXCEPT ![j] = "waiting"]
      /\ UNCHANGED <<reply, batch, group, done>>
  BY DEF Accept, work
<1>2. /\ Len(accepted') = Len(accepted) + 1 /\ Len(queue') = Len(queue) + 1
      /\ \A m \in 1 .. Len(accepted) : accepted'[m] = accepted[m]
      /\ accepted'[Len(accepted) + 1] = j
      /\ \A i \in 1 .. Len(queue) : queue'[i] = queue[i]
      /\ queue'[Len(queue) + 1] = j
      /\ DOMAIN accepted = 1 .. Len(accepted) /\ DOMAIN accepted' = 1 .. Len(accepted) + 1
      /\ DOMAIN queue' = 1 .. Len(queue) + 1
      /\ DOMAIN done = 1 .. Len(done) /\ DOMAIN group = 1 .. Len(group)
      /\ DOMAIN batch = 1 .. Len(batch)
  <2>1. accepted \in Seq(Job) /\ queue \in Seq(Job)
    BY DEF IInv, TypeOK
  <2>2. /\ Len(accepted') = Len(accepted) + 1 /\ accepted'[Len(accepted) + 1] = j
        /\ \A m \in 1 .. Len(accepted) : accepted'[m] = accepted[m]
    BY <1>1, <2>1, AppendProperties
  <2>3. /\ Len(queue') = Len(queue) + 1 /\ queue'[Len(queue) + 1] = j
        /\ \A i \in 1 .. Len(queue) : queue'[i] = queue[i]
    BY <1>1, <2>1, AppendProperties
  <2>4. DOMAIN accepted' = 1 .. Len(accepted) + 1 /\ DOMAIN queue' = 1 .. Len(queue) + 1
    BY <1>1, <2>1
  <2>5. /\ DOMAIN accepted = 1 .. Len(accepted) /\ DOMAIN done = 1 .. Len(done)
        /\ DOMAIN group = 1 .. Len(group) /\ DOMAIN batch = 1 .. Len(batch)
    BY DEF IInv, TypeOK
  <2>6. QED BY <2>2, <2>3, <2>4, <2>5
<1>3. Settled' = Settled /\ Ran' = Ran /\ Batched' = Batched /\ Queued' = Queued
  BY <1>1, <1>2, Places DEF Settled, Ran, Batched, Queued
<1>4. Line'
  <2>1. \A i \in 1 .. Len(done) : Settled + i \in 1 .. Len(accepted)
    BY Places
  <2>2. \A i \in 1 .. Len(group) : Ran + i \in 1 .. Len(accepted)
    BY Places
  <2>3. \A i \in 1 .. Len(batch) : Batched + i \in 1 .. Len(accepted)
    BY Places
  <2>4. ASSUME NEW i \in 1 .. Len(queue) + 1 PROVE queue'[i] = accepted'[Queued + i]
    <3>1. CASE i \in 1 .. Len(queue)
      <4>1. Queued + i \in 1 .. Len(accepted)
        BY <3>1, Places
      <4>2. queue[i] = accepted[Queued + i]
        BY <3>1, Positions
      <4>3. QED BY <1>2, <3>1, <4>1, <4>2
    <3>2. CASE i = Len(queue) + 1
      BY <1>2, <3>2, Places
    <3>3. QED BY <3>1, <3>2, Places
  <2>5. \A i \in 1 .. Len(done) : done[i].job = accepted'[Settled + i]
    BY <1>2, <2>1, Positions
  <2>6. \A i \in 1 .. Len(group) : group[i] = accepted'[Ran + i]
    BY <1>2, <2>2, Positions
  <2>7. \A i \in 1 .. Len(batch) : batch[i] = accepted'[Batched + i]
    BY <1>2, <2>3, Positions
  <2>8. QED BY <1>1, <1>2, <1>3, <2>4, <2>5, <2>6, <2>7, Places DEF Line
<1>5. reply[j] = None /\ \A m \in 1 .. Len(accepted) : accepted[m] # j
  BY <1>1, <1>2 DEF IInv, NewIsNowhere
<1>6. \A m \in 1 .. Len(accepted) + 1 : m \in 1 .. Len(accepted) \/ m = Len(accepted) + 1
  BY SMTT(30), Places
<1>7. Once'
  BY <1>2, <1>5, <1>6 DEF IInv, Once
<1>8. NewIsNowhere'
  <2>1. ASSUME NEW k \in Job, caller'[k] = "new"
        PROVE  reply[k] = None /\ \A m \in 1 .. Len(accepted) + 1 : accepted'[m] # k
    <3>1. k # j /\ caller[k] = "new"
      BY <1>1, <2>1 DEF IInv, TypeOK
    <3>2. QED BY <1>2, <1>6, <3>1 DEF IInv, NewIsNowhere
  <2>2. QED BY <1>1, <1>2, <2>1 DEF NewIsNowhere
<1>9. AnsweredFirst'
  <2>1. Len(accepted) + 1 > Settled
    BY Places
  <2>2. ASSUME NEW m \in 1 .. Len(accepted) + 1
        PROVE  reply[accepted'[m]] = None <=> m > Settled
    BY <1>2, <1>5, <1>6, <2>1 DEF IInv, AnsweredFirst
  <2>3. QED BY <1>1, <1>2, <1>3, <2>2 DEF AnsweredFirst
<1>10. QED BY <1>3, <1>4, <1>7, <1>8, <1>9 DEF Ordered

LEMMA TakeOrders ==
  ASSUME IInv, Receive \/ Collect
  PROVE  Ordered' /\ Settled' = Settled /\ Ran' = Ran
<1>1. /\ queue # <<>> /\ queue' = Tail(queue)
      /\ UNCHANGED <<accepted, reply, caller, group, done>>
      /\ \/ batch' = Append(batch, Head(queue))
         \/ pc = "idle" /\ batch' = <<Head(queue)>>
  BY DEF Receive, Collect
<1>2. /\ Head(queue) = queue[1] /\ queue[1] \in Job /\ Len(queue) \in Nat \ {0}
      /\ queue' \in Seq(Job) /\ Len(queue') = Len(queue) - 1
      /\ \A i \in 1 .. Len(queue) - 1 : queue'[i] = queue[i + 1]
  BY <1>1, TailOK DEF IInv, TypeOK
<1>3. batch \in Seq(Job)
  BY DEF IInv, TypeOK
<1>4. /\ batch' \in Seq(Job) /\ Len(batch') = Len(batch) + 1
      /\ \A i \in 1 .. Len(batch) : batch'[i] = batch[i]
      /\ batch'[Len(batch) + 1] = queue[1]
  <2>1. CASE batch' = Append(batch, Head(queue))
    BY <1>2, <1>3, <2>1, AppendProperties
  <2>2. CASE pc = "idle" /\ batch' = <<Head(queue)>>
    <3>1. batch = <<>>
      BY <2>2 DEF IInv, InHand
    <3>2. Len(batch) = 0 /\ batch' \in Seq(Job) /\ Len(batch') = 1 /\ batch'[1] = queue[1]
      BY <1>2, <2>2, <3>1, OneOK
    <3>3. QED BY <3>2
  <2>3. QED BY <1>1, <2>1, <2>2
<1>5. Settled' = Settled /\ Ran' = Ran /\ Batched' = Batched /\ Queued' = Queued + 1
  BY <1>1, <1>2, <1>4, Places DEF Settled, Ran, Batched, Queued
<1>6. DOMAIN batch' = 1 .. Len(batch) + 1 /\ DOMAIN queue' = 1 .. Len(queue) - 1
  BY <1>2, <1>4
<1>7. ASSUME NEW i \in 1 .. Len(batch) + 1 PROVE batch'[i] = accepted[Batched + i]
  <2>1. CASE i \in 1 .. Len(batch)
    BY <1>4, <2>1, Positions
  <2>2. CASE i = Len(batch) + 1
    <3>1. queue[1] = accepted[Queued + 1] /\ Queued + 1 = Batched + i
      BY <1>2, <2>2, Positions
    <3>2. QED BY <1>4, <2>2, <3>1
  <2>3. QED BY <2>1, <2>2, Places
<1>8. ASSUME NEW i \in 1 .. Len(queue) - 1 PROVE queue'[i] = accepted[Queued + 1 + i]
  <2>1. Len(queue) \in Nat /\ Queued \in Nat
    BY Places
  <2>2. i + 1 \in 1 .. Len(queue) /\ Queued + (i + 1) = Queued + 1 + i
    BY <2>1
  <2>3. queue[i + 1] = accepted[Queued + (i + 1)]
    BY <2>2, Positions
  <2>4. QED BY <1>2, <2>2, <2>3
<1>9. Line'
  BY <1>1, <1>5, <1>6, <1>7, <1>8 DEF IInv, Line
<1>10. QED BY <1>1, <1>5, <1>9, OrderedIfMoved

\* Answers end the answered part of the line where the rest begins.
LEMMA AnswerOrders ==
  ASSUME IInv, BeginFails \/ Leave \/ Reply \/ Panic
  PROVE  Ordered' /\ Settled' >= Ran /\ Ran' = Settled'
<1>1. PICK outcomes : AnswersNext(outcomes)
  BY BeginFailsAnswers, LeaveAnswers, ReplyAnswers, PanicAnswers
<1>2. /\ \A m \in DOMAIN accepted : reply'[accepted[m]] = None <=> m > Settled'
      /\ \A j \in Job : caller[j] = "new" => reply'[j] = None
  BY <1>1, AnswersOK DEF AnswersNext
<1>3. /\ UNCHANGED <<accepted, caller>> /\ queue' \in {queue, <<>>}
      /\ done' = <<>> /\ group' = <<>> /\ batch' = <<>>
  BY DEF BeginFails, Leave, ClosesQueue, Reply, Panic, IInv, InHand, work
<1>4. Len(<<>>) = 0 /\ DOMAIN <<>> = {}
  OBVIOUS
<1>5. /\ Settled' = Len(accepted) - Len(queue') /\ Ran' = Settled' /\ Batched' = Settled'
      /\ Queued' = Settled' /\ Settled' \in Nat /\ Settled' >= Ran
      /\ queue' = queue => Settled' = Queued
  <2>1. /\ Len(queue') \in Nat /\ Len(queue') <= Len(queue)
        /\ queue' = queue => Len(queue') = Len(queue)
    BY <1>3, <1>4, Places
  <2>2. Settled' = Len(accepted) - Len(queue') - 0 - 0 - 0
    BY <1>3, <1>4 DEF Settled
  <2>3. Ran' = Settled' + 0 /\ Batched' = Ran' + 0 /\ Queued' = Batched' + 0
    BY <1>3, <1>4 DEF Ran, Batched, Queued
  <2>4. /\ Settled' \in Nat /\ Settled' >= Ran
        /\ queue' = queue => Settled' = Queued
        /\ Settled' = Len(accepted) - Len(queue')
    BY <2>1, <2>2, Places
  <2>5. Ran' = Settled' /\ Batched' = Settled' /\ Queued' = Settled'
    BY <2>3, <2>4
  <2>6. QED BY <2>4, <2>5
<1>6. Line'
  <2>1. \A i \in DOMAIN queue' : queue'[i] = accepted[Queued' + i]
    <3>1. CASE queue' = queue
      BY <1>5, <3>1 DEF IInv, Line
    <3>2. CASE queue' = <<>>
      BY <1>4, <3>2
    <3>3. QED BY <1>3, <3>1, <3>2
  <2>2. QED BY <1>3, <1>4, <1>5, <2>1 DEF Line
<1>7. Once' /\ NewIsNowhere' /\ AnsweredFirst'
  BY <1>2, <1>3 DEF IInv, Once, NewIsNowhere, AnsweredFirst
<1>8. QED BY <1>5, <1>6, <1>7 DEF Ordered

-----------------------------------------------------------------------------
(* Running                                                                 *)

\* Where the parts of the line begin when jobs moved from one to another.
LEMMA Shift ==
  ASSUME IInv, UNCHANGED accepted,
         Len(done') \in Nat, Len(group') \in Nat, Len(batch') \in Nat, Len(queue') \in Nat,
         Len(done') + Len(group') + Len(batch') + Len(queue')
           = Len(done) + Len(group) + Len(batch) + Len(queue)
  PROVE  /\ Settled' = Settled /\ Ran' = Settled + Len(done')
         /\ Batched' = Settled + Len(done') + Len(group')
         /\ Queued' = Settled + Len(done') + Len(group') + Len(batch')
<1>1. Settled' = Len(accepted) - Len(queue') - Len(batch') - Len(group') - Len(done')
  BY DEF Settled
<1>2. Settled' = Settled
  BY SMTT(30), <1>1, Places
<1>3. Ran' = Settled' + Len(done') /\ Batched' = Ran' + Len(group')
      /\ Queued' = Batched' + Len(batch')
  BY DEF Ran, Batched, Queued
<1>4. QED BY <1>2, <1>3

\* The next jobs of the line were run, with the same result.
RanJobs(jobs, r) ==
  /\ jobs \in Seq(Job) /\ r \in {"ok", "error", "commit"}
  /\ Settled' = Settled /\ Ran' = Ran + Len(jobs) /\ Ran' <= Len(accepted)
  /\ \A i \in 1 .. Len(jobs) : jobs[i] = accepted[Ran + i]
  /\ UNCHANGED accepted
  /\ DOMAIN done' = 1 .. Len(done) + Len(jobs)
  /\ \A i \in 1 .. Len(done) : done'[i] = done[i]
  /\ \A i \in 1 .. Len(jobs) :
       done'[Len(done) + i].job = jobs[i] /\ done'[Len(done) + i].result = r

\* The group leaves the batch: to be replayed, or run.
LEMMA GroupOrders ==
  ASSUME IInv, RunGroup
  PROVE  /\ Ordered' /\ Settled' = Settled
         /\ \/ \E r \in {"ok", "error", "commit"} :
                 /\ RanJobs(Group, r)
                 /\ (r = "ok" /\ Released(Group)) \/ (r # "ok" /\ UNCHANGED database)
            \/ /\ UNCHANGED <<done, accepted>> /\ Ran' = Ran
               /\ UNCHANGED database \/ TransactionLost
<1>1. PICK k \in 0 .. Len(batch) :
        Group = SubSeq(batch, 1, k) /\ Rest(Group) = SubSeq(batch, k + 1, Len(batch))
  BY GroupIsPrefix DEF IInv, TypeOK
<1>2. /\ Group \in Seq(Job) /\ Len(Group) = k /\ k \in Nat
      /\ \A i \in 1 .. k : Group[i] = batch[i]
  BY <1>1 DEF IInv, TypeOK
<1>3. /\ batch' = Rest(Group) /\ group = <<>> /\ pc = "running"
      /\ UNCHANGED <<accepted, reply, caller, queue>>
  BY DEF RunGroup, IInv, InHand
<1>4. /\ batch' \in Seq(Job) /\ Len(batch') = Len(batch) - k
      /\ \A i \in 1 .. Len(batch) - k : batch'[i] = batch[k + i]
  <2>1. batch \in Seq(Job) /\ batch' = SubSeq(batch, k + 1, Len(batch))
    BY <1>1, <1>3 DEF IInv, TypeOK
  <2>2. QED BY <2>1
<1>5. Len(group) = 0 /\ Batched = Ran /\ DOMAIN batch' = 1 .. Len(batch) - k
  <2>1. Len(<<>>) = 0
    OBVIOUS
  <2>2. QED BY <1>3, <1>4, <2>1, Places
<1>6. \A i \in 1 .. k : Group[i] = accepted[Ran + i]
  <2>1. ASSUME NEW i \in 1 .. k PROVE Group[i] = accepted[Ran + i]
    <3>1. i \in 1 .. Len(batch)
      BY <1>2, Places
    <3>2. batch[i] = accepted[Batched + i]
      BY <3>1, Positions
    <3>3. QED BY <1>2, <1>5, <3>2
  <2>2. QED BY <2>1
<1>7. ASSUME NEW i \in 1 .. Len(batch) - k PROVE batch'[i] = accepted[Ran + k + i]
  <2>1. k + i \in 1 .. Len(batch) /\ Ran + (k + i) = Ran + k + i
    BY <1>1, <1>2, Places
  <2>2. batch[k + i] = accepted[Batched + (k + i)]
    BY <2>1, Positions
  <2>3. QED BY <1>4, <1>5, <2>1, <2>2
<1>8. ASSUME NEW r \in {"ok", "error", "commit"},
             done' = done \o All(Group, r), UNCHANGED group
      PROVE  Ordered' /\ Settled' = Settled /\ RanJobs(Group, r)
  <2>1. /\ All(Group, r) \in Seq(SavepointOutcome) /\ Len(All(Group, r)) = k
        /\ \A i \in 1 .. k : All(Group, r)[i].job = Group[i] /\ All(Group, r)[i].result = r
    <3>1. Group \in Seq(Job)
      BY <1>2
    <3>2. /\ All(Group, r) \in Seq([job : Job, result : {"ok", "error", "commit"}])
          /\ Len(All(Group, r)) = Len(Group)
          /\ \A i \in 1 .. Len(Group) :
               All(Group, r)[i].job = Group[i] /\ All(Group, r)[i].result = r
      BY <3>1, AllOK
    <3>3. QED BY <1>2, <3>2 DEF SavepointOutcome
  <2>2. /\ done' \in Seq(SavepointOutcome) /\ Len(done') = Len(done) + k
        /\ \A i \in 1 .. Len(done) + k :
             done'[i] = IF i <= Len(done) THEN done[i] ELSE All(Group, r)[i - Len(done)]
    BY <1>8, <2>1, ConcatProperties DEF IInv, TypeOK
  <2>3. DOMAIN done' = 1 .. Len(done) + k
    BY <2>2
  <2>4. \A i \in 1 .. Len(done) : done'[i] = done[i]
    BY <1>2, <2>2, Places
  <2>5. ASSUME NEW i \in 1 .. k
        PROVE  done'[Len(done) + i].job = Group[i] /\ done'[Len(done) + i].result = r
    <3>1. /\ Len(done) + i \in 1 .. Len(done) + k /\ ~(Len(done) + i <= Len(done))
          /\ (Len(done) + i) - Len(done) = i
      BY <1>2, Places
    <3>2. done'[Len(done) + i] = All(Group, r)[i]
      BY <2>2, <3>1
    <3>3. QED BY <2>1, <3>2
  <2>6. /\ Settled' = Settled /\ Ran' = Ran + k /\ Batched' = Ran + k /\ Queued' = Queued
        /\ Ran + k <= Len(accepted)
    <3>1. /\ Len(done') = Len(done) + k /\ Len(group') = 0 /\ Len(batch') = Len(batch) - k
          /\ Len(queue') = Len(queue)
      BY <1>3, <1>4, <1>5, <1>8, <2>2
    <3>2. /\ Len(done') \in Nat /\ Len(group') \in Nat /\ Len(batch') \in Nat
          /\ Len(queue') \in Nat
          /\ Len(done') + Len(group') + Len(batch') + Len(queue')
               = Len(done) + Len(group) + Len(batch) + Len(queue)
      BY <1>1, <1>2, <1>5, <3>1, Places
    <3>3. /\ Settled' = Settled /\ Ran' = Settled + Len(done')
          /\ Batched' = Settled + Len(done') + Len(group')
          /\ Queued' = Settled + Len(done') + Len(group') + Len(batch')
      BY <1>3, <3>2, Shift
    <3>4. Ran + k <= Len(accepted)
      BY <1>1, <1>2, <1>5, Places
    <3>5. QED BY <1>1, <1>2, <1>5, <3>1, <3>3, <3>4, Places
  <2>7. ASSUME NEW i \in 1 .. Len(done) + k PROVE done'[i].job = accepted[Settled + i]
    <3>1. CASE i <= Len(done)
      <4>1. i \in 1 .. Len(done)
        BY <1>2, <3>1, Places
      <4>2. QED BY <2>4, <4>1, Positions
    <3>2. CASE i > Len(done)
      <4>1. PICK m \in 1 .. k : i = Len(done) + m
        <5>1. i - Len(done) \in 1 .. k /\ i = Len(done) + (i - Len(done))
          BY <1>2, <3>2, Places
        <5>2. QED BY <5>1
      <4>2. Settled + i = Ran + m
        <5>1. Ran = Settled + Len(done) /\ Settled \in Nat /\ Len(done) \in Nat
          BY Places
        <5>2. m \in Nat
          BY <1>2
        <5>3. QED BY <4>1, <5>1, <5>2
      <4>3. QED BY <1>6, <2>5, <4>1, <4>2
    <3>3. QED BY <1>2, <3>1, <3>2, Places
  <2>8. Line'
    BY SMTT(30), <1>3, <1>5, <1>7, <1>8, <2>3, <2>6, <2>7 DEF IInv, Line
  <2>9. Ordered'
    BY <1>3, <2>6, <2>8, OrderedIfMoved
  <2>10. QED BY <1>2, <1>3, <1>6, <2>3, <2>4, <2>5, <2>6, <2>9 DEF RanJobs
<1>9. ASSUME group' = Group, UNCHANGED done
      PROVE  Ordered' /\ Settled' = Settled /\ Ran' = Ran
  <2>1. Settled' = Settled /\ Ran' = Ran /\ Batched' = Ran + k /\ Queued' = Queued
    <3>1. /\ Len(done') = Len(done) /\ Len(group') = k /\ Len(batch') = Len(batch) - k
          /\ Len(queue') = Len(queue)
      BY <1>2, <1>3, <1>4, <1>9
    <3>2. /\ Len(done') \in Nat /\ Len(group') \in Nat /\ Len(batch') \in Nat
          /\ Len(queue') \in Nat
          /\ Len(done') + Len(group') + Len(batch') + Len(queue')
               = Len(done) + Len(group) + Len(batch) + Len(queue)
      BY <1>1, <1>2, <1>5, <3>1, Places
    <3>3. /\ Settled' = Settled /\ Ran' = Settled + Len(done')
          /\ Batched' = Settled + Len(done') + Len(group')
          /\ Queued' = Settled + Len(done') + Len(group') + Len(batch')
      BY <1>3, <3>2, Shift
    <3>4. QED BY <1>1, <1>2, <1>5, <3>1, <3>3, Places
  <2>2. \A i \in DOMAIN group' : group'[i] = accepted[Ran + i]
    BY <1>2, <1>6, <1>9
  <2>3. Line'
    BY <1>3, <1>5, <1>7, <1>9, <2>1, <2>2 DEF IInv, Line
  <2>4. QED BY <1>3, <2>1, <2>3, OrderedIfMoved
<1>10. CASE done' = done \o All(Group, "ok") /\ Released(Group) /\ UNCHANGED group
  <2>1. Ordered' /\ Settled' = Settled /\ RanJobs(Group, "ok")
    BY <1>8, <1>10
  <2>2. QED BY <1>10, <2>1
<1>11. CASE \E r \in {"error", "commit"} :
              done' = done \o All(Group, r) /\ UNCHANGED database /\ UNCHANGED group
  BY <1>8, <1>11
<1>12. CASE group' = Group /\ UNCHANGED done /\ (UNCHANGED database \/ TransactionLost)
  BY <1>3, <1>9, <1>12
<1>13. QED
  BY <1>10, <1>11, <1>12 DEF RunGroup, RolledBack

\* A job alone is the next of the line.
LEMMA AloneOrders ==
  ASSUME IInv, NEW j \in Job, RunOne(j)
  PROVE  /\ Ordered' /\ Settled' = Settled
         /\ \E r \in {"ok", "error", "commit"} :
              /\ RanJobs(<<j>>, r)
              /\ \/ r = "ok" /\ Released(<<j>>)
                 \/ r # "ok" /\ (UNCHANGED database \/ TransactionLost)
<1>1. UNCHANGED <<accepted, reply, caller, queue>>
  BY DEF RunOne
<1>2. PICK r \in {"ok", "error", "commit"} :
        /\ done' = Append(done, Outcome(j, r))
        /\ \/ r = "ok" /\ Released(<<j>>)
           \/ r # "ok" /\ (UNCHANGED database \/ TransactionLost)
  BY DEF RunOne, RolledBack
<1>3. /\ DOMAIN done' = 1 .. Len(done) + 1 /\ Len(done') = Len(done) + 1
      /\ \A i \in 1 .. Len(done) : done'[i] = done[i]
      /\ done'[Len(done) + 1].job = j /\ done'[Len(done) + 1].result = r
  <2>1. Outcome(j, r) \in SavepointOutcome /\ Outcome(j, r).job = j /\ Outcome(j, r).result = r
    BY DEF Outcome, SavepointOutcome
  <2>2. done \in Seq(SavepointOutcome)
    BY DEF IInv, TypeOK
  <2>3. QED BY <1>2, <2>1, <2>2, AppendProperties
<1>4. /\ j = accepted[Ran + 1] /\ Ran + 1 <= Len(accepted)
      /\ \/ /\ batch' = batch /\ group # <<>> /\ group' = Tail(group)
         \/ /\ group = <<>> /\ group' = group /\ batch # <<>> /\ batch' = Tail(batch)
  <2>1. CASE pc = "running"
    <3>1. group = <<>> /\ group' = group /\ batch # <<>> /\ batch' = Tail(batch) /\ j = Head(batch)
      BY <2>1 DEF RunOne, Alone, IInv, InHand
    <3>2. j = batch[1] /\ Len(batch) \in Nat \ {0}
      BY <3>1, TailOK DEF IInv, TypeOK
    <3>3. Batched = Ran
      <4>1. Len(<<>>) = 0
        OBVIOUS
      <4>2. QED BY <3>1, <4>1, Places
    <3>4. 1 \in 1 .. Len(batch) /\ Ran + 1 <= Len(accepted)
      BY <3>2, <3>3, Places
    <3>5. j = accepted[Ran + 1]
      BY <3>2, <3>3, <3>4, Positions
    <3>6. QED BY <3>1, <3>4, <3>5
  <2>2. CASE pc = "replaying"
    <3>1. batch' = batch /\ group # <<>> /\ group' = Tail(group) /\ j = Head(group)
      BY <2>2 DEF RunOne, Alone, IInv, InHand
    <3>2. j = group[1] /\ Len(group) \in Nat \ {0}
      BY <3>1, TailOK DEF IInv, TypeOK
    <3>3. 1 \in 1 .. Len(group) /\ Ran + 1 <= Len(accepted)
      BY <3>2, Places
    <3>4. j = accepted[Ran + 1]
      BY <3>2, <3>3, Positions
    <3>5. QED BY <3>1, <3>3, <3>4
  <2>3. QED BY <2>1, <2>2 DEF RunOne, Alone
<1>5. ASSUME NEW i \in 1 .. Len(done) + 1 PROVE done'[i].job = accepted[Settled + i]
  <2>1. CASE i \in 1 .. Len(done)
    BY <1>3, <2>1, Positions
  <2>2. CASE i = Len(done) + 1
    BY <1>3, <1>4, <2>2, Places
  <2>3. QED BY <2>1, <2>2, Places
<1>6. Settled' = Settled /\ Ran' = Ran + 1 /\ Line'
  <2>1. CASE batch' = batch /\ group # <<>> /\ group' = Tail(group)
    <3>1. /\ Len(group') = Len(group) - 1 /\ DOMAIN group' = 1 .. Len(group) - 1
          /\ \A i \in 1 .. Len(group) - 1 : group'[i] = group[i + 1]
      BY <2>1, TailOK DEF IInv, TypeOK
    <3>2. Settled' = Settled /\ Ran' = Ran + 1 /\ Batched' = Batched /\ Queued' = Queued
      BY <1>1, <1>3, <2>1, <3>1, Places DEF Settled, Ran, Batched, Queued
    <3>3. ASSUME NEW i \in 1 .. Len(group) - 1 PROVE group'[i] = accepted[Ran + 1 + i]
      <4>1. i + 1 \in 1 .. Len(group) /\ Ran + (i + 1) = Ran + 1 + i
        BY Places
      <4>2. group[i + 1] = accepted[Ran + (i + 1)]
        BY <4>1, Positions
      <4>3. QED BY <3>1, <4>1, <4>2
    <3>4. QED BY <1>1, <1>3, <1>5, <2>1, <3>1, <3>2, <3>3 DEF IInv, Line
  <2>2. CASE group = <<>> /\ group' = group /\ batch # <<>> /\ batch' = Tail(batch)
    <3>1. /\ Len(batch') = Len(batch) - 1 /\ DOMAIN batch' = 1 .. Len(batch) - 1
          /\ \A i \in 1 .. Len(batch) - 1 : batch'[i] = batch[i + 1]
          /\ Len(group) = 0 /\ DOMAIN group = {}
      BY <2>2, TailOK DEF IInv, TypeOK
    <3>2. Settled' = Settled /\ Ran' = Ran + 1 /\ Batched' = Batched + 1 /\ Queued' = Queued
      BY <1>1, <1>3, <2>2, <3>1, Places DEF Settled, Ran, Batched, Queued
    <3>3. ASSUME NEW i \in 1 .. Len(batch) - 1 PROVE batch'[i] = accepted[Batched + 1 + i]
      <4>1. i + 1 \in 1 .. Len(batch) /\ Batched + (i + 1) = Batched + 1 + i
        <5>1. Len(batch) \in Nat /\ Batched \in Nat
          BY Places
        <5>2. QED BY <5>1
      <4>2. batch[i + 1] = accepted[Batched + (i + 1)]
        BY <4>1, Positions
      <4>3. QED BY <3>1, <4>1, <4>2
    <3>4. QED BY <1>1, <1>3, <1>5, <2>2, <3>1, <3>2, <3>3 DEF IInv, Line
  <2>3. QED BY <1>4, <2>1, <2>2
<1>7. Ordered'
  BY <1>1, <1>6, OrderedIfMoved
<1>8. RanJobs(<<j>>, r)
  <2>1. <<j>> \in Seq(Job) /\ Len(<<j>>) = 1 /\ <<j>>[1] = j
    BY OneOK
  <2>2. \A i \in 1 .. 1 : i = 1
    OBVIOUS
  <2>3. QED BY <1>1, <1>3, <1>4, <1>6, <2>1, <2>2 DEF RanJobs
<1>9. QED BY <1>2, <1>6, <1>7, <1>8

\* A commit that fails changes what the batch is told, not its jobs.
LEMMA CommitFailsOrders ==
  ASSUME IInv, CommitFails
  PROVE  Ordered' /\ Settled' = Settled /\ Ran' = Ran
<1>1. done' = Failed(done) /\ UNCHANGED <<accepted, reply, caller, queue, batch, group>>
  BY DEF CommitFails
<1>2. /\ done' \in Seq(SavepointOutcome) /\ Len(done') = Len(done)
      /\ \A i \in 1 .. Len(done) : done'[i].job = done[i].job
  BY <1>1, FailedOK DEF IInv, TypeOK
<1>3. DOMAIN done' = 1 .. Len(done)
  BY <1>2
<1>4. Settled' = Settled /\ Ran' = Ran /\ Batched' = Batched /\ Queued' = Queued
  BY <1>1, <1>2 DEF Settled, Ran, Batched, Queued
<1>5. Line'
  BY <1>1, <1>2, <1>3, <1>4, Positions DEF IInv, Line
<1>6. QED BY <1>1, <1>4, <1>5, OrderedIfMoved

-----------------------------------------------------------------------------
(* What is written                                                         *)

LEMMA ConcatSplit ==
  ASSUME NEW s \in Seq(Job), NEW t \in Seq(Job)
  PROVE  /\ s \o t \in Seq(Job) /\ DOMAIN s = 1 .. Len(s) /\ DOMAIN t = 1 .. Len(t)
         /\ DOMAIN (s \o t) = 1 .. Len(s) + Len(t)
         /\ \A i \in DOMAIN s : i \in DOMAIN (s \o t) /\ (s \o t)[i] = s[i]
         /\ \A m \in DOMAIN t : Len(s) + m \in DOMAIN (s \o t) /\ (s \o t)[Len(s) + m] = t[m]
         /\ \A i \in DOMAIN (s \o t) :
              i \in DOMAIN s \/ \E m \in DOMAIN t : i = Len(s) + m
<1>1. s \o t \in Seq(Job) /\ Len(s) \in Nat /\ Len(t) \in Nat
  OBVIOUS
<1>2. /\ DOMAIN s = 1 .. Len(s) /\ DOMAIN t = 1 .. Len(t)
      /\ DOMAIN (s \o t) = 1 .. Len(s) + Len(t)
  OBVIOUS
<1>3. \A i \in 1 .. Len(s) : (s \o t)[i] = s[i]
  OBVIOUS
<1>4. ASSUME NEW m \in 1 .. Len(t) PROVE (s \o t)[Len(s) + m] = t[m]
  OBVIOUS
<1>5. ASSUME NEW i \in 1 .. Len(s) + Len(t), i \notin 1 .. Len(s)
      PROVE  \E m \in 1 .. Len(t) : i = Len(s) + m
  <2>1. i - Len(s) \in 1 .. Len(t) /\ i = Len(s) + (i - Len(s))
    BY <1>1, <1>5
  <2>2. QED BY <2>1
<1>6. ASSUME NEW m \in 1 .. Len(t) PROVE Len(s) + m \in 1 .. Len(s) + Len(t)
  BY <1>1
<1>7. ASSUME NEW i \in 1 .. Len(s) PROVE i \in 1 .. Len(s) + Len(t)
  BY <1>1
<1>8. \A i \in DOMAIN (s \o t) : i \in DOMAIN s \/ \E m \in DOMAIN t : i = Len(s) + m
  BY <1>2, <1>5
<1>9. \A m \in DOMAIN t : Len(s) + m \in DOMAIN (s \o t) /\ (s \o t)[Len(s) + m] = t[m]
  BY <1>2, <1>4, <1>6
<1>10. \A i \in DOMAIN s : i \in DOMAIN (s \o t) /\ (s \o t)[i] = s[i]
  BY <1>2, <1>3, <1>7
<1>11. QED BY <1>1, <1>2, <1>8, <1>9, <1>10

\* Jobs that were just run stand behind all that was written before.
LEMMA BeforeRun ==
  ASSUME IInv, NEW jobs, NEW r, RanJobs(jobs, r), NEW m \in DOMAIN jobs,
         NEW j, NEW p \in 1 .. Ran, accepted[p] = j
  PROVE  Queue!Before(j, jobs[m])
<1>1. /\ m \in 1 .. Len(jobs) /\ Len(jobs) \in Nat /\ Ran + Len(jobs) <= Len(accepted)
      /\ jobs[m] = accepted[Ran + m] /\ DOMAIN accepted = 1 .. Len(accepted)
      /\ Len(accepted) \in Nat /\ Ran \in Nat
  <2>1. /\ m \in 1 .. Len(jobs) /\ Len(jobs) \in Nat
        /\ Ran + Len(jobs) <= Len(accepted)
    BY DEF RanJobs
  <2>2. DOMAIN accepted = 1 .. Len(accepted) /\ Len(accepted) \in Nat
    BY DEF IInv, TypeOK
  <2>3. Ran \in Nat
    BY Places
  <2>4. QED BY <2>1, <2>2, <2>3 DEF RanJobs
<1>2. Ran + m \in 1 .. Len(accepted) /\ p \in 1 .. Len(accepted) /\ p < Ran + m
  BY <1>1
<1>3. QED BY <1>1, <1>2 DEF Queue!Before

LEMMA AppendInOrder ==
  ASSUME IInv, NEW jobs, NEW r, RanJobs(jobs, r),
         NEW written \in Seq(Job), NEW from \in 0 .. Ran,
         Within(written, from, Ran), InOrder(written)
  PROVE  Within(written \o jobs, from, Ran + Len(jobs)) /\ InOrder(written \o jobs)
<1>1. /\ jobs \in Seq(Job) /\ Len(jobs) \in Nat /\ DOMAIN jobs = 1 .. Len(jobs)
      /\ Ran + Len(jobs) <= Len(accepted)
      /\ \A m \in DOMAIN jobs : jobs[m] = accepted[Ran + m]
      /\ DOMAIN accepted = 1 .. Len(accepted) /\ Len(accepted) \in Nat /\ Ran \in Nat
  <2>1. jobs \in Seq(Job)
    BY DEF RanJobs
  <2>2. Len(jobs) \in Nat /\ DOMAIN jobs = 1 .. Len(jobs)
    BY <2>1
  <2>3. DOMAIN accepted = 1 .. Len(accepted)
    BY DEF IInv, TypeOK
  <2>4. Len(accepted) \in Nat /\ Ran \in Nat
    BY Places
  <2>5. /\ Ran + Len(jobs) <= Len(accepted)
        /\ \A m \in DOMAIN jobs : jobs[m] = accepted[Ran + m]
    BY <2>2 DEF RanJobs
  <2>6. QED BY <2>1, <2>2, <2>3, <2>4, <2>5
<1> DEFINE both == written \o jobs
<1>2. /\ \A i \in DOMAIN written : i \in DOMAIN both /\ both[i] = written[i]
      /\ \A m \in DOMAIN jobs : Len(written) + m \in DOMAIN both /\ both[Len(written) + m] = jobs[m]
      /\ \A i \in DOMAIN both :
           i \in DOMAIN written \/ \E m \in DOMAIN jobs : i = Len(written) + m
      /\ DOMAIN written = 1 .. Len(written) /\ Len(written) \in Nat
  BY <1>1, ConcatSplit
<1> HIDE DEF both
<1>3. ASSUME NEW i \in DOMAIN both
      PROVE  \E p \in from + 1 .. Ran + Len(jobs) : accepted[p] = both[i]
  <2>1. CASE i \in DOMAIN written
    <3>1. PICK p \in from + 1 .. Ran : accepted[p] = written[i]
      BY <2>1 DEF Within
    <3>2. p \in from + 1 .. Ran + Len(jobs)
      BY <1>1
    <3>3. QED BY <1>2, <2>1, <3>1, <3>2
  <2>2. ASSUME NEW m \in DOMAIN jobs, i = Len(written) + m
        PROVE  \E p \in from + 1 .. Ran + Len(jobs) : accepted[p] = both[i]
    <3>1. Ran + m \in from + 1 .. Ran + Len(jobs)
      BY <1>1
    <3>2. accepted[Ran + m] = both[i]
      BY <1>1, <1>2, <2>2
    <3>3. QED BY <3>1, <3>2
  <2>3. QED BY <1>2, <2>1, <2>2
<1>4. ASSUME NEW i \in DOMAIN both, NEW k \in DOMAIN both, i < k
      PROVE  Queue!Before(both[i], both[k])
  <2>1. CASE k \in DOMAIN written
    <3>1. i \in DOMAIN written
      BY <1>2, <1>4, <2>1
    <3>2. Queue!Before(written[i], written[k])
      BY <1>4, <2>1, <3>1 DEF InOrder
    <3>3. QED BY <1>2, <2>1, <3>1, <3>2
  <2>2. ASSUME NEW m \in DOMAIN jobs, k = Len(written) + m, i \in DOMAIN written
        PROVE  Queue!Before(both[i], both[k])
    <3>1. PICK p \in from + 1 .. Ran : accepted[p] = written[i]
      BY <2>2 DEF Within
    <3>2. p \in 1 .. Ran
      BY <1>1
    <3>3. Queue!Before(written[i], jobs[m])
      BY <3>1, <3>2, BeforeRun
    <3>4. QED BY <1>2, <2>2, <3>3
  <2>3. ASSUME NEW m \in DOMAIN jobs, k = Len(written) + m,
               NEW n \in DOMAIN jobs, i = Len(written) + n
        PROVE  Queue!Before(both[i], both[k])
    <3>1. n < m
      BY <1>1, <1>2, <1>4, <2>3
    <3>2. /\ Ran + n \in DOMAIN accepted /\ Ran + m \in DOMAIN accepted /\ Ran + n < Ran + m
      BY <1>1, <3>1
    <3>3. accepted[Ran + n] = both[i] /\ accepted[Ran + m] = both[k]
      BY <1>1, <1>2, <2>3
    <3>4. QED BY <3>2, <3>3 DEF Queue!Before
  <2>4. QED BY <1>2, <2>1, <2>2, <2>3
<1>5. QED BY <1>3, <1>4 DEF Within, InOrder, both

\* The release of a savepoint writes behind all that is written.
LEMMA ReleaseWrites ==
  ASSUME IInv, NEW jobs, NEW r, RanJobs(jobs, r), Released(jobs)
  PROVE  WrittenInOrder'
<1>1. jobs \in Seq(Job) /\ Settled' = Settled /\ Ran' = Ran + Len(jobs) /\ UNCHANGED accepted
  BY DEF RanJobs
<1>2. /\ db \in Seq(Job) /\ tx \in Seq(Job) /\ DOMAIN tx = 1 .. Len(tx)
      /\ 0 \in 0 .. Ran /\ Settled \in 0 .. Ran /\ Ran \in Nat /\ Len(jobs) \in Nat
  <2>1. db \in Seq(Job) /\ tx \in Seq(Job) /\ DOMAIN tx = 1 .. Len(tx)
    BY DEF IInv, TypeOK
  <2>2. 0 \in 0 .. Ran /\ Settled \in 0 .. Ran /\ Ran \in Nat
    BY Places
  <2>3. QED BY <1>1, <2>1, <2>2
<1>3. /\ Within(db, 0, Ran) /\ InOrder(db)
      /\ Within(tx, Settled, Ran) /\ InOrder(tx)
      /\ \A i \in DOMAIN db, k \in DOMAIN tx : Queue!Before(db[i], tx[k])
  BY DEF IInv, WrittenInOrder
<1>4. CASE open
  <2>1. tx' = tx \o jobs /\ db' = db
    BY <1>1, <1>4, ReleasedOK DEF IInv
  <2>2. Within(tx \o jobs, Settled, Ran + Len(jobs)) /\ InOrder(tx \o jobs)
    BY <1>2, <1>3, AppendInOrder
  <2>3. Within(db, 0, Ran + Len(jobs))
    BY <1>2, <1>3 DEF Within
  <2>4. ASSUME NEW i \in DOMAIN db, NEW k \in DOMAIN (tx \o jobs)
        PROVE  Queue!Before(db[i], (tx \o jobs)[k])
    <3>1. CASE k \in DOMAIN tx
      BY <1>1, <1>2, <1>3, <3>1, ConcatSplit
    <3>2. ASSUME NEW m \in DOMAIN jobs, k = Len(tx) + m
          PROVE  Queue!Before(db[i], (tx \o jobs)[k])
      <4>1. PICK p \in 0 + 1 .. Ran : accepted[p] = db[i]
        BY <1>3 DEF Within
      <4>2. Queue!Before(db[i], jobs[m])
        BY <4>1, BeforeRun
      <4>3. (tx \o jobs)[k] = jobs[m]
        BY <1>1, <1>2, <3>2, ConcatSplit
      <4>4. QED BY <4>2, <4>3
    <3>3. QED BY <1>1, <1>2, <3>1, <3>2, ConcatSplit
  <2> DEFINE both == tx \o jobs
  <2> HIDE DEF both
  <2>5. tx' = both
    BY <2>1 DEF both
  <2>6. /\ Within(both, Settled, Ran + Len(jobs)) /\ InOrder(both)
        /\ \A i \in DOMAIN db, k \in DOMAIN both : Queue!Before(db[i], both[k])
    BY <2>2, <2>4 DEF both
  <2>7. QED
    BY <1>1, <1>3, <2>1, <2>3, <2>5, <2>6 DEF WrittenInOrder, Within, InOrder, Queue!Before
<1>5. CASE ~open
  <2>1. tx' = <<>> /\ db' = db \o jobs /\ DOMAIN <<>> = {}
    BY <1>1, <1>5, ReleasedOK DEF IInv, InHand
  <2>2. Within(db \o jobs, 0, Ran + Len(jobs)) /\ InOrder(db \o jobs)
    BY <1>2, <1>3, AppendInOrder
  <2> DEFINE both == db \o jobs
  <2> HIDE DEF both
  <2>3. db' = both
    BY <2>1 DEF both
  <2>4. Within(both, 0, Ran + Len(jobs)) /\ InOrder(both)
    BY <2>2 DEF both
  <2>5. QED
    BY <1>1, <2>1, <2>3, <2>4 DEF WrittenInOrder, Within, InOrder, Queue!Before
<1>6. QED BY <1>4, <1>5

\* What is written stays in order when nothing more is, or less is.
LEMMA WritesKept ==
  ASSUME IInv, UNCHANGED <<accepted, db>>, Ran' \in Nat, Ran' >= Ran,
         tx' = <<>> \/ (tx' = tx /\ Settled' = Settled)
  PROVE  WrittenInOrder'
<1>1. Ran \in Nat /\ DOMAIN <<>> = {}
  BY Places
<1>2. Within(db, 0, Ran') /\ InOrder(db)
  BY <1>1 DEF IInv, WrittenInOrder, Within
<1>3. CASE tx' = <<>>
  BY <1>1, <1>2, <1>3 DEF WrittenInOrder, Within, InOrder, Queue!Before
<1>4. CASE tx' = tx /\ Settled' = Settled
  <2>1. Within(tx, Settled', Ran')
    <3>1. Settled \in Nat
      BY Places
    <3>2. QED BY <1>1, <1>4, <3>1 DEF IInv, WrittenInOrder, Within
  <2>2. QED
    BY <1>2, <1>4, <2>1 DEF IInv, WrittenInOrder, Within, InOrder, Queue!Before
<1>5. QED BY <1>3, <1>4

LEMMA AcceptWrites ==
  ASSUME IInv, NEW j \in Job, Accept(j)
  PROVE  WrittenInOrder'
<1>1. accepted' = Append(accepted, j) /\ UNCHANGED <<db, tx>> /\ accepted \in Seq(Job)
  BY DEF Accept, database, IInv, TypeOK
<1>2. /\ \A m \in DOMAIN accepted : m \in DOMAIN accepted' /\ accepted'[m] = accepted[m]
      /\ DOMAIN accepted = 1 .. Len(accepted)
  BY <1>1
<1>3. Settled' = Settled /\ Ran' = Ran /\ Settled \in Nat /\ Ran \in Nat /\ Ran <= Len(accepted)
  BY AcceptOrders, Places
<1>4. \A x, y : Queue!Before(x, y) => Queue!Before(x, y)'
  BY <1>2 DEF Queue!Before
<1>5. \A m \in 1 .. Ran : accepted'[m] = accepted[m]
  BY <1>2, <1>3, Places
<1>6. /\ Within(db, 0, Ran) => Within(db, 0, Ran)'
      /\ Within(tx, Settled, Ran) => Within(tx, Settled, Ran)'
  BY <1>1, <1>3, <1>5 DEF Within
<1>7. QED
  BY <1>1, <1>4, <1>6 DEF IInv, WrittenInOrder, InOrder

LEMMA CommitWrites ==
  ASSUME IInv, Commit
  PROVE  WrittenInOrder' /\ Ordered'
<1>1. /\ db' = db \o tx /\ tx' = <<>> /\ DOMAIN <<>> = {}
      /\ UNCHANGED <<accepted, queue, batch, group, done, reply, caller>>
  BY DEF Commit, work
<1>2. Ordered' /\ Settled' = Settled /\ Ran' = Ran /\ Settled \in Nat /\ Ran \in Nat
  BY <1>1, OrderedUnmoved, Places
<1>3. db \in Seq(Job) /\ tx \in Seq(Job)
  BY DEF IInv, TypeOK
<1> DEFINE both == db \o tx
<1>4. /\ DOMAIN db = 1 .. Len(db) /\ Len(db) \in Nat /\ DOMAIN tx = 1 .. Len(tx)
      /\ \A i \in DOMAIN db : i \in DOMAIN both /\ both[i] = db[i]
      /\ \A m \in DOMAIN tx : Len(db) + m \in DOMAIN both /\ both[Len(db) + m] = tx[m]
      /\ \A i \in DOMAIN both : i \in DOMAIN db \/ \E m \in DOMAIN tx : i = Len(db) + m
  BY <1>3, ConcatSplit
<1> HIDE DEF both
<1>5. Within(both, 0, Ran)
  <2>1. \A i \in DOMAIN db : \E p \in 0 + 1 .. Ran : accepted[p] = db[i]
    BY DEF IInv, WrittenInOrder, Within
  <2>2. \A m \in DOMAIN tx : \E p \in 0 + 1 .. Ran : accepted[p] = tx[m]
    <3>1. \A p \in Settled + 1 .. Ran : p \in 0 + 1 .. Ran
      BY <1>2
    <3>2. QED BY <3>1 DEF IInv, WrittenInOrder, Within
  <2>3. QED BY <1>4, <2>1, <2>2 DEF Within
<1>6. ASSUME NEW i \in DOMAIN both, NEW k \in DOMAIN both, i < k
      PROVE  Queue!Before(both[i], both[k])
  <2>1. CASE k \in DOMAIN db
    <3>1. i \in DOMAIN db
      BY <1>4, <1>6, <2>1
    <3>2. Queue!Before(db[i], db[k])
      BY <1>6, <2>1, <3>1 DEF IInv, WrittenInOrder, InOrder
    <3>3. QED BY <1>4, <2>1, <3>1, <3>2
  <2>2. ASSUME NEW m \in DOMAIN tx, k = Len(db) + m, i \in DOMAIN db
        PROVE  Queue!Before(both[i], both[k])
    <3>1. Queue!Before(db[i], tx[m])
      BY <2>2 DEF IInv, WrittenInOrder
    <3>2. QED BY <1>4, <2>2, <3>1
  <2>3. ASSUME NEW m \in DOMAIN tx, k = Len(db) + m, NEW n \in DOMAIN tx, i = Len(db) + n
        PROVE  Queue!Before(both[i], both[k])
    <3>1. n < m
      BY <1>4, <1>6, <2>3
    <3>2. Queue!Before(tx[n], tx[m])
      BY <2>3, <3>1 DEF IInv, WrittenInOrder, InOrder
    <3>3. QED BY <1>4, <2>3, <3>2
  <2>4. QED BY <1>4, <2>1, <2>2, <2>3
<1>7. db' = both
  BY <1>1 DEF both
<1>8. WrittenInOrder'
  BY <1>1, <1>2, <1>5, <1>6, <1>7 DEF WrittenInOrder, Within, InOrder, Queue!Before
<1>9. QED BY <1>2, <1>8

-----------------------------------------------------------------------------
(* What is answered as done is written                                     *)

LEMMA RunOk ==
  ASSUME IInv, NEW jobs, NEW r, RanJobs(jobs, r), pc' # "replying",
         \/ r = "ok" /\ Released(jobs)
         \/ r # "ok" /\ (UNCHANGED database \/ TransactionLost)
  PROVE  OkIsWritten'
<1>1. /\ jobs \in Seq(Job) /\ Len(jobs) \in Nat /\ Len(done) \in Nat
      /\ DOMAIN jobs = 1 .. Len(jobs) /\ DOMAIN done = 1 .. Len(done)
      /\ DOMAIN done' = 1 .. Len(done) + Len(jobs)
      /\ \A i \in 1 .. Len(done) : done'[i] = done[i]
      /\ \A m \in 1 .. Len(jobs) :
           done'[Len(done) + m].job = jobs[m] /\ done'[Len(done) + m].result = r
  <2>1. jobs \in Seq(Job) /\ done \in Seq(SavepointOutcome)
    BY DEF RanJobs, IInv, TypeOK
  <2>2. /\ Len(jobs) \in Nat /\ DOMAIN jobs = 1 .. Len(jobs)
        /\ Len(done) \in Nat /\ DOMAIN done = 1 .. Len(done)
    BY <2>1
  <2>3. QED BY <2>1, <2>2 DEF RanJobs
<1>2. ASSUME NEW i \in 1 .. Len(done) + Len(jobs), i \notin 1 .. Len(done)
      PROVE  \E m \in 1 .. Len(jobs) : i = Len(done) + m
  <2>1. i - Len(done) \in 1 .. Len(jobs) /\ i = Len(done) + (i - Len(done))
    BY <1>1, <1>2
  <2>2. QED BY <2>1
<1>3. ASSUME open', NEW i \in DOMAIN done', done'[i].result = "ok"
      PROVE  Contains(tx', done'[i].job)
  <2>1. CASE r # "ok"
    <3>1. tx' = tx /\ open
      BY <1>3, <2>1, KeptOrLostOK DEF IInv
    <3>2. i \in 1 .. Len(done)
      BY <1>1, <1>2, <1>3, <2>1
    <3>3. Contains(tx, done[i].job)
      BY <1>1, <1>3, <3>1, <3>2 DEF IInv, OkIsWritten
    <3>4. QED BY <1>1, <3>1, <3>2, <3>3
  <2>2. CASE r = "ok"
    <3>1. tx' = tx \o jobs /\ open
      BY <1>1, <1>3, <2>2, ReleasedOK DEF IInv
    <3>2. tx \in Seq(Job)
      BY DEF IInv, TypeOK
    <3> DEFINE both == tx \o jobs
    <3>3. /\ both \in Seq(Job) /\ DOMAIN tx = 1 .. Len(tx)
          /\ \A n \in DOMAIN tx : n \in DOMAIN both /\ both[n] = tx[n]
          /\ \A m \in DOMAIN jobs : Len(tx) + m \in DOMAIN both /\ both[Len(tx) + m] = jobs[m]
      BY <1>1, <3>2, ConcatSplit
    <3>4. tx' = both
      BY <3>1
    <3> HIDE DEF both
    <3>5. DOMAIN both = 1 .. Len(both)
      BY <3>3
    <3>6. CASE i \in 1 .. Len(done)
      <4>1. Contains(tx, done[i].job)
        BY <1>1, <1>3, <3>1, <3>6 DEF IInv, OkIsWritten
      <4>2. QED BY <1>1, <3>3, <3>4, <3>5, <3>6, <4>1 DEF Contains
    <3>7. ASSUME NEW m \in 1 .. Len(jobs), i = Len(done) + m
          PROVE  Contains(tx', done'[i].job)
      BY <1>1, <3>3, <3>4, <3>5, <3>7 DEF Contains
    <3>8. QED BY <1>1, <1>2, <1>3, <3>6, <3>7
  <2>3. QED BY <2>1, <2>2
<1>4. QED BY <1>3 DEF OkIsWritten

LEMMA CommitOk ==
  ASSUME IInv, Commit
  PROVE  OkIsWritten'
<1>1. open /\ db' = db \o tx /\ ~open' /\ done' = done
  BY DEF Commit, work
<1>2. db \in Seq(Job) /\ tx \in Seq(Job)
  BY DEF IInv, TypeOK
<1> DEFINE both == db \o tx
<1>3. /\ both \in Seq(Job) /\ DOMAIN tx = 1 .. Len(tx)
      /\ \A m \in DOMAIN tx : Len(db) + m \in DOMAIN both /\ both[Len(db) + m] = tx[m]
  BY <1>2, ConcatSplit
<1>4. db' = both
  BY <1>1
<1> HIDE DEF both
<1>5. DOMAIN both = 1 .. Len(both)
  BY <1>3
<1>6. ASSUME NEW i \in DOMAIN done, done[i].result = "ok" PROVE Contains(both, done[i].job)
  <2>1. Contains(tx, done[i].job)
    BY <1>1, <1>6 DEF IInv, OkIsWritten
  <2>2. QED BY <1>3, <1>5, <2>1 DEF Contains
<1>7. QED BY <1>1, <1>4, <1>6 DEF OkIsWritten

LEMMA CommitFailsOk ==
  ASSUME IInv, CommitFails
  PROVE  OkIsWritten'
<1>1. /\ Failed(done) \in Seq(SavepointOutcome) /\ done' = Failed(done)
      /\ Len(Failed(done)) = Len(done)
      /\ \A i \in 1 .. Len(done) : Failed(done)[i].result # "ok"
  BY FailedOK DEF CommitFails, IInv, TypeOK
<1>2. DOMAIN done' = 1 .. Len(done)
  BY <1>1
<1>3. QED BY <1>1, <1>2 DEF OkIsWritten

-----------------------------------------------------------------------------
(* The inductive invariant                                                 *)


\* Steps that leave the line, the database and the replies alone.
Aside ==
  /\ UNCHANGED <<accepted, queue, batch, group, done, reply, tx, db>>
  /\ \A j \in Job : caller'[j] = "new" => caller[j] = "new"
  /\ UNCHANGED <<open, pc>> \/ done = <<>>

LEMMA AsideKeeps ==
  ASSUME IInv, Aside
  PROVE  Ordered' /\ WrittenInOrder' /\ OkIsWritten'
<1>1. Ordered' /\ Settled' = Settled /\ Ran' = Ran /\ Ran \in Nat
  BY OrderedUnmoved, Places DEF Aside
<1>2. WrittenInOrder'
  BY <1>1, WritesKept DEF Aside
<1>3. OkIsWritten'
  <2>1. CASE UNCHANGED <<open, pc>>
    BY <2>1 DEF IInv, OkIsWritten, Aside
  <2>2. CASE done = <<>>
    BY <2>2 DEF OkIsWritten, Aside
  <2>3. QED BY <2>1, <2>2 DEF Aside
<1>4. QED BY <1>1, <1>2, <1>3

LEMMA CallersAside ==
  ASSUME TypeOK, NEW j \in Job, Refuse(j) \/ Return(j) \/ GiveUp(j)
  PROVE  Aside
<1>1. \E answer : answer # "new" /\ caller' = [caller EXCEPT ![j] = answer]
  <2>1. CASE Refuse(j)
    BY <2>1 DEF Refuse
  <2>2. CASE Return(j)
    <3>1. reply[j] \in Result /\ caller' = [caller EXCEPT ![j] = reply[j]]
      BY <2>2 DEF Return, TypeOK
    <3>2. QED BY <3>1 DEF Result
  <2>3. CASE GiveUp(j)
    BY <2>3 DEF GiveUp
  <2>4. QED BY <2>1, <2>2, <2>3
<1>2. \A k \in Job : caller'[k] = "new" => caller[k] = "new"
  BY <1>1 DEF TypeOK
<1>3. UNCHANGED <<accepted, queue, batch, group, done, reply, tx, db, open, pc>>
  BY DEF Refuse, Return, GiveUp, work, database
<1>4. QED BY <1>2, <1>3 DEF Aside

LEMMA OthersAside ==
  ASSUME InHand, DropLast \/ JoinWithin \/ Begin \/ Disconnected \/ UNCHANGED vars
  PROVE  Aside
BY DEF DropLast, JoinWithin, Begin, Disconnected, vars, work, database, InHand, Aside

\* The database and what was answered as done, at each step of the thread.
LEMMA AnswerKeeps ==
  ASSUME IInv, BeginFails \/ Leave \/ Reply \/ Panic
  PROVE  Ordered' /\ WrittenInOrder' /\ OkIsWritten'
<1>1. Ordered' /\ Settled' >= Ran /\ Ran' = Settled'
  BY AnswerOrders
<1>2. UNCHANGED <<accepted, db>> /\ done' = <<>> /\ tx' = <<>>
  <2>1. tx' = <<>>
    BY DEF BeginFails, Leave, Reply, Panic, TransactionLost, database, IInv, InHand
  <2>2. done' = <<>>
    BY DEF BeginFails, Leave, Reply, Panic, work, IInv, InHand
  <2>3. QED
    BY <2>1, <2>2 DEF BeginFails, Leave, Reply, Panic, TransactionLost, database
<1>3. Ran' \in Nat /\ Ran' >= Ran
  <2>1. Line' /\ Ran \in Nat
    BY <1>1, Places DEF Ordered
  <2>2. Settled' \in Nat
    BY <2>1 DEF Line
  <2>3. QED BY <1>1, <2>2
<1>4. WrittenInOrder'
  BY <1>2, <1>3, WritesKept
<1>5. OkIsWritten'
  BY <1>2 DEF OkIsWritten
<1>6. QED BY <1>1, <1>4, <1>5

LEMMA TakeKeeps ==
  ASSUME IInv, Receive \/ Collect
  PROVE  Ordered' /\ WrittenInOrder' /\ OkIsWritten'
<1>1. Ordered' /\ Settled' = Settled /\ Ran' = Ran /\ Ran \in Nat
  BY TakeOrders, Places
<1>2. UNCHANGED <<accepted, done, tx, db>> /\ done = <<>>
  BY DEF Receive, Collect, database, IInv, InHand
<1>3. WrittenInOrder'
  BY <1>1, <1>2, WritesKept
<1>4. OkIsWritten'
  BY <1>2 DEF OkIsWritten
<1>5. QED BY <1>1, <1>3, <1>4

LEMMA AcceptKeeps ==
  ASSUME IInv, NEW j \in Job, Accept(j)
  PROVE  Ordered' /\ WrittenInOrder' /\ OkIsWritten'
<1>1. Ordered' /\ WrittenInOrder'
  BY AcceptOrders, AcceptWrites
<1>2. OkIsWritten'
  BY DEF Accept, work, database, IInv, OkIsWritten
<1>3. QED BY <1>1, <1>2

\* The jobs that were run, and their writes.
LEMMA RanKeeps ==
  ASSUME IInv, NEW jobs, NEW r, RanJobs(jobs, r), pc' # "replying",
         \/ r = "ok" /\ Released(jobs)
         \/ r # "ok" /\ (UNCHANGED database \/ TransactionLost)
  PROVE  WrittenInOrder' /\ OkIsWritten'
<1>1. WrittenInOrder'
  <2>1. CASE Released(jobs)
    BY <2>1, ReleaseWrites
  <2>2. CASE UNCHANGED database \/ TransactionLost
    <3>1. UNCHANGED <<accepted, db>> /\ (tx' = <<>> \/ tx' = tx)
      BY <2>2, KeptOrLostOK DEF IInv, RanJobs
    <3>2. Settled' = Settled /\ Ran' \in Nat /\ Ran' >= Ran
      <4>1. jobs \in Seq(Job) /\ Ran' = Ran + Len(jobs) /\ Settled' = Settled /\ Ran \in Nat
        BY Places DEF RanJobs
      <4>2. Len(jobs) \in Nat
        BY <4>1
      <4>3. QED BY <4>1, <4>2
    <3>3. QED BY <3>1, <3>2, WritesKept
  <2>3. QED BY <2>1, <2>2
<1>2. QED BY <1>1, RunOk

LEMMA RunGroupKeeps ==
  ASSUME IInv, RunGroup
  PROVE  Ordered' /\ WrittenInOrder' /\ OkIsWritten'
<1>1. Ordered' /\ Settled' = Settled /\ pc' # "replying"
  BY GroupOrders DEF RunGroup
<1>2. ASSUME NEW r, RanJobs(Group, r),
             (r = "ok" /\ Released(Group)) \/ (r # "ok" /\ UNCHANGED database)
      PROVE  WrittenInOrder' /\ OkIsWritten'
  <2> DEFINE jobs == Group
  <2> HIDE DEF jobs
  <2>1. /\ RanJobs(jobs, r)
        /\ \/ r = "ok" /\ Released(jobs)
           \/ r # "ok" /\ (UNCHANGED database \/ TransactionLost)
    BY <1>2 DEF jobs
  <2>2. QED BY <1>1, <2>1, RanKeeps
<1>3. CASE UNCHANGED <<done, accepted>> /\ Ran' = Ran /\ (UNCHANGED database \/ TransactionLost)
  <2>1. db' = db /\ ((tx' = tx /\ open' = open) \/ (tx' = <<>> /\ open' = FALSE))
    BY <1>3, KeptOrLostOK DEF IInv
  <2>2. WrittenInOrder'
    BY <1>1, <1>3, <2>1, Places, WritesKept
  <2>3. OkIsWritten'
    BY <1>1, <1>3, <2>1 DEF IInv, OkIsWritten
  <2>4. QED BY <1>1, <2>2, <2>3
<1>4. QED BY <1>1, <1>2, <1>3, GroupOrders

LEMMA RunOneKeeps ==
  ASSUME IInv, NEW j \in Job, RunOne(j)
  PROVE  Ordered' /\ WrittenInOrder' /\ OkIsWritten'
<1>1. Ordered' /\ pc' # "replying"
  BY AloneOrders DEF RunOne, Alone
<1>2. PICK r \in {"ok", "error", "commit"} :
        /\ RanJobs(<<j>>, r)
        /\ \/ r = "ok" /\ Released(<<j>>)
           \/ r # "ok" /\ (UNCHANGED database \/ TransactionLost)
  BY AloneOrders
<1> DEFINE jobs == <<j>>
<1>3. /\ RanJobs(jobs, r)
      /\ \/ r = "ok" /\ Released(jobs)
         \/ r # "ok" /\ (UNCHANGED database \/ TransactionLost)
  BY <1>2
<1> HIDE DEF jobs
<1>4. QED BY <1>1, <1>3, RanKeeps

LEMMA CommitFailsKeeps ==
  ASSUME IInv, CommitFails
  PROVE  Ordered' /\ WrittenInOrder' /\ OkIsWritten'
<1>1. Ordered' /\ Settled' = Settled /\ Ran' = Ran /\ Ran \in Nat
  BY CommitFailsOrders, Places
<1>2. UNCHANGED <<accepted, db>> /\ tx' = <<>>
  BY DEF CommitFails, TransactionLost
<1>3. QED BY <1>1, <1>2, WritesKept, CommitFailsOk

LEMMA InvariantInit == Init => IInv
<1> SUFFICES ASSUME Init PROVE IInv
  OBVIOUS
<1>1. TypeOK
  BY InitTyped
<1>2. /\ caller = [j \in Job |-> "new"] /\ reply = [j \in Job |-> None]
      /\ queue = <<>> /\ accepted = <<>> /\ batch = <<>> /\ group = <<>> /\ done = <<>>
      /\ tx = <<>> /\ db = <<>> /\ pc = "idle" /\ join = "none" /\ open = FALSE
  BY DEF Init
<1>3. Len(<<>>) = 0 /\ DOMAIN <<>> = {}
  OBVIOUS
<1>4. Line
  BY <1>2, <1>3 DEF Line, Settled
<1>5. Once /\ NewIsNowhere /\ AnsweredFirst
  BY <1>2, <1>3 DEF Once, NewIsNowhere, AnsweredFirst
<1>6. WrittenInOrder /\ OkIsWritten
  BY <1>2, <1>3 DEF WrittenInOrder, Within, InOrder, OkIsWritten
<1>7. InHand
  BY <1>2 DEF InHand
<1>8. QED BY <1>1, <1>4, <1>5, <1>6, <1>7 DEF IInv

LEMMA InvariantKept == IInv /\ [Next]_vars => IInv'
<1> SUFFICES ASSUME IInv, [Next]_vars PROVE IInv'
  OBVIOUS
<1>1. TypeOK' /\ InHand'
  BY TypesKept, HandKept DEF IInv
<1>2. Ordered' /\ WrittenInOrder' /\ OkIsWritten'
  <2>1. ASSUME NEW j \in Job, Accept(j) \/ Refuse(j) \/ Return(j) \/ GiveUp(j)
        PROVE  Ordered' /\ WrittenInOrder' /\ OkIsWritten'
    BY <2>1, AcceptKeeps, CallersAside, AsideKeeps DEF IInv
  <2>2. CASE DropLast \/ JoinWithin \/ Begin \/ Disconnected \/ UNCHANGED vars
    BY <2>2, OthersAside, AsideKeeps DEF IInv
  <2>3. CASE Receive \/ Collect
    BY <2>3, TakeKeeps
  <2>4. CASE BeginFails \/ Leave \/ Reply \/ Panic
    BY <2>4, AnswerKeeps
  <2>5. CASE RunGroup
    BY <2>5, RunGroupKeeps
  <2>6. ASSUME NEW j \in Job, RunOne(j)
        PROVE  Ordered' /\ WrittenInOrder' /\ OkIsWritten'
    BY <2>6, RunOneKeeps
  <2>7. CASE Commit
    BY <2>7, CommitWrites, CommitOk
  <2>8. CASE CommitFails
    BY <2>8, CommitFailsKeeps
  <2>9. QED
    BY <2>1, <2>2, <2>3, <2>4, <2>5, <2>6, <2>7, <2>8 DEF Next, Thread
<1>3. QED BY <1>1, <1>2 DEF IInv, Ordered

\* Every accepted job has its place in the line: answered, run, replayed, in the
\* batch or queued, and the writes of the database and of the open transaction
\* stand in the order of the line.
THEOREM IInvHolds == Spec => []IInv
<1>1. Init => IInv
  BY InvariantInit
<1>2. IInv /\ [Next]_vars => IInv'
  BY InvariantKept
<1>3. QED BY <1>1, <1>2, PTL DEF Spec

\* When the drop of the last handle joins the thread, no accepted job is without an
\* answer: the thread is gone, so nothing is in hand and everything in the line was
\* answered.
THEOREM JoinedDrained == Spec => []JoinedIsDrained
<1>1. ASSUME IInv PROVE JoinedIsDrained
  <2> SUFFICES ASSUME join = "joined", NEW i \in DOMAIN accepted PROVE reply[accepted[i]] # None
    BY DEF JoinedIsDrained
  <2>1. queue = <<>> /\ batch = <<>> /\ group = <<>> /\ done = <<>>
    BY <1>1 DEF IInv, InHand
  <2>2. Len(<<>>) = 0
    OBVIOUS
  <2>3. Settled = Len(accepted)
    BY <1>1, <2>1, <2>2, Places
  <2>4. DOMAIN accepted = 1 .. Len(accepted) /\ Len(accepted) \in Nat
    BY <1>1 DEF IInv, TypeOK
  <2>5. ~(i > Settled)
    BY <2>3, <2>4
  <2>6. QED BY <1>1, <2>5 DEF IInv, AnsweredFirst
<1>2. QED BY <1>1, IInvHolds, PTL

-----------------------------------------------------------------------------
(* Refinement                                                              *)

LEMMA AcceptIsAccept ==
  ASSUME IInv, NEW j \in Job, Accept(j)
  PROVE  Queue!Accept(j)
<1>1. /\ accepted' = Append(accepted, j) /\ UNCHANGED <<db, reply>>
      /\ caller[j] = "new" /\ DOMAIN accepted = 1 .. Len(accepted)
  BY DEF Accept, database, IInv, TypeOK
<1>2. ~Queue!Contains(accepted, j)
  BY <1>1 DEF Queue!Contains, IInv, NewIsNowhere
<1>3. QED BY <1>1, <1>2 DEF Queue!Accept

\* Writing jobs that nobody answered, in the order of the line.
LEMMA WriteIsWrite ==
  ASSUME IInv, NEW jobs \in Seq(Job), db' = db \o jobs, UNCHANGED <<accepted, reply>>,
         WrittenInOrder', Ran' \in 0 .. Len(accepted),
         \A m \in DOMAIN jobs : \E p \in Settled + 1 .. Len(accepted) : accepted[p] = jobs[m]
  PROVE  Queue!Write
<1>1. /\ accepted \in Seq(Job) /\ db \in Seq(Job) /\ DOMAIN accepted = 1 .. Len(accepted)
      /\ Len(accepted) \in Nat /\ Settled \in Nat
  <2>1. accepted \in Seq(Job) /\ db \in Seq(Job)
    BY DEF IInv, TypeOK
  <2>2. QED BY <2>1, Places
<1>2. IsPrefix(db, db \o jobs)
  <2>1. Len(db) <= Len(db \o jobs) /\ SubSeq(db, 1, Len(db)) = db
    BY <1>1
  <2>2. SubSeq(db \o jobs, 1, Len(db)) = db
    BY <1>1
  <2>3. QED BY <2>1, <2>2 DEF IsPrefix
<1> DEFINE both == db \o jobs
<1>3. /\ DOMAIN db = 1 .. Len(db)
      /\ \A m \in DOMAIN jobs : both[Len(db) + m] = jobs[m]
      /\ \A i \in DOMAIN both : i \in DOMAIN db \/ \E m \in DOMAIN jobs : i = Len(db) + m
  BY <1>1, ConcatSplit
<1>4. IsPrefix(db, both) /\ db' = both
  BY <1>2
<1> HIDE DEF both
<1>5. /\ \A i \in DOMAIN both : \E p \in 0 + 1 .. Ran' : accepted[p] = both[i]
      /\ \A i, k \in DOMAIN both : i < k => Queue!Before(both[i], both[k])
  BY <1>4 DEF WrittenInOrder, Within, InOrder, Queue!Before
<1>6. \A i \in DOMAIN both : Queue!Contains(accepted, both[i])
  <2>1. \A p \in 0 + 1 .. Ran' : p \in 1 .. Len(accepted)
    BY <1>1
  <2>2. QED BY <1>5, <2>1 DEF Queue!Contains
<1>7. ASSUME NEW i \in DOMAIN both \ DOMAIN db PROVE reply[both[i]] = None
  <2>1. PICK m \in DOMAIN jobs : i = Len(db) + m
    BY <1>3
  <2>2. PICK p \in Settled + 1 .. Len(accepted) : accepted[p] = jobs[m]
    OBVIOUS
  <2>3. p \in 1 .. Len(accepted) /\ p > Settled
    BY <1>1
  <2>4. reply[accepted[p]] = None
    BY <1>1, <2>3 DEF IInv, AnsweredFirst
  <2>5. QED BY <1>3, <2>1, <2>2, <2>4
<1>8. QED BY <1>4, <1>5, <1>6, <1>7 DEF Queue!Write, Queue!IsPrefix, IsPrefix

\* A savepoint that is released writes to the database when it is outermost.
LEMMA RunIsWrite ==
  ASSUME IInv, NEW jobs, NEW r, RanJobs(jobs, r), WrittenInOrder', UNCHANGED reply,
         Released(jobs) \/ UNCHANGED database \/ TransactionLost
  PROVE  Queue!Write \/ UNCHANGED <<accepted, db, reply>>
<1>1. /\ jobs \in Seq(Job) /\ UNCHANGED accepted /\ Ran' = Ran + Len(jobs)
      /\ Ran' <= Len(accepted) /\ \A i \in 1 .. Len(jobs) : jobs[i] = accepted[Ran + i]
  BY DEF RanJobs
<1>2. CASE Released(jobs) /\ ~open
  <2>1. db' = db \o jobs
    BY <1>1, <1>2, ReleasedOK DEF IInv
  <2>2. Len(jobs) \in Nat /\ DOMAIN jobs = 1 .. Len(jobs)
    BY <1>1
  <2>3. Ran' \in 0 .. Len(accepted)
    BY <1>1, <2>2, Places
  <2>4. ASSUME NEW m \in DOMAIN jobs
        PROVE  \E p \in Settled + 1 .. Len(accepted) : accepted[p] = jobs[m]
    <3>1. Ran + m \in Settled + 1 .. Len(accepted)
      <4>1. /\ m \in 1 .. Len(jobs) /\ Ran + Len(jobs) <= Len(accepted)
            /\ Settled \in Nat /\ Len(done) \in Nat /\ Ran = Settled + Len(done)
            /\ Len(accepted) \in Nat
        BY <1>1, <2>2, Places
      <4>2. QED BY <2>2, <4>1
    <3>2. QED BY <1>1, <2>2, <3>1
  <2>5. QED BY <1>1, <2>1, <2>3, <2>4, WriteIsWrite
<1>3. CASE Released(jobs) /\ open
  BY <1>1, <1>3, ReleasedOK DEF IInv
<1>4. CASE UNCHANGED database \/ TransactionLost
  BY <1>1, <1>4, KeptOrLostOK DEF IInv
<1>5. QED BY <1>2, <1>3, <1>4

LEMMA CommitIsWrite ==
  ASSUME IInv, Commit
  PROVE  Queue!Write
<1>1. db' = db \o tx /\ UNCHANGED <<accepted, queue, batch, group, done, reply>>
  BY DEF Commit, work
<1>2. tx \in Seq(Job) /\ Within(tx, Settled, Ran)
  BY DEF IInv, TypeOK, WrittenInOrder
<1>3. Ran' = Ran /\ Ran \in 0 .. Len(accepted)
  BY <1>1, Places DEF Ran, Settled
<1>4. \A p \in Settled + 1 .. Ran : p \in Settled + 1 .. Len(accepted)
  BY Places
<1>5. \A m \in DOMAIN tx : \E p \in Settled + 1 .. Len(accepted) : accepted[p] = tx[m]
  BY <1>2, <1>4 DEF Within
<1>6. QED BY <1>1, <1>2, <1>3, <1>5, CommitWrites, WriteIsWrite

LEMMA AnswerIsAnswer ==
  ASSUME IInv, BeginFails \/ Leave \/ Reply \/ Panic
  PROVE  Queue!Answer
<1>1. PICK outcomes : AnswersNext(outcomes)
  BY BeginFailsAnswers, LeaveAnswers, ReplyAnswers, PanicAnswers
<1>2. UNCHANGED <<accepted, db>>
  BY DEF BeginFails, Leave, Reply, Panic, TransactionLost, database
<1>3. \A j \in Job : reply'[j] # reply[j] =>
        /\ reply[j] = None /\ Contains(accepted, j)
        /\ \E i \in DOMAIN outcomes : outcomes[i].job = j /\ reply'[j] = outcomes[i].result
  BY <1>1, AnswersOK DEF AnswersNext
<1>4. \A i \in DOMAIN outcomes : outcomes[i].result = "ok" => Contains(db, outcomes[i].job)
  BY <1>1 DEF AnswersNext
<1>5. QED BY <1>2, <1>3, <1>4 DEF Queue!Answer, Queue!Contains, Contains

\* Batches, savepoints, replays, panics and the end of the thread show the callers
\* what WriteQueue promises: one write for each accepted job at most, in the order of
\* acceptance and before its answer, and an answer "ok" only to what was written.
THEOREM WriterImplementsQueue == Spec => WriteQueueSpec
<1>1. Init => Queue!Init
  BY DEF Init, Queue!Init
<1>2. IInv /\ IInv' /\ [Next]_vars => [Queue!Next]_(Queue!vars)
  <2> SUFFICES ASSUME IInv, IInv', [Next]_vars PROVE Queue!Next \/ UNCHANGED <<accepted, db, reply>>
    BY DEF Queue!vars
  <2>0. WrittenInOrder'
    BY DEF IInv
  <2>1. ASSUME NEW j \in Job, Accept(j) PROVE Queue!Next
    BY <2>1, AcceptIsAccept DEF Queue!Next
  <2>2. ASSUME NEW j \in Job, Refuse(j) \/ Return(j) \/ GiveUp(j)
        PROVE  UNCHANGED <<accepted, db, reply>>
    BY <2>2 DEF Refuse, Return, GiveUp, database
  <2>3. CASE DropLast \/ JoinWithin \/ Receive \/ Collect \/ Begin \/ Disconnected \/ CommitFails
    BY <2>3 DEF DropLast, JoinWithin, Receive, Collect, Begin, Disconnected, CommitFails,
                TransactionLost, database
  <2>4. CASE BeginFails \/ Leave \/ Reply \/ Panic
    BY <2>4, AnswerIsAnswer DEF Queue!Next
  <2>5. CASE RunGroup
    <3>1. UNCHANGED <<reply, accepted>>
      BY <2>5 DEF RunGroup
    <3>2. ASSUME NEW r, RanJobs(Group, r), Released(Group) \/ UNCHANGED database
          PROVE  Queue!Write \/ UNCHANGED <<accepted, db, reply>>
      <4> DEFINE jobs == Group
      <4> HIDE DEF jobs
      <4>1. RanJobs(jobs, r) /\ (Released(jobs) \/ UNCHANGED database)
        BY <3>2 DEF jobs
      <4>2. QED BY <2>0, <3>1, <4>1, RunIsWrite
    <3>3. CASE UNCHANGED database \/ TransactionLost
      BY <3>1, <3>3 DEF TransactionLost, database
    <3>4. QED BY <2>5, <3>2, <3>3, GroupOrders DEF Queue!Next
  <2>6. ASSUME NEW j \in Job, RunOne(j)
        PROVE  Queue!Next \/ UNCHANGED <<accepted, db, reply>>
    <3>1. UNCHANGED reply
      BY <2>6 DEF RunOne
    <3> DEFINE jobs == <<j>>
    <3>2. \E r \in {"ok", "error", "commit"} :
            RanJobs(jobs, r) /\ (Released(jobs) \/ UNCHANGED database \/ TransactionLost)
      BY <2>6, AloneOrders
    <3> HIDE DEF jobs
    <3>3. QED BY <2>0, <3>1, <3>2, RunIsWrite DEF Queue!Next
  <2>7. CASE Commit
    BY <2>7, CommitIsWrite DEF Queue!Next
  <2>8. CASE UNCHANGED vars
    BY <2>8 DEF vars, database
  <2>9. QED
    BY <2>1, <2>2, <2>3, <2>4, <2>5, <2>6, <2>7, <2>8 DEF Next, Thread
<1>3. QED BY <1>1, <1>2, IInvHolds, PTL DEF Spec, WriteQueueSpec, Queue!Spec
=============================================================================
