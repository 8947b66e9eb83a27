---------------------------- MODULE DuePassProofs ----------------------------
(***************************************************************************)
(* Proofs about calls of run_due, for every set of names, any number of    *)
(* calls, any occurrences and any number of drops, deaths, panics and      *)
(* failures.                                                               *)
(*                                                                         *)
(* FeedIsAlone is inductive together with Held, which ties the mark of a   *)
(* run to its state: a panic or a release gives back the mark of its own   *)
(* run and no other's.  What the rows hold plays no part, so instead of    *)
(* the whole TypeOK the proof keeps Shape: futures and runs are records    *)
(* with these fields.                                                      *)
(*                                                                         *)
(* SerialRunsOnce needs the whole of OInv, in the second half: with one    *)
(* call after another, one call goes on at most, and the row, what that    *)
(* call listed and everything still to be written lie beyond each          *)
(* occurrence that was started.                                            *)
(*                                                                         *)
(* SerialEndsFinal adds EInv, in the last part: whoever is about to end a  *)
(* row knows of a record after which there is nothing, and no other        *)
(* record is made in between.                                              *)
(***************************************************************************)
EXTENDS DuePass, WellFoundedInduction, TLAPS

IsFuture(c) == c = [at |-> c.at, todo |-> c.todo, clock |-> c.clock]

IsRun(r) ==
  \/ r = NoRun
  \/ r \in [generation : {r.generation}, occurrence : {r.occurrence}, next : {r.next},
            advance : {r.advance}, state : {r.state}, report : {r.report}, at : {r.at},
            recorded : {r.recorded}, marked : BOOLEAN]

Shape ==
  /\ call = [k \in Call |-> call[k]] /\ \A k \in Call : IsFuture(call[k])
  /\ run = [k \in Call |-> [n \in Name |-> run[k][n]]]
  /\ \A k \in Call, n \in Name : IsRun(run[k][n])

FeedStates == {"running", "stamped", "noted", "written"}

\* A mark is held by a run of a Monty name that goes on, and by every such run that
\* has not reported.
HeldBy(n, r) ==
  /\ r.marked => n \in Monty /\ r.state \in FeedStates
  /\ n \in Monty /\ r.state = "running" => r.marked

Held == \A k \in Call, n \in Name : HeldBy(n, run[k][n])

IInv == Shape /\ Held /\ FeedIsAlone

-----------------------------------------------------------------------------
(* Steps of one future, and of one run                                     *)

LEMMA FutureMoves ==
  ASSUME Shape, NEW k \in Call, NEW c, call' = [call EXCEPT ![k] = c]
  PROVE  /\ call'[k] = c /\ \A j \in Call \ {k} : call'[j] = call[j]
         /\ IsFuture(c) => /\ call' = [j \in Call |-> call'[j]]
                           /\ \A j \in Call : IsFuture(call'[j])
<1>1. call' = [j \in Call |-> IF j = k THEN c ELSE call[j]]
  BY DEF Shape
<1>2. call'[k] = c /\ \A j \in Call \ {k} : call'[j] = call[j]
  BY <1>1
<1>3. ASSUME IsFuture(c) PROVE \A j \in Call : IsFuture(call'[j])
  <2>1. ASSUME NEW j \in Call PROVE IsFuture(call'[j])
    <3>1. CASE j = k BY <1>2, <1>3, <3>1
    <3>2. CASE j # k
      <4>1. call'[j] = call[j] /\ IsFuture(call[j]) BY <1>2, <3>2 DEF Shape
      <4>2. QED BY <4>1
    <3>3. QED BY <3>1, <3>2
  <2>2. QED BY <2>1
<1>4. call' = [j \in Call |-> call'[j]]
  BY <1>1
<1>5. QED BY <1>2, <1>3, <1>4

\* A step that changes no run and no mark keeps the invariant when its call claims
\* nothing before and after, or claims what it claimed.
LEMMA FutureKeeps ==
  ASSUME IInv, NEW k \in Call, NEW c, IsFuture(c), call' = [call EXCEPT ![k] = c],
         c.at # "claimed", call[k].at # "claimed",
         UNCHANGED <<run, names>>
  PROVE  IInv'
<1>1. /\ call'[k] = c /\ \A j \in Call \ {k} : call'[j] = call[j]
      /\ call' = [j \in Call |-> call'[j]] /\ \A j \in Call : IsFuture(call'[j])
  BY FutureMoves DEF IInv
<1>2. Shape' /\ Held'
  BY <1>1 DEF IInv, Shape, Held
<1>3. ASSUME NEW j \in Call, NEW n \in Monty
      PROVE  (Takes(j, n)' <=> Takes(j, n)) /\ (Feeds(j, n)' <=> Feeds(j, n))
  <2>1. Feeds(j, n)' <=> Feeds(j, n)
    BY DEF Feeds
  <2>2. CASE j = k
    <3>1. ~Takes(j, n)' /\ ~Takes(j, n)
      BY <1>1, <2>2 DEF Takes, At
    <3>2. QED BY <2>1, <3>1
  <2>3. CASE j # k
    <3>1. call'[j] = call[j] BY <1>1, <2>3
    <3>2. Takes(j, n)' <=> Takes(j, n) BY <3>1 DEF Takes, At, First
    <3>3. QED BY <2>1, <3>2
  <2>4. QED BY <2>2, <2>3
<1>4. FeedIsAlone'
  BY <1>3 DEF IInv, FeedIsAlone
<1>5. QED BY <1>2, <1>4 DEF IInv

LEMMA RunMoves ==
  ASSUME Shape, Held, NEW k \in Call, NEW n, NEW r, IsRun(r), HeldBy(n, r),
         run' = [run EXCEPT ![k][n] = r]
  PROVE  /\ n \in Name => run'[k][n] = r
         /\ \A j \in Call, m \in Name : ~(j = k /\ m = n) => run'[j][m] = run[j][m]
         /\ run' = [j \in Call |-> [m \in Name |-> run'[j][m]]]
         /\ \A j \in Call, m \in Name : IsRun(run'[j][m]) /\ HeldBy(m, run'[j][m])
<1>1. run' = [j \in Call |-> [m \in Name |-> IF j = k /\ m = n THEN r ELSE run[j][m]]]
  BY DEF Shape
<1>2. n \in Name => run'[k][n] = r
  BY <1>1
<1>3. \A j \in Call, m \in Name : ~(j = k /\ m = n) => run'[j][m] = run[j][m]
  BY <1>1
<1>4. run' = [j \in Call |-> [m \in Name |-> run'[j][m]]]
  BY <1>1
<1>5. ASSUME NEW j \in Call, NEW m \in Name PROVE IsRun(run'[j][m]) /\ HeldBy(m, run'[j][m])
  <2>1. CASE j = k /\ m = n
    <3>1. j = k /\ m = n BY <2>1
    <3>2. QED BY <1>2, <3>1
  <2>2. CASE ~(j = k /\ m = n)
    <3>1. run'[j][m] = run[j][m] BY <1>3, <2>2
    <3>2. IsRun(run[j][m]) /\ HeldBy(m, run[j][m]) BY DEF Shape, Held
    <3>3. QED BY <3>1, <3>2
  <2>3. QED BY <2>1, <2>2
<1>6. QED BY <1>2, <1>3, <1>4, <1>5

\* A run that goes on and holds its mark as before.
LEMMA RunKeeps ==
  ASSUME IInv, NEW k \in Call, NEW n \in Name, NEW r, IsRun(r), HeldBy(n, r),
         run' = [run EXCEPT ![k][n] = r], r.marked = run[k][n].marked,
         UNCHANGED <<call, names>>
  PROVE  IInv'
<1>1. /\ n \in Name => run'[k][n] = r
      /\ \A j \in Call, m \in Name : ~(j = k /\ m = n) => run'[j][m] = run[j][m]
      /\ run' = [j \in Call |-> [m \in Name |-> run'[j][m]]]
      /\ \A j \in Call, m \in Name : IsRun(run'[j][m]) /\ HeldBy(m, run'[j][m])
  BY RunMoves DEF IInv
<1>2. Shape' /\ Held'
  BY <1>1 DEF IInv, Shape, Held
<1>3. ASSUME NEW j \in Call, NEW m \in Monty
      PROVE  (Takes(j, m)' <=> Takes(j, m)) /\ (Feeds(j, m)' <=> Feeds(j, m))
  <2>1. Takes(j, m)' <=> Takes(j, m)
    BY DEF Takes, At, First
  <2>2. m \in Name BY DueAssumption
  <2>3. CASE j = k /\ m = n
    <3>1. j = k /\ m = n BY <2>3
    <3>2. Feeds(j, m) <=> run[k][n].marked
      BY <3>1, <2>2 DEF IInv, Held, HeldBy, Feeds, FeedStates
    <3>3. Feeds(j, m)' <=> r.marked
      BY <1>1, <3>1 DEF HeldBy, Feeds, FeedStates
    <3>4. QED BY <2>1, <3>2, <3>3
  <2>4. CASE ~(j = k /\ m = n)
    <3>1. run'[j][m] = run[j][m] BY <1>1, <2>2, <2>4
    <3>2. Feeds(j, m)' <=> Feeds(j, m) BY <3>1 DEF Feeds
    <3>3. QED BY <2>1, <3>2
  <2>5. QED BY <2>3, <2>4
<1>4. FeedIsAlone'
  BY <1>3 DEF IInv, FeedIsAlone
<1>5. QED BY <1>2, <1>4 DEF IInv

\* A run that gives back the mark of its name, if it held it.
LEMMA RunReleases ==
  ASSUME IInv, NEW k \in Call, NEW n \in Name, NEW r, IsRun(r), HeldBy(n, r),
         run' = [run EXCEPT ![k][n] = r], ~r.marked,
         names' = IF run[k][n].marked THEN names \ {n} ELSE names,
         UNCHANGED call
  PROVE  IInv'
<1>1. /\ n \in Name => run'[k][n] = r
      /\ \A j \in Call, m \in Name : ~(j = k /\ m = n) => run'[j][m] = run[j][m]
      /\ run' = [j \in Call |-> [m \in Name |-> run'[j][m]]]
      /\ \A j \in Call, m \in Name : IsRun(run'[j][m]) /\ HeldBy(m, run'[j][m])
  BY RunMoves DEF IInv
<1>2. Shape' /\ Held'
  BY <1>1 DEF IInv, Shape, Held
<1>3. ASSUME NEW j \in Call, NEW m \in Monty
      PROVE  /\ Takes(j, m)' <=> Takes(j, m)
             /\ Feeds(j, m)' <=> Feeds(j, m) /\ ~(j = k /\ m = n)
  <2>1. Takes(j, m)' <=> Takes(j, m)
    BY DEF Takes, At, First
  <2>2. m \in Name BY DueAssumption
  <2>3. CASE j = k /\ m = n
    <3>1. j = k /\ m = n BY <2>3
    <3>2. ~Feeds(j, m)' BY <1>1, <3>1 DEF Feeds
    <3>3. QED BY <2>1, <2>3, <3>2
  <2>4. CASE ~(j = k /\ m = n)
    <3>1. run'[j][m] = run[j][m] BY <1>1, <2>2, <2>4
    <3>2. Feeds(j, m)' <=> Feeds(j, m) BY <3>1 DEF Feeds
    <3>3. QED BY <2>1, <2>4, <3>2
  <2>5. QED BY <2>3, <2>4
<1>4. CASE ~run[k][n].marked
  <2>1. names' = names BY <1>4
  <2>2. ASSUME NEW j \in Call, NEW m \in Monty PROVE Feeds(j, m)' <=> Feeds(j, m)
    <3>1. Feeds(j, m) => ~(j = k /\ m = n)
      BY <1>4 DEF Feeds
    <3>2. QED BY <1>3, <3>1
  <2>3. FeedIsAlone' BY <1>3, <2>1, <2>2 DEF IInv, FeedIsAlone
  <2>4. QED BY <1>2, <2>3 DEF IInv
<1>5. CASE run[k][n].marked
  <2>1. names' = names \ {n} BY <1>5
  <2>2. n \in Monty /\ Feeds(k, n)
    BY <1>5 DEF IInv, Held, HeldBy, Feeds, FeedStates
  <2>3. \A j \in Call : ~Takes(j, n) /\ (Feeds(j, n) => j = k)
    BY <2>2 DEF IInv, FeedIsAlone
  <2>4. ASSUME NEW m \in Monty
        PROVE  m \in names' <=> \E j \in Call : Takes(j, m)' \/ Feeds(j, m)'
    <3>1. CASE m = n BY <1>3, <2>1, <2>3, <3>1
    <3>2. CASE m # n
      <4>1. m \in names' <=> m \in names BY <2>1, <3>2
      <4>2. \A j \in Call : (Takes(j, m)' <=> Takes(j, m)) /\ (Feeds(j, m)' <=> Feeds(j, m))
        BY <1>3, <3>2
      <4>3. QED BY <4>1, <4>2 DEF IInv, FeedIsAlone
    <3>3. QED BY <3>1, <3>2
  <2>5. \A m \in Monty, j \in Call : (Takes(j, m)' => Takes(j, m)) /\ (Feeds(j, m)' => Feeds(j, m))
    BY <1>3
  <2>6. FeedIsAlone' BY <2>4, <2>5 DEF IInv, FeedIsAlone
  <2>7. QED BY <1>2, <2>6 DEF IInv
<1>6. QED BY <1>4, <1>5

-----------------------------------------------------------------------------
(* The steps of a call                                                     *)

\* The records that the steps of a call make of its future.
LEMMA Futures ==
  ASSUME NEW where, NEW todo, NEW clock
  PROVE  /\ IsFuture(Future(where, todo, clock))
         /\ Future(where, todo, clock).at = where /\ Future(where, todo, clock).todo = todo
  BY DEF IsFuture, Future

LEMMA ListKeeps ==
  ASSUME IInv, NEW k \in Call, List(k)
  PROVE  IInv'
<1>1. \E todo : call' = [call EXCEPT ![k] = Future("listed", todo, 0)]
  BY DEF List
<1>2. PICK todo : call' = [call EXCEPT ![k] = Future("listed", todo, 0)]
  BY <1>1
<1> DEFINE c == Future("listed", todo, 0)
<1>3. IsFuture(c) /\ c.at = "listed"
  BY Futures
<1>4. call[k].at # "claimed" /\ UNCHANGED <<run, names>>
  BY DEF List, At
<1> HIDE DEF c
<1>5. call' = [call EXCEPT ![k] = c]
  BY <1>2 DEF c
<1>6. QED BY <1>3, <1>4, <1>5, FutureKeeps

LEMMA ReadClockKeeps ==
  ASSUME IInv, NEW k \in Call, ReadClock(k)
  PROVE  IInv'
<1>1. \E todo : call' = [call EXCEPT ![k] = Future("launching", todo, now)]
  BY DEF ReadClock
<1>2. PICK todo : call' = [call EXCEPT ![k] = Future("launching", todo, now)]
  BY <1>1
<1> DEFINE c == Future("launching", todo, now)
<1>3. IsFuture(c) /\ c.at = "launching"
  BY Futures
<1>4. call[k].at # "claimed" /\ UNCHANGED <<run, names>>
  BY DEF ReadClock, At
<1> HIDE DEF c
<1>5. call' = [call EXCEPT ![k] = c]
  BY <1>2 DEF c
<1>6. QED BY <1>3, <1>4, <1>5, FutureKeeps

\* Passing a row over, before anything was claimed.
LEMMA PassesKeeps ==
  ASSUME IInv, NEW k \in Call, Launching(k), Passes(k), UNCHANGED <<run, names>>
  PROVE  IInv'
<1> DEFINE c == Future("launching", call[k].todo \ {First(k)}, call[k].clock)
<1>1. IsFuture(c) /\ c.at = "launching"
  BY Futures
<1>2. call[k].at # "claimed"
  BY DEF Launching, At
<1>3. call' = [call EXCEPT ![k] = c]
  BY DEF Passes
<1> HIDE DEF c
<1>4. QED BY <1>1, <1>2, <1>3, FutureKeeps

LEMMA CollectsKeeps ==
  ASSUME IInv, NEW k \in Call, Collects(k)
  PROVE  IInv'
<1>1. call[k].at # "claimed" /\ UNCHANGED <<run, names>>
  BY DEF Collects, At
<1>2. CASE Goes(k, "collecting")
  <2> DEFINE c == Future("collecting", call[k].todo, call[k].clock)
  <2>1. IsFuture(c) /\ c.at = "collecting" BY Futures
  <2>2. call' = [call EXCEPT ![k] = c] BY <1>2 DEF Goes
  <2> HIDE DEF c
  <2>3. QED BY <1>1, <2>1, <2>2, FutureKeeps
<1>3. CASE Ends(k)
  <2>1. IsFuture(Future("ended", {}, 0)) /\ Future("ended", {}, 0).at = "ended" BY Futures
  <2>2. call' = [call EXCEPT ![k] = Future("ended", {}, 0)] BY <1>3 DEF Ends
  <2>3. QED BY <1>1, <2>1, <2>2, FutureKeeps
<1>4. QED BY <1>2, <1>3 DEF Collects

\* A name that is not marked has no holder, so the call that marks it is the only one.
LEMMA ClaimKeeps ==
  ASSUME IInv, NEW k \in Call, Claim(k)
  PROVE  IInv'
<1> DEFINE n == First(k).name
<1>1. CASE n \in names
  <2>1. Passes(k) /\ Launching(k) /\ UNCHANGED <<run, names>> BY <1>1 DEF Claim
  <2>2. QED BY <2>1, PassesKeeps
<1>2. CASE n \notin names
  <2> DEFINE c == Future("claimed", call[k].todo, call[k].clock)
  <2>1. IsFuture(c) /\ c.at = "claimed" /\ c.todo = call[k].todo BY Futures
  <2>2. call' = [call EXCEPT ![k] = c] /\ names' = Marks(n) /\ UNCHANGED run
    BY <1>2 DEF Claim, Goes
  <2>3. call[k].at # "claimed" BY DEF Claim, Launching, At
  <2> HIDE DEF c
  <2>4. /\ call'[k] = c /\ \A j \in Call \ {k} : call'[j] = call[j]
        /\ call' = [j \in Call |-> call'[j]] /\ \A j \in Call : IsFuture(call'[j])
    BY <2>1, <2>2, FutureMoves DEF IInv
  <2>5. Shape' /\ Held' BY <2>2, <2>4 DEF IInv, Shape, Held
  <2>6. \A j \in Call, m \in Monty : Feeds(j, m)' <=> Feeds(j, m)
    BY <2>2 DEF Feeds
  <2>7. ASSUME NEW j \in Call, NEW m \in Monty
        PROVE  Takes(j, m)' <=> Takes(j, m) \/ (j = k /\ m = n)
    <3>1. CASE j = k
      <4>1. Takes(j, m)' <=> m = n BY <2>1, <2>4, <3>1 DEF Takes, At, First
      <4>2. ~Takes(j, m) BY <2>3, <3>1 DEF Takes, At
      <4>3. QED BY <3>1, <4>1, <4>2
    <3>2. CASE j # k
      <4>1. call'[j] = call[j] BY <2>4, <3>2
      <4>2. QED BY <3>2, <4>1 DEF Takes, At, First
    <3>3. QED BY <3>1, <3>2
  <2>8. \A j \in Call : n \in Monty => ~Takes(j, n) /\ ~Feeds(j, n)
    BY <1>2 DEF IInv, FeedIsAlone
  <2>9. \A m \in Monty : m \in names' <=> m \in names \/ m = n
    BY <2>2 DEF Marks
  <2> HIDE DEF n
  <2>10. ASSUME NEW m \in Monty
         PROVE  /\ m \in names' <=> \E j \in Call : Takes(j, m)' \/ Feeds(j, m)'
                /\ \A i, j \in Call : Feeds(i, m)' => ~Takes(j, m)' /\ (i # j => ~Feeds(j, m)')
                /\ \A i, j \in Call : Takes(i, m)' /\ Takes(j, m)' => i = j
    <3>1. CASE m = n BY <2>6, <2>7, <2>8, <2>9, <3>1
    <3>2. CASE m # n
      <4>1. m \in names' <=> m \in names BY <2>9, <3>2
      <4>2. \A j \in Call : (Takes(j, m)' <=> Takes(j, m)) /\ (Feeds(j, m)' <=> Feeds(j, m))
        BY <2>6, <2>7, <3>2
      <4>3. QED BY <4>1, <4>2 DEF IInv, FeedIsAlone
    <3>3. QED BY <3>1, <3>2
  <2>11. FeedIsAlone' BY <2>10 DEF FeedIsAlone
  <2>12. QED BY <2>5, <2>11 DEF IInv
<1>3. QED BY <1>1, <1>2

LEMMA EndFinalKeeps ==
  ASSUME IInv, NEW k \in Call, EndFinal(k)
  PROVE  IInv'
  BY PassesKeeps DEF EndFinal

\* The claim of the call becomes the mark of the run it starts.
LEMMA LaunchKeeps ==
  ASSUME IInv, NEW k \in Call, Launch(k)
  PROVE  IInv'
<1> DEFINE n == First(k).name
           c == Future("launching", call[k].todo \ {First(k)}, call[k].clock)
<1>1. IsFuture(c) /\ c.at = "launching"
  BY Futures
<1>2. call' = [call EXCEPT ![k] = c] /\ call[k].at = "claimed"
  BY DEF Launch, Passes, At
<1>3. \/ /\ \E r : /\ run' = [run EXCEPT ![k][n] = r]
                   /\ IsRun(r) /\ r.state = "running" /\ r.marked = (n \in Monty)
         /\ UNCHANGED names
      \/ run' = run /\ names' = Unmarked(n)
  <2>1. PICK answer \in {"yes", "no", "failed", "none"} :
          IF GoesOn(answer)
          THEN /\ run' = [run EXCEPT ![k][n] =
                   [generation |-> First(k).row.generation, occurrence |-> First(k).row.next,
                    next |-> NextRun(n, call[k].clock), advance |-> answer,
                    state |-> "running", report |-> "ran", at |-> 0,
                    recorded |-> FALSE, marked |-> n \in Monty]]
               /\ UNCHANGED names
          ELSE run' = run /\ names' = Unmarked(n)
    BY DEF Launch
  <2> DEFINE r == [generation |-> First(k).row.generation, occurrence |-> First(k).row.next,
                   next |-> NextRun(n, call[k].clock), advance |-> answer,
                   state |-> "running", report |-> "ran", at |-> 0,
                   recorded |-> FALSE, marked |-> n \in Monty]
  <2>2. IsRun(r) /\ r.state = "running" /\ r.marked = (n \in Monty)
    BY DEF IsRun
  <2>3. QED BY <2>1, <2>2
<1> HIDE DEF c
<1>4. /\ call'[k] = c /\ \A j \in Call \ {k} : call'[j] = call[j]
      /\ call' = [j \in Call |-> call'[j]] /\ \A j \in Call : IsFuture(call'[j])
  BY <1>1, <1>2, FutureMoves DEF IInv
<1>5. ASSUME NEW j \in Call, NEW m \in Monty
      PROVE  /\ Takes(j, m)' <=> Takes(j, m) /\ j # k
             /\ Takes(k, m) <=> m = n
  <2>1. ~Takes(k, m)' /\ (Takes(k, m) <=> m = n)
    BY <1>1, <1>2, <1>4 DEF Takes, At
  <2>2. CASE j # k
    <3>1. call'[j] = call[j] BY <1>4, <2>2
    <3>2. Takes(j, m)' <=> Takes(j, m) BY <3>1 DEF Takes, At, First
    <3>3. QED BY <2>1, <2>2, <3>2
  <2>3. QED BY <2>1, <2>2
<1> HIDE DEF n
<1>6. \A j \in Call : n \in Monty => ~Feeds(j, n) /\ (Takes(j, n) => j = k) /\ n \in names
  BY <1>5 DEF IInv, FeedIsAlone
<1>7. CASE run' = run /\ names' = Unmarked(n)
  <2>1. Shape' /\ Held' BY <1>4, <1>7 DEF IInv, Shape, Held
  <2>2. \A j \in Call, m \in Monty : Feeds(j, m)' <=> Feeds(j, m)
    BY <1>7 DEF Feeds
  <2>3. \A m \in Monty : m \in names' <=> m \in names /\ m # n
    BY <1>7 DEF Unmarked
  <2>4. ASSUME NEW m \in Monty
        PROVE  m \in names' <=> \E j \in Call : Takes(j, m)' \/ Feeds(j, m)'
    <3>1. CASE m = n BY <1>5, <1>6, <2>2, <2>3, <3>1
    <3>2. CASE m # n
      <4>1. \A j \in Call : (Takes(j, m)' <=> Takes(j, m)) /\ (Feeds(j, m)' <=> Feeds(j, m))
        BY <1>5, <2>2, <3>2
      <4>2. QED BY <2>3, <3>2, <4>1 DEF IInv, FeedIsAlone
    <3>3. QED BY <3>1, <3>2
  <2>5. FeedIsAlone' BY <1>5, <2>2, <2>4 DEF IInv, FeedIsAlone
  <2>6. QED BY <2>1, <2>5 DEF IInv
<1>8. ASSUME NEW r, run' = [run EXCEPT ![k][n] = r], IsRun(r), r.state = "running",
             r.marked = (n \in Monty), UNCHANGED names
      PROVE  IInv'
  <2>1. HeldBy(n, r) BY <1>8 DEF HeldBy, FeedStates
  <2>2. /\ n \in Name => run'[k][n] = r
        /\ \A j \in Call, m \in Name : ~(j = k /\ m = n) => run'[j][m] = run[j][m]
        /\ run' = [j \in Call |-> [m \in Name |-> run'[j][m]]]
        /\ \A j \in Call, m \in Name : IsRun(run'[j][m]) /\ HeldBy(m, run'[j][m])
    BY <1>8, <2>1, RunMoves DEF IInv
  <2>3. Shape' /\ Held' BY <1>4, <2>2 DEF IInv, Shape, Held
  <2>4. ASSUME NEW j \in Call, NEW m \in Monty
        PROVE  Feeds(j, m)' <=> Feeds(j, m) \/ (j = k /\ m = n)
    <3>1. m \in Name BY DueAssumption
    <3>2. CASE j = k /\ m = n BY <1>8, <2>2, <3>1, <3>2 DEF Feeds
    <3>3. CASE ~(j = k /\ m = n)
      <4>1. run'[j][m] = run[j][m] BY <2>2, <3>1, <3>3
      <4>2. QED BY <3>3, <4>1 DEF Feeds
    <3>4. QED BY <3>2, <3>3
  <2>5. \A m \in Monty : m \in names' <=> m \in names
    BY <1>8
  <2>6. ASSUME NEW m \in Monty
        PROVE  /\ m \in names' <=> \E j \in Call : Takes(j, m)' \/ Feeds(j, m)'
               /\ \A i, j \in Call : Feeds(i, m)' => ~Takes(j, m)' /\ (i # j => ~Feeds(j, m)')
               /\ \A i, j \in Call : Takes(i, m)' /\ Takes(j, m)' => i = j
    <3>1. CASE m = n BY <1>5, <1>6, <2>4, <2>5, <3>1
    <3>2. CASE m # n
      <4>1. \A j \in Call : (Takes(j, m)' <=> Takes(j, m)) /\ (Feeds(j, m)' <=> Feeds(j, m))
        BY <1>5, <2>4, <3>2
      <4>2. QED BY <2>5, <4>1 DEF IInv, FeedIsAlone
    <3>3. QED BY <3>1, <3>2
  <2>7. FeedIsAlone' BY <2>6 DEF FeedIsAlone
  <2>8. QED BY <2>3, <2>7 DEF IInv
<1>9. QED BY <1>3, <1>7, <1>8

-----------------------------------------------------------------------------
(* The steps of a run                                                      *)

LEMMA RunStepKeeps ==
  ASSUME IInv, NEW k \in Call, NEW n \in Name, RunStep(k, n)
  PROVE  IInv'
<1> DEFINE f == run[k][n]
<1>1. IsRun(f) /\ HeldBy(n, f)
  BY DEF IInv, Shape, Held
<1>2. f.state \in {"running", "panicked", "stamped", "noted", "written"} => f # NoRun
  BY DEF NoRun
<1>3. CASE Finish(k, n)
  <2>1. PICK report \in {"ran", "disable", "delete"} :
          /\ f.state = "running"
          /\ run' = [run EXCEPT ![k][n] = [f EXCEPT !.state = "stamped", !.report = report, !.at = now]]
    BY <1>3 DEF Finish, Reports, IInv, Shape
  <2> DEFINE r == [f EXCEPT !.state = "stamped", !.report = report, !.at = now]
  <2>2. IsRun(r) /\ r.state = "stamped" /\ r.marked = f.marked
    BY <1>1, <1>2, <2>1 DEF IsRun
  <2>3. HeldBy(n, r) BY <1>1, <2>2 DEF HeldBy, FeedStates
  <2>4. UNCHANGED <<call, names>> BY <1>3 DEF Finish
  <2>5. QED BY <2>1, <2>2, <2>3, <2>4, RunKeeps
<1>4. CASE JoinFailed(k, n)
  <2>1. /\ f.state = "panicked" /\ UNCHANGED <<call, names>>
        /\ run' = [run EXCEPT ![k][n] = [f EXCEPT !.state = "stamped", !.at = now]]
    BY <1>4 DEF JoinFailed, IInv, Shape
  <2> DEFINE r == [f EXCEPT !.state = "stamped", !.at = now]
  <2>2. IsRun(r) /\ r.state = "stamped" /\ r.marked = f.marked
    BY <1>1, <1>2, <2>1 DEF IsRun
  <2>3. HeldBy(n, r) BY <1>1, <2>2 DEF HeldBy, FeedStates
  <2>4. QED BY <2>1, <2>2, <2>3, RunKeeps
<1>5. CASE Persist(k, n)
  <2>1. f.state = "stamped" /\ UNCHANGED <<call, names>>
    BY <1>5 DEF Persist
  <2>2. \E s \in {"noted", Through(n)}, b \in BOOLEAN :
          run' = [run EXCEPT ![k][n] =
                    [f EXCEPT !.state = s, !.report = "ran", !.at = 0, !.recorded = b]]
    BY <1>5 DEF Persist, IInv, Shape
  <2>3. PICK s \in {"noted", Through(n)}, b \in BOOLEAN :
          run' = [run EXCEPT ![k][n] =
                    [f EXCEPT !.state = s, !.report = "ran", !.at = 0, !.recorded = b]]
    BY <2>2
  <2> DEFINE r == [f EXCEPT !.state = s, !.report = "ran", !.at = 0, !.recorded = b]
  <2>4. IsRun(r) /\ r.state = s /\ r.marked = f.marked
    BY <1>1, <1>2, <2>1 DEF IsRun
  <2>5. s # "running" /\ (n \in Monty => s \in FeedStates) BY DEF Through, FeedStates
  <2>6. HeldBy(n, r) BY <1>1, <2>4, <2>5 DEF HeldBy
  <2>7. QED BY <2>1, <2>3, <2>4, <2>6, RunKeeps
<1>6. CASE FollowUp(k, n)
  <2>1. /\ f.state = "noted" /\ UNCHANGED <<call, names>>
        /\ run' = [run EXCEPT ![k][n] = [f EXCEPT !.state = Through(n)]]
    BY <1>6 DEF FollowUp, IInv, Shape
  <2> DEFINE r == [f EXCEPT !.state = Through(n)]
  <2>2. IsRun(r) /\ r.state = Through(n) /\ r.marked = f.marked
    BY <1>1, <1>2, <2>1 DEF IsRun
  <2>3. Through(n) # "running" /\ (n \in Monty => Through(n) \in FeedStates)
    BY DEF Through, FeedStates
  <2>4. HeldBy(n, r) BY <1>1, <2>2, <2>3 DEF HeldBy
  <2>5. QED BY <2>1, <2>2, <2>4, RunKeeps
<1>7. CASE Release(k, n)
  <2>1. /\ f.state = "written" /\ UNCHANGED call
        /\ run' = [run EXCEPT ![k][n] = [f EXCEPT !.state = "done", !.marked = FALSE]]
        /\ names' = IF run[k][n].marked THEN names \ {n} ELSE names
    BY <1>7 DEF Release, IInv, Shape
  <2> DEFINE r == [f EXCEPT !.state = "done", !.marked = FALSE]
  <2>2. IsRun(r) /\ r.state = "done" /\ ~r.marked
    BY <1>1, <1>2, <2>1 DEF IsRun
  <2>3. HeldBy(n, r) BY <2>2 DEF HeldBy
  <2>4. QED BY <2>1, <2>2, <2>3, RunReleases
<1>8. QED BY <1>3, <1>4, <1>5, <1>6, <1>7 DEF RunStep

LEMMA PanicKeeps ==
  ASSUME IInv, NEW k \in Call, NEW n \in Name, Panic(k, n)
  PROVE  IInv'
<1> DEFINE f == run[k][n]
           s == IF Alive(k) THEN "panicked" ELSE "lost"
           r == [f EXCEPT !.state = s, !.marked = FALSE]
<1>1. IsRun(f) /\ HeldBy(n, f)
  BY DEF IInv, Shape, Held
<1>2. /\ n \in Monty /\ f.state = "running" /\ names' = names \ {n} /\ UNCHANGED call
      /\ run' = [run EXCEPT ![k][n] = r]
  BY DEF Panic, Unmarked, IInv, Shape
<1>3. f # NoRun /\ f.marked
  BY <1>1, <1>2 DEF NoRun, HeldBy
<1>4. IsRun(r) /\ r.state = s /\ ~r.marked
  BY <1>1, <1>3 DEF IsRun
<1>5. HeldBy(n, r)
  BY <1>4 DEF HeldBy
<1> HIDE DEF r
<1>6. names' = IF run[k][n].marked THEN names \ {n} ELSE names
  BY <1>2, <1>3
<1>7. QED BY <1>2, <1>4, <1>5, <1>6, RunReleases

-----------------------------------------------------------------------------
(* Drops and deaths                                                        *)

LEMMA LostRun ==
  ASSUME NEW f, IsRun(f), f # NoRun, NEW s, NEW r, r = [f EXCEPT !.state = s]
  PROVE  IsRun(r) /\ r.state = s /\ r.marked = f.marked
  BY DEF IsRun

\* A dropped call gives back what it claimed; its aborted runs hold no mark.
LEMMA DropKeeps ==
  ASSUME IInv, NEW k \in Call, Drop(k)
  PROVE  IInv'
<1> DEFINE c == Future("ended", {}, 0)
           x == First(k).name
<1>1. IsFuture(c) /\ c.at = "ended" /\ call' = [call EXCEPT ![k] = c]
  BY Futures DEF Drop, Ends
<1> HIDE DEF c
<1>2. /\ call'[k] = c /\ \A j \in Call \ {k} : call'[j] = call[j]
      /\ call' = [j \in Call |-> call'[j]] /\ \A j \in Call : IsFuture(call'[j])
  BY <1>1, FutureMoves DEF IInv
<1>3. run' = [j \in Call |-> [m \in Name |->
         IF j = k /\ Aborted(k, m) THEN [run[j][m] EXCEPT !.state = "lost"] ELSE run[j][m]]]
  BY DEF Drop, IInv, Shape
<1>4. ASSUME NEW j \in Call, NEW m \in Name
      PROVE  /\ IsRun(run'[j][m]) /\ HeldBy(m, run'[j][m])
             /\ m \in Monty => (Feeds(j, m)' <=> Feeds(j, m))
  <2>1. IsRun(run[j][m]) /\ HeldBy(m, run[j][m])
    BY DEF IInv, Shape, Held
  <2>2. CASE j = k /\ Aborted(k, m)
    <3>1. run'[j][m] = [run[j][m] EXCEPT !.state = "lost"]
      BY <1>3, <2>2
    <3>2. run[j][m].state \in {"panicked", "running"} /\ run[j][m] # NoRun
          /\ (m \in Monty => run[j][m].state = "panicked")
      BY <2>2 DEF Aborted, NoRun
    <3>3. ~run[j][m].marked
      BY <2>1, <3>2 DEF HeldBy, FeedStates
    <3>4. /\ IsRun(run'[j][m]) /\ run'[j][m].state = "lost"
          /\ run'[j][m].marked = run[j][m].marked
      BY <2>1, <3>1, <3>2, LostRun
    <3>5. QED BY <3>3, <3>4 DEF HeldBy, Feeds
  <2>3. CASE ~(j = k /\ Aborted(k, m))
    <3>1. run'[j][m] = run[j][m] BY <1>3, <2>3
    <3>2. QED BY <2>1, <3>1 DEF Feeds
  <2>4. QED BY <2>2, <2>3
<1>5. run' = [j \in Call |-> [m \in Name |-> run'[j][m]]]
  BY <1>3
<1>6. Shape' /\ Held'
  BY <1>2, <1>4, <1>5 DEF Shape, Held
<1>7. \A j \in Call, m \in Monty : Feeds(j, m)' <=> Feeds(j, m)
  BY <1>4, DueAssumption
<1>8. ASSUME NEW j \in Call, NEW m \in Monty
      PROVE  Takes(j, m)' <=> Takes(j, m) /\ j # k
  <2>1. CASE j = k BY <1>1, <1>2, <2>1 DEF Takes, At
  <2>2. CASE j # k
    <3>1. call'[j] = call[j] BY <1>2, <2>2
    <3>2. Takes(j, m)' <=> Takes(j, m) BY <3>1 DEF Takes, At, First
    <3>3. QED BY <2>2, <3>2
  <2>3. QED BY <2>1, <2>2
<1>9. CASE At(k, "claimed")
  <2>1. \A m \in Monty : Takes(k, m) <=> m = x
    BY <1>9 DEF Takes
  <2>2. \A m \in Monty : m \in names' <=> m \in names /\ m # x
    BY <1>9 DEF Drop, Unmarked
  <2> HIDE DEF x
  <2>3. ASSUME NEW m \in Monty
        PROVE  m \in names' <=> \E j \in Call : Takes(j, m)' \/ Feeds(j, m)'
    <3>1. CASE m = x
      <4>1. \A j \in Call : ~Feeds(j, m) /\ (Takes(j, m) => j = k)
        BY <2>1, <3>1 DEF IInv, FeedIsAlone
      <4>2. QED BY <1>7, <1>8, <2>2, <3>1, <4>1
    <3>2. CASE m # x
      <4>1. \A j \in Call : Takes(j, m)' <=> Takes(j, m)
        BY <1>8, <2>1, <3>2
      <4>2. QED BY <1>7, <2>2, <3>2, <4>1 DEF IInv, FeedIsAlone
    <3>3. QED BY <3>1, <3>2
  <2>4. FeedIsAlone' BY <1>7, <1>8, <2>3 DEF IInv, FeedIsAlone
  <2>5. QED BY <1>6, <2>4 DEF IInv
<1>10. CASE ~At(k, "claimed")
  <2>1. names' = names BY <1>10 DEF Drop
  <2>2. \A j \in Call, m \in Monty : Takes(j, m)' <=> Takes(j, m)
    BY <1>8, <1>10 DEF Takes
  <2>3. FeedIsAlone' BY <1>7, <2>1, <2>2 DEF IInv, FeedIsAlone
  <2>4. QED BY <1>6, <2>3 DEF IInv
<1>11. QED BY <1>9, <1>10

\* Nothing claims and nothing feeds after a death.
LEMMA DieKeeps ==
  ASSUME IInv, Die
  PROVE  IInv'
<1>1. /\ call' = [k \in Call |-> IF Alive(k) THEN Future("ended", {}, 0) ELSE call[k]]
      /\ run' = [k \in Call |-> [n \in Name |-> IF Over(k, n) THEN run[k][n]
           ELSE [run[k][n] EXCEPT !.state = "lost", !.marked = FALSE]]]
      /\ names' = {}
  BY DEF Die
<1>2. ASSUME NEW k \in Call
      PROVE  IsFuture(call'[k]) /\ call'[k].at # "claimed"
  <2>1. CASE Alive(k)
    <3>1. call'[k] = Future("ended", {}, 0) BY <1>1, <2>1
    <3>2. QED BY <3>1, Futures
  <2>2. CASE ~Alive(k)
    <3>1. call'[k] = call[k] BY <1>1, <2>2
    <3>2. QED BY <2>2, <3>1 DEF IInv, Shape, Alive
  <2>3. QED BY <2>1, <2>2
<1>3. ASSUME NEW k \in Call, NEW n \in Name
      PROVE  IsRun(run'[k][n]) /\ ~run'[k][n].marked /\ run'[k][n].state # "running"
  <2>1. IsRun(run[k][n]) /\ HeldBy(n, run[k][n])
    BY DEF IInv, Shape, Held
  <2>2. CASE Over(k, n)
    <3>1. run'[k][n] = run[k][n] BY <1>1, <2>2
    <3>2. run[k][n].state \notin FeedStates BY <2>2 DEF Over, FeedStates
    <3>3. run[k][n].marked \in BOOLEAN
      <4>1. CASE run[k][n] = NoRun BY <4>1 DEF NoRun
      <4>2. CASE run[k][n] # NoRun BY <2>1, <4>2 DEF IsRun
      <4>3. QED BY <4>1, <4>2
    <3>4. QED BY <2>1, <3>1, <3>2, <3>3 DEF HeldBy, FeedStates
  <2>3. CASE ~Over(k, n)
    <3>1. run[k][n] # NoRun BY <2>3 DEF Over, NoRun
    <3>2. run'[k][n] = [run[k][n] EXCEPT !.state = "lost", !.marked = FALSE]
      BY <1>1, <2>3
    <3>3. IsRun(run'[k][n]) /\ ~run'[k][n].marked /\ run'[k][n].state = "lost"
      <4> DEFINE f == run[k][n]
      <4>1. IsRun(f) /\ f # NoRun BY <2>1, <3>1
      <4>2. run'[k][n] = [f EXCEPT !.state = "lost", !.marked = FALSE] BY <3>2
      <4> HIDE DEF f
      <4>3. QED BY <4>1, <4>2 DEF IsRun
    <3>4. QED BY <3>3
  <2>4. QED BY <2>2, <2>3
<1>4. /\ call' = [k \in Call |-> call'[k]]
      /\ run' = [k \in Call |-> [n \in Name |-> run'[k][n]]]
  BY <1>1
<1>5. Shape' /\ Held'
  BY <1>2, <1>3, <1>4 DEF Shape, Held, HeldBy
<1>6. \A k \in Call, n \in Monty : ~Takes(k, n)' /\ ~Feeds(k, n)'
  BY <1>2, <1>3, DueAssumption DEF Takes, At, Feeds
<1>7. FeedIsAlone'
  BY <1>1, <1>6 DEF FeedIsAlone
<1>8. QED BY <1>5, <1>7 DEF IInv

LEMMA OthersKeep ==
  ASSUME IInv, UNCHANGED <<call, run, names>>
  PROVE  IInv'
<1>1. \A k \in Call, n \in Monty : (Takes(k, n)' <=> Takes(k, n)) /\ (Feeds(k, n)' <=> Feeds(k, n))
  BY DEF Takes, At, First, Feeds
<1>2. FeedIsAlone'
  BY <1>1 DEF IInv, FeedIsAlone
<1>3. Shape' /\ Held'
  BY DEF IInv, Shape, Held
<1>4. QED BY <1>2, <1>3 DEF IInv

-----------------------------------------------------------------------------
LEMMA InitOK == Init => IInv
<1> SUFFICES ASSUME Init PROVE IInv
  OBVIOUS
<1>1. /\ call = [k \in Call |-> Future("new", {}, 0)] /\ names = {}
      /\ run = [k \in Call |-> [n \in Name |-> NoRun]]
  BY DEF Init
<1>2. \A k \in Call : call[k] = Future("new", {}, 0)
  BY <1>1
<1>3. \A k \in Call : IsFuture(call[k]) /\ call[k].at = "new"
  BY <1>2, Futures
<1>4. \A k \in Call, n \in Name : run[k][n] = NoRun
  BY <1>1
<1>5. Shape
  BY <1>1, <1>3, <1>4 DEF Shape, IsRun
<1>6. Held
  BY <1>4 DEF Held, HeldBy, NoRun
<1>7. \A k \in Call, n \in Monty : ~Takes(k, n) /\ ~Feeds(k, n)
  BY <1>3, <1>4, DueAssumption DEF Takes, At, Feeds, NoRun
<1>8. QED BY <1>1, <1>5, <1>6, <1>7 DEF IInv, FeedIsAlone

LEMMA StepOK == IInv /\ [Next]_vars => IInv'
<1> SUFFICES ASSUME IInv, [Next]_vars PROVE IInv'
  OBVIOUS
<1>1. CASE UNCHANGED vars
  BY <1>1, OthersKeep DEF vars
<1>2. ASSUME NEW k \in Call, List(k) \/ CallStep(k) PROVE IInv'
  BY <1>2, ListKeeps, ReadClockKeeps, EndFinalKeeps, ClaimKeeps, LaunchKeeps, CollectsKeeps
  DEF CallStep
<1>3. ASSUME NEW k \in Call, LateWrite(k) PROVE IInv'
  BY <1>3, OthersKeep DEF LateWrite
<1>4. CASE Change \/ Tick
  BY <1>4, OthersKeep DEF Change, Tick
<1>5. QED
  BY <1>1, <1>2, <1>3, <1>4, DropKeeps, DieKeeps, RunStepKeeps, PanicKeeps DEF Next

\* One scheduler feeds a Monty name once at a time and marks a name only meanwhile,
\* whatever number of calls overlap, panic, are dropped or die.
THEOREM FeedAlone == Spec => []FeedIsAlone
<1>1. IInv => FeedIsAlone
  BY DEF IInv
<1>2. QED BY <1>1, InitOK, StepOK, PTL DEF Spec

-----------------------------------------------------------------------------
(* SerialRunsOnce                                                          *)
(*                                                                         *)
(* With one call after another, the call that goes on is the last that was *)
(* made, and everything it lists, launches, records and stores is beyond   *)
(* what was started before: `Beyond` says of a started run where the row,  *)
(* the calls, the other runs and the late writes stand.                    *)

Started(j, n) == run[j][n] # NoRun
Live(k, n) == ~Over(k, n)
Going(k) == call[k].at \in {"launching", "claimed"}

Quiet(j) == ~Alive(j) /\ late[j] = NoWrite /\ \A n \in Name : Over(j, n)

\* The calls that were made: one goes on at most, the last.
OneGoesOn ==
  \A j, k \in Call : j < k /\ ~At(k, "new") => ~At(j, "new") /\ Quiet(j)

Futile ==
  \A k \in Call :
    /\ At(k, "new") => late[k] = NoWrite /\ \A n \in Name : run[k][n] = NoRun
    /\ Alive(k) => late[k] = NoWrite
    /\ ~Alive(k) => call[k].todo = {}

\* What a call took from the rows is not ahead of them, nor of its clock.
Behind ==
  \A k \in Call :
    /\ Going(k) => call[k].clock <= now
    /\ \A e \in call[k].todo :
         /\ e.row.generation <= rows[e.name].generation
         /\ e.row.next # None
         /\ Going(k) => e.row.next <= call[k].clock
    /\ At(k, "claimed") => call[k].todo # {} /\ ~ConsumedLast(First(k))

ActiveHasNext == \A n \in Name : IsActive(rows, n) => rows[n].next # None

\* At t the run's occurrence is past, and the expression has no other.
Exhausted(n, r, t) == r.occurrence <= t /\ NextRun(n, t) = None

\* An occurrence that was started is started again only in this case.
MayRunAgain(r) == r.advance # "yes" /\ (r.next = None => ~r.recorded)

RowIsBeyond(n, r) ==
  /\ r.generation <= rows[n].generation
  /\ IsActive(rows, n) /\ r.generation = rows[n].generation =>
       /\ r.advance = "yes" => r.occurrence < rows[n].next
       /\ r.next = None /\ r.recorded =>
            rows[n].last # None /\ Exhausted(n, r, rows[n].last.at)

CallIsBeyond(n, r, k) ==
  /\ Going(k) => r.occurrence <= call[k].clock
  /\ late[k] # NoWrite =>
       (late[k][1] = n /\ late[k][3] # None => r.occurrence < late[k][3])
  /\ Live(k, n) /\ run[k][n].next # None => r.occurrence < run[k][n].next
  /\ run[k][n].state = "stamped" /\ r.next = None => Exhausted(n, r, run[k][n].at)

ListedIsBeyond(n, r, k) ==
  \A e \in call[k].todo :
    e.name = n /\ e.row.generation = r.generation /\ e.row.next = r.occurrence =>
      MayRunAgain(r) \/ (r.advance # "yes" /\ ConsumedLast(e))

Beyond(n, j) ==
  LET r == run[j][n]
  IN  /\ r.occurrence <= now /\ r.advance # "no"
      /\ r.next = None => NextRun(n, now) = None
      /\ RowIsBeyond(n, r)
      /\ \A k \in Call : CallIsBeyond(n, r, k)
      /\ \A k \in Call \ {j} : ListedIsBeyond(n, r, k)
      /\ \A k \in Call : /\ j < k /\ Started(k, n)
                         /\ run[k][n].generation = r.generation
                         /\ run[k][n].occurrence = r.occurrence
                         => MayRunAgain(r)

OInv ==
  /\ TypeOK
  /\ Futile
  /\ Behind
  /\ ActiveHasNext
  /\ ~overlapped => OneGoesOn /\ \A n \in Name, j \in Call : Started(j, n) => Beyond(n, j)

-----------------------------------------------------------------------------
(* The operators of the model, and types                                   *)

LEMMA LeastNat ==
  ASSUME NEW I, I \subseteq Nat, I # {}
  PROVE  \E x \in I : \A y \in I : x <= y
<1>1. \E x \in I : \A y \in I : ~ (<<y, x>> \in OpToRel(<, Nat))
  BY NatLessThanWellFounded, WFMin
<1>2. PICK x \in I : \A y \in I : ~ (<<y, x>> \in OpToRel(<, Nat))
  BY <1>1
<1>3. ASSUME NEW y \in I PROVE x <= y
  <2>1. x \in Nat /\ y \in Nat /\ ~(y < x)
    BY <1>2 DEF OpToRel
  <2>2. QED BY <2>1
<1>4. QED BY <1>3

\* The next run is after t, or there is none after t.
LEMMA NextRunOK ==
  ASSUME NEW n \in Name, NEW t
  PROVE  \/ NextRun(n, t) = None /\ \A o \in Occ[n] : ~(o > t)
         \/ NextRun(n, t) \in 1 .. MaxTime /\ NextRun(n, t) > t
<1> DEFINE later == {o \in Occ[n] : o > t}
<1>1. later \subseteq 1 .. MaxTime /\ MaxTime \in Nat
  BY DueAssumption
<1>2. CASE later = {}
  BY <1>2 DEF NextRun
<1>3. CASE later # {}
  <2>1. later \subseteq Nat
    BY <1>1
  <2>2. \E o \in later : \A p \in later : o <= p
    BY <1>3, <2>1, LeastNat
  <2>3. NextRun(n, t) = CHOOSE o \in later : \A p \in later : o <= p
    BY <1>3 DEF NextRun
  <2> HIDE DEF later
  <2>4. NextRun(n, t) \in later
    BY <2>2, <2>3
  <2>5. QED BY <1>1, <2>4 DEF later
<1>4. QED BY <1>2, <1>3

\* Once nothing is left, nothing is left later.
LEMMA NextRunGone ==
  ASSUME NEW n \in Name, NEW t \in Instant, NEW u \in Instant, t <= u, NextRun(n, t) = None
  PROVE  NextRun(n, u) = None
<1>1. Occ[n] \subseteq 1 .. MaxTime /\ MaxTime \in Nat
  BY DueAssumption
<1>2. \A o \in Occ[n] : ~(o > t)
  BY NextRunOK, NullAssumption
<1>3. \A o \in Occ[n] : ~(o > u)
  BY <1>1, <1>2 DEF Instant
<1>4. QED BY <1>3 DEF NextRun

LEMMA RunFields ==
  /\ NoRun \notin Run /\ NoRun.state = "none" /\ NoRun.marked = FALSE
  /\ \A r \in Run : /\ r.generation \in Generation /\ r.occurrence \in 1 .. MaxTime
                    /\ r.next \in (1 .. MaxTime) \cup {None} /\ r.at \in Instant
                    /\ r.advance \in {"yes", "no", "failed", "none"}
                    /\ r.recorded \in BOOLEAN /\ r.marked \in BOOLEAN
                    /\ r.state \in {"running", "panicked", "stamped", "noted", "written",
                                    "done", "lost"}
                    /\ r.report \in {"ran", "disable", "delete"}
<1>1. NoRun.state = "none" /\ NoRun.marked = FALSE
  BY DEF NoRun
<1>2. \A r \in Run : r.state # "none"
  BY DEF Run
<1>3. QED BY <1>1, <1>2 DEF Run

LEMMA RowFields ==
  \A row \in DueRow : /\ row.generation \in Generation /\ row.enabled \in BOOLEAN
                      /\ row.next \in (1 .. MaxTime) \cup {None}
                      /\ row.last \in Outcome \cup {None} /\ row.ended \in BOOLEAN
  BY DEF DueRow, RowSet

\* The first of the listed rows is one of them.
LEMMA FirstOK ==
  ASSUME NEW k \in Call, call[k].todo \subseteq Listed, call[k].todo # {}
  PROVE  First(k) \in call[k].todo
<1> DEFINE I == {Position(r.name) : r \in call[k].todo}
<1>1. ASSUME NEW r \in call[k].todo PROVE Position(r.name) \in Nat
  <2>1. r.name \in Name
    BY DEF Listed
  <2>2. \E i \in DOMAIN Order : Order[i] = r.name
    BY <2>1, DueAssumption
  <2>3. Position(r.name) \in DOMAIN Order
    BY <2>2 DEF Position
  <2>4. DOMAIN Order \subseteq Nat
    BY DueAssumption
  <2>5. QED BY <2>3, <2>4
<1>2. I \subseteq Nat /\ I # {}
  BY <1>1
<1>3. PICK x \in I : \A y \in I : x <= y
  BY <1>2, LeastNat
<1>4. \E r \in call[k].todo : \A q \in call[k].todo : Position(r.name) <= Position(q.name)
  BY <1>3
<1>5. QED BY <1>4 DEF First

FutureSet == [at : Where, todo : SUBSET Listed, clock : Instant]
RunSet == {NoRun} \cup Run

LEMMA CallMoves ==
  ASSUME TypeOK, NEW k \in Call, NEW where \in Where, NEW todo \in SUBSET Listed,
         NEW clock \in Instant, call' = [call EXCEPT ![k] = Future(where, todo, clock)]
  PROVE  /\ call' \in [Call -> FutureSet]
         /\ call'[k].at = where /\ call'[k].todo = todo /\ call'[k].clock = clock
         /\ \A j \in Call \ {k} : call'[j] = call[j]
<1> DEFINE c == Future(where, todo, clock)
<1>1. c \in FutureSet /\ c.at = where /\ c.todo = todo /\ c.clock = clock
  BY DEF Future, FutureSet
<1>2. call' = [call EXCEPT ![k] = c]
  OBVIOUS
<1>3. call \in [Call -> FutureSet]
  BY DEF TypeOK, FutureSet
<1> HIDE DEF c
<1>4. call' \in [Call -> FutureSet] /\ call'[k] = c /\ \A j \in Call \ {k} : call'[j] = call[j]
  BY <1>1, <1>2, <1>3
<1>5. QED BY <1>1, <1>4

LEMMA RunChanges ==
  ASSUME TypeOK, NEW k \in Call, NEW n \in Name, NEW r \in RunSet,
         run' = [run EXCEPT ![k][n] = r]
  PROVE  /\ run' \in [Call -> [Name -> RunSet]]
         /\ run'[k][n] = r
         /\ \A j \in Call, m \in Name : ~(j = k /\ m = n) => run'[j][m] = run[j][m]
<1>1. run \in [Call -> [Name -> RunSet]]
  BY DEF TypeOK, RunSet
<1>2. run' = [j \in Call |-> IF j = k THEN [run[k] EXCEPT ![n] = r] ELSE run[j]]
  BY <1>1
<1>3. [run[k] EXCEPT ![n] = r] \in [Name -> RunSet]
  BY <1>1
<1>4. run' \in [Call -> [Name -> RunSet]]
  BY <1>1, <1>2, <1>3
<1>5. run'[k][n] = r /\ \A j \in Call, m \in Name : ~(j = k /\ m = n) => run'[j][m] = run[j][m]
  BY <1>1, <1>2
<1>6. QED BY <1>4, <1>5

\* What a fenced write of the row n does to the table.
LEMMA OneRowOK ==
  ASSUME rows \in [Name -> DueRow], NEW n \in Name, NEW row \in DueRow, NEW new,
         new = [rows EXCEPT ![n] = row]
  PROVE  new \in [Name -> DueRow] /\ new[n] = row /\ \A m \in Name \ {n} : new[m] = rows[m]
OBVIOUS

LEMMA FencedOK ==
  ASSUME rows \in [Name -> DueRow], NEW n \in Name, NEW g, NEW new,
         \/ new = Stop(rows, n, g)
         \/ \E t \in 1 .. MaxTime : new = SetNext(rows, n, g, t)
         \/ \E o \in Outcome : new = RecordRun(rows, n, g, o) \/ new = Disable(rows, n, g, o)
  PROVE  /\ new \in [Name -> DueRow]
         /\ \A m \in Name \ {n} : new[m] = rows[m]
         /\ new[n].generation = rows[n].generation
         /\ new = rows \/ Matches(rows, n, g)
         /\ IsActive(new, n) => IsActive(rows, n)
<1> DEFINE old == rows[n]
<1>1. old \in DueRow
  OBVIOUS
<1>2. /\ [old EXCEPT !.ended = TRUE, !.next = None] \in DueRow
      /\ \A t \in 1 .. MaxTime : [old EXCEPT !.next = t] \in DueRow
      /\ \A o \in Outcome : /\ [old EXCEPT !.last = o] \in DueRow
                            /\ [old EXCEPT !.enabled = FALSE, !.last = o] \in DueRow
  BY <1>1 DEF DueRow, RowSet
<1>3. CASE new = rows
  BY <1>3
<1>4. CASE new # rows
  <2>1. Matches(rows, n, g)
    BY <1>4 DEF Stop, SetNext, RecordRun, Disable, MatchesEnabled
  <2>2. \E row \in DueRow : row.generation = old.generation /\ new = [rows EXCEPT ![n] = row]
    <3>1. CASE new = Stop(rows, n, g)
      <4>1. new = [rows EXCEPT ![n] = [old EXCEPT !.ended = TRUE, !.next = None]]
        BY <1>4, <3>1 DEF Stop
      <4>2. QED BY <1>1, <1>2, <4>1 DEF DueRow, RowSet
    <3>2. ASSUME NEW t \in 1 .. MaxTime, new = SetNext(rows, n, g, t)
          PROVE  \E row \in DueRow : row.generation = old.generation /\ new = [rows EXCEPT ![n] = row]
      <4>1. new = [rows EXCEPT ![n] = [old EXCEPT !.next = t]]
        BY <1>4, <3>2 DEF SetNext
      <4>2. QED BY <1>1, <1>2, <4>1 DEF DueRow, RowSet
    <3>3. ASSUME NEW o \in Outcome, new = RecordRun(rows, n, g, o) \/ new = Disable(rows, n, g, o)
          PROVE  \E row \in DueRow : row.generation = old.generation /\ new = [rows EXCEPT ![n] = row]
      <4>1. \/ new = [rows EXCEPT ![n] = [old EXCEPT !.last = o]]
            \/ new = [rows EXCEPT ![n] = [old EXCEPT !.enabled = FALSE, !.last = o]]
        BY <1>4, <3>3 DEF RecordRun, Disable
      <4>2. QED BY <1>1, <1>2, <4>1 DEF DueRow, RowSet
    <3>4. QED BY <3>1, <3>2, <3>3
  <2>3. PICK row \in DueRow : row.generation = old.generation /\ new = [rows EXCEPT ![n] = row]
    BY <2>2
  <2>4. new \in [Name -> DueRow] /\ new[n] = row /\ \A m \in Name \ {n} : new[m] = rows[m]
    BY <2>3, OneRowOK
  <2>5. QED BY <2>1, <2>3, <2>4 DEF Matches
<1>5. QED BY <1>3, <1>4

-----------------------------------------------------------------------------
(* Steps that list nothing                                                 *)

\* Whoever writes the row moves it beyond all that was started.
NextIsBeyond(n) ==
  /\ rows'[n].next # None
  /\ \A j \in Call : Started(j, n) => run[j][n].occurrence < rows'[n].next

LastIsBeyond(n) ==
  /\ rows'[n].last # None
  /\ \A j \in Call : Started(j, n) /\ run[j][n].next = None =>
       Exhausted(n, run[j][n], rows'[n].last.at)

RowGoesOn(n) ==
  /\ rows[n].generation <= rows'[n].generation
  /\ IsActive(rows', n) => IsActive(rows, n) /\ rows'[n].next # None
  /\ IsActive(rows', n) /\ rows'[n].generation = rows[n].generation =>
       /\ rows'[n].next = rows[n].next \/ (~overlapped => NextIsBeyond(n))
       /\ rows'[n].last = rows[n].last \/ (~overlapped => LastIsBeyond(n))

RunGoesOn(k, n) ==
  LET r == run[k][n]
      s == run'[k][n]
  IN  /\ ~Started(k, n) => s = NoRun
      /\ Started(k, n) =>
           /\ s # NoRun /\ s.generation = r.generation /\ s.occurrence = r.occurrence
           /\ s.next = r.next /\ s.advance = r.advance
           /\ s.recorded => r.recorded \/
                /\ Live(k, n)
                /\ ~overlapped /\ IsActive(rows', n) /\ rows'[n].generation = r.generation =>
                     LastIsBeyond(n)
           /\ s.state \notin {"none", "done", "lost"} => Live(k, n)
           /\ s.state = "stamped" =>
                (r.state = "stamped" /\ s.at = r.at) \/ (s.at = now /\ now' = now)

LateIsBeyond(k) ==
  late'[k][3] # None =>
    \A j \in Call : Started(j, late'[k][1]) => run[j][late'[k][1]].occurrence < late'[k][3]

CallGoesOn(k) ==
  /\ call[k].at = "new" => call'[k] = call[k]
  /\ call'[k].at = "new" => call[k].at = "new"
  /\ call'[k].at \notin {"new", "ended"} => Alive(k)
  /\ call'[k].at = "ended" => call'[k].todo = {}
  /\ call'[k].todo \subseteq call[k].todo
  /\ call'[k].at \in {"launching", "claimed"} =>
       \/ Going(k) /\ call'[k].clock = call[k].clock
       \/ call'[k].clock = now' /\ \A e \in call'[k].todo : e.row.next <= now'
  /\ call'[k].at = "claimed" => call'[k].todo # {} /\ ~ConsumedLast(First(k))'
  /\ \/ late'[k] = late[k] \/ late'[k] = NoWrite
     \/ Alive(k) /\ call'[k].at = "ended" /\ (~overlapped => LateIsBeyond(k))

\* Call k starts its claimed row, and what it stored was its next run.
RunStarts(k, n) ==
  LET e == First(k)
      s == run'[k][n]
  IN  /\ At(k, "claimed") /\ call'[k].at = "launching" /\ e.name = n
      /\ s # NoRun /\ s.generation = e.row.generation /\ s.occurrence = e.row.next
      /\ s.next = NextRun(n, call[k].clock)
      /\ s.advance # "no" /\ (s.advance = "yes" => s.next # None /\ rows'[n].next = s.next)
      /\ s.state = "running" /\ ~s.recorded

Onward ==
  /\ \A n \in Name : RowGoesOn(n)
  /\ \A k \in Call, n \in Name : RunGoesOn(k, n) \/ RunStarts(k, n)
  /\ \A k \in Call : CallGoesOn(k)
  /\ now <= now' /\ overlapped' = overlapped

\* A call that goes on with its first row finds one there, of some name.
LEMMA FirstListed ==
  ASSUME OInv, NEW k \in Call, Going(k), call[k].todo # {}
  PROVE  First(k) \in call[k].todo /\ First(k).name \in Name /\ First(k).row \in DueRow
<1>1. call[k].todo \subseteq Listed
  BY DEF OInv, TypeOK
<1>2. First(k) \in call[k].todo
  BY <1>1, FirstOK
<1>3. QED BY <1>1, <1>2 DEF Listed

LEMMA OneGoesOnKept ==
  ASSUME OInv, Onward, OneGoesOn
  PROVE  OneGoesOn'
<1>1. ASSUME NEW j \in Call, Quiet(j), ~At(j, "new")
      PROVE  Quiet(j)' /\ ~At(j, "new")'
  <2>1. CallGoesOn(j) /\ \A n \in Name : RunGoesOn(j, n)
    BY <1>1 DEF Onward, RunStarts, Quiet, Alive, At
  <2>2. ~Alive(j)' /\ late'[j] = NoWrite /\ ~At(j, "new")'
    BY <1>1, <2>1 DEF CallGoesOn, Quiet, Alive, At
  <2>3. \A n \in Name : Over(j, n)'
    BY <1>1, <2>1 DEF RunGoesOn, Quiet, Started, Live, Over, NoRun
  <2>4. QED BY <2>2, <2>3 DEF Quiet
<1>2. \A k \in Call : ~At(k, "new")' => ~At(k, "new")
  BY DEF Onward, CallGoesOn, At
<1>3. QED BY <1>1, <1>2 DEF OneGoesOn

\* Under OneGoesOn only the last call has a run that goes on, or lists anything.
LEMMA LastCall ==
  ASSUME TypeOK, Futile, OneGoesOn, NEW j \in Call, NEW k \in Call, j # k
  PROVE  /\ (\E n \in Name : Live(j, n)) /\ call[k].todo # {} => FALSE
         /\ \A n \in Name : Live(j, n) /\ Started(k, n) => k < j
         /\ \A n, m \in Name : ~(Live(j, n) /\ Live(k, m))
         /\ \A n \in Name : ~(Live(j, n) /\ Alive(k))
         /\ ~(Alive(j) /\ Alive(k)) /\ ~(Alive(j) /\ late[k] # NoWrite)
<1>1. j < k \/ k < j
  BY DueAssumption DEF Call
<1>2. \A i \in Call, n \in Name : Live(i, n) => ~At(i, "new") /\ ~Quiet(i)
  BY RunFields DEF Futile, Live, Over, Quiet
<1>3. \A i \in Call, n \in Name : Started(i, n) => ~At(i, "new")
  BY DEF Futile, Started
<1>4. \A i \in Call : /\ call[i].todo # {} => Alive(i)
                      /\ Alive(i) => ~At(i, "new") /\ ~Quiet(i)
                      /\ late[i] # NoWrite => ~At(i, "new") /\ ~Quiet(i)
  BY DEF Futile, Alive, At, Quiet
<1>5. \A i \in Call, l \in Call : i < l /\ ~At(l, "new") => Quiet(i)
  BY DEF OneGoesOn
<1>6. ~(~Quiet(j) /\ ~At(j, "new") /\ ~Quiet(k) /\ ~At(k, "new"))
  BY <1>1, <1>5
<1>7. \A n \in Name : Live(j, n) /\ Started(k, n) => k < j
  BY <1>1, <1>2, <1>3, <1>5
<1>8. QED BY <1>2, <1>4, <1>6, <1>7

LEMMA FutileKept ==
  ASSUME OInv, TypeOK', Onward
  PROVE  Futile'
<1> SUFFICES ASSUME NEW k \in Call
             PROVE  /\ call'[k].at = "new" =>
                         late'[k] = NoWrite /\ \A n \in Name : run'[k][n] = NoRun
                    /\ call'[k].at \notin {"new", "ended"} => late'[k] = NoWrite
                    /\ call'[k].at \in {"new", "ended"} => call'[k].todo = {}
  BY DEF Futile, At, Alive
<1>1. CallGoesOn(k) /\ \A n \in Name : RunGoesOn(k, n) \/ RunStarts(k, n)
  BY DEF Onward
<1>2. /\ call[k].at = "new" => late[k] = NoWrite /\ \A n \in Name : run[k][n] = NoRun
      /\ Alive(k) => late[k] = NoWrite
      /\ ~Alive(k) => call[k].todo = {}
  BY DEF OInv, Futile, At
<1>3. CASE call'[k].at = "new"
  <2>1. call[k].at = "new" /\ call'[k] = call[k] /\ ~Alive(k)
    BY <1>1, <1>3 DEF CallGoesOn, Alive
  <2>2. late'[k] = NoWrite
    BY <1>1, <1>2, <2>1 DEF CallGoesOn
  <2>3. \A n \in Name : RunGoesOn(k, n)
    BY <1>1, <2>1 DEF RunStarts, At
  <2>4. \A n \in Name : run'[k][n] = NoRun
    BY <1>2, <2>1, <2>3 DEF RunGoesOn, Started
  <2>5. QED BY <1>2, <1>3, <2>1, <2>2, <2>4
<1>4. CASE call'[k].at # "new"
  BY <1>1, <1>2, <1>4 DEF CallGoesOn
<1>5. QED BY <1>3, <1>4

LEMMA BehindKept ==
  ASSUME OInv, TypeOK', Onward
  PROVE  Behind' /\ ActiveHasNext'
<1>1. ActiveHasNext'
  BY DEF Onward, RowGoesOn, ActiveHasNext, IsActive
<1>2. ASSUME NEW k \in Call
      PROVE  /\ Going(k)' => call'[k].clock <= now'
             /\ \A e \in call'[k].todo :
                  /\ e.row.generation <= rows'[e.name].generation
                  /\ e.row.next # None
                  /\ Going(k)' => e.row.next <= call'[k].clock
             /\ At(k, "claimed")' => call'[k].todo # {} /\ ~ConsumedLast(First(k))'
  <2>1. CallGoesOn(k) /\ now <= now' /\ \A n \in Name : RowGoesOn(n)
    BY DEF Onward
  <2>2. now \in Nat /\ now' \in Nat /\ call[k].clock \in Nat
    BY DueAssumption DEF OInv, TypeOK, Instant
  <2>3. Going(k)' => call'[k].clock <= now'
    <3>1. CASE Going(k) /\ call'[k].clock = call[k].clock
      <4>1. call[k].clock <= now
        BY <3>1 DEF OInv, Behind
      <4>2. QED BY <2>1, <2>2, <3>1, <4>1
    <3>2. CASE call'[k].clock = now'
      BY <2>2, <3>2
    <3>3. QED BY <2>1, <3>1, <3>2 DEF CallGoesOn, Going
  <2>4. ASSUME NEW e \in call'[k].todo
        PROVE  /\ e.row.generation <= rows'[e.name].generation
               /\ e.row.next # None
               /\ Going(k)' => e.row.next <= call'[k].clock
    <3>1. e \in call[k].todo
      BY <2>1 DEF CallGoesOn
    <3>2. e \in Listed
      BY <3>1 DEF OInv, TypeOK
    <3>3. e.name \in Name /\ e.row \in DueRow
      BY <3>2 DEF Listed
    <3>4. e.row.generation <= rows'[e.name].generation
      <4>1. e.row.generation <= rows[e.name].generation
        BY <3>1 DEF OInv, Behind
      <4>2. rows[e.name].generation <= rows'[e.name].generation
        BY <2>1, <3>3 DEF RowGoesOn
      <4>3. rows[e.name] \in DueRow /\ rows'[e.name] \in DueRow
        BY <3>3 DEF OInv, TypeOK
      <4>4. /\ e.row.generation \in Nat /\ rows[e.name].generation \in Nat
            /\ rows'[e.name].generation \in Nat
        BY <3>3, <4>3, RowFields, GenerationAssumption DEF Generation
      <4>5. QED BY <4>1, <4>2, <4>4
    <3>5. Going(k)' => e.row.next <= call'[k].clock
      <4>1. CASE Going(k) /\ call'[k].clock = call[k].clock
        BY <3>1, <4>1 DEF OInv, Behind
      <4>2. QED BY <2>1, <4>1 DEF CallGoesOn, Going
    <3>6. QED BY <3>1, <3>4, <3>5 DEF OInv, Behind
  <2>5. At(k, "claimed")' => call'[k].todo # {} /\ ~ConsumedLast(First(k))'
    BY <2>1 DEF CallGoesOn, At
  <2>6. QED BY <2>3, <2>4, <2>5
<1>3. Behind'
  BY <1>2 DEF Behind
<1>4. QED BY <1>1, <1>3

\* What was started stays behind.
LEMMA BeyondKept ==
  ASSUME OInv, TypeOK', Onward, ~overlapped, NEW n \in Name, NEW j \in Call,
         Started(j, n)', RunGoesOn(j, n)
  PROVE  Beyond(n, j)'
<1> DEFINE r == run[j][n]
           s == run'[j][n]
<1>1. /\ Started(j, n) /\ s # NoRun
      /\ s.generation = r.generation /\ s.occurrence = r.occurrence
      /\ s.next = r.next /\ s.advance = r.advance
      /\ s.recorded => r.recorded \/
           /\ Live(j, n)
           /\ IsActive(rows', n) /\ rows'[n].generation = r.generation => LastIsBeyond(n)
  BY DEF RunGoesOn, Started
<1>2. Beyond(n, j) /\ OneGoesOn /\ TypeOK /\ Futile
  BY <1>1 DEF OInv
<1>3. /\ r \in Run /\ s \in Run
      /\ r.occurrence \in Nat /\ r.generation \in Nat /\ now \in Nat /\ now' \in Nat
      /\ now \in Instant /\ now' \in Instant /\ now <= now'
      /\ rows[n] \in DueRow /\ rows'[n] \in DueRow
      /\ rows[n].generation \in Nat /\ rows'[n].generation \in Nat
  <2>1. r \in Run /\ s \in Run
    BY <1>1, <1>2 DEF TypeOK, Started
  <2>2. r.occurrence \in Nat /\ r.generation \in Nat
    <3>1. r.occurrence \in 1 .. MaxTime /\ r.generation \in Generation
      BY <2>1, RunFields
    <3>2. r.occurrence \in Nat
      BY <3>1, DueAssumption
    <3>3. r.generation \in Nat
      BY <3>1, GenerationAssumption DEF Generation
    <3>4. QED BY <3>2, <3>3
  <2>3. rows[n] \in DueRow /\ rows'[n] \in DueRow
    BY <1>2 DEF TypeOK
  <2>4. rows[n].generation \in Nat /\ rows'[n].generation \in Nat
    BY <2>3, RowFields, GenerationAssumption DEF Generation
  <2>5. now \in Instant /\ now' \in Instant /\ now \in Nat /\ now' \in Nat
    BY <1>2, DueAssumption DEF TypeOK, Instant
  <2>6. QED BY <2>1, <2>2, <2>3, <2>4, <2>5 DEF Onward
<1>4. /\ r.occurrence <= now /\ r.advance # "no" /\ (r.next = None => NextRun(n, now) = None)
      /\ RowIsBeyond(n, r)
      /\ \A k \in Call : CallIsBeyond(n, r, k)
      /\ \A k \in Call \ {j} : ListedIsBeyond(n, r, k)
      /\ \A k \in Call : /\ j < k /\ Started(k, n)
                         /\ run[k][n].generation = r.generation
                         /\ run[k][n].occurrence = r.occurrence
                         => MayRunAgain(r)
  BY <1>2 DEF Beyond
<1> HIDE DEF r, s
<1>5. s.occurrence <= now' /\ s.advance # "no" /\ (s.next = None => NextRun(n, now') = None)
  BY <1>1, <1>3, <1>4, NextRunGone
<1>6. /\ s.generation <= rows'[n].generation
      /\ IsActive(rows', n) /\ s.generation = rows'[n].generation =>
           /\ s.advance = "yes" => s.occurrence < rows'[n].next
           /\ s.next = None /\ s.recorded =>
                rows'[n].last # None /\ Exhausted(n, s, rows'[n].last.at)
  <2>1. RowGoesOn(n)
    BY DEF Onward
  <2>2. r.generation <= rows[n].generation
    BY <1>4 DEF RowIsBeyond
  <2>3. s.generation <= rows'[n].generation
    BY <1>1, <1>3, <2>1, <2>2 DEF RowGoesOn
  <2>4. ASSUME IsActive(rows', n), s.generation = rows'[n].generation
        PROVE  /\ s.advance = "yes" => s.occurrence < rows'[n].next
               /\ s.next = None /\ s.recorded =>
                    rows'[n].last # None /\ Exhausted(n, s, rows'[n].last.at)
    <3>1. r.generation = rows[n].generation /\ rows'[n].generation = rows[n].generation
      BY <1>1, <1>3, <2>1, <2>2, <2>4 DEF RowGoesOn
    <3>2. /\ IsActive(rows, n)
          /\ rows'[n].next = rows[n].next \/ NextIsBeyond(n)
          /\ rows'[n].last = rows[n].last \/ LastIsBeyond(n)
      BY <2>1, <2>4, <3>1 DEF RowGoesOn
    <3>3. /\ r.advance = "yes" => r.occurrence < rows[n].next
          /\ r.next = None /\ r.recorded =>
               rows[n].last # None /\ Exhausted(n, r, rows[n].last.at)
      BY <1>4, <3>1, <3>2 DEF RowIsBeyond
    <3>4. NextIsBeyond(n) => r.occurrence < rows'[n].next
      BY <1>1 DEF NextIsBeyond, r
    <3>5. LastIsBeyond(n) /\ r.next = None =>
            rows'[n].last # None /\ Exhausted(n, r, rows'[n].last.at)
      BY <1>1 DEF LastIsBeyond, r
    <3>6. s.advance = "yes" => s.occurrence < rows'[n].next
      BY <1>1, <3>2, <3>3, <3>4
    <3>7. s.next = None /\ s.recorded =>
            rows'[n].last # None /\ Exhausted(n, s, rows'[n].last.at)
      <4>1. rows'[n].generation = r.generation
        BY <3>1
      <4>2. ASSUME s.next = None, s.recorded
            PROVE  rows'[n].last # None /\ Exhausted(n, r, rows'[n].last.at)
        <5>1. CASE r.recorded
          BY <1>1, <3>2, <3>3, <3>5, <4>2, <5>1
        <5>2. CASE ~r.recorded
          BY <1>1, <2>4, <3>5, <4>1, <4>2, <5>2
        <5>3. QED BY <5>1, <5>2
      <4>3. QED BY <1>1, <4>2 DEF Exhausted
    <3>8. QED BY <3>6, <3>7
  <2>5. QED BY <2>3, <2>4
<1>7. ASSUME NEW k \in Call PROVE CallIsBeyond(n, run[j][n], k)'
  <2>1. CallIsBeyond(n, r, k) /\ CallGoesOn(k)
    BY <1>4 DEF Onward
  <2>1a. ASSUME RunStarts(k, n)
        PROVE  /\ run'[k][n].state = "running"
               /\ run'[k][n].next # None => r.occurrence < run'[k][n].next
    <3>1. /\ run'[k][n].state = "running" /\ run'[k][n].next = NextRun(n, call[k].clock)
          /\ Going(k)
      BY <2>1a DEF RunStarts, At, Going
    <3>2. r.occurrence <= call[k].clock
      BY <2>1, <3>1 DEF CallIsBeyond
    <3>3. call[k].clock \in Nat
      BY <1>2, DueAssumption DEF TypeOK, Instant
    <3>4. run'[k][n].next # None =>
            run'[k][n].next > call[k].clock /\ run'[k][n].next \in 1 .. MaxTime
      BY <3>1, NextRunOK
    <3>5. r.occurrence \in Nat /\ call[k].clock \in Nat
      BY <1>3, <3>3
    <3>6. ASSUME run'[k][n].next # None PROVE r.occurrence < run'[k][n].next
      <4>1. run'[k][n].next > call[k].clock /\ run'[k][n].next \in Nat
        BY <3>4, <3>6, DueAssumption
      <4>2. QED BY <3>2, <3>5, <4>1
    <3>7. QED BY <3>1, <3>6
  <2>2. Going(k)' => s.occurrence <= call'[k].clock
    <3>1. CASE Going(k) /\ call'[k].clock = call[k].clock
      BY <1>1, <2>1, <3>1 DEF CallIsBeyond
    <3>2. CASE call'[k].clock = now'
      BY <1>5, <3>2
    <3>3. QED BY <2>1, <3>1, <3>2 DEF CallGoesOn, Going
  <2>3. late'[k] # NoWrite =>
          (late'[k][1] = n /\ late'[k][3] # None => s.occurrence < late'[k][3])
    <3>1. CASE late'[k] = late[k]
      BY <1>1, <2>1, <3>1 DEF CallIsBeyond
    <3>2. CASE LateIsBeyond(k)
      <4>1. late'[k][1] = n /\ late'[k][3] # None => r.occurrence < late'[k][3]
        BY <1>1, <3>2 DEF LateIsBeyond, r
      <4>2. QED BY <1>1, <4>1
    <3>3. QED BY <2>1, <3>1, <3>2 DEF CallGoesOn
  <2>4. Live(k, n)' /\ run'[k][n].next # None => s.occurrence < run'[k][n].next
    <3>1. CASE RunStarts(k, n)
      BY <1>1, <2>1a, <3>1
    <3>2. CASE RunGoesOn(k, n)
      <4>1. ASSUME Live(k, n)' PROVE Live(k, n) /\ run'[k][n].next = run[k][n].next
        <5>1. run'[k][n] # NoRun
          BY <4>1, RunFields DEF Live, Over
        <5>2. QED BY <3>2, <4>1, <5>1 DEF RunGoesOn, Live, Over
      <4>2. QED BY <1>1, <2>1, <4>1 DEF CallIsBeyond
    <3>3. QED BY <3>1, <3>2 DEF Onward
  <2>5. run'[k][n].state = "stamped" /\ s.next = None => Exhausted(n, s, run'[k][n].at)
    <3>1. ASSUME run'[k][n].state = "stamped", s.next = None
          PROVE  Exhausted(n, r, run'[k][n].at)
      <4>1. run'[k][n] # NoRun /\ RunGoesOn(k, n)
        BY <2>1a, <3>1, RunFields DEF Onward
      <4>2. \/ run[k][n].state = "stamped" /\ run'[k][n].at = run[k][n].at
            \/ run'[k][n].at = now /\ now' = now
        BY <3>1, <4>1 DEF RunGoesOn
      <4>3. CASE run[k][n].state = "stamped" /\ run'[k][n].at = run[k][n].at
        BY <1>1, <2>1, <3>1, <4>3 DEF CallIsBeyond
      <4>4. CASE run'[k][n].at = now
        BY <1>1, <1>4, <3>1, <4>4 DEF Exhausted
      <4>5. QED BY <4>2, <4>3, <4>4
    <3>2. QED BY <1>1, <3>1 DEF Exhausted
  <2>6. QED BY <2>2, <2>3, <2>4, <2>5 DEF CallIsBeyond, r, s
<1>8. ASSUME MayRunAgain(r), Live(j, n) => ~s.recorded
      PROVE  MayRunAgain(s)
  BY <1>1, <1>8 DEF MayRunAgain
<1>9. ASSUME NEW k \in Call \ {j}, NEW e \in call'[k].todo,
             e.name = n, e.row.generation = s.generation, e.row.next = s.occurrence
      PROVE  MayRunAgain(s) \/ (s.advance # "yes" /\ ConsumedLast(e))
  <2>1. e \in call[k].todo
    BY DEF Onward, CallGoesOn
  <2>2. ~Live(j, n)
    BY <1>2, <2>1, LastCall
  <2>3. MayRunAgain(r) \/ (r.advance # "yes" /\ ConsumedLast(e))
    BY <1>1, <1>4, <1>9, <2>1 DEF ListedIsBeyond
  <2>4. QED BY <1>1, <1>8, <2>2, <2>3
<1>10. ASSUME NEW k \in Call, j < k, Started(k, n)', run'[k][n].generation = s.generation,
              run'[k][n].occurrence = s.occurrence
       PROVE  MayRunAgain(s)
  <2>1. j # k /\ ~(k < j)
    BY <1>10, DueAssumption DEF Call
  <2>2. CASE RunGoesOn(k, n)
    <3>1. /\ Started(k, n) /\ run'[k][n].generation = run[k][n].generation
          /\ run'[k][n].occurrence = run[k][n].occurrence
      BY <1>10, <2>2 DEF RunGoesOn, Started
    <3>2. ~Live(j, n)
      BY <1>2, <2>1, <3>1, LastCall
    <3>3. MayRunAgain(r)
      BY <1>1, <1>4, <1>10, <3>1
    <3>4. QED BY <1>8, <3>2, <3>3
  <2>3. CASE RunStarts(k, n)
    <3> DEFINE e == First(k)
    <3>1. /\ Going(k) /\ e.name = n /\ e.row.generation = r.generation
          /\ e.row.next = r.occurrence /\ call[k].todo # {} /\ ~ConsumedLast(e)
      BY <1>1, <1>10, <2>3 DEF RunStarts, At, Going, OInv, Behind
    <3>2. e \in call[k].todo
      BY <3>1, FirstListed
    <3>3. ~Live(j, n)
      BY <1>2, <2>1, <3>1, LastCall
    <3>4. ListedIsBeyond(n, r, k)
      BY <1>4, <2>1
    <3> HIDE DEF e
    <3>5. MayRunAgain(r)
      BY <3>1, <3>2, <3>4 DEF ListedIsBeyond
    <3>6. QED BY <1>8, <3>3, <3>5
  <2>4. QED BY <2>2, <2>3 DEF Onward
<1>11. RowIsBeyond(n, run[j][n])'
  BY <1>6 DEF RowIsBeyond, s, IsActive, Exhausted
<1>12. \A k \in Call \ {j} : ListedIsBeyond(n, run[j][n], k)'
  BY <1>9 DEF ListedIsBeyond, s
<1>13. QED BY <1>5, <1>7, <1>10, <1>11, <1>12 DEF Beyond, s

\* What is started now is behind as well: nothing else goes on.
LEMMA BeyondFromStart ==
  ASSUME OInv, TypeOK', Onward, ~overlapped, NEW n \in Name, NEW j \in Call, RunStarts(j, n)
  PROVE  Beyond(n, j)'
<1> DEFINE s == run'[j][n]
           e == First(j)
           t == call[j].clock
<1>1. /\ Going(j) /\ Alive(j) /\ call'[j].at = "launching" /\ e.name = n
      /\ s # NoRun /\ s.generation = e.row.generation /\ s.occurrence = e.row.next
      /\ s.next = NextRun(n, t)
      /\ s.advance # "no" /\ (s.advance = "yes" => s.next # None /\ rows'[n].next = s.next)
      /\ s.state = "running" /\ ~s.recorded
      /\ call[j].todo # {}
  BY DEF RunStarts, At, Going, Alive, OInv, Behind
<1>2. TypeOK /\ Futile /\ OneGoesOn /\ CallGoesOn(j)
  BY DEF OInv, Onward
<1>3. e \in call[j].todo /\ e.row \in DueRow
  BY <1>1, FirstListed
<1>4. /\ e.row.generation <= rows[n].generation /\ e.row.next # None /\ e.row.next <= t
      /\ t <= now /\ now <= now' /\ rows[n].generation <= rows'[n].generation
  BY <1>1, <1>3 DEF OInv, Behind, Onward, RowGoesOn
<1>5. /\ t \in Instant /\ now' \in Instant /\ t \in Nat /\ now \in Nat /\ now' \in Nat
      /\ e.row.next \in Nat /\ e.row.generation \in Nat
      /\ rows[n].generation \in Nat /\ rows'[n].generation \in Nat
  <2>1. t \in Instant /\ now \in Instant /\ now' \in Instant
    BY <1>2 DEF TypeOK
  <2>2. rows[n] \in DueRow /\ rows'[n] \in DueRow
    BY <1>2 DEF TypeOK
  <2>3. /\ e.row.generation \in Nat /\ rows[n].generation \in Nat
        /\ rows'[n].generation \in Nat
    BY <1>3, <2>2, RowFields, GenerationAssumption DEF Generation
  <2>4. e.row.next \in Nat
    BY <1>3, <1>4, RowFields, DueAssumption
  <2>5. QED BY <2>1, <2>3, <2>4, DueAssumption DEF Instant
<1> HIDE DEF s, e, t
<1>6. s.next # None => s.next \in Nat /\ s.next > t
  BY <1>1, NextRunOK, DueAssumption
<1>7. s.occurrence <= now' /\ (s.next = None => NextRun(n, now') = None)
  BY <1>1, <1>4, <1>5, NextRunGone
<1>8. s.next # None => s.occurrence < s.next
  BY <1>1, <1>4, <1>5, <1>6
<1>9. RowIsBeyond(n, run[j][n])'
  <2>1. s.generation <= rows'[n].generation
    BY <1>1, <1>4, <1>5
  <2>2. s.advance = "yes" => s.occurrence < rows'[n].next
    BY <1>1, <1>8
  <2>3. QED BY <1>1, <2>1, <2>2 DEF RowIsBeyond, s
<1>10. ASSUME NEW i \in Call, i # j
       PROVE  /\ call'[i].at \notin {"launching", "claimed"} /\ late'[i] = NoWrite
              /\ call'[i].todo = {}
              /\ run'[i][n].state \in {"none", "done", "lost"}
              /\ Started(i, n)' => i < j
  <2>1. /\ ~Alive(i) /\ late[i] = NoWrite /\ call[i].todo = {} /\ ~Live(i, n)
        /\ Started(i, n) => i < j
    <3>1. ~Alive(i) /\ late[i] = NoWrite /\ ~Live(i, n)
      BY <1>1, <1>2, <1>10, LastCall
    <3>2. Started(i, n) => ~At(i, "new")
      BY <1>2 DEF Futile, Started
    <3>3. Started(i, n) => ~(j < i)
      BY <1>1, <1>2, <3>2 DEF OneGoesOn, Quiet
    <3>4. QED BY <1>2, <1>10, <3>1, <3>3, DueAssumption DEF Futile, Call
  <2>2. CallGoesOn(i) /\ RunGoesOn(i, n)
    BY <2>1 DEF Onward, RunStarts, Alive, At
  <2>3. call'[i].at \notin {"launching", "claimed"} /\ late'[i] = NoWrite /\ call'[i].todo = {}
    BY <2>1, <2>2 DEF CallGoesOn
  <2>4. run'[i][n].state \in {"none", "done", "lost"}
    BY <2>1, <2>2, RunFields DEF RunGoesOn
  <2>5. QED BY <2>1, <2>2, <2>3, <2>4 DEF RunGoesOn, Started
<1>11. ASSUME NEW i \in Call PROVE CallIsBeyond(n, run[j][n], i)'
  <2>1. CASE i # j
    BY <1>10, <2>1 DEF CallIsBeyond, Going, Live, Over
  <2>2. CASE i = j
    <3>1. s.occurrence <= call'[j].clock
      BY <1>1, <1>2, <1>4, <1>7 DEF CallGoesOn, t
    <3>2. late'[j] = NoWrite
      BY <1>1, <1>2 DEF CallGoesOn, Futile
    <3>3. QED BY <1>1, <1>8, <2>2, <3>1, <3>2 DEF CallIsBeyond, s
  <2>3. QED BY <2>1, <2>2
<1>12. \A i \in Call \ {j} : ListedIsBeyond(n, run[j][n], i)'
  BY <1>10 DEF ListedIsBeyond
<1>13. \A i \in Call : j < i => ~Started(i, n)'
  BY <1>10, DueAssumption DEF Call
<1>14. s.advance # "no"
  BY <1>1
<1>15. QED BY <1>7, <1>9, <1>11, <1>12, <1>13, <1>14 DEF Beyond, s

LEMMA OnwardKeeps ==
  ASSUME OInv, TypeOK', Onward
  PROVE  OInv'
<1>1. Futile' /\ Behind' /\ ActiveHasNext'
  BY FutileKept, BehindKept
<1>2. ASSUME ~overlapped'
      PROVE  OneGoesOn' /\ \A n \in Name, j \in Call : Started(j, n)' => Beyond(n, j)'
  <2>1. ~overlapped /\ OneGoesOn
    BY <1>2 DEF Onward, OInv
  <2>2. ASSUME NEW n \in Name, NEW j \in Call, Started(j, n)' PROVE Beyond(n, j)'
    <3>1. CASE RunGoesOn(j, n)
      BY <2>1, <2>2, <3>1, BeyondKept
    <3>2. CASE RunStarts(j, n)
      BY <2>1, <3>2, BeyondFromStart
    <3>3. QED BY <3>1, <3>2 DEF Onward
  <2>3. QED BY <2>1, <2>2, OneGoesOnKept
<1>3. QED BY <1>1, <1>2 DEF OInv

-----------------------------------------------------------------------------
(* The parts of a step                                                     *)

LEMMA TypesFrom ==
  ASSUME rows' \in [Name -> DueRow], now' \in Instant, call' \in [Call -> FutureSet],
         run' \in [Call -> [Name -> RunSet]], late' \in [Call -> Write], names' \subseteq Monty,
         overlapped' \in BOOLEAN, spent' \in 0 .. MaxEvents
  PROVE  TypeOK'
BY DEF TypeOK, FutureSet, RunSet

LEMMA TypesNow ==
  ASSUME TypeOK
  PROVE  /\ rows \in [Name -> DueRow] /\ now \in Instant /\ call \in [Call -> FutureSet]
         /\ run \in [Call -> [Name -> RunSet]] /\ late \in [Call -> Write] /\ names \subseteq Monty
         /\ overlapped \in BOOLEAN /\ spent \in 0 .. MaxEvents
BY DEF TypeOK, FutureSet, RunSet

LEMMA SpentOK ==
  ASSUME TypeOK, Event \/ UNCHANGED spent
  PROVE  spent' \in 0 .. MaxEvents
<1>1. CASE UNCHANGED spent
  BY <1>1 DEF TypeOK
<1>2. CASE Event
  <2>1. spent \in Nat /\ spent < MaxEvents /\ spent' = spent + 1 /\ MaxEvents \in Nat
    BY <1>2, DueAssumption DEF TypeOK, Event
  <2>2. QED BY <2>1
<1>3. QED BY <1>1, <1>2

LEMMA NamesOK ==
  ASSUME TypeOK, NEW n
  PROVE  Unmarked(n) \subseteq Monty /\ Marks(n) \subseteq Monty
BY DEF TypeOK, Unmarked, Marks

LEMMA RowsStay ==
  ASSUME OInv, UNCHANGED rows
  PROVE  \A n \in Name : RowGoesOn(n)
<1>1. ASSUME NEW n \in Name PROVE RowGoesOn(n)
  <2>1. rows[n] \in DueRow
    BY DEF OInv, TypeOK
  <2>2. rows[n].generation \in Nat
    BY <2>1, RowFields, GenerationAssumption DEF Generation
  <2>3. IsActive(rows, n) => rows[n].next # None
    BY DEF OInv, ActiveHasNext
  <2>4. QED BY <2>2, <2>3 DEF RowGoesOn
<1>2. QED BY <1>1

LEMMA RunsStay ==
  ASSUME UNCHANGED run
  PROVE  \A k \in Call, n \in Name : RunGoesOn(k, n)
<1>1. ASSUME NEW k \in Call, NEW n \in Name PROVE RunGoesOn(k, n)
  <2>1. run'[k][n] = run[k][n]
    OBVIOUS
  <2>2. run[k][n].state \notin {"none", "done", "lost"} => Live(k, n)
    BY DEF Live, Over
  <2>3. CASE run[k][n] = NoRun
    BY <2>1, <2>3 DEF RunGoesOn, Started
  <2>4. CASE run[k][n] # NoRun
    BY <2>1, <2>2, <2>4 DEF RunGoesOn, Started
  <2>5. QED BY <2>3, <2>4
<1>2. QED BY <1>1

\* A call that goes on where it was.
LEMMA CallStays ==
  ASSUME OInv, NEW k \in Call, call'[k] = call[k], late'[k] = late[k] \/ late'[k] = NoWrite
  PROVE  CallGoesOn(k)
<1>1. First(k)' = First(k)
  BY DEF First
<1>2. /\ At(k, "claimed") => call[k].todo # {} /\ ~ConsumedLast(First(k))
      /\ ~Alive(k) => call[k].todo = {}
  BY DEF OInv, Behind, Futile
<1>3. call'[k].at = "claimed" => call'[k].todo # {} /\ ~ConsumedLast(First(k))'
  BY <1>1, <1>2 DEF At
<1>4. QED BY <1>2, <1>3 DEF CallGoesOn, Alive, Going

LEMMA CallsStay ==
  ASSUME OInv, UNCHANGED call, \A k \in Call : late'[k] = late[k] \/ late'[k] = NoWrite
  PROVE  \A k \in Call : CallGoesOn(k)
BY CallStays

\* A call that moves.
LEMMA CallMovesOn ==
  ASSUME OInv, NEW k \in Call, Alive(k), NEW where \in Where \ {"new"},
         NEW todo \in SUBSET call[k].todo, NEW clock \in Instant,
         call' = [call EXCEPT ![k] = Future(where, todo, clock)],
         UNCHANGED late,
         where = "ended" => todo = {},
         where \in {"launching", "claimed"} =>
           \/ Going(k) /\ clock = call[k].clock
           \/ clock = now' /\ \A e \in todo : e.row.next <= now',
         where = "claimed" => todo # {} /\ ~ConsumedLast(First(k))'
  PROVE  call' \in [Call -> FutureSet] /\ \A j \in Call : CallGoesOn(j)
<1>1. todo \in SUBSET Listed
  BY DEF OInv, TypeOK
<1>2. /\ call' \in [Call -> FutureSet]
      /\ call'[k].at = where /\ call'[k].todo = todo /\ call'[k].clock = clock
      /\ \A j \in Call \ {k} : call'[j] = call[j]
  BY <1>1, CallMoves DEF OInv
<1>3. CallGoesOn(k)
  BY <1>2 DEF CallGoesOn, Alive
<1>4. \A j \in Call \ {k} : CallGoesOn(j)
  BY <1>2, CallStays
<1>5. QED BY <1>2, <1>3, <1>4

\* A run that changes.
LEMMA RunMovesOn ==
  ASSUME OInv, NEW k \in Call, NEW n \in Name, Started(k, n), NEW s \in Run,
         run' = [run EXCEPT ![k][n] = s],
         s.generation = run[k][n].generation, s.occurrence = run[k][n].occurrence,
         s.next = run[k][n].next, s.advance = run[k][n].advance,
         s.recorded => run[k][n].recorded \/
           /\ Live(k, n)
           /\ ~overlapped /\ IsActive(rows', n) /\ rows'[n].generation = run[k][n].generation =>
                LastIsBeyond(n),
         s.state \notin {"none", "done", "lost"} => Live(k, n),
         s.state = "stamped" =>
           (run[k][n].state = "stamped" /\ s.at = run[k][n].at) \/ (s.at = now /\ now' = now)
  PROVE  /\ run' \in [Call -> [Name -> RunSet]]
         /\ \A j \in Call, m \in Name : RunGoesOn(j, m)
<1>1. /\ run' \in [Call -> [Name -> RunSet]] /\ run'[k][n] = s
      /\ \A j \in Call, m \in Name : ~(j = k /\ m = n) => run'[j][m] = run[j][m]
  <2>1. s \in RunSet
    BY DEF RunSet
  <2>2. TypeOK
    BY DEF OInv
  <2>3. QED BY <2>1, <2>2, RunChanges
<1>2. RunGoesOn(k, n)
  <2>1. s # NoRun
    BY RunFields
  <2>2. QED BY <1>1, <2>1 DEF RunGoesOn
<1>3. ASSUME NEW j \in Call, NEW m \in Name, ~(j = k /\ m = n) PROVE RunGoesOn(j, m)
  <2>1. run'[j][m] = run[j][m]
    BY <1>1, <1>3
  <2>2. run[j][m].state \notin {"none", "done", "lost"} => Live(j, m)
    BY DEF Live, Over
  <2>3. QED BY <2>1, <2>2 DEF RunGoesOn, Started
<1>4. QED BY <1>1, <1>2, <1>3

\* A write of the table.
LEMMA RowsMoveOn ==
  ASSUME OInv, NEW n \in Name, NEW g,
         \/ UNCHANGED rows
         \/ rows' = Stop(rows, n, g)
         \/ \E t \in 1 .. MaxTime :
              /\ rows' = SetNext(rows, n, g, t)
              /\ ~overlapped => \A j \in Call : Started(j, n) => run[j][n].occurrence < t
         \/ \E o \in Outcome :
              /\ rows' = RecordRun(rows, n, g, o) \/ rows' = Disable(rows, n, g, o)
              /\ ~overlapped => \A j \in Call : Started(j, n) /\ run[j][n].next = None =>
                                  Exhausted(n, run[j][n], o.at)
  PROVE  rows' \in [Name -> DueRow] /\ \A m \in Name : RowGoesOn(m)
<1>1. rows \in [Name -> DueRow]
  BY DEF OInv, TypeOK
<1>2. CASE UNCHANGED rows
  BY <1>1, <1>2, RowsStay
<1>3. CASE ~UNCHANGED rows
  <2>1. /\ rows' \in [Name -> DueRow]
        /\ \A m \in Name \ {n} : rows'[m] = rows[m]
        /\ rows'[n].generation = rows[n].generation
        /\ Matches(rows, n, g)
        /\ IsActive(rows', n) => IsActive(rows, n)
    BY <1>1, <1>3, FencedOK
  <2>2. ASSUME NEW m \in Name PROVE rows[m].generation \in Nat
    <3>1. rows[m] \in DueRow
      BY <1>1
    <3>2. QED BY <3>1, RowFields, GenerationAssumption DEF Generation
  <2>3. \A m \in Name : IsActive(rows, m) => rows[m].next # None
    BY DEF OInv, ActiveHasNext
  <2>4. ASSUME NEW m \in Name \ {n} PROVE RowGoesOn(m)
    <3>1. rows'[m] = rows[m]
      BY <2>1
    <3>2. QED BY <2>2, <2>3, <3>1 DEF RowGoesOn, IsActive
  <2>5. RowGoesOn(n)
    <3>1. CASE rows' = Stop(rows, n, g)
      <4>1. rows'[n].ended
        <5>1. rows[n] \in DueRow
          BY <1>1
        <5>2. rows' = [rows EXCEPT ![n] = [rows[n] EXCEPT !.ended = TRUE, !.next = None]]
          BY <2>1, <3>1 DEF Stop
        <5>3. rows'[n] = [rows[n] EXCEPT !.ended = TRUE, !.next = None]
          BY <1>1, <5>2
        <5>4. QED BY <5>1, <5>3 DEF DueRow, RowSet
      <4>2. QED BY <2>1, <2>2, <4>1 DEF RowGoesOn, IsActive
    <3>2. ASSUME NEW t \in 1 .. MaxTime, rows' = SetNext(rows, n, g, t),
                 ~overlapped => \A j \in Call : Started(j, n) => run[j][n].occurrence < t
          PROVE  RowGoesOn(n)
      <4>1. rows'[n].next = t /\ rows'[n].last = rows[n].last
        <5>1. rows[n] \in DueRow
          BY <1>1
        <5>2. rows' = [rows EXCEPT ![n] = [rows[n] EXCEPT !.next = t]]
          BY <1>3, <3>2 DEF SetNext
        <5>3. rows'[n] = [rows[n] EXCEPT !.next = t]
          BY <1>1, <5>2
        <5>4. QED BY <5>1, <5>3 DEF DueRow, RowSet
      <4>2. t # None
        BY NullAssumption
      <4>3. ~overlapped => NextIsBeyond(n)
        BY <3>2, <4>1, <4>2 DEF NextIsBeyond
      <4>4. QED BY <2>1, <2>2, <4>1, <4>2, <4>3 DEF RowGoesOn
    <3>3. ASSUME NEW o \in Outcome,
                 rows' = RecordRun(rows, n, g, o) \/ rows' = Disable(rows, n, g, o),
                 ~overlapped => \A j \in Call : Started(j, n) /\ run[j][n].next = None =>
                                  Exhausted(n, run[j][n], o.at)
          PROVE  RowGoesOn(n)
      <4>1. rows'[n].next = rows[n].next /\ rows'[n].last = o
        <5>1. rows[n] \in DueRow
          BY <1>1
        <5>2. \/ rows' = [rows EXCEPT ![n] = [rows[n] EXCEPT !.last = o]]
              \/ rows' = [rows EXCEPT ![n] = [rows[n] EXCEPT !.enabled = FALSE, !.last = o]]
          BY <1>3, <3>3 DEF RecordRun, Disable
        <5>3. \/ rows'[n] = [rows[n] EXCEPT !.last = o]
              \/ rows'[n] = [rows[n] EXCEPT !.enabled = FALSE, !.last = o]
          BY <1>1, <5>2
        <5>4. QED BY <5>1, <5>3 DEF DueRow, RowSet
      <4>2. o # None
        BY NullAssumption
      <4>3. ~overlapped => LastIsBeyond(n)
        BY <3>3, <4>1, <4>2 DEF LastIsBeyond
      <4>4. QED BY <2>1, <2>2, <2>3, <4>1, <4>3 DEF RowGoesOn
    <3>4. QED BY <1>3, <3>1, <3>2, <3>3
  <2>6. QED BY <2>1, <2>4, <2>5
<1>4. QED BY <1>2, <1>3

-----------------------------------------------------------------------------
(* The steps one by one                                                    *)

LEMMA PassesOn ==
  ASSUME OInv, NEW k \in Call, Going(k), Passes(k), UNCHANGED late
  PROVE  call' \in [Call -> FutureSet] /\ \A j \in Call : CallGoesOn(j)
<1> DEFINE todo == call[k].todo \ {First(k)}
<1>1. call' = [call EXCEPT ![k] = Future("launching", todo, call[k].clock)]
  BY DEF Passes
<1>2. todo \in SUBSET call[k].todo /\ "launching" \in Where \ {"new"} /\ Alive(k)
  BY DEF Where, Going, Alive
<1>3. call[k].clock \in Instant
  BY DEF OInv, TypeOK
<1> HIDE DEF todo
<1>4. QED BY <1>1, <1>2, <1>3, CallMovesOn

LEMMA ReadClockGoesOn ==
  ASSUME OInv, NEW k \in Call, ReadClock(k)
  PROVE  TypeOK' /\ Onward
<1> DEFINE due == {r \in call[k].todo : Due(r, now)}
<1>1. /\ call' = [call EXCEPT ![k] = Future("launching", due, now)] /\ Alive(k)
      /\ UNCHANGED rows /\ UNCHANGED now /\ UNCHANGED run /\ UNCHANGED late
      /\ UNCHANGED names /\ UNCHANGED overlapped /\ UNCHANGED spent
  BY DEF ReadClock, At, Alive
<1>2. due \in SUBSET call[k].todo /\ "launching" \in Where \ {"new"}
  BY DEF Where
<1>3. \A e \in due : e.row.next <= now'
  BY <1>1 DEF Due
<1>4. TypeOK
  BY DEF OInv
<1> HIDE DEF due
<1>5. call' \in [Call -> FutureSet] /\ \A j \in Call : CallGoesOn(j)
  BY <1>1, <1>2, <1>3, <1>4, TypesNow, CallMovesOn
<1>6. TypeOK'
  BY <1>1, <1>4, <1>5, TypesNow, TypesFrom
<1>7. now \in Nat
  BY <1>4, DueAssumption DEF TypeOK, Instant
<1>8. Onward
  BY <1>1, <1>5, <1>7, RowsStay, RunsStay DEF Onward
<1>9. QED BY <1>6, <1>8

LEMMA EndFinalGoesOn ==
  ASSUME OInv, NEW k \in Call, EndFinal(k)
  PROVE  TypeOK' /\ Onward
<1> DEFINE n == First(k).name
           g == First(k).row.generation
<1>1. /\ Launching(k) /\ Passes(k) /\ Going(k) /\ call[k].todo # {}
      /\ rows' = Stop(rows, n, g) \/ UNCHANGED rows
      /\ Event \/ UNCHANGED spent
      /\ UNCHANGED now /\ UNCHANGED run /\ UNCHANGED late /\ UNCHANGED names /\ UNCHANGED overlapped
  BY DEF EndFinal, Launching, At, Going, Answered
<1>2. n \in Name
  BY <1>1, FirstListed
<1> HIDE DEF n, g
<1>3. rows' \in [Name -> DueRow] /\ \A m \in Name : RowGoesOn(m)
  BY <1>1, <1>2, RowsMoveOn
<1>4. call' \in [Call -> FutureSet] /\ \A j \in Call : CallGoesOn(j)
  BY <1>1, PassesOn
<1>5. TypeOK
  BY DEF OInv
<1>6. TypeOK'
  BY <1>1, <1>3, <1>4, <1>5, SpentOK, TypesNow, TypesFrom
<1>7. now \in Nat
  BY <1>5, DueAssumption DEF TypeOK, Instant
<1>8. Onward
  BY <1>1, <1>3, <1>4, <1>7, RunsStay DEF Onward
<1>9. QED BY <1>6, <1>8

LEMMA ClaimGoesOn ==
  ASSUME OInv, NEW k \in Call, Claim(k)
  PROVE  TypeOK' /\ Onward
<1>1. /\ Launching(k) /\ Going(k) /\ Alive(k) /\ call[k].todo # {} /\ ~ConsumedLast(First(k))
      /\ \/ Passes(k) /\ UNCHANGED names
         \/ Goes(k, "claimed") /\ names' = Marks(First(k).name)
      /\ UNCHANGED rows /\ UNCHANGED now /\ UNCHANGED run /\ UNCHANGED late
      /\ UNCHANGED overlapped /\ UNCHANGED spent
  BY DEF Claim, Launching, At, Going, Alive
<1>2. TypeOK
  BY DEF OInv
<1>3. call' \in [Call -> FutureSet] /\ \A j \in Call : CallGoesOn(j)
  <2>1. CASE Passes(k)
    BY <1>1, <2>1, PassesOn
  <2>2. CASE Goes(k, "claimed")
    <3>1. call' = [call EXCEPT ![k] = Future("claimed", call[k].todo, call[k].clock)]
      BY <2>2 DEF Goes
    <3>2. call[k].clock \in Instant /\ call[k].todo \in SUBSET call[k].todo
      BY <1>2 DEF TypeOK
    <3>3. "claimed" \in Where \ {"new"}
      BY DEF Where
    <3>4. First(k)' = First(k)
      <4>1. call[k].todo \in SUBSET Listed /\ "claimed" \in Where
        BY <1>2 DEF TypeOK, Where
      <4>2. call'[k].todo = call[k].todo
        BY <1>2, <3>1, <3>2, <4>1, CallMoves
      <4>3. QED BY <4>2 DEF First
    <3>5. ~ConsumedLast(First(k))'
      BY <1>1, <3>4 DEF ConsumedLast
    <3>6. QED BY <1>1, <3>1, <3>2, <3>3, <3>5, CallMovesOn
  <2>3. QED BY <1>1, <2>1, <2>2
<1>4. names' \subseteq Monty
  BY <1>1, <1>2, NamesOK, TypesNow
<1>5. TypeOK'
  BY <1>1, <1>2, <1>3, <1>4, TypesNow, TypesFrom
<1>6. now \in Nat
  BY <1>2, DueAssumption DEF TypeOK, Instant
<1>7. Onward
  BY <1>1, <1>3, <1>6, RowsStay, RunsStay DEF Onward
<1>8. QED BY <1>5, <1>7

LEMMA CollectsGoesOn ==
  ASSUME OInv, NEW k \in Call, Collects(k)
  PROVE  TypeOK' /\ Onward
<1>1. /\ Alive(k)
      /\ (At(k, "launching") /\ call[k].todo = {} /\ Goes(k, "collecting")) \/ Ends(k)
      /\ UNCHANGED rows /\ UNCHANGED now /\ UNCHANGED run /\ UNCHANGED late
      /\ UNCHANGED names /\ UNCHANGED overlapped /\ UNCHANGED spent
  BY DEF Collects, At, Alive
<1>2. TypeOK
  BY DEF OInv
<1>3. call' \in [Call -> FutureSet] /\ \A j \in Call : CallGoesOn(j)
  <2>1. CASE Goes(k, "collecting") /\ call[k].todo = {}
    <3>1. call' = [call EXCEPT ![k] = Future("collecting", call[k].todo, call[k].clock)]
      BY <2>1 DEF Goes
    <3>2. call[k].clock \in Instant /\ call[k].todo \in SUBSET call[k].todo
      BY <1>2 DEF TypeOK
    <3>3. "collecting" \in Where \ {"new"}
      BY DEF Where
    <3>4. QED BY <1>1, <3>1, <3>2, <3>3, CallMovesOn
  <2>2. CASE Ends(k)
    <3>1. call' = [call EXCEPT ![k] = Future("ended", {}, 0)]
      BY <2>2 DEF Ends
    <3>2. 0 \in Instant /\ {} \in SUBSET call[k].todo
      BY DueAssumption DEF Instant
    <3>3. "ended" \in Where \ {"new"}
      BY DEF Where
    <3>4. QED BY <1>1, <3>1, <3>2, <3>3, CallMovesOn
  <2>3. QED BY <1>1, <2>1, <2>2
<1>4. TypeOK'
  BY <1>1, <1>2, <1>3, TypesNow, TypesFrom
<1>5. now \in Nat
  BY <1>2, DueAssumption DEF TypeOK, Instant
<1>6. Onward
  BY <1>1, <1>3, <1>5, RowsStay, RunsStay DEF Onward
<1>7. QED BY <1>4, <1>6

\* A step of a run leaves the calls and the clock alone.
LEMMA RunStepIs ==
  ASSUME OInv, rows' \in [Name -> DueRow], \A n \in Name : RowGoesOn(n),
         run' \in [Call -> [Name -> RunSet]], \A k \in Call, n \in Name : RunGoesOn(k, n),
         UNCHANGED now, UNCHANGED call, UNCHANGED late, UNCHANGED overlapped,
         names' \subseteq Monty, Event \/ UNCHANGED spent
  PROVE  TypeOK' /\ Onward
<1>1. TypeOK
  BY DEF OInv
<1>2. TypeOK'
  BY <1>1, SpentOK, TypesNow, TypesFrom
<1>3. now \in Nat
  BY <1>1, DueAssumption DEF TypeOK, Instant
<1>4. \A k \in Call : CallGoesOn(k)
  BY CallsStay
<1>5. Onward
  BY <1>3, <1>4 DEF Onward
<1>6. QED BY <1>2, <1>5

\* A run that was started, and what it is.
LEMMA StartedRun ==
  ASSUME OInv, NEW k \in Call, NEW n \in Name, run[k][n].state # "none"
  PROVE  /\ run[k][n] \in Run /\ Started(k, n) /\ run[k][n].at \in Instant
         /\ run[k][n].next \in (1 .. MaxTime) \cup {None} /\ run[k][n].generation \in Generation
         /\ run[k][n].state \notin {"none", "done", "lost"} => Live(k, n)
<1>1. run[k][n] # NoRun
  BY RunFields
<1>2. run[k][n] \in Run
  BY <1>1 DEF OInv, TypeOK
<1>3. QED BY <1>1, <1>2, RunFields DEF Started, Live, Over

LEMMA FinishGoesOn ==
  ASSUME OInv, NEW k \in Call, NEW n \in Name, Finish(k, n)
  PROVE  TypeOK' /\ Onward
<1>1. PICK report \in {"ran", "disable", "delete"} :
        run' = [run EXCEPT ![k][n] =
                  [run[k][n] EXCEPT !.state = "stamped", !.report = report, !.at = now]]
  BY DEF Finish, Reports
<1>2. /\ run[k][n].state = "running"
      /\ UNCHANGED rows /\ UNCHANGED now /\ UNCHANGED call /\ UNCHANGED late /\ UNCHANGED names
      /\ UNCHANGED overlapped /\ UNCHANGED spent
  BY DEF Finish, Reports
<1> DEFINE r == run[k][n]
           s == [r EXCEPT !.state = "stamped", !.report = report, !.at = now]
<1>3. r \in Run /\ Started(k, n) /\ Live(k, n)
  BY <1>2, StartedRun
<1>4. now \in Instant /\ TypeOK
  BY DEF OInv, TypeOK
<1>5. /\ s \in Run /\ s.generation = r.generation /\ s.occurrence = r.occurrence
      /\ s.next = r.next /\ s.advance = r.advance /\ s.recorded = r.recorded
      /\ s.state = "stamped" /\ s.at = now
  <2> HIDE DEF r
  <2>1. QED BY <1>3, <1>4 DEF Run
<1>6. run' = [run EXCEPT ![k][n] = s]
  BY <1>1
<1> HIDE DEF s
<1>7. run' \in [Call -> [Name -> RunSet]] /\ \A j \in Call, m \in Name : RunGoesOn(j, m)
  BY <1>2, <1>3, <1>5, <1>6, RunMovesOn
<1>8. rows' \in [Name -> DueRow] /\ (\A m \in Name : RowGoesOn(m)) /\ names' \subseteq Monty
  BY <1>2, <1>4, RowsStay, TypesNow
<1>9. QED BY <1>2, <1>7, <1>8, RunStepIs

LEMMA JoinFailedGoesOn ==
  ASSUME OInv, NEW k \in Call, NEW n \in Name, JoinFailed(k, n)
  PROVE  TypeOK' /\ Onward
<1>1. /\ run[k][n].state = "panicked"
      /\ UNCHANGED rows /\ UNCHANGED now /\ UNCHANGED call /\ UNCHANGED late /\ UNCHANGED names
      /\ UNCHANGED overlapped /\ UNCHANGED spent
  BY DEF JoinFailed
<1> DEFINE r == run[k][n]
           s == [r EXCEPT !.state = "stamped", !.at = now]
<1>2. r \in Run /\ Started(k, n) /\ Live(k, n)
  BY <1>1, StartedRun
<1>3. now \in Instant /\ TypeOK
  BY DEF OInv, TypeOK
<1>4. /\ s \in Run /\ s.generation = r.generation /\ s.occurrence = r.occurrence
      /\ s.next = r.next /\ s.advance = r.advance /\ s.recorded = r.recorded
      /\ s.state = "stamped" /\ s.at = now
  <2> HIDE DEF r
  <2>1. QED BY <1>2, <1>3 DEF Run
<1>5. run' = [run EXCEPT ![k][n] = s]
  <2>1. run \in [Call -> [Name -> RunSet]]
    BY <1>3, TypesNow
  <2>2. run' = [run EXCEPT ![k][n].state = "stamped", ![k][n].at = now]
    BY DEF JoinFailed
  <2>3. QED BY <2>1, <2>2
<1> HIDE DEF s
<1>6. run' \in [Call -> [Name -> RunSet]] /\ \A j \in Call, m \in Name : RunGoesOn(j, m)
  BY <1>1, <1>2, <1>4, <1>5, RunMovesOn
<1>7. rows' \in [Name -> DueRow] /\ (\A m \in Name : RowGoesOn(m)) /\ names' \subseteq Monty
  BY <1>1, <1>3, RowsStay, TypesNow
<1>8. QED BY <1>1, <1>6, <1>7, RunStepIs

LEMMA ReleaseGoesOn ==
  ASSUME OInv, NEW k \in Call, NEW n \in Name, Release(k, n)
  PROVE  TypeOK' /\ Onward
<1>1. /\ run[k][n].state = "written"
      /\ names' = names \/ names' = names \ {n}
      /\ UNCHANGED rows /\ UNCHANGED now /\ UNCHANGED call /\ UNCHANGED late
      /\ UNCHANGED overlapped /\ UNCHANGED spent
  BY DEF Release
<1> DEFINE r == run[k][n]
           s == [r EXCEPT !.state = "done", !.marked = FALSE]
<1>2. r \in Run /\ Started(k, n)
  BY <1>1, StartedRun
<1>3. TypeOK
  BY DEF OInv
<1>4. /\ s \in Run /\ s.generation = r.generation /\ s.occurrence = r.occurrence
      /\ s.next = r.next /\ s.advance = r.advance /\ s.recorded = r.recorded
      /\ s.state = "done"
  <2> HIDE DEF r
  <2>1. QED BY <1>2 DEF Run
<1>5. run' = [run EXCEPT ![k][n] = s]
  <2>1. run \in [Call -> [Name -> RunSet]]
    BY <1>3, TypesNow
  <2>2. run' = [run EXCEPT ![k][n].state = "done", ![k][n].marked = FALSE]
    BY DEF Release
  <2>3. QED BY <2>1, <2>2
<1> HIDE DEF s
<1>6. run' \in [Call -> [Name -> RunSet]] /\ \A j \in Call, m \in Name : RunGoesOn(j, m)
  BY <1>1, <1>2, <1>4, <1>5, RunMovesOn
<1>7. rows' \in [Name -> DueRow] /\ (\A m \in Name : RowGoesOn(m)) /\ names' \subseteq Monty
  BY <1>1, <1>3, RowsStay, TypesNow
<1>8. QED BY <1>1, <1>6, <1>7, RunStepIs

LEMMA PanicGoesOn ==
  ASSUME OInv, NEW k \in Call, NEW n \in Name, Panic(k, n)
  PROVE  TypeOK' /\ Onward
<1> DEFINE end == IF Alive(k) THEN "panicked" ELSE "lost"
           r == run[k][n]
           s == [r EXCEPT !.state = end, !.marked = FALSE]
<1>1. /\ run[k][n].state = "running" /\ Event /\ names' = Unmarked(n)
      /\ UNCHANGED rows /\ UNCHANGED now /\ UNCHANGED call /\ UNCHANGED late
      /\ UNCHANGED overlapped
  BY DEF Panic
<1>2. r \in Run /\ Started(k, n) /\ Live(k, n)
  BY <1>1, StartedRun
<1>3. TypeOK
  BY DEF OInv
<1>4. end \in {"panicked", "lost"}
  OBVIOUS
<1> HIDE DEF end
<1>5. /\ s \in Run /\ s.generation = r.generation /\ s.occurrence = r.occurrence
      /\ s.next = r.next /\ s.advance = r.advance /\ s.recorded = r.recorded
      /\ s.state \in {"panicked", "lost"}
  <2> HIDE DEF r
  <2>1. QED BY <1>2, <1>4 DEF Run
<1>6. run' = [run EXCEPT ![k][n] = s]
  <2>1. run \in [Call -> [Name -> RunSet]]
    BY <1>3, TypesNow
  <2>2. run' = [run EXCEPT ![k][n].state = end, ![k][n].marked = FALSE]
    BY DEF Panic, end
  <2>3. QED BY <2>1, <2>2
<1> HIDE DEF s
<1>7. run' \in [Call -> [Name -> RunSet]] /\ \A j \in Call, m \in Name : RunGoesOn(j, m)
  BY <1>1, <1>2, <1>5, <1>6, RunMovesOn
<1>8. rows' \in [Name -> DueRow] /\ (\A m \in Name : RowGoesOn(m)) /\ names' \subseteq Monty
  BY <1>1, <1>3, RowsStay, TypesNow, NamesOK
<1>9. QED BY <1>1, <1>7, <1>8, RunStepIs

LEMMA FollowUpGoesOn ==
  ASSUME OInv, NEW k \in Call, NEW n \in Name, FollowUp(k, n)
  PROVE  TypeOK' /\ Onward
<1> DEFINE r == run[k][n]
           s == [r EXCEPT !.state = Through(n)]
<1>1. /\ run[k][n].state = "noted"
      /\ \/ UNCHANGED rows
         \/ r.next = None /\ rows' = Stop(rows, n, r.generation)
         \/ r.next # None /\ rows' = SetNext(rows, n, r.generation, r.next)
      /\ Event \/ UNCHANGED spent
      /\ UNCHANGED now /\ UNCHANGED call /\ UNCHANGED late /\ UNCHANGED names
      /\ UNCHANGED overlapped
  BY DEF FollowUp, Answered
<1>2. r \in Run /\ Started(k, n) /\ Live(k, n) /\ r.next \in (1 .. MaxTime) \cup {None}
  BY <1>1, StartedRun
<1>3. TypeOK
  BY DEF OInv
<1>4. Through(n) \in {"written", "done"}
  BY DEF Through
<1>5. /\ s \in Run /\ s.generation = r.generation /\ s.occurrence = r.occurrence
      /\ s.next = r.next /\ s.advance = r.advance /\ s.recorded = r.recorded
      /\ s.state \in {"written", "done"}
  <2> HIDE DEF r
  <2>1. QED BY <1>2, <1>4 DEF Run
<1>6. run' = [run EXCEPT ![k][n] = s]
  <2>1. run \in [Call -> [Name -> RunSet]]
    BY <1>3, TypesNow
  <2>2. run' = [run EXCEPT ![k][n].state = Through(n)]
    BY DEF FollowUp
  <2>3. QED BY <2>1, <2>2
<1>7. ASSUME ~overlapped, r.next # None, NEW j \in Call, Started(j, n)
      PROVE  run[j][n].occurrence < r.next
  <2>1. CallIsBeyond(n, run[j][n], k)
    BY <1>7 DEF OInv, Beyond
  <2>2. QED BY <1>2, <1>7, <2>1 DEF CallIsBeyond
<1> HIDE DEF r, s
<1>8. run' \in [Call -> [Name -> RunSet]] /\ \A j \in Call, m \in Name : RunGoesOn(j, m)
  BY <1>1, <1>2, <1>5, <1>6, RunMovesOn DEF r
<1>9. rows' \in [Name -> DueRow] /\ \A m \in Name : RowGoesOn(m)
  <2>1. CASE UNCHANGED rows
    BY <2>1, RowsMoveOn
  <2>2. CASE rows' = Stop(rows, n, r.generation)
    BY <2>2, RowsMoveOn
  <2>3. CASE r.next # None /\ rows' = SetNext(rows, n, r.generation, r.next)
    BY <1>2, <1>7, <2>3, RowsMoveOn
  <2>4. QED BY <1>1, <2>1, <2>2, <2>3
<1>10. names' \subseteq Monty
  BY <1>1, <1>3, TypesNow
<1>11. QED BY <1>1, <1>8, <1>9, <1>10, RunStepIs

LEMMA PersistGoesOn ==
  ASSUME OInv, NEW k \in Call, NEW n \in Name, Persist(k, n)
  PROVE  TypeOK' /\ Onward
<1> DEFINE r == run[k][n]
           g == r.generation
           ran == [at |-> r.at, refused |-> FALSE]
           no == [at |-> r.at, refused |-> TRUE]
<1>1. /\ r.state = "stamped"
      /\ UNCHANGED now /\ UNCHANGED call /\ UNCHANGED late /\ UNCHANGED names
      /\ UNCHANGED overlapped
  BY DEF Persist
<1>2. r \in Run /\ Started(k, n) /\ Live(k, n) /\ r.at \in Instant
  BY <1>1, StartedRun
<1>3. r.report \in {"ran", "disable", "delete"}
  BY <1>2, RunFields
<1> DEFINE written == CASE r.report = "ran" -> RecordRun(rows, n, g, ran)
                        [] r.report = "disable" -> Disable(rows, n, g, no)
                        [] r.report = "delete" -> Stop(rows, n, g)
<1>4. PICK answer \in {"yes", "no", "failed"} :
        /\ Answered(written, Matches(rows, n, g), answer)
        /\ run' = [run EXCEPT ![k][n] = [r EXCEPT
             !.state = IF r.report = "ran" /\ answer = "yes" THEN "noted" ELSE Through(n),
             !.report = "ran", !.at = 0, !.recorded = answer = "yes"]]
  BY DEF Persist
<1>4a. \/ written = RecordRun(rows, n, g, ran)
       \/ written = Disable(rows, n, g, no)
       \/ written = Stop(rows, n, g)
  BY <1>3
<1> HIDE DEF written
<1>5. ran \in Outcome /\ no \in Outcome /\ ran.at = r.at /\ no.at = r.at
  BY <1>2 DEF Outcome
<1> DEFINE end == IF r.report = "ran" /\ answer = "yes" THEN "noted" ELSE Through(n)
           noted == answer = "yes"
           s == [r EXCEPT !.state = end, !.report = "ran", !.at = 0, !.recorded = noted]
<1>6. run' = [run EXCEPT ![k][n] = s]
  BY <1>4
<1>7. end \in {"noted", "written", "done"}
  BY DEF Through
<1>8. noted \in BOOLEAN /\ (noted => answer = "yes")
  OBVIOUS
<1>9. 0 \in Instant /\ TypeOK
  BY DueAssumption DEF Instant, OInv
<1>10. /\ rows' = rows \/ (rows' = written /\ (answer = "yes" => Matches(rows, n, g)))
       /\ answer = "yes" => rows' = written
       /\ Event \/ UNCHANGED spent
  BY <1>4 DEF Answered
<1>11. ASSUME ~overlapped, NEW j \in Call, Started(j, n), run[j][n].next = None
       PROVE  Exhausted(n, run[j][n], r.at)
  <2>1. CallIsBeyond(n, run[j][n], k)
    BY <1>11 DEF OInv, Beyond
  <2>2. QED BY <1>1, <1>11, <2>1 DEF CallIsBeyond
<1> HIDE DEF r, end, noted, ran, no
<1>12. /\ s \in Run /\ s.generation = r.generation /\ s.occurrence = r.occurrence
       /\ s.next = r.next /\ s.advance = r.advance /\ s.recorded = noted
       /\ s.state \in {"noted", "written", "done"}
  BY <1>2, <1>7, <1>8, <1>9 DEF Run
<1>13. rows' \in [Name -> DueRow] /\ \A m \in Name : RowGoesOn(m)
  <2>1. CASE rows' = rows
    BY <2>1, RowsMoveOn
  <2>2. CASE rows' = Stop(rows, n, g)
    BY <2>2, RowsMoveOn
  <2>3. CASE rows' = RecordRun(rows, n, g, ran)
    BY <1>5, <1>11, <2>3, RowsMoveOn
  <2>4. CASE rows' = Disable(rows, n, g, no)
    BY <1>5, <1>11, <2>4, RowsMoveOn
  <2>5. QED BY <1>4a, <1>10, <2>1, <2>2, <2>3, <2>4
<1>14. ASSUME noted, ~overlapped, IsActive(rows', n)
       PROVE  LastIsBeyond(n)
  <2>1. rows' = written /\ Matches(rows, n, g) /\ rows \in [Name -> DueRow]
    BY <1>4, <1>8, <1>9, <1>10, <1>14, TypesNow DEF Answered
  <2>2. rows[n] \in DueRow
    BY <2>1
  <2>3. ASSUME NEW o \in Outcome, o.at = r.at, rows'[n].last = o
        PROVE  LastIsBeyond(n)
    BY <1>11, <1>14, <2>3, NullAssumption DEF LastIsBeyond
  <2>4. CASE rows' = RecordRun(rows, n, g, ran)
    <3>1. rows' = [rows EXCEPT ![n] = [rows[n] EXCEPT !.last = ran]]
      BY <2>1, <2>4 DEF RecordRun
    <3>2. rows'[n] = [rows[n] EXCEPT !.last = ran]
      BY <2>1, <3>1
    <3>3. rows'[n].last = ran
      BY <2>2, <3>2 DEF DueRow, RowSet
    <3>4. QED BY <1>5, <2>3, <3>3
  <2>5. CASE rows' = Disable(rows, n, g, no)
    <3>1. rows' = [rows EXCEPT ![n] = [rows[n] EXCEPT !.enabled = FALSE, !.last = no]]
      BY <2>1, <2>5 DEF Disable
    <3>2. rows'[n] = [rows[n] EXCEPT !.enabled = FALSE, !.last = no]
      BY <2>1, <3>1
    <3>3. rows'[n].last = no
      BY <2>2, <3>2 DEF DueRow, RowSet
    <3>4. QED BY <1>5, <2>3, <3>3
  <2>6. CASE rows' = Stop(rows, n, g)
    <3>1. rows' = [rows EXCEPT ![n] = [rows[n] EXCEPT !.ended = TRUE, !.next = None]]
      BY <2>1, <2>6 DEF Stop
    <3>2. rows'[n] = [rows[n] EXCEPT !.ended = TRUE, !.next = None]
      BY <2>1, <3>1
    <3>3. rows'[n].ended
      BY <2>2, <3>2 DEF DueRow, RowSet
    <3>4. QED BY <1>14, <3>3 DEF IsActive
  <2>7. QED BY <1>4a, <2>1, <2>4, <2>5, <2>6
<1> HIDE DEF s
<1>15. run' \in [Call -> [Name -> RunSet]] /\ \A j \in Call, m \in Name : RunGoesOn(j, m)
  BY <1>2, <1>6, <1>12, <1>14, RunMovesOn DEF r
<1>16. names' \subseteq Monty
  BY <1>1, <1>9, TypesNow
<1>17. QED BY <1>1, <1>10, <1>13, <1>15, <1>16, RunStepIs

LEMMA LateWriteGoesOn ==
  ASSUME OInv, NEW k \in Call, LateWrite(k)
  PROVE  TypeOK' /\ Onward
<1> DEFINE n == late[k][1]
           g == late[k][2]
           t == late[k][3]
<1>1. /\ late[k] # NoWrite /\ late' = [late EXCEPT ![k] = NoWrite]
      /\ rows' = IF t = None THEN Stop(rows, n, g) ELSE SetNext(rows, n, g, t)
      /\ UNCHANGED now /\ UNCHANGED call /\ UNCHANGED run /\ UNCHANGED names
      /\ UNCHANGED overlapped /\ UNCHANGED spent
  BY DEF LateWrite
<1>2. TypeOK
  BY DEF OInv
<1>3. n \in Name /\ t \in (1 .. MaxTime) \cup {None}
  <2>1. late[k] \in Name \X Generation \X ((1 .. MaxTime) \cup {None})
    BY <1>1, <1>2 DEF TypeOK, Write
  <2>2. QED BY <2>1
<1>4. late' \in [Call -> Write] /\ \A j \in Call : late'[j] = late[j] \/ late'[j] = NoWrite
  BY <1>1, <1>2 DEF TypeOK, Write
<1>5. ASSUME ~overlapped, t # None, NEW j \in Call, Started(j, n)
      PROVE  run[j][n].occurrence < t
  <2>1. CallIsBeyond(n, run[j][n], k)
    BY <1>3, <1>5 DEF OInv, Beyond
  <2>2. QED BY <1>1, <1>5, <2>1 DEF CallIsBeyond
<1> HIDE DEF n, g, t
<1>6. rows' \in [Name -> DueRow] /\ \A m \in Name : RowGoesOn(m)
  <2>1. CASE t = None
    BY <1>1, <1>3, <2>1, RowsMoveOn
  <2>2. CASE t # None
    BY <1>1, <1>3, <1>5, <2>2, RowsMoveOn
  <2>3. QED BY <2>1, <2>2
<1>7. \A j \in Call : CallGoesOn(j)
  BY <1>1, <1>4, CallsStay
<1>8. TypeOK'
  BY <1>1, <1>2, <1>4, <1>6, TypesNow, TypesFrom
<1>9. now \in Nat
  BY <1>2, DueAssumption DEF TypeOK, Instant
<1>10. Onward
  BY <1>1, <1>6, <1>7, <1>9, RunsStay DEF Onward
<1>11. QED BY <1>8, <1>10

LEMMA ChangeGoesOn ==
  ASSUME OInv, Change
  PROVE  TypeOK' /\ Onward
<1>1. PICK n \in Name :
        /\ IsActive(rows, n)
        /\ \/ rows' = SetFlags(rows, [m \in {n} |-> ~rows[n].enabled])
           \/ /\ GenerationLeft(rows, n) /\ NextRun(n, now) # None
              /\ rows' = Written(rows, n, NextRun(n, now), TRUE)
  BY DEF Change
<1>2. /\ UNCHANGED now /\ UNCHANGED call /\ UNCHANGED run /\ UNCHANGED late /\ UNCHANGED names
      /\ UNCHANGED overlapped /\ Event
  BY DEF Change
<1>3. TypeOK
  BY DEF OInv
<1>4. rows \in [Name -> DueRow]
  BY <1>3, TypesNow
<1>5. \A m \in Name : rows[m].generation \in Nat /\ (IsActive(rows, m) => rows[m].next # None)
  <2>1. \A m \in Name : rows[m] \in DueRow
    BY <1>4
  <2>2. QED BY <2>1, RowFields, GenerationAssumption DEF Generation, OInv, ActiveHasNext
<1>6. ASSUME NEW m \in Name, rows'[m] = rows[m] PROVE RowGoesOn(m)
  BY <1>5, <1>6 DEF RowGoesOn, IsActive
<1>7. rows' \in [Name -> DueRow] /\ \A m \in Name : RowGoesOn(m)
  <2>1. CASE rows' = SetFlags(rows, [m \in {n} |-> ~rows[n].enabled])
    <3> DEFINE row == [rows[n] EXCEPT !.enabled = ~rows[n].enabled]
    <3>1. rows' = [m \in Name |-> IF m \in {n} THEN [rows[m] EXCEPT !.enabled = ~rows[n].enabled]
                                                ELSE rows[m]]
      BY <2>1 DEF SetFlags
    <3>2. rows[n] \in DueRow
      BY <1>4
    <3>3. /\ row \in DueRow /\ row.generation = rows[n].generation
          /\ row.next = rows[n].next /\ row.last = rows[n].last /\ row.ended = rows[n].ended
      BY <3>2 DEF DueRow, RowSet
    <3> HIDE DEF row
    <3>4. rows' = [rows EXCEPT ![n] = row]
      BY <1>4, <3>1 DEF row
    <3>5. rows' \in [Name -> DueRow] /\ rows'[n] = row /\ \A m \in Name \ {n} : rows'[m] = rows[m]
      BY <1>4, <3>3, <3>4, OneRowOK
    <3>6. RowGoesOn(n)
      BY <1>1, <1>5, <3>3, <3>5 DEF RowGoesOn, IsActive
    <3>7. QED BY <1>6, <3>5, <3>6
  <2>2. CASE /\ GenerationLeft(rows, n) /\ NextRun(n, now) # None
             /\ rows' = Written(rows, n, NextRun(n, now), TRUE)
    <3> DEFINE row == [generation |-> rows[n].generation + 1, enabled |-> TRUE,
                       next |-> NextRun(n, now), last |-> None, ended |-> FALSE]
    <3>1. rows[n] # NoRow /\ rows[n].generation < MaxGeneration /\ rows[n] \in DueRow
      BY <1>1, <1>4, <2>2 DEF IsActive, GenerationLeft
    <3>2. rows' = [rows EXCEPT ![n] = row]
      BY <2>2, <3>1 DEF Written
    <3>3. rows[n].generation + 1 \in Generation /\ NextRun(n, now) \in 1 .. MaxTime
      BY <2>2, <3>1, RowFields, NextRunOK, GenerationAssumption DEF Generation
    <3>4. row \in DueRow /\ row.generation = rows[n].generation + 1 /\ row.next # None
      BY <2>2, <3>3 DEF DueRow, RowSet
    <3> HIDE DEF row
    <3>5. rows' \in [Name -> DueRow] /\ rows'[n] = row /\ \A m \in Name \ {n} : rows'[m] = rows[m]
      BY <1>4, <3>2, <3>4, OneRowOK
    <3>6. rows[n].generation \in Nat /\ rows'[n].generation = rows[n].generation + 1
      BY <1>5, <3>4, <3>5
    <3>7. RowGoesOn(n)
      BY <1>1, <3>4, <3>5, <3>6 DEF RowGoesOn
    <3>8. QED BY <1>6, <3>5, <3>7
  <2>3. QED BY <1>1, <2>1, <2>2
<1>8. run' \in [Call -> [Name -> RunSet]] /\ names' \subseteq Monty
  BY <1>2, <1>3, TypesNow
<1>9. QED BY <1>2, <1>7, <1>8, RunsStay, RunStepIs

LEMMA TickGoesOn ==
  ASSUME OInv, Tick \/ UNCHANGED vars
  PROVE  TypeOK' /\ Onward
<1>1. TypeOK /\ now \in Instant /\ now \in Nat
  BY DueAssumption DEF OInv, TypeOK, Instant
<1>2. /\ UNCHANGED rows /\ UNCHANGED call /\ UNCHANGED run /\ UNCHANGED late /\ UNCHANGED names
      /\ UNCHANGED overlapped /\ UNCHANGED spent
      /\ now' \in Instant /\ now <= now'
  BY <1>1, DueAssumption DEF Tick, vars, Instant
<1>3. TypeOK'
  BY <1>1, <1>2, TypesNow, TypesFrom
<1>4. Onward
  BY <1>2, RowsStay, RunsStay, CallsStay DEF Onward
<1>5. QED BY <1>3, <1>4

\* A run that is lost stays what it was.
LEMMA LostGoesOn ==
  ASSUME OInv, NEW k \in Call, NEW n \in Name,
         \/ run'[k][n] = run[k][n]
         \/ /\ Started(k, n) /\ Live(k, n)
            /\ \/ run'[k][n] = [run[k][n] EXCEPT !.state = "lost"]
               \/ run'[k][n] = [run[k][n] EXCEPT !.state = "lost", !.marked = FALSE]
  PROVE  run'[k][n] \in RunSet /\ RunGoesOn(k, n)
<1> DEFINE r == run[k][n]
           s == run'[k][n]
<1>1. r \in RunSet
  BY DEF OInv, TypeOK, RunSet
<1>2. r.state \notin {"none", "done", "lost"} => Live(k, n)
  BY DEF Live, Over
<1>3. CASE s = r
  <2>1. CASE r = NoRun
    BY <1>1, <1>3, <2>1 DEF RunGoesOn, Started
  <2>2. CASE r # NoRun
    BY <1>1, <1>2, <1>3, <2>2 DEF RunGoesOn, Started
  <2>3. QED BY <2>1, <2>2
<1>4. CASE /\ Started(k, n) /\ Live(k, n)
           /\ s = [r EXCEPT !.state = "lost"] \/ s = [r EXCEPT !.state = "lost", !.marked = FALSE]
  <2>1. r \in Run
    BY <1>1, <1>4 DEF Started, RunSet
  <2>2. s = [r EXCEPT !.state = "lost"] \/ s = [r EXCEPT !.state = "lost", !.marked = FALSE]
    BY <1>4
  <2> HIDE DEF r, s
  <2>3. /\ s \in Run /\ s.generation = r.generation /\ s.occurrence = r.occurrence
        /\ s.next = r.next /\ s.advance = r.advance /\ s.recorded = r.recorded
        /\ s.state = "lost"
    BY <2>1, <2>2 DEF Run
  <2>4. s # NoRun /\ s \in RunSet
    BY <2>3, RunFields DEF RunSet
  <2>5. QED BY <1>4, <2>3, <2>4 DEF RunGoesOn, r, s
<1>5. QED BY <1>3, <1>4

\* The write a dropped call leaves behind is that of its next run, after its clock.
LEMMA HandedIsBeyond ==
  ASSUME OInv, NEW k \in Call, NEW w \in Handed(k), w # NoWrite
  PROVE  /\ w \in Name \X Generation \X ((1 .. MaxTime) \cup {None})
         /\ w[3] # None => \A j \in Call : ~overlapped /\ Started(j, w[1]) =>
                             run[j][w[1]].occurrence < w[3]
<1> DEFINE n == First(k).name
           g == First(k).row.generation
           t == NextRun(n, call[k].clock)
<1>1. /\ Going(k) /\ call[k].todo # {}
      /\ w = <<n, g, None>> \/ (w = <<n, g, t>> /\ t # None)
  <2>1. At(k, "claimed") => call[k].todo # {}
    BY DEF OInv, Behind
  <2>2. CASE Launching(k) /\ ConsumedLast(First(k))
    <3>1. w = <<n, g, None>>
      BY <2>2 DEF Handed
    <3>2. QED BY <2>2, <3>1 DEF Launching, At, Going
  <2>3. CASE ~(Launching(k) /\ ConsumedLast(First(k)))
    <3>1. At(k, "claimed") /\ t # None /\ w = <<n, g, t>>
      BY <2>3 DEF Handed
    <3>2. QED BY <2>1, <3>1 DEF At, Going
  <2>4. QED BY <2>2, <2>3
<1>2. n \in Name /\ g \in Generation
  BY <1>1, FirstListed, RowFields
<1>3. call[k].clock \in Instant /\ call[k].clock \in Nat
  BY DueAssumption DEF OInv, TypeOK, Instant
<1>4. t # None => t \in 1 .. MaxTime /\ t > call[k].clock
  BY <1>2, NextRunOK
<1>5. ASSUME NEW j \in Call, ~overlapped, Started(j, n)
      PROVE  run[j][n].occurrence <= call[k].clock /\ run[j][n].occurrence \in Nat
  <2>1. CallIsBeyond(n, run[j][n], k)
    BY <1>2, <1>5 DEF OInv, Beyond
  <2>2. run[j][n].occurrence <= call[k].clock
    BY <1>1, <2>1 DEF CallIsBeyond
  <2>3. run[j][n] \in Run
    BY <1>2, <1>5 DEF Started, OInv, TypeOK
  <2>4. QED BY <2>2, <2>3, RunFields, DueAssumption
<1> HIDE DEF n, g, t
<1>6. CASE w = <<n, g, None>>
  BY <1>2, <1>6
<1>7. CASE w = <<n, g, t>> /\ t # None
  <2>1. w \in Name \X Generation \X ((1 .. MaxTime) \cup {None}) /\ w[1] = n /\ w[3] = t
    BY <1>2, <1>4, <1>7
  <2>2. t \in Nat /\ t > call[k].clock
    BY <1>4, <1>7, DueAssumption
  <2>3. QED BY <1>3, <1>5, <2>1, <2>2
<1>8. QED BY <1>1, <1>6, <1>7

LEMMA DropGoesOn ==
  ASSUME OInv, NEW k \in Call, Drop(k)
  PROVE  TypeOK' /\ Onward
<1>1. /\ Alive(k) /\ Event
      /\ names' = Unmarked(First(k).name) \/ UNCHANGED names
      /\ call' = [call EXCEPT ![k] = Future("ended", {}, 0)]
      /\ UNCHANGED rows /\ UNCHANGED now /\ UNCHANGED overlapped
  BY DEF Drop, Ends
<1>2. TypeOK
  BY DEF OInv
<1>3. PICK w \in Handed(k) : late' = [late EXCEPT ![k] = w]
  BY DEF Drop
<1>4. /\ call' \in [Call -> FutureSet]
      /\ call'[k].at = "ended" /\ call'[k].todo = {}
      /\ \A j \in Call \ {k} : call'[j] = call[j]
  <2>1. "ended" \in Where /\ {} \in SUBSET Listed /\ 0 \in Instant
    BY DueAssumption DEF Where, Instant
  <2>2. TypeOK /\ call' = [call EXCEPT ![k] = Future("ended", {}, 0)]
    BY <1>1, <1>2
  <2>3. QED BY <2>1, <2>2, CallMoves
<1>5. /\ late' \in [Call -> Write] /\ late'[k] = w
      /\ \A j \in Call \ {k} : late'[j] = late[j]
  <2>1. w \in Write /\ late \in [Call -> Write]
    BY <1>2, HandedIsBeyond, TypesNow DEF Write
  <2>2. QED BY <1>3, <2>1
<1>6. CallGoesOn(k)
  <2>1. Alive(k) /\ call[k].at # "new" /\ call'[k].todo \subseteq call[k].todo
    BY <1>1, <1>4 DEF Alive
  <2>2. ASSUME w # NoWrite, ~overlapped PROVE LateIsBeyond(k)
    <3>1. w[3] # None => \A j \in Call : Started(j, w[1]) => run[j][w[1]].occurrence < w[3]
      BY <2>2, HandedIsBeyond
    <3>2. late'[k] = w
      BY <1>5
    <3>3. QED BY <3>1, <3>2 DEF LateIsBeyond
  <2>3. call'[k].at = "ended" /\ call'[k].todo = {}
    BY <1>4
  <2>4. late'[k] = NoWrite \/ (~overlapped => LateIsBeyond(k))
    BY <1>5, <2>2
  <2>5. QED BY <2>1, <2>3, <2>4 DEF CallGoesOn
<1>7. \A j \in Call : CallGoesOn(j)
  BY <1>4, <1>5, <1>6, CallStays
<1>8. run' = [run EXCEPT ![k] = [n \in Name |->
               IF Aborted(k, n) THEN [run[k][n] EXCEPT !.state = "lost"] ELSE run[k][n]]]
  BY DEF Drop
<1>9. run \in [Call -> [Name -> RunSet]]
  BY <1>2, TypesNow
<1>10. run' = [j \in Call |-> [n \in Name |-> run'[j][n]]]
  BY <1>8, <1>9
<1>11. ASSUME NEW j \in Call, NEW n \in Name
       PROVE  run'[j][n] \in RunSet /\ RunGoesOn(j, n)
  <2>1. CASE j = k /\ Aborted(k, n)
    <3>1. run'[j][n] = [run[j][n] EXCEPT !.state = "lost"]
      BY <1>8, <1>9, <2>1
    <3>2. run[j][n].state \in {"panicked", "running"}
      BY <2>1 DEF Aborted
    <3>3. Started(j, n) /\ Live(j, n)
      BY <3>2, StartedRun
    <3>4. QED BY <3>1, <3>3, LostGoesOn
  <2>2. CASE ~(j = k /\ Aborted(k, n))
    <3>1. run'[j][n] = run[j][n]
      BY <1>8, <1>9, <2>2
    <3>2. QED BY <3>1, LostGoesOn
  <2>3. QED BY <2>1, <2>2
<1>12. run' \in [Call -> [Name -> RunSet]]
  BY <1>10, <1>11
<1>13. names' \subseteq Monty
  BY <1>1, <1>2, NamesOK, TypesNow
<1>14. TypeOK'
  <2>1. rows' \in [Name -> DueRow] /\ now' \in Instant /\ overlapped' \in BOOLEAN
    BY <1>1, <1>2, TypesNow
  <2>2. Event
    BY <1>1
  <2>3. spent' \in 0 .. MaxEvents
    BY <1>2, <2>2, SpentOK
  <2>4. QED BY <1>4, <1>5, <1>12, <1>13, <2>1, <2>3, TypesFrom
<1>15. now \in Nat
  BY <1>2, DueAssumption DEF TypeOK, Instant
<1>16. Onward
  BY <1>1, <1>7, <1>11, <1>15, RowsStay DEF Onward
<1>17. QED BY <1>14, <1>16

LEMMA DieGoesOn ==
  ASSUME OInv, Die
  PROVE  TypeOK' /\ Onward
<1>1. /\ late' = [k \in Call |-> NoWrite] /\ names' = {} /\ Event
      /\ call' = [k \in Call |-> IF Alive(k) THEN Future("ended", {}, 0) ELSE call[k]]
      /\ UNCHANGED rows /\ UNCHANGED now /\ UNCHANGED overlapped
  BY DEF Die
<1>2. TypeOK
  BY DEF OInv
<1>3. late' \in [Call -> Write] /\ \A k \in Call : late'[k] = NoWrite
  BY <1>1 DEF Write
<1>4. ASSUME NEW k \in Call PROVE call'[k] \in FutureSet /\ CallGoesOn(k)
  <2>1. CASE Alive(k)
    <3> DEFINE c == Future("ended", {}, 0)
    <3>1. c \in FutureSet /\ c.at = "ended" /\ c.todo = {}
      BY DueAssumption DEF Future, FutureSet, Where, Instant
    <3>2. call'[k] = c
      BY <1>1, <2>1
    <3> HIDE DEF c
    <3>3. QED BY <1>3, <2>1, <3>1, <3>2 DEF CallGoesOn, Alive
  <2>2. CASE ~Alive(k)
    <3>1. call'[k] = call[k] /\ call[k] \in FutureSet
      BY <1>1, <1>2, <2>2, TypesNow
    <3>2. QED BY <1>3, <3>1, CallStays
  <2>3. QED BY <2>1, <2>2
<1>5. call' \in [Call -> FutureSet]
  BY <1>1, <1>4
<1>6. run' = [k \in Call |-> [n \in Name |->
        IF Over(k, n) THEN run[k][n] ELSE [run[k][n] EXCEPT !.state = "lost", !.marked = FALSE]]]
  BY DEF Die
<1>7. ASSUME NEW k \in Call, NEW n \in Name
      PROVE  run'[k][n] \in RunSet /\ RunGoesOn(k, n)
  <2>1. CASE Over(k, n)
    <3>1. run'[k][n] = run[k][n]
      BY <1>6, <2>1
    <3>2. QED BY <3>1, LostGoesOn
  <2>2. CASE ~Over(k, n)
    <3>1. run'[k][n] = [run[k][n] EXCEPT !.state = "lost", !.marked = FALSE]
      BY <1>6, <2>2
    <3>2. Started(k, n) /\ Live(k, n)
      BY <2>2, StartedRun DEF Live, Over
    <3>3. QED BY <3>1, <3>2, LostGoesOn
  <2>3. QED BY <2>1, <2>2
<1>8. run' \in [Call -> [Name -> RunSet]]
  BY <1>6, <1>7
<1>9. names' \subseteq Monty
  BY <1>1
<1>10. TypeOK'
  BY <1>1, <1>2, <1>3, <1>5, <1>8, <1>9, SpentOK, TypesNow, TypesFrom
<1>11. now \in Nat
  BY <1>2, DueAssumption DEF TypeOK, Instant
<1>12. Onward
  BY <1>1, <1>4, <1>7, <1>11, RowsStay DEF Onward
<1>13. QED BY <1>10, <1>12

LEMMA LaunchGoesOn ==
  ASSUME OInv, NEW k \in Call, Launch(k)
  PROVE  TypeOK' /\ Onward
<1> DEFINE e == First(k)
           n == e.name
           g == e.row.generation
           t == call[k].clock
           next == NextRun(n, t)
<1>1. /\ At(k, "claimed") /\ Going(k) /\ call[k].todo # {} /\ Passes(k)
      /\ UNCHANGED now /\ UNCHANGED late /\ UNCHANGED overlapped
  BY DEF Launch, OInv, Behind, At, Going
<1>2. TypeOK
  BY DEF OInv
<1>3. e \in call[k].todo /\ n \in Name /\ e.row \in DueRow
  BY <1>1, FirstListed
<1>4. g \in Generation /\ e.row.next \in 1 .. MaxTime /\ t \in Instant /\ t \in Nat
  <2>1. e.row.next # None
    BY <1>3 DEF OInv, Behind
  <2>2. t \in Instant
    BY <1>2 DEF TypeOK
  <2>3. QED BY <1>3, <2>1, <2>2, RowFields, DueAssumption DEF Instant
<1>5. next # None => next \in 1 .. MaxTime /\ next > t
  BY <1>3, NextRunOK
<1>6. PICK answer \in {"yes", "no", "failed", "none"} :
        /\ IF next = None
           THEN answer = "none" /\ UNCHANGED rows /\ UNCHANGED spent
           ELSE Answered(SetNext(rows, n, g, next), MatchesEnabled(rows, n, g), answer)
        /\ IF answer # "no"
           THEN /\ run' = [run EXCEPT ![k][n] =
                     [generation |-> g, occurrence |-> e.row.next, next |-> next,
                      advance |-> answer, state |-> "running", report |-> "ran", at |-> 0,
                      recorded |-> FALSE, marked |-> n \in Monty]]
                /\ UNCHANGED names
           ELSE run' = run /\ names' = Unmarked(n)
  BY DEF Launch, GoesOn
<1>7. /\ UNCHANGED rows \/ (next # None /\ rows' = SetNext(rows, n, g, next))
      /\ answer = "yes" => /\ next # None /\ rows' = SetNext(rows, n, g, next)
                           /\ MatchesEnabled(rows, n, g)
      /\ Event \/ UNCHANGED spent
  BY <1>6 DEF Answered
<1>8. ASSUME ~overlapped, next # None, NEW j \in Call, Started(j, n)
      PROVE  run[j][n].occurrence < next
  <2>1. CallIsBeyond(n, run[j][n], k)
    BY <1>3, <1>8 DEF OInv, Beyond
  <2>2. run[j][n].occurrence <= t
    BY <1>1, <2>1 DEF CallIsBeyond
  <2>3. run[j][n] \in Run
    BY <1>2, <1>3, <1>8 DEF Started, TypeOK
  <2>4. QED BY <1>4, <1>5, <1>8, <2>2, <2>3, RunFields, DueAssumption
<1> DEFINE s == [generation |-> g, occurrence |-> e.row.next, next |-> next,
                 advance |-> answer, state |-> "running", report |-> "ran", at |-> 0,
                 recorded |-> FALSE, marked |-> n \in Monty]
<1>9. answer # "no" => run' = [run EXCEPT ![k][n] = s] /\ UNCHANGED names
  BY <1>6
<1>10. answer = "no" => run' = run /\ names' = Unmarked(n)
  BY <1>6
<1> DEFINE marked == n \in Monty
<1>11. /\ s \in Run /\ s.generation = g /\ s.occurrence = e.row.next /\ s.next = next
       /\ s.advance = answer /\ s.state = "running" /\ ~s.recorded
  <2>1. marked \in BOOLEAN /\ 0 \in Instant
    BY DueAssumption DEF Instant
  <2>2. s = [generation |-> g, occurrence |-> e.row.next, next |-> next,
             advance |-> answer, state |-> "running", report |-> "ran", at |-> 0,
             recorded |-> FALSE, marked |-> marked]
    OBVIOUS
  <2>3. next \in (1 .. MaxTime) \cup {None}
    BY <1>5
  <2> HIDE DEF marked, next, g, e, s
  <2>4. QED BY <1>4, <2>1, <2>2, <2>3 DEF Run
<1> HIDE DEF s, next, g
<1>12. rows' \in [Name -> DueRow] /\ \A m \in Name : RowGoesOn(m)
  <2>1. CASE UNCHANGED rows
    BY <1>3, <2>1, RowsMoveOn
  <2>2. CASE next # None /\ rows' = SetNext(rows, n, g, next)
    BY <1>3, <1>5, <1>8, <2>2, RowsMoveOn
  <2>3. QED BY <1>7, <2>1, <2>2
<1>13. call' \in [Call -> FutureSet] /\ call'[k].at = "launching" /\ \A j \in Call : CallGoesOn(j)
  <2>1. call'[k].at = "launching"
    <3>1. call' = [call EXCEPT ![k] = Future("launching", call[k].todo \ {e}, call[k].clock)]
      BY <1>1 DEF Passes
    <3>2. call'[k] = Future("launching", call[k].todo \ {e}, call[k].clock)
      BY <1>2, <3>1, TypesNow
    <3>3. QED BY <3>2, Futures
  <2>2. QED BY <1>1, <2>1, PassesOn
<1>14. /\ run' \in [Call -> [Name -> RunSet]]
       /\ \A j \in Call, m \in Name : RunGoesOn(j, m) \/ RunStarts(j, m)
  <2>1. CASE answer = "no"
    BY <1>2, <1>10, <2>1, RunsStay, TypesNow
  <2>2. CASE answer # "no"
    <3>1. s \in RunSet
      BY <1>11 DEF RunSet
    <3>2. /\ run' \in [Call -> [Name -> RunSet]] /\ run'[k][n] = s
          /\ \A j \in Call, m \in Name : ~(j = k /\ m = n) => run'[j][m] = run[j][m]
      BY <1>2, <1>3, <1>9, <2>2, <3>1, RunChanges
    <3>3. \A j \in Call, m \in Name : ~(j = k /\ m = n) => RunGoesOn(j, m)
      BY <3>2, LostGoesOn
    <3>4. answer = "yes" => rows'[n].next = next /\ next # None
      <4>1. ASSUME answer = "yes" PROVE rows'[n].next = next
        <5>1. rows' = [rows EXCEPT ![n] = [rows[n] EXCEPT !.next = next]]
          BY <1>7, <4>1 DEF SetNext
        <5>2. rows \in [Name -> DueRow]
          BY <1>2, TypesNow
        <5>3. rows'[n] = [rows[n] EXCEPT !.next = next] /\ rows[n] \in DueRow
          BY <1>3, <5>1, <5>2
        <5>4. QED BY <5>3 DEF DueRow, RowSet
      <4>2. QED BY <1>7, <4>1
    <3>5. s # NoRun
      BY <1>11, RunFields
    <3>6. RunStarts(k, n)
      BY <1>1, <1>11, <1>13, <2>2, <3>2, <3>4, <3>5 DEF RunStarts, next, g
    <3>7. QED BY <3>2, <3>3, <3>6
  <2>3. QED BY <2>1, <2>2
<1>15. names' \subseteq Monty
  BY <1>2, <1>9, <1>10, NamesOK, TypesNow
<1>16. TypeOK'
  BY <1>1, <1>2, <1>7, <1>12, <1>13, <1>14, <1>15, SpentOK, TypesNow, TypesFrom
<1>17. now \in Nat
  BY <1>2, DueAssumption DEF TypeOK, Instant
<1>18. Onward
  BY <1>1, <1>12, <1>13, <1>14, <1>17 DEF Onward
<1>19. QED BY <1>16, <1>18

\* A call lists when no other goes on, or nothing is said of it.
LEMMA ListKeepsOrder ==
  ASSUME OInv, NEW k \in Call, List(k)
  PROVE  OInv'
<1> DEFINE list == {[name |-> n, row |-> rows[n]] : n \in ActiveNames(rows)}
<1>1. /\ At(k, "new") /\ \A j \in Call : j < k => ~At(j, "new")
      /\ call' = [call EXCEPT ![k] = Future("listed", list, 0)]
      /\ overlapped' = (overlapped \/ \E j \in Call : Alive(j) \/ Trailing(j))
      /\ UNCHANGED rows /\ UNCHANGED now /\ UNCHANGED run /\ UNCHANGED late
      /\ UNCHANGED names /\ UNCHANGED spent
  BY DEF List
<1>2. TypeOK /\ Futile /\ Behind /\ ActiveHasNext
  BY DEF OInv
<1>3. \A e \in list : e \in Listed /\ IsActive(rows, e.name) /\ e.name \in Name /\ e.row = rows[e.name]
  <2>1. \A n \in ActiveNames(rows) : n \in Name /\ IsActive(rows, n) /\ rows[n] \in DueRow
    BY <1>2 DEF ActiveNames, TypeOK
  <2>2. QED BY <2>1 DEF Listed
<1> HIDE DEF list
<1>4. /\ call' \in [Call -> FutureSet]
      /\ call'[k].at = "listed" /\ call'[k].todo = list
      /\ \A j \in Call \ {k} : call'[j] = call[j]
  <2>1. "listed" \in Where /\ list \in SUBSET Listed /\ 0 \in Instant
    BY <1>3, DueAssumption DEF Where, Instant
  <2>2. TypeOK /\ call' = [call EXCEPT ![k] = Future("listed", list, 0)]
    BY <1>1, <1>2
  <2>3. QED BY ZenonT(30), <2>1, <2>2, CallMoves
<1>5. overlapped' \in BOOLEAN
  BY <1>1
<1>6. TypeOK'
  BY <1>1, <1>2, <1>4, <1>5, TypesNow, TypesFrom
<1>7. Futile'
  <2>1. ASSUME NEW j \in Call
        PROVE  /\ call'[j].at = "new" => late'[j] = NoWrite /\ \A n \in Name : run'[j][n] = NoRun
               /\ call'[j].at \notin {"new", "ended"} => late'[j] = NoWrite
               /\ call'[j].at \in {"new", "ended"} => call'[j].todo = {}
    <3>1. CASE j = k
      BY <1>1, <1>2, <1>4, <3>1 DEF Futile, At
    <3>2. CASE j # k
      BY <1>1, <1>2, <1>4, <3>2 DEF Futile, At, Alive
    <3>3. QED BY <3>1, <3>2
  <2>2. QED BY <2>1 DEF Futile, At, Alive
<1>8. Behind'
  <2>1. ASSUME NEW j \in Call
        PROVE  /\ Going(j)' => call'[j].clock <= now'
               /\ \A e \in call'[j].todo :
                    /\ e.row.generation <= rows'[e.name].generation
                    /\ e.row.next # None
                    /\ Going(j)' => e.row.next <= call'[j].clock
               /\ At(j, "claimed")' => call'[j].todo # {} /\ ~ConsumedLast(First(j))'
    <3>1. CASE j = k
      <4>1. ~Going(j)' /\ ~At(j, "claimed")'
        BY <1>4, <3>1 DEF Going, At
      <4>2. ASSUME NEW e \in list
            PROVE  e.row.generation <= rows[e.name].generation /\ e.row.next # None
        <5>1. e.row = rows[e.name] /\ e.row \in DueRow /\ e.row.next # None
          BY <1>2, <1>3 DEF ActiveHasNext, TypeOK
        <5>2. e.row.generation \in Nat
          BY <5>1, RowFields, GenerationAssumption DEF Generation
        <5>3. QED BY <5>1, <5>2
      <4>3. QED BY <1>1, <1>4, <3>1, <4>1, <4>2
    <3>2. CASE j # k
      <4>1. call'[j] = call[j]
        BY <1>4, <3>2
      <4>2. First(j)' = First(j)
        BY <4>1 DEF First
      <4>3. QED BY <1>1, <1>2, <4>1, <4>2 DEF Behind, Going, At, ConsumedLast
    <3>3. QED BY <3>1, <3>2
  <2>2. QED BY <2>1 DEF Behind
<1>9. ActiveHasNext'
  BY <1>1, <1>2 DEF ActiveHasNext, IsActive
<1>10. ASSUME ~overlapped'
       PROVE  OneGoesOn' /\ \A n \in Name, j \in Call : Started(j, n)' => Beyond(n, j)'
  <2>1. ~overlapped /\ OneGoesOn /\ \A n \in Name, j \in Call : Started(j, n) => Beyond(n, j)
    BY <1>1, <1>10 DEF OInv
  <2>2. \A j \in Call : Quiet(j)
    BY <1>1, <1>10 DEF Quiet, Trailing
  <2>3. OneGoesOn'
    <3>1. ASSUME NEW i \in Call, NEW j \in Call, i < j, call'[j].at # "new"
          PROVE  /\ call'[i].at # "new" /\ call'[i].at \in {"new", "ended"} /\ late'[i] = NoWrite
                 /\ \A n \in Name : run'[i][n].state \in {"none", "done", "lost"}
      <4>1. i # k
        <5>1. CASE i = k
          <6>1. j # k /\ call[j].at # "new"
            BY <1>4, <3>1, <5>1, DueAssumption DEF Call
          <6>2. QED BY <1>1, <2>1, <3>1, <5>1, <6>1 DEF OneGoesOn, At
        <5>2. QED BY <5>1
      <4>2. call[i].at # "new"
        <5>1. CASE j = k
          BY <1>1, <3>1, <5>1 DEF At
        <5>2. CASE j # k
          BY <1>4, <2>1, <3>1, <5>2 DEF OneGoesOn, At
        <5>3. QED BY <5>1, <5>2
      <4>3. QED BY <1>1, <1>4, <2>2, <4>1, <4>2 DEF Quiet, Alive, Over
    <3>2. QED BY <3>1 DEF OneGoesOn, At, Quiet, Alive, Over
  <2>4. ASSUME NEW n \in Name, NEW j \in Call, Started(j, n)'
        PROVE  Beyond(n, j)'
    <3> DEFINE r == run[j][n]
    <3>1. Started(j, n) /\ Beyond(n, j) /\ run'[j][n] = r
      BY <1>1, <2>1, <2>4 DEF Started
    <3>2. /\ r.occurrence <= now /\ r.advance # "no" /\ (r.next = None => NextRun(n, now) = None)
          /\ RowIsBeyond(n, r)
          /\ \A i \in Call : CallIsBeyond(n, r, i)
          /\ \A i \in Call \ {j} : ListedIsBeyond(n, r, i)
          /\ \A i \in Call : /\ j < i /\ Started(i, n)
                             /\ run[i][n].generation = r.generation
                             /\ run[i][n].occurrence = r.occurrence
                             => MayRunAgain(r)
      BY <3>1 DEF Beyond
    <3> HIDE DEF r
    <3>3. RowIsBeyond(n, run[j][n])'
      BY <1>1, <3>2 DEF RowIsBeyond, r, IsActive, Exhausted
    <3>4. ASSUME NEW i \in Call PROVE CallIsBeyond(n, run[j][n], i)'
      <4>1. Going(i)' => Going(i) /\ call'[i] = call[i]
        BY <1>4 DEF Going
      <4>2. CallIsBeyond(n, r, i)
        BY <3>2
      <4>3. QED BY <1>1, <4>1, <4>2 DEF CallIsBeyond, r, Live, Over, Exhausted
    <3>5. ASSUME NEW i \in Call \ {j} PROVE ListedIsBeyond(n, run[j][n], i)'
      <4>1. CASE i # k
        <5>1. call'[i] = call[i] /\ ListedIsBeyond(n, r, i)
          BY <1>4, <3>2, <4>1
        <5>2. QED BY <1>1, <5>1 DEF ListedIsBeyond, r, MayRunAgain, ConsumedLast
      <4>2. CASE i = k
        <5>1. ASSUME NEW e \in list, e.name = n, e.row.generation = r.generation,
                     e.row.next = r.occurrence
              PROVE  MayRunAgain(r) \/ (r.advance # "yes" /\ ConsumedLast(e))
          <6>1. /\ IsActive(rows, n) /\ e.row = rows[n] /\ r \in Run
                /\ r.generation = rows[n].generation /\ r.occurrence = rows[n].next
            BY <1>2, <1>3, <3>1, <5>1 DEF TypeOK, Started, r
          <6>2. r.occurrence \in Nat
            BY <6>1, RunFields, DueAssumption
          <6>3. r.advance # "yes"
            BY <3>2, <6>1, <6>2 DEF RowIsBeyond
          <6>4. r.next = None /\ r.recorded => ConsumedLast(e)
            BY <3>2, <5>1, <6>1 DEF RowIsBeyond, Exhausted, ConsumedLast
          <6>5. QED BY <6>3, <6>4 DEF MayRunAgain
        <5>2. QED BY <1>1, <1>4, <4>2, <5>1 DEF ListedIsBeyond, r, MayRunAgain, ConsumedLast
      <4>3. QED BY <4>1, <4>2
    <3>6. QED BY <1>1, <3>2, <3>3, <3>4, <3>5 DEF Beyond, r, Started, MayRunAgain
  <2>5. QED BY <2>3, <2>4
<1>11. QED BY <1>6, <1>7, <1>8, <1>9, <1>10 DEF OInv

-----------------------------------------------------------------------------
LEMMA OrderInit == Init => OInv
<1> SUFFICES ASSUME Init PROVE OInv
  OBVIOUS
<1>1. /\ rows = [n \in Name |-> [generation |-> 1, enabled |-> TRUE, next |-> NextRun(n, 0),
                                 last |-> None, ended |-> FALSE]]
      /\ now = 1 /\ call = [k \in Call |-> Future("new", {}, 0)]
      /\ run = [k \in Call |-> [n \in Name |-> NoRun]]
      /\ late = [k \in Call |-> NoWrite] /\ names = {} /\ overlapped = FALSE /\ spent = 0
  BY DEF Init
<1>2. ASSUME NEW n \in Name PROVE NextRun(n, 0) \in 1 .. MaxTime
  <2>1. Occ[n] \subseteq 1 .. MaxTime /\ Occ[n] # {}
    BY DueAssumption
  <2>2. \E o \in Occ[n] : o > 0
    BY <2>1
  <2>3. QED BY <2>2, NextRunOK
<1>3. ASSUME NEW n \in Name PROVE rows[n] \in DueRow /\ rows[n].next # None
  <2> DEFINE next == NextRun(n, 0)
  <2>1. rows[n] = [generation |-> 1, enabled |-> TRUE, next |-> next, last |-> None,
                   ended |-> FALSE]
    BY <1>1
  <2>2. next \in 1 .. MaxTime /\ 1 \in Generation
    BY <1>2, GenerationAssumption DEF Generation
  <2> HIDE DEF next
  <2>3. QED BY <2>1, <2>2, NullAssumption DEF DueRow, RowSet
<1>4. rows \in [Name -> DueRow]
  BY <1>1, <1>3
<1>5. \A k \in Call : call[k] = Future("new", {}, 0) /\ late[k] = NoWrite
                      /\ \A n \in Name : run[k][n] = NoRun
  BY <1>1
<1>6. Future("new", {}, 0) \in FutureSet
  BY DueAssumption DEF Future, FutureSet, Where, Instant
<1>7. TypeOK
  <2>1. call \in [Call -> FutureSet]
    BY <1>1, <1>6
  <2>2. now \in Instant /\ spent \in 0 .. MaxEvents
    BY <1>1, DueAssumption DEF Instant
  <2>3. run \in [Call -> [Name -> {NoRun} \cup Run]] /\ late \in [Call -> Write]
    BY <1>1 DEF Write
  <2>4. QED BY <1>1, <1>4, <2>1, <2>2, <2>3 DEF TypeOK, FutureSet
<1>8. \A k \in Call : call[k].at = "new" /\ call[k].todo = {}
  BY <1>5, Futures
<1>9. Futile /\ Behind /\ ActiveHasNext
  BY <1>3, <1>5, <1>8 DEF Futile, Behind, ActiveHasNext, At, Going, Alive
<1>10. OneGoesOn /\ \A n \in Name, j \in Call : ~Started(j, n)
  BY <1>5, <1>8 DEF OneGoesOn, At, Started
<1>11. QED BY <1>7, <1>9, <1>10 DEF OInv

LEMMA OrderStep == OInv /\ [Next]_vars => OInv'
<1> SUFFICES ASSUME OInv, [Next]_vars PROVE OInv'
  OBVIOUS
<1>1. ASSUME NEW k \in Call, CallStep(k) \/ Drop(k) \/ LateWrite(k)
      PROVE  OInv'
  BY <1>1, ReadClockGoesOn, EndFinalGoesOn, ClaimGoesOn, LaunchGoesOn, CollectsGoesOn,
     DropGoesOn, LateWriteGoesOn, OnwardKeeps DEF CallStep
<1>2. ASSUME NEW k \in Call, NEW n \in Name, RunStep(k, n) \/ Panic(k, n)
      PROVE  OInv'
  BY <1>2, FinishGoesOn, JoinFailedGoesOn, PersistGoesOn, FollowUpGoesOn, ReleaseGoesOn,
     PanicGoesOn, OnwardKeeps DEF RunStep
<1>3. CASE Die \/ Change \/ Tick \/ UNCHANGED vars
  BY <1>3, DieGoesOn, ChangeGoesOn, TickGoesOn, OnwardKeeps
<1>4. QED BY <1>1, <1>2, <1>3, ListKeepsOrder DEF Next

\* Every variable keeps its type: a row's next run and last record are instants or
\* NULL, a listed row is a row, and a run has the record that record_due fills in.
THEOREM TypeCorrect == Spec => []TypeOK
<1>1. OInv => TypeOK
  BY DEF OInv
<1>2. QED BY <1>1, OrderInit, OrderStep, PTL DEF Spec

\* With one call of run_due after another, an occurrence is started a second time only
\* if its next run was not stored before the first start, and the final one only if the
\* first start was not recorded either, whatever is dropped, dies, fails or is changed
\* by others in between.
THEOREM RunsOnce == Spec => []SerialRunsOnce
<1>1. ASSUME OInv PROVE SerialRunsOnce
  <2> SUFFICES ASSUME ~overlapped, NEW j \in Call, NEW k \in Call, NEW n \in Name, j < k,
                      run[j][n] # NoRun, run[k][n] # NoRun,
                      run[j][n].generation = run[k][n].generation,
                      run[j][n].occurrence = run[k][n].occurrence
               PROVE  /\ run[j][n].advance \in {"failed", "none"}
                      /\ run[j][n].next = None => ~run[j][n].recorded
    BY DEF SerialRunsOnce
  <2>1. Beyond(n, j)
    BY <1>1 DEF OInv, Started
  <2>2. MayRunAgain(run[j][n]) /\ run[j][n].advance # "no"
    BY <2>1 DEF Beyond, Started
  <2>3. run[j][n] \in Run
    BY <1>1 DEF OInv, TypeOK
  <2>4. QED BY <2>2, <2>3, RunFields DEF MayRunAgain
<1>2. QED BY <1>1, OrderInit, OrderStep, PTL DEF Spec

-----------------------------------------------------------------------------
(* SerialEndsFinal                                                         *)
(*                                                                         *)
(* Whoever is about to end a row, a call at its recorded final, a run that *)
(* noted its own record or a write left behind, knows of a record after    *)
(* which there is nothing; with one call after another nobody records      *)
(* another one in between.                                                 *)

\* The row, if it is still this one, has a record, not a disable's, after which
\* there is nothing.
FinalRow(n, g) ==
  Matches(rows, n, g) =>
    rows[n].last # None /\ ~rows[n].last.refused /\ NextRun(n, rows[n].last.at) = None

Ender(k) == late[k] # NoWrite /\ late[k][3] = None

\* A name is listed once, and has not run yet; no call goes on with a row that is
\* left; a write left behind ends a row whose run was not started.
ListedOnce ==
  \A k \in Call :
    /\ \A e, f \in call[k].todo : e.name = f.name => e = f
    /\ \A e \in call[k].todo : run[k][e.name] = NoRun /\ (Going(k) => ~Left(e))
    /\ Ender(k) => /\ run[k][late[k][1]] = NoRun
                   /\ late[k][2] <= rows[late[k][1]].generation

\* A run that was noted, was recorded.
NotedIsRecorded ==
  \A k \in Call, n \in Name : run[k][n].state = "noted" => run[k][n].recorded

\* Nobody records a run while it is about to end a row.
RecordStays ==
  /\ \A k \in Call : \A e \in call[k].todo :
       Matches(rows, e.name, e.row.generation) => rows[e.name].last = e.row.last
  /\ \A k \in Call, n \in Name :
       run[k][n].state = "noted" /\ Matches(rows, n, run[k][n].generation) =>
         rows[n].last # None /\ ~rows[n].last.refused
  /\ \A k \in Call : Ender(k) => FinalRow(late[k][1], late[k][2])

EInv == ListedOnce /\ NotedIsRecorded /\ (~overlapped => RecordStays)

\* What a step keeps, so that the record stands: the record of a row that goes on, and
\* the state of the runs that noted one.
LastStays(n) == Matches(rows', n, rows[n].generation) => rows'[n].last = rows[n].last

NotedBefore(k, n) ==
  run'[k][n].state = "noted" =>
    run[k][n].state = "noted" /\ run'[k][n].recorded = run[k][n].recorded

\* A call leaves behind the write that ends a row it found recorded.
LeavesEnd(k) ==
  /\ late'[k] \in Name \X Generation \X {None}
  /\ run'[k][late'[k][1]] = NoRun /\ late'[k][2] <= rows'[late'[k][1]].generation
  /\ ~overlapped => FinalRow(late[k][1], late[k][2])'

\* A call goes on to launch rows it may launch, and takes a launched one off its list.
ListGoesOn(k) ==
  /\ call'[k].at \in {"launching", "claimed"} => Going(k) \/ \A e \in call'[k].todo : ~Left(e)
  /\ At(k, "claimed") /\ call'[k].at = "launching" => First(k) \notin call'[k].todo
  /\ \/ late'[k] = late[k] \/ late'[k] = NoWrite
     \/ late'[k][3] # None \/ LeavesEnd(k)

\* The write that ends a row left behind.
LEMMA EnderWrite ==
  ASSUME TypeOK, NEW k \in Call, late[k] # NoWrite
  PROVE  late[k][1] \in Name /\ late[k][2] \in Generation
<1>1. late[k] \in Name \X Generation \X ((1 .. MaxTime) \cup {None})
  BY DEF TypeOK, Write
<1>2. QED BY <1>1

LEMMA Generations ==
  ASSUME TypeOK, NEW n \in Name
  PROVE  rows[n] \in DueRow /\ rows[n].generation \in Nat /\ rows[n].generation \in Generation
<1>1. rows[n] \in DueRow
  BY DEF TypeOK
<1>2. QED BY <1>1, RowFields, GenerationAssumption DEF Generation

LEMMA ListedKept ==
  ASSUME OInv, EInv, TypeOK', Onward, \A k \in Call : ListGoesOn(k)
  PROVE  ListedOnce'
<1>1. TypeOK /\ Futile /\ ListedOnce
  BY DEF OInv, EInv
<1>2. ASSUME NEW k \in Call
      PROVE  /\ \A e, f \in call'[k].todo : e.name = f.name => e = f
             /\ \A e \in call'[k].todo :
                  run'[k][e.name] = NoRun /\ (call'[k].at \in {"launching", "claimed"} => ~Left(e))
             /\ late'[k] # NoWrite /\ late'[k][3] = None =>
                  /\ run'[k][late'[k][1]] = NoRun
                  /\ late'[k][2] <= rows'[late'[k][1]].generation
  <2>1. call'[k].todo \subseteq call[k].todo /\ ListGoesOn(k) /\ call[k].todo \subseteq Listed
    BY <1>1 DEF Onward, CallGoesOn, TypeOK
  <2>2. /\ \A e, f \in call[k].todo : e.name = f.name => e = f
        /\ \A e \in call[k].todo : run[k][e.name] = NoRun /\ (Going(k) => ~Left(e))
    BY <1>1 DEF ListedOnce
  <2>3. ASSUME NEW e \in call'[k].todo
        PROVE  run'[k][e.name] = NoRun
    <3>1. e \in call[k].todo /\ e.name \in Name
      BY <2>1 DEF Listed
    <3>2. CASE RunGoesOn(k, e.name)
      BY <2>2, <3>1, <3>2 DEF RunGoesOn, Started
    <3>3. CASE RunStarts(k, e.name)
      <4>1. At(k, "claimed") /\ call'[k].at = "launching" /\ First(k).name = e.name
        BY <3>3 DEF RunStarts
      <4>2. First(k) \in call[k].todo
        BY <2>1, <3>1, FirstOK
      <4>3. First(k) = e
        BY <2>2, <3>1, <4>1, <4>2
      <4>4. QED BY <2>1, <4>1, <4>3 DEF ListGoesOn
    <3>4. QED BY <3>1, <3>2, <3>3 DEF Onward
  <2>4. ASSUME NEW e \in call'[k].todo, call'[k].at \in {"launching", "claimed"}
        PROVE  ~Left(e)
    BY <2>1, <2>2, <2>4 DEF ListGoesOn
  <2>5. ASSUME late'[k] # NoWrite, late'[k][3] = None
        PROVE  /\ run'[k][late'[k][1]] = NoRun
               /\ late'[k][2] <= rows'[late'[k][1]].generation
    <3>1. CASE LeavesEnd(k)
      BY <3>1 DEF LeavesEnd
    <3>2. CASE late'[k] = late[k]
      <4>1. PICK n \in Name : n = late[k][1]
        BY <1>1, <2>5, <3>2, EnderWrite
      <4>2. PICK g \in Generation : g = late[k][2]
        BY <1>1, <2>5, <3>2, EnderWrite
      <4>3. run[k][n] = NoRun /\ g <= rows[n].generation
        BY <1>1, <2>5, <3>2, <4>1, <4>2 DEF ListedOnce, Ender
      <4>4. run'[k][n] = NoRun
        <5>1. CASE RunGoesOn(k, n)
          BY <4>3, <5>1 DEF RunGoesOn, Started
        <5>2. CASE RunStarts(k, n)
          <6>1. Alive(k)
            BY <5>2 DEF RunStarts, At, Alive
          <6>2. QED BY <1>1, <2>5, <3>2, <6>1 DEF Futile
        <5>3. QED BY <5>1, <5>2 DEF Onward
      <4>5. /\ rows[n].generation \in Nat /\ rows'[n].generation \in Nat
            /\ rows[n].generation <= rows'[n].generation /\ g \in Nat
        <5>1. rows[n].generation \in Nat /\ g \in Nat
          BY <1>1, Generations, GenerationAssumption DEF Generation
        <5>2. rows'[n] \in DueRow
          BY DEF TypeOK
        <5>3. rows'[n].generation \in Nat
          BY <5>2, RowFields, GenerationAssumption DEF Generation
        <5>4. QED BY <5>1, <5>3 DEF Onward, RowGoesOn
      <4>6. g <= rows'[n].generation
        BY <4>3, <4>5
      <4>7. QED BY <3>2, <4>1, <4>2, <4>4, <4>6
    <3>3. QED BY <2>1, <2>5, <3>1, <3>2 DEF ListGoesOn
  <2>6. QED BY <2>1, <2>2, <2>3, <2>4, <2>5
<1>3. QED BY <1>2 DEF ListedOnce, Ender, Going, Left, ConsumedLast

\* A row that is still this one after a step was this one before it.
LEMMA MatchedBefore ==
  ASSUME TypeOK, TypeOK', NEW n \in Name, RowGoesOn(n), NEW g \in Generation,
         g <= rows[n].generation, Matches(rows', n, g)
  PROVE  Matches(rows, n, g) /\ rows[n].generation = g /\ Matches(rows', n, rows[n].generation)
<1>1. rows[n].generation \in Nat /\ g \in Nat
  BY Generations, GenerationAssumption DEF Generation
<1>2. rows'[n] \in DueRow
  BY DEF TypeOK
<1>3. rows'[n].generation \in Nat
  BY <1>2, RowFields, GenerationAssumption DEF Generation
<1>4. IsActive(rows', n) /\ rows'[n].generation = g
  BY DEF Matches
<1>5. IsActive(rows, n) /\ rows[n].generation <= rows'[n].generation
  BY <1>4 DEF RowGoesOn
<1>6. rows[n].generation = g
  BY <1>1, <1>3, <1>4, <1>5
<1>7. QED BY <1>4, <1>5, <1>6 DEF Matches

LEMMA StaysKept ==
  ASSUME OInv, EInv, TypeOK', Onward, \A k \in Call : ListGoesOn(k),
         \A n \in Name : LastStays(n), \A k \in Call, n \in Name : NotedBefore(k, n)
  PROVE  EInv'
<1>1. TypeOK /\ Futile /\ Behind /\ ListedOnce /\ NotedIsRecorded
  BY DEF OInv, EInv
<1>2. NotedIsRecorded'
  BY <1>1 DEF NotedIsRecorded, NotedBefore
<1>3. ASSUME ~overlapped' PROVE RecordStays'
  <2>1. ~overlapped /\ RecordStays
    BY <1>3 DEF Onward, EInv
  <2>2. ASSUME NEW k \in Call, NEW e \in call'[k].todo,
               Matches(rows', e.name, e.row.generation)
        PROVE  rows'[e.name].last = e.row.last
    <3>1. e \in call[k].todo /\ call[k].todo \subseteq Listed
      BY <1>1 DEF Onward, CallGoesOn, TypeOK
    <3>2. e.name \in Name /\ e.row \in DueRow
      BY <3>1 DEF Listed
    <3>3. e.row.generation \in Generation /\ e.row.generation <= rows[e.name].generation
      BY <1>1, <3>1, <3>2, RowFields DEF Behind
    <3>4. RowGoesOn(e.name)
      BY <3>2 DEF Onward
    <3>5. /\ Matches(rows, e.name, e.row.generation)
          /\ Matches(rows', e.name, rows[e.name].generation)
      BY <1>1, <2>2, <3>2, <3>3, <3>4, MatchedBefore
    <3>6. rows[e.name].last = e.row.last
      BY <2>1, <3>1, <3>5 DEF RecordStays
    <3>7. QED BY <3>2, <3>5, <3>6 DEF LastStays
  <2>3. ASSUME NEW k \in Call, NEW n \in Name, run'[k][n].state = "noted",
               Matches(rows', n, run'[k][n].generation)
        PROVE  rows'[n].last # None /\ ~rows'[n].last.refused
    <3> DEFINE g == run[k][n].generation
    <3>1. run[k][n].state = "noted"
      BY <2>3 DEF NotedBefore
    <3>2. run[k][n] \in Run /\ Started(k, n) /\ g \in Generation
      BY <3>1, StartedRun
    <3>3. run'[k][n].generation = g
      <4>1. ~RunStarts(k, n)
        BY <2>3 DEF RunStarts
      <4>2. RunGoesOn(k, n)
        BY <4>1 DEF Onward
      <4>3. QED BY <3>2, <4>2 DEF RunGoesOn
    <3>4. RowIsBeyond(n, run[k][n]) /\ RowGoesOn(n)
      BY <2>1, <3>2 DEF OInv, Beyond, Onward
    <3>5. g <= rows[n].generation /\ Matches(rows', n, g)
      BY <2>3, <3>3, <3>4 DEF RowIsBeyond
    <3> HIDE DEF g
    <3>6. Matches(rows, n, g) /\ Matches(rows', n, rows[n].generation)
      BY <1>1, <3>2, <3>4, <3>5, MatchedBefore
    <3>7. rows[n].last # None /\ ~rows[n].last.refused
      BY <2>1, <3>1, <3>6 DEF RecordStays, g
    <3>8. QED BY <3>6, <3>7 DEF LastStays
  <2>4. ASSUME NEW k \in Call, late'[k] # NoWrite, late'[k][3] = None
        PROVE  FinalRow(late[k][1], late[k][2])'
    <3>1. CASE LeavesEnd(k)
      BY <2>1, <3>1 DEF LeavesEnd
    <3>2. CASE late'[k] = late[k]
      <4>1. PICK n \in Name : n = late[k][1]
        BY <1>1, <2>4, <3>2, EnderWrite
      <4>2. PICK g \in Generation : g = late[k][2]
        BY <1>1, <2>4, <3>2, EnderWrite
      <4>3. FinalRow(n, g) /\ g <= rows[n].generation
        BY <1>1, <2>1, <2>4, <3>2, <4>1, <4>2 DEF ListedOnce, RecordStays, Ender
      <4>4. ASSUME Matches(rows', n, g)
            PROVE  /\ rows'[n].last # None /\ ~rows'[n].last.refused
                   /\ NextRun(n, rows'[n].last.at) = None
        <5>1. RowGoesOn(n)
          BY DEF Onward
        <5>2. Matches(rows, n, g) /\ Matches(rows', n, rows[n].generation)
          BY <1>1, <4>3, <4>4, <5>1, MatchedBefore
        <5>3. rows'[n].last = rows[n].last
          BY <5>2 DEF LastStays
        <5>4. QED BY <4>3, <5>2, <5>3 DEF FinalRow
      <4>5. late'[k][1] = n /\ late'[k][2] = g
        BY <3>2, <4>1, <4>2
      <4>6. QED BY <4>4, <4>5 DEF FinalRow
    <3>3. QED BY <2>4, <3>1, <3>2 DEF ListGoesOn
  <2>5. QED BY <2>2, <2>3, <2>4 DEF RecordStays, Ender
<1>4. QED BY <1>2, <1>3, ListedKept DEF EInv

\* Writes that leave the record of a row that goes on alone.
LEMMA LastsStay ==
  ASSUME TypeOK, NEW n \in Name, NEW g,
         \/ UNCHANGED rows
         \/ rows' = Stop(rows, n, g)
         \/ \E t \in 1 .. MaxTime : rows' = SetNext(rows, n, g, t)
  PROVE  \A m \in Name : LastStays(m)
<1>1. rows \in [Name -> DueRow] /\ rows[n] \in DueRow
  BY TypesNow
<1>2. CASE UNCHANGED rows
  BY <1>2 DEF LastStays
<1>3. CASE ~UNCHANGED rows
  <2>1. \A m \in Name \ {n} : rows'[m] = rows[m]
    BY <1>1 DEF Stop, SetNext
  <2>2. CASE rows' = Stop(rows, n, g)
    <3>1. rows' = [rows EXCEPT ![n] = [rows[n] EXCEPT !.ended = TRUE, !.next = None]]
      BY <1>3, <2>2 DEF Stop
    <3>2. rows'[n] = [rows[n] EXCEPT !.ended = TRUE, !.next = None]
      BY <1>1, <3>1
    <3>3. rows'[n].ended
      BY <1>1, <3>2 DEF DueRow, RowSet
    <3>4. QED BY <2>1, <3>3 DEF LastStays, Matches, IsActive
  <2>3. ASSUME NEW t \in 1 .. MaxTime, rows' = SetNext(rows, n, g, t)
        PROVE  rows'[n].last = rows[n].last
    <3>1. rows' = [rows EXCEPT ![n] = [rows[n] EXCEPT !.next = t]]
      BY <1>3, <2>3 DEF SetNext
    <3>2. rows'[n] = [rows[n] EXCEPT !.next = t]
      BY <1>1, <3>1
    <3>3. QED BY <1>1, <3>2 DEF DueRow, RowSet
  <2>4. QED BY <1>3, <2>1, <2>2, <2>3 DEF LastStays
<1>4. QED BY <1>2, <1>3

LEMMA ListStays ==
  ASSUME NEW k \in Call, call'[k] = call[k], late'[k] = late[k] \/ late'[k] = NoWrite
  PROVE  ListGoesOn(k)
<1>1. call'[k].at \in {"launching", "claimed"} => Going(k)
  BY DEF Going
<1>2. ~(At(k, "claimed") /\ call'[k].at = "launching")
  BY DEF At
<1>3. QED BY <1>1, <1>2 DEF ListGoesOn

\* A call that goes on to launch takes the list up, or takes the first row off it.
LEMMA ListMoves ==
  ASSUME TypeOK, NEW k \in Call, NEW where \in Where, NEW todo \in SUBSET Listed,
         NEW clock \in Instant, call' = [call EXCEPT ![k] = Future(where, todo, clock)],
         UNCHANGED late,
         where \in {"launching", "claimed"} => Going(k) \/ \A e \in todo : ~Left(e),
         At(k, "claimed") /\ where = "launching" => First(k) \notin todo
  PROVE  \A j \in Call : ListGoesOn(j)
<1>1. /\ call'[k].at = where /\ call'[k].todo = todo
      /\ \A j \in Call \ {k} : call'[j] = call[j]
  <2>1. call \in [Call -> FutureSet] /\ call'[k] = Future(where, todo, clock)
        /\ \A j \in Call \ {k} : call'[j] = call[j]
    BY DEF TypeOK, FutureSet
  <2>2. Future(where, todo, clock).at = where /\ Future(where, todo, clock).todo = todo
    BY DEF Future
  <2>3. QED BY <2>1, <2>2
<1>2. ListGoesOn(k)
  BY <1>1 DEF ListGoesOn
<1>3. QED BY <1>1, <1>2, ListStays

LEMMA RunNotNoted ==
  ASSUME TypeOK, NEW k \in Call, NEW n \in Name, NEW s, run' = [run EXCEPT ![k][n] = s],
         s.state # "noted"
  PROVE  \A j \in Call, m \in Name : NotedBefore(j, m)
<1>1. run \in [Call -> [Name -> RunSet]]
  BY TypesNow
<1>2. run'[k][n] = s /\ \A j \in Call, m \in Name : ~(j = k /\ m = n) => run'[j][m] = run[j][m]
  BY <1>1
<1>3. QED BY <1>2 DEF NotedBefore

LEMMA CallStepEnds ==
  ASSUME OInv, EInv, NEW k \in Call, CallStep(k)
  PROVE  EInv'
<1>1. TypeOK /\ call[k].todo \in SUBSET Listed /\ call[k].clock \in Instant /\ now \in Instant
  BY DEF OInv, TypeOK
<1>2. TypeOK' /\ Onward
  BY ReadClockGoesOn, EndFinalGoesOn, ClaimGoesOn, LaunchGoesOn, CollectsGoesOn DEF CallStep
<1>3. {"launching", "claimed", "collecting", "ended"} \subseteq Where /\ 0 \in Instant
  BY DueAssumption DEF Where, Instant
<1>4. ASSUME Passes(k), Going(k), UNCHANGED late PROVE \A j \in Call : ListGoesOn(j)
  <2> DEFINE todo == call[k].todo \ {First(k)}
  <2>1. call' = [call EXCEPT ![k] = Future("launching", todo, call[k].clock)]
    BY <1>4 DEF Passes
  <2>2. todo \in SUBSET Listed /\ First(k) \notin todo
    BY <1>1
  <2> HIDE DEF todo
  <2>3. QED BY <1>1, <1>3, <1>4, <2>1, <2>2, ListMoves
<1>5. CASE ReadClock(k)
  <2> DEFINE due == {r \in call[k].todo : Due(r, now)}
  <2>1. /\ call' = [call EXCEPT ![k] = Future("launching", due, now)]
        /\ UNCHANGED rows /\ UNCHANGED run /\ UNCHANGED late /\ ~At(k, "claimed")
    BY <1>5 DEF ReadClock, At
  <2>2. due \in SUBSET Listed /\ \A e \in due : ~Left(e)
    BY <1>1 DEF Due
  <2> HIDE DEF due
  <2>3. \A j \in Call : ListGoesOn(j)
    BY <1>1, <1>3, <2>1, <2>2, ListMoves
  <2>4. QED BY <1>2, <2>1, <2>3, StaysKept DEF LastStays, NotedBefore
<1>6. CASE EndFinal(k)
  <2> DEFINE n == First(k).name
             g == First(k).row.generation
  <2>1. /\ Passes(k) /\ Going(k) /\ call[k].todo # {} /\ UNCHANGED run /\ UNCHANGED late
        /\ UNCHANGED rows \/ rows' = Stop(rows, n, g)
    BY <1>6 DEF EndFinal, Launching, At, Going, Answered
  <2>2. n \in Name
    BY <2>1, FirstListed
  <2> HIDE DEF n, g
  <2>3. \A m \in Name : LastStays(m)
    BY <1>1, <2>1, <2>2, LastsStay
  <2>4. QED BY <1>2, <1>4, <2>1, <2>3, StaysKept DEF NotedBefore
<1>7. CASE Claim(k)
  <2>1. /\ Going(k) /\ (Passes(k) \/ Goes(k, "claimed"))
        /\ UNCHANGED rows /\ UNCHANGED run /\ UNCHANGED late
    BY <1>7 DEF Claim, Launching, At, Going
  <2>2. CASE Goes(k, "claimed")
    <3>1. call' = [call EXCEPT ![k] = Future("claimed", call[k].todo, call[k].clock)]
      BY <2>2 DEF Goes
    <3>2. \A j \in Call : ListGoesOn(j)
      BY <1>1, <1>3, <2>1, <3>1, ListMoves
    <3>3. QED BY <1>2, <2>1, <3>2, StaysKept DEF LastStays, NotedBefore
  <2>3. QED BY <1>2, <1>4, <2>1, <2>2, StaysKept DEF LastStays, NotedBefore
<1>8. CASE Launch(k)
  <2> DEFINE n == First(k).name
             g == First(k).row.generation
             next == NextRun(n, call[k].clock)
  <2>1. /\ Passes(k) /\ Going(k) /\ call[k].todo # {} /\ UNCHANGED late
        /\ UNCHANGED rows \/ (next # None /\ rows' = SetNext(rows, n, g, next))
    BY <1>8 DEF Launch, OInv, Behind, At, Going, Answered
  <2>2. UNCHANGED run \/ \E s : run' = [run EXCEPT ![k][n] = s] /\ s.state = "running"
    <3>1. PICK answer \in {"yes", "no", "failed", "none"} :
            \/ run' = run
            \/ run' = [run EXCEPT ![k][n] =
                 [generation |-> g, occurrence |-> First(k).row.next, next |-> next,
                  advance |-> answer, state |-> "running", report |-> "ran", at |-> 0,
                  recorded |-> FALSE, marked |-> n \in Monty]]
      BY <1>8 DEF Launch
    <3> DEFINE s == [generation |-> g, occurrence |-> First(k).row.next, next |-> next,
                     advance |-> answer, state |-> "running", report |-> "ran", at |-> 0,
                     recorded |-> FALSE, marked |-> n \in Monty]
    <3>2. s.state = "running"
      OBVIOUS
    <3>3. QED BY <3>1, <3>2
  <2>3. n \in Name /\ (next # None => next \in 1 .. MaxTime)
    BY <2>1, FirstListed, NextRunOK
  <2> HIDE DEF n, g, next
  <2>4. \A m \in Name : LastStays(m)
    BY <1>1, <2>1, <2>3, LastsStay
  <2>5. \A j \in Call, m \in Name : NotedBefore(j, m)
    <3>1. CASE UNCHANGED run
      BY <3>1 DEF NotedBefore
    <3>2. ASSUME NEW s, run' = [run EXCEPT ![k][n] = s], s.state = "running"
          PROVE  \A j \in Call, m \in Name : NotedBefore(j, m)
      BY <1>1, <2>3, <3>2, RunNotNoted
    <3>3. QED BY <2>2, <3>1, <3>2
  <2>6. QED BY <1>2, <1>4, <2>1, <2>4, <2>5, StaysKept
<1>9. CASE Collects(k)
  <2>1. /\ ~At(k, "claimed") /\ (Goes(k, "collecting") \/ Ends(k))
        /\ UNCHANGED rows /\ UNCHANGED run /\ UNCHANGED late
    BY <1>9 DEF Collects, At
  <2>2. \A j \in Call : ListGoesOn(j)
    <3>1. CASE Goes(k, "collecting")
      <4>1. call' = [call EXCEPT ![k] = Future("collecting", call[k].todo, call[k].clock)]
        BY <3>1 DEF Goes
      <4>2. QED BY <1>1, <1>3, <2>1, <4>1, ListMoves
    <3>2. CASE Ends(k)
      <4>1. call' = [call EXCEPT ![k] = Future("ended", {}, 0)]
        BY <3>2 DEF Ends
      <4>2. QED BY <1>1, <1>3, <2>1, <4>1, ListMoves
    <3>3. QED BY <2>1, <3>1, <3>2
  <2>3. QED BY <1>2, <2>1, <2>2, StaysKept DEF LastStays, NotedBefore
<1>10. QED BY <1>5, <1>6, <1>7, <1>8, <1>9 DEF CallStep

\* The steps of a run but the one that records it.
LEMMA RunStepEnds ==
  ASSUME OInv, EInv, NEW k \in Call, NEW n \in Name,
         Finish(k, n) \/ JoinFailed(k, n) \/ FollowUp(k, n) \/ Release(k, n) \/ Panic(k, n)
  PROVE  EInv'
<1> DEFINE r == run[k][n]
<1>1. TypeOK /\ run \in [Call -> [Name -> RunSet]]
  BY TypesNow DEF OInv
<1>2. TypeOK' /\ Onward
  BY FinishGoesOn, JoinFailedGoesOn, FollowUpGoesOn, ReleaseGoesOn, PanicGoesOn
<1>3. UNCHANGED call /\ UNCHANGED late
  BY DEF Finish, JoinFailed, FollowUp, Release, Panic
<1>4. \A j \in Call : ListGoesOn(j)
  BY <1>3, ListStays
<1>5. run[k][n].state # "none"
  BY DEF Finish, Reports, JoinFailed, FollowUp, Release, Panic
<1>6. r \in Run /\ r.next \in (1 .. MaxTime) \cup {None}
  BY <1>5, StartedRun
<1>7. \A m \in Name : LastStays(m)
  <2>1. \/ UNCHANGED rows
        \/ rows' = Stop(rows, n, r.generation)
        \/ r.next # None /\ rows' = SetNext(rows, n, r.generation, r.next)
    BY DEF Finish, JoinFailed, FollowUp, Release, Panic, Answered
  <2> HIDE DEF r
  <2>2. QED BY <1>1, <1>6, <2>1, LastsStay
<1>8. \E s : run' = [run EXCEPT ![k][n] = s] /\ s.state # "noted"
  <2>1. CASE Finish(k, n)
    <3>1. PICK report \in {"ran", "disable", "delete"} :
            run' = [run EXCEPT ![k][n] = [r EXCEPT !.state = "stamped", !.report = report, !.at = now]]
      BY <2>1 DEF Finish, Reports
    <3> HIDE DEF r
    <3>2. [r EXCEPT !.state = "stamped", !.report = report, !.at = now].state = "stamped"
      BY <1>6 DEF Run
    <3>3. QED BY <3>1, <3>2
  <2>2. CASE JoinFailed(k, n)
    <3>1. run' = [run EXCEPT ![k][n].state = "stamped", ![k][n].at = now]
      BY <2>2 DEF JoinFailed
    <3>2. run' = [run EXCEPT ![k][n] = [r EXCEPT !.state = "stamped", !.at = now]]
      BY <1>1, <3>1
    <3> HIDE DEF r
    <3>3. [r EXCEPT !.state = "stamped", !.at = now].state = "stamped"
      BY <1>6 DEF Run
    <3>4. QED BY <3>2, <3>3
  <2>3. CASE FollowUp(k, n)
    <3>1. run' = [run EXCEPT ![k][n] = [r EXCEPT !.state = Through(n)]]
      BY <2>3 DEF FollowUp
    <3>2. Through(n) # "noted"
      BY DEF Through
    <3> HIDE DEF r
    <3>3. [r EXCEPT !.state = Through(n)].state = Through(n)
      BY <1>6 DEF Run
    <3>4. QED BY <3>1, <3>2, <3>3
  <2>4. CASE Release(k, n)
    <3>1. run' = [run EXCEPT ![k][n].state = "done", ![k][n].marked = FALSE]
      BY <2>4 DEF Release
    <3>2. run' = [run EXCEPT ![k][n] = [r EXCEPT !.state = "done", !.marked = FALSE]]
      BY <1>1, <3>1
    <3> HIDE DEF r
    <3>3. [r EXCEPT !.state = "done", !.marked = FALSE].state = "done"
      BY <1>6 DEF Run
    <3>4. QED BY <3>2, <3>3
  <2>5. CASE Panic(k, n)
    <3> DEFINE end == IF Alive(k) THEN "panicked" ELSE "lost"
    <3>1. run' = [run EXCEPT ![k][n].state = end, ![k][n].marked = FALSE] /\ end # "noted"
      BY <2>5 DEF Panic
    <3> HIDE DEF end
    <3>2. run' = [run EXCEPT ![k][n] = [r EXCEPT !.state = end, !.marked = FALSE]]
      BY <1>1, <3>1
    <3> HIDE DEF r
    <3>3. [r EXCEPT !.state = end, !.marked = FALSE].state = end
      BY <1>6 DEF Run
    <3>4. QED BY <3>1, <3>2, <3>3
  <2>6. QED BY <2>1, <2>2, <2>3, <2>4, <2>5
<1>9. \A j \in Call, m \in Name : NotedBefore(j, m)
  BY <1>1, <1>8, RunNotNoted
<1>10. QED BY <1>2, <1>4, <1>7, <1>9, StaysKept

\* The row at the head of the list, if it is recorded and not left: with one call after
\* another the record is the one that was listed.
LEMMA FirstIsFinal ==
  ASSUME OInv, EInv, NEW k \in Call, Going(k), call[k].todo # {}, ConsumedLast(First(k))
  PROVE  /\ First(k).name \in Name /\ First(k).row.generation \in Generation
         /\ run[k][First(k).name] = NoRun
         /\ First(k).row.generation <= rows[First(k).name].generation
         /\ ~overlapped => FinalRow(First(k).name, First(k).row.generation)
<1>1. First(k) \in call[k].todo /\ First(k).name \in Name /\ First(k).row \in DueRow
  BY FirstListed
<1>2. PICK e \in call[k].todo : e = First(k)
  BY <1>1
<1>3. run[k][e.name] = NoRun /\ ~Left(e) /\ e.row.generation <= rows[e.name].generation
  BY DEF OInv, EInv, ListedOnce, Behind
<1>4. e.row.last # None /\ ~e.row.last.refused /\ NextRun(e.name, e.row.last.at) = None
  BY <1>2, <1>3 DEF Left, ConsumedLast
<1>5. ASSUME ~overlapped PROVE FinalRow(e.name, e.row.generation)
  <2>1. Matches(rows, e.name, e.row.generation) => rows[e.name].last = e.row.last
    BY <1>5 DEF EInv, RecordStays
  <2>2. QED BY <1>4, <2>1 DEF FinalRow
<1>6. e.row.generation \in Generation
  BY <1>1, <1>2, RowFields
<1>7. QED BY <1>1, <1>2, <1>3, <1>5, <1>6

LEMMA LateWriteEnds ==
  ASSUME OInv, EInv, NEW k \in Call, LateWrite(k)
  PROVE  EInv'
<1> DEFINE n == late[k][1]
           g == late[k][2]
           t == late[k][3]
<1>1. /\ late[k] # NoWrite /\ late' = [late EXCEPT ![k] = NoWrite]
      /\ rows' = IF t = None THEN Stop(rows, n, g) ELSE SetNext(rows, n, g, t)
      /\ UNCHANGED call /\ UNCHANGED run
  BY DEF LateWrite
<1>2. TypeOK /\ late \in [Call -> Write]
  BY TypesNow DEF OInv
<1>3. TypeOK' /\ Onward
  BY LateWriteGoesOn
<1>4. n \in Name /\ t \in (1 .. MaxTime) \cup {None}
  <2>1. late[k] \in Name \X Generation \X ((1 .. MaxTime) \cup {None})
    BY <1>1, <1>2 DEF Write
  <2>2. QED BY <2>1
<1> HIDE DEF n, g, t
<1>5. \A m \in Name : LastStays(m)
  BY <1>1, <1>2, <1>4, LastsStay
<1>6. \A j \in Call : ListGoesOn(j)
  <2>1. \A j \in Call : late'[j] = late[j] \/ late'[j] = NoWrite
    BY <1>1, <1>2
  <2>2. QED BY <1>1, <2>1, ListStays
<1>7. QED BY <1>1, <1>3, <1>5, <1>6, StaysKept DEF NotedBefore

LEMMA DropEnds ==
  ASSUME OInv, EInv, NEW k \in Call, Drop(k)
  PROVE  EInv'
<1>1. /\ Alive(k) /\ UNCHANGED rows
      /\ call' = [call EXCEPT ![k] = Future("ended", {}, 0)]
      /\ run' = [run EXCEPT ![k] = [n \in Name |->
                   IF Aborted(k, n) THEN [run[k][n] EXCEPT !.state = "lost"] ELSE run[k][n]]]
  BY DEF Drop, Ends
<1>2. TypeOK /\ run \in [Call -> [Name -> RunSet]] /\ late \in [Call -> Write]
  BY TypesNow DEF OInv
<1>3. TypeOK' /\ Onward
  BY DropGoesOn
<1>4. PICK w \in Handed(k) : late' = [late EXCEPT ![k] = w]
  BY DEF Drop
<1>5. late'[k] = w /\ \A j \in Call \ {k} : late'[j] = late[j]
  BY <1>2, <1>4
<1>6. /\ call'[k].at = "ended" /\ \A j \in Call \ {k} : call'[j] = call[j]
  <2>1. "ended" \in Where /\ {} \in SUBSET Listed /\ 0 \in Instant
    BY DueAssumption DEF Where, Instant
  <2>2. QED BY <1>1, <1>2, <2>1, CallMoves
<1>7. \A m \in Name : ~Aborted(k, m) => run'[k][m] = run[k][m]
  BY <1>1, <1>2
<1>8. ASSUME w # NoWrite, w[3] = None PROVE LeavesEnd(k)
  <2> DEFINE n == First(k).name
             g == First(k).row.generation
  <2>1. Launching(k) /\ ConsumedLast(First(k)) /\ w = <<n, g, None>>
    <3>1. CASE Launching(k) /\ ConsumedLast(First(k))
      BY <1>8, <3>1 DEF Handed
    <3>2. CASE ~(Launching(k) /\ ConsumedLast(First(k)))
      <4>1. /\ NextRun(First(k).name, call[k].clock) # None
            /\ w = <<n, g, NextRun(First(k).name, call[k].clock)>>
        BY <1>8, <3>2 DEF Handed
      <4>2. QED BY <1>8, <4>1
    <3>3. QED BY <3>1, <3>2
  <2>2. Going(k) /\ call[k].todo # {}
    BY <2>1 DEF Launching, At, Going
  <2>3. /\ n \in Name /\ g \in Generation /\ run[k][n] = NoRun /\ g <= rows[n].generation
        /\ ~overlapped => FinalRow(n, g)
    BY <2>1, <2>2, FirstIsFinal
  <2> HIDE DEF n, g
  <2>4. run'[k][n] = NoRun
    <3>1. ~Aborted(k, n)
      BY <2>3, RunFields DEF Aborted
    <3>2. QED BY <1>7, <2>3, <3>1
  <2>5. late'[k] = <<n, g, None>>
    BY <1>5, <2>1
  <2>6. late'[k][1] = n /\ late'[k][2] = g /\ late'[k] \in Name \X Generation \X {None}
    BY <2>3, <2>5
  <2>7. ~overlapped => FinalRow(late[k][1], late[k][2])'
    BY <1>1, <2>3, <2>6 DEF FinalRow, Matches, IsActive
  <2>8. QED BY <1>1, <2>3, <2>4, <2>6, <2>7 DEF LeavesEnd
<1>9. \A j \in Call : ListGoesOn(j)
  <2>1. ListGoesOn(k)
    BY <1>5, <1>6, <1>8 DEF ListGoesOn
  <2>2. QED BY <1>5, <1>6, <2>1, ListStays
<1>10. ASSUME NEW j \in Call, NEW m \in Name PROVE NotedBefore(j, m)
  <2>1. CASE j = k /\ Aborted(k, m)
    <3>1. run'[k][m] = [run[k][m] EXCEPT !.state = "lost"]
      BY <1>1, <1>2, <2>1
    <3>2. run[k][m].state # "none"
      BY <2>1 DEF Aborted
    <3>3. run[k][m] \in Run
      BY <3>2, StartedRun
    <3>4. run'[k][m].state = "lost"
      BY <3>1, <3>3 DEF Run
    <3>5. QED BY <2>1, <3>4 DEF NotedBefore
  <2>2. CASE ~(j = k /\ Aborted(k, m))
    <3>1. run'[j][m] = run[j][m]
      BY <1>1, <1>2, <2>2
    <3>2. QED BY <3>1 DEF NotedBefore
  <2>3. QED BY <2>1, <2>2
<1>11. QED BY <1>1, <1>3, <1>9, <1>10, StaysKept DEF LastStays

LEMMA DieEnds ==
  ASSUME OInv, EInv, Die
  PROVE  EInv'
<1>1. /\ late' = [k \in Call |-> NoWrite] /\ UNCHANGED rows
      /\ call' = [k \in Call |-> IF Alive(k) THEN Future("ended", {}, 0) ELSE call[k]]
      /\ run' = [k \in Call |-> [n \in Name |->
           IF Over(k, n) THEN run[k][n]
           ELSE [run[k][n] EXCEPT !.state = "lost", !.marked = FALSE]]]
  BY DEF Die
<1>2. TypeOK' /\ Onward
  BY DieGoesOn
<1>3. ASSUME NEW k \in Call PROVE ListGoesOn(k)
  <2>1. late'[k] = NoWrite
    BY <1>1
  <2>2. CASE Alive(k)
    <3>1. call'[k] = Future("ended", {}, 0)
      BY <1>1, <2>2
    <3>2. call'[k].at = "ended"
      BY <3>1, Futures
    <3>3. QED BY <2>1, <3>2 DEF ListGoesOn
  <2>3. CASE ~Alive(k)
    <3>1. call'[k] = call[k]
      BY <1>1, <2>3
    <3>2. QED BY <2>1, <3>1, ListStays
  <2>4. QED BY <2>2, <2>3
<1>4. ASSUME NEW k \in Call, NEW n \in Name PROVE NotedBefore(k, n)
  <2>1. CASE Over(k, n)
    <3>1. run'[k][n] = run[k][n]
      BY <1>1, <2>1
    <3>2. QED BY <3>1 DEF NotedBefore
  <2>2. CASE ~Over(k, n)
    <3>1. run'[k][n] = [run[k][n] EXCEPT !.state = "lost", !.marked = FALSE]
      BY <1>1, <2>2
    <3>2. run[k][n] \in Run
      BY <2>2, StartedRun DEF Over
    <3>3. run'[k][n].state = "lost"
      BY <3>1, <3>2 DEF Run
    <3>4. QED BY <3>3 DEF NotedBefore
  <2>3. QED BY <2>1, <2>2
<1>5. QED BY <1>1, <1>2, <1>3, <1>4, StaysKept DEF LastStays

\* Others set a flag, which is no record, or write a row of the next generation.
LEMMA ChangeEnds ==
  ASSUME OInv, EInv, Change
  PROVE  EInv' /\ \A m \in Name : IsActive(rows, m) => IsActive(rows', m)
<1>1. PICK n \in Name :
        /\ IsActive(rows, n)
        /\ \/ rows' = SetFlags(rows, [m \in {n} |-> ~rows[n].enabled])
           \/ GenerationLeft(rows, n) /\ rows' = Written(rows, n, NextRun(n, now), TRUE)
  BY DEF Change
<1>2. UNCHANGED call /\ UNCHANGED run /\ UNCHANGED late
  BY DEF Change
<1>3. TypeOK' /\ Onward
  BY ChangeGoesOn
<1>4. rows \in [Name -> DueRow] /\ rows[n] \in DueRow /\ rows[n].generation \in Nat
  BY TypesNow, Generations DEF OInv
<1>5. /\ \A m \in Name \ {n} : rows'[m] = rows[m]
      /\ \/ rows'[n].last = rows[n].last /\ rows'[n].ended = rows[n].ended
         \/ rows'[n].generation # rows[n].generation /\ ~rows'[n].ended
  <2>1. CASE rows' = SetFlags(rows, [m \in {n} |-> ~rows[n].enabled])
    <3>1. rows' = [m \in Name |-> IF m \in {n} THEN [rows[m] EXCEPT !.enabled = ~rows[n].enabled]
                                                ELSE rows[m]]
      BY <2>1 DEF SetFlags
    <3>2. rows'[n] = [rows[n] EXCEPT !.enabled = ~rows[n].enabled]
      BY <3>1
    <3>3. rows'[n].last = rows[n].last /\ rows'[n].ended = rows[n].ended
      BY <1>4, <3>2 DEF DueRow, RowSet
    <3>4. QED BY <3>1, <3>3
  <2>2. CASE GenerationLeft(rows, n) /\ rows' = Written(rows, n, NextRun(n, now), TRUE)
    <3> DEFINE next == NextRun(n, now)
               row == [generation |-> rows[n].generation + 1, enabled |-> TRUE,
                       next |-> next, last |-> None, ended |-> FALSE]
    <3>1. rows' = [rows EXCEPT ![n] = row]
      BY <1>1, <2>2 DEF Written, IsActive
    <3>2. row.generation = rows[n].generation + 1 /\ ~row.ended
      OBVIOUS
    <3> HIDE DEF row
    <3>3. rows'[n] = row /\ \A m \in Name \ {n} : rows'[m] = rows[m]
      BY <1>4, <3>1
    <3>4. QED BY <1>4, <3>2, <3>3
  <2>3. QED BY <1>1, <2>1, <2>2
<1>6. \A m \in Name : LastStays(m)
  BY <1>5 DEF LastStays, Matches
<1>7. \A m \in Name : IsActive(rows, m) => IsActive(rows', m)
  <2>1. \A m \in Name : rows'[m] # NoRow
    BY <1>3, NoRowAssumption DEF TypeOK
  <2>2. QED BY <1>1, <1>5, <2>1 DEF IsActive
<1>8. EInv'
  BY <1>2, <1>3, <1>6, ListStays, StaysKept DEF NotedBefore
<1>9. QED BY <1>7, <1>8

LEMMA IdleEnds ==
  ASSUME OInv, EInv, Tick \/ UNCHANGED vars
  PROVE  EInv'
<1>1. UNCHANGED rows /\ UNCHANGED call /\ UNCHANGED run /\ UNCHANGED late
  BY DEF Tick, vars
<1>2. TypeOK' /\ Onward
  BY TickGoesOn
<1>3. QED BY <1>1, <1>2, ListStays, StaysKept DEF LastStays, NotedBefore

\* A call lists the rows as they are.
LEMMA ListEnds ==
  ASSUME OInv, EInv, NEW k \in Call, List(k)
  PROVE  EInv'
<1> DEFINE list == {[name |-> n, row |-> rows[n]] : n \in ActiveNames(rows)}
<1>1. /\ At(k, "new") /\ call' = [call EXCEPT ![k] = Future("listed", list, 0)]
      /\ overlapped' = (overlapped \/ \E j \in Call : Alive(j) \/ Trailing(j))
      /\ UNCHANGED rows /\ UNCHANGED run /\ UNCHANGED late
  BY DEF List
<1>2. TypeOK /\ Futile /\ ListedOnce /\ NotedIsRecorded
  BY DEF OInv, EInv
<1>3. /\ \A e \in list : e \in Listed /\ e.name \in Name /\ e.row = rows[e.name]
      /\ \A e, f \in list : e.name = f.name => e = f
  <2>1. \A n \in ActiveNames(rows) : n \in Name /\ rows[n] \in DueRow
    BY <1>2 DEF ActiveNames, TypeOK
  <2>2. QED BY <2>1 DEF Listed
<1> HIDE DEF list
<1>4. /\ call'[k].at = "listed" /\ call'[k].todo = list
      /\ \A j \in Call \ {k} : call'[j] = call[j]
  <2>1. "listed" \in Where /\ list \in SUBSET Listed /\ 0 \in Instant
    BY <1>3, DueAssumption DEF Where, Instant
  <2>2. TypeOK /\ call' = [call EXCEPT ![k] = Future("listed", list, 0)]
    BY <1>1, <1>2
  <2>3. QED BY ZenonT(30), <2>1, <2>2, CallMoves
<1>5. ListedOnce'
  <2>1. ASSUME NEW j \in Call
        PROVE  /\ \A e, f \in call'[j].todo : e.name = f.name => e = f
               /\ \A e \in call'[j].todo :
                    run[j][e.name] = NoRun /\ (call'[j].at \in {"launching", "claimed"} => ~Left(e))
    <3>1. CASE j = k
      BY <1>1, <1>2, <1>3, <1>4, <3>1 DEF Futile
    <3>2. CASE j # k
      BY <1>2, <1>4, <3>2 DEF ListedOnce, Going
    <3>3. QED BY <3>1, <3>2
  <2>2. \A j \in Call : Ender(j)' => /\ run'[j][late'[j][1]] = NoRun
                                      /\ late'[j][2] <= rows'[late'[j][1]].generation
    BY <1>1, <1>2 DEF ListedOnce, Ender
  <2>3. QED BY <1>1, <2>1, <2>2 DEF ListedOnce, Ender, Going, Left, ConsumedLast
<1>6. NotedIsRecorded'
  BY <1>1, <1>2 DEF NotedIsRecorded
<1>7. ASSUME ~overlapped' PROVE RecordStays'
  <2>1. RecordStays
    BY <1>1, <1>7 DEF EInv
  <2>2. ASSUME NEW j \in Call, NEW e \in call'[j].todo, Matches(rows, e.name, e.row.generation)
        PROVE  rows[e.name].last = e.row.last
    <3>1. CASE j = k
      BY <1>3, <1>4, <2>2, <3>1
    <3>2. CASE j # k
      BY <1>4, <2>1, <2>2, <3>2 DEF RecordStays
    <3>3. QED BY <3>1, <3>2
  <2>3. QED BY <1>1, <2>1, <2>2 DEF RecordStays, Matches, IsActive, Ender, FinalRow
<1>8. QED BY <1>5, <1>6, <1>7 DEF EInv

\* With one call after another, whoever holds a row on its list, a noted run of it or a
\* write that ends it is alone: the run that records is not another's.
LEMMA PersistEnds ==
  ASSUME OInv, EInv, NEW k \in Call, NEW n \in Name, Persist(k, n)
  PROVE  EInv'
<1> DEFINE r == run[k][n]
           g == r.generation
           ran == [at |-> r.at, refused |-> FALSE]
<1>1. /\ run[k][n].state = "stamped" /\ UNCHANGED call /\ UNCHANGED late
      /\ UNCHANGED overlapped
  BY DEF Persist
<1>2. r \in Run /\ Started(k, n) /\ Live(k, n) /\ r.at \in Instant
  BY <1>1, StartedRun
<1>3. TypeOK /\ Futile /\ ListedOnce /\ NotedIsRecorded /\ TypeOK' /\ Onward
  BY PersistGoesOn DEF OInv, EInv
<1>4. /\ run \in [Call -> [Name -> RunSet]] /\ rows \in [Name -> DueRow] /\ rows[n] \in DueRow
      /\ late \in [Call -> Write]
  BY <1>3, TypesNow
<1>5. r.report \in {"ran", "disable", "delete"}
  BY <1>2, RunFields
<1> DEFINE written == CASE r.report = "ran" -> RecordRun(rows, n, g, ran)
                        [] r.report = "disable" -> Disable(rows, n, g, [at |-> r.at, refused |-> TRUE])
                        [] r.report = "delete" -> Stop(rows, n, g)
<1>6. PICK answer \in {"yes", "no", "failed"} :
        /\ Answered(written, Matches(rows, n, g), answer)
        /\ run' = [run EXCEPT ![k][n] = [r EXCEPT
             !.state = IF r.report = "ran" /\ answer = "yes" THEN "noted" ELSE Through(n),
             !.report = "ran", !.at = 0, !.recorded = answer = "yes"]]
  BY DEF Persist
<1>7. \/ r.report = "ran" /\ written = RecordRun(rows, n, g, ran)
      \/ r.report # "ran" /\ \E o : written = Disable(rows, n, g, o)
      \/ r.report # "ran" /\ written = Stop(rows, n, g)
  BY <1>5
<1> HIDE DEF written
<1> DEFINE end == IF r.report = "ran" /\ answer = "yes" THEN "noted" ELSE Through(n)
           noted == answer = "yes"
           s == [r EXCEPT !.state = end, !.report = "ran", !.at = 0, !.recorded = noted]
<1>8. run' = [run EXCEPT ![k][n] = s]
  BY <1>6
<1>9. end = "noted" => r.report = "ran" /\ noted
  BY DEF Through
<1>10. noted => rows' = written /\ Matches(rows, n, g)
  BY <1>6 DEF Answered
<1>11. rows' = rows \/ rows' = written
  BY <1>6 DEF Answered
<1>12. noted \in BOOLEAN
  OBVIOUS
<1>13. ran \in Outcome /\ ~ran.refused
  BY <1>2 DEF Outcome
<1> HIDE DEF r, end, noted, ran
<1>14. s.state = end /\ s.recorded = noted
  BY <1>2 DEF Run
<1> HIDE DEF s
<1>15. /\ run'[k][n] = s
       /\ \A j \in Call, m \in Name : ~(j = k /\ m = n) => run'[j][m] = run[j][m]
  BY <1>4, <1>8
<1>16. \A m \in Name \ {n} : rows'[m] = rows[m]
  BY <1>4, <1>7, <1>11 DEF RecordRun, Disable, Stop
<1>17. NotedIsRecorded'
  <2>1. ASSUME NEW j \in Call, NEW m \in Name, run'[j][m].state = "noted"
        PROVE  run'[j][m].recorded
    <3>1. CASE j = k /\ m = n
      <4>1. end = "noted" /\ run'[j][m].recorded = noted
        BY <1>14, <1>15, <2>1, <3>1
      <4>2. QED BY <1>9, <4>1
    <3>2. CASE ~(j = k /\ m = n)
      <4>1. run'[j][m] = run[j][m]
        BY <1>15, <3>2
      <4>2. QED BY <1>3, <2>1, <4>1 DEF NotedIsRecorded
    <3>3. QED BY <3>1, <3>2
  <2>2. QED BY <2>1 DEF NotedIsRecorded
<1>18. ListedOnce'
  <2>1. \A j \in Call : ListGoesOn(j)
    BY <1>1, ListStays
  <2>2. QED BY <1>3, <2>1, ListedKept
<1>19. ASSUME ~overlapped' PROVE RecordStays'
  <2>1. ~overlapped /\ RecordStays /\ OneGoesOn
    BY <1>1, <1>19 DEF OInv, EInv
  <2>2. ASSUME NEW j \in Call, NEW e \in call[j].todo,
               Matches(rows', e.name, e.row.generation)
        PROVE  rows'[e.name].last = e.row.last
    <3>1. e.name \in Name
      BY <1>3 DEF TypeOK, Listed
    <3>2. e.name # n
      <4>1. SUFFICES ASSUME e.name = n PROVE FALSE
        OBVIOUS
      <4>2. run[j][n] = NoRun
        BY <1>3, <4>1 DEF ListedOnce
      <4>3. j # k
        BY <1>2, <4>2 DEF Started
      <4>4. QED BY <1>2, <1>3, <2>1, <4>3, LastCall
    <3>3. rows'[e.name] = rows[e.name]
      BY <1>16, <3>1, <3>2
    <3>4. Matches(rows, e.name, e.row.generation)
      BY <2>2, <3>3 DEF Matches, IsActive
    <3>5. QED BY <2>1, <3>3, <3>4 DEF RecordStays
  <2>3. ASSUME NEW j \in Call, NEW m \in Name, run'[j][m].state = "noted",
               Matches(rows', m, run'[j][m].generation)
        PROVE  rows'[m].last # None /\ ~rows'[m].last.refused
    <3>1. CASE j = k /\ m = n
      <4>1. end = "noted"
        BY <1>14, <1>15, <2>3, <3>1
      <4>2. rows' = RecordRun(rows, n, g, ran) /\ Matches(rows, n, g)
        BY <1>7, <1>9, <1>10, <4>1
      <4>3. rows' = [rows EXCEPT ![n] = [rows[n] EXCEPT !.last = ran]]
        BY <4>2 DEF RecordRun
      <4>4. rows'[n] = [rows[n] EXCEPT !.last = ran]
        BY <1>4, <4>3
      <4>5. rows'[n].last = ran
        BY <1>4, <4>4 DEF DueRow, RowSet
      <4>6. QED BY <1>13, <3>1, <4>5, NullAssumption
    <3>2. CASE ~(j = k /\ m = n)
      <4>1. run'[j][m] = run[j][m] /\ run[j][m].state = "noted"
        BY <1>15, <2>3, <3>2
      <4>2. Live(j, m)
        BY <4>1 DEF Live, Over
      <4>3. m # n
        BY <1>2, <1>3, <2>1, <3>2, <4>2, LastCall
      <4>4. rows'[m] = rows[m]
        BY <1>16, <4>3
      <4>5. Matches(rows, m, run[j][m].generation)
        BY <2>3, <4>1, <4>4 DEF Matches, IsActive
      <4>6. QED BY <2>1, <4>1, <4>4, <4>5 DEF RecordStays
    <3>3. QED BY <3>1, <3>2
  <2>4. ASSUME NEW j \in Call, Ender(j) PROVE FinalRow(late[j][1], late[j][2])'
    <3>1. PICK m \in Name : m = late[j][1]
      BY <1>3, <2>4, EnderWrite DEF Ender
    <3>2. m # n
      <4>1. SUFFICES ASSUME m = n PROVE FALSE
        OBVIOUS
      <4>2. run[j][n] = NoRun /\ late[j] # NoWrite
        BY <1>3, <2>4, <3>1, <4>1 DEF ListedOnce, Ender
      <4>3. j # k /\ ~At(j, "new") /\ ~At(k, "new")
        BY <1>2, <1>3, <4>2 DEF Started, Futile
      <4>4. ~Quiet(j) /\ ~Quiet(k)
        BY <1>2, <4>2 DEF Quiet, Live
      <4>5. j < k \/ k < j
        BY <4>3, DueAssumption DEF Call
      <4>6. QED BY <2>1, <4>3, <4>4, <4>5 DEF OneGoesOn
    <3>3. rows'[m] = rows[m] /\ late'[j] = late[j]
      BY <1>1, <1>16, <3>2
    <3>4. FinalRow(m, late[j][2])
      BY <2>1, <2>4, <3>1 DEF RecordStays
    <3>5. QED BY <3>1, <3>3, <3>4 DEF FinalRow, Matches, IsActive
  <2>5. QED BY <1>1, <2>2, <2>3, <2>4 DEF RecordStays, Ender
<1>20. QED BY <1>17, <1>18, <1>19 DEF EInv

LEMMA EndsInit == Init => OInv /\ EInv
<1> SUFFICES ASSUME Init PROVE EInv
  BY OrderInit
<1>1. /\ call = [k \in Call |-> Future("new", {}, 0)]
      /\ run = [k \in Call |-> [n \in Name |-> NoRun]] /\ late = [k \in Call |-> NoWrite]
  BY DEF Init
<1>2. \A k \in Call : call[k] = Future("new", {}, 0) /\ late[k] = NoWrite
                      /\ \A n \in Name : run[k][n].state = "none"
  BY <1>1, RunFields
<1>3. \A k \in Call : call[k].todo = {} /\ ~Ender(k)
  BY <1>2, Futures DEF Ender
<1>4. QED BY <1>2, <1>3 DEF EInv, ListedOnce, NotedIsRecorded, RecordStays

LEMMA EndsStep == OInv /\ EInv /\ [Next]_vars => OInv' /\ EInv'
<1> SUFFICES ASSUME OInv, EInv, [Next]_vars PROVE EInv'
  BY OrderStep
<1>1. ASSUME NEW k \in Call, List(k) \/ CallStep(k) \/ Drop(k) \/ LateWrite(k)
      PROVE  EInv'
  BY <1>1, ListEnds, CallStepEnds, DropEnds, LateWriteEnds
<1>2. ASSUME NEW k \in Call, NEW n \in Name, RunStep(k, n) \/ Panic(k, n)
      PROVE  EInv'
  BY <1>2, RunStepEnds, PersistEnds DEF RunStep
<1>3. CASE Die \/ Change \/ Tick \/ UNCHANGED vars
  BY <1>3, DieEnds, ChangeEnds, IdleEnds
<1>4. QED BY <1>1, <1>2, <1>3 DEF Next

\* Only a stop ends a row, and only the row it names.
LEMMA StopEndsOne ==
  ASSUME rows' \in [Name -> DueRow], NEW m \in Name, NEW n \in Name, NEW g,
         rows' = Stop(rows, n, g), IsActive(rows, m), ~IsActive(rows', m)
  PROVE  m = n /\ Matches(rows, n, g)
<1>1. rows'[m] # NoRow
  BY NoRowAssumption
<1>2. rows'[m].ended /\ ~rows[m].ended
  BY <1>1 DEF IsActive
<1>3. QED BY <1>2 DEF Stop

LEMMA StaysActive ==
  ASSUME rows \in [Name -> DueRow], rows' \in [Name -> DueRow],
         NEW m \in Name, NEW n \in Name, NEW g,
         \/ UNCHANGED rows
         \/ \E t : rows' = SetNext(rows, n, g, t)
         \/ \E o : rows' = RecordRun(rows, n, g, o) \/ rows' = Disable(rows, n, g, o),
         IsActive(rows, m)
  PROVE  IsActive(rows', m)
<1>1. rows'[m] # NoRow /\ rows[n] \in DueRow /\ ~rows[m].ended
  BY NoRowAssumption DEF IsActive
<1>2. CASE rows' = rows
  BY <1>2
<1>3. CASE rows' # rows
  <2>1. \/ \E t : rows' = [rows EXCEPT ![n] = [rows[n] EXCEPT !.next = t]]
        \/ \E o : \/ rows' = [rows EXCEPT ![n] = [rows[n] EXCEPT !.last = o]]
                 \/ rows' = [rows EXCEPT ![n] = [rows[n] EXCEPT !.enabled = FALSE, !.last = o]]
    BY <1>3 DEF SetNext, RecordRun, Disable
  <2>2. m # n => rows'[m] = rows[m]
    BY <2>1
  <2>3. \/ \E t : rows'[n] = [rows[n] EXCEPT !.next = t]
        \/ \E o : \/ rows'[n] = [rows[n] EXCEPT !.last = o]
                 \/ rows'[n] = [rows[n] EXCEPT !.enabled = FALSE, !.last = o]
    BY <2>1
  <2>4. rows'[n].ended = rows[n].ended
    BY <1>1, <2>3 DEF DueRow, RowSet
  <2>5. QED BY <1>1, <2>2, <2>4 DEF IsActive
<1>4. QED BY <1>2, <1>3

\* What the record of a row must say for the row to be over.
Exhausts(m) ==
  rows[m].last # None /\ ~rows[m].last.refused /\ NextRun(m, rows[m].last.at) = None

\* With one call of run_due after another a row is ended only by the delete of a stop
\* check, or with nothing after a record that is not a disable's: by a later call, by
\* the run that noted it, or by a write that outlives its call.
THEOREM EndsFinal == Spec => SerialEndsFinal
<1> DEFINE Ended(m) == ~overlapped /\ IsActive(rows, m) /\ ~IsActive(rows', m)
           Deleted(m) == \E k \in Call : run[k][m].state = "stamped" /\ run[k][m].report = "delete"
<1>1. ASSUME OInv, EInv, [Next]_vars, NEW m \in Name, Ended(m)
      PROVE  Deleted(m) \/ Exhausts(m)
  <2>1. TypeOK /\ rows \in [Name -> DueRow]
    BY <1>1, TypesNow DEF OInv
  <2>2. OInv'
    BY <1>1, OrderStep
  <2>3. rows' \in [Name -> DueRow] /\ rows' # rows
    BY <1>1, <2>2 DEF OInv, TypeOK, IsActive
  <2>4. ASSUME NEW k \in Call, EndFinal(k) PROVE Exhausts(m)
    <3> DEFINE n == First(k).name
               g == First(k).row.generation
    <3>1. /\ Going(k) /\ call[k].todo # {} /\ ConsumedLast(First(k))
          /\ UNCHANGED rows \/ rows' = Stop(rows, n, g)
      BY <2>4 DEF EndFinal, Launching, At, Going, Answered
    <3>2. n \in Name /\ FinalRow(n, g)
      BY <1>1, <3>1, FirstIsFinal
    <3> HIDE DEF n, g
    <3>3. m = n /\ Matches(rows, n, g)
      BY <1>1, <2>3, <3>1, <3>2, StopEndsOne
    <3>4. QED BY <3>2, <3>3 DEF FinalRow, Exhausts
  <2>5. ASSUME NEW k \in Call, Launch(k) PROVE FALSE
    <3>1. /\ Going(k) /\ call[k].todo # {}
          /\ \/ UNCHANGED rows
             \/ \E t : rows' = SetNext(rows, First(k).name, First(k).row.generation, t)
      BY <1>1, <2>5 DEF Launch, OInv, Behind, At, Going, Answered
    <3>2. First(k).name \in Name
      BY <1>1, <3>1, FirstListed
    <3>3. QED BY <1>1, <2>1, <2>3, <3>1, <3>2, StaysActive
  <2>6. ASSUME NEW k \in Call, NEW n \in Name, Persist(k, n) PROVE Deleted(m)
    <3> DEFINE r == run[k][n]
               g == r.generation
    <3>1. r.state = "stamped"
      BY <2>6 DEF Persist
    <3>2. r.report \in {"ran", "disable", "delete"}
      BY <1>1, <3>1, StartedRun, RunFields
    <3>3. \/ UNCHANGED rows
          \/ \E o : rows' = RecordRun(rows, n, g, o) \/ rows' = Disable(rows, n, g, o)
          \/ r.report = "delete" /\ rows' = Stop(rows, n, g)
      BY <2>6, <3>2 DEF Persist, Answered
    <3> HIDE DEF g
    <3>4. r.report = "delete" /\ rows' = Stop(rows, n, g)
      BY <1>1, <2>1, <2>3, <3>3, StaysActive
    <3>5. m = n
      BY <1>1, <2>3, <3>4, StopEndsOne
    <3>6. QED BY <3>1, <3>4, <3>5
  <2>7. ASSUME NEW k \in Call, NEW n \in Name, FollowUp(k, n) PROVE Exhausts(m)
    <3> DEFINE r == run[k][n]
               g == r.generation
    <3>1. /\ r.state = "noted"
          /\ \/ UNCHANGED rows
             \/ r.next = None /\ rows' = Stop(rows, n, g)
             \/ \E t : rows' = SetNext(rows, n, g, t)
      BY <2>7 DEF FollowUp, Answered
    <3>2. Started(k, n) /\ r.recorded
      BY <1>1, <3>1, StartedRun DEF EInv, NotedIsRecorded
    <3>3. RowIsBeyond(n, r)
      BY <1>1, <3>2 DEF OInv, Beyond
    <3>4. Matches(rows, n, g) => rows[n].last # None /\ ~rows[n].last.refused
      BY <1>1, <3>1 DEF EInv, RecordStays
    <3>5. r.next = None /\ Matches(rows, n, g) => NextRun(n, rows[n].last.at) = None
      BY <3>2, <3>3 DEF RowIsBeyond, Exhausted, Matches
    <3> HIDE DEF r, g
    <3>6. r.next = None /\ rows' = Stop(rows, n, g)
      BY <1>1, <2>1, <2>3, <3>1, StaysActive
    <3>7. m = n /\ Matches(rows, n, g)
      BY <1>1, <2>3, <3>6, StopEndsOne
    <3>8. QED BY <3>4, <3>5, <3>6, <3>7 DEF Exhausts
  <2>8. ASSUME NEW k \in Call, LateWrite(k) PROVE Exhausts(m)
    <3>1. late[k] # NoWrite
      BY <2>8 DEF LateWrite
    <3>2. PICK n \in Name : n = late[k][1]
      BY <2>1, <3>1, EnderWrite
    <3> DEFINE g == late[k][2]
               t == late[k][3]
    <3>3. rows' = IF t = None THEN Stop(rows, n, g) ELSE SetNext(rows, n, g, t)
      BY <2>8, <3>2 DEF LateWrite
    <3>4. t = None => FinalRow(n, g)
      BY <1>1, <3>1, <3>2 DEF EInv, RecordStays, Ender
    <3> HIDE DEF g, t
    <3>5. t = None /\ rows' = Stop(rows, n, g)
      BY <1>1, <2>1, <2>3, <3>3, StaysActive
    <3>6. m = n /\ Matches(rows, n, g)
      BY <1>1, <2>3, <3>5, StopEndsOne
    <3>7. QED BY <3>4, <3>5, <3>6 DEF FinalRow, Exhausts
  <2>9. ~Change
    BY <1>1, ChangeEnds
  <2>10. \/ \E k \in Call : EndFinal(k) \/ Launch(k) \/ LateWrite(k)
         \/ \E k \in Call, n \in Name : Persist(k, n) \/ FollowUp(k, n)
    BY <1>1, <2>3, <2>9 DEF Next, CallStep, RunStep, List, ReadClock, Claim, Collects, Drop,
       Finish, JoinFailed, Release, Panic, Die, Tick, vars
  <2>11. QED BY <2>4, <2>5, <2>6, <2>7, <2>8, <2>10
<1>2. OInv /\ EInv /\ [Next]_vars =>
        [\A m \in Name : Ended(m) => Deleted(m) \/ Exhausts(m)]_vars
  BY <1>1
<1>3. [\A m \in Name : Ended(m) => Deleted(m) \/ Exhausts(m)]_vars =>
        [\A n \in Name :
           ~overlapped /\ IsActive(rows, n) /\ ~IsActive(rows', n) =>
             \/ \E k \in Call : run[k][n].state = "stamped" /\ run[k][n].report = "delete"
             \/ /\ rows[n].last # None /\ ~rows[n].last.refused
                /\ NextRun(n, rows[n].last.at) = None]_vars
  BY DEF Exhausts
<1>4. QED BY <1>2, <1>3, EndsInit, EndsStep, PTL DEF Spec, SerialEndsFinal
=============================================================================
