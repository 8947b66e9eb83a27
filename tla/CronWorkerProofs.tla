-------------------------- MODULE CronWorkerProofs --------------------------
(***************************************************************************)
(* Proofs about the worker task, for every set of names, any occurrences,  *)
(* any number of writes by others, failures, crashes and restarts, and     *)
(* either kind of worker and of stop.                                      *)
(*                                                                         *)
(* The invariant IInv relates what the worker remembers to the table it    *)
(* shares with every other caller.  Generations only grow (Aged); a        *)
(* schedule seen exhausted has a later slot or none, and waits for its     *)
(* end, is being ended, is ended, or is not read any more (Down); what is  *)
(* stored, read or waited for lies behind the last confirmed occurrence    *)
(* (Fresh).  Earned, on top of it, says why a schedule may be ended.       *)
(*                                                                         *)
(* Every step of the worker is first summed up as one of eleven step       *)
(* predicates (StepHolds), which say only what the conjuncts of the        *)
(* invariant can tell apart; each conjunct is then kept by each predicate. *)
(***************************************************************************)
EXTENDS CronWorker, WellFoundedInduction, TLAPS

-----------------------------------------------------------------------------
(* The inductive invariant                                                 *)

\* The pairs whose ending write is still to be tried again.
Waiting == pendingEnds \cup (IF pc = "retry" THEN todo ELSE {})

\* Generations only grow: what the worker remembers of a name is of no later
\* generation than the row.
Reached(table, n, g) == table[n] # NoRow /\ g <= table[n].generation

Aged ==
  /\ \A n \in Name : slot[n] # None => Reached(rows, n, slot[n].gen)
  /\ \A n \in Name : ran[n] # None => Reached(rows, n, ran[n].gen)
  /\ \A n \in Name, g \in Generation : <<n, g>> \in exhausted => Reached(rows, n, g)
  /\ pc \in {"complete", "end", "start"} => Reached(rows, cur.name, cur.gen)
  /\ pc = "merge" => \A n \in Name : snap[n] # NoRow => Reached(rows, n, snap[n].generation)

\* The schedule being handled has the slot it had, without the run taken from it,
\* or, on its way to end_exhausted, none.
Attended ==
  /\ pc \in {"complete", "start"} => slot[cur.name] # None /\ slot[cur.name].gen = cur.gen
  /\ pc = "complete" => slot[cur.name].run = None
  /\ pc = "end" => slot[cur.name] = None /\ <<cur.name, cur.gen>> \in exhausted
  /\ pc = "down" => \A n \in Name : slot[n] = None

\* The schedule end_exhausted is at.
Ending(n, g) == pc = "end" /\ cur.name = n /\ cur.gen = g

\* An exhausted schedule waits for its end, or it is ended already (or replaced),
\* or nothing is read from the store any more; what has a slot is newer.
Accounted(n, g) ==
  \/ <<n, g>> \in Waiting
  \/ Ending(n, g)
  \/ quarantined
  \/ ~Matches(rows, n, g)

Down ==
  /\ Waiting \subseteq exhausted
  /\ \A n \in Name, g \in Generation : <<n, g>> \in exhausted =>
       /\ slot[n] # None => g < slot[n].gen
       /\ Accounted(n, g)
       /\ pc = "merge" =>
            /\ snap[n] # NoRow /\ g <= snap[n].generation
            /\ Matches(snap, n, g) => <<n, g>> \in Waiting

\* What the store holds, what was read from it and what a slot waits for all lie
\* behind the last occurrence whose handling the store confirmed.
Beyond(handling, n, g, t) ==
  t \in Occ[n] /\ (handling # None /\ handling.gen = g => t > handling.saved)

\* The occurrence about to be launched is due, and a confirmed advance has put the
\* row beyond it.
StartIsFresh ==
  /\ Beyond(ran[cur.name], cur.name, cur.gen, cur.occ)
  /\ cur.occ <= at
  /\ slot[cur.name].next = NextRun(cur.name, at)
  /\ cur.saved /\ Matches(rows, cur.name, cur.gen) => rows[cur.name].next > at

Fresh ==
  /\ \A n \in Name : IsActive(rows, n) => Beyond(ran[n], n, rows[n].generation, rows[n].next)
  /\ \A n \in Name :
       pc = "merge" /\ IsActive(snap, n) => Beyond(ran[n], n, snap[n].generation, snap[n].next)
  /\ \A n \in Name :
       slot[n] # None /\ slot[n].next # None => Beyond(ran[n], n, slot[n].gen, slot[n].next)
  /\ pc = "start" => StartIsFresh

\* The worker sees a stop after it was requested, and selects nothing after that;
\* who sets the budget.
StopOrder ==
  /\ stopping => stopped
  /\ budget => stopped /\ (Cooperative \/ "control" \in Stops)
  /\ pc = "start" => ~stopping

\* A slot without a next run has handled its last occurrence, and so has every
\* exhausted schedule, but for the one whose launch a shutdown refused: its end
\* is refused too, and no later step of this worker retries it.
Consumed(table, handling, n, g) ==
  \/ handling # None /\ handling.gen = g /\ NextRun(n, handling.upto) = None
  \/ g < table[n].generation

AfterStop ==
  \/ pc \in {"launch", "select", "drain", "done"}
  \/ pc \in {"complete", "end"} /\ back = "drain"

TurnedAway(n, g) ==
  /\ Cooperative /\ budget
  /\ IF Ending(n, g) THEN ~stopping /\ back = "launch" ELSE AfterStop

Earned ==
  /\ \A n \in Name : slot[n] # None /\ slot[n].next = None /\ (pc = "start" => cur.name # n)
       => Consumed(rows, ran[n], n, slot[n].gen)
  /\ \A n \in Name, g \in Generation : <<n, g>> \in exhausted =>
       Consumed(rows, ran[n], n, g) \/ TurnedAway(n, g)

\* As long as nobody else writes, every slot is of an enabled row.
Kept ==
  changes = 0 =>
    /\ \A n \in Name : slot[n] # None => MatchesEnabled(rows, n, slot[n].gen)
    /\ pc = "merge" => snap = rows

Uncertain == pc = "start" /\ quarantined => slot[cur.name].next = None \/ budget

\* The type invariant, with what is there of cur, back and snap where it is read.
DataTypes ==
  /\ rows \in Table
  /\ slot \in [Name -> Slot \cup {None}]
  /\ ran \in [Name -> Handling \cup {None}]
  /\ snap = None \/ snap \in Table
  /\ pc = "merge" => snap \in Table
  /\ pendingEnds \subseteq Schedules
  /\ exhausted \subseteq Schedules

Places == {"down", "top", "retry", "reload", "list", "merge", "expire", "complete", "end",
           "launch", "start", "select", "drain", "done"}

ControlTypes ==
  /\ pc \in Places
  /\ todo \subseteq IF pc = "retry" THEN Schedules ELSE Name
  /\ pc \notin {"complete", "end", "start"} => cur = None
  /\ pc = "start" => cur \in Selected
  /\ pc \in {"complete", "end"} => cur \in Handled /\ back # None
  /\ back \in {None, "top", "expire", "launch", "drain"}
  /\ pc = "complete" => cur.report # None /\ back # "launch"
  /\ at \in Instant

Waits == Delays \cup {0, None} \cup UNION {0 .. d : d \in Delays}

TimeTypes ==
  /\ now \in Instant /\ horizon \in Instant
  /\ changes \in Nat /\ failures \in Nat /\ restarts \in Nat
  /\ signalled \in BOOLEAN /\ stopped \in BOOLEAN /\ budget \in BOOLEAN
  /\ stopping \in BOOLEAN /\ quarantined \in BOOLEAN /\ reloadWanted \in BOOLEAN
  /\ poll \in Timer(Poll) /\ grace \in Timer(Grace) /\ cleanup \in Timer(Grace)
  /\ retry \in Waits /\ write \in Waits

Types == DataTypes /\ ControlTypes /\ TimeTypes

-----------------------------------------------------------------------------
(* The statements of the store                                             *)

\* An effect on one row, as far as the proofs tell rows apart.
SameBut(old, new, n) == \A m \in Name \ {n} : new[m] = old[m]

LEMMA OneRow ==
  ASSUME NEW table \in Table, NEW n \in Name, NEW row, row \in Row,
         NEW new, new = [table EXCEPT ![n] = row]
  PROVE  new \in Table /\ new[n] = row /\ SameBut(table, new, n)
  BY DEF Table, SameBut

LEMMA ActiveRow ==
  ASSUME NEW table \in Table, NEW n \in Name, IsActive(table, n)
  PROVE  /\ table[n] \in Row /\ table[n] # NoRow /\ table[n].ended = FALSE
         /\ table[n].generation \in Generation /\ table[n].next \in Instant \cup {None}
         /\ table[n].enabled \in BOOLEAN /\ table[n].last \in (Generation \X Instant) \cup {None}
  BY DEF Table, Row, RowSet, IsActive

\* A row keeps its generation and, unless it ends, what it waits for.
Stays(old, new, n) ==
  /\ new[n] = NoRow <=> old[n] = NoRow
  /\ new[n] # NoRow => new[n].generation = old[n].generation
  /\ IsActive(new, n) => IsActive(old, n)

LEMMA RecordRunRow ==
  ASSUME NEW table \in Table, NEW n \in Name, NEW g, NEW outcome \in Generation \X Instant,
         NEW new, new = RecordRun(table, n, g, outcome)
  PROVE  /\ new \in Table /\ SameBut(table, new, n) /\ Stays(table, new, n)
         /\ IsActive(new, n) => new[n].next = table[n].next /\ new[n].enabled = table[n].enabled
         /\ IsActive(table, n) => IsActive(new, n)
<1>1. CASE Matches(table, n, g)
  <2> DEFINE row == [table[n] EXCEPT !.last = outcome]
  <2>1. table[n] \in Row /\ IsActive(table, n)
    BY <1>1, ActiveRow DEF Matches
  <2>2. row \in Row /\ row.generation = table[n].generation /\ row.next = table[n].next
        /\ row.enabled = table[n].enabled /\ row.ended = table[n].ended
    BY <2>1 DEF Row, RowSet
  <2>3. new = [table EXCEPT ![n] = row]
    BY <1>1 DEF RecordRun
  <2> HIDE DEF row
  <2>4. new \in Table /\ new[n] = row /\ SameBut(table, new, n)
    BY <2>2, <2>3, OneRow
  <2>5. row # NoRow /\ table[n] # NoRow
    BY <2>1, <2>2, NullAssumption
  <2>6. QED BY <2>1, <2>2, <2>4, <2>5 DEF Stays, IsActive
<1>2. CASE ~Matches(table, n, g)
  <2>1. new = table
    BY <1>2 DEF RecordRun
  <2>2. QED BY <2>1 DEF Stays, SameBut
<1>3. QED BY <1>1, <1>2

LEMMA SetNextRow ==
  ASSUME NEW table \in Table, NEW n \in Name, NEW g, NEW t \in Instant,
         NEW new, new = SetNext(table, n, g, t)
  PROVE  /\ new \in Table /\ SameBut(table, new, n) /\ Stays(table, new, n)
         /\ IsActive(new, n) => new[n].enabled = table[n].enabled
         /\ IsActive(table, n) => IsActive(new, n)
         /\ MatchesEnabled(table, n, g) => new[n].next = t
         /\ ~MatchesEnabled(table, n, g) => new = table
<1>1. CASE MatchesEnabled(table, n, g)
  <2> DEFINE row == [table[n] EXCEPT !.next = t]
  <2>1. table[n] \in Row /\ IsActive(table, n)
    BY <1>1, ActiveRow DEF Matches, MatchesEnabled
  <2>2. row \in Row /\ row.generation = table[n].generation /\ row.next = t
        /\ row.enabled = table[n].enabled /\ row.ended = table[n].ended
    BY <2>1 DEF Row, RowSet
  <2>3. new = [table EXCEPT ![n] = row]
    BY <1>1 DEF SetNext
  <2> HIDE DEF row
  <2>4. new \in Table /\ new[n] = row /\ SameBut(table, new, n)
    BY <2>2, <2>3, OneRow
  <2>5. row # NoRow /\ table[n] # NoRow
    BY <2>1, <2>2, NullAssumption
  <2>6. QED BY <1>1, <2>1, <2>2, <2>4, <2>5 DEF Stays, IsActive
<1>2. CASE ~MatchesEnabled(table, n, g)
  <2>1. new = table
    BY <1>2 DEF SetNext
  <2>2. QED BY <1>2, <2>1 DEF Stays, SameBut
<1>3. QED BY <1>1, <1>2

LEMMA StopRow ==
  ASSUME NEW table \in Table, NEW n \in Name, NEW g,
         NEW new, new = Stop(table, n, g)
  PROVE  /\ new \in Table /\ SameBut(table, new, n) /\ Stays(table, new, n)
         /\ Matches(table, n, g) => ~IsActive(new, n)
         /\ ~Matches(table, n, g) => new = table
<1>1. CASE Matches(table, n, g)
  <2> DEFINE row == [table[n] EXCEPT !.ended = TRUE, !.next = None]
  <2>1. table[n] \in Row /\ IsActive(table, n)
    BY <1>1, ActiveRow DEF Matches
  <2>2. row \in Row /\ row.generation = table[n].generation /\ row.ended = TRUE
    BY <2>1 DEF Row, RowSet
  <2>3. new = [table EXCEPT ![n] = row]
    BY <1>1 DEF Stop, Table
  <2> HIDE DEF row
  <2>4. new \in Table /\ new[n] = row /\ SameBut(table, new, n)
    BY <2>2, <2>3, OneRow
  <2>5. row # NoRow /\ table[n] # NoRow
    BY <2>1, <2>2, NullAssumption
  <2>6. QED BY <1>1, <2>1, <2>2, <2>4, <2>5 DEF Stays, IsActive
<1>2. CASE ~Matches(table, n, g)
  <2>1. new = table
    BY <1>2 DEF Stop
  <2>2. QED BY <1>2, <2>1 DEF Stays, SameBut
<1>3. QED BY <1>1, <1>2

LEMMA DisableRow ==
  ASSUME NEW table \in Table, NEW n \in Name, NEW g, NEW outcome \in Generation \X Instant,
         NEW new, new = Disable(table, n, g, outcome)
  PROVE  /\ new \in Table /\ SameBut(table, new, n) /\ Stays(table, new, n)
         /\ IsActive(new, n) => new[n].next = table[n].next
<1>1. CASE Matches(table, n, g)
  <2> DEFINE row == [table[n] EXCEPT !.enabled = FALSE, !.last = outcome]
  <2>1. table[n] \in Row /\ IsActive(table, n)
    BY <1>1, ActiveRow DEF Matches
  <2>2. row \in Row /\ row.generation = table[n].generation /\ row.next = table[n].next
        /\ row.ended = table[n].ended
    BY <2>1 DEF Row, RowSet
  <2>3. new = [table EXCEPT ![n] = row]
    BY <1>1 DEF Disable, Table
  <2> HIDE DEF row
  <2>4. new \in Table /\ new[n] = row /\ SameBut(table, new, n)
    BY <2>2, <2>3, OneRow
  <2>5. row # NoRow /\ table[n] # NoRow
    BY <2>1, <2>2, NullAssumption
  <2>6. QED BY <2>1, <2>2, <2>4, <2>5 DEF Stays, IsActive
<1>2. CASE ~Matches(table, n, g)
  <2>1. new = table
    BY <1>2 DEF Disable
  <2>2. QED BY <2>1 DEF Stays, SameBut
<1>3. QED BY <1>1, <1>2

LEMMA FlagRow ==
  ASSUME NEW table \in Table, NEW n \in Name, NEW enabled \in BOOLEAN, IsActive(table, n),
         NEW new, new = SetFlags(table, [m \in {n} |-> enabled])
  PROVE  /\ new \in Table /\ SameBut(table, new, n) /\ Stays(table, new, n)
         /\ IsActive(new, n) => new[n].next = table[n].next
<1> DEFINE row == [table[n] EXCEPT !.enabled = enabled]
<1>1. table[n] \in Row
  BY ActiveRow
<1>2. row \in Row /\ row.generation = table[n].generation /\ row.next = table[n].next
      /\ row.ended = table[n].ended
  BY <1>1 DEF Row, RowSet
<1>3. new = [m \in Name |-> IF m = n THEN row ELSE table[m]]
  BY DEF SetFlags
<1>4. table = [m \in Name |-> table[m]]
  BY DEF Table
<1> HIDE DEF row
<1>5. new = [table EXCEPT ![n] = row]
  BY <1>3, <1>4
<1>6. new \in Table /\ new[n] = row /\ SameBut(table, new, n)
  BY <1>1, <1>2, <1>5, OneRow
<1>7. row # NoRow /\ table[n] # NoRow
  BY <1>1, <1>2, NullAssumption
<1>8. QED BY <1>1, <1>2, <1>6, <1>7 DEF Stays, IsActive

\* A row written by name has a generation nobody has seen.
LEMMA WrittenRow ==
  ASSUME NEW table \in Table, NEW n \in Name, NEW t \in Instant, NEW enabled \in BOOLEAN,
         GenerationLeft(table, n),
         NEW new, new = Written(table, n, t, enabled)
  PROVE  /\ new \in Table /\ SameBut(table, new, n)
         /\ new[n] \in Row /\ new[n] # NoRow /\ new[n].next = t
         /\ table[n] # NoRow => new[n].generation = table[n].generation + 1
<1> DEFINE g == IF table[n] = NoRow THEN 1 ELSE table[n].generation + 1
           row == [generation |-> g, enabled |-> enabled, next |-> t, last |-> None, ended |-> FALSE]
<1>1. g \in Generation
  <2>1. MaxGeneration \in Nat \ {0}
    BY GenerationAssumption
  <2>2. CASE table[n] = NoRow
    BY <2>1, <2>2 DEF Generation
  <2>3. CASE table[n] # NoRow
    <3>1. table[n].generation \in Generation /\ table[n].generation < MaxGeneration
      BY <2>3 DEF Table, Row, RowSet, GenerationLeft
    <3>2. QED BY <2>1, <2>3, <3>1 DEF Generation
  <2>4. QED BY <2>2, <2>3
<1>2. new = [table EXCEPT ![n] = row]
  BY DEF Written
<1>3. row \in Row /\ row.next = t /\ row.generation = g
  <2> HIDE DEF g
  <2>1. QED BY <1>1 DEF Row, RowSet
<1> HIDE DEF row
<1>4. new \in Table /\ new[n] = row /\ SameBut(table, new, n)
  BY <1>2, <1>3, OneRow
<1>5. QED BY <1>3, <1>4, NullAssumption

-----------------------------------------------------------------------------
(* Types                                                                   *)

LEMMA LaterTyped ==
  /\ \A max \in Nat : \A t \in Timer(max) : Later(t) \in Timer(max)
  /\ \A t \in Waits : Later(t) \in Waits
<1>1. ASSUME NEW max \in Nat, NEW t \in Timer(max) PROVE Later(t) \in Timer(max)
  BY DEF Timer, Later
<1>2. ASSUME NEW t \in Waits PROVE Later(t) \in Waits
  <2>1. CASE t \in {None, 0}
    BY <2>1 DEF Waits, Later
  <2>2. CASE t \in Delays /\ t \notin {None, 0}
    <3>1. t \in Nat /\ t # 0
      BY <2>2, PeriodAssumption
    <3>2. Later(t) = t - 1 /\ t - 1 \in 0 .. t
      BY <2>2, <3>1 DEF Later
    <3>3. QED BY <2>2, <3>2 DEF Waits
  <2>3. CASE t \in UNION {0 .. d : d \in Delays} /\ t \notin {None, 0}
    <3>1. PICK d \in Delays : t \in 0 .. d
      BY <2>3
    <3>2. d \in Nat
      BY PeriodAssumption
    <3>3. Later(t) = t - 1 /\ t - 1 \in 0 .. d
      BY <2>3, <3>1, <3>2 DEF Later
    <3>4. QED BY <3>3 DEF Waits
  <2>4. QED BY <2>1, <2>2, <2>3 DEF Waits
<1>3. QED BY <1>1, <1>2

LEMMA BackoffTyped ==
  /\ \A t \in Waits : \A failing \in BOOLEAN : \A u \in Backoff(t, failing) : u \in Waits
  /\ None \in Waits /\ 0 \in Waits
  BY DEF Backoff, Waits

\* What a store call may have done, by its answer.
LEMMA CallEffect ==
  ASSUME TimeTypes, NEW written, NEW matched \in BOOLEAN, NEW answer, Call(written, matched, answer)
  PROVE  /\ failures' \in Nat /\ quarantined' \in BOOLEAN
         /\ quarantined => quarantined'
         /\ rows' = rows \/ rows' = written
         /\ Refused => rows' = rows
         /\ answer = "yes" => matched /\ rows' = written /\ ~quarantined
         /\ answer = "no" => ~matched /\ rows' = written
         /\ answer = "failed" => rows' = rows /\ (quarantined => Refused)
         /\ answer = "unknown" => quarantined' \/ rows' = written
         /\ answer # "unknown" => quarantined' = quarantined
         /\ answer \in Answers
<1>1. CASE CallAnswers(written, matched, answer)
  <2>1. (matched /\ answer = "yes") \/ (~matched /\ answer = "no")
    BY <1>1 DEF CallAnswers
  <2>2. QED BY <1>1, <2>1 DEF CallAnswers, TimeTypes, Answers
<1>2. CASE CallFails(answer)
  BY <1>2 DEF CallFails, TimeTypes, Answers
<1>3. CASE CallIsUncertain(written, answer)
  <2>1. CASE quarantined /\ UNCHANGED shared
    BY <1>3, <2>1 DEF CallIsUncertain, TimeTypes, Answers, shared
  <2>2. CASE /\ ~quarantined /\ failures' = failures + 1
             /\ \/ quarantined' = TRUE /\ rows' \in {rows, written}
                \/ quarantined' = FALSE /\ rows' = written
    <3>1. answer = "unknown" /\ ~Refused
      BY <1>3 DEF CallIsUncertain
    <3>2. failures' \in Nat
      BY <2>2 DEF TimeTypes
    <3>3. quarantined' \in BOOLEAN /\ ~quarantined
      BY <2>2
    <3>4. rows' = rows \/ rows' = written
      BY <2>2
    <3>5. quarantined' \/ rows' = written
      BY <2>2
    <3>6. QED BY <3>1, <3>2, <3>3, <3>4, <3>5 DEF Answers
  <2>3. QED BY <1>3, <2>1, <2>2 DEF CallIsUncertain
<1>4. QED BY <1>1, <1>2, <1>3 DEF Call


\* A write by others leaves the worker alone.
LEMMA ChangeFrame ==
  ASSUME TimeTypes, NEW written, ChangeRows(written)
  PROVE  /\ rows' = written /\ changes' = changes + 1 /\ signalled' \in BOOLEAN
         /\ UNCHANGED <<quarantined, failures, pc, timers, memory, control, now, horizon, stop,
                 restarts, history>>
<1>1. rows' = written /\ changes' = changes + 1
  BY DEF ChangeRows
<1>2. signalled' \in {signalled, signalled \/ Alive}
  BY DEF ChangeRows
<1>3. signalled' \in BOOLEAN
  <2>1. signalled \in BOOLEAN /\ (signalled \/ Alive) \in BOOLEAN
    BY DEF TimeTypes
  <2>2. QED BY ONLY <1>2, <2>1, Zenon
<1>4. QED BY <1>1, <1>3 DEF ChangeRows

LEMMA CallStepTyped ==
  ASSUME TimeTypes, NEW written, NEW matched \in BOOLEAN, NEW answer,
         Call(written, matched, answer),
         reloadWanted' \in BOOLEAN, poll' \in Timer(Poll), retry' \in Waits, write' \in Waits,
         UNCHANGED <<now, horizon, changes, restarts, signalled, stopped, budget, stopping, grace, cleanup>>
  PROVE  TimeTypes'
<1>1. failures' \in Nat /\ quarantined' \in BOOLEAN
  BY CallEffect
<1>2. QED BY <1>1 DEF TimeTypes

LEMMA MatchesIsBoolean ==
  \A table, n, g : Matches(table, n, g) \in BOOLEAN /\ MatchesEnabled(table, n, g) \in BOOLEAN
  BY DEF Matches, MatchesEnabled

LEMMA OrIsBoolean ==
  ASSUME NEW p \in BOOLEAN, NEW q PROVE (p \/ q = "no") \in BOOLEAN
  OBVIOUS

LEMMA TimeTypesKept ==
  ASSUME Types, [Next]_vars
  PROVE  TimeTypes'
<1> USE DEF Types
<1>1. CASE SeeStop
  BY <1>1 DEF SeeStop, TimeTypes, shared, timers, memory, control, stop, outside, history
<1>2. CASE Top
  BY <1>2, BackoffTyped, PeriodAssumption DEF Top, TimeTypes, Timer, shared, timers, memory, control, stop, outside, history
<1>3. CASE RetryStopped
  BY <1>3 DEF RetryStopped, TimeTypes, shared, timers, memory, control, stop, outside, history
<1>4. CASE RetryDone
  BY <1>4 DEF RetryDone, TimeTypes, shared, timers, memory, control, stop, outside, history
<1>5. ASSUME NEW n \in Name, NEW g \in Generation, RetryEnd(n, g) PROVE TimeTypes'
  <2>1. PICK answer \in Answers :
          /\ Call(Stop(rows, n, g),
                  Matches(rows, n, g), answer)
          /\ reloadWanted' = (reloadWanted \/ answer = "no")
          /\ write' \in Backoff(write, answer = "failed")
    BY <1>5 DEF RetryEnd
  <2>2. Matches(rows, n, g) \in BOOLEAN
    BY MatchesIsBoolean
  <2>3. reloadWanted' \in BOOLEAN
    BY <2>1, OrIsBoolean DEF TimeTypes
  <2>4. write' \in Waits
    BY <2>1, BackoffTyped DEF TimeTypes
  <2>5. UNCHANGED <<now, horizon, changes, restarts, signalled, stopped, budget, stopping, grace, cleanup, poll, retry>>
    BY <1>5 DEF RetryEnd, timers, memory, stop, outside
  <2>6. poll' \in Timer(Poll) /\ retry' \in Waits
    BY <2>5 DEF TimeTypes
  <2>7. QED BY <2>1, <2>2, <2>3, <2>4, <2>5, <2>6, CallStepTyped
<1>6. CASE Reload
  <2>1. reloadWanted' = FALSE /\ poll' = Poll
        /\ UNCHANGED <<failures, quarantined, retry, write, stopping, now, horizon, signalled, stop, changes, restarts>>
    BY <1>6 DEF Reload, shared, outside
  <2>2. Poll \in Timer(Poll)
    BY PeriodAssumption DEF Timer
  <2>3. QED BY <2>1, <2>2 DEF TimeTypes, stop
<1>7. CASE ListActive
  <2>1. PICK answer \in Answers :
          /\ Call(rows, TRUE, answer)
          /\ \/ retry' = None /\ poll' = poll
             \/ retry' \in Backoff(retry, TRUE) /\ poll' = None
    BY <1>7 DEF ListActive
  <2>2. UNCHANGED <<now, horizon, changes, restarts, signalled, stopped, budget, stopping, grace, cleanup, write, reloadWanted>>
    BY <1>7 DEF ListActive, memory, stop, outside
  <2>3. poll' \in Timer(Poll) /\ retry' \in Waits
    BY <2>1, BackoffTyped DEF TimeTypes, Timer
  <2>4. reloadWanted' \in BOOLEAN /\ write' \in Waits
    BY <2>2 DEF TimeTypes
  <2>5. QED BY <2>1, <2>2, <2>3, <2>4, CallStepTyped
<1>8. CASE Merge
  BY <1>8 DEF Merge, TimeTypes, shared, timers, memory, control, stop, outside, history
<1>9. CASE ExpireDone
  BY <1>9 DEF ExpireDone, TimeTypes, shared, timers, memory, control, stop, outside, history
<1>10. ASSUME NEW n \in Name, Expire(n) PROVE TimeTypes'
  BY <1>10 DEF Expire, TakeRun, TimeTypes, shared, timers, memory, control, stop, outside, history
<1>11. CASE CompleteDelete
  <2>1. PICK answer \in Answers :
          /\ Call(Stop(rows, cur.name, cur.gen),
                  Matches(rows, cur.name, cur.gen), answer)
          /\ reloadWanted' = (reloadWanted \/ answer = "no")
          /\ write' \in Backoff(write, answer = "failed")
    BY <1>11 DEF CompleteDelete, CompleteStopCheck
  <2>2. Matches(rows, cur.name, cur.gen) \in BOOLEAN
    BY MatchesIsBoolean
  <2>3. reloadWanted' \in BOOLEAN
    BY <2>1, OrIsBoolean DEF TimeTypes
  <2>4. write' \in Waits
    BY <2>1, BackoffTyped DEF TimeTypes
  <2>5. UNCHANGED <<now, horizon, changes, restarts, signalled, stopped, budget, stopping, grace, cleanup, poll, retry>>
    BY <1>11 DEF CompleteDelete, CompleteStopCheck, timers, memory, stop, outside
  <2>6. poll' \in Timer(Poll) /\ retry' \in Waits
    BY <2>5 DEF TimeTypes
  <2>7. QED BY <2>1, <2>2, <2>3, <2>4, <2>5, <2>6, CallStepTyped
<1>12. CASE CompleteDisable
  <2>1. PICK answer \in Answers :
          /\ Call(Disable(rows, cur.name, cur.gen, <<cur.gen, cur.occ>>),
                  Matches(rows, cur.name, cur.gen), answer)
          /\ reloadWanted' = (reloadWanted \/ answer = "no")
          /\ write' \in Backoff(write, answer = "failed")
    BY <1>12 DEF CompleteDisable, CompleteStopCheck
  <2>2. Matches(rows, cur.name, cur.gen) \in BOOLEAN
    BY MatchesIsBoolean
  <2>3. reloadWanted' \in BOOLEAN
    BY <2>1, OrIsBoolean DEF TimeTypes
  <2>4. write' \in Waits
    BY <2>1, BackoffTyped DEF TimeTypes
  <2>5. UNCHANGED <<now, horizon, changes, restarts, signalled, stopped, budget, stopping, grace, cleanup, poll, retry>>
    BY <1>12 DEF CompleteDisable, CompleteStopCheck, timers, memory, stop, outside
  <2>6. poll' \in Timer(Poll) /\ retry' \in Waits
    BY <2>5 DEF TimeTypes
  <2>7. QED BY <2>1, <2>2, <2>3, <2>4, <2>5, <2>6, CallStepTyped
<1>13. CASE CompleteRan
  <2>1. PICK answer \in Answers :
          /\ Call(RecordRun(rows, cur.name, cur.gen, <<cur.gen, cur.occ>>),
                  Matches(rows, cur.name, cur.gen), answer)
          /\ reloadWanted' = (reloadWanted \/ answer = "no")
    BY <1>13 DEF CompleteRan
  <2>2. Matches(rows, cur.name, cur.gen) \in BOOLEAN
    BY MatchesIsBoolean
  <2>3. reloadWanted' \in BOOLEAN
    BY <2>1, OrIsBoolean DEF TimeTypes
  <2>4. write' \in Waits
    BY <1>13 DEF TimeTypes, CompleteRan, timers
  <2>5. UNCHANGED <<now, horizon, changes, restarts, signalled, stopped, budget, stopping, grace, cleanup, poll, retry>>
    BY <1>13 DEF CompleteRan, timers, memory, stop, outside
  <2>6. poll' \in Timer(Poll) /\ retry' \in Waits
    BY <2>5 DEF TimeTypes
  <2>7. QED BY <2>1, <2>2, <2>3, <2>4, <2>5, <2>6, CallStepTyped
<1>14. CASE EndExhausted
  <2>1. PICK answer \in Answers :
          /\ Call(Stop(rows, cur.name, cur.gen),
                  Matches(rows, cur.name, cur.gen), answer)
          /\ reloadWanted' = (reloadWanted \/ answer = "no")
          /\ write' \in Backoff(write, answer = "failed")
    BY <1>14 DEF EndExhausted
  <2>2. Matches(rows, cur.name, cur.gen) \in BOOLEAN
    BY MatchesIsBoolean
  <2>3. reloadWanted' \in BOOLEAN
    BY <2>1, OrIsBoolean DEF TimeTypes
  <2>4. write' \in Waits
    BY <2>1, BackoffTyped DEF TimeTypes
  <2>5. UNCHANGED <<now, horizon, changes, restarts, signalled, stopped, budget, stopping, grace, cleanup, poll, retry>>
    BY <1>14 DEF EndExhausted, timers, memory, stop, outside
  <2>6. poll' \in Timer(Poll) /\ retry' \in Waits
    BY <2>5 DEF TimeTypes
  <2>7. QED BY <2>1, <2>2, <2>3, <2>4, <2>5, <2>6, CallStepTyped
<1>15. CASE LaunchDone
  BY <1>15 DEF LaunchDone, TimeTypes, shared, timers, memory, control, stop, outside, history
<1>16. CASE Start
  BY <1>16 DEF Start, TimeTypes, shared, timers, memory, control, stop, outside, history
<1>17. ASSUME NEW n \in Name, NotDue(n) PROVE TimeTypes'
  BY <1>17 DEF NotDue, TimeTypes, shared, timers, memory, control, stop, outside, history
<1>18. ASSUME NEW n \in Name, PersistNext(n) PROVE TimeTypes'
  <2>1. UNCHANGED <<now, horizon, changes, restarts, signalled, stopped, budget, stopping, grace, cleanup,
                    poll, retry, write>>
    BY <1>18 DEF PersistNext, timers, stop, outside
  <2>2. poll' \in Timer(Poll) /\ retry' \in Waits /\ write' \in Waits
    BY <2>1 DEF TimeTypes
  <2>3. CASE NextRun(n, at) = None
    <3>1. UNCHANGED <<failures, quarantined, reloadWanted>>
      BY <1>18, <2>3 DEF PersistNext, shared
    <3>2. QED BY <2>1, <3>1 DEF TimeTypes
  <2>4. CASE NextRun(n, at) # None
    <3>1. PICK answer \in Answers :
            /\ Call(SetNext(rows, n, slot[n].gen, NextRun(n, at)),
                    MatchesEnabled(rows, n, slot[n].gen), answer)
            /\ reloadWanted' = (reloadWanted \/ answer = "no")
      BY <1>18, <2>4 DEF PersistNext
    <3>2. MatchesEnabled(rows, n, slot[n].gen) \in BOOLEAN
      BY MatchesIsBoolean
    <3>3. reloadWanted' \in BOOLEAN
      BY <3>1, OrIsBoolean DEF TimeTypes
    <3>4. QED BY <2>1, <2>2, <3>1, <3>2, <3>3, CallStepTyped
  <2>5. QED BY <2>3, <2>4
<1>19. CASE SelectSignal
  BY <1>19 DEF SelectSignal, TimeTypes, shared, timers, memory, control, stop, outside, history
<1>20. CASE SelectWake
  BY <1>20 DEF SelectWake, TimeTypes, shared, timers, memory, control, stop, outside, history
<1>21. ASSUME NEW n \in Name, SelectFinished(n) PROVE TimeTypes'
  BY <1>21 DEF SelectFinished, TakeRun, TimeTypes, shared, timers, memory, control, stop, outside, history
<1>22. CASE DrainDiscard
  BY <1>22 DEF DrainDiscard, TimeTypes, shared, timers, memory, control, stop, outside, history
<1>23. CASE DrainDone
  BY <1>23 DEF DrainDone, TimeTypes, shared, timers, memory, control, stop, outside, history
<1>24. ASSUME NEW n \in Name, DrainFinished(n) PROVE TimeTypes'
  BY <1>24 DEF DrainFinished, TakeRun, TimeTypes, shared, timers, memory, control, stop, outside, history
<1>25. ASSUME NEW n \in Name, DrainExpired(n) PROVE TimeTypes'
  BY <1>25 DEF DrainExpired, TakeRun, TimeTypes, shared, timers, memory, control, stop, outside, history
<1>26. CASE Tick
  BY <1>26, LaterTyped, PeriodAssumption DEF Tick, TimeTypes, Instant, shared, timers, memory, control, stop, outside, history
<1>27. ASSUME NEW n \in Name, NEW report \in {"ran", "delete", "disable"}, JobReports(n, report) PROVE TimeTypes'
  BY <1>27 DEF JobReports, TimeTypes, shared, timers, memory, control, stop, outside, history
<1>28. ASSUME NEW n \in Name, StartSchedule(n) PROVE TimeTypes'
  <2>1. ChangeRows(Written(rows, n, NextRun(n, now), TRUE))
    BY <1>28 DEF StartSchedule
  <2>2. changes' = changes + 1 /\ signalled' \in BOOLEAN
        /\ UNCHANGED <<quarantined, failures, timers, memory, now, horizon, stop, restarts>>
    BY <2>1, ChangeFrame
  <2>3. QED BY <2>2 DEF TimeTypes, timers, memory, stop
<1>29. ASSUME NEW n \in Name, StopSchedule(n) PROVE TimeTypes'
  <2>1. ChangeRows(Stop(rows, n, rows[n].generation))
    BY <1>29 DEF StopSchedule
  <2>2. changes' = changes + 1 /\ signalled' \in BOOLEAN
        /\ UNCHANGED <<quarantined, failures, timers, memory, now, horizon, stop, restarts>>
    BY <2>1, ChangeFrame
  <2>3. QED BY <2>2 DEF TimeTypes, timers, memory, stop
<1>30. ASSUME NEW n \in Name, NEW enabled \in BOOLEAN, SetEnabled(n, enabled) PROVE TimeTypes'
  <2>1. ChangeRows(SetFlags(rows, [m \in {n} |-> enabled]))
    BY <1>30 DEF SetEnabled
  <2>2. changes' = changes + 1 /\ signalled' \in BOOLEAN
        /\ UNCHANGED <<quarantined, failures, timers, memory, now, horizon, stop, restarts>>
    BY <2>1, ChangeFrame
  <2>3. QED BY <2>2 DEF TimeTypes, timers, memory, stop
<1>31. ASSUME NEW n \in Name, NEW enabled \in BOOLEAN, ReplaceSchedule(n, enabled) PROVE TimeTypes'
  <2>1. ChangeRows(Written(rows, n, NextRun(n, now), enabled))
    BY <1>31 DEF ReplaceSchedule
  <2>2. changes' = changes + 1 /\ signalled' \in BOOLEAN
        /\ UNCHANGED <<quarantined, failures, timers, memory, now, horizon, stop, restarts>>
    BY <2>1, ChangeFrame
  <2>3. QED BY <2>2 DEF TimeTypes, timers, memory, stop
<1>32. ASSUME NEW deadline \in {None} \cup 0 .. Grace, HandleStop(deadline) PROVE TimeTypes'
  BY <1>32, BackoffTyped, PeriodAssumption DEF HandleStop, TimeTypes, Timer, shared, timers, memory, control, stop, outside, history
<1>33. ASSUME NEW g \in 0 .. Grace, NEW k \in 0 .. Grace, ControlStop(g, k) PROVE TimeTypes'
  BY <1>33, BackoffTyped, PeriodAssumption DEF ControlStop, TimeTypes, Timer, shared, timers, memory, control, stop, outside, history
<1>34. CASE Crash
  <2>1. restarts' = restarts + 1 /\ reloadWanted' = FALSE /\ Forget
    BY <1>34 DEF Crash
  <2>2. /\ poll' = None /\ retry' = None /\ write' = None /\ grace' = None /\ cleanup' = None
        /\ stopping' = FALSE /\ stopped' = FALSE /\ budget' = FALSE /\ signalled' = FALSE
        /\ quarantined' = FALSE /\ UNCHANGED <<failures, now, horizon, changes>>
    BY <2>1 DEF Forget
  <2>3. poll' \in Timer(Poll) /\ grace' \in Timer(Grace) /\ cleanup' \in Timer(Grace)
        /\ retry' \in Waits /\ write' \in Waits
    BY <2>2, BackoffTyped DEF Timer
  <2>4. restarts' \in Nat
    BY <2>1 DEF TimeTypes
  <2>5. reloadWanted' \in BOOLEAN
    BY <2>1
  <2>6. QED BY <2>2, <2>3, <2>4, <2>5 DEF TimeTypes
<1>35. CASE Restart
  BY <1>35, BackoffTyped, PeriodAssumption DEF Restart, Forget, TimeTypes, Timer, shared, timers, memory, control, stop, outside, history
<1>36. CASE UNCHANGED vars
  BY <1>36 DEF vars, TimeTypes, shared, timers, memory, control, stop, outside, history
<1>37. QED BY <1>1, <1>2, <1>3, <1>4, <1>5, <1>6, <1>7, <1>8, <1>9, <1>10, <1>11, <1>12, <1>13, <1>14, <1>15, <1>16, <1>17, <1>18, <1>19, <1>20, <1>21, <1>22, <1>23, <1>24, <1>25, <1>26, <1>27, <1>28, <1>29, <1>30, <1>31, <1>32, <1>33, <1>34, <1>35, <1>36 DEF Next, WorkerStep, Environment

LEMMA SlotFields ==
  ASSUME DataTypes, NEW n \in Name, slot[n] # None
  PROVE  /\ slot[n] \in Slot
         /\ slot[n].gen \in Generation /\ slot[n].next \in Instant \cup {None}
         /\ slot[n].run \in Run \cup {None}
  BY DEF DataTypes, Slot

LEMMA RunFields ==
  ASSUME DataTypes, NEW n \in Name, Running(n)
  PROVE  /\ slot[n] # None /\ slot[n].run \in Run /\ slot[n].run.occ \in Instant
         /\ slot[n].run.left \in 0 .. Timeout
         /\ slot[n].run.report \in {None, "ran", "delete", "disable"}
  BY SlotFields DEF Running, Run

\* A run taken from its slot is handled by `complete`.
LEMMA TakeTyped ==
  ASSUME DataTypes, ControlTypes, NEW n \in Name, Running(n),
         NEW report \in {"ran", "delete", "disable"}, NEW next \in {"top", "expire", "drain"},
         TakeRun(n, report, next), todo' \subseteq Name, at' = at
  PROVE  ControlTypes'
<1> DEFINE taken == [name |-> n, gen |-> slot[n].gen, occ |-> slot[n].run.occ, report |-> report]
<1>1. cur' = taken /\ pc' = "complete" /\ back' = next
  BY DEF TakeRun
<1>2. taken \in Handled /\ taken.report = report
  BY SlotFields, RunFields DEF Handled
<1> HIDE DEF taken
<1>3. report # None
  BY NullAssumption, RunFields DEF Instant
<1>4. QED BY <1>1, <1>2, <1>3, NullAssumption DEF ControlTypes, Places

LEMMA ControlTypesKept ==
  ASSUME Types, [Next]_vars
  PROVE  ControlTypes'
<1> USE DEF Types
<1>1. CASE SeeStop
  <2>1. pc' = "drain" /\ todo' = {} /\ UNCHANGED <<cur, back, at>>
        /\ pc \in {"top", "select", "expire", "launch"}
    BY <1>1 DEF SeeStop, SeesStop
  <2>2. QED BY <2>1 DEF ControlTypes, Places
<1>2. CASE Top
  BY <1>2 DEF Top, ControlTypes, DataTypes, Places, Slotted
<1>3. CASE RetryStopped
  BY <1>3 DEF RetryStopped, ControlTypes, Places
<1>4. CASE RetryDone
  BY <1>4 DEF RetryDone, ControlTypes, Places, control
<1>5. ASSUME NEW n \in Name, NEW g \in Generation, RetryEnd(n, g) PROVE ControlTypes'
  BY <1>5 DEF RetryEnd, ControlTypes, DataTypes, Places
<1>6. CASE Reload
  BY <1>6 DEF Reload, ControlTypes, Places, control
<1>7. CASE ListActive
  <2>1. /\ pc = "list" /\ cur' = cur /\ back' = back /\ at' = at
        /\ \/ pc' = "merge" /\ todo' = todo
           \/ pc' = "expire" /\ todo' = Slotted
    BY <1>7 DEF ListActive
  <2>2. Slotted \subseteq Name
    BY DEF Slotted
  <2>3. QED BY <2>1, <2>2 DEF ControlTypes, Places
<1>8. CASE Merge
  <2>1. pc = "merge" /\ pc' = "expire" /\ cur' = cur /\ back' = back /\ at' = at
        /\ todo' \subseteq Name
    BY <1>8 DEF Merge, Slotted
  <2>2. QED BY <2>1 DEF ControlTypes, Places
<1>9. CASE ExpireDone
  BY <1>9 DEF ExpireDone, ControlTypes, TimeTypes, Places, Slotted
<1>10. ASSUME NEW n \in Name, Expire(n) PROVE ControlTypes'
  <2>1. pc = "expire" /\ todo' = todo \ {n} /\ at' = at
    BY <1>10 DEF Expire
  <2>2. CASE Expired(n)
    <3>1. TakeRun(n, Aborted(slot[n].run), "expire") /\ Running(n)
      BY <1>10, <2>2 DEF Expire, Expired
    <3>2. Aborted(slot[n].run) \in {"ran", "delete", "disable"}
      BY <3>1, RunFields DEF Aborted, Running
    <3>3. QED BY <2>1, <3>1, <3>2, TakeTyped DEF ControlTypes
  <2>3. CASE ~Expired(n)
    BY <1>10, <2>1, <2>3 DEF Expire, ControlTypes
  <2>4. QED BY <2>2, <2>3
<1>11. CASE CompleteDelete
  BY <1>11 DEF CompleteDelete, CompleteStopCheck, Resume, ControlTypes, Places
<1>12. CASE CompleteDisable
  BY <1>12 DEF CompleteDisable, CompleteStopCheck, Resume, ControlTypes, Places
<1>13. CASE CompleteRan
  <2>1. pc = "complete" /\ todo' = todo /\ at' = at
        /\ \/ pc' = "end" /\ UNCHANGED <<cur, back>>
           \/ pc' = back /\ cur' = None /\ back' = None
    BY <1>13 DEF CompleteRan, Resume
  <2>2. QED BY <2>1 DEF ControlTypes, Places
<1>14. CASE EndExhausted
  BY <1>14 DEF EndExhausted, Resume, ControlTypes, Places
<1>15. CASE LaunchDone
  BY <1>15 DEF LaunchDone, ControlTypes, Places, control
<1>16. CASE Start
  <2> DEFINE ended == [name |-> cur.name, gen |-> cur.gen, occ |-> cur.occ, report |-> None]
  <2>1. pc = "start" /\ todo' = todo /\ at' = at
        /\ \/ pc' = "end" /\ cur' = ended /\ back' = "launch"
           \/ pc' = "launch" /\ cur' = None /\ back' = back
    BY <1>16 DEF Start
  <2>2. cur.name \in Name /\ cur.gen \in Generation /\ cur.occ \in Instant
    BY <2>1 DEF ControlTypes, Selected
  <2>3. ended \in Handled
    BY <2>2 DEF Handled
  <2> HIDE DEF ended
  <2>4. QED BY <2>1, <2>3, NullAssumption DEF ControlTypes, Places
<1>17. ASSUME NEW n \in Name, NotDue(n) PROVE ControlTypes'
  BY <1>17 DEF NotDue, ControlTypes, Places, control
<1>18. ASSUME NEW n \in Name, PersistNext(n) PROVE ControlTypes'
  <2>1. pc = "launch" /\ todo' = todo \ {n} /\ at' = at /\ back' = back
    BY <1>18 DEF PersistNext
  <2>2. DueAt(n, at)
    BY <1>18 DEF PersistNext
  <2>3. slot[n].gen \in Generation /\ slot[n].next \in Instant
    BY <2>2, SlotFields DEF DueAt
  <2> DEFINE missed == NextRun(n, slot[n].next) # None /\ NextRun(n, slot[n].next) <= at
             launch(saved) == [name |-> n, gen |-> slot[n].gen, occ |-> slot[n].next,
                               missed |-> missed, saved |-> saved]
  <2>4. missed \in BOOLEAN
    OBVIOUS
  <2> HIDE DEF missed
  <2>5. \A saved \in BOOLEAN : launch(saved) \in Selected
    BY <2>3, <2>4 DEF Selected
  <2>6. \/ pc' = "start" /\ \E saved \in BOOLEAN : cur' = launch(saved)
        \/ UNCHANGED <<pc, cur>>
    <3>1. CASE NextRun(n, at) = None
      BY <1>18, <3>1 DEF PersistNext, missed
    <3>2. CASE NextRun(n, at) # None
      <4>1. PICK answer \in Answers : IF Authorizes(answer)
                                      THEN pc' = "start" /\ cur' = launch(answer = "yes")
                                      ELSE UNCHANGED <<pc, cur>>
        BY <1>18, <3>2 DEF PersistNext, missed
      <4>2. (answer = "yes") \in BOOLEAN
        OBVIOUS
      <4>3. QED BY <4>1, <4>2
    <3>3. QED BY <3>1, <3>2
  <2> HIDE DEF launch
  <2>7. CASE pc' = "start" /\ \E saved \in BOOLEAN : cur' = launch(saved)
    <3>1. cur' \in Selected
      BY <2>5, <2>7
    <3>2. QED BY <2>1, <2>7, <3>1 DEF ControlTypes, Places
  <2>8. CASE UNCHANGED <<pc, cur>>
    BY <2>1, <2>8 DEF ControlTypes
  <2>9. QED BY <2>6, <2>7, <2>8
<1>19. CASE SelectSignal
  BY <1>19 DEF SelectSignal, ControlTypes, Places, control
<1>20. CASE SelectWake
  BY <1>20 DEF SelectWake, ControlTypes, Places, control
<1>21. ASSUME NEW n \in Name, SelectFinished(n) PROVE ControlTypes'
  <2>1. TakeRun(n, slot[n].run.report, "top") /\ Running(n) /\ todo' = todo /\ at' = at /\ pc = "select"
    BY <1>21 DEF SelectFinished, Finished, Expired
  <2>2. slot[n].run.report \in {"ran", "delete", "disable"}
    BY <1>21, <2>1, RunFields DEF Finished, Aborted, Running, SelectFinished
  <2>3. QED BY <2>1, <2>2, TakeTyped DEF ControlTypes
<1>22. CASE DrainDiscard
  BY <1>22 DEF DrainDiscard, ControlTypes, Places, control
<1>23. CASE DrainDone
  BY <1>23 DEF DrainDone, ControlTypes, Places, control
<1>24. ASSUME NEW n \in Name, DrainFinished(n) PROVE ControlTypes'
  <2>1. TakeRun(n, slot[n].run.report, "drain") /\ Running(n) /\ todo' = todo /\ at' = at /\ pc = "drain"
    BY <1>24 DEF DrainFinished, Finished, Expired
  <2>2. slot[n].run.report \in {"ran", "delete", "disable"}
    BY <1>24, <2>1, RunFields DEF Finished, Aborted, Running, DrainFinished
  <2>3. QED BY <2>1, <2>2, TakeTyped DEF ControlTypes
<1>25. ASSUME NEW n \in Name, DrainExpired(n) PROVE ControlTypes'
  <2>1. TakeRun(n, Aborted(slot[n].run), "drain") /\ Running(n) /\ todo' = todo /\ at' = at /\ pc = "drain"
    BY <1>25 DEF DrainExpired, Finished, Expired
  <2>2. Aborted(slot[n].run) \in {"ran", "delete", "disable"}
    BY <1>25, <2>1, RunFields DEF Finished, Aborted, Running, DrainExpired
  <2>3. QED BY <2>1, <2>2, TakeTyped DEF ControlTypes
<1>26. CASE Tick
  BY <1>26 DEF Tick, ControlTypes, control
<1>27. ASSUME NEW n \in Name, NEW report \in {"ran", "delete", "disable"}, JobReports(n, report) PROVE ControlTypes'
  BY <1>27 DEF JobReports, ControlTypes, Places, control
<1>28. ASSUME NEW n \in Name, StartSchedule(n) PROVE ControlTypes'
  <2>1. ChangeRows(Written(rows, n, NextRun(n, now), TRUE))
    BY <1>28 DEF StartSchedule
  <2>2. UNCHANGED <<pc, control>>
    BY <2>1, ChangeFrame
  <2>3. QED BY <2>2 DEF ControlTypes, control
<1>29. ASSUME NEW n \in Name, StopSchedule(n) PROVE ControlTypes'
  <2>1. ChangeRows(Stop(rows, n, rows[n].generation))
    BY <1>29 DEF StopSchedule
  <2>2. UNCHANGED <<pc, control>>
    BY <2>1, ChangeFrame
  <2>3. QED BY <2>2 DEF ControlTypes, control
<1>30. ASSUME NEW n \in Name, NEW enabled \in BOOLEAN, SetEnabled(n, enabled) PROVE ControlTypes'
  <2>1. ChangeRows(SetFlags(rows, [m \in {n} |-> enabled]))
    BY <1>30 DEF SetEnabled
  <2>2. UNCHANGED <<pc, control>>
    BY <2>1, ChangeFrame
  <2>3. QED BY <2>2 DEF ControlTypes, control
<1>31. ASSUME NEW n \in Name, NEW enabled \in BOOLEAN, ReplaceSchedule(n, enabled) PROVE ControlTypes'
  <2>1. ChangeRows(Written(rows, n, NextRun(n, now), enabled))
    BY <1>31 DEF ReplaceSchedule
  <2>2. UNCHANGED <<pc, control>>
    BY <2>1, ChangeFrame
  <2>3. QED BY <2>2 DEF ControlTypes, control
<1>32. ASSUME NEW deadline \in {None} \cup 0 .. Grace, HandleStop(deadline) PROVE ControlTypes'
  BY <1>32 DEF HandleStop, ControlTypes, Places, control
<1>33. ASSUME NEW g \in 0 .. Grace, NEW k \in 0 .. Grace, ControlStop(g, k) PROVE ControlTypes'
  BY <1>33 DEF ControlStop, ControlTypes, Places, control
<1>34. CASE Crash
  <2>1. pc' = "down" /\ todo' = {} /\ cur' = None /\ back' = None /\ at' = 0
    BY <1>34 DEF Crash, Forget
  <2>2. 0 \in Instant
    BY PeriodAssumption DEF Instant
  <2>3. QED BY <2>1, <2>2 DEF ControlTypes, Places
<1>35. CASE Restart
  <2>1. pc' = "top" /\ todo' = {} /\ cur' = None /\ back' = None /\ at' = 0
    BY <1>35 DEF Restart, Forget
  <2>2. 0 \in Instant
    BY PeriodAssumption DEF Instant
  <2>3. QED BY <2>1, <2>2 DEF ControlTypes, Places
<1>36. CASE UNCHANGED vars
  BY <1>36 DEF vars, ControlTypes, control
<1>37. QED BY <1>1, <1>2, <1>3, <1>4, <1>5, <1>6, <1>7, <1>8, <1>9, <1>10, <1>11, <1>12, <1>13, <1>14, <1>15, <1>16, <1>17, <1>18, <1>19, <1>20, <1>21, <1>22, <1>23, <1>24, <1>25, <1>26, <1>27, <1>28, <1>29, <1>30, <1>31, <1>32, <1>33, <1>34, <1>35, <1>36 DEF Next, WorkerStep, Environment

-----------------------------------------------------------------------------
(* Occurrences                                                             *)

LEMMA LeastNat ==
  ASSUME NEW I, I \subseteq Nat, I # {}
  PROVE  \E x \in I : \A y \in I : x <= y
<1>1. \E x \in I : \A y \in I : ~ (<<y, x>> \in OpToRel(<, Nat))
  BY NatLessThanWellFounded, WFMin
<1>2. PICK x \in I : \A y \in I : ~ (<<y, x>> \in OpToRel(<, Nat))
  BY <1>1
<1>3. ASSUME NEW y \in I PROVE x <= y
  <2>1. x \in Nat /\ y \in Nat /\ ~(y < x)
    BY <1>2 DEF OpToRel
  <2>2. QED BY <2>1
<1>4. QED BY <1>3

\* The next run is the occurrence after t, or there is none after t.
LEMMA NextRunOK ==
  ASSUME NEW n \in Name, NEW t
  PROVE  /\ NextRun(n, t) \in Instant \cup {None}
         /\ NextRun(n, t) = None => \A o \in Occ[n] : ~(o > t)
         /\ NextRun(n, t) # None => NextRun(n, t) \in Occ[n] /\ NextRun(n, t) > t
<1> DEFINE later == {o \in Occ[n] : o > t}
<1>1. later \subseteq 1 .. MaxTime /\ MaxTime \in Nat
  BY OccAssumption, PeriodAssumption
<1>2. CASE later = {}
  BY <1>2 DEF NextRun
<1>3. CASE later # {}
  <2>1. \E o \in later : \A p \in later : o <= p
    <3>1. later \subseteq Nat
      BY <1>1
    <3> HIDE DEF later
    <3>2. QED BY <1>3, <3>1, LeastNat
  <2>2. NextRun(n, t) = CHOOSE o \in later : \A p \in later : o <= p
    BY <1>3 DEF NextRun
  <2> HIDE DEF later
  <2>3. NextRun(n, t) \in later
    BY <2>1, <2>2
  <2>4. NextRun(n, t) \in 1 .. MaxTime
    BY <1>1, <2>3
  <2>5. NextRun(n, t) \in Instant
    BY <1>1, <2>4 DEF Instant
  <2>6. NextRun(n, t) # None
    BY <2>5, NullAssumption
  <2>7. QED BY <2>3, <2>5, <2>6 DEF later
<1>4. QED BY <1>2, <1>3

\* A tick at or after an occurrence stands for the latest one up to it.
LEMMA LatestOK ==
  ASSUME NEW n \in Name, NEW t \in Instant, NEW o \in Occ[n], o <= t
  PROVE  /\ Latest(n, t) \in Occ[n] /\ Latest(n, t) <= t /\ Latest(n, t) \in Instant
         /\ \A p \in Occ[n] : p <= t => p <= Latest(n, t)
<1> DEFINE past == {p \in Occ[n] : p <= t}
           gaps == {t - p : p \in past}
<1>1. past \subseteq 1 .. MaxTime /\ MaxTime \in Nat /\ t \in Nat /\ o \in past
  BY OccAssumption, PeriodAssumption DEF Instant
<1>2. gaps \subseteq Nat /\ gaps # {}
  BY <1>1
<1>3. PICK x \in gaps : \A y \in gaps : x <= y
  <2> HIDE DEF gaps
  <2>1. QED BY <1>2, LeastNat
<1>4. PICK q \in past : x = t - q
  BY <1>3
<1>5. ASSUME NEW p \in past PROVE p <= q
  <2>1. t - p \in gaps
    OBVIOUS
  <2>2. p \in Nat /\ q \in Nat /\ t - q <= t - p
    BY <1>1, <1>3, <1>4, <2>1
  <2>3. QED BY <1>1, <2>2
<1>6. Latest(n, t) = CHOOSE q_1 \in past : \A p \in past : p <= q_1
  BY DEF Latest
<1> HIDE DEF past
<1>7. Latest(n, t) \in past /\ \A p \in past : p <= Latest(n, t)
  BY <1>4, <1>5, <1>6
<1>8. QED BY <1>1, <1>7 DEF past, Instant

LEMMA OneSlot ==
  ASSUME DataTypes, NEW n \in Name, NEW s, s \in Slot \cup {None}, slot' = [slot EXCEPT ![n] = s]
  PROVE  /\ slot' \in [Name -> Slot \cup {None}] /\ slot'[n] = s
         /\ \A m \in Name \ {n} : slot'[m] = slot[m]
  BY DEF DataTypes

LEMMA TakeData ==
  ASSUME DataTypes, NEW n \in Name, slot[n] # None, NEW report, NEW next \in {"top", "expire", "drain"},
         TakeRun(n, report, next), UNCHANGED <<rows, ran, pendingEnds, exhausted, snap>>
  PROVE  DataTypes'
<1> DEFINE freed == [slot[n] EXCEPT !.run = None]
<1>1. slot' = [slot EXCEPT ![n] = freed] /\ pc' # "merge"
  BY DEF TakeRun, DataTypes
<1>2. freed \in Slot
  BY SlotFields DEF Slot
<1> HIDE DEF freed
<1>3. slot' \in [Name -> Slot \cup {None}]
  BY <1>1, <1>2, OneSlot
<1>4. QED BY <1>1, <1>3 DEF DataTypes

LEMMA MergeTyped ==
  ASSUME DataTypes, Merge
  PROVE  slot' \in [Name -> Slot \cup {None}]
<1> DEFINE built(n) == [gen |-> snap[n].generation, next |-> snap[n].next, run |-> None]
<1>1. snap \in Table
  BY DEF Merge, DataTypes
<1>2. \A n \in Name : IsActive(snap, n) => built(n) \in Slot
  BY <1>1, ActiveRow DEF Slot
<1>3. PICK kept \in SUBSET Name, new \in SUBSET Name :
        /\ slot' = [n \in Name |-> IF n \in kept THEN slot[n] ELSE IF n \in new THEN built(n) ELSE None]
        /\ \A n \in new : IsActive(snap, n)
  <2> DEFINE kept == {n \in Slotted : Keeps(n)}
             new  == {n \in Name \ kept : IsActive(snap, n) /\ snap[n].enabled}
             made == {n \in new : Builds(n, snap[n].generation)}
  <2>1. slot' = [n \in Name |-> IF n \in kept THEN slot[n] ELSE IF n \in made THEN built(n) ELSE None]
    BY DEF Merge
  <2>2. kept \in SUBSET Name /\ made \in SUBSET Name /\ \A n \in made : IsActive(snap, n)
    BY DEF Slotted
  <2> HIDE DEF kept, new, made, built
  <2>3. QED BY <2>1, <2>2
<1> HIDE DEF built
<1>4. QED BY <1>2, <1>3 DEF DataTypes

\* What launch_selected does with the selected slot: it launches it, keeps it or,
\* with nothing left to do, ends it; and the tick counts as handled unless the
\* launch was refused.
StartKeeps ==
  /\ pc' = "launch" /\ cur' = None /\ back' = back /\ exhausted' = exhausted
  /\ slot'[cur.name] # None
  /\ slot'[cur.name].gen = slot[cur.name].gen /\ slot'[cur.name].next = slot[cur.name].next
  /\ \/ slot'[cur.name].run = slot[cur.name].run
     \/ ~budget /\ slot[cur.name].run = None /\ slot'[cur.name].run.occ = cur.occ

StartEnds ==
  /\ pc' = "end" /\ cur'.name = cur.name /\ cur'.gen = cur.gen /\ back' = "launch"
  /\ exhausted' = exhausted \cup {<<cur.name, cur.gen>>}
  /\ slot'[cur.name] = None /\ slot[cur.name].next = None /\ slot[cur.name].run = None

StartHandles ==
  /\ ran'[cur.name] # None
  /\ ran'[cur.name].gen = cur.gen
  /\ ran'[cur.name].upto = Latest(cur.name, at)
  /\ ran'[cur.name].saved = IF cur.saved THEN Latest(cur.name, at)
                            ELSE IF HandledBy(cur.name, cur.gen) THEN ran[cur.name].saved ELSE 0

LEMMA StartStep ==
  ASSUME Types, Fresh, Attended, Start
  PROVE  /\ pc = "start" /\ cur.name \in Name /\ cur.gen \in Generation /\ cur.occ \in Instant
         /\ slot[cur.name] # None
         /\ slot' \in [Name -> Slot \cup {None}] /\ ran' \in [Name -> Handling \cup {None}]
         /\ \A m \in Name \ {cur.name} : slot'[m] = slot[m] /\ ran'[m] = ran[m]
         /\ StartKeeps \/ StartEnds
         /\ StartHandles \/ (ran' = ran /\ budget /\ (StartKeeps => slot[cur.name].next # None))
<1> DEFINE n == cur.name
           launches == ~PassedOver /\ ~budget
           over == ~launches /\ slot[n].next = None /\ slot[n].run = None
           run == [occ |-> cur.occ, left |-> Timeout, report |-> None]
           launched == [slot[n] EXCEPT !.run = run]
           saved == IF cur.saved THEN Latest(n, at)
                    ELSE IF ran[n] # None /\ ran[n].gen = cur.gen THEN ran[n].saved ELSE 0
           handled == [gen |-> cur.gen, upto |-> Latest(n, at), saved |-> saved]
           kept == IF launches THEN launched ELSE IF over THEN None ELSE slot[n]
<1>1. /\ pc = "start" /\ n \in Name /\ cur.gen \in Generation /\ cur.occ \in Instant
      /\ slot[n] # None /\ at \in Instant
  BY DEF Start, Types, ControlTypes, Selected, Attended
<1>2. DataTypes
  BY DEF Types
<1>3. slot' = [slot EXCEPT ![n] = kept]
  BY DEF Start
<1>4. ran' = IF budget /\ ~PassedOver THEN ran ELSE [ran EXCEPT ![n] = handled]
  BY <1>1, <1>2 DEF Start, DataTypes
<1>5. \/ /\ over /\ pc' = "end" /\ cur' = [name |-> n, gen |-> cur.gen, occ |-> cur.occ, report |-> None]
         /\ back' = "launch" /\ exhausted' = exhausted \cup {<<n, cur.gen>>}
      \/ ~over /\ pc' = "launch" /\ cur' = None /\ back' = back /\ exhausted' = exhausted
  BY DEF Start
<1>6. slot[n] \in Slot /\ run \in Run /\ run.occ = cur.occ
  BY <1>1, <1>2, SlotFields, PeriodAssumption DEF Run
<1>7. launched \in Slot /\ launched.gen = slot[n].gen /\ launched.next = slot[n].next /\ launched.run = run
  <2> HIDE DEF run, n
  <2>1. QED BY <1>6 DEF Slot
<1>8. launched # None
  BY <1>7, NullAssumption
<1>9. Latest(n, at) \in Instant
  <2>1. cur.occ \in Occ[n] /\ cur.occ <= at
    BY <1>1 DEF Fresh, StartIsFresh, Beyond
  <2>2. QED BY <1>1, <2>1, LatestOK
<1>10. saved \in Instant
  <2>1. 0 \in Instant
    BY PeriodAssumption DEF Instant
  <2>2. ran[n] # None => ran[n].saved \in Instant
    BY <1>1, <1>2 DEF DataTypes, Handling
  <2>3. QED BY <1>9, <2>1, <2>2
<1>11. handled \in Handling /\ handled.gen = cur.gen /\ handled.upto = Latest(n, at) /\ handled.saved = saved
  <2> HIDE DEF saved, n
  <2>1. QED BY <1>1, <1>9, <1>10 DEF Handling
<1>12. handled # None
  BY <1>11, NullAssumption
<1>13. slot' \in [Name -> Slot \cup {None}] /\ slot'[n] = kept /\ \A m \in Name \ {n} : slot'[m] = slot[m]
  <2>1. kept \in Slot \cup {None}
    BY <1>6, <1>7
  <2> HIDE DEF kept
  <2>2. QED BY <1>1, <1>2, <1>3, <2>1, OneSlot
<1>14. ran' \in [Name -> Handling \cup {None}] /\ \A m \in Name \ {n} : ran'[m] = ran[m]
  <2> HIDE DEF handled
  <2>1. QED BY <1>1, <1>2, <1>4, <1>11 DEF DataTypes
<1>15. StartHandles \/ (ran' = ran /\ budget /\ ~PassedOver)
  <2>1. CASE ~(budget /\ ~PassedOver)
    <3> HIDE DEF handled
    <3>1. ran'[n] = handled
      BY <1>1, <1>2, <1>4, <2>1 DEF DataTypes
    <3>2. StartHandles
      BY <1>11, <1>12, <3>1 DEF StartHandles, HandledBy
    <3>3. QED BY <3>2
  <2>2. CASE budget /\ ~PassedOver
    BY <1>4, <2>2
  <2>3. QED BY <2>1, <2>2
<1> HIDE DEF launched, handled, saved
<1>16. launches => slot[n].run = None /\ ~budget
  BY DEF PassedOver
<1>17. StartKeeps \/ StartEnds
  <2>1. CASE over
    <3>1. pc' = "end" /\ cur' = [name |-> n, gen |-> cur.gen, occ |-> cur.occ, report |-> None]
          /\ back' = "launch" /\ exhausted' = exhausted \cup {<<n, cur.gen>>}
      BY <1>5, <2>1
    <3>2. slot'[n] = None
      BY <1>13, <2>1
    <3>3. QED BY <2>1, <3>1, <3>2 DEF StartEnds
  <2>2. CASE launches
    <3>1. slot'[n] = launched
      BY <1>13, <2>2
    <3>2. pc' = "launch" /\ cur' = None /\ back' = back /\ exhausted' = exhausted
      BY <1>5, <2>2
    <3>3. QED BY <1>6, <1>7, <1>8, <1>16, <2>2, <3>1, <3>2 DEF StartKeeps
  <2>3. CASE ~launches /\ ~over
    <3>1. slot'[n] = slot[n]
      BY <1>13, <2>3
    <3>2. pc' = "launch" /\ cur' = None /\ back' = back /\ exhausted' = exhausted
      BY <1>5, <2>3
    <3>3. QED BY <1>1, <3>1, <3>2 DEF StartKeeps
  <2>4. QED BY <2>1, <2>2, <2>3
<1>18. ASSUME ran' = ran, budget, ~PassedOver, StartKeeps PROVE slot[n].next # None
  <2>1. ~over
    BY <1>5, <1>18 DEF StartKeeps
  <2>2. slot[n].run = None
    BY <1>18 DEF PassedOver
  <2>3. QED BY <1>18, <2>1, <2>2
<1>19. QED BY <1>1, <1>13, <1>14, <1>15, <1>17, <1>18

LEMMA DataTypesKept ==
  ASSUME Types, Fresh, Attended, [Next]_vars
  PROVE  DataTypes'
<1> USE DEF Types
<1>1. CASE SeeStop
  <2>1. pc' = "drain" /\ UNCHANGED <<rows, slot, ran, snap, pendingEnds, exhausted>>
    BY <1>1 DEF SeeStop, shared, history
  <2>2. QED BY <2>1 DEF DataTypes
<1>2. CASE Top
  <2>1. pc' # "merge" /\ UNCHANGED <<rows, slot, ran, snap, exhausted>>
    BY <1>2 DEF Top, shared, history
  <2>2. pendingEnds' \subseteq Schedules
    BY <1>2 DEF Top, DataTypes, ControlTypes
  <2>3. QED BY <2>1, <2>2 DEF DataTypes
<1>3. CASE RetryStopped
  <2>1. pc' # "merge" /\ UNCHANGED <<rows, slot, ran, snap, exhausted>>
    BY <1>3 DEF RetryStopped, shared, history
  <2>2. pendingEnds' \subseteq Schedules
    BY <1>3 DEF RetryStopped, DataTypes, ControlTypes
  <2>3. QED BY <2>1, <2>2 DEF DataTypes
<1>4. CASE RetryDone
  BY <1>4 DEF RetryDone, DataTypes, shared, memory, control, outside, history
<1>5. ASSUME NEW n \in Name, NEW g \in Generation, RetryEnd(n, g) PROVE DataTypes'
  <2>1. rows' = rows \/ rows' = Stop(rows, n, g)
    BY <1>5 DEF RetryEnd, Call, CallAnswers, CallFails, CallIsUncertain, shared
  <2>2. rows' \in Table
    BY <2>1, StopRow DEF DataTypes
  <2>3. pendingEnds' \subseteq Schedules
    BY <1>5 DEF RetryEnd, DataTypes, Schedules
  <2>4. UNCHANGED <<pc, slot, ran, snap, exhausted>>
    BY <1>5 DEF RetryEnd, history
  <2>5. QED BY <2>2, <2>3, <2>4 DEF DataTypes
<1>6. CASE Reload
  BY <1>6 DEF Reload, DataTypes, shared, memory, control, outside, history
<1>7. CASE ListActive
  <2>1. rows' = rows
    BY <1>7 DEF ListActive, Call, CallAnswers, CallFails, CallIsUncertain, shared
  <2>2. UNCHANGED <<slot, ran, pendingEnds, exhausted>>
    BY <1>7 DEF ListActive, memory, history
  <2>3. \/ pc' = "merge" /\ snap' = rows
        \/ pc' = "expire" /\ snap' = snap
    BY <1>7 DEF ListActive
  <2>4. QED BY <2>1, <2>2, <2>3 DEF DataTypes
<1>8. CASE Merge
  <2>1. slot' \in [Name -> Slot \cup {None}]
    BY <1>8, MergeTyped
  <2>2. pc' = "expire" /\ snap' = None /\ UNCHANGED <<rows, ran, pendingEnds, exhausted>>
    BY <1>8 DEF Merge, shared, history
  <2>3. QED BY <2>1, <2>2 DEF DataTypes
<1>9. CASE ExpireDone
  BY <1>9 DEF ExpireDone, DataTypes, shared, memory, control, outside, history
<1>10. ASSUME NEW n \in Name, Expire(n) PROVE DataTypes'
  <2>1. UNCHANGED <<rows, ran, pendingEnds, exhausted, snap>>
    BY <1>10 DEF Expire, shared, history
  <2>2. CASE Expired(n)
    <3>1. TakeRun(n, Aborted(slot[n].run), "expire") /\ slot[n] # None
      BY <1>10, <2>2 DEF Expire, Expired, Running
    <3>2. QED BY <2>1, <3>1, TakeData
  <2>3. CASE ~Expired(n)
    BY <1>10, <2>1, <2>3 DEF Expire, DataTypes
  <2>4. QED BY <2>2, <2>3
<1>11. CASE CompleteDelete
  <2>1. rows' = rows \/ rows' = Stop(rows, cur.name, cur.gen)
    BY <1>11 DEF CompleteDelete, CompleteStopCheck, Call, CallAnswers, CallFails, CallIsUncertain, shared
  <2>2. cur.name \in Name /\ cur.gen \in Generation /\ cur.occ \in Instant
    BY <1>11 DEF CompleteDelete, CompleteStopCheck, ControlTypes, Handled
  <2>3. rows' \in Table
    BY <2>1, <2>2, StopRow DEF DataTypes
  <2>4. slot' = [slot EXCEPT ![cur.name] = None] /\ pc' = back /\ pc = "complete"
        /\ UNCHANGED <<ran, pendingEnds, exhausted, snap>>
    BY <1>11 DEF CompleteDelete, CompleteStopCheck, Resume, history
  <2>5. pc' # "merge"
    BY <2>4 DEF ControlTypes
  <2>6. QED BY <2>2, <2>3, <2>4, <2>5, OneSlot DEF DataTypes
<1>12. CASE CompleteDisable
  <2>1. rows' = rows \/ rows' = Disable(rows, cur.name, cur.gen, <<cur.gen, cur.occ>>)
    BY <1>12 DEF CompleteDisable, CompleteStopCheck, Call, CallAnswers, CallFails, CallIsUncertain, shared
  <2>2. cur.name \in Name /\ cur.gen \in Generation /\ cur.occ \in Instant
    BY <1>12 DEF CompleteDisable, CompleteStopCheck, ControlTypes, Handled
  <2>3. rows' \in Table
    BY <2>1, <2>2, DisableRow DEF DataTypes
  <2>4. slot' = [slot EXCEPT ![cur.name] = None] /\ pc' = back /\ pc = "complete"
        /\ UNCHANGED <<ran, pendingEnds, exhausted, snap>>
    BY <1>12 DEF CompleteDisable, CompleteStopCheck, Resume, history
  <2>5. pc' # "merge"
    BY <2>4 DEF ControlTypes
  <2>6. QED BY <2>2, <2>3, <2>4, <2>5, OneSlot DEF DataTypes
<1>13. CASE CompleteRan
  <2>1. rows' = rows \/ rows' = RecordRun(rows, cur.name, cur.gen, <<cur.gen, cur.occ>>)
    BY <1>13 DEF CompleteRan, Call, CallAnswers, CallFails, CallIsUncertain, shared
  <2>2. cur.name \in Name /\ cur.gen \in Generation /\ cur.occ \in Instant
    BY <1>13 DEF CompleteRan, ControlTypes, Handled
  <2>3. rows' \in Table
    BY <2>1, <2>2, RecordRunRow DEF DataTypes
  <2>4. pc = "complete" /\ UNCHANGED <<ran, pendingEnds, snap>>
    BY <1>13 DEF CompleteRan
  <2>5. /\ slot' = slot \/ slot' = [slot EXCEPT ![cur.name] = None]
        /\ pc' = back \/ pc' = "end"
        /\ exhausted' = exhausted \/ exhausted' = exhausted \cup {<<cur.name, cur.gen>>}
    BY <1>13 DEF CompleteRan, Resume
  <2>6. slot' \in [Name -> Slot \cup {None}]
    BY <2>2, <2>5, OneSlot DEF DataTypes
  <2>7. exhausted' \subseteq Schedules /\ pc' # "merge"
    BY <2>2, <2>4, <2>5 DEF DataTypes, ControlTypes, Schedules
  <2>8. QED BY <2>3, <2>4, <2>6, <2>7 DEF DataTypes
<1>14. CASE EndExhausted
  <2>1. rows' = rows \/ rows' = Stop(rows, cur.name, cur.gen)
    BY <1>14 DEF EndExhausted, Call, CallAnswers, CallFails, CallIsUncertain, shared
  <2>2. cur.name \in Name /\ cur.gen \in Generation
    BY <1>14 DEF EndExhausted, ControlTypes, Handled
  <2>3. rows' \in Table
    BY <2>1, <2>2, StopRow DEF DataTypes
  <2>4. pc' = back /\ pc = "end" /\ UNCHANGED <<slot, ran, exhausted, snap>>
    BY <1>14 DEF EndExhausted, Resume, history
  <2>5. pendingEnds' \subseteq Schedules
    BY <1>14, <2>2 DEF EndExhausted, DataTypes, Schedules
  <2>6. pc' # "merge"
    BY <2>4 DEF ControlTypes
  <2>7. QED BY <2>3, <2>4, <2>5, <2>6 DEF DataTypes
<1>15. CASE LaunchDone
  BY <1>15 DEF LaunchDone, DataTypes, shared, memory, control, outside, history
<1>16. CASE Start
  <2>1. cur.name \in Name /\ cur.gen \in Generation /\ cur.occ \in Instant
    BY <1>16 DEF Start, ControlTypes, Selected
  <2>2. slot' \in [Name -> Slot \cup {None}] /\ ran' \in [Name -> Handling \cup {None}]
    BY <1>16, StartStep
  <2>3. UNCHANGED <<rows, snap, pendingEnds>> /\ pc' # "merge"
        /\ exhausted' \in {exhausted, exhausted \cup {<<cur.name, cur.gen>>}}
    BY <1>16 DEF Start, shared
  <2>4. exhausted' \subseteq Schedules
    BY <2>1, <2>3 DEF DataTypes, Schedules
  <2>5. QED BY <2>2, <2>3, <2>4 DEF DataTypes
<1>17. ASSUME NEW n \in Name, NotDue(n) PROVE DataTypes'
  BY <1>17 DEF NotDue, DataTypes, shared, memory, control, outside, history
<1>18. ASSUME NEW n \in Name, PersistNext(n) PROVE DataTypes'
  <2> DEFINE next == NextRun(n, at)
             moved == [slot[n] EXCEPT !.next = next]
  <2>1. slot' = [slot EXCEPT ![n].next = next] /\ slot[n] # None
        /\ UNCHANGED <<ran, snap, pendingEnds, exhausted>> /\ pc' # "merge"
    BY <1>18 DEF PersistNext, DueAt, history
  <2>2. slot' = [slot EXCEPT ![n] = moved]
    BY <2>1 DEF DataTypes
  <2>3. next \in Instant \cup {None}
    BY NextRunOK
  <2>4. moved \in Slot
    <3> HIDE DEF next
    <3>1. QED BY <2>1, <2>3, SlotFields DEF Slot
  <2>5. rows' \in Table
    <3>1. CASE next = None
      BY <1>18, <3>1 DEF PersistNext, shared, DataTypes
    <3>2. CASE next # None
      <4>1. rows' = rows \/ rows' = SetNext(rows, n, slot[n].gen, next)
        BY <1>18, <3>2 DEF PersistNext, Call, CallAnswers, CallFails, CallIsUncertain, shared
      <4>2. QED BY <2>3, <3>2, <4>1, SetNextRow DEF DataTypes
    <3>3. QED BY <3>1, <3>2
  <2> HIDE DEF moved
  <2>6. slot' \in [Name -> Slot \cup {None}]
    BY <2>2, <2>4, OneSlot
  <2>7. QED BY <2>1, <2>5, <2>6 DEF DataTypes
<1>19. CASE SelectSignal
  BY <1>19 DEF SelectSignal, DataTypes, shared, memory, control, outside, history
<1>20. CASE SelectWake
  BY <1>20 DEF SelectWake, DataTypes, shared, memory, control, outside, history
<1>21. ASSUME NEW n \in Name, SelectFinished(n) PROVE DataTypes'
  <2>1. TakeRun(n, slot[n].run.report, "top") /\ slot[n] # None
        /\ UNCHANGED <<rows, ran, pendingEnds, exhausted, snap>>
    BY <1>21 DEF SelectFinished, Finished, Expired, Running, shared, history
  <2>2. QED BY <2>1, TakeData
<1>22. CASE DrainDiscard
  <2>1. slot' = [m \in Name |-> IF Running(m) THEN [slot[m] EXCEPT !.run = None] ELSE slot[m]]
        /\ UNCHANGED <<rows, pc, ran, snap, pendingEnds, exhausted>>
    BY <1>22 DEF DrainDiscard, shared, control, history
  <2>2. \A m \in Name : Running(m) => [slot[m] EXCEPT !.run = None] \in Slot
    BY SlotFields DEF Slot, Running
  <2>3. slot' \in [Name -> Slot \cup {None}]
    BY <2>1, <2>2 DEF DataTypes
  <2>4. QED BY <2>1, <2>3 DEF DataTypes
<1>23. CASE DrainDone
  BY <1>23 DEF DrainDone, DataTypes, shared, memory, control, outside, history
<1>24. ASSUME NEW n \in Name, DrainFinished(n) PROVE DataTypes'
  <2>1. TakeRun(n, slot[n].run.report, "drain") /\ slot[n] # None
        /\ UNCHANGED <<rows, ran, pendingEnds, exhausted, snap>>
    BY <1>24 DEF DrainFinished, Finished, Expired, Running, shared, history
  <2>2. QED BY <2>1, TakeData
<1>25. ASSUME NEW n \in Name, DrainExpired(n) PROVE DataTypes'
  <2>1. TakeRun(n, Aborted(slot[n].run), "drain") /\ slot[n] # None
        /\ UNCHANGED <<rows, ran, pendingEnds, exhausted, snap>>
    BY <1>25 DEF DrainExpired, Finished, Expired, Running, shared, history
  <2>2. QED BY <2>1, TakeData
<1>26. CASE Tick
  <2> DEFINE older(m) == [slot[m] EXCEPT !.run.left = Later(slot[m].run.left)]
  <2>1. slot' = [m \in Name |-> IF Running(m) THEN older(m) ELSE slot[m]]
        /\ UNCHANGED <<rows, pc, ran, snap, pendingEnds, exhausted>>
    BY <1>26 DEF Tick, shared, control, history
  <2>2. ASSUME NEW m \in Name, Running(m) PROVE older(m) \in Slot
    <3> DEFINE new == [slot[m].run EXCEPT !.left = Later(slot[m].run.left)]
    <3>1. Later(slot[m].run.left) \in 0 .. Timeout
      BY <2>2, RunFields, PeriodAssumption DEF Later
    <3>2. new \in Run
      BY <2>2, <3>1, RunFields DEF Run
    <3>3. older(m) = [slot[m] EXCEPT !.run = new]
      BY <2>2, RunFields, SlotFields DEF Slot
    <3> HIDE DEF new
    <3>4. QED BY <2>2, <3>2, <3>3, SlotFields DEF Slot, Running
  <2> HIDE DEF older
  <2>3. slot' \in [Name -> Slot \cup {None}]
    BY <2>1, <2>2 DEF DataTypes
  <2>4. QED BY <2>1, <2>3 DEF DataTypes
<1>27. ASSUME NEW n \in Name, NEW report \in {"ran", "delete", "disable"}, JobReports(n, report) PROVE DataTypes'
  <2> DEFINE new == [slot[n].run EXCEPT !.report = report]
             reported == [slot[n] EXCEPT !.run = new]
  <2>1. slot' = [slot EXCEPT ![n].run.report = report] /\ Running(n)
        /\ UNCHANGED <<rows, pc, ran, snap, pendingEnds, exhausted>>
    BY <1>27 DEF JobReports, shared, control, history
  <2>2. slot' = [slot EXCEPT ![n] = reported]
    BY <2>1 DEF DataTypes
  <2>3. new \in Run
    BY <2>1, RunFields DEF Run
  <2>4. reported \in Slot
    <3> HIDE DEF new
    <3>1. QED BY <2>1, <2>3, SlotFields DEF Slot, Running
  <2> HIDE DEF reported
  <2>5. slot' \in [Name -> Slot \cup {None}]
    BY <2>2, <2>4, OneSlot
  <2>6. QED BY <2>1, <2>5 DEF DataTypes
<1>28. ASSUME NEW n \in Name, StartSchedule(n) PROVE DataTypes'
  <2> DEFINE written == Written(rows, n, NextRun(n, now), TRUE)
  <2>1. ChangeRows(written)
    BY <1>28 DEF StartSchedule
  <2>2. written \in Table
    BY <1>28, NextRunOK, WrittenRow DEF StartSchedule, CanCreate, DataTypes
  <2> HIDE DEF written
  <2>3. rows' = written /\ UNCHANGED <<pc, memory, control, history>>
    BY <2>1, ChangeFrame
  <2>4. QED BY <2>2, <2>3 DEF DataTypes, memory, control, history
<1>29. ASSUME NEW n \in Name, StopSchedule(n) PROVE DataTypes'
  <2> DEFINE written == Stop(rows, n, rows[n].generation)
  <2>1. ChangeRows(written)
    BY <1>29 DEF StopSchedule
  <2>2. written \in Table
    BY <1>29, StopRow DEF DataTypes
  <2> HIDE DEF written
  <2>3. rows' = written /\ UNCHANGED <<pc, memory, control, history>>
    BY <2>1, ChangeFrame
  <2>4. QED BY <2>2, <2>3 DEF DataTypes, memory, control, history
<1>30. ASSUME NEW n \in Name, NEW enabled \in BOOLEAN, SetEnabled(n, enabled) PROVE DataTypes'
  <2> DEFINE written == SetFlags(rows, [m \in {n} |-> enabled])
  <2>1. ChangeRows(written)
    BY <1>30 DEF SetEnabled
  <2>2. written \in Table
    BY <1>30, FlagRow DEF SetEnabled, DataTypes
  <2> HIDE DEF written
  <2>3. rows' = written /\ UNCHANGED <<pc, memory, control, history>>
    BY <2>1, ChangeFrame
  <2>4. QED BY <2>2, <2>3 DEF DataTypes, memory, control, history
<1>31. ASSUME NEW n \in Name, NEW enabled \in BOOLEAN, ReplaceSchedule(n, enabled) PROVE DataTypes'
  <2> DEFINE written == Written(rows, n, NextRun(n, now), enabled)
  <2>1. ChangeRows(written)
    BY <1>31 DEF ReplaceSchedule
  <2>2. written \in Table
    BY <1>31, NextRunOK, WrittenRow DEF ReplaceSchedule, DataTypes
  <2> HIDE DEF written
  <2>3. rows' = written /\ UNCHANGED <<pc, memory, control, history>>
    BY <2>1, ChangeFrame
  <2>4. QED BY <2>2, <2>3 DEF DataTypes, memory, control, history
<1>32. ASSUME NEW deadline \in {None} \cup 0 .. Grace, HandleStop(deadline) PROVE DataTypes'
  BY <1>32 DEF HandleStop, DataTypes, shared, memory, control, outside, history
<1>33. ASSUME NEW g \in 0 .. Grace, NEW k \in 0 .. Grace, ControlStop(g, k) PROVE DataTypes'
  BY <1>33 DEF ControlStop, DataTypes, shared, memory, control, outside, history
<1>34. CASE Crash
  <2>1. pc' = "down" /\ slot' = [m \in Name |-> None] /\ pendingEnds' = {} /\ exhausted' = {}
        /\ snap' = None /\ UNCHANGED <<rows, ran>>
    BY <1>34 DEF Crash, Forget
  <2>2. QED BY <2>1 DEF DataTypes
<1>35. CASE Restart
  <2>1. pc' = "top" /\ slot' = [m \in Name |-> None] /\ pendingEnds' = {} /\ exhausted' = {}
        /\ snap' = None /\ UNCHANGED <<rows, ran>>
    BY <1>35 DEF Restart, Forget
  <2>2. QED BY <2>1 DEF DataTypes
<1>36. CASE UNCHANGED vars
  BY <1>36 DEF vars, DataTypes, shared, memory, control, outside, history
<1>37. QED BY <1>1, <1>2, <1>3, <1>4, <1>5, <1>6, <1>7, <1>8, <1>9, <1>10, <1>11, <1>12, <1>13, <1>14, <1>15, <1>16, <1>17, <1>18, <1>19, <1>20, <1>21, <1>22, <1>23, <1>24, <1>25, <1>26, <1>27, <1>28, <1>29, <1>30, <1>31, <1>32, <1>33, <1>34, <1>35, <1>36 DEF Next, WorkerStep, Environment

-----------------------------------------------------------------------------
(* The steps, as far as the invariant tells them apart                     *)

\* Most steps move the worker on, take or age runs, or stop it, and leave the
\* rest alone.
SlotStays(n) ==
  /\ slot'[n] = None <=> slot[n] = None
  /\ slot[n] # None =>
       /\ slot'[n].gen = slot[n].gen /\ slot'[n].next = slot[n].next
       /\ slot[n].run = None => slot'[n].run = None

Takes == \E n \in Name : slot[n] # None /\ slot'[n].run = None /\ cur'.name = n /\ cur'.gen = slot[n].gen

StopGoesOn ==
  /\ stopping' => stopping \/ stopped'
  /\ stopped => stopped'
  /\ budget /\ stopped => budget'
  /\ budget' => budget \/ (stopped' /\ (Cooperative \/ "control" \in Stops))
  /\ pc \in {"start", "end"} => pc' = pc /\ stopping' = stopping
  /\ AfterStop /\ stopped => AfterStop'

Idle ==
  /\ UNCHANGED <<rows, ran, exhausted, quarantined, changes>>
  /\ Waiting' = Waiting
  /\ \A n \in Name : SlotStays(n)
  /\ pc' \in {"end", "start", "merge", "down"} => pc' = pc /\ UNCHANGED <<cur, back, at, snap>>
  /\ pc' = "complete" => Takes \/ (pc = "complete" /\ UNCHANGED <<cur, back>>)
  /\ \A n \in Name : Running(n) /\ slot'[n].run = None =>
       (pc' = "complete" /\ cur'.name = n) \/ grace = 0
  /\ StopGoesOn

\* A write by others.
OthersWrite ==
  \E n \in Name :
    /\ changes' = changes + 1
    /\ SameBut(rows, rows', n)
    /\ \/ Stays(rows, rows', n) /\ (IsActive(rows', n) => rows'[n].next = rows[n].next)
       \/ /\ rows'[n] # NoRow /\ rows'[n].next \in Occ[n]
          /\ rows[n] # NoRow => rows'[n].generation = rows[n].generation + 1
    /\ UNCHANGED <<pc, slot, pendingEnds, todo, cur, back, at, snap, stopped, budget, stopping,
                   ran, exhausted, quarantined>>

\* A crash or a restart.
Forgets ==
  /\ UNCHANGED <<rows, ran, changes>>
  /\ pc' = "down" \/ (pc = "down" /\ pc' = "top")
  /\ slot' = [n \in Name |-> None]
  /\ exhausted' = {} /\ pendingEnds' = {} /\ todo' = {}
  /\ stopping' = FALSE /\ stopped' = FALSE /\ budget' = FALSE

\* One try of the write that ends an exhausted schedule.
EndIsTried(n, g) ==
  /\ n \in Name /\ g \in Generation
  /\ UNCHANGED <<slot, ran, exhausted, changes, stopping, stopped, budget>>
  /\ SameBut(rows, rows', n) /\ Stays(rows, rows', n)
  /\ IsActive(rows', n) => rows'[n] = rows[n]
  /\ rows' = rows \/ Matches(rows, n, g)
  /\ Refused => rows' = rows
  /\ quarantined => quarantined'
  /\ Waiting \ {<<n, g>>} \subseteq Waiting' /\ Waiting' \subseteq Waiting \cup {<<n, g>>}
  /\ <<n, g>> \in Waiting' \/ quarantined' \/ ~Matches(rows', n, g)
  /\ pc' \notin {"end", "start", "complete", "merge", "down"}

Retries(n, g) == pc = "retry" /\ pc' = "retry" /\ <<n, g>> \in Waiting /\ EndIsTried(n, g)

Ends == pc = "end" /\ pc' = back /\ EndIsTried(cur.name, cur.gen)

\* A list of the rows, read or refused.
Lists ==
  /\ pc = "list"
  /\ UNCHANGED <<rows, slot, ran, exhausted, changes, stopping, stopped, budget>>
  /\ Waiting' = Waiting
  /\ quarantined => quarantined'
  /\ (pc' = "merge" /\ snap' = rows /\ ~quarantined) \/ pc' = "expire"

\* The new slots are the old ones of the rows read, and those just built.
Built(n) ==
  /\ IsActive(snap, n) /\ snap[n].enabled
  /\ <<n, snap[n].generation>> \notin Waiting
  /\ slot'[n] = [gen |-> snap[n].generation, next |-> snap[n].next, run |-> None]

Merges ==
  /\ pc = "merge" /\ pc' = "expire"
  /\ UNCHANGED <<rows, ran, exhausted, changes, quarantined, stopped, budget>>
  /\ Waiting' = Waiting
  /\ stopping' => stopping \/ stopped
  /\ \A n \in Name :
       /\ slot'[n] = None \/ (slot[n] # None /\ slot'[n] = slot[n]) \/ Built(n)
       /\ slot[n] # None /\ MatchesEnabled(snap, n, slot[n].gen) => slot'[n] = slot[n]

\* A write of `complete`, which keeps the row's generation and its next run.
Completes ==
  /\ pc = "complete" /\ cur.name \in Name
  /\ UNCHANGED <<ran, changes, stopping, stopped, budget>>
  /\ SameBut(rows, rows', cur.name) /\ Stays(rows, rows', cur.name)
  /\ IsActive(rows', cur.name) => rows'[cur.name].next = rows[cur.name].next
  /\ quarantined => quarantined'
  /\ Waiting' = Waiting
  /\ \A n \in Name \ {cur.name} : slot'[n] = slot[n]

\* A delete or a disable, after which the slot goes.
Drops ==
  /\ Completes
  /\ pc' = back /\ slot'[cur.name] = None /\ exhausted' = exhausted

\* An outcome, after which the slot goes only when it has no next run.
Records ==
  /\ Completes
  /\ IsActive(rows', cur.name) => rows'[cur.name].enabled = rows[cur.name].enabled
  /\ IsActive(rows, cur.name) => IsActive(rows', cur.name)
  /\ \/ pc' = back /\ slot' = slot /\ exhausted' = exhausted
     \/ /\ pc' = "end" /\ UNCHANGED <<cur, back>>
        /\ slot[cur.name].next = None /\ slot'[cur.name] = None
        /\ exhausted' = exhausted \cup {<<cur.name, cur.gen>>}

\* A due slot is taken up by launch_due: the last occurrence, with nothing to
\* store; an occurrence whose next run is written, or not; a write that refuses.
Selects(n, saved) ==
  /\ pc' = "start"
  /\ cur'.name = n /\ cur'.gen = slot[n].gen /\ cur'.occ = slot[n].next /\ cur'.saved = saved

Persists(n) ==
  /\ n \in Name /\ pc = "launch" /\ ~stopped
  /\ slot[n] # None /\ slot[n].next # None /\ slot[n].next <= at
  /\ slot'[n] # None /\ slot'[n].gen = slot[n].gen /\ slot'[n].next = NextRun(n, at)
  /\ slot'[n].run = slot[n].run
  /\ \A m \in Name \ {n} : slot'[m] = slot[m]
  /\ UNCHANGED <<ran, exhausted, changes, stopping, stopped, budget, at, back>>
  /\ Waiting' = Waiting
  /\ SameBut(rows, rows', n) /\ Stays(rows, rows', n)
  /\ IsActive(rows', n) => rows'[n].enabled = rows[n].enabled
  /\ IsActive(rows, n) => IsActive(rows', n)
  /\ quarantined => quarantined'
  /\ \/ NextRun(n, at) = None /\ rows' = rows /\ Selects(n, FALSE)
     \/ /\ NextRun(n, at) # None
        /\ rows' = rows \/ (Matches(rows, n, slot[n].gen) /\ rows'[n].next = NextRun(n, at))
        /\ \/ pc' = "launch"
           \/ /\ quarantined' = quarantined /\ (quarantined => budget)
              /\ \/ Selects(n, FALSE)
                 \/ Selects(n, TRUE) /\ (Matches(rows', n, slot[n].gen) => rows'[n].next = NextRun(n, at))

Starts ==
  /\ pc = "start" /\ cur.name \in Name /\ cur.gen \in Generation /\ cur.occ \in Instant
  /\ slot[cur.name] # None
  /\ \A m \in Name \ {cur.name} : slot'[m] = slot[m] /\ ran'[m] = ran[m]
  /\ StartKeeps \/ StartEnds
  /\ StartHandles \/ (ran' = ran /\ budget /\ (StartKeeps => slot[cur.name].next # None))
  /\ UNCHANGED <<rows, changes, quarantined, stopping, stopped, budget>>
  /\ Waiting' = Waiting

Step ==
  \/ Idle \/ OthersWrite \/ Forgets
  \/ \E n \in Name, g \in Generation : Retries(n, g)
  \/ Ends \/ Lists \/ Merges \/ Drops \/ Records \/ Starts
  \/ \E n \in Name : Persists(n)

\* A step of the loop that leaves slots and rows alone.
LEMMA LoopStep ==
  ASSUME UNCHANGED <<rows, ran, exhausted, quarantined, changes, slot, stopped, budget>>,
         Waiting' = Waiting,
         pc \notin {"complete", "end", "start"}, pc' \notin {"complete", "end", "start", "merge", "down"},
         stopping' => stopping \/ stopped,
         pc \in {"launch", "select", "drain", "done"} /\ stopped
           => pc' \in {"launch", "select", "drain", "done"}
  PROVE  Idle
<1>1. \A n \in Name : SlotStays(n)
  BY DEF SlotStays
<1>2. StopGoesOn
  BY DEF StopGoesOn, AfterStop
<1>3. \A n \in Name : ~(Running(n) /\ slot'[n].run = None)
  BY DEF Running
<1>4. QED BY <1>1, <1>2, <1>3 DEF Idle

\* A run is taken from its slot.
LEMMA TakeStep ==
  ASSUME Types, NEW n \in Name, Running(n), NEW report, NEW next,
         TakeRun(n, report, next),
         UNCHANGED <<rows, ran, exhausted, quarantined, changes, stopped, budget, stopping, pendingEnds>>,
         pc \in {"expire", "select", "drain"}, pc = "drain" => next = "drain",
         pc # "drain" => ~stopped
  PROVE  Idle
<1> DEFINE freed == [slot[n] EXCEPT !.run = None]
<1>1. slot' = [slot EXCEPT ![n] = freed] /\ pc' = "complete" /\ back' = next
      /\ cur'.name = n /\ cur'.gen = slot[n].gen
  BY DEF TakeRun, Types, DataTypes
<1>2. freed \in Slot /\ freed.gen = slot[n].gen /\ freed.next = slot[n].next /\ freed.run = None
      /\ slot[n] # None
  BY SlotFields DEF Slot, Running, Types
<1> HIDE DEF freed
<1>3. slot'[n] = freed /\ (\A m \in Name \ {n} : slot'[m] = slot[m]) /\ freed # None
  BY <1>1, <1>2, OneSlot, NullAssumption DEF Types
<1>4. \A m \in Name : SlotStays(m)
  BY <1>2, <1>3 DEF SlotStays
<1>5. StopGoesOn
  BY <1>1 DEF StopGoesOn, AfterStop
<1>6. \A m \in Name : Running(m) /\ slot'[m].run = None => m = n
  BY <1>3 DEF Running
<1>7. Takes
  BY <1>1, <1>2, <1>3 DEF Takes
<1>8. Waiting' = Waiting
  BY <1>1 DEF Waiting
<1>9. QED BY <1>1, <1>4, <1>5, <1>6, <1>7, <1>8 DEF Idle

\* The worker stays where it is: runs report, age or are discarded, a stop comes.
LEMMA OutsideStep ==
  ASSUME UNCHANGED <<rows, ran, exhausted, quarantined, changes, pc, todo, pendingEnds, cur, back, at,
                     snap, stopping>>,
         \A n \in Name : SlotStays(n),
         \A n \in Name : Running(n) /\ slot'[n].run = None => grace = 0,
         stopped => stopped', budget /\ stopped => budget',
         budget' => budget \/ (stopped' /\ (Cooperative \/ "control" \in Stops))
  PROVE  Idle
<1>1. StopGoesOn
  BY DEF StopGoesOn, AfterStop
<1>2. Waiting' = Waiting
  BY DEF Waiting
<1>3. QED BY <1>1, <1>2 DEF Idle

LEMMA MergeStep ==
  ASSUME Types, Merge
  PROVE  Merges
<1> DEFINE built(n) == [gen |-> snap[n].generation, next |-> snap[n].next, run |-> None]
<1>1. ASSUME NEW n \in Name
      PROVE  /\ slot'[n] = None \/ (slot[n] # None /\ slot'[n] = slot[n]) \/ Built(n)
             /\ slot[n] # None /\ MatchesEnabled(snap, n, slot[n].gen) => slot'[n] = slot[n]
  <2> DEFINE kept == {m \in Slotted : Keeps(m)}
             new  == {m \in Name \ kept : IsActive(snap, m) /\ snap[m].enabled}
             made == {m \in new : Builds(m, snap[m].generation)}
  <2>1. slot' = [m \in Name |-> IF m \in kept THEN slot[m] ELSE IF m \in made THEN built(m) ELSE None]
        /\ pc = "merge"
    BY DEF Merge
  <2>2. n \in kept <=> slot[n] # None /\ MatchesEnabled(snap, n, slot[n].gen)
    BY DEF Slotted, Keeps
  <2>3. n \in made => /\ IsActive(snap, n) /\ snap[n].enabled
                      /\ <<n, snap[n].generation>> \notin Waiting
    BY <2>1 DEF Builds, Waiting
  <2> HIDE DEF kept, new, made, built
  <2>4. n \in kept => slot'[n] = slot[n]
    BY <2>1
  <2>5. n \notin kept => slot'[n] = IF n \in made THEN built(n) ELSE None
    BY <2>1
  <2>6. n \in made /\ n \notin kept => Built(n)
    BY <2>3, <2>5 DEF Built, built
  <2>7. QED BY <2>2, <2>4, <2>5, <2>6
<1>2. pc = "merge" /\ pc' = "expire" /\ pendingEnds' = pendingEnds
      /\ UNCHANGED <<rows, ran, exhausted, changes, quarantined, stopped, budget>>
  BY DEF Merge, shared, outside, stop, history
<1>3. Waiting' = Waiting
  BY <1>2 DEF Waiting
<1>4. stopping' => stopping \/ stopped
  BY DEF Merge
<1>5. QED BY <1>1, <1>2, <1>3, <1>4 DEF Merges

\* What a try of the ending write does, by its answer.
LEMMA EndStep ==
  ASSUME Types, NEW n \in Name, NEW g \in Generation, NEW answer \in Answers,
         Call(Stop(rows, n, g), Matches(rows, n, g), answer),
         pendingEnds' = IF answer = "failed" THEN pendingEnds \cup {<<n, g>>} ELSE pendingEnds,
         \/ pc = "retry" /\ pc' = "retry" /\ todo' = todo \ {<<n, g>>} /\ <<n, g>> \in todo
         \/ pc = "end" /\ pc' \notin {"end", "start", "complete", "merge", "retry", "down"},
         UNCHANGED <<slot, ran, exhausted, changes, stopping, stopped, budget>>
  PROVE  EndIsTried(n, g)
<1> DEFINE written == Stop(rows, n, g)
<1>1. /\ SameBut(rows, written, n) /\ Stays(rows, written, n)
      /\ Matches(rows, n, g) => ~IsActive(written, n)
      /\ ~Matches(rows, n, g) => written = rows
  BY StopRow DEF Types, DataTypes
<1>2. Matches(rows, n, g) \in BOOLEAN
  BY MatchesIsBoolean
<1> HIDE DEF written
<1>3. /\ quarantined => quarantined'
      /\ rows' = rows \/ rows' = written
      /\ Refused => rows' = rows
      /\ answer = "yes" => rows' = written
      /\ answer = "no" => ~Matches(rows, n, g) /\ rows' = written
      /\ answer = "failed" => rows' = rows
      /\ answer = "unknown" => quarantined' \/ rows' = written
      /\ answer \in {"yes", "no", "failed", "unknown"}
  BY <1>2, CallEffect DEF Types, Answers, written
<1>4. SameBut(rows, rows', n) /\ Stays(rows, rows', n)
  BY <1>1, <1>3 DEF SameBut, Stays
<1>5. IsActive(rows', n) => rows'[n] = rows[n]
  BY <1>1, <1>3 DEF Matches
<1>6. rows' = rows \/ Matches(rows, n, g)
  BY <1>1, <1>3
<1>7. ~Matches(written, n, g)
  BY <1>1 DEF Matches
<1>8. Waiting \ {<<n, g>>} \subseteq Waiting' /\ Waiting' \subseteq Waiting \cup {<<n, g>>}
  BY DEF Waiting
<1>9. answer = "failed" => <<n, g>> \in Waiting'
  BY DEF Waiting
<1>10. <<n, g>> \in Waiting' \/ quarantined' \/ ~Matches(rows', n, g)
  BY <1>3, <1>7, <1>9
<1>11. QED BY <1>3, <1>4, <1>5, <1>6, <1>8, <1>10 DEF EndIsTried

LEMMA DropStep ==
  ASSUME Types, Attended,
         CompleteDelete \/ CompleteDisable
  PROVE  Drops
<1>1. pc = "complete" /\ cur \in Handled /\ back # None
      /\ cur.name \in Name /\ cur.gen \in Generation /\ cur.occ \in Instant
  BY DEF CompleteDelete, CompleteDisable, CompleteStopCheck, Types, ControlTypes, Handled
<1>2. PICK answer : \/ Call(Stop(rows, cur.name, cur.gen), Matches(rows, cur.name, cur.gen), answer)
                    \/ Call(Disable(rows, cur.name, cur.gen, <<cur.gen, cur.occ>>),
                            Matches(rows, cur.name, cur.gen), answer)
  BY DEF CompleteDelete, CompleteDisable, CompleteStopCheck
<1>3. PICK written : /\ Call(written, Matches(rows, cur.name, cur.gen), answer)
                      /\ \/ written = Stop(rows, cur.name, cur.gen)
                         \/ written = Disable(rows, cur.name, cur.gen, <<cur.gen, cur.occ>>)
  BY <1>2
<1>4. /\ slot' = [slot EXCEPT ![cur.name] = None] /\ pc' = back
      /\ UNCHANGED <<ran, exhausted, changes, stopping, stopped, budget, pendingEnds>>
  BY DEF CompleteDelete, CompleteDisable, CompleteStopCheck, Resume, outside, stop, history
<1>5. SameBut(rows, written, cur.name) /\ Stays(rows, written, cur.name)
      /\ (IsActive(written, cur.name) => written[cur.name].next = rows[cur.name].next)
  <2>1. CASE written = Stop(rows, cur.name, cur.gen)
    <3>1. /\ SameBut(rows, written, cur.name) /\ Stays(rows, written, cur.name)
          /\ Matches(rows, cur.name, cur.gen) => ~IsActive(written, cur.name)
          /\ ~Matches(rows, cur.name, cur.gen) => written = rows
      BY <1>1, <2>1, StopRow DEF Types, DataTypes
    <3>2. QED BY <3>1
  <2>2. CASE written = Disable(rows, cur.name, cur.gen, <<cur.gen, cur.occ>>)
    <3>1. <<cur.gen, cur.occ>> \in Generation \X Instant
      BY <1>1
    <3>2. QED BY <1>1, <2>2, <3>1, DisableRow DEF Types, DataTypes
  <2>3. QED BY <1>3, <2>1, <2>2
<1>6. (quarantined => quarantined') /\ (rows' = rows \/ rows' = written)
  BY <1>3, MatchesIsBoolean, CallEffect DEF Types
<1>7. SameBut(rows, rows', cur.name) /\ Stays(rows, rows', cur.name)
      /\ (IsActive(rows', cur.name) => rows'[cur.name].next = rows[cur.name].next)
  BY <1>5, <1>6 DEF SameBut, Stays
<1>8. slot'[cur.name] = None /\ \A n \in Name \ {cur.name} : slot'[n] = slot[n]
  BY <1>1, <1>4, OneSlot DEF Types
<1>9. Waiting' = Waiting
  BY <1>1, <1>4 DEF Waiting, Types, ControlTypes
<1>10. Completes
  BY <1>1, <1>4, <1>6, <1>7, <1>8, <1>9 DEF Completes
<1>11. QED BY <1>4, <1>8, <1>10 DEF Drops

LEMMA RecordStep ==
  ASSUME Types, Attended, CompleteRan
  PROVE  Records
<1>1. pc = "complete" /\ cur \in Handled /\ back # None
      /\ cur.name \in Name /\ cur.gen \in Generation /\ cur.occ \in Instant
  BY DEF CompleteRan, Types, ControlTypes, Handled
<1> DEFINE written == RecordRun(rows, cur.name, cur.gen, <<cur.gen, cur.occ>>)
<1>2. PICK answer \in Answers : Call(written, Matches(rows, cur.name, cur.gen), answer)
  BY DEF CompleteRan
<1>3. UNCHANGED <<ran, changes, stopping, stopped, budget, pendingEnds, todo>>
  BY DEF CompleteRan, outside, stop
<1>4. \/ /\ pc' = "end" /\ UNCHANGED <<cur, back>>
         /\ slot[cur.name].next = None /\ slot' = [slot EXCEPT ![cur.name] = None]
         /\ exhausted' = exhausted \cup {<<cur.name, cur.gen>>}
      \/ pc' = back /\ slot' = slot /\ exhausted' = exhausted
  BY DEF CompleteRan, Resume
<1>5. <<cur.gen, cur.occ>> \in Generation \X Instant
  BY <1>1
<1>6. SameBut(rows, written, cur.name) /\ Stays(rows, written, cur.name)
      /\ (IsActive(written, cur.name) =>
            written[cur.name].next = rows[cur.name].next /\ written[cur.name].enabled = rows[cur.name].enabled)
      /\ (IsActive(rows, cur.name) => IsActive(written, cur.name))
  BY <1>1, <1>5, RecordRunRow DEF Types, DataTypes
<1> HIDE DEF written
<1>7. (quarantined => quarantined') /\ (rows' = rows \/ rows' = written)
  BY <1>2, MatchesIsBoolean, CallEffect DEF Types
<1>8. SameBut(rows, rows', cur.name) /\ Stays(rows, rows', cur.name)
      /\ (IsActive(rows', cur.name) =>
            rows'[cur.name].next = rows[cur.name].next /\ rows'[cur.name].enabled = rows[cur.name].enabled)
      /\ (IsActive(rows, cur.name) => IsActive(rows', cur.name))
  BY <1>6, <1>7 DEF SameBut, Stays
<1>9. slot' = [slot EXCEPT ![cur.name] = None] => slot'[cur.name] = None
  BY <1>1, OneSlot DEF Types
<1>10. \A n \in Name \ {cur.name} : slot'[n] = slot[n]
  BY <1>1, <1>4, OneSlot DEF Types
<1>11. Waiting' = Waiting
  BY <1>1, <1>3, <1>4 DEF Waiting, Types, ControlTypes
<1>12. Completes
  BY <1>1, <1>3, <1>7, <1>8, <1>10, <1>11 DEF Completes
<1>13. QED BY <1>4, <1>8, <1>9, <1>12 DEF Records

LEMMA PersistStep ==
  ASSUME Types, NEW n \in Name, PersistNext(n)
  PROVE  Persists(n)
<1> DEFINE next == NextRun(n, at)
           moved == [slot[n] EXCEPT !.next = next]
           written == SetNext(rows, n, slot[n].gen, next)
           launch(saved) == [name |-> n, gen |-> slot[n].gen, occ |-> slot[n].next,
                             missed |-> NextRun(n, slot[n].next) # None /\ NextRun(n, slot[n].next) <= at,
                             saved |-> saved]
<1>1. pc = "launch" /\ ~stopped /\ slot[n] # None /\ slot[n].next # None /\ slot[n].next <= at
  BY DEF PersistNext, DueAt
<1>2. slot' = [slot EXCEPT ![n].next = next]
      /\ UNCHANGED <<ran, exhausted, changes, stopping, stopped, budget, at, back, pendingEnds>>
  BY DEF PersistNext, outside, stop, history
<1>3. next \in Instant \cup {None}
  BY NextRunOK
<1>4. slot' = [slot EXCEPT ![n] = moved]
  BY <1>2 DEF Types, DataTypes
<1>5. \/ next = None /\ pc' = "start" /\ cur' = launch(FALSE) /\ UNCHANGED <<rows, quarantined>>
      \/ /\ next # None
         /\ \E answer \in Answers :
              /\ Call(written, MatchesEnabled(rows, n, slot[n].gen), answer)
              /\ \/ Authorizes(answer) /\ pc' = "start" /\ cur' = launch(answer = "yes")
                 \/ ~Authorizes(answer) /\ pc' = pc
  BY DEF PersistNext, shared
<1>6. \A saved : pc' = "start" /\ cur' = launch(saved) => Selects(n, saved)
  BY DEF Selects
<1> HIDE DEF launch
<1>7. moved \in Slot /\ moved.gen = slot[n].gen /\ moved.next = next /\ moved.run = slot[n].run
  <2> HIDE DEF next
  <2>1. QED BY <1>1, <1>3, SlotFields DEF Types, Slot
<1> HIDE DEF moved
<1>8. slot'[n] = moved /\ (\A m \in Name \ {n} : slot'[m] = slot[m]) /\ slot'[n] # None
  BY <1>4, <1>7, OneSlot, NullAssumption DEF Types
<1>9. Waiting' = Waiting
  BY <1>1, <1>2, <1>5 DEF Waiting
<1>10. /\ n \in Name /\ pc = "launch" /\ ~stopped
       /\ slot[n] # None /\ slot[n].next # None /\ slot[n].next <= at
       /\ slot'[n] # None /\ slot'[n].gen = slot[n].gen /\ slot'[n].next = next
       /\ slot'[n].run = slot[n].run
       /\ \A m \in Name \ {n} : slot'[m] = slot[m]
       /\ UNCHANGED <<ran, exhausted, changes, stopping, stopped, budget, at, back>>
       /\ Waiting' = Waiting
  BY <1>1, <1>2, <1>7, <1>8, <1>9
<1>11. CASE next = None
  <2>1. rows' = rows /\ quarantined' = quarantined /\ Selects(n, FALSE)
    BY <1>5, <1>6, <1>11
  <2>2. SameBut(rows, rows', n) /\ Stays(rows, rows', n)
    BY <2>1 DEF SameBut, Stays
  <2> HIDE DEF next
  <2>3. QED BY <1>10, <1>11, <2>1, <2>2 DEF Persists, next
<1>12. CASE next # None
  <2>1. PICK answer \in Answers :
          /\ Call(written, MatchesEnabled(rows, n, slot[n].gen), answer)
          /\ \/ Authorizes(answer) /\ pc' = "start" /\ cur' = launch(answer = "yes")
             \/ ~Authorizes(answer) /\ pc' = pc
    BY <1>5, <1>12
  <2>2. /\ SameBut(rows, written, n) /\ Stays(rows, written, n)
        /\ IsActive(written, n) => written[n].enabled = rows[n].enabled
        /\ IsActive(rows, n) => IsActive(written, n)
        /\ MatchesEnabled(rows, n, slot[n].gen) => written[n].next = next
        /\ ~MatchesEnabled(rows, n, slot[n].gen) => written = rows
    <3>1. next \in Instant
      BY <1>3, <1>12
    <3> HIDE DEF next
    <3>2. QED BY <3>1, SetNextRow DEF Types, DataTypes
  <2> HIDE DEF written
  <2>3. /\ quarantined => quarantined'
        /\ rows' = rows \/ rows' = written
        /\ answer = "yes" => MatchesEnabled(rows, n, slot[n].gen) /\ rows' = written /\ ~quarantined
        /\ answer = "failed" => rows' = rows /\ (quarantined => Refused)
        /\ answer # "unknown" => quarantined' = quarantined
    BY <2>1, MatchesIsBoolean, CallEffect DEF Types
  <2>4. SameBut(rows, rows', n) /\ Stays(rows, rows', n)
        /\ (IsActive(rows', n) => rows'[n].enabled = rows[n].enabled)
        /\ (IsActive(rows, n) => IsActive(rows', n))
    BY <2>2, <2>3 DEF SameBut, Stays
  <2>5. rows' = rows \/ (Matches(rows, n, slot[n].gen) /\ rows'[n].next = next)
    BY <2>2, <2>3 DEF MatchesEnabled
  <2>6. \/ pc' = "launch"
        \/ /\ quarantined' = quarantined /\ (quarantined => budget)
           /\ \/ Selects(n, FALSE)
              \/ Selects(n, TRUE) /\ (Matches(rows', n, slot[n].gen) => rows'[n].next = next)
    <3>1. CASE ~Authorizes(answer)
      BY <1>1, <2>1, <3>1
    <3>2. CASE answer = "yes"
      <4>1. Selects(n, TRUE)
        BY <1>6, <2>1, <3>2 DEF Authorizes
      <4>2. QED BY <2>2, <2>3, <3>2, <4>1
    <3>3. CASE answer = "failed"
      <4>1. Selects(n, FALSE)
        BY <1>6, <2>1, <3>3 DEF Authorizes
      <4>2. quarantined => budget
        BY <2>3, <3>3 DEF Refused
      <4>3. QED BY <2>3, <3>3, <4>1, <4>2
    <3>4. QED BY <3>1, <3>2, <3>3 DEF Authorizes
  <2> HIDE DEF next
  <2>7. QED BY <1>10, <1>12, <2>3, <2>4, <2>5, <2>6 DEF Persists, next
<1>13. QED BY <1>11, <1>12

LEMMA WrittenStep ==
  ASSUME Types, NEW n \in Name, NextRun(n, now) # None, GenerationLeft(rows, n)
  PROVE  \A enabled \in BOOLEAN :
           LET written == Written(rows, n, NextRun(n, now), enabled) IN
           /\ SameBut(rows, written, n) /\ written[n] # NoRow /\ written[n].next \in Occ[n]
           /\ rows[n] # NoRow => written[n].generation = rows[n].generation + 1
<1> SUFFICES ASSUME NEW enabled \in BOOLEAN, NEW written,
                    written = Written(rows, n, NextRun(n, now), enabled)
             PROVE  /\ SameBut(rows, written, n) /\ written[n] # NoRow /\ written[n].next \in Occ[n]
                    /\ rows[n] # NoRow => written[n].generation = rows[n].generation + 1
  OBVIOUS
<1>1. NextRun(n, now) \in Occ[n] /\ NextRun(n, now) \in Instant
  BY NextRunOK
<1>2. SameBut(rows, written, n) /\ written[n] # NoRow /\ written[n].next = NextRun(n, now)
      /\ (rows[n] # NoRow => written[n].generation = rows[n].generation + 1)
  BY <1>1, WrittenRow DEF Types, DataTypes
<1>3. QED BY <1>1, <1>2

LEMMA StepHolds ==
  ASSUME Types, Fresh, Attended, [Next]_vars
  PROVE  Step
<1>1. CASE SeeStop
  <2>1. /\ pc \in {"top", "select", "expire", "launch"}
        /\ pc' = "drain" /\ (stopping' => stopped)
        /\ UNCHANGED <<rows, ran, exhausted, quarantined, changes, slot, stopped, budget>>
    BY <1>1 DEF SeeStop, shared, memory, control, outside, stop, history, SeesStop
  <2>2. Waiting' = Waiting
    BY <1>1 DEF SeeStop, SeesStop, Waiting, memory, control
  <2>3. Idle
    BY <2>1, <2>2, LoopStep
  <2>4. QED BY <2>3 DEF Step
<1>2. CASE Top
  <2>1. /\ pc = "top"
        /\ pc' \in {"retry", "reload", "expire"} /\ stopping' = stopping
        /\ UNCHANGED <<rows, ran, exhausted, quarantined, changes, slot, stopped, budget>>
    BY <1>2 DEF Top, shared, memory, control, outside, stop, history
  <2>2. Waiting' = Waiting
    BY <1>2 DEF Top, Waiting, memory, control
  <2>3. Idle
    BY <2>1, <2>2, LoopStep
  <2>4. QED BY <2>3 DEF Step
<1>3. CASE RetryStopped
  <2>1. /\ pc = "retry"
        /\ pc' = "retry" /\ (stopping' => stopped)
        /\ UNCHANGED <<rows, ran, exhausted, quarantined, changes, slot, stopped, budget>>
    BY <1>3 DEF RetryStopped, shared, memory, control, outside, stop, history
  <2>2. Waiting' = Waiting
    BY <1>3 DEF RetryStopped, Waiting, memory, control
  <2>3. Idle
    BY <2>1, <2>2, LoopStep
  <2>4. QED BY <2>3 DEF Step
<1>4. CASE RetryDone
  <2>1. /\ pc = "retry"
        /\ pc' = "reload" /\ stopping' = stopping
        /\ UNCHANGED <<rows, ran, exhausted, quarantined, changes, slot, stopped, budget>>
    BY <1>4 DEF RetryDone, shared, memory, control, outside, stop, history
  <2>2. Waiting' = Waiting
    BY <1>4 DEF RetryDone, Waiting, memory, control
  <2>3. Idle
    BY <2>1, <2>2, LoopStep
  <2>4. QED BY <2>3 DEF Step
<1>5. ASSUME NEW n \in Name, NEW g \in Generation, RetryEnd(n, g) PROVE Step
  <2>1. PICK answer \in Answers :
          /\ Call(Stop(rows, n, g), Matches(rows, n, g), answer)
          /\ pendingEnds' = IF answer = "failed" THEN pendingEnds \cup {<<n, g>>} ELSE pendingEnds
    BY <1>5 DEF RetryEnd
  <2>2. /\ pc = "retry" /\ pc' = "retry" /\ todo' = todo \ {<<n, g>>} /\ <<n, g>> \in todo
        /\ UNCHANGED <<slot, ran, exhausted, changes, stopping, stopped, budget>>
    BY <1>5 DEF RetryEnd, outside, stop, history
  <2>3. EndIsTried(n, g)
    BY <2>1, <2>2, EndStep
  <2>4. Retries(n, g)
    BY <2>2, <2>3 DEF Retries, Waiting
  <2>5. QED BY <2>4 DEF Step
<1>6. CASE Reload
  <2>1. /\ pc = "reload"
        /\ pc' = "list" /\ stopping' = stopping
        /\ UNCHANGED <<rows, ran, exhausted, quarantined, changes, slot, stopped, budget>>
    BY <1>6 DEF Reload, shared, memory, control, outside, stop, history
  <2>2. Waiting' = Waiting
    BY <1>6 DEF Reload, Waiting, memory, control
  <2>3. Idle
    BY <2>1, <2>2, LoopStep
  <2>4. QED BY <2>3 DEF Step
<1>7. CASE ListActive
  <2>1. PICK answer \in Answers :
          /\ Call(rows, TRUE, answer)
          /\ \/ answer = "yes" /\ pc' = "merge" /\ snap' = rows
             \/ answer # "yes" /\ pc' = "expire"
    BY <1>7 DEF ListActive
  <2>2. /\ pc = "list" /\ pendingEnds' = pendingEnds
        /\ UNCHANGED <<slot, ran, exhausted, changes, stopping, stopped, budget>>
    BY <1>7 DEF ListActive, memory, outside, stop, history
  <2>3. rows' = rows /\ (quarantined => quarantined') /\ (answer = "yes" => ~quarantined)
    BY <2>1, CallEffect DEF Types
  <2>4. Waiting' = Waiting
    BY <2>1, <2>2 DEF Waiting
  <2>5. QED BY <2>1, <2>2, <2>3, <2>4 DEF Step, Lists
<1>8. CASE Merge
  BY <1>8, MergeStep DEF Step
<1>9. CASE ExpireDone
  <2>1. /\ pc = "expire"
        /\ pc' = "launch" /\ stopping' = stopping
        /\ UNCHANGED <<rows, ran, exhausted, quarantined, changes, slot, stopped, budget>>
    BY <1>9 DEF ExpireDone, shared, memory, control, outside, stop, history
  <2>2. Waiting' = Waiting
    BY <1>9 DEF ExpireDone, Waiting, memory, control
  <2>3. Idle
    BY <2>1, <2>2, LoopStep
  <2>4. QED BY <2>3 DEF Step
<1>10. ASSUME NEW n \in Name, Expire(n) PROVE Step
  <2>1. /\ pc = "expire" /\ ~stopped
        /\ UNCHANGED <<rows, ran, exhausted, quarantined, changes, stopped, budget, stopping, pendingEnds>>
    BY <1>10 DEF Expire, shared, outside, stop, history
  <2>2. CASE Expired(n)
    <3>1. TakeRun(n, Aborted(slot[n].run), "expire") /\ Running(n)
      BY <1>10, <2>2 DEF Expire, Expired
    <3>2. Idle
      BY <2>1, <3>1, TakeStep
    <3>3. QED BY <3>2 DEF Step
  <2>3. CASE ~Expired(n)
    <3>1. pc' = pc /\ slot' = slot
      BY <1>10, <2>3 DEF Expire
    <3>2. Waiting' = Waiting
      BY <2>1, <3>1 DEF Waiting
    <3>3. Idle
      BY <2>1, <3>1, <3>2, LoopStep
    <3>4. QED BY <3>3 DEF Step
  <2>4. QED BY <2>2, <2>3
<1>11. CASE CompleteDelete
  BY <1>11, DropStep DEF Step
<1>12. CASE CompleteDisable
  BY <1>12, DropStep DEF Step
<1>13. CASE CompleteRan
  BY <1>13, RecordStep DEF Step
<1>14. CASE EndExhausted
  <2>1. PICK answer \in Answers :
          /\ Call(Stop(rows, cur.name, cur.gen), Matches(rows, cur.name, cur.gen), answer)
          /\ pendingEnds' = IF answer = "failed" THEN pendingEnds \cup {<<cur.name, cur.gen>>}
                            ELSE pendingEnds
    BY <1>14 DEF EndExhausted
  <2>2. /\ pc = "end" /\ pc' = back
        /\ UNCHANGED <<slot, ran, exhausted, changes, stopping, stopped, budget>>
    BY <1>14 DEF EndExhausted, Resume, outside, stop, history
  <2>3. cur.name \in Name /\ cur.gen \in Generation /\ back \in {"top", "expire", "launch", "drain"}
    BY <2>2 DEF Types, ControlTypes, Handled
  <2>4. EndIsTried(cur.name, cur.gen)
    BY <2>1, <2>2, <2>3, EndStep
  <2>5. QED BY <2>2, <2>4 DEF Step, Ends
<1>15. CASE LaunchDone
  <2>1. /\ pc = "launch"
        /\ pc' = "select" /\ stopping' = stopping
        /\ UNCHANGED <<rows, ran, exhausted, quarantined, changes, slot, stopped, budget>>
    BY <1>15 DEF LaunchDone, shared, memory, control, outside, stop, history
  <2>2. Waiting' = Waiting
    BY <1>15 DEF LaunchDone, Waiting, memory, control
  <2>3. Idle
    BY <2>1, <2>2, LoopStep
  <2>4. QED BY <2>3 DEF Step
<1>16. CASE Start
  <2>1. /\ pc' \in {"launch", "end"} /\ pendingEnds' = pendingEnds
        /\ UNCHANGED <<rows, changes, quarantined, stopping, stopped, budget>>
    BY <1>16 DEF Start, shared, outside, stop
  <2>2. pc = "start"
    BY <1>16 DEF Start
  <2>3. Waiting' = Waiting
    BY <2>1, <2>2 DEF Waiting
  <2>4. QED BY <1>16, <2>1, <2>3, StartStep DEF Step, Starts
<1>17. ASSUME NEW n \in Name, NotDue(n) PROVE Step
  <2>1. /\ pc = "launch"
        /\ pc' = "launch" /\ stopping' = stopping
        /\ UNCHANGED <<rows, ran, exhausted, quarantined, changes, slot, stopped, budget>>
    BY <1>17 DEF NotDue, shared, memory, control, outside, stop, history
  <2>2. Waiting' = Waiting
    BY <1>17 DEF NotDue, Waiting, memory, control
  <2>3. Idle
    BY <2>1, <2>2, LoopStep
  <2>4. QED BY <2>3 DEF Step
<1>18. ASSUME NEW n \in Name, PersistNext(n) PROVE Step
  BY <1>18, PersistStep DEF Step
<1>19. CASE SelectSignal
  <2>1. /\ pc = "select" /\ ~stopped
        /\ pc' = "top" /\ stopping' = stopping
        /\ UNCHANGED <<rows, ran, exhausted, quarantined, changes, slot, stopped, budget>>
    BY <1>19 DEF SelectSignal, shared, memory, control, outside, stop, history
  <2>2. Waiting' = Waiting
    BY <1>19 DEF SelectSignal, Waiting, memory, control
  <2>3. Idle
    BY <2>1, <2>2, LoopStep
  <2>4. QED BY <2>3 DEF Step
<1>20. CASE SelectWake
  <2>1. /\ pc = "select" /\ ~stopped
        /\ pc' = "top" /\ stopping' = stopping
        /\ UNCHANGED <<rows, ran, exhausted, quarantined, changes, slot, stopped, budget>>
    BY <1>20 DEF SelectWake, shared, memory, control, outside, stop, history
  <2>2. Waiting' = Waiting
    BY <1>20 DEF SelectWake, Waiting, memory, control
  <2>3. Idle
    BY <2>1, <2>2, LoopStep
  <2>4. QED BY <2>3 DEF Step
<1>21. ASSUME NEW n \in Name, SelectFinished(n) PROVE Step
  <2>1. /\ TakeRun(n, slot[n].run.report, "top") /\ Running(n) /\ pc = "select" /\ ~stopped
        /\ UNCHANGED <<rows, ran, exhausted, quarantined, changes, stopped, budget, stopping, pendingEnds>>
    BY <1>21 DEF SelectFinished, Finished, Expired, shared, outside, stop, history
  <2>2. Idle
    BY <2>1, TakeStep
  <2>3. QED BY <2>2 DEF Step
<1>22. CASE DrainDiscard
  <2>1. UNCHANGED <<rows, ran, exhausted, quarantined, changes, pc, todo, pendingEnds, cur, back, at,
                     snap, stopping>>
    BY <1>22 DEF DrainDiscard, shared, memory, control, outside, stop, history
  <2>2. (stopped => stopped') /\ (budget /\ stopped => budget') /\ (budget' => budget \/ (stopped' /\ (Cooperative \/ "control" \in Stops)))
    BY <1>22 DEF DrainDiscard, shared, memory, control, outside, stop, history
  <2> DEFINE freed(m) == [slot[m] EXCEPT !.run = None]
  <2>7. slot' = [m \in Name |-> IF Running(m) THEN freed(m) ELSE slot[m]] /\ grace = 0
    BY <1>22 DEF DrainDiscard
  <2>8. ASSUME NEW m \in Name, Running(m)
        PROVE  freed(m) \in Slot /\ freed(m).gen = slot[m].gen /\ freed(m).next = slot[m].next
    BY <2>8, SlotFields DEF Slot, Running, Types
  <2> HIDE DEF freed
  <2>3. \A m \in Name : SlotStays(m)
    BY <2>7, <2>8, NullAssumption DEF SlotStays, Running
  <2>4. \A m \in Name : Running(m) /\ slot'[m].run = None => grace = 0
    BY <2>7
  <2>5. Idle
    BY <2>1, <2>2, <2>3, <2>4, OutsideStep
  <2>6. QED BY <2>5 DEF Step
<1>23. CASE DrainDone
  <2>1. /\ pc = "drain"
        /\ pc' = "done" /\ stopping' = stopping
        /\ UNCHANGED <<rows, ran, exhausted, quarantined, changes, slot, stopped, budget>>
    BY <1>23 DEF DrainDone, shared, memory, control, outside, stop, history
  <2>2. Waiting' = Waiting
    BY <1>23 DEF DrainDone, Waiting, memory, control
  <2>3. Idle
    BY <2>1, <2>2, LoopStep
  <2>4. QED BY <2>3 DEF Step
<1>24. ASSUME NEW n \in Name, DrainFinished(n) PROVE Step
  <2>1. /\ TakeRun(n, slot[n].run.report, "drain") /\ Running(n) /\ pc = "drain"
        /\ UNCHANGED <<rows, ran, exhausted, quarantined, changes, stopped, budget, stopping, pendingEnds>>
    BY <1>24 DEF DrainFinished, Finished, Expired, shared, outside, stop, history
  <2>2. Idle
    BY <2>1, TakeStep
  <2>3. QED BY <2>2 DEF Step
<1>25. ASSUME NEW n \in Name, DrainExpired(n) PROVE Step
  <2>1. /\ TakeRun(n, Aborted(slot[n].run), "drain") /\ Running(n) /\ pc = "drain"
        /\ UNCHANGED <<rows, ran, exhausted, quarantined, changes, stopped, budget, stopping, pendingEnds>>
    BY <1>25 DEF DrainExpired, Finished, Expired, shared, outside, stop, history
  <2>2. Idle
    BY <2>1, TakeStep
  <2>3. QED BY <2>2 DEF Step
<1>26. CASE Tick
  <2>1. UNCHANGED <<rows, ran, exhausted, quarantined, changes, pc, todo, pendingEnds, cur, back, at,
                     snap, stopping>>
    BY <1>26 DEF Tick, shared, memory, control, outside, stop, history
  <2>2. (stopped => stopped') /\ (budget /\ stopped => budget') /\ (budget' => budget \/ (stopped' /\ (Cooperative \/ "control" \in Stops)))
    BY <1>26 DEF Tick, shared, memory, control, outside, stop, history
  <2> DEFINE older(m) == [slot[m] EXCEPT !.run.left = Later(slot[m].run.left)]
  <2>7. slot' = [m \in Name |-> IF Running(m) THEN older(m) ELSE slot[m]]
    BY <1>26 DEF Tick
  <2>8. ASSUME NEW m \in Name, Running(m)
        PROVE  older(m) # None /\ older(m).gen = slot[m].gen /\ older(m).next = slot[m].next
               /\ older(m).run # None
    <3> DEFINE new == [slot[m].run EXCEPT !.left = Later(slot[m].run.left)]
    <3>1. Later(slot[m].run.left) \in 0 .. Timeout
      BY <2>8, RunFields, PeriodAssumption DEF Later, Types
    <3>2. new \in Run
      BY <2>8, <3>1, RunFields DEF Run, Types
    <3>3. older(m) = [slot[m] EXCEPT !.run = new]
      BY <2>8, RunFields, SlotFields DEF Slot, Types
    <3> HIDE DEF new
    <3>4. older(m) \in Slot /\ older(m).gen = slot[m].gen /\ older(m).next = slot[m].next
          /\ older(m).run = new
      BY <2>8, <3>2, <3>3, SlotFields DEF Slot, Running, Types
    <3> HIDE DEF older
    <3>5. QED BY <3>2, <3>4, NullAssumption
  <2> HIDE DEF older
  <2>9. ASSUME NEW m \in Name PROVE SlotStays(m) /\ ~(Running(m) /\ slot'[m].run = None)
    <3>1. CASE Running(m)
      BY <2>7, <2>8, <3>1 DEF SlotStays, Running
    <3>2. CASE ~Running(m)
      BY <2>7, <3>2 DEF SlotStays, Running
    <3>3. QED BY <3>1, <3>2
  <2>3. \A m \in Name : SlotStays(m)
    BY <2>9
  <2>4. \A m \in Name : ~(Running(m) /\ slot'[m].run = None)
    BY <2>9
  <2>5. Idle
    BY <2>1, <2>2, <2>3, <2>4, OutsideStep
  <2>6. QED BY <2>5 DEF Step
<1>27. ASSUME NEW n \in Name, NEW report \in {"ran", "delete", "disable"}, JobReports(n, report) PROVE Step
  <2>1. UNCHANGED <<rows, ran, exhausted, quarantined, changes, pc, todo, pendingEnds, cur, back, at,
                     snap, stopping>>
    BY <1>27 DEF JobReports, shared, memory, control, outside, stop, history
  <2>2. (stopped => stopped') /\ (budget /\ stopped => budget') /\ (budget' => budget \/ (stopped' /\ (Cooperative \/ "control" \in Stops)))
    BY <1>27 DEF JobReports, shared, memory, control, outside, stop, history
  <2> DEFINE new == [slot[n].run EXCEPT !.report = report]
             reported == [slot[n] EXCEPT !.run = new]
  <2>7. slot' = [slot EXCEPT ![n].run.report = report] /\ Running(n)
    BY <1>27 DEF JobReports
  <2>8. slot' = [slot EXCEPT ![n] = reported]
    BY <2>7 DEF DataTypes, Types
  <2>9. new \in Run
    BY <2>7, RunFields DEF Run, Types
  <2>10. reported \in Slot /\ reported.gen = slot[n].gen /\ reported.next = slot[n].next
         /\ reported.run = new
    <3> HIDE DEF new
    <3>1. QED BY <2>7, <2>9, SlotFields DEF Slot, Running, Types
  <2> HIDE DEF reported, new
  <2>11. slot'[n] = reported /\ (\A m \in Name \ {n} : slot'[m] = slot[m]) /\ reported # None /\ new # None
    BY <2>8, <2>9, <2>10, OneSlot, NullAssumption DEF Types
  <2>3. \A m \in Name : SlotStays(m)
    BY <2>7, <2>10, <2>11 DEF SlotStays, Running
  <2>4. \A m \in Name : ~(Running(m) /\ slot'[m].run = None)
    BY <2>7, <2>10, <2>11 DEF Running
  <2>5. Idle
    BY <2>1, <2>2, <2>3, <2>4, OutsideStep
  <2>6. QED BY <2>5 DEF Step
<1>28. ASSUME NEW n \in Name, StartSchedule(n) PROVE Step
  <2> DEFINE written == Written(rows, n, NextRun(n, now), TRUE)
  <2>1. ChangeRows(written)
    BY <1>28 DEF StartSchedule
  <2>2. /\ SameBut(rows, written, n) /\ written[n] # NoRow /\ written[n].next \in Occ[n]
        /\ rows[n] # NoRow => written[n].generation = rows[n].generation + 1
    <3>1. NextRun(n, now) # None /\ GenerationLeft(rows, n)
      BY <1>28 DEF StartSchedule, CanCreate
    <3>2. TRUE \in BOOLEAN
      OBVIOUS
    <3>3. QED BY <3>1, <3>2, WrittenStep
  <2> HIDE DEF written
  <2>3. rows' = written /\ changes' = changes + 1
        /\ UNCHANGED <<pc, slot, pendingEnds, todo, cur, back, at, snap, stopped, budget, stopping,
                       ran, exhausted, quarantined>>
    BY <2>1, ChangeFrame DEF Types, memory, control, stop, history
  <2>4. QED BY <2>2, <2>3 DEF Step, OthersWrite
<1>29. ASSUME NEW n \in Name, StopSchedule(n) PROVE Step
  <2> DEFINE written == Stop(rows, n, rows[n].generation)
  <2>1. ChangeRows(written)
    BY <1>29 DEF StopSchedule
  <2>2. /\ SameBut(rows, written, n) /\ Stays(rows, written, n)
        /\ IsActive(written, n) => written[n].next = rows[n].next
    <3>1. /\ SameBut(rows, written, n) /\ Stays(rows, written, n)
          /\ Matches(rows, n, rows[n].generation) => ~IsActive(written, n)
          /\ ~Matches(rows, n, rows[n].generation) => written = rows
      BY StopRow DEF Types, DataTypes
    <3>2. QED BY <3>1
  <2> HIDE DEF written
  <2>3. rows' = written /\ changes' = changes + 1
        /\ UNCHANGED <<pc, slot, pendingEnds, todo, cur, back, at, snap, stopped, budget, stopping,
                       ran, exhausted, quarantined>>
    BY <2>1, ChangeFrame DEF Types, memory, control, stop, history
  <2>4. QED BY <2>2, <2>3 DEF Step, OthersWrite
<1>30. ASSUME NEW n \in Name, NEW enabled \in BOOLEAN, SetEnabled(n, enabled) PROVE Step
  <2> DEFINE written == SetFlags(rows, [m \in {n} |-> enabled])
  <2>1. ChangeRows(written)
    BY <1>30 DEF SetEnabled
  <2>2. /\ SameBut(rows, written, n) /\ Stays(rows, written, n)
        /\ IsActive(written, n) => written[n].next = rows[n].next
    BY <1>30, FlagRow DEF SetEnabled, Types, DataTypes
  <2> HIDE DEF written
  <2>3. rows' = written /\ changes' = changes + 1
        /\ UNCHANGED <<pc, slot, pendingEnds, todo, cur, back, at, snap, stopped, budget, stopping,
                       ran, exhausted, quarantined>>
    BY <2>1, ChangeFrame DEF Types, memory, control, stop, history
  <2>4. QED BY <2>2, <2>3 DEF Step, OthersWrite
<1>31. ASSUME NEW n \in Name, NEW enabled \in BOOLEAN, ReplaceSchedule(n, enabled) PROVE Step
  <2> DEFINE written == Written(rows, n, NextRun(n, now), enabled)
  <2>1. ChangeRows(written)
    BY <1>31 DEF ReplaceSchedule
  <2>2. /\ SameBut(rows, written, n) /\ written[n] # NoRow /\ written[n].next \in Occ[n]
        /\ rows[n] # NoRow => written[n].generation = rows[n].generation + 1
    <3>1. NextRun(n, now) # None /\ GenerationLeft(rows, n)
      BY <1>31 DEF ReplaceSchedule
    <3>2. QED BY <3>1, WrittenStep
  <2> HIDE DEF written
  <2>3. rows' = written /\ changes' = changes + 1
        /\ UNCHANGED <<pc, slot, pendingEnds, todo, cur, back, at, snap, stopped, budget, stopping,
                       ran, exhausted, quarantined>>
    BY <2>1, ChangeFrame DEF Types, memory, control, stop, history
  <2>4. QED BY <2>2, <2>3 DEF Step, OthersWrite
<1>32. ASSUME NEW deadline \in {None} \cup 0 .. Grace, HandleStop(deadline) PROVE Step
  <2>1. UNCHANGED <<rows, ran, exhausted, quarantined, changes, pc, todo, pendingEnds, cur, back, at,
                     snap, stopping>>
    BY <1>32 DEF HandleStop, shared, memory, control, outside, stop, history
  <2>2. (stopped => stopped') /\ (budget /\ stopped => budget') /\ (budget' => budget \/ (stopped' /\ (Cooperative \/ "control" \in Stops)))
    BY <1>32, Zenon DEF HandleStop, shared, memory, control, outside, stop, history
  <2>3. \A n \in Name : SlotStays(n)
    BY <1>32 DEF HandleStop, SlotStays, memory
  <2>4. \A n \in Name : ~(Running(n) /\ slot'[n].run = None)
    BY <1>32 DEF HandleStop, Running, memory
  <2>5. Idle
    BY <2>1, <2>2, <2>3, <2>4, OutsideStep
  <2>6. QED BY <2>5 DEF Step
<1>33. ASSUME NEW g \in 0 .. Grace, NEW k \in 0 .. Grace, ControlStop(g, k) PROVE Step
  <2>1. UNCHANGED <<rows, ran, exhausted, quarantined, changes, pc, todo, pendingEnds, cur, back, at,
                     snap, stopping>>
    BY <1>33 DEF ControlStop, shared, memory, control, outside, stop, history
  <2>2. (stopped => stopped') /\ (budget /\ stopped => budget') /\ (budget' => budget \/ (stopped' /\ (Cooperative \/ "control" \in Stops)))
    BY <1>33 DEF ControlStop, shared, memory, control, outside, stop, history
  <2>3. \A n \in Name : SlotStays(n)
    BY <1>33 DEF ControlStop, SlotStays, memory
  <2>4. \A n \in Name : ~(Running(n) /\ slot'[n].run = None)
    BY <1>33 DEF ControlStop, Running, memory
  <2>5. Idle
    BY <2>1, <2>2, <2>3, <2>4, OutsideStep
  <2>6. QED BY <2>5 DEF Step
<1>34. CASE Crash
  BY <1>34 DEF Crash, Forget, Step, Forgets
<1>35. CASE Restart
  BY <1>35 DEF Restart, Forget, Step, Forgets
<1>36. CASE UNCHANGED vars
  <2>1. UNCHANGED <<rows, ran, exhausted, quarantined, changes, pc, todo, pendingEnds, cur, back, at,
                     snap, stopping>>
    BY <1>36 DEF vars, shared, timers, memory, control, outside, stop, history
  <2>2. UNCHANGED <<slot, stopped, budget>>
    BY <1>36 DEF vars, shared, timers, memory, control, outside, stop, history
  <2>3. (\A n \in Name : SlotStays(n)) /\ (\A n \in Name : ~(Running(n) /\ slot'[n].run = None))
    BY <2>2 DEF SlotStays, Running
  <2>4. Idle
    BY <2>1, <2>2, <2>3, OutsideStep
  <2>5. QED BY <2>4 DEF Step
<1>37. QED BY <1>1, <1>2, <1>3, <1>4, <1>5, <1>6, <1>7, <1>8, <1>9, <1>10, <1>11, <1>12, <1>13, <1>14, <1>15, <1>16, <1>17, <1>18, <1>19, <1>20, <1>21, <1>22, <1>23, <1>24, <1>25, <1>26, <1>27, <1>28, <1>29, <1>30, <1>31, <1>32, <1>33, <1>34, <1>35, <1>36 DEF Next, WorkerStep, Environment

-----------------------------------------------------------------------------
(* What a step leaves of the rows, the slots and the history               *)

\* A row written by name, at a new generation.
Rewritten(old, new, n) ==
  new[n] # NoRow /\ (old[n] # NoRow => new[n].generation = old[n].generation + 1)

LEMMA RowStep ==
  ASSUME Types, Step, NEW n \in Name
  PROVE  rows'[n] = rows[n] \/ Stays(rows, rows', n) \/ (OthersWrite /\ Rewritten(rows, rows', n))
<1>1. CASE Idle \/ Forgets \/ Lists \/ Merges \/ Starts
  BY <1>1 DEF Idle, Forgets, Lists, Merges, Starts
<1>2. CASE OthersWrite
  BY <1>2 DEF OthersWrite, Rewritten, SameBut
<1>3. CASE \E m \in Name, g \in Generation : Retries(m, g)
  BY <1>3 DEF Retries, EndIsTried, SameBut
<1>4. CASE Ends
  BY <1>4 DEF Ends, EndIsTried, SameBut
<1>5. CASE Drops \/ Records
  BY <1>5 DEF Drops, Records, Completes, SameBut
<1>6. CASE \E m \in Name : Persists(m)
  BY <1>6 DEF Persists, SameBut
<1>7. QED BY <1>1, <1>2, <1>3, <1>4, <1>5, <1>6 DEF Step

\* A generation once reached stays reached, and one fenced stays fenced.
LEMMA RowsGrow ==
  ASSUME Types, DataTypes', Step, NEW n \in Name, NEW g \in Generation, Reached(rows, n, g)
  PROVE  /\ Reached(rows', n, g)
         /\ Matches(rows', n, g) => Matches(rows, n, g)
<1>1. rows[n] # NoRow /\ g <= rows[n].generation /\ rows[n].generation \in Nat /\ g \in Nat
  BY GenerationAssumption DEF Reached, Types, DataTypes, Table, Row, RowSet, Generation
<1>2. CASE rows'[n] = rows[n]
  BY <1>2 DEF Reached, Matches, IsActive
<1>3. CASE Stays(rows, rows', n)
  BY <1>1, <1>3 DEF Reached, Matches, Stays
<1>4. CASE Rewritten(rows, rows', n)
  BY <1>1, <1>4 DEF Reached, Matches, Rewritten
<1>5. QED BY <1>2, <1>3, <1>4, RowStep

LEMMA SlotsFrom ==
  ASSUME Types, Step, NEW n \in Name, slot'[n] # None
  PROVE  \/ slot[n] # None /\ slot'[n].gen = slot[n].gen
         \/ Merges /\ Built(n)
<1>1. CASE Idle
  BY <1>1 DEF Idle, SlotStays
<1>2. CASE OthersWrite
  BY <1>2 DEF OthersWrite
<1>3. CASE Forgets
  BY <1>3 DEF Forgets
<1>4. CASE \E m \in Name, g \in Generation : Retries(m, g)
  BY <1>4 DEF Retries, EndIsTried
<1>5. CASE Ends \/ Lists
  BY <1>5 DEF Ends, EndIsTried, Lists
<1>6. CASE Merges
  BY <1>6 DEF Merges
<1>7. CASE Drops \/ Records
  BY <1>7 DEF Drops, Records, Completes
<1>8. CASE Starts
  BY <1>8 DEF Starts, StartKeeps, StartEnds
<1>9. CASE \E m \in Name : Persists(m)
  BY <1>9 DEF Persists
<1>10. QED BY <1>1, <1>2, <1>3, <1>4, <1>5, <1>6, <1>7, <1>8, <1>9 DEF Step

LEMMA RanFrom ==
  ASSUME Step
  PROVE  \/ ran' = ran
         \/ Starts /\ StartHandles /\ \A n \in Name \ {cur.name} : ran'[n] = ran[n]
<1>1. CASE Idle \/ OthersWrite \/ Forgets \/ Ends \/ Lists \/ Merges
  BY <1>1 DEF Idle, OthersWrite, Forgets, Ends, EndIsTried, Lists, Merges
<1>2. CASE \E m \in Name, g \in Generation : Retries(m, g)
  BY <1>2 DEF Retries, EndIsTried
<1>3. CASE Drops \/ Records
  BY <1>3 DEF Drops, Records, Completes
<1>4. CASE Starts
  BY <1>4 DEF Starts
<1>5. CASE \E m \in Name : Persists(m)
  BY <1>5 DEF Persists
<1>6. QED BY <1>1, <1>2, <1>3, <1>4, <1>5 DEF Step

\* Who is exhausted was so, or is just on its way to its end, without its slot.
LEMMA ExhaustedFrom ==
  ASSUME Step, NEW n \in Name, NEW g \in Generation, <<n, g>> \in exhausted'
  PROVE  \/ <<n, g>> \in exhausted
         \/ /\ n = cur.name /\ g = cur.gen /\ Ending(n, g)' /\ slot'[n] = None
            /\ slot[n] # None => slot[n].next = None
            /\ Records \/ Starts
<1>1. CASE Idle \/ OthersWrite \/ Ends \/ Lists \/ Merges
  BY <1>1 DEF Idle, OthersWrite, Ends, EndIsTried, Lists, Merges
<1>2. CASE Forgets
  BY <1>2 DEF Forgets
<1>3. CASE \E m \in Name, h \in Generation : Retries(m, h)
  BY <1>3 DEF Retries, EndIsTried
<1>4. CASE Drops
  BY <1>4 DEF Drops, Completes
<1>5. CASE Records
  BY <1>5 DEF Records, Completes, Ending
<1>6. CASE Starts
  BY <1>6 DEF Starts, StartKeeps, StartEnds, Ending
<1>7. CASE \E m \in Name : Persists(m)
  BY <1>7 DEF Persists
<1>8. QED BY <1>1, <1>2, <1>3, <1>4, <1>5, <1>6, <1>7 DEF Step

\* The schedule being handled was so, or has just been taken from its slot.
LEMMA CurFrom ==
  ASSUME Types, Step, pc' \in {"complete", "end", "start"}
  PROVE  /\ cur'.name \in Name
         /\ \/ pc \in {"complete", "end", "start"} /\ cur'.name = cur.name /\ cur'.gen = cur.gen
            \/ slot[cur'.name] # None /\ cur'.gen = slot[cur'.name].gen
<1>1. pc \in {"complete", "end", "start"} => cur.name \in Name
  BY DEF Types, ControlTypes, Handled, Selected
<1>2. CASE Idle
  <2>1. pc' \in {"end", "start"} => pc' = pc /\ cur' = cur
    BY <1>2 DEF Idle
  <2>2. pc' = "complete" => Takes \/ (pc = "complete" /\ cur' = cur)
    BY <1>2 DEF Idle
  <2>3. QED BY <1>1, <2>1, <2>2 DEF Takes
<1>3. CASE OthersWrite
  BY <1>1, <1>3 DEF OthersWrite
<1>4. CASE Forgets \/ Lists \/ Merges
  BY <1>4 DEF Forgets, Lists, Merges
<1>5. CASE (\E m \in Name, g \in Generation : Retries(m, g)) \/ Ends
  BY <1>5 DEF Retries, Ends, EndIsTried
<1>6. CASE Drops
  BY <1>6 DEF Drops, Completes, Types, ControlTypes
<1>7. CASE Records
  <2>1. pc = "complete" /\ (pc' = back \/ cur' = cur)
    BY <1>7 DEF Records, Completes
  <2>2. cur' = cur
    BY <2>1 DEF Types, ControlTypes
  <2>3. QED BY <1>1, <2>1, <2>2
<1>8. CASE Starts
  BY <1>1, <1>8 DEF Starts, StartKeeps, StartEnds
<1>9. CASE \E m \in Name : Persists(m)
  BY <1>9 DEF Persists, Selects
<1>10. QED BY <1>2, <1>3, <1>4, <1>5, <1>6, <1>7, <1>8, <1>9 DEF Step

\* The rows just read are the table's, or it has been written since.
LEMMA SnapFrom ==
  ASSUME Types, Step, pc' = "merge"
  PROVE  \/ Lists /\ snap' = rows /\ rows' = rows /\ ~quarantined
         \/ (Idle \/ OthersWrite) /\ pc = "merge" /\ snap' = snap
<1>1. CASE Idle \/ OthersWrite
  BY <1>1 DEF Idle, OthersWrite
<1>2. CASE Lists
  BY <1>2 DEF Lists
<1>3. CASE Forgets \/ Merges \/ Starts
  BY <1>3 DEF Forgets, Merges, Starts, StartKeeps, StartEnds
<1>4. CASE (\E m \in Name, g \in Generation : Retries(m, g)) \/ Ends
  BY <1>4 DEF Retries, Ends, EndIsTried
<1>5. CASE Drops \/ Records
  BY <1>5 DEF Drops, Records, Completes, Types, ControlTypes
<1>6. CASE \E m \in Name : Persists(m)
  BY <1>6 DEF Persists, Selects
<1>7. QED BY <1>1, <1>2, <1>3, <1>4, <1>5, <1>6 DEF Step

-----------------------------------------------------------------------------
(* The invariant is kept                                                   *)

LEMMA AgedKept ==
  ASSUME Types, Types', Aged, Step
  PROVE  Aged'
<1>1. ASSUME NEW n \in Name, slot'[n] # None
      PROVE  Reached(rows', n, slot'[n].gen)
  <2>1. slot'[n].gen \in Generation
    BY <1>1 DEF Types, DataTypes, Slot
  <2>2. CASE slot[n] # None /\ slot'[n].gen = slot[n].gen
    BY <2>1, <2>2, RowsGrow DEF Aged, Types
  <2>3. CASE Merges /\ Built(n)
    <3>1. Reached(rows, n, snap[n].generation) /\ slot'[n].gen = snap[n].generation
      BY <2>3 DEF Merges, Built, Aged, IsActive
    <3>2. QED BY <2>1, <3>1, RowsGrow DEF Types
  <2>4. QED BY <1>1, <2>2, <2>3, SlotsFrom
<1>2. ASSUME NEW n \in Name, ran'[n] # None
      PROVE  Reached(rows', n, ran'[n].gen)
  <2>1. ran'[n].gen \in Generation
    BY <1>2 DEF Types, DataTypes, Handling
  <2>2. ran'[n] = ran[n] \/ (pc = "start" /\ n = cur.name /\ ran'[n].gen = cur.gen)
    BY RanFrom DEF Starts, StartHandles
  <2>3. Reached(rows, n, ran'[n].gen)
    BY <1>2, <2>2 DEF Aged
  <2>4. QED BY <2>1, <2>3, RowsGrow DEF Types
<1>3. ASSUME NEW n \in Name, NEW g \in Generation, <<n, g>> \in exhausted'
      PROVE  Reached(rows', n, g)
  <2>1. <<n, g>> \in exhausted \/ (pc \in {"complete", "start"} /\ n = cur.name /\ g = cur.gen)
    BY <1>3, ExhaustedFrom DEF Records, Completes, Starts
  <2>2. Reached(rows, n, g)
    BY <2>1 DEF Aged
  <2>3. QED BY <2>2, RowsGrow DEF Types
<1>4. ASSUME pc' \in {"complete", "end", "start"}
      PROVE  Reached(rows', cur'.name, cur'.gen)
  <2>1. cur'.name \in Name /\ cur'.gen \in Generation
    BY <1>4 DEF Types, ControlTypes, Handled, Selected
  <2>2. Reached(rows, cur'.name, cur'.gen)
    BY <1>4, CurFrom DEF Aged
  <2>3. QED BY <2>1, <2>2, RowsGrow DEF Types
<1>5. ASSUME pc' = "merge", NEW n \in Name, snap'[n] # NoRow
      PROVE  Reached(rows', n, snap'[n].generation)
  <2>1. snap'[n].generation \in Generation
    BY <1>5 DEF Types, DataTypes, Table, Row, RowSet
  <2>2. CASE snap' = rows /\ rows' = rows
    BY <1>5, <2>1, <2>2, GenerationAssumption DEF Reached, Generation
  <2>3. CASE pc = "merge" /\ snap' = snap
    BY <1>5, <2>1, <2>3, RowsGrow DEF Aged, Types
  <2>4. QED BY <1>5, <2>2, <2>3, SnapFrom
<1>6. QED BY <1>1, <1>2, <1>3, <1>4, <1>5 DEF Aged

LEMMA AttendedKept ==
  ASSUME Types, Attended, Step
  PROVE  Attended'
<1>1. CASE Idle
  <2>1. \A n \in Name : SlotStays(n)
    BY <1>1 DEF Idle
  <2>2. CASE pc' \in {"end", "start"}
    <3>1. pc' = pc /\ cur' = cur /\ exhausted' = exhausted
      BY <1>1, <2>2 DEF Idle
    <3>2. cur.name \in Name
      BY <2>2, <3>1 DEF Types, ControlTypes, Handled, Selected
    <3>3. QED BY <2>1, <2>2, <3>1, <3>2 DEF Attended, SlotStays
  <2>3. CASE pc' = "complete" /\ Takes
    <3>1. PICK n \in Name : slot[n] # None /\ slot'[n].run = None /\ cur'.name = n /\ cur'.gen = slot[n].gen
      BY <2>3 DEF Takes
    <3>2. SlotStays(n)
      BY <2>1
    <3>3. QED BY <2>3, <3>1, <3>2 DEF Attended, SlotStays
  <2>4. CASE pc' = "complete" /\ pc = "complete" /\ cur' = cur
    <3>1. cur.name \in Name
      BY <2>4 DEF Types, ControlTypes, Handled
    <3>2. QED BY <2>1, <2>4, <3>1 DEF Attended, SlotStays
  <2>5. CASE pc' \notin {"complete", "end", "start"}
    <3>1. pc' = "down" => pc = "down"
      BY <1>1 DEF Idle
    <3>2. QED BY <2>1, <2>5, <3>1 DEF Attended, SlotStays
  <2>6. pc' = "complete" => Takes \/ (pc = "complete" /\ cur' = cur)
    BY <1>1 DEF Idle
  <2>7. QED BY <2>2, <2>3, <2>4, <2>5, <2>6
<1>2. CASE OthersWrite
  BY <1>2 DEF OthersWrite, Attended
<1>3. CASE Forgets \/ Lists \/ Merges
  BY <1>3 DEF Forgets, Lists, Merges, Attended
<1>4. CASE (\E m \in Name, g \in Generation : Retries(m, g)) \/ Ends
  BY <1>4 DEF Retries, Ends, EndIsTried, Attended
<1>5. CASE Drops
  <2>1. pc' = back /\ pc = "complete"
    BY <1>5 DEF Drops, Completes
  <2>2. QED BY <2>1 DEF Types, ControlTypes, Attended
<1>6. CASE Records
  <2>1. CASE pc' = back
    BY <1>6, <2>1 DEF Records, Completes, Types, ControlTypes, Attended
  <2>2. CASE pc' = "end" /\ cur' = cur /\ slot'[cur.name] = None
             /\ exhausted' = exhausted \cup {<<cur.name, cur.gen>>}
    BY <2>2 DEF Attended
  <2>3. QED BY <1>6, <2>1, <2>2 DEF Records
<1>7. CASE Starts
  <2>1. StartKeeps => Attended'
    BY DEF StartKeeps, Attended
  <2>2. StartEnds => Attended'
    BY DEF StartEnds, Attended
  <2>3. QED BY <1>7, <2>1, <2>2 DEF Starts
<1>8. CASE \E m \in Name : Persists(m)
  <2>1. PICK n \in Name : Persists(n)
    BY <1>8
  <2>2. pc' = "launch" \/ (pc' = "start" /\ cur'.name = n /\ cur'.gen = slot[n].gen)
    BY <2>1 DEF Persists, Selects
  <2>3. slot'[n] # None /\ slot'[n].gen = slot[n].gen
    BY <2>1 DEF Persists
  <2>4. QED BY <2>2, <2>3 DEF Attended
<1>9. QED BY <1>1, <1>2, <1>3, <1>4, <1>5, <1>6, <1>7, <1>8 DEF Step

LEMMA StopOrderKept ==
  ASSUME Types, StopOrder, Step
  PROVE  StopOrder'
<1>1. CASE Idle
  <2>1. StopGoesOn /\ (pc' = "start" => pc = "start")
    BY <1>1 DEF Idle
  <2>2. QED BY <2>1 DEF StopGoesOn, StopOrder
<1>2. ASSUME UNCHANGED <<stopping, stopped, budget>>, pc' = "start" => pc = "start" \/ ~stopping
      PROVE  StopOrder'
  BY <1>2 DEF StopOrder
<1>3. CASE OthersWrite
  BY <1>2, <1>3 DEF OthersWrite
<1>4. CASE Forgets
  BY <1>4 DEF Forgets, StopOrder
<1>5. CASE (\E m \in Name, g \in Generation : Retries(m, g)) \/ Ends
  BY <1>2, <1>5 DEF Retries, Ends, EndIsTried
<1>6. CASE Lists
  BY <1>2, <1>6 DEF Lists
<1>7. CASE Merges
  <2>1. (stopping' => stopping \/ stopped) /\ stopped' = stopped /\ budget' = budget /\ pc' # "start"
    BY <1>7 DEF Merges
  <2>2. QED BY <2>1 DEF StopOrder
<1>8. CASE Drops \/ Records
  BY <1>2, <1>8 DEF Drops, Records, Completes, Types, ControlTypes
<1>9. CASE Starts
  BY <1>2, <1>9 DEF Starts
<1>10. CASE \E m \in Name : Persists(m)
  <2>1. ~stopped /\ UNCHANGED <<stopping, stopped, budget>>
    BY <1>10 DEF Persists
  <2>2. ~stopping
    BY <2>1 DEF StopOrder
  <2>3. QED BY <1>2, <2>1, <2>2
<1>11. QED BY <1>1, <1>3, <1>4, <1>5, <1>6, <1>7, <1>8, <1>9, <1>10 DEF Step

\* What is launched although the store's answer is uncertain needs no answer.
LEMMA UncertainKept ==
  ASSUME Types, Attended, StopOrder, Uncertain, Step
  PROVE  Uncertain'
<1>1. CASE Idle
  <2>1. /\ StopGoesOn /\ (pc' = "start" => pc = "start" /\ cur' = cur)
        /\ quarantined' = quarantined /\ \A n \in Name : SlotStays(n)
    BY <1>1 DEF Idle
  <2>2. ASSUME pc' = "start", quarantined', ~budget'
        PROVE  slot'[cur'.name].next = None
    <3>1. pc = "start" /\ cur' = cur /\ quarantined /\ ~(budget /\ stopped)
      BY <2>1, <2>2 DEF StopGoesOn
    <3>2. ~budget
      BY <3>1 DEF StopOrder
    <3>3. slot[cur.name].next = None /\ slot[cur.name] # None /\ cur.name \in Name
      BY <3>1, <3>2 DEF Uncertain, Attended, Types, ControlTypes, Selected
    <3>4. QED BY <2>1, <3>1, <3>3 DEF SlotStays
  <2>3. QED BY <2>2 DEF Uncertain
<1>2. CASE OthersWrite
  BY <1>2 DEF OthersWrite, Uncertain
<1>3. CASE Forgets \/ Lists \/ Merges
  BY <1>3 DEF Forgets, Lists, Merges, Uncertain
<1>4. CASE (\E m \in Name, g \in Generation : Retries(m, g)) \/ Ends
  BY <1>4 DEF Retries, Ends, EndIsTried, Uncertain
<1>5. CASE Drops \/ Records
  BY <1>5 DEF Drops, Records, Completes, Types, ControlTypes, Uncertain
<1>6. CASE Starts
  BY <1>6 DEF Starts, StartKeeps, StartEnds, Uncertain
<1>7. CASE \E m \in Name : Persists(m)
  <2>1. PICK n \in Name : Persists(n)
    BY <1>7
  <2>2. slot'[n].next = NextRun(n, at) /\ budget' = budget
    BY <2>1 DEF Persists
  <2>3. CASE NextRun(n, at) = None
    <3>1. pc' = "start" /\ cur'.name = n
      BY <2>1, <2>3 DEF Persists, Selects
    <3>2. QED BY <2>2, <2>3, <3>1 DEF Uncertain
  <2>4. CASE NextRun(n, at) # None
    <3>1. pc' = "launch" \/ (quarantined' = quarantined /\ (quarantined => budget))
      BY <2>1, <2>4 DEF Persists
    <3>2. QED BY <2>2, <3>1 DEF Uncertain
  <2>5. QED BY <2>3, <2>4
<1>8. QED BY <1>1, <1>2, <1>3, <1>4, <1>5, <1>6, <1>7 DEF Step

\* A slot's generation is later than that of any exhausted schedule of its name.
LEMMA SlotIsLater ==
  ASSUME Types, Down, NEW n \in Name, NEW g \in Generation, <<n, g>> \in exhausted, slot[n] # None
  PROVE  g < slot[n].gen /\ slot[n].gen # g
<1>1. g < slot[n].gen /\ g \in Nat
  BY DEF Down, Generation
<1>2. slot[n].gen \in Nat
  BY SlotFields DEF Types, Generation
<1>3. QED BY <1>1, <1>2

LEMMA KeptKept ==
  ASSUME Types, Attended, Down, Kept, Step
  PROVE  Kept'
<1> SUFFICES ASSUME changes' = 0
             PROVE  /\ \A n \in Name : slot'[n] # None => MatchesEnabled(rows', n, slot'[n].gen)
                    /\ pc' = "merge" => snap' = rows'
  BY DEF Kept
<1>1. changes = 0 /\ ~OthersWrite
  <2>1. changes \in Nat
    BY DEF Types, TimeTypes
  <2>2. ~OthersWrite
    BY <2>1 DEF OthersWrite
  <2>3. changes' = changes
    <3>1. CASE Idle \/ Forgets \/ Lists \/ Merges \/ Starts
      BY <3>1 DEF Idle, Forgets, Lists, Merges, Starts
    <3>2. CASE (\E m \in Name, g \in Generation : Retries(m, g)) \/ Ends
      BY <3>2 DEF Retries, Ends, EndIsTried
    <3>3. CASE Drops \/ Records
      BY <3>3 DEF Drops, Records, Completes
    <3>4. CASE \E m \in Name : Persists(m)
      BY <3>4 DEF Persists
    <3>5. QED BY <2>2, <3>1, <3>2, <3>3, <3>4 DEF Step
  <2>4. QED BY <2>2, <2>3
<1>2. (\A n \in Name : slot[n] # None => MatchesEnabled(rows, n, slot[n].gen)) /\ (pc = "merge" => snap = rows)
  BY <1>1 DEF Kept
<1>3. ASSUME pc' = "merge" PROVE snap' = rows'
  <2>1. (Lists /\ snap' = rows /\ rows' = rows) \/ (Idle /\ pc = "merge" /\ snap' = snap)
    BY <1>1, <1>3, SnapFrom
  <2>2. Idle => rows' = rows
    BY DEF Idle
  <2>3. QED BY <1>2, <2>1, <2>2
<1>4. ASSUME NEW n \in Name, slot'[n] # None
      PROVE  MatchesEnabled(rows', n, slot'[n].gen)
  <2>1. CASE Idle
    BY <1>2, <1>4, <2>1 DEF Idle, SlotStays
  <2>2. CASE Forgets
    BY <1>4, <2>2 DEF Forgets
  <2>3. ASSUME NEW m \in Name, NEW g \in Generation, EndIsTried(m, g), <<m, g>> \in exhausted
        PROVE  MatchesEnabled(rows', n, slot'[n].gen)
    <3>1. slot' = slot /\ SameBut(rows, rows', m) /\ (rows' = rows \/ Matches(rows, m, g))
      BY <2>3 DEF EndIsTried
    <3>2. CASE n # m
      BY <1>2, <1>4, <3>1, <3>2 DEF SameBut, MatchesEnabled, Matches, IsActive
    <3>3. CASE n = m
      <4>1. slot[n].gen # g /\ MatchesEnabled(rows, n, slot[n].gen)
        BY <1>2, <1>4, <2>3, <3>1, <3>3, SlotIsLater
      <4>2. rows' = rows
        BY <3>1, <3>3, <4>1 DEF MatchesEnabled, Matches
      <4>3. QED BY <3>1, <4>1, <4>2
    <3>4. QED BY <3>2, <3>3
  <2>4. CASE \E m \in Name, g \in Generation : Retries(m, g)
    BY <2>3, <2>4 DEF Retries, Down
  <2>5. CASE Ends
    <3>1. cur.name \in Name /\ cur.gen \in Generation /\ <<cur.name, cur.gen>> \in exhausted
      BY <2>5 DEF Ends, EndIsTried, Attended
    <3>2. QED BY <2>3, <2>5, <3>1 DEF Ends
  <2>6. CASE Lists
    BY <1>2, <1>4, <2>6 DEF Lists
  <2>7. CASE Merges
    <3>1. snap = rows /\ rows' = rows
      BY <1>2, <2>7 DEF Merges
    <3>2. (slot[n] # None /\ slot'[n] = slot[n]) \/ Built(n)
      BY <1>4, <2>7 DEF Merges
    <3>3. Built(n) => slot'[n].gen = rows[n].generation /\ IsActive(rows, n) /\ rows[n].enabled
      BY <3>1 DEF Built
    <3>4. QED BY <1>2, <3>1, <3>2, <3>3 DEF MatchesEnabled, Matches
  <2>8. CASE Drops
    <3>1. n # cur.name /\ slot'[n] = slot[n] /\ rows'[n] = rows[n]
      BY <1>4, <2>8 DEF Drops, Completes, SameBut
    <3>2. QED BY <1>2, <1>4, <3>1 DEF MatchesEnabled, Matches, IsActive
  <2>9. CASE Records
    <3>1. CASE n # cur.name
      <4>1. slot'[n] = slot[n] /\ rows'[n] = rows[n]
        BY <2>9, <3>1 DEF Records, Completes, SameBut
      <4>2. QED BY <1>2, <1>4, <4>1 DEF MatchesEnabled, Matches, IsActive
    <3>2. CASE n = cur.name
      <4>1. slot' = slot /\ Stays(rows, rows', n) /\ (IsActive(rows, n) => IsActive(rows', n))
            /\ (IsActive(rows', n) => rows'[n].enabled = rows[n].enabled)
        BY <1>4, <2>9, <3>2 DEF Records, Completes
      <4>2. MatchesEnabled(rows, n, slot[n].gen)
        BY <1>2, <1>4, <4>1
      <4>3. QED BY <4>1, <4>2 DEF MatchesEnabled, Matches, Stays, IsActive
    <3>3. QED BY <3>1, <3>2
  <2>10. CASE Starts
    <3>1. rows' = rows /\ slot'[n].gen = slot[n].gen /\ slot[n] # None
      BY <1>4, <2>10 DEF Starts, StartKeeps, StartEnds
    <3>2. QED BY <1>2, <3>1
  <2>11. CASE \E m \in Name : Persists(m)
    <3>1. PICK m \in Name : Persists(m)
      BY <2>11
    <3>2. CASE n # m
      <4>1. slot'[n] = slot[n] /\ rows'[n] = rows[n]
        BY <3>1, <3>2 DEF Persists, SameBut
      <4>2. QED BY <1>2, <1>4, <4>1 DEF MatchesEnabled, Matches, IsActive
    <3>3. CASE n = m
      <4>1. slot[n] # None /\ slot'[n].gen = slot[n].gen /\ Stays(rows, rows', n)
            /\ (IsActive(rows, n) => IsActive(rows', n))
            /\ (IsActive(rows', n) => rows'[n].enabled = rows[n].enabled)
        BY <3>1, <3>3 DEF Persists
      <4>2. MatchesEnabled(rows, n, slot[n].gen)
        BY <1>2, <4>1
      <4>3. QED BY <4>1, <4>2 DEF MatchesEnabled, Matches, Stays, IsActive
    <3>4. QED BY <3>2, <3>3
  <2>12. QED BY <1>1, <2>1, <2>2, <2>4, <2>5, <2>6, <2>7, <2>8, <2>9, <2>10, <2>11 DEF Step
<1>5. QED BY <1>3, <1>4

\* Who waits for its end goes on waiting, unless that write is tried.
LEMMA WaitingFrom ==
  ASSUME Types, Attended, Down, Step
  PROVE  \/ Waiting' = Waiting
         \/ exhausted' = {} /\ Waiting' = {}
         \/ \E n \in Name, g \in Generation :
              EndIsTried(n, g) /\ <<n, g>> \in exhausted /\ (Ends => n = cur.name /\ g = cur.gen)
<1>1. CASE Idle \/ Lists \/ Merges \/ Starts
  BY <1>1 DEF Idle, Lists, Merges, Starts
<1>2. CASE OthersWrite
  BY <1>2 DEF OthersWrite, Waiting
<1>3. CASE Forgets
  BY <1>3 DEF Forgets, Waiting
<1>4. CASE \E n \in Name, g \in Generation : Retries(n, g)
  <2>1. PICK n \in Name, g \in Generation : Retries(n, g)
    BY <1>4
  <2>2. EndIsTried(n, g) /\ <<n, g>> \in exhausted /\ ~Ends
    BY <2>1 DEF Retries, Down, Ends
  <2>3. QED BY <2>2
<1>5. CASE Ends
  <2>1. EndIsTried(cur.name, cur.gen) /\ <<cur.name, cur.gen>> \in exhausted
    BY <1>5 DEF Ends, Attended
  <2>2. cur.name \in Name /\ cur.gen \in Generation
    BY <2>1 DEF EndIsTried
  <2>3. QED BY <2>1, <2>2
<1>6. CASE Drops \/ Records
  BY <1>6 DEF Drops, Records, Completes
<1>7. CASE \E n \in Name : Persists(n)
  BY <1>7 DEF Persists
<1>8. QED BY <1>1, <1>2, <1>3, <1>4, <1>5, <1>6, <1>7 DEF Step

\* end_exhausted goes on until its write is tried.
LEMMA EndingStays ==
  ASSUME Step, NEW n, NEW g, Ending(n, g)
  PROVE  Ending(n, g)' \/ Ends \/ Forgets
<1>1. CASE Idle
  BY <1>1 DEF Idle, StopGoesOn, Ending
<1>2. CASE OthersWrite
  BY <1>2 DEF OthersWrite, Ending
<1>3. CASE Lists \/ Merges \/ Starts
  BY <1>3 DEF Lists, Merges, Starts, Ending
<1>4. CASE \E m \in Name, h \in Generation : Retries(m, h)
  BY <1>4 DEF Retries, Ending
<1>5. CASE Drops \/ Records
  BY <1>5 DEF Drops, Records, Completes, Ending
<1>6. CASE \E m \in Name : Persists(m)
  BY <1>6 DEF Persists, Ending
<1>7. QED BY <1>1, <1>2, <1>3, <1>4, <1>5, <1>6 DEF Step

LEMMA QuarantineStays ==
  ASSUME Step, quarantined
  PROVE  quarantined' \/ exhausted' = {}
<1>1. CASE Idle \/ OthersWrite \/ Forgets \/ Lists \/ Merges \/ Starts
  BY <1>1 DEF Idle, OthersWrite, Forgets, Lists, Merges, Starts
<1>2. CASE (\E m \in Name, h \in Generation : Retries(m, h)) \/ Ends
  BY <1>2 DEF Retries, Ends, EndIsTried
<1>3. CASE Drops \/ Records
  BY <1>3 DEF Drops, Records, Completes
<1>4. CASE \E m \in Name : Persists(m)
  BY <1>4 DEF Persists
<1>5. QED BY <1>1, <1>2, <1>3, <1>4 DEF Step

LEMMA ExhaustedStays ==
  ASSUME Step
  PROVE  exhausted \subseteq exhausted' \/ (exhausted' = {} /\ Waiting' = {})
<1>1. CASE Idle \/ OthersWrite \/ Forgets \/ Ends \/ Lists \/ Merges
  BY <1>1 DEF Idle, OthersWrite, Forgets, Ends, EndIsTried, Lists, Merges, Waiting
<1>2. CASE \E m \in Name, h \in Generation : Retries(m, h)
  BY <1>2 DEF Retries, EndIsTried
<1>3. CASE Drops \/ Records
  BY <1>3 DEF Drops, Records, Completes
<1>4. CASE Starts
  BY <1>4 DEF Starts, StartKeeps, StartEnds
<1>5. CASE \E m \in Name : Persists(m)
  BY <1>5 DEF Persists
<1>6. QED BY <1>1, <1>2, <1>3, <1>4, <1>5 DEF Step

LEMMA DownKept ==
  ASSUME Types, Types', Aged, Attended, Down, Step
  PROVE  Down'
<1>1. Waiting' \subseteq exhausted'
  <2>1. CASE Waiting' = Waiting
    BY <2>1, ExhaustedStays DEF Down
  <2>2. ASSUME NEW n \in Name, NEW g \in Generation, EndIsTried(n, g), <<n, g>> \in exhausted
        PROVE  Waiting' \subseteq exhausted'
    BY <2>2 DEF EndIsTried, Down
  <2>3. QED BY <2>1, <2>2, WaitingFrom
<1>2. ASSUME NEW n \in Name, NEW g \in Generation, <<n, g>> \in exhausted', slot'[n] # None
      PROVE  g < slot'[n].gen
  <2>1. <<n, g>> \in exhausted
    BY <1>2, ExhaustedFrom
  <2>2. CASE slot[n] # None /\ slot'[n].gen = slot[n].gen
    BY <2>1, <2>2 DEF Down
  <2>3. CASE Merges /\ Built(n)
    <3>1. pc = "merge" /\ slot'[n].gen = snap[n].generation /\ IsActive(snap, n)
          /\ <<n, snap[n].generation>> \notin Waiting
      BY <2>3 DEF Merges, Built
    <3>2. g <= snap[n].generation /\ (Matches(snap, n, g) => <<n, g>> \in Waiting)
      BY <2>1, <3>1 DEF Down
    <3>3. g # snap[n].generation
      BY <3>1, <3>2 DEF Matches
    <3>4. g \in Nat /\ slot'[n].gen \in Nat
      BY <1>2 DEF Types, DataTypes, Slot, Generation
    <3>5. QED BY <3>1, <3>2, <3>3, <3>4
  <2>4. QED BY <1>2, <2>2, <2>3, SlotsFrom
<1>3. ASSUME NEW n \in Name, NEW g \in Generation, <<n, g>> \in exhausted'
      PROVE  Accounted(n, g)'
  <2>1. CASE Ending(n, g)'
    BY <2>1 DEF Accounted
  <2>2. CASE <<n, g>> \in exhausted
    <3>1. exhausted' # {} /\ ~Forgets
      BY <1>3 DEF Forgets
    <3>2. ASSUME EndIsTried(n, g) PROVE Accounted(n, g)'
      BY <3>2 DEF EndIsTried, Accounted
    <3>3. CASE <<n, g>> \in Waiting
      <4>1. ASSUME NEW m \in Name, NEW h \in Generation, EndIsTried(m, h), <<n, g>> # <<m, h>>
            PROVE  <<n, g>> \in Waiting'
        BY <3>3, <4>1 DEF EndIsTried
      <4>2. QED BY <3>1, <3>2, <3>3, <4>1, WaitingFrom DEF Accounted
    <3>4. CASE Ending(n, g)
      <4>1. Ending(n, g)' \/ Ends
        BY <3>1, <3>4, EndingStays
      <4>2. Ends => EndIsTried(n, g)
        BY <3>4 DEF Ends, Ending
      <4>3. QED BY <2>1, <3>2, <4>1, <4>2
    <3>5. CASE quarantined
      BY <3>1, <3>5, QuarantineStays DEF Accounted
    <3>6. CASE ~Matches(rows, n, g)
      <4>1. Reached(rows, n, g)
        BY <2>2 DEF Aged
      <4>2. ~Matches(rows', n, g)
        BY <3>6, <4>1, RowsGrow DEF Types
      <4>3. QED BY <4>2 DEF Accounted
    <3>7. Accounted(n, g)
      BY <2>2 DEF Down
    <3>8. QED BY <3>3, <3>4, <3>5, <3>6, <3>7 DEF Accounted
  <2>3. QED BY <1>3, <2>1, <2>2, ExhaustedFrom
<1>4. ASSUME NEW n \in Name, NEW g \in Generation, <<n, g>> \in exhausted', pc' = "merge"
      PROVE  /\ snap'[n] # NoRow /\ g <= snap'[n].generation
             /\ Matches(snap', n, g) => <<n, g>> \in Waiting'
  <2>1. CASE Lists /\ snap' = rows /\ ~quarantined
    <3>1. exhausted' = exhausted /\ Waiting' = Waiting /\ pc = "list"
      BY <2>1 DEF Lists
    <3>2. Accounted(n, g) /\ Reached(rows, n, g)
      BY <1>4, <3>1 DEF Down, Aged
    <3>3. QED BY <2>1, <3>1, <3>2 DEF Accounted, Ending, Reached
  <2>2. CASE (Idle \/ OthersWrite) /\ pc = "merge" /\ snap' = snap
    <3>1. exhausted' = exhausted /\ Waiting' = Waiting
      BY <2>2 DEF Idle, OthersWrite, Waiting
    <3>2. QED BY <1>4, <2>2, <3>1 DEF Down
  <2>3. QED BY <1>4, <2>1, <2>2, SnapFrom
<1>5. QED BY <1>1, <1>2, <1>3, <1>4 DEF Down

LEMMA OccIsTime ==
  ASSUME NEW n \in Name, NEW t \in Occ[n]
  PROVE  t \in Nat /\ t > 0 /\ t \in Instant
  BY OccAssumption, PeriodAssumption DEF Instant

\* What lies behind the occurrences handled so far lies behind those of this tick,
\* unless the store has just confirmed the next run.
LEMMA StillBeyond ==
  ASSUME Types, Fresh, Starts, StartHandles, NEW g, NEW t,
         Beyond(ran[cur.name], cur.name, g, t), cur.saved /\ g = cur.gen => t > at
  PROVE  Beyond(ran'[cur.name], cur.name, g, t)
<1> DEFINE n == cur.name
<1>1. n \in Name /\ at \in Instant /\ at \in Nat
  BY PeriodAssumption DEF Starts, Types, ControlTypes, Instant
<1>2. cur.occ \in Occ[n] /\ cur.occ <= at
  BY DEF Fresh, StartIsFresh, Starts, Beyond
<1>3. Latest(n, at) <= at /\ Latest(n, at) \in Instant
  BY <1>1, <1>2, LatestOK
<1>4. t \in Occ[n]
  BY DEF Beyond
<1>5. t \in Nat /\ t > 0
  BY <1>1, <1>4, OccIsTime
<1>6. ASSUME ran'[n].gen = g PROVE t > ran'[n].saved
  <2>1. g = cur.gen
    BY <1>6 DEF StartHandles
  <2>2. CASE cur.saved
    <3>1. ran'[n].saved = Latest(n, at) /\ t > at
      BY <2>1, <2>2 DEF StartHandles
    <3>2. QED BY <1>1, <1>3, <1>5, <3>1 DEF Instant
  <2>3. CASE ~cur.saved /\ HandledBy(n, cur.gen)
    BY <2>1, <2>3 DEF StartHandles, Beyond, HandledBy
  <2>4. CASE ~cur.saved /\ ~HandledBy(n, cur.gen)
    BY <1>5, <2>4 DEF StartHandles
  <2>5. QED BY <2>2, <2>3, <2>4
<1>7. QED BY <1>4, <1>6 DEF Beyond

\* The next run after a tick lies behind what was handled before it.
LEMMA NextIsBeyond ==
  ASSUME Types, Fresh, NEW n \in Name, slot[n] # None, slot[n].next # None, slot[n].next <= at,
         NextRun(n, at) # None
  PROVE  Beyond(ran[n], n, slot[n].gen, NextRun(n, at)) /\ NextRun(n, at) > at
<1>1. Beyond(ran[n], n, slot[n].gen, slot[n].next)
  BY DEF Fresh, StartIsFresh
<1>2. NextRun(n, at) \in Occ[n] /\ NextRun(n, at) > at
  BY NextRunOK
<1>3. slot[n].next \in Nat /\ at \in Nat /\ NextRun(n, at) \in Nat
  BY <1>1, <1>2, OccIsTime, PeriodAssumption DEF Beyond, Types, ControlTypes, Instant
<1>4. ASSUME ran[n] # None, ran[n].gen = slot[n].gen
      PROVE  NextRun(n, at) > ran[n].saved
  <2>1. slot[n].next > ran[n].saved /\ ran[n].saved \in Nat
    BY <1>1, <1>4, PeriodAssumption DEF Beyond, Types, DataTypes, Handling, Instant
  <2>2. QED BY <1>2, <1>3, <2>1
<1>5. QED BY <1>2, <1>4 DEF Beyond

LEMMA FreshRows ==
  ASSUME Types, DataTypes', Aged, Attended, Fresh, Step, NEW n \in Name, IsActive(rows', n)
  PROVE  Beyond(ran'[n], n, rows'[n].generation, rows'[n].next)
<1>1. IsActive(rows, n) => Beyond(ran[n], n, rows[n].generation, rows[n].next)
  BY DEF Fresh, StartIsFresh
<1>2. ASSUME ran' = ran, Stays(rows, rows', n), rows'[n].next = rows[n].next
      PROVE  Beyond(ran'[n], n, rows'[n].generation, rows'[n].next)
  BY <1>1, <1>2 DEF Stays, IsActive
<1>3. ASSUME ran' = ran, rows'[n] = rows[n]
      PROVE  Beyond(ran'[n], n, rows'[n].generation, rows'[n].next)
  BY <1>1, <1>3 DEF IsActive
<1>4. CASE Idle \/ Forgets \/ Lists \/ Merges
  BY <1>3, <1>4 DEF Idle, Forgets, Lists, Merges
<1>5. CASE OthersWrite
  <2>1. ran' = ran
    BY <1>5 DEF OthersWrite
  <2>2. \/ rows'[n] = rows[n]
        \/ Stays(rows, rows', n) /\ rows'[n].next = rows[n].next
        \/ /\ rows'[n].next \in Occ[n]
           /\ rows[n] # NoRow => rows'[n].generation = rows[n].generation + 1
    BY <1>5 DEF OthersWrite, SameBut
  <2>3. ASSUME rows'[n].next \in Occ[n], rows[n] # NoRow => rows'[n].generation = rows[n].generation + 1
        PROVE  Beyond(ran'[n], n, rows'[n].generation, rows'[n].next)
    <3>1. CASE ran[n] = None
      BY <2>1, <2>3, <3>1 DEF Beyond
    <3>2. CASE ran[n] # None
      <4>1. Reached(rows, n, ran[n].gen)
        BY <3>2 DEF Aged
      <4>2. ran[n].gen \in Nat /\ rows[n].generation \in Nat
        BY <3>2, <4>1 DEF Reached, Types, DataTypes, Handling, Table, Row, RowSet, Generation
      <4>3. ran'[n].gen # rows'[n].generation
        BY <2>1, <2>3, <4>1, <4>2 DEF Reached
      <4>4. QED BY <2>3, <4>3 DEF Beyond
    <3>3. QED BY <3>1, <3>2
  <2>4. QED BY <1>2, <1>3, <2>1, <2>2, <2>3
<1>6. ASSUME NEW m, NEW g, EndIsTried(m, g)
      PROVE  Beyond(ran'[n], n, rows'[n].generation, rows'[n].next)
  <2>1. ran' = ran /\ rows'[n] = rows[n]
    BY <1>6 DEF EndIsTried, SameBut
  <2>2. QED BY <1>3, <2>1
<1>7. CASE (\E m \in Name, g \in Generation : Retries(m, g)) \/ Ends
  BY <1>6, <1>7 DEF Retries, Ends
<1>8. CASE Drops \/ Records
  <2>1. ran' = ran /\ (rows'[n] = rows[n] \/ (Stays(rows, rows', n) /\ rows'[n].next = rows[n].next))
    BY <1>8 DEF Drops, Records, Completes, SameBut
  <2>2. QED BY <1>2, <1>3, <2>1
<1>9. CASE Starts
  <2>1. rows' = rows
    BY <1>9 DEF Starts
  <2>2. CASE ran' = ran \/ n # cur.name
    <3>1. ran'[n] = ran[n]
      BY <1>9, <2>2 DEF Starts
    <3>2. QED BY <1>1, <2>1, <3>1
  <2>3. CASE StartHandles /\ n = cur.name
    <3>1. cur.saved /\ rows[n].generation = cur.gen => rows[n].next > at
      BY <1>9, <2>1, <2>3 DEF Fresh, StartIsFresh, Starts, Matches
    <3>2. QED BY <1>1, <1>9, <2>1, <2>3, <3>1, StillBeyond
  <2>4. QED BY <1>9, <2>2, <2>3 DEF Starts
<1>10. CASE \E m \in Name : Persists(m)
  <2>1. PICK m \in Name : Persists(m)
    BY <1>10
  <2>2. ran' = ran
    BY <2>1 DEF Persists
  <2>3. CASE rows'[n] = rows[n]
    BY <1>3, <2>2, <2>3
  <2>4. CASE n = m /\ Matches(rows, n, slot[n].gen) /\ rows'[n].next = NextRun(n, at)
             /\ NextRun(n, at) # None
    <3>1. Stays(rows, rows', n) /\ slot[n] # None /\ slot[n].next # None /\ slot[n].next <= at
      BY <2>1, <2>4 DEF Persists
    <3>2. rows'[n].generation = slot[n].gen
      BY <2>4, <3>1 DEF Stays, Matches, IsActive
    <3>3. QED BY <2>2, <2>4, <3>1, <3>2, NextIsBeyond
  <2>5. QED BY <2>1, <2>3, <2>4 DEF Persists, SameBut
<1>11. QED BY <1>4, <1>5, <1>7, <1>8, <1>9, <1>10 DEF Step

LEMMA FreshSnap ==
  ASSUME Types, Fresh, Step, NEW n \in Name, pc' = "merge", IsActive(snap', n)
  PROVE  Beyond(ran'[n], n, snap'[n].generation, snap'[n].next)
<1>1. CASE Lists /\ snap' = rows
  BY <1>1 DEF Lists, Fresh, StartIsFresh
<1>2. CASE (Idle \/ OthersWrite) /\ pc = "merge" /\ snap' = snap
  <2>1. ran' = ran
    BY <1>2 DEF Idle, OthersWrite
  <2>2. QED BY <1>2, <2>1 DEF Fresh, StartIsFresh
<1>3. QED BY <1>1, <1>2, SnapFrom

LEMMA FreshSlots ==
  ASSUME Types, Attended, Fresh, Step, NEW n \in Name, slot'[n] # None, slot'[n].next # None
  PROVE  Beyond(ran'[n], n, slot'[n].gen, slot'[n].next)
<1>1. ASSUME ran'[n] = ran[n], slot[n] # None, slot'[n].gen = slot[n].gen, slot'[n].next = slot[n].next
      PROVE  Beyond(ran'[n], n, slot'[n].gen, slot'[n].next)
  BY <1>1 DEF Fresh, StartIsFresh
<1>2. CASE Idle
  BY <1>1, <1>2 DEF Idle, SlotStays
<1>3. CASE OthersWrite
  BY <1>1, <1>3 DEF OthersWrite
<1>4. CASE Forgets
  BY <1>4 DEF Forgets
<1>5. CASE (\E m \in Name, g \in Generation : Retries(m, g)) \/ Ends
  BY <1>1, <1>5 DEF Retries, Ends, EndIsTried
<1>6. CASE Lists
  BY <1>1, <1>6 DEF Lists
<1>7. CASE Merges
  <2>1. ran' = ran /\ pc = "merge"
    BY <1>7 DEF Merges
  <2>2. CASE slot[n] # None /\ slot'[n] = slot[n]
    BY <1>1, <2>1, <2>2
  <2>3. CASE Built(n)
    <3>1. Beyond(ran[n], n, snap[n].generation, snap[n].next)
      BY <2>1, <2>3 DEF Built, Fresh, StartIsFresh
    <3>2. slot'[n].gen = snap[n].generation /\ slot'[n].next = snap[n].next
      BY <2>3 DEF Built
    <3>3. QED BY <2>1, <3>1, <3>2
  <2>4. QED BY <1>7, <2>2, <2>3 DEF Merges
<1>8. CASE Drops \/ Records
  <2>1. slot'[n] = slot[n] /\ ran' = ran
    BY <1>8 DEF Drops, Records, Completes
  <2>2. QED BY <1>1, <2>1
<1>9. CASE Starts
  <2>1. slot[n] # None /\ slot'[n].gen = slot[n].gen /\ slot'[n].next = slot[n].next
    BY <1>9 DEF Starts, StartKeeps, StartEnds
  <2>2. CASE ran' = ran \/ n # cur.name
    <3>1. ran'[n] = ran[n]
      BY <1>9, <2>2 DEF Starts
    <3>2. QED BY <1>1, <2>1, <3>1
  <2>3. CASE StartHandles /\ n = cur.name
    <3>1. Beyond(ran[n], n, slot'[n].gen, slot'[n].next)
      BY <2>1 DEF Fresh, StartIsFresh
    <3>2. slot'[n].next > at
      <4>1. slot'[n].next = NextRun(n, at)
        BY <1>9, <2>1, <2>3 DEF Starts, Fresh, StartIsFresh
      <4>2. QED BY <4>1, NextRunOK
    <3>3. QED BY <1>9, <2>3, <3>1, <3>2, StillBeyond
  <2>4. QED BY <1>9, <2>2, <2>3 DEF Starts
<1>10. CASE \E m \in Name : Persists(m)
  <2>1. PICK m \in Name : Persists(m)
    BY <1>10
  <2>2. ran' = ran
    BY <2>1 DEF Persists
  <2>3. CASE n # m
    BY <1>1, <2>1, <2>2, <2>3 DEF Persists
  <2>4. CASE n = m
    <3>1. /\ slot[n] # None /\ slot[n].next # None /\ slot[n].next <= at
          /\ slot'[n].gen = slot[n].gen /\ slot'[n].next = NextRun(n, at)
      BY <2>1, <2>4 DEF Persists
    <3>2. QED BY <2>2, <3>1, NextIsBeyond
  <2>5. QED BY <2>3, <2>4
<1>11. QED BY <1>2, <1>3, <1>4, <1>5, <1>6, <1>7, <1>8, <1>9, <1>10 DEF Step

LEMMA FreshStart ==
  ASSUME Types, DataTypes', Aged, Attended, Fresh, Step, pc' = "start"
  PROVE  StartIsFresh'
<1>1. pc = "start" => StartIsFresh /\ cur.name \in Name /\ cur.gen \in Generation
                      /\ slot[cur.name] # None
  BY DEF Fresh, StartIsFresh, Types, ControlTypes, Selected, Attended
<1>2. CASE Idle
  <2>1. pc = "start" /\ cur' = cur /\ at' = at /\ rows' = rows /\ ran' = ran
    BY <1>2 DEF Idle
  <2>2. slot'[cur.name].next = slot[cur.name].next
    BY <1>1, <1>2, <2>1 DEF Idle, SlotStays
  <2>3. QED BY <1>1, <2>1, <2>2 DEF StartIsFresh
<1>3. CASE OthersWrite
  <2>1. pc = "start" /\ cur' = cur /\ at' = at /\ slot' = slot /\ ran' = ran
    BY <1>3 DEF OthersWrite
  <2>2. ASSUME cur.saved, Matches(rows', cur.name, cur.gen)
        PROVE  rows'[cur.name].next > at
    <3>1. Reached(rows, cur.name, cur.gen)
      BY <2>1 DEF Aged
    <3>2. Matches(rows, cur.name, cur.gen)
      BY <1>1, <2>1, <2>2, <3>1, RowsGrow
    <3>3. rows[cur.name].next > at
      BY <1>1, <2>1, <2>2, <3>2 DEF StartIsFresh
    <3>4. rows'[cur.name].generation = rows[cur.name].generation /\ rows[cur.name].generation \in Nat
          /\ rows[cur.name] # NoRow
      BY <1>1, <2>1, <2>2, <3>2, ActiveRow DEF Matches, IsActive, Generation, Types, DataTypes
    <3>5. rows'[cur.name].next = rows[cur.name].next
      BY <1>1, <1>3, <2>1, <2>2, <3>4 DEF OthersWrite, SameBut, Matches
    <3>6. QED BY <3>3, <3>5
  <2>3. QED BY <1>1, <2>1, <2>2 DEF StartIsFresh
<1>4. CASE Forgets \/ Lists \/ Merges
  BY <1>4 DEF Forgets, Lists, Merges
<1>5. CASE (\E m \in Name, g \in Generation : Retries(m, g)) \/ Ends
  BY <1>5 DEF Retries, Ends, EndIsTried
<1>6. CASE Drops \/ Records
  BY <1>6 DEF Drops, Records, Completes, Types, ControlTypes
<1>7. CASE Starts
  BY <1>7 DEF Starts, StartKeeps, StartEnds
<1>8. CASE \E m \in Name : Persists(m)
  <2>1. PICK n \in Name : Persists(n)
    BY <1>8
  <2>2. /\ slot[n] # None /\ slot[n].next # None /\ slot[n].next <= at
        /\ slot'[n].next = NextRun(n, at) /\ ran' = ran /\ at' = at
    BY <2>1 DEF Persists
  <2>3. /\ cur'.name = n /\ cur'.gen = slot[n].gen /\ cur'.occ = slot[n].next
        /\ \/ cur'.saved = FALSE
           \/ /\ NextRun(n, at) # None
              /\ Matches(rows', n, slot[n].gen) => rows'[n].next = NextRun(n, at)
    BY <2>1 DEF Persists, Selects
  <2>4. Beyond(ran[n], n, slot[n].gen, slot[n].next)
    BY <2>2 DEF Fresh, StartIsFresh
  <2>5. cur'.saved /\ Matches(rows', n, slot[n].gen) => rows'[n].next > at
    BY <2>2, <2>3, NextIsBeyond
  <2>6. QED BY <2>2, <2>3, <2>4, <2>5 DEF StartIsFresh
<1>9. QED BY <1>2, <1>3, <1>4, <1>5, <1>6, <1>7, <1>8 DEF Step

LEMMA FreshKept ==
  ASSUME Types, DataTypes', Aged, Attended, Fresh, Step
  PROVE  Fresh'
BY FreshRows, FreshSnap, FreshSlots, FreshStart DEF Fresh, StartIsFresh

\* What was handled for good stays so, unless another tick of its name is handled.
LEMMA ConsumedStays ==
  ASSUME Types, DataTypes', Step, NEW n \in Name, NEW g \in Generation,
         Reached(rows, n, g), Consumed(rows, ran[n], n, g), ran'[n] = ran[n]
  PROVE  Consumed(rows', ran'[n], n, g)
<1>1. CASE g < rows[n].generation
  <2>1. rows[n] # NoRow /\ rows[n].generation \in Generation
    BY DEF Reached, Types, DataTypes, Table, Row, RowSet
  <2>2. Reached(rows', n, rows[n].generation)
    <3>1. Reached(rows, n, rows[n].generation)
      BY <2>1, GenerationAssumption DEF Reached, Generation
    <3>2. QED BY <2>1, <3>1, RowsGrow
  <2>3. rows'[n].generation \in Nat /\ rows[n].generation \in Nat /\ g \in Nat
    BY <2>1, <2>2 DEF Reached, DataTypes, Table, Row, RowSet, Generation
  <2>4. QED BY <1>1, <2>2, <2>3 DEF Reached, Consumed
<1>2. CASE ran[n] # None /\ ran[n].gen = g /\ NextRun(n, ran[n].upto) = None
  BY <1>2 DEF Consumed
<1>3. QED BY <1>1, <1>2 DEF Consumed

\* Another tick is handled for a later generation than any exhausted one's.
LEMMA ExhaustedIsOlder ==
  ASSUME Types, Aged, Attended, Down, Starts, NEW g \in Generation, <<cur.name, g>> \in exhausted
  PROVE  g < rows[cur.name].generation
<1>1. pc = "start" /\ cur.name \in Name /\ cur.gen \in Generation
  BY DEF Starts
<1>2. g < cur.gen
  BY <1>1, SlotIsLater DEF Attended
<1>3. cur.gen <= rows[cur.name].generation /\ rows[cur.name] # NoRow
  BY <1>1 DEF Aged, Reached
<1>4. rows[cur.name].generation \in Nat /\ cur.gen \in Nat /\ g \in Nat
  BY <1>1, <1>3 DEF Types, DataTypes, Table, Row, RowSet, Generation
<1>5. QED BY <1>2, <1>3, <1>4

\* The tick of a slot without a next run is the last one.
LEMMA LastTick ==
  ASSUME Types, Fresh, Starts, StartHandles, slot[cur.name].next = None
  PROVE  Consumed(rows', ran'[cur.name], cur.name, cur.gen)
<1> DEFINE n == cur.name
<1>1. n \in Name /\ at \in Instant /\ at \in Nat
  BY PeriodAssumption DEF Starts, Types, ControlTypes, Instant
<1>2. cur.occ \in Occ[n] /\ cur.occ <= at /\ NextRun(n, at) = None
  BY DEF Fresh, StartIsFresh, Starts, Beyond
<1>3. /\ Latest(n, at) \in Occ[n]
      /\ \A p \in Occ[n] : p <= at => p <= Latest(n, at)
  BY <1>1, <1>2, LatestOK
<1>4. \A p \in Occ[n] : ~(p > at) /\ p \in Nat
  BY <1>1, <1>2, NextRunOK, OccIsTime
<1>5. \A p \in Occ[n] : p <= Latest(n, at) /\ p \in Nat
  BY <1>1, <1>3, <1>4
<1>6. NextRun(n, Latest(n, at)) = None
  <2>1. NextRun(n, Latest(n, at)) # None => NextRun(n, Latest(n, at)) \in Occ[n]
                                            /\ NextRun(n, Latest(n, at)) > Latest(n, at)
    BY <1>1, NextRunOK
  <2>2. QED BY <1>3, <1>5, <2>1
<1>7. QED BY <1>6 DEF StartHandles, Consumed

LEMMA EarnedSlots ==
  ASSUME Types, DataTypes', Aged, Attended, Fresh, Earned, Step,
         NEW n \in Name, slot'[n] # None, slot'[n].next = None, pc' = "start" => cur'.name # n
  PROVE  Consumed(rows', ran'[n], n, slot'[n].gen)
<1>1. ASSUME ran'[n] = ran[n], slot[n] # None, slot'[n].gen = slot[n].gen, slot[n].next = None,
             pc = "start" => cur.name # n
      PROVE  Consumed(rows', ran'[n], n, slot'[n].gen)
  <2>1. Consumed(rows, ran[n], n, slot[n].gen)
    BY <1>1 DEF Earned
  <2>2. Reached(rows, n, slot[n].gen) /\ slot[n].gen \in Generation
    BY <1>1, SlotFields DEF Aged, Types
  <2>3. QED BY <1>1, <2>1, <2>2, ConsumedStays
<1>2. CASE Idle
  <2>1. SlotStays(n) /\ ran' = ran /\ (pc' = "start" => cur' = cur) /\ StopGoesOn
    BY <1>2 DEF Idle
  <2>2. pc = "start" => cur.name # n
    BY <2>1 DEF StopGoesOn
  <2>3. QED BY <1>1, <2>1, <2>2 DEF SlotStays
<1>3. CASE OthersWrite
  BY <1>1, <1>3 DEF OthersWrite
<1>4. CASE Forgets
  BY <1>4 DEF Forgets
<1>5. CASE (\E m \in Name, g \in Generation : Retries(m, g)) \/ Ends
  BY <1>1, <1>5 DEF Retries, Ends, EndIsTried
<1>6. CASE Lists
  BY <1>1, <1>6 DEF Lists
<1>7. CASE Merges
  <2>1. ran' = ran /\ pc = "merge"
    BY <1>7 DEF Merges
  <2>2. CASE slot[n] # None /\ slot'[n] = slot[n]
    BY <1>1, <2>1, <2>2
  <2>3. ~Built(n)
    <3>1. Built(n) => slot'[n].next \in Occ[n]
      BY <2>1 DEF Built, Fresh, StartIsFresh, Beyond
    <3>2. QED BY <3>1, OccIsTime, NullAssumption
  <2>4. QED BY <1>7, <2>2, <2>3 DEF Merges
<1>8. CASE Drops \/ Records
  <2>1. slot'[n] = slot[n] /\ ran' = ran /\ pc = "complete"
    BY <1>8 DEF Drops, Records, Completes
  <2>2. QED BY <1>1, <2>1
<1>9. CASE Starts
  <2>1. slot[n] # None /\ slot'[n].gen = slot[n].gen /\ slot[n].next = None /\ pc = "start"
    BY <1>9 DEF Starts, StartKeeps, StartEnds
  <2>2. CASE n # cur.name
    <3>1. ran'[n] = ran[n]
      BY <1>9, <2>2 DEF Starts
    <3>2. QED BY <1>1, <2>1, <2>2, <3>1
  <2>3. CASE n = cur.name
    <3>1. StartKeeps
      BY <1>9, <2>3 DEF Starts, StartEnds
    <3>2. StartHandles /\ slot[n].gen = cur.gen
      BY <1>9, <2>1, <2>3, <3>1 DEF Starts, Attended
    <3>3. QED BY <1>9, <2>1, <2>3, <3>2, LastTick
  <2>4. QED BY <2>2, <2>3
<1>10. CASE \E m \in Name : Persists(m)
  <2>1. PICK m \in Name : Persists(m)
    BY <1>10
  <2>2. ran' = ran /\ pc = "launch"
    BY <2>1 DEF Persists
  <2>3. CASE n # m
    BY <1>1, <2>1, <2>2, <2>3 DEF Persists
  <2>4. n # m
    BY <2>1 DEF Persists, Selects
  <2>5. QED BY <2>3, <2>4
<1>11. QED BY <1>2, <1>3, <1>4, <1>5, <1>6, <1>7, <1>8, <1>9, <1>10 DEF Step

\* A launch once refused stays refused, and so does the end it leads to.
LEMMA TurnedAwayStays ==
  ASSUME Types, Attended, Down, StopOrder, Step, NEW n \in Name, NEW g \in Generation,
         <<n, g>> \in exhausted, exhausted' # {}, TurnedAway(n, g)
  PROVE  TurnedAway(n, g)'
<1>1. Cooperative /\ budget /\ stopped
  BY DEF TurnedAway, StopOrder
<1>2. Ending(n, g) => ~stopping /\ back = "launch" /\ pc = "end"
  BY DEF TurnedAway, Ending
<1>3. ~Ending(n, g) => AfterStop
  BY DEF TurnedAway
<1>4. ASSUME budget', AfterStop', ~Ending(n, g)'
      PROVE  TurnedAway(n, g)'
  BY <1>1, <1>4 DEF TurnedAway
<1>5. CASE Idle
  <2>1. StopGoesOn /\ (pc' = "end" => pc = "end" /\ cur' = cur /\ back' = back)
    BY <1>5 DEF Idle
  <2>2. budget'
    BY <1>1, <2>1 DEF StopGoesOn
  <2>3. CASE Ending(n, g)
    <3>1. pc' = "end" /\ stopping' = stopping
      BY <1>2, <2>1, <2>3 DEF StopGoesOn
    <3>2. Ending(n, g)' /\ back' = back
      BY <2>1, <2>3, <3>1 DEF Ending
    <3>3. QED BY <1>1, <1>2, <2>2, <2>3, <3>1, <3>2 DEF TurnedAway
  <2>4. CASE ~Ending(n, g)
    <3>1. AfterStop'
      BY <1>1, <1>3, <2>1, <2>4 DEF StopGoesOn
    <3>2. ~Ending(n, g)'
      BY <2>1, <2>4 DEF Ending
    <3>3. QED BY <1>4, <2>2, <3>1, <3>2
  <2>5. QED BY <2>3, <2>4
<1>6. CASE OthersWrite
  BY <1>6 DEF OthersWrite, TurnedAway, Ending, AfterStop
<1>7. CASE Forgets
  BY <1>7 DEF Forgets
<1>8. CASE Ends
  <2>1. pc = "end" /\ pc' = back /\ budget' = budget
    BY <1>8 DEF Ends, EndIsTried
  <2>2. back \in {"launch", "drain"}
    BY <1>2, <1>3, <2>1 DEF AfterStop
  <2>3. QED BY <1>1, <1>4, <2>1, <2>2 DEF AfterStop, Ending
<1>9. CASE (\E m \in Name, h \in Generation : Retries(m, h)) \/ Lists \/ Merges \/ Starts
  <2>1. pc \in {"retry", "list", "merge", "start"}
    BY <1>9 DEF Retries, Lists, Merges, Starts
  <2>2. QED BY <1>3, <2>1 DEF AfterStop, Ending
<1>10. CASE Drops \/ Records
  <2>1. pc = "complete" /\ budget' = budget
    BY <1>10 DEF Drops, Records, Completes
  <2>2. back = "drain" /\ ~Ending(n, g)
    BY <1>3, <2>1 DEF AfterStop, Ending
  <2>3. CASE pc' = back
    BY <1>1, <1>4, <2>1, <2>2, <2>3 DEF AfterStop, Ending
  <2>4. CASE pc' = "end" /\ cur' = cur /\ back' = back
    <3>1. n # cur.name \/ g # cur.gen
      BY <2>1, SlotIsLater DEF Attended
    <3>2. ~Ending(n, g)'
      BY <2>4, <3>1 DEF Ending
    <3>3. QED BY <1>1, <1>4, <2>1, <2>2, <2>4, <3>2 DEF AfterStop
  <2>5. QED BY <1>10, <2>3, <2>4 DEF Drops, Records
<1>11. CASE \E m \in Name : Persists(m)
  BY <1>1, <1>11 DEF Persists
<1>12. QED BY <1>5, <1>6, <1>7, <1>8, <1>9, <1>10, <1>11 DEF Step

LEMMA EarnedKept ==
  ASSUME Types, DataTypes', Aged, Attended, Down, Fresh, StopOrder, Earned, Step,
         Cooperative \/ "control" \notin Stops
  PROVE  Earned'
<1>1. ASSUME NEW n \in Name, NEW g \in Generation, <<n, g>> \in exhausted'
      PROVE  Consumed(rows', ran'[n], n, g) \/ TurnedAway(n, g)'
  <2>1. CASE <<n, g>> \in exhausted
    <3>1. TurnedAway(n, g) => TurnedAway(n, g)'
      BY <1>1, <2>1, TurnedAwayStays
    <3>2. ASSUME Consumed(rows, ran[n], n, g)
          PROVE  Consumed(rows', ran'[n], n, g)
      <4>1. CASE ran'[n] = ran[n]
        BY <2>1, <3>2, <4>1, ConsumedStays DEF Aged
      <4>2. CASE Starts /\ n = cur.name
        <5>1. g < rows[n].generation /\ rows' = rows
          BY <2>1, <4>2, ExhaustedIsOlder DEF Starts
        <5>2. QED BY <5>1 DEF Consumed
      <4>3. QED BY <4>1, <4>2, RanFrom
    <3>3. QED BY <2>1, <3>1, <3>2 DEF Earned
  <2>2. CASE Records /\ n = cur.name /\ g = cur.gen /\ (slot[n] # None => slot[n].next = None)
    <3>1. pc = "complete" /\ ran' = ran
      BY <2>2 DEF Records, Completes
    <3>2. slot[n] # None /\ slot[n].gen = g /\ slot[n].next = None
      BY <2>2, <3>1 DEF Attended
    <3>3. Consumed(rows, ran[n], n, g) /\ Reached(rows, n, g)
      BY <3>1, <3>2 DEF Earned, Aged
    <3>4. QED BY <3>1, <3>3, ConsumedStays
  <2>3. CASE Starts /\ n = cur.name /\ g = cur.gen /\ (slot[n] # None => slot[n].next = None) /\ Ending(n, g)'
    <3>1. CASE StartHandles
      BY <2>3, <3>1, LastTick DEF Starts
    <3>2. CASE ~StartHandles
      <4>1. budget /\ budget' = budget /\ stopping' = stopping /\ pc = "start"
        BY <2>3, <3>2 DEF Starts
      <4>2. Cooperative /\ ~stopping
        BY <4>1 DEF StopOrder
      <4>3. back' = "launch"
        BY <2>3 DEF Starts, StartKeeps, StartEnds, Ending
      <4>4. QED BY <2>3, <4>1, <4>2, <4>3 DEF TurnedAway
    <3>3. QED BY <3>1, <3>2
  <2>4. QED BY <1>1, <2>1, <2>2, <2>3, ExhaustedFrom
<1>2. QED BY <1>1, EarnedSlots DEF Earned

-----------------------------------------------------------------------------
(* The theorems                                                            *)

IInv == Types /\ StopOrder /\ Aged /\ Attended /\ Down /\ Fresh /\ Kept /\ Uncertain

LEMMA InitRows ==
  ASSUME Init
  PROVE  /\ rows \in Table
         /\ \A n \in Name : rows[n].next \in Occ[n]
<1> DEFINE row(n) == [generation |-> 1, enabled |-> TRUE, next |-> NextRun(n, 0), last |-> None,
                      ended |-> FALSE]
<1>1. ASSUME NEW n \in Name
      PROVE  NextRun(n, 0) \in Occ[n] /\ NextRun(n, 0) \in Instant
  <2>1. PICK o : o \in Occ[n]
    BY OccAssumption
  <2>2. o > 0
    BY <2>1, OccIsTime
  <2>3. NextRun(n, 0) # None
    BY <2>1, <2>2, NextRunOK
  <2>4. QED BY <2>3, NextRunOK
<1>2. ASSUME NEW n \in Name
      PROVE  row(n) \in Row /\ row(n).next \in Occ[n]
  <2> DEFINE next == NextRun(n, 0)
  <2>1. next \in Instant /\ next \in Occ[n]
    BY <1>1
  <2>2. 1 \in Generation
    BY GenerationAssumption DEF Generation
  <2> HIDE DEF next
  <2>3. ASSUME NEW enabled \in BOOLEAN, NEW ended \in BOOLEAN
        PROVE  [generation |-> 1, enabled |-> enabled, next |-> next, last |-> None, ended |-> ended] \in Row
    BY <2>1, <2>2 DEF Row, RowSet
  <2>4. row(n) \in Row
    BY <2>3 DEF next
  <2>5. QED BY <2>1, <2>4 DEF next
<1>3. rows = [n \in Name |-> row(n)]
  BY DEF Init
<1> HIDE DEF row
<1>4. rows \in Table
  BY <1>2, <1>3 DEF Table
<1>5. QED BY <1>2, <1>3, <1>4

LEMMA InitHolds ==
  ASSUME Init
  PROVE  IInv /\ Earned
<1>1. /\ changes = 0 /\ pc = "top" /\ todo = {} /\ cur = None /\ back = None /\ snap = None /\ at = 0
      /\ slot = [n \in Name |-> None] /\ pendingEnds = {} /\ exhausted = {}
      /\ ran = [n \in Name |-> None] /\ stopping = FALSE /\ budget = FALSE
  BY DEF Init
<1>2. DataTypes
  BY <1>1, InitRows DEF DataTypes
<1>3. ControlTypes
  BY <1>1, PeriodAssumption DEF ControlTypes, Places, Instant
<1>4. TimeTypes
  <2>1. /\ now \in Instant /\ horizon \in Instant /\ changes \in Nat /\ failures \in Nat /\ restarts \in Nat
        /\ poll \in Timer(Poll) /\ grace \in Timer(Grace) /\ cleanup \in Timer(Grace)
        /\ retry \in Waits /\ write \in Waits
    <3>1. /\ now = 0 /\ horizon \in Horizons /\ changes = 0 /\ failures = 0 /\ restarts = 0
          /\ poll = None /\ grace = None /\ cleanup = None /\ retry = None /\ write = None
      BY DEF Init
    <3>2. QED BY <3>1, PeriodAssumption DEF Instant, Timer, Waits
  <2>2. /\ signalled \in BOOLEAN /\ stopped \in BOOLEAN /\ budget \in BOOLEAN
        /\ stopping \in BOOLEAN /\ quarantined \in BOOLEAN /\ reloadWanted \in BOOLEAN
    BY DEF Init
  <2>3. QED BY <2>1, <2>2 DEF TimeTypes
<1>5. StopOrder
  BY <1>1 DEF StopOrder
<1>6. Aged /\ Attended /\ Kept /\ Uncertain
  BY <1>1 DEF Aged, Attended, Kept, Uncertain
<1>7. Down
  BY <1>1 DEF Down, Waiting
<1>8. Fresh
  BY <1>1, InitRows DEF Fresh, StartIsFresh, Beyond
<1>9. Earned
  BY <1>1 DEF Earned
<1>10. QED BY <1>2, <1>3, <1>4, <1>5, <1>6, <1>7, <1>8, <1>9 DEF IInv, Types

LEMMA IInvKept ==
  ASSUME IInv, [Next]_vars
  PROVE  IInv' /\ Step
<1>1. Types'
  BY DataTypesKept, ControlTypesKept, TimeTypesKept DEF IInv, Types
<1>2. Step
  BY StepHolds DEF IInv
<1>3. StopOrder' /\ Attended' /\ Uncertain'
  BY <1>2, StopOrderKept, AttendedKept, UncertainKept DEF IInv
<1>4. Aged' /\ Down' /\ Kept'
  BY <1>1, <1>2, AgedKept, DownKept, KeptKept DEF IInv
<1>5. Fresh'
  BY <1>1, <1>2, FreshKept DEF IInv, Types
<1>6. QED BY <1>1, <1>2, <1>3, <1>4, <1>5 DEF IInv

\* The inductive invariant holds: what the worker remembers of a schedule (slot,
\* pending end, history) never runs ahead of the table.
THEOREM IInvHolds == Spec => []IInv
<1>1. Init => IInv
  BY InitHolds
<1>2. IInv /\ [Next]_vars => IInv'
  BY IInvKept
<1>3. QED BY <1>1, <1>2, PTL DEF Spec

\* Every variable of the worker has its type, and the loops and the store calls
\* find the schedule, the rows and the timers they read.
THEOREM TypeCorrect == Spec => []TypeOK
<1>1. Types => TypeOK
  <2> SUFFICES ASSUME Types PROVE TypeOK
    OBVIOUS
  <2>1. cur \in Handled \cup Selected \cup {None}
    BY DEF Types, ControlTypes, Places
  <2>2. (cur # None) <=> pc \in {"complete", "end", "start"}
    BY NullAssumption DEF Types, ControlTypes
  <2>3. {signalled, stopped, budget, stopping, quarantined, reloadWanted} \subseteq BOOLEAN
    BY Zenon DEF Types, TimeTypes
  <2>4. {now, horizon, at} \subseteq Instant /\ {changes, failures, restarts} \subseteq Nat
    BY DEF Types, TimeTypes, ControlTypes
  <2>5. poll \in Timer(Poll) /\ {grace, cleanup} \subseteq Timer(Grace)
        /\ {retry, write} \subseteq Delays \cup {0, None} \cup UNION {0 .. d : d \in Delays}
    BY DEF Types, TimeTypes, Waits
  <2>6. QED BY <2>1, <2>2, <2>3, <2>4, <2>5 DEF TypeOK, Types, DataTypes, ControlTypes, Places
<1>2. IInv => TypeOK
  BY <1>1 DEF IInv
<1>3. QED BY <1>2, IInvHolds, PTL

\* end_exhausted's promise: no slot, and so no run, of a schedule this worker saw
\* exhausted, whatever becomes of its ending write.
THEOREM StaysDown == Spec => []ExhaustedStaysDown
<1>1. Types /\ Down => ExhaustedStaysDown
  <2> SUFFICES ASSUME Types, Down, NEW n \in Name, slot[n] # None, <<n, slot[n].gen>> \in exhausted
               PROVE  FALSE
    BY DEF ExhaustedStaysDown
  <2>1. slot[n].gen \in Generation
    BY SlotFields DEF Types
  <2>2. QED BY <2>1, SlotIsLater
<1>2. IInv => ExhaustedStaysDown
  BY <1>1 DEF IInv
<1>3. QED BY <1>2, IInvHolds, PTL

\* Only launch_selected launches, the schedule it selected, and not after a stop
\* has set the budget.
LEMMA LaunchIsStart ==
  ASSUME Types, Attended, Step, NEW n \in Name, Launched(n)
  PROVE  /\ Starts /\ n = cur.name /\ ~budget
         /\ slot'[n].run.occ = cur.occ /\ slot'[n].next = slot[n].next
         /\ slot[n].gen = cur.gen
<1>1. slot'[n] # None /\ slot'[n].run # None /\ ~(slot[n] # None /\ slot[n].run # None)
  BY DEF Launched, Running
<1>2. slot'[n] # slot[n]
  BY <1>1
<1>3. CASE Idle
  BY <1>1, <1>3 DEF Idle, SlotStays
<1>4. CASE OthersWrite \/ Forgets \/ Lists
  BY <1>1, <1>2, <1>4 DEF OthersWrite, Forgets, Lists
<1>5. CASE (\E m \in Name, g \in Generation : Retries(m, g)) \/ Ends
  BY <1>2, <1>5 DEF Retries, Ends, EndIsTried
<1>6. CASE Merges
  <2>1. ~Built(n)
    BY <1>1 DEF Built
  <2>2. QED BY <1>1, <1>2, <1>6, <2>1 DEF Merges
<1>7. CASE Drops \/ Records
  BY <1>1, <1>2, <1>7 DEF Drops, Records, Completes
<1>8. CASE Starts
  <2>1. n = cur.name /\ StartKeeps
    BY <1>1, <1>2, <1>8 DEF Starts, StartEnds
  <2>2. slot[n] # None /\ slot[n].gen = cur.gen
    BY <1>8, <2>1 DEF Starts, Attended
  <2>3. QED BY <1>1, <1>8, <2>1, <2>2 DEF StartKeeps
<1>9. CASE \E m \in Name : Persists(m)
  BY <1>1, <1>2, <1>9 DEF Persists
<1>10. QED BY <1>3, <1>4, <1>5, <1>6, <1>7, <1>8, <1>9 DEF Step

\* A confirmed advance is final: no occurrence up to one whose successor the store
\* has accepted is launched later, through reloads, failures, crashes and restarts.
THEOREM NeverReplayed == Spec => NoReplay
<1>1. ASSUME IInv, Step
      PROVE  \A n \in Name : Launched(n) /\ HandledBy(n, slot[n].gen)
               => slot'[n].run.occ > ran[n].saved
  <2> SUFFICES ASSUME NEW n \in Name, Launched(n), HandledBy(n, slot[n].gen)
               PROVE  slot'[n].run.occ > ran[n].saved
    OBVIOUS
  <2>1. Starts /\ n = cur.name /\ slot'[n].run.occ = cur.occ /\ slot[n].gen = cur.gen
    BY <1>1, LaunchIsStart DEF IInv
  <2>2. Beyond(ran[n], n, cur.gen, cur.occ)
    BY <1>1, <2>1 DEF IInv, Fresh, StartIsFresh, Starts
  <2>3. QED BY <2>1, <2>2 DEF Beyond, HandledBy
<1>2. IInv /\ [Next]_vars => [\A n \in Name : Launched(n) /\ HandledBy(n, slot[n].gen)
                                => slot'[n].run.occ > ran[n].saved]_vars
  BY <1>1, IInvKept
<1>3. QED BY <1>2, IInvHolds, PTL DEF Spec, NoReplay

\* Once a write's effect is unknown, only a last occurrence is launched, whose
\* launch needs no write.
THEOREM UncertaintyHolds == Spec => UncertainAuthorizesNothing
<1>1. ASSUME IInv, Step
      PROVE  \A n \in Name : Launched(n) /\ quarantined => slot'[n].next = None
  <2> SUFFICES ASSUME NEW n \in Name, Launched(n), quarantined
               PROVE  slot'[n].next = None
    OBVIOUS
  <2>1. pc = "start" /\ n = cur.name /\ ~budget /\ slot'[n].next = slot[n].next
    BY <1>1, LaunchIsStart DEF IInv, Starts
  <2>2. QED BY <1>1, <2>1 DEF IInv, Uncertain
<1>2. IInv /\ [Next]_vars => [\A n \in Name : Launched(n) /\ quarantined => slot'[n].next = None]_vars
  BY <1>1, IInvKept
<1>3. QED BY <1>2, IInvHolds, PTL DEF Spec, UncertainAuthorizesNothing

\* While nobody else writes, a run in flight is only ever taken from its slot by
\* `complete`, discarded at the shutdown deadline or lost in a crash.
THEOREM RunsAreCompleted == Spec => RunIsCompleted
<1> DEFINE Goes(n) == Running(n) /\ changes = 0 /\ (slot'[n] = None \/ slot'[n].run = None)
           Accounts(n) == \/ pc' = "complete" /\ cur'.name = n
                          \/ pc' = "down" \/ grace = 0
<1>1. ASSUME IInv, Step, NEW n \in Name, Goes(n)
      PROVE  Accounts(n)
  <2>1. slot[n] # None /\ slot[n].run # None /\ slot'[n] # slot[n] /\ changes = 0
        /\ (slot'[n] = None \/ slot'[n].run = None)
    BY <1>1 DEF Running
  <2>2. CASE Idle
    BY <1>1, <2>1, <2>2 DEF Idle, SlotStays
  <2>3. CASE OthersWrite \/ Lists
    BY <2>1, <2>3 DEF OthersWrite, Lists
  <2>4. CASE Forgets
    BY <1>1, <2>1, <2>4 DEF Forgets, IInv, Attended
  <2>5. CASE (\E m \in Name, g \in Generation : Retries(m, g)) \/ Ends
    BY <2>1, <2>5 DEF Retries, Ends, EndIsTried
  <2>6. CASE Merges
    <3>1. MatchesEnabled(snap, n, slot[n].gen)
      BY <1>1, <2>1, <2>6 DEF IInv, Kept, Merges
    <3>2. QED BY <2>1, <2>6, <3>1 DEF Merges
  <2>7. CASE Drops \/ Records
    <3>1. pc = "complete" /\ n = cur.name
      BY <2>1, <2>7 DEF Drops, Records, Completes
    <3>2. QED BY <1>1, <2>1, <3>1 DEF IInv, Attended
  <2>8. CASE Starts
    <3>1. n = cur.name
      BY <2>1, <2>8 DEF Starts
    <3>2. QED BY <2>1, <2>8, <3>1 DEF Starts, StartKeeps, StartEnds
  <2>9. CASE \E m \in Name : Persists(m)
    BY <2>1, <2>9 DEF Persists
  <2>10. QED BY <1>1, <2>2, <2>3, <2>4, <2>5, <2>6, <2>7, <2>8, <2>9 DEF Step
<1>2. IInv /\ [Next]_vars => [\A n \in Name : Goes(n) => Accounts(n)]_vars
  BY <1>1, IInvKept
<1>3. QED BY <1>2, IInvHolds, PTL DEF Spec, RunIsCompleted

\* No schedule is ended whose last tick was neither launched nor passed over, if
\* what sets the shutdown budget also scopes the worker's store calls.  (A plain
\* worker under a stop control does end one: its call is not refused.)
THEOREM EndsAfterLastRun ==
  ASSUME Cooperative \/ "control" \notin Stops
  PROVE  Spec => EndedAfterLastRun
<1> DEFINE Ended(n) == pc \in {"end", "retry"} /\ changes' = changes /\ IsActive(rows, n) /\ ~IsActive(rows', n)
           IsHandled(n) == HandledBy(n, rows[n].generation) /\ NextRun(n, ran[n].upto) = None
<1>1. Init => IInv /\ Earned
  BY InitHolds
<1>2. IInv /\ Earned /\ [Next]_vars => (IInv /\ Earned)'
  BY IInvKept, EarnedKept DEF IInv, Types
<1>3. ASSUME IInv, Earned, Step, NEW n \in Name, Ended(n)
      PROVE  IsHandled(n)
  <2>1. rows'[n] # rows[n] /\ rows[n] # NoRow /\ rows' # rows /\ changes' = changes /\ pc \in {"end", "retry"}
    BY <1>3 DEF IsActive
  <2>2. ASSUME NEW g \in Generation, EndIsTried(n, g), <<n, g>> \in exhausted, ~TurnedAway(n, g)
        PROVE  IsHandled(n)
    <3>1. Matches(rows, n, g)
      BY <2>1, <2>2 DEF EndIsTried
    <3>2. Consumed(rows, ran[n], n, g)
      BY <1>3, <2>2 DEF Earned
    <3>3. rows[n].generation = g /\ g \in Nat
      BY <3>1 DEF Matches, Generation
    <3>4. QED BY <3>2, <3>3 DEF Consumed, HandledBy
  <2>3. CASE \E m \in Name, g \in Generation : Retries(m, g)
    <3>1. PICK m \in Name, g \in Generation : Retries(m, g)
      BY <2>3
    <3>2. m = n /\ EndIsTried(n, g) /\ pc = "retry" /\ <<n, g>> \in exhausted
      BY <1>3, <2>1, <3>1 DEF Retries, EndIsTried, SameBut, IInv, Down
    <3>3. ~TurnedAway(n, g)
      BY <3>2 DEF TurnedAway, Ending, AfterStop
    <3>4. QED BY <2>2, <3>2, <3>3
  <2>4. CASE Ends
    <3>1. pc = "end" /\ EndIsTried(cur.name, cur.gen) /\ cur.name = n /\ cur.gen \in Generation
      BY <2>1, <2>4 DEF Ends, EndIsTried, SameBut
    <3>2. <<n, cur.gen>> \in exhausted
      BY <1>3, <3>1 DEF IInv, Attended
    <3>3. ~Refused
      BY <2>1, <3>1 DEF EndIsTried
    <3>4. ~TurnedAway(n, cur.gen)
      BY <3>1, <3>3 DEF TurnedAway, Ending, Refused
    <3>5. QED BY <2>2, <3>1, <3>2, <3>4
  <2>5. CASE OthersWrite
    <3>1. changes \in Nat
      BY <1>3 DEF IInv, Types, TimeTypes
    <3>2. QED BY <2>1, <2>5, <3>1 DEF OthersWrite
  <2>6. CASE Idle \/ Forgets \/ Lists \/ Merges \/ Starts
    BY <2>1, <2>6 DEF Idle, Forgets, Lists, Merges, Starts
  <2>7. CASE Drops \/ Records
    BY <2>1, <2>7 DEF Drops, Records, Completes
  <2>8. CASE \E m \in Name : Persists(m)
    BY <2>1, <2>8 DEF Persists
  <2>9. QED BY <1>3, <2>3, <2>4, <2>5, <2>6, <2>7, <2>8 DEF Step
<1>4. IInv /\ Earned /\ [Next]_vars => [\A n \in Name : Ended(n) => IsHandled(n)]_vars
  BY <1>3, IInvKept
<1>5. QED BY <1>1, <1>2, <1>4, PTL DEF Spec, EndedAfterLastRun
=============================================================================
