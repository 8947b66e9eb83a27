------------------------------- MODULE DuePass -------------------------------
(***************************************************************************)
(* Scheduler::run_due (crates/sc-cron/src/scheduler/run_due.rs): a caller  *)
(* with a timer of its own runs what is due now, once, and waits.          *)
(*                                                                         *)
(* A call lists the rows, reads the clock, and takes the due rows in order:*)
(* it stores the row's next run, then starts its hook.  Then it awaits the *)
(* runs in the same order and records each.  Its future may be dropped at  *)
(* any await: Rust and Python runs are aborted, a Monty feed goes on and   *)
(* records itself, and a write already handed to the blocking pool is      *)
(* still made.  Calls of one process share the marks of Monty names        *)
(* (coord.rs); the process may die.  Store calls are not scoped here.      *)
(***************************************************************************)
EXTENDS ScheduleRows, Sequences

CONSTANTS
  Occ,          \* for each name, the finite set of instants its expression names
  Order,        \* the names in the order of list_active (creation)
  Monty,        \* the names with a Monty hook
  MaxTime,      \* the last instant
  MaxCalls,     \* bound: calls of run_due
  MaxEvents     \* bound: drops, deaths, panics, failed store calls, writes by others

ASSUME DueAssumption ==
  /\ Occ \in [Name -> (SUBSET (1 .. MaxTime)) \ {{}}]
  /\ Monty \subseteq Name
  /\ Order \in Seq(Name) /\ {Order[i] : i \in DOMAIN Order} = Name
  /\ {MaxTime, MaxCalls} \subseteq Nat \ {0}
  /\ MaxEvents \in Nat

VARIABLES
  rows,        \* the table; `last` is when a run was recorded, and if as refused
  now,         \* the clock
  call,        \* call -> where its future is
  run,         \* call -> name -> the run it started, or NoRun
  late,        \* call -> a write that outlives its dropped future, or NoWrite
  names,       \* RunCoord::names: marks of Monty names in flight
  overlapped,  \* history: a call began while another, or a write of one, went on
  spent        \* events so far

vars == <<rows, now, call, run, late, names, overlapped, spent>>

Instant == 0 .. MaxTime
Call == 1 .. MaxCalls

\* ExprSchedule::next_run: the first occurrence after t, or None.
NextRun(n, t) ==
  LET later == {o \in Occ[n] : o > t}
  IN  IF later = {} THEN None ELSE CHOOSE o \in later : \A p \in later : o <= p

Outcome == [at : Instant, refused : BOOLEAN]

ASSUME NullAssumption == None \notin (1 .. MaxTime) \cup Outcome

DueRow == RowSet(1 .. MaxTime, Outcome)

ASSUME NoRowAssumption == NoRow \notin DueRow

NoRun == [state |-> "none", marked |-> FALSE]
Run == [generation : Generation, occurrence : 1 .. MaxTime, next : (1 .. MaxTime) \cup {None},
        advance : {"yes", "no", "failed", "none"},   \* what storing the next run answered
        state : {"running", "panicked", "stamped", "noted", "written", "done", "lost"},
        report : {"ran", "disable", "delete"}, at : Instant,
        recorded : BOOLEAN, marked : BOOLEAN]  \* marked: holds the name's mark

\* stop when t is None, else set_next.
NoWrite == << >>
Write == {NoWrite} \cup (Name \X Generation \X ((1 .. MaxTime) \cup {None}))

Where == {"new", "listed", "launching", "claimed", "collecting", "ended"}
Listed == [name : Name, row : DueRow]

TypeOK ==
  /\ rows \in [Name -> DueRow]
  /\ now \in Instant
  /\ call \in [Call -> [at : Where, todo : SUBSET Listed, clock : Instant]]
  /\ run \in [Call -> [Name -> {NoRun} \cup Run]]
  /\ late \in [Call -> Write]
  /\ names \subseteq Monty
  /\ overlapped \in BOOLEAN
  /\ spent \in 0 .. MaxEvents

Event == spent < MaxEvents /\ spent' = spent + 1

Future(where, todo, clock) == [at |-> where, todo |-> todo, clock |-> clock]

Init ==
  /\ rows = [n \in Name |-> [generation |-> 1, enabled |-> TRUE, next |-> NextRun(n, 0),
                             last |-> None, ended |-> FALSE]]
  /\ now = 1
  /\ call = [k \in Call |-> Future("new", {}, 0)]
  /\ run = [k \in Call |-> [n \in Name |-> NoRun]]
  /\ late = [k \in Call |-> NoWrite]
  /\ names = {}
  /\ overlapped = FALSE
  /\ spent = 0

At(k, where) == call[k].at = where
Ends(k) == call' = [call EXCEPT ![k] = Future("ended", {}, 0)]
Goes(k, where) == call' = [call EXCEPT ![k] = Future(where, @.todo, @.clock)]
Over(k, n) == run[k][n].state \in {"none", "done", "lost"}
Alive(k) == call[k].at \notin {"new", "ended"}

\* A store call answers "yes" or "no" (fenced), or fails and has changed nothing.
Answered(written, matched, answer) ==
  \/ /\ rows' = written
     /\ answer = IF matched THEN "yes" ELSE "no"
     /\ UNCHANGED spent
  \/ /\ answer = "failed"
     /\ Event
     /\ UNCHANGED rows

-----------------------------------------------------------------------------
(* drive: the list, the clock, and which rows are due                      *)

\* A dropped call has left a write or a Monty feed behind.
Trailing(k) ==
  ~Alive(k) /\ (late[k] # NoWrite \/ \E n \in Name : ~Over(k, n))

\* list_active.  (Where it fails the call ends, as one dropped right after it.)
List(k) ==
  /\ At(k, "new") /\ \A j \in Call : j < k => ~At(j, "new")
  /\ LET list == {[name |-> n, row |-> rows[n]] : n \in ActiveNames(rows)}
     IN  call' = [call EXCEPT ![k] = Future("listed", list, 0)]
  /\ overlapped' = (overlapped \/ \E j \in Call : Alive(j) \/ Trailing(j))
  /\ UNCHANGED <<rows, now, run, late, names, spent>>

\* (The mutant takes a run recorded at its own instant for one before it.)
ConsumedBefore(r) ==
  /\ r.row.last # None /\ r.row.next < r.row.last.at
  /\ NextRun(r.name, r.row.last.at) = None

\* consumed_last_occurrence: the stored next run is not after the last record, and
\* the expression has nothing after that record.
ConsumedLast(r) ==
  /\ r.row.last # None /\ r.row.next <= r.row.last.at
  /\ NextRun(r.name, r.row.last.at) = None

\* (The mutant forgets the stop check's disable.)
LeftNever(r) == FALSE

\* A re-enabled stop-check disable of a consumed row is left as it is.
Left(r) == ConsumedLast(r) /\ r.row.last.refused

\* The rows launch_row goes on with.
Due(r, t) == r.row.enabled /\ r.row.next <= t /\ ~Left(r)

ReadClock(k) ==
  /\ At(k, "listed")
  /\ LET due == {r \in call[k].todo : Due(r, now)}
     IN  call' = [call EXCEPT ![k] = Future("launching", due, now)]
  /\ UNCHANGED <<rows, now, run, late, names, overlapped, spent>>

-----------------------------------------------------------------------------
(* launch_row                                                              *)

\* ORDER BY: where the name's row stands in the list.
Position(n) == CHOOSE i \in DOMAIN Order : Order[i] = n

First(k) ==
  CHOOSE r \in call[k].todo : \A q \in call[k].todo : Position(r.name) <= Position(q.name)
Passes(k) == call' = [call EXCEPT ![k] = Future("launching", @.todo \ {First(k)}, @.clock)]
Launching(k) == At(k, "launching") /\ call[k].todo # {}

\* end_recorded_final: the record committed, its stop did not.
EndFinal(k) ==
  /\ Launching(k) /\ ConsumedLast(First(k))
  /\ LET n == First(k).name
         g == First(k).row.generation
     IN  \E answer \in {"yes", "no", "failed"} :
           Answered(Stop(rows, n, g), Matches(rows, n, g), answer)
  /\ Passes(k)
  /\ UNCHANGED <<now, run, late, names, overlapped>>

\* (The mutant looks at the marks and sets none.)
MarksNothing(n) == names

\* NameInFlightGuard::try_insert.
Marks(n) == IF n \in Monty THEN names \cup {n} ELSE names

\* A Monty name in flight is passed over; another is marked until its run ends.
Claim(k) ==
  /\ Launching(k) /\ ~ConsumedLast(First(k))
  /\ IF First(k).name \in names
     THEN Passes(k) /\ UNCHANGED names
     ELSE Goes(k, "claimed") /\ names' = Marks(First(k).name)
  /\ UNCHANGED <<rows, now, run, late, overlapped, spent>>

Unmarked(n) == IF n \in Monty THEN names \ {n} ELSE names

\* (The mutant launches a fenced row as well.)
GoesOnAnyway(answer) == TRUE

\* Only a fenced row is not launched: a failed write does not cost the run.
GoesOn(answer) == answer # "no"

\* store_next_before_launch and the spawn.
Launch(k) ==
  /\ At(k, "claimed")
  /\ LET r == First(k)
         g == r.row.generation
         next == NextRun(r.name, call[k].clock)
     IN  \E answer \in {"yes", "no", "failed", "none"} :
           /\ IF next = None
              THEN answer = "none" /\ UNCHANGED <<rows, spent>>
              ELSE Answered(SetNext(rows, r.name, g, next), MatchesEnabled(rows, r.name, g), answer)
           /\ IF GoesOn(answer)
              THEN /\ run' = [run EXCEPT ![k][r.name] =
                         [generation |-> g, occurrence |-> r.row.next, next |-> next,
                          advance |-> answer, state |-> "running", report |-> "ran", at |-> 0,
                          recorded |-> FALSE, marked |-> r.name \in Monty]]
                   /\ UNCHANGED names
              ELSE run' = run /\ names' = Unmarked(r.name)
  /\ Passes(k)
  /\ UNCHANGED <<now, late, overlapped>>

-----------------------------------------------------------------------------
(* The runs, and collect_runs                                              *)

\* The hook returns, panics or is timed out by its own deadline: a stop check may have said
\* disable or delete.  record_due reads the clock and hands the write to the pool.
Reports(k, n) ==
  /\ run[k][n].state = "running"
  /\ \E report \in {"ran", "disable", "delete"} :
       run' = [run EXCEPT ![k][n] =
                  [@ EXCEPT !.state = "stamped", !.report = report, !.at = now]]

\* The first of its runs that the call still has to await.
Settled(k, n) == run[k][n].state \in {"none", "done"}
Awaited(k, n) ==
  /\ call[k].at = "collecting" /\ ~Settled(k, n)
  /\ \A i, j \in DOMAIN Order : Order[i] = n /\ j < i => Settled(k, Order[j])

\* The call joins a Rust or Python run and records it; a Monty task records itself.
Finish(k, n) ==
  /\ (n \in Monty \/ Awaited(k, n))
  /\ Reports(k, n)
  /\ UNCHANGED <<rows, now, call, late, names, overlapped, spent>>

\* The Monty task panics before its record: its guard is dropped, and a call that
\* still awaits it records a failure.
Panic(k, n) ==
  /\ n \in Monty /\ run[k][n].state = "running" /\ Event
  /\ run' = [run EXCEPT ![k][n].state = IF Alive(k) THEN "panicked" ELSE "lost",
                        ![k][n].marked = FALSE]
  /\ names' = Unmarked(n)
  /\ UNCHANGED <<rows, now, call, late, overlapped>>

JoinFailed(k, n) ==
  /\ Awaited(k, n) /\ run[k][n].state = "panicked"
  /\ run' = [run EXCEPT ![k][n].state = "stamped", ![k][n].at = now]
  /\ UNCHANGED <<rows, now, call, late, names, overlapped, spent>>

\* A call goes on from its record; a Monty task still has its mark to drop.
Through(n) == IF n \in Monty THEN "written" ELSE "done"

\* persist_report, one closure on the pool: the report's write ...
Persist(k, n) ==
  /\ run[k][n].state = "stamped"
  /\ LET r == run[k][n]
         g == r.generation
         written == CASE r.report = "ran" -> RecordRun(rows, n, g, [at |-> r.at, refused |-> FALSE])
                      [] r.report = "disable" -> Disable(rows, n, g, [at |-> r.at, refused |-> TRUE])
                      [] r.report = "delete" -> Stop(rows, n, g)
     IN  \E answer \in {"yes", "no", "failed"} :
           /\ Answered(written, Matches(rows, n, g), answer)
           /\ run' = [run EXCEPT ![k][n] = [@ EXCEPT
                !.state = IF r.report = "ran" /\ answer = "yes" THEN "noted" ELSE Through(n),
                !.report = "ran", !.at = 0, !.recorded = answer = "yes"]]
  /\ UNCHANGED <<now, call, late, names, overlapped>>

\* ... and, after the record of a run, the next run or the end, in a transaction of
\* its own.
FollowUp(k, n) ==
  /\ run[k][n].state = "noted"
  /\ LET r == run[k][n]
         g == r.generation
     IN  \E answer \in {"yes", "no", "failed"} :
           IF r.next = None
           THEN Answered(Stop(rows, n, g), Matches(rows, n, g), answer)
           ELSE Answered(SetNext(rows, n, g, r.next), MatchesEnabled(rows, n, g), answer)
  /\ run' = [run EXCEPT ![k][n].state = Through(n)]
  /\ UNCHANGED <<now, call, late, names, overlapped>>

\* The task of a Monty run is over, and its guard is dropped with it.
Release(k, n) ==
  /\ run[k][n].state = "written"
  /\ run' = [run EXCEPT ![k][n].state = "done", ![k][n].marked = FALSE]
  /\ names' = IF run[k][n].marked THEN names \ {n} ELSE names
  /\ UNCHANGED <<rows, now, call, late, overlapped, spent>>

Collects(k) ==
  /\ \/ At(k, "launching") /\ call[k].todo = {} /\ Goes(k, "collecting")
     \/ At(k, "collecting") /\ (\A n \in Name : Settled(k, n)) /\ Ends(k)
  /\ UNCHANGED <<rows, now, run, late, names, overlapped, spent>>

-----------------------------------------------------------------------------
(* What may happen at any time                                             *)

\* The write the call has just handed to the pool, if it has.
Handed(k) ==
  {NoWrite} \cup
  IF Launching(k) /\ ConsumedLast(First(k))
  THEN {<<First(k).name, First(k).row.generation, None>>}
  ELSE IF At(k, "claimed") /\ NextRun(First(k).name, call[k].clock) # None
  THEN {<<First(k).name, First(k).row.generation, NextRun(First(k).name, call[k].clock)>>}
  ELSE {}

Aborted(k, n) == run[k][n].state \in {"panicked"} \cup IF n \in Monty THEN {} ELSE {"running"}

\* The future is dropped with its tasks: not with the Monty feeds, nor with writes.
Drop(k) ==
  /\ Alive(k) /\ Event
  /\ Ends(k)
  /\ late' \in {[late EXCEPT ![k] = w] : w \in Handed(k)}
  /\ run' = [run EXCEPT ![k] = [n \in Name |-> IF Aborted(k, n)
                                            THEN [run[k][n] EXCEPT !.state = "lost"]
                                            ELSE run[k][n]]]
  /\ names' = IF At(k, "claimed") THEN Unmarked(First(k).name) ELSE names
  /\ UNCHANGED <<rows, now, overlapped>>

LateWrite(k) ==
  /\ late[k] # NoWrite
  /\ LET n == late[k][1]
         g == late[k][2]
         t == late[k][3]
     IN  rows' = IF t = None THEN Stop(rows, n, g) ELSE SetNext(rows, n, g, t)
  /\ late' = [late EXCEPT ![k] = NoWrite]
  /\ UNCHANGED <<now, call, run, names, overlapped, spent>>

\* The process dies with everything but the table; a later call is that of the next.
Die ==
  /\ Event
  /\ call' = [k \in Call |-> IF Alive(k) THEN Future("ended", {}, 0) ELSE call[k]]
  /\ run' = [k \in Call |-> [n \in Name |->
       IF Over(k, n) THEN run[k][n] ELSE [run[k][n] EXCEPT !.state = "lost", !.marked = FALSE]]]
  /\ late' = [k \in Call |-> NoWrite]
  /\ names' = {}
  /\ UNCHANGED <<rows, now, overlapped>>

\* Others enable and disable a row, or replace it.
Change ==
  /\ Event
  /\ \E n \in Name :
       /\ IsActive(rows, n)
       /\ \/ rows' = SetFlags(rows, [m \in {n} |-> ~rows[n].enabled])
          \/ /\ GenerationLeft(rows, n) /\ NextRun(n, now) # None
             /\ rows' = Written(rows, n, NextRun(n, now), TRUE)
  /\ UNCHANGED <<now, call, run, late, names, overlapped>>

Tick ==
  /\ now < MaxTime /\ now' = now + 1
  /\ UNCHANGED <<rows, call, run, late, names, overlapped, spent>>

-----------------------------------------------------------------------------
CallStep(k) == ReadClock(k) \/ EndFinal(k) \/ Claim(k) \/ Launch(k) \/ Collects(k)

RunStep(k, n) ==
  Finish(k, n) \/ JoinFailed(k, n) \/ Persist(k, n) \/ FollowUp(k, n) \/ Release(k, n)

Next ==
  \/ \E k \in Call : List(k) \/ CallStep(k) \/ Drop(k) \/ LateWrite(k)
  \/ \E k \in Call, n \in Name : RunStep(k, n) \/ Panic(k, n)
  \/ Die \/ Change \/ Tick

Spec == Init /\ [][Next]_vars

-----------------------------------------------------------------------------
(* Properties                                                              *)

\* "once" of run_due: with one call after another, an occurrence is started a second
\* time only if its next run was not stored before the first start (that write failed,
\* or there is no next run), and the final one only if the first start, too, was not
\* recorded.
SerialRunsOnce ==
  ~overlapped =>
    \A j, k \in Call, n \in Name :
      LET first == run[j][n]
          again == run[k][n]
      IN  /\ j < k /\ first # NoRun /\ again # NoRun
          /\ first.generation = again.generation
          /\ first.occurrence = again.occurrence
          => /\ first.advance \in {"failed", "none"}
             /\ first.next = None => ~first.recorded

\* Call k is about to feed the Monty name n, or a run of it holds the mark.
Takes(k, n) == At(k, "claimed") /\ First(k).name = n
Feeds(k, n) == run[k][n].marked /\ run[k][n].state \in {"running", "stamped", "noted", "written"}

\* However calls, panics, dropped futures and deaths overlap, one scheduler feeds a
\* Monty name once at a time, from before its next run is stored until its outcome is
\* written; and a name is marked only then: a mark left behind would keep the
\* schedule from running for ever.
FeedIsAlone ==
  \A n \in Monty :
    /\ n \in names <=> \E k \in Call : Takes(k, n) \/ Feeds(k, n)
    /\ \A j, k \in Call : Feeds(j, n) => ~Takes(k, n) /\ (j # k => ~Feeds(k, n))
    /\ \A j, k \in Call : Takes(j, n) /\ Takes(k, n) => j = k

\* "A final run whose ending write did not commit is ended on a later call ...; a
\* re-enabled stop-check disable is left as it is": with one call after another a
\* row is ended only by a delete, or with nothing after a record that is not a
\* disable's.
SerialEndsFinal ==
  [][\A n \in Name :
       ~overlapped /\ IsActive(rows, n) /\ ~IsActive(rows', n) =>
         \/ \E k \in Call : run[k][n].state = "stamped" /\ run[k][n].report = "delete"
         \/ /\ rows[n].last # None /\ ~rows[n].last.refused
            /\ NextRun(n, rows[n].last.at) = None]_vars

\* "The stored next run is an occurrence already recorded": a row is ended as
\* exhausted only when a run after which there is nothing was started.  The code does
\* not keep it: a run recorded at or after the row's last occurrence, which is stored
\* by then but has not run, passes for the record of that occurrence.
FinalIsStarted ==
  [][\A n \in Name :
       ~overlapped /\ IsActive(rows, n) /\ ~IsActive(rows', n) =>
         \/ \E k \in Call : run[k][n].state = "stamped" /\ run[k][n].report = "delete"
         \/ \E k \in Call : run[k][n] # NoRun /\ run[k][n].next = None]_vars
=============================================================================
