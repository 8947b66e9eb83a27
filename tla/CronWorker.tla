----------------------------- MODULE CronWorker -----------------------------
(***************************************************************************)
(* The worker task of one Scheduler (crates/sc-cron/src/worker.rs), the    *)
(* table it shares with other processes, the jobs it launches, the clock,  *)
(* shutdown and crashes.                                                   *)
(*                                                                         *)
(* The worker is one task: its steps follow `pc`.  A step goes from one    *)
(* await of a store call (or of the select) to the next, because only      *)
(* there can something else change what the worker reads.  Everything else *)
(* interleaves with it: writes of other processes and of this scheduler's  *)
(* own callers, jobs that finish, time, a shutdown request, a crash.       *)
(*                                                                         *)
(* Rust and Python hooks only: Monty feeds, and the name guard that a      *)
(* run_due pass on the same scheduler takes, are not modelled here.        *)
(***************************************************************************)
EXTENDS ScheduleRows

CONSTANTS
  Occ,         \* for each name, the finite set of instants its expression names
  MaxTime,     \* the last instant, at or after every occurrence
  Horizons,    \* the instants at one of which a behaviour's clock stops
  Poll,        \* reload_poll
  Delays,      \* the retry delays (1 s doubling to 60 s in the code)
  Timeout,     \* the run timeout of every schedule
  Grace,       \* the longest deadline given to a shutdown
  Stops,       \* how shutdown may be requested: "handle", "control"
  Cooperative, \* whether the worker was spawned with operation scopes
  SkipMissed,  \* MissedTickPolicy::Skip (else Coalesce)
  MaxChanges,  \* bound: writes by others
  MaxFailures, \* bound: store calls of the worker that fail
  MaxRestarts  \* bound: crashes and process restarts

ASSUME OccAssumption == Occ \in [Name -> (SUBSET (1 .. MaxTime)) \ {{}}]
ASSUME PeriodAssumption ==
  /\ {MaxTime, Poll, Timeout} \subseteq Nat \ {0}
  /\ Stops \subseteq {"handle", "control"}
  /\ Horizons \subseteq 0 .. MaxTime
  /\ Delays \subseteq Nat \ {0} /\ Delays # {}
  /\ {Grace, MaxChanges, MaxFailures, MaxRestarts} \subseteq Nat
  /\ {Cooperative, SkipMissed} \subseteq BOOLEAN

VARIABLES
  rows,         \* the table
  now,          \* the clock
  horizon,      \* where it stops; the timers go on
  signalled,    \* the reload watch has an unseen change
  stopped,      \* shutdown was requested (or the handle dropped)
  budget,       \* the shutdown budget of the operation controller is set
  grace,        \* time left until the deadline of the runs in flight, or None
  cleanup,      \* time left until the budget's cutoff of terminal writes, or None
  quarantined,  \* the store's connection is quarantined
  pc,           \* where the worker task is
  todo,         \* what is left of the loop the worker is in
  cur,          \* the schedule it is handling between two store calls
  back,         \* where to go on after `complete` or `end_exhausted`
  snap,         \* the rows the last list_active returned, until merged
  at,           \* the instant the launch pass began
  slot,         \* Worker::slots
  pendingEnds,  \* Worker::pending_ends
  reloadWanted, \* Worker::reload_wanted
  poll,         \* time left until poll_due; None: not armed
  retry,        \* time left until retry.due
  write,        \* time left until write_retry.due
  stopping,     \* Worker::stopping
  changes, failures, restarts,  \* what the bounds have used up
  ran,          \* history: per name, the last tick handled (launched or passed over):
                \* its generation, up to which occurrence, and up to which one
                \* the store confirmed the next run
  exhausted     \* history: schedules this worker handed to end_exhausted

shared  == <<rows, quarantined, failures>>
timers  == <<poll, retry, write>>
memory  == <<slot, pendingEnds, reloadWanted, stopping>>
control == <<todo, cur, back, snap, at>>
stop    == <<stopped, budget, grace, cleanup>>
outside == <<now, horizon, signalled, stop, changes, restarts>>
history == <<ran, exhausted>>
vars == <<shared, pc, timers, memory, control, outside, history>>

Instant == 0 .. MaxTime
Schedules == Name \X Generation

\* What the variables hold: a run in flight, a slot, what `complete` and
\* end_exhausted and what launch_selected handle, the history, a row.
Run == [occ : Instant, left : 0 .. Timeout, report : {None, "ran", "delete", "disable"}]
Slot == [gen : Generation, next : Instant \cup {None}, run : Run \cup {None}]
Handled == [name : Name, gen : Generation, occ : Instant,
            report : {None, "ran", "delete", "disable"}]
Selected == [name : Name, gen : Generation, occ : Instant, missed : BOOLEAN, saved : BOOLEAN]
Handling == [gen : Generation, upto : Instant, saved : Instant]
Row == RowSet(Instant, Generation \X Instant)
Table == [Name -> Row \cup {NoRow}]

\* NULL is neither an instant nor a record, nor a name of a report or a place.
ASSUME NullAssumption ==
  /\ None \notin {"ran", "delete", "disable", "top", "expire", "launch", "drain"}
  /\ None \notin Instant \cup Run \cup Slot \cup Handled \cup Selected \cup Handling
  /\ NoRow \notin Row

\* (The mutant counts an occurrence at t itself.)
NextRunInclusive(n, t) ==
  LET later == {o \in Occ[n] : o >= t}
  IN  IF later = {} THEN None ELSE CHOOSE o \in later : \A p \in later : o <= p

\* ExprSchedule::next_run: the first occurrence after t, or None.
NextRun(n, t) ==
  LET later == {o \in Occ[n] : o > t}
  IN  IF later = {} THEN None ELSE CHOOSE o \in later : \A p \in later : o <= p

\* The latest occurrence a tick at t stands for: those before it are coalesced.
Latest(n, t) ==
  LET past == {o \in Occ[n] : o <= t} IN CHOOSE o \in past : \A p \in past : p <= o

Slotted == {n \in Name : slot[n] # None}
Running(n) == slot[n] # None /\ slot[n].run # None
Finished(n) == Running(n) /\ slot[n].run.report # None
Expired(n) == Running(n) /\ slot[n].run.left = 0
DueAt(n, t) == slot[n] # None /\ slot[n].next # None /\ slot[n].next <= t

-----------------------------------------------------------------------------
(* Store calls (worker/store_calls.rs)                                     *)

\* A scoped call is refused once the budget is set, unless the worker has seen
\* the stop and makes it a terminal call, and in any case from its cutoff on.
Refused == Cooperative /\ budget /\ (~stopping \/ cleanup = 0)

\* It answers "yes" or "no" (fenced).
CallAnswers(written, matched, answer) ==
  /\ ~Refused /\ ~quarantined
  /\ answer = IF matched THEN "yes" ELSE "no"
  /\ rows' = written
  /\ UNCHANGED <<quarantined, failures>>

\* It fails and is known to have changed nothing.
CallFails(answer) ==
  /\ answer = "failed"
  /\ \/ Refused /\ UNCHANGED failures
     \/ ~Refused /\ ~quarantined /\ failures < MaxFailures /\ failures' = failures + 1
  /\ UNCHANGED <<rows, quarantined>>

\* Or, in a scope only, the caller cannot tell what it did and has to reconcile.
\* Either its effect is unknown, and then the connection stays quarantined and
\* every later call fails the same way; or it committed and was then found to be
\* too late, and the connection stays good.  (Which stop made it late is left
\* open: it may be a later step, and the answer may come without one.)
CallIsUncertain(written, answer) ==
  /\ answer = "unknown"
  /\ Cooperative /\ ~Refused
  /\ \/ quarantined /\ UNCHANGED shared
     \/ /\ ~quarantined /\ failures < MaxFailures
        /\ failures' = failures + 1
        /\ \/ quarantined' = TRUE /\ rows' \in {rows, written}
           \/ quarantined' = FALSE /\ rows' = written

Call(written, matched, answer) ==
  \/ CallAnswers(written, matched, answer)
  \/ CallFails(answer)
  \/ CallIsUncertain(written, answer)

Answers == {"yes", "no", "failed", "unknown"}

\* (The mutant forgets to arm the retry.)
BackoffNever(timer, failing) == {timer}

\* ReloadRetry::failed, and its effect on the timers when `failing`.
Backoff(timer, failing) == IF failing THEN Delays ELSE {timer}

-----------------------------------------------------------------------------
(* The head of the loop, and retry_ends                                    *)

\* (The mutant does not listen for the request while it sleeps.)
SeesStopAwake == pc = "top" \/ (pc \in {"expire", "launch"} /\ todo # {})

SeesStop == pc \in {"top", "select"} \/ (pc \in {"expire", "launch"} /\ todo # {})

SeeStop ==
  /\ SeesStop /\ stopped
  /\ stopping' = TRUE
  /\ pc' = "drain"
  /\ todo' = {}
  /\ UNCHANGED <<shared, timers, slot, pendingEnds, reloadWanted, cur, back, snap, at,
                 outside, history>>

Top ==
  /\ pc = "top" /\ ~stopped
  /\ IF write = 0
     THEN /\ pc' = "retry"
          /\ todo' = pendingEnds
          /\ pendingEnds' = {}
          /\ write' = None
     ELSE /\ pc' = IF reloadWanted \/ retry = 0 \/ poll = 0 THEN "reload" ELSE "expire"
          /\ todo' = Slotted
          /\ UNCHANGED <<pendingEnds, write>>
  /\ UNCHANGED <<shared, poll, retry, slot, reloadWanted, stopping, cur, back, snap, at,
                 outside, history>>

RetryStopped ==
  /\ pc = "retry" /\ todo # {} /\ stopped
  /\ stopping' = TRUE
  /\ pendingEnds' = pendingEnds \cup todo
  /\ todo' = {}
  /\ UNCHANGED <<shared, pc, timers, slot, reloadWanted, cur, back, snap, at, outside, history>>

RetryEnd(n, g) ==
  /\ pc = "retry" /\ <<n, g>> \in todo /\ ~stopped
  /\ todo' = todo \ {<<n, g>>}
  /\ \E answer \in Answers :
       /\ Call(Stop(rows, n, g), Matches(rows, n, g), answer)
       /\ reloadWanted' = (reloadWanted \/ answer = "no")
       /\ pendingEnds' = IF answer = "failed" THEN pendingEnds \cup {<<n, g>>} ELSE pendingEnds
       /\ write' \in Backoff(write, answer = "failed")
  /\ UNCHANGED <<pc, poll, retry, slot, stopping, cur, back, snap, at, outside, history>>

RetryDone ==
  /\ pc = "retry" /\ todo = {}
  /\ pc' = "reload"
  /\ UNCHANGED <<shared, timers, memory, control, outside, history>>

-----------------------------------------------------------------------------
(* reload and merge                                                        *)

\* The poll interval counts from before the query.
Reload ==
  /\ pc = "reload"
  /\ pc' = "list"
  /\ reloadWanted' = FALSE
  /\ poll' = Poll
  /\ UNCHANGED <<shared, retry, write, slot, pendingEnds, stopping, control, outside, history>>

ListActive ==
  /\ pc = "list"
  /\ \E answer \in Answers :
       /\ Call(rows, TRUE, answer)
       /\ IF answer = "yes"
          THEN /\ pc' = "merge"
               /\ snap' = rows
               /\ retry' = None
               /\ UNCHANGED <<poll, todo>>
          ELSE /\ pc' = "expire"
               /\ poll' = None
               /\ retry' \in Backoff(retry, TRUE)
               /\ todo' = Slotted
               /\ UNCHANGED snap
  /\ UNCHANGED <<write, memory, cur, back, at, outside, history>>

\* A slot of an unchanged, enabled row stays, with its run and its own next
\* run.  (The mutant forgets, once shutdown is requested, the runs in flight.)
KeepsUntilStop(n) == ~stopped /\ MatchesEnabled(snap, n, slot[n].gen)

Keeps(n) == MatchesEnabled(snap, n, slot[n].gen)

\* No slot is built once shutdown is requested, nor for a schedule in
\* pending_ends.  (The mutant rebuilds a schedule whose end is not yet written.)
BuildsPending(n, g) == ~stopped

Builds(n, g) == ~stopped /\ <<n, g>> \notin pendingEnds

\* The other slots go and their runs are cancelled.
Merge ==
  LET kept == {n \in Slotted : Keeps(n)}
      new  == {n \in Name \ kept : IsActive(snap, n) /\ snap[n].enabled}
      built == {n \in new : Builds(n, snap[n].generation)}
  IN
  /\ pc = "merge"
  /\ slot' = [n \in Name |->
       IF n \in kept THEN slot[n]
       ELSE IF n \in built
            THEN [gen |-> snap[n].generation, next |-> snap[n].next, run |-> None]
            ELSE None]
  /\ stopping' = (stopping \/ (stopped /\ new # {}))
  /\ snap' = None
  /\ pc' = "expire"
  /\ todo' = kept \cup built
  /\ UNCHANGED <<shared, timers, pendingEnds, reloadWanted, cur, back, at, outside, history>>

-----------------------------------------------------------------------------
(* expire, and complete                                                    *)

\* await_aborted: a run that had already finished keeps its own report.
Aborted(run) == IF run.report = None THEN "ran" ELSE run.report

TakeRun(n, report, next) ==
  /\ slot' = [slot EXCEPT ![n].run = None]
  /\ cur' = [name |-> n, gen |-> slot[n].gen, occ |-> slot[n].run.occ, report |-> report]
  /\ pc' = "complete"
  /\ back' = next

Expire(n) ==
  /\ pc = "expire" /\ n \in todo /\ ~stopped
  /\ todo' = todo \ {n}
  /\ IF Expired(n) THEN TakeRun(n, Aborted(slot[n].run), "expire")
     ELSE UNCHANGED <<slot, cur, pc, back>>
  /\ UNCHANGED <<shared, timers, pendingEnds, reloadWanted, stopping, snap, at, outside, history>>

ExpireDone ==
  /\ pc = "expire" /\ todo = {}
  /\ pc' = "launch"
  /\ todo' = Slotted
  /\ at' = now
  /\ UNCHANGED <<shared, timers, memory, cur, back, snap, outside, history>>

\* Where the worker goes on once a run is dealt with, its slot gone or kept.
Resume ==
  /\ pc' = back
  /\ cur' = None
  /\ back' = None

\* The stop check answered delete or disable: the slot goes at once, and a
\* write known to have failed is left to a later reload (rebuild_later).
CompleteStopCheck(report, written) ==
  /\ pc = "complete" /\ cur.report = report
  /\ \E answer \in Answers :
       /\ Call(written, Matches(rows, cur.name, cur.gen), answer)
       /\ reloadWanted' = (reloadWanted \/ answer = "no")
       /\ write' \in Backoff(write, answer = "failed")
  /\ slot' = [slot EXCEPT ![cur.name] = None]
  /\ Resume
  /\ UNCHANGED <<poll, retry, pendingEnds, stopping, todo, snap, at, outside, history>>

CompleteDelete == CompleteStopCheck("delete", Stop(rows, cur.name, cur.gen))

CompleteDisable ==
  CompleteStopCheck("disable", Disable(rows, cur.name, cur.gen, <<cur.gen, cur.occ>>))

\* The run has an outcome: record it; an exhausted schedule loses its slot
\* and goes on to end_exhausted.
CompleteRan ==
  /\ pc = "complete" /\ cur.report = "ran"
  /\ \E answer \in Answers :
       /\ Call(RecordRun(rows, cur.name, cur.gen, <<cur.gen, cur.occ>>),
               Matches(rows, cur.name, cur.gen), answer)
       /\ reloadWanted' = (reloadWanted \/ answer = "no")
  /\ IF slot[cur.name].next = None
     THEN /\ slot' = [slot EXCEPT ![cur.name] = None]
          /\ pc' = "end"
          /\ exhausted' = exhausted \cup {<<cur.name, cur.gen>>}
          /\ UNCHANGED <<cur, back>>
     ELSE /\ Resume
          /\ UNCHANGED <<slot, exhausted>>
  /\ UNCHANGED <<timers, pendingEnds, stopping, todo, snap, at, outside, ran>>

EndExhausted ==
  /\ pc = "end"
  /\ \E answer \in Answers :
       /\ Call(Stop(rows, cur.name, cur.gen), Matches(rows, cur.name, cur.gen), answer)
       /\ reloadWanted' = (reloadWanted \/ answer = "no")
       /\ pendingEnds' = IF answer = "failed" THEN pendingEnds \cup {<<cur.name, cur.gen>>}
                         ELSE pendingEnds
       /\ write' \in Backoff(write, answer = "failed")
  /\ Resume
  /\ UNCHANGED <<poll, retry, slot, stopping, todo, snap, at, outside, history>>

-----------------------------------------------------------------------------
(* launch_due                                                              *)

NotDue(n) ==
  /\ pc = "launch" /\ n \in todo /\ ~stopped
  /\ ~DueAt(n, at)
  /\ todo' = todo \ {n}
  /\ UNCHANGED <<shared, pc, timers, memory, cur, back, snap, at, outside, history>>

\* A fenced write, or one of unknown effect, refuses the launch; one known to
\* have failed does not.  (The mutant takes every error for a known one.)
AuthorizesUnlessFenced(answer) == answer # "no"

Authorizes(answer) == answer \in {"yes", "failed"}

\* A due slot first stores its next run; a last occurrence has none to store.
PersistNext(n) ==
  LET next == NextRun(n, at)
      later == NextRun(n, slot[n].next)
      launch(saved) ==
        [name |-> n, gen |-> slot[n].gen, occ |-> slot[n].next,
         missed |-> later # None /\ later <= at, saved |-> saved]
  IN
  /\ pc = "launch" /\ n \in todo /\ ~stopped
  /\ DueAt(n, at)
  /\ todo' = todo \ {n}
  /\ slot' = [slot EXCEPT ![n].next = next]
  /\ IF next = None
     THEN /\ pc' = "start"
          /\ cur' = launch(FALSE)
          /\ UNCHANGED <<shared, reloadWanted>>
     ELSE \E answer \in Answers :
            /\ Call(SetNext(rows, n, slot[n].gen, next), MatchesEnabled(rows, n, slot[n].gen), answer)
            /\ reloadWanted' = (reloadWanted \/ answer = "no")
            /\ IF Authorizes(answer)
               THEN pc' = "start" /\ cur' = launch(answer = "yes")
               ELSE UNCHANGED <<pc, cur>>
  /\ UNCHANGED <<timers, pendingEnds, stopping, back, snap, at, outside, history>>

\* launch_selected passes the tick over while the previous run is in flight,
\* and for a missed occurrence under Skip.
PassedOver == slot[cur.name].run # None \/ (cur.missed /\ SkipMissed)

\* launch_selected and launch: no launch either once the shutdown budget is
\* set.  A slot then left with neither a run nor a next run is ended.
Start ==
  /\ pc = "start"
  /\ LET n == cur.name
         refused == budget
         launches == ~PassedOver /\ ~refused
         over == ~launches /\ slot[n].next = None /\ slot[n].run = None
     IN
     /\ slot' = [slot EXCEPT ![n] =
          IF launches THEN [@ EXCEPT !.run = [occ |-> cur.occ, left |-> Timeout, report |-> None]]
          ELSE IF over THEN None ELSE @]
     /\ ran' = IF refused /\ ~PassedOver THEN ran
               ELSE [ran EXCEPT ![n] =
                 [gen   |-> cur.gen,
                  upto  |-> Latest(n, at),
                  saved |-> IF cur.saved THEN Latest(n, at)
                            ELSE IF @ # None /\ @.gen = cur.gen THEN @.saved ELSE 0]]
     /\ IF over
        THEN /\ pc' = "end"
             /\ cur' = [name |-> n, gen |-> cur.gen, occ |-> cur.occ, report |-> None]
             /\ back' = "launch"
             /\ exhausted' = exhausted \cup {<<n, cur.gen>>}
        ELSE /\ pc' = "launch"
             /\ cur' = None
             /\ UNCHANGED <<back, exhausted>>
  /\ UNCHANGED <<shared, timers, pendingEnds, reloadWanted, stopping, todo, snap, at, outside>>

LaunchDone ==
  /\ pc = "launch" /\ todo = {}
  /\ pc' = "select"
  /\ UNCHANGED <<shared, timers, memory, control, outside, history>>

-----------------------------------------------------------------------------
(* The select: a biased choice, so each branch waits for those before it   *)

SelectSignal ==
  /\ pc = "select" /\ ~stopped /\ signalled
  /\ signalled' = FALSE
  /\ reloadWanted' = TRUE
  /\ pc' = "top"
  /\ UNCHANGED <<shared, timers, slot, pendingEnds, stopping, control, now, horizon, stop,
                 changes, restarts, history>>

SelectFinished(n) ==
  /\ pc = "select" /\ ~stopped /\ ~signalled
  /\ Finished(n)
  /\ TakeRun(n, slot[n].run.report, "top")
  /\ UNCHANGED <<shared, timers, pendingEnds, reloadWanted, stopping, todo, snap, at, outside, history>>

\* (The mutant sleeps through the poll.)
WakeWithoutPoll ==
  \/ reloadWanted
  \/ \E n \in Name : DueAt(n, now) \/ Expired(n)
  \/ 0 \in {retry, write}

WakeIsDue ==
  \/ reloadWanted
  \/ \E n \in Name : DueAt(n, now) \/ Expired(n)
  \/ 0 \in {poll, retry, write}

SelectWake ==
  /\ pc = "select" /\ ~stopped /\ ~signalled
  /\ \A n \in Name : ~Finished(n)
  /\ WakeIsDue
  /\ pc' = "top"
  /\ UNCHANGED <<shared, timers, memory, control, outside, history>>

-----------------------------------------------------------------------------
(* drain                                                                   *)

DrainFinished(n) ==
  /\ pc = "drain" /\ Finished(n)
  /\ TakeRun(n, slot[n].run.report, "drain")
  /\ UNCHANGED <<shared, timers, pendingEnds, reloadWanted, stopping, todo, snap, at, outside, history>>

\* abort_due_abortable: the run's own deadline passed.
DrainExpired(n) ==
  /\ pc = "drain"
  /\ \A m \in Name : ~Finished(m)
  /\ Expired(n)
  /\ TakeRun(n, Aborted(slot[n].run), "drain")
  /\ UNCHANGED <<shared, timers, pendingEnds, reloadWanted, stopping, todo, snap, at, outside, history>>

\* discard_abortable: the shutdown deadline passed, the runs leave no outcome.
DrainDiscard ==
  /\ pc = "drain" /\ grace = 0
  /\ \A n \in Name : ~Finished(n) /\ ~Expired(n)
  /\ \E n \in Name : Running(n)
  /\ slot' = [n \in Name |-> IF Running(n) THEN [slot[n] EXCEPT !.run = None] ELSE slot[n]]
  /\ UNCHANGED <<shared, pc, timers, pendingEnds, reloadWanted, stopping, control, outside, history>>

DrainDone ==
  /\ pc = "drain"
  /\ \A n \in Name : ~Running(n)
  /\ pc' = "done"
  /\ UNCHANGED <<shared, timers, memory, control, outside, history>>

-----------------------------------------------------------------------------
(* The environment                                                         *)

Later(t) == IF t \in {None, 0} THEN t ELSE t - 1

Tick ==
  /\ now' = IF now < horizon THEN now + 1 ELSE now
  /\ slot' = [n \in Name |-> IF Running(n) THEN [slot[n] EXCEPT !.run.left = Later(@)] ELSE slot[n]]
  /\ poll' = Later(poll) /\ retry' = Later(retry) /\ write' = Later(write)
  /\ grace' = Later(grace) /\ cleanup' = Later(cleanup)
  /\ UNCHANGED <<shared, pc, pendingEnds, reloadWanted, stopping, control, horizon, signalled, stopped, budget,
                 changes, restarts, history>>

\* A run task reports: a delete or disable from the stop check, or an outcome.
JobReports(n, report) ==
  /\ Running(n) /\ slot[n].run.report = None
  /\ slot' = [slot EXCEPT ![n].run.report = report]
  /\ UNCHANGED <<shared, pc, timers, pendingEnds, reloadWanted, stopping, control, outside, history>>

Alive == pc \notin {"down", "done"}

\* A write by a caller of this scheduler, which signals the worker, or by
\* another process or scheduler, which does not.
ChangeRows(written) ==
  /\ changes < MaxChanges
  /\ changes' = changes + 1
  /\ rows' = written
  /\ signalled' \in {signalled, signalled \/ Alive}
  /\ UNCHANGED <<quarantined, failures, pc, timers, memory, control, now, horizon, stop,
                 restarts, history>>

StartSchedule(n) ==
  /\ CanCreate(rows, n, Unlimited)
  /\ NextRun(n, now) # None
  /\ ChangeRows(Written(rows, n, NextRun(n, now), TRUE))

StopSchedule(n) ==
  /\ IsActive(rows, n)
  /\ ChangeRows(Stop(rows, n, rows[n].generation))

SetEnabled(n, enabled) ==
  /\ IsActive(rows, n) /\ rows[n].enabled # enabled
  /\ ChangeRows(SetFlags(rows, [m \in {n} |-> enabled]))

ReplaceSchedule(n, enabled) ==
  /\ IsActive(rows, n) /\ GenerationLeft(rows, n)
  /\ NextRun(n, now) # None
  /\ ChangeRows(Written(rows, n, NextRun(n, now), enabled))

\* WorkerHandle::shutdown with a deadline, or the handle dropped (no deadline).
\* A cooperative worker's handle also stops the controller; dropped, at once.
HandleStop(deadline) ==
  LET cutoff == IF Cooperative /\ deadline = None THEN 0 ELSE deadline IN
  /\ "handle" \in Stops /\ Alive /\ ~stopped
  /\ stopped' = TRUE
  /\ budget' = Cooperative
  /\ grace' = cutoff
  /\ cleanup' = IF Cooperative THEN cutoff ELSE None
  /\ UNCHANGED <<shared, pc, timers, memory, control, now, horizon, signalled, changes, restarts,
                 history>>

\* WorkerStopControl::request_stop, on a worker of either kind, with cutoffs for
\* the runs and for terminal writes; a second stop ends the grace at once.
ControlStop(g, k) ==
  /\ "control" \in Stops /\ Alive
  /\ g <= k
  /\ stopped' = TRUE
  /\ budget' = TRUE
  /\ IF budget
     THEN grace' = 0 /\ cleanup' = IF k < cleanup THEN k ELSE cleanup
     ELSE grace' = g /\ cleanup' = k
  /\ UNCHANGED <<shared, pc, timers, memory, control, now, horizon, signalled, changes, restarts,
                 history>>

Forget ==
  /\ slot' = [n \in Name |-> None]
  /\ pendingEnds' = {}
  /\ poll' = None /\ retry' = None /\ write' = None
  /\ stopping' = FALSE /\ stopped' = FALSE /\ budget' = FALSE
  /\ grace' = None /\ cleanup' = None
  /\ signalled' = FALSE
  /\ quarantined' = FALSE
  /\ todo' = {} /\ cur' = None /\ back' = None /\ snap' = None /\ at' = 0
  /\ exhausted' = {}
  /\ UNCHANGED <<rows, failures, now, horizon, changes, ran>>

\* The process dies, or exits after the worker is done; only the table stays.
Crash ==
  /\ pc # "down" /\ restarts < MaxRestarts
  /\ restarts' = restarts + 1
  /\ pc' = "down"
  /\ reloadWanted' = FALSE
  /\ Forget

Restart ==
  /\ pc = "down"
  /\ pc' = "top"
  /\ reloadWanted' = TRUE
  /\ Forget
  /\ UNCHANGED restarts

-----------------------------------------------------------------------------
\* The table holds one enabled schedule per name when the worker starts.
Init ==
  /\ rows = [n \in Name |-> [generation |-> 1, enabled |-> TRUE, next |-> NextRun(n, 0),
                             last |-> None, ended |-> FALSE]]
  /\ now = 0 /\ horizon \in Horizons /\ signalled = FALSE
  /\ stopped = FALSE /\ budget = FALSE /\ grace = None /\ cleanup = None
  /\ quarantined = FALSE
  /\ pc = "top" /\ todo = {} /\ cur = None /\ back = None /\ snap = None /\ at = 0
  /\ slot = [n \in Name |-> None] /\ pendingEnds = {} /\ reloadWanted = TRUE
  /\ poll = None /\ retry = None /\ write = None /\ stopping = FALSE
  /\ changes = 0 /\ failures = 0 /\ restarts = 0
  /\ ran = [n \in Name |-> None] /\ exhausted = {}

WorkerStep ==
  \/ SeeStop \/ Top
  \/ RetryStopped \/ RetryDone \/ \E n \in Name, g \in Generation : RetryEnd(n, g)
  \/ Reload \/ ListActive \/ Merge
  \/ ExpireDone \/ \E n \in Name : Expire(n)
  \/ CompleteDelete \/ CompleteDisable \/ CompleteRan \/ EndExhausted
  \/ LaunchDone \/ Start \/ \E n \in Name : NotDue(n) \/ PersistNext(n)
  \/ SelectSignal \/ SelectWake \/ \E n \in Name : SelectFinished(n)
  \/ DrainDiscard \/ DrainDone \/ \E n \in Name : DrainFinished(n) \/ DrainExpired(n)

Environment ==
  \/ Tick
  \/ \E n \in Name, report \in {"ran", "delete", "disable"} : JobReports(n, report)
  \/ \E n \in Name : StartSchedule(n) \/ StopSchedule(n)
  \/ \E n \in Name, enabled \in BOOLEAN : SetEnabled(n, enabled) \/ ReplaceSchedule(n, enabled)
  \/ \E deadline \in {None} \cup 0 .. Grace : HandleStop(deadline)
  \/ \E g, k \in 0 .. Grace : ControlStop(g, k)
  \/ Crash \/ Restart

Next == WorkerStep \/ Environment

\* The runtime keeps polling the task, and time passes.  Nothing obliges a
\* job to finish, a caller to write, or a crashed process to start again.
Spec == Init /\ [][Next]_vars

FairSpec == Spec /\ WF_vars(WorkerStep) /\ WF_vars(Tick)

-----------------------------------------------------------------------------
(* Properties                                                              *)

Timer(max) == 0 .. max \cup {None}

TypeOK ==
  /\ rows \in Table
  /\ {now, horizon, at} \subseteq Instant
  /\ {changes, failures, restarts} \subseteq Nat
  /\ {signalled, stopped, budget, stopping, quarantined, reloadWanted} \subseteq BOOLEAN
  /\ pc \in {"down", "top", "retry", "reload", "list", "merge", "expire", "complete", "end",
             "launch", "start", "select", "drain", "done"}
  /\ todo \subseteq IF pc = "retry" THEN Schedules ELSE Name
  /\ cur \in Handled \cup Selected \cup {None}
  /\ (cur # None) <=> pc \in {"complete", "end", "start"}
  /\ back \in {None, "top", "expire", "launch", "drain"}
  /\ snap = None \/ snap \in Table
  /\ slot \in [Name -> Slot \cup {None}]
  /\ ran \in [Name -> Handling \cup {None}]
  /\ pendingEnds \subseteq Schedules /\ exhausted \subseteq Schedules
  /\ poll \in Timer(Poll) /\ {grace, cleanup} \subseteq Timer(Grace)
  /\ {retry, write} \subseteq Delays \cup {0, None} \cup UNION {0 .. d : d \in Delays}

\* The step in which the worker launches n.
Launched(n) == ~Running(n) /\ slot'[n] # None /\ slot'[n].run # None

HandledBy(n, g) == ran[n] # None /\ ran[n].gen = g

\* A confirmed advance is final: once the store accepted the next run that
\* follows a tick, no occurrence that tick stood for is launched later,
\* through reloads, cancelled runs, disabling and enabling, failed or uncertain
\* writes, crashes and restarts.
NoReplay ==
  [][\A n \in Name : Launched(n) /\ HandledBy(n, slot[n].gen)
       => slot'[n].run.occ > ran[n].saved]_vars

\* end_exhausted's promise, "it can never run again": a schedule whose last
\* occurrence is over has no slot in this worker, while its ending write fails,
\* is retried, is fenced or has an unknown effect.
ExhaustedStaysDown ==
  \A n \in Name : slot[n] # None => <<n, slot[n].gen>> \notin exhausted

\* end_exhausted and retry_ends end no schedule whose last tick was neither
\* launched nor passed over: not when a shutdown refuses the launch, nor when
\* the write is retried after a failure.
EndedAfterLastRun ==
  [][\A n \in Name :
       pc \in {"end", "retry"} /\ changes' = changes /\ IsActive(rows, n) /\ ~IsActive(rows', n)
         => HandledBy(n, rows[n].generation) /\ NextRun(n, ran[n].upto) = None]_vars

\* While nobody else writes, a run in flight is never cancelled: it goes on to
\* `complete`, even when a shutdown request arrives during a reload or a retry;
\* only a crash or the shutdown deadline discards it.
RunIsCompleted ==
  [][\A n \in Name :
       Running(n) /\ changes = 0 /\ (slot'[n] = None \/ slot'[n].run = None)
         => \/ pc' = "complete" /\ cur'.name = n
            \/ pc' = "down" \/ grace = 0]_vars

\* "Uncertain persistence cannot authorize an external launch" (persist_next):
\* once a write's effect is unknown and the connection quarantined, only a last
\* occurrence, whose launch needs no write, is launched in this process.
UncertainAuthorizesNothing ==
  [][\A n \in Name : Launched(n) /\ quarantined => slot'[n].next = None]_vars

-----------------------------------------------------------------------------
(* Liveness, under FairSpec and without scopes (Cooperative = FALSE): a     *)
(* quarantined store stops the worker's schedules on purpose.               *)

Over == stopped \/ pc = "down"

Overdue(n) ==
  /\ IsActive(rows, n) /\ rows[n].enabled /\ rows[n].next <= now
  /\ HandledBy(n, rows[n].generation) => ran[n].upto < rows[n].next

\* Once disabled, n is not enabled again.
NeverResumed(n) ==
  LET row(enabled) == IsActive(rows, n) /\ rows[n].enabled = enabled
  IN [](row(FALSE) => []~row(TRUE))

\* An occurrence that is due is handled: however the writes fail, and whatever
\* others start, stop, replace or disable, an enabled schedule gets its slot
\* and its tick, unless it was disabled and enabled again around a tick.  That
\* tick is lost: the worker keeps its slot, whose next run is already a later
\* one (persist_next), and the row's stays due (see ResumesMissedRun).
DueIsHandled ==
  \A n \in Name : NeverResumed(n) => (Overdue(n) ~> (~Overdue(n) \/ Over))

\* REQ-CRON-0014: a change nobody signalled is noticed, by the poll or by a
\* fenced write: no slot outlives its row's generation or its enabled state.
ChangeIsNoticed ==
  \A n \in Name :
    (slot[n] # None /\ ~MatchesEnabled(rows, n, slot[n].gen))
      ~> (slot[n] = None \/ MatchesEnabled(rows, n, slot[n].gen) \/ Over)

\* Shutdown ends the worker, whatever it was doing and whatever its jobs do.
StopCompletes == stopped ~> pc \in {"done", "down"}

-----------------------------------------------------------------------------
(* What the documentation says and the code does not keep                  *)

\* Scheduler::with_reload_poll, "A disable or stop is also noticed earlier, at
\* the schedule's next tick", and Scheduler::set_enabled, "A disabled schedule
\* never fires": with every call answered, a tick that starts after the change
\* does not launch the schedule.
DisableNoticedAtTick ==
  [][\A n \in Name : pc = "launch" /\ pc' = "start" /\ cur'.name = n
       => MatchesEnabled(rows, n, slot[n].gen)]_vars

\* rebuild_later, on the row it rebuilds a slot from: "its next run was already
\* advanced", so that a rebuilt slot does not run an occurrence twice.
RebuiltSlotAdvanced ==
  [][\A n \in Name : Launched(n) /\ HandledBy(n, slot[n].gen)
       => slot'[n].run.occ > ran[n].upto]_vars

\* Scheduler::set_enabled, on a disabled schedule: "enabling it again resumes
\* it: a run that came due while it was disabled counts as missed and is
\* handled".  With every call answered, a worker about to sleep holds the row's
\* next run, not a later one.
ResumesMissedRun ==
  pc = "select" /\ ~reloadWanted =>
    \A n \in Name :
      slot[n] # None /\ MatchesEnabled(rows, n, slot[n].gen) /\ slot[n].next # None
        => slot[n].next <= rows[n].next
=============================================================================
