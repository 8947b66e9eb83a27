------------------------- MODULE OperationController -------------------------
(***************************************************************************)
(* The controller that a cooperative worker, the scheduler's commands and  *)
(* their stop controls share (crates/sc-cron/src/operation.rs): who may    *)
(* still start, who may still commit, and when everything admitted has     *)
(* physically ended.                                                       *)
(*                                                                         *)
(* Its callers run on many threads.  A step is one critical section of the *)
(* controller's mutex, so whatever a method does between two of them is    *)
(* open to every other thread: the window inside `cancel`, the interrupt   *)
(* check a thread still owes after `add_interrupt` or `stop`, the handles  *)
(* it has collected and not yet interrupted, the moments inside `join`.    *)
(*                                                                         *)
(* The store has one connection, used by one call at a time; a call that   *)
(* holds it stands for a statement in progress.  (A call of uncertain      *)
(* outcome leaves its handle behind with a quarantined connection, which   *)
(* no later call gets: for the controller, the later calls just end.)      *)
(*                                                                         *)
(* A call is a command of the scheduler or a store call of the worker.     *)
(* The worker makes one at a time, ordinary ones until it sees the stop    *)
(* and terminal ones (cleanup) after it.                                   *)
(***************************************************************************)
EXTENDS Integers, FiniteSets

CONSTANTS
  Call,      \* the calls a behaviour may make
  Capacity,  \* the configured command capacity
  MaxTime,   \* bound: the clock stops here
  None

ASSUME CallAssumption == IsFiniteSet(Call)
ASSUME CapacityAssumption == Capacity \in Nat /\ 1 =< Capacity /\ Capacity =< 65536
ASSUME TimeAssumption == MaxTime \in Nat
ASSUME NoneAssumption == None \notin [grace : Int, cleanup : Int]

VARIABLES
  now,            \* Instant::now()
  budget,         \* State::budget: the cutoffs of the stop, or None
  cancelled,      \* State::cancelled
  active,         \* State::active, the guards alive
  commands,       \* State::commands, those of them that are commands
  workerFinished, \* State::worker_finished
  phase,          \* how far each call is
  kind,           \* [command, cleanup] of each admitted call
  interrupted,    \* the statement in progress was interrupted
  cancelling,     \* a thread is between the two locks of `cancel`
  checking,       \* a thread that stopped or cancelled still owes its interrupt check
  delivering,     \* a thread has collected handles it is about to interrupt
  timers,         \* the instants the stop timers sleep until
  join,           \* where the owning join is
  woken           \* its Notify was notified since it was enabled

counters == <<active, commands, workerFinished>>
calls    == <<phase, kind>>
stopping == <<budget, cancelled, cancelling>>
signals  == <<checking, delivering, timers>>
joining  == <<join, woken>>
vars == <<now, counters, calls, interrupted, stopping, signals, joining>>

Time == 0 .. MaxTime
Budget == [grace : Time, cleanup : Time]
Kind == [command : BOOLEAN, cleanup : BOOLEAN]

\* The calls whose PhysicalGuard is alive; of them the one with a statement in
\* progress, and with it or about to, whose handle is in State::interrupts.
Live == {c \in Call : phase[c] \notin {"new", "finished"}}
InProgress == {c \in Call : phase[c] \in {"armed", "admitted"}}
Interrupts == {c \in Call : phase[c] \in {"arming", "armed", "admitted"}}

Earlier(s, t) == IF s <= t THEN s ELSE t

-----------------------------------------------------------------------------
(* Admission                                                               *)

\* (One mutant compares with <=, the other does not look at the stop.)
AdmitsIgnoringStop(command, cleanup) == command => commands < Capacity

AdmitsAtCapacity(command, cleanup) ==
  /\ budget # None => cleanup /\ now < budget.cleanup
  /\ command => commands <= Capacity

Admits(command, cleanup) ==
  /\ budget # None => cleanup /\ now < budget.cleanup
  /\ command => commands < Capacity

WorkerIsFree == ~workerFinished /\ \A c \in Live : kind[c].command

\* Controller::register.  The worker makes a terminal call only for a stop.
Register(c, command, cleanup) ==
  /\ phase[c] = "new"
  /\ command => ~cleanup
  /\ ~command => WorkerIsFree
  /\ cleanup => budget # None
  /\ Admits(command, cleanup)
  /\ active' = active + 1
  /\ commands' = commands + (IF command THEN 1 ELSE 0)
  /\ phase' = [phase EXCEPT ![c] = "running"]
  /\ kind' = [kind EXCEPT ![c] = [command |-> command, cleanup |-> cleanup]]
  /\ UNCHANGED <<now, workerFinished, interrupted, stopping, signals, joining>>

-----------------------------------------------------------------------------
(* Inside the closure                                                      *)

\* The call takes the connection (sqlite_scope::lock) and pushes its handle.
AddInterrupt(c) ==
  /\ phase[c] = "running"
  /\ Interrupts = {}
  /\ phase' = [phase EXCEPT ![c] = "arming"]
  /\ UNCHANGED <<now, counters, kind, interrupted, stopping, signals, joining>>

Cutoff(c) == IF kind[c].cleanup THEN budget.cleanup ELSE budget.grace

\* (The mutant reads the cancellation but not the cutoffs.)
MayCommitUncancelled(c) == cancelled => kind[c].cleanup

\* admit_commit, the decision of the commit hook.
MayCommit(c) ==
  /\ cancelled => kind[c].cleanup
  /\ budget # None => now < Cutoff(c)

HasExpired(c) ==
  \/ cancelled /\ ~kind[c].cleanup
  \/ budget # None /\ now >= Cutoff(c)

\* add_interrupt ends with a check of its own, in a second critical section.
CheckArmed(c) ==
  /\ phase[c] = "arming"
  /\ phase' = [phase EXCEPT ![c] = "armed"]
  /\ interrupted' = (interrupted \/ HasExpired(c))
  /\ UNCHANGED <<now, counters, kind, stopping, signals, joining>>

AdmitCommit(c) ==
  /\ phase[c] = "armed" /\ MayCommit(c)
  /\ phase' = [phase EXCEPT ![c] = "admitted"]
  /\ UNCHANGED <<now, counters, kind, interrupted, stopping, signals, joining>>

\* The connection guard is dropped, with or without a commit, and the handle
\* goes; the closure may take the connection again.
RemoveInterrupt(c) ==
  /\ phase[c] \in {"armed", "admitted"}
  /\ phase' = [phase EXCEPT ![c] = "running"]
  /\ interrupted' = FALSE
  /\ UNCHANGED <<now, counters, kind, stopping, signals, joining>>

\* (The mutant forgets notify_waiters.)
NotifiesNobody == woken

Notified == woken \/ join # "start"

FreedSlots(c) == IF kind[c].command THEN 1 ELSE 0

\* The closure ends and PhysicalGuard is dropped.
Finish(c) ==
  /\ phase[c] = "running"
  /\ phase' = [phase EXCEPT ![c] = "finished"]
  /\ active' = active - 1
  /\ commands' = commands - FreedSlots(c)
  /\ woken' = Notified
  /\ UNCHANGED <<now, workerFinished, kind, interrupted, stopping, signals, join>>

-----------------------------------------------------------------------------
(* Stopping                                                                *)

\* The critical section of Controller::stop on a budget that was checked.
Shortened(g, k) ==
  IF budget = None THEN [grace |-> g, cleanup |-> k]
  ELSE [grace   |-> Earlier(Earlier(budget.grace, g), now),
        cleanup |-> Earlier(budget.cleanup, k)]

StopWith(g, k) ==
  /\ g <= k
  /\ budget' = Shortened(g, k)
  /\ cancelled' = (cancelled \/ budget # None)
  /\ checking' = TRUE
  /\ timers' = timers \cup {now}
  /\ woken' = Notified
  /\ UNCHANGED <<now, counters, calls, interrupted, delivering, join>>

\* request_stop.
Stop(g, k) == StopWith(g, k) /\ UNCHANGED cancelling

\* cancel_now, or a cooperative handle dropped: stop at once, and in a second
\* critical section mark ordinary work cancelled.
Cancel ==
  /\ ~cancelling
  /\ cancelling' = TRUE
  /\ StopWith(now, now)

MarkCancelled ==
  /\ cancelling
  /\ cancelling' = FALSE
  /\ cancelled' = TRUE
  /\ checking' = TRUE
  /\ UNCHANGED <<now, counters, calls, interrupted, budget, delivering, timers, joining>>

\* The critical section of interrupt_if_expired, which collects the handles:
\* none, once the worker is finished and no guard is alive.
Collect == delivering' = (delivering \/ \E c \in Interrupts : HasExpired(c))

InterruptIfExpired ==
  /\ checking
  /\ checking' = FALSE
  /\ Collect
  /\ UNCHANGED <<now, counters, calls, interrupted, stopping, timers, joining>>

\* InterruptHandle::interrupt, with the mutex released: every handle is one of
\* the same connection, so it stops whichever statement is in progress by then.
Interrupt ==
  /\ delivering
  /\ delivering' = FALSE
  /\ interrupted' = (InProgress # {})
  /\ UNCHANGED <<now, counters, calls, stopping, checking, timers, joining>>

\* (The mutant's timer is done at the first cutoff.)
NextCutoffOnce == IF now < budget.grace THEN {budget.grace} ELSE {}

NextCutoff ==
  IF now < budget.grace THEN {budget.grace}
  ELSE IF now < budget.cleanup THEN {budget.cleanup} ELSE {}

\* A stop's timer task, whose first round is at once.  It also looks again
\* when the status changes, which repeats a check.
TimerFires(t) ==
  /\ t \in timers /\ t <= now
  /\ IF join = "joined" THEN timers' = timers \ {t} /\ UNCHANGED delivering
     ELSE timers' = (timers \ {t}) \cup NextCutoff /\ Collect
  /\ UNCHANGED <<now, counters, calls, interrupted, stopping, checking, joining>>

\* The worker has seen the stop, awaited its own calls and drained.
WorkerFinishes ==
  /\ budget # None /\ WorkerIsFree
  /\ workerFinished' = TRUE
  /\ woken' = Notified
  /\ UNCHANGED <<now, active, commands, calls, interrupted, stopping, signals, join>>

-----------------------------------------------------------------------------
(* The owning join (WorkerHandle::join_owned, Controller::join)            *)

\* The notification is enabled before anything is read.
JoinEnable ==
  /\ join = "start" /\ workerFinished
  /\ join' = "enabled"
  /\ woken' = FALSE
  /\ UNCHANGED <<now, counters, calls, interrupted, stopping, signals>>

\* After awaiting the owner tasks of `run`, which end with their closures or
\* are gone with their runtime: their end proves nothing about `active`.
JoinCheck ==
  /\ join = "enabled"
  /\ join' = IF active = 0 THEN "joined" ELSE "asleep"
  /\ UNCHANGED <<now, counters, calls, interrupted, stopping, signals, woken>>

JoinWake ==
  /\ join = "asleep" /\ woken
  /\ join' = "start"
  /\ UNCHANGED <<now, counters, calls, interrupted, stopping, signals, woken>>

-----------------------------------------------------------------------------
Tick ==
  /\ now < MaxTime
  /\ now' = now + 1
  /\ UNCHANGED <<counters, calls, interrupted, stopping, signals, joining>>

Init ==
  /\ now = 0 /\ budget = None /\ cancelled = FALSE /\ cancelling = FALSE
  /\ active = 0 /\ commands = 0 /\ workerFinished = FALSE
  /\ phase = [c \in Call |-> "new"]
  /\ kind = [c \in Call |-> [command |-> FALSE, cleanup |-> FALSE]]
  /\ interrupted = FALSE /\ checking = FALSE /\ delivering = FALSE /\ timers = {}
  /\ join = "start" /\ woken = FALSE

Closure(c) ==
  AddInterrupt(c) \/ CheckArmed(c) \/ AdmitCommit(c) \/ RemoveInterrupt(c) \/ Finish(c)

Joiner == JoinEnable \/ JoinCheck \/ JoinWake

Next ==
  \/ \E c \in Call, command, cleanup \in BOOLEAN : Register(c, command, cleanup)
  \/ \E c \in Call : Closure(c)
  \/ \E g, k \in Time : Stop(g, k)
  \/ Cancel \/ MarkCancelled
  \/ InterruptIfExpired \/ Interrupt
  \/ \E t \in Time : TimerFires(t)
  \/ WorkerFinishes \/ Joiner \/ Tick

Spec == Init /\ [][Next]_vars

\* A closure ends, however often it takes the connection; so does a stopped
\* worker; and the runtime polls the join.  Nothing obliges anyone to stop the
\* worker.
FairSpec ==
  /\ Spec
  /\ \A c \in Call : WF_vars(CheckArmed(c)) /\ WF_vars(RemoveInterrupt(c)) /\ SF_vars(Finish(c))
  /\ WF_vars(WorkerFinishes) /\ WF_vars(Joiner)

-----------------------------------------------------------------------------
(* Properties                                                              *)

TypeOK ==
  /\ now \in Time
  /\ budget \in Budget \cup {None}
  /\ {cancelled, cancelling, workerFinished, woken} \subseteq BOOLEAN
  /\ {interrupted, checking, delivering} \subseteq BOOLEAN
  /\ active \in Nat /\ commands \in Nat
  /\ phase \in [Call -> {"new", "running", "arming", "armed", "admitted", "finished"}]
  /\ kind \in [Call -> Kind]
  /\ timers \subseteq Time
  /\ join \in {"start", "enabled", "asleep", "joined"}

\* A capacity slot is held until the closure has physically ended: the command
\* closures alive never outnumber the capacity, whoever stopped waiting for them.
CapacityIsPhysical == Cardinality({c \in Live : kind[c].command}) <= Capacity

\* However stops and cancellations follow one another, the two cutoffs stay in
\* order and none is ever moved later.
CutoffsOrdered == budget # None => budget.grace <= budget.cleanup

CutoffsShrink ==
  [][budget # None =>
       /\ budget' # None
       /\ budget'.grace <= budget.grace /\ budget'.cleanup <= budget.cleanup]_vars

\* From the moment a second stop or a cancellation begins, also between the two
\* locks of `cancel`, no ordinary commit is admitted.
RevokedCommitsNothing ==
  [][\A c \in Call :
       (cancelled \/ cancelling) /\ AdmitCommit(c) => kind[c].cleanup]_vars

\* What join_owned promises: when it returns, every admitted closure has ended,
\* and none can be admitted any more.
JoinedIsQuiet == join = "joined" => Live = {}

\* Registration, shortening and notification cannot lose a race: when no thread
\* owes a check and no timer is due, every statement in progress whose cutoff
\* has passed was interrupted.
ExpiredIsInterrupted ==
  ~checking /\ ~delivering /\ (\A t \in timers : t > now) =>
    \A c \in InProgress : HasExpired(c) => interrupted

\* The join loses no wakeup: once the worker is done, it returns.
JoinReturns == workerFinished ~> join = "joined"

-----------------------------------------------------------------------------
(* What the documentation says and the code does not keep                  *)

\* compatibility-contract.md, on a stop: "Restricted cleanup is a separate class
\* only for terminal bookkeeping [...] until K": the statement of a terminal call
\* is not interrupted before the cleanup cutoff.
CleanupRunsUntilK ==
  \A c \in InProgress : kind[c].cleanup /\ interrupted => now >= budget.cleanup
=============================================================================
