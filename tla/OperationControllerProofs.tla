---------------------- MODULE OperationControllerProofs ----------------------
(***************************************************************************)
(* What holds of the operation controller for every set of calls, every    *)
(* capacity and every horizon: type correctness, the safety invariants and *)
(* the action properties of OperationController.                           *)
(*                                                                         *)
(* The inductive invariant says what the counters count, what a revoked    *)
(* or finished controller implies, and which thread or timer will still    *)
(* look at a statement whose cutoff is ahead or has passed.                *)
(***************************************************************************)
EXTENDS OperationController, FiniteSetTheorems, TLAPS

LiveCommands == {c \in Live : kind[c].command}

\* The counters are the numbers of guards alive, and the capacity bounds one.
Counted ==
  /\ active = Cardinality(Live)
  /\ commands = Cardinality(LiveCommands)
  /\ commands <= Capacity

\* Ordinary work is revoked only by a stop whose grace is over.
RevokedIsOver == cancelled \/ cancelling => budget # None /\ budget.grace <= now

\* A finished worker was stopped and makes no call; so the join, which starts
\* after it, finds commands only, and no call can follow its return.
FinishedIsStopped ==
  /\ workerFinished => budget # None /\ \A c \in Live : kind[c].command
  /\ join # "start" => workerFinished
  /\ join = "joined" => Live = {}

OneHolder == \A c, d \in Interrupts : c = d

\* Timers follow a stop; until the join returns, one goes off no later than any
\* cutoff ahead.
TimersFollowStops == timers # {} => budget # None

Watched ==
  budget # None /\ join # "joined" =>
    /\ budget.grace > now => \E t \in timers : t <= budget.grace
    /\ budget.cleanup > now => \E t \in timers : t <= budget.cleanup

\* A statement whose cutoff has passed was interrupted, or a thread or timer
\* that will interrupt it is under way.
UnderWay == checking \/ delivering \/ \E t \in timers : t <= now

Noticed == \A c \in InProgress : HasExpired(c) => interrupted \/ UnderWay

IInv ==
  /\ TypeOK
  /\ Counted
  /\ CutoffsOrdered
  /\ RevokedIsOver
  /\ FinishedIsStopped
  /\ OneHolder
  /\ TimersFollowStops
  /\ Watched
  /\ Noticed

-----------------------------------------------------------------------------
(* Stopping                                                                *)

\* The cutoffs of a stop: in order, no later than those before, the grace of
\* a repeated stop over.
LEMMA ShortenedOK ==
  ASSUME TypeOK, CutoffsOrdered, NEW g \in Time, NEW k \in Time, g <= k
  PROVE  /\ Shortened(g, k) \in Budget
         /\ Shortened(g, k).grace <= Shortened(g, k).cleanup
         /\ budget # None =>
              /\ Shortened(g, k).grace <= budget.grace
              /\ Shortened(g, k).cleanup <= budget.cleanup
              /\ Shortened(g, k).grace <= now
         /\ budget = None => Shortened(g, k).grace = g
<1>1. now \in Time /\ (budget # None => budget \in Budget /\ budget.grace <= budget.cleanup)
  BY DEF TypeOK, CutoffsOrdered
<1>2. CASE budget = None
  BY <1>2 DEF Shortened, Budget
<1>3. CASE budget # None
  <2>1. /\ budget.grace \in Time /\ budget.cleanup \in Time
        /\ budget.grace <= budget.cleanup
    BY <1>1, <1>3 DEF Budget
  <2> DEFINE grace == Earlier(Earlier(budget.grace, g), now)
             cleanup == Earlier(budget.cleanup, k)
  <2>2. /\ grace \in Time /\ cleanup \in Time
        /\ grace <= cleanup /\ grace <= budget.grace /\ cleanup <= budget.cleanup
        /\ grace <= now
    BY <1>1, <2>1, TimeAssumption DEF Earlier, Time
  <2>3. Shortened(g, k) = [grace |-> grace, cleanup |-> cleanup]
    BY <1>3 DEF Shortened
  <2> HIDE DEF grace, cleanup
  <2>4. QED BY <1>3, <2>2, <2>3 DEF Budget
<1>4. QED BY <1>2, <1>3

LEMMA BudgetIsSet ==
  ASSUME NEW x \in Budget
  PROVE  x # None
<1>1. x \in [grace : Int, cleanup : Int]
  BY TimeAssumption DEF Budget, Time
<1>2. QED BY <1>1, NoneAssumption

\* What a stop does to the controller, for both of its callers.
LEMMA StopWithOK ==
  ASSUME TypeOK, CutoffsOrdered, RevokedIsOver,
         NEW g \in Time, NEW k \in Time, StopWith(g, k)
  PROVE  /\ budget' \in Budget
         /\ budget' # None
         /\ budget'.grace <= budget'.cleanup
         /\ budget # None =>
              /\ budget'.grace <= budget.grace
              /\ budget'.cleanup <= budget.cleanup
         /\ cancelled' => budget'.grace <= now
         /\ budget = None => budget'.grace = g
<1>1. g <= k /\ budget' = Shortened(g, k) /\ cancelled' = (cancelled \/ budget # None)
  BY DEF StopWith
<1>2. /\ Shortened(g, k) \in Budget
      /\ Shortened(g, k).grace <= Shortened(g, k).cleanup
      /\ budget # None =>
           /\ Shortened(g, k).grace <= budget.grace
           /\ Shortened(g, k).cleanup <= budget.cleanup
           /\ Shortened(g, k).grace <= now
      /\ budget = None => Shortened(g, k).grace = g
  BY <1>1, ShortenedOK
<1>3. budget' # None
  BY <1>1, <1>2, BudgetIsSet
<1>4. cancelled => budget # None
  BY DEF RevokedIsOver
<1>5. QED BY <1>1, <1>2, <1>3, <1>4

-----------------------------------------------------------------------------
(* Types                                                                   *)

LEMMA InitTyped == Init => TypeOK
<1> SUFFICES ASSUME Init PROVE TypeOK
  OBVIOUS
<1>1. now \in Time /\ budget \in Budget \cup {None} /\ active \in Nat /\ commands \in Nat
  BY TimeAssumption DEF Init, Time
<1>2. /\ {cancelled, cancelling, workerFinished, woken} \subseteq BOOLEAN
      /\ {interrupted, checking, delivering} \subseteq BOOLEAN
      /\ timers \subseteq Time
      /\ join \in {"start", "enabled", "asleep", "joined"}
  BY DEF Init
<1>3. /\ phase \in [Call -> {"new", "running", "arming", "armed", "admitted", "finished"}]
      /\ kind \in [Call -> Kind]
  BY DEF Init, Kind
<1>4. QED BY <1>1, <1>2, <1>3 DEF TypeOK

LEMMA NextCutoffOK ==
  ASSUME TypeOK, budget # None
  PROVE  NextCutoff \subseteq Time
  BY DEF TypeOK, NextCutoff, Budget

-----------------------------------------------------------------------------
(* Counting                                                                *)

LEMMA LiveFinite == IsFiniteSet(Live) /\ IsFiniteSet(LiveCommands)
<1>1. Live \subseteq Call /\ LiveCommands \subseteq Call
  BY DEF Live, LiveCommands
<1>2. QED BY <1>1, CallAssumption, FS_Subset

LEMMA CapacityTyped == Capacity \in Nat /\ Capacity >= 1
  BY CapacityAssumption

LEMMA CountedTyped ==
  ASSUME Counted
  PROVE  active \in Nat /\ commands \in Nat
  BY LiveFinite, FS_CardinalityType DEF Counted

LEMMA RegisterCounted ==
  ASSUME TypeOK, Counted, NEW c \in Call, NEW command \in BOOLEAN, NEW cleanup \in BOOLEAN,
         Register(c, command, cleanup)
  PROVE  Counted'
<1>1. /\ phase \in [Call -> {"new", "running", "arming", "armed", "admitted", "finished"}]
      /\ kind \in [Call -> Kind]
      /\ phase[c] = "new"
      /\ phase' = [phase EXCEPT ![c] = "running"]
      /\ kind' = [kind EXCEPT ![c] = [command |-> command, cleanup |-> cleanup]]
      /\ active' = active + 1
      /\ commands' = commands + (IF command THEN 1 ELSE 0)
      /\ command => commands < Capacity
  BY DEF TypeOK, Register, Admits
<1>2. c \notin Live /\ c \notin LiveCommands
  BY <1>1 DEF Live, LiveCommands
<1>3. Live' = Live \cup {c}
  BY <1>1 DEF Live
<1>4. LiveCommands' = IF command THEN LiveCommands \cup {c} ELSE LiveCommands
  <2>1. kind'[c].command = command
    BY <1>1
  <2>2. \A d \in Call \ {c} : kind'[d] = kind[d]
    BY <1>1
  <2>3. c \in Live'
    BY <1>3
  <2>4. LiveCommands' = {d \in Live' : kind'[d].command}
    BY DEF LiveCommands
  <2>5. \A d \in Live : kind'[d].command <=> kind[d].command
    BY <1>2, <2>2 DEF Live
  <2>6. CASE command
    BY <1>2, <1>3, <2>1, <2>4, <2>5, <2>6, Zenon DEF LiveCommands
  <2>7. CASE ~command
    BY <1>2, <1>3, <2>1, <2>4, <2>5, <2>7, Zenon DEF LiveCommands
  <2>8. QED BY <2>6, <2>7
<1>5. Cardinality(Live') = Cardinality(Live) + 1
  BY <1>2, <1>3, LiveFinite, FS_AddElement
<1>6. Cardinality(LiveCommands') = Cardinality(LiveCommands) + (IF command THEN 1 ELSE 0)
  <2>1. CASE command
    BY <2>1, <1>2, <1>4, LiveFinite, FS_AddElement
  <2>2. CASE ~command
    BY <2>2, <1>4, LiveFinite, FS_CardinalityType
  <2>3. QED BY <2>1, <2>2
<1>7. Cardinality(LiveCommands) \in Nat /\ Cardinality(Live) \in Nat
  BY LiveFinite, FS_CardinalityType
<1>8. active \in Nat /\ commands \in Nat /\ Capacity \in Nat /\ commands =< Capacity
  BY <1>7, CapacityTyped DEF Counted
<1>9. active' \in Nat /\ active' = Cardinality(Live')
  BY <1>1, <1>5, <1>8 DEF Counted
<1>10. commands' \in Nat /\ commands' = Cardinality(LiveCommands') /\ commands' =< Capacity
  <2>1. CASE command
    BY <2>1, <1>1, <1>6, <1>8 DEF Counted
  <2>2. CASE ~command
    BY <2>2, <1>1, <1>6, <1>8 DEF Counted
  <2>3. QED BY <2>1, <2>2
<1>11. QED BY <1>9, <1>10 DEF Counted

LEMMA FinishCounted ==
  ASSUME TypeOK, Counted, NEW c \in Call, Finish(c)
  PROVE  Counted' /\ active' \in Nat /\ commands' \in Nat
<1>1. /\ phase \in [Call -> {"new", "running", "arming", "armed", "admitted", "finished"}]
      /\ phase[c] = "running"
      /\ phase' = [phase EXCEPT ![c] = "finished"]
      /\ kind' = kind
      /\ active' = active - 1
      /\ commands' = commands - (IF kind[c].command THEN 1 ELSE 0)
  BY DEF TypeOK, Finish, FreedSlots
<1>2. c \in Live /\ Live' = Live \ {c}
  BY <1>1 DEF Live
<1>3. LiveCommands' = LiveCommands \ {c}
  BY <1>1, <1>2 DEF LiveCommands
<1>4. c \in LiveCommands <=> kind[c].command
  BY <1>2 DEF LiveCommands
<1>5. Cardinality(Live') = Cardinality(Live) - 1
  BY <1>2, LiveFinite, FS_RemoveElement
<1>6. Cardinality(LiveCommands') = Cardinality(LiveCommands) - (IF kind[c].command THEN 1 ELSE 0)
  <2>1. CASE kind[c].command
    BY <2>1, <1>3, <1>4, LiveFinite, FS_RemoveElement
  <2>2. CASE ~kind[c].command
    <3>1. LiveCommands' = LiveCommands
      BY <2>2, <1>3, <1>4
    <3>2. QED BY <2>2, <3>1, LiveFinite, FS_CardinalityType
  <2>3. QED BY <2>1, <2>2
<1>7. Counted'
  <2>1. /\ Cardinality(LiveCommands) \in Nat
        /\ active \in Nat /\ commands \in Nat /\ Capacity \in Nat /\ commands =< Capacity
    BY LiveFinite, FS_CardinalityType, CapacityTyped DEF Counted
  <2>2. active' = Cardinality(Live')
    BY <1>1, <1>5 DEF Counted
  <2>3. commands' = Cardinality(LiveCommands') /\ commands' =< Capacity
    <3>1. CASE kind[c].command
      BY <3>1, <2>1, <1>1, <1>6 DEF Counted
    <3>2. CASE ~kind[c].command
      BY <3>2, <2>1, <1>1, <1>6 DEF Counted
    <3>3. QED BY <3>1, <3>2
  <2>4. QED BY <2>2, <2>3 DEF Counted
<1>8. Cardinality(Live') \in Nat /\ Cardinality(LiveCommands') \in Nat
  BY <1>2, <1>3, LiveFinite, FS_RemoveElement, FS_CardinalityType
<1>9. QED BY <1>7, <1>8 DEF Counted

\* The guards alive and their kinds are those of the step before.
SameGuards == UNCHANGED <<active, commands, kind>> /\ Live' = Live

LEMMA SameGuardsCounted ==
  ASSUME Counted, SameGuards
  PROVE  Counted'
<1>1. LiveCommands' = LiveCommands
  BY DEF SameGuards, LiveCommands
<1>2. QED BY <1>1 DEF SameGuards, Counted

-----------------------------------------------------------------------------
(* Types                                                                   *)

LEMMA ClosureTyped ==
  ASSUME TypeOK, Counted, NEW c \in Call, Closure(c)
  PROVE  TypeOK'
<1>1. CASE AddInterrupt(c)
  BY <1>1 DEF TypeOK, AddInterrupt, counters, stopping, signals, joining
<1>2. CASE CheckArmed(c)
  BY <1>2, Zenon DEF TypeOK, CheckArmed, counters, stopping, signals, joining
<1>3. CASE AdmitCommit(c)
  BY <1>3 DEF TypeOK, AdmitCommit, counters, stopping, signals, joining
<1>4. CASE RemoveInterrupt(c)
  BY <1>4 DEF TypeOK, RemoveInterrupt, counters, stopping, signals, joining
<1>5. CASE Finish(c)
  <2>1. active' \in Nat /\ commands' \in Nat
    BY <1>5, FinishCounted
  <2>2. woken' \in BOOLEAN
    BY <1>5 DEF TypeOK, Finish, Notified
  <2>3. QED BY <1>5, <2>1, <2>2 DEF TypeOK, Finish, stopping, signals
<1>6. QED BY <1>1, <1>2, <1>3, <1>4, <1>5 DEF Closure

LEMMA StopTyped ==
  ASSUME TypeOK, CutoffsOrdered, RevokedIsOver,
         \/ \E g, k \in Time : Stop(g, k)
         \/ Cancel
         \/ MarkCancelled
  PROVE  TypeOK'
<1>1. ASSUME NEW g \in Time, NEW k \in Time, StopWith(g, k), cancelling' \in BOOLEAN
      PROVE  TypeOK'
  <2>1. budget' \in Budget
    BY <1>1, StopWithOK
  <2>2. /\ now \in Time /\ now' = now
        /\ timers \subseteq Time /\ timers' = timers \cup {now}
    BY <1>1 DEF TypeOK, StopWith
  <2>3. cancelled' \in BOOLEAN /\ woken' \in BOOLEAN /\ checking' \in BOOLEAN
    BY <1>1 DEF TypeOK, StopWith, Notified
  <2>4. /\ {workerFinished', interrupted', delivering'} \subseteq BOOLEAN
        /\ active' \in Nat /\ commands' \in Nat
        /\ join' \in {"start", "enabled", "asleep", "joined"}
        /\ phase' \in [Call -> {"new", "running", "arming", "armed", "admitted", "finished"}]
        /\ kind' \in [Call -> Kind]
    BY <1>1 DEF TypeOK, StopWith, counters, calls
  <2>5. QED BY <1>1, <2>1, <2>2, <2>3, <2>4 DEF TypeOK
<1>2. ASSUME NEW g \in Time, NEW k \in Time, Stop(g, k)
      PROVE  TypeOK'
  BY <1>1, <1>2 DEF Stop, TypeOK
<1>3. CASE Cancel
  BY <1>1, <1>3 DEF Cancel, TypeOK
<1>4. CASE MarkCancelled
  BY <1>4 DEF TypeOK, MarkCancelled, counters, calls, joining
<1>5. QED BY <1>2, <1>3, <1>4

LEMMA SignalTyped ==
  ASSUME TypeOK, TimersFollowStops,
         \/ InterruptIfExpired
         \/ Interrupt
         \/ \E t \in Time : TimerFires(t)
  PROVE  TypeOK'
<1>1. CASE InterruptIfExpired
  BY <1>1, Zenon DEF TypeOK, InterruptIfExpired, Collect, counters, calls, stopping, joining
<1>2. CASE Interrupt
  BY <1>2, Zenon DEF TypeOK, Interrupt, counters, calls, stopping, joining
<1>3. ASSUME NEW t \in Time, TimerFires(t)
      PROVE  TypeOK'
  <2>1. delivering' \in BOOLEAN
    BY <1>3, Zenon DEF TypeOK, TimerFires, Collect
  <2>2. timers' \subseteq Time
    <3>1. timers # {} => NextCutoff \subseteq Time
      BY NextCutoffOK DEF TimersFollowStops
    <3>2. QED BY <1>3, <3>1 DEF TypeOK, TimerFires
  <2>3. QED BY <1>3, <2>1, <2>2 DEF TypeOK, TimerFires, counters, calls, stopping, joining
<1>4. QED BY <1>1, <1>2, <1>3

LEMMA StepTyped ==
  ASSUME TypeOK, Counted, CutoffsOrdered, RevokedIsOver, TimersFollowStops, [Next]_vars
  PROVE  TypeOK'
<1>1. ASSUME NEW c \in Call, NEW command \in BOOLEAN, NEW cleanup \in BOOLEAN,
             Register(c, command, cleanup)
      PROVE  TypeOK'
  BY <1>1 DEF TypeOK, Register, Kind, stopping, signals, joining
<1>2. CASE WorkerFinishes
  BY <1>2 DEF TypeOK, WorkerFinishes, Notified, calls, stopping, signals
<1>3. CASE Joiner
  BY <1>3 DEF TypeOK, Joiner, JoinEnable, JoinCheck, JoinWake, counters, calls, stopping, signals
<1>4. CASE Tick
  BY <1>4, TimeAssumption DEF TypeOK, Tick, Time, counters, calls, stopping, signals, joining
<1>5. CASE UNCHANGED vars
  BY <1>5 DEF TypeOK, vars, counters, calls, stopping, signals, joining
<1>6. QED
  BY <1>1, <1>2, <1>3, <1>4, <1>5, ClosureTyped, StopTyped, SignalTyped DEF Next

-----------------------------------------------------------------------------
(* The cutoffs                                                             *)

LEMMA BudgetStep ==
  ASSUME TypeOK, CutoffsOrdered, RevokedIsOver, [Next]_vars
  PROVE  /\ CutoffsOrdered'
         /\ RevokedIsOver'
         /\ budget # None =>
              /\ budget' # None
              /\ budget'.grace <= budget.grace
              /\ budget'.cleanup <= budget.cleanup
<1>1. /\ now \in Time
      /\ budget # None => /\ budget.grace \in Time /\ budget.cleanup \in Time
                          /\ budget.grace <= budget.cleanup
  BY DEF TypeOK, Budget, CutoffsOrdered
<1>2. ASSUME NEW g \in Time, NEW k \in Time, Stop(g, k)
      PROVE  /\ CutoffsOrdered' /\ RevokedIsOver'
             /\ budget # None =>
                  /\ budget' # None
                  /\ budget'.grace <= budget.grace
                  /\ budget'.cleanup <= budget.cleanup
  <2>1. /\ budget' # None /\ budget' \in Budget
        /\ budget'.grace <= budget'.cleanup
        /\ budget # None =>
             /\ budget'.grace <= budget.grace
             /\ budget'.cleanup <= budget.cleanup
        /\ cancelled' => budget'.grace <= now
        /\ now' = now /\ cancelling' = cancelling
    BY <1>2, StopWithOK DEF Stop, StopWith
  <2>2. cancelling => budget'.grace <= now
    BY <1>1, <2>1, TimeAssumption DEF RevokedIsOver, Budget, Time
  <2>3. QED BY <2>1, <2>2 DEF CutoffsOrdered, RevokedIsOver
<1>3. CASE Cancel
  <2>1. /\ budget' # None /\ budget' \in Budget
        /\ budget'.grace <= budget'.cleanup
        /\ budget # None =>
             /\ budget'.grace <= budget.grace
             /\ budget'.cleanup <= budget.cleanup
        /\ cancelled' => budget'.grace <= now
        /\ budget = None => budget'.grace = now
        /\ budget # None => cancelled'
        /\ now' = now
    BY <1>1, <1>3, StopWithOK DEF Cancel, StopWith
  <2>2. budget'.grace <= now
    BY <1>1, <2>1, TimeAssumption DEF Time
  <2>3. QED BY <2>1, <2>2 DEF CutoffsOrdered, RevokedIsOver
<1>4. CASE MarkCancelled
  BY <1>1, <1>4, TimeAssumption DEF MarkCancelled, CutoffsOrdered, RevokedIsOver, Time
<1>5. CASE Tick
  BY <1>1, <1>5, TimeAssumption DEF Tick, CutoffsOrdered, RevokedIsOver, stopping, Time
<1>6. CASE UNCHANGED <<now, stopping>>
  BY <1>1, <1>6, TimeAssumption DEF CutoffsOrdered, RevokedIsOver, stopping, Time
<1>7. \/ \E g, k \in Time : Stop(g, k)
      \/ Cancel \/ MarkCancelled \/ Tick
      \/ UNCHANGED <<now, stopping>>
  <2>1. ASSUME NEW c \in Call, Closure(c)
        PROVE  UNCHANGED <<now, stopping>>
    BY <2>1 DEF Closure, AddInterrupt, CheckArmed, AdmitCommit, RemoveInterrupt, Finish
  <2>2. ASSUME Joiner PROVE UNCHANGED <<now, stopping>>
    BY <2>2 DEF Joiner, JoinEnable, JoinCheck, JoinWake
  <2>3. QED BY <2>1, <2>2
          DEF Next, Register, InterruptIfExpired, Interrupt, TimerFires, WorkerFinishes, vars
<1>8. QED BY <1>2, <1>3, <1>4, <1>5, <1>6, <1>7

-----------------------------------------------------------------------------
(* The guards and the join                                                 *)

\* A step that leaves the guards, the worker's end and the join alone.
SameJoin == SameGuards /\ UNCHANGED <<workerFinished, join>>

LEMMA SameJoinOK ==
  ASSUME Counted, FinishedIsStopped, SameJoin, budget # None => budget' # None
  PROVE  Counted' /\ FinishedIsStopped'
  BY SameGuardsCounted DEF SameJoin, SameGuards, FinishedIsStopped

LEMMA ClosureSameJoin ==
  ASSUME TypeOK, NEW c \in Call,
         AddInterrupt(c) \/ CheckArmed(c) \/ AdmitCommit(c) \/ RemoveInterrupt(c)
  PROVE  SameJoin /\ budget' = budget
<1>1. /\ phase \in [Call -> {"new", "running", "arming", "armed", "admitted", "finished"}]
      /\ phase[c] \notin {"new", "finished"}
      /\ \E p \in {"arming", "armed", "admitted", "running"} : phase' = [phase EXCEPT ![c] = p]
  BY DEF TypeOK, AddInterrupt, CheckArmed, AdmitCommit, RemoveInterrupt
<1>2. Live' = Live
  BY <1>1 DEF Live
<1>3. UNCHANGED <<active, commands, kind, workerFinished, join, budget>>
  BY DEF AddInterrupt, CheckArmed, AdmitCommit, RemoveInterrupt, counters, stopping, joining
<1>4. QED BY <1>2, <1>3 DEF SameJoin, SameGuards

LEMMA GuardStep ==
  ASSUME TypeOK, Counted, CutoffsOrdered, RevokedIsOver, FinishedIsStopped, [Next]_vars
  PROVE  Counted' /\ FinishedIsStopped'
<1>1. budget # None => budget' # None
  BY BudgetStep
<1>2. ASSUME NEW c \in Call, NEW command \in BOOLEAN, NEW cleanup \in BOOLEAN,
             Register(c, command, cleanup)
      PROVE  Counted' /\ FinishedIsStopped'
  <2>1. ~workerFinished
    BY <1>2 DEF FinishedIsStopped, Register, Admits, WorkerIsFree
  <2>2. workerFinished' = workerFinished /\ join' = join
    BY <1>2 DEF Register, joining
  <2>3. QED BY <1>2, <2>1, <2>2, RegisterCounted DEF FinishedIsStopped
<1>3. ASSUME NEW c \in Call, Finish(c)
      PROVE  Counted' /\ FinishedIsStopped'
  <2>1. Live' \subseteq Live
    BY <1>3 DEF TypeOK, Finish, Live
  <2>2. UNCHANGED <<workerFinished, join, budget, kind>>
    BY <1>3 DEF Finish, stopping
  <2>3. QED BY <1>3, <2>1, <2>2, FinishCounted DEF FinishedIsStopped
<1>4. ASSUME NEW c \in Call, Closure(c)
      PROVE  Counted' /\ FinishedIsStopped'
  BY <1>1, <1>3, <1>4, ClosureSameJoin, SameJoinOK DEF Closure
<1>5. CASE WorkerFinishes
  <2>1. SameGuards
    BY <1>5 DEF SameGuards, WorkerFinishes, Live, calls
  <2>2. /\ budget' # None /\ join' = join /\ workerFinished'
        /\ \A c \in Live : kind[c].command
    BY <1>5 DEF WorkerFinishes, WorkerIsFree, stopping
  <2>3. QED BY <2>1, <2>2, SameGuardsCounted DEF SameGuards, FinishedIsStopped
<1>6. CASE Joiner
  <2>1. SameGuards
    BY <1>6 DEF SameGuards, Joiner, JoinEnable, JoinCheck, JoinWake, Live, calls, counters
  <2>2. UNCHANGED <<workerFinished, budget>>
    BY <1>6 DEF Joiner, JoinEnable, JoinCheck, JoinWake, counters, stopping
  <2>3. join' # "start" => workerFinished
    BY <1>6 DEF Joiner, JoinEnable, JoinCheck, JoinWake, FinishedIsStopped
  <2>4. join' = "joined" => active = 0
    BY <1>6 DEF Joiner, JoinEnable, JoinCheck, JoinWake
  <2>5. active = 0 => Live = {}
    BY LiveFinite, FS_EmptySet DEF Counted
  <2>6. QED
    BY <2>1, <2>2, <2>3, <2>4, <2>5, SameGuardsCounted DEF SameGuards, FinishedIsStopped
<1>7. CASE \/ \E g, k \in Time : Stop(g, k)
           \/ Cancel \/ MarkCancelled
           \/ InterruptIfExpired \/ Interrupt
           \/ \E t \in Time : TimerFires(t)
           \/ Tick \/ UNCHANGED vars
  <2>1. UNCHANGED <<counters, calls, join>>
    BY <1>7 DEF Stop, Cancel, StopWith, MarkCancelled, InterruptIfExpired, Interrupt,
                TimerFires, Tick, vars, joining
  <2>2. SameJoin
    BY <2>1 DEF SameJoin, SameGuards, Live, counters, calls
  <2>3. QED BY <1>1, <2>2, SameJoinOK
<1>8. QED BY <1>2, <1>4, <1>5, <1>6, <1>7 DEF Next

-----------------------------------------------------------------------------
(* The interrupts                                                          *)

LEMMA HolderStep ==
  ASSUME TypeOK, OneHolder, [Next]_vars
  PROVE  OneHolder'
<1>1. ASSUME NEW c \in Call, AddInterrupt(c)
      PROVE  OneHolder'
  <2>1. Interrupts' \subseteq {c}
    BY <1>1 DEF TypeOK, AddInterrupt, Interrupts
  <2>2. QED BY <2>1 DEF OneHolder
<1>2. CASE Interrupts' \subseteq Interrupts
  BY <1>2 DEF OneHolder
<1>3. ASSUME NEW c \in Call, Closure(c), ~AddInterrupt(c)
      PROVE  Interrupts' \subseteq Interrupts
  BY <1>3 DEF TypeOK, Closure, CheckArmed, AdmitCommit, RemoveInterrupt, Finish, Interrupts
<1>4. ASSUME NEW c \in Call, NEW command \in BOOLEAN, NEW cleanup \in BOOLEAN,
             Register(c, command, cleanup)
      PROVE  Interrupts' \subseteq Interrupts
  BY <1>4 DEF TypeOK, Register, Interrupts
<1>5. ASSUME phase' = phase
      PROVE  Interrupts' \subseteq Interrupts
  BY <1>5 DEF Interrupts
<1>6. \/ \E c \in Call : Closure(c)
      \/ \E c \in Call, command, cleanup \in BOOLEAN : Register(c, command, cleanup)
      \/ phase' = phase
  BY DEF Next, Stop, Cancel, StopWith, MarkCancelled, InterruptIfExpired, Interrupt, TimerFires,
         WorkerFinishes, Joiner, JoinEnable, JoinCheck, JoinWake, Tick, vars, calls
<1>7. QED BY <1>1, <1>2, <1>3, <1>4, <1>5, <1>6

\* A step that leaves the clock, the cutoffs and the timers alone.
SameWatch == UNCHANGED <<now, budget, timers>> /\ (join = "joined" => join' = "joined")

LEMMA SameWatchOK ==
  ASSUME TimersFollowStops, Watched, SameWatch
  PROVE  TimersFollowStops' /\ Watched'
  BY DEF SameWatch, TimersFollowStops, Watched

LEMMA WatchStep ==
  ASSUME TypeOK, CutoffsOrdered, RevokedIsOver, TimersFollowStops, Watched, [Next]_vars
  PROVE  TimersFollowStops' /\ Watched'
<1>1. /\ now \in Time /\ timers \subseteq Time
      /\ budget # None => /\ budget.grace \in Time /\ budget.cleanup \in Time
                          /\ budget.grace <= budget.cleanup
  BY DEF TypeOK, Budget, CutoffsOrdered
<1>2. ASSUME NEW g \in Time, NEW k \in Time, StopWith(g, k)
      PROVE  TimersFollowStops' /\ Watched'
  <2>1. /\ now' = now /\ now \in timers' /\ budget' # None
        /\ budget'.grace \in Time /\ budget'.cleanup \in Time
    BY <1>2, StopWithOK DEF StopWith, Budget
  <2>2. \A x \in Time : x > now => now <= x
    BY <1>1, TimeAssumption DEF Time
  <2>3. QED BY <2>1, <2>2 DEF TimersFollowStops, Watched
<1>3. ASSUME NEW t \in Time, TimerFires(t)
      PROVE  TimersFollowStops' /\ Watched'
  <2>1. UNCHANGED <<now, budget, join>> /\ budget # None
    BY <1>3 DEF TimerFires, TimersFollowStops, stopping, joining
  <2>2. join # "joined" => timers' = (timers \ {t}) \cup NextCutoff
    BY <1>3 DEF TimerFires
  <2>3. /\ now < budget.grace => budget.grace \in NextCutoff
        /\ ~(now < budget.grace) /\ now < budget.cleanup => budget.cleanup \in NextCutoff
    BY DEF NextCutoff
  <2>4. join # "joined" =>
          /\ budget.grace > now => \E u \in timers' : u <= budget.grace
          /\ budget.cleanup > now => \E u \in timers' : u <= budget.cleanup
    BY <1>1, <2>1, <2>2, <2>3, TimeAssumption DEF Time
  <2>5. QED BY <2>1, <2>4 DEF TimersFollowStops, Watched
<1>4. CASE Tick
  <2>1. now' = now + 1 /\ UNCHANGED <<budget, timers, join>>
    BY <1>4 DEF Tick, stopping, signals, joining
  <2>2. \A x \in Time : x > now' => x > now
    BY <1>1, <2>1, TimeAssumption DEF Time
  <2>3. QED BY <1>1, <2>1, <2>2 DEF TimersFollowStops, Watched
<1>5. ASSUME NEW c \in Call, Closure(c)
      PROVE  SameWatch
  BY <1>5 DEF SameWatch, Closure, AddInterrupt, CheckArmed, AdmitCommit, RemoveInterrupt,
              Finish, stopping, signals, joining
<1>6. ASSUME Joiner
      PROVE  SameWatch
  BY <1>6 DEF SameWatch, Joiner, JoinEnable, JoinCheck, JoinWake, stopping, signals
<1>7. CASE \/ \E c \in Call, command, cleanup \in BOOLEAN : Register(c, command, cleanup)
           \/ MarkCancelled \/ InterruptIfExpired \/ Interrupt \/ WorkerFinishes
           \/ UNCHANGED vars
  <2>1. SameWatch
    BY <1>7 DEF SameWatch, Register, MarkCancelled, InterruptIfExpired, Interrupt,
                WorkerFinishes, vars, stopping, signals, joining
  <2>2. QED BY <2>1, SameWatchOK
<1>8. CASE \/ \E g, k \in Time : Stop(g, k)
           \/ Cancel
  BY <1>1, <1>2, <1>8 DEF Stop, Cancel
<1>9. CASE SameWatch
  BY <1>9, SameWatchOK
<1>10. QED BY <1>3, <1>4, <1>5, <1>6, <1>7, <1>8, <1>9 DEF Next

\* A call that goes on as it was has its cutoff where it was.
LEMMA ExpiredFrame ==
  ASSUME NEW d \in Call, UNCHANGED <<now, budget, cancelled>>, kind'[d] = kind[d]
  PROVE  HasExpired(d)' <=> HasExpired(d)
<1>1. Cutoff(d)' = Cutoff(d)
  BY DEF Cutoff
<1>2. QED BY <1>1 DEF HasExpired

\* A step that keeps whoever is under way, and interrupts nothing less.
SameSignals ==
  /\ UNCHANGED <<now, budget, cancelled, signals>>
  /\ \A d \in InProgress' :
       d \in InProgress /\ kind'[d] = kind[d] /\ (interrupted => interrupted')

LEMMA SameSignalsOK ==
  ASSUME Noticed, SameSignals
  PROVE  Noticed'
<1> SUFFICES ASSUME NEW d \in Call, (d \in InProgress)', HasExpired(d)'
             PROVE  interrupted' \/ UnderWay'
  BY DEF Noticed, InProgress
<1>1. d \in InProgress /\ kind'[d] = kind[d] /\ (interrupted => interrupted')
  BY DEF SameSignals
<1>2. HasExpired(d)
  BY <1>1, ExpiredFrame DEF SameSignals
<1>3. interrupted \/ UnderWay
  BY <1>1, <1>2 DEF Noticed
<1>4. UnderWay' <=> UnderWay
  BY DEF UnderWay, SameSignals, signals
<1>5. QED BY <1>1, <1>3, <1>4

\* The hand-overs: whoever stops being under way has interrupted the statement,
\* and a cutoff that passes finds a timer due.
LEMMA NoticedStep ==
  ASSUME IInv, [Next]_vars
  PROVE  Noticed'
<1> USE DEF IInv
<1>1. InProgress \subseteq Interrupts /\ InProgress \subseteq Live
  BY DEF InProgress, Interrupts, Live
<1>2. ASSUME NEW c \in Call, NEW command \in BOOLEAN, NEW cleanup \in BOOLEAN,
             Register(c, command, cleanup)
      PROVE  SameSignals
  BY <1>2 DEF TypeOK, Register, SameSignals, InProgress, stopping
<1>3. ASSUME NEW c \in Call, AddInterrupt(c) \/ AdmitCommit(c) \/ Finish(c)
      PROVE  SameSignals
  BY <1>3 DEF TypeOK, AddInterrupt, AdmitCommit, Finish, SameSignals, InProgress, stopping
<1>4. ASSUME NEW c \in Call, CheckArmed(c)
      PROVE  Noticed'
  <2>1. c \in Interrupts /\ (InProgress' \subseteq InProgress \cup {c})
    BY <1>4 DEF TypeOK, CheckArmed, InProgress, Interrupts
  <2>2. InProgress' \subseteq {c}
    BY <1>1, <2>1 DEF OneHolder
  <2>3. HasExpired(c)' <=> HasExpired(c)
    BY <1>4, ExpiredFrame DEF CheckArmed, stopping
  <2>4. HasExpired(c) => interrupted'
    BY <1>4 DEF CheckArmed
  <2>5. QED BY <2>2, <2>3, <2>4 DEF Noticed
<1>5. ASSUME NEW c \in Call, RemoveInterrupt(c)
      PROVE  Noticed'
  <2>1. c \in InProgress /\ InProgress' = InProgress \ {c}
    BY <1>5 DEF TypeOK, RemoveInterrupt, InProgress
  <2>2. InProgress' = {}
    BY <1>1, <2>1 DEF OneHolder
  <2>3. QED BY <2>2 DEF Noticed
<1>6. CASE \/ \E g, k \in Time : Stop(g, k)
           \/ Cancel \/ MarkCancelled
  BY <1>6 DEF Stop, Cancel, StopWith, MarkCancelled, Noticed, UnderWay
<1>7. ASSUME Collect, UNCHANGED <<now, budget, cancelled, phase, kind>>
      PROVE  Noticed'
  <2> SUFFICES ASSUME NEW d \in Call, (d \in InProgress)', HasExpired(d)'
               PROVE  delivering'
    BY DEF Noticed, UnderWay, InProgress
  <2>1. d \in Interrupts
    BY <1>1, <1>7 DEF InProgress
  <2>2. HasExpired(d)
    BY <1>7, ExpiredFrame
  <2>3. QED BY <1>7, <2>1, <2>2 DEF Collect
<1>8. CASE InterruptIfExpired
  BY <1>7, <1>8 DEF InterruptIfExpired, calls, stopping
<1>9. CASE Interrupt
  BY <1>9 DEF Interrupt, Noticed, InProgress, calls
<1>10. ASSUME NEW t \in Time, TimerFires(t)
       PROVE  Noticed'
  <2>1. UNCHANGED <<now, budget, cancelled, phase, kind>>
    BY <1>10 DEF TimerFires, calls, stopping
  <2>2. CASE join = "joined"
    <3>1. InProgress' = {}
      BY <1>1, <2>1, <2>2 DEF FinishedIsStopped, InProgress
    <3>2. QED BY <3>1 DEF Noticed
  <2>3. CASE join # "joined"
    BY <1>7, <1>10, <2>1, <2>3 DEF TimerFires
  <2>4. QED BY <2>2, <2>3
<1>11. ASSUME WorkerFinishes \/ Joiner \/ UNCHANGED vars
       PROVE  SameSignals
  BY <1>11 DEF WorkerFinishes, Joiner, JoinEnable, JoinCheck, JoinWake, vars, calls, stopping,
               SameSignals, InProgress
<1>12. CASE Tick
  <2> SUFFICES ASSUME NEW d \in Call, (d \in InProgress)', HasExpired(d)'
               PROVE  interrupted' \/ UnderWay'
    BY DEF Noticed, InProgress
  <2>1. /\ now' = now + 1 /\ d \in InProgress /\ Cutoff(d)' = Cutoff(d)
        /\ UNCHANGED <<budget, cancelled, kind, interrupted, signals>>
    BY <1>12 DEF Tick, InProgress, calls, stopping, Cutoff
  <2>2. now \in Time /\ timers \subseteq Time
    BY DEF TypeOK
  <2>3. CASE HasExpired(d)
    <3>1. interrupted \/ UnderWay
      BY <2>1, <2>3 DEF Noticed
    <3>2. (\E t \in timers : t <= now) => \E t \in timers : t <= now + 1
      BY <2>2, TimeAssumption DEF Time
    <3>3. QED BY <2>1, <3>1, <3>2 DEF UnderWay, signals
  <2>4. CASE ~HasExpired(d)
    <3>1. budget # None /\ ~(now >= Cutoff(d)) /\ now + 1 >= Cutoff(d)
      BY <2>1, <2>4 DEF HasExpired
    <3>2. join # "joined"
      BY <1>1, <2>1 DEF FinishedIsStopped
    <3>3. Cutoff(d) \in {budget.grace, budget.cleanup} /\ Cutoff(d) \in Int
      BY <3>1, TimeAssumption DEF Cutoff, TypeOK, Budget, Time
    <3>4. PICK t \in timers : t <= Cutoff(d)
      BY <2>2, <3>1, <3>2, <3>3, TimeAssumption DEF Watched, Time
    <3>5. t <= now + 1
      BY <2>2, <3>1, <3>3, <3>4, TimeAssumption DEF Time
    <3>6. QED BY <2>1, <3>4, <3>5 DEF UnderWay, signals
  <2>5. QED BY <2>3, <2>4
<1>13. CASE SameSignals
  BY <1>13, SameSignalsOK
<1>14. CASE SameSignals \/ \E c \in Call : CheckArmed(c) \/ RemoveInterrupt(c)
  BY <1>4, <1>5, <1>13, <1>14
<1>15. QED
  BY <1>2, <1>3, <1>6, <1>8, <1>9, <1>10, <1>11, <1>12, <1>13, <1>14 DEF Next, Closure

-----------------------------------------------------------------------------
(* The theorems                                                            *)

LEMMA InitIInv == Init => IInv
<1> SUFFICES ASSUME Init PROVE IInv
  OBVIOUS
<1>1. Live = {} /\ Interrupts = {} /\ InProgress = {}
  BY DEF Init, Live, Interrupts, InProgress
<1>2. Counted
  <2>1. LiveCommands = {}
    BY <1>1 DEF LiveCommands
  <2>2. Cardinality(Live) = 0 /\ Cardinality(LiveCommands) = 0
    BY <1>1, <2>1, FS_EmptySet
  <2>3. active = 0 /\ commands = 0
    BY DEF Init
  <2>4. QED BY <2>2, <2>3, CapacityTyped DEF Counted
<1>3. CutoffsOrdered /\ RevokedIsOver /\ TimersFollowStops /\ Watched
  BY DEF Init, CutoffsOrdered, RevokedIsOver, TimersFollowStops, Watched
<1>4. FinishedIsStopped /\ OneHolder /\ Noticed
  BY <1>1 DEF Init, FinishedIsStopped, OneHolder, Noticed
<1>5. QED BY <1>2, <1>3, <1>4, InitTyped DEF IInv

LEMMA StepIInv ==
  ASSUME IInv, [Next]_vars
  PROVE  IInv'
<1>1. TypeOK'
  BY StepTyped DEF IInv
<1>2. CutoffsOrdered' /\ RevokedIsOver'
  BY BudgetStep DEF IInv
<1>3. Counted' /\ FinishedIsStopped'
  BY GuardStep DEF IInv
<1>4. OneHolder'
  BY HolderStep DEF IInv
<1>5. TimersFollowStops' /\ Watched'
  BY WatchStep DEF IInv
<1>6. Noticed'
  BY NoticedStep
<1>7. QED BY <1>1, <1>2, <1>3, <1>4, <1>5, <1>6 DEF IInv

\* Every reachable state satisfies the inductive invariant.
THEOREM IInvHolds == Spec => []IInv
<1>1. IInv /\ [Next]_vars => IInv'
  BY StepIInv
<1>2. QED BY <1>1, InitIInv, PTL DEF Spec

\* No interleaving takes a variable out of its type; in particular no guard is
\* dropped twice, so that neither counter goes below zero.
THEOREM TypeCorrect == Spec => []TypeOK
<1>1. IInv => TypeOK
  BY DEF IInv
<1>2. QED BY <1>1, IInvHolds, PTL

\* However the callers of `run` give up waiting, the command closures that are
\* physically alive never outnumber the capacity.
THEOREM CapacityHolds == Spec => []CapacityIsPhysical
<1>1. IInv => CapacityIsPhysical
  BY DEF IInv, Counted, CapacityIsPhysical, LiveCommands
<1>2. QED BY <1>1, IInvHolds, PTL

\* Repeated stops and cancellations, in any order, keep the grace cutoff no
\* later than the cleanup cutoff.
THEOREM CutoffsStayOrdered == Spec => []CutoffsOrdered
<1>1. IInv => CutoffsOrdered
  BY DEF IInv
<1>2. QED BY <1>1, IInvHolds, PTL

\* No stop or cancellation ever gives back time that an earlier one took.
THEOREM CutoffsOnlyShrink == Spec => CutoffsShrink
<1>1. IInv /\ [Next]_vars =>
        [budget # None =>
           /\ budget' # None
           /\ budget'.grace <= budget.grace /\ budget'.cleanup <= budget.cleanup]_vars
  BY BudgetStep DEF IInv
<1>2. QED BY <1>1, IInvHolds, PTL DEF Spec, CutoffsShrink

\* Once a second stop or a cancellation has begun, the commit hook admits no
\* ordinary transaction, even between the two locks that `cancel` takes.
THEOREM RevokedWorkNeverCommits == Spec => RevokedCommitsNothing
<1>1. ASSUME IInv, NEW c \in Call, cancelled \/ cancelling, AdmitCommit(c)
      PROVE  kind[c].cleanup
  <2>1. /\ cancelled => kind[c].cleanup
        /\ budget # None => now < Cutoff(c)
    BY <1>1 DEF AdmitCommit, MayCommit
  <2>2. /\ budget # None /\ budget.grace <= now
        /\ now \in Int /\ budget.grace \in Int
    BY <1>1, TimeAssumption DEF IInv, RevokedIsOver, TypeOK, Budget, Time
  <2>3. ~kind[c].cleanup => Cutoff(c) = budget.grace
    BY DEF Cutoff
  <2>4. QED BY <2>1, <2>2, <2>3
<1>2. IInv /\ [Next]_vars =>
        [\A c \in Call : (cancelled \/ cancelling) /\ AdmitCommit(c) => kind[c].cleanup]_vars
  BY <1>1
<1>3. QED BY <1>2, IInvHolds, PTL DEF Spec, RevokedCommitsNothing

\* When the owning join returns, every admitted closure has ended and none can
\* be admitted any more, whatever became of the tasks that awaited them.
THEOREM JoinedStaysQuiet == Spec => []JoinedIsQuiet
<1>1. IInv => JoinedIsQuiet
  BY DEF IInv, FinishedIsStopped, JoinedIsQuiet
<1>2. QED BY <1>1, IInvHolds, PTL

\* No interrupt is lost between registering a statement, shortening a cutoff and
\* the timer that watches it: with nothing owed, what has expired was interrupted.
THEOREM NoInterruptIsLost == Spec => []ExpiredIsInterrupted
<1>1. IInv => ExpiredIsInterrupted
  <2> SUFFICES ASSUME IInv, ~checking, ~delivering, \A t \in timers : t > now,
                      NEW c \in InProgress, HasExpired(c)
               PROVE  interrupted
    BY DEF ExpiredIsInterrupted
  <2>1. \A t \in timers : ~(t <= now)
    BY TimeAssumption DEF IInv, TypeOK, Time
  <2>2. QED BY <2>1 DEF IInv, Noticed, UnderWay
<1>2. QED BY <1>1, IInvHolds, PTL
=============================================================================
