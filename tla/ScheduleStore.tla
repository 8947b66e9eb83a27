---------------------------- MODULE ScheduleStore ----------------------------
(***************************************************************************)
(* Several processes writing one schedule database.                        *)
(*                                                                         *)
(* Each writer opened the store with its own row limit (the limit is not   *)
(* kept in the database) and remembers at most one schedule it read        *)
(* earlier, as the (id, generation) pair every run-state write names.      *)
(* Between the read and the write any other writer may end, restart,       *)
(* replace or disable that schedule: the pair is then stale, and the fence *)
(* in the statement is all that protects the newer generation.             *)
(*                                                                         *)
(* The names in Exclusive belong to callers that use the two multi-row     *)
(* writes to keep at most one of those rows enabled: they enable a row     *)
(* only in a call that disables every other row of the group.              *)
(***************************************************************************)
EXTENDS ScheduleRows

CONSTANTS
  Writer,    \* processes that opened the database
  Limit,     \* the ScheduleLimits each opened it with
  Time,      \* instants a next run can have
  Exclusive  \* names whose callers keep at most one of them enabled

ASSUME LimitAssumption == Limit \in [Writer -> (Nat \ {0}) \cup {Unlimited}]
ASSUME ExclusiveAssumption == Exclusive \subseteq Name
ASSUME NoneAssumption == None \notin Time \cup Generation
ASSUME NoRowAssumption == NoRow \notin RowSet(Time, Generation)
ASSUME FiniteAssumption == IsFiniteSet(Name)
ASSUME UnlimitedAssumption == Unlimited \notin Nat

VARIABLES
  rows,  \* the table: for each name its row, or NoRow
  held   \* for each writer, the schedule it last read: <<name, generation>> or None

vars == <<rows, held>>

Token == Name \X Generation

-----------------------------------------------------------------------------
(* Reading                                                                 *)

\* list_active, or the schedule a create or replace returns.
Read(w, n) ==
  /\ IsActive(rows, n)
  /\ held' = [held EXCEPT ![w] = <<n, rows[n].generation>>]
  /\ UNCHANGED rows

-----------------------------------------------------------------------------
(* Fenced writes, through the schedule a writer remembers.  The outcome a  *)
(* run leaves in the row is represented by the generation that ran.        *)

RecordRunCall(w) ==
  \E n \in Name, g \in Generation :
    /\ held[w] = <<n, g>>
    /\ rows' = RecordRun(rows, n, g, g)
    /\ UNCHANGED held

SetNextCall(w, t) ==
  \E n \in Name, g \in Generation :
    /\ held[w] = <<n, g>>
    /\ rows' = SetNext(rows, n, g, t)
    /\ UNCHANGED held

StopCall(w) ==
  \E n \in Name, g \in Generation :
    /\ held[w] = <<n, g>>
    /\ rows' = Stop(rows, n, g)
    /\ UNCHANGED held

DisableCall(w) ==
  \E n \in Name, g \in Generation :
    /\ held[w] = <<n, g>>
    /\ rows' = Disable(rows, n, g, g)
    /\ UNCHANGED held

-----------------------------------------------------------------------------
(* Writes by name                                                          *)

Create(w, n, t) ==
  /\ n \notin Exclusive
  /\ CanCreate(rows, n, Limit[w])
  /\ rows' = Written(rows, n, t, TRUE)
  /\ UNCHANGED held

SetEnabled(n, enabled) ==
  /\ IsActive(rows, n)
  /\ enabled => n \notin Exclusive
  /\ rows' = SetFlags(rows, [m \in {n} |-> enabled])
  /\ UNCHANGED held

\* The lists of flags a caller may pass: it may enable one row of the group,
\* and then it disables all the others in the same call.
AllowedFlags(flags) ==
  \A n \in Exclusive \cap DOMAIN flags :
    flags[n] => \A m \in Exclusive \ {n} : m \in DOMAIN flags /\ ~flags[m]

Flags == UNION {[S -> BOOLEAN] : S \in SUBSET Name}

SetEnabledMany(flags) ==
  /\ AllowedFlags(flags)
  /\ FlagsMatch(rows, flags)
  /\ rows' = SetFlags(rows, flags)
  /\ UNCHANGED held

ReplaceAndSetEnabled(w, n, t, enabled, flags) ==
  /\ n \in Exclusive /\ enabled =>
       \A m \in Exclusive \ {n} : m \in DOMAIN flags /\ ~flags[m]
  /\ \A m \in Exclusive \cap DOMAIN flags : ~flags[m]
  /\ CanReplace(rows, n, Limit[w], flags)
  /\ rows' = Replaced(rows, n, t, enabled, flags)
  /\ UNCHANGED held

-----------------------------------------------------------------------------
Init ==
  /\ rows = [n \in Name |-> NoRow]
  /\ held = [w \in Writer |-> None]

FencedNext(w) ==
  \/ \E n \in Name : Read(w, n)
  \/ RecordRunCall(w)
  \/ \E t \in Time : SetNextCall(w, t)
  \/ StopCall(w)
  \/ DisableCall(w)

NamedNext(w) ==
  \/ \E n \in Name, t \in Time : Create(w, n, t)
  \/ \E n \in Name, enabled \in BOOLEAN : SetEnabled(n, enabled)
  \/ \E flags \in Flags : SetEnabledMany(flags)
  \/ \E n \in Name, t \in Time, enabled \in BOOLEAN, flags \in Flags :
       ReplaceAndSetEnabled(w, n, t, enabled, flags)

Next == \E w \in Writer : FencedNext(w) \/ NamedNext(w)

Spec == Init /\ [][Next]_vars

-----------------------------------------------------------------------------
(* Properties                                                              *)

\* The table holds well-formed rows and writers remember schedules.
TypeOK ==
  /\ rows \in [Name -> RowSet(Time, Generation) \cup {NoRow}]
  /\ held \in [Writer -> Token \cup {None}]

\* The table's CHECK never refuses one of these writes: a row has a next run
\* exactly while it is active, whatever stale writes reached it.
NextWhileActive ==
  \A n \in Name : rows[n] # NoRow => (rows[n].ended <=> rows[n].next = None)

\* Generation fencing (REQ-CRON-0007): an outcome in a row was produced by a
\* run of the row's own generation, so a run that outlives its schedule never
\* writes over a restarted or replaced one.
OutcomeOfGeneration ==
  \A n \in Name :
    rows[n] # NoRow /\ rows[n].last # None => rows[n].last = rows[n].generation

\* The row ceiling: however the writers interleave, the rows that have not
\* ended never outnumber the largest limit a writer opened the database with
\* (all writers use one limit when they follow the documented rule).
RowLimit ==
  \/ \A n \in Name : ~IsActive(rows, n)
  \/ \E w \in Writer : \/ Limit[w] = Unlimited
                       \/ Cardinality(ActiveNames(rows)) <= Limit[w]

\* REQ-CRON-0017: callers that switch a group with the multi-row writes never
\* leave two of its rows enabled, whatever ends, restarts or replaces rows of
\* the group between their calls.
AtMostOneEnabled ==
  \A n, m \in Exclusive :
    IsActive(rows, n) /\ IsActive(rows, m) /\ rows[n].enabled /\ rows[m].enabled
      => n = m

\* Every write keeps the promise of ScheduleLifecycle: a name's generations
\* follow one another and an ended generation stays ended.
Lifecycle == INSTANCE ScheduleLifecycle WITH life <- [n \in Name |-> LifeOf(rows[n])]

LifecycleSpec == Lifecycle!Spec
=============================================================================
