---------------------------- MODULE ScheduleRows ----------------------------
(***************************************************************************)
(* The one table sc-cron keeps, sc_cron_schedule, and the statements its   *)
(* SQLite store runs over it, as operators from the rows to the rows.      *)
(*                                                                         *)
(* Every call of SqliteScheduleStore is one statement or one IMMEDIATE     *)
(* transaction, so a call is one step of whoever makes it: the modules     *)
(* that EXTEND this one differ in who calls, in which order, and in what   *)
(* the callers remember between two calls.                                 *)
(*                                                                         *)
(* A row is keyed by its name.  The code keys the guarded writes by id;    *)
(* no statement deletes a row or changes a row's name or id, so a name     *)
(* and its id determine each other and the pair (id, generation) of the    *)
(* code is the pair (name, generation) here.  Expression, timeout, jitter, *)
(* payload, hook and environment travel with the row and are not read by   *)
(* any guard of the store.                                                 *)
(***************************************************************************)
EXTENDS Integers, FiniteSets

CONSTANTS
  Name,          \* schedule names
  MaxGeneration, \* the last generation a row can have (u32::MAX in the code)
  Unlimited,     \* the value of an unset ScheduleLimits::max_schedule_rows
  None,          \* SQL NULL
  NoRow          \* what the table holds for a name that was never written

ASSUME GenerationAssumption == MaxGeneration \in Nat \ {0}

Generation == 1 .. MaxGeneration

\* Rows whose instants are in Times and whose recorded outcomes are in Outcomes.
RowSet(Times, Outcomes) ==
  [generation : Generation,
   enabled    : BOOLEAN,
   next       : Times \cup {None},
   last       : Outcomes \cup {None},
   ended      : BOOLEAN]

IsActive(rows, n) == rows[n] # NoRow /\ ~rows[n].ended

ActiveNames(rows) == {n \in Name : IsActive(rows, n)}

\* What a row says of its name's life in ScheduleLifecycle.
LifeOf(row) ==
  IF row = NoRow THEN [generation |-> 0, active |-> FALSE]
  ELSE [generation |-> row.generation, active |-> ~row.ended]

-----------------------------------------------------------------------------
(* Writes fenced by (id, generation): they change nothing, and answer      *)
(* FALSE, unless the pair is the active schedule.                          *)

\* (The mutant drops the generation from the WHERE clause.)
MatchesAnyGeneration(rows, n, g) == IsActive(rows, n)

Matches(rows, n, g) == IsActive(rows, n) /\ rows[n].generation = g

MatchesEnabled(rows, n, g) == Matches(rows, n, g) /\ rows[n].enabled

RecordRun(rows, n, g, outcome) ==
  IF Matches(rows, n, g) THEN [rows EXCEPT ![n].last = outcome] ELSE rows

SetNext(rows, n, g, t) ==
  IF MatchesEnabled(rows, n, g) THEN [rows EXCEPT ![n].next = t] ELSE rows

Stop(rows, n, g) ==
  IF Matches(rows, n, g)
  THEN [rows EXCEPT ![n].ended = TRUE, ![n].next = None]
  ELSE rows

Disable(rows, n, g, outcome) ==
  IF Matches(rows, n, g)
  THEN [rows EXCEPT ![n].enabled = FALSE, ![n].last = outcome]
  ELSE rows

-----------------------------------------------------------------------------
(* Writes by name.                                                         *)

\* flags is a function from some names to BOOLEAN; one absent or ended name
\* rolls the whole list back.
FlagsMatch(rows, flags) == \A n \in DOMAIN flags : IsActive(rows, n)

SetFlags(rows, flags) ==
  [n \in Name |-> IF n \in DOMAIN flags
                  THEN [rows[n] EXCEPT !.enabled = flags[n]]
                  ELSE rows[n]]

\* (The mutant compares with <=.)
HasRoomAtLimit(rows, limit) ==
  limit # Unlimited => Cardinality(ActiveNames(rows)) <= limit

\* The row limit counts every row that has not ended, enabled or not.
HasRoom(rows, limit) ==
  limit # Unlimited => Cardinality(ActiveNames(rows)) < limit

\* (The mutant does not check the counter.)
GenerationUnchecked(rows, n) == TRUE

GenerationLeft(rows, n) == rows[n] # NoRow => rows[n].generation < MaxGeneration

\* (The mutant starts an ended schedule again without a new generation.)
WrittenSameGeneration(rows, n, t, enabled) ==
  [rows EXCEPT ![n] =
     [generation |-> IF rows[n] = NoRow THEN 1 ELSE rows[n].generation,
      enabled    |-> enabled,
      next       |-> t,
      last       |-> None,
      ended      |-> FALSE]]

\* A new name starts at the first generation.  A row that exists is rewritten
\* in place: next generation, run state and end state cleared.
Written(rows, n, t, enabled) ==
  [rows EXCEPT ![n] =
     [generation |-> IF rows[n] = NoRow THEN 1 ELSE rows[n].generation + 1,
      enabled    |-> enabled,
      next       |-> t,
      last       |-> None,
      ended      |-> FALSE]]

CanCreate(rows, n, limit) ==
  /\ ~IsActive(rows, n)
  /\ HasRoom(rows, limit)
  /\ GenerationLeft(rows, n)

\* An active name is already counted, so replacing it claims no room.
CanReplace(rows, n, limit, flags) ==
  /\ n \notin DOMAIN flags
  /\ IsActive(rows, n) \/ HasRoom(rows, limit)
  /\ GenerationLeft(rows, n)
  /\ FlagsMatch(rows, flags)

\* (The mutant leaves the flags of the other rows to a later call.)
ReplacedAlone(rows, n, t, enabled, flags) == Written(rows, n, t, enabled)

Replaced(rows, n, t, enabled, flags) ==
  SetFlags(Written(rows, n, t, enabled), flags)
=============================================================================
