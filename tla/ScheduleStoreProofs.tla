------------------------- MODULE ScheduleStoreProofs -------------------------
(***************************************************************************)
(* Proofs about ScheduleStore, for every set of names, writers, limits and *)
(* instants and every bound on the generation.                             *)
(*                                                                         *)
(* Every step of ScheduleStore is one of the writes of ScheduleRows, so    *)
(* the proofs go in two layers.  The first lemmas say what each write does *)
(* to a well-formed table, without a state: the shape of the rows          *)
(* (RowsOK), and which names are active afterwards.  The steps of the      *)
(* invariants then cite the lemma of the write they make.                  *)
(***************************************************************************)
EXTENDS ScheduleStore, FiniteSetTheorems, TLAPS

Rows == [Name -> RowSet(Time, Generation) \cup {NoRow}]

\* A well-formed table: the rows are records of the table, each has a next run
\* exactly while it is active, and an outcome of its own generation.
RowOK(row) ==
  row # NoRow =>
    /\ row.ended <=> row.next = None
    /\ row.last # None => row.last = row.generation

RowsOK(table) == table \in Rows /\ \A n \in Name : RowOK(table[n])

\* What the invariants below have in common.
IInv == TypeOK /\ NextWhileActive /\ OutcomeOfGeneration

LEMMA IInvRows == IInv <=> RowsOK(rows) /\ held \in [Writer -> Token \cup {None}]
  BY DEF IInv, TypeOK, NextWhileActive, OutcomeOfGeneration, RowsOK, RowOK, Rows

-----------------------------------------------------------------------------
(* The writes                                                              *)

\* A write that replaces one row by a well-formed row keeps the table
\* well-formed.
LEMMA OneRowOK ==
  ASSUME NEW table, RowsOK(table), NEW n \in Name,
         NEW row \in RowSet(Time, Generation), RowOK(row)
  PROVE  RowsOK([table EXCEPT ![n] = row])
  BY DEF RowsOK, Rows

FencedWrite(table, n, g, written) ==
  \/ written = RecordRun(table, n, g, g)
  \/ \E t \in Time : written = SetNext(table, n, g, t)
  \/ written = Stop(table, n, g)
  \/ written = Disable(table, n, g, g)

\* The four fenced writes keep the table well-formed, and none of them makes
\* a name active or enables a row.
LEMMA FencedOK ==
  ASSUME NEW table, RowsOK(table), NEW n \in Name, NEW g \in Generation,
         NEW written, FencedWrite(table, n, g, written)
  PROVE  /\ RowsOK(written)
         /\ \A m \in Name :
              /\ IsActive(written, m) => IsActive(table, m)
              /\ IsActive(written, m) /\ written[m].enabled => table[m].enabled
         /\ \A m \in Name \ {n} : written[m] = table[m]
         /\ \/ LifeOf(written[n]) = LifeOf(table[n])
            \/ /\ LifeOf(table[n]) = [generation |-> g, active |-> TRUE]
               /\ LifeOf(written[n]) = [generation |-> g, active |-> FALSE]
<1> DEFINE row == table[n]
<1>1. CASE ~Matches(table, n, g)
  <2>1. written = table
    BY <1>1 DEF FencedWrite, RecordRun, SetNext, Stop, Disable, MatchesEnabled
  <2>2. QED BY <2>1
<1>2. CASE Matches(table, n, g)
  <2>1. row \in RowSet(Time, Generation) /\ RowOK(row) /\ ~row.ended /\ row.generation = g
    BY <1>2 DEF Matches, IsActive, RowsOK, Rows
  <2>2. \E new \in RowSet(Time, Generation) :
          /\ written = [table EXCEPT ![n] = new]
          /\ RowOK(new)
          /\ new.enabled => row.enabled
          /\ new.generation = row.generation
    <3>1. CASE written = RecordRun(table, n, g, g)
      <4> DEFINE new == [row EXCEPT !.last = g]
      <4>1. written = [table EXCEPT ![n] = new]
        BY <3>1, <1>2 DEF RecordRun
      <4>2. new \in RowSet(Time, Generation) /\ RowOK(new) /\ new.enabled = row.enabled /\ new.generation = row.generation
        BY <2>1, NoRowAssumption DEF RowSet, RowOK
      <4>3. QED BY <4>1, <4>2
    <3>2. CASE \E t \in Time : written = SetNext(table, n, g, t)
      <4> PICK t \in Time : written = SetNext(table, n, g, t)
        BY <3>2
      <4> DEFINE new == [row EXCEPT !.next = t]
      <4>1. CASE MatchesEnabled(table, n, g)
        <5>1. written = [table EXCEPT ![n] = new]
          BY <4>1 DEF SetNext
        <5>2. new \in RowSet(Time, Generation) /\ RowOK(new) /\ new.enabled = row.enabled /\ new.generation = row.generation
          BY <2>1, NoneAssumption, NoRowAssumption DEF RowSet, RowOK
        <5>3. QED BY <5>1, <5>2
      <4>2. CASE ~MatchesEnabled(table, n, g)
        <5>1. written = [table EXCEPT ![n] = row]
          BY <4>2 DEF SetNext, RowsOK, Rows
        <5>2. QED BY <5>1, <2>1
      <4>3. QED BY <4>1, <4>2
    <3>3. CASE written = Stop(table, n, g)
      <4> DEFINE new == [row EXCEPT !.ended = TRUE, !.next = None]
      <4>1. written = [table EXCEPT ![n] = new]
        BY <3>3, <1>2 DEF Stop, RowsOK, Rows
      <4>2. new \in RowSet(Time, Generation) /\ RowOK(new) /\ new.enabled = row.enabled /\ new.generation = row.generation
        BY <2>1, NoRowAssumption DEF RowSet, RowOK
      <4>3. QED BY <4>1, <4>2
    <3>4. CASE written = Disable(table, n, g, g)
      <4> DEFINE new == [row EXCEPT !.enabled = FALSE, !.last = g]
      <4>1. written = [table EXCEPT ![n] = new]
        BY <3>4, <1>2 DEF Disable, RowsOK, Rows
      <4>2. new \in RowSet(Time, Generation) /\ RowOK(new) /\ ~new.enabled /\ new.generation = row.generation
        BY <2>1, NoRowAssumption DEF RowSet, RowOK
      <4>3. QED BY <4>1, <4>2
    <3>5. QED BY <3>1, <3>2, <3>3, <3>4 DEF FencedWrite
  <2>3. PICK new \in RowSet(Time, Generation) :
          /\ written = [table EXCEPT ![n] = new]
          /\ RowOK(new)
          /\ new.enabled => row.enabled
          /\ new.generation = row.generation
    BY <2>2
  <2>4. RowsOK(written)
    BY <2>3, OneRowOK
  <2>5. \A m \in Name : written[m] = IF m = n THEN new ELSE table[m]
    BY <2>3 DEF RowsOK, Rows
  <2>6. IsActive(table, n)
    BY <1>2 DEF Matches
  <2>7. LifeOf(written[n]) = [generation |-> g, active |-> ~new.ended]
    BY <2>1, <2>3, <2>5, NoRowAssumption DEF LifeOf
  <2>8. LifeOf(table[n]) = [generation |-> g, active |-> TRUE]
    BY <2>1, <2>6 DEF LifeOf, IsActive
  <2>9. CASE new.ended
    <3>1. LifeOf(written[n]) = [generation |-> g, active |-> FALSE]
      BY <2>7, <2>9
    <3>2. QED BY <2>3, <2>4, <2>5, <2>6, <2>8, <3>1 DEF IsActive
  <2>10. CASE ~new.ended
    <3>1. LifeOf(written[n]) = LifeOf(table[n])
      BY <2>7, <2>8, <2>10
    <3>2. QED BY <2>3, <2>4, <2>5, <2>6, <3>1 DEF IsActive
  <2>11. QED BY <2>9, <2>10
<1>3. QED BY <1>1, <1>2

FlagsOK(flags) ==
  DOMAIN flags \subseteq Name /\ \A n \in DOMAIN flags : flags[n] \in BOOLEAN

\* Setting flags of active names keeps the table well-formed and changes
\* nothing but the flags of the names listed.
LEMMA SetFlagsOK ==
  ASSUME NEW table, RowsOK(table), NEW flags,
         FlagsOK(flags), FlagsMatch(table, flags)
  PROVE  /\ RowsOK(SetFlags(table, flags))
         /\ \A n \in Name :
              /\ IsActive(SetFlags(table, flags), n) <=> IsActive(table, n)
              /\ IsActive(table, n) /\ SetFlags(table, flags)[n].enabled =>
                   IF n \in DOMAIN flags THEN flags[n] ELSE table[n].enabled
              /\ LifeOf(SetFlags(table, flags)[n]) = LifeOf(table[n])
<1> DEFINE new == SetFlags(table, flags)
<1>1. \A n \in Name : new[n] = IF n \in DOMAIN flags
                               THEN [table[n] EXCEPT !.enabled = flags[n]]
                               ELSE table[n]
  BY DEF SetFlags
<1>2. ASSUME NEW n \in Name
      PROVE  /\ new[n] \in RowSet(Time, Generation) \cup {NoRow}
             /\ RowOK(new[n])
             /\ IsActive(new, n) <=> IsActive(table, n)
             /\ IsActive(table, n) /\ new[n].enabled =>
                  IF n \in DOMAIN flags THEN flags[n] ELSE table[n].enabled
             /\ LifeOf(new[n]) = LifeOf(table[n])
  <2>1. CASE n \in DOMAIN flags
    <3>1. IsActive(table, n)
      BY <2>1 DEF FlagsMatch
    <3>2. table[n] \in RowSet(Time, Generation) /\ RowOK(table[n]) /\ ~table[n].ended
      BY <3>1 DEF RowsOK, Rows, IsActive
    <3>3. [table[n] EXCEPT !.enabled = flags[n]] \in RowSet(Time, Generation)
      BY <2>1, <3>2 DEF RowSet, FlagsOK
    <3>4. /\ [table[n] EXCEPT !.enabled = flags[n]].ended = table[n].ended
          /\ [table[n] EXCEPT !.enabled = flags[n]].next = table[n].next
          /\ [table[n] EXCEPT !.enabled = flags[n]].last = table[n].last
          /\ [table[n] EXCEPT !.enabled = flags[n]].generation = table[n].generation
          /\ [table[n] EXCEPT !.enabled = flags[n]].enabled = flags[n]
      BY <3>2 DEF RowSet
    <3>5. new[n] = [table[n] EXCEPT !.enabled = flags[n]]
      BY <1>1, <2>1
    <3>6. new[n] # NoRow
      BY <3>3, <3>5, NoRowAssumption
    <3> HIDE DEF new
    <3>7. QED BY <2>1, <3>1, <3>2, <3>3, <3>4, <3>5, <3>6 DEF RowOK, IsActive, LifeOf
  <2>2. CASE n \notin DOMAIN flags
    <3>1. new[n] = table[n]
      BY <1>1, <2>2
    <3> HIDE DEF new
    <3>2. QED BY <3>1, <2>2 DEF RowsOK, Rows, IsActive
  <2>3. QED BY <2>1, <2>2
<1>3. new = [n \in Name |-> new[n]]
  BY DEF SetFlags
<1> HIDE DEF new
<1>4. RowsOK(new)
  BY <1>2, <1>3 DEF RowsOK, Rows
<1>5. QED BY <1>2, <1>4 DEF new

\* A created or replaced row is well-formed and active; the others stay.
LEMMA WrittenOK ==
  ASSUME NEW table, RowsOK(table), NEW n \in Name, NEW t \in Time,
         NEW enabled \in BOOLEAN, GenerationLeft(table, n)
  PROVE  /\ RowsOK(Written(table, n, t, enabled))
         /\ \A m \in Name : IsActive(Written(table, n, t, enabled), m)
                              <=> m = n \/ IsActive(table, m)
         /\ Written(table, n, t, enabled)[n].enabled => enabled
         /\ \A m \in Name \ {n} : Written(table, n, t, enabled)[m] = table[m]
         /\ LifeOf(Written(table, n, t, enabled)[n]) =
              [generation |-> LifeOf(table[n]).generation + 1, active |-> TRUE]
<1> DEFINE row == [generation |-> IF table[n] = NoRow THEN 1 ELSE table[n].generation + 1,
                   enabled    |-> enabled,
                   next       |-> t,
                   last       |-> None,
                   ended      |-> FALSE]
<1>1. row.generation \in Generation
  <2>1. CASE table[n] = NoRow
    BY <2>1, GenerationAssumption DEF Generation
  <2>2. CASE table[n] # NoRow
    <3>1. table[n].generation \in Generation /\ table[n].generation < MaxGeneration
      BY <2>2 DEF RowsOK, Rows, RowSet, GenerationLeft
    <3>2. QED BY <2>2, <3>1, GenerationAssumption DEF Generation
  <2>3. QED BY <2>1, <2>2
<1>2. row \in RowSet(Time, Generation)
  BY <1>1 DEF RowSet
<1>3. row # NoRow /\ RowOK(row)
  BY <1>2, NoRowAssumption, NoneAssumption DEF RowOK
<1>4. Written(table, n, t, enabled) = [table EXCEPT ![n] = row]
  BY DEF Written
<1>5. /\ ~row.ended /\ row.enabled = enabled
      /\ row.generation = LifeOf(table[n]).generation + 1
  BY DEF LifeOf
<1> HIDE DEF row
<1>6. \A m \in Name : Written(table, n, t, enabled)[m] = IF m = n THEN row ELSE table[m]
  BY <1>4 DEF RowsOK, Rows
<1>7. RowsOK(Written(table, n, t, enabled))
  <2>1. RowsOK([table EXCEPT ![n] = row])
    BY <1>2, <1>3, OneRowOK
  <2>2. QED BY <1>4, <2>1
<1>8. LifeOf(row) = [generation |-> row.generation, active |-> TRUE]
  BY <1>3, <1>5 DEF LifeOf
<1>9. QED BY <1>3, <1>5, <1>6, <1>7, <1>8 DEF IsActive

LEMMA ReplacedOK ==
  ASSUME NEW table, RowsOK(table), NEW n \in Name, NEW t \in Time,
         NEW enabled \in BOOLEAN, NEW flags, FlagsOK(flags),
         n \notin DOMAIN flags, GenerationLeft(table, n), FlagsMatch(table, flags)
  PROVE  /\ RowsOK(Replaced(table, n, t, enabled, flags))
         /\ \A m \in Name :
              IsActive(Replaced(table, n, t, enabled, flags), m)
                <=> m = n \/ IsActive(table, m)
         /\ Replaced(table, n, t, enabled, flags)[n].enabled => enabled
         /\ \A m \in Name \ {n} :
              IsActive(table, m) /\ Replaced(table, n, t, enabled, flags)[m].enabled =>
                  IF m \in DOMAIN flags THEN flags[m] ELSE table[m].enabled
         /\ \A m \in Name \ {n} :
              LifeOf(Replaced(table, n, t, enabled, flags)[m]) = LifeOf(table[m])
         /\ LifeOf(Replaced(table, n, t, enabled, flags)[n]) =
              [generation |-> LifeOf(table[n]).generation + 1, active |-> TRUE]
<1> DEFINE mid == Written(table, n, t, enabled)
<1>1. /\ RowsOK(mid)
      /\ \A m \in Name : IsActive(mid, m) <=> m = n \/ IsActive(table, m)
      /\ (mid[n].enabled => enabled)
      /\ \A m \in Name \ {n} : mid[m] = table[m]
      /\ LifeOf(mid[n]) = [generation |-> LifeOf(table[n]).generation + 1, active |-> TRUE]
  BY WrittenOK
<1>2. FlagsMatch(mid, flags)
  BY <1>1 DEF FlagsMatch, FlagsOK
<1>3. Replaced(table, n, t, enabled, flags) = SetFlags(mid, flags)
  BY DEF Replaced
<1> HIDE DEF mid
<1>4. /\ RowsOK(SetFlags(mid, flags))
      /\ \A m \in Name :
           /\ IsActive(SetFlags(mid, flags), m) <=> IsActive(mid, m)
           /\ IsActive(mid, m) /\ SetFlags(mid, flags)[m].enabled =>
                  IF m \in DOMAIN flags THEN flags[m] ELSE mid[m].enabled
           /\ LifeOf(SetFlags(mid, flags)[m]) = LifeOf(mid[m])
  BY <1>1, <1>2, SetFlagsOK
<1>5. \A m \in Name \ {n} : IsActive(table, m) => (mid[m].enabled => table[m].enabled)
  BY <1>1
<1>6. \A m \in Name : IsActive(SetFlags(mid, flags), m) <=> m = n \/ IsActive(table, m)
  BY <1>1, <1>4
<1>7. SetFlags(mid, flags)[n].enabled => enabled
  BY <1>1, <1>4
<1>8. \A m \in Name \ {n} :
        IsActive(table, m) /\ SetFlags(mid, flags)[m].enabled =>
            IF m \in DOMAIN flags THEN flags[m] ELSE table[m].enabled
  BY <1>1, <1>4, <1>5
<1>9. \A m \in Name \ {n} : LifeOf(SetFlags(mid, flags)[m]) = LifeOf(table[m])
  BY <1>1, <1>4
<1>10. LifeOf(SetFlags(mid, flags)[n]) =
         [generation |-> LifeOf(table[n]).generation + 1, active |-> TRUE]
  BY <1>1, <1>4
<1>11. QED BY <1>3, <1>4, <1>6, <1>7, <1>8, <1>9, <1>10

-----------------------------------------------------------------------------
(* Type correctness, and the two invariants about single rows              *)

\* The exclusive names that are active and enabled.
EnabledNames(table) == {n \in Exclusive : IsActive(table, n) /\ table[n].enabled}

\* What a step does to the table, in the terms of the lemmas above: it stays
\* well-formed, at most one name, with room for it, becomes active, and an
\* exclusive name that becomes enabled is then the only one.
LEMMA StepOK ==
  ASSUME IInv, Next
  PROVE  /\ IInv'
         /\ \/ ActiveNames(rows)' \subseteq ActiveNames(rows)
            \/ \E w \in Writer, n \in Name :
                 /\ HasRoom(rows, Limit[w])
                 /\ ActiveNames(rows)' = ActiveNames(rows) \cup {n}
         /\ \/ EnabledNames(rows)' \subseteq EnabledNames(rows)
            \/ \E n \in Name : EnabledNames(rows)' \subseteq {n}
<1>1. PICK w \in Writer : FencedNext(w) \/ NamedNext(w)
  BY DEF Next
<1>2. RowsOK(rows) /\ held \in [Writer -> Token \cup {None}]
  BY IInvRows
<1>3. ASSUME RowsOK(rows'), held' = held PROVE IInv'
  BY <1>2, <1>3 DEF IInv, TypeOK, NextWhileActive, OutcomeOfGeneration, RowsOK, Rows, RowOK
<1>4. CASE \E n \in Name : Read(w, n)
  <2>1. PICK n \in Name : Read(w, n)
    BY <1>4
  <2>2. rows' = rows
    BY <2>1 DEF Read
  <2>3. <<n, rows[n].generation>> \in Token
    BY <1>2, <2>1 DEF Read, IsActive, RowsOK, Rows, RowSet, Token
  <2>4. held' \in [Writer -> Token \cup {None}]
    BY <1>2, <2>1, <2>3 DEF Read
  <2>5. IInv'
    BY <1>2, <2>2, <2>4 DEF IInv, TypeOK, NextWhileActive, OutcomeOfGeneration, RowsOK, Rows, RowOK
  <2>6. QED BY <2>2, <2>5 DEF ActiveNames, EnabledNames, IsActive
<1>5. CASE \/ RecordRunCall(w) \/ (\E t \in Time : SetNextCall(w, t))
           \/ StopCall(w) \/ DisableCall(w)
  <2>1. held' = held
    BY <1>5 DEF RecordRunCall, SetNextCall, StopCall, DisableCall
  <2>2. PICK n \in Name, g \in Generation : FencedWrite(rows, n, g, rows')
    BY <1>5 DEF RecordRunCall, SetNextCall, StopCall, DisableCall, FencedWrite
  <2>3. /\ RowsOK(rows')
        /\ \A m \in Name :
             /\ IsActive(rows', m) => IsActive(rows, m)
             /\ IsActive(rows', m) /\ rows'[m].enabled => rows[m].enabled
    BY <1>2, <2>2, FencedOK
  <2>4. IInv'
    BY <1>3, <2>1, <2>3
  <2>5. QED BY <2>3, <2>4, ExclusiveAssumption DEF ActiveNames, EnabledNames
<1>6. CASE \E n \in Name, t \in Time : Create(w, n, t)
  <2>1. PICK n \in Name, t \in Time : Create(w, n, t)
    BY <1>6
  <2> DEFINE new == Written(rows, n, t, TRUE)
  <2>1a. RowsOK(rows) /\ GenerationLeft(rows, n) /\ rows' = new
    BY <1>2, <2>1 DEF Create, CanCreate
  <2>1b. /\ RowsOK(new)
         /\ \A m \in Name : IsActive(new, m) <=> m = n \/ IsActive(rows, m)
         /\ \A m \in Name \ {n} : new[m] = rows[m]
    BY <2>1a, WrittenOK
  <2>2. /\ RowsOK(rows')
        /\ \A m \in Name : IsActive(rows', m) <=> m = n \/ IsActive(rows, m)
        /\ \A m \in Name \ {n} : rows'[m] = rows[m]
    BY <2>1a, <2>1b
  <2>3. IInv'
    BY <1>3, <2>1, <2>2 DEF Create
  <2>4. HasRoom(rows, Limit[w]) /\ n \notin Exclusive
    BY <2>1 DEF Create, CanCreate
  <2>5. ActiveNames(rows)' = ActiveNames(rows) \cup {n}
    BY <2>2 DEF ActiveNames
  <2>6. EnabledNames(rows)' \subseteq EnabledNames(rows)
    BY <2>2, <2>4, ExclusiveAssumption DEF EnabledNames
  <2>7. QED BY <2>3, <2>4, <2>5, <2>6
<1>7. CASE \/ \E n \in Name, enabled \in BOOLEAN : SetEnabled(n, enabled)
           \/ \E flags \in Flags : SetEnabledMany(flags)
  <2>1. \E flags :
          /\ FlagsOK(flags)
          /\ AllowedFlags(flags)
          /\ FlagsMatch(rows, flags)
          /\ rows' = SetFlags(rows, flags)
          /\ held' = held
    <3>1. CASE \E n \in Name, enabled \in BOOLEAN : SetEnabled(n, enabled)
      <4>1. PICK n \in Name, enabled \in BOOLEAN : SetEnabled(n, enabled)
        BY <3>1
      <4> DEFINE flags == [m \in {n} |-> enabled]
      <4>2. DOMAIN flags = {n} /\ flags[n] = enabled
        OBVIOUS
      <4>3. rows' = SetFlags(rows, flags)
        BY <4>1 DEF SetEnabled
      <4> HIDE DEF flags
      <4>4. QED BY <4>1, <4>2, <4>3 DEF SetEnabled, AllowedFlags, FlagsMatch, FlagsOK
    <3>2. CASE \E flags \in Flags : SetEnabledMany(flags)
      BY <3>2 DEF SetEnabledMany, Flags, FlagsOK
    <3>3. QED BY <1>7, <3>1, <3>2
  <2>2. PICK flags :
          /\ FlagsOK(flags)
          /\ AllowedFlags(flags)
          /\ FlagsMatch(rows, flags)
          /\ rows' = SetFlags(rows, flags)
          /\ held' = held
    BY <2>1
  <2>3. /\ RowsOK(rows')
        /\ \A m \in Name :
             /\ IsActive(rows', m) <=> IsActive(rows, m)
             /\ IsActive(rows, m) /\ rows'[m].enabled =>
                  IF m \in DOMAIN flags THEN flags[m] ELSE rows[m].enabled
    BY <1>2, <2>2, SetFlagsOK
  <2>4. IInv'
    BY <1>3, <2>2, <2>3
  <2>5. CASE \E n \in Exclusive \cap DOMAIN flags : flags[n]
    <3>1. PICK n \in Exclusive \cap DOMAIN flags : flags[n]
      BY <2>5
    <3>2. \A m \in Exclusive \ {n} : m \in DOMAIN flags /\ ~flags[m]
      BY <2>2, <3>1 DEF AllowedFlags
    <3>3. EnabledNames(rows)' \subseteq {n}
      BY <2>3, <3>2, ExclusiveAssumption DEF EnabledNames
    <3>4. QED BY <2>3, <2>4, <3>1, <3>3, ExclusiveAssumption DEF ActiveNames
  <2>6. CASE \A n \in Exclusive \cap DOMAIN flags : ~flags[n]
    <3>1. EnabledNames(rows)' \subseteq EnabledNames(rows)
      BY <2>3, <2>6, ExclusiveAssumption DEF EnabledNames
    <3>2. QED BY <2>3, <2>4, <3>1 DEF ActiveNames
  <2>7. QED BY <2>5, <2>6
<1>8. CASE \E n \in Name, t \in Time, enabled \in BOOLEAN, flags \in Flags :
             ReplaceAndSetEnabled(w, n, t, enabled, flags)
  <2>1. PICK n \in Name, t \in Time, enabled \in BOOLEAN, flags \in Flags :
          ReplaceAndSetEnabled(w, n, t, enabled, flags)
    BY <1>8
  <2>2. FlagsOK(flags)
    BY DEF Flags, FlagsOK
  <2>3. /\ n \notin DOMAIN flags
        /\ GenerationLeft(rows, n)
        /\ FlagsMatch(rows, flags)
        /\ rows' = Replaced(rows, n, t, enabled, flags)
        /\ IsActive(rows, n) \/ HasRoom(rows, Limit[w])
        /\ held' = held
    BY <2>1 DEF ReplaceAndSetEnabled, CanReplace
  <2>4. /\ RowsOK(rows')
        /\ \A m \in Name : IsActive(rows', m) <=> m = n \/ IsActive(rows, m)
        /\ (rows'[n].enabled => enabled)
        /\ \A m \in Name \ {n} :
             IsActive(rows, m) /\ rows'[m].enabled =>
               IF m \in DOMAIN flags THEN flags[m] ELSE rows[m].enabled
    <3> DEFINE new == Replaced(rows, n, t, enabled, flags)
    <3>1. /\ RowsOK(new)
          /\ \A m \in Name : IsActive(new, m) <=> m = n \/ IsActive(rows, m)
          /\ (new[n].enabled => enabled)
          /\ \A m \in Name \ {n} :
               IsActive(rows, m) /\ new[m].enabled =>
                 IF m \in DOMAIN flags THEN flags[m] ELSE rows[m].enabled
      BY <1>2, <2>2, <2>3, ReplacedOK
    <3>2. QED BY <2>3, <3>1
  <2>5. IInv'
    BY <1>3, <2>3, <2>4
  <2>6. \/ ActiveNames(rows)' \subseteq ActiveNames(rows)
        \/ HasRoom(rows, Limit[w]) /\ ActiveNames(rows)' = ActiveNames(rows) \cup {n}
    BY <2>3, <2>4 DEF ActiveNames
  <2>7. CASE n \in Exclusive /\ enabled
    <3>1. \A m \in Exclusive \ {n} : m \in DOMAIN flags /\ ~flags[m]
      BY <2>1, <2>7 DEF ReplaceAndSetEnabled
    <3>2. EnabledNames(rows)' \subseteq {n}
      BY <2>4, <3>1, ExclusiveAssumption DEF EnabledNames
    <3>3. QED BY <2>5, <2>6, <3>2
  <2>8. CASE ~(n \in Exclusive /\ enabled)
    <3>1. \A m \in Exclusive \cap DOMAIN flags : ~flags[m]
      BY <2>1 DEF ReplaceAndSetEnabled
    <3>2. EnabledNames(rows)' \subseteq EnabledNames(rows)
      BY <2>4, <2>8, <3>1, ExclusiveAssumption DEF EnabledNames
    <3>3. QED BY <2>5, <2>6, <3>2
  <2>9. QED BY <2>7, <2>8
<1>9. QED BY <1>1, <1>4, <1>5, <1>6, <1>7, <1>8 DEF FencedNext, NamedNext

LEMMA InitOK == Init => IInv
  BY NoRowAssumption
  DEF Init, IInv, TypeOK, NextWhileActive, OutcomeOfGeneration

LEMMA IInvHolds == Spec => []IInv
<1>1. IInv /\ UNCHANGED vars => IInv'
  BY DEF IInv, TypeOK, NextWhileActive, OutcomeOfGeneration, vars
<1>2. IInv /\ [Next]_vars => IInv'
  BY <1>1, StepOK
<1>3. QED BY <1>2, InitOK, PTL DEF Spec

\* The table and what the writers remember keep their types: no sequence of
\* calls writes a row the table's CHECK constraints have no column values for,
\* and no rewrite exceeds the last generation.
THEOREM TypeCorrect == Spec => []TypeOK
<1>1. IInv => TypeOK
  BY DEF IInv
<1>2. QED BY <1>1, IInvHolds, PTL

\* A row has a next run exactly while it is active, so no interleaving of
\* stale fenced writes and rewrites ends in a write the table refuses.
THEOREM NextWhileActiveHolds == Spec => []NextWhileActive
<1>1. IInv => NextWhileActive
  BY DEF IInv
<1>2. QED BY <1>1, IInvHolds, PTL

\* The generation fence: the outcome in a row is that of a run of the row's
\* own generation, however long a writer held the schedule it read.
THEOREM OutcomeOfGenerationHolds == Spec => []OutcomeOfGeneration
<1>1. IInv => OutcomeOfGeneration
  BY DEF IInv
<1>2. QED BY <1>1, IInvHolds, PTL

-----------------------------------------------------------------------------
(* The row ceiling                                                         *)

LEMMA ActiveFinite == IsFiniteSet(ActiveNames(rows))
<1>1. ActiveNames(rows) \subseteq Name
  BY DEF ActiveNames
<1>2. QED BY <1>1, FiniteAssumption, FS_Subset

\* Losing active names keeps within the limit; gaining one keeps within the
\* limit of the writer that found room for it.
LEMMA RowLimitStep ==
  ASSUME IInv, RowLimit, Next
  PROVE  RowLimit'
<1>1. CASE ActiveNames(rows)' \subseteq ActiveNames(rows)
  <2>1. /\ Cardinality(ActiveNames(rows)') <= Cardinality(ActiveNames(rows))
        /\ Cardinality(ActiveNames(rows)) \in Nat
        /\ Cardinality(ActiveNames(rows)') \in Nat
    BY <1>1, ActiveFinite, FS_Subset, FS_CardinalityType
  <2>2. CASE \A n \in Name : ~IsActive(rows, n)
    BY <1>1, <2>2 DEF ActiveNames, RowLimit
  <2>3. CASE \E w \in Writer : Limit[w] = Unlimited
    BY <2>3 DEF RowLimit
  <2>4. CASE \E w \in Writer : Limit[w] # Unlimited /\ Cardinality(ActiveNames(rows)) <= Limit[w]
    <3>1. PICK w \in Writer : Limit[w] # Unlimited /\ Cardinality(ActiveNames(rows)) <= Limit[w]
      BY <2>4
    <3>2. Limit[w] \in Nat
      BY <3>1, LimitAssumption
    <3>3. Cardinality(ActiveNames(rows)') <= Limit[w]
      BY <2>1, <3>1, <3>2
    <3>4. QED BY <3>3 DEF RowLimit
  <2>5. QED BY <2>2, <2>3, <2>4 DEF RowLimit
<1>2. CASE \E w \in Writer, n \in Name :
             /\ HasRoom(rows, Limit[w])
             /\ ActiveNames(rows)' = ActiveNames(rows) \cup {n}
  <2>1. PICK w \in Writer, n \in Name :
          /\ HasRoom(rows, Limit[w])
          /\ ActiveNames(rows)' = ActiveNames(rows) \cup {n}
    BY <1>2
  <2>2. CASE Limit[w] = Unlimited
    BY <2>2 DEF RowLimit
  <2>3. CASE Limit[w] # Unlimited
    <3>1. Limit[w] \in Nat /\ Cardinality(ActiveNames(rows)) < Limit[w]
      BY <2>1, <2>3, LimitAssumption DEF HasRoom
    <3>2. Cardinality(ActiveNames(rows)) \in Nat
      BY ActiveFinite, FS_CardinalityType
    <3>3. \/ Cardinality(ActiveNames(rows) \cup {n}) = Cardinality(ActiveNames(rows))
          \/ Cardinality(ActiveNames(rows) \cup {n}) = Cardinality(ActiveNames(rows)) + 1
      BY ActiveFinite, FS_AddElement
    <3>4. Cardinality(ActiveNames(rows)') <= Limit[w]
      BY <2>1, <3>1, <3>2, <3>3
    <3>5. QED BY <3>4 DEF RowLimit
  <2>4. QED BY <2>2, <2>3
<1>3. QED BY <1>1, <1>2, StepOK

\* However the writers interleave, the rows that have not ended are no more
\* than the limit of some writer: check and write are one transaction.
THEOREM RowLimitHolds == Spec => []RowLimit
<1>1. Init => RowLimit
  BY DEF Init, RowLimit, IsActive
<1>2. RowLimit /\ UNCHANGED vars => RowLimit'
  BY DEF RowLimit, ActiveNames, IsActive, vars
<1>3. IInv /\ RowLimit /\ [Next]_vars => RowLimit'
  BY <1>2, RowLimitStep
<1>4. QED BY <1>1, <1>3, IInvHolds, PTL DEF Spec

-----------------------------------------------------------------------------
(* At most one row of an exclusive group is enabled                        *)

\* Callers of the multi-row writes keep their group exclusive, although rows
\* of the group end, restart and are replaced between their calls.
THEOREM AtMostOneEnabledHolds == Spec => []AtMostOneEnabled
<1>1. Init => AtMostOneEnabled
  BY ExclusiveAssumption DEF Init, AtMostOneEnabled, IsActive
<1>2. AtMostOneEnabled /\ UNCHANGED vars => AtMostOneEnabled'
  BY DEF AtMostOneEnabled, IsActive, vars
<1>3. AtMostOneEnabled <=> \A n, m \in EnabledNames(rows) : n = m
  BY DEF AtMostOneEnabled, EnabledNames
<1>4. AtMostOneEnabled' <=> \A n, m \in EnabledNames(rows)' : n = m
  BY DEF AtMostOneEnabled, EnabledNames
<1>5. IInv /\ AtMostOneEnabled /\ Next => AtMostOneEnabled'
  BY <1>3, <1>4, StepOK
<1>6. IInv /\ AtMostOneEnabled /\ [Next]_vars => AtMostOneEnabled'
  BY <1>2, <1>5
<1>7. QED BY <1>1, <1>6, IInvHolds, PTL DEF Spec

-----------------------------------------------------------------------------
(* The table implements ScheduleLifecycle                                  *)

Life == [n \in Name |-> LifeOf(rows[n])]

\* A step that leaves every name's life but n's as it was, and gives n a life
\* that Begin, Supersede or End gives it, is a step of the lifecycle.
LEMMA LifeStep ==
  ASSUME NEW n \in Name,
         \A m \in Name \ {n} : LifeOf(rows'[m]) = LifeOf(rows[m])
  PROVE  /\ LifeOf(rows'[n]) = LifeOf(rows[n]) => Life' = Life
         /\ LifeOf(rows'[n]) = [generation |-> LifeOf(rows[n]).generation + 1, active |-> TRUE]
              => Lifecycle!Begin(n) \/ Lifecycle!Supersede(n)
         /\ (LifeOf(rows[n]).active /\
             LifeOf(rows'[n]) = [generation |-> LifeOf(rows[n]).generation, active |-> FALSE])
              => Lifecycle!End(n)
<1>1. Life' = [Life EXCEPT ![n] = LifeOf(rows'[n])]
  BY DEF Life
<1>2. Life[n] = LifeOf(rows[n])
  BY DEF Life
<1>3. Life = [Life EXCEPT ![n] = LifeOf(rows[n])]
  BY DEF Life
<1>4. Lifecycle!Begin(n) \/ Lifecycle!Supersede(n)
        <=> Life' = [Life EXCEPT ![n] =
                       [generation |-> Life[n].generation + 1, active |-> TRUE]]
  BY DEF Lifecycle!Begin, Lifecycle!Supersede, Life
<1>5. Lifecycle!End(n)
        <=> Life[n].active /\ Life' = [Life EXCEPT ![n] =
              [generation |-> Life[n].generation, active |-> FALSE]]
  BY DEF Lifecycle!End, Life
<1>6. QED BY <1>1, <1>2, <1>3, <1>4, <1>5

LEMMA LifecycleStep == IInv /\ Next => Lifecycle!Next \/ Life' = Life
<1> SUFFICES ASSUME IInv, Next PROVE Lifecycle!Next \/ Life' = Life
  OBVIOUS
<1>1. RowsOK(rows)
  BY IInvRows
<1>2. PICK w \in Writer : FencedNext(w) \/ NamedNext(w)
  BY DEF Next
<1>3. CASE \E n \in Name : Read(w, n)
  BY <1>3 DEF Read, Life
<1>4. CASE \/ RecordRunCall(w) \/ (\E t \in Time : SetNextCall(w, t))
           \/ StopCall(w) \/ DisableCall(w)
  <2>1. PICK n \in Name, g \in Generation : FencedWrite(rows, n, g, rows')
    BY <1>4 DEF RecordRunCall, SetNextCall, StopCall, DisableCall, FencedWrite
  <2>2. /\ \A m \in Name \ {n} : rows'[m] = rows[m]
        /\ \/ LifeOf(rows'[n]) = LifeOf(rows[n])
           \/ /\ LifeOf(rows[n]) = [generation |-> g, active |-> TRUE]
              /\ LifeOf(rows'[n]) = [generation |-> g, active |-> FALSE]
    BY <1>1, <2>1, FencedOK
  <2>3. \A m \in Name \ {n} : LifeOf(rows'[m]) = LifeOf(rows[m])
    BY <2>2
  <2>4. CASE LifeOf(rows'[n]) = LifeOf(rows[n])
    BY <2>3, <2>4, LifeStep
  <2>5. CASE /\ LifeOf(rows[n]) = [generation |-> g, active |-> TRUE]
             /\ LifeOf(rows'[n]) = [generation |-> g, active |-> FALSE]
    <3>1. LifeOf(rows[n]).active /\ LifeOf(rows[n]).generation = g
      BY <2>5
    <3>2. Lifecycle!End(n)
      BY <2>3, <2>5, <3>1, LifeStep
    <3>3. QED BY <3>2 DEF Lifecycle!Next
  <2>6. QED BY <2>2, <2>4, <2>5
<1>5. CASE \E n \in Name, t \in Time : Create(w, n, t)
  <2>1. PICK n \in Name, t \in Time : Create(w, n, t)
    BY <1>5
  <2>2. /\ \A m \in Name \ {n} : rows'[m] = rows[m]
        /\ LifeOf(rows'[n]) = [generation |-> LifeOf(rows[n]).generation + 1, active |-> TRUE]
    <3>1. GenerationLeft(rows, n) /\ rows' = Written(rows, n, t, TRUE)
      BY <2>1 DEF Create, CanCreate
    <3> DEFINE new == Written(rows, n, t, TRUE)
    <3>2. /\ \A m \in Name \ {n} : new[m] = rows[m]
          /\ LifeOf(new[n]) = [generation |-> LifeOf(rows[n]).generation + 1, active |-> TRUE]
      BY <1>1, <3>1, WrittenOK
    <3>3. QED BY <3>1, <3>2
  <2>3. QED BY <2>2, LifeStep DEF Lifecycle!Next
<1>6. CASE \/ \E n \in Name, enabled \in BOOLEAN : SetEnabled(n, enabled)
           \/ \E flags \in Flags : SetEnabledMany(flags)
  <2>1. PICK flags : /\ FlagsOK(flags)
                     /\ FlagsMatch(rows, flags)
                     /\ rows' = SetFlags(rows, flags)
    <3>1. CASE \E n \in Name, enabled \in BOOLEAN : SetEnabled(n, enabled)
      <4>1. PICK n \in Name, enabled \in BOOLEAN : SetEnabled(n, enabled)
        BY <3>1
      <4>2. FlagsOK([m \in {n} |-> enabled])
        BY DEF FlagsOK
      <4>3. FlagsMatch(rows, [m \in {n} |-> enabled])
        BY <4>1 DEF SetEnabled, FlagsMatch
      <4>4. rows' = SetFlags(rows, [m \in {n} |-> enabled])
        BY <4>1 DEF SetEnabled
      <4>5. QED BY <4>2, <4>3, <4>4
    <3>2. CASE \E flags \in Flags : SetEnabledMany(flags)
      BY <3>2 DEF SetEnabledMany, Flags, FlagsOK
    <3>3. QED BY <1>6, <3>1, <3>2
  <2>2. \A n \in Name : LifeOf(rows'[n]) = LifeOf(rows[n])
    BY <1>1, <2>1, SetFlagsOK
  <2>3. QED BY <2>2 DEF Life
<1>7. CASE \E n \in Name, t \in Time, enabled \in BOOLEAN, flags \in Flags :
             ReplaceAndSetEnabled(w, n, t, enabled, flags)
  <2>1. PICK n \in Name, t \in Time, enabled \in BOOLEAN, flags \in Flags :
          ReplaceAndSetEnabled(w, n, t, enabled, flags)
    BY <1>7
  <2>2. FlagsOK(flags)
    BY DEF Flags, FlagsOK
  <2>3. /\ n \notin DOMAIN flags
        /\ GenerationLeft(rows, n)
        /\ FlagsMatch(rows, flags)
        /\ rows' = Replaced(rows, n, t, enabled, flags)
    BY <2>1 DEF ReplaceAndSetEnabled, CanReplace
  <2>4. /\ \A m \in Name \ {n} : LifeOf(rows'[m]) = LifeOf(rows[m])
        /\ LifeOf(rows'[n]) = [generation |-> LifeOf(rows[n]).generation + 1, active |-> TRUE]
    BY <1>1, <2>2, <2>3, ReplacedOK
  <2>5. QED BY <2>4, LifeStep DEF Lifecycle!Next
<1>8. QED BY <1>2, <1>3, <1>4, <1>5, <1>6, <1>7 DEF FencedNext, NamedNext

\* Whatever the writers do, through however stale a schedule, a name's
\* generations follow one another without a gap and an ended generation never
\* becomes active again.
THEOREM StoreImplementsLifecycle == Spec => LifecycleSpec
<1>1. Init => Lifecycle!Init
  BY DEF Init, Lifecycle!Init, LifeOf
<1>2. IInv /\ [Next]_vars => [Lifecycle!Next]_Life
  <2>1. UNCHANGED vars => Life' = Life
    BY DEF vars, Life
  <2>2. QED BY <2>1, LifecycleStep
<1>3. QED BY <1>1, <1>2, IInvHolds, PTL DEF Spec, LifecycleSpec, Lifecycle!Spec, Life
=============================================================================
