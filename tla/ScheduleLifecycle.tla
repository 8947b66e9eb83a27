-------------------------- MODULE ScheduleLifecycle --------------------------
(***************************************************************************)
(* What the schedule table promises about one name, whoever writes it and  *)
(* in whatever order: a schedule is identified by its generation, its      *)
(* generations follow one another without a gap, and a generation that has *)
(* ended never becomes active again.                                       *)
(***************************************************************************)
EXTENDS Naturals

CONSTANT Name

VARIABLE life  \* for each name, its latest generation (0: none) and whether it is active

TypeOK == life \in [Name -> [generation : Nat, active : BOOLEAN]]

Init == life = [n \in Name |-> [generation |-> 0, active |-> FALSE]]

\* A schedule is created, or an ended one is started again.
Begin(n) ==
  /\ ~life[n].active
  /\ life' = [life EXCEPT ![n] = [generation |-> life[n].generation + 1, active |-> TRUE]]

\* An active schedule is replaced in place.
Supersede(n) ==
  /\ life[n].active
  /\ life' = [life EXCEPT ![n] = [generation |-> life[n].generation + 1, active |-> TRUE]]

End(n) ==
  /\ life[n].active
  /\ life' = [life EXCEPT ![n] = [generation |-> life[n].generation, active |-> FALSE]]

Next == \E n \in Name : Begin(n) \/ Supersede(n) \/ End(n)

Spec == Init /\ [][Next]_life
=============================================================================
