--------------------------- MODULE MCScheduleStore ---------------------------
(***************************************************************************)
(* A small instance of ScheduleStore: three names, two of them an          *)
(* exclusive group, two writers that opened the store with different       *)
(* limits, both below the number of names: the table may be over the limit *)
(* of the one and not of the other.                                        *)
(***************************************************************************)
EXTENDS ScheduleStore

CONSTANTS a, b, c, w1, w2

MCName == {a, b, c}
MCExclusive == {a, b}
MCWriter == {w1, w2}
MCLimit == [w \in MCWriter |-> IF w = w1 THEN 1 ELSE 2]
MCTime == {1}
=============================================================================
