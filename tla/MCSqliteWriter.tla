--------------------------- MODULE MCSqliteWriter ---------------------------
(***************************************************************************)
(* Instances of SqliteWriter: two statements and one transaction body.   *)
(***************************************************************************)
EXTENDS SqliteWriter

CONSTANTS s1, s2, b1

MCStatement == {s1, s2}
MCBody == {b1}
=============================================================================
