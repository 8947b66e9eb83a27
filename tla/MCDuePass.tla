------------------------------ MODULE MCDuePass ------------------------------
(* Two schedules, one of them Monty. *)
EXTENDS DuePass, TLC
CONSTANTS a, m
MCName == {a, m}
MCOrder == <<a, m>>
MCMonty == {m}
MCOcc == (a :> {1}) @@ (m :> {1, 2})
=============================================================================
