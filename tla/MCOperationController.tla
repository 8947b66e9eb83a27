------------------------ MODULE MCOperationController ------------------------
(***************************************************************************)
(* A small instance of OperationController: as many calls as make commands *)
(* wait for capacity while the worker makes a call of its own.             *)
(***************************************************************************)
EXTENDS OperationController

CONSTANTS c1, c2

MCCall == {c1, c2}
=============================================================================
