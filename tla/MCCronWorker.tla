---------------------------- MODULE MCCronWorker ----------------------------
(***************************************************************************)
(* Small instances of CronWorker.  The .cfg files choose how many writes   *)
(* by others, failed store calls and restarts a behaviour may have.        *)
(***************************************************************************)
EXTENDS CronWorker

CONSTANTS a, b

OneName == {a}
TwoNames == {a, b}

\* Occurrences at 1 and 2: the second is the last, and both can be due at once.
TwoOccurrences == [n \in Name |-> {1, 2}]

\* One schedule that ends at once, beside one that goes on.
Staggered == [n \in Name |-> IF n = a THEN {1} ELSE {1, 2}]

ShortDelay == {1}

\* The clock runs to the last instant; or it may stop between two occurrences,
\* with a slot that waits for a tick that does not come.
Whole == {MaxTime}
AnyHorizon == {1, MaxTime}
\* Shutdown through the worker's handle, through a stop control, or either.
HandleOnly == {"handle"}
ControlOnly == {"control"}
BothStops == {"handle", "control"}
=============================================================================
