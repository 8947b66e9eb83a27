----------------------------- MODULE MCGeneration -----------------------------
(* Two drivers given one directory, a person who retries recipes and removes the
   directory, a shared binary that is replaced from elsewhere. *)
EXTENDS Generation, TLC

CONSTANTS d1, d2, person, project, old, current, missing

MCDriver == {d1, d2}
MCCaller == {d1, d2, person}
MCDest == {project}
MCVersion == {old, current}
MCArguments ==
    {[dest |-> project, entry |-> "file", release |-> FALSE, override |-> FALSE],
     [dest |-> project, entry |-> "prefill", release |-> TRUE, override |-> TRUE]}
MCRetries == {<<"setup", "install", TRUE>>, <<"setup", "check", FALSE>>,
              <<"upgrade", "install", FALSE>>, <<"upgrade", "dry-run", FALSE>>}
Symmetric == Permutations(MCDriver)
=============================================================================
