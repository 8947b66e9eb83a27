------------------------------ MODULE Bootstrap -------------------------------
(***************************************************************************)
(* .sc-lint/bootstrap.py, which the recipes of every project call: setup,  *)
(* upgrade, lint and test find the sc-lint binary (SC_LINT_BIN, the copy   *)
(* that all projects of a machine share, or PATH), make it the version the *)
(* project asks for and provide the project's Python environment.          *)
(*                                                                         *)
(* What the binary, the release host, venv and pip do is external: an      *)
(* outcome that succeeds or fails.  Nothing here takes a lock; calls in    *)
(* one project and in others interleave at each step.                      *)
(***************************************************************************)
EXTENDS Naturals

CONSTANTS
    Caller,           \* processes that call the script
    Dest,             \* directories that may hold a project
    Version,          \* of sc-lint
    Minimum,          \* minimum_version in the projects' sc-lint.toml
    PathVersion,      \* of the sc-lint on PATH
    OverrideVersion,  \* of the binary that a caller's SC_LINT_BIN may name
    Missing           \* no file

ASSUME BootstrapAssumption ==
    /\ Minimum \in Version
    /\ Missing \notin Version
    /\ PathVersion \in Version \cup {Missing}
    /\ OverrideVersion \in Version

VARIABLES
    managed,          \* version of the file at managed_path(), or Missing
    venv,             \* directory -> its .sc-lint/venv: "absent"; "bare" with a
                      \* python but no pip yet; "empty" without sc-lint; "ready"
    boot              \* caller -> its call in progress, or how the last one ended

bootVars == <<managed, venv, boot>>

Op == {"setup", "upgrade", "lint", "test"}
Mode == {"install", "check", "dry-run"}
Place == {"resolve", "fetch", "compat", "settle", "probe", "own", "venv",
          "create", "pip", "tools", "run"}
Binary == {"override", "managed", "path", Missing}

Ended == [at : {"idle"}, ok : BOOLEAN]
Running == [op : Op, mode : Mode, dest : Dest, override : BOOLEAN, at : Place, binary : Binary]

BootstrapTypeOK ==
    /\ managed \in Version \cup {Missing}
    /\ venv \in [Dest -> {"absent", "bare", "empty", "ready"}]
    /\ boot \in [Caller -> Ended \cup Running]

BootstrapInit ==
    /\ managed \in Version \cup {Missing}
    /\ venv = [x \in Dest |-> "absent"]
    /\ boot = [c \in Caller |-> [at |-> "idle", ok |-> FALSE]]

At(c, place) == boot[c].at = place
To(c, place) == boot' = [boot EXCEPT ![c].at = place]
Finish(c, ok) == boot' = [boot EXCEPT ![c] = [at |-> "idle", ok |-> ok]]
MayFail(c, next) == To(c, next) \/ Finish(c, FALSE)

\* The version behind a resolved path, now: the file may have changed since.
VersionOf(binary) ==
    CASE binary = "override" -> OverrideVersion
      [] binary = "managed"  -> managed
      [] binary = "path"     -> PathVersion
      [] OTHER               -> Missing

\* main: only setup and upgrade take --check and --dry-run.
Begin(c, op, mode, override, x) ==
    /\ At(c, "idle")
    /\ mode # "install" => op \in {"setup", "upgrade"}
    /\ boot' = [boot EXCEPT ![c] = [op |-> op, mode |-> mode, dest |-> x,
                                    override |-> override, at |-> "resolve",
                                    binary |-> Missing]]
    /\ UNCHANGED <<managed, venv>>

\* resolve_binary.
ResolveBinary(c) ==
    IF boot[c].override THEN "override"
    ELSE IF managed # Missing THEN "managed"
    ELSE IF PathVersion # Missing THEN "path" ELSE Missing

Resolve(c) ==
    /\ At(c, "resolve")
    /\ boot' = [boot EXCEPT ![c].binary = ResolveBinary(c),
                            ![c].at = IF ResolveBinary(c) = Missing THEN "fetch" ELSE "compat"]
    /\ UNCHANGED <<managed, venv>>

\* install_release: nothing is launched unless its checksum matches, and what is
\* launched puts Minimum at the shared path unless it was told to change nothing.
\* ensure looks at compatibility only after the first of its two calls.
InstallRelease(c) ==
    /\ At(c, "fetch")
    /\ \/ Finish(c, FALSE) /\ UNCHANGED managed
       \/ /\ managed' = IF boot[c].mode = "install" THEN Minimum ELSE managed
          /\ IF boot[c].op = "upgrade" THEN Finish(c, TRUE)
             ELSE boot' = [boot EXCEPT ![c].binary = "managed",
                                       ![c].at = IF boot[c].binary = Missing
                                                 THEN "compat" ELSE "probe"]
    /\ UNCHANGED venv

\* compatibility check: Minimum is compatible, another version may be.
Compatible(c) ==
    CASE VersionOf(boot[c].binary) = Minimum -> {TRUE}
      [] VersionOf(boot[c].binary) = Missing -> {FALSE}
      [] OTHER                               -> BOOLEAN

CompatibilityCheck(c) ==
    /\ At(c, "compat")
    /\ \E compatible \in Compatible(c) :
        LET replace == ~compatible /\ ~boot[c].override /\ boot[c].mode = "install"
        IN  To(c, IF replace THEN "fetch"
                  ELSE IF boot[c].op = "upgrade" THEN "own"
                  ELSE IF compatible THEN "probe" ELSE "settle")
    /\ UNCHANGED <<managed, venv>>

\* ensure: an incompatible binary that must not be replaced runs its own setup.
Settle(c) ==
    /\ At(c, "settle")
    /\ IF VersionOf(boot[c].binary) = Missing THEN Finish(c, FALSE) ELSE MayFail(c, "probe")
    /\ UNCHANGED <<managed, venv>>

\* ensure: the version must be Minimum itself.
VersionProbe(c) ==
    /\ At(c, "probe")
    /\ IF VersionOf(boot[c].binary) # Minimum THEN Finish(c, FALSE)
       ELSE To(c, IF boot[c].op = "setup" THEN "own" ELSE "venv")
    /\ UNCHANGED <<managed, venv>>

\* The binary's own setup or upgrade; an upgrade may replace the shared file.
Own(c) ==
    /\ At(c, "own")
    /\ MayFail(c, "venv")
    /\ managed' \in IF boot[c].op = "upgrade" /\ boot[c].mode = "install"
                       /\ boot[c].binary = "managed"
                    THEN {managed, Minimum} ELSE {managed}
    /\ UNCHANGED venv

-----------------------------------------------------------------------------
(* provision_venv and what follows it. *)

Provided(c) ==
    CASE boot[c].op = "setup"   -> To(c, "tools")
      [] boot[c].op = "upgrade" -> Finish(c, TRUE)
      [] OTHER                  -> To(c, "run")

\* A python that cannot import sc-lint is kept and only given to pip; without a
\* python venv.create writes one before it runs ensurepip.
ProvisionVenv(c) ==
    LET x == boot[c].dest
    IN  /\ At(c, "venv")
        /\ \/ venv[x] = "ready" /\ Provided(c) /\ UNCHANGED venv
           \/ venv[x] # "ready" /\ boot[c].mode = "check" /\ Finish(c, FALSE) /\ UNCHANGED venv
           \/ venv[x] # "ready" /\ boot[c].mode = "dry-run" /\ Provided(c) /\ UNCHANGED venv
           \/ venv[x] \in {"bare", "empty"} /\ boot[c].mode = "install" /\ To(c, "pip")
              /\ UNCHANGED venv
           \/ /\ venv[x] = "absent" /\ boot[c].mode = "install"
              /\ \/ To(c, "create") /\ venv' = [venv EXCEPT ![x] = "bare"]
                 \/ Finish(c, FALSE) /\ UNCHANGED venv
        /\ UNCHANGED managed

CreateVenv(c) ==
    LET x == boot[c].dest
    IN  /\ At(c, "create")
        /\ \/ Finish(c, FALSE) /\ UNCHANGED venv
           \/ /\ venv[x] # "absent" /\ To(c, "pip")
              /\ venv' = [venv EXCEPT ![x] = IF @ = "bare" THEN "empty" ELSE @]
        /\ UNCHANGED managed

PipInstall(c) ==
    LET x == boot[c].dest
    IN  /\ At(c, "pip")
        /\ \/ Finish(c, FALSE) /\ UNCHANGED venv
           \/ /\ venv[x] \in {"empty", "ready"} /\ Provided(c)
              /\ venv' = [venv EXCEPT ![x] = "ready"]
        /\ UNCHANGED managed

\* provision_tools of setup; the run of lint and test.
Conclude(c) ==
    /\ boot[c].at \in {"tools", "run"}
    /\ \E ok \in BOOLEAN :
        /\ ok /\ At(c, "run") => VersionOf(boot[c].binary) # Missing
        /\ Finish(c, ok)
    /\ UNCHANGED <<managed, venv>>

BootstrapStep(c) ==
    \/ Resolve(c) \/ InstallRelease(c) \/ CompatibilityCheck(c) \/ Settle(c)
    \/ VersionProbe(c) \/ Own(c) \/ ProvisionVenv(c) \/ CreateVenv(c)
    \/ PipInstall(c) \/ Conclude(c)
=============================================================================
