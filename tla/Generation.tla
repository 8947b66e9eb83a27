----------------------------- MODULE Generation -------------------------------
(***************************************************************************)
(* scripts/new_project.py and scripts/run_wizard.py: a driver acquires the *)
(* answers, checks them, writes two temporary files, creates the           *)
(* destination and runs the pipeline of docs/generation.md in it, the      *)
(* recipes through the generated project's Bootstrap.                      *)
(*                                                                         *)
(* Drivers that were given one destination, a person who runs recipes in   *)
(* it or removes it, and projects elsewhere on the machine interleave.     *)
(* Every step finds the destination by its path.                           *)
(***************************************************************************)
EXTENDS Bootstrap, Sequences

CONSTANTS
    Driver,           \* runs of new_project.py
    Person,           \* runs recipes by hand and removes destinations
    Arguments,        \* the arguments that a driver may be given
    Retries,          \* the person's calls: <<operation, mode, with SC_LINT_BIN>>
    MaxKills, MaxRemovals, MaxCalls, MaxElsewhere   \* bounds

ASSUME GenerationAssumption ==
    /\ Person \notin Driver /\ Missing \notin Driver
    /\ Caller = Driver \cup {Person}
    /\ Arguments \subseteq [dest : Dest, entry : {"file", "wizard", "prefill"},
                      release : BOOLEAN, override : BOOLEAN]
    /\ Retries \subseteq Op \X Mode \X BOOLEAN

VARIABLES
    call,             \* driver -> its arguments
    step,             \* driver -> where main and generate are
    pos,              \* driver -> pipeline steps that it is through
    code,             \* driver -> what it reports: an inventory code, or "ok"
    temp,             \* driver -> its temporary files on disk
    tree,             \* directory -> the project there, or NoTree
    made,             \* drivers that created their destination
    spent             \* how often each bounded event has happened

drivers == <<call, step, pos, code, temp>>
vars == <<bootVars, drivers, tree, made, spent>>

\* The steps after mkdir, each a command of its own: the checkout patch is for every
\* mode but release.
Pipeline == <<"generate", "format", "patch", "agents", "claude",
              "setup", "lint", "test", "build-cli", "build-daemon">>
ReleasePipeline == <<"generate", "format", "agents", "claude",
                     "setup", "lint", "test", "build-cli", "build-daemon">>
PipelineStep == {Pipeline[i] : i \in DOMAIN Pipeline}
Occurs(e, s) == \E i \in DOMAIN s : s[i] = e
Bootstrapped == {"setup", "lint", "test"}

NoTree == [maker |-> Missing]
Fresh(d) == [maker |-> d, writers |-> {}, done |-> << >>]
Present(x) == tree[x] # NoTree
Tree == [maker : Driver, writers : SUBSET Driver, done : Seq(PipelineStep)]

Acquired == "acquired"       \* the answers the wizard wrote
Merged == "merged"           \* the wizard's descriptor with a prefill
Values == "values"
Composed == "composed"       \* the answers for sc-compose
TempFile == {Acquired, Merged, Values, Composed}

\* Failures whose recovery promises that the destination is not created.
Uncreated == {"GEN.SCHEMA_INVALID", "APP.INVALID_NAME", "GEN.WIZARD_CANCELLED"}
Code == Uncreated \cup {"none", "ok", "GEN.TOOL_MISSING", "GEN.DEST_CONFLICT", "GEN.STEP_FAILED"}
Step == {"idle", "wizard", "check", "values", "answers", "mkdir", "pipeline", "recipe",
         "unwind", "cleanup", "ended", "killed"}

TypeOK ==
    /\ BootstrapTypeOK
    /\ call \in [Driver -> Arguments]
    /\ step \in [Driver -> Step]
    /\ pos \in [Driver -> 0 .. Len(Pipeline)]
    /\ code \in [Driver -> Code]
    /\ temp \in [Driver -> SUBSET TempFile]
    /\ tree \in [Dest -> {NoTree} \cup Tree]
    /\ made \subseteq Driver
    /\ spent \in [{"kill", "removal", "call", "elsewhere"} -> Nat]

Init ==
    /\ BootstrapInit
    /\ call \in [Driver -> Arguments]
    /\ step = [d \in Driver |-> "idle"]
    /\ pos = [d \in Driver |-> 0]
    /\ code = [d \in Driver |-> "none"]
    /\ temp = [d \in Driver |-> {}]
    /\ tree = [x \in Dest |-> NoTree]
    /\ made = {}
    /\ spent = [e \in {"kill", "removal", "call", "elsewhere"} |-> 0]

Goes(d, from, to) == step[d] = from /\ step' = [step EXCEPT ![d] = to]

\* SystemExit with a code: before generate's try only main's finally runs.
Fails(d, from, why) ==
    /\ Goes(d, from, IF from \in {"mkdir", "pipeline", "recipe"} THEN "cleanup" ELSE "unwind")
    /\ code' = [code EXCEPT ![d] = why]
    /\ UNCHANGED <<call, pos, temp>>

Keeps == UNCHANGED <<bootVars, tree, made, spent>>

-----------------------------------------------------------------------------
(* Before the destination exists. *)

\* main: with an answers file generate starts at once; otherwise the destination
\* must be absent and the wizard is started.
Start(d) ==
    /\ step[d] = "idle"
    /\ \/ call[d].entry = "file" /\ Goes(d, "idle", "check") /\ UNCHANGED <<call, pos, code, temp>>
       \/ /\ call[d].entry # "file" /\ Present(call[d].dest)
          /\ Fails(d, "idle", "GEN.DEST_CONFLICT")
       \/ /\ call[d].entry # "file" /\ ~Present(call[d].dest)
          /\ Goes(d, "idle", "wizard")
          /\ temp' = [temp EXCEPT ![d] = {Acquired} \cup
                         IF call[d].entry = "prefill" THEN {Merged} ELSE {}]
          /\ UNCHANGED <<call, pos, code>>
    /\ Keeps

\* What the wizard ends with when it refuses its tool, its result or the answers.
WizardCodes == Uncreated \cup {"GEN.TOOL_MISSING"}

\* run_wizard.main and entry_answers: the runner removes its descriptor, unless it
\* could not write it, and the driver the answers file when the runner failed.
Wizard(d) ==
    /\ \/ /\ Goes(d, "wizard", "check")
          /\ temp' = [temp EXCEPT ![d] = @ \ {Merged}]
          /\ UNCHANGED <<call, pos, code>>
       \/ /\ Goes(d, "wizard", "unwind")
          /\ \E why \in WizardCodes, unwritten \in SUBSET {Merged} :
              /\ unwritten # {} => why = "GEN.SCHEMA_INVALID" /\ call[d].entry = "prefill"
              /\ code' = [code EXCEPT ![d] = why]
              /\ temp' = [temp EXCEPT ![d] = (@ \ {Merged, Acquired}) \cup unwritten]
          /\ UNCHANGED <<call, pos>>
    /\ Keeps

\* generate: the answers, the destination, the tools, in this order. What the
\* wizard returned has passed the same schema.
Check(d) ==
    /\ \/ /\ call[d].entry = "file"
          /\ \E why \in {"GEN.SCHEMA_INVALID", "APP.INVALID_NAME"} : Fails(d, "check", why)
       \/ Present(call[d].dest) /\ Fails(d, "check", "GEN.DEST_CONFLICT")
       \/ ~Present(call[d].dest) /\ Fails(d, "check", "GEN.TOOL_MISSING")
       \/ ~Present(call[d].dest) /\ Goes(d, "check", "values") /\ UNCHANGED <<call, pos, code, temp>>
    /\ Keeps

\* write_values, then write_answers_for_compose: the try begins after both. A write
\* may fail when the file exists already.
WriteFile(d, from, file, next) ==
    /\ \/ Fails(d, from, "GEN.STEP_FAILED")
       \/ /\ Goes(d, from, "unwind")
          /\ code' = [code EXCEPT ![d] = "GEN.STEP_FAILED"]
          /\ temp' = [temp EXCEPT ![d] = @ \cup {file}]
          /\ UNCHANGED <<call, pos>>
       \/ /\ Goes(d, from, next)
          /\ temp' = [temp EXCEPT ![d] = @ \cup {file}]
          /\ UNCHANGED <<call, pos, code>>
    /\ Keeps

-----------------------------------------------------------------------------
(* The pipeline. *)

\* A mutant: mkdir(exist_ok = True).
MkdirOrJoin(x, d) == tree' = [tree EXCEPT ![x] = IF Present(x) THEN @ ELSE Fresh(d)]

\* dest.mkdir: creates the directory, or raises when there is something already.
Mkdir(x, d) == ~Present(x) /\ tree' = [tree EXCEPT ![x] = Fresh(d)]

\* cargo_generate: the tools, then the directory.
MakeDest(d) ==
    LET x == call[d].dest
    IN  /\ \/ Fails(d, "mkdir", "GEN.TOOL_MISSING") /\ UNCHANGED <<tree, made>>
           \/ Present(x) /\ Fails(d, "mkdir", "GEN.STEP_FAILED") /\ UNCHANGED <<tree, made>>
           \/ /\ Mkdir(x, d)
              /\ Goes(d, "mkdir", "pipeline") /\ made' = made \cup {d}
              /\ UNCHANGED <<call, pos, code, temp>>
        /\ UNCHANGED <<bootVars, spent>>

Steps(d) == IF call[d].release THEN ReleasePipeline ELSE Pipeline
Upcoming(d) == Steps(d)[pos[d] + 1]
Runs(d) == step[d] = "pipeline" /\ pos[d] < Len(Steps(d))

Written(x, d) == [tree EXCEPT ![x].writers = @ \cup {d}]
Through(d) ==
    /\ tree' = [tree EXCEPT ![call[d].dest].writers = @ \cup {d},
                            ![call[d].dest].done = Append(@, Upcoming(d))]
    /\ pos' = [pos EXCEPT ![d] = @ + 1]

\* run_command: a status other than 0 and a directory that is gone end the driver.
StepFails(d, from) ==
    /\ \E why \in {"GEN.STEP_FAILED", "GEN.TOOL_MISSING"} : Fails(d, from, why)
    /\ tree' = IF Present(call[d].dest) THEN Written(call[d].dest, d) ELSE tree

\* cargo generate with its hook, cargo fmt, the patch, one document, one build.
Command(d) ==
    /\ Runs(d) /\ Upcoming(d) \notin Bootstrapped
    /\ \/ StepFails(d, "pipeline")
       \/ /\ Present(call[d].dest) /\ Through(d)
          /\ UNCHANGED <<call, step, code, temp>>
    /\ UNCHANGED <<bootVars, made, spent>>

\* run_recipes: just setup, just lint, just test.
StartRecipe(d) ==
    /\ Runs(d) /\ Upcoming(d) \in Bootstrapped
    /\ \/ StepFails(d, "pipeline") /\ UNCHANGED bootVars
       \/ /\ Present(call[d].dest)
          /\ Begin(d, Upcoming(d), "install", call[d].override, call[d].dest)
          /\ Goes(d, "pipeline", "recipe") /\ UNCHANGED <<call, pos, code, temp, tree>>
    /\ UNCHANGED <<made, spent>>

\* Recipe statuses: just passes on the script's; just test goes on to
\* consumer_checks.py. (The mutant is that of a recipe that ignores the script's.)
AnyStatus(d) == IF Present(call[d].dest) THEN BOOLEAN ELSE {FALSE}
RecipeStatus(d) ==
    IF boot[d].ok /\ Present(call[d].dest)
    THEN {TRUE} \cup IF Upcoming(d) = "test" THEN {FALSE} ELSE {}
    ELSE {FALSE}

EndRecipe(d) ==
    /\ step[d] = "recipe" /\ At(d, "idle")
    /\ \/ FALSE \in RecipeStatus(d) /\ StepFails(d, "recipe")
       \/ /\ TRUE \in RecipeStatus(d) /\ Through(d)
          /\ Goes(d, "recipe", "pipeline") /\ UNCHANGED <<call, code, temp>>
    /\ UNCHANGED <<bootVars, made, spent>>

Succeed(d) ==
    /\ step[d] = "pipeline" /\ pos[d] = Len(Steps(d))
    /\ Goes(d, "pipeline", "cleanup")
    /\ code' = [code EXCEPT ![d] = "ok"]
    /\ UNCHANGED <<call, pos, temp>> /\ Keeps

\* A mutant: the files are removed after the recipes, without a finally.
UnlinkedAtTheEnd(d) == {Acquired} \cup IF code[d] = "ok" THEN {Values, Composed} ELSE {}

\* What the finally blocks unlink: generate's both files, main's the wizard's answers.
Unlinked(d) ==
    {Acquired} \cup IF step[d] = "cleanup" THEN {Values, Composed} ELSE {}

End(d) ==
    /\ step[d] \in {"unwind", "cleanup"}
    /\ step' = [step EXCEPT ![d] = "ended"]
    /\ pos' = [pos EXCEPT ![d] = 0]
    /\ temp' = [temp EXCEPT ![d] = @ \ Unlinked(d)]
    /\ UNCHANGED <<call, code>> /\ Keeps

-----------------------------------------------------------------------------
(* The environment. *)

Spend(event, limit) ==
    /\ spent[event] < limit
    /\ spent' = [spent EXCEPT ![event] = @ + 1]

\* The driver dies with the commands it started.
Kill(d) ==
    /\ step[d] \notin {"idle", "ended", "killed"}
    /\ Spend("kill", MaxKills)
    /\ step' = [step EXCEPT ![d] = "killed"]
    /\ pos' = [pos EXCEPT ![d] = 0]
    /\ Finish(d, FALSE)
    /\ UNCHANGED <<managed, venv, call, code, temp, tree, made>>

\* The person runs a recipe in a project, whole or not.
CallByHand(x) ==
    /\ Present(x) /\ Occurs("generate", tree[x].done)
    /\ Spend("call", MaxCalls)
    /\ \E r \in Retries : Begin(Person, r[1], r[2], r[3], x)
    /\ UNCHANGED <<drivers, tree, made>>

\* The recovery of GEN.STEP_FAILED, followed when nothing runs in the directory.
AtWork(x) ==
    \/ \E d \in Driver : call[d].dest = x /\ step[d] \in {"pipeline", "recipe"}
    \/ \E c \in Caller : ~At(c, "idle") /\ boot[c].dest = x

RemoveDest(x) ==
    /\ Present(x) /\ ~AtWork(x)
    /\ Spend("removal", MaxRemovals)
    /\ tree' = [tree EXCEPT ![x] = NoTree]
    /\ venv' = [venv EXCEPT ![x] = "absent"]
    /\ UNCHANGED <<managed, boot, drivers, made>>

\* A project that asks for another version shares the managed binary.
Elsewhere ==
    /\ Spend("elsewhere", MaxElsewhere)
    /\ managed' \in Version \ {managed}
    /\ UNCHANGED <<venv, boot, drivers, tree, made>>

Driving(d) ==
    \/ Start(d) \/ Wizard(d) \/ Check(d)
    \/ WriteFile(d, "values", Values, "answers") \/ WriteFile(d, "answers", Composed, "mkdir")
    \/ MakeDest(d) \/ Command(d) \/ StartRecipe(d) \/ EndRecipe(d) \/ Succeed(d) \/ End(d)

Booting(c) == BootstrapStep(c) /\ UNCHANGED <<drivers, tree, made, spent>>

Next ==
    \/ \E d \in Driver : Driving(d) \/ Kill(d)
    \/ \E c \in Caller : Booting(c)
    \/ \E x \in Dest : CallByHand(x) \/ RemoveDest(x)
    \/ Elsewhere

Spec == Init /\ [][Next]_vars

-----------------------------------------------------------------------------
(* Properties. *)

\* A project is the work of the one driver that created its directory, however
\* the drivers, their deaths and the removals interleave: absence is looked at long
\* before the directory is made, and every later step finds it by path only. And
\* a driver that promises that it created no destination created none.
OwnDestination ==
    /\ \A x \in Dest : Present(x) => tree[x].writers \subseteq {tree[x].maker}
    /\ \A d \in made : code[d] \notin Uncreated \cup {"GEN.DEST_CONFLICT"}

\* A driver reports success for a directory that it created, in which each step of
\* the pipeline then succeeded once, in the order of docs/generation.md, and whose
\* environment has sc-lint: whatever a person's recipes did to it meanwhile and
\* whichever version of the shared binary another project put in place.
FinishedIsWhole ==
    \A d \in Driver : code[d] = "ok" =>
        /\ d \in made
        /\ LET x == call[d].dest
           IN  tree[x].maker = d => tree[x].done = Steps(d) /\ venv[x] = "ready"

\* A driver that ends, at any step and for any reason but being killed, leaves none
\* of its temporary files, which hold the answers, but for those of a failed write
\* before there is a destination: the descriptor of the wizard, or the values and
\* the answers for sc-compose (their try begins after both).
EndsClean ==
    \A d \in Driver : step[d] = "ended" /\ temp[d] # {} =>
        /\ d \notin made
        /\ \/ temp[d] = {Merged} /\ code[d] = "GEN.SCHEMA_INVALID"
           \/ temp[d] \subseteq {Values, Composed} /\ code[d] = "GEN.STEP_FAILED"
=============================================================================
