# A TLA+ model of sc-runtime

sc-runtime is a Rust workspace for small local daemons: a scheduler that keeps
its schedules in SQLite (`crates/sc-cron`), a single-writer SQLite helper
(`crates/sc-runtime-db-sqlite`), a daemon assembly (`crates/sc-runtime`) over
a local transport (`crates/sc-transport`), and the configuration, command and
template crates around them. Beside it stand Python programs: the plan-anchoring
skill that keeps and judges the requirements of a plan, the generator of new
projects with the bootstrap script it puts into them, and the scripts and
workflows that release the workspace.

This directory models the parts in which several actors meet: the schedule table
that processes share, the worker and the timer calls that run the schedules, the
controller that decides what may still start, commit or run during a shutdown,
the thread that alone writes a SQLite database; agents that edit and judge one
record of anchors, and their settings; drivers that generate a project; and runs
of the release workflows over registries that lag and fail. The contracts and
plans these programs compute are pure operators, checked over small inputs.

`tlc -config X.cfg M` checks a run, `tlapm M.tla` the proofs of the modules named
`*Proofs`. `PROJECT.json` lists the components, the runs, the mutants that show
that each property can fail, the source lines each definition translates, the
hazards and the findings.

## Inventory

| Component | State | Operations | What must hold |
| --- | --- | --- | --- |
| Schedule store (`sqlite.rs`, `store.rs`) | the rows of `sc_cron_schedule`; each process's row limit | create, list_active, record_run, set_next, stop, disable, set_enabled, set_enabled_many, replace_and_set_enabled | writes are fenced by (id, generation); generations only rise; the row ceiling; multi-row flags are atomic |
| Worker (`worker.rs`, `worker/`) | slots, pending ends, reload and retry timers, stopping | the loop: retry ends, reload, expire, launch, select; complete; drain | no occurrence with a confirmed advance runs twice; nothing due, ended or changed is forgotten; shutdown ends |
| Operation controller (`operation.rs`) | budget, cancelled, active and command counts, interrupt handles, worker_finished | register, stop, cancel, admit_commit, interrupts, timers, join | nothing is admitted past its cutoff; the join means physical completion |
| Scoped SQLite calls (`sqlite_scope.rs`) | one connection, its handler and commit hook, quarantine | lock, commit hook, drop | an uncertain outcome is never reported as a known one |
| Scheduler (`scheduler.rs`) | store, reload signal, worker claim | start, stop, set_enabled, replace, spawn, shutdown | its own worker is signalled, others poll |
| run_due (`scheduler/run_due.rs`) | a list of rows read once, the runs it started | one call: list, store the next run, launch, await and record each | an occurrence whose next run was stored runs once; a row is ended only after its last run |
| Monty runs (`coord.rs`, `monty_*.rs`) | names in flight, feed count, saved sessions | enter, feed, finish | one feed per name; no mark is left behind; a feed outlives shutdown deadlines |
| Process supervisor (`process.rs`) | child process group, kill and reap timers | supervise | no process of the group survives |
| SQLite writer (`sc-runtime-db-sqlite`) | bounded queue, writer thread | execute, transaction, drop | each job all or nothing, in order, answered after the commit |
| Daemon (`sc-runtime`) | instance lock, listener, drain gate | run | one daemon per instance root; lock held until cleanup is over |
| Transport, configuration, command envelope, cron commands | none, or a file | resolve, load, format | precedence and merging |
| Anchor record (`jev_judge.py`) | `anchors.json`, run files | add, update, retire, promote, exclude, set-beads, judge, coverage | what can be read is valid; what was acknowledged stays; the planning gate passes only when it should |
| Jev judging (`jev_judge.py`) | the asks of one command | judge, check-fixtures, rubric, dedupe | a pass was said and confirmed; the plan gate never sends a shortened item; every command ends |
| Anchor settings (`plan_anchor_settings.py`, `anchor_tracker.py`) | `settings.yaml` files of nested folders | set, write, the consent check | consent is never inferred; no answer is lost |
| Agent contracts (`anchor_runner_contract.py`, `anchor_tuning_contract.py`) | none | resolve, validate, attest | a result is accepted only as the contract says |
| Project generation (`new_project.py`, `run_wizard.py`) | destination, temporary files | one pipeline | whose the directory is, what success means, what is left behind |
| Bootstrap (`.sc-lint/bootstrap.py`) | the shared sc-lint, a project's environment | setup, upgrade, lint, test | no recipe succeeds without them |
| Release (`.github/scripts`, `.github/workflows`) | tag, crates.io, the draft release, npm | gate, tag, publish, retry, verify | the version gets out, from one source and as one build |
| Installer, template scripts, benchmarks | none | copy, render, check | formats |

How they meet: processes share only the table; a scheduler signals its own
worker through a watch channel, every other writer is noticed by the worker's
poll or by a refused (fenced) write; the worker's runs are tasks that report
once; a cooperative worker's store calls pass through the controller, which
stop controls and handles of other threads drive at the same time. Calls of
`run_due` share the names in flight with each other and with the worker. The
Python programs meet in files, found again by path at every step and never
locked; the release runs meet in GitHub and the registries.

What is hard: an (id, generation) read long before it is written; the awaits of
the worker's loop, at each of which rows, runs and the shutdown request change;
failed and uncertain writes, some retried and some not; critical sections of
the controller released between a decision and its effect; crashes between
storing a next run, running and recording. In the Python programs: a file read,
changed in memory and replaced whole; a shared temporary name; a check long before
the use; an answer that is lost after the request took effect.

## Modules

| Module | Models |
| --- | --- |
| `ScheduleRows` | the table and its statements, as operators from rows to rows |
| `ScheduleLifecycle` | abstract: what a name's life looks like |
| `ScheduleStore` | several processes writing one table; implements `ScheduleLifecycle` |
| `ScheduleStoreProofs` | the theorems about `ScheduleStore` |
| `CronWorker` | the worker, over the same `ScheduleRows` |
| `CronWorkerProofs` | the theorems about `CronWorker` |
| `DuePass` | calls of `run_due`, over the same `ScheduleRows` |
| `DuePassProofs` | the theorems about `DuePass` |
| `OperationController` | the controller and its callers |
| `OperationControllerProofs` | the theorems about `OperationController` |
| `WriteQueue` | abstract: what callers of the SQLite writer may rely on |
| `SqliteWriter` | the writer's queue, thread and batches; implements `WriteQueue` |
| `SqliteWriterProofs` | the theorems about `SqliteWriter` |
| `AnchorRecord`, `AnchorWorkspace` | the record of anchors as a value; the processes and files around it |
| `AnchorWorkspaceProofs` | the theorems about the two |
| `AnchorVerdict`, `AnchorJudge` | what answers mean, as operators; one command that asks for them |
| `AnchorSettings` | the settings files and the commands on them |
| `AnchorContracts`, `AnchorTuning` | the contracts of the anchor agents, as operators |
| `Bootstrap`, `Generation` | the bootstrap script; the drivers, composed with it |
| `GenerationProofs` | the theorems about `Generation` |
| `ReleaseManifest`, `ReleaseChannels` | what the release scripts compute, as operators |
| `Release` | the release runs, the registries and npm |
| `ToolProofs` | the theorems about `AnchorSettings`, `AnchorJudge` and `Release`, in three parts |
| `MC*` | the instances TLC checks; `MCAnchorContracts`, `MCReleaseChannels` and `MCRelease` also check pure operators over bounded inputs, as assumptions that TLC evaluates with the run that extends them |

### ScheduleRows, ScheduleLifecycle, ScheduleStore

Each call of `SqliteScheduleStore` is one statement or one IMMEDIATE
transaction, hence one action. A row has the columns that a guard reads:
generation, enabled, next run, last outcome, ended. `Matches` is the WHERE
clause of a guarded update, `MatchesEnabled` that of `set_next`. In
`ScheduleStore` each writer holds one pair it read earlier (`held`) and may use
it at any later time, so every fenced write can be stale. A recorded outcome is
represented by the generation whose run produced it, which is what
`OutcomeOfGeneration` compares. `ScheduleLifecycle` keeps, per name, its latest
generation and whether it is active; the refinement maps a row to these two.

### CronWorker

`pc` follows `Worker::run`; a step goes from one await to the next. `top` is
the head of the loop, `retry` is `retry_ends`, `reload`, `list`, `merge` are
`reload` before its query, the query and `merge`, `expire`, `launch` and
`start` the two passes over the slots (`start` is `launch_selected` and
`launch` for the slot just persisted), `complete` and `end` the store calls a
finished or exhausted run leads to, `select` the sleep, `drain` and `done` the
shutdown. `todo` is what is left of the current loop, so that slots are handled
in any order. `Call` gives the four answers of a store call: accepted, fenced,
known to have failed, and the one that the worker has to reconcile. Behind that
last one are two outcomes: the effect is unknown and the connection is quarantined,
or the write committed, too late, and the connection stays good (`store_calls.rs`).
`ran` and `exhausted` are history variables for the properties.

What is abstracted: retry delays are any member of `Delays` (the doubling and
its reset are not modelled); timers are countdowns; the clock only moves
forward and stops at `horizon`, while timers go on; an active row always has a
next run (the table's CHECK), so `new_slot` makes no store call; the per-row
look at the stop inside `merge` is one look; a run task that was aborted by
somebody other than the worker (the JoinError branch) does not occur. Runs are
Rust or Python hooks.

### DuePass

A call of `run_due` is a future that goes from one await to the next: `new`,
`listed` (the rows are read), `launching` (the due rows still to be taken),
`claimed` (the name is marked and the next run is being stored), `collecting`,
`ended`. `Launch` is `store_next_before_launch` with the spawn that follows it,
which nothing can separate. A run is `running`, then `stamped` (the report is
in, the clock read and the write handed to the blocking pool), `noted` and
`written` or `done`, since `persist_report` makes up to two separate writes. A
Rust or Python run is recorded by its call, in order; a Monty run by its own task,
which also holds the mark of its name. Dropping a future aborts the former and
forgets the latter, and leaves the write that was under way (`late`). `todo` is the
set of the listed rows that are left, taken in the order of the query (`Order`).

What is abstracted: what a hook does; how long it may take (a timeout is a
report like another); scoped store calls; the saved Monty session and the count
of feeds; a worker on the same rows, which the documentation forbids.

### OperationController

A step is one critical section of the controller's mutex. A call goes through
registered (`running`), holding the connection with its handle pushed
(`arming`), checked (`armed`), admitted to commit (`admitted`), and back, any
number of times, until its guard is dropped. Collecting the interrupt handles
and interrupting them are two steps, as in the code. `timers` are the tasks
spawned by `stop`; a timer's wake by a status change repeats a check and is
left out. The join is `enabled`, then checks, then sleeps until woken.

What is abstracted: one store, so one connection; holding it stands for a
statement in progress; a quarantined connection's handle stays registered in the
code and is not modelled, since no later call gets that connection; status
watch, completion times, per-caller deadlines and application-owned controls
are not modelled; the checks still owed by several threads are one flag.

### SqliteWriter, WriteQueue

Callers and the writer thread are the actors. `pc` follows `writer_thread`:
`collecting` is `collect_batch`, `running` the loop of `process_batch`,
`replaying` the loop of `replay`, `replying` the answers after the commit,
`leaving` the time between the end of the loop and the drop of the receiver,
when jobs can still enter the queue. A savepoint with what runs in it is one
step, since only this thread uses the connection; its outcomes are all those
the code distinguishes, at any member of a group. `open`, `tx` and `db` are
SQLite: the outer transaction, the writes in it and the durable ones. With no
transaction open, the release of a savepoint commits.

`WriteQueue` knows the order of acceptance, the durable writes and the answers.
The refinement maps these three to themselves, and every batch, savepoint and
replay to a stutter.

What is abstracted: a write is the name of its job; deadlines and the batch's
time budget may pass at any moment; opening the database; a body that misuses a
captured handle (it only makes that body slow); the counter `queued`, which
tests read.

### AnchorRecord, AnchorWorkspace

`AnchorRecord` is `anchors.json` as a value and each record command as an operator
from records to records, with the answer it gives. `AnchorWorkspace` adds what the
operating system sees: `anchors.json` and the fixed `anchors.json.tmp` are names of
inodes, a save opens (and truncates) the temporary one, writes it and renames it,
three steps between which other processes act and at any of which this one may die.
`judge` reads the record, waits for its answers, chooses a free name by the second and
saves a run the same way, through a temporary name (`drafts`) that two runs of one
item and second can share. A cell of a run is excluded, `deterministic_only` (a
structural anchor), without a verdict (a dry run), or what the answers come to, of
which `not_addressed` stands for the four that fail. `Latest` and `Uncovered` are what
`coverage` makes of the runs, in the order of their names. A text is one of a few;
what the lint and the duplicate check say of it is a constant. `RecordCommand` and
`JudgeCommand` are what the command line accepts: an add of any status, a judge of any
anchors with `--include-unlocked`.

### AnchorVerdict, AnchorJudge

`AnchorVerdict` has the verdicts, the rubric's outcomes and the fitting of an item;
`MCAnchorJudge` compares `Decide` with the table of `verdict-gating.md` over all
small responses, and the reduction of a plan item with its specification.
`AnchorJudge` is one command: `check`, then cell by cell `ask` and `decide`, with
every way in which `call_jev` returns as an action of its own, then `finish`, the
run file and the exit code. A user may interrupt it anywhere. `calls` counts the
requests of one ask, which `RequestsAreSound` bounds.

### AnchorSettings

A place finds the nearest settings file at or above it. `set` and the tracker's
`write` read that file, change one key and write it whole, in two steps; a judge
run reads the consent, and sends later. `answer` is what the user settled for each
place, `allowed` where a yes was ever given. Edits by hand interleave.

### AnchorContracts, AnchorTuning

Operators for `resolve_agent`, `validate_runtime`, requests, results, replies and
attestations, and for the sealed questions, the chained history, the decisions and
the triage of tuning. A value stands for its digest. Of a refusal only the fact
is kept where the properties need no code. `MCAnchorContracts` states what they must
achieve together: what is pinned stays pinned, an accepted result can be recorded,
a valid history can only grow, a dispute is bound to what it is about.

### Bootstrap, Generation

`Bootstrap` is a call of `setup`, `upgrade`, `lint` or `test`: it resolves the
binary, checks or installs it, provides the environment, runs. A virtual environment is
absent, bare (a python without pip), empty (without packages) or ready. `Generation`
composes it with drivers: arguments and wizard, checks, the two temporary files, `mkdir`,
the pipeline of `docs/generation.md` in order, whose recipes are Bootstrap calls, the
unlinking and the report. `tree` remembers who made a directory and who wrote in
it. A person may call recipes there or remove it, drivers may be killed, and
another project may replace the shared binary.

### ReleaseManifest, ReleaseChannels, Release

The first two are what the scripts compute from manifests, contracts and answers.
`Release` is the workflow: the gate that admits a run, the tag at the gated commit of
main, the crates one by one (look up, publish, wait until visible), the draft with its
files until it is immutable, npm after that; and the separate retry of the crates. A
request may succeed and its answer be lost; a run may die. Of crates.io there are two
views. The API, which the lookup and the verification ask, shows an upload later
(`Visible`, `CatchUp`). The index, which cargo resolves dependencies from, may be
behind the API or ahead of it: `cargo publish` of a crate is accepted at any time
after what it needs was uploaded, and may be refused at any time (`CargoRefused`).
Bytes of a build are nobody else's. GitHub, crates.io and npm are external: they do
what the scripts rely on.

### Sources in two copies

`src/.codex/skills/plan-anchoring` and `src/.cursor/skills/plan-anchoring` are the same
files, byte for byte. `map` names one or the other copy of a function; every
definition holds of both. The two `bootstrap.py` (`src/.sc-lint`, and
`src/template/.sc-lint` for the generated projects) differ in details that the
module abstracts from; the map names the one whose lines it stands for.

## Runs

| Run | Instance | Shows |
| --- | --- | --- |
| `store` | 3 names (2 exclusive), 2 writers with limits 1 and 2, generations 1..2 | types, fencing, the row limit, exclusive groups and the refinement of `ScheduleLifecycle` |
| `worker` | 1 name, occurrences 1 and 2, a scoped store, 2 foreign writes, 1 failed, unknown or late write, 1 restart, both kinds of stop | replay, ends and retries, runs in flight, uncertain writes |
| `worker_liveness` | 1 name, a plain store, 2 foreign writes, 1 failure, a stop with no deadline or one at once, the clock stops at 1 or 2 | what is due is handled (but for a disable and enable around a tick), what changed is noticed, a stop completes |
| `due_pass` | 2 names (1 Monty, with occurrences 1 and 2), 2 calls, 2 events | when an occurrence may run twice, a feed is alone, a row is ended as documented |
| `controller` | 2 calls, capacity 1, clock 0..2 | capacity, the join, interrupts, revocation; the join returns |
| `writer` | 2 statements, 1 body, a queue of 2 | the join drains, every accepted job is answered, the refinement of `WriteQueue` |
| `anchors` | 2 processes, 4 commands out of 16, seconds 0..1 | what is readable, acknowledged, judged and passed |
| `judge` | 9 commands of 1 or 2 cells, threshold 60, cap 10, floor 2, 3 attempts | whole plans, bounded asks, earned passes, an end |
| `consent` | a folder, a repository and a folder in it, 2 processes, 4 events | settled answers, consent |
| `release` | 2 crates, 2 runs and a retry, 2 commits, 1 fault | that what a crate needs was seen before it, one source, one build, and that the version gets out |
| `generation` | 2 drivers, 1 destination, 1 person, 2 versions of sc-lint, each event once | whose the project is, what success and an end mean |
| `rebuilt_slot` | 1 name, a plain store, 1 failure | expected violation: a slot rebuilt after a failed delete runs an occurrence again |

Why these bounds are enough to meet the cases: two occurrences give a tick with a next
run to store, a last one without, and, at time 2, a coalesced (missed) one; two
generations give a stale and a current one and the refusal at the limit; two foreign
writes give disable-then-enable and stop-then-start around any step, in the liveness
run too; one failure reaches each retry path and each uncertain write; one restart
reaches every point of a crash. Two calls with capacity 1 give a command that must
wait and a worker call beside it; a clock of three instants gives a grace cutoff
before the cleanup one and a stop that shortens both. Two statements and a body give a
group that is replayed, jobs before and after a failing one in one batch, and, with a
queue of two, a refused job. Two calls of `run_due` with two events give a drop, a
death, a panic or a failed write in the first and another one before or in the second;
with the row's other name, a call that records one run while another goes on. Four
commands of two processes give two saves at once, an identifier whose anchor was
retired or lost in between, a run before and after a change, and three runs of one
second. The cells of `judge` lie on both sides of the cap, the floor and the
threshold. Four events in three nested folders give a selection that shadows a file
and one that moves it. Two release runs, a retry and one fault give a draft that two
runs write, a crate that is uploaded and not seen, an index behind the API and ahead
of it, and a death at every step.

`worker` is the scoped worker only: every step of a plain one that is not about the
handle's deadline is one of its steps. With `Cooperative = FALSE` and
`Stops <- HandleOnly` the same properties hold; with a stop control a plain worker
violates `EndedAfterLastRun` (see below). One name is enough for its properties,
each of which is about one name; that two names do not delay each other is not shown.

### Fairness

The runtime polls the worker's task (`WF(WorkerStep)`) and time passes (`WF(Tick)`);
no job is obliged to finish and nobody to write. In the controller each closure ends,
however often it takes the connection (`SF` of its last step, `WF` of the two that
lead there), a stopped worker ends, and the join is polled. The writer's thread runs
(`WF(Thread)`), which includes that bodies return; callers owe nothing. In
`AnchorJudge` the command goes on and a request comes back or times out (`WF` of
each): the client has a timeout. In `Release` jobs run on, the API catches up, main
reaches the candidate, and an operator starts again what has not succeeded, as the
release documents say. The index catches up too: of the jobs that come to `cargo
publish` again and again, one is let through (`SF`); deaths and lost answers are
bounded, which is what a version can survive. `ScheduleStore`, `DuePass`,
`AnchorWorkspace`, `AnchorSettings` and `Generation` state no fairness and no
liveness.

### Deadlock

`OperationController`, `SqliteWriter`, `DuePass`, `Release`, `Generation` and the
three anchor modules may stop when all calls are over or their events are used
up, so their configurations switch the check off. In `ScheduleStore` and
`CronWorker` a write that changes nothing or a tick is always possible, so the
check says little there; the leads-to properties do that work.

### Type invariants

Each module states one. They are proved, and that of `ScheduleStore` is checked by its
run too, but for two: those of `AnchorJudge` and `Release` hold in the instances above
and are not part of a run. The proofs about these two rest on types of their own, which
leave open what does not matter to them (`JudgeShape`, `Sized`, `ReleaseShape`).

## Proofs

The assumptions are those the modules declare: that finite sets are finite, bounds
are positive, values such as `None` are none of those they stand beside, every
expression has an occurrence, the rows have an order, folders form a forest of
finite depth, commands have cells with sizes, and a manifest has the release's crates.
Three theorems have a hypothesis of their own, named below: `EndsAfterLastRun` and
`ReadableValid`, which TLC needs too, each with a finding for the case it leaves out;
and `OrderHolds`, whose hypothesis `NeededAreSeen` TLC evaluates with run `release`. The
repository's manifest satisfies it: every crate is published and verified.

`ScheduleStoreProofs` proves, for every set of names, writers, limits and
instants, the properties that run `store` checks, and `NextWhileActive`.
`TypeOK` is inductive by itself, from one lemma per operator of
`ScheduleRows` saying that it maps tables to tables. Each of the other invariants
is inductive together with `TypeOK`: `NextWhileActive` because every write sets
`next` and `ended` together; `OutcomeOfGeneration` because a fenced write that
matches carries the row's generation, and a rewrite clears the outcome;
`AtMostOneEnabled` because a call that enables a row of the group disables the
others in the same write. `RowLimit` needs how a write changes the set of active
names: it grows by at most the written name, and only after `HasRoom` for that
writer's limit (`ActiveNames` is finite, since `Name` is). The refinement shows
that a step leaves every name's generation and activity alone or changes one
name's as `Begin`, `Supersede` or `End` do.

`OperationControllerProofs` proves, for every finite set of calls, every capacity
from 1 to 65536 and every horizon of the clock, the four safety and action
properties that run `controller` checks, its types, and that the cutoffs stay
ordered and only move back. Few of them are inductive alone. `IInv` adds:

- `Counted`: `active` and `commands` are the numbers of guards alive, and the
  capacity bounds the second. `CapacityIsPhysical` speaks of closures, the code
  only compares a counter; and the join reads `active = 0` where
  `JoinedIsQuiet` says that no guard is alive.
- `RevokedIsOver`: whoever cancels has already put the grace cutoff in the past,
  so that `admit_commit` refuses ordinary work even before `cancelled` is set.
- `FinishedIsStopped`: a finished worker was stopped and its own calls are over,
  so that after it only commands are alive and none can be registered.
- `OneHolder`: one call at most holds the connection.
- `Watched` and `Noticed`: until the join returns, a timer goes off no later
  than any cutoff ahead; and a statement whose cutoff has passed was
  interrupted, or a thread or timer that will do it is under way. Each of the
  steps that may drop such a duty (a check, a delivery, a timer, the removal of
  a handle) either hands it on or ends it. `ExpiredIsInterrupted` is `Noticed`
  when nobody is under way.

`GenerationProofs` proves the three properties of run `generation` and the types,
for any drivers, directories, versions, arguments and bounds. Its `IInv` is `TypeOK`,
`Authored` (a directory was written by its maker only) and, for each driver, `Inv`,
a conjunction by where it is: `Waiting` (before `mkdir` it is through no step), `Coded`
(what it may report there), `Files` (which temporary files it may have), `Works` (in
the pipeline its directory is there and its own, and `done` is the prefix of the
pipeline up to `pos`), `Assured` (what the recipe under way has established of the
environment), `Whole` (what a success left). The hard part is that others act on a
directory by its path: `Undisturbed` says that a step of another actor leaves it
as it was, at least, or that it is this driver's no more.

`DuePassProofs` proves `FeedIsAlone`, `SerialRunsOnce`, `SerialEndsFinal` and the types
for any number of calls, names, occurrences, drops, deaths, panics and failed writes.
`SerialRunsOnce` allows a second start of an occurrence in two cases, which the code has:
the first start's `set_next` failed or there was no next run to store, and, of the final
occurrence, its run was not recorded either. For `FeedIsAlone`, `IInv`
adds `Held`, which ties a run's mark to its state, so that a panic or a release gives
back the mark of its own run and no other's; what the table holds plays no part. For
`SerialRunsOnce` everything does: `OInv` says that of calls that follow one another one goes
on at most, the last that was made (`OneGoesOn`), that a call is not ahead of the rows
or of its clock (`Behind`), and, for each occurrence that was started, that the row,
what is listed, the runs still going and the writes still under way lie beyond it
(`Beyond`), except where nothing recorded it: `MayRunAgain` is that exception, the same
as in the property. For `SerialEndsFinal`, `EInv` follows whoever is about to end a row: a call
with a recorded row at the head of its list, a run that noted its own record, a write
left behind by a dropped call. Each of them knows of a record after which there is
nothing (`RecordStays`), and nobody records in between: the run that records is of the
one call that goes on, and a name is on its list, or in the write it left, only as
long as it has not started the name's run (`ListedOnce`). The proof needs that `NoRow`
is no row (`NoRowAssumption`), as the other modules over the table assume.

`CronWorkerProofs` proves the five properties of run `worker` and the types, for any
names, occurrences, foreign writes, failures, crashes and restarts, for a plain and a
scoped worker. Each step of the worker is first shown to be one of eleven step
predicates (`StepHolds`), which keep of it what the invariant can tell apart. `IInv` is
the types and:

- `Aged`: what the worker remembers of a name is of no later generation than its row,
  since every foreign write that makes a row new raises it.
- `Attended`, `StopOrder`: where the loop is tells what has become of the slot it
  handles, and of the stop.
- `Down`: an exhausted schedule has a later slot or none, and it waits for its end, is
  being ended, was ended or replaced, or nothing is read any more. This is
  `ExhaustedStaysDown` with the reason why no reload undoes it.
- `Fresh`: what is stored, was read, is waited for or is about to be launched lies
  behind the last occurrence whose advance the store confirmed; `NoReplay` follows.
- `Kept`: while nobody else writes, every slot is of an enabled row, so that a merge
  drops none (`RunIsCompleted`).
- `Uncertain`: once a write's effect is unknown, only a launch that needs no write can
  be under way (`UncertainAuthorizesNothing`).

`EndedAfterLastRun` needs `Earned` on top: an exhausted schedule has consumed its last
occurrence, or its launch was refused by a shutdown that refuses its end as well. That
is so only when the store calls are scoped or there is no stop control
(`Cooperative \/ "control" \notin Stops`), which is the theorem's hypothesis; without it
TLC refutes the property, as the finding at `worker.rs:793` says.

`SqliteWriterProofs` proves `JoinedIsDrained`, the types and that `SqliteWriter` implements
`WriteQueue`, for any statements and bodies and any capacity. `IInv` puts the accepted
jobs in one line: answered, run, in the group, in the batch, in the queue. Jobs only move
forward in it; what the transaction and the database hold is written in its order
(`WrittenInOrder`); a job answered `ok` is written (`OkIsWritten`); `InHand` says what the
thread may hold at each place. In the refinement a commit is one step of `WriteQueue`
that makes a batch of the line durable, and everything up to it is a stutter.
`JoinedIsDrained` speaks of a drop that joined the thread in time, and of an answer: a job
is answered `closed` without having run when the thread panicked, and a drop that gave up
at its deadline promises nothing.

`AnchorWorkspaceProofs` proves the four invariants of run `anchors` and the types, for
any processes, commands, texts and items. `GatePassIsEarned` needs only what runs are
made of: a pass has no failing and no unanswered cell, and an anchor that coverage
does not list was satisfied by some item. `ReadableIsValid` needs `Just`: whatever is
on disk or about to be saved has an ADR for each promoted anchor and no statement that
repeats the quote. The code keeps this only if no command adds an anchor as promoted,
which is the theorem's hypothesis; with `Command <- AddPromoted` TLC refutes it. The
two others hold while one command saves at a time. Then it alone has the temporary
name (`Alone`, `InPlace`, `InHand`), what it saves is grown from what is on disk
(`Derived`, from a lemma per record command: versions only rise, and one version has
one text and one status), and what is on disk is grown from all that was acknowledged
or judged (`Kept`, `Seen`), wherever a later command dies.

The first part of `ToolProofs` proves the two invariants of run `consent` and the types,
for any forest of folders, repositories and commands. It rests on what the nearest file is: the
lowest of those at or above a place, of which there is one at most. `Consented` says that
a file or a planned write that says yes, and a request, are at or below a folder where the
user said it: an inherited yes that the tracker copies keeps the folder it came from.
`Plans` says that what a command will write is what was in effect where it goes when
it read the files, but for one answer; a write into the nearest file, into a new one at
the root, and into one that shadows another then all leave the other answers alone.

The second part proves the two invariants of run `judge`, for any commands, responses,
threshold, cap, floor and number of attempts. `PassIsEarned` holds because a pass is
earned when its entry is written, and an entry is never rewritten. `Aligned` ties each
entry to the cell at its place; `AskedSoFar` says what was asked about the current cell:
of judge_entries a second answer exists only to confirm a first one near the threshold.
`AllEarned` is the property said of one entry, before the exit code is known, and
`RunIsWhole` follows the run file. A criterion that is met had two confident yes answers,
by counting them (`MetIsSureTwice`). `RequestsAreSound` needs `Sized`: each text is within
the cap when it is sent, the item of the plan gate as it was fitted once before the first
request, so that it is never cut again; and `Counted`: an ask makes one request more than
it had failures and halvings. For the halvings the proof counts the powers of two times
the floor between a text and the cap (`Spent`): each halving passes one of them
(`HalvingSpends`). `Fitted`, `Doubled` and the sum over the code blocks of an item are
recursive functions. That they exist, and what they return, is proved by induction on
a set of numbers (`InductionOn`), which follows from the well-foundedness that the
library states for sets; its induction theorems, which take an operator, are not used.

The third part proves the three safety invariants of run `release`, for any crates,
dependencies, manifests, runs, commits and faults. `NothingBeforeTag` and `OfOneCommit`
say of everything that is under way or out where it comes from: the commit of the tag
and, as long as main stood still, its tip (`OneSource`). `DraftIsOwn` says that a run that
had the draft to itself finds in it what it put there, so that what it makes immutable,
and what npm takes from it, is of one build (`PublishedIsOneBuild`). `OrderIsSeen`
rests on `TurnInv`: a job has passed every crate before its own, what the API has shown
it goes on showing, and in the order of publication a crate comes after those it needs
(`InOrder`). It says nothing of the index, which the workflow does not ask. That this
order exists at all is `PlanExists`: the number of crates before a crate is its place.

TLC checked each invariant, or its parts, before it was proved. Only model-checked:
all liveness properties, which the prover does not handle (`DueIsHandled`,
`ChangeIsNoticed`, `StopCompletes`, `JoinReturns`, `AcceptedIsAnswered`, `JudgeEnds`,
`VersionGetsOut`); the types of `AnchorJudge` and `Release`; and most pure operators,
which are compared with their specifications over small inputs.

## Where the code differs from what it says

`PROJECT.json` quotes each of the following beside the line it is about. Run
`rebuilt_slot` shows its finding; the properties named for others are stated in
the modules and violated there, when they are put into the configuration given.

- Worker: a stop check's failed delete during a last run rebuilds a slot that runs
  again (`rebuilt_slot`). The last occurrence of a schedule is launched without a
  fenced write, so a disabled schedule can fire once more (`DisableNoticedAtTick`, any
  plain instance). A disable and enable around one tick lose the tick
  (`ResumesMissedRun`, with two foreign writes; `DueIsHandled` leaves just this out).
  A stop control can end a plain worker's schedule before its last run
  (`EndedAfterLastRun`, with `Cooperative = FALSE`, `Stops <- ControlOnly`).
- Controller: an interrupt meant for an ordinary call can hit a terminal one
  (`CleanupRunsUntilK`).
- Writer: after a statement that takes the whole transaction with it, the later jobs
  of the batch are durable and told that their commit failed
  (`CommitErrorMeansAbsent`).
- `run_due`: a last occurrence that never ran is taken for one that was recorded and
  ended (`FinalIsStarted`, `MCDuePass`); a recorded occurrence whose two `set_next`
  failed runs again; overlapping calls run an occurrence twice and move the next run
  backwards.
- Anchors: runs of one second are ordered by file name, the older one last; coverage
  does not list an anchor that no run judged, and lists a locked structural anchor
  whatever was judged, so that with one the planning gate never passes; promote takes
  a retired anchor; add takes the status promoted and leaves a record that is refused
  as invalid (`ReadableIsValid`, with `Command <- AddPromoted`); an interrupted
  check-fixtures leaves runs; `set` drops a concurrent answer; a result can be valid
  and have no attestation.
- Release: the publish plan lists crates that are not to be published; a channel's
  liveness result is that of its last credential.
- Generation: a bare virtual environment is never repaired; of two drivers the slower
  one is told to remove the other's project; a removed directory is reported as a
  missing tool; a failed write leaves a temporary file with the answers.

Smaller observations, of which no document speaks or only in passing:

- The record of anchors: two adds at once give one identifier twice, the later
  save winning (`anchor-document.md:69` says it is never reused). Coverage does
  not compare the anchor version of a run with the record's, and counts runs of
  fixtures. The tracker's write copies an inherited consent into the new file, so
  that a later change above no longer reaches it.
- Judging: `MAX_ATTEMPTS` bounds an ask, of which a cell has up to three.
  `check-fixtures` shortens an item at the plan gate, where `judge` must not. A pass near
  the threshold whose confirmation failed is written with `summary.pass` true,
  while the command exits with 2.
- Contracts: `resolve_agent` takes an empty version, which `validate_runtime` refuses;
  an empty history makes `validate_tune_result` raise an `IndexError`; an accepted
  tune with zero totals passes; `digest_before` of a planning triage is not
  bound to the seal.
- Release: a Python distribution that mixes platform wheels and runner labels
  passes validate-manifest and never `verify-python-release-assets`; a Homebrew track
  is refused at publication only, though `release_artifacts.py:332` asks for early
  failure; duplicate distributions are taken; a tag may be reused at an older
  ancestor; two runs at once can mix the files of one draft (`PublishedIsOneBuild`
  then speaks of npm only); the failure of a process substitution around
  list-publish-plan goes unnoticed.
- Bootstrap: an sc-lint that is compatible but not the version asked for makes setup
  fail; the shared binary can be replaced between its check and its use.

## Not modelled

- A worker beside `run_due` on one table, which the code forbids by documentation
  only; Monty's interpreter, sessions and hosts, and the count of feeds that a
  shutdown waits for; two names in one worker run.
- The process supervisor, the daemon's lifecycle (lock, drain, cleanup, release), HTTP,
  sockets and the transport's endpoints: concurrent parts that would be the
  next modules, `DaemonLifecycle` first, since the lock has to outlive all else.
- How a scoped SQLite call's outcome is classified, beyond the outcomes
  themselves, which `CronWorker` takes as given.
- Publication to PyPI, Homebrew, Scoop and winget: workflows of their own, each one
  step for the rest of the release.
- Data and I/O: parsing and formatting, cron calendars, schema validation, query
  pages, environment and program resolution, configuration files, the installer
  (which copies files and renders three templates), template scripts, lint wrappers,
  benchmarks and their gates.
