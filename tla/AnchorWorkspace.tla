--------------------------- MODULE AnchorWorkspace ---------------------------
(***************************************************************************)
(* The files of a plan-anchoring workspace, and the processes of           *)
(* jev_judge.py that share them: record commands, each of which loads      *)
(* anchors.json, changes it in memory and saves it, and judge, which       *)
(* leaves a run file behind; and what coverage concludes from the runs.    *)
(*                                                                         *)
(* Nothing is locked. Every save goes through one temporary name,          *)
(* anchors.json.tmp, so two saves can meet in one inode: names and inodes  *)
(* are kept apart here. A process may die between any two of its steps.    *)
(***************************************************************************)
EXTENDS AnchorRecord

CONSTANTS Proc,         \* the processes that run commands
          Command,      \* the commands users give
          MaxCommands,  \* how many are given in all
          MaxTime       \* the last second of the clock

\* judge, of all judged anchors or of those named, which may be of any status
\* with --include-unlocked.
JudgeCommand ==
    [op: {"judge"}, item: Item, all: {TRUE}, dry: BOOLEAN]
    \cup [op: {"judge"}, item: Item, all: {FALSE}, ids: SUBSET AnchorId,
          unlocked: BOOLEAN, dry: BOOLEAN]

ASSUME WorkspaceAssumption == /\ IsFiniteSet(Proc)
                              /\ Item # {}
                              /\ Command \subseteq RecordCommand \cup JudgeCommand
                              /\ MaxCommands \in Nat
                              /\ MaxTime \in Nat

VARIABLES
    file,        \* the inode anchors.json names, or None
    tmp,         \* the inode anchors.json.tmp names, or None
    data,        \* what each inode holds: nothing, a whole or a torn record
    runs,        \* the run files
    drafts,      \* what their temporary names stand for
    proc,        \* what each process is doing, with what it carries
    now,         \* the clock, in the seconds a run's created_at has
    \* observation
    issued,      \* how many commands were given
    acked,       \* the anchor versions that commands reported as saved
    overlapped   \* whether two commands that save ever ran at once

files == <<file, tmp, data>>
history == <<issued, acked, overlapped>>
vars == <<file, tmp, data, runs, drafts, proc, now, issued, acked, overlapped>>

None == 0
Inode == 1 .. Cardinality(Proc) + 2
Idle == [pc |-> "idle"]
Saving == {"asking", "loaded", "opened", "written"}
Empty == [state |-> "empty", rec |-> <<>>]
Torn == [state |-> "torn", rec |-> <<>>]
Whole(rec) == [state |-> "whole", rec |-> rec]

TypeOK ==
    /\ file \in Inode \cup {None}
    /\ tmp \in Inode \cup {None}
    /\ \A i \in Inode :
        /\ data[i].state \in {"empty", "torn", "whole"}
        /\ \A k \in DOMAIN data[i].rec : data[i].rec[k] \in Anchor
    /\ \A p \in Proc :
        proc[p].pc \in Saving \cup {"idle", "judging", "named", "drafted"}
    /\ \A r \in runs \cup drafts : r.item \in Item /\ r.at \in 0 .. now
    /\ now \in 0 .. MaxTime
    /\ issued \in 0 .. MaxCommands
    /\ overlapped \in BOOLEAN

Init ==
    /\ file = None
    /\ tmp = None
    /\ data = [i \in Inode |-> Empty]
    /\ runs = {}
    /\ drafts = {}
    /\ proc = [p \in Proc |-> Idle]
    /\ now = 0
    /\ issued = 0
    /\ acked = {}
    /\ overlapped = FALSE

-----------------------------------------------------------------------------
(* A record command *)

\* The first free inode: one that no name and no open handle refers to.
FreeInode ==
    CHOOSE i \in Inode :
        i \notin {file, tmp} \cup {proc[p].handle : p \in
                                     {q \in Proc : proc[q].pc = "opened"}}

\* load_record. A missing anchors.json is an empty record to add and an error
\* to every other command; so is one that does not parse.
Readable == file # None /\ data[file].state = "whole"
Loadable(c) == Readable \/ (file = None /\ c.op = "add")
Loaded == IF file = None THEN <<>> ELSE data[file].rec

\* A command of a user starts: it loads the record and works out its outcome.
\* It goes on only if there is something to save; add --rubric first asks Jev.
Run(p, c) ==
    /\ proc[p] = Idle
    /\ issued < MaxCommands
    /\ c.op # "judge"
    /\ issued' = issued + 1
    /\ LET out == Outcome(Loaded, c)
       IN  IF Loadable(c) /\ out.answer = "changed"
           THEN /\ proc' = [proc EXCEPT ![p] =
                    [pc   |-> IF c.op = "add" /\ c.rubric THEN "asking"
                              ELSE "loaded",
                     next |-> out.record,
                     id   |-> IF c.op = "add" THEN out.record[Len(out.record)].id
                              ELSE c.id]]
                /\ overlapped' = (\/ overlapped
                                  \/ \E q \in Proc : proc[q].pc \in Saving)
           ELSE UNCHANGED <<proc, overlapped>>
    /\ UNCHANGED <<files, runs, drafts, now, acked>>

\* add_rubric_gate: Jev takes its time; a candidate it does not find testable,
\* or no answer, ends the command with nothing recorded.
RubricAnswers(p, testable) ==
    /\ proc[p].pc = "asking"
    /\ proc' = [proc EXCEPT ![p] = IF testable THEN [@ EXCEPT !.pc = "loaded"]
                                   ELSE Idle]
    /\ UNCHANGED <<files, runs, drafts, now, history>>

\* write_text_atomic, its three steps. Opening for writing truncates the inode
\* the temporary name has, whoever is writing it. (The mutant writes in place.)
InodeInPlace == IF file = None THEN FreeInode ELSE file
InodeToWrite == IF tmp = None THEN FreeInode ELSE tmp

OpenTmp(p) ==
    /\ proc[p].pc = "loaded"
    /\ LET i == InodeToWrite
       IN  /\ tmp' = i
           /\ data' = [data EXCEPT ![i] = Empty]
           /\ proc' = [proc EXCEPT ![p] =
                [pc |-> "opened", next |-> @.next, id |-> @.id, handle |-> i]]
    /\ UNCHANGED <<file, runs, drafts, now, history>>

\* Over what another process has written since, the longer text shows through.
WriteTmp(p) ==
    /\ proc[p].pc = "opened"
    /\ \E content \in {Whole(proc[p].next)} \cup
                      (IF data[proc[p].handle] = Empty THEN {} ELSE {Torn}) :
        data' = [data EXCEPT ![proc[p].handle] = content]
    /\ proc' = [proc EXCEPT ![p].pc = "written"]
    /\ UNCHANGED <<file, tmp, runs, drafts, now, history>>

\* The rename: it moves whatever the name stands for. When another process has
\* renamed it away there is nothing to move and the command fails.
ReplaceFile(p) ==
    /\ proc[p].pc = "written"
    /\ IF tmp = None THEN UNCHANGED <<file, tmp, acked>>
       ELSE /\ file' = tmp
            /\ tmp' = None
            /\ LET a == Find(proc[p].next, proc[p].id)
               IN  acked' = acked \cup {[id |-> a.id, version |-> a.version,
                                         statement |-> a.statement,
                                         status |-> a.status]}
    /\ proc' = [proc EXCEPT ![p] = Idle]
    /\ UNCHANGED <<data, runs, drafts, now, issued, overlapped>>

\* A process is killed. What it left in the files stays there.
Crash(p) ==
    /\ proc[p].pc # "idle"
    /\ proc' = [proc EXCEPT ![p] = Idle]
    /\ UNCHANGED <<files, runs, drafts, now, history>>

-----------------------------------------------------------------------------
(* judge and coverage *)

\* The anchors cmd_judge asks about: all judged ones, or those named.
Selected(rec, c) ==
    IF c.all THEN {rec[i].id : i \in {k \in DOMAIN rec :
                                        rec[k].status \in JudgedStatus}}
    ELSE c.ids

\* It refuses an invalid record, an unknown anchor, an empty selection and,
\* unless told otherwise, one that is not judged.
Judge(p, c) ==
    /\ proc[p] = Idle
    /\ issued < MaxCommands
    /\ c.op = "judge"
    /\ issued' = issued + 1
    /\ IF /\ Readable
          /\ ValidRecord(Loaded)
          /\ Selected(Loaded, c) # {}
          /\ Selected(Loaded, c) \subseteq Ids(Loaded)
          /\ \/ c.all \/ c.unlocked
             \/ \A id \in c.ids : Find(Loaded, id).status \in JudgedStatus
       THEN proc' = [proc EXCEPT ![p] =
                        [pc |-> "judging", cmd |-> c, seen |-> Loaded]]
       ELSE UNCHANGED proc
    /\ UNCHANGED <<files, runs, drafts, now, acked, overlapped>>

\* A run of judge as coverage reads it. The record it loaded stands for the
\* version and statement each result copies. Of the verdicts on Jev's answers
\* not_addressed stands for the four that fail; error is a cell without an answer.
\* (The mutant lets a run pass with one.)
Verdict == {"satisfied", "not_applicable", "not_addressed", "error"}
FailingAnswered == {"not_addressed"}
Failing == {"not_addressed", "error"}
Excluded(rec, item, id) == item \in Find(rec, id).exclude

\* judge_entries at the planning gate: Jev is not asked about an item that the anchor
\* excludes, about a structural anchor, and by a dry run.
Cell(rec, c, id, jev) ==
    IF Excluded(rec, c.item, id) THEN "excluded"
    ELSE IF Find(rec, id).structural THEN "deterministic_only"
    ELSE IF c.dry THEN "none" ELSE jev[id]

\* assemble_run: Jev's answers for the anchors it is asked about, then the time and
\* the name: the item, the second, and the first ordinal not taken on disk.
Assemble(p) ==
    /\ proc[p].pc = "judging"
    /\ LET c == proc[p].cmd
           rec == proc[p].seen
           ids == Selected(rec, c)
           taken == {r.n : r \in {q \in runs : q.item = c.item /\ q.at = now}}
       IN  \E jev \in [ids -> Verdict] :
            proc' = [proc EXCEPT ![p] =
                  [pc  |-> "named",
                   run |-> [item |-> c.item, at |-> now, all |-> c.all,
                            n |-> Min((1 .. Cardinality(taken) + 1) \ taken),
                            dry |-> c.dry, torn |-> FALSE, seen |-> rec,
                            results |-> [id \in ids |-> Cell(rec, c, id, jev)]]]]
    /\ UNCHANGED <<files, runs, drafts, now, history>>

SameName(r, s) == r.item = s.item /\ r.at = s.at /\ r.n = s.n

\* save_json of the run: its temporary file is written. Two that judge the same
\* item in the same second may have it open at once, and what is in it is torn
\* then.
WriteRun(p) ==
    /\ proc[p].pc = "named"
    /\ LET run == proc[p].run
           shared == \E q \in Proc \ {p} : /\ proc[q].pc \in {"named", "drafted"}
                                           /\ SameName(proc[q].run, run)
       IN  \E torn \in {FALSE, shared} :
            drafts' = {d \in drafts : ~SameName(d, run)} \cup {[run EXCEPT !.torn = torn]}
    /\ proc' = [proc EXCEPT ![p].pc = "drafted"]
    /\ UNCHANGED <<files, runs, now, history>>

\* And renamed, over a file that appeared meanwhile. When another process renamed
\* it away the command fails.
SaveRun(p) ==
    /\ proc[p].pc = "drafted"
    /\ LET saved == {d \in drafts : SameName(d, proc[p].run)}
       IN  /\ runs' = {r \in runs : saved = {} \/ ~SameName(r, proc[p].run)} \cup saved
           /\ drafts' = drafts \ saved
    /\ proc' = [proc EXCEPT ![p] = Idle]
    /\ UNCHANGED <<files, now, history>>

Tick == /\ now < MaxTime
        /\ now' = now + 1
        /\ UNCHANGED <<files, runs, drafts, proc, history>>

\* collect_runs reads the files in the order of their names, where "x-2.json"
\* stands before "x.json"; cmd_coverage sorts them by second, keeping that
\* order, and the last run of an item counts. Dry runs never do, nor does what is
\* not JSON.
Collected == {r \in runs : ~r.dry /\ ~r.torn}
Before(r, s) ==
    \/ r.at < s.at
    \/ r.at = s.at /\ r.n # 1 /\ (s.n = 1 \/ r.n < s.n)
Latest == {r \in Collected :
            ~ \E s \in Collected : s.item = r.item /\ Before(r, s)}

\* Its uncovered anchors: those of some considered run that none satisfies.
CoveredBy(r) == {id \in DOMAIN r.results : r.results[id] = "satisfied"}
Uncovered == (UNION {DOMAIN r.results : r \in Latest})
             \ (UNION {CoveredBy(r) : r \in Latest})

\* summary.pass of a run.
Passes(r) == ~r.dry /\ \A id \in DOMAIN r.results : r.results[id] \notin Failing

Next ==
    \/ Tick
    \/ \E p \in Proc :
        \/ \E c \in Command : Run(p, c) \/ Judge(p, c)
        \/ \E testable \in BOOLEAN : RubricAnswers(p, testable)
        \/ OpenTmp(p)
        \/ WriteTmp(p)
        \/ ReplaceFile(p)
        \/ Assemble(p)
        \/ WriteRun(p)
        \/ SaveRun(p)
        \/ Crash(p)

Spec == Init /\ [][Next]_vars

-----------------------------------------------------------------------------
(* Properties *)

\* Whatever commands ran at the same time and wherever they died, a record
\* that can be read is one that validate accepts: identifiers are unique, a
\* promoted anchor names its ADR, an ANC statement is not the quote. This is so
\* only as long as no anchor is added as promoted: add does not refuse that
\* status and saves the anchor without an ADR.
ReadableIsValid ==
    \A i \in Inode : data[i].state = "whole" => ValidRecord(data[i].rec)

\* As long as no two saving commands ran at once, what a command reported as
\* saved is in the record, wherever a later one died: the anchor at that version
\* or a later one, and at that version with that statement and status. So
\* anchors.json is never seen half written, and no identifier and no version is
\* given twice.
SerialKeepsAcknowledged ==
    ~overlapped =>
        \A a \in acked :
            /\ Readable
            /\ a.id \in Ids(Loaded)
            /\ LET b == Find(Loaded, a.id)
               IN  /\ b.version >= a.version
                   /\ b.version = a.version => /\ b.statement = a.statement
                                               /\ b.status = a.status

\* A result of a run file names an anchor version. As long as no two saving
\* commands ran at once, that version of the anchor still has the text that
\* was judged, so that comparing versions tells a current verdict from an old
\* one.
SerialVersionNamesText ==
    ~overlapped /\ Readable =>
        \A r \in runs : \A id \in DOMAIN r.results :
            LET judged == Find(r.seen, id)
                current == Find(Loaded, id)
            IN  /\ id \in Ids(Loaded)
                /\ judged.version = current.version
                   => judged.statement = current.statement

\* The planning gate: the latest run of every item passes and coverage lists
\* no uncovered anchor (references/verdict-gating.md:58).
GatePasses ==
    /\ \A i \in Item : \E r \in Latest : r.item = i
    /\ \A r \in Latest : Passes(r)
    /\ Uncovered = {}

JudgedIds(rec) == {rec[i].id : i \in {k \in DOMAIN rec :
                                        rec[k].status \in JudgedStatus}}

\* When the gate passes on runs that were each made of all the anchors and of
\* the record as it is now, every judged anchor is satisfied by some item, and
\* each other item satisfies it, is not governed by it or is one it excludes:
\* none fails it, none is left without an answer, and Jev was asked about it.
\* Runs of one second, dry runs, torn run files, exclusions and structural
\* anchors do not make the gate pass otherwise.
GatePassIsEarned ==
    GatePasses /\ Readable /\ (\A r \in Latest : r.all /\ r.seen = Loaded) =>
        \A id \in JudgedIds(Loaded) :
            /\ \E r \in Latest : r.results[id] = "satisfied"
            /\ \A r \in Latest :
                \/ r.results[id] \in {"satisfied", "not_applicable"}
                \/ Excluded(Loaded, r.item, id)
=============================================================================
