---------------------------- MODULE AnchorRecord ----------------------------
(***************************************************************************)
(* The record of truth of a plan, anchors.json, as a value: a sequence of  *)
(* anchors, and what the record commands of jev_judge.py make of it.       *)
(*                                                                         *)
(* A statement is one of a few texts. What the lint and the duplicate      *)
(* check say of a text is given: Verbatim texts are the user's own words,  *)
(* Warned ones break a rule of wording, Alike pairs reach the duplicate    *)
(* floor. An identifier is <<"ANC", n>>, or <<"REQ", n>> for an anchor     *)
(* that carries its register's identifier (REQ and ADR differ in name      *)
(* only).                                                                  *)
(***************************************************************************)
EXTENDS Integers, Sequences, FiniteSetsExt

CONSTANTS Statement,    \* the texts of anchors
          Verbatim,     \* those that repeat the quote
          Warned,       \* those the lint warns about
          Alike(_, _),  \* whether two texts look like one constraint
          Item          \* plan items that can be excluded or judged

Status == {"proposed", "locked", "promoted", "retired"}
JudgedStatus == {"locked", "promoted"}
AnchorId == {"ANC", "REQ"} \X (Nat \ {0})

\* Of the kinds of an anchor, structural is the one that Jev is not asked about
\* at the planning gate.
Anchor == [id: AnchorId, status: Status, version: Nat \ {0},
           statement: Statement, structural: BOOLEAN, exclude: SUBSET Item,
           adr: BOOLEAN, beads: BOOLEAN]

\* The record commands, with the arguments that matter. An add of a register's
\* anchor names its identifier, an add of the user's words only its kind.
RecordCommand ==
    [op: {"add"}, id: AnchorId, statement: Statement, structural: BOOLEAN,
     status: Status, strict: BOOLEAN, allowSimilar: BOOLEAN, rubric: BOOLEAN]
    \cup [op: {"update"}, id: AnchorId, statement: Statement,
          structural: BOOLEAN, strict: BOOLEAN]
    \cup [op: {"retire", "promote", "beads"}, id: AnchorId]
    \cup [op: {"exclude"}, id: AnchorId, item: Item, remove: BOOLEAN]

Ids(rec) == {rec[i].id : i \in DOMAIN rec}

\* find_anchor: the first anchor with that identifier.
Position(rec, id) ==
    CHOOSE i \in DOMAIN rec :
        /\ rec[i].id = id
        /\ \A j \in 1 .. i - 1 : rec[j].id # id

Find(rec, id) == rec[Position(rec, id)]

\* next_anc_id: one more than the largest number of any ANC anchor, retired
\* ones included. (The mutant passes over the retired ones.)
AfterLargest(ids) ==
    <<"ANC", 1 + Max({0} \cup {id[2] : id \in {x \in ids : x[1] = "ANC"}})>>
NextLiveAncId(rec) ==
    AfterLargest({rec[i].id : i \in {k \in DOMAIN rec : rec[k].status # "retired"}})
NextAncId(rec) == AfterLargest(Ids(rec))

\* lint_or_refuse: repeating the quote is refused for ANC anchors, any other
\* warning only under --strict.
LintRefuses(statement, source, strict) ==
    \/ source = "ANC" /\ statement \in Verbatim
    \/ strict /\ statement \in Warned

\* similar_anchors, at the floor from which add refuses; retired anchors are
\* not compared.
HasDuplicate(rec, statement) ==
    \E i \in DOMAIN rec :
        rec[i].status # "retired" /\ Alike(rec[i].statement, statement)

\* validate_record: identifiers are unique, a promoted anchor names its ADR,
\* an ANC statement is not the quote. A one-entry-per-item exclusion list is
\* a set here.
ValidRecord(rec) ==
    /\ \A i, j \in DOMAIN rec : rec[i].id = rec[j].id => i = j
    /\ \A i \in DOMAIN rec :
        /\ rec[i].status = "promoted" => rec[i].adr
        /\ rec[i].id[1] = "ANC" => rec[i].statement \notin Verbatim

-----------------------------------------------------------------------------
(* What a command makes of the record it has loaded: the record to save, or *)
(* the answer it gives without saving anything.                             *)

Save(rec) == [answer |-> "changed", record |-> rec]
Unsaved(answer) == [answer |-> answer, record |-> <<>>]

NewAnchor(id, c) ==
    [id |-> id, status |-> c.status, version |-> 1,
     statement |-> c.statement, structural |-> c.structural, exclude |-> {},
     adr |-> FALSE, beads |-> FALSE]

\* cmd_add. Of the statuses only retired is refused; a register's identifier is
\* refused when it is recorded, whatever its status; the duplicate check can be
\* waived.
AddTo(rec, c) ==
    LET id == IF c.id[1] = "ANC" THEN NextAncId(rec) ELSE c.id
    IN  IF \/ c.status = "retired"
           \/ c.id[1] # "ANC" /\ id \in Ids(rec)
           \/ LintRefuses(c.statement, c.id[1], c.strict)
           \/ HasDuplicate(rec, c.statement) /\ ~c.allowSimilar
        THEN Unsaved("refused")
        ELSE Save(Append(rec, NewAnchor(id, c)))

\* cmd_update of the statement and the kind: nothing is saved when both already
\* hold or the lint refuses the text; a change raises the version. (The mutant
\* leaves it.)
UpdateBy(step, rec, c) ==
    LET i == Position(rec, c.id)
    IN  IF rec[i].statement = c.statement /\ rec[i].structural = c.structural
        THEN Unsaved("noop")
        ELSE IF LintRefuses(c.statement, c.id[1], c.strict)
        THEN Unsaved("refused")
        ELSE Save([rec EXCEPT ![i].statement = c.statement,
                              ![i].structural = c.structural,
                              ![i].version = @ + step])
UpdateInPlace(rec, c) == UpdateBy(0, rec, c)
UpdateIn(rec, c) == UpdateBy(1, rec, c)

\* cmd_retire: a second time it is a no-op.
RetireIn(rec, c) ==
    LET i == Position(rec, c.id)
    IN  IF rec[i].status = "retired" THEN Unsaved("noop")
        ELSE Save([rec EXCEPT ![i].status = "retired",
                              ![i].version = @ + 1])

\* cmd_promote: no status is asked for.
PromoteIn(rec, c) ==
    LET i == Position(rec, c.id)
    IN  Save([rec EXCEPT ![i].status = "promoted", ![i].adr = TRUE,
                         ![i].version = @ + 1])

\* cmd_exclude, adding or removing one item: not a change of the requirement,
\* so the version stays.
ExcludeIn(rec, c) ==
    LET i == Position(rec, c.id)
    IN  IF c.remove
        THEN IF c.item \in rec[i].exclude
             THEN Save([rec EXCEPT ![i].exclude = @ \ {c.item}])
             ELSE Unsaved("noop")
        ELSE Save([rec EXCEPT ![i].exclude = @ \cup {c.item}])

\* cmd_set_beads.
SetBeadsIn(rec, c) == Save([rec EXCEPT ![Position(rec, c.id)].beads = TRUE])

\* A command on an anchor the record does not have fails.
Outcome(rec, c) ==
    IF c.op # "add" /\ c.id \notin Ids(rec) THEN Unsaved("unknown")
    ELSE CASE c.op = "add"      -> AddTo(rec, c)
           [] c.op = "update"   -> UpdateIn(rec, c)
           [] c.op = "retire"   -> RetireIn(rec, c)
           [] c.op = "promote"  -> PromoteIn(rec, c)
           [] c.op = "exclude"  -> ExcludeIn(rec, c)
           [] c.op = "beads"    -> SetBeadsIn(rec, c)
=============================================================================
