-------------------------- MODULE MCAnchorWorkspace --------------------------
(* The instances of AnchorWorkspace that TLC checks. *)
EXTENDS AnchorWorkspace, TLC

MCStatement == {"s1", "s2", "spoken", "vague"}
MCVerbatim == {"spoken"}
MCWarned == {"vague"}
MCAlike(s, t) == s = t
MCItem == {"i1", "i2"}

ANC(n) == <<"ANC", n>>
Add(source, statement, status, rubric) ==
    [op |-> "add", id |-> <<source, 7>>, statement |-> statement,
     structural |-> source = "REQ", status |-> status, strict |-> TRUE, allowSimilar |-> FALSE,
     rubric |-> rubric]
Update(n, statement) ==
    [op |-> "update", id |-> ANC(n), statement |-> statement,
     structural |-> FALSE, strict |-> TRUE]
Exclude(n, item, remove) ==
    [op |-> "exclude", id |-> ANC(n), item |-> item, remove |-> remove]
JudgeAll(item, dry) == [op |-> "judge", item |-> item, all |-> TRUE, dry |-> dry]
JudgeOne(unlocked) == [op |-> "judge", item |-> "i1", all |-> FALSE, ids |-> {ANC(1)},
                       unlocked |-> unlocked, dry |-> FALSE]

\* Two ANC texts, one through the rubric, and a structural anchor of a register; each change
\* of the first anchor.
MCCommand ==
    {Add("ANC", "s1", "locked", FALSE), Add("ANC", "s2", "proposed", TRUE),
     Add("REQ", "spoken", "locked", FALSE), Add("ANC", "vague", "locked", FALSE),
     Update(1, "s2"), Update(1, "spoken"),
     [op |-> "retire", id |-> ANC(1)], [op |-> "promote", id |-> ANC(1)],
     Exclude(1, "i1", FALSE), Exclude(1, "i1", TRUE),
     [op |-> "beads", id |-> ANC(1)],
     JudgeAll("i1", FALSE), JudgeAll("i1", TRUE), JudgeAll("i2", FALSE),
     JudgeOne(FALSE), JudgeOne(TRUE)}

\* An anchor that is added as promoted.
AddPromoted == {Add("REQ", "s1", "promoted", FALSE), Add("ANC", "s1", "locked", FALSE),
                JudgeAll("i1", FALSE)}

Symmetric == Permutations(Proc)
=============================================================================
