---------------------------- MODULE MCAnchorJudge ----------------------------
(* The instances of AnchorJudge that TLC checks. *)
EXTENDS AnchorJudge

Ans(choice, confidence) == [choice |-> choice, confidence |-> confidence]

\* Confident, near and doubtful answers to each role; the dev gate has the
\* evidence role.
Relevance == {Ans("yes", 90), Ans("no", 90), Ans("yes", 65)}
Compliance == {Ans("yes", 90), Ans("no", 90), Ans("yes", 50), Ans("unclear", 90)}
Conflict == {Ans("no", 90), Ans("yes", 90), Ans("no", 60), Ans("no", 30)}
Evidence == {Ans("yes", 90), Ans("no", 90)}
Criterion2 == {Ans("yes", 90), Ans("yes", 40), Ans("no", 90), Ans("unclear", 40)}

MCResponse(c) ==
    CASE c.op = "rubric" -> [{"observable", "scoped"} -> Criterion2]
      [] c.op = "dedupe" -> [{"same_constraint"} -> Criterion2]
      [] c.gate = "plan" ->
            {[relevance |-> r, compliance |-> c1, conflict |-> c2] :
                r \in Relevance, c1 \in Compliance, c2 \in Conflict}
      [] OTHER ->
            {[relevance |-> r, compliance |-> Ans("yes", 90), conflict |-> c2,
              evidence |-> e] :
                r \in Relevance, c2 \in Conflict, e \in Evidence}

Cell(kind, size) == [kind |-> kind, size |-> size, excluded |-> FALSE,
                     lintErrors |-> FALSE]
Plan(item, theCells) == [op |-> "judge", gate |-> "plan", item |-> item,
                         confirm |-> TRUE, cells |-> theCells]
Dev(size) == [op |-> "judge", gate |-> "dev", confirm |-> TRUE,
              cells |-> <<Cell("directive", size)>>]

MCInvocation ==
    {Plan([prose |-> 3, code |-> <<4, 6>>],
          <<Cell("directive", 0), Cell("structural", 0)>>),
     Plan([prose |-> 4, code |-> <<>>],
          <<Cell("prohibition", 0), [Cell("directive", 0) EXCEPT !.excluded = TRUE]>>),
     Plan([prose |-> 12, code |-> <<6>>], <<Cell("directive", 0)>>),
     Dev(7), Dev(20),
     [op |-> "fixtures", gate |-> "plan", confirm |-> FALSE,
      cells |-> <<Cell("directive", 12), Cell("prohibition", 3)>>],
     [op |-> "rubric", cells |-> <<Cell("directive", 2)>>],
     [op |-> "rubric", cells |-> <<[Cell("directive", 2) EXCEPT !.lintErrors = TRUE]>>],
     [op |-> "dedupe", cells |-> <<Cell("directive", 2), Cell("directive", 12)>>]}

-----------------------------------------------------------------------------
(* The gating table (references/verdict-gating.md) and the code reduction,  *)
(* against the operators, over all small inputs.                            *)

Confidences == {30, 60, 90}
AllAnswers == {Ans(c, n) : c \in Choice, n \in Confidences}

\* The table for directives, row by row: the verdict is that of the first row
\* whose condition holds.
Table(r, t) ==
    LET sure(role, c) == r[role].choice = c /\ r[role].confidence >= t
        row == <<sure("relevance", "no"),
                 sure("conflict", "yes"),
                 \/ \E role \in {"relevance", "compliance"} :
                        \/ r[role].choice = "unclear"
                        \/ r[role].confidence < t,
                 r["compliance"].choice = "no",
                 r["compliance"].choice = "yes" /\ sure("conflict", "no")
                     /\ sure("evidence", "no"),
                 r["compliance"].choice = "yes" /\ sure("conflict", "no"),
                 TRUE>>
        verdict == <<"not_applicable", "contradicted", "underspecified",
                     "not_addressed", "asserted_only", "satisfied",
                     "underspecified">>
    IN  verdict[Min({i \in 1 .. 7 : row[i]})]

ASSUME DecideIsTheTable ==
    \A r \in [{"relevance", "compliance", "conflict"} -> AllAnswers],
       e \in {Ans("yes", 90), Ans("no", 30), Ans("no", 90)} :
        LET response == [role \in DOMAIN r \cup {"evidence"} |->
                            IF role = "evidence" THEN e ELSE r[role]]
        IN  \A t \in {30, 60} : Decide(response, "directive", t) = Table(response, t)

\* What is fitted is within the cap, keeps all prose, touches long blocks only,
\* and would not fit with a longer text: a reduced block is never shorter than
\* one that was kept whole.
ASSUME PlanIsReducedAsLittleAsNeeded ==
    \A prose \in 1 .. 6, code \in [1 .. 3 -> 1 .. 6] :
        LET item == [prose |-> prose, code |-> code]
            fitted == FitPlanItem(item, 12, 2)
            reduced == {i \in 1 .. 3 : fitted.code[i] # code[i]}
        IN  PlanFits(item, 12, 2) # {} =>
                /\ fitted.prose = prose
                /\ TextSize(fitted) <= 12
                /\ \A i \in reduced : code[i] > 2
                /\ \A i \in reduced, j \in 1 .. 3 \ reduced :
                        code[j] > 2 => code[j] <= code[i]
                /\ \A i \in reduced :
                        (\A j \in reduced : code[i] <= code[j]) =>
                            \/ TextSize(ReduceCode(item, reduced \ {i})) > 12
=============================================================================
