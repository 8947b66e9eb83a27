---------------------------- MODULE AnchorVerdict ----------------------------
(***************************************************************************)
(* What jev_judge.py concludes from Jev's answers: the verdict on one      *)
(* anchor and item, the outcome of a rubric, and how an item is fitted     *)
(* into a request. All of it is pure.                                      *)
(*                                                                         *)
(* An answer is a choice with a confidence in per cent; a response gives   *)
(* one to every role of the question set ("evidence" is the dev gate's).   *)
(* Sizes are in some unit of text.                                         *)
(***************************************************************************)
EXTENDS Integers, Sequences, FiniteSetsExt

Choice == {"yes", "no", "unclear"}
Kind == {"directive", "prohibition", "structural"}
Band == 10                     \* NEAR_THRESHOLD_BAND

Sure(response, role, choice, t) ==
    /\ response[role].choice = choice
    /\ response[role].confidence >= t

\* The roles that gate a kind of anchor, whose confidences count: the default
\* compliance question is not asked of a prohibition.
Gating(response, kind) ==
    DOMAIN response \ (IF kind = "prohibition" THEN {"compliance"} ELSE {})

\* decide, its branches in order: relevance first, then conflict, then doubt.
Undecided(response, kind, t) ==
    LET doubtful(role) == \/ response[role].choice = "unclear"
                          \/ response[role].confidence < t
    IN  \/ doubtful("relevance")
        \/ IF kind = "prohibition" THEN ~Sure(response, "conflict", "no", t)
                                   ELSE doubtful("compliance")

Decide(response, kind, t) ==
    IF Sure(response, "relevance", "no", t) THEN "not_applicable"
    ELSE IF Sure(response, "conflict", "yes", t) THEN "contradicted"
    ELSE IF Undecided(response, kind, t) THEN "underspecified"
    ELSE IF kind # "prohibition" /\ response["compliance"].choice = "no"
    THEN "not_addressed"
    ELSE IF ~Sure(response, "conflict", "no", t) THEN "underspecified"
    ELSE IF "evidence" \in DOMAIN response /\ Sure(response, "evidence", "no", t)
    THEN "asserted_only"
    ELSE "satisfied"

FailingVerdict ==
    {"contradicted", "not_addressed", "asserted_only", "underspecified"}

\* near_threshold: a gating answer is too close to the threshold to be taken
\* from one call.
NearThreshold(response, kind, t) ==
    \E role \in Gating(response, kind) :
        response[role].confidence \in t - Band .. t + Band

-----------------------------------------------------------------------------
(* The rubric: a response gives an answer to every criterion. *)

\* The first two responses do not choose alike somewhere: a third is asked.
Disagree(r1, r2) == \E q \in DOMAIN r1 : r1[q].choice # r2[q].choice

\* rubric_confirmation_outcome for one criterion: two answers that agree count
\* with the lower confidence; otherwise two confident answers of the three
\* must agree and no confident one contradict them.
Criterion(responses, q, t) ==
    LET confident(choice) == {i \in DOMAIN responses :
                                Sure(responses[i], q, choice, t)}
        competing == {choice \in Choice : confident(choice) # {}}
        decided(choice) == IF choice = "yes" THEN "met" ELSE "failing"
        first == responses[1][q].choice
    IN  IF first = responses[2][q].choice
        THEN IF \A i \in 1 .. 2 : responses[i][q].confidence >= t
             THEN decided(first) ELSE "low"
        ELSE IF Cardinality(competing) > 1 THEN "unstable"
        ELSE IF \E choice \in competing : Cardinality(confident(choice)) >= 2
        THEN decided(CHOOSE choice \in competing : TRUE)
        ELSE "low"

RubricVerdict(responses, t, lintErrors) ==
    LET some(outcome) == \E q \in DOMAIN responses[1] :
                            Criterion(responses, q, t) = outcome
    IN  IF some("unstable") THEN "unstable"
        ELSE IF some("low") THEN "inconclusive"
        ELSE IF some("failing") \/ lintErrors THEN "needs_work"
        ELSE "testable"

-----------------------------------------------------------------------------
(* Fitting an item *)

\* halve_item: half the text, but not below the floor.
Halved(size, floor) == Max({size \div 2, floor})

\* fit_request: halved until it is within the cap; 0 when it is at the floor
\* and still too large.
Fitted(size, cap, floor) ==
    LET halves[n \in 0 .. size] ==
            IF n = 0 THEN size
            ELSE IF halves[n - 1] <= Max({cap, floor}) THEN halves[n - 1]
            ELSE Halved(halves[n - 1], floor)
    IN  IF halves[size] <= cap THEN halves[size] ELSE 0

\* An item of the plan gate: its prose and its fenced code blocks. A block
\* reduced to its signatures takes one unit.
TextSize(item) == item.prose + SumFunction(item.code)

ReduceCode(item, blocks) ==
    [item EXCEPT !.code = [i \in DOMAIN @ |-> IF i \in blocks THEN 1 ELSE @[i]]]

\* long_code_blocks: the k blocks to reduce first, the longest.
Longest(item, k, maxCode) ==
    LET before(i, j) == \/ item.code[i] > item.code[j]
                        \/ item.code[i] = item.code[j] /\ i < j
        long == {i \in DOMAIN item.code : item.code[i] > maxCode}
    IN  {i \in long : Cardinality({j \in long : before(j, i)}) < k}

\* fit_plan_item: one more block at a time until the bead fits; when it does
\* not with all of them reduced, it is too large.
PlanFits(item, cap, maxCode) ==
    {k \in 0 .. Len(item.code) :
        TextSize(ReduceCode(item, Longest(item, k, maxCode))) <= cap}

FitPlanItem(item, cap, maxCode) ==
    ReduceCode(item, Longest(item, Min(PlanFits(item, cap, maxCode)), maxCode))
=============================================================================
