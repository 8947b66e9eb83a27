------------------------------ MODULE AnchorTuning -----------------------------
(***************************************************************************)
(* anchor_tuning_contract.py: what the requests and results of question    *)
(* tuning must satisfy together: the seal of a set of questions, the       *)
(* chained history of a tournament, the triage of a disputed answer.       *)
(*                                                                         *)
(* A value stands for its own SHA-256 digest.  A formula that is false is  *)
(* a violation; which code it reports is left out.  Field keys names every *)
(* key of an object at any depth; supersedes says that there is an object. *)
(***************************************************************************)
EXTENDS Integers, SequencesExt, FiniteSetsExt

Null == [none |-> TRUE]

FORBIDDEN_FIELDS == {"desired_verdict", "requested_disposition", "proposed_question_text"}
Meta == "meta"       \* a question with one of FORBIDDEN_QUESTION_META
ROLE_IDS ==
    [testability |-> {"single_constraint", "observable", "faithful", "scoped", "self_contained"},
     planning    |-> {"relevant", "addressed", "contradicted"},
     development |-> {"relevant", "implemented", "violated", "evidenced"}]
Allowed(keys) == keys \cap FORBIDDEN_FIELDS = {}

-----------------------------------------------------------------------------
(* Seals and histories *)

AsksForRoles(gate, questions) ==
    /\ gate \in DOMAIN ROLE_IDS /\ DOMAIN questions = ROLE_IDS[gate]
    /\ \A role \in DOMAIN questions : questions[role] # Meta

\* validate_questions
ValidQuestions(gate, sealed) ==
    /\ sealed # Null
    /\ AsksForRoles(gate, sealed.questions)
    /\ sealed.digest = sealed.questions

\* validate_history: an event cites the digest of the one before it.
ValidHistory(events) ==
    \A i \in DOMAIN events :
        /\ events[i].event_index = i
        /\ events[i].previous = IF i = 1 THEN Null ELSE events[i - 1]
        /\ i > 1 \/ events[i].event = "protocol_re_evaluated" => events[i].supersedes
        /\ Allowed(events[i].keys)

-----------------------------------------------------------------------------
(* Results *)

\* validate_tune_result: score maps what was counted to <<exact or stable, total>>,
\* and regressions to a number; diagnostics holds a threshold, the cells at or above
\* it and all cells.
Counted == {"role_cells", "semantic_verdicts", "cases"}
Exact(score) ==
    /\ \A c \in Counted : score[c][1] = score[c][2]
    /\ score.regressions = 0

ValidScore(data) ==
    /\ \A c \in Counted : data.score[c][1] <= data.score[c][2]
    /\ data.diagnostics.threshold = data.threshold
    /\ data.diagnostics.above <= data.diagnostics.total
    /\ data.diagnostics.total = data.score.role_cells[2]

ValidAfter(data) ==
    LET events == data.after.events
    IN  /\ ValidHistory(events) /\ events # << >>
        /\ data.after_sha256 = data.after
        /\ data.before_sha256 = [data.after EXCEPT !.events = Front(@)]
        /\ Last(events).score = data.score
        /\ Last(events).confidence = data.diagnostics

Decided(data) ==
    LET decision == Last(data.after.events).decision
    IN  IF data.accepted
        THEN /\ Exact(data.score)
             /\ ValidQuestions(data.gate, data.sealed)
             /\ data.sealed_digest_after = data.sealed.digest
             /\ decision = [status |-> "sealed", question_set |-> data.sealed.digest]
        ELSE /\ data.sealed = Null /\ data.sealed_digest_after = Null
             /\ decision.status # "sealed" /\ decision.question_set = Null

ValidTuneResult(data) == ValidScore(data) /\ ValidAfter(data) /\ Decided(data)

\* validate_testability_result: semantic and dedupe map "exact", "confident",
\* "stable" and "total" to a number of cells.
Kinds == {"exact", "confident", "stable"}
ValidTestabilityResult(data) ==
    LET scores == {data.semantic, data.dedupe}
    IN  /\ data.semantic.total = data.corpus_cases * Cardinality(ROLE_IDS.testability)
        /\ data.dedupe.total = data.dedupe_cases
        /\ \A s \in scores, k \in Kinds : s[k] <= s.total
        /\ data.two_call = data.semantic.total
        /\ data.identical
        /\ IF data.accepted
           THEN /\ data.inconclusive = 0 /\ data.unstable = 0
                /\ \A s \in scores, k \in Kinds : s[k] = s.total
                /\ ValidQuestions("testability", data.sealed)
           ELSE data.sealed = Null

\* validate_result, of a triage: the disposition decides what may happen to the
\* questions.
Dispositions(gate) ==
    {"question_defect", IF gate = "testability" THEN "anchor_defect" ELSE "plan_violation"}

ValidTriageResult(data) ==
    /\ ValidQuestions(data.gate, data.sealed)
    /\ data.disposition \in Dispositions(data.gate)
    /\ data.question_action = IF data.disposition = "question_defect"
                              THEN "reopen_affected_tournament" ELSE "unchanged"
    /\ data.gate = "testability" => data.digest_before = data.sealed.digest
    /\ data.gate = "testability" \/ data.disposition # "question_defect"
           => data.digest_after = data.digest_before

\* validate_result: a failure's data is not looked at.
ValidResult(keys, success, data) ==
    /\ Allowed(keys)
    /\ success => CASE data.operation = "tune"        -> ValidTuneResult(data)
                    [] data.operation = "testability" -> ValidTestabilityResult(data)
                    [] data.operation = "triage"      -> ValidTriageResult(data)
                    [] OTHER                          -> FALSE

-----------------------------------------------------------------------------
(* Requests *)

\* validate_testability_triage: the disputed answer is bound to a record of the
\* approved authority and to the seal.
ValidTestabilityTriage(request) ==
    LET records == request.records
        source == request.review.source
    IN  /\ records # {}
        /\ \A r \in records : r.state = "locked" /\ r.fixtures = {"pass", "fail"}
        /\ request.intent_sha256 = request.intent /\ request.records_sha256 = records
        /\ request.review.role \in ROLE_IDS.testability
        /\ request.review.questions = request.sealed.questions
        /\ source # Null /\ request.review.source_digest = source
        /\ \E r \in records : r.anchor = source
        /\ DOMAIN request.review.answers = ROLE_IDS.testability
        /\ \A role \in DOMAIN request.review.answers :
               request.review.answers[role] \in {"yes", "no", "unclear"}

\* validate_request: the model is that of the harness; ready says that the reference
\* threshold and, for testability, the frozen corpus are as required; an unknown
\* operation passes.
ValidRequest(request) ==
    /\ Allowed(request.keys) /\ request.model
    /\ request.operation \in {"tune", "testability"} => request.ready
    /\ request.operation = "tune" => request.records # {} /\ ValidHistory(request.history.events)
    /\ request.operation = "testability" =>
           request.gate = "testability" /\ AsksForRoles("testability", request.questions)
    /\ request.operation = "triage" =>
           /\ ValidQuestions(request.gate, request.sealed)
           /\ request.gate = "testability" => ValidTestabilityTriage(request)
=============================================================================
