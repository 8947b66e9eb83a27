--------------------------- MODULE MCAnchorContracts ---------------------------
(* What the contracts of the anchor agents conclude, over small install roots,
   definitions, histories and results. *)
EXTENDS AnchorContracts

Tuning == INSTANCE AnchorTuning

-----------------------------------------------------------------------------
(* Definitions *)

Line(kind, key, value) == [kind |-> kind, key |-> key, value |-> value]
Rule == Line("rule", "", "")
Definition(name, version, model, text) ==
    <<Rule, Line("field", "name", name), Line("field", "version", version),
      Line("field", "model", model), Rule, Line("text", "", text)>>
Fronts ==
    {Definition(n, v, m, t) : n \in {"anchor-tuning", "other"}, v \in {"1", "2", ""},
                         m \in {"opus", "sol"}, t \in {"a", "b"}}
Entry(version, path) ==
    <<Line("agents", "", ""), Line("agent", "anchor-tuning", ""),
      Line("field", "version", version), Line("field", "path", path)>>
Roots ==
    [registry : [{"claude"} -> [kind : {"file", "untrusted"},
                                lines : {Entry(v, p) : v \in {"1", ""}, p \in {"p", "q"}}]],
     files : [{"p"} -> [kind : {"file", "untrusted"}, lines : Fronts]]]
Agent == "anchor-tuning"

\* An agent that was resolved is the one invoked: the check before the invocation
\* passes only when its path, version, model and whole definition are what they
\* were, whatever changed in between in the registry or the file; and what did not
\* change always passes, unless its version is empty, which resolve_agent takes
\* and validate_runtime does not.
ASSUME DefinitionIsPinned ==
    \A before, after \in Roots :
        LET resolved == ResolveAgent(before, "claude", Agent)
            again == ResolveAgent(after, "claude", Agent)
        IN  resolved.ok =>
                /\ VerifyResolvedAgent(after, resolved.value).ok <=>
                       again = resolved /\ resolved.value.version # ""
                /\ resolved.value.sha256 = before.files[resolved.value.path].lines
                /\ ValidRuntime(resolved.value) <=> resolved.value.version # ""

\* An entry that the registry's parser returns is written once, in one section of
\* agents, and each of its fields once: no later line can replace what an earlier
\* one says of the agent.
Lines == {Line("agents", "", ""), Line("top", "", ""), Line("agent", "a", ""),
          Line("agent", "b", ""), Line("field", "path", "p"), Line("field", "path", "q"),
          Line("junk", "", "")}
ASSUME EntryIsWrittenOnce ==
    \A lines \in SeqOf(Lines, 5) :
        LET parsed == RegistryAgentEntry(lines, "a")
            opened == {i \in DOMAIN lines : lines[i].kind = "agents"}
            ended == {i \in DOMAIN lines : lines[i].kind = "top" /\ \E j \in opened : j < i}
            read == {i \in DOMAIN lines : (\E j \in opened : j < i) /\ \A j \in ended : i < j}
            named == {i \in read : lines[i] = Line("agent", "a", "")}
        IN  parsed.ok =>
                /\ Cardinality(named) = 1
                /\ \A i \in read : lines[i].kind # "junk"
                /\ LET agents == {j \in read : lines[j].kind = "agent"}
                       fields == {i \in read : lines[i].kind = "field"
                                     /\ Max({j \in agents : j < i}) \in named}
                   IN  parsed.value = [k \in {lines[i].key : i \in fields} |->
                                          lines[CHOOSE i \in fields : TRUE].value]

\* The keys of a definition's frontmatter mean one thing: it is refused when one is
\* written twice, and what follows the second rule is never read as frontmatter.
Heads == {Rule, Line("skip", "", ""), Line("junk", "", ""), Line("field", "name", "x"),
          Line("field", "name", "y")}
ASSUME FrontmatterIsUnambiguous ==
    \A lines \in SeqOf(Heads, 5) :
        LET front == Frontmatter(lines)
        IN  front.ok =>
                \E end \in DOMAIN lines :
                    /\ lines[1] = Rule /\ lines[end] = Rule /\ end > 1
                    /\ \A i \in 2 .. end - 1 : lines[i].kind \notin {"rule", "junk"}
                    /\ \A i, j \in 2 .. end - 1 :
                           lines[i].kind = "field" /\ lines[j].kind = "field" => i = j
                    /\ front.value = [k \in {lines[i].key : i \in Fields(lines, 2, end - 1)} |->
                                         lines[CHOOSE i \in Fields(lines, 2, end - 1) : TRUE].value]

\* Whatever request was accepted and whatever valid result came back, the run can be
\* recorded, unless the agent's error code is not an upper-case one, which
\* validate_result takes and build_attestation does not.
Runtime == [agent |-> Agent, harness |-> "claude", path |-> "p", version |-> "1",
            model |-> "opus", sha256 |-> "d"]
Requests == [schema_version : {"1.0.0", "2"}, runtime : {Runtime}, operation : {"tune", "guess"},
             correlation_id : {"x", "malformed"}, params : {"object", "list"}]
Results == [success : BOOLEAN, canceled : BOOLEAN, data : {Null, "object"},
            error : {Null, "CODE", "a code"}, correlation_id : {"x", "y"}]
ASSUME AcceptedIsRecorded ==
    \A request \in Requests, result \in Results, outcome \in Outcomes :
        ValidRequest(request).ok /\ ValidResult(result, request.correlation_id) =>
            /\ Attestation(request.runtime, request.operation, request.correlation_id, 1, 2,
                           outcome, result.error).ok <=> result.error # "a code"
            /\ result.success <=> result.error = Null

\* A reply counts only as a whole: nothing before or after its one block, and no
\* key in it that a reader could take from another place.
Pieces == {[kind |-> "blank"], [kind |-> "other"]}
              \cup [kind : {"block"}, json : {"object", "scalar", "malformed"},
                    keys : {<<"a">>, <<"a", "a">>}]
ASSUME ReplyIsOneObject ==
    \A text \in SeqOf(Pieces, 3) :
        SingleFencedJson(text).ok <=>
            \E i \in DOMAIN text :
                /\ text[i] = [kind |-> "block", json |-> "object", keys |-> <<"a">>]
                /\ \A j \in DOMAIN text : j # i => text[j].kind = "blank"

-----------------------------------------------------------------------------
(* Tuning *)

Questions(gate, text) == [role \in Tuning!ROLE_IDS[gate] |-> text]
Seals(gate) == [questions : {Questions(gate, t) : t \in {"q", "r", Tuning!Meta}}
                               \cup {Questions("development", "q")},
                digest : {Questions(gate, "q"), Questions(gate, Tuning!Meta)}]
Decisions == [status : {"sealed", "continue"},
              question_set : {Questions("planning", "q"), Tuning!Null}]
Score(cells, cases, regressions) ==
    [role_cells |-> cells, semantic_verdicts |-> <<1, 1>>, cases |-> cases,
     regressions |-> regressions]
Diagnostics(n) == [threshold |-> 8, above |-> 1, total |-> n]
Event(i, previous, supersedes, decision, score) ==
    [event_index |-> i, previous |-> previous, event |-> "evaluated", supersedes |-> supersedes,
     keys |-> {}, decision |-> decision, score |-> score, confidence |-> Diagnostics(1)]
Plain == [status |-> "continue", question_set |-> Tuning!Null]
First == {Event(i, Tuning!Null, FALSE, d, Score(<<1, 1>>, <<1, 1>>, r)) :
              i \in {1, 2}, d \in {Plain}, r \in {0, 1}}
Second == {Event(i, p, s, Plain, Score(<<1, 1>>, <<1, 1>>, 0)) :
              i \in {1, 2}, p \in First \cup {Tuning!Null}, s \in BOOLEAN}
Third == {Event(i, p, s, Plain, Score(<<1, 1>>, <<1, 1>>, r)) :
              i \in {2, 3}, p \in Second, s \in {TRUE}, r \in {0, 1}}

\* A valid history is known by its last event: no earlier event of it can be
\* changed, dropped or moved without the chain showing it.
ASSUME HistoryIsAppendOnly ==
    LET written == {<<e>> : e \in First} \cup First \X Second \cup First \X Second \X Third
        histories == {h \in written : Tuning!ValidHistory(h)}
    IN  /\ \E h \in histories : Len(h) = 3
        /\ \A h, g \in histories : h[Len(h)] = g[Len(g)] => h = g
        /\ \A h \in histories : \A n \in 1 .. Len(h) : Tuning!ValidHistory(SubSeq(h, 1, n))

\* What a tuning result accepts, the triage of later disputes takes as its seal; it
\* was exact and stable everywhere and without a regression; and the tournament's
\* history says so in its last event. A rejected result seals nothing, anywhere.
Opening == Event(1, Tuning!Null, FALSE, Plain, Score(<<1, 1>>, <<1, 1>>, 1))
Tunes ==
    {[gate |-> "planning", threshold |-> 8, accepted |-> accepted, score |-> score,
      diagnostics |-> Diagnostics(1), sealed |-> sealed, sealed_digest_after |-> digest,
      after |-> after, after_sha256 |-> after, before_sha256 |-> [after EXCEPT !.events = before]] :
        accepted \in BOOLEAN,
        score \in {Score(<<a, 1>>, <<b, 1>>, r) : a, b, r \in {0, 1}},
        sealed \in Seals("planning") \cup {Tuning!Null},
        digest \in {Questions("planning", "q"), Questions("planning", Tuning!Meta), Tuning!Null},
        after \in {[events |-> <<Opening, Event(2, Opening, TRUE, d, s)>>] :
                       d \in Decisions, s \in {Score(<<a, 1>>, <<1, 1>>, 0) : a \in {0, 1}}},
        before \in {<<Opening>>, << >>}}
ASSUME AcceptedIsSealed ==
    /\ \E data \in Tunes : Tuning!ValidTuneResult(data) /\ data.accepted
    /\ \A data \in Tunes : Tuning!ValidTuneResult(data) =>
        LET events == data.after.events
            triage == [keys |-> {}, model |-> TRUE, operation |-> "triage", gate |-> data.gate,
                       sealed |-> data.sealed]
        IN  /\ data.accepted => /\ Tuning!Exact(data.score) /\ Tuning!ValidRequest(triage)
                                /\ events[Len(events)].decision.question_set = data.sealed.questions
            /\ ~data.accepted => /\ \A i \in DOMAIN events : events[i].decision.status # "sealed"
                                 /\ data.sealed = Tuning!Null
            /\ data.before_sha256.events = SubSeq(events, 1, Len(events) - 1)

\* A triage that finds the plan or the anchor at fault leaves the questions as they
\* were, and one of the testability gate never changes them.
Triages ==
    [operation : {"triage"}, gate : {"testability", "planning"},
     sealed : Seals("planning") \cup Seals("testability"),
     disposition : {"anchor_defect", "plan_violation", "question_defect"},
     question_action : {"unchanged", "reopen_affected_tournament"},
     digest_before : {Questions("testability", "q"), Tuning!Null},
     digest_after : {Questions("testability", "q"), Tuning!Null}]
ASSUME DiagnosisKeepsQuestions ==
    \A data \in Triages : Tuning!ValidResult({}, TRUE, data) =>
        /\ data.question_action = "unchanged" \/ data.gate = "testability"
               => data.digest_before = data.digest_after
        /\ data.disposition = "anchor_defect" => data.gate = "testability"

\* A rubric that is accepted was calibrated without a doubt: every cell of every
\* case and every duplicate pair was answered exactly, confidently and twice alike.
Cells == [exact : 4 .. 5, confident : 4 .. 5, stable : 4 .. 5, total : {5}]
Rubrics ==
    [operation : {"testability"}, semantic : Cells, dedupe : Cells, corpus_cases : 1 .. 2,
     dedupe_cases : {5}, two_call : {5}, identical : BOOLEAN, accepted : BOOLEAN,
     inconclusive : 0 .. 1, unstable : 0 .. 1, sealed : Seals("testability") \cup {Tuning!Null}]
ASSUME CalibratedIsCertain ==
    \A data \in Rubrics : Tuning!ValidResult({}, TRUE, data) /\ data.accepted =>
        /\ \A s \in {data.semantic, data.dedupe} : s.exact + s.confident + s.stable = 3 * s.total
        /\ data.identical /\ data.inconclusive + data.unstable = 0
        /\ data.semantic.total = 5 * data.corpus_cases
        /\ Tuning!AsksForRoles("testability", data.sealed.questions)

\* A disputed testability answer is triaged only against an anchor of the approved
\* authority and the very questions of the seal.
Anchor == [statement |-> "s", quote |-> "q", scope |-> "c"]
Another == [Anchor EXCEPT !.scope = "d"]
Disputes ==
    {[keys |-> {}, model |-> TRUE, operation |-> "triage", gate |-> "testability",
      sealed |-> sealed, records |-> records, intent |-> "i", intent_sha256 |-> "i",
      records_sha256 |-> cited,
      review |-> [role |-> "faithful", questions |-> asked, source |-> source,
                  source_digest |-> source, answers |-> Questions("testability", answer)]] :
        sealed \in Seals("testability"),
        records \in SUBSET {[anchor |-> a, state |-> s, fixtures |-> {"pass", "fail"}] :
                                a \in {Anchor, Another}, s \in {"locked", "proposed"}},
        cited \in SUBSET [anchor : {Anchor}, state : {"locked"}, fixtures : {{"pass", "fail"}}],
        asked \in {Questions("testability", "q"), Questions("testability", "r")},
        source \in {Anchor, Another, Tuning!Null}, answer \in {"yes", "maybe"}}
ASSUME DisputeIsBound ==
    /\ \E d \in Disputes : Tuning!ValidRequest(d)
    /\ \A d \in Disputes : Tuning!ValidRequest(d) =>
        /\ d.review.source \in {r.anchor : r \in d.records_sha256}
        /\ d.review.questions = d.sealed.digest
=============================================================================
