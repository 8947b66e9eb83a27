---------------------------- MODULE AnchorContracts ----------------------------
(***************************************************************************)
(* anchor_runner_contract.py: how the runner of the anchor agents trusts   *)
(* an agent's definition, a request and a result.  A definition is a       *)
(* sequence of lines and stands for its own digest; an install root maps   *)
(* harnesses to registries and paths to files.  All of it is pure.         *)
(***************************************************************************)
EXTENDS Integers, SequencesExt, FiniteSetsExt

Ok(value) == [ok |-> TRUE, value |-> value]
Err(code) == [ok |-> FALSE, code |-> code]
Null == "null"

HARNESSES == {"claude", "codex", "cursor"}
Reviews == {"anchor-plan-review", "anchor-sprint-review"}
AGENTS == Reviews \cup {"anchor-tuning"}
AGENT_MODELS(agent, harness) ==
    CASE harness = "claude" -> IF agent \in Reviews THEN "sonnet" ELSE "opus"
      [] harness = "codex"  -> IF agent \in Reviews THEN "luna" ELSE "sol"
      [] harness = "cursor" -> IF agent \in Reviews THEN "composer" ELSE "grok[effort=high]"
OPERATIONS == {"plan_review", "sprint_review", "testability", "tune", "triage"}

-----------------------------------------------------------------------------
(* Definitions and registries.  A line of frontmatter has a kind: "rule" is *)
(* ---, "skip" is empty, a comment or indented, "field" has a key and a     *)
(* value, and "junk" is anything else.                                      *)

Fields(lines, from, to) == {i \in from .. to : lines[i].kind = "field"}
AsRecord(lines, fields) ==
    [k \in {lines[i].key : i \in fields} |-> lines[CHOOSE i \in fields : lines[i].key = k].value]
Repeated(lines, fields) == \E i, j \in fields : i # j /\ lines[i].key = lines[j].key

\* _frontmatter: up to the second rule.
Frontmatter(lines) ==
    LET rules == {i \in DOMAIN lines : lines[i].kind = "rule"}
        end == Min(rules \ {1})
        fields == Fields(lines, 2, end - 1)
    IN  IF 1 \notin rules \/ rules = {1} THEN Err("RUNTIME.FRONTMATTER")
        ELSE IF (\E i \in 2 .. end - 1 : lines[i].kind = "junk") \/ Repeated(lines, fields)
        THEN Err("RUNTIME.FRONTMATTER")
        ELSE Ok(AsRecord(lines, fields))

\* _registry_agent_entry, one line: "agents" opens the section, another line "top" at
\* the margin ends it, "agent" begins an entry, "field" belongs to the current one.
ParseLine(state, line) ==
    IF state.end # "no" \/ line.kind = "skip" THEN state
    ELSE IF line.kind = "agents" THEN [state EXCEPT !.inAgents = TRUE, !.current = Null]
    ELSE IF line.kind = "top" THEN [state EXCEPT !.end = IF state.inAgents THEN "done" ELSE "no"]
    ELSE IF ~state.inAgents THEN state
    ELSE IF line.kind = "agent" /\ line.key \notin DOMAIN state.entries
    THEN [state EXCEPT !.current = line.key,
                       !.entries = [a \in DOMAIN @ \cup {line.key} |->
                                       IF a = line.key THEN << >> ELSE @[a]]]
    ELSE IF /\ line.kind = "field" /\ state.current # Null
            /\ \A i \in DOMAIN state.entries[state.current] :
                   state.entries[state.current][i].key # line.key
    THEN [state EXCEPT !.entries[state.current] = Append(@, line)]
    ELSE [state EXCEPT !.end = "refused"]

NoEntries == [a \in {} |-> << >>]
RegistryAgentEntry(lines, agent) ==
    LET parsed == FoldLeft(ParseLine, [inAgents |-> FALSE, current |-> Null,
                                       entries |-> NoEntries, end |-> "no"], lines)
        entry == parsed.entries[agent]
    IN  IF parsed.end = "refused" \/ agent \notin DOMAIN parsed.entries
        THEN Err("RUNTIME.REGISTRY")
        ELSE Ok(AsRecord(entry, DOMAIN entry))

\* resolve_agent.  root.registry[harness] has a kind ("file", or "untrusted" for a
\* link, what is outside or missing) and lines; so has root.files[path].
ResolveAgent(root, harness, agent) ==
    LET registry == root.registry[harness]
        parsed == RegistryAgentEntry(registry.lines, agent)
        entry == parsed.value
        file == root.files[entry.path]
        front == Frontmatter(file.lines)
    IN  IF harness \notin HARNESSES THEN Err("RUNTIME.HARNESS")
        ELSE IF agent \notin AGENTS THEN Err("RUNTIME.IDENTITY")
        ELSE IF registry.kind # "file" THEN Err("RUNTIME.REGISTRY")
        ELSE IF ~parsed.ok THEN parsed
        ELSE IF DOMAIN entry # {"version", "path"} THEN Err("RUNTIME.REGISTRY")
        ELSE IF entry.path \notin DOMAIN root.files \/ file.kind # "file" THEN Err("RUNTIME.PATH")
        ELSE IF ~front.ok THEN front
        ELSE LET has(key, value) == key \in DOMAIN front.value /\ front.value[key] = value
             IN  IF ~has("name", agent) THEN Err("RUNTIME.IDENTITY")
                 ELSE IF ~has("version", entry.version) THEN Err("RUNTIME.VERSION")
                 ELSE IF ~has("model", AGENT_MODELS(agent, harness)) THEN Err("RUNTIME.MODEL")
                 ELSE Ok([agent |-> agent, harness |-> harness, path |-> entry.path,
                          version |-> entry.version, model |-> AGENT_MODELS(agent, harness),
                          sha256 |-> file.lines])

\* validate_runtime: the shape is the domain; a path that leaves the root is "..", and
\* the form of a digest is left out.
ValidRuntime(runtime) ==
    /\ DOMAIN runtime = {"agent", "harness", "path", "version", "model", "sha256"}
    /\ runtime.agent \in AGENTS /\ runtime.harness \in HARNESSES
    /\ runtime.model = AGENT_MODELS(runtime.agent, runtime.harness)
    /\ runtime.path # ".." /\ runtime.version # ""

\* verify_resolved_agent: just before the agent is invoked.
VerifyResolvedAgent(root, runtime) ==
    LET current == ResolveAgent(root, runtime.harness, runtime.agent)
    IN  IF ~ValidRuntime(runtime) THEN Err("ENVELOPE.RUNTIME")
        ELSE IF ~current.ok THEN current
        ELSE IF current.value.path # runtime.path THEN Err("RUNTIME.PATH")
        ELSE IF current.value.version # runtime.version THEN Err("RUNTIME.VERSION")
        ELSE IF current.value.model # runtime.model THEN Err("RUNTIME.MODEL")
        ELSE IF current.value.sha256 # runtime.sha256 THEN Err("RUNTIME.HASH")
        ELSE current

-----------------------------------------------------------------------------
(* Envelopes.  A correlation identifier that does not match its pattern is  *)
(* "malformed"; a text is a sequence of blanks, other text and fenced       *)
(* blocks, each with what its JSON is.                                      *)

ValidRequest(request) ==
    IF DOMAIN request # {"schema_version", "runtime", "operation", "correlation_id", "params"}
    THEN Err("ENVELOPE.REQUEST")
    ELSE IF request.schema_version # "1.0.0" THEN Err("ENVELOPE.VERSION")
    ELSE IF ~ValidRuntime(request.runtime) THEN Err("ENVELOPE.RUNTIME")
    ELSE IF request.operation \notin OPERATIONS THEN Err("ENVELOPE.OPERATION")
    ELSE IF request.correlation_id = "malformed" THEN Err("ENVELOPE.CORRELATION")
    ELSE IF request.params # "object" THEN Err("ENVELOPE.PARAMS")
    ELSE Ok(request)

\* parse_single_fenced_json: json is "malformed", "scalar", or an object with the
\* sequence of its keys.
SingleFencedJson(text) ==
    LET blocks == SelectSeq(text, LAMBDA piece : piece.kind = "block")
    IN  IF Len(blocks) # 1 \/ (\E i \in DOMAIN text : text[i].kind = "other")
        THEN Err("FENCE")
        ELSE IF blocks[1].json = "malformed" THEN Err("JSON")
        ELSE IF blocks[1].json = "object" /\ ~IsInjective(blocks[1].keys)
        THEN Err("ENVELOPE.DUPLICATE_KEY")
        ELSE IF blocks[1].json # "object" THEN Err("JSON")
        ELSE Ok(blocks[1])

\* validate_result: an error is a code with its other fields, or Null.
ValidResult(result, correlation) ==
    /\ result.correlation_id = correlation
    /\ result.success \in BOOLEAN /\ result.canceled \in BOOLEAN
    /\ IF result.success THEN result.data # Null /\ result.error = Null
       ELSE result.data = Null /\ result.error # Null

\* build_attestation: a code is null, or matches [A-Z][A-Z0-9_.-]* ("CODE").
Outcomes == {"success", "failure", "timeout", "canceled"}
Attestation(runtime, operation, correlation, started, finished, outcome, error) ==
    IF ~ValidRuntime(runtime) THEN Err("ENVELOPE.RUNTIME")
    ELSE IF operation \notin OPERATIONS THEN Err("ATTESTATION.OPERATION")
    ELSE IF correlation = "malformed" THEN Err("ATTESTATION.CORRELATION")
    ELSE IF outcome \notin Outcomes THEN Err("ATTESTATION.OUTCOME")
    ELSE IF finished < started THEN Err("ATTESTATION.TIMING")
    ELSE IF error \notin {Null, "CODE"} THEN Err("ATTESTATION.ERROR")
    ELSE Ok([runtime |-> runtime, operation |-> operation, correlation_id |-> correlation,
             duration |-> finished - started, outcome |-> outcome, error_code |-> error])
=============================================================================
