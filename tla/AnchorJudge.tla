----------------------------- MODULE AnchorJudge -----------------------------
(***************************************************************************)
(* One command of jev_judge.py that asks Jev: judge, check-fixtures,       *)
(* rubric or dedupe, from its checks before any request to its exit code.  *)
(* Jev answers, fails in any of the ways the code tells apart, or finds    *)
(* the request too long; the user may interrupt the command at any moment. *)
(*                                                                         *)
(* A cell is what gets a verdict of its own: an anchor (judge), a fixture  *)
(* sentence (check-fixtures), a candidate (rubric) or a pair (dedupe).     *)
(***************************************************************************)
EXTENDS AnchorVerdict

CONSTANTS Invocation,    \* the commands, with their cells
          Response(_),   \* the responses Jev may give to a command
          Threshold,     \* --threshold
          Cap,           \* --max-request-bytes, as room for the item's text
          Floor,         \* --min-item-chars
          MaxCode,       \* --max-code-lines
          MaxAttempts    \* MAX_ATTEMPTS

ASSUME JudgeAssumption ==
    /\ Threshold \in 0 .. 100
    /\ {Cap, Floor, MaxCode, MaxAttempts} \subseteq Nat \ {0}

\* A command is one of the four; its cells, and the item of a plan gate, have sizes.
ASSUME InvocationAssumption ==
    \A c \in Invocation :
        /\ c.op \in {"judge", "fixtures", "rubric", "dedupe"}
        /\ c.cells \in Seq([kind : Kind, size : Nat, excluded : BOOLEAN, lintErrors : BOOLEAN])
        /\ c.op = "judge" /\ c.gate = "plan" => c.item \in [prose : Nat, code : Seq(Nat)]

VARIABLES
    cmd,       \* the command
    pc,        \* where it is
    cells,     \* the cells still to be judged, the current one first
    text,      \* the item of the current request, with its size
    failures,  \* transient failures of the current ask
    got,       \* the responses to the current cell so far
    results,   \* the entries of the cells that are over
    saved,     \* the run files written, as sequences of entries
    exit,      \* the exit code, 0, 2 or 130, or Running
    calls,     \* observation: the requests sent for the current ask
    cut        \* observation: whether a shortened item was ever sent

judgeVars == <<cmd, pc, cells, text, failures, got, results, saved, exit, calls, cut>>
asking == <<text, failures, got, calls>>

Running == -1
Asks == {"judge", "fixtures"}       \* what goes through judge_entries
None == [size |-> 0, cut |-> FALSE]

JudgeTypeOK ==
    /\ cmd \in Invocation
    /\ pc \in {"check", "cell", "ask", "decide", "finish", "exited"}
    /\ Len(results) + Len(cells) <= Len(cmd.cells)
    /\ text.size \in Nat
    /\ failures \in 0 .. MaxAttempts - 1
    /\ Len(got) <= 3
    /\ exit \in {Running, 0, 2, 130}
    /\ cut \in BOOLEAN

JudgeInit ==
    /\ cmd \in Invocation
    /\ pc = "check"
    /\ cells = cmd.cells
    /\ text = None
    /\ failures = 0
    /\ got = <<>>
    /\ results = <<>>
    /\ saved = <<>>
    /\ exit = Running
    /\ calls = 0
    /\ cut = FALSE

Exit(code) == /\ pc' = "exited"
              /\ exit' = code

-----------------------------------------------------------------------------
(* Before any request *)

\* judge_context with remote_preflight, then cmd_judge's fit of a plan item:
\* without a key, without the recorded consent, or with a plan item that does
\* not fit with its long code blocks reduced, nothing is sent.
Check(cleared) ==
    /\ pc = "check"
    /\ LET fitted == cmd.op = "judge" /\ cmd.gate = "plan"
           asked == {i \in DOMAIN cmd.cells : ~cmd.cells[i].excluded}
       IN  IF \/ ~cleared /\ asked # {}
              \/ fitted /\ PlanFits(cmd.item, Cap, MaxCode) = {}
           THEN /\ Exit(2)
                /\ UNCHANGED cells
           ELSE /\ pc' = "cell"
                /\ cells' = IF fitted
                            THEN [i \in DOMAIN cells |->
                                    [cells[i] EXCEPT !.size =
                                        TextSize(FitPlanItem(cmd.item, Cap, MaxCode))]]
                            ELSE cells
                /\ UNCHANGED exit
    /\ UNCHANGED <<cmd, asking, results, saved, cut>>

-----------------------------------------------------------------------------
(* One cell after the other: judge_entries, rubric_entries, cmd_dedupe *)

Entry(verdict) == [verdict |-> verdict, got |-> got, unconfirmed |-> FALSE]

\* check-fixtures --run-dir writes a run for each cell.
SavesEachCell == cmd.op = "fixtures"

\* The current cell is over.
Close(entry) ==
    /\ results' = Append(results, entry)
    /\ cells' = Tail(cells)
    /\ saved' = IF SavesEachCell THEN Append(saved, <<entry>>) ELSE saved
    /\ pc' = "cell"
    /\ text' = None
    /\ failures' = 0
    /\ got' = <<>>
    /\ calls' = 0

\* The next cell: one that is excluded or, at the plan gate, structural is not
\* asked about. fit_request cuts the text to the cap or refuses the request.
OpenCell ==
    /\ pc = "cell"
    /\ cells # <<>>
    /\ LET c == Head(cells)
           size == Fitted(c.size, Cap, Floor)
       IN  IF c.excluded THEN Close(Entry("excluded"))
           ELSE IF cmd.op \in Asks /\ cmd.gate = "plan" /\ c.kind = "structural"
           THEN Close(Entry("deterministic_only"))
           ELSE IF size = 0 \/ (cmd.op \notin Asks /\ c.size > Cap)
           THEN Close(Entry("error"))
           ELSE /\ text' = [size |-> size, cut |-> size # c.size]
                /\ pc' = "ask"
                /\ UNCHANGED <<cells, failures, got, results, saved, calls>>
    /\ UNCHANGED <<cmd, exit, cut>>

\* What is k halvings above the floor.
Doubled[k \in 0 .. Cap] == IF k = 0 THEN Floor ELSE 2 * Doubled[k - 1]

\* The requests of an ask are counted up to one more than it may take, then
\* from zero again.
CallLimit == MaxAttempts + Cardinality({k \in 0 .. Cap - 1 : Doubled[k] < Cap})
SentAgain == calls' = (calls + 1) % (CallLimit + 2)

\* call_jev: a request goes out and comes back with a valid response.
Answered(response) ==
    /\ pc = "ask"
    /\ got' = Append(got, response)
    /\ failures' = 0
    /\ SentAgain
    /\ cut' = (cut \/ text.cut)
    /\ pc' = "decide"
    /\ UNCHANGED <<cmd, cells, text, results, saved, exit>>

\* What judge_with_policy gives up on: a first ask makes the cell an error, a
\* confirming ask of judge_entries keeps the first verdict, unconfirmed.
GiveUp ==
    IF cmd.op \in Asks /\ Len(got) = 1
    THEN Close([Entry(Decide(got[1], Head(cells).kind, Threshold))
                EXCEPT !.unconfirmed = TRUE])
    ELSE Close(Entry("error"))

MayRetry == failures < MaxAttempts - 1

\* A rate limit, an overload, a 5xx, a broken connection or a response that
\* does not validate: asked again until the last attempt.
TransientFailure ==
    /\ pc = "ask"
    /\ cut' = (cut \/ text.cut)
    /\ IF MayRetry
       THEN /\ failures' = failures + 1
            /\ SentAgain
            /\ UNCHANGED <<pc, cells, text, got, results, saved>>
       ELSE GiveUp
    /\ UNCHANGED <<cmd, exit>>

\* halve_item is tried for an item of the dev gate, above the floor. (One mutant
\* does not look at the gate, the other not at the floor.)
ShortensAtAnyGate == cmd.op \in Asks /\ text.size > Floor
ShortensAtFloor == cmd.op \in Asks /\ cmd.gate = "dev"
MayShorten == cmd.op \in Asks /\ cmd.gate = "dev" /\ text.size > Floor

\* The request is too long for Jev: the item is halved and sent again, down to
\* the floor; at the plan gate, and without an item, it is given up at once.
TooLong ==
    /\ pc = "ask"
    /\ cut' = (cut \/ text.cut)
    /\ IF MayShorten
       THEN /\ text' = [size |-> Halved(text.size, Floor), cut |-> TRUE]
            /\ SentAgain
            /\ UNCHANGED <<pc, cells, failures, got, results, saved>>
       ELSE GiveUp
    /\ UNCHANGED <<cmd, exit>>

\* A 422 or another refusal of this request.
Refused ==
    /\ pc = "ask"
    /\ cut' = (cut \/ text.cut)
    /\ GiveUp
    /\ UNCHANGED <<cmd, exit>>

\* A 401 ends the whole command, with nothing but the fixture runs written.
BadCredentials ==
    /\ pc = "ask"
    /\ cut' = (cut \/ text.cut)
    /\ Exit(2)
    /\ UNCHANGED <<cmd, cells, asking, results, saved>>

AskAgain ==
    /\ pc' = "ask"
    /\ failures' = 0
    /\ calls' = 0
    /\ UNCHANGED <<cells, text, got, results, saved>>

\* judge_entries: one answer near the threshold is confirmed by a second ask;
\* two that differ leave the cell undecided.
DecideCell(kind) ==
    LET verdict(i) == Decide(got[i], kind, Threshold)
    IN  IF Len(got) = 1 /\ cmd.confirm /\ NearThreshold(got[1], kind, Threshold)
        THEN AskAgain
        ELSE IF Len(got) = 2 /\ verdict(1) # verdict(2)
        THEN Close(Entry("underspecified"))
        ELSE Close(Entry(verdict(1)))

\* _rubric_judgement: two answers, and a third when their choices differ.
DecideRubric(lintErrors) ==
    IF Len(got) = 1 \/ (Len(got) = 2 /\ Disagree(got[1], got[2]))
    THEN AskAgain
    ELSE Close(Entry(RubricVerdict(got, Threshold, lintErrors)))

\* cmd_dedupe: one answer per pair.
DecidePair ==
    Close(Entry(IF Sure(got[1], "same_constraint", "yes", Threshold)
                THEN "duplicate" ELSE "distinct"))

DecideStep ==
    /\ pc = "decide"
    /\ CASE cmd.op \in Asks   -> DecideCell(Head(cells).kind)
         [] cmd.op = "rubric" -> DecideRubric(Head(cells).lintErrors)
         [] cmd.op = "dedupe" -> DecidePair
    /\ UNCHANGED <<cmd, exit, cut>>

-----------------------------------------------------------------------------
(* The end *)

\* cell_failures: an unanswered ask, of a confirmation too, fails the command
\* whatever the verdicts are. (The mutant overlooks the confirmations.)
UnansweredAtAll(entry) == entry.verdict = "error"
Unanswered(entry) == entry.verdict = "error" \/ entry.unconfirmed

\* judge writes its run, errors included, before it looks at the failures.
Finish ==
    /\ pc = "cell"
    /\ cells = <<>>
    /\ saved' = IF cmd.op = "judge" THEN Append(saved, results) ELSE saved
    /\ pc' = "finish"
    /\ UNCHANGED <<cmd, cells, asking, results, exit, cut>>

Report ==
    /\ pc = "finish"
    /\ Exit(IF \E i \in DOMAIN results : Unanswered(results[i]) THEN 2 ELSE 0)
    /\ UNCHANGED <<cmd, cells, asking, results, saved, cut>>

\* A KeyboardInterrupt, which main reports as cancelled.
Interrupt ==
    /\ pc # "exited"
    /\ Exit(130)
    /\ UNCHANGED <<cmd, cells, asking, results, saved, cut>>

Jev ==
    \/ \E response \in Response(cmd) : Answered(response)
    \/ TransientFailure
    \/ TooLong
    \/ Refused
    \/ BadCredentials

Command ==
    \/ \E cleared \in BOOLEAN : Check(cleared)
    \/ OpenCell
    \/ DecideStep
    \/ Finish
    \/ Report

JudgeNext == Command \/ Jev \/ Interrupt

\* A request comes back or times out, and the command goes on.
JudgeSpec == JudgeInit /\ [][JudgeNext]_judgeVars /\ WF_judgeVars(Command) /\ WF_judgeVars(Jev)

-----------------------------------------------------------------------------
(* Properties *)

\* An item of the plan gate is never sent shortened, however Jev answers (the
\* docstring of judge_with_policy, references/jev-api.md:65).
PlanIsWhole == cmd.op = "judge" /\ cmd.gate = "plan" => ~cut

\* A cell that passes does so in every answer it rests on: no single answer
\* that fails, is a doubt or was contradicted by its confirmation lets it pass;
\* and when the command ends well, an answer near the threshold was confirmed.
PassingVerdict == {"satisfied", "not_applicable"}
CellsAreEarned ==
    cmd.op \in Asks =>
        \A i \in DOMAIN results :
            results[i].verdict \in PassingVerdict =>
                LET kind == cmd.cells[i].kind
                    asks == results[i].got
                IN  /\ asks # <<>>
                    /\ \A k \in DOMAIN asks :
                        Decide(asks[k], kind, Threshold) \in PassingVerdict
                    /\ exit = 0 /\ cmd.confirm
                       /\ NearThreshold(asks[1], kind, Threshold) => Len(asks) = 2

\* Exit 0 means an answer for every cell and, of judge, a run on disk with all
\* of them; a judge command that was told to stop leaves no run unless all its
\* cells were over.
ExitTellsTheRun ==
    /\ exit = 0 => /\ Len(results) = Len(cmd.cells)
                   /\ \A i \in DOMAIN results : ~Unanswered(results[i])
                   /\ cmd.op = "judge" => saved = <<results>>
    /\ cmd.op = "judge" /\ saved # <<>> =>
        /\ saved = <<results>>
        /\ Len(results) = Len(cmd.cells)

\* A candidate is testable only if each criterion had two confident yes
\* answers, and the lint found nothing against it.
CandidatesAreEarned ==
    cmd.op = "rubric" =>
        \A i \in DOMAIN results :
            results[i].verdict = "testable" =>
                /\ ~cmd.cells[i].lintErrors
                /\ \A q \in DOMAIN results[i].got[1] :
                    Cardinality({k \in DOMAIN results[i].got :
                        Sure(results[i].got[k], q, "yes", Threshold)}) >= 2

\* What a command reports as passed or testable, by its cells, its run file and its
\* exit code, Jev said so.
PassIsEarned == CellsAreEarned /\ CandidatesAreEarned /\ ExitTellsTheRun

\* One ask makes at most MaxAttempts requests beside those that had to be
\* shortened, and each of these at least halves what is above the floor.
CallsAreBounded == calls <= CallLimit

\* What is sent to Jev is what may be sent, and not more often than that.
RequestsAreSound == PlanIsWhole /\ CallsAreBounded

\* Every command ends.
JudgeEnds == <>(pc = "exited")
=============================================================================
