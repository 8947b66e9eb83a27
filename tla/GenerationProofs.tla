--------------------------- MODULE GenerationProofs ---------------------------
(***************************************************************************)
(* What holds of Generation for every set of drivers, directories and      *)
(* versions and for every bound: its types, whose a project is, what a     *)
(* reported success means and which files a driver leaves behind.          *)
(*                                                                         *)
(* The inductive invariant follows a driver through its steps: which files *)
(* it may have, that a directory it works in is there and its own, how far *)
(* the pipeline has come in it, and what its running recipe has assured.   *)
(***************************************************************************)
EXTENDS Generation, SequenceTheorems, TLAPS

-----------------------------------------------------------------------------
(* The bootstrap script *)

LEMMA RunningIsTyped ==
  ASSUME BootstrapTypeOK, NEW c \in Caller, ~At(c, "idle")
  PROVE  boot[c] \in Running
BY DEF BootstrapTypeOK, At, Ended

\* A call that is not idle moves to another place, or ends.
LEMMA ToTyped ==
  ASSUME BootstrapTypeOK, NEW c \in Caller, ~At(c, "idle"), NEW p \in Place, To(c, p)
  PROVE  boot' \in [Caller -> Ended \cup Running]
<1>1. boot[c] \in Running
  BY RunningIsTyped
<1>2. [boot[c] EXCEPT !.at = p] \in Running
  BY <1>1 DEF Running
<1>3. QED BY <1>2 DEF BootstrapTypeOK, To

LEMMA FinishTyped ==
  ASSUME BootstrapTypeOK, NEW c \in Caller, NEW ok \in BOOLEAN, Finish(c, ok)
  PROVE  boot' \in [Caller -> Ended \cup Running]
BY DEF BootstrapTypeOK, Finish, Ended

LEMMA MayFailTyped ==
  ASSUME BootstrapTypeOK, NEW c \in Caller, ~At(c, "idle"), NEW p \in Place, MayFail(c, p)
  PROVE  boot' \in [Caller -> Ended \cup Running]
BY ToTyped, FinishTyped DEF MayFail

LEMMA BeginTyped ==
  ASSUME BootstrapTypeOK, NEW c \in Caller, NEW op \in Op, NEW mode \in Mode,
         NEW override \in BOOLEAN, NEW x \in Dest, Begin(c, op, mode, override, x)
  PROVE  BootstrapTypeOK'
<1>1. [op |-> op, mode |-> mode, dest |-> x, override |-> override,
       at |-> "resolve", binary |-> Missing] \in Running
  BY DEF Running, Place, Binary
<1>2. QED BY <1>1 DEF BootstrapTypeOK, Begin

\* Every step of a call keeps the types.
LEMMA StepTyped ==
  ASSUME BootstrapTypeOK, NEW c \in Caller, BootstrapStep(c)
  PROVE  BootstrapTypeOK'
<1> USE BootstrapAssumption
<1>1. ASSUME Resolve(c) PROVE BootstrapTypeOK'
  <2>1. boot[c] \in Running
    BY <1>1, RunningIsTyped DEF Resolve, At
  <2>2. ResolveBinary(c) \in Binary
    BY DEF ResolveBinary, Binary
  <2>3. [boot[c] EXCEPT !.binary = ResolveBinary(c),
                        !.at = IF ResolveBinary(c) = Missing THEN "fetch" ELSE "compat"]
          \in Running
    BY <2>1, <2>2 DEF Running, Place
  <2>4. QED BY <1>1, <2>3 DEF Resolve, BootstrapTypeOK
<1>2. ASSUME InstallRelease(c) PROVE BootstrapTypeOK'
  <2>1. boot[c] \in Running
    BY <1>2, RunningIsTyped DEF InstallRelease, At
  <2>2. managed' \in Version \cup {Missing} /\ venv' = venv
    BY <1>2 DEF InstallRelease, BootstrapTypeOK
  <2>3. [boot[c] EXCEPT !.binary = "managed",
                        !.at = IF boot[c].binary = Missing THEN "compat" ELSE "probe"] \in Running
    BY <2>1 DEF Running, Place, Binary
  <2>4. CASE Finish(c, FALSE) \/ Finish(c, TRUE)
    BY <2>2, <2>4, FinishTyped DEF BootstrapTypeOK
  <2>5. CASE boot' = [boot EXCEPT ![c].binary = "managed",
                                  ![c].at = IF boot[c].binary = Missing THEN "compat" ELSE "probe"]
    BY <2>2, <2>3, <2>5 DEF BootstrapTypeOK
  <2>6. QED BY <1>2, <2>4, <2>5 DEF InstallRelease
<1>3. ASSUME CompatibilityCheck(c) PROVE BootstrapTypeOK'
  <2>1. \E p \in Place : To(c, p)
    BY <1>3 DEF CompatibilityCheck, Place
  <2>2. QED BY <1>3, <2>1, ToTyped DEF CompatibilityCheck, At, BootstrapTypeOK
<1>4. ASSUME Settle(c) \/ VersionProbe(c) \/ Own(c) PROVE BootstrapTypeOK'
  <2>1. ~At(c, "idle")
    BY <1>4 DEF Settle, VersionProbe, Own, At
  <2>2. managed' \in Version \cup {Missing} /\ venv' = venv
    BY <1>4 DEF Settle, VersionProbe, Own, BootstrapTypeOK
  <2>3. \/ Finish(c, FALSE) \/ \E p \in Place : To(c, p)
    BY <1>4 DEF Settle, VersionProbe, Own, MayFail, Place
  <2>4. QED BY <2>1, <2>2, <2>3, ToTyped, FinishTyped DEF BootstrapTypeOK
<1>5. ASSUME ProvisionVenv(c) \/ CreateVenv(c) \/ PipInstall(c) PROVE BootstrapTypeOK'
  <2>1. ~At(c, "idle")
    BY <1>5 DEF ProvisionVenv, CreateVenv, PipInstall, At
  <2>2. boot[c] \in Running
    BY <2>1, RunningIsTyped
  <2>3. managed' = managed
    BY <1>5 DEF ProvisionVenv, CreateVenv, PipInstall
  <2>4. venv' \in [Dest -> {"absent", "bare", "empty", "ready"}]
    <3>1. boot[c].dest \in Dest
      BY <2>2 DEF Running
    <3>2. QED BY <1>5, <3>1 DEF ProvisionVenv, CreateVenv, PipInstall, BootstrapTypeOK
  <2>5. Finish(c, FALSE) \/ Finish(c, TRUE) \/ \E p \in Place : To(c, p)
    BY <1>5 DEF ProvisionVenv, CreateVenv, PipInstall, Provided, Place
  <2>6. QED BY <2>1, <2>3, <2>4, <2>5, ToTyped, FinishTyped DEF BootstrapTypeOK
<1>6. ASSUME Conclude(c) PROVE BootstrapTypeOK'
  BY <1>6, FinishTyped DEF Conclude, BootstrapTypeOK
<1>7. QED BY <1>1, <1>2, <1>3, <1>4, <1>5, <1>6 DEF BootstrapStep

\* No step of a call spoils an environment that is ready, or touches another call.
LEMMA ReadyStays ==
  ASSUME BootstrapTypeOK, NEW c \in Caller, BootstrapStep(c), NEW x \in Dest, venv[x] = "ready"
  PROVE  venv'[x] = "ready"
<1>1. CASE ProvisionVenv(c)
  BY <1>1 DEF ProvisionVenv, BootstrapTypeOK
<1>2. CASE CreateVenv(c)
  BY <1>2 DEF CreateVenv, BootstrapTypeOK
<1>3. CASE PipInstall(c)
  BY <1>3 DEF PipInstall, BootstrapTypeOK
<1>4. CASE UNCHANGED venv
  BY <1>4
<1>5. QED
  BY <1>1, <1>2, <1>3, <1>4
  DEF BootstrapStep, Resolve, InstallRelease, CompatibilityCheck, Settle, VersionProbe, Own, Conclude

LEMMA OthersStay ==
  ASSUME BootstrapTypeOK, NEW c \in Caller, BootstrapStep(c), NEW e \in Caller, e # c
  PROVE  boot'[e] = boot[e]
BY DEF BootstrapTypeOK, BootstrapStep, Resolve, InstallRelease, CompatibilityCheck, Settle,
       VersionProbe, Own, ProvisionVenv, CreateVenv, PipInstall, Conclude, Provided, To, Finish,
       MayFail

-----------------------------------------------------------------------------
(* The inductive invariant, for one driver                                 *)

Early == {"idle", "wizard", "check", "values", "answers", "mkdir"}
Working == {"pipeline", "recipe"}

\* A driver has no code before it fails or succeeds, no directory before it makes
\* one, and none of the codes that deny the directory after that.
Coded(d) ==
  /\ step[d] \in Early \cup {"unwind"} => d \notin made
  /\ step[d] \in Early \cup Working => code[d] = "none"
  /\ code[d] = "ok" => d \in made
  /\ d \in made => code[d] \notin Uncreated \cup {"GEN.DEST_CONFLICT"}

\* The files that a driver may have at each step.
Left(d) ==
  \/ temp[d] = {Merged} /\ code[d] = "GEN.SCHEMA_INVALID"
  \/ temp[d] \subseteq {Acquired, Values, Composed} /\ code[d] = "GEN.STEP_FAILED"

Files(d) ==
  /\ step[d] = "idle" => temp[d] = {}
  /\ step[d] = "wizard" => temp[d] \subseteq {Acquired, Merged}
  /\ step[d] \in {"check", "values"} => temp[d] \subseteq {Acquired}
  /\ step[d] = "answers" => temp[d] \subseteq {Acquired, Values}
  /\ step[d] \in {"mkdir", "cleanup"} \cup Working => temp[d] \subseteq {Acquired, Values, Composed}
  /\ step[d] = "unwind" => temp[d] \subseteq {Acquired} \/ Left(d)
  /\ step[d] = "ended" => Acquired \notin temp[d] /\ (temp[d] = {} \/ (Left(d) /\ d \notin made))

\* The directory that a driver works in is there, is its own, and is as far as the
\* driver is.
Works(d) ==
  LET x == call[d].dest
  IN  step[d] \in Working =>
        /\ d \in made /\ tree[x] \in Tree /\ tree[x].maker = d
        /\ pos[d] <= Len(Steps(d)) /\ Len(tree[x].done) = pos[d]
        /\ \A i \in 1 .. pos[d] : tree[x].done[i] = Steps(d)[i]
        /\ Occurs("setup", tree[x].done) => venv[x] = "ready"

\* A driver's running recipe is the one it is at; past provision_venv the
\* environment is ready.
Assured(d) ==
  LET x == call[d].dest
  IN  step[d] = "recipe" =>
        /\ pos[d] < Len(Steps(d)) /\ Upcoming(d) \in Bootstrapped
        /\ ~At(d, "idle") => /\ boot[d].op = Upcoming(d) /\ boot[d].mode = "install"
                             /\ boot[d].dest = x
        /\ At(d, "tools") \/ At(d, "run") \/ (At(d, "idle") /\ boot[d].ok) => venv[x] = "ready"

Whole(d) ==
  LET x == call[d].dest
  IN  code[d] = "ok" /\ tree[x].maker = d => tree[x].done = Steps(d) /\ venv[x] = "ready"

\* No step of the pipeline is done before there is a directory.
Waiting(d) == step[d] \in Early => pos[d] = 0

Inv(d) == Waiting(d) /\ Coded(d) /\ Files(d) /\ Works(d) /\ Assured(d) /\ Whole(d)

Authored == \A x \in Dest : Present(x) => tree[x].writers \subseteq {tree[x].maker}

IInv == TypeOK /\ Authored /\ \A d \in Driver : Inv(d)

-----------------------------------------------------------------------------
(* What others do                                                          *)

Same(d) ==
  /\ step'[d] = step[d] /\ code'[d] = code[d] /\ temp'[d] = temp[d] /\ pos'[d] = pos[d]
  /\ call' = call /\ (d \in made' <=> d \in made)

\* The directory of d is as it was, at least; or it is not d's any more.
Undisturbed(d) ==
  LET x == call[d].dest
  IN  \/ tree'[x] = tree[x] /\ (venv[x] = "ready" => venv'[x] = "ready")
      \/ step[d] \notin Working /\ tree'[x].maker # d

LEMMA Frame ==
  ASSUME NEW d \in Driver, Inv(d), Same(d), boot'[d] = boot[d], Undisturbed(d)
  PROVE  Inv(d)'
<1>1. Waiting(d)' /\ Coded(d)' /\ Files(d)'
  BY DEF Inv, Same, Waiting, Coded, Files, Left
<1>2. Works(d)' /\ Assured(d)' /\ Whole(d)'
  <2>1. Steps(d)' = Steps(d) /\ Upcoming(d)' = Upcoming(d) /\ \A p : At(d, p)' <=> At(d, p)
    BY DEF Same, Steps, Upcoming, At
  <2>2. CASE /\ tree'[call[d].dest] = tree[call[d].dest]
             /\ venv[call[d].dest] = "ready" => venv'[call[d].dest] = "ready"
    BY <2>1, <2>2 DEF Inv, Works, Assured, Whole, Same
  <2>3. CASE step[d] \notin Working /\ tree'[call[d].dest].maker # d
    BY <2>1, <2>3 DEF Inv, Works, Assured, Whole, Same, Working
  <2>4. QED BY <2>2, <2>3 DEF Undisturbed
<1>3. QED BY <1>1, <1>2 DEF Inv

\* A driver's own steps leave the others where they are.
LEMMA OtherDriver ==
  ASSUME TypeOK, NEW e \in Driver, NEW d \in Driver, d # e,
         call' = call, made' = made \/ made' = made \cup {e},
         \E s \in Step : step' = [step EXCEPT ![e] = s],
         code' = code \/ \E w \in Code : code' = [code EXCEPT ![e] = w],
         temp' = temp \/ \E t \in SUBSET TempFile : temp' = [temp EXCEPT ![e] = t],
         pos' = pos \/ \E n \in Nat : pos' = [pos EXCEPT ![e] = n]
  PROVE  Same(d)
BY DEF TypeOK, Same

-----------------------------------------------------------------------------
(* Steps that keep every directory                                         *)

\* Enough for a driver's step before or after its work: its codes and its files.
LEMMA Quiet ==
  ASSUME IInv, NEW e \in Driver, Keeps, call' = call,
         NEW s \in Step, s \notin Working, s \in Early => step[e] \in Early,
         step' = [step EXCEPT ![e] = s],
         NEW w \in Code, code' = [code EXCEPT ![e] = w],
         NEW t \in SUBSET TempFile, temp' = [temp EXCEPT ![e] = t],
         pos' = pos \/ pos' = [pos EXCEPT ![e] = 0],
         Coded(e)', Files(e)', Whole(e)'
  PROVE  IInv'
<1>1. TypeOK'
  BY DEF IInv, TypeOK, BootstrapTypeOK, Keeps, bootVars, Pipeline
<1>2. Authored'
  BY DEF IInv, Authored, Keeps, Present
<1>3. ASSUME NEW d \in Driver, d # e PROVE Inv(d)'
  <2>1. Same(d)
    BY <1>3, OtherDriver DEF IInv, Keeps
  <2>2. boot'[d] = boot[d] /\ Undisturbed(d)
    BY DEF Keeps, bootVars, Undisturbed
  <2>3. QED BY <2>1, <2>2, Frame DEF IInv
<1>4. Inv(e)'
  <2>1. step'[e] = s
    BY DEF IInv, TypeOK
  <2>2. Works(e)' /\ Assured(e)'
    BY <2>1 DEF Works, Assured, Working
  <2>3. pos'[e] = pos[e] \/ pos'[e] = 0
    BY DEF IInv, TypeOK
  <2>4. Waiting(e)'
    BY <2>1, <2>3 DEF IInv, Inv, Waiting
  <2>5. QED BY <2>2, <2>4 DEF Inv
<1>5. QED BY <1>1, <1>2, <1>3, <1>4 DEF IInv

\* The types of a driver's row.
LEMMA Row ==
  ASSUME TypeOK, NEW e \in Driver
  PROVE  /\ call[e].dest \in Dest /\ call[e].release \in BOOLEAN /\ call[e].override \in BOOLEAN
         /\ step[e] \in Step /\ code[e] \in Code /\ temp[e] \in SUBSET TempFile
         /\ pos[e] \in Nat /\ e \in Caller
         /\ code = [code EXCEPT ![e] = code[e]] /\ temp = [temp EXCEPT ![e] = temp[e]]
BY GenerationAssumption DEF TypeOK

\* A driver that is not working leaves the directories that bear its name as they were.
LEMMA WholeKept ==
  ASSUME IInv, NEW e \in Driver, Keeps, call' = call, code'[e] = "ok" => code[e] = "ok"
  PROVE  Whole(e)'
BY DEF IInv, Inv, Whole, Keeps, bootVars, Steps

\* A failure before the directory is made.
LEMMA FailsKeeps ==
  ASSUME IInv, NEW e \in Driver, Keeps,
         NEW from \in {"idle", "check", "values", "answers"},
         NEW why \in Uncreated \cup {"GEN.TOOL_MISSING", "GEN.DEST_CONFLICT", "GEN.STEP_FAILED"},
         from = "answers" => why = "GEN.STEP_FAILED", Fails(e, from, why)
  PROVE  IInv'
<1>1. /\ step[e] = from /\ step' = [step EXCEPT ![e] = "unwind"] /\ step'[e] = "unwind"
      /\ code' = [code EXCEPT ![e] = why] /\ code'[e] = why /\ why \in Code
      /\ call' = call /\ pos' = pos /\ temp' = temp /\ made' = made
  BY DEF Fails, Goes, IInv, TypeOK, Keeps, Code
<1>2. Coded(e)'
  BY <1>1 DEF IInv, Inv, Coded, Early, Working, Uncreated
<1>3. Files(e)'
  BY <1>1 DEF IInv, Inv, Files, Left, Working
<1>4. Whole(e)'
  BY <1>1, WholeKept DEF Uncreated
<1>5. temp' = [temp EXCEPT ![e] = temp[e]] /\ temp[e] \in SUBSET TempFile
  BY <1>1, Row DEF IInv
<1>6. QED BY <1>1, <1>2, <1>3, <1>4, <1>5, Quiet DEF Step, Early, Working

LEMMA StartKeeps ==
  ASSUME IInv, NEW e \in Driver, Start(e)
  PROVE  IInv'
<1> DEFINE t == {Acquired} \cup IF call[e].entry = "prefill" THEN {Merged} ELSE {}
<1>1. Keeps /\ step[e] = "idle"
  BY DEF Start
<1>2. CASE Fails(e, "idle", "GEN.DEST_CONFLICT")
  BY <1>1, <1>2, FailsKeeps
<1>3. CASE Goes(e, "idle", "check") /\ UNCHANGED <<call, pos, code, temp>>
  <2>1. step'[e] = "check" /\ code'[e] = code[e] /\ temp'[e] = temp[e] /\ made' = made
    BY <1>1, <1>3 DEF Goes, IInv, TypeOK, Keeps
  <2>2. Coded(e)' /\ Files(e)'
    BY <1>1, <2>1 DEF IInv, Inv, Coded, Files, Early, Working, Left
  <2>3. QED BY <1>1, <1>3, <2>1, <2>2, WholeKept, Quiet, Row DEF Goes, Step, Early, Working, IInv
<1>4. CASE /\ Goes(e, "idle", "wizard") /\ temp' = [temp EXCEPT ![e] = t]
           /\ UNCHANGED <<call, pos, code>>
  <2>1. step'[e] = "wizard" /\ code'[e] = code[e] /\ temp'[e] = t /\ made' = made
    BY <1>1, <1>4 DEF Goes, IInv, TypeOK, Keeps
  <2>2. Coded(e)' /\ Files(e)'
    BY <1>1, <2>1 DEF IInv, Inv, Coded, Files, Early, Working, Left
  <2>3. t \in SUBSET TempFile
    BY DEF TempFile
  <2> HIDE DEF t
  <2>4. QED BY <1>1, <1>4, <2>1, <2>2, <2>3, WholeKept, Quiet, Row DEF Goes, Step, Early, Working, IInv
<1>5. QED BY <1>2, <1>3, <1>4 DEF Start

LEMMA WizardKeeps ==
  ASSUME IInv, NEW e \in Driver, Wizard(e)
  PROVE  IInv'
<1>1. Keeps /\ step[e] = "wizard" /\ call' = call /\ pos' = pos /\ made' = made
  BY DEF Wizard, Goes, Keeps
<1>2. temp[e] \subseteq {Acquired, Merged}
  BY <1>1 DEF IInv, Inv, Files
<1>3. CASE /\ Goes(e, "wizard", "check") /\ temp' = [temp EXCEPT ![e] = @ \ {Merged}]
           /\ UNCHANGED code
  <2>1. step'[e] = "check" /\ code'[e] = code[e] /\ temp'[e] = temp[e] \ {Merged}
    BY <1>3 DEF Goes, IInv, TypeOK
  <2>2. Coded(e)' /\ Files(e)'
    BY <1>1, <1>2, <2>1 DEF IInv, Inv, Coded, Files, Early, Working, Left
  <2>3. temp[e] \ {Merged} \in SUBSET TempFile
    BY Row DEF IInv
  <2>4. QED BY <1>1, <1>3, <2>1, <2>2, <2>3, WholeKept, Quiet, Row DEF Goes, Step, Early, Working, IInv
<1>4. ASSUME NEW why \in WizardCodes, NEW unwritten \in SUBSET {Merged},
             unwritten # {} => why = "GEN.SCHEMA_INVALID",
             Goes(e, "wizard", "unwind"), code' = [code EXCEPT ![e] = why],
             temp' = [temp EXCEPT ![e] = (@ \ {Merged, Acquired}) \cup unwritten]
      PROVE  IInv'
  <2>1. step'[e] = "unwind" /\ code'[e] = why /\ temp'[e] = unwritten
    BY <1>2, <1>4 DEF Goes, IInv, TypeOK
  <2>2. why \in Code /\ why \notin {"ok", "none"}
    BY DEF WizardCodes, Code, Uncreated
  <2>3. Coded(e)' /\ Files(e)'
    BY <1>1, <1>4, <2>1, <2>2 DEF IInv, Inv, Coded, Files, Early, Working, Left
  <2>4. temp' = [temp EXCEPT ![e] = unwritten] /\ unwritten \in SUBSET TempFile
    BY <1>2, <1>4 DEF TempFile, IInv, TypeOK
  <2>5. Whole(e)'
    BY <1>1, <2>1, <2>2, WholeKept
  <2>6. QED BY <1>1, <1>4, <2>2, <2>3, <2>4, <2>5, Quiet DEF Goes, Step, Early, Working
<1>5. QED BY <1>3, <1>4 DEF Wizard

LEMMA CheckKeeps ==
  ASSUME IInv, NEW e \in Driver, Check(e)
  PROVE  IInv'
<1>1. Keeps /\ step[e] = "check"
  BY DEF Check, Fails, Goes
<1>2. ASSUME NEW why \in Uncreated \cup {"GEN.TOOL_MISSING", "GEN.DEST_CONFLICT"},
             Fails(e, "check", why)
      PROVE  IInv'
  BY <1>1, <1>2, FailsKeeps
<1>3. CASE Goes(e, "check", "values") /\ UNCHANGED <<call, pos, code, temp>>
  <2>1. step'[e] = "values" /\ code'[e] = code[e] /\ temp'[e] = temp[e] /\ made' = made
    BY <1>1, <1>3 DEF Goes, IInv, TypeOK, Keeps
  <2>2. Coded(e)' /\ Files(e)'
    BY <1>1, <2>1 DEF IInv, Inv, Coded, Files, Early, Working, Left
  <2>3. QED BY <1>1, <1>3, <2>1, <2>2, WholeKept, Quiet, Row DEF Goes, Step, Early, Working, IInv
<1>4. QED BY <1>2, <1>3 DEF Check, Uncreated

LEMMA WriteFileKeeps ==
  ASSUME IInv, NEW e \in Driver,
         NEW from \in {"values", "answers"}, NEW file \in TempFile, NEW next \in Step,
         \/ from = "values" /\ file = Values /\ next = "answers"
         \/ from = "answers" /\ file = Composed /\ next = "mkdir",
         WriteFile(e, from, file, next)
  PROVE  IInv'
<1> DEFINE t == temp[e] \cup {file}
<1>1. Keeps /\ step[e] = from /\ made' = made
  BY DEF WriteFile, Fails, Goes, Keeps
<1>2. temp[e] \subseteq {Acquired, Values} /\ (from = "values" => temp[e] \subseteq {Acquired})
  BY <1>1 DEF IInv, Inv, Files
<1>3. t \in SUBSET TempFile /\ t \subseteq {Acquired, Values, Composed}
      /\ (from = "values" => t \subseteq {Acquired, Values})
  BY <1>2 DEF TempFile
<1>4. CASE Fails(e, from, "GEN.STEP_FAILED")
  BY <1>1, <1>4, FailsKeeps
<1>5. CASE /\ Goes(e, from, "unwind") /\ code' = [code EXCEPT ![e] = "GEN.STEP_FAILED"]
           /\ temp' = [temp EXCEPT ![e] = t] /\ UNCHANGED <<call, pos>>
  <2>1. step'[e] = "unwind" /\ code'[e] = "GEN.STEP_FAILED" /\ temp'[e] = t
    BY <1>5 DEF Goes, IInv, TypeOK
  <2> HIDE DEF t
  <2>2. Coded(e)' /\ Files(e)'
    BY <1>1, <1>3, <2>1 DEF IInv, Inv, Coded, Files, Early, Working, Left, Uncreated
  <2>3. Whole(e)'
    BY <1>1, <1>5, <2>1, WholeKept
  <2>4. QED BY <1>1, <1>3, <1>5, <2>2, <2>3, Quiet DEF Goes, Step, Early, Working, Code
<1>6. CASE /\ Goes(e, from, next) /\ temp' = [temp EXCEPT ![e] = t] /\ UNCHANGED <<call, pos, code>>
  <2>1. step'[e] = next /\ code'[e] = code[e] /\ temp'[e] = t
    BY <1>6 DEF Goes, IInv, TypeOK
  <2> HIDE DEF t
  <2>2. Coded(e)' /\ Files(e)'
    BY <1>1, <1>3, <2>1 DEF IInv, Inv, Coded, Files, Early, Working, Left
  <2>3. QED BY <1>1, <1>3, <1>6, <2>1, <2>2, WholeKept, Quiet, Row DEF Goes, Step, Early, Working, IInv
<1>7. QED BY <1>4, <1>5, <1>6 DEF WriteFile

LEMMA StepsTyped ==
  ASSUME NEW d
  PROVE  Steps(d) \in Seq(PipelineStep) /\ Len(Steps(d)) <= Len(Pipeline)
<1>1. PipelineStep = {"generate", "format", "patch", "agents", "claude",
                      "setup", "lint", "test", "build-cli", "build-daemon"}
  <2>1. DOMAIN Pipeline = 1 .. 10
    BY DEF Pipeline
  <2>2. \A i \in 1 .. 10 : i \in {1, 2, 3, 4, 5, 6, 7, 8, 9, 10}
    OBVIOUS
  <2>3. PipelineStep = {Pipeline[i] : i \in {1, 2, 3, 4, 5, 6, 7, 8, 9, 10}}
    BY <2>1, <2>2 DEF PipelineStep
  <2>4. QED BY <2>3 DEF Pipeline
<1>2. Pipeline \in Seq(PipelineStep) /\ Len(Pipeline) = 10
  BY <1>1 DEF Pipeline
<1>3. ReleasePipeline \in Seq(PipelineStep) /\ Len(ReleasePipeline) = 9
  BY <1>1 DEF ReleasePipeline
<1>4. Steps(d) = ReleasePipeline \/ Steps(d) = Pipeline
  BY DEF Steps
<1>5. CASE Steps(d) = ReleasePipeline
  <2>1. Len(Steps(d)) = 9 /\ Steps(d) \in Seq(PipelineStep)
    BY <1>3, <1>5
  <2>2. QED BY <1>2, <2>1
<1>6. CASE Steps(d) = Pipeline
  <2>1. Len(Steps(d)) = 10 /\ Steps(d) \in Seq(PipelineStep)
    BY <1>2, <1>6
  <2>2. QED BY <1>2, <2>1
<1>7. QED BY <1>4, <1>5, <1>6

\* When the pipeline is through, the directory has every step, setup among them.
LEMMA SucceedKeeps ==
  ASSUME IInv, NEW e \in Driver, Succeed(e)
  PROVE  IInv'
<1> DEFINE x == call[e].dest
<1>1. /\ Keeps /\ step[e] = "pipeline" /\ pos[e] = Len(Steps(e)) /\ made' = made
      /\ UNCHANGED <<call, pos, temp>> /\ step' = [step EXCEPT ![e] = "cleanup"]
      /\ code' = [code EXCEPT ![e] = "ok"]
  BY DEF Succeed, Goes, Keeps
<1>2. step'[e] = "cleanup" /\ code'[e] = "ok" /\ temp'[e] = temp[e]
  BY <1>1 DEF IInv, TypeOK
<1>3. e \in made /\ temp[e] \subseteq {Acquired, Values, Composed}
  BY <1>1 DEF IInv, Inv, Works, Files, Working
<1>4. Coded(e)' /\ Files(e)'
  BY <1>1, <1>2, <1>3 DEF Coded, Files, Early, Working, Uncreated
<1>5. tree[x].done = Steps(e) /\ venv[x] = "ready"
  <2>1. /\ tree[x] \in Tree /\ Len(tree[x].done) = Len(Steps(e))
        /\ \A i \in 1 .. Len(Steps(e)) : tree[x].done[i] = Steps(e)[i]
        /\ Occurs("setup", tree[x].done) => venv[x] = "ready"
    BY <1>1 DEF IInv, Inv, Works, Working
  <2>2. tree[x].done \in Seq(PipelineStep)
    BY <2>1 DEF Tree
  <2>3. Steps(e) \in Seq(PipelineStep)
    BY StepsTyped
  <2>4. tree[x].done = Steps(e)
    BY <2>1, <2>2, <2>3, SeqEqual
  <2>5. Occurs("setup", Steps(e))
    <3>1. CASE call[e].release
      <4>1. Steps(e)[5] = "setup" /\ 5 \in DOMAIN Steps(e)
        BY <3>1 DEF Steps, ReleasePipeline
      <4>2. QED BY <4>1 DEF Occurs
    <3>2. CASE ~call[e].release
      <4>1. Steps(e)[6] = "setup" /\ 6 \in DOMAIN Steps(e)
        BY <3>2 DEF Steps, Pipeline
      <4>2. QED BY <4>1 DEF Occurs
    <3>3. QED BY <3>1, <3>2
  <2>6. QED BY <2>1, <2>4, <2>5
<1>6. Whole(e)'
  BY <1>1, <1>5 DEF Whole, Keeps, bootVars, Steps
<1>7. QED BY <1>1, <1>4, <1>6, Quiet, Row DEF Step, Early, Working, Code, IInv

LEMMA EndKeeps ==
  ASSUME IInv, NEW e \in Driver, End(e)
  PROVE  IInv'
<1> DEFINE t == temp[e] \ Unlinked(e)
<1>1. /\ Keeps /\ step[e] \in {"unwind", "cleanup"} /\ UNCHANGED <<call, code>> /\ made' = made
      /\ step' = [step EXCEPT ![e] = "ended"] /\ pos' = [pos EXCEPT ![e] = 0]
      /\ temp' = [temp EXCEPT ![e] = t]
  BY DEF End, Keeps
<1>2. step'[e] = "ended" /\ code'[e] = code[e] /\ temp'[e] = t
  BY <1>1 DEF IInv, TypeOK
<1>3. t \in SUBSET TempFile
  BY Row DEF IInv
<1>4. Acquired \notin t
  BY DEF Unlinked
<1>5. t = {} \/ (e \notin made /\ (\/ t = {Merged} /\ code[e] = "GEN.SCHEMA_INVALID"
                                   \/ t \subseteq {Acquired, Values, Composed}
                                        /\ code[e] = "GEN.STEP_FAILED"))
  <2>1. CASE step[e] = "cleanup"
    BY <2>1 DEF IInv, Inv, Files, Unlinked
  <2>2. CASE step[e] = "unwind"
    <3>1. e \notin made /\ (temp[e] \subseteq {Acquired} \/ Left(e))
      BY <2>2 DEF IInv, Inv, Files, Coded
    <3>2. Unlinked(e) = {Acquired}
      BY <2>2 DEF Unlinked
    <3>3. QED BY <3>1, <3>2 DEF Left, Acquired, Merged
  <2>3. QED BY <1>1, <2>1, <2>2
<1> HIDE DEF t
<1>6. Files(e)'
  BY <1>1, <1>2, <1>4, <1>5 DEF Files, Left, Working
<1>7. Coded(e)'
  BY <1>1, <1>2 DEF IInv, Inv, Coded, Early, Working
<1>8. Whole(e)'
  BY <1>1, <1>2, WholeKept
<1>9. QED BY <1>1, <1>2, <1>3, <1>6, <1>7, <1>8, Quiet, Row DEF Step, Early, Working, IInv

-----------------------------------------------------------------------------
(* Steps in the directory                                                  *)

\* A step that changes only the directory of its own driver.
LEMMA OthersKept ==
  ASSUME IInv, NEW e \in Driver, NEW d \in Driver, d # e, Same(d), boot'[d] = boot[d],
         venv' = venv, NEW v, v.maker = e, tree' = [tree EXCEPT ![call[e].dest] = v],
         ~Present(call[e].dest) \/ tree[call[e].dest].maker = e
  PROVE  Inv(d)'
<1> DEFINE x == call[e].dest
<1>1. x \in Dest /\ call[d].dest \in Dest /\ tree \in [Dest -> {NoTree} \cup Tree]
  BY Row DEF IInv, TypeOK
<1>2. CASE call[d].dest # x
  <2>1. Undisturbed(d)
    BY <1>1, <1>2 DEF Undisturbed
  <2>2. QED BY <2>1, Frame DEF IInv
<1>3. CASE call[d].dest = x
  <2>1. step[d] \notin Working
    <3>1. step[d] \in Working => tree[x] \in Tree /\ tree[x].maker = d
      BY <1>3 DEF IInv, Inv, Works
    <3>2. tree[x] \in Tree => Present(x)
      <4>1. tree[x] \in Tree => tree[x].maker \in Driver
        BY DEF Tree
      <4>2. NoTree.maker = Missing
        BY DEF NoTree
      <4>3. QED BY <4>1, <4>2, GenerationAssumption DEF Present
    <3>3. QED BY <3>1, <3>2
  <2>2. tree'[x].maker # d
    BY <1>1
  <2>3. Undisturbed(d)
    BY <1>3, <2>1, <2>2 DEF Undisturbed
  <2>4. QED BY <2>3, Frame DEF IInv
<1>4. QED BY <1>2, <1>3

LEMMA AuthoredKept ==
  ASSUME IInv, NEW e \in Driver, NEW v \in Tree, v.writers \subseteq {v.maker},
         tree' = [tree EXCEPT ![call[e].dest] = v]
  PROVE  Authored' /\ tree' \in [Dest -> {NoTree} \cup Tree]
BY Row DEF IInv, TypeOK, Authored, Present

\* A driver at work has a directory of the right shape, which it alone wrote in.
LEMMA AtWorkOnOwn ==
  ASSUME IInv, NEW e \in Driver, step[e] \in Working
  PROVE  LET x == call[e].dest
         IN  /\ x \in Dest /\ tree[x] \in Tree /\ Present(x) /\ tree[x].maker = e
             /\ tree[x].writers \subseteq {e} /\ e \in made /\ code[e] = "none"
             /\ temp[e] \subseteq {Acquired, Values, Composed}
<1> DEFINE x == call[e].dest
<1>1. x \in Dest /\ tree[x] \in Tree /\ tree[x].maker = e /\ e \in made
  BY Row DEF IInv, Inv, Works
<1>2. Present(x)
  <2>1. NoTree.maker = Missing
    BY DEF NoTree
  <2>2. QED BY <1>1, <2>1, GenerationAssumption DEF Present
<1>3. tree[x].writers \subseteq {e}
  BY <1>1, <1>2 DEF IInv, Authored
<1>4. code[e] = "none" /\ temp[e] \subseteq {Acquired, Values, Composed}
  BY DEF IInv, Inv, Coded, Files
<1>5. QED BY <1>1, <1>2, <1>3, <1>4

\* A step of the pipeline fails.
LEMMA StepFailsKeeps ==
  ASSUME IInv, NEW e \in Driver, NEW from \in Working, StepFails(e, from),
         UNCHANGED <<bootVars, made, spent>>
  PROVE  IInv'
<1> DEFINE x == call[e].dest
           v == [tree[x] EXCEPT !.writers = @ \cup {e}]
<1>1. PICK why \in {"GEN.STEP_FAILED", "GEN.TOOL_MISSING"} : Fails(e, from, why)
  BY DEF StepFails
<1>2. /\ step[e] = from /\ step' = [step EXCEPT ![e] = "cleanup"]
      /\ code' = [code EXCEPT ![e] = why] /\ UNCHANGED <<call, pos, temp>>
  BY <1>1 DEF Fails, Goes, Working
<1>3. /\ x \in Dest /\ tree[x] \in Tree /\ Present(x) /\ tree[x].maker = e
      /\ tree[x].writers \subseteq {e} /\ e \in made /\ code[e] = "none"
      /\ temp[e] \subseteq {Acquired, Values, Composed}
  BY <1>2, AtWorkOnOwn
<1>4. tree' = [tree EXCEPT ![x] = v]
  BY <1>3 DEF StepFails, Written, IInv, TypeOK
<1>5. v \in Tree /\ v.maker = e /\ v.writers \subseteq {v.maker}
  BY <1>3 DEF Tree
<1> HIDE DEF v
<1>6. Authored' /\ tree' \in [Dest -> {NoTree} \cup Tree]
  BY <1>4, <1>5, AuthoredKept
<1>7. TypeOK'
  BY <1>2, <1>6 DEF IInv, TypeOK, BootstrapTypeOK, bootVars, Step, Code
<1>8. ASSUME NEW d \in Driver, d # e PROVE Inv(d)'
  <2>1. why \in Code /\ "cleanup" \in Step
    BY DEF Code, Step
  <2>2. Same(d)
    BY <1>2, <1>8, <2>1, OtherDriver DEF IInv
  <2>3. QED BY <1>3, <1>4, <1>5, <1>8, <2>2, OthersKept DEF bootVars
<1>9. Inv(e)'
  <2>1. step'[e] = "cleanup" /\ code'[e] = why /\ temp'[e] = temp[e] /\ made' = made
    BY <1>2 DEF IInv, TypeOK
  <2>2. QED
    BY <1>3, <2>1
    DEF Inv, Waiting, Coded, Files, Works, Assured, Whole, Early, Working, Uncreated
<1>10. QED BY <1>6, <1>7, <1>8, <1>9 DEF IInv

\* A step of the pipeline succeeds.
LEMMA ThroughKeeps ==
  ASSUME IInv, NEW e \in Driver, step[e] \in Working, pos[e] < Len(Steps(e)), Through(e),
         step' = [step EXCEPT ![e] = "pipeline"],
         Upcoming(e) = "setup" => venv[call[e].dest] = "ready",
         UNCHANGED <<call, code, temp, bootVars, made, spent>>
  PROVE  IInv'
<1> DEFINE x == call[e].dest
           v == [tree[x] EXCEPT !.writers = @ \cup {e}, !.done = Append(@, Upcoming(e))]
<1>1. /\ x \in Dest /\ tree[x] \in Tree /\ Present(x) /\ tree[x].maker = e
      /\ tree[x].writers \subseteq {e} /\ e \in made /\ code[e] = "none"
      /\ temp[e] \subseteq {Acquired, Values, Composed}
  BY AtWorkOnOwn
<1>2. tree' = [tree EXCEPT ![x] = v] /\ pos' = [pos EXCEPT ![e] = @ + 1]
  BY <1>1 DEF Through, IInv, TypeOK
<1>3. pos[e] \in Nat /\ Steps(e) \in Seq(PipelineStep) /\ Len(Steps(e)) <= 10
  BY Row, StepsTyped DEF IInv, Pipeline
<1>4. Upcoming(e) = Steps(e)[pos[e] + 1] /\ Upcoming(e) \in PipelineStep
  BY <1>3, ElementOfSeq DEF Upcoming
<1>5. tree[x].done \in Seq(PipelineStep)
  BY <1>1 DEF Tree
<1>6. Append(tree[x].done, Upcoming(e)) \in Seq(PipelineStep)
  BY <1>4, <1>5
<1>7. v \in Tree /\ v.maker = e /\ v.writers \subseteq {v.maker}
      /\ v.done = Append(tree[x].done, Upcoming(e))
  BY <1>1, <1>6 DEF Tree
<1> HIDE DEF v
<1>8. Authored' /\ tree' \in [Dest -> {NoTree} \cup Tree]
  BY <1>2, <1>7, AuthoredKept
<1>9. pos' \in [Driver -> 0 .. Len(Pipeline)]
  BY <1>2, <1>3 DEF IInv, TypeOK, Pipeline
<1>10. TypeOK'
  BY <1>8, <1>9 DEF IInv, TypeOK, BootstrapTypeOK, bootVars, Step
<1>11. ASSUME NEW d \in Driver, d # e PROVE Inv(d)'
  <2>1. pos[e] + 1 \in Nat /\ pos' = [pos EXCEPT ![e] = pos[e] + 1] /\ "pipeline" \in Step
    BY <1>2, <1>3 DEF IInv, TypeOK, Step
  <2>2. Same(d)
    BY <1>11, <2>1, OtherDriver DEF IInv
  <2>3. QED BY <1>1, <1>2, <1>7, <1>11, <2>2, OthersKept DEF bootVars
<1>12. Works(e)'
  <2>1. /\ Len(tree[x].done) = pos[e]
        /\ \A i \in 1 .. pos[e] : tree[x].done[i] = Steps(e)[i]
        /\ Occurs("setup", tree[x].done) => venv[x] = "ready"
    BY DEF IInv, Inv, Works
  <2>2. tree'[x] = v /\ pos'[e] = pos[e] + 1 /\ Steps(e)' = Steps(e)
    BY <1>1, <1>2 DEF IInv, TypeOK, Steps
  <2>3. Len(v.done) = pos[e] + 1 /\ \A i \in 1 .. pos[e] + 1 : v.done[i] = Steps(e)[i]
    <3> DEFINE s == tree[x].done
    <3>1. s \in Seq(PipelineStep) /\ Len(s) = pos[e] /\ pos[e] \in Nat
      BY <1>3, <1>5, <2>1
    <3>2. v.done = Append(s, Upcoming(e))
      BY <1>7
    <3>3. \A i \in 1 .. pos[e] : s[i] = Steps(e)[i]
      BY <2>1
    <3>4. Upcoming(e) = Steps(e)[pos[e] + 1]
      BY DEF Upcoming
    <3> HIDE DEF s
    <3>5. /\ Len(Append(s, Upcoming(e))) = pos[e] + 1
          /\ Append(s, Upcoming(e))[pos[e] + 1] = Upcoming(e)
      BY <1>4, <3>1
    <3>6. ASSUME NEW i \in 1 .. pos[e] PROVE Append(s, Upcoming(e))[i] = s[i]
      BY <1>4, <3>1
    <3>7. ASSUME NEW i \in 1 .. pos[e] + 1 PROVE v.done[i] = Steps(e)[i]
      <4>1. CASE i = pos[e] + 1 BY <3>2, <3>4, <3>5, <4>1
      <4>2. CASE i \in 1 .. pos[e] BY <3>2, <3>3, <3>6, <4>2
      <4>3. QED BY <3>1, <4>1, <4>2
    <3>8. QED BY <3>2, <3>5, <3>7
  <2>4. Occurs("setup", v.done) => venv[x] = "ready"
    <3>1. ASSUME NEW i \in DOMAIN v.done, v.done[i] = "setup" PROVE venv[x] = "ready"
      <4>1. i \in 1 .. pos[e] + 1
        BY <1>6, <1>7, <2>3
      <4>2. CASE i = pos[e] + 1
        BY <1>3, <1>4, <2>3, <3>1, <4>2
      <4>3. CASE i # pos[e] + 1
        <5>1. i \in 1 .. pos[e] /\ i \in DOMAIN tree[x].done
          BY <1>3, <1>5, <2>1, <4>1, <4>3
        <5>2. tree[x].done[i] = "setup"
          BY <2>1, <2>3, <3>1, <4>1, <5>1
        <5>3. QED BY <2>1, <5>1, <5>2 DEF Occurs
      <4>4. QED BY <4>2, <4>3
    <3>2. QED BY <3>1 DEF Occurs
  <2>5. pos[e] + 1 <= Len(Steps(e))
    BY <1>3
  <2>6. QED BY <1>1, <1>7, <2>2, <2>3, <2>4, <2>5 DEF Works, bootVars
<1>13. Inv(e)'
  <2>1. step'[e] = "pipeline" /\ code'[e] = "none" /\ temp'[e] = temp[e] /\ made' = made
    BY <1>1 DEF IInv, TypeOK
  <2>2. Waiting(e)' /\ Coded(e)' /\ Files(e)' /\ Assured(e)' /\ Whole(e)'
    BY <1>1, <2>1 DEF Waiting, Coded, Files, Assured, Whole, Early, Working, Uncreated
  <2>3. QED BY <1>12, <2>2 DEF Inv
<1>14. QED BY <1>8, <1>10, <1>11, <1>13 DEF IInv

LEMMA MakeDestKeeps ==
  ASSUME IInv, NEW e \in Driver, MakeDest(e)
  PROVE  IInv'
<1> DEFINE x == call[e].dest
<1>1. step[e] = "mkdir" /\ UNCHANGED <<bootVars, spent>>
  BY DEF MakeDest, Fails, Goes
<1>2. /\ e \notin made /\ code[e] = "none" /\ temp[e] \subseteq {Acquired, Values, Composed}
  BY <1>1 DEF IInv, Inv, Coded, Files, Early
<1>3. ASSUME NEW why \in {"GEN.TOOL_MISSING", "GEN.STEP_FAILED"}, Fails(e, "mkdir", why),
             UNCHANGED <<tree, made>>
      PROVE  IInv'
  <2>1. /\ step' = [step EXCEPT ![e] = "cleanup"] /\ code' = [code EXCEPT ![e] = why]
        /\ step'[e] = "cleanup" /\ code'[e] = why /\ temp'[e] = temp[e]
        /\ UNCHANGED <<call, pos, temp>>
    BY <1>3 DEF Fails, Goes, IInv, TypeOK
  <2>2. Coded(e)' /\ Files(e)'
    BY <1>2, <1>3, <2>1 DEF Coded, Files, Early, Working
  <2>3. Keeps
    BY <1>1, <1>3 DEF Keeps
  <2>4. Whole(e)'
    BY <2>1, <2>3, WholeKept
  <2>5. QED BY <2>1, <2>2, <2>3, <2>4, Quiet, Row DEF Step, Early, Working, Code, IInv
<1>4. CASE /\ Mkdir(x, e) /\ Goes(e, "mkdir", "pipeline") /\ made' = made \cup {e}
           /\ UNCHANGED <<call, pos, code, temp>>
  <2> DEFINE v == Fresh(e)
  <2>1. ~Present(x) /\ tree' = [tree EXCEPT ![x] = v] /\ x \in Dest
    BY <1>4, Row DEF Mkdir, IInv
  <2>2. v \in Tree /\ v.maker = e /\ v.writers \subseteq {v.maker} /\ v.done = << >>
    BY DEF Fresh, Tree
  <2> HIDE DEF v
  <2>3. Authored' /\ tree' \in [Dest -> {NoTree} \cup Tree]
    BY <2>1, <2>2, AuthoredKept
  <2>4. TypeOK'
    BY <1>1, <1>4, <2>3 DEF IInv, TypeOK, BootstrapTypeOK, bootVars, Goes, Step
  <2>5. ASSUME NEW d \in Driver, d # e PROVE Inv(d)'
    <3>1. \E s \in Step : step' = [step EXCEPT ![e] = s]
      BY <1>4 DEF Goes, Step
    <3>2. Same(d)
      BY <1>4, <2>5, <3>1, OtherDriver DEF IInv
    <3>3. QED BY <1>1, <2>1, <2>2, <2>5, <3>2, OthersKept DEF bootVars
  <2>6. step'[e] = "pipeline" /\ code'[e] = "none" /\ temp'[e] = temp[e] /\ tree'[x] = v
        /\ e \in made'
    BY <1>2, <1>4, <2>1 DEF Goes, IInv, TypeOK
  <2>7. pos[e] = 0
    BY <1>1 DEF IInv, Inv, Waiting, Early
  <2>8. Works(e)'
    <3>1. Steps(e)' = Steps(e) /\ 0 <= Len(Steps(e))
      BY <1>4, StepsTyped DEF Steps
    <3>2. ~Occurs("setup", v.done) /\ Len(v.done) = 0
      BY <2>2 DEF Occurs
    <3>3. QED BY <1>4, <2>2, <2>6, <2>7, <3>1, <3>2 DEF Works
  <2>9. Waiting(e)' /\ Coded(e)' /\ Files(e)' /\ Assured(e)' /\ Whole(e)'
    BY <1>2, <2>6 DEF Waiting, Coded, Files, Assured, Whole, Early, Working, Uncreated
  <2>10. QED BY <2>3, <2>4, <2>5, <2>8, <2>9 DEF IInv, Inv
<1>5. QED BY <1>3, <1>4 DEF MakeDest

LEMMA CommandKeeps ==
  ASSUME IInv, NEW e \in Driver, Command(e)
  PROVE  IInv'
<1>1. step[e] = "pipeline" /\ pos[e] < Len(Steps(e)) /\ Upcoming(e) # "setup"
      /\ UNCHANGED <<bootVars, made, spent>>
  BY DEF Command, Runs, Bootstrapped
<1>2. CASE StepFails(e, "pipeline")
  BY <1>1, <1>2, StepFailsKeeps DEF Working
<1>3. CASE Through(e) /\ UNCHANGED <<call, step, code, temp>>
  <2>1. step' = [step EXCEPT ![e] = "pipeline"]
    BY <1>1, <1>3 DEF IInv, TypeOK
  <2>2. QED BY <1>1, <1>3, <2>1, ThroughKeeps DEF Working
<1>4. QED BY <1>2, <1>3 DEF Command

LEMMA StartRecipeKeeps ==
  ASSUME IInv, NEW e \in Driver, StartRecipe(e)
  PROVE  IInv'
<1> DEFINE x == call[e].dest
<1>1. /\ step[e] = "pipeline" /\ pos[e] < Len(Steps(e)) /\ Upcoming(e) \in Bootstrapped
      /\ UNCHANGED <<made, spent>>
  BY DEF StartRecipe, Runs
<1>2. CASE StepFails(e, "pipeline") /\ UNCHANGED bootVars
  BY <1>1, <1>2, StepFailsKeeps DEF Working
<1>3. CASE /\ Begin(e, Upcoming(e), "install", call[e].override, x)
           /\ Goes(e, "pipeline", "recipe") /\ UNCHANGED <<call, pos, code, temp, tree>>
  <2>1. /\ Upcoming(e) \in Op /\ "install" \in Mode /\ call[e].override \in BOOLEAN /\ x \in Dest
        /\ e \in Caller
    BY <1>1, Row DEF IInv, Bootstrapped, Op, Mode
  <2>2. BootstrapTypeOK'
    BY <1>3, <2>1, BeginTyped DEF IInv, TypeOK
  <2>3. TypeOK'
    BY <1>1, <1>3, <2>2 DEF IInv, TypeOK, Goes, Step
  <2>4. Authored'
    BY <1>3 DEF IInv, Authored, Present
  <2>5. /\ boot'[e].op = Upcoming(e) /\ boot'[e].mode = "install" /\ boot'[e].dest = x
        /\ boot'[e].at = "resolve" /\ UNCHANGED <<managed, venv>>
        /\ \A d \in Driver : d # e => boot'[d] = boot[d]
    BY <1>3, <2>1, GenerationAssumption DEF Begin, IInv, TypeOK, BootstrapTypeOK
  <2>6. ASSUME NEW d \in Driver, d # e PROVE Inv(d)'
    <3>1. \E s \in Step : step' = [step EXCEPT ![e] = s]
      BY <1>3 DEF Goes, Step
    <3>2. Same(d)
      BY <1>1, <1>3, <2>6, <3>1, OtherDriver DEF IInv
    <3>3. Undisturbed(d)
      BY <1>3, <2>5 DEF Undisturbed
    <3>4. QED BY <2>5, <2>6, <3>2, <3>3, Frame DEF IInv
  <2>7. Inv(e)'
    <3>1. step'[e] = "recipe" /\ Steps(e)' = Steps(e) /\ Upcoming(e)' = Upcoming(e)
      BY <1>3 DEF Goes, IInv, TypeOK, Steps, Upcoming
    <3>2. Inv(e)
      BY DEF IInv
    <3>3. Waiting(e)' /\ Coded(e)' /\ Files(e)' /\ Works(e)' /\ Whole(e)'
      BY <1>1, <1>3, <2>5, <3>1, <3>2
      DEF Inv, Waiting, Coded, Files, Works, Whole, Early, Working
    <3>4. Assured(e)'
      BY <1>1, <1>3, <2>5, <3>1 DEF Assured, At
    <3>5. QED BY <3>3, <3>4 DEF Inv
  <2>8. QED BY <2>3, <2>4, <2>6, <2>7 DEF IInv
<1>4. QED BY <1>2, <1>3 DEF StartRecipe

LEMMA EndRecipeKeeps ==
  ASSUME IInv, NEW e \in Driver, EndRecipe(e)
  PROVE  IInv'
<1>1. step[e] = "recipe" /\ At(e, "idle") /\ UNCHANGED <<bootVars, made, spent>>
  BY DEF EndRecipe
<1>2. CASE StepFails(e, "recipe")
  BY <1>1, <1>2, StepFailsKeeps DEF Working
<1>3. CASE /\ TRUE \in RecipeStatus(e) /\ Through(e)
           /\ Goes(e, "recipe", "pipeline") /\ UNCHANGED <<call, code, temp>>
  <2>1. pos[e] < Len(Steps(e)) /\ (boot[e].ok => venv[call[e].dest] = "ready")
    BY <1>1 DEF IInv, Inv, Assured
  <2>2. boot[e].ok
    BY <1>3 DEF RecipeStatus
  <2>3. QED BY <1>1, <1>3, <2>1, <2>2, ThroughKeeps DEF Goes, Working
<1>4. QED BY <1>2, <1>3 DEF EndRecipe

-----------------------------------------------------------------------------
(* The script's steps and the environment                                  *)

\* A recipe's call keeps what it is about, and is past provision_venv, or ends well,
\* only with a ready environment.
LEMMA BootAssures ==
  ASSUME BootstrapTypeOK, NEW c \in Caller, BootstrapStep(c),
         boot[c].mode = "install", boot[c].op \in Bootstrapped,
         At(c, "tools") \/ At(c, "run") => venv[boot[c].dest] = "ready"
  PROVE  /\ ~At(c, "idle")' => /\ boot'[c].op = boot[c].op /\ boot'[c].mode = boot[c].mode
                               /\ boot'[c].dest = boot[c].dest
         /\ At(c, "tools")' \/ At(c, "run")' \/ (At(c, "idle")' /\ boot'[c].ok)
              => venv'[boot[c].dest] = "ready"
<1>1. ~At(c, "idle")
  BY DEF BootstrapStep, Resolve, InstallRelease, CompatibilityCheck, Settle, VersionProbe, Own,
         ProvisionVenv, CreateVenv, PipInstall, Conclude, At
<1>2. boot[c] \in Running /\ boot[c].dest \in Dest
  BY <1>1, RunningIsTyped DEF Running
<1>3. boot[c].op # "upgrade"
  BY DEF Bootstrapped
<1>4. CASE Finish(c, FALSE)
  BY <1>4 DEF Finish, At, BootstrapTypeOK
<1>5. ASSUME NEW p \in Place, To(c, p)
      PROVE  boot'[c] = [boot[c] EXCEPT !.at = p]
  BY <1>5 DEF To, BootstrapTypeOK
<1>6. ASSUME NEW p \in Place \ {"tools", "run"}, To(c, p)
      PROVE  /\ ~At(c, "idle")' => /\ boot'[c].op = boot[c].op /\ boot'[c].mode = boot[c].mode
                                   /\ boot'[c].dest = boot[c].dest
             /\ ~(At(c, "tools")' \/ At(c, "run")' \/ At(c, "idle")')
  BY <1>2, <1>5, <1>6 DEF At, Running, Place
<1>7. CASE Resolve(c)
  <2>1. boot'[c] = [boot[c] EXCEPT !.binary = ResolveBinary(c),
                      !.at = IF ResolveBinary(c) = Missing THEN "fetch" ELSE "compat"]
    BY <1>7 DEF Resolve, BootstrapTypeOK
  <2>2. QED BY <1>2, <2>1 DEF At, Running
<1>8. CASE InstallRelease(c)
  <2>1. CASE boot' = [boot EXCEPT ![c].binary = "managed",
                        ![c].at = IF boot[c].binary = Missing THEN "compat" ELSE "probe"]
    <3>1. boot'[c] = [boot[c] EXCEPT !.binary = "managed",
                        !.at = IF boot[c].binary = Missing THEN "compat" ELSE "probe"]
      BY <2>1 DEF BootstrapTypeOK
    <3>2. QED BY <1>2, <3>1 DEF At, Running
  <2>2. QED BY <1>3, <1>4, <1>8, <2>1 DEF InstallRelease
<1>9. CASE CompatibilityCheck(c) \/ Settle(c) \/ VersionProbe(c) \/ Own(c)
  <2>1. Finish(c, FALSE) \/ \E p \in Place \ {"tools", "run"} : To(c, p)
    BY <1>9 DEF CompatibilityCheck, Settle, VersionProbe, Own, MayFail, Place
  <2>2. QED BY <1>4, <1>6, <2>1
<1>10. ASSUME Provided(c), venv'[boot[c].dest] = "ready"
       PROVE  ~At(c, "idle")' => /\ boot'[c].op = boot[c].op /\ boot'[c].mode = boot[c].mode
                                 /\ boot'[c].dest = boot[c].dest
  <2>1. \E p \in Place : To(c, p)
    BY <1>3, <1>10 DEF Provided, Place
  <2>2. QED BY <1>2, <1>5, <2>1 DEF Running
<1>11. CASE ProvisionVenv(c)
  <2>1. \/ venv'[boot[c].dest] = "ready" /\ Provided(c)
        \/ Finish(c, FALSE) \/ To(c, "pip") \/ To(c, "create")
    BY <1>11 DEF ProvisionVenv
  <2>2. QED BY <1>4, <1>6, <1>10, <2>1 DEF Place
<1>12. CASE CreateVenv(c)
  <2>1. Finish(c, FALSE) \/ To(c, "pip")
    BY <1>12 DEF CreateVenv
  <2>2. QED BY <1>4, <1>6, <2>1 DEF Place
<1>13. CASE PipInstall(c)
  <2>1. Finish(c, FALSE) \/ (Provided(c) /\ venv'[boot[c].dest] = "ready")
    BY <1>2, <1>13 DEF PipInstall, BootstrapTypeOK
  <2>2. QED BY <1>4, <1>10, <2>1
<1>14. CASE Conclude(c)
  <2>1. venv' = venv /\ venv[boot[c].dest] = "ready" /\ \E ok \in BOOLEAN : Finish(c, ok)
    BY <1>14 DEF Conclude, At
  <2>2. At(c, "idle")'
    BY <2>1 DEF Finish, At, BootstrapTypeOK
  <2>3. QED BY <2>1, <2>2
<1>15. QED BY <1>7, <1>8, <1>9, <1>11, <1>12, <1>13, <1>14 DEF BootstrapStep

LEMMA BootingKeeps ==
  ASSUME IInv, NEW c \in Caller, Booting(c)
  PROVE  IInv'
<1>1. BootstrapStep(c) /\ UNCHANGED <<call, step, pos, code, temp, tree, made, spent>>
  BY DEF Booting, drivers
<1>2. BootstrapTypeOK /\ BootstrapTypeOK'
  BY <1>1, StepTyped DEF IInv, TypeOK
<1>3. TypeOK' /\ Authored'
  BY <1>1, <1>2 DEF IInv, TypeOK, Authored, Present
<1>4. ASSUME NEW d \in Driver PROVE Inv(d)'
  <2> DEFINE x == call[d].dest
  <2>1. x \in Dest /\ d \in Caller
    BY Row DEF IInv
  <2>2. venv[x] = "ready" => venv'[x] = "ready"
    BY <1>1, <1>2, <2>1, ReadyStays
  <2>3. Same(d) /\ Undisturbed(d)
    BY <1>1, <2>2 DEF Same, Undisturbed
  <2>4. CASE d # c
    <3>1. boot'[d] = boot[d]
      BY <1>1, <1>2, <2>1, <2>4, OthersStay
    <3>2. QED BY <2>3, <3>1, Frame DEF IInv
  <2>5. CASE d = c
    <3>1. Steps(d)' = Steps(d) /\ Upcoming(d)' = Upcoming(d) /\ Inv(d)
      BY <1>1 DEF Steps, Upcoming, IInv
    <3>2. Waiting(d)' /\ Coded(d)' /\ Files(d)' /\ Works(d)' /\ Whole(d)'
      BY <1>1, <2>2, <3>1 DEF Inv, Waiting, Coded, Files, Left, Works, Whole
    <3>3. ~At(d, "idle")
      BY <1>1, <2>5 DEF BootstrapStep, Resolve, InstallRelease, CompatibilityCheck, Settle,
             VersionProbe, Own, ProvisionVenv, CreateVenv, PipInstall, Conclude, At
    <3>4. Assured(d)'
      <4>1. SUFFICES ASSUME step[d] = "recipe" PROVE Assured(d)'
        BY <1>1 DEF Assured
      <4>2. /\ pos[d] < Len(Steps(d)) /\ Upcoming(d) \in Bootstrapped
            /\ boot[d].op = Upcoming(d) /\ boot[d].mode = "install" /\ boot[d].dest = x
            /\ At(d, "tools") \/ At(d, "run") => venv[x] = "ready"
        BY <3>1, <3>3, <4>1 DEF Inv, Assured
      <4>3. /\ ~At(d, "idle")' => /\ boot'[d].op = boot[d].op /\ boot'[d].mode = boot[d].mode
                                  /\ boot'[d].dest = boot[d].dest
            /\ At(d, "tools")' \/ At(d, "run")' \/ (At(d, "idle")' /\ boot'[d].ok)
                 => venv'[boot[d].dest] = "ready"
        BY <1>1, <1>2, <2>1, <2>5, <4>2, BootAssures
      <4>4. QED BY <1>1, <3>1, <4>2, <4>3 DEF Assured
    <3>5. QED BY <3>2, <3>4 DEF Inv
  <2>6. QED BY <2>4, <2>5
<1>5. QED BY <1>3, <1>4 DEF IInv

LEMMA KillKeeps ==
  ASSUME IInv, NEW e \in Driver, Kill(e)
  PROVE  IInv'
<1>1. /\ step' = [step EXCEPT ![e] = "killed"] /\ pos' = [pos EXCEPT ![e] = 0]
      /\ step[e] \notin {"idle", "ended", "killed"} /\ Finish(e, FALSE)
      /\ UNCHANGED <<managed, venv, call, code, temp, tree, made>>
      /\ spent' = [spent EXCEPT !["kill"] = @ + 1]
  BY DEF Kill, Spend
<1>2. boot' \in [Caller -> Ended \cup Running]
  BY <1>1, Row, FinishTyped DEF IInv, TypeOK
<1>3. TypeOK' /\ Authored'
  BY <1>1, <1>2 DEF IInv, TypeOK, BootstrapTypeOK, Authored, Present, Step, Pipeline
<1>4. ASSUME NEW d \in Driver, d # e PROVE Inv(d)'
  <2>1. "killed" \in Step /\ 0 \in Nat
    BY DEF Step
  <2>2. Same(d)
    BY <1>1, <1>4, <2>1, OtherDriver DEF IInv
  <2>3. boot'[d] = boot[d] /\ Undisturbed(d)
    BY <1>1, <1>4, Row DEF Finish, IInv, TypeOK, BootstrapTypeOK, Undisturbed
  <2>4. QED BY <1>4, <2>2, <2>3, Frame DEF IInv
<1>5. Inv(e)'
  <2>1. step'[e] = "killed" /\ Steps(e)' = Steps(e)
    BY <1>1 DEF IInv, TypeOK, Steps
  <2>2. Inv(e)
    BY DEF IInv
  <2>3. QED
    BY <1>1, <2>1, <2>2
    DEF Inv, Waiting, Coded, Files, Works, Assured, Whole, Early, Working
<1>6. QED BY <1>3, <1>4, <1>5 DEF IInv

LEMMA CallByHandKeeps ==
  ASSUME IInv, NEW x \in Dest, CallByHand(x)
  PROVE  IInv'
<1>1. PICK r \in Retries : Begin(Person, r[1], r[2], r[3], x)
  BY DEF CallByHand
<1>2. /\ UNCHANGED <<call, step, pos, code, temp, tree, made>>
      /\ spent' = [spent EXCEPT !["call"] = @ + 1]
  BY DEF CallByHand, Spend, drivers
<1>3. r[1] \in Op /\ r[2] \in Mode /\ r[3] \in BOOLEAN /\ Person \in Caller
  BY GenerationAssumption
<1>4. BootstrapTypeOK'
  BY <1>1, <1>3, BeginTyped DEF IInv, TypeOK
<1>5. TypeOK' /\ Authored'
  BY <1>2, <1>4 DEF IInv, TypeOK, Authored, Present
<1>6. ASSUME NEW d \in Driver PROVE Inv(d)'
  <2>1. boot'[d] = boot[d] /\ venv' = venv
    BY <1>1, <1>3, GenerationAssumption DEF Begin, IInv, TypeOK, BootstrapTypeOK
  <2>2. Same(d) /\ Undisturbed(d)
    BY <1>2, <2>1 DEF Same, Undisturbed
  <2>3. QED BY <2>1, <2>2, Frame DEF IInv
<1>7. QED BY <1>5, <1>6 DEF IInv

\* Nobody removes a directory in which a driver works.
LEMMA RemoveDestKeeps ==
  ASSUME IInv, NEW x \in Dest, RemoveDest(x)
  PROVE  IInv'
<1>1. /\ tree' = [tree EXCEPT ![x] = NoTree] /\ venv' = [venv EXCEPT ![x] = "absent"]
      /\ UNCHANGED <<managed, boot, call, step, pos, code, temp, made>>
      /\ spent' = [spent EXCEPT !["removal"] = @ + 1]
      /\ \A d \in Driver : call[d].dest = x => step[d] \notin Working
  BY DEF RemoveDest, Spend, drivers, AtWork, Working
<1>2. TypeOK'
  BY <1>1 DEF IInv, TypeOK, BootstrapTypeOK
<1>3. Authored'
  BY <1>1 DEF IInv, TypeOK, Authored, Present
<1>4. ASSUME NEW d \in Driver PROVE Inv(d)'
  <2>1. Same(d) /\ boot'[d] = boot[d]
    BY <1>1 DEF Same
  <2>2. CASE call[d].dest = x
    <3>1. tree'[x] = NoTree /\ NoTree.maker = Missing
      BY <1>1 DEF IInv, TypeOK, NoTree
    <3>2. tree'[x].maker # d
      BY <3>1, GenerationAssumption
    <3>3. Undisturbed(d)
      BY <1>1, <2>2, <3>2 DEF Undisturbed
    <3>4. QED BY <2>1, <3>3, Frame DEF IInv
  <2>3. CASE call[d].dest # x
    <3>1. Undisturbed(d)
      BY <1>1, <2>3, Row DEF Undisturbed, IInv, TypeOK, BootstrapTypeOK
    <3>2. QED BY <2>1, <3>1, Frame DEF IInv
  <2>4. QED BY <2>2, <2>3
<1>5. QED BY <1>2, <1>3, <1>4 DEF IInv

LEMMA ElsewhereKeeps ==
  ASSUME IInv, Elsewhere
  PROVE  IInv'
<1>1. /\ managed' \in Version /\ UNCHANGED <<venv, boot, call, step, pos, code, temp, tree, made>>
      /\ spent' = [spent EXCEPT !["elsewhere"] = @ + 1]
  BY DEF Elsewhere, Spend, drivers
<1>2. TypeOK' /\ Authored'
  BY <1>1 DEF IInv, TypeOK, BootstrapTypeOK, Authored, Present
<1>3. ASSUME NEW d \in Driver PROVE Inv(d)'
  BY <1>1, Frame DEF IInv, Same, Undisturbed
<1>4. QED BY <1>2, <1>3 DEF IInv

-----------------------------------------------------------------------------
(* The theorems                                                            *)

LEMMA InitInv == Init => IInv
<1> SUFFICES ASSUME Init PROVE IInv
  OBVIOUS
<1>1. TypeOK
  BY DEF Init, BootstrapInit, TypeOK, BootstrapTypeOK, Ended, Step, Code, Pipeline
<1>2. Authored
  BY DEF Init, Authored, Present
<1>3. ASSUME NEW d \in Driver PROVE Inv(d)
  <2>1. step[d] = "idle" /\ pos[d] = 0 /\ code[d] = "none" /\ temp[d] = {} /\ made = {}
    BY DEF Init
  <2>2. QED BY <2>1 DEF Inv, Waiting, Coded, Files, Works, Assured, Whole, Early, Working
<1>4. QED BY <1>1, <1>2, <1>3 DEF IInv

LEMMA NextInv == IInv /\ [Next]_vars => IInv'
<1> SUFFICES ASSUME IInv, [Next]_vars PROVE IInv'
  OBVIOUS
<1>1. ASSUME NEW e \in Driver, Driving(e) PROVE IInv'
  <2>1. CASE WriteFile(e, "values", Values, "answers")
    BY <2>1, WriteFileKeeps DEF TempFile, Step
  <2>2. CASE WriteFile(e, "answers", Composed, "mkdir")
    BY <2>2, WriteFileKeeps DEF TempFile, Step
  <2>3. QED
    BY <1>1, <2>1, <2>2, StartKeeps, WizardKeeps, CheckKeeps, MakeDestKeeps, CommandKeeps,
       StartRecipeKeeps, EndRecipeKeeps, SucceedKeeps, EndKeeps DEF Driving
<1>2. ASSUME NEW e \in Driver, Kill(e) PROVE IInv'
  BY <1>2, KillKeeps
<1>3. ASSUME NEW c \in Caller, Booting(c) PROVE IInv'
  BY <1>3, BootingKeeps
<1>4. ASSUME NEW x \in Dest, CallByHand(x) \/ RemoveDest(x) PROVE IInv'
  BY <1>4, CallByHandKeeps, RemoveDestKeeps
<1>5. CASE Elsewhere
  BY <1>5, ElsewhereKeeps
<1>6. CASE UNCHANGED vars
  <2>1. UNCHANGED <<managed, venv, boot, call, step, pos, code, temp, tree, made, spent>>
    BY <1>6 DEF vars, bootVars, drivers
  <2>2. TypeOK' /\ Authored'
    BY <2>1 DEF IInv, TypeOK, BootstrapTypeOK, Authored, Present
  <2>3. \A d \in Driver : Inv(d)'
    BY <2>1, Frame DEF IInv, Same, Undisturbed
  <2>4. QED BY <2>2, <2>3 DEF IInv
<1>7. QED BY <1>1, <1>2, <1>3, <1>4, <1>5, <1>6 DEF Next

THEOREM Invariant == Spec => []IInv
<1>1. QED BY InitInv, NextInv, PTL DEF Spec

\* The variables stay within their types (TypeOK of Generation).
THEOREM TypesHold == Spec => []TypeOK
<1>1. IInv => TypeOK
  BY DEF IInv
<1>2. QED BY Invariant, <1>1, PTL

\* A project is the work of the driver that created its directory, and a driver that
\* denies having created one created none (mkdir and the failures of new_project.py).
THEOREM DestinationIsOwn == Spec => []OwnDestination
<1>1. IInv => OwnDestination
  <2> SUFFICES ASSUME IInv PROVE OwnDestination
    OBVIOUS
  <2>1. \A x \in Dest : Present(x) => tree[x].writers \subseteq {tree[x].maker}
    BY DEF IInv, Authored
  <2>2. ASSUME NEW d \in made PROVE code[d] \notin Uncreated \cup {"GEN.DEST_CONFLICT"}
    <3>1. d \in Driver
      BY DEF IInv, TypeOK
    <3>2. Coded(d)
      BY <3>1 DEF IInv, Inv
    <3>3. QED BY <3>2 DEF Coded
  <2>3. QED BY <2>1, <2>2 DEF OwnDestination
<1>2. QED BY Invariant, <1>1, PTL

\* A driver that reports success created the directory, every step of its pipeline
\* succeeded there in order, and the environment has sc-lint (generate, run_recipes
\* and provision_venv).
THEOREM SuccessIsWhole == Spec => []FinishedIsWhole
<1>1. IInv => FinishedIsWhole
  BY DEF IInv, Inv, Coded, Whole, FinishedIsWhole
<1>2. QED BY Invariant, <1>1, PTL

\* A driver that ends leaves no temporary file but those of a failed write (the
\* finally blocks of new_project.py and run_wizard.py).
THEOREM EndIsClean == Spec => []EndsClean
<1>1. IInv => EndsClean
  <2> SUFFICES ASSUME IInv, NEW d \in Driver, step[d] = "ended", temp[d] # {}
              PROVE  /\ d \notin made
                     /\ \/ temp[d] = {Merged} /\ code[d] = "GEN.SCHEMA_INVALID"
                        \/ temp[d] \subseteq {Values, Composed} /\ code[d] = "GEN.STEP_FAILED"
    BY DEF EndsClean
  <2>1. Acquired \notin temp[d] /\ Left(d) /\ d \notin made
    BY DEF IInv, Inv, Files
  <2>2. QED BY <2>1 DEF Left
<1>2. QED BY Invariant, <1>1, PTL
=============================================================================
