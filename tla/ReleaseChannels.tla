---------------------------- MODULE ReleaseChannels ----------------------------
(***************************************************************************)
(* What the release scripts conclude about the channels of a release: the  *)
(* preflight's plan of secrets and its result for each channel, the state  *)
(* of the GitHub release and of the registries, the results of the         *)
(* channels' workers and their report, and the formulas and assets that a  *)
(* channel takes. All of it is pure; a refusal (SystemExit or an           *)
(* exception) is the value Refused or a formula that is false.             *)
(*                                                                         *)
(* The contracts (publish-channel-contracts.toml) map a channel to a       *)
(* record: its stage, the secrets of the repository and of protected       *)
(* environments, the environments it runs in, the sequence of credentials  *)
(* to try, and whether it needs the registry check and permissions.        *)
(***************************************************************************)
EXTENDS Integers, SequencesExt, FiniteSetsExt

Refused == "refused"
Nothing == "nothing"

-----------------------------------------------------------------------------
(* The preflight *)

\* _root_channel_preflight, _channel_names: the root channels come from what the
\* manifest publishes, the others from its tables, which the contracts must know
\* as post_release channels.
RootChannels(manifest) ==
    {"github_release"} \cup (IF manifest.crates THEN {"crates_io"} ELSE {})

KnownChannels(manifest, contracts) ==
    \A c \in manifest.channels : c \in DOMAIN contracts /\ contracts[c].stage = "post_release"

PlannedChannels(manifest) == RootChannels(manifest) \cup manifest.channels

\* cmd_preflight_secret_plan
SecretPlan(manifest, contracts) ==
    LET planned == PlannedChannels(manifest)
        environmentSecrets == UNION {contracts[c].environmentSecrets : c \in planned}
    IN  [secrets            |-> {c \in planned : contracts[c].secrets # {}},
         liveness           |-> {c \in planned : contracts[c].liveness # << >>},
         environmentSecrets |-> environmentSecrets,
         environments       |->
            UNION {contracts[c].environments :
                   c \in {"crates_io", "github_release"} \cup manifest.channels}
                \cup {s.environment : s \in environmentSecrets}]

\* release-preflight.yml: a step reports one outcome for each channel of the plan
\* and fails with any of them. Of several credentials the last one counts for
\* the channel.
SecretOutcomes(plan, contracts, present) ==
    [c \in plan.secrets |-> IF contracts[c].secrets \subseteq present THEN "success" ELSE "failure"]

LivenessOutcomes(plan, contracts, alive) ==
    [c \in plan.liveness |-> IF Last(contracts[c].liveness) \in alive THEN "success" ELSE "failure"]

\* _preflight_outcome_status
PreflightStatus(outcome) ==
    CASE outcome = "success"                  -> "passed"
      [] outcome \in {"failure", "cancelled"} -> "failed"
      [] OTHER                                -> "blocked"

\* _channel_outcome: the channel's own outcome where a step reports one for each
\* channel, the step's where it reports only that, and otherwise the fallback's.
ChannelOutcome(outcomes, key, fallback, channel) ==
    IF key \in DOMAIN outcomes.each THEN
        IF channel \in DOMAIN outcomes.each[key] THEN outcomes.each[key][channel] ELSE Nothing
    ELSE IF key \in DOMAIN outcomes.step THEN outcomes.step[key]
    ELSE IF fallback \in DOMAIN outcomes.step THEN outcomes.step[fallback]
    ELSE Nothing

StepOutcome(outcomes, key) == IF key \in DOMAIN outcomes.step THEN outcomes.step[key] ELSE Nothing

\* _channel_preflight_result: three checks for every channel, and one for each
\* kind of requirement that the channel has.
Needs(contract) ==
    {n \in {[of |-> contract.secrets # {}, key |-> "repository_secret_channels",
                fallback |-> "repository_secrets"],
            [of |-> contract.environmentSecrets # {}, key |-> "environment_secrets",
                fallback |-> Nothing],
            [of |-> contract.liveness # << >>, key |-> "credential_liveness_channels",
                fallback |-> "credential_liveness"],
            [of |-> contract.permissions, key |-> "github_release_permissions",
                fallback |-> Nothing],
            [of |-> contract.registry, key |-> "registry_state", fallback |-> Nothing]} : n.of}

ChannelPreflight(channel, contract, outcomes) ==
    LET checks == {PreflightStatus(StepOutcome(outcomes, k)) :
                        k \in {"ownership", "release_metadata", "immutable_releases"}}
                  \cup {PreflightStatus(ChannelOutcome(outcomes, n.key, n.fallback, channel)) :
                        n \in Needs(contract)}
    IN  CASE "failed" \in checks  -> "failed"
          [] "blocked" \in checks -> "blocked"
          [] OTHER                -> "passed"

-----------------------------------------------------------------------------
(* The state of what is published *)

\* release_immutability.check, with pages pages of at most size releases: the
\* first release of the tag decides. An inventory that does not end within
\* the pages, or a page that cannot be read, is no absence.
ReleaseState(inventory, tag, finalized, size, pages, readable) ==
    LET found == {i \in DOMAIN inventory : inventory[i].tag = tag}
        page(i) == 1 + (i - 1) \div size
        last == IF found = {} THEN page(Len(inventory) + 1) ELSE page(Min(found))
    IN  IF last > pages \/ last > readable THEN Refused
        ELSE IF found = {} THEN IF finalized THEN Refused ELSE "absent"
        ELSE LET release == inventory[Min(found)]
             IN  CASE release.draft -> IF finalized THEN Refused ELSE "draft"
                   [] ~release.draft /\ release.immutable -> "immutable"
                   [] OTHER -> Refused

\* registry_version_state; 0 stands for a lookup without an answer.
RegistryVersionState(status) ==
    CASE status = 200 -> "published" [] status = 404 -> "absent" [] OTHER -> Refused

\* release_credentials.probe: crates.io answers a token that it knows with a
\* refusal of its own.
CredentialEstablished(kind, status, body) ==
    /\ kind \in {"github", "crates_io"}
    /\ \/ status = 200 /\ body = "identity"
       \/ kind = "crates_io" /\ status = 403 /\ body = "cookie only"

\* npm_release.publish, for the archives of a release in order, with what the
\* registry holds of each before and, for a publication that npm reports as
\* failed, what it holds after it. It stops at the first refusal.
ArchiveOutcome(bytes, before, reported, after) ==
    CASE before = bytes -> "already"
      [] before \notin {bytes, Nothing} -> Refused
      [] reported -> "published"
      [] ~reported /\ after = bytes -> "published"
      [] OTHER -> Refused

PublishArchives(archives, before, reported, after) ==
    FoldLeftDomain(LAMBDA done, i :
        IF Refused \in Range(done) THEN done
        ELSE Append(done, ArchiveOutcome(archives[i], before[i], reported[i], after[i])),
        << >>, archives)

-----------------------------------------------------------------------------
(* The results of the channels' workers (worker_result.py) *)

Statuses == {"passed", "failed", "blocked", "apparently_available", "taken", "indeterminate"}

\* validate_result. error and diagnostic say whether there is one of substance.
ValidResult(result) ==
    /\ result.status \in Statuses
    /\ result.attempts >= 1
    /\ result.checks \subseteq {"passed", "failed", "blocked"}
    /\ result.status = "passed" =>
        /\ result.exit = 0
        /\ result.checks = {"passed"}
        /\ ~result.outstanding
        /\ ~result.error
    /\ result.status \notin {"passed", "apparently_available", "taken"} =>
        result.error /\ (result.message \/ result.diagnostic)

ContractFailure(channel) ==
    [channel |-> channel, status |-> "failed", exit |-> -1, attempts |-> 1,
     checks |-> {"failed"}, outstanding |-> FALSE, error |-> TRUE, message |-> TRUE,
     diagnostic |-> TRUE]

\* aggregate_results: by position; a missing, malformed, foreign or surplus result
\* is a failure of its own.
Accepted(result, channel) == ValidResult(result) /\ result.channel = channel

\* In the place of a worker that sent nothing.
NoResult == [ContractFailure(Nothing) EXCEPT !.status = Nothing]

AggregateResults(results, expected) ==
    [i \in 1 .. Max({Len(results), Len(expected)}) |->
        IF i > Len(expected) THEN ContractFailure("unexpected")
        ELSE IF i <= Len(results) /\ Accepted(results[i], expected[i]) THEN results[i]
        ELSE ContractFailure(expected[i])]

\* main
ReportPasses(results, expected) ==
    \A i \in DOMAIN AggregateResults(results, expected) :
        AggregateResults(results, expected)[i].status = "passed"

-----------------------------------------------------------------------------
(* Homebrew *)

\* _validate_homebrew_formulas: a formula is [path, binaries, test, track].
ValidFormulas(formulas, binaries) ==
    /\ formulas # << >>
    /\ \A i \in DOMAIN formulas :
        /\ formulas[i].binaries # << >>
        /\ IsInjective(formulas[i].binaries)
        /\ Range(formulas[i].binaries) \subseteq binaries
        /\ formulas[i].test \in Range(formulas[i].binaries)
        /\ formulas[i].track \in {"stable", "prerelease"}
    /\ IsInjective([i \in DOMAIN formulas |-> formulas[i].path])

\* _homebrew_formulas_for_tag
FormulasForTag(formulas, binaries, prerelease) ==
    LET track == IF prerelease THEN "prerelease" ELSE "stable"
        selected == SelectSeq(formulas, LAMBDA f : f.track = track)
    IN  IF ValidFormulas(formulas, binaries) /\ selected # << >> THEN selected ELSE Refused

-----------------------------------------------------------------------------
(* Python distributions: [name, cargo, build, sdist, wheels], a wheel being  *)
(* [id, platform] with the platform Nothing for a runner's label.            *)

\* _python_distribution_build_system
BuildSystem(distribution) ==
    IF distribution.cargo THEN IF distribution.build = Nothing THEN "maturin" ELSE Refused
    ELSE IF distribution.build \in {"maturin", "setuptools"} THEN distribution.build ELSE Refused

\* manifest_python_upload_tool
UploadTool(distributions) ==
    CASE distributions = {} -> Nothing
      [] \E d \in distributions : BuildSystem(d) = "maturin" -> "maturin"
      [] OTHER -> "twine"

Platforms(distribution) == {w.platform : w \in Range(distribution.wheels)} \ {Nothing}

\* wheel_targets
ValidWheels(distribution) ==
    LET explicit == SelectSeq(distribution.wheels, LAMBDA w : w.platform # Nothing)
    IN  /\ IsInjective([i \in DOMAIN distribution.wheels |-> distribution.wheels[i].id])
        /\ IsInjective([i \in DOMAIN explicit |-> explicit[i].platform])
        /\ explicit # << >> => distribution.build # "setuptools"

\* verify_platforms: each wheel's file is for one platform of its own.
VerifyPlatforms(distribution, tags) ==
    Platforms(distribution) # {} =>
        /\ \A i \in DOMAIN tags : Cardinality(tags[i] \cap Platforms(distribution)) = 1
        /\ \A i, j \in DOMAIN tags :
            i # j => tags[i] \cap tags[j] \cap Platforms(distribution) = {}
        /\ Platforms(distribution) \subseteq UNION Range(tags)

\* cmd_verify_python_release_assets, for the tags of the wheels and the number of
\* the source archives that the release has of each distribution.
VerifyPythonAssets(distributions, tags, sdists) ==
    \A d \in distributions :
        /\ Len(tags[d.name]) = Len(d.wheels)
        /\ sdists[d.name] = IF d.sdist THEN 1 ELSE 0
        /\ VerifyPlatforms(d, tags[d.name])
=============================================================================
