--------------------------- MODULE MCReleaseChannels --------------------------
(* What ReleaseChannels concludes, over small contracts, inventories, results
   and assets. *)
EXTENDS ReleaseChannels

Keys == {"ownership", "release_metadata", "immutable_releases"}
Contract(stage, secrets, env, liveness) ==
    [stage |-> stage, secrets |-> secrets, liveness |-> liveness,
     environmentSecrets |-> {[environment |-> e, name |-> "token"] : e \in env},
     environments |-> env, registry |-> env # {}, permissions |-> stage = "root"]
Contracts == [crates_io      |-> Contract("root", {"s1"}, {}, <<"s1">>),
              github_release |-> Contract("root", {}, {}, << >>),
              homebrew       |-> Contract("post_release", {"s2"}, {}, <<"s2">>),
              npm            |-> Contract("post_release", {}, {"e1"}, << >>)]
Tried(manifest, present, alive, step) ==
    LET plan == SecretPlan(manifest, Contracts)
    IN  [each |-> [repository_secret_channels   |-> SecretOutcomes(plan, Contracts, present),
                   credential_liveness_channels |-> LivenessOutcomes(plan, Contracts, alive)],
         step |-> step]

\* With one credential for each channel, a channel passes the preflight just when
\* everything that its contract names was looked at and found: no check of one
\* channel stands in for another's, and none is left out of the plan.
ASSUME PreflightIsEarned ==
    \A manifest \in [crates : BOOLEAN, channels : SUBSET {"homebrew", "npm"}],
       present \in SUBSET {"s1", "s2"}, alive \in SUBSET {"s1", "s2"},
       environment \in {"success", "failure", "skipped"},
       authorized \in {"success", "cancelled"} :
        LET step == [k \in Keys \cup {"environment_secrets", "registry_state",
                                     "github_release_permissions"} |->
                        IF k = "environment_secrets" THEN environment
                        ELSE IF k = "ownership" THEN authorized ELSE "success"]
            outcomes == Tried(manifest, present, alive, step)
        IN  /\ KnownChannels(manifest, Contracts)
            /\ \A c \in PlannedChannels(manifest) :
                ChannelPreflight(c, Contracts[c], outcomes) = "passed" <=>
                    /\ authorized = "success"
                    /\ Contracts[c].secrets \subseteq present \cap alive
                    /\ Contracts[c].environmentSecrets # {} => environment = "success"

\* A release that is reported absent is in no page of a complete inventory, and
\* what follows a release starts only from one that is immutable.
Releases == [tag : {"t", "other"}, draft : BOOLEAN, immutable : BOOLEAN]
ASSUME AbsenceIsSeen ==
    \A inventory \in SeqOf(Releases, 3), finalized \in BOOLEAN, readable \in 0 .. 2 :
        LET state == ReleaseState(inventory, "t", finalized, 2, 2, readable)
            tagged == SelectSeq(inventory, LAMBDA r : r.tag = "t")
        IN  /\ state = "absent" => tagged = << >> /\ Len(inventory) < 2 * readable
            /\ state = "immutable" => tagged[1].immutable /\ ~tagged[1].draft
            /\ finalized => state \in {"immutable", Refused}

\* npm goes on to the next archive only when the registry holds the bytes of
\* every earlier one, and ends well only when it holds them all.
ASSUME ArchivesAreReleased ==
    \A before, after \in [1 .. 2 -> {Nothing, "b", "foreign"}], reported \in [1 .. 2 -> BOOLEAN] :
        LET outcomes == PublishArchives(<<"b", "b">>, before, reported, after)
            held(i) == before[i] = "b" \/ (before[i] = Nothing /\ (reported[i] \/ after[i] = "b"))
        IN  /\ \A i \in 1 .. Len(outcomes) - 1 : held(i)
            /\ Refused \notin Range(outcomes) <=> held(1) /\ held(2)

\* The report passes just when each expected channel's worker sent, in its place,
\* a valid result that passed, and there is nothing else; and it names every
\* expected channel in its place, whatever the workers sent.
Results == [channel : {"c1", "c2"}, status : {"passed", "failed", "taken"}, exit : {0, 1},
            attempts : {1}, checks : {{}, {"passed"}, {"passed", "failed"}},
            outstanding : BOOLEAN, error : BOOLEAN, message : {TRUE}, diagnostic : {FALSE}]
Sent == {NoResult} \cup {r \in Results : r.status = "passed" \/ ~r.outstanding}
ASSUME ReportIsExact ==
    \A results \in {<< >>} \cup {<<r>> : r \in Sent}
                     \cup {<<r, s>> : r \in Sent, s \in {t \in Sent : t = NoResult \/ t.exit = 0}} :
        \A expected \in {<<"c1">>, <<"c1", "c2">>} :
            LET report == AggregateResults(results, expected)
            IN  /\ \A i \in DOMAIN expected : report[i].channel = expected[i]
                /\ \A i \in DOMAIN report : ValidResult(report[i])
                /\ ReportPasses(results, expected) <=>
                    /\ Len(results) = Len(expected)
                    /\ \A i \in DOMAIN expected :
                        /\ results[i].channel = expected[i] /\ results[i].status = "passed"
                        /\ results[i].exit = 0 /\ results[i].checks = {"passed"}
                        /\ ~results[i].outstanding /\ ~results[i].error

\* A tag gets every formula of its track and no other, in files of their own.
Formulas == [path : {1, 2}, binaries : {<<"b">>, <<"b", "b">>}, test : {"b"},
             track : {"stable", "prerelease"}]
ASSUME FormulasAreOfTheTrack ==
    \A formulas \in SeqOf(Formulas, 2), prerelease \in BOOLEAN :
        LET selected == FormulasForTag(formulas, {"b"}, prerelease)
            track == IF prerelease THEN "prerelease" ELSE "stable"
        IN  selected # Refused =>
                /\ Range(selected) = {f \in Range(formulas) : f.track = track}
                /\ IsInjective([i \in DOMAIN selected |-> selected[i].path])

\* The wheels of a distribution that names its platforms are verified just when
\* each platform has its file; one that mixes platforms and runner labels, which
\* validate-manifest accepts, is never verified.
Wheels == [id : 1 .. 2, platform : {Nothing, "p1", "p2"}]
ASSUME WheelsCoverPlatforms ==
    \A wheels \in SeqOf(Wheels, 2), tags \in SeqOf({{"p1"}, {"p2"}, {"any"}}, 2) :
        LET d == [name |-> "d", cargo |-> TRUE, build |-> Nothing, sdist |-> FALSE,
                  wheels |-> wheels]
            verified == VerifyPythonAssets({d}, [n \in {"d"} |-> tags], [n \in {"d"} |-> 0])
        IN  ValidWheels(d) =>
                IF \E i \in DOMAIN wheels : wheels[i].platform = Nothing
                THEN verified => Platforms(d) = {}
                ELSE verified <=> /\ Len(tags) = Len(wheels)
                                  /\ {{p} : p \in Platforms(d)} = Range(tags)
=============================================================================
