------------------------------- MODULE Release -------------------------------
(***************************************************************************)
(* The release of one version by the workflows release.yml (possibly run   *)
(* more than once, and at the same time), crates-publish.yml and           *)
(* npm-publish.yml, with main moving on, crates.io lagging, lost responses *)
(* and runs that die. The registries and GitHub are external.              *)
(*                                                                         *)
(* Commits of main are numbered; the candidate is a commit of it. The bytes*)
(* that a run builds are its own (archives are not reproducible): a build  *)
(* has a number that nothing else carries, and the commit it is from.      *)
(***************************************************************************)
EXTENDS ReleaseManifest

CONSTANTS Crate,      \* the crates, 1 .. n
          Deps,         \* their dependencies in the workspace
          Manifest,     \* the manifests the release may have
          Run,          \* the runs of release.yml at a time
          Retry,        \* the run of crates-publish.yml, one at a time
          Candidate,    \* the commit of the release-candidate tag
          MaxMain,      \* bound: the commits of main
          MaxFaults     \* bound: runs that die, lost responses, commits during a release

ASSUME ReleaseAssumption ==
    /\ Candidate \in 1 .. MaxMain
    /\ {MaxMain, MaxFaults} \subseteq Nat
    /\ IsFiniteSet(Crate) /\ Crate # {} /\ Crate \subseteq Nat
    /\ Deps \in [Crate -> SUBSET Crate]
    /\ Manifest \subseteq [Crate -> [order : Int, publish : BOOLEAN, verify : BOOLEAN]]

VARIABLES
    main,      \* the tip of main
    tag,       \* the commit of the release tag, 0 without a tag
    manifest,
    registry,  \* crates.io: of each crate what the API says, and the commit it is from
    github,    \* the GitHub release: its state and the builds of its files
    npm,       \* the build npm serves, 0 without
    gate,      \* the release runs before their jobs
    crates,    \* the jobs that publish the crates
    assets,    \* the jobs that publish the GitHub release
    faults,
    mixed,     \* observation: whether two runs wrote to the release at a time
    stirred    \* observation: whether main moved during the release

releaseVars == <<main, tag, manifest, registry, github, npm, gate, crates, assets, faults,
                 mixed, stirred>>
observed == <<mixed, stirred>>

File == {"npm", "sums"}
Build == 1 .. Cardinality(Run) + 3
NoBuild == [id |-> 0, from |-> 0]
Builds == [id : Build, from : 1 .. MaxMain] \cup {NoBuild}
NoGate == [pc |-> "idle", from |-> 0]

ReleaseTypeOK ==
    /\ main \in 0 .. MaxMain /\ tag \in 0 .. MaxMain
    /\ registry \in [Crate -> [state : {"absent", "uploaded", "visible"}, from : 0 .. MaxMain]]
    /\ github.state \in {"absent", "draft", "immutable"}
    /\ github.files \in [File -> Builds]
    /\ npm \in Builds
    /\ \A r \in Run : /\ gate[r].pc \in {"idle", "tag"}
                      /\ assets[r].pc \in {"idle", "probe", "upload"}
                      /\ assets[r].build \in Builds
    /\ \A j \in Run \cup {Retry} :
        /\ crates[j].pc \in {"idle", "lookup", "publish", "verify"}
        /\ crates[j].next \in 1 .. Cardinality(Crate)
    /\ faults \in 0 .. MaxFaults

NoCrates == [pc |-> "idle", from |-> 0, next |-> 1]
NoAssets == [pc |-> "idle", build |-> NoBuild, left |-> {}]

ReleaseInit ==
    /\ main \in 0 .. Candidate
    /\ tag = 0
    /\ manifest \in {m \in Manifest : ValidPublishOrder(m, Deps)}
    /\ registry = [c \in Crate |-> [state |-> "absent", from |-> 0]]
    /\ github = [state |-> "absent", files |-> [f \in File |-> NoBuild]]
    /\ npm = NoBuild
    /\ gate = [r \in Run |-> NoGate]
    /\ crates = [j \in Run \cup {Retry} |-> NoCrates]
    /\ assets = [r \in Run |-> NoAssets]
    /\ faults = 0
    /\ mixed = FALSE /\ stirred = FALSE

Fault == faults < MaxFaults /\ faults' = faults + 1

Resting(r) == gate[r].pc = "idle" /\ crates[r].pc = "idle" /\ assets[r].pc = "idle"

\* crates.io has what was uploaded. The API that the workflows ask shows it with a
\* lag; the index that cargo resolves dependencies from has a lag of its own, and
\* may be behind the API or ahead of it.
Out == {c \in Crate : registry[c].state # "absent"}
Visible == {c \in Crate : registry[c].state = "visible"}

-----------------------------------------------------------------------------
(* release.yml: gate-and-tag *)

\* release_gate.sh: the candidate is in main.
Descends(commit) == commit >= Candidate

\* The operator repeats what is not done yet: release.yml while there is no
\* release, with crates_io preserved once a crate is out, crates-publish.yml while crates are missing.
ReleaseWanted(preserved) == github.state # "immutable" /\ (preserved => Visible # {})
CratesWanted == Visible # Crate

\* A run is dispatched, with or without crates_io among the channels preserved
\* from an earlier run, and passes the gate.
Gate(r, preserved) ==
    /\ Resting(r)
    /\ ReleaseWanted(preserved)
    /\ Descends(main)
    /\ UnexpectedlyPublished(manifest, Visible, preserved) = {}
    /\ gate' = [gate EXCEPT ![r] = [pc |-> "tag", from |-> main, preserved |-> preserved]]
    /\ UNCHANGED <<main, tag, manifest, registry, github, npm, crates, assets, faults, observed>>

\* Where a new tag goes. (The mutant tags the candidate.)
CandidateTag(commit) == Candidate
NewTag(commit) == commit

\* A new build takes the first number that nothing carries.
NewBuild(commit) ==
    LET taken == {b.id : b \in {github.files[f] : f \in File} \cup {npm}
                               \cup {assets[r].build : r \in Run}}
    IN  [id |-> Min(Build \ taken), from |-> commit]

\* The tag is created at the gated commit, or one that is there already is
\* reused; either way the run builds and publishes the gated commit.
Tag(r) ==
    /\ gate[r].pc = "tag"
    /\ IF tag = 0 THEN tag' = NewTag(gate[r].from)
                  ELSE tag <= main /\ Descends(tag) /\ UNCHANGED tag
    /\ gate' = [gate EXCEPT ![r] = NoGate]
    /\ crates' = IF gate[r].preserved THEN crates
                 ELSE [crates EXCEPT ![r] = [pc |-> "lookup", from |-> gate[r].from, next |-> 1]]
    /\ assets' = [assets EXCEPT ![r] = [pc |-> "probe", left |-> {},
                                        build |-> NewBuild(gate[r].from)]]
    /\ UNCHANGED <<main, manifest, registry, github, npm, faults, observed>>

-----------------------------------------------------------------------------
(* Publish crates in order: of release.yml, and of crates-publish.yml *)

\* crates-publish.yml: needs a published release, and publishes its tag.
RetryCrates ==
    /\ crates[Retry].pc = "idle"
    /\ CratesWanted
    /\ github.state = "immutable"
    /\ crates' = [crates EXCEPT ![Retry] = [pc |-> "lookup", from |-> tag, next |-> 1]]
    /\ UNCHANGED <<main, tag, manifest, registry, github, npm, gate, assets, faults, observed>>

Current(j) == PublishPlan(manifest)[crates[j].next]

\* crates[j] after the current crate is done, or after a step with state pc.
Proceed(j) ==
    crates' = IF crates[j].next = Len(PublishPlan(manifest))
              THEN [crates EXCEPT ![j] = NoCrates]
              ELSE [crates EXCEPT ![j].pc = "lookup", ![j].next = @ + 1]
Continue(j, pc) == crates' = [crates EXCEPT ![j].pc = pc]
StopCrates(j) == crates' = [crates EXCEPT ![j] = NoCrates]

\* crate_exists: what the API shows is skipped.
LookUp(j) ==
    /\ crates[j].pc = "lookup"
    /\ IF Current(j) \in Visible THEN Proceed(j) ELSE Continue(j, "publish")
    /\ UNCHANGED <<main, tag, manifest, registry, github, npm, gate, assets, faults, observed>>

\* cargo publish, refused: a dependency is not in the index, which may be behind
\* whatever was uploaded; or the registry has the version.
CargoRefused(j) ==
    /\ crates[j].pc = "publish"
    /\ Deps[Current(j)] # {} \/ Current(j) \in Out
    /\ StopCrates(j)
    /\ UNCHANGED <<main, tag, manifest, registry, github, npm, gate, assets, faults, observed>>

\* cargo publish, with every dependency in the index: the registry takes a version
\* once; the response may be lost after that.
CargoPublish(j) ==
    /\ crates[j].pc = "publish"
    /\ Deps[Current(j)] \subseteq Out
    /\ Current(j) \notin Out
    /\ registry' = [registry EXCEPT ![Current(j)] = [state |-> "uploaded", from |-> crates[j].from]]
    /\ \/ Continue(j, "verify") /\ UNCHANGED faults
       \/ StopCrates(j) /\ Fault
    /\ UNCHANGED <<main, tag, manifest, github, npm, gate, assets, observed>>

\* Whether an upload must be seen before the next crate. (The mutant trusts the
\* wait.)
NeverVerified(c) == FALSE
MustBeSeen(c) == manifest[c].verify

\* After the wait: a crate that the API does not show stops the job. (The index is
\* not asked.)
VerifyVisible(j) ==
    /\ crates[j].pc = "verify"
    /\ IF MustBeSeen(Current(j)) /\ Current(j) \notin Visible
       THEN StopCrates(j) ELSE Proceed(j)
    /\ UNCHANGED <<main, tag, manifest, registry, github, npm, gate, assets, faults, observed>>

\* The API catches up.
CatchUp(c) ==
    /\ registry[c].state = "uploaded"
    /\ registry' = [registry EXCEPT ![c].state = "visible"]
    /\ UNCHANGED <<main, tag, manifest, github, npm, gate, crates, assets, faults, observed>>

-----------------------------------------------------------------------------
(* release.yml: the GitHub release *)

StopAssets(r) == assets' = [assets EXCEPT ![r] = NoAssets]

\* The files to upload to a draft. (The mutant keeps those that are there.)
MissingFiles == {f \in File : github.files[f] = NoBuild}
FilesToUpload == File

\* The rechecked release is complete, and the job done, or all is uploaded. (A
\* published release has every file.)
Probe(r) ==
    /\ assets[r].pc = "probe"
    /\ IF github.state = "immutable" THEN StopAssets(r)
       ELSE assets' = [assets EXCEPT ![r].pc = "upload", ![r].left = FilesToUpload]
    /\ UNCHANGED <<main, tag, manifest, registry, github, npm, gate, crates, faults, observed>>

\* One file goes into the draft, which the first one creates, over a file of the
\* same name; a published release takes no file.
Upload(r, f) ==
    /\ assets[r].pc = "upload"
    /\ f \in assets[r].left
    /\ IF github.state = "immutable" THEN
            StopAssets(r) /\ UNCHANGED <<github, mixed>>
       ELSE /\ github' = [state |-> "draft",
                          files |-> [github.files EXCEPT ![f] = assets[r].build]]
            /\ assets' = [assets EXCEPT ![r].left = @ \ {f}]
            /\ mixed' = (mixed \/ \E s \in Run \ {r} : assets[s].pc = "upload")
    /\ UNCHANGED <<main, tag, manifest, registry, npm, gate, crates, faults, stirred>>

\* The draft is published, and immutable from then on; release_immutability.py
\* --finalized sees it so.
Finalize(r) ==
    /\ assets[r].pc = "upload"
    /\ assets[r].left = {}
    /\ github' = [github EXCEPT !.state = "immutable"]
    /\ StopAssets(r)
    /\ UNCHANGED <<main, tag, manifest, registry, npm, gate, crates, faults, observed>>

-----------------------------------------------------------------------------
(* npm-publish.yml *)

\* What it publishes from.
Finalized(release) == release.state = "immutable"

\* npm_release.verify: the archive's bytes are those of checksums.txt.
Verified(release) == release.files["npm"] # NoBuild /\ release.files["npm"] = release.files["sums"]

\* publish: nothing that npm already serves is published again. A lost response
\* ends as well as an answer when npm serves these bytes.
NpmPublish ==
    /\ Finalized(github)
    /\ Verified(github)
    /\ npm = NoBuild
    /\ npm' = github.files["npm"]
    /\ UNCHANGED <<main, tag, manifest, registry, github, gate, crates, assets, faults, observed>>

-----------------------------------------------------------------------------

\* A run dies, or one of its jobs does.
Die ==
    /\ Fault
    /\ \/ \E r \in Run : /\ gate[r].pc # "idle"
                         /\ gate' = [gate EXCEPT ![r] = NoGate]
                         /\ UNCHANGED <<crates, assets>>
       \/ \E j \in Run \cup {Retry} : /\ crates[j].pc # "idle"
                                     /\ StopCrates(j)
                                     /\ UNCHANGED <<gate, assets>>
       \/ \E r \in Run : /\ assets[r].pc # "idle"
                         /\ StopAssets(r)
                         /\ UNCHANGED <<gate, crates>>
    /\ UNCHANGED <<main, tag, manifest, registry, github, npm, observed>>

\* A commit lands on main; one that lands during a release counts as a fault.
Underway == tag # 0 \/ \E r \in Run : ~Resting(r)
Push ==
    /\ main < MaxMain
    /\ main' = main + 1
    /\ IF Underway THEN Fault ELSE UNCHANGED faults
    /\ stirred' = (stirred \/ Underway)
    /\ UNCHANGED <<tag, manifest, registry, github, npm, gate, crates, assets, mixed>>

CratesStep(j) == LookUp(j) \/ CargoRefused(j) \/ CargoPublish(j) \/ VerifyVisible(j)
AssetsStep(r) == Probe(r) \/ Finalize(r) \/ \E f \in File : Upload(r, f)

ReleaseNext ==
    \/ \E r \in Run : \/ \E preserved \in BOOLEAN : Gate(r, preserved)
                      \/ Tag(r)
                      \/ AssetsStep(r)
    \/ \E j \in Run \cup {Retry} : CratesStep(j)
    \/ RetryCrates
    \/ \E c \in Crate : CatchUp(c)
    \/ NpmPublish
    \/ Die
    \/ Push

\* Work that can be done is done, by one run or another; the API catches up, main
\* takes the candidate, and the operator repeats what has not succeeded. The index
\* catches up too: of the jobs that come to cargo publish again and again, one is let
\* through.
Fairness ==
    /\ WF_releaseVars(main < Candidate /\ Push)
    /\ WF_releaseVars(\E r \in Run, preserved \in BOOLEAN : Gate(r, preserved))
    /\ WF_releaseVars(\E r \in Run : Tag(r))
    /\ WF_releaseVars(\E r \in Run : AssetsStep(r))
    /\ WF_releaseVars(\E j \in Run \cup {Retry} : CratesStep(j))
    /\ SF_releaseVars(\E j \in Run \cup {Retry} : CargoPublish(j))
    /\ WF_releaseVars(RetryCrates)
    /\ WF_releaseVars(\E c \in Crate : CatchUp(c))
    /\ WF_releaseVars(NpmPublish)

ReleaseSpec == ReleaseInit /\ [][ReleaseNext]_releaseVars /\ Fairness

-----------------------------------------------------------------------------
(* Properties *)

\* The published order: whichever runs publish the crates, and however far the API
\* and the index lag, together or one behind the other, a job comes to cargo publish
\* for a crate only when the API has shown every crate of the workspace that it needs.
\* What is left to refuse it is an index that is behind the API, which is not asked.
OrderIsSeen == \A j \in Run \cup {Retry} : crates[j].pc = "publish" => Deps[Current(j)] \subseteq Visible

\* What it rests on: no crate that another one needs is exempt from being published,
\* or from being seen before the next.
NeededAreSeen ==
    \A m \in Manifest : \A c \in Crate : \A d \in Deps[c] :
        m[c].publish /\ m[d].publish /\ m[d].verify

\* What a version consists of is of one commit, the tagged one, as long as main
\* stands still from the first gate on.
Sources ==
    {registry[c].from : c \in {d \in Crate : registry[d].state # "absent"}}
        \cup ({github.files[f].from : f \in File} \ {0})
OneSource == ~stirred /\ tag # 0 => Sources \subseteq {tag}

\* A release to which one run at a time wrote vouches for its files: the archive
\* and the checksums are of one build, however many runs died over the draft.
SerialDraftIsOneBuild ==
    github.state = "immutable" /\ ~mixed => github.files["npm"] = github.files["sums"]

\* npm serves only bytes of the published release that its checksums name, also
\* when two runs mixed their files in it.
NpmIsReleased ==
    npm # NoBuild => /\ github.state = "immutable"
               /\ npm = github.files["npm"]
               /\ npm = github.files["sums"]

\* What is published is of one build: the files of the release, and what npm serves.
PublishedIsOneBuild == SerialDraftIsOneBuild /\ NpmIsReleased

\* However the runs die, their responses are lost or cargo is refused by a late index,
\* the version gets out: by repeating the runs, without a new version. npm is exempt
\* when two runs wrote to the release at a time: npm-publish.yml then refuses an archive
\* that is not the one of the checksums.
VersionGetsOut ==
    <>(github.state = "immutable" /\ Visible = Crate /\ (npm # NoBuild \/ mixed))
=============================================================================
