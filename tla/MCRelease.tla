------------------------------ MODULE MCRelease ------------------------------
(* The instance of Release that TLC checks: a crate, and one that needs it and
   comes before it by name. *)
EXTENDS Release, MCReleaseChannels

\* As the Cargo manifests say it: crate 1 takes crate 2 from the workspace, which
\* renames nothing, and tests with itself.
Shared == [n \in {2} |-> [path |-> TRUE, package |-> 2]]
Tables(c) ==
    IF c = 1 THEN {[section |-> "normal", entries |-> [n \in {2} |-> [kind |-> "workspace"]]]}
    ELSE {[section |-> "dev", entries |-> [n \in {1} |-> [kind |-> "version"]]]}
MCDeps == [c \in {1, 2} |-> WorkspaceDependencyNames(Tables(c), {1, 2}, Shared)]

Entry(order) == [order |-> order, publish |-> TRUE, verify |-> TRUE]
MCManifest == {[c \in {1, 2} |-> Entry(orders[c])] : orders \in [{1, 2} -> 1 .. 2]}

\* The hypothesis of the proof of OrderIsSeen, of these manifests.
ASSUME NeededAreSeen

-----------------------------------------------------------------------------
(* The pure operators over all small inputs *)

Graphs == {d \in [1 .. 3 -> SUBSET (1 .. 3)] : \A c \in 1 .. 3 : c \notin d[c]}
Manifests == [1 .. 3 -> [order : 1 .. 3, publish : BOOLEAN, verify : {TRUE}]]

\* In a valid order every crate comes after what it needs of the release, and a
\* crate is packaged against the registry only if it needs nothing of it.
ASSUME ValidPlansAreOrdered ==
    \A m \in Manifests, d \in Graphs :
        ValidPublishOrder(m, d) =>
            LET plan == PublishPlan(m)
                before(a, b) == \E i, k \in 1 .. 3 : i < k /\ plan[i] = a /\ plan[k] = b
            IN  \A c \in Publishable(m) :
                    /\ \A e \in d[c] \cap Publishable(m) : before(e, c)
                    /\ PackageCheckPlan(m, d)[c] = "verify"
                            <=> d[c] \cap Publishable(m) = {}

\* Without a prerelease part, what is in lockstep has the release's version.
Versions == [base : 1 .. 2, pre : 0 .. 1]
ASSUME LockstepIsTheVersion ==
    \A v \in Versions, publish \in BOOLEAN :
        /\ Lockstep(Inherited, v, publish) /\ VerifyVersion(Inherited, v)
        /\ v.pre = 0 /\ Lockstep(Base(v), v, publish) => VerifyVersion(Base(v), v)
=============================================================================
