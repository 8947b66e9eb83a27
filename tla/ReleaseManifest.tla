--------------------------- MODULE ReleaseManifest ---------------------------
(***************************************************************************)
(* What the release scripts derive from release/publish-artifacts.toml and *)
(* the Cargo manifests: the order of publication, its check against the    *)
(* dependencies, the packaging plan and the version checks. All of it is   *)
(* pure.                                                                   *)
(*                                                                         *)
(* A manifest maps a crate to its publish_order, whether it is to be       *)
(* published and whether its visibility is verified; crates are numbered   *)
(* in the order of their names.                                            *)
(***************************************************************************)
EXTENDS Integers, SequencesExt

\* load_manifest: the crates by publish_order, then by name.
Precedes(manifest, c, d) ==
    \/ manifest[c].order < manifest[d].order
    \/ manifest[c].order = manifest[d].order /\ c < d

PublishPlan(manifest) ==
    CHOOSE plan \in [1 .. Cardinality(DOMAIN manifest) -> DOMAIN manifest] :
        \A i, k \in DOMAIN plan : i < k => Precedes(manifest, plan[i], plan[k])

Publishable(manifest) == {c \in DOMAIN manifest : manifest[c].publish}

\* validate_publish_order: a crate comes strictly after the workspace crates it
\* needs.
ValidPublishOrder(manifest, deps) ==
    \A c \in Publishable(manifest) : \A d \in deps[c] \cap Publishable(manifest) :
        manifest[c].order > manifest[d].order

\* cargo_package_check_plan: a crate that needs an earlier one of the same
\* release is packaged without the registry's verification.
EarlierDependencies(manifest, deps, c) ==
    {d \in deps[c] \cap Publishable(manifest) : manifest[d].order < manifest[c].order}

PackageCheckPlan(manifest, deps) ==
    [c \in Publishable(manifest) |->
        IF EarlierDependencies(manifest, deps, c) # {} THEN "no_verify" ELSE "verify"]

-----------------------------------------------------------------------------
(* workspace_dependency_names: a dependency is written as a version, as the *)
(* workspace's, or with a path; the latter two may rename the package.      *)

\* The package a dependency stands for, or Nowhere when it is not of the
\* workspace: members are its packages, shared its dependency table.
Nowhere == 0

ResolveDependency(name, spec, members, shared) ==
    CASE spec.kind = "version"   -> IF name \in members THEN name ELSE Nowhere
      [] spec.kind = "workspace" ->
            IF name \in DOMAIN shared
               /\ (shared[name].path \/ shared[name].package \in members)
            THEN shared[name].package
            ELSE IF name \in members THEN name ELSE Nowhere
      [] spec.kind = "table"     ->
            IF spec.path \/ spec.package \in members THEN spec.package ELSE Nowhere

\* Of the dependencies, the build dependencies and those of the targets; those
\* of the tests are left out.
WorkspaceDependencyNames(tables, members, shared) ==
    UNION {{ResolveDependency(n, table.entries[n], members, shared) :
                n \in DOMAIN table.entries} :
           table \in {t \in tables : t.section # "dev"}} \ {Nowhere}

-----------------------------------------------------------------------------
(* Versions: [base, pre], pre = 0 without a prerelease part. *)

\* version.workspace = true
Inherited == [base |-> 0, pre |-> 0]

Base(version) == [version EXCEPT !.pre = 0]

\* cmd_verify_version for one crate, whose version is inherited or literal.
VerifyVersion(crate, workspace) == crate = Inherited \/ crate = workspace

\* _assert_workspace_inherited_version: a crate that is not published may also
\* name the workspace's base version.
Lockstep(crate, workspace, publish) ==
    crate = Inherited \/ (~publish /\ crate = Base(workspace))

\* check_version_publication: the crates the registry already shows, unless
\* they are preserved from an earlier run. (The mutant preserves nothing.)
AnyPublished(manifest, visible, preserved) == DOMAIN manifest \cap visible
UnexpectedlyPublished(manifest, visible, preserved) ==
    IF preserved THEN {} ELSE DOMAIN manifest \cap visible
=============================================================================
