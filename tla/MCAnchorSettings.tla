--------------------------- MODULE MCAnchorSettings ---------------------------
(* The instance of AnchorSettings that TLC checks: a folder of repositories,
   a repository in it and a folder in the repository; with it the contracts of
   the agents, which are pure. *)
EXTENDS AnchorSettings, MCAnchorContracts

CONSTANTS folder, repo, sub

Depth == [d \in {folder, repo, sub} |->
            CASE d = folder -> 0 [] d = repo -> 1 [] d = sub -> 2]
MCAbove(d, e) == Depth[d] <= Depth[e]
MCTop(d) == IF d = folder THEN NoRepository ELSE repo
=============================================================================
