---------------------------- MODULE MCWorktreeOps ----------------------------
(* WorktreeOps on a small instance: one root with two worktree paths, one of *)
(* them the path two branches (a/b and a-b) both derive, and a second root. *)
EXTENDS WorktreeOps

CONSTANTS r1, r2, p1, p2, p3, slash, dash, other, far

MCRepoOf  == [p \in {p1, p2, p3} |-> IF p = p3 THEN r2 ELSE r1]
MCPathFor == [b \in {slash, dash, other, far} |->
                CASE b \in {slash, dash} -> p1 [] b = other -> p2 [] b = far -> p3]
=============================================================================
