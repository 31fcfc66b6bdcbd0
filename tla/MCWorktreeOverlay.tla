-------------------------- MODULE MCWorktreeOverlay --------------------------
(***************************************************************************)
(* A small instance of WorktreeOverlay: two repositories, a worktree that  *)
(* is tracked or not, a session with one or two anonymous trays, single    *)
(* keys and the pairs of keys that meet two stages.                        *)
(***************************************************************************)
EXTENDS WorktreeOverlay

Nothing == [repositories |-> <<>>, worktrees |-> <<>>]
TwoRepositories == [repositories |-> <<"r1", "r2">>,
                    worktrees |-> <<WorktreeTray("r1", "x")>>]
SmallRegistries == {Nothing, TwoRepositories}

Anonymous(n) == <<"anonymous", n>>
SmallSessions == {<<>>, <<Anonymous(1)>>}

SomeBatches == {<<key>> : key \in Key}
                 \cup {<<"enter", "tab">>, <<"enter", "enter">>, <<"escape", "enter">>}

=============================================================================
