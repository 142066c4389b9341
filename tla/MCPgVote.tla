------------------------------ MODULE MCPgVote ------------------------------
(* A small instance of PgVote for TLC. *)
EXTENDS PgVote

CONSTANTS t1, v1, v2, f1, f2

OneToken      == {t1}
TwoVoters     == {v1, v2}
TwoFinalizers == {f1, f2}
TwoOptions    == {1, 2}
TwoBallots    == {{1}, {1, 2}}
\* The key's shard is the last to be drained.
LastShard     == [t \in Tokens |-> NumShards - 1]
=============================================================================
