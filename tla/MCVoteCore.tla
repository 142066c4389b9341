----------------------------- MODULE MCVoteCore -----------------------------
(* A small instance of VoteCore for TLC. *)
EXTENDS VoteCore

CONSTANTS t1, t2, t3, c1, c2, k1

ThreeTokens   == {t1, t2, t3}
TwoSubmitters == {c1, c2}
OneSealer     == {k1}
TwoOptions    == {1, 2}
TwoMasks      == {{1}, {1, 2}}
\* The second shard has one place for two tokens.
TwoInOne      == [t \in Tokens |-> IF t = t1 THEN 0 ELSE 1]
=============================================================================
