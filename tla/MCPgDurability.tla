--------------------------- MODULE MCPgDurability ---------------------------
(* A small instance of PgDurability for TLC. *)
EXTENDS PgDurability, TLC

CONSTANTS a, b, c1, c2, s1, s2, s3

TwoKeys  == {a, b}
TwoCalls == {c1, c2}
ThreeStandbys == {s1, s2, s3}

Symmetry ==
    Permutations(Keys) \cup Permutations(Calls) \cup Permutations(Standbys)
=============================================================================
