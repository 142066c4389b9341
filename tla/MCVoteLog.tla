------------------------------ MODULE MCVoteLog ------------------------------
(* Small instances of VoteLog for TLC. *)
EXTENDS VoteLog

CONSTANTS p1, p2, t1, j1, j2

OnePartition  == {p1}
TwoPartitions == {p1, p2}
TwoJobs       == {j1, j2}
\* The same voter twice with two choices, singly and as a frame of two votes.
TwoChoices    == [j \in Jobs |-> IF j = j1 THEN << <<t1, "a">> >> ELSE << <<t1, "b">> >>]
AFrame        == [j \in Jobs |-> IF j = j1 THEN << <<t1, "a">> >>
                                 ELSE << <<t1, "b">>, <<t1, "a">> >>]
AllInOne      == [t \in {t1} |-> p1]

SamePoll      == {[s \in Sessions |-> "poll"]}
OtherSecond   == SamePoll \cup {[s \in Sessions |-> IF s = 2 THEN "other" ELSE "poll"]}
=============================================================================
