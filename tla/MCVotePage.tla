----------------------------- MODULE MCVotePage -----------------------------
(* A small instance of VotePage for TLC. *)
EXTENDS VotePage

CONSTANTS tab1, tab2

TwoTabs  == {tab1, tab2}
AllVotes == {[r \in Requests |-> "vote"]}
OneSlot  == {[p \in Pools |-> 1]}
\* The storage of all tabs works; or that of the second fails and either
\* the voter changes their mind or a second token is drawn.
ThreeBrowsers ==
    {[failing |-> {},     tokens |-> {1, 2}, choices |-> {"a", "b"}],
     [failing |-> {tab2}, tokens |-> {1},    choices |-> {"a", "b"}],
     [failing |-> {tab2}, tokens |-> {1, 2}, choices |-> {"a"}]}
=============================================================================
