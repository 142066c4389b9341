------------------------------ MODULE MCHttpApi ------------------------------
(* A small instance of HttpApi for TLC. *)
EXTENDS HttpApi

CONSTANTS r1, r2

Two      == {r1, r2}
OneOrTwo == {[p \in Pools |-> n] : n \in {1, 2}}
\* Two requests of one pool, or a vote beside a read.
Pairs    == {[r \in Requests |-> IF r = r1 THEN k[1] ELSE k[2]] :
              k \in { <<"vote", "vote">>, <<"vote", "get">>, <<"create", "create">>,
                      <<"create", "results">>, <<"create", "list">> }}
=============================================================================
