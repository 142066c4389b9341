---------------------------- MODULE PollContract ----------------------------
(***************************************************************************)
(* What a poll promises its clients, without transactions, locks or a      *)
(* clock (docs/api.md, docs/decisions.md): the first choice of a key is    *)
(* final; a receipt names that choice; a key told "closed" stays without a *)
(* vote; the result is published once, counts every decided key, and       *)
(* nothing is decided afterwards.                                          *)
(***************************************************************************)
EXTENDS Naturals, FiniteSets

CONSTANTS Tokens, Options, Rows, NoRow

VARIABLES
    decided,    \* token |-> its row, or NoRow
    receipts,   \* token |-> rows told to clients as recorded
    closed,     \* tokens told "closed"
    outcome     \* the published result

vars == <<decided, receipts, closed, outcome>>

Unpublished ==
    [total |-> 0, options |-> [o \in Options |-> 0], stored |-> FALSE]

Init ==
    /\ decided = [t \in Tokens |-> NoRow]
    /\ receipts = [t \in Tokens |-> {}]
    /\ closed = {}
    /\ outcome = Unpublished

\* The first choice of t, with or without a receipt that reaches the client.
Decide(t, r) ==
    /\ decided[t] = NoRow
    /\ t \notin closed
    /\ ~ outcome.stored
    /\ decided' = [decided EXCEPT ![t] = r]
    /\ \/ receipts' = [receipts EXCEPT ![t] = @ \cup {r}]
       \/ UNCHANGED receipts
    /\ UNCHANGED <<closed, outcome>>

\* A retry is told the recorded choice.
Confirm(t) ==
    /\ decided[t] # NoRow
    /\ receipts' = [receipts EXCEPT ![t] = @ \cup {decided[t]}]
    /\ UNCHANGED <<decided, closed, outcome>>

Close(t) ==
    /\ decided[t] = NoRow
    /\ closed' = closed \cup {t}
    /\ UNCHANGED <<decided, receipts, outcome>>

Publish ==
    /\ ~ outcome.stored
    /\ outcome' =
         [total   |-> Cardinality({t \in Tokens : decided[t] # NoRow}),
          options |-> [o \in Options |->
                         Cardinality({t \in Tokens : o \in decided[t].choices})],
          stored  |-> TRUE]
    /\ UNCHANGED <<decided, receipts, closed>>

Next ==
    \/ \E t \in Tokens : Confirm(t) \/ Close(t) \/ \E r \in Rows : Decide(t, r)
    \/ Publish

Spec == Init /\ [][Next]_vars
=============================================================================
