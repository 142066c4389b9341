---------------------------- MODULE MCAdminPage ----------------------------
(* A small instance of AdminPage for TLC. *)
EXTENDS AdminPage, TLC

AnyPoll == Permutations(Polls)
=============================================================================
