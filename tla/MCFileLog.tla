----------------------------- MODULE MCFileLog -----------------------------
(* A small instance of FileLog for TLC. *)
EXTENDS FileLog

CONSTANTS c1, c2, k1, x1

TwoCalls  == {c1, c2}
\* Two frames that fit one batch and the queue, or a second one that does not.
FitOrNot  == {[c \in Calls |-> 1], [c \in Calls |-> IF c = c1 THEN 1 ELSE 2]}
OneSealer == {k1}
OneCloser == {x1}
=============================================================================
