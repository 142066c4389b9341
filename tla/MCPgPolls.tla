----------------------------- MODULE MCPgPolls -----------------------------
(* A small instance of PgPolls for TLC. *)
EXTENDS PgPolls

CONSTANTS c1, c2, w1, w2, r1, r2

TwoCreators == {c1, c2}
TwoWorkers  == {w1, w2}
TwoReaders  == {r1, r2}
\* Either polls are created at once, or results are read beside a worker.
TwoCasts == {{c1, c2, w1, w2}, {c1, w1, r1, r2}}
=============================================================================
