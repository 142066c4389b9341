------------------------------- MODULE PgPolls -------------------------------
(***************************************************************************)
(* The administration of polls in PostgreSQL (internal/postgres/store.go): *)
(* Create tests for an overlap and inserts under an advisory lock, Results *)
(* reads one snapshot, and FinalizeDue finalizes the oldest due polls, up  *)
(* to a limit per pass, until one fails.  Votes and finalize_poll are      *)
(* reduced to what PgVote.tla shows of them; here many polls share the     *)
(* clock and the workers.                                                  *)
(***************************************************************************)
EXTENDS Naturals, FiniteSets, Sequences, FiniteSetsExt, SequencesExt

CONSTANTS
    Polls,       \* numbers for polls, given in the order of insertion
    Creators,    \* calls of Create
    Starts,      \* start times that may be asked for
    Workers,     \* maintenance workers, one per process
    Readers,     \* calls of Results
    Casts,       \* what Cast may be
    Minute,      \* how long a poll is open
    Batch,       \* LIMIT 20 of a pass
    MaxTime, MaxVotes    \* bounds

ASSUME PollsAssumption == /\ Polls \subseteq Nat \ {0} /\ Polls # {} /\ Starts \subseteq Nat
                          /\ {Minute, Batch} \subseteq Nat \ {0} /\ {MaxTime, MaxVotes} \subseteq Nat
                          /\ Casts \subseteq SUBSET (Creators \cup Workers \cup Readers)

VARIABLES
    now,         \* clock_timestamp()
    rows,        \* poll |-> its committed row
    votes,       \* poll |-> its committed votes
    creator,     \* creator |-> its transaction
    worker,      \* worker |-> the polls its pass still has to finalize
    reader,      \* reader |-> its transaction and its answer
    Cast         \* the calls and workers there are; never changes

vars == <<now, rows, votes, creator, worker, reader>>

NoRow == [start |-> 0, final |-> FALSE, total |-> 0, used |-> FALSE]
Row(s) == [start |-> s, final |-> FALSE, total |-> 0, used |-> TRUE]
EndsAt(r) == r.start + Minute
Known == {p \in Polls : rows[p].used}

-----------------------------------------------------------------------------
(* Create *)

Go(c, pc, start) == creator' = [creator EXCEPT ![c] = [pc |-> pc, start |-> start]]
Holds(c) == creator[c].pc \in {"locked", "timed", "tested", "inserted"}

\* The lock is granted, and the asked time, or else the clock, read under it.
LockFreeAlways == TRUE  \* mutant: no creation lock
LockFree == \A c \in Creators : ~ Holds(c)
Lock(c) == /\ creator[c].pc = "idle" /\ LockFree /\ Go(c, "locked", 0)
           /\ UNCHANGED <<now, rows, votes, worker, reader>>
ReadStart(c) == /\ creator[c].pc = "locked"
                /\ \E s \in Starts \cup {now} : Go(c, "timed", s)
                /\ UNCHANGED <<now, rows, votes, worker, reader>>
Overlaps(s) == \E p \in Known : rows[p].start < s + Minute /\ EndsAt(rows[p]) > s
TestOverlap(c) ==
    /\ creator[c].pc = "timed"
    /\ Go(c, IF Overlaps(creator[c].start) THEN "overlap" ELSE "tested", creator[c].start)
    /\ UNCHANGED <<now, rows, votes, worker, reader>>
Insert(c) == /\ creator[c].pc = "tested" /\ Go(c, "inserted", creator[c].start)
             /\ UNCHANGED <<now, rows, votes, worker, reader>>
\* The commit makes the row visible and frees the lock.  The call may still
\* fail: an error leaves open whether the poll exists.
Commit(c) ==
    /\ creator[c].pc = "inserted" /\ Polls # Known
    /\ rows' = [rows EXCEPT ![Min(Polls \ Known)] = Row(creator[c].start)]
    /\ \E answer \in {"created", "error"} : Go(c, answer, creator[c].start)
    /\ UNCHANGED <<now, votes, worker, reader>>
Rollback(c) == /\ Holds(c) /\ Go(c, "error", 0)
               /\ UNCHANGED <<now, rows, votes, worker, reader>>

-----------------------------------------------------------------------------
(* Votes, as PgVote has them: one that began in the window counts as long  *)
(* as the finalizer has not drained it.                                    *)

Vote(p) ==
    /\ p \in Known /\ ~ rows[p].final /\ now >= rows[p].start /\ votes[p] < MaxVotes
    /\ votes' = [votes EXCEPT ![p] = @ + 1]
    /\ UNCHANGED <<now, rows, creator, worker, reader>>

-----------------------------------------------------------------------------
(* FinalizeDue, once a second in each process's maintenance worker *)

DueForgotten(p) == p \in Known /\ EndsAt(rows[p]) <= now  \* mutant: final polls are listed again
Due(p) == p \in Known /\ ~ rows[p].final /\ EndsAt(rows[p]) <= now
Earlier(p, q) == rows[p].start < rows[q].start \/ (rows[p].start = rows[q].start /\ p < q)
DueList == SetToSortSeq({p \in Polls : Due(p)}, Earlier)
Query(w) ==
    /\ worker[w] = <<>> /\ DueList # <<>>
    /\ worker' = [worker EXCEPT ![w] = SubSeq(DueList, 1, Min({Batch, Len(DueList)}))]
    /\ UNCHANGED <<now, rows, votes, creator, reader>>
\* finalize_poll answers false for a poll that another worker made final.
Finalized(p) == IF rows[p].final THEN rows
                ELSE [rows EXCEPT ![p] = [@ EXCEPT !.final = TRUE, !.total = votes[p]]]
FinalizeNext(w) ==
    /\ worker[w] # <<>>
    /\ rows' = Finalized(Head(worker[w]))
    /\ worker' = [worker EXCEPT ![w] = Tail(@)]
    /\ UNCHANGED <<now, votes, creator, reader>>
\* The first error ends the pass, before or after the commit.
PassFails(w) ==
    /\ worker[w] # <<>>
    /\ \E r \in {rows, Finalized(Head(worker[w]))} : rows' = r
    /\ worker' = [worker EXCEPT ![w] = <<>>]
    /\ UNCHANGED <<now, votes, creator, reader>>

-----------------------------------------------------------------------------
(* Results, for poll 1: BEGIN fixes transaction_timestamp(), the first     *)
(* statement fixes the snapshot of both.                                   *)

Subject == Min(Polls)
BeginRead(r) ==
    /\ reader[r].pc = "idle"
    /\ reader' = [reader EXCEPT ![r].pc = "begun", ![r].at = now]
    /\ UNCHANGED <<now, rows, votes, creator, worker>>
ReadRow(r) ==
    /\ reader[r].pc = "begun"
    /\ reader' = [reader EXCEPT ![r].pc = IF Subject \in Known THEN "total" ELSE "not_found",
                                ![r].row = rows[Subject], ![r].votes = votes[Subject]]
    /\ UNCHANGED <<now, rows, votes, creator, worker>>
State(row, t) == IF row.final THEN "final" ELSE IF t < row.start THEN "scheduled"
                 ELSE IF t < EndsAt(row) THEN "open" ELSE "processing"
\* The votes are read twice, for the total and by option; a final poll's are
\* read from poll_results instead.
Latest(r) == IF reader[r].row.final THEN rows[Subject].total
             ELSE votes[Subject]  \* mutant: read committed
Snapshot(r) == IF reader[r].row.final THEN reader[r].row.total ELSE reader[r].votes
ReadTotal(r) ==
    /\ reader[r].pc = "total"
    /\ reader' = [reader EXCEPT ![r].pc = "counts", ![r].total = Snapshot(r)]
    /\ UNCHANGED <<now, rows, votes, creator, worker>>
ReadCounts(r) ==
    /\ reader[r].pc = "counts"
    /\ reader' = [reader EXCEPT ![r].pc = State(reader[r].row, reader[r].at),
                                ![r].counts = Snapshot(r)]
    /\ UNCHANGED <<now, rows, votes, creator, worker>>

-----------------------------------------------------------------------------
Tick == now < MaxTime /\ now' = now + 1 /\ UNCHANGED <<rows, votes, creator, worker, reader>>

Init ==
    /\ now = 0 /\ rows = [p \in Polls |-> NoRow] /\ votes = [p \in Polls |-> 0]
    /\ creator = [c \in Creators |-> [pc |-> "idle", start |-> 0]]
    /\ worker = [w \in Workers |-> <<>>]
    /\ reader = [r \in Readers |-> [pc |-> "idle", at |-> 0, row |-> NoRow, votes |-> 0,
                               total |-> 0, counts |-> 0]]
    /\ Cast \in Casts
Create(c) == Lock(c) \/ ReadStart(c) \/ TestOverlap(c) \/ Insert(c) \/ Commit(c) \/ Rollback(c)
FinalizeDue(w) == Query(w) \/ FinalizeNext(w) \/ PassFails(w)
Results(r) == BeginRead(r) \/ ReadRow(r) \/ ReadTotal(r) \/ ReadCounts(r)
Next == \/ Tick \/ \E c \in Creators \cap Cast : Create(c) \/ \E p \in Polls : Vote(p)
        \/ \E w \in Workers \cap Cast : FinalizeDue(w)
        \/ \E r \in Readers \cap Cast : Results(r)
Spec == Init /\ [][Next /\ UNCHANGED Cast]_<<vars, Cast>>

(* The clock runs, the worker's ticker fires, and a finalization that is   *)
(* tried again and again succeeds at some time.  Only workers there are    *)
(* owe anything.                                                           *)
FairSpec == /\ Spec /\ WF_vars(Tick)
            /\ \A w \in Workers : /\ WF_vars(w \in Cast /\ Query(w))
                                 /\ WF_vars(w \in Cast /\ FinalizeDue(w))
            /\ \A w \in Workers, p \in Polls :
                 SF_vars(w \in Cast /\ FinalizeNext(w) /\ Head(worker[w]) = p)

-----------------------------------------------------------------------------
(* Properties *)

(* No two polls are open at the same time, however many administrators     *)
(* create polls at once and whatever fails (store.go 213-227).             *)
NoOverlap ==
    \A p, q \in Known : p # q => \/ EndsAt(rows[p]) <= rows[q].start
                                 \/ EndsAt(rows[q]) <= rows[p].start

(* A result adds up, although votes and the finalizer go on while it is   *)
(* computed; what is told as final is what every later reader is told, and *)
(* "processing" is told only after the end (store.go 347-369).             *)
ResultsAgree ==
    \A r \in Readers :
        LET a == reader[r] IN
        /\ a.pc \in {"scheduled", "open", "processing", "final"} =>
             a.total = a.counts /\ a.total <= votes[Subject]
        /\ a.pc = "final" => rows[Subject].final /\ a.total = rows[Subject].total
        /\ a.pc = "processing" => a.at >= EndsAt(rows[Subject])

(* Every poll becomes final after its end, although a pass takes only      *)
(* Batch polls, stops at its first error and shares them with another      *)
(* process (store.go 391-420).                                             *)
AllBecomeFinal ==
    \A p \in Polls : (p \in Known /\ EndsAt(rows[p]) <= MaxTime) ~> rows[p].final
=============================================================================
