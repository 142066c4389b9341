--------------------------- MODULE PgPollsProofs ---------------------------
(***************************************************************************)
(* Proofs about PgPolls for any number of polls, administrators, workers   *)
(* and readers and any start times.  Polls never overlap: the creation     *)
(* lock is held by one transaction at a time (LockInv), so what its        *)
(* overlap test found still holds when it commits (FreshInv).  Results     *)
(* agree: what a reader saw in its snapshot stays true (SnapshotOK), since *)
(* a result is written once and votes only grow, and its answer follows    *)
(* from the snapshot (AnswerOK).                                           *)
(***************************************************************************)
EXTENDS PgPolls, WellFoundedInduction, TLAPS

Rows == [start : Nat, final : BOOLEAN, total : Nat, used : BOOLEAN]

TypeInv ==
    /\ now \in Nat
    /\ rows \in [Polls -> Rows]
    /\ votes \in [Polls -> Nat]
    /\ creator \in [Creators -> [pc : {"idle", "locked", "timed", "tested", "inserted",
                                       "created", "overlap", "error"}, start : Nat]]

LockInv == \A c, d \in Creators : Holds(c) /\ Holds(d) => c = d

FreshInv ==
    \A c \in Creators : creator[c].pc \in {"tested", "inserted"} => ~ Overlaps(creator[c].start)

PollsInv == TypeInv /\ LockInv /\ FreshInv /\ NoOverlap

-----------------------------------------------------------------------------
\* There are no polls and no transactions at first.
LEMMA InitPollsInv == Init => PollsInv
BY PollsAssumption
   DEF Init, PollsInv, TypeInv, Rows, NoRow, LockInv, Holds, FreshInv, NoOverlap, Known

\* Finalizing any poll leaves the windows of all polls alone.
LEMMA FinalizedKeepsWindows ==
    ASSUME TypeInv, NEW p
    PROVE  /\ Finalized(p) \in [Polls -> Rows]
           /\ \A q \in Polls : /\ Finalized(p)[q].start = rows[q].start
                               /\ Finalized(p)[q].used = rows[q].used
<1>1. CASE rows[p].final
  BY <1>1 DEF TypeInv, Finalized
<1>2. CASE ~ rows[p].final /\ p \in Polls
  BY <1>2 DEF TypeInv, Finalized, Rows
<1>3. CASE ~ rows[p].final /\ p \notin Polls
  <2>1. Finalized(p) = rows
    BY <1>3 DEF TypeInv, Finalized
  <2> QED
    BY <2>1 DEF TypeInv
<1> QED
  BY <1>1, <1>2, <1>3

\* What keeps the windows and the transactions keeps the invariant.
LEMMA SameWindows ==
    ASSUME PollsInv, now' \in Nat, rows' \in [Polls -> Rows], votes' \in [Polls -> Nat],
           creator' = creator,
           \A q \in Polls : rows'[q].start = rows[q].start /\ rows'[q].used = rows[q].used
    PROVE  PollsInv'
<1>1. TypeInv' /\ LockInv'
  BY DEF PollsInv, TypeInv, LockInv, Holds
<1>2. Known' = Known
  BY DEF Known
<1>3. FreshInv'
  BY <1>2 DEF PollsInv, FreshInv, Overlaps, EndsAt, Known
<1>4. NoOverlap'
  BY <1>2 DEF PollsInv, NoOverlap, EndsAt, Known
<1> QED
  BY <1>1, <1>3, <1>4 DEF PollsInv

\* A step of a creation other than the commit: rows stay, and only the holder
\* of the lock is past it.
LEMMA CreateStep ==
    ASSUME PollsInv, NEW c \in Creators, UNCHANGED <<now, rows, votes>>,
           Lock(c) \/ ReadStart(c) \/ TestOverlap(c) \/ Insert(c) \/ Rollback(c)
    PROVE  PollsInv'
<1> USE PollsAssumption DEF PollsInv, TypeInv, Go
<1>1. TypeInv'
  BY DEF Lock, ReadStart, TestOverlap, Insert, Rollback
<1>2. LockInv'
  <2>1. CASE Lock(c)
    BY <2>1 DEF Lock, LockFree, LockInv, Holds
  <2>2. CASE ReadStart(c) \/ TestOverlap(c) \/ Insert(c) \/ Rollback(c)
    BY <2>2 DEF ReadStart, TestOverlap, Insert, Rollback, LockInv, Holds
  <2> QED
    BY <2>1, <2>2
<1>3. Known' = Known /\ \A s : Overlaps(s)' = Overlaps(s)
  BY DEF Known, Overlaps, EndsAt
<1>4. FreshInv'
  BY <1>3 DEF Lock, ReadStart, TestOverlap, Insert, Rollback, FreshInv, Overlaps, Known, EndsAt
<1>5. NoOverlap'
  BY DEF NoOverlap, Known, EndsAt
<1> QED
  BY <1>1, <1>2, <1>4, <1>5

\* The commit of a tested poll.
LEMMA CommitStep ==
    ASSUME PollsInv, NEW c \in Creators, Commit(c)
    PROVE  PollsInv'
<1> USE PollsAssumption DEF PollsInv, TypeInv, Go
<1> DEFINE new == Min(Polls \ Known)
           s   == creator[c].start
<1>1. /\ creator[c].pc = "inserted" /\ s \in Nat
      /\ rows' = [rows EXCEPT ![new] = Row(s)]
      /\ Row(s) \in Rows /\ Row(s).start = s
      /\ \E answer \in {"created", "error"} : creator' = [creator EXCEPT ![c] = [pc |-> answer, start |-> s]]
  BY DEF Commit, Row, Rows
<1>2. TypeInv'
  <2>1. rows' \in [Polls -> Rows]
    BY <1>1
  <2>2. UNCHANGED <<now, votes>>
    BY DEF Commit
  <2>3. creator' \in [Creators -> [pc : {"idle", "locked", "timed", "tested", "inserted",
                                        "created", "overlap", "error"}, start : Nat]]
    BY <1>1
  <2> QED
    BY <2>1, <2>2, <2>3
<1>3. LockInv'
  BY <1>1 DEF LockInv, Holds
<1>4. FreshInv'
  \* Nobody else is past the test.
  <2>1. \A d \in Creators : creator'[d].pc \notin {"tested", "inserted"}
    BY <1>1 DEF LockInv, Holds
  <2> QED
    BY <2>1 DEF FreshInv
<1>5. NoOverlap'
  <2>1. \A p \in Known : EndsAt(rows[p]) <= s \/ s + Minute <= rows[p].start
    BY <1>1 DEF FreshInv, Overlaps, Known, EndsAt, Rows
  <2>2. \A p \in Polls : rows'[p] = IF p = new THEN Row(s) ELSE rows[p]
    BY <1>1
  <2>3. \A p \in Known' : p = new \/ p \in Known
    BY <2>2 DEF Known
  <2> SUFFICES ASSUME NEW p \in Known', NEW q \in Known', p # q
               PROVE  EndsAt(rows'[p]) <= rows'[q].start \/ EndsAt(rows'[q]) <= rows'[p].start
    BY DEF NoOverlap, EndsAt
  <2>4. CASE p = new
    BY <2>1, <2>2, <2>3, <2>4, <1>1 DEF EndsAt, Known
  <2>5. CASE q = new
    BY <2>1, <2>2, <2>3, <2>5, <1>1 DEF EndsAt, Known
  <2>6. CASE p # new /\ q # new
    BY <2>2, <2>3, <2>6 DEF EndsAt, Known, NoOverlap
  <2> QED
    BY <2>4, <2>5, <2>6
<1> QED
  BY <1>2, <1>3, <1>4, <1>5

\* Every step keeps the invariant.
LEMMA NextPollsInv == PollsInv /\ [Next /\ UNCHANGED Cast]_<<vars, Cast>> => PollsInv'
<1> SUFFICES ASSUME PollsInv, [Next]_vars PROVE PollsInv'
  BY DEF vars
<1> USE DEF PollsInv, TypeInv
<1>1. CASE Tick
  BY <1>1, SameWindows DEF Tick
<1>2. ASSUME NEW c \in Creators, Create(c) PROVE PollsInv'
  <2>1. CASE Commit(c)
    BY <2>1, CommitStep
  <2>2. CASE ~ Commit(c)
    <3>1. UNCHANGED <<now, rows, votes>>
      BY <1>2, <2>2 DEF Create, Lock, ReadStart, TestOverlap, Insert, Rollback
    <3> QED
      BY <1>2, <2>2, <3>1, CreateStep DEF Create
  <2> QED
    BY <2>1, <2>2
<1>3. ASSUME NEW p \in Polls, Vote(p) PROVE PollsInv'
  BY <1>3, SameWindows DEF Vote
<1>4. ASSUME NEW w \in Workers, FinalizeDue(w) PROVE PollsInv'
  <2>1. CASE Query(w)
    BY <2>1, SameWindows DEF Query
  <2>2. CASE FinalizeNext(w) \/ PassFails(w)
    <3>1. rows' \in {rows, Finalized(Head(worker[w]))} /\ UNCHANGED <<now, votes, creator>>
      BY <2>2 DEF FinalizeNext, PassFails
    <3> QED
      BY <3>1, SameWindows, FinalizedKeepsWindows
  <2> QED
    BY <1>4, <2>1, <2>2 DEF FinalizeDue
<1>5. ASSUME NEW r \in Readers, Results(r) PROVE PollsInv'
  BY <1>5, SameWindows DEF Results, BeginRead, ReadRow, ReadTotal, ReadCounts
<1>6. CASE UNCHANGED vars
  BY <1>6, SameWindows DEF vars
<1> QED
  BY <1>1, <1>2, <1>3, <1>4, <1>5, <1>6 DEF Next

-----------------------------------------------------------------------------
\* No two polls are ever open at the same time, however many administrators
\* create polls at once and whatever fails (Store.Create, creationLock).
THEOREM PollsNeverOverlap == Spec => []NoOverlap
<1>1. PollsInv => NoOverlap
  BY DEF PollsInv
<1> QED
  BY <1>1, InitPollsInv, NextPollsInv, PTL DEF Spec

-----------------------------------------------------------------------------
(* Results *)

ReaderStates == {"idle", "begun", "not_found", "total", "counts",
                 "scheduled", "open", "processing", "final"}
Reads == [pc : ReaderStates, at : Nat, row : Rows, votes : Nat, total : Nat, counts : Nat]
Told  == {"scheduled", "open", "processing", "final"}

\* What a snapshot holds stays true of the poll that was read: a result is
\* written once, and votes only grow.
SnapshotOK(a) ==
    /\ Subject \in Known /\ a.row.start = rows[Subject].start /\ a.votes <= votes[Subject]
    /\ a.row.final => /\ rows[Subject].final /\ a.row.total = rows[Subject].total
                      /\ a.row.total <= votes[Subject]
\* And what was answered is of the snapshot.
Taken(a) == IF a.row.final THEN a.row.total ELSE a.votes
AnswerOK(a) ==
    /\ a.pc \in {"counts"} \cup Told => a.total = Taken(a)
    /\ a.pc \in Told => a.counts = Taken(a)
    /\ a.pc = "final" => a.row.final
    /\ a.pc = "processing" => a.at >= EndsAt(a.row)
ReaderInv ==
    /\ reader \in [Readers -> Reads]
    /\ \A p \in Polls : rows[p].final => rows[p].total <= votes[p]
    /\ \A r \in Readers :
         /\ reader[r].pc \in {"total", "counts"} \cup Told => SnapshotOK(reader[r])
         /\ AnswerOK(reader[r])

\* The poll that is read is a poll, and so is the number given to the next one.
LEMMA LeastPoll ==
    ASSUME NEW S \in SUBSET Nat, S # {}
    PROVE  Min(S) \in S
<1>1. \A x, y \in Nat : x < y => <<x, y>> \in OpToRel(<, Nat)
  BY DEF OpToRel
<1>2. PICK n \in S : \A m \in S : <<m, n>> \notin OpToRel(<, Nat)
  BY WFMin, NatLessThanWellFounded
<1>3. \A m \in S : ~ m < n
  BY <1>1, <1>2
<1>4. \A m \in S : n <= m
  BY <1>3
<1> QED
  BY <1>4 DEF Min

\* "final" is told of a final row, "processing" of one whose end is past.
LEMMA StateFacts ==
    ASSUME NEW row \in Rows, NEW t \in Nat
    PROVE  /\ State(row, t) \in Told
           /\ State(row, t) = "final" => row.final
           /\ State(row, t) = "processing" => t >= EndsAt(row)
<1>1. EndsAt(row) \in Nat /\ row.start \in Nat
  BY PollsAssumption DEF Rows, EndsAt
<1> QED
  BY <1>1 DEF State, Told

\* There is nothing to read at first.
LEMMA InitReader == Init => ReaderInv
<1> SUFFICES ASSUME Init PROVE ReaderInv
  OBVIOUS
<1>1. reader \in [Readers -> Reads] /\ \A r \in Readers : reader[r].pc = "idle"
  BY DEF Init, Reads, Rows, NoRow, ReaderStates
<1>2. \A p \in Polls : ~ rows[p].final
  BY DEF Init, NoRow
<1> QED
  BY <1>1, <1>2 DEF ReaderInv, AnswerOK, Told

\* A step that changes no reader, keeps the rows that are known, and the results
\* and votes that are counted, keeps what was read true.
LEMMA RowsMove ==
    ASSUME TypeInv, ReaderInv, reader' = reader,
           \A p \in Polls : /\ rows'[p].final => rows'[p].total <= votes'[p]
                            /\ votes'[p] \in Nat /\ votes[p] <= votes'[p],
           \A p \in Known : /\ rows'[p].used /\ rows'[p].start = rows[p].start
                            /\ rows[p].final => rows'[p].final /\ rows'[p].total = rows[p].total
    PROVE  ReaderInv'
<1>1. Subject \in Polls
  BY LeastPoll, PollsAssumption DEF Subject
<1>2. ASSUME NEW b \in Reads, SnapshotOK(b) PROVE SnapshotOK(b)'
  <2>1. Subject \in Known /\ Subject \in Known'
    BY <1>1, <1>2 DEF SnapshotOK, Known
  <2>2. /\ rows'[Subject].start = rows[Subject].start
        /\ rows[Subject].final => rows'[Subject].final /\ rows'[Subject].total = rows[Subject].total
    BY <2>1
  <2>3. b.votes \in Nat /\ b.row.total \in Nat /\ votes[Subject] \in Nat
        /\ votes'[Subject] \in Nat /\ votes[Subject] <= votes'[Subject]
    BY <1>1 DEF Reads, Rows, TypeInv
  <2>4. b.votes <= votes'[Subject] /\ (b.row.total <= votes[Subject] => b.row.total <= votes'[Subject])
    BY <1>2, <2>3 DEF SnapshotOK
  <2> QED
    BY <1>2, <2>1, <2>2, <2>4 DEF SnapshotOK
<1>3. \A b \in Reads : AnswerOK(b) <=> AnswerOK(b)'
  BY DEF AnswerOK, Taken, EndsAt
<1> QED
  BY <1>2, <1>3 DEF ReaderInv

\* A step of Results keeps its own reader's invariant.
LEMMA ReaderMoves ==
    ASSUME TypeInv, ReaderInv, NEW r \in Readers, Results(r)
    PROVE  ReaderInv'
<1> DEFINE a == reader[r]
<1>1. a \in Reads /\ a.row \in Rows /\ a.votes \in Nat /\ a.at \in Nat
      /\ UNCHANGED <<now, rows, votes, creator, worker>>
  BY DEF ReaderInv, Reads, Results, BeginRead, ReadRow, ReadTotal, ReadCounts
<1>2. Known' = Known
  BY <1>1 DEF Known
<1>3. \A b : (SnapshotOK(b) <=> SnapshotOK(b)') /\ (AnswerOK(b) <=> AnswerOK(b)')
  BY <1>1, <1>2 DEF SnapshotOK, AnswerOK, Taken, EndsAt
<1>4. ASSUME NEW b \in Reads, reader' = [reader EXCEPT ![r] = b],
             b.pc \in {"total", "counts"} \cup Told => SnapshotOK(b), AnswerOK(b)
      PROVE  ReaderInv'
  <2>1. reader' \in [Readers -> Reads]
        /\ \A q \in Readers : reader'[q] = IF q = r THEN b ELSE reader[q]
    BY <1>4 DEF ReaderInv
  <2> QED
    BY <1>1, <1>3, <1>4, <2>1 DEF ReaderInv
<1>5. CASE BeginRead(r)
  <2> DEFINE b == [a EXCEPT !.pc = "begun", !.at = now]
  <2>1. b \in Reads /\ b.pc = "begun" /\ reader' = [reader EXCEPT ![r] = b]
    BY <1>1, <1>5 DEF BeginRead, Reads, ReaderStates, TypeInv
  <2> QED
    BY <1>4, <2>1 DEF AnswerOK, Told
<1>6. CASE ReadRow(r)
  <2> DEFINE b == [a EXCEPT !.pc = IF Subject \in Known THEN "total" ELSE "not_found",
                            !.row = rows[Subject], !.votes = votes[Subject]]
  <2>1. Subject \in Polls
    BY LeastPoll, PollsAssumption DEF Subject
  <2>2. rows[Subject] \in Rows /\ votes[Subject] \in Nat
    BY <2>1 DEF TypeInv
  <2>3. /\ b \in Reads /\ b.pc = IF Subject \in Known THEN "total" ELSE "not_found"
        /\ b.row = rows[Subject] /\ b.votes = votes[Subject]
        /\ reader' = [reader EXCEPT ![r] = b]
    BY <1>1, <1>6, <2>2 DEF ReadRow, Reads, ReaderStates
  <2> HIDE DEF b
  <2>4. AnswerOK(b)
    BY <2>3 DEF AnswerOK, Told
  <2>5. b.pc = "total" => SnapshotOK(b)
    BY <2>1, <2>2, <2>3 DEF SnapshotOK, ReaderInv
  <2>6. b.pc \in {"total", "not_found"}
    BY <2>3
  <2> QED
    BY <1>4, <2>3, <2>4, <2>5, <2>6 DEF Told
<1>7. Snapshot(r) = Taken(a) /\ Taken(a) \in Nat
  BY <1>1 DEF Snapshot, Taken, Rows
<1>8. CASE ReadTotal(r)
  <2> DEFINE b == [a EXCEPT !.pc = "counts", !.total = Taken(a)]
  <2>1. /\ b \in Reads /\ b.pc = "counts" /\ b.row = a.row /\ b.votes = a.votes
        /\ b.total = Taken(a) /\ reader' = [reader EXCEPT ![r] = b]
    BY <1>1, <1>7, <1>8 DEF ReadTotal, Reads, ReaderStates
  <2> HIDE DEF b
  <2>2. SnapshotOK(a)
    BY <1>8 DEF ReaderInv, ReadTotal
  <2>3. SnapshotOK(b) /\ AnswerOK(b)
    BY <2>1, <2>2 DEF SnapshotOK, AnswerOK, Taken, Told
  <2> QED
    BY <1>4, <2>1, <2>3
<1>9. CASE ReadCounts(r)
  <2> DEFINE b == [a EXCEPT !.pc = State(a.row, a.at), !.counts = Taken(a)]
  <2>1. State(a.row, a.at) \in Told
    BY <1>1, StateFacts
  <2>2. /\ b \in Reads /\ b.pc = State(a.row, a.at) /\ b.row = a.row /\ b.votes = a.votes
        /\ b.total = a.total /\ b.counts = Taken(a) /\ b.at = a.at
        /\ reader' = [reader EXCEPT ![r] = b]
    BY <1>1, <1>7, <1>9, <2>1 DEF ReadCounts, Reads, ReaderStates, Told
  <2> HIDE DEF b
  <2>3. SnapshotOK(a) /\ AnswerOK(a) /\ a.pc = "counts"
    BY <1>9 DEF ReaderInv, ReadCounts
  <2>4. SnapshotOK(b)
    BY <2>2, <2>3 DEF SnapshotOK
  <2>5. /\ b.pc = "final" => b.row.final
        /\ b.pc = "processing" => b.at >= EndsAt(b.row)
    BY <1>1, <2>2, StateFacts
  <2>6. b.total = Taken(b) /\ b.counts = Taken(b)
    BY <2>2, <2>3 DEF AnswerOK, Taken
  <2>7. AnswerOK(b)
    BY <2>5, <2>6 DEF AnswerOK
  <2> QED
    BY <1>4, <2>2, <2>4, <2>7
<1> QED
  BY <1>5, <1>6, <1>8, <1>9 DEF Results

\* Every step keeps the readers' invariant.
LEMMA NextReader ==
    PollsInv /\ ReaderInv /\ [Next /\ UNCHANGED Cast]_<<vars, Cast>> => ReaderInv'
<1> SUFFICES ASSUME PollsInv, ReaderInv, [Next]_vars PROVE ReaderInv'
  BY DEF vars
<1>0. TypeInv
  BY DEF PollsInv
<1>k. Known \subseteq Polls /\ \A p \in Known : rows[p].used
  BY DEF Known
<1>v. \A p \in Polls : votes[p] \in Nat /\ votes[p] <= votes[p]
                       /\ (rows[p].final => rows[p].total <= votes[p])
  BY <1>0 DEF TypeInv, ReaderInv
<1>1. CASE UNCHANGED <<rows, votes, reader>>
  BY <1>0, <1>1, <1>k, <1>v, RowsMove
<1>2. ASSUME NEW p \in Polls, Vote(p) PROVE ReaderInv'
  <2>1. /\ ~ rows[p].final /\ UNCHANGED <<rows, reader>>
        /\ \A q \in Polls : votes'[q] = IF q = p THEN votes[p] + 1 ELSE votes[q]
    BY <1>0, <1>2 DEF Vote, TypeInv
  <2> QED
    BY <1>0, <1>k, <1>v, <2>1, RowsMove
<1>3. ASSUME NEW c \in Creators, Commit(c) PROVE ReaderInv'
  <2> DEFINE n == Min(Polls \ Known)
  <2>1. Polls \ Known \in SUBSET Nat /\ Polls \ Known # {}
    BY <1>3, <1>k, PollsAssumption DEF Commit
  <2>2. n \in Polls \ Known
    BY <2>1, LeastPoll
  <2>3. /\ UNCHANGED <<votes, reader>> /\ ~ Row(creator[c].start).final
        /\ \A q \in Polls : rows'[q] = IF q = n THEN Row(creator[c].start) ELSE rows[q]
    BY <1>0, <1>3 DEF Commit, TypeInv, Row
  <2> HIDE DEF n
  <2> QED
    BY <1>0, <1>k, <1>v, <2>2, <2>3, RowsMove
<1>4. ASSUME NEW w \in Workers, FinalizeNext(w) \/ PassFails(w) PROVE ReaderInv'
  <2>1. UNCHANGED <<votes, reader>> /\ rows' \in {rows, Finalized(Head(worker[w]))}
    BY <1>4 DEF FinalizeNext, PassFails
  <2>2. CASE rows' = rows
    BY <1>1, <2>1, <2>2
  <2>3. CASE rows' = Finalized(Head(worker[w]))
    <3> DEFINE h == Head(worker[w])
    <3>1. \A q \in Polls :
            \/ rows'[q] = rows[q]
            \/ /\ q = h /\ ~ rows[q].final /\ rows'[q].start = rows[q].start
               /\ rows'[q].used = rows[q].used /\ rows'[q].total = votes[q]
      BY <1>0, <2>3 DEF Finalized, TypeInv, Rows
    <3> QED
      BY <1>0, <1>k, <1>v, <2>1, <3>1, RowsMove
  <2> QED
    BY <2>1, <2>2, <2>3
<1>5. ASSUME NEW r \in Readers, Results(r) PROVE ReaderInv'
  BY <1>0, <1>5, ReaderMoves
<1>6. ASSUME NEW c \in Creators, Create(c), ~ Commit(c) PROVE UNCHANGED <<rows, votes, reader>>
  BY <1>6 DEF Create, Lock, ReadStart, TestOverlap, Insert, Rollback
<1>7. ASSUME NEW w \in Workers, Query(w) PROVE UNCHANGED <<rows, votes, reader>>
  BY <1>7 DEF Query
<1>8. Tick \/ UNCHANGED vars => UNCHANGED <<rows, votes, reader>>
  BY DEF Tick, vars
<1> QED
  BY <1>1, <1>2, <1>3, <1>4, <1>5, <1>6, <1>7, <1>8 DEF Next, FinalizeDue

\* What a reader answers follows from its snapshot.
LEMMA AnswersFollow == PollsInv /\ ReaderInv => ResultsAgree
<1> SUFFICES ASSUME PollsInv, ReaderInv, NEW r \in Readers
             PROVE  LET a == reader[r] IN
                    /\ a.pc \in Told => a.total = a.counts /\ a.total <= votes[Subject]
                    /\ a.pc = "final" => rows[Subject].final /\ a.total = rows[Subject].total
                    /\ a.pc = "processing" => a.at >= EndsAt(rows[Subject])
  BY DEF ResultsAgree, Told
<1> DEFINE a == reader[r]
<1>1. a.pc \in Told => SnapshotOK(a)
  BY DEF ReaderInv
<1>2. AnswerOK(a)
  BY DEF ReaderInv
<1>3. "final" \in Told /\ "processing" \in Told
  BY DEF Told
<1> QED
  BY <1>1, <1>2, <1>3 DEF SnapshotOK, AnswerOK, Taken, EndsAt

\* Results adds up and belongs to one moment, although votes, the finalizer and
\* creations go on between its statements: what it tells as final is the stored
\* result, and "processing" is told only after the end (store.go 347-369).
THEOREM ResultsAlwaysAgree == Spec => []ResultsAgree
<1> QED
  BY InitPollsInv, NextPollsInv, InitReader, NextReader, AnswersFollow, PTL DEF Spec
=============================================================================
