---------------------------- MODULE VoteLogProofs ----------------------------
(***************************************************************************)
(* Proofs about VoteLog for any partitions, jobs, sessions, poll           *)
(* definitions and faults: what a client was told is what a replay of the  *)
(* topic finds (ReceiptCounts, RefusedIsAbsent, ManifestIsFinal,           *)
(* SealConfirmsAll), the topic can always be replayed (JournalReplays), a  *)
(* vote that counts goes on counting (FirstChoiceStays), and the books of  *)
(* a writer balance (JobsAccounted).                                       *)
(*                                                                         *)
(* The argument is the one of fencing.  The open records of a partition    *)
(* are the last of its journal and belong to the producer the brokers      *)
(* accept (LogOK), so only that producer's owner needs to know where the   *)
(* journal ends (OwnerOK): it writes behind its own BOOT, and finds no     *)
(* CLOSED there, since it has read its journal up to the barrier and has   *)
(* been the only one to write since.  What an owner has seen committed     *)
(* outlives its fencing, because a journal only grows (KnownOK, Grows).    *)
(* The answers follow: a receipt names a committed vote, a refused job was *)
(* never admitted and so is nowhere, and an owner that answers "unknown"   *)
(* has a broken writer, which never commits CLOSED (UnknownInv).           *)
(*                                                                         *)
(* The books are an argument of their own.  A job is in one place of its   *)
(* writer, there once and unanswered; so the votes of a place are the size *)
(* of a set, and each counter of the writer is such a size (BooksInv).     *)
(***************************************************************************)
EXTENDS VoteLog, FiniteSetTheorems, SequenceTheorems, WellFoundedInduction, TLAPS

-----------------------------------------------------------------------------
(* Types *)

JobsOf(p) == {j \in Jobs : Target(j) = p}
Writers(p) ==
    [pc : {"off", "init", "produce", "end", "ack", "acked", "booted", "unbooted", "select",
           "failing", "done"},
     kind : {"boot", "vote", "closed"}, first : Nat, mu : JobsOf(p) \cup {NoJob},
     closing : BOOLEAN, sealed : BOOLEAN, failed : BOOLEAN, end : Nat,
     jobs : Seq(JobsOf(p)), queued : Int, seal : BOOLEAN, drain : BOOLEAN,
     batch : Seq(JobsOf(p)), votes : Int, hand : JobsOf(p) \cup {NoJob}]
Records ==
    [cfg : {ConfigOf[s] : s \in Sessions}, by : Sessions, kind : {"boot", "vote", "closed"},
     job : Jobs \cup {NoJob}, st : {"open", "committed", "aborted"}]

TypeInv ==
    /\ log \in [Partitions -> Seq(Records)]
    /\ epoch \in [Partitions -> 0 .. MaxSession]
    /\ ending \in [Partitions -> BOOLEAN]
    /\ session \in [Sessions -> {"idle", "boot", "up", "stopped", "dead"}]
    /\ DOMAIN wr = Sessions
    /\ \A s \in Sessions : DOMAIN wr[s] = Partitions
    /\ home \in [Jobs -> 0 .. MaxSession]
    /\ DOMAIN reply = Jobs /\ DOMAIN result = Jobs /\ DOMAIN manifest = Sessions

-----------------------------------------------------------------------------
(* The journal of a partition *)

CommittedAt(l, i, k) == l[i].st = "committed" /\ l[i].kind = k
BootBy(l, i, s)      == CommittedAt(l, i, "boot") /\ l[i].by = s
HasClosed(l)         == \E i \in 1 .. Len(l) : CommittedAt(l, i, "closed")

\* What is open is at the end and belongs to the producer the broker accepts; owners
\* come one after the other; nothing but BOOT follows CLOSED, not even in an open
\* transaction; and an owner writes after its own barrier.
LogOK(l, e) ==
    /\ \A i \in 1 .. Len(l) : l[i].by <= e /\ (l[i].st = "open" => l[i].by = e)
    /\ \A i, k \in 1 .. Len(l) : i < k =>
         /\ l[i].st = "open" => l[k].st = "open"
         /\ l[i].by <= l[k].by
         /\ l[i].kind = "closed" /\ l[i].st # "aborted" /\ l[k].st # "aborted" => l[k].kind = "boot"
    /\ \A i \in 1 .. Len(l) : l[i].kind # "boot" => \E k \in 1 .. i - 1 : BootBy(l, k, l[i].by)
LogInv == \A p \in Partitions : LogOK(log[p], epoch[p])

\* Every record is of the poll of its session, all of the same poll, and of the one
\* every session that has not ended was started with.
PollInv ==
    \A s \in Sessions : Alive(s) =>
        \A p \in Partitions : \A i \in 1 .. Len(log[p]) : log[p][i].cfg = ConfigOf[s]
OnePollInv ==
    \A p, q \in Partitions : \A i \in 1 .. Len(log[p]), k \in 1 .. Len(log[q]) :
        log[p][i].cfg = log[q][k].cfg

-----------------------------------------------------------------------------
(* Sessions *)

\* Only one New runs at a time, and no session before it is still to start.
BootInv ==
    /\ \A s \in Sessions : session[s] \in {"idle", "boot"} =>
         \A t \in Sessions : t > s => session[t] = "idle"
    /\ \A p \in Partitions : epoch[p] # 0 => session[epoch[p]] # "idle"

Fresh(w) ==
    /\ w.jobs = <<>> /\ w.batch = <<>> /\ w.hand = NoJob /\ w.mu = NoJob
    /\ ~ w.closing /\ ~ w.sealed /\ ~ w.failed /\ ~ w.seal /\ ~ w.drain
Quiet(w) ==
    /\ w.jobs = <<>> /\ w.batch = <<>> /\ w.hand = NoJob /\ w.mu = NoJob
    /\ ~ w.seal /\ ~ w.drain

\* Where a writer of a session with status ss may be.
PhaseOK(w, ss) ==
    /\ ss \in {"idle", "dead"} => ~ w.sealed
    /\ ss = "idle" => w.pc = "off"
    /\ ss = "boot" =>
         /\ w.pc \in {"init", "produce", "end", "ack", "acked", "booted", "unbooted"}
         /\ w.kind = "boot" /\ Fresh(w)
    /\ ss \in {"up", "stopped"} =>
         /\ w.pc \in {"select", "produce", "end", "ack", "acked", "failing", "done"}
         /\ InTransaction(w) => w.kind \in {"vote", "closed"}
         /\ w.closing => w.mu = NoJob
         /\ w.seal \/ w.drain => w.closing
         /\ w.kind = "closed" => w.closing /\ LeftOver(w) = {} /\ w.pc # "select"
         /\ w.sealed /\ w.pc # "done" => w.pc = "select" /\ Quiet(w)

-----------------------------------------------------------------------------
(* Transactions *)

\* The records of a transaction are in the log, from w.first on.
Placed(w, l, s) ==
    /\ w.first \in 1 .. Len(l) + 1 /\ w.first + Len(Kinds(w)) - 1 <= Len(l)
    /\ \A i \in 1 .. Len(Kinds(w)) : LET r == l[w.first + i - 1] IN
         r.by = s /\ r.kind = w.kind /\ r.job = Kinds(w)[i]
Settled(w, l, st) == \A i \in 1 .. Len(Kinds(w)) : l[w.first + i - 1].st = st
AtEnd(w, l) == w.first + Len(Kinds(w)) - 1 = Len(l)

\* What a writer knows of its journal stays true when another owner takes over.
KnownOK(w, l, ss, s) ==
    /\ ss \in {"boot", "up", "stopped"} /\ w.pc = "acked" => Placed(w, l, s) /\ Settled(w, l, "committed")
    /\ ss = "boot" /\ w.pc = "booted" => w.first \in 1 .. Len(l) /\ BootBy(l, w.first, s)
    /\ ss \in {"up", "stopped"} => \E k \in 1 .. Len(l) : BootBy(l, k, s)
    /\ ss \in {"up", "stopped"} /\ w.sealed => w.end \in 1 .. Len(l) /\ CommittedAt(l, w.end, "closed")

\* And what is true of the writer whose producer the broker accepts.
OwnerOK(w, l, x, ss) ==
    /\ w.pc # "init"
    /\ w.pc \in {"produce", "select", "acked", "booted"} => \A i \in 1 .. Len(l) : l[i].st # "open"
    /\ w.pc \in {"end", "ack"} =>
         /\ AtEnd(w, l)
         /\ \A i \in 1 .. w.first - 1 : l[i].st # "open"
         /\ Settled(w, l, "open") \/ (w.pc = "end" /\ Settled(w, l, "aborted"))
    /\ w.pc = "ack" => x
    /\ x => w.pc \in {"ack", "failing", "done", "unbooted"}
    /\ w.kind = "boot" /\ w.pc \in {"acked", "booted"} => w.first = Len(l)
    /\ HasClosed(l) /\ ss \in {"up", "stopped"} =>
         w.sealed \/ w.pc \in {"failing", "done"} \/ (w.pc = "acked" /\ w.kind = "closed")
WriterOK(w, l, x, e, ss, s, p) ==
    /\ w \in Writers(p)
    /\ PhaseOK(w, ss)
    /\ KnownOK(w, l, ss, s)
    /\ ss \in {"boot", "up", "stopped"} /\ e = s =>
         /\ OwnerOK(w, l, x, ss)
         /\ w.pc \in {"end", "ack"} => Placed(w, l, s)
    /\ ss = "boot" /\ w.pc \notin {"init", "unbooted"} => e = s
WriterInv == \A s \in Sessions, p \in Partitions : 
    WriterOK(W(s, p), log[p], ending[p], epoch[p], session[s], s, p)

-----------------------------------------------------------------------------
(* Jobs *)

HeldBy(w) == LeftOver(w) \cup ({w.mu} \ {NoJob})
HomeInv ==
    /\ \A s \in Sessions, p \in Partitions : \A j \in HeldBy(W(s, p)) : home[j] = s
    /\ \A j \in Jobs : home[j] # 0 => session[home[j]] \notin {"idle", "boot"}
Nowhere(j) ==
    /\ \A p \in Partitions : \A i \in 1 .. Len(log[p]) : log[p][i].job # j
    /\ \A s \in Sessions, p \in Partitions : j \notin HeldBy(W(s, p))
NowhereInv ==
    /\ \A j \in Jobs : result[j].kind \in {"none", "closed", "not_open", "busy"} => Nowhere(j)
    /\ \A j \in Jobs : result[j].kind = "none" => reply[j].kind = "none"
    /\ \A j \in Jobs : reply[j].kind \in {"unknown", "receipt"} \/ reply[j] = Unanswered
Counts(r, j) ==
    r.kind = "receipt" =>
        /\ r.partition = Target(j) /\ r.offset \in 1 .. Len(log[Target(j)])
        /\ CommittedAt(log[Target(j)], r.offset, "vote") /\ log[Target(j)][r.offset].job = j
CountInv == \A j \in Jobs : Counts(reply[j], j) /\ Counts(result[j], j)
\* A writer that has failed, or stopped without CLOSED.
Broken(w) == w.pc \in {"failing", "done"} /\ ~ (w.sealed /\ w.kind = "closed")
UnknownInv ==
    \A j \in Jobs : reply[j].kind = "unknown" /\ home[j] # 0 /\ Running(home[j]) =>
        Broken(W(home[j], Target(j)))
SealedInv ==
    \A s \in Sessions : manifest[s] # <<>> =>
        \A p \in Partitions : manifest[s][p] \in 1 .. Len(log[p])
                              /\ CommittedAt(log[p], manifest[s][p], "closed")

OwnersInv ==
    /\ TypeInv /\ LogInv /\ PollInv /\ OnePollInv /\ BootInv /\ WriterInv
    /\ HomeInv /\ NowhereInv /\ CountInv /\ UnknownInv /\ SealedInv

-----------------------------------------------------------------------------
(* The constants *)

\* A job carries a vote at least, and the name for no job is no job's.
LEMMA ConstantFacts ==
    /\ MaxSession \in Nat \ {0} /\ Sessions = 1 .. MaxSession /\ NoJob \notin Jobs
    /\ BatchSize \in Nat \ {0}
    /\ \A j \in Jobs : Size(j) \in Nat \ {0}
  BY SizeAssumption, JobAssumption, SessionAssumption DEF ValidConfig, Sessions

\* A transaction writes its batch of votes, or one BOOT or CLOSED record.
LEMMA KindsFacts ==
    ASSUME NEW p \in Partitions, NEW w \in Writers(p)
    PROVE  /\ Kinds(w) \in Seq(Jobs \cup {NoJob})
           /\ w.kind # "vote" => Len(Kinds(w)) = 1 /\ Kinds(w)[1] = NoJob
<1>1. JobsOf(p) \subseteq Jobs \cup {NoJob} /\ NoJob \in Jobs \cup {NoJob}
  BY DEF JobsOf
<1>2. w.batch \in Seq(JobsOf(p))
  BY DEF Writers
<1>3. w.batch \in Seq(Jobs \cup {NoJob})
  BY <1>1, <1>2, SeqMonotonic
<1>4. <<NoJob>> \in Seq(Jobs \cup {NoJob}) /\ Len(<<NoJob>>) = 1 /\ <<NoJob>>[1] = NoJob
  BY <1>1
<1>5. CASE w.kind = "vote"
  BY <1>3, <1>5 DEF Kinds
<1>6. CASE w.kind # "vote"
  <2>1. Kinds(w) = <<NoJob>>
    BY <1>6 DEF Kinds
  <2> QED
    BY <1>4, <2>1
<1> QED
  BY <1>5, <1>6

\* The fields of the records of a journal.
LEMMA RecordFacts ==
    ASSUME NEW l \in Seq(Records)
    PROVE  \A i \in 1 .. Len(l) :
             /\ l[i] \in Records /\ l[i].by \in Sessions /\ l[i].by \in Nat
             /\ l[i].kind \in {"boot", "vote", "closed"}
             /\ l[i].st \in {"open", "committed", "aborted"}
<1> TAKE i \in 1 .. Len(l)
<1>1. l[i] \in Records
  OBVIOUS
<1>2. /\ l[i].by \in Sessions /\ l[i].kind \in {"boot", "vote", "closed"}
      /\ l[i].st \in {"open", "committed", "aborted"}
  BY <1>1 DEF Records
<1> QED
  BY <1>1, <1>2, ConstantFacts

-----------------------------------------------------------------------------
(* How a journal changes *)

\* A journal only grows: its records keep what they are, and what is settled stays so.
Grows(l, m) ==
    /\ Len(l) <= Len(m)
    /\ \A i \in 1 .. Len(l) :
         /\ m[i].by = l[i].by /\ m[i].kind = l[i].kind /\ m[i].job = l[i].job
         /\ m[i].cfg = l[i].cfg
         /\ l[i].st # "open" => m[i].st = l[i].st

\* Ending a transaction settles its open records and changes nothing else.
LEMMA SettleFacts ==
    ASSUME NEW l \in Seq(Records), NEW st \in {"committed", "aborted"}
    PROVE  /\ Settle(l, st) \in Seq(Records) /\ Len(Settle(l, st)) = Len(l)
           /\ Grows(l, Settle(l, st))
           /\ \A i \in 1 .. Len(l) :
                Settle(l, st)[i].st = IF l[i].st = "open" THEN st ELSE l[i].st
<1>1. DOMAIN l = 1 .. Len(l) /\ Len(l) \in Nat
  OBVIOUS
<1>2. \A i \in 1 .. Len(l) : l[i] \in Records
  OBVIOUS
<1> DEFINE f(i) == IF l[i].st = "open" THEN [l[i] EXCEPT !.st = st] ELSE l[i]
<1>3. \A i \in 1 .. Len(l) :
        /\ f(i) \in Records /\ f(i).st = (IF l[i].st = "open" THEN st ELSE l[i].st)
        /\ f(i).by = l[i].by /\ f(i).kind = l[i].kind /\ f(i).job = l[i].job
        /\ f(i).cfg = l[i].cfg
  BY <1>2 DEF Records
<1>4. Settle(l, st) = [i \in 1 .. Len(l) |-> f(i)]
  BY <1>1 DEF Settle
<1> HIDE DEF f
<1>5. /\ Settle(l, st) \in Seq(Records) /\ Len(Settle(l, st)) = Len(l)
      /\ \A i \in 1 .. Len(l) : Settle(l, st)[i] = f(i)
  BY <1>1, <1>3, <1>4
<1> QED
  BY <1>1, <1>3, <1>5 DEF Grows

NewRecords(w, s) == [i \in DOMAIN Kinds(w) |-> Record(s, w.kind, Kinds(w)[i])]
\* Producing appends the records of the transaction, open and in order.
LEMMA ProduceFacts ==
    ASSUME NEW p \in Partitions, NEW w \in Writers(p), NEW s \in Sessions,
           NEW l \in Seq(Records)
    PROVE  LET m == l \o NewRecords(w, s) IN
           /\ m \in Seq(Records) /\ Len(m) = Len(l) + Len(Kinds(w)) /\ Grows(l, m)
           /\ \A i \in 1 .. Len(l) : m[i] = l[i]
           /\ \A i \in 1 .. Len(Kinds(w)) :
                m[Len(l) + i] = Record(s, w.kind, Kinds(w)[i])
<1> DEFINE g == NewRecords(w, s)
<1>1. /\ Kinds(w) \in Seq(Jobs \cup {NoJob}) /\ DOMAIN Kinds(w) = 1 .. Len(Kinds(w))
      /\ Len(Kinds(w)) \in Nat
  BY KindsFacts
<1>2. w.kind \in {"boot", "vote", "closed"}
  BY DEF Writers
<1>3. \A i \in 1 .. Len(Kinds(w)) : Record(s, w.kind, Kinds(w)[i]) \in Records
  BY <1>1, <1>2 DEF Record, Records
<1>4. /\ g \in Seq(Records) /\ Len(g) = Len(Kinds(w))
      /\ \A i \in 1 .. Len(g) : g[i] = Record(s, w.kind, Kinds(w)[i])
  BY <1>1, <1>3 DEF NewRecords
<1> HIDE DEF g
<1>5. /\ l \o g \in Seq(Records) /\ Len(l \o g) = Len(l) + Len(g)
      /\ \A i \in 1 .. Len(l) + Len(g) :
           (l \o g)[i] = IF i <= Len(l) THEN l[i] ELSE g[i - Len(l)]
  BY <1>4, ConcatProperties
<1>6. Len(l) \in Nat /\ Len(g) \in Nat
  BY <1>4
<1>7. \A i \in 1 .. Len(l) : (l \o g)[i] = l[i]
  BY <1>5, <1>6
<1>8. ASSUME NEW i \in 1 .. Len(g) PROVE (l \o g)[Len(l) + i] = g[i]
  <2>1. Len(l) + i \in 1 .. Len(l) + Len(g) /\ ~ Len(l) + i <= Len(l) /\ Len(l) + i - Len(l) = i
    BY <1>6
  <2> QED
    BY <1>5, <2>1
<1> QED
  BY <1>4, <1>5, <1>6, <1>7, <1>8 DEF Grows, g

-----------------------------------------------------------------------------
(* A journal stays in order *)

\* A journal stays in order when its open transaction ends, and when its producer is
\* replaced afterwards.
LEMMA LogSettled ==
    ASSUME NEW l \in Seq(Records), NEW e \in Nat, NEW d \in Nat, LogOK(l, e), e <= d,
           NEW st \in {"committed", "aborted"}
    PROVE  LogOK(Settle(l, st), d)
<1> DEFINE m == Settle(l, st)
<1>1. /\ Len(m) = Len(l) /\ Len(l) \in Nat
      /\ \A i \in 1 .. Len(l) :
           /\ m[i].by = l[i].by /\ m[i].kind = l[i].kind
           /\ m[i].st = IF l[i].st = "open" THEN st ELSE l[i].st
  BY SettleFacts DEF Grows
<1>2. \A i \in 1 .. Len(l) : l[i].by \in Nat
  BY RecordFacts
<1> HIDE DEF m
<1>3. \A i \in 1 .. Len(m) : m[i].by <= d /\ m[i].st # "open"
  BY <1>1, <1>2 DEF LogOK
<1>4. ASSUME NEW i \in 1 .. Len(m), NEW k \in 1 .. Len(m), i < k
      PROVE  /\ m[i].by <= m[k].by
             /\ m[i].kind = "closed" /\ m[i].st # "aborted" /\ m[k].st # "aborted"
                  => m[k].kind = "boot"
  BY <1>1, <1>4 DEF LogOK
<1>5. ASSUME NEW i \in 1 .. Len(m), m[i].kind # "boot"
      PROVE  \E k \in 1 .. i - 1 : BootBy(m, k, m[i].by)
  <2>1. PICK k \in 1 .. i - 1 : BootBy(l, k, l[i].by)
    BY <1>1, <1>5 DEF LogOK
  <2>2. k \in 1 .. Len(l)
    BY <1>1
  <2> QED
    BY <1>1, <2>1, <2>2 DEF BootBy, CommittedAt
<1>6. LogOK(m, d)
  BY <1>3, <1>4, <1>5 DEF LogOK
<1> QED
  BY <1>6 DEF m

\* A journal stays in order when the owner whose producer is accepted writes behind its
\* own barrier.
LEMMA LogProduced ==
    ASSUME NEW p \in Partitions, NEW w \in Writers(p), NEW s \in Sessions,
           NEW l \in Seq(Records), LogOK(l, s), \A i \in 1 .. Len(l) : l[i].st # "open",
           w.kind # "boot" => ~ HasClosed(l) /\ \E k \in 1 .. Len(l) : BootBy(l, k, s)
    PROVE  LogOK(l \o NewRecords(w, s), s)
<1> DEFINE m == l \o NewRecords(w, s)
           n == Len(Kinds(w))
<1>1. /\ Len(m) = Len(l) + n /\ Len(l) \in Nat /\ n \in Nat
      /\ \A i \in 1 .. Len(l) : m[i] = l[i]
      /\ \A i \in 1 .. n : m[Len(l) + i] = Record(s, w.kind, Kinds(w)[i])
      /\ w.kind # "vote" => n = 1
  BY ProduceFacts, KindsFacts
<1>2. s \in Nat /\ \A i \in 1 .. Len(l) : l[i].by \in Nat /\ l[i].by <= s
                    /\ l[i].st \in {"committed", "aborted"}
  BY RecordFacts, ConstantFacts DEF LogOK
<1> HIDE DEF m, n
<1>3. ASSUME NEW i \in Len(l) + 1 .. Len(m)
      PROVE  m[i].by = s /\ m[i].st = "open" /\ m[i].kind = w.kind
  <2>1. PICK k \in 1 .. n : i = Len(l) + k
    <3>1. i - Len(l) \in 1 .. n /\ i = Len(l) + (i - Len(l))
      BY <1>1
    <3> QED
      BY <3>1
  <2>2. m[i] = Record(s, w.kind, Kinds(w)[k])
    BY <1>1, <2>1
  <2> QED
    BY <2>2 DEF Record
<1>4. \A i \in 1 .. Len(m) : i \in 1 .. Len(l) \/ i \in Len(l) + 1 .. Len(m)
  BY <1>1
<1>5. ASSUME NEW i \in 1 .. Len(m) PROVE m[i].by <= s /\ (m[i].st = "open" => m[i].by = s)
  BY <1>1, <1>2, <1>3, <1>4
<1>6. ASSUME NEW i \in 1 .. Len(m), NEW k \in 1 .. Len(m), i < k
      PROVE  /\ m[i].st = "open" => m[k].st = "open"
             /\ m[i].by <= m[k].by
             /\ m[i].kind = "closed" /\ m[i].st # "aborted" /\ m[k].st # "aborted"
                  => m[k].kind = "boot"
  <2>1. CASE k \in 1 .. Len(l)
    <3>1. i \in 1 .. Len(l)
      BY <1>1, <1>6, <2>1
    <3> QED
      BY <1>1, <1>6, <2>1, <3>1, SMTT(30) DEF LogOK
  <2>2. CASE k \in Len(l) + 1 .. Len(m) /\ i \in 1 .. Len(l)
    BY <1>1, <1>2, <1>3, <2>2 DEF HasClosed, CommittedAt
  <2>3. CASE k \in Len(l) + 1 .. Len(m) /\ i \in Len(l) + 1 .. Len(m)
    <3>1. n > 1
      BY <1>1, <1>6, <2>3
    <3> QED
      BY <1>1, <1>2, <1>3, <2>3, <3>1
  <2> QED
    BY <1>4, <2>1, <2>2, <2>3
<1>7. ASSUME NEW i \in 1 .. Len(m), m[i].kind # "boot"
      PROVE  \E k \in 1 .. i - 1 : BootBy(m, k, m[i].by)
  <2>1. CASE i \in 1 .. Len(l)
    <3>1. PICK k \in 1 .. i - 1 : BootBy(l, k, l[i].by)
      BY <1>1, <1>7, <2>1 DEF LogOK
    <3>2. k \in 1 .. Len(l)
      BY <1>1, <2>1
    <3> QED
      BY <1>1, <2>1, <3>1, <3>2 DEF BootBy, CommittedAt
  <2>2. CASE i \in Len(l) + 1 .. Len(m)
    <3>1. PICK k \in 1 .. Len(l) : BootBy(l, k, s)
      BY <1>3, <1>7, <2>2
    <3>2. k \in 1 .. i - 1 /\ m[k] = l[k] /\ m[i].by = s
      BY <1>1, <1>3, <2>2
    <3> QED
      BY <3>1, <3>2 DEF BootBy, CommittedAt
  <2> QED
    BY <1>4, <2>1, <2>2
<1>8. LogOK(m, s)
  BY <1>5, <1>6, <1>7 DEF LogOK
<1> QED
  BY <1>8 DEF m

\* What a writer knows survives whatever is written behind it.
LEMMA KnownGrows ==
    ASSUME NEW p \in Partitions, NEW w \in Writers(p), NEW s, NEW ss,
           NEW l \in Seq(Records), NEW m \in Seq(Records), Grows(l, m)
    PROVE  /\ Placed(w, l, s) => Placed(w, m, s)
           /\ KnownOK(w, l, ss, s) => KnownOK(w, m, ss, s)
<1>1. /\ Len(l) \in Nat /\ Len(m) \in Nat /\ Len(l) <= Len(m) /\ Len(Kinds(w)) \in Nat
      /\ w.first \in Nat /\ w.end \in Nat
  BY KindsFacts DEF Grows, Writers
<1>2. ASSUME Placed(w, l, s)
      PROVE  /\ Placed(w, m, s)
             /\ Settled(w, l, "committed") => Settled(w, m, "committed")
  <2>1. \A i \in 1 .. Len(Kinds(w)) : w.first + i - 1 \in 1 .. Len(l)
    BY <1>1, <1>2 DEF Placed
  <2>2. w.first \in 1 .. Len(m) + 1 /\ w.first + Len(Kinds(w)) - 1 <= Len(m)
    BY <1>1, <1>2 DEF Placed
  <2>3. \A i \in 1 .. Len(Kinds(w)) : LET r == m[w.first + i - 1] IN
          r.by = s /\ r.kind = w.kind /\ r.job = Kinds(w)[i]
    BY <1>2, <2>1 DEF Placed, Grows
  <2>4. Settled(w, l, "committed") => Settled(w, m, "committed")
    BY <2>1 DEF Settled, Grows
  <2> QED
    BY <2>2, <2>3, <2>4 DEF Placed
<1>3. \A i \in 1 .. Len(l) :
        /\ i \in 1 .. Len(m)
        /\ BootBy(l, i, s) => BootBy(m, i, s)
        /\ CommittedAt(l, i, "closed") => CommittedAt(m, i, "closed")
  BY <1>1 DEF Grows, BootBy, CommittedAt
<1> QED
  BY <1>2, <1>3 DEF KnownOK

-----------------------------------------------------------------------------
(* The steps, grouped by what they change *)

\* What changes one writer, and what its jobs are answered, and nothing else.
Loop(s, p) ==
    \/ Take(s, p) \/ TakeHand(s, p) \/ Tick(s, p) \/ SeeSeal(s, p) \/ Finish(s, p)
    \/ Confirm(s, p) \/ CommitFails(s, p) \/ Fail(s, p) \/ SeeStop(s, p)
    \/ ProducerIDFails(s, p) \/ SealGate(s, p)
Aside ==
    \/ \E s \in Sessions : SealWaits(s) \/ SealReturns(s) \/ SealGivesUp(s)
    \/ \E t \in Clock : ClockMoves(t)

\* Every step is one of these.
LEMMA StepCases ==
    ASSUME Next
    PROVE  \/ \E s \in Sessions, p \in Partitions : Alive(s) /\ Loop(s, p)
           \/ \E s \in Sessions, p \in Partitions : Alive(s) /\ EndTransaction(s, p)
           \/ \E s \in Sessions, p \in Partitions : Alive(s) /\ Produce(s, p)
           \/ \E s \in Sessions, p \in Partitions : Alive(s) /\ ProducerID(s, p)
           \/ \E p \in Partitions : BrokerCommits(p) \/ BrokerAborts(p)
           \/ \E j \in Jobs, s \in Sessions : Admit(j, s)
           \/ \E j \in Jobs : Enqueue(j) \/ Receive(j) \/ GiveUp(j)
           \/ \E s \in Sessions : New(s) \/ Barriers(s) \/ NewFails(s) \/ Close(s) \/ Crash(s)
           \/ Aside
<1>1. ASSUME NEW s \in Sessions, NEW j \in Jobs, Submit(j, s) \/ SubmitFrame(j, s)
      PROVE  Admit(j, s)
  BY <1>1 DEF Submit, SubmitFrame
<1>2. ASSUME NEW s \in Sessions, NEW p \in Partitions,
             Alive(s) /\ (WriterStep(s, p) \/ Boots(s, p))
      PROVE  Alive(s) /\ (Loop(s, p) \/ EndTransaction(s, p) \/ Produce(s, p) \/ ProducerID(s, p))
  BY <1>2 DEF WriterStep, Boots, Loop
<1>3. ASSUME NEW s \in Sessions, NEW p \in Partitions, SealGate(s, p)
      PROVE  Alive(s) /\ Loop(s, p)
  BY <1>3 DEF SealGate, Running, Alive, Loop
<1> QED
  BY <1>1, <1>2, <1>3 DEF Next, Aside

\* One writer is assigned.
LEMMA WriterSet ==
    ASSUME TypeInv, NEW s, NEW p, NEW v, SetW(s, p, v)
    PROVE  /\ DOMAIN wr' = Sessions
           /\ \A t \in Sessions : DOMAIN wr'[t] = Partitions
           /\ \A t \in Sessions, q \in Partitions :
                wr'[t][q] = IF t = s /\ q = p THEN v ELSE wr[t][q]
<1>1. DOMAIN wr = Sessions /\ \A t \in Sessions : DOMAIN wr[t] = Partitions
  BY DEF TypeInv
<1>2. wr' = [wr EXCEPT ![s] = [wr[s] EXCEPT ![p] = v]]
  BY DEF SetW
<1>3. DOMAIN wr' = Sessions
  BY <1>1, <1>2
<1>4. ASSUME NEW t \in Sessions
      PROVE  wr'[t] = IF t = s THEN [wr[s] EXCEPT ![p] = v] ELSE wr[t]
  BY <1>1, <1>2, <1>4
<1> QED
  BY <1>1, <1>3, <1>4

\* What Loop leaves alone.
LEMMA LoopFrame ==
    ASSUME NEW s \in Sessions, NEW p \in Partitions, Loop(s, p)
    PROVE  UNCHANGED <<log, epoch, ending, session, home, result, manifest>>
<1>1. ASSUME Take(s, p) \/ TakeHand(s, p) \/ Tick(s, p) \/ SeeSeal(s, p) \/ Finish(s, p)
      PROVE  UNCHANGED <<log, epoch, ending, session, home, result, manifest>>
  BY <1>1 DEF Take, TakeHand, Tick, SeeSeal, Finish
<1>2. ASSUME Confirm(s, p) \/ CommitFails(s, p) \/ ProducerIDFails(s, p) \/ SealGate(s, p)
      PROVE  UNCHANGED <<log, epoch, ending, session, home, result, manifest>>
  BY <1>2 DEF Confirm, CommitFails, ProducerIDFails, SealGate
<1>3. ASSUME Fail(s, p) \/ SeeStop(s, p)
      PROVE  UNCHANGED <<log, epoch, ending, session, home, result, manifest>>
  BY <1>3 DEF Fail, SeeStop, Exit
<1> QED
  BY <1>1, <1>2, <1>3 DEF Loop

\* The journal of one partition is written.
LEMMA LogMove ==
    ASSUME TypeInv, NEW p \in Partitions, NEW m \in Seq(Records),
           log' = [log EXCEPT ![p] = m], Grows(log[p], m)
    PROVE  /\ log' \in [Partitions -> Seq(Records)] /\ log'[p] = m
           /\ \A q \in Partitions : q # p => log'[q] = log[q]
           /\ \A q \in Partitions : Grows(log[q], log'[q])
<1>1. log \in [Partitions -> Seq(Records)]
  BY DEF TypeInv
<1>2. /\ log' \in [Partitions -> Seq(Records)] /\ log'[p] = m
      /\ \A q \in Partitions : q # p => log'[q] = log[q]
  BY <1>1
<1>3. ASSUME NEW q \in Partitions, q # p PROVE Grows(log[q], log'[q])
  <2>1. log[q] \in Seq(Records) /\ Len(log[q]) \in Nat
    BY <1>1
  <2> QED
    BY <1>2, <1>3, <2>1 DEF Grows
<1> QED
  BY <1>2, <1>3

\* The four steps that write a journal.
LEMMA LogMoves ==
    ASSUME TypeInv, WriterInv, NEW p \in Partitions, NEW s \in Sessions
    PROVE  /\ Produce(s, p) => LET m == log[p] \o NewRecords(W(s, p), s) IN
                /\ m \in Seq(Records) /\ Grows(log[p], m) /\ log' = [log EXCEPT ![p] = m]
           /\ BrokerCommits(p) => LET m == Settle(log[p], "committed") IN
                /\ m \in Seq(Records) /\ Grows(log[p], m) /\ log' = [log EXCEPT ![p] = m]
           /\ BrokerAborts(p) \/ ProducerID(s, p) => LET m == Settle(log[p], "aborted") IN
                /\ m \in Seq(Records) /\ Grows(log[p], m) /\ log' = [log EXCEPT ![p] = m]
<1>1. log[p] \in Seq(Records) /\ W(s, p) \in Writers(p)
  BY DEF TypeInv, WriterInv, WriterOK
<1>2. ASSUME Produce(s, p) PROVE log' = [log EXCEPT ![p] = log[p] \o NewRecords(W(s, p), s)]
  BY <1>2 DEF Produce, NewRecords
<1>3. ASSUME BrokerCommits(p) PROVE log' = [log EXCEPT ![p] = Settle(log[p], "committed")]
  BY <1>3 DEF BrokerCommits
<1>4. ASSUME BrokerAborts(p) \/ ProducerID(s, p)
      PROVE  log' = [log EXCEPT ![p] = Settle(log[p], "aborted")]
  BY <1>4 DEF BrokerAborts, ProducerID, Fence
<1>5. /\ log[p] \o NewRecords(W(s, p), s) \in Seq(Records)
      /\ Grows(log[p], log[p] \o NewRecords(W(s, p), s))
  BY <1>1, ProduceFacts
<1>6. \A st \in {"committed", "aborted"} :
        Settle(log[p], st) \in Seq(Records) /\ Grows(log[p], Settle(log[p], st))
  BY <1>1, SettleFacts
<1> QED
  BY <1>2, <1>3, <1>4, <1>5, <1>6

\* What the other steps leave alone.
LEMMA StepFrames ==
    /\ \A s \in Sessions, p \in Partitions :
         /\ EndTransaction(s, p) =>
              UNCHANGED <<log, epoch, session, home, reply, result, manifest>>
         /\ Produce(s, p) =>
              UNCHANGED <<epoch, ending, session, home, reply, result, manifest>>
         /\ ProducerID(s, p) => UNCHANGED <<session, home, reply, result, manifest>>
    /\ \A p \in Partitions : BrokerCommits(p) \/ BrokerAborts(p) =>
         UNCHANGED <<epoch, session, home, reply, result, manifest>>
    /\ \A j \in Jobs : (\E s \in Sessions : Admit(j, s)) \/ Enqueue(j) \/ Receive(j) \/ GiveUp(j) =>
         UNCHANGED <<log, epoch, ending, session, reply, manifest>>
    /\ \A s \in Sessions : New(s) \/ Barriers(s) \/ NewFails(s) \/ Close(s) \/ Crash(s) =>
         UNCHANGED <<log, epoch, ending, home, manifest>>
    /\ Aside => UNCHANGED <<log, epoch, ending, session, wr, home, reply, result>>
<1>1. \A s \in Sessions, p \in Partitions :
         /\ EndTransaction(s, p) =>
              UNCHANGED <<log, epoch, session, home, reply, result, manifest>>
         /\ Produce(s, p) =>
              UNCHANGED <<epoch, ending, session, home, reply, result, manifest>>
         /\ ProducerID(s, p) => UNCHANGED <<session, home, reply, result, manifest>>
  BY DEF EndTransaction, Produce, ProducerID
<1>2. \A p \in Partitions : BrokerCommits(p) \/ BrokerAborts(p) =>
         UNCHANGED <<epoch, session, home, reply, result, manifest>>
  BY DEF BrokerCommits, BrokerAborts
<1>3. \A j \in Jobs : (\E s \in Sessions : Admit(j, s)) \/ Enqueue(j) \/ Receive(j) \/ GiveUp(j) =>
         UNCHANGED <<log, epoch, ending, session, reply, manifest>>
  BY DEF Admit, Enqueue, Receive, GiveUp
<1>4. \A s \in Sessions : New(s) \/ Barriers(s) \/ NewFails(s) \/ Close(s) \/ Crash(s) =>
         UNCHANGED <<log, epoch, ending, home, manifest>>
  BY DEF New, Barriers, NewFails, Close, Crash
<1>5. Aside => UNCHANGED <<log, epoch, ending, session, wr, home, reply, result>>
  BY DEF Aside, SealWaits, SealReturns, SealGivesUp, ClockMoves
<1> QED
  BY <1>1, <1>2, <1>3, <1>4, <1>5

\* The steps that write no journal.
LEMMA QuietLog ==
    ASSUME Next
    PROVE  \/ UNCHANGED <<log, epoch>>
           \/ \E s \in Sessions, p \in Partitions :
                \/ Alive(s) /\ (Produce(s, p) \/ ProducerID(s, p))
                \/ BrokerCommits(p) \/ BrokerAborts(p)
<1>1. ASSUME NEW s \in Sessions, NEW p \in Partitions, Loop(s, p)
      PROVE  UNCHANGED <<log, epoch>>
  BY <1>1, LoopFrame
<1>2. 1 \in Sessions
  BY ConstantFacts
<1> QED
  BY <1>1, <1>2, StepCases, StepFrames

\* No step takes anything back from a journal.
LEMMA LogGrows ==
    ASSUME TypeInv, WriterInv, Next
    PROVE  /\ log' \in [Partitions -> Seq(Records)]
           /\ \A p \in Partitions : Grows(log[p], log'[p])
<1>1. CASE UNCHANGED <<log, epoch>>
  <2>1. log \in [Partitions -> Seq(Records)]
    BY DEF TypeInv
  <2>2. \A p \in Partitions : Len(log[p]) \in Nat
    BY <2>1
  <2> QED
    BY <1>1, <2>1, <2>2 DEF Grows
<1>2. ASSUME NEW s \in Sessions, NEW p \in Partitions,
             Produce(s, p) \/ ProducerID(s, p) \/ BrokerCommits(p) \/ BrokerAborts(p)
      PROVE  /\ log' \in [Partitions -> Seq(Records)]
             /\ \A q \in Partitions : Grows(log[q], log'[q])
  <2>1. PICK m \in Seq(Records) : Grows(log[p], m) /\ log' = [log EXCEPT ![p] = m]
    BY <1>2, LogMoves
  <2> QED
    BY <2>1, LogMove
<1> QED
  BY <1>1, <1>2, QuietLog

\* A step that assigns one writer, and the steps that assign a session's.
LEMMA OneWriter ==
    /\ \A s, p : Loop(s, p) \/ EndTransaction(s, p) \/ Produce(s, p) \/ ProducerID(s, p) =>
         \E v : SetW(s, p, v)
    /\ \A j \in Jobs : \A s : Admit(j, s) => UNCHANGED wr \/ \E v : SetW(s, Target(j), v)
    /\ \A j \in Jobs : Enqueue(j) => \E v : SetW(home[j], Target(j), v)
    /\ \A j \in Jobs : Receive(j) \/ GiveUp(j) => UNCHANGED wr
    /\ \A p \in Partitions : BrokerCommits(p) =>
         UNCHANGED wr \/ \E v : SetW(epoch[p], p, v)
    /\ \A p \in Partitions : BrokerAborts(p) => UNCHANGED wr
    /\ \A s \in Sessions : NewFails(s) \/ Close(s) => UNCHANGED wr
    /\ \A s \in Sessions : New(s) \/ Barriers(s) \/ Crash(s) =>
         UNCHANGED wr \/ \E f : DOMAIN f = Partitions /\ wr' = [wr EXCEPT ![s] = f]
<1>1. ASSUME NEW s, NEW p, Loop(s, p) PROVE \E v : SetW(s, p, v)
  <2>1. ASSUME Take(s, p) \/ TakeHand(s, p) \/ Tick(s, p) \/ SeeSeal(s, p) \/ Finish(s, p)
        PROVE  \E v : SetW(s, p, v)
    BY <2>1 DEF Take, TakeHand, Tick, SeeSeal, Finish
  <2>2. ASSUME Confirm(s, p) \/ CommitFails(s, p) \/ ProducerIDFails(s, p) \/ SealGate(s, p)
        PROVE  \E v : SetW(s, p, v)
    BY <2>2 DEF Confirm, CommitFails, ProducerIDFails, SealGate
  <2>3. ASSUME Fail(s, p) \/ SeeStop(s, p)
        PROVE  \E v : SetW(s, p, v)
    BY <2>3 DEF Fail, SeeStop, Exit
  <2> QED
    BY <1>1, <2>1, <2>2, <2>3 DEF Loop
<1>2. \A s, p : EndTransaction(s, p) \/ Produce(s, p) \/ ProducerID(s, p) => \E v : SetW(s, p, v)
  BY DEF EndTransaction, Produce, ProducerID
<1>3. /\ \A j \in Jobs : \A s : Admit(j, s) => UNCHANGED wr \/ \E v : SetW(s, Target(j), v)
      /\ \A j \in Jobs : Enqueue(j) => \E v : SetW(home[j], Target(j), v)
      /\ \A j \in Jobs : Receive(j) \/ GiveUp(j) => UNCHANGED wr
  BY DEF Admit, Enqueue, Receive, GiveUp
<1>4. ASSUME NEW p \in Partitions, BrokerCommits(p)
      PROVE  UNCHANGED wr \/ \E v : SetW(epoch[p], p, v)
  BY <1>4 DEF BrokerCommits, SetW
<1>5. /\ \A p \in Partitions : BrokerAborts(p) => UNCHANGED wr
      /\ \A s \in Sessions : NewFails(s) \/ Close(s) => UNCHANGED wr
  BY DEF BrokerAborts, NewFails, Close
<1>6. ASSUME NEW s \in Sessions, New(s) \/ Crash(s)
      PROVE  UNCHANGED wr \/ \E f : DOMAIN f = Partitions /\ wr' = [wr EXCEPT ![s] = f]
  BY <1>6 DEF New, Crash
<1>7. ASSUME NEW s \in Sessions, Barriers(s)
      PROVE  UNCHANGED wr \/ \E f : DOMAIN f = Partitions /\ wr' = [wr EXCEPT ![s] = f]
  BY <1>7 DEF Barriers
<1> QED
  BY <1>1, <1>2, <1>3, <1>4, <1>5, <1>6, <1>7

\* A step keeps the types.
LEMMA TypeStep ==
    ASSUME TypeInv, WriterInv, Next, UNCHANGED ConfigOf
    PROVE  TypeInv'
<1>1. log' \in [Partitions -> Seq(Records')]
  <2>1. Records' = Records
    BY DEF Records
  <2> QED
    BY <2>1, LogGrows
<1>2. DOMAIN wr' = Sessions /\ \A t \in Sessions : DOMAIN wr'[t] = Partitions
  <2>1. CASE UNCHANGED wr
    BY <2>1 DEF TypeInv
  <2>2. CASE \E s, p, v : SetW(s, p, v)
    BY <2>2, WriterSet
  <2>3. CASE \E s \in Sessions : \E f : DOMAIN f = Partitions /\ wr' = [wr EXCEPT ![s] = f]
    BY <2>3 DEF TypeInv
  <2> QED
    BY <2>1, <2>2, <2>3, StepCases, StepFrames, OneWriter
<1>3. ASSUME NEW s \in Sessions, NEW p \in Partitions, Loop(s, p)
      PROVE  DOMAIN reply' = Jobs
  <2>1. ASSUME Take(s, p) \/ TakeHand(s, p) \/ Tick(s, p) \/ SeeSeal(s, p) \/ Finish(s, p)
               \/ ProducerIDFails(s, p) \/ SealGate(s, p)
        PROVE  DOMAIN reply' = Jobs
    BY <2>1 DEF Take, TakeHand, Tick, SeeSeal, Finish, ProducerIDFails, SealGate, TypeInv
  <2>2. ASSUME Confirm(s, p) \/ CommitFails(s, p) \/ Fail(s, p) \/ SeeStop(s, p)
        PROVE  DOMAIN reply' = Jobs
    BY <2>2 DEF Confirm, CommitFails, Fail, SeeStop, Exit, AnswerAll, AnswerUnknown, TypeInv
  <2> QED
    BY <1>3, <2>1, <2>2 DEF Loop
<1>4. ASSUME NEW s \in Sessions, NEW p \in Partitions, Loop(s, p)
      PROVE  TypeInv'
  BY <1>1, <1>2, <1>3, <1>4, LoopFrame DEF TypeInv
<1>5. ASSUME NEW s \in Sessions, NEW p \in Partitions,
             EndTransaction(s, p) \/ Produce(s, p) \/ ProducerID(s, p)
      PROVE  TypeInv'
  <2>1. epoch' \in [Partitions -> 0 .. MaxSession] /\ ending' \in [Partitions -> BOOLEAN]
    <3>1. CASE EndTransaction(s, p) \/ Produce(s, p)
      BY <3>1 DEF EndTransaction, Produce, TypeInv
    <3>2. CASE ProducerID(s, p)
      <4>1. /\ epoch' = [epoch EXCEPT ![p] = s] /\ ending' = [ending EXCEPT ![p] = FALSE]
            /\ s \in 0 .. MaxSession
        BY <3>2, ConstantFacts DEF ProducerID, Fence
      <4> QED
        BY <4>1 DEF TypeInv
    <3> QED
      BY <1>5, <3>1, <3>2
  <2> QED
    BY <1>1, <1>2, <1>5, <2>1, StepFrames DEF TypeInv
<1>6. ASSUME NEW p \in Partitions, BrokerCommits(p) \/ BrokerAborts(p)
      PROVE  TypeInv'
  <2>1. ending' \in [Partitions -> BOOLEAN]
    BY <1>6 DEF BrokerCommits, BrokerAborts, TypeInv
  <2> QED
    BY <1>1, <1>2, <1>6, <2>1, StepFrames DEF TypeInv
<1>7. ASSUME NEW j \in Jobs, NEW s \in Sessions, Admit(j, s)
      PROVE  TypeInv'
  <2>1. home' \in [Jobs -> 0 .. MaxSession] /\ DOMAIN result' = Jobs
    BY <1>7, ConstantFacts DEF Admit, Return, TypeInv
  <2> QED
    BY <1>1, <1>2, <1>7, <2>1, StepFrames DEF TypeInv
<1>8. ASSUME NEW j \in Jobs, Enqueue(j) \/ Receive(j) \/ GiveUp(j)
      PROVE  TypeInv'
  <2>1. home' = home /\ DOMAIN result' = Jobs
    BY <1>8 DEF Enqueue, Receive, GiveUp, Return, TypeInv
  <2> QED
    BY <1>1, <1>2, <1>8, <2>1, StepFrames DEF TypeInv
<1>9. ASSUME NEW s \in Sessions, New(s) \/ Barriers(s) \/ NewFails(s) \/ Close(s) \/ Crash(s)
      PROVE  TypeInv'
  <2>1. session' \in [Sessions -> {"idle", "boot", "up", "stopped", "dead"}]
    BY <1>9 DEF New, Barriers, NewFails, Close, Crash, TypeInv
  <2>2. DOMAIN reply' = Jobs /\ DOMAIN result' = Jobs
    BY <1>9 DEF New, Barriers, NewFails, Close, Crash, TypeInv
  <2> QED
    BY <1>1, <1>2, <1>9, <2>1, <2>2, StepFrames DEF TypeInv
<1>10. ASSUME Aside PROVE TypeInv'
  <2>1. DOMAIN manifest' = Sessions
    BY <1>10 DEF Aside, SealWaits, SealReturns, SealGivesUp, ClockMoves, TypeInv
  <2> QED
    BY <1>1, <1>2, <1>10, <2>1, StepFrames DEF TypeInv
<1> QED
  BY <1>4, <1>5, <1>6, <1>7, <1>8, <1>9, <1>10, StepCases

-----------------------------------------------------------------------------
(* The journals stay in order, and of one poll *)

\* Two sessions that have not ended were started with one poll: one of them runs, and
\* has its barrier in the journal of every partition.
LEMMA SamePoll ==
    ASSUME TypeInv, PollInv, BootInv, WriterInv, NEW s \in Sessions, NEW t \in Sessions,
           NEW p \in Partitions, Alive(s), Alive(t), s # t
    PROVE  ConfigOf[s] = ConfigOf[t]
<1>1. session[s] # "boot" \/ session[t] # "boot"
  <2>1. s \in Nat /\ t \in Nat
    BY ConstantFacts
  <2>2. s > t \/ t > s
    BY <2>1
  <2> QED
    BY <2>2 DEF BootInv
<1>2. \A r \in {s, t} : session[r] # "boot" => 1 .. Len(log[p]) # {}
  BY DEF WriterInv, WriterOK, KnownOK, Alive
<1>3. PICK k \in 1 .. Len(log[p]) : TRUE
  BY <1>1, <1>2
<1>4. log[p][k].cfg = ConfigOf[s] /\ log[p][k].cfg = ConfigOf[t]
  BY <1>3 DEF PollInv
<1> QED
  BY <1>4

\* A writer that is about to write CLOSED or votes has its barrier behind it, and
\* the journal is not CLOSED yet.
LEMMA ReadyToWrite ==
    ASSUME TypeInv, WriterInv, NEW s \in Sessions, NEW p \in Partitions, Alive(s),
           Produce(s, p)
    PROVE  /\ \A i \in 1 .. Len(log[p]) : log[p][i].st # "open"
           /\ W(s, p).kind # "boot" =>
                ~ HasClosed(log[p]) /\ \E k \in 1 .. Len(log[p]) : BootBy(log[p], k, s)
           /\ epoch[p] = s /\ ~ ending[p]
           /\ session[s] # "boot" => ~ W(s, p).sealed /\ ~ HasClosed(log[p])
<1> DEFINE w == W(s, p)
<1>1. WriterOK(w, log[p], ending[p], epoch[p], session[s], s, p)
  BY DEF WriterInv
<1>2. w.pc = "produce" /\ epoch[p] = s /\ session[s] \in {"boot", "up", "stopped"}
  BY DEF Produce, Accepts, Alive
<1> HIDE DEF w
<1>3. OwnerOK(w, log[p], ending[p], session[s]) /\ PhaseOK(w, session[s])
      /\ KnownOK(w, log[p], session[s], s)
  BY <1>1, <1>2 DEF WriterOK
<1>4. \A i \in 1 .. Len(log[p]) : log[p][i].st # "open"
  BY <1>2, <1>3 DEF OwnerOK
<1>5. ~ ending[p]
  BY <1>2, <1>3 DEF OwnerOK
<1>6. session[s] # "boot" => ~ w.sealed
  BY <1>2, <1>3 DEF PhaseOK
<1>7. session[s] # "boot" => ~ HasClosed(log[p])
  BY <1>2, <1>3, <1>6 DEF OwnerOK
<1>8. w.kind # "boot" => session[s] # "boot"
  BY <1>3 DEF PhaseOK
<1>9. session[s] # "boot" => \E k \in 1 .. Len(log[p]) : BootBy(log[p], k, s)
  BY <1>2, <1>3 DEF KnownOK
<1> QED
  BY <1>2, <1>4, <1>5, <1>6, <1>7, <1>8, <1>9 DEF w

\* A step keeps every journal in order.
LEMMA LogStep ==
    ASSUME TypeInv, LogInv, BootInv, WriterInv, Next
    PROVE  LogInv'
<1>1. CASE UNCHANGED <<log, epoch>>
  BY <1>1 DEF LogInv
<1>2. ASSUME NEW p \in Partitions, NEW e \in Nat, epoch'[p] = e,
             LogOK(log'[p], e),
             \A q \in Partitions : q # p => log'[q] = log[q] /\ epoch'[q] = epoch[q]
      PROVE  LogInv'
  <2>1. ASSUME NEW q \in Partitions PROVE LogOK(log'[q], epoch'[q])
    BY <1>2 DEF LogInv
  <2> QED
    BY <2>1 DEF LogInv
<1>3. ASSUME NEW p \in Partitions
      PROVE  log[p] \in Seq(Records) /\ epoch[p] \in Nat /\ LogOK(log[p], epoch[p])
  BY ConstantFacts DEF TypeInv, LogInv
<1>4. ASSUME NEW s \in Sessions, NEW p \in Partitions, Alive(s), Produce(s, p)
      PROVE  LogInv'
  <2>1. W(s, p) \in Writers(p)
    BY DEF WriterInv, WriterOK
  <2>2. epoch[p] = s /\ UNCHANGED epoch
    BY <1>4 DEF Produce, Accepts
  <2>3. LogOK(log[p] \o NewRecords(W(s, p), s), s)
    BY <1>3, <1>4, <2>1, <2>2, ReadyToWrite, LogProduced
  <2>4. /\ log'[p] = log[p] \o NewRecords(W(s, p), s)
        /\ \A q \in Partitions : q # p => log'[q] = log[q]
    BY <1>4, LogMoves, LogMove
  <2> QED
    BY <1>2, <1>3, <2>2, <2>3, <2>4
<1>5. ASSUME NEW s \in Sessions, NEW p \in Partitions, Alive(s), ProducerID(s, p)
      PROVE  LogInv'
  <2>1. W(s, p).pc = "init"
    BY <1>5 DEF ProducerID
  <2>2. session[s] = "boot"
    <3>1. PhaseOK(W(s, p), session[s])
      BY DEF WriterInv, WriterOK
    <3> QED
      BY <1>5, <2>1, <3>1 DEF PhaseOK, Alive
  <2>3. epoch[p] <= s
    <3>1. epoch[p] \in 0 .. MaxSession /\ s \in Nat
      BY ConstantFacts DEF TypeInv
    <3>2. ASSUME epoch[p] > s PROVE FALSE
      <4>1. epoch[p] \in Sessions
        BY <3>1, <3>2, ConstantFacts
      <4> QED
        BY <2>2, <3>1, <3>2, <4>1 DEF BootInv
    <3> QED
      BY <3>1, <3>2
  <2>4. s \in Nat /\ LogOK(Settle(log[p], "aborted"), s)
    BY <1>3, <2>3, LogSettled, ConstantFacts
  <2>5. /\ log'[p] = Settle(log[p], "aborted")
        /\ \A q \in Partitions : q # p => log'[q] = log[q]
    BY <1>5, LogMoves, LogMove
  <2>6. epoch'[p] = s /\ \A q \in Partitions : q # p => epoch'[q] = epoch[q]
    BY <1>5 DEF ProducerID, TypeInv
  <2> QED
    BY <1>2, <2>4, <2>5, <2>6
<1>6. ASSUME NEW p \in Partitions, BrokerCommits(p) \/ BrokerAborts(p)
      PROVE  LogInv'
  <2>1. PICK st \in {"committed", "aborted"} :
          /\ log'[p] = Settle(log[p], st)
          /\ \A q \in Partitions : q # p => log'[q] = log[q]
    <3>1. 1 \in Sessions
      BY ConstantFacts
    <3> QED
      BY <1>6, <3>1, LogMoves, LogMove
  <2>2. LogOK(Settle(log[p], st), epoch[p])
    BY <1>3, LogSettled
  <2> QED
    BY <1>2, <1>3, <1>6, <2>1, <2>2, StepFrames
<1> QED
  BY <1>1, <1>4, <1>5, <1>6, QuietLog

\* A step starts at most one New at a time, and lower sessions before higher ones.
LEMMA BootStep ==
    ASSUME TypeInv, BootInv, WriterInv, Next
    PROVE  BootInv'
<1>1. CASE UNCHANGED <<session, epoch>>
  BY <1>1 DEF BootInv
<1>2. ASSUME NEW s \in Sessions, NEW p \in Partitions, Alive(s), ProducerID(s, p)
      PROVE  BootInv'
  <2>1. UNCHANGED session /\ epoch' = [epoch EXCEPT ![p] = s]
    BY <1>2 DEF ProducerID
  <2>2. \A q \in Partitions : epoch'[q] = IF q = p THEN s ELSE epoch[q]
    BY <2>1 DEF TypeInv
  <2> QED
    BY <1>2, <2>1, <2>2 DEF BootInv, Alive
<1>3. ASSUME NEW s \in Sessions, UNCHANGED epoch, session[s] # "idle",
             \E ss \in {"up", "stopped", "dead"} : session' = [session EXCEPT ![s] = ss]
      PROVE  BootInv'
  <2>1. /\ \A t \in Sessions : t # s => session'[t] = session[t]
        /\ session'[s] \notin {"idle", "boot"}
    BY <1>3 DEF TypeInv
  <2>2. \A t \in Sessions : session[t] = "idle" => session'[t] = "idle"
    BY <1>3, <2>1
  <2>3. ASSUME NEW t \in Sessions, session'[t] \in {"idle", "boot"}
        PROVE  \A r \in Sessions : r > t => session'[r] = "idle"
    BY <2>1, <2>2, <2>3 DEF BootInv
  <2>4. ASSUME NEW p \in Partitions, epoch'[p] # 0 PROVE session'[epoch'[p]] # "idle"
    <3>1. epoch[p] \in Sessions
      BY <1>3, <2>4, ConstantFacts DEF TypeInv
    <3> QED
      BY <1>3, <2>1, <2>4, <3>1 DEF BootInv
  <2> QED
    BY <2>3, <2>4 DEF BootInv
<1>4. ASSUME NEW s \in Sessions, New(s)
      PROVE  BootInv'
  <2>1. UNCHANGED epoch /\ session[s] = "idle"
        /\ \A t \in 1 .. s - 1 : session[t] \notin {"idle", "boot"}
    BY <1>4 DEF New
  <2>2. /\ \A t \in Sessions : t # s => session'[t] = session[t]
        /\ session'[s] \in {"boot", "dead"}
    BY <1>4 DEF New, TypeInv
  <2>3. \A t \in Sessions : t > s => session'[t] = "idle"
    BY <2>1, <2>2, ConstantFacts DEF BootInv
  <2>4. ASSUME NEW t \in Sessions, session'[t] \in {"idle", "boot"}
        PROVE  \A r \in Sessions : r > t => session'[r] = "idle"
    <3>1. t \in Nat /\ s \in Nat /\ \A r \in Sessions : r \in Nat
      BY ConstantFacts
    <3>2. t >= s
      <4>1. t < s => t \in 1 .. s - 1
        BY <3>1, ConstantFacts
      <4> QED
        BY <2>1, <2>2, <2>4, <3>1, <4>1
    <3> QED
      BY <2>3, <3>1, <3>2
  <2>5. ASSUME NEW p \in Partitions, epoch'[p] # 0 PROVE session'[epoch'[p]] # "idle"
    <3>1. epoch[p] \in Sessions
      BY <2>1, <2>5, ConstantFacts DEF TypeInv
    <3> QED
      BY <2>1, <2>2, <2>5, <3>1 DEF BootInv
  <2> QED
    BY <2>4, <2>5 DEF BootInv
<1>5. ASSUME NEW s \in Sessions, Barriers(s) \/ NewFails(s) \/ Close(s) \/ Crash(s)
      PROVE  BootInv'
  <2>1. UNCHANGED epoch /\ session[s] # "idle"
    BY <1>5 DEF Barriers, NewFails, Close, Crash
  <2>2. \E ss \in {"up", "stopped", "dead"} : session' = [session EXCEPT ![s] = ss]
    BY <1>5 DEF Barriers, NewFails, Close, Crash
  <2> QED
    BY <1>3, <2>1, <2>2
<1>6. ASSUME NEW s \in Sessions, NEW p \in Partitions, Loop(s, p)
      PROVE  UNCHANGED <<session, epoch>>
  BY <1>6, LoopFrame
<1> QED
  BY <1>1, <1>2, <1>4, <1>5, <1>6, StepCases, StepFrames

\* The first readable record of a journal, and any other least number.
LEMMA LeastNatural ==
    ASSUME NEW S \in SUBSET Nat, S # {}
    PROVE  Min(S) \in S /\ \A n \in S : Min(S) <= n
<1>1. \A x, y \in Nat : x < y => <<x, y>> \in OpToRel(<, Nat)
  BY DEF OpToRel
<1>2. PICK n \in S : \A m \in S : <<m, n>> \notin OpToRel(<, Nat)
  BY WFMin, NatLessThanWellFounded
<1>3. \A m \in S : ~ m < n
  BY <1>1, <1>2
<1>4. \A m \in S : n <= m
  BY <1>3
<1> QED
  BY <1>4 DEF Min

\* What a read-committed fetch returns.
LEMMA ReadableFacts ==
    ASSUME NEW l \in Seq(Records)
    PROVE  /\ Readable(l) \subseteq 1 .. Len(l) /\ Readable(l) \in SUBSET Nat
           /\ \A i \in 1 .. Len(l) : i \in Readable(l) <=>
                l[i].st = "committed" /\ \A k \in 1 .. i : l[k].st # "open"
<1>1. DOMAIN l = 1 .. Len(l) /\ Len(l) \in Nat
  OBVIOUS
<1> QED
  BY <1>1 DEF Readable

\* A session takes over the journal of its own poll only.
LEMMA NewFindsItsPoll ==
    ASSUME TypeInv, OnePollInv, NEW s \in Sessions, MayOpen(s)
    PROVE  \A p \in Partitions : \A i \in 1 .. Len(log[p]) : log[p][i].cfg = ConfigOf[s]
<1>1. CASE \A p \in Partitions : log[p] = <<>>
  BY <1>1
<1>2. CASE verifyFirstRecords(s)
  <2>1. ASSUME NEW p \in Partitions, NEW i \in 1 .. Len(log[p])
        PROVE  log[p][i].cfg = ConfigOf[s]
    <3>1. log[p] \in Seq(Records)
      BY DEF TypeInv
    <3> DEFINE k == Min(Readable(log[p]))
    <3>2. Readable(log[p]) # {} /\ log[p][k].cfg = ConfigOf[s]
      BY <1>2 DEF verifyFirstRecords, FirstRecordIsBoot, Decodes
    <3>3. k \in 1 .. Len(log[p])
      BY <3>1, <3>2, LeastNatural, ReadableFacts
    <3> HIDE DEF k
    <3> QED
      BY <3>2, <3>3 DEF OnePollInv
  <2> QED
    BY <2>1
<1> QED
  BY <1>1, <1>2 DEF MayOpen

\* A step keeps the topic bound to one poll.
LEMMA PollStep ==
    ASSUME TypeInv, PollInv, OnePollInv, BootInv, WriterInv, Next, UNCHANGED ConfigOf
    PROVE  PollInv' /\ OnePollInv'
<1>1. ASSUME NEW p \in Partitions
      PROVE  log[p] \in Seq(Records) /\ Len(log[p]) \in Nat
  BY DEF TypeInv
<1>2. ASSUME NEW s \in Sessions, NEW p \in Partitions, Alive(s), Produce(s, p)
      PROVE  PollInv' /\ OnePollInv'
  <2>1. ASSUME NEW q \in Partitions, NEW i \in 1 .. Len(log'[q])
        PROVE  log'[q][i].cfg = ConfigOf[s]
    <3>1. W(s, p) \in Writers(p)
      BY DEF WriterInv, WriterOK
    <3>2. /\ log'[p] = log[p] \o NewRecords(W(s, p), s)
          /\ \A r \in Partitions : r # p => log'[r] = log[r]
      BY <1>2, LogMoves, LogMove
    <3>3. \A r \in Partitions : \A k \in 1 .. Len(log[r]) : log[r][k].cfg = ConfigOf[s]
      BY <1>2 DEF PollInv
    <3>4. CASE q # p
      BY <3>2, <3>3, <3>4, <2>1
    <3>5. CASE q = p /\ i \in 1 .. Len(log[p])
      <4>1. \A k \in 1 .. Len(log[p]) : log'[p][k] = log[p][k]
        BY <1>1, <3>1, <3>2, ProduceFacts
      <4> QED
        BY <3>3, <3>5, <4>1
    <3>6. CASE q = p /\ i \notin 1 .. Len(log[p])
      <4> DEFINE w == W(s, p)
                 l == log[p]
                 n == Len(Kinds(w))
      <4>1. /\ Len(log'[p]) = Len(l) + n /\ n \in Nat /\ Len(l) \in Nat
            /\ \A k \in 1 .. n : log'[p][Len(l) + k] = Record(s, w.kind, Kinds(w)[k])
        BY <1>1, <3>1, <3>2, ProduceFacts, KindsFacts
      <4> HIDE DEF w, l, n
      <4>2. PICK k \in 1 .. n : i = Len(l) + k
        <5>1. i \in 1 .. Len(l) + n /\ i \notin 1 .. Len(l)
          BY <2>1, <3>6, <4>1 DEF l
        <5>2. i - Len(l) \in 1 .. n /\ i = Len(l) + (i - Len(l))
          BY <4>1, <5>1
        <5> QED
          BY <5>2
      <4>3. log'[p][i] = Record(s, w.kind, Kinds(w)[k])
        BY <4>1, <4>2
      <4> QED
        BY <3>6, <4>3 DEF Record
    <3> QED
      BY <3>4, <3>5, <3>6
  <2>2. ASSUME NEW t \in Sessions, Alive(t) PROVE ConfigOf[t] = ConfigOf[s]
    BY <1>2, <2>2, SamePoll
  <2>3. UNCHANGED session
    BY <1>2, StepFrames
  <2> QED
    BY <2>1, <2>2, <2>3 DEF PollInv, OnePollInv, Alive
<1>3. ASSUME NEW p \in Partitions, NEW st \in {"committed", "aborted"}, UNCHANGED session,
             log'[p] = Settle(log[p], st),
             \A q \in Partitions : q # p => log'[q] = log[q]
      PROVE  PollInv' /\ OnePollInv'
  <2>1. ASSUME NEW q \in Partitions
        PROVE  /\ Len(log'[q]) = Len(log[q])
               /\ \A i \in 1 .. Len(log[q]) : log'[q][i].cfg = log[q][i].cfg
    BY <1>1, <1>3, SettleFacts DEF Grows
  <2> QED
    BY <1>3, <2>1 DEF PollInv, OnePollInv, Alive
<1>4. ASSUME NEW s \in Sessions, NEW p \in Partitions,
             ProducerID(s, p) \/ BrokerCommits(p) \/ BrokerAborts(p)
      PROVE  PollInv' /\ OnePollInv'
  <2>1. UNCHANGED session
    BY <1>4, StepFrames
  <2>2. \E st \in {"committed", "aborted"} :
          log'[p] = Settle(log[p], st) /\ \A q \in Partitions : q # p => log'[q] = log[q]
    BY <1>4, LogMoves, LogMove
  <2> QED
    BY <1>3, <2>1, <2>2
<1>5. ASSUME UNCHANGED log,
             \A t \in Sessions : Alive(t)' =>
               Alive(t) \/ \A p \in Partitions : \A i \in 1 .. Len(log[p]) :
                             log[p][i].cfg = ConfigOf[t]
      PROVE  PollInv' /\ OnePollInv'
  BY <1>5 DEF PollInv, OnePollInv
<1>6. CASE UNCHANGED <<log, session>>
  BY <1>5, <1>6 DEF Alive
<1>7. ASSUME NEW s \in Sessions, New(s) \/ Barriers(s) \/ NewFails(s) \/ Close(s) \/ Crash(s)
      PROVE  PollInv' /\ OnePollInv'
  <2>1. \A t \in Sessions : t # s => session'[t] = session[t]
    BY <1>7 DEF New, Barriers, NewFails, Close, Crash, TypeInv
  <2>2. Alive(s)' => Alive(s) \/ MayOpen(s)
    BY <1>7 DEF New, Barriers, NewFails, Close, Crash, TypeInv, Alive
  <2>3. UNCHANGED log
    BY <1>7, StepFrames
  <2> QED
    BY <1>5, <2>1, <2>2, <2>3, NewFindsItsPoll DEF Alive
<1>8. ASSUME NEW s \in Sessions, NEW p \in Partitions, Loop(s, p)
      PROVE  UNCHANGED <<log, session>>
  BY <1>8, LoopFrame
<1>9. 1 \in Sessions
  BY ConstantFacts
<1> QED
  BY <1>2, <1>4, <1>6, <1>7, <1>8, <1>9, StepCases, StepFrames

-----------------------------------------------------------------------------
(* Sequences of jobs *)

\* The content of a channel or a batch, and of what is added to or taken from it.
LEMMA RangeFacts ==
    ASSUME NEW S, NEW q \in Seq(S)
    PROVE  /\ Range(q) \subseteq S
           /\ \A i \in 1 .. Len(q) : q[i] \in Range(q)
           /\ Range(q) = {} <=> q = <<>>
           /\ \A e \in S : Append(q, e) \in Seq(S) /\ Range(Append(q, e)) = Range(q) \cup {e}
           /\ q # <<>> => /\ Head(q) \in Range(q) /\ Tail(q) \in Seq(S)
                          /\ Range(Tail(q)) \subseteq Range(q)
<1>1. Range(q) = {q[i] : i \in 1 .. Len(q)} /\ Range(q) \subseteq S /\ Len(q) \in Nat
  BY RangeEquality, RangeOfSeq
<1>2. Range(q) = {} <=> q = <<>>
  <2>1. q = <<>> => Len(q) = 0
    OBVIOUS
  <2>2. q # <<>> => 1 \in 1 .. Len(q)
    BY EmptySeq, <1>1
  <2> QED
    BY <1>1, <2>1, <2>2
<1>3. ASSUME NEW e \in S
      PROVE  Append(q, e) \in Seq(S) /\ Range(Append(q, e)) = Range(q) \cup {e}
  <2>1. /\ Append(q, e) \in Seq(S) /\ Len(Append(q, e)) = Len(q) + 1
        /\ \A i \in 1 .. Len(q) : Append(q, e)[i] = q[i]
        /\ Append(q, e)[Len(q) + 1] = e
    BY AppendProperties
  <2>2. Range(Append(q, e)) = {Append(q, e)[i] : i \in 1 .. Len(q) + 1}
    BY <2>1, RangeEquality
  <2>3. 1 .. Len(q) + 1 = (1 .. Len(q)) \cup {Len(q) + 1}
    BY <1>1
  <2> QED
    BY <1>1, <2>1, <2>2, <2>3
<1>4. ASSUME q # <<>>
      PROVE  /\ Head(q) \in Range(q) /\ Tail(q) \in Seq(S)
             /\ Range(Tail(q)) \subseteq Range(q)
  <2>1. /\ Tail(q) \in Seq(S) /\ Len(Tail(q)) = Len(q) - 1
        /\ \A i \in 1 .. Len(Tail(q)) : Tail(q)[i] = q[i + 1]
    BY <1>4, HeadTailProperties
  <2>2. Range(Tail(q)) = {Tail(q)[i] : i \in 1 .. Len(Tail(q))}
    BY <2>1, RangeEquality
  <2>3. \A i \in 1 .. Len(Tail(q)) : i + 1 \in 1 .. Len(q)
    BY <1>1, <2>1
  <2>4. 1 \in 1 .. Len(q) /\ Head(q) = q[1]
    BY <1>1, <1>4, EmptySeq
  <2> QED
    BY <1>1, <2>1, <2>2, <2>3, <2>4
<1> QED
  BY <1>1, <1>2, <1>3, <1>4

\* What a writer holds is of its own partition.
LEMMA HeldFacts ==
    ASSUME NEW p \in Partitions, NEW w \in Writers(p)
    PROVE  /\ HeldBy(w) \subseteq JobsOf(p) /\ NoJob \notin HeldBy(w)
           /\ HeldBy(w) = Range(w.batch) \cup Range(w.jobs)
                          \cup ({w.hand} \ {NoJob}) \cup ({w.mu} \ {NoJob})
<1>1. /\ w.batch \in Seq(JobsOf(p)) /\ w.jobs \in Seq(JobsOf(p))
      /\ w.hand \in JobsOf(p) \cup {NoJob} /\ w.mu \in JobsOf(p) \cup {NoJob}
  BY DEF Writers
<1>2. Range(w.batch) \subseteq JobsOf(p) /\ Range(w.jobs) \subseteq JobsOf(p)
  BY <1>1, RangeFacts
<1>3. NoJob \notin JobsOf(p)
  BY ConstantFacts DEF JobsOf
<1> QED
  BY <1>1, <1>2, <1>3 DEF HeldBy, LeftOver

\* A writer that only moves its jobs about holds no other.
LEMMA HeldWithin ==
    ASSUME NEW p \in Partitions, NEW w \in Writers(p), NEW v \in Writers(p), v.mu = w.mu,
           Range(v.batch) \subseteq LeftOver(w), Range(v.jobs) \subseteq LeftOver(w),
           v.hand # NoJob => v.hand \in LeftOver(w)
    PROVE  HeldBy(v) \subseteq HeldBy(w) /\ LeftOver(v) \subseteq LeftOver(w)
<1>1. LeftOver(v) \subseteq LeftOver(w)
  BY DEF LeftOver
<1> QED
  BY <1>1 DEF HeldBy

\* The second half of appendJob: the job is in the batch and nowhere else.
LEMMA AppendedFacts ==
    ASSUME NEW p \in Partitions, NEW w \in Writers(p), NEW j \in JobsOf(p)
    PROVE  LET v == Appended(w, j) IN
           /\ v \in Writers(p)
           /\ v.pc \in {"select", "produce"}
           /\ v.kind = IF v.pc = "select" THEN w.kind ELSE "vote"
           /\ v.first = w.first /\ v.mu = w.mu /\ v.closing = w.closing
           /\ v.sealed = w.sealed /\ v.failed = w.failed /\ v.end = w.end
           /\ v.jobs = w.jobs /\ v.seal = w.seal /\ v.drain = w.drain
           /\ v.batch = Append(w.batch, j) /\ v.hand = NoJob
<1> DEFINE u == [w EXCEPT !.pc = "select", !.hand = NoJob, !.queued = Credits(w, j),
                          !.batch = Append(w.batch, j), !.votes = w.votes + Size(j)]
<1>1. Size(j) \in Nat
  BY ConstantFacts DEF JobsOf
<1>2. Credits(w, j) \in Int /\ w.votes + Size(j) \in Int
  BY <1>1 DEF Credits, Writers
<1>3. Append(w.batch, j) \in Seq(JobsOf(p))
  BY RangeFacts DEF Writers
<1>4. /\ u \in Writers(p) /\ u.pc = "select" /\ u.kind = w.kind
      /\ u.first = w.first /\ u.mu = w.mu /\ u.closing = w.closing
      /\ u.sealed = w.sealed /\ u.failed = w.failed /\ u.end = w.end
      /\ u.jobs = w.jobs /\ u.seal = w.seal /\ u.drain = w.drain
      /\ u.batch = Append(w.batch, j) /\ u.hand = NoJob
  BY <1>2, <1>3 DEF Writers
<1> HIDE DEF u
<1>5. /\ Begin(u, "vote") \in Writers(p)
      /\ Begin(u, "vote").pc = "produce" /\ Begin(u, "vote").kind = "vote"
      /\ Begin(u, "vote").first = u.first /\ Begin(u, "vote").mu = u.mu
      /\ Begin(u, "vote").closing = u.closing
      /\ Begin(u, "vote").sealed = u.sealed /\ Begin(u, "vote").failed = u.failed
      /\ Begin(u, "vote").end = u.end
      /\ Begin(u, "vote").jobs = u.jobs /\ Begin(u, "vote").seal = u.seal
      /\ Begin(u, "vote").drain = u.drain
      /\ Begin(u, "vote").batch = u.batch /\ Begin(u, "vote").hand = u.hand
  BY <1>4, ZenonT(40) DEF Begin, Writers
<1>6. Appended(w, j) = u \/ Appended(w, j) = Begin(u, "vote")
  BY DEF Appended, u
<1> QED
  BY <1>4, <1>5, <1>6

-----------------------------------------------------------------------------
(* The loop of a writer *)

\* A step from the select of a writer that is not sealed.
LEMMA SelectMoves ==
    ASSUME NEW p \in Partitions, NEW s \in Sessions, NEW ss \in {"boot", "up", "stopped"},
           NEW l, NEW x \in BOOLEAN, NEW e, NEW w, NEW v \in Writers(p),
           WriterOK(w, l, x, e, ss, s, p), w.pc = "select", ~ w.sealed,
           v.pc \in {"select", "produce"}, v.sealed = w.sealed, v.closing = w.closing,
           v.mu = w.mu, v.seal \/ v.drain => w.closing,
           v.pc = "produce" => v.kind \in {"vote", "closed"},
           v.kind = "closed" => w.closing /\ LeftOver(v) = {} /\ v.pc # "select"
    PROVE  WriterOK(v, l, x, e, ss, s, p)
<1>1. ss \in {"up", "stopped"} /\ (v.closing => v.mu = NoJob)
  BY DEF WriterOK, PhaseOK
<1>2. PhaseOK(v, ss)
  BY <1>1 DEF PhaseOK, InTransaction
<1>3. KnownOK(v, l, ss, s)
  BY <1>1 DEF WriterOK, KnownOK
<1>4. e = s => OwnerOK(v, l, x, ss)
  BY <1>1 DEF WriterOK, OwnerOK
<1> QED
  BY <1>1, <1>2, <1>3, <1>4 DEF WriterOK

\* A step that leaves a writer's transaction alone.
LEMMA SameTransaction ==
    ASSUME NEW p \in Partitions, NEW s \in Sessions, NEW ss, NEW l, NEW x, NEW e, NEW w,
           NEW v \in Writers(p), WriterOK(w, l, x, e, ss, s, p), PhaseOK(v, ss),
           v.pc = w.pc, v.kind = w.kind, v.first = w.first, v.batch = w.batch,
           v.sealed = w.sealed, v.end = w.end
    PROVE  WriterOK(v, l, x, e, ss, s, p)
<1>1. Kinds(v) = Kinds(w)
  BY DEF Kinds
<1>2. /\ Placed(w, l, s) => Placed(v, l, s)
      /\ \A st : Settled(v, l, st) <=> Settled(w, l, st)
      /\ AtEnd(w, l) => AtEnd(v, l)
  BY <1>1 DEF Placed, Settled, AtEnd
<1>3. KnownOK(v, l, ss, s)
  BY <1>2 DEF WriterOK, KnownOK
<1>4. OwnerOK(w, l, x, ss) => OwnerOK(v, l, x, ss)
  BY <1>2 DEF OwnerOK
<1> QED
  BY <1>2, <1>3, <1>4 DEF WriterOK

\* The step takes the writer of s and p to v, and answers only jobs the writer held:
\* with a receipt of a vote that counts, or with "unknown" by a writer that is broken.
Moved(s, p, v) ==
    /\ SetW(s, p, v)
    /\ WriterOK(v, log[p], ending[p], epoch[p], session[s], s, p)
    /\ HeldBy(v) \subseteq HeldBy(W(s, p))
    /\ Broken(W(s, p)) => Broken(v)
    /\ \A j \in Jobs :
         \/ reply'[j] = reply[j]
         \/ /\ j \in LeftOver(W(s, p))
            /\ \/ reply'[j] = Unknown /\ Broken(v)
               \/ reply'[j].kind = "receipt" /\ Counts(reply'[j], j)

\* The invariant, for the writers of a session that has not ended.
LEMMA WriterFacts ==
    ASSUME TypeInv, WriterInv, NEW s \in Sessions, NEW p \in Partitions, Alive(s)
    PROVE  /\ WriterOK(W(s, p), log[p], ending[p], epoch[p], session[s], s, p)
           /\ W(s, p) \in Writers(p) /\ PhaseOK(W(s, p), session[s])
           /\ KnownOK(W(s, p), log[p], session[s], s)
           /\ session[s] \in {"boot", "up", "stopped"} /\ ending[p] \in BOOLEAN
  BY DEF TypeInv, WriterInv, WriterOK, Alive

\* A job is taken into the batch, or waits in hand for a flush.
LEMMA TakeMoves ==
    ASSUME TypeInv, WriterInv, NEW s \in Sessions, NEW p \in Partitions, Alive(s), Take(s, p)
    PROVE  \E v : Moved(s, p, v)
<1> DEFINE w == W(s, p)
           j == Head(w.jobs)
           u == [w EXCEPT !.jobs = Tail(w.jobs)]
           h == Begin([u EXCEPT !.hand = j], "vote")
<1>1. /\ WriterOK(w, log[p], ending[p], epoch[p], session[s], s, p)
      /\ w \in Writers(p) /\ PhaseOK(w, session[s])
      /\ session[s] \in {"boot", "up", "stopped"} /\ ending[p] \in BOOLEAN
  BY WriterFacts
<1>2. /\ w.pc = "select" /\ w.hand = NoJob /\ w.jobs # <<>> /\ UNCHANGED reply
      /\ SetW(s, p, h) \/ (Unlocked(s, p) /\ SetW(s, p, Appended(u, j)))
  BY DEF Take
<1>3. /\ session[s] \in {"up", "stopped"} /\ ~ w.sealed /\ w.kind # "closed"
      /\ w.seal \/ w.drain => w.closing
  BY <1>1, <1>2 DEF PhaseOK, Quiet
<1>4. w.jobs \in Seq(JobsOf(p)) /\ w.batch \in Seq(JobsOf(p))
  BY <1>1 DEF Writers
<1>5. j \in Range(w.jobs) /\ Range(Tail(w.jobs)) \subseteq Range(w.jobs) /\ j \in JobsOf(p)
      /\ Tail(w.jobs) \in Seq(JobsOf(p))
  BY <1>2, <1>4, RangeFacts
<1>6. Range(w.batch) \subseteq LeftOver(w) /\ Range(w.jobs) \subseteq LeftOver(w)
  BY DEF LeftOver
<1> HIDE DEF w, j
<1>7. /\ u \in Writers(p) /\ u.jobs = Tail(w.jobs) /\ u.batch = w.batch /\ u.mu = w.mu
      /\ u.closing = w.closing /\ u.sealed = w.sealed /\ u.seal = w.seal
      /\ u.drain = w.drain /\ u.kind = w.kind
  BY <1>1, <1>5 DEF Writers
<1>8. /\ h \in Writers(p) /\ h.pc = "produce" /\ h.kind = "vote" /\ h.hand = j
      /\ h.jobs = Tail(w.jobs) /\ h.batch = w.batch /\ h.mu = w.mu
      /\ h.closing = w.closing /\ h.sealed = w.sealed /\ h.seal = w.seal
      /\ h.drain = w.drain
  BY <1>5, <1>7 DEF Writers, Begin
<1> HIDE DEF u, h
<1>9. CASE SetW(s, p, h)
  <2>1. WriterOK(h, log[p], ending[p], epoch[p], session[s], s, p)
    BY <1>1, <1>2, <1>3, <1>8, SelectMoves
  <2>2. HeldBy(h) \subseteq HeldBy(w)
    BY <1>1, <1>5, <1>6, <1>8, HeldWithin
  <2> QED
    BY <1>2, <1>9, <2>1, <2>2 DEF Moved, Broken, w
<1>10. CASE SetW(s, p, Appended(u, j))
  <2> DEFINE v == Appended(u, j)
  <2>1. /\ v \in Writers(p) /\ v.pc \in {"select", "produce"}
        /\ v.kind = IF v.pc = "select" THEN u.kind ELSE "vote"
        /\ v.mu = u.mu /\ v.closing = u.closing /\ v.sealed = u.sealed
        /\ v.jobs = u.jobs /\ v.seal = u.seal /\ v.drain = u.drain
        /\ v.batch = Append(u.batch, j) /\ v.hand = NoJob
    BY <1>5, <1>7, AppendedFacts
  <2> HIDE DEF v
  <2>2. WriterOK(v, log[p], ending[p], epoch[p], session[s], s, p)
    BY <1>1, <1>2, <1>3, <1>7, <2>1, SelectMoves
  <2>3. Range(v.batch) = Range(w.batch) \cup {j}
    BY <1>4, <1>5, <1>7, <2>1, RangeFacts
  <2>4. HeldBy(v) \subseteq HeldBy(w)
    <3>1. Range(v.batch) \subseteq LeftOver(w) /\ Range(v.jobs) \subseteq LeftOver(w)
      BY <1>5, <1>6, <1>7, <2>1, <2>3
    <3>2. v.mu = w.mu /\ v.hand = NoJob
      BY <1>7, <2>1
    <3> QED
      BY <1>1, <2>1, <3>1, <3>2, HeldWithin
  <2> QED
    BY <1>2, <1>10, <2>2, <2>4 DEF Moved, Broken, w, v
<1> QED
  BY <1>2, <1>9, <1>10

\* The other steps of the loop from its select: the job in hand, the ticker, the seal
\* request and the end of the queue.
LEMMA SelectSteps ==
    ASSUME TypeInv, WriterInv, NEW s \in Sessions, NEW p \in Partitions, Alive(s),
           TakeHand(s, p) \/ Tick(s, p) \/ SeeSeal(s, p) \/ Finish(s, p)
    PROVE  \E v : Moved(s, p, v)
<1> DEFINE w == W(s, p)
<1>1. /\ WriterOK(w, log[p], ending[p], epoch[p], session[s], s, p)
      /\ w \in Writers(p) /\ PhaseOK(w, session[s])
      /\ session[s] \in {"boot", "up", "stopped"} /\ ending[p] \in BOOLEAN
  BY WriterFacts
<1>2. w.pc = "select" /\ UNCHANGED reply
  BY DEF TakeHand, Tick, SeeSeal, Finish
<1>3. /\ session[s] \in {"up", "stopped"} /\ w.kind # "closed"
      /\ w.seal \/ w.drain => w.closing
      /\ w.sealed => Quiet(w)
  BY <1>1, <1>2 DEF PhaseOK
<1>4. ASSUME NEW v \in Writers(p), SetW(s, p, v), ~ w.sealed,
             v.pc \in {"select", "produce"}, v.sealed = w.sealed, v.closing = w.closing,
             v.mu = w.mu, v.seal \/ v.drain => w.closing,
             v.pc = "produce" => v.kind \in {"vote", "closed"},
             v.kind = "closed" => w.closing /\ LeftOver(v) = {} /\ v.pc # "select",
             HeldBy(v) \subseteq HeldBy(w)
      PROVE  Moved(s, p, v)
  <2>1. WriterOK(v, log[p], ending[p], epoch[p], session[s], s, p)
    BY <1>1, <1>2, <1>4, SelectMoves
  <2> QED
    BY <1>2, <1>4, <2>1 DEF Moved, Broken
<1>5. w.batch \in Seq(JobsOf(p)) /\ w.jobs \in Seq(JobsOf(p))
      /\ w.hand \in JobsOf(p) \cup {NoJob}
  BY <1>1 DEF Writers
<1>6. CASE TakeHand(s, p)
  <2> DEFINE v == Appended(w, w.hand)
  <2>1. w.hand \in JobsOf(p) /\ ~ w.sealed /\ SetW(s, p, v)
    BY <1>3, <1>5, <1>6 DEF TakeHand, Quiet
  <2>2. /\ v \in Writers(p) /\ v.pc \in {"select", "produce"}
        /\ v.kind = IF v.pc = "select" THEN w.kind ELSE "vote"
        /\ v.mu = w.mu /\ v.closing = w.closing /\ v.sealed = w.sealed
        /\ v.jobs = w.jobs /\ v.seal = w.seal /\ v.drain = w.drain
        /\ v.batch = Append(w.batch, w.hand) /\ v.hand = NoJob
    BY <1>1, <2>1, AppendedFacts
  <2> HIDE DEF v, w
  <2>3. Range(v.batch) = Range(w.batch) \cup {w.hand}
    BY <1>5, <2>1, <2>2, RangeFacts
  <2>4. HeldBy(v) \subseteq HeldBy(w)
    <3>1. w.hand # NoJob
      BY <2>1, ConstantFacts DEF JobsOf
    <3>2. Range(v.batch) \subseteq LeftOver(w) /\ Range(v.jobs) \subseteq LeftOver(w)
      BY <2>2, <2>3, <3>1 DEF LeftOver
    <3> QED
      BY <1>1, <2>2, <3>2, HeldWithin
  <2>5. Moved(s, p, v)
    BY <1>3, <1>4, <2>1, <2>2, <2>4
  <2> QED
    BY <2>5
<1>7. CASE Tick(s, p)
  <2> DEFINE v == Begin(w, "vote")
  <2>1. ~ w.sealed /\ SetW(s, p, v)
    BY <1>3, <1>7 DEF Tick, Quiet
  <2>2. /\ v \in Writers(p) /\ v.pc = "produce" /\ v.kind = "vote" /\ v.mu = w.mu
        /\ v.closing = w.closing /\ v.sealed = w.sealed /\ v.jobs = w.jobs
        /\ v.seal = w.seal /\ v.drain = w.drain /\ v.batch = w.batch /\ v.hand = w.hand
    BY <1>1 DEF Begin, Writers
  <2> HIDE DEF v, w
  <2>3. HeldBy(v) \subseteq HeldBy(w)
    BY <2>2 DEF HeldBy, LeftOver
  <2>4. Moved(s, p, v)
    BY <1>3, <1>4, <2>1, <2>2, <2>3
  <2> QED
    BY <2>4
<1>8. CASE SeeSeal(s, p)
  <2> DEFINE v == [w EXCEPT !.seal = FALSE, !.drain = TRUE]
  <2>1. ~ w.sealed /\ SetW(s, p, v) /\ w.closing
    BY <1>3, <1>8 DEF SeeSeal, Quiet
  <2>2. /\ v \in Writers(p) /\ v.pc = "select" /\ v.kind = w.kind /\ v.mu = w.mu
        /\ v.closing = w.closing /\ v.sealed = w.sealed /\ v.jobs = w.jobs
        /\ v.batch = w.batch /\ v.hand = w.hand
    BY <1>1, <1>2 DEF Writers
  <2> HIDE DEF v, w
  <2>3. HeldBy(v) \subseteq HeldBy(w)
    BY <2>2 DEF HeldBy, LeftOver
  <2>4. Moved(s, p, v)
    BY <1>3, <1>4, <2>1, <2>2, <2>3
  <2> QED
    BY <2>4
<1>9. CASE Finish(s, p)
  <2> DEFINE k == IF w.batch = <<>> THEN "closed" ELSE "vote"
             v == Begin(w, k)
  <2>1. /\ ~ w.sealed /\ SetW(s, p, v) /\ w.closing /\ w.jobs = <<>> /\ w.hand = NoJob
    BY <1>3, <1>9 DEF Finish, Quiet, Drained
  <2>2. /\ v \in Writers(p) /\ v.pc = "produce" /\ v.kind = k /\ v.mu = w.mu
        /\ v.closing = w.closing /\ v.sealed = w.sealed /\ v.jobs = w.jobs
        /\ v.seal = w.seal /\ v.drain = w.drain /\ v.batch = w.batch /\ v.hand = w.hand
    BY <1>1 DEF Begin, Writers
  <2>3. v.kind = "closed" => v.batch = <<>>
    BY <2>2
  <2>4. v.kind \in {"vote", "closed"}
    BY <2>2
  <2> HIDE DEF v, w, k
  <2>5. HeldBy(v) \subseteq HeldBy(w)
    BY <2>2 DEF HeldBy, LeftOver
  <2>6. Range(v.jobs) = {} /\ (v.kind = "closed" => Range(v.batch) = {})
    <3>1. v.jobs \in Seq(JobsOf(p)) /\ v.jobs = <<>> /\ v.batch \in Seq(JobsOf(p))
      BY <1>5, <2>1, <2>2
    <3>2. \A q \in Seq(JobsOf(p)) : q = <<>> => Range(q) = {}
      BY RangeFacts
    <3> QED
      BY <2>3, <3>1, <3>2
  <2>7. v.kind = "closed" => LeftOver(v) = {}
    BY <2>1, <2>2, <2>6 DEF LeftOver
  <2>8. Moved(s, p, v)
    BY <1>3, <1>4, <2>1, <2>2, <2>4, <2>5, <2>7
  <2> QED
    BY <2>8
<1> QED
  BY <1>6, <1>7, <1>8, <1>9

\* A batch is answered with the positions of its records, or BOOT or CLOSED confirmed.
LEMMA ConfirmMoves ==
    ASSUME TypeInv, WriterInv, NEW s \in Sessions, NEW p \in Partitions, Alive(s),
           Confirm(s, p)
    PROVE  \E v : Moved(s, p, v)
<1> DEFINE w == W(s, p)
           l == log[p]
           a == [w EXCEPT !.pc = "select", !.votes = 0, !.batch = AfterCommit(w)]
           b == [w EXCEPT !.pc = "booted"]
           c == [w EXCEPT !.pc = "done", !.sealed = TRUE, !.end = w.first, !.jobs = <<>>]
           offset(j) == Receipt(p, w.first + (CHOOSE i \in DOMAIN w.batch : w.batch[i] = j) - 1)
<1>1. /\ WriterOK(w, l, ending[p], epoch[p], session[s], s, p)
      /\ w \in Writers(p) /\ PhaseOK(w, session[s]) /\ KnownOK(w, l, session[s], s)
      /\ session[s] \in {"boot", "up", "stopped"} /\ ending[p] \in BOOLEAN
  BY WriterFacts
<1>2. w.pc = "acked"
  BY DEF Confirm, Confirmed
<1>3. \/ /\ w.kind = "vote" /\ SetW(s, p, a)
         /\ AnswerAll(Range(w.batch), [j \in Range(w.batch) |-> offset(j)])
      \/ w.kind = "boot" /\ SetW(s, p, b) /\ UNCHANGED reply
      \/ w.kind = "closed" /\ SetW(s, p, c) /\ AnswerUnknown(LeftOver(w))
  BY DEF Confirm
<1>4. Placed(w, l, s) /\ Settled(w, l, "committed")
  BY <1>1, <1>2 DEF KnownOK
<1>5. l \in Seq(Records) /\ Len(l) \in Nat
  BY DEF TypeInv
<1>6. /\ w.batch \in Seq(JobsOf(p)) /\ w.jobs \in Seq(JobsOf(p)) /\ w.first \in Nat
  BY <1>1 DEF Writers
<1>7. session[s] = "boot" \/ ~ w.sealed
  BY <1>1, <1>2 DEF PhaseOK
<1>8. epoch[p] = s => OwnerOK(w, l, ending[p], session[s])
  BY <1>1 DEF WriterOK
<1>9. ~ Broken(w)
  BY <1>2 DEF Broken
<1> HIDE DEF w, l, offset
<1>10. CASE w.kind = "vote" /\ SetW(s, p, a)
            /\ AnswerAll(Range(w.batch), [j \in Range(w.batch) |-> offset(j)])
  <2>1. session[s] \in {"up", "stopped"} /\ ~ w.sealed
    BY <1>1, <1>7, <1>10 DEF PhaseOK
  <2>2. /\ a \in Writers(p) /\ a.pc = "select" /\ a.kind = "vote" /\ a.mu = w.mu
        /\ a.closing = w.closing /\ a.sealed = w.sealed /\ a.jobs = w.jobs
        /\ a.seal = w.seal /\ a.drain = w.drain /\ a.batch = <<>> /\ a.hand = w.hand
    <3>1. AfterCommit(w) = <<>> /\ <<>> \in Seq(JobsOf(p)) /\ 0 \in Int
      BY EmptySeq DEF AfterCommit
    <3> QED
      BY <1>1, <1>10, <3>1 DEF Writers
  <2> HIDE DEF a
  <2>3. PhaseOK(a, session[s])
    BY <1>1, <2>1, <2>2 DEF PhaseOK, InTransaction
  <2>4. KnownOK(a, l, session[s], s)
    BY <1>1, <2>1, <2>2 DEF KnownOK
  <2>5. epoch[p] = s => OwnerOK(a, l, ending[p], session[s])
    BY <1>2, <1>8, <1>10, <2>1, <2>2 DEF OwnerOK
  <2>6. WriterOK(a, l, ending[p], epoch[p], session[s], s, p)
    BY <2>1, <2>2, <2>3, <2>4, <2>5 DEF WriterOK
  <2>7. Range(a.batch) = {}
    BY <2>2, EmptySeq, RangeFacts DEF Range
  <2>8. HeldBy(a) \subseteq HeldBy(w)
    BY <2>2, <2>7 DEF HeldBy, LeftOver
  <2>9. ASSUME NEW j \in Range(w.batch)
        PROVE  offset(j).kind = "receipt" /\ Counts(offset(j), j)
    <3> DEFINE i == CHOOSE k \in DOMAIN w.batch : w.batch[k] = j
    <3>1. DOMAIN w.batch = 1 .. Len(w.batch) /\ Len(w.batch) \in Nat /\ Kinds(w) = w.batch
      BY <1>6, <1>10 DEF Kinds
    <3>2. i \in 1 .. Len(w.batch) /\ w.batch[i] = j
      BY <3>1 DEF Range
    <3>3. offset(j) = Receipt(p, w.first + i - 1)
      BY DEF offset
    <3> HIDE DEF i
    <3>4. w.first + i - 1 \in 1 .. Len(l)
      BY <1>4, <1>5, <1>6, <3>1, <3>2 DEF Placed
    <3>5. /\ l[w.first + i - 1].kind = "vote" /\ l[w.first + i - 1].job = j
          /\ l[w.first + i - 1].st = "committed"
      BY <1>4, <1>10, <3>1, <3>2 DEF Placed, Settled
    <3>6. Target(j) = p
      BY <1>6, RangeFacts DEF JobsOf
    <3> QED
      BY <3>3, <3>4, <3>5, <3>6 DEF Counts, CommittedAt, Receipt, l
  <2>10. ASSUME NEW j \in Jobs, reply'[j] # reply[j]
         PROVE  /\ j \in LeftOver(w)
                /\ reply'[j].kind = "receipt" /\ Counts(reply'[j], j)
    <3>1. reply'[j] = IF j \in Range(w.batch) THEN offset(j) ELSE reply[j]
      BY <1>10 DEF AnswerAll
    <3> QED
      BY <2>9, <2>10, <3>1 DEF LeftOver
  <2>11. Moved(s, p, a)
    BY <1>9, <1>10, <2>6, <2>8, <2>10 DEF Moved, w, l
  <2> QED
    BY <2>11
<1>11. CASE w.kind = "boot" /\ SetW(s, p, b) /\ UNCHANGED reply
  <2>1. session[s] = "boot"
    BY <1>1, <1>2, <1>11 DEF PhaseOK, InTransaction
  <2>2. /\ b \in Writers(p) /\ b.pc = "booted" /\ b.kind = "boot" /\ b.mu = w.mu
        /\ b.closing = w.closing /\ b.sealed = w.sealed /\ b.failed = w.failed
        /\ b.jobs = w.jobs /\ b.first = w.first
        /\ b.seal = w.seal /\ b.drain = w.drain /\ b.batch = w.batch /\ b.hand = w.hand
    BY <1>1, <1>11 DEF Writers
  <2> HIDE DEF b
  <2>3. PhaseOK(b, session[s])
    BY <1>1, <2>1, <2>2 DEF PhaseOK, Fresh
  <2>4. w.first \in 1 .. Len(l) /\ BootBy(l, w.first, s)
    <3>1. Len(Kinds(w)) = 1
      BY <1>1, <1>11, KindsFacts
    <3>2. w.first + 1 - 1 = w.first /\ 1 \in 1 .. Len(Kinds(w))
      BY <1>6, <3>1
    <3>3. w.first \in 1 .. Len(l)
      BY <1>4, <1>5, <1>6, <3>1 DEF Placed
    <3>4. l[w.first].by = s /\ l[w.first].kind = "boot" /\ l[w.first].st = "committed"
      BY <1>4, <1>11, <3>2 DEF Placed, Settled
    <3> QED
      BY <3>3, <3>4 DEF BootBy, CommittedAt
  <2>5. KnownOK(b, l, session[s], s)
    BY <2>1, <2>2, <2>4 DEF KnownOK
  <2>6. epoch[p] = s => OwnerOK(b, l, ending[p], session[s])
    BY <1>2, <1>8, <1>11, <2>1, <2>2 DEF OwnerOK
  <2>7. epoch[p] = s
    BY <1>1, <1>2, <2>1 DEF WriterOK
  <2>8. WriterOK(b, l, ending[p], epoch[p], session[s], s, p)
    BY <2>1, <2>2, <2>3, <2>5, <2>6, <2>7 DEF WriterOK
  <2>9. HeldBy(b) \subseteq HeldBy(w)
    BY <2>2 DEF HeldBy, LeftOver
  <2>10. Moved(s, p, b)
    BY <1>9, <1>11, <2>8, <2>9 DEF Moved, w, l
  <2> QED
    BY <2>10
<1>12. CASE w.kind = "closed" /\ SetW(s, p, c) /\ AnswerUnknown(LeftOver(w))
  <2>1. session[s] \in {"up", "stopped"} /\ ~ w.sealed /\ LeftOver(w) = {} /\ w.closing
    BY <1>1, <1>7, <1>12 DEF PhaseOK
  <2>2. /\ c \in Writers(p) /\ c.pc = "done" /\ c.kind = "closed" /\ c.mu = w.mu
        /\ c.closing = w.closing /\ c.sealed = TRUE /\ c.jobs = <<>> /\ c.end = w.first
        /\ c.seal = w.seal /\ c.drain = w.drain /\ c.batch = w.batch /\ c.hand = w.hand
    BY <1>1, <1>12, EmptySeq DEF Writers
  <2> HIDE DEF c
  <2>3. LeftOver(c) = {}
    <3>1. Range(c.jobs) = {}
      BY <2>2 DEF Range
    <3> QED
      BY <2>1, <2>2, <3>1 DEF LeftOver
  <2>4. PhaseOK(c, session[s])
    BY <1>1, <2>1, <2>2, <2>3 DEF PhaseOK, InTransaction
  <2>5. w.first \in 1 .. Len(l) /\ CommittedAt(l, w.first, "closed")
    <3>1. Len(Kinds(w)) = 1
      BY <1>1, <1>12, KindsFacts
    <3>2. w.first + 1 - 1 = w.first /\ 1 \in 1 .. Len(Kinds(w))
      BY <1>6, <3>1
    <3>3. w.first \in 1 .. Len(l)
      BY <1>4, <1>5, <1>6, <3>1 DEF Placed
    <3>4. l[w.first].kind = "closed" /\ l[w.first].st = "committed"
      BY <1>4, <1>12, <3>2 DEF Placed, Settled
    <3> QED
      BY <3>3, <3>4 DEF CommittedAt
  <2>6. KnownOK(c, l, session[s], s)
    BY <1>1, <2>1, <2>2, <2>5 DEF KnownOK
  <2>7. epoch[p] = s => OwnerOK(c, l, ending[p], session[s])
    BY <1>2, <1>8, <1>12, <2>1, <2>2 DEF OwnerOK
  <2>8. WriterOK(c, l, ending[p], epoch[p], session[s], s, p)
    BY <2>1, <2>2, <2>4, <2>6, <2>7 DEF WriterOK
  <2>9. HeldBy(c) \subseteq HeldBy(w)
    BY <2>1, <2>2, <2>3 DEF HeldBy
  <2>10. \A j \in Jobs : reply'[j] = reply[j]
    BY <1>12, <2>1 DEF AnswerUnknown, AnswerAll
  <2>11. Moved(s, p, c)
    BY <1>9, <1>12, <2>8, <2>9, <2>10 DEF Moved, w, l
  <2> QED
    BY <2>11
<1> QED
  BY <1>3, <1>10, <1>11, <1>12

\* A commit that fails answers its batch, and the writer is on its way out.
LEMMA CommitFailsMoves ==
    ASSUME TypeInv, WriterInv, NEW s \in Sessions, NEW p \in Partitions, Alive(s),
           CommitFails(s, p)
    PROVE  \E v : Moved(s, p, v)
<1> DEFINE w == W(s, p)
           l == log[p]
           v == [w EXCEPT !.votes = 0, !.batch = <<>>,
                          !.pc = IF w.kind = "boot" THEN "unbooted" ELSE "failing"]
<1>1. /\ WriterOK(w, l, ending[p], epoch[p], session[s], s, p)
      /\ w \in Writers(p) /\ PhaseOK(w, session[s]) /\ KnownOK(w, l, session[s], s)
      /\ session[s] \in {"boot", "up", "stopped"} /\ ending[p] \in BOOLEAN
  BY WriterFacts
<1>2. w.pc \in {"produce", "end", "ack", "acked"} /\ SetW(s, p, v)
      /\ AnswerUnknown(Range(w.batch))
  BY DEF CommitFails, InTransaction
<1>3. epoch[p] = s => OwnerOK(w, l, ending[p], session[s])
  BY <1>1 DEF WriterOK
<1>4. <<>> \in Seq(JobsOf(p)) /\ 0 \in Int
  BY EmptySeq
<1> HIDE DEF w, l
<1>5. /\ v \in Writers(p) /\ v.pc = (IF w.kind = "boot" THEN "unbooted" ELSE "failing")
      /\ v.kind = w.kind /\ v.mu = w.mu /\ v.first = w.first /\ v.end = w.end
      /\ v.closing = w.closing /\ v.sealed = w.sealed /\ v.failed = w.failed
      /\ v.jobs = w.jobs /\ v.seal = w.seal /\ v.drain = w.drain /\ v.batch = <<>>
      /\ v.hand = w.hand
  BY <1>1, <1>4 DEF Writers
<1> HIDE DEF v
<1>6. Range(v.batch) = {}
  BY <1>5 DEF Range
<1>7. LeftOver(v) \subseteq LeftOver(w) /\ HeldBy(v) \subseteq HeldBy(w)
  BY <1>5, <1>6 DEF HeldBy, LeftOver
<1>8. CASE session[s] = "boot"
  <2>1. w.kind = "boot" /\ v.pc = "unbooted" /\ w.batch = <<>> /\ Fresh(v)
    BY <1>1, <1>5, <1>8 DEF PhaseOK, Fresh
  <2>2. PhaseOK(v, session[s]) /\ KnownOK(v, l, session[s], s)
    BY <1>5, <1>8, <2>1 DEF PhaseOK, KnownOK
  <2>3. epoch[p] = s => OwnerOK(v, l, ending[p], session[s])
    BY <1>3, <1>8, <2>1 DEF OwnerOK
  <2>4. WriterOK(v, l, ending[p], epoch[p], session[s], s, p)
    BY <1>5, <1>8, <2>1, <2>2, <2>3 DEF WriterOK
  <2>5. \A j \in Jobs : reply'[j] = reply[j]
    <3>1. Range(w.batch) = {}
      BY <2>1 DEF Range
    <3> QED
      BY <1>2, <3>1 DEF AnswerUnknown, AnswerAll
  <2>6. ~ Broken(w)
    BY <1>2 DEF Broken
  <2> QED
    BY <1>2, <1>7, <2>4, <2>5, <2>6 DEF Moved, w, l
<1>9. CASE session[s] \in {"up", "stopped"}
  <2>1. w.kind \in {"vote", "closed"} /\ v.pc = "failing" /\ ~ w.sealed
        /\ (w.closing => w.mu = NoJob) /\ (w.seal \/ w.drain => w.closing)
    BY <1>1, <1>2, <1>5, <1>9 DEF PhaseOK, InTransaction
  <2>2. w.kind = "closed" => w.closing /\ LeftOver(w) = {}
    BY <1>1, <1>9 DEF PhaseOK
  <2>3. PhaseOK(v, session[s])
    BY <1>5, <1>7, <1>9, <2>1, <2>2 DEF PhaseOK, InTransaction
  <2>4. KnownOK(v, l, session[s], s)
    BY <1>1, <1>5, <1>9, <2>1 DEF KnownOK
  <2>5. epoch[p] = s => OwnerOK(v, l, ending[p], session[s])
    BY <1>3, <1>9, <2>1 DEF OwnerOK
  <2>6. WriterOK(v, l, ending[p], epoch[p], session[s], s, p)
    BY <1>5, <1>9, <2>1, <2>3, <2>4, <2>5 DEF WriterOK
  <2>7. Broken(v)
    BY <1>5, <2>1 DEF Broken
  <2>8. \A j \in Jobs : reply'[j] = reply[j] \/ (j \in LeftOver(w) /\ reply'[j] = Unknown)
    BY <1>2 DEF AnswerUnknown, AnswerAll, LeftOver
  <2> QED
    BY <1>2, <1>7, <2>6, <2>7, <2>8 DEF Moved, w, l
<1> QED
  BY <1>1, <1>8, <1>9

\* A writer that leaves answers everything it holds.
LEMMA ExitMoves ==
    ASSUME TypeInv, WriterInv, NEW s \in Sessions, NEW p \in Partitions, Alive(s),
           Fail(s, p) \/ SeeStop(s, p)
    PROVE  \E v : Moved(s, p, v)
<1> DEFINE w == W(s, p)
           l == log[p]
           v(f) == [w EXCEPT !.pc = "done", !.failed = f, !.votes = 0, !.batch = <<>>,
                             !.hand = NoJob, !.jobs = <<>>]
<1>1. /\ WriterOK(w, l, ending[p], epoch[p], session[s], s, p)
      /\ w \in Writers(p) /\ PhaseOK(w, session[s]) /\ KnownOK(w, l, session[s], s)
      /\ session[s] \in {"boot", "up", "stopped"} /\ ending[p] \in BOOLEAN
  BY WriterFacts
<1>2. PICK f \in BOOLEAN : SetW(s, p, v(f))
  BY DEF Fail, SeeStop, Exit
<1>3. AnswerUnknown(LeftOver(w))
  BY DEF Fail, SeeStop, Exit
<1>4. w.pc = "failing" \/ (w.pc = "select" /\ session[s] = "stopped")
  BY DEF Fail, SeeStop
<1>5. epoch[p] = s => OwnerOK(w, l, ending[p], session[s])
  BY <1>1 DEF WriterOK
<1>6. <<>> \in Seq(JobsOf(p)) /\ 0 \in Int
  BY EmptySeq
<1> HIDE DEF w, l
<1> DEFINE u == v(f)
<1>7. /\ u \in Writers(p) /\ u.pc = "done" /\ u.kind = w.kind /\ u.mu = w.mu
      /\ u.first = w.first /\ u.end = w.end /\ u.closing = w.closing
      /\ u.sealed = w.sealed /\ u.jobs = <<>> /\ u.seal = w.seal
      /\ u.drain = w.drain /\ u.batch = <<>> /\ u.hand = NoJob
  BY <1>1, <1>2, <1>6 DEF Writers
<1>8. SetW(s, p, u)
  BY <1>2
<1> HIDE DEF u, v
<1>9. Range(u.batch) = {} /\ Range(u.jobs) = {}
  BY <1>7 DEF Range
<1>10. LeftOver(u) = {} /\ HeldBy(u) \subseteq HeldBy(w)
  BY <1>7, <1>9 DEF HeldBy, LeftOver
<1>11. session[s] \in {"up", "stopped"}
  BY <1>1, <1>4 DEF PhaseOK
<1>12. /\ w.kind = "closed" => w.closing /\ w.pc # "select"
       /\ w.sealed => w.pc = "select"
       /\ (w.closing => w.mu = NoJob) /\ (w.seal \/ w.drain => w.closing)
  BY <1>1, <1>4, <1>11 DEF PhaseOK
<1>13. PhaseOK(u, session[s])
  BY <1>7, <1>10, <1>11, <1>12 DEF PhaseOK, InTransaction
<1>14. KnownOK(u, l, session[s], s)
  BY <1>1, <1>7, <1>11 DEF KnownOK
<1>15. epoch[p] = s => OwnerOK(u, l, ending[p], session[s])
  BY <1>5, <1>7 DEF OwnerOK
<1>16. WriterOK(u, l, ending[p], epoch[p], session[s], s, p)
  BY <1>7, <1>11, <1>13, <1>14, <1>15 DEF WriterOK
<1>17. Broken(u)
  BY <1>7, <1>12 DEF Broken
<1>18. \A j \in Jobs : reply'[j] = reply[j] \/ (j \in LeftOver(w) /\ reply'[j] = Unknown)
  BY <1>3 DEF AnswerUnknown, AnswerAll
<1>19. Moved(s, p, u)
  BY <1>8, <1>10, <1>16, <1>17, <1>18 DEF Moved, w, l
<1> QED
  BY <1>19

\* Seal closes a gate; or the brokers refuse a producer id.
LEMMA GateMoves ==
    ASSUME TypeInv, WriterInv, NEW s \in Sessions, NEW p \in Partitions, Alive(s),
           SealGate(s, p) \/ ProducerIDFails(s, p)
    PROVE  \E v : Moved(s, p, v)
<1> DEFINE w == W(s, p)
           l == log[p]
<1>1. /\ WriterOK(w, l, ending[p], epoch[p], session[s], s, p)
      /\ w \in Writers(p) /\ PhaseOK(w, session[s]) /\ KnownOK(w, l, session[s], s)
      /\ session[s] \in {"boot", "up", "stopped"} /\ ending[p] \in BOOLEAN
  BY WriterFacts
<1>2. UNCHANGED reply
  BY DEF SealGate, ProducerIDFails
<1>3. epoch[p] = s => OwnerOK(w, l, ending[p], session[s])
  BY <1>1 DEF WriterOK
<1>4. CASE SealGate(s, p)
  <2> DEFINE v == CloseGate(w)
  <2>1. /\ SetW(s, p, v) /\ session[s] \in {"up", "stopped"} /\ w.mu = NoJob /\ ~ w.sealed
        /\ ~ w.closing
    BY <1>4 DEF SealGate, Running, Unlocked
  <2> HIDE DEF w, l
  <2>2. /\ v \in Writers(p) /\ v.pc = w.pc /\ v.kind = w.kind /\ v.mu = w.mu
        /\ v.first = w.first /\ v.end = w.end /\ v.closing = TRUE /\ v.sealed = w.sealed
        /\ v.jobs = w.jobs /\ v.batch = w.batch /\ v.hand = w.hand
    BY <1>1 DEF Writers, CloseGate
  <2> HIDE DEF v
  <2>3. w.kind # "closed"
    BY <1>1, <2>1 DEF PhaseOK
  <2>4. PhaseOK(v, session[s])
    BY <1>1, <2>1, <2>2, <2>3 DEF PhaseOK, InTransaction
  <2>5. WriterOK(v, l, ending[p], epoch[p], session[s], s, p)
    BY <1>1, <2>2, <2>4, SameTransaction
  <2>6. HeldBy(v) \subseteq HeldBy(w) /\ (Broken(w) => Broken(v))
    BY <2>2 DEF HeldBy, LeftOver, Broken
  <2>7. Moved(s, p, v)
    BY <1>2, <2>1, <2>5, <2>6 DEF Moved, w, l
  <2> QED
    BY <2>7
<1>5. CASE ProducerIDFails(s, p)
  <2> DEFINE v == [w EXCEPT !.pc = "unbooted"]
  <2>1. SetW(s, p, v) /\ w.pc = "init"
    BY <1>5 DEF ProducerIDFails
  <2> HIDE DEF w, l
  <2>2. /\ v \in Writers(p) /\ v.pc = "unbooted" /\ v.kind = w.kind /\ v.mu = w.mu
        /\ v.closing = w.closing /\ v.sealed = w.sealed /\ v.failed = w.failed
        /\ v.jobs = w.jobs /\ v.seal = w.seal /\ v.drain = w.drain
        /\ v.batch = w.batch /\ v.hand = w.hand
    BY <1>1 DEF Writers
  <2> HIDE DEF v
  <2>3. session[s] = "boot"
    BY <1>1, <2>1 DEF PhaseOK
  <2>4. PhaseOK(v, session[s]) /\ KnownOK(v, l, session[s], s)
    BY <1>1, <2>2, <2>3 DEF PhaseOK, KnownOK, Fresh
  <2>5. epoch[p] # s
    BY <1>3, <2>1 DEF OwnerOK
  <2>6. WriterOK(v, l, ending[p], epoch[p], session[s], s, p)
    BY <2>2, <2>4, <2>5 DEF WriterOK
  <2>7. HeldBy(v) \subseteq HeldBy(w) /\ ~ Broken(w)
    BY <2>1, <2>2 DEF HeldBy, LeftOver, Broken
  <2>8. Moved(s, p, v)
    BY <1>2, <2>1, <2>6, <2>7 DEF Moved, w, l
  <2> QED
    BY <2>8
<1> QED
  BY <1>4, <1>5

\* Every step of a writer's loop keeps the invariant of its writer.
LEMMA LoopMoves ==
    ASSUME TypeInv, WriterInv, NEW s \in Sessions, NEW p \in Partitions, Alive(s), Loop(s, p)
    PROVE  \E v : Moved(s, p, v)
  BY TakeMoves, SelectSteps, ConfirmMoves, CommitFailsMoves, ExitMoves, GateMoves DEF Loop

-----------------------------------------------------------------------------
(* The writers and their journal *)

\* A step of one writer that writes no journal.
LEMMA WriterMoves ==
    ASSUME TypeInv, WriterInv, NEW s \in Sessions, NEW p \in Partitions, NEW v,
           SetW(s, p, v), UNCHANGED <<log, epoch, session>>,
           WriterOK(v, log[p], ending'[p], epoch[p], session[s], s, p),
           \A q \in Partitions : ending'[q] = ending[q] \/ (q = p /\ epoch[p] = s)
    PROVE  WriterInv'
<1>1. ASSUME NEW t \in Sessions, NEW q \in Partitions
      PROVE  WriterOK(wr'[t][q], log[q], ending'[q], epoch[q], session[t], t, q)
  <2>1. wr'[t][q] = IF t = s /\ q = p THEN v ELSE wr[t][q]
    BY WriterSet
  <2>2. CASE t = s /\ q = p
    BY <2>1, <2>2
  <2>3. CASE ~ (t = s /\ q = p)
    <3>1. WriterOK(wr[t][q], log[q], ending[q], epoch[q], session[t], t, q)
      BY DEF WriterInv, W
    <3>2. ending'[q] = ending[q] \/ epoch[q] # t
      BY <2>3
    <3> QED
      BY <2>1, <2>3, <3>1, <3>2 DEF WriterOK
  <2> QED
    BY <2>2, <2>3
<1> QED
  BY <1>1 DEF WriterInv, W

\* A writer whose producer the broker does not accept is not touched by what is written.
LEMMA OtherWriter ==
    ASSUME NEW p \in Partitions, NEW t \in Sessions, NEW ss, NEW w, NEW x, NEW y,
           NEW e, NEW d, NEW l \in Seq(Records), NEW m \in Seq(Records), Grows(l, m),
           WriterOK(w, l, x, e, ss, t, p), d # t, ss = "boot" => e # t
    PROVE  WriterOK(w, m, y, d, ss, t, p)
<1>1. w \in Writers(p) /\ KnownOK(w, l, ss, t)
  BY DEF WriterOK
<1>2. KnownOK(w, m, ss, t)
  BY <1>1, KnownGrows
<1> QED
  BY <1>1, <1>2 DEF WriterOK

\* The journal of p is written; the writer of its owner, if there is one, follows.
LEMMA JournalMoves ==
    ASSUME TypeInv, WriterInv, UNCHANGED session, NEW p \in Partitions,
           NEW m \in Seq(Records), Grows(log[p], m), log' = [log EXCEPT ![p] = m],
           \A q \in Partitions : q # p => ending'[q] = ending[q] /\ epoch'[q] = epoch[q],
           \A t \in Sessions, q \in Partitions :
             (q = p /\ t = epoch'[p]) \/ wr'[t][q] = wr[t][q],
           \A t \in Sessions : session[t] = "boot" /\ epoch[p] = t => epoch'[p] = t,
           epoch'[p] \in Sessions =>
             WriterOK(wr'[epoch'[p]][p], m, ending'[p], epoch'[p], session[epoch'[p]],
                      epoch'[p], p)
    PROVE  WriterInv'
<1>1. log'[p] = m /\ log[p] \in Seq(Records) /\ \A q \in Partitions : q # p => log'[q] = log[q]
  BY DEF TypeInv
<1>2. ASSUME NEW t \in Sessions, NEW q \in Partitions
      PROVE  WriterOK(wr'[t][q], log'[q], ending'[q], epoch'[q], session[t], t, q)
  <2>1. WriterOK(wr[t][q], log[q], ending[q], epoch[q], session[t], t, q)
    BY DEF WriterInv, W
  <2>2. CASE q # p
    BY <1>1, <2>1, <2>2
  <2>3. CASE q = p /\ t = epoch'[p]
    BY <1>1, <2>3
  <2>4. CASE q = p /\ t # epoch'[p]
    BY <1>1, <2>1, <2>4, OtherWriter
  <2> QED
    BY <2>2, <2>3, <2>4
<1> QED
  BY <1>2 DEF WriterInv, W

\* EndTransaction is asked for the writer's own records, the last of the journal.
LEMMA EndMoves ==
    ASSUME TypeInv, WriterInv, NEW s \in Sessions, NEW p \in Partitions, Alive(s),
           EndTransaction(s, p)
    PROVE  WriterInv'
<1> DEFINE w == W(s, p)
           l == log[p]
           v == [w EXCEPT !.pc = "ack"]
<1>1. /\ WriterOK(w, l, ending[p], epoch[p], session[s], s, p)
      /\ w \in Writers(p) /\ PhaseOK(w, session[s]) /\ KnownOK(w, l, session[s], s)
      /\ session[s] \in {"boot", "up", "stopped"}
  BY WriterFacts
<1>2. /\ w.pc = "end" /\ epoch[p] = s /\ IsOpen(l) /\ SetW(s, p, v)
      /\ UNCHANGED <<log, epoch, session>> /\ ending' = [ending EXCEPT ![p] = TRUE]
  BY DEF EndTransaction, Accepts
<1>3. ending'[p] = TRUE /\ \A q \in Partitions : q # p => ending'[q] = ending[q]
  BY <1>2 DEF TypeInv
<1>4. OwnerOK(w, l, ending[p], session[s]) /\ Placed(w, l, s)
  BY <1>1, <1>2 DEF WriterOK
<1>5. l \in Seq(Records) /\ Len(l) \in Nat /\ w.first \in Nat /\ Len(Kinds(w)) \in Nat
  BY <1>1, KindsFacts DEF TypeInv, Writers
<1> HIDE DEF w, l
<1>6. /\ v \in Writers(p) /\ v.pc = "ack" /\ v.kind = w.kind /\ v.mu = w.mu
      /\ v.first = w.first /\ v.end = w.end /\ v.closing = w.closing
      /\ v.sealed = w.sealed /\ v.failed = w.failed /\ v.jobs = w.jobs
      /\ v.seal = w.seal /\ v.drain = w.drain /\ v.batch = w.batch /\ v.hand = w.hand
  BY <1>1 DEF Writers
<1> HIDE DEF v
<1>7. Kinds(v) = Kinds(w)
  BY <1>6 DEF Kinds
<1>8. Settled(w, l, "open")
  <2>1. PICK i \in 1 .. Len(l) : l[i].st = "open"
    BY <1>2, <1>5 DEF IsOpen
  <2>2. i >= w.first
    BY <1>2, <1>4, <1>5, <2>1 DEF OwnerOK
  <2>3. i - w.first + 1 \in 1 .. Len(Kinds(w)) /\ w.first + (i - w.first + 1) - 1 = i
    BY <1>2, <1>4, <1>5, <2>1, <2>2 DEF OwnerOK, AtEnd
  <2>4. ~ Settled(w, l, "aborted")
    BY <2>1, <2>3 DEF Settled
  <2> QED
    BY <1>2, <1>4, <2>4 DEF OwnerOK
<1>9. PhaseOK(v, session[s])
  BY <1>1, <1>2, <1>6 DEF PhaseOK, Fresh, InTransaction, LeftOver
<1>10. KnownOK(v, l, session[s], s)
  BY <1>1, <1>6 DEF KnownOK
<1>11. OwnerOK(v, l, TRUE, session[s])
  <2>1. AtEnd(v, l) /\ Settled(v, l, "open") /\ \A i \in 1 .. v.first - 1 : l[i].st # "open"
    BY <1>2, <1>4, <1>6, <1>7, <1>8 DEF OwnerOK, AtEnd, Settled
  <2> QED
    BY <1>2, <1>4, <1>6, <2>1 DEF OwnerOK
<1>12. Placed(v, l, s)
  BY <1>4, <1>6, <1>7 DEF Placed
<1>13. WriterOK(v, l, ending'[p], epoch[p], session[s], s, p)
  BY <1>2, <1>3, <1>6, <1>9, <1>10, <1>11, <1>12 DEF WriterOK
<1> QED
  BY <1>2, <1>3, <1>13, WriterMoves DEF l

\* The records of a transaction are where the writer believes them to be.
LEMMA ProduceMoves ==
    ASSUME TypeInv, WriterInv, NEW s \in Sessions, NEW p \in Partitions, Alive(s),
           Produce(s, p)
    PROVE  WriterInv'
<1> DEFINE w == W(s, p)
           l == log[p]
           m == l \o NewRecords(w, s)
           v == [w EXCEPT !.pc = "end", !.first = Len(l) + 1]
           n == Len(Kinds(w))
<1>1. /\ w \in Writers(p) /\ PhaseOK(w, session[s]) /\ KnownOK(w, l, session[s], s)
      /\ session[s] \in {"boot", "up", "stopped"}
  BY WriterFacts
<1>2. /\ w.pc = "produce" /\ epoch[p] = s /\ SetW(s, p, v)
      /\ UNCHANGED <<epoch, ending, session>>
  BY DEF Produce, Accepts
<1>3. /\ \A i \in 1 .. Len(l) : l[i].st # "open"
      /\ ~ ending[p]
      /\ session[s] # "boot" => ~ w.sealed /\ ~ HasClosed(l)
  BY ReadyToWrite
<1>4. l \in Seq(Records) /\ Len(l) \in Nat /\ n \in Nat
  BY <1>1, KindsFacts DEF TypeInv
<1>5. m \in Seq(Records) /\ Grows(l, m) /\ log' = [log EXCEPT ![p] = m]
  BY LogMoves
<1>6. /\ Len(m) = Len(l) + n
      /\ \A i \in 1 .. Len(l) : m[i] = l[i]
      /\ \A i \in 1 .. n : m[Len(l) + i] = Record(s, w.kind, Kinds(w)[i])
  BY <1>1, <1>4, ProduceFacts
<1>7. \A t \in Sessions, q \in Partitions :
        wr'[t][q] = IF t = s /\ q = p THEN v ELSE wr[t][q]
  BY <1>2, WriterSet
<1> HIDE DEF w, l
<1>8. /\ v \in Writers(p) /\ v.pc = "end" /\ v.kind = w.kind /\ v.mu = w.mu
      /\ v.first = Len(l) + 1 /\ v.end = w.end /\ v.closing = w.closing
      /\ v.sealed = w.sealed /\ v.failed = w.failed /\ v.jobs = w.jobs
      /\ v.seal = w.seal /\ v.drain = w.drain /\ v.batch = w.batch /\ v.hand = w.hand
  <2>1. Len(l) + 1 \in Nat
    BY <1>4
  <2> QED
    BY <1>1, <2>1 DEF Writers
<1>9. Kinds(v) = Kinds(w)
  BY <1>8 DEF Kinds
<1> HIDE DEF m, v, n
<1>10. \A i \in 1 .. n : /\ m[v.first + i - 1].by = s /\ m[v.first + i - 1].kind = w.kind
                         /\ m[v.first + i - 1].job = Kinds(w)[i]
                         /\ m[v.first + i - 1].st = "open"
  <2> TAKE i \in 1 .. n
  <2>1. v.first + i - 1 = Len(l) + i
    BY <1>4, <1>8
  <2>2. m[v.first + i - 1] = Record(s, w.kind, Kinds(w)[i])
    BY <1>6, <2>1
  <2> QED
    BY <2>2 DEF Record
<1>11. Placed(v, m, s)
  BY <1>4, <1>6, <1>8, <1>9, <1>10 DEF Placed, n
<1>12. HasClosed(m) => HasClosed(l)
  <2>1. ASSUME NEW i \in 1 .. Len(m), CommittedAt(m, i, "closed")
        PROVE  i \in 1 .. Len(l)
    <3>1. ASSUME i \notin 1 .. Len(l) PROVE FALSE
      <4>1. i - Len(l) \in 1 .. n /\ v.first + (i - Len(l)) - 1 = i
        BY <1>4, <1>6, <1>8, <2>1, <3>1
      <4>2. m[i].st = "open"
        BY <1>10, <4>1
      <4> QED
        BY <2>1, <4>2 DEF CommittedAt
    <3> QED
      BY <3>1
  <2> QED
    BY <1>6, <2>1 DEF HasClosed, CommittedAt
<1>13. OwnerOK(v, m, ending[p], session[s])
  <2>1. AtEnd(v, m) /\ Settled(v, m, "open")
    <3>1. v.first + n - 1 = Len(m) /\ n = Len(Kinds(v))
      BY <1>4, <1>6, <1>8, <1>9 DEF n
    <3> QED
      BY <1>10, <3>1 DEF AtEnd, Settled
  <2>2. \A i \in 1 .. v.first - 1 : m[i].st # "open"
    <3>1. v.first - 1 = Len(l)
      BY <1>4, <1>8
    <3> QED
      BY <1>3, <1>6, <3>1
  <2>3. session[s] \in {"up", "stopped"} => ~ HasClosed(m)
    BY <1>3, <1>12
  <2> QED
    BY <1>3, <1>8, <2>1, <2>2, <2>3 DEF OwnerOK
<1>14. PhaseOK(v, session[s])
  BY <1>1, <1>2, <1>8 DEF PhaseOK, Fresh, InTransaction, LeftOver
<1>15. KnownOK(v, m, session[s], s)
  <2>1. KnownOK(w, m, session[s], s)
    BY <1>1, <1>4, <1>5, KnownGrows
  <2> QED
    BY <1>8, <2>1 DEF KnownOK
<1>16. WriterOK(v, m, ending[p], s, session[s], s, p)
  BY <1>8, <1>11, <1>13, <1>14, <1>15 DEF WriterOK
<1> QED
  BY <1>2, <1>5, <1>7, <1>16, JournalMoves, ZenonT(40) DEF l

\* A new producer finds nothing open behind it, and its predecessor owns nothing.
LEMMA ProducerMoves ==
    ASSUME TypeInv, BootInv, WriterInv, NEW s \in Sessions, NEW p \in Partitions, Alive(s),
           ProducerID(s, p)
    PROVE  WriterInv'
<1> DEFINE w == W(s, p)
           l == log[p]
           m == Settle(l, "aborted")
           v == Begin(w, "boot")
<1>1. /\ w \in Writers(p) /\ PhaseOK(w, session[s]) /\ KnownOK(w, l, session[s], s)
      /\ session[s] \in {"boot", "up", "stopped"}
  BY WriterFacts
<1>2. /\ w.pc = "init" /\ SetW(s, p, v) /\ UNCHANGED session
      /\ ending' = [ending EXCEPT ![p] = FALSE] /\ epoch' = [epoch EXCEPT ![p] = s]
  BY DEF ProducerID, Fence
<1>3. /\ ending'[p] = FALSE /\ epoch'[p] = s
      /\ \A q \in Partitions : q # p => ending'[q] = ending[q] /\ epoch'[q] = epoch[q]
  BY <1>2 DEF TypeInv
<1>4. l \in Seq(Records) /\ Len(l) \in Nat
  BY DEF TypeInv
<1>5. m \in Seq(Records) /\ Grows(l, m) /\ log' = [log EXCEPT ![p] = m]
  BY LogMoves
<1>6. Len(m) = Len(l) /\ \A i \in 1 .. Len(m) : m[i].st # "open"
  BY <1>4, SettleFacts
<1>7. \A t \in Sessions, q \in Partitions :
        wr'[t][q] = IF t = s /\ q = p THEN v ELSE wr[t][q]
  BY <1>2, WriterSet
<1>8. session[s] = "boot"
  BY <1>1, <1>2 DEF PhaseOK
<1>9. \A t \in Sessions : session[t] = "boot" => t = s
  <2>1. \A t \in Sessions : t \in Nat
    BY ConstantFacts
  <2>2. \A t \in Sessions : session[t] = "boot" => ~ t > s /\ ~ s > t
    BY <1>8 DEF BootInv
  <2> QED
    BY <2>1, <2>2
<1> HIDE DEF w, l, m
<1>10. /\ v \in Writers(p) /\ v.pc = "produce" /\ v.kind = "boot" /\ v.mu = w.mu
       /\ v.closing = w.closing /\ v.sealed = w.sealed /\ v.failed = w.failed
       /\ v.jobs = w.jobs /\ v.seal = w.seal /\ v.drain = w.drain
       /\ v.batch = w.batch /\ v.hand = w.hand
  BY <1>1 DEF Writers, Begin
<1> HIDE DEF v
<1>11. PhaseOK(v, session[s])
  BY <1>1, <1>8, <1>10 DEF PhaseOK, Fresh
<1>12. KnownOK(v, m, session[s], s)
  BY <1>8, <1>10 DEF KnownOK
<1>13. OwnerOK(v, m, FALSE, session[s])
  BY <1>6, <1>8, <1>10 DEF OwnerOK
<1>14. WriterOK(v, m, FALSE, s, session[s], s, p)
  BY <1>10, <1>11, <1>12, <1>13 DEF WriterOK
<1>15. \A t \in Sessions, q \in Partitions :
          (q = p /\ t = epoch'[p]) \/ wr'[t][q] = wr[t][q]
  BY <1>3, <1>7
<1>16. \A t \in Sessions : session[t] = "boot" /\ epoch[p] = t => epoch'[p] = t
  BY <1>3, <1>9
<1>17. WriterOK(wr'[epoch'[p]][p], m, ending'[p], epoch'[p], session[epoch'[p]],
                epoch'[p], p)
  BY <1>3, <1>7, <1>14
<1> QED
  BY <1>2, <1>3, <1>5, <1>15, <1>16, <1>17, JournalMoves DEF l

\* What the brokers commit is the transaction of the writer that asked for it.
LEMMA CommitMoves ==
    ASSUME TypeInv, WriterInv, NEW p \in Partitions, BrokerCommits(p)
    PROVE  WriterInv'
<1> DEFINE s == epoch[p]
           w == W(s, p)
           l == log[p]
           m == Settle(l, "committed")
           v == [w EXCEPT !.pc = "acked"]
<1>1. /\ ending[p] /\ IsOpen(l) /\ UNCHANGED <<epoch, session>>
      /\ ending' = [ending EXCEPT ![p] = FALSE]
      /\ wr' = IF w.pc = "ack" THEN [wr EXCEPT ![s][p].pc = "acked"] ELSE wr
  BY DEF BrokerCommits
<1>2. ending'[p] = FALSE /\ \A q \in Partitions : q # p => ending'[q] = ending[q]
  BY <1>1 DEF TypeInv
<1>3. l \in Seq(Records) /\ Len(l) \in Nat
  BY DEF TypeInv
<1>4. m \in Seq(Records) /\ Grows(l, m) /\ log' = [log EXCEPT ![p] = m]
  <2>1. 1 \in Sessions
    BY ConstantFacts
  <2> QED
    BY <2>1, LogMoves
<1>5. /\ Len(m) = Len(l) /\ \A i \in 1 .. Len(m) : m[i].st # "open"
      /\ \A i \in 1 .. Len(l) :
           /\ m[i].st = IF l[i].st = "open" THEN "committed" ELSE l[i].st
           /\ m[i].kind = l[i].kind
  BY <1>3, SettleFacts DEF Grows
<1>6. CASE w.pc # "ack"
  <2>1. UNCHANGED wr
    BY <1>1, <1>6
  <2>2. ASSUME s \in Sessions
        PROVE  WriterOK(w, m, FALSE, s, session[s], s, p)
    <3>1. WriterOK(w, l, ending[p], s, session[s], s, p)
      BY <2>2 DEF WriterInv
    <3> HIDE DEF w, l, m
    <3>2. w \in Writers(p) /\ PhaseOK(w, session[s]) /\ KnownOK(w, m, session[s], s)
      BY <1>3, <1>4, <2>2, <3>1, KnownGrows DEF WriterOK
    <3>3. CASE session[s] \in {"boot", "up", "stopped"}
      <4>1. OwnerOK(w, l, ending[p], session[s])
        BY <3>1, <3>3 DEF WriterOK
      <4>2. w.pc \in {"failing", "done", "unbooted"}
        BY <1>1, <1>6, <4>1 DEF OwnerOK
      <4>3. OwnerOK(w, m, FALSE, session[s])
        BY <3>2, <4>2 DEF OwnerOK, PhaseOK
      <4> QED
        BY <3>2, <4>2, <4>3 DEF WriterOK
    <3>4. CASE session[s] \notin {"boot", "up", "stopped"}
      BY <3>2, <3>4 DEF WriterOK
    <3> QED
      BY <3>3, <3>4
  <2>3. \A t \in Sessions, q \in Partitions :
          (q = p /\ t = epoch'[p]) \/ wr'[t][q] = wr[t][q]
    BY <2>1
  <2>4. epoch'[p] \in Sessions =>
          WriterOK(wr'[epoch'[p]][p], m, ending'[p], epoch'[p], session[epoch'[p]],
                   epoch'[p], p)
    BY <1>1, <1>2, <2>1, <2>2 DEF W
  <2> HIDE DEF m
  <2> QED
    BY <1>1, <1>2, <1>4, <2>3, <2>4, JournalMoves
<1>7. CASE w.pc = "ack"
  <2>1. SetW(s, p, v)
    BY <1>1, <1>7 DEF SetW, W
  <2>2. \A t \in Sessions, q \in Partitions :
          wr'[t][q] = IF t = s /\ q = p THEN v ELSE wr[t][q]
    BY <2>1, WriterSet
  <2>3. ASSUME s \in Sessions
        PROVE  WriterOK(v, m, FALSE, s, session[s], s, p)
    <3>1. WriterOK(w, l, ending[p], s, session[s], s, p)
      BY <2>3 DEF WriterInv
    <3>2. session[s] \in {"idle", "boot", "up", "stopped", "dead"}
      BY <2>3 DEF TypeInv
    <3> HIDE DEF w, l, m
    <3>3. /\ w \in Writers(p) /\ PhaseOK(w, session[s])
          /\ KnownOK(w, l, session[s], s) /\ KnownOK(w, m, session[s], s)
      BY <1>3, <1>4, <2>3, <3>1, KnownGrows DEF WriterOK
    <3>4. /\ v \in Writers(p) /\ v.pc = "acked" /\ v.kind = w.kind /\ v.mu = w.mu
          /\ v.first = w.first /\ v.end = w.end /\ v.closing = w.closing
          /\ v.sealed = w.sealed /\ v.failed = w.failed /\ v.jobs = w.jobs
          /\ v.seal = w.seal /\ v.drain = w.drain /\ v.batch = w.batch /\ v.hand = w.hand
      BY <3>3 DEF Writers
    <3> HIDE DEF v
    <3>5. PhaseOK(v, session[s])
      BY <1>7, <3>3, <3>4 DEF PhaseOK, Fresh, InTransaction, LeftOver
    <3>6. CASE session[s] \in {"boot", "up", "stopped"}
      <4>1. OwnerOK(w, l, ending[p], session[s]) /\ Placed(w, l, s)
        BY <1>7, <3>1, <3>6 DEF WriterOK
      <4>2. /\ AtEnd(w, l) /\ Settled(w, l, "open")
            /\ \A i \in 1 .. w.first - 1 : l[i].st # "open"
        BY <1>7, <4>1 DEF OwnerOK
      <4>3. Kinds(v) = Kinds(w) /\ Len(Kinds(w)) \in Nat /\ w.first \in Nat
        BY <3>3, <3>4, KindsFacts DEF Kinds, Writers
      <4>4. \A i \in 1 .. Len(Kinds(w)) : w.first + i - 1 \in 1 .. Len(l)
        BY <1>3, <4>1, <4>3 DEF Placed
      <4>5. Placed(v, m, s)
        <5>1. Placed(w, m, s)
          BY <1>3, <1>4, <3>3, <4>1, KnownGrows
        <5> QED
          BY <3>4, <4>3, <5>1 DEF Placed
      <4>6. Settled(v, m, "committed")
        BY <1>5, <3>4, <4>2, <4>3, <4>4, SMTT(30) DEF Settled
      <4>7. KnownOK(v, m, session[s], s)
        BY <3>3, <3>4, <4>5, <4>6 DEF KnownOK
      <4>8. v.kind = "boot" => v.first = Len(m)
        <5>1. w.kind = "boot" => Len(Kinds(w)) = 1
          BY <3>3, KindsFacts
        <5>2. w.first + Len(Kinds(w)) - 1 = Len(l)
          BY <4>2 DEF AtEnd
        <5>3. \A a, b \in Nat : a + 1 - 1 = b => a = b
          OBVIOUS
        <5>4. w.kind = "boot" => w.first = Len(l)
          BY <1>3, <4>3, <5>1, <5>2, <5>3 DEF l
        <5> QED
          BY <1>5, <3>4, <5>4
      <4>9. ASSUME HasClosed(m), session[s] \in {"up", "stopped"} PROVE v.kind = "closed"
        <5>1. PICK i \in 1 .. Len(m) : CommittedAt(m, i, "closed")
          BY <4>9 DEF HasClosed
        <5>2. l[i].kind = "closed" /\ l[i].st \in {"open", "committed"} /\ i \in 1 .. Len(l)
          BY <1>3, <1>5, <5>1, RecordFacts DEF CommittedAt
        <5>3. l[i].st # "committed"
          <6>1. ~ w.sealed
            BY <1>7, <3>3, <4>9 DEF PhaseOK
          <6>2. ~ HasClosed(l)
            BY <1>7, <4>1, <4>9, <6>1 DEF OwnerOK
          <6> QED
            BY <5>2, <6>2 DEF HasClosed, CommittedAt
        <5>4. i >= w.first
          BY <4>2, <4>3, <5>2, <5>3
        <5>5. i - w.first + 1 \in 1 .. Len(Kinds(w)) /\ w.first + (i - w.first + 1) - 1 = i
          BY <1>3, <4>2, <4>3, <5>2, <5>4 DEF AtEnd
        <5>6. l[i].kind = w.kind
          BY <4>1, <5>5 DEF Placed
        <5> QED
          BY <3>4, <5>2, <5>6
      <4>10. OwnerOK(v, m, FALSE, session[s])
        BY <1>5, <3>4, <4>8, <4>9 DEF OwnerOK
      <4> QED
        BY <3>4, <3>5, <4>7, <4>10 DEF WriterOK
    <3>7. CASE session[s] \in {"idle", "dead"}
      BY <3>4, <3>5, <3>7 DEF WriterOK, KnownOK
    <3> QED
      BY <3>2, <3>6, <3>7
  <2>4. \A t \in Sessions, q \in Partitions :
          (q = p /\ t = epoch'[p]) \/ wr'[t][q] = wr[t][q]
    BY <1>1, <2>2
  <2>5. epoch'[p] \in Sessions =>
          WriterOK(wr'[epoch'[p]][p], m, ending'[p], epoch'[p], session[epoch'[p]],
                   epoch'[p], p)
    BY <1>1, <1>2, <2>2, <2>3, ZenonT(40)
  <2> HIDE DEF m
  <2> QED
    BY <1>1, <1>2, <1>4, <2>4, <2>5, JournalMoves
<1> QED
  BY <1>6, <1>7

\* What the brokers abort was not asked to be committed, or is of a fenced owner.
LEMMA AbortMoves ==
    ASSUME TypeInv, WriterInv, NEW p \in Partitions, BrokerAborts(p)
    PROVE  WriterInv'
<1> DEFINE s == epoch[p]
           w == W(s, p)
           l == log[p]
           m == Settle(l, "aborted")
<1>1. IsOpen(l) /\ ~ ending[p] /\ UNCHANGED <<epoch, ending, session, wr>>
  BY DEF BrokerAborts
<1>2. l \in Seq(Records) /\ Len(l) \in Nat
  BY DEF TypeInv
<1>3. m \in Seq(Records) /\ Grows(l, m) /\ log' = [log EXCEPT ![p] = m]
  <2>1. 1 \in Sessions
    BY ConstantFacts
  <2> QED
    BY <2>1, LogMoves
<1>4. /\ Len(m) = Len(l) /\ \A i \in 1 .. Len(m) : m[i].st # "open"
      /\ \A i \in 1 .. Len(l) :
           /\ m[i].st = IF l[i].st = "open" THEN "aborted" ELSE l[i].st
           /\ m[i].kind = l[i].kind
  BY <1>2, SettleFacts DEF Grows
<1>5. ASSUME s \in Sessions
      PROVE  WriterOK(w, m, ending[p], s, session[s], s, p)
  <2>1. WriterOK(w, l, ending[p], s, session[s], s, p)
    BY <1>5 DEF WriterInv
  <2>2. PICK o \in 1 .. Len(l) : l[o].st = "open"
    BY <1>1, <1>2 DEF IsOpen
  <2> HIDE DEF w, l, m
  <2>3. w \in Writers(p) /\ PhaseOK(w, session[s]) /\ KnownOK(w, m, session[s], s)
    BY <1>2, <1>3, <1>5, <2>1, KnownGrows DEF WriterOK
  <2>4. CASE session[s] \in {"boot", "up", "stopped"}
    <3>1. OwnerOK(w, l, ending[p], session[s])
      BY <2>1, <2>4 DEF WriterOK
    <3>2. w.pc \in {"end", "failing", "done", "unbooted"}
      BY <1>1, <2>2, <2>3, <2>4, <3>1 DEF OwnerOK, PhaseOK
    <3>3. HasClosed(m) => HasClosed(l)
      BY <1>4 DEF HasClosed, CommittedAt
    <3>4. Len(Kinds(w)) \in Nat /\ w.first \in Nat
      BY <2>3, KindsFacts DEF Writers
    <3>5. w.pc = "end" => Placed(w, l, s) /\ Placed(w, m, s)
      BY <1>2, <1>3, <2>1, <2>3, <2>4, KnownGrows DEF WriterOK
    <3>6. w.pc = "end" => Settled(w, m, "aborted") /\ AtEnd(w, m)
      <4>1. ASSUME w.pc = "end" PROVE Settled(w, m, "aborted") /\ AtEnd(w, m)
        <5>1. \A i \in 1 .. Len(Kinds(w)) : w.first + i - 1 \in 1 .. Len(l)
          BY <1>2, <3>4, <3>5, <4>1 DEF Placed
        <5>2. (Settled(w, l, "open") \/ Settled(w, l, "aborted")) /\ AtEnd(w, l)
          BY <3>1, <4>1 DEF OwnerOK
        <5> QED
          BY <1>4, <5>1, <5>2 DEF Settled, AtEnd
      <4> QED
        BY <4>1
    <3>7. w.pc = "end" => \A i \in 1 .. w.first - 1 : m[i].st # "open"
      BY <1>2, <1>4, <3>4, <3>5 DEF Placed
    <3>8. OwnerOK(w, m, ending[p], session[s])
      BY <1>1, <3>1, <3>2, <3>3, <3>6, <3>7 DEF OwnerOK
    <3> QED
      BY <2>1, <2>3, <3>2, <3>5, <3>8 DEF WriterOK
  <2>5. CASE session[s] \notin {"boot", "up", "stopped"}
    BY <2>3, <2>5 DEF WriterOK
  <2> QED
    BY <2>4, <2>5
<1>6. epoch'[p] \in Sessions =>
        WriterOK(wr'[epoch'[p]][p], m, ending'[p], epoch'[p], session[epoch'[p]],
                 epoch'[p], p)
  BY <1>1, <1>5 DEF W
<1>7. \A t \in Sessions, q \in Partitions : wr'[t][q] = wr[t][q]
  BY <1>1
<1> HIDE DEF m
<1> QED
  BY <1>1, <1>3, <1>6, <1>7, JournalMoves

\* A session's own steps.
LEMMA SessionMoves ==
    ASSUME TypeInv, WriterInv, NEW s \in Sessions, UNCHANGED <<log, epoch, ending>>,
           \A t \in Sessions : t # s =>
             session'[t] = session[t] /\ \A q \in Partitions : wr'[t][q] = wr[t][q],
           \A q \in Partitions :
             WriterOK(wr'[s][q], log[q], ending[q], epoch[q], session'[s], s, q)
    PROVE  WriterInv'
<1>1. ASSUME NEW t \in Sessions, NEW q \in Partitions
      PROVE  WriterOK(wr'[t][q], log[q], ending[q], epoch[q], session'[t], t, q)
  BY DEF WriterInv, W
<1> QED
  BY <1>1 DEF WriterInv, W

\* A session that ends forgets its writers, or leaves them behind unsealed.
LEMMA EndedOK ==
    ASSUME NEW p \in Partitions, NEW s, NEW l, NEW x, NEW e, NEW w \in Writers(p), ~ w.sealed
    PROVE  WriterOK(w, l, x, e, "dead", s, p)
  BY DEF WriterOK, PhaseOK, KnownOK

\* A writer begins with nothing to do.
LEMMA FreshWriter ==
    ASSUME NEW p \in Partitions
    PROVE  /\ NewWriter \in Writers(p) /\ Fresh(NewWriter)
           /\ [NewWriter EXCEPT !.pc = "init"] \in Writers(p)
           /\ Fresh([NewWriter EXCEPT !.pc = "init"])
<1>1. <<>> \in Seq(JobsOf(p)) /\ 0 \in Nat /\ 0 \in Int
  BY EmptySeq
<1> QED
  BY <1>1 DEF NewWriter, Writers, Fresh

\* New starts with fresh writers, or ends at once.
LEMMA NewMoves ==
    ASSUME TypeInv, BootInv, WriterInv, NEW s \in Sessions, New(s)
    PROVE  WriterInv'
<1> DEFINE v == [NewWriter EXCEPT !.pc = "init"]
<1>1. session[s] = "idle" /\ UNCHANGED <<log, epoch, ending>>
  BY DEF New
<1>2. \/ session' = [session EXCEPT ![s] = "boot"]
         /\ wr' = [wr EXCEPT ![s] = [p \in Partitions |-> v]]
      \/ session' = [session EXCEPT ![s] = "dead"] /\ UNCHANGED wr
  BY DEF New
<1>3. \A t \in Sessions : t # s =>
        session'[t] = session[t] /\ \A q \in Partitions : wr'[t][q] = wr[t][q]
  BY <1>2 DEF TypeInv
<1>4. ASSUME NEW q \in Partitions
      PROVE  WriterOK(wr'[s][q], log[q], ending[q], epoch[q], session'[s], s, q)
  <2>1. CASE session' = [session EXCEPT ![s] = "boot"]
             /\ wr' = [wr EXCEPT ![s] = [p \in Partitions |-> v]]
    <3>1. wr'[s][q] = v /\ session'[s] = "boot"
      BY <2>1 DEF TypeInv
    <3>2. epoch[q] # s
      <4>1. s # 0
        BY ConstantFacts
      <4> QED
        BY <1>1, <4>1 DEF BootInv
    <3>3. v \in Writers(q) /\ Fresh(v)
      BY FreshWriter
    <3>4. v.pc = "init" /\ v.kind = "boot"
      BY DEF NewWriter
    <3> HIDE DEF v
    <3>5. WriterOK(v, log[q], ending[q], epoch[q], "boot", s, q)
      BY <3>2, <3>3, <3>4 DEF WriterOK, PhaseOK, KnownOK, Fresh
    <3> QED
      BY <3>1, <3>5
  <2>2. CASE session' = [session EXCEPT ![s] = "dead"] /\ UNCHANGED wr
    <3>1. wr'[s][q] = W(s, q) /\ session'[s] = "dead"
      BY <2>2 DEF TypeInv, W
    <3>2. W(s, q) \in Writers(q) /\ ~ W(s, q).sealed
      BY <1>1 DEF WriterInv, WriterOK, PhaseOK
    <3> QED
      BY <3>1, <3>2, EndedOK
  <2> QED
    BY <1>2, <2>1, <2>2
<1> QED
  BY <1>1, <1>3, <1>4, SessionMoves

\* A process that stops has no writers any more.
LEMMA CrashMoves ==
    ASSUME TypeInv, WriterInv, NEW s \in Sessions, Crash(s)
    PROVE  WriterInv'
<1>1. /\ UNCHANGED <<log, epoch, ending>> /\ session' = [session EXCEPT ![s] = "dead"]
      /\ wr' = [wr EXCEPT ![s] = [p \in Partitions |-> NewWriter]]
  BY DEF Crash
<1>2. \A t \in Sessions : t # s =>
        session'[t] = session[t] /\ \A q \in Partitions : wr'[t][q] = wr[t][q]
  BY <1>1 DEF TypeInv
<1>3. session'[s] = "dead" /\ \A q \in Partitions : wr'[s][q] = NewWriter
  BY <1>1 DEF TypeInv
<1>4. ASSUME NEW q \in Partitions
      PROVE  WriterOK(wr'[s][q], log[q], ending[q], epoch[q], session'[s], s, q)
  <2>1. NewWriter \in Writers(q) /\ ~ NewWriter.sealed
    BY FreshWriter DEF Fresh
  <2> QED
    BY <1>3, <2>1, EndedOK
<1> QED
  BY <1>1, <1>2, <1>4, SessionMoves

\* Close, and a New that fails, leave the writers as they are.
LEMMA CloseMoves ==
    ASSUME TypeInv, WriterInv, NEW s \in Sessions, Close(s) \/ NewFails(s)
    PROVE  WriterInv'
<1>1. /\ UNCHANGED <<log, epoch, ending, wr>>
      /\ \/ session[s] = "up" /\ session' = [session EXCEPT ![s] = "stopped"]
         \/ session[s] = "boot" /\ session' = [session EXCEPT ![s] = "dead"]
  BY DEF Close, NewFails
<1>2. \A t \in Sessions : t # s =>
        session'[t] = session[t] /\ \A q \in Partitions : wr'[t][q] = wr[t][q]
  BY <1>1 DEF TypeInv
<1>3. ASSUME NEW q \in Partitions
      PROVE  WriterOK(wr'[s][q], log[q], ending[q], epoch[q], session'[s], s, q)
  <2>1. WriterOK(W(s, q), log[q], ending[q], epoch[q], session[s], s, q) /\ wr'[s][q] = W(s, q)
    BY <1>1 DEF WriterInv, W
  <2>2. CASE session[s] = "up" /\ session' = [session EXCEPT ![s] = "stopped"]
    <3>1. session'[s] = "stopped"
      BY <2>2 DEF TypeInv
    <3>2. WriterOK(W(s, q), log[q], ending[q], epoch[q], "up", s, q)
      BY <2>1, <2>2
    <3> DEFINE w == W(s, q)
    <3> HIDE DEF w
    <3>3. WriterOK(w, log[q], ending[q], epoch[q], "stopped", s, q)
      <4>1. WriterOK(w, log[q], ending[q], epoch[q], "up", s, q)
        BY <3>2 DEF w
      <4>2. PhaseOK(w, "stopped")
        BY <4>1 DEF WriterOK, PhaseOK
      <4>3. KnownOK(w, log[q], "stopped", s)
        BY <4>1 DEF WriterOK, KnownOK
      <4>4. OwnerOK(w, log[q], ending[q], "up") => OwnerOK(w, log[q], ending[q], "stopped")
        BY DEF OwnerOK
      <4> QED
        BY <4>1, <4>2, <4>3, <4>4 DEF WriterOK
    <3> QED
      BY <2>1, <3>1, <3>3 DEF w
  <2>3. CASE session[s] = "boot" /\ session' = [session EXCEPT ![s] = "dead"]
    <3>1. session'[s] = "dead"
      BY <2>3 DEF TypeInv
    <3>2. W(s, q) \in Writers(q) /\ ~ W(s, q).sealed
      BY <2>1, <2>3 DEF WriterOK, PhaseOK, Fresh
    <3> QED
      BY <2>1, <3>1, <3>2, EndedOK
  <2> QED
    BY <1>1, <2>2, <2>3
<1> QED
  BY <1>1, <1>2, <1>3, SessionMoves

\* CLOSED is looked for up to the barrier.
LEMMA ClosedFacts ==
    ASSUME NEW p \in Partitions, NEW l \in Seq(Records), log[p] = l
    PROVE  /\ ClosedBefore(p, Len(l)) \in Nat
           /\ ClosedBefore(p, Len(l)) > 0 =>
                /\ ClosedBefore(p, Len(l)) \in 1 .. Len(l)
                /\ CommittedAt(l, ClosedBefore(p, Len(l)), "closed")
           /\ HasClosed(l) => ClosedBefore(p, Len(l)) > 0
<1> DEFINE C == {i \in ClosedAt(l) : i <= Len(l)}
<1>1. DOMAIN l = 1 .. Len(l) /\ Len(l) \in Nat
  OBVIOUS
<1>2. C \subseteq 1 .. Len(l) /\ \A i \in 1 .. Len(l) : i \in C <=> CommittedAt(l, i, "closed")
  BY <1>1 DEF ClosedAt, Is, CommittedAt
<1>3. ClosedBefore(p, Len(l)) = IF C = {} THEN 0 ELSE Min(C)
  BY DEF ClosedBefore, ClosedOffset
<1> HIDE DEF C
<1>4. C # {} => Min(C) \in C
  BY <1>1, <1>2, LeastNatural
<1>5. HasClosed(l) => C # {}
  BY <1>2 DEF HasClosed
<1>6. CASE C = {}
  <2>1. ClosedBefore(p, Len(l)) = 0
    BY <1>3, <1>6
  <2> QED
    BY <1>5, <1>6, <2>1
<1>7. CASE C # {}
  <2>1. ClosedBefore(p, Len(l)) = Min(C)
    BY <1>3, <1>7
  <2>2. Min(C) \in 1 .. Len(l) /\ CommittedAt(l, Min(C), "closed")
    BY <1>2, <1>4, <1>7
  <2> QED
    BY <1>1, <2>1, <2>2
<1> QED
  BY <1>6, <1>7

\* An owner that is up has read its journal to the end: it is sealed where CLOSED is.
LEMMA BarrierMoves ==
    ASSUME TypeInv, WriterInv, NEW s \in Sessions, Barriers(s)
    PROVE  WriterInv'
<1> DEFINE c(q) == ClosedBefore(q, W(s, q).first)
           v(q) == [W(s, q) EXCEPT !.pc = "select", !.closing = c(q) > 0,
                                   !.sealed = c(q) > 0, !.end = c(q)]
<1>1. /\ UNCHANGED <<log, epoch, ending>> /\ session[s] = "boot"
      /\ \A q \in Partitions : W(s, q).pc = "booted"
  BY DEF Barriers
<1>2. \/ /\ session' = [session EXCEPT ![s] = "up"]
         /\ wr' = [wr EXCEPT ![s] = [q \in Partitions |-> v(q)]]
      \/ session' = [session EXCEPT ![s] = "dead"] /\ UNCHANGED wr
  BY DEF Barriers
<1> HIDE DEF v
<1>3. \A t \in Sessions : t # s =>
        session'[t] = session[t] /\ \A q \in Partitions : wr'[t][q] = wr[t][q]
  BY <1>2 DEF TypeInv
<1>4. ASSUME NEW q \in Partitions
      PROVE  WriterOK(wr'[s][q], log[q], ending[q], epoch[q], session'[s], s, q)
  <2>1. WriterOK(W(s, q), log[q], ending[q], epoch[q], session[s], s, q)
    BY DEF WriterInv
  <2>2. CASE session' = [session EXCEPT ![s] = "dead"] /\ UNCHANGED wr
    <3>1. session'[s] = "dead" /\ wr'[s][q] = W(s, q)
      BY <2>2 DEF TypeInv, W
    <3>2. W(s, q) \in Writers(q) /\ ~ W(s, q).sealed
      BY <1>1, <2>1 DEF WriterOK, PhaseOK, Fresh
    <3> QED
      BY <3>1, <3>2, EndedOK
  <2>3. CASE /\ session' = [session EXCEPT ![s] = "up"]
             /\ wr' = [wr EXCEPT ![s] = [r \in Partitions |-> v(r)]]
    <3> DEFINE w == W(s, q)
               l == log[q]
               u == v(q)
               n == c(q)
    <3>1. session'[s] = "up" /\ wr'[s][q] = u
      BY <2>3 DEF TypeInv
    <3>2. l \in Seq(Records) /\ Len(l) \in Nat
      BY DEF TypeInv
    <3>3. /\ w \in Writers(q) /\ PhaseOK(w, "boot") /\ KnownOK(w, l, "boot", s)
          /\ epoch[q] = s /\ OwnerOK(w, l, ending[q], "boot") /\ w.pc = "booted"
      BY <1>1, <2>1 DEF WriterOK
    <3>4. w.kind = "boot" /\ Fresh(w)
      BY <3>3 DEF PhaseOK
    <3>5. w.first = Len(l) /\ ~ ending[q] /\ \A i \in 1 .. Len(l) : l[i].st # "open"
      BY <3>3, <3>4 DEF OwnerOK
    <3>6. w.first \in 1 .. Len(l) /\ BootBy(l, w.first, s)
      BY <3>3 DEF KnownOK
    <3>7. /\ n \in Nat /\ (HasClosed(l) => n > 0)
          /\ n > 0 => n \in 1 .. Len(l) /\ CommittedAt(l, n, "closed")
      BY <3>2, <3>5, ClosedFacts
    <3>8. u = [w EXCEPT !.pc = "select", !.closing = n > 0, !.sealed = n > 0, !.end = n]
      BY DEF v
    <3> HIDE DEF w, l, u, n
    <3>9. (n > 0) \in BOOLEAN
      BY <3>7
    <3>10. /\ u \in Writers(q) /\ u.pc = "select" /\ u.kind = w.kind /\ u.mu = w.mu
           /\ u.closing = (n > 0) /\ u.sealed = (n > 0) /\ u.end = n /\ u.jobs = w.jobs
           /\ u.seal = w.seal /\ u.drain = w.drain /\ u.batch = w.batch /\ u.hand = w.hand
      BY <3>3, <3>7, <3>8, <3>9 DEF Writers
    <3>11. PhaseOK(u, "up")
      BY <3>4, <3>10 DEF PhaseOK, Fresh, Quiet, InTransaction
    <3>12. KnownOK(u, l, "up", s)
      BY <3>6, <3>7, <3>10 DEF KnownOK
    <3>13. OwnerOK(u, l, ending[q], "up")
      BY <3>5, <3>7, <3>10 DEF OwnerOK
    <3>14. WriterOK(u, l, ending[q], epoch[q], "up", s, q)
      BY <3>10, <3>11, <3>12, <3>13 DEF WriterOK
    <3> QED
      BY <3>1, <3>14 DEF l
  <2> QED
    BY <1>2, <2>2, <2>3
<1> QED
  BY <1>1, <1>3, <1>4, SessionMoves

-----------------------------------------------------------------------------
(* Submit *)

\* A submission is refused, or takes the mutex of its writer.
LEMMA AdmitFacts ==
    ASSUME TypeInv, WriterInv, NEW j \in Jobs, NEW s \in Sessions, Admit(j, s)
    PROVE  LET p == Target(j)
               w == W(s, p) IN
           /\ p \in Partitions /\ Running(s) /\ result[j] = Unanswered
           /\ home' = [home EXCEPT ![j] = s]
           /\ \/ UNCHANGED wr /\ \E k \in {"closed", "unknown", "busy", "not_open"} :
                                   result' = [result EXCEPT ![j] = Err(k)]
              \/ /\ SetW(s, p, [w EXCEPT !.mu = j]) /\ GateIsOpen(w)
                 /\ result' = [result EXCEPT ![j] = Waiting]
<1>1. Target(j) \in Partitions
  BY PartitionAssumption
<1> QED
  BY <1>1 DEF Admit, Return

\* A call passes an open gate only, and only its own job enters the writer.
LEMMA AdmitMoves ==
    ASSUME TypeInv, WriterInv, NEW j \in Jobs, NEW s \in Sessions, Admit(j, s)
    PROVE  /\ WriterInv'
           /\ \A t \in Sessions, q \in Partitions :
                \/ wr'[t][q] = wr[t][q]
                \/ /\ t = s /\ q = Target(j) /\ result'[j] = Waiting
                   /\ HeldBy(wr'[t][q]) \subseteq HeldBy(wr[t][q]) \cup {j}
                   /\ Broken(wr[t][q]) => Broken(wr'[t][q])
<1> DEFINE p == Target(j)
           w == W(s, p)
           v == [w EXCEPT !.mu = j]
<1>1. /\ p \in Partitions /\ session[s] \in {"up", "stopped"}
      /\ UNCHANGED <<log, epoch, ending, session>>
  BY AdmitFacts, StepFrames DEF Running
<1>2. CASE UNCHANGED wr
  <2>1. WriterInv'
    BY <1>1, <1>2 DEF WriterInv, W
  <2> QED
    BY <1>2, <2>1
<1>3. CASE SetW(s, p, v) /\ GateIsOpen(w) /\ result' = [result EXCEPT ![j] = Waiting]
  <2>1. /\ WriterOK(w, log[p], ending[p], epoch[p], session[s], s, p)
        /\ w \in Writers(p) /\ PhaseOK(w, session[s])
    BY <1>1, WriterFacts DEF Alive
  <2>2. \A t \in Sessions, q \in Partitions :
          wr'[t][q] = IF t = s /\ q = p THEN v ELSE wr[t][q]
    BY <1>3, WriterSet
  <2>3. j \in JobsOf(p) /\ result'[j] = Waiting
    BY <1>3 DEF JobsOf, TypeInv
  <2> HIDE DEF w
  <2>4. ~ w.closing /\ ~ w.sealed
    BY <1>3 DEF GateIsOpen
  <2>5. /\ v \in Writers(p) /\ v.pc = w.pc /\ v.kind = w.kind /\ v.mu = j
        /\ v.first = w.first /\ v.end = w.end /\ v.closing = w.closing
        /\ v.sealed = w.sealed /\ v.jobs = w.jobs
        /\ v.seal = w.seal /\ v.drain = w.drain /\ v.batch = w.batch /\ v.hand = w.hand
    BY <2>1, <2>3 DEF Writers
  <2> HIDE DEF v
  <2>6. PhaseOK(v, session[s])
    BY <1>1, <2>1, <2>4, <2>5 DEF PhaseOK, InTransaction
  <2>7. WriterOK(v, log[p], ending[p], epoch[p], session[s], s, p)
    BY <1>1, <2>1, <2>5, <2>6, SameTransaction
  <2>8. HeldBy(v) \subseteq HeldBy(w) \cup {j} /\ (Broken(w) => Broken(v))
    BY <2>5 DEF HeldBy, LeftOver, Broken
  <2>9. WriterInv'
    BY <1>1, <1>3, <2>7, WriterMoves
  <2> QED
    BY <2>2, <2>3, <2>8, <2>9 DEF w, W
<1> QED
  BY <1>2, <1>3, AdmitFacts

\* A job that passed the gate enters the channel before the gate can be closed.
LEMMA EnqueueMoves ==
    ASSUME TypeInv, WriterInv, NEW j \in Jobs, Enqueue(j)
    PROVE  /\ WriterInv'
           /\ \A t \in Sessions, q \in Partitions :
                /\ HeldBy(wr'[t][q]) \subseteq HeldBy(wr[t][q])
                /\ Broken(wr[t][q]) => Broken(wr'[t][q])
<1> DEFINE s == home[j]
           p == Target(j)
           w == W(s, p)
           v == [w EXCEPT !.mu = NoJob, !.queued = w.queued + Size(j),
                          !.jobs = Append(w.jobs, j)]
<1>1. /\ p \in Partitions /\ session[s] \in {"up", "stopped"}
      /\ UNCHANGED <<log, epoch, ending, session>> /\ w.mu = j /\ SetW(s, p, v)
  BY PartitionAssumption DEF Enqueue, Running
<1>2. \A t \in Sessions, q \in Partitions :
        wr'[t][q] = IF t = s /\ q = p THEN v ELSE wr[t][q]
  BY <1>1, WriterSet
<1>3. CASE s \notin Sessions
  <2>1. \A t \in Sessions, q \in Partitions : wr'[t][q] = wr[t][q]
    BY <1>2, <1>3
  <2>2. WriterInv'
    BY <1>1, <2>1 DEF WriterInv, W
  <2> QED
    BY <2>1, <2>2
<1>4. CASE s \in Sessions
  <2>1. /\ WriterOK(w, log[p], ending[p], epoch[p], session[s], s, p)
        /\ w \in Writers(p) /\ PhaseOK(w, session[s])
    BY <1>1, <1>4, WriterFacts DEF Alive
  <2>2. j \in JobsOf(p) /\ j # NoJob
    BY ConstantFacts DEF JobsOf
  <2> HIDE DEF w
  <2>3. /\ Append(w.jobs, j) \in Seq(JobsOf(p)) /\ w.queued + Size(j) \in Int
        /\ Range(Append(w.jobs, j)) = Range(w.jobs) \cup {j}
    <3>1. w.jobs \in Seq(JobsOf(p)) /\ w.queued \in Int /\ Size(j) \in Nat
      BY <2>1, ConstantFacts DEF Writers
    <3> QED
      BY <2>2, <3>1, RangeFacts
  <2>4. /\ v \in Writers(p) /\ v.pc = w.pc /\ v.kind = w.kind /\ v.mu = NoJob
        /\ v.first = w.first /\ v.end = w.end /\ v.closing = w.closing
        /\ v.sealed = w.sealed /\ v.jobs = Append(w.jobs, j)
        /\ v.seal = w.seal /\ v.drain = w.drain /\ v.batch = w.batch /\ v.hand = w.hand
    BY <2>1, <2>3 DEF Writers
  <2> HIDE DEF v
  <2>5. ~ w.closing /\ w.kind # "closed" /\ ~ w.seal /\ ~ w.drain
        /\ (w.sealed => w.pc = "done")
    BY <1>1, <2>1, <2>2 DEF PhaseOK, Quiet
  <2>6. PhaseOK(v, session[s])
    BY <1>1, <2>1, <2>4, <2>5 DEF PhaseOK, InTransaction
  <2>7. WriterOK(v, log[p], ending[p], epoch[p], session[s], s, p)
    BY <1>1, <1>4, <2>1, <2>4, <2>6, SameTransaction
  <2>8. HeldBy(v) \subseteq HeldBy(w) /\ (Broken(w) => Broken(v))
    <3>1. LeftOver(v) \subseteq LeftOver(w) \cup {j}
      BY <2>3, <2>4 DEF LeftOver
    <3> QED
      BY <1>1, <2>2, <2>4, <3>1 DEF HeldBy, Broken
  <2>9. WriterInv'
    BY <1>1, <1>4, <2>7, WriterMoves
  <2> QED
    BY <1>2, <2>8, <2>9 DEF w, W
<1> QED
  BY <1>3, <1>4

\* A step keeps the invariant of every writer.
LEMMA WritersStep ==
    ASSUME TypeInv, BootInv, WriterInv, Next
    PROVE  WriterInv'
<1>1. ASSUME NEW s \in Sessions, NEW p \in Partitions, Alive(s), Loop(s, p)
      PROVE  WriterInv'
  <2>1. PICK v : Moved(s, p, v)
    BY <1>1, LoopMoves
  <2>2. UNCHANGED <<log, epoch, ending, session>>
    BY <1>1, LoopFrame
  <2> QED
    BY <2>1, <2>2, WriterMoves DEF Moved
<1>2. ASSUME NEW j \in Jobs, Receive(j) \/ GiveUp(j)
      PROVE  UNCHANGED <<log, epoch, ending, session, wr>>
  BY <1>2, StepFrames, OneWriter
<1>3. Aside => UNCHANGED <<log, epoch, ending, session, wr>>
  BY StepFrames
<1>4. ASSUME UNCHANGED <<log, epoch, ending, session, wr>> PROVE WriterInv'
  BY <1>4 DEF WriterInv, W
<1>5. ASSUME NEW s \in Sessions, New(s) \/ Barriers(s) \/ NewFails(s) \/ Close(s) \/ Crash(s)
      PROVE  WriterInv'
  BY <1>5, NewMoves, BarrierMoves, CloseMoves, CrashMoves
<1>6. ASSUME NEW p \in Partitions, BrokerCommits(p) \/ BrokerAborts(p) PROVE WriterInv'
  BY <1>6, CommitMoves, AbortMoves
<1>7. ASSUME NEW s \in Sessions, NEW p \in Partitions, Alive(s),
             EndTransaction(s, p) \/ Produce(s, p) \/ ProducerID(s, p)
      PROVE  WriterInv'
  BY <1>7, EndMoves, ProduceMoves, ProducerMoves
<1> QED
  BY <1>1, <1>2, <1>3, <1>4, <1>5, <1>6, <1>7, StepCases, AdmitMoves, EnqueueMoves

-----------------------------------------------------------------------------
(* Jobs *)

\* A job comes to a writer through Submit only, and a broken writer stays broken.
LEMMA WritersEvolve ==
    ASSUME TypeInv, WriterInv, Next, NEW t \in Sessions, NEW q \in Partitions
    PROVE  /\ \/ HeldBy(wr'[t][q]) \subseteq HeldBy(wr[t][q])
              \/ \E j \in Jobs : /\ Admit(j, t) /\ q = Target(j) /\ result'[j] = Waiting
                                 /\ HeldBy(wr'[t][q]) \subseteq HeldBy(wr[t][q]) \cup {j}
           /\ session[t] \in {"up", "stopped"} /\ session'[t] \in {"up", "stopped"} =>
                (Broken(wr[t][q]) => Broken(wr'[t][q]))
<1> DEFINE Good == /\ HeldBy(wr'[t][q]) \subseteq HeldBy(wr[t][q])
                   /\ session[t] \in {"up", "stopped"} /\ session'[t] \in {"up", "stopped"} =>
                        (Broken(wr[t][q]) => Broken(wr'[t][q]))
<1>1. ASSUME wr'[t][q] = wr[t][q] PROVE Good
  BY <1>1
<1>2. ASSUME NEW s, NEW p, NEW v, SetW(s, p, v), HeldBy(v) \subseteq HeldBy(W(s, p)),
             Broken(W(s, p)) => Broken(v)
      PROVE  Good
  <2>1. wr'[t][q] = IF t = s /\ q = p THEN v ELSE wr[t][q]
    BY <1>2, WriterSet
  <2> QED
    BY <1>2, <2>1 DEF W
<1>3. ASSUME NEW s \in Sessions, NEW p \in Partitions, Alive(s), Loop(s, p) PROVE Good
  <2>1. PICK v : Moved(s, p, v)
    BY <1>3, LoopMoves
  <2> QED
    BY <1>2, <2>1 DEF Moved
<1>4. ASSUME NEW s \in Sessions, NEW p \in Partitions,
             EndTransaction(s, p) \/ Produce(s, p) \/ ProducerID(s, p)
      PROVE  Good
  <2> DEFINE w == W(s, p)
  <2>1. w \in Writers(p)
    BY DEF WriterInv, WriterOK
  <2>2. w.pc \in {"end", "produce", "init"}
    BY <1>4 DEF EndTransaction, Produce, ProducerID
  <2>3. PICK v : SetW(s, p, v) /\ v.jobs = w.jobs /\ v.batch = w.batch /\ v.hand = w.hand
                 /\ v.mu = w.mu
    <3>1. CASE EndTransaction(s, p)
      <4>1. SetW(s, p, [w EXCEPT !.pc = "ack"])
        BY <3>1 DEF EndTransaction
      <4> QED
        BY <2>1, <4>1 DEF Writers
    <3>2. CASE Produce(s, p)
      <4> DEFINE v == [w EXCEPT !.pc = "end", !.first = Len(log[p]) + 1]
      <4>1. SetW(s, p, v)
        BY <3>2 DEF Produce
      <4>2. v.jobs = w.jobs /\ v.batch = w.batch /\ v.hand = w.hand /\ v.mu = w.mu
        BY <2>1 DEF Writers
      <4> HIDE DEF v
      <4> QED
        BY <4>1, <4>2
    <3>3. CASE ProducerID(s, p)
      <4> DEFINE v == [w EXCEPT !.pc = "produce", !.kind = "boot"]
      <4>1. SetW(s, p, v)
        BY <3>3 DEF ProducerID, Begin
      <4>2. v.jobs = w.jobs /\ v.batch = w.batch /\ v.hand = w.hand /\ v.mu = w.mu
        BY <2>1 DEF Writers
      <4> HIDE DEF v
      <4> QED
        BY <4>1, <4>2
    <3> QED
      BY <1>4, <3>1, <3>2, <3>3
  <2>4. HeldBy(v) \subseteq HeldBy(w) /\ ~ Broken(w)
    BY <2>2, <2>3 DEF HeldBy, LeftOver, Broken
  <2> QED
    BY <1>2, <2>3, <2>4
<1>5. ASSUME NEW p \in Partitions, BrokerCommits(p) PROVE Good
  <2> DEFINE s == epoch[p]
             w == W(s, p)
             v == [w EXCEPT !.pc = "acked"]
  <2>1. wr' = IF w.pc = "ack" THEN [wr EXCEPT ![s][p].pc = "acked"] ELSE wr
    BY <1>5 DEF BrokerCommits
  <2>2. CASE w.pc = "ack"
    <3>1. SetW(s, p, v)
      BY <2>1, <2>2 DEF SetW, W
    <3>2. CASE t = s /\ q = p
      <4>1. w \in Writers(p) /\ wr'[t][q] = v /\ wr[t][q] = w
        BY <3>1, <3>2, WriterSet DEF WriterInv, WriterOK, W
      <4> HIDE DEF w
      <4>2. v.jobs = w.jobs /\ v.batch = w.batch /\ v.hand = w.hand /\ v.mu = w.mu
        BY <4>1 DEF Writers
      <4>3. HeldBy(v) \subseteq HeldBy(w) /\ ~ Broken(w)
        BY <2>2, <4>2 DEF HeldBy, LeftOver, Broken
      <4> QED
        BY <4>1, <4>3
    <3>3. CASE ~ (t = s /\ q = p)
      <4>1. wr'[t][q] = wr[t][q]
        BY <3>1, <3>3, WriterSet
      <4> QED
        BY <1>1, <4>1
    <3> QED
      BY <3>2, <3>3
  <2>3. CASE w.pc # "ack"
    BY <1>1, <2>1, <2>3
  <2> QED
    BY <2>2, <2>3
<1>6. ASSUME NEW s \in Sessions, New(s) \/ Crash(s) PROVE Good
  <2>1. session[s] = "idle" \/ session'[s] = "dead"
    BY <1>6 DEF New, Crash, TypeInv
  <2>2. \/ UNCHANGED wr
        \/ \E v : /\ Fresh(v) /\ wr' = [wr EXCEPT ![s] = [p \in Partitions |-> v]]
    BY <1>6, FreshWriter DEF New, Crash
  <2>3. CASE UNCHANGED wr
    BY <1>1, <2>3
  <2>4. ASSUME NEW v, Fresh(v), wr' = [wr EXCEPT ![s] = [p \in Partitions |-> v]] PROVE Good
    <3>1. wr'[t][q] = IF t = s THEN v ELSE wr[t][q]
      BY <2>4 DEF TypeInv
    <3>2. HeldBy(v) = {}
      BY <2>4 DEF Fresh, HeldBy, LeftOver, Range
    <3> QED
      BY <2>1, <3>1, <3>2
  <2> QED
    BY <2>2, <2>3, <2>4
<1>7. ASSUME NEW s \in Sessions, Barriers(s) PROVE Good
  <2> DEFINE c(p) == ClosedBefore(p, W(s, p).first)
             v(p) == [W(s, p) EXCEPT !.pc = "select", !.closing = c(p) > 0,
                                     !.sealed = c(p) > 0, !.end = c(p)]
  <2>1. session[s] = "boot"
    BY <1>7 DEF Barriers
  <2>2. UNCHANGED wr \/ wr' = [wr EXCEPT ![s] = [p \in Partitions |-> v(p)]]
    BY <1>7 DEF Barriers
  <2> HIDE DEF v
  <2>3. wr'[t][q] = wr[t][q] \/ (t = s /\ wr'[t][q] = v(q))
    BY <2>2 DEF TypeInv
  <2>4. W(s, q) \in Writers(q)
    BY DEF WriterInv, WriterOK
  <2>5. /\ v(q).jobs = W(s, q).jobs /\ v(q).batch = W(s, q).batch
        /\ v(q).hand = W(s, q).hand /\ v(q).mu = W(s, q).mu
    BY <2>4 DEF v, Writers
  <2>6. HeldBy(v(q)) \subseteq HeldBy(W(s, q))
    BY <2>5 DEF HeldBy, LeftOver
  <2> QED
    BY <2>1, <2>3, <2>6 DEF W
<1>8. ASSUME NEW s \in Sessions, NewFails(s) \/ Close(s) PROVE Good
  BY <1>1, <1>8, OneWriter
<1>9. ASSUME NEW j \in Jobs, Receive(j) \/ GiveUp(j) PROVE Good
  BY <1>1, <1>9, OneWriter
<1>10. ASSUME NEW p \in Partitions, BrokerAborts(p) PROVE Good
  BY <1>1, <1>10, OneWriter
<1>11. ASSUME Aside PROVE Good
  BY <1>1, <1>11, StepFrames
<1>12. ASSUME NEW j \in Jobs, Enqueue(j) PROVE Good
  BY <1>12, EnqueueMoves
<1>13. ASSUME NEW j \in Jobs, NEW s \in Sessions, Admit(j, s)
       PROVE  Good \/ (/\ t = s /\ q = Target(j) /\ result'[j] = Waiting
                       /\ HeldBy(wr'[t][q]) \subseteq HeldBy(wr[t][q]) \cup {j}
                       /\ (Broken(wr[t][q]) => Broken(wr'[t][q])))
  BY <1>1, <1>13, AdmitMoves
<1> HIDE DEF Good
<1>14. Good \/ \E j \in Jobs : /\ Admit(j, t) /\ q = Target(j) /\ result'[j] = Waiting
                               /\ HeldBy(wr'[t][q]) \subseteq HeldBy(wr[t][q]) \cup {j}
                               /\ (Broken(wr[t][q]) => Broken(wr'[t][q]))
  BY <1>3, <1>4, <1>5, <1>6, <1>7, <1>8, <1>9, <1>10, <1>11, <1>12, <1>13, StepCases
<1> QED
  BY <1>14 DEF Good

\* How a job is answered: by the writer that holds it; a crash empties its channel.
LEMMA RepliesChange ==
    ASSUME TypeInv, WriterInv, Next, NEW j \in Jobs
    PROVE  \/ reply'[j] = reply[j]
           \/ reply'[j] = Unanswered
           \/ /\ UNCHANGED <<log, session, home, result>>
              /\ \E s \in Sessions, p \in Partitions :
                   /\ j \in HeldBy(W(s, p))
                   /\ \/ reply'[j] = Unknown /\ Broken(wr'[s][p])
                      \/ reply'[j].kind = "receipt" /\ Counts(reply'[j], j)
<1>1. ASSUME NEW s \in Sessions, NEW p \in Partitions, Alive(s), Loop(s, p),
             reply'[j] # reply[j]
      PROVE  /\ UNCHANGED <<log, session, home, result>>
             /\ j \in HeldBy(W(s, p))
             /\ \/ reply'[j] = Unknown /\ Broken(wr'[s][p])
                \/ reply'[j].kind = "receipt" /\ Counts(reply'[j], j)
  <2>1. PICK v : Moved(s, p, v)
    BY <1>1, LoopMoves
  <2>2. wr'[s][p] = v
    BY <2>1, WriterSet DEF Moved
  <2>3. j \in LeftOver(W(s, p))
    BY <1>1, <2>1 DEF Moved
  <2> QED
    BY <1>1, <2>1, <2>2, <2>3, LoopFrame DEF Moved, HeldBy
<1>2. ASSUME NEW s \in Sessions, New(s) \/ Barriers(s) \/ NewFails(s) \/ Close(s) \/ Crash(s)
      PROVE  reply'[j] = reply[j] \/ reply'[j] = Unanswered
  BY <1>2 DEF New, Barriers, NewFails, Close, Crash
<1> QED
  BY <1>1, <1>2, StepCases, StepFrames

\* What a call returns: its answer, "unknown", or what Admit decided.
LEMMA ResultsChange ==
    ASSUME TypeInv, WriterInv, Next, NEW j \in Jobs
    PROVE  \/ result'[j] = result[j]
           \/ result'[j] = Unknown
           \/ result'[j] = reply[j] /\ reply[j] # Unanswered
           \/ \E s \in Sessions : /\ Admit(j, s) /\ result[j] = Unanswered
                                  /\ \/ result'[j] = Waiting
                                     \/ /\ UNCHANGED wr
                                        /\ \E k \in {"closed", "unknown", "busy", "not_open"} :
                                             result'[j] = Err(k)
<1>1. ASSUME NEW i \in Jobs, NEW s \in Sessions, Admit(i, s)
      PROVE  \/ i # j /\ result'[j] = result[j]
             \/ /\ i = j /\ result[j] = Unanswered
                /\ \/ result'[j] = Waiting
                   \/ /\ UNCHANGED wr
                      /\ \E k \in {"closed", "unknown", "busy", "not_open"} : result'[j] = Err(k)
  <2>1. result[i] = Unanswered
    BY <1>1, AdmitFacts
  <2>2. \/ result' = [result EXCEPT ![i] = Waiting]
        \/ UNCHANGED wr /\ \E k \in {"closed", "unknown", "busy", "not_open"} :
                             result' = [result EXCEPT ![i] = Err(k)]
    BY <1>1, AdmitFacts
  <2> QED
    BY <2>1, <2>2 DEF TypeInv
<1>2. ASSUME NEW i \in Jobs, Enqueue(i) \/ Receive(i) \/ GiveUp(i)
      PROVE  \/ result'[j] = result[j]
             \/ result'[j] = Unknown
             \/ result'[j] = reply[j] /\ reply[j] # Unanswered
  BY <1>2 DEF Enqueue, Receive, GiveUp, Return, GaveUp, TypeInv
<1>3. ASSUME NEW s \in Sessions, New(s) \/ Barriers(s) \/ NewFails(s) \/ Close(s) \/ Crash(s)
      PROVE  result'[j] = result[j] \/ result'[j] = Unknown
  BY <1>3 DEF New, Barriers, NewFails, Close, Crash
<1>4. ASSUME NEW s \in Sessions, NEW p \in Partitions, Loop(s, p) PROVE UNCHANGED result
  BY <1>4, LoopFrame
<1> QED
  BY <1>1, <1>2, <1>3, <1>4, StepCases, StepFrames

\* A step keeps every job with the session it was submitted to.
LEMMA HomeStep ==
    ASSUME TypeInv, BootInv, WriterInv, HomeInv, NowhereInv, Next
    PROVE  HomeInv'
<1>1. ASSUME NEW s \in Sessions, NEW p \in Partitions, NEW k \in HeldBy(wr'[s][p])
      PROVE  home'[k] = s
  <2>1. CASE \E i \in Jobs, t \in Sessions : Admit(i, t)
    <3>1. PICK i \in Jobs, t \in Sessions : Admit(i, t)
      BY <2>1
    <3>2. home' = [home EXCEPT ![i] = t] /\ result[i] = Unanswered
      BY <3>1, AdmitFacts
    <3>3. i \notin HeldBy(wr[s][p])
      BY <3>2 DEF NowhereInv, Nowhere, W, Unanswered, Err
    <3>4. \/ wr'[s][p] = wr[s][p]
          \/ s = t /\ HeldBy(wr'[s][p]) \subseteq HeldBy(wr[s][p]) \cup {i}
      BY <3>1, AdmitMoves
    <3>5. k \in HeldBy(wr[s][p]) \/ (k = i /\ s = t)
      BY <3>4
    <3>6. k \in HeldBy(wr[s][p]) => home[k] = s /\ k \in Jobs
      <4>1. W(s, p) \in Writers(p)
        BY DEF WriterInv, WriterOK
      <4> QED
        BY <4>1, HeldFacts DEF HomeInv, W, JobsOf
    <3> QED
      BY <3>2, <3>3, <3>5, <3>6 DEF TypeInv
  <2>2. CASE ~ \E i \in Jobs, t \in Sessions : Admit(i, t)
    <3>1. k \in HeldBy(wr[s][p])
      BY <2>2, WritersEvolve
    <3>2. UNCHANGED home
      <4>1. ASSUME NEW t \in Sessions, NEW q \in Partitions, Loop(t, q) PROVE UNCHANGED home
        BY <4>1, LoopFrame
      <4>2. ASSUME NEW i \in Jobs, Enqueue(i) \/ Receive(i) \/ GiveUp(i) PROVE UNCHANGED home
        BY <4>2 DEF Enqueue, Receive, GiveUp
      <4> QED
        BY <2>2, <4>1, <4>2, StepCases, StepFrames
    <3> QED
      BY <3>1, <3>2 DEF HomeInv, W
  <2> QED
    BY <2>1, <2>2
<1>2. ASSUME NEW j \in Jobs, home'[j] # 0
      PROVE  session'[home'[j]] \notin {"idle", "boot"}
  <2>1. CASE UNCHANGED session
    <3>1. \/ home'[j] = home[j]
          \/ \E s \in Sessions : home'[j] = s /\ Running(s)
      <4>1. ASSUME NEW i \in Jobs, NEW s \in Sessions, Admit(i, s)
            PROVE  home'[j] = home[j] \/ (home'[j] = s /\ Running(s))
        BY <4>1, AdmitFacts, ZenonT(40) DEF TypeInv
      <4>2. ASSUME NEW i \in Jobs, Enqueue(i) \/ Receive(i) \/ GiveUp(i) PROVE UNCHANGED home
        BY <4>2 DEF Enqueue, Receive, GiveUp
      <4>3. ASSUME NEW t \in Sessions, NEW q \in Partitions, Loop(t, q) PROVE UNCHANGED home
        BY <4>3, LoopFrame
      <4> QED
        BY <4>1, <4>2, <4>3, StepCases, StepFrames
    <3> QED
      BY <1>2, <2>1, <3>1 DEF HomeInv, Running
  <2>2. ASSUME NEW s \in Sessions,
               New(s) \/ Barriers(s) \/ NewFails(s) \/ Close(s) \/ Crash(s)
        PROVE  session'[home'[j]] \notin {"idle", "boot"}
    <3>1. home'[j] = home[j] /\ home[j] \in Sessions
      BY <1>2, <2>2, StepFrames, ConstantFacts DEF TypeInv
    <3>2. session[home[j]] \notin {"idle", "boot"}
      BY <1>2, <3>1 DEF HomeInv
    <3>3. \A t \in Sessions : t # s => session'[t] = session[t]
      BY <2>2 DEF New, Barriers, NewFails, Close, Crash, TypeInv
    <3>4. session[s] \in {"idle", "boot"} \/ session'[s] \notin {"idle", "boot"}
      BY <2>2 DEF New, Barriers, NewFails, Close, Crash, TypeInv
    <3> QED
      BY <3>1, <3>2, <3>3, <3>4
  <2>3. UNCHANGED session \/ \E s \in Sessions :
          New(s) \/ Barriers(s) \/ NewFails(s) \/ Close(s) \/ Crash(s)
    <3>1. ASSUME NEW t \in Sessions, NEW q \in Partitions, Loop(t, q) PROVE UNCHANGED session
      BY <3>1, LoopFrame
    <3> QED
      BY <3>1, StepCases, StepFrames
  <2> QED
    BY <2>1, <2>2, <2>3
<1> QED
  BY <1>1, <1>2 DEF HomeInv, W

\* A job that is nowhere stays nowhere, until it is admitted.
LEMMA StaysNowhere ==
    ASSUME TypeInv, WriterInv, Next, NEW j \in Jobs, Nowhere(j),
           ~ \E s \in Sessions : Admit(j, s) /\ result'[j] = Waiting
    PROVE  Nowhere(j)'
<1>1. ASSUME NEW s \in Sessions, NEW p \in Partitions PROVE j \notin HeldBy(wr'[s][p])
  <2>1. j \notin HeldBy(wr[s][p])
    BY DEF Nowhere, W
  <2> QED
    BY <2>1, WritersEvolve
<1>2. ASSUME NEW p \in Partitions, NEW i \in 1 .. Len(log'[p]) PROVE log'[p][i].job # j
  <2>1. log[p] \in Seq(Records) /\ Len(log[p]) \in Nat
        /\ \A k \in 1 .. Len(log[p]) : log[p][k].job # j
    BY DEF TypeInv, Nowhere
  <2>2. CASE i \in 1 .. Len(log[p])
    <3>1. Grows(log[p], log'[p])
      BY LogGrows
    <3> QED
      BY <2>1, <2>2, <3>1 DEF Grows
  <2>3. CASE i \notin 1 .. Len(log[p])
    <3>1. PICK s \in Sessions : Produce(s, p)
      <4>1. ASSUME log'[p] = log[p] PROVE FALSE
        BY <1>2, <2>3, <4>1
      <4>2. ASSUME NEW st \in {"committed", "aborted"}, log'[p] = Settle(log[p], st) PROVE FALSE
        BY <1>2, <2>1, <2>3, <4>2, SettleFacts
      <4>3. ASSUME NEW q \in Partitions, NEW t \in Sessions,
                   ProducerID(t, q) \/ BrokerCommits(q) \/ BrokerAborts(q)
            PROVE  \/ log'[p] = log[p]
                   \/ \E st \in {"committed", "aborted"} : log'[p] = Settle(log[p], st)
        BY <4>3, LogMoves, LogMove
      <4>4. ASSUME NEW q \in Partitions, NEW t \in Sessions, Produce(t, q)
            PROVE  q = p \/ log'[p] = log[p]
        BY <4>4, LogMoves, LogMove
      <4> QED
        BY <4>1, <4>2, <4>3, <4>4, QuietLog
    <3> DEFINE w == W(s, p)
               l == log[p]
               n == Len(Kinds(w))
    <3>2. w \in Writers(p) /\ log'[p] = l \o NewRecords(w, s)
      <4>1. w \in Writers(p)
        BY DEF WriterInv, WriterOK
      <4>2. LET m == log[p] \o NewRecords(W(s, p), s) IN
              m \in Seq(Records) /\ Grows(log[p], m) /\ log' = [log EXCEPT ![p] = m]
        BY <3>1, LogMoves
      <4>3. log'[p] = log[p] \o NewRecords(W(s, p), s)
        BY <4>2, LogMove
      <4> QED
        BY <4>1, <4>3
    <3>3. /\ Len(log'[p]) = Len(l) + n /\ n \in Nat /\ Kinds(w) \in Seq(Jobs \cup {NoJob})
          /\ \A k \in 1 .. n : log'[p][Len(l) + k] = Record(s, w.kind, Kinds(w)[k])
      <4> HIDE DEF w, l
      <4>1. l \in Seq(Records)
        BY <2>1 DEF l
      <4>2. Kinds(w) \in Seq(Jobs \cup {NoJob}) /\ n \in Nat
        BY <3>2, KindsFacts
      <4>3. /\ Len(l \o NewRecords(w, s)) = Len(l) + Len(Kinds(w))
            /\ \A k \in 1 .. Len(Kinds(w)) :
                 (l \o NewRecords(w, s))[Len(l) + k] = Record(s, w.kind, Kinds(w)[k])
        BY <3>2, <4>1, ProduceFacts
      <4> QED
        BY <3>2, <4>2, <4>3
    <3>4. j \notin HeldBy(w)
      BY DEF Nowhere
    <3> HIDE DEF w, l, n
    <3>5. PICK k \in 1 .. n : i = Len(l) + k
      <4>1. i - Len(l) \in 1 .. n /\ i = Len(l) + (i - Len(l))
        BY <1>2, <2>1, <2>3, <3>3 DEF l
      <4> QED
        BY <4>1
    <3>6. log'[p][i].job = Kinds(w)[k]
      <4>1. log'[p][i] = Record(s, w.kind, Kinds(w)[k])
        BY <3>3, <3>5
      <4> QED
        BY <4>1 DEF Record
    <3>7. Kinds(w)[k] # j
      <4>1. CASE w.kind = "vote"
        <5>1. Kinds(w) = w.batch /\ w.batch \in Seq(JobsOf(p))
          BY <3>2, <4>1 DEF Kinds, Writers
        <5>2. w.batch[k] \in Range(w.batch)
          BY <3>5, <5>1, RangeFacts DEF n
        <5> QED
          BY <3>4, <5>1, <5>2 DEF HeldBy, LeftOver
      <4>2. CASE w.kind # "vote"
        <5>1. n = 1 /\ Kinds(w)[1] = NoJob
          BY <3>2, <4>2, KindsFacts DEF n
        <5>2. k = 1
          BY <3>5, <5>1
        <5> QED
          BY <5>1, <5>2, ConstantFacts
      <4> QED
        BY <4>1, <4>2
    <3> QED
      BY <3>6, <3>7
  <2> QED
    BY <2>2, <2>3
<1> QED
  BY <1>1, <1>2 DEF Nowhere, W

\* A step answers "closed", "not open" and "busy" only for jobs that are nowhere.
LEMMA NowhereStep ==
    ASSUME TypeInv, WriterInv, NowhereInv, Next
    PROVE  NowhereInv'
<1>1. ASSUME NEW j \in Jobs, result'[j].kind \in {"none", "closed", "not_open", "busy"}
      PROVE  Nowhere(j)'
  <2>1. result'[j] # Waiting
    BY <1>1 DEF Waiting, Err
  <2>2. result[j].kind \in {"none", "closed", "not_open", "busy"}
    <3>1. CASE result'[j] = result[j]
      BY <1>1, <3>1
    <3>2. CASE result'[j] = Unknown
      BY <1>1, <3>2 DEF Unknown, Err
    <3>3. CASE result'[j] = reply[j] /\ reply[j] # Unanswered
      <4>1. reply[j].kind \in {"unknown", "receipt"}
        BY <3>3 DEF NowhereInv
      <4> QED
        BY <1>1, <3>3, <4>1
    <3>4. CASE result[j] = Unanswered
      BY <3>4 DEF Unanswered, Err
    <3> QED
      BY <3>1, <3>2, <3>3, <3>4, ResultsChange
  <2>3. Nowhere(j)
    BY <2>2 DEF NowhereInv
  <2> QED
    BY <2>1, <2>3, StaysNowhere
<1>2. ASSUME NEW j \in Jobs, result'[j].kind = "none" PROVE reply'[j].kind = "none"
  <2>1. result[j].kind = "none" /\ Nowhere(j)
    <3>1. CASE result'[j] = result[j]
      BY <1>2, <3>1 DEF NowhereInv
    <3>2. CASE result'[j] = Unknown
      BY <1>2, <3>2 DEF Unknown, Err
    <3>3. CASE result'[j] = reply[j] /\ reply[j] # Unanswered
      <4>1. reply[j].kind \in {"unknown", "receipt"}
        BY <3>3 DEF NowhereInv
      <4> QED
        BY <1>2, <3>3, <4>1
    <3>4. CASE result[j] = Unanswered
      BY <3>4 DEF Unanswered, Err, NowhereInv
    <3> QED
      BY <3>1, <3>2, <3>3, <3>4, ResultsChange
  <2>2. reply[j].kind = "none"
    BY <2>1 DEF NowhereInv
  <2>3. reply'[j] = reply[j] \/ reply'[j] = Unanswered
    <3>1. \A s \in Sessions, p \in Partitions : j \notin HeldBy(W(s, p))
      BY <2>1 DEF Nowhere
    <3> QED
      BY <3>1, RepliesChange
  <2> QED
    BY <2>2, <2>3 DEF Unanswered, Err
<1>3. ASSUME NEW j \in Jobs
      PROVE  reply'[j].kind \in {"unknown", "receipt"} \/ reply'[j] = Unanswered
  <2>1. reply[j].kind \in {"unknown", "receipt"} \/ reply[j] = Unanswered
    BY DEF NowhereInv
  <2> QED
    BY <2>1, RepliesChange DEF Unknown, Err
<1> QED
  BY <1>1, <1>2, <1>3 DEF NowhereInv

\* A receipt goes on counting, whatever is written behind it.
LEMMA StillCounts ==
    ASSUME TypeInv, WriterInv, Next, NEW j \in Jobs, NEW r, Counts(r, j)
    PROVE  LET m == log'[Target(j)] IN
           r.kind = "receipt" =>
             /\ r.partition = Target(j) /\ r.offset \in 1 .. Len(m)
             /\ CommittedAt(m, r.offset, "vote") /\ m[r.offset].job = j
<1> DEFINE p == Target(j)
<1>1. p \in Partitions /\ log[p] \in Seq(Records) /\ Len(log[p]) \in Nat
  BY PartitionAssumption DEF TypeInv
<1>2. Grows(log[p], log'[p]) /\ log'[p] \in Seq(Records) /\ Len(log'[p]) \in Nat
  BY <1>1, LogGrows
<1> QED
  BY <1>1, <1>2 DEF Counts, Grows, CommittedAt

\* A step gives receipts only for votes that count, and leaves the old ones true.
LEMMA CountStep ==
    ASSUME TypeInv, WriterInv, NowhereInv, CountInv, Next
    PROVE  CountInv'
<1> DEFINE Holds(r, j) == LET m == log'[Target(j)] IN
             r.kind = "receipt" =>
               /\ r.partition = Target(j) /\ r.offset \in 1 .. Len(m)
               /\ CommittedAt(m, r.offset, "vote") /\ m[r.offset].job = j
<1>1. ASSUME NEW j \in Jobs, NEW r, Counts(r, j) PROVE Holds(r, j)
  BY <1>1, StillCounts
<1>2. ASSUME NEW r, r.kind # "receipt", NEW j \in Jobs PROVE Holds(r, j)
  BY <1>2
<1> HIDE DEF Holds
<1>3. ASSUME NEW j \in Jobs PROVE Holds(reply'[j], j)
  <2>1. Counts(reply[j], j)
    BY DEF CountInv
  <2>2. Unanswered.kind # "receipt" /\ Unknown.kind # "receipt"
    BY DEF Unanswered, Unknown, Err
  <2> QED
    BY <1>1, <1>2, <2>1, <2>2, RepliesChange
<1>4. ASSUME NEW j \in Jobs PROVE Holds(result'[j], j)
  <2>1. Counts(reply[j], j) /\ Counts(result[j], j)
    BY DEF CountInv
  <2>2. Unknown.kind # "receipt" /\ Waiting.kind # "receipt"
        /\ \A k \in {"closed", "unknown", "busy", "not_open"} : Err(k).kind # "receipt"
    BY DEF Waiting, Unknown, Err
  <2> QED
    BY <1>1, <1>2, <2>1, <2>2, ResultsChange
<1>5. \A j \in Jobs : Counts(reply[j], j)' <=> Holds(reply'[j], j)
  BY DEF Counts, Holds
<1>6. \A j \in Jobs : Counts(result[j], j)' <=> Holds(result'[j], j)
  BY DEF Counts, Holds
<1> QED
  BY <1>3, <1>4, <1>5, <1>6 DEF CountInv

\* A step answers "unknown" only for a writer that will not commit CLOSED.
LEMMA UnknownStep ==
    ASSUME TypeInv, WriterInv, HomeInv, NowhereInv, UnknownInv, HomeInv', Next
    PROVE  UnknownInv'
<1>1. ASSUME NEW j \in Jobs, reply'[j].kind = "unknown", home'[j] # 0,
             session'[home'[j]] \in {"up", "stopped"}
      PROVE  Broken(wr'[home'[j]][Target(j)])
  <2> DEFINE t == home'[j]
             q == Target(j)
  <2>1. q \in Partitions
    BY PartitionAssumption
  <2>2. Unanswered.kind # "unknown"
    BY DEF Unanswered, Err
  <2>3. CASE reply'[j] = reply[j]
    <3>1. ~ \E s \in Sessions : Admit(j, s)
      <4>1. ASSUME NEW s \in Sessions, Admit(j, s) PROVE FALSE
        <5>1. result[j] = Unanswered
          BY <4>1, AdmitFacts
        <5>2. reply[j].kind = "none"
          BY <5>1 DEF NowhereInv, Unanswered, Err
        <5> QED
          BY <1>1, <2>3, <5>2
      <4> QED
        BY <4>1
    <3>2. home'[j] = home[j]
      <4>1. ASSUME NEW i \in Jobs, NEW s \in Sessions, Admit(i, s) PROVE home'[j] = home[j]
        BY <3>1, <4>1, AdmitFacts DEF TypeInv
      <4>2. ASSUME NEW i \in Jobs, Enqueue(i) \/ Receive(i) \/ GiveUp(i) PROVE UNCHANGED home
        BY <4>2 DEF Enqueue, Receive, GiveUp
      <4>3. ASSUME NEW s \in Sessions, NEW p \in Partitions, Loop(s, p) PROVE UNCHANGED home
        BY <4>3, LoopFrame
      <4> QED
        BY <4>1, <4>2, <4>3, StepCases, StepFrames
    <3>3. t \in Sessions /\ session[t] \notin {"idle", "boot"}
      BY <1>1, <3>2, ConstantFacts DEF TypeInv, HomeInv
    <3>4. session[t] \in {"up", "stopped"}
      <4>1. ASSUME session[t] = "dead" PROVE session'[t] = "dead"
        <5>1. ASSUME NEW s \in Sessions,
                     New(s) \/ Barriers(s) \/ NewFails(s) \/ Close(s) \/ Crash(s)
              PROVE  session'[t] = session[t] \/ session'[t] = "dead"
          BY <3>3, <4>1, <5>1 DEF New, Barriers, NewFails, Close, Crash, TypeInv
        <5>2. ASSUME NEW s \in Sessions, NEW p \in Partitions, Loop(s, p)
              PROVE  UNCHANGED session
          BY <5>2, LoopFrame
        <5> QED
          BY <4>1, <5>1, <5>2, StepCases, StepFrames
      <4> QED
        BY <1>1, <3>3, <4>1 DEF TypeInv
    <3>5. Broken(wr[t][q])
      BY <1>1, <2>3, <3>2, <3>4 DEF UnknownInv, Running, W
    <3> QED
      BY <1>1, <2>1, <3>3, <3>4, <3>5, WritersEvolve
  <2>4. CASE reply'[j] # reply[j]
    <3>1. PICK s \in Sessions, p \in Partitions :
            j \in HeldBy(W(s, p)) /\ reply'[j] = Unknown /\ Broken(wr'[s][p])
      BY <1>1, <2>2, <2>4, RepliesChange
    <3>2. UNCHANGED home
      BY <1>1, <2>2, <2>4, RepliesChange
    <3>3. home[j] = s
      BY <3>1 DEF HomeInv
    <3>4. q = p
      <4>1. W(s, p) \in Writers(p)
        BY DEF WriterInv, WriterOK
      <4> QED
        BY <3>1, <4>1, HeldFacts DEF JobsOf
    <3> QED
      BY <3>1, <3>2, <3>3, <3>4
  <2> QED
    BY <2>3, <2>4
<1> QED
  BY <1>1 DEF UnknownInv, Running, W

\* A step lets Seal return the offsets of CLOSED records only.
LEMMA SealedStep ==
    ASSUME TypeInv, WriterInv, SealedInv, Next
    PROVE  SealedInv'
<1>1. ASSUME NEW s \in Sessions, NEW p \in Partitions, NEW o, o \in 1 .. Len(log[p]),
             CommittedAt(log[p], o, "closed")
      PROVE  o \in 1 .. Len(log'[p]) /\ CommittedAt(log'[p], o, "closed")
  <2>1. log[p] \in Seq(Records) /\ Len(log[p]) \in Nat
    BY DEF TypeInv
  <2>2. Grows(log[p], log'[p]) /\ log'[p] \in Seq(Records) /\ Len(log'[p]) \in Nat
    BY LogGrows
  <2> QED
    BY <1>1, <2>1, <2>2 DEF Grows, CommittedAt
<1>2. ASSUME NEW s \in Sessions, manifest'[s] # <<>>, NEW p \in Partitions
      PROVE  /\ manifest'[s][p] \in 1 .. Len(log[p])
             /\ CommittedAt(log[p], manifest'[s][p], "closed")
  <2>1. CASE manifest'[s] = manifest[s]
    BY <1>2, <2>1 DEF SealedInv
  <2>2. CASE manifest'[s] # manifest[s]
    <3>1. SealReturns(s)
      <4>1. ASSUME NEW t \in Sessions, NEW q \in Partitions, Loop(t, q)
            PROVE  UNCHANGED manifest
        BY <4>1, LoopFrame
      <4>2. Aside
        BY <2>2, <4>1, StepCases, StepFrames
      <4>3. ASSUME NEW t \in Sessions, SealReturns(t) PROVE t = s
        BY <2>2, <4>3 DEF SealReturns, TypeInv
      <4> QED
        BY <2>2, <4>2, <4>3 DEF Aside, SealWaits, SealGivesUp, ClockMoves
    <3>2. W(s, p).sealed /\ session[s] \in {"up", "stopped"} /\ manifest'[s][p] = W(s, p).end
      BY <3>1 DEF SealReturns, Running, TypeInv
    <3>3. KnownOK(W(s, p), log[p], session[s], s)
      BY DEF WriterInv, WriterOK
    <3> QED
      BY <3>2, <3>3 DEF KnownOK
  <2> QED
    BY <2>1, <2>2
<1> QED
  BY <1>1, <1>2 DEF SealedInv

\* The invariant holds of an empty topic.
LEMMA OwnersInit == Init => OwnersInv
<1> SUFFICES ASSUME Init PROVE OwnersInv
  OBVIOUS
<1>1. /\ log = [p \in Partitions |-> <<>>] /\ epoch = [p \in Partitions |-> 0]
      /\ ending = [p \in Partitions |-> FALSE] /\ session = [s \in Sessions |-> "idle"]
      /\ wr = [s \in Sessions |-> [p \in Partitions |-> NewWriter]]
      /\ home = [j \in Jobs |-> 0] /\ reply = [j \in Jobs |-> Unanswered]
      /\ result = [j \in Jobs |-> Unanswered] /\ manifest = [s \in Sessions |-> <<>>]
  BY DEF Init, EmptyTopic
<1>2. \A p \in Partitions : log[p] = <<>> /\ Len(log[p]) = 0 /\ epoch[p] = 0
  BY <1>1
<1>3. \A s \in Sessions : session[s] = "idle" /\ ~ Alive(s) /\ s \in Nat /\ s # 0
  BY <1>1, ConstantFacts DEF Alive
<1>4. \A s \in Sessions, p \in Partitions : W(s, p) = NewWriter
  BY <1>1 DEF W
<1>5. TypeInv
  <2>1. <<>> \in Seq(Records) /\ 0 \in 0 .. MaxSession
    BY ConstantFacts
  <2> QED
    BY <1>1, <2>1 DEF TypeInv
<1>6. LogInv
  BY <1>2 DEF LogInv, LogOK
<1>7. PollInv /\ OnePollInv
  BY <1>2, <1>3 DEF PollInv, OnePollInv
<1>8. BootInv
  BY <1>2, <1>3 DEF BootInv
<1>9. WriterInv
  <2>1. ASSUME NEW s \in Sessions, NEW p \in Partitions
        PROVE  WriterOK(NewWriter, log[p], ending[p], epoch[p], "idle", s, p)
    <3>1. NewWriter \in Writers(p) /\ Fresh(NewWriter) /\ NewWriter.pc = "off"
      BY FreshWriter DEF NewWriter
    <3> HIDE DEF NewWriter
    <3>2. PhaseOK(NewWriter, "idle")
      BY <3>1 DEF PhaseOK, Fresh
    <3>3. KnownOK(NewWriter, log[p], "idle", s)
      BY DEF KnownOK
    <3> QED
      BY <3>1, <3>2, <3>3 DEF WriterOK
  <2> QED
    BY <1>3, <1>4, <2>1 DEF WriterInv
<1>10. ASSUME NEW s \in Sessions, NEW p \in Partitions PROVE HeldBy(W(s, p)) = {}
  <2>1. NewWriter \in Writers(p) /\ Fresh(NewWriter)
    BY FreshWriter
  <2> HIDE DEF NewWriter
  <2>2. Range(NewWriter.batch) = {} /\ Range(NewWriter.jobs) = {}
    BY <2>1, RangeFacts DEF Fresh, Writers
  <2> QED
    BY <1>4, <2>1, <2>2 DEF HeldBy, LeftOver, Fresh
<1>11. \A j \in Jobs : home[j] = 0 /\ reply[j] = Unanswered /\ result[j] = Unanswered
                       /\ Unanswered.kind = "none"
  BY <1>1 DEF Unanswered, Err
<1>12. HomeInv
  BY <1>10, <1>11 DEF HomeInv
<1>13. NowhereInv
  BY <1>2, <1>10, <1>11 DEF NowhereInv, Nowhere
<1>14. CountInv /\ UnknownInv
  BY <1>11 DEF CountInv, Counts, UnknownInv
<1>15. SealedInv
  BY <1>1 DEF SealedInv
<1> QED
  BY <1>5, <1>6, <1>7, <1>8, <1>9, <1>12, <1>13, <1>14, <1>15 DEF OwnersInv

\* Every step keeps the invariant.
LEMMA OwnersStep ==
    ASSUME OwnersInv, Next, UNCHANGED ConfigOf
    PROVE  OwnersInv'
<1> USE DEF OwnersInv
<1>1. TypeInv'
  BY TypeStep
<1>2. LogInv'
  BY LogStep
<1>3. PollInv' /\ OnePollInv'
  BY PollStep
<1>4. BootInv'
  BY BootStep
<1>5. WriterInv'
  BY WritersStep
<1>6. HomeInv'
  BY HomeStep
<1>7. NowhereInv'
  BY NowhereStep
<1>8. CountInv'
  BY CountStep
<1>9. UnknownInv'
  BY <1>6, UnknownStep
<1>10. SealedInv'
  BY SealedStep
<1> QED
  BY <1>1, <1>2, <1>3, <1>4, <1>5, <1>6, <1>7, <1>8, <1>9, <1>10

\* The invariant is about the variables only.
LEMMA OwnersStutter == OwnersInv /\ UNCHANGED <<vars, ConfigOf>> => OwnersInv'
<1> SUFFICES ASSUME OwnersInv, UNCHANGED <<vars, ConfigOf>> PROVE OwnersInv'
  OBVIOUS
<1> USE DEF OwnersInv, vars
<1>1. TypeInv'
  <2>1. Records' = Records
    BY DEF Records
  <2> QED
    BY <2>1 DEF TypeInv
<1>2. LogInv'
  BY DEF LogInv
<1>3. PollInv' /\ OnePollInv'
  BY DEF PollInv, OnePollInv, Alive
<1>4. BootInv'
  BY DEF BootInv
<1>5. WriterInv'
  BY DEF WriterInv, W
<1>6. HomeInv'
  BY DEF HomeInv, W
<1>7. NowhereInv'
  BY DEF NowhereInv, Nowhere, W
<1>8. CountInv'
  BY DEF CountInv, Counts
<1>9. UnknownInv'
  BY DEF UnknownInv, Running, W
<1>10. SealedInv'
  BY DEF SealedInv
<1> QED
  BY <1>1, <1>2, <1>3, <1>4, <1>5, <1>6, <1>7, <1>8, <1>9, <1>10

\* The invariant of the owners of a topic holds always.
LEMMA OwnersAlways == Spec => []OwnersInv
<1>1. OwnersInv /\ [Next /\ UNCHANGED ConfigOf]_<<vars, ConfigOf>> => OwnersInv'
  BY OwnersStep, OwnersStutter
<1> QED
  BY OwnersInit, <1>1, PTL DEF Spec

-----------------------------------------------------------------------------
(* What the invariant says of votes and answers *)

\* A client sees 202 for a receipt only, and 410, 425 or 429 for a refusal only.
LEMMA StatusFacts ==
    ASSUME NEW r
    PROVE  /\ Status(r) = 202 => r.kind = "receipt"
           /\ Status(r) \in {410, 425, 429} => r.kind \in {"closed", "not_open", "busy"}
<1>1. /\ 410 # 202 /\ 425 # 202 /\ 429 # 202 /\ 503 # 202
      /\ 503 \notin {410, 425, 429} /\ 202 \notin {410, 425, 429}
  OBVIOUS
<1>2. CASE r.kind = "receipt"
  <2>1. Status(r) = 202
    BY <1>2, Zenon DEF Status
  <2> QED
    BY <1>1, <1>2, <2>1
<1>3. CASE r.kind \notin {"receipt", "closed", "not_open", "busy"}
  <2>1. r.kind # "receipt" /\ r.kind # "closed" /\ r.kind # "not_open" /\ r.kind # "busy"
    BY <1>3
  <2>2. Status(r) = 503
    BY <2>1, Zenon DEF Status
  <2> QED
    BY <1>1, <2>2
<1>4. ASSUME r.kind \in {"closed", "not_open", "busy"} PROVE Status(r) # 202
  <2>1. CASE r.kind = "closed"
    <3>1. r.kind # "receipt" /\ r.kind # "not_open" /\ r.kind # "busy"
      BY <2>1
    <3>2. Status(r) = 410
      BY <2>1, <3>1, Zenon DEF Status
    <3> QED
      BY <1>1, <3>2
  <2>2. CASE r.kind = "not_open"
    <3>1. r.kind # "receipt" /\ r.kind # "closed" /\ r.kind # "busy"
      BY <2>2
    <3>2. Status(r) = 425
      BY <2>2, <3>1, Zenon DEF Status
    <3> QED
      BY <1>1, <3>2
  <2>3. CASE r.kind = "busy"
    <3>1. r.kind # "receipt" /\ r.kind # "closed" /\ r.kind # "not_open"
      BY <2>3
    <3>2. Status(r) = 429
      BY <2>3, <3>1, Zenon DEF Status
    <3> QED
      BY <1>1, <3>2
  <2> QED
    BY <1>4, <2>1, <2>2, <2>3
<1> QED
  BY <1>2, <1>3, <1>4

\* Every committed vote counts: no CLOSED is before it.
LEMMA VotesCount ==
    ASSUME NEW l \in Seq(Records), NEW e, LogOK(l, e)
    PROVE  /\ CountedAt(l) = {i \in 1 .. Len(l) : CommittedAt(l, i, "vote")}
           /\ \A o \in CountedAt(l), c \in ClosedAt(l) : o < c
<1>1. DOMAIN l = 1 .. Len(l) /\ Len(l) \in Nat
  OBVIOUS
<1>2. ASSUME NEW o \in 1 .. Len(l), CommittedAt(l, o, "vote"), NEW c \in ClosedAt(l)
      PROVE  o < c
  <2>1. c \in 1 .. Len(l) /\ l[c].st = "committed" /\ l[c].kind = "closed"
    BY <1>1 DEF ClosedAt, Is
  <2>2. ~ c < o
    BY <1>2, <2>1 DEF LogOK, CommittedAt
  <2>3. c # o
    BY <1>2, <2>1 DEF CommittedAt
  <2> QED
    BY <2>1, <2>2, <2>3
<1> QED
  BY <1>1, <1>2 DEF CountedAt, Is, CommittedAt

\* A receipt of the invariant is a committed vote, which counts.
LEMMA ReceiptsFollow == OwnersInv => ReceiptCounts
<1> SUFFICES ASSUME OwnersInv, NEW j \in Jobs, Status(reply[j]) = 202
             PROVE  LET l == log[reply[j].partition]
                        o == reply[j].offset
                    IN  /\ o \in DOMAIN l /\ Is(l, o, "vote") /\ l[o].job = j
                        /\ \A c \in ClosedAt(l) : o < c
  BY DEF ReceiptCounts
<1> DEFINE l == log[Target(j)]
           o == reply[j].offset
<1>1. l \in Seq(Records) /\ LogOK(l, epoch[Target(j)])
  BY PartitionAssumption DEF OwnersInv, TypeInv, LogInv
<1>2. /\ reply[j].partition = Target(j) /\ o \in 1 .. Len(l)
      /\ CommittedAt(l, o, "vote") /\ l[o].job = j
  BY StatusFacts DEF OwnersInv, CountInv, Counts
<1>3. o \in CountedAt(l)
  BY <1>1, <1>2, VotesCount
<1>4. \A c \in ClosedAt(l) : o < c
  BY <1>1, <1>3, VotesCount
<1>5. o \in DOMAIN l
  BY <1>1, <1>2
<1> QED
  BY <1>2, <1>4, <1>5 DEF Is, CommittedAt

(* A caller that holds a receipt finds its vote committed at that position *)
(* of the partition and before any CLOSED, whatever became of the owner    *)
(* that answered it (flush, store.go 404-418).                             *)
THEOREM ReceiptsCount == Spec => []ReceiptCounts
  BY OwnersAlways, ReceiptsFollow, PTL

\* A refused job is nowhere, so in no journal and no writer.
LEMMA RefusalsFollow == OwnersInv => RefusedIsAbsent
<1> SUFFICES ASSUME OwnersInv, NEW j \in Jobs, Status(result[j]) \in {410, 425, 429}
             PROVE  /\ \A p \in Partitions : \A i \in DOMAIN log[p] : log[p][i].job # j
                    /\ \A s \in Sessions : LET w == W(s, Target(j)) IN
                         j \notin Range(w.jobs) \cup Range(w.batch) \cup {w.hand}
  BY DEF RefusedIsAbsent
<1>1. Nowhere(j)
  BY StatusFacts DEF OwnersInv, NowhereInv
<1>2. \A p \in Partitions : DOMAIN log[p] = 1 .. Len(log[p])
  BY DEF OwnersInv, TypeInv
<1>3. \A s \in Sessions : j \notin HeldBy(W(s, Target(j))) /\ j # NoJob
  BY <1>1, PartitionAssumption, ConstantFacts DEF Nowhere
<1> QED
  BY <1>1, <1>2, <1>3 DEF Nowhere, HeldBy, LeftOver

(* A vote that was refused as too early, too late or one too many is in no *)
(* journal, batch or channel, not even of an owner that was fenced.        *)
THEOREM RefusalsAreTrue == Spec => []RefusedIsAbsent
  BY OwnersAlways, RefusalsFollow, PTL

\* The first readable record is a BOOT because an owner's other records follow its own
\* BOOT, committed before them.
LEMMA ReplayFollows == OwnersInv => JournalReplays
<1> SUFFICES ASSUME OwnersInv, NEW p \in Partitions, Readable(log[p]) # {}
             PROVE  /\ WellFormed(log[p], Len(log[p]), log[p][Min(Readable(log[p]))].cfg)
                    /\ OwnersInOrder(log[p])
  BY DEF JournalReplays
<1> DEFINE l == log[p]
           R == Readable(l)
           f == Min(R)
<1>1. l \in Seq(Records) /\ Len(l) \in Nat /\ LogOK(l, epoch[p])
  BY DEF OwnersInv, TypeInv, LogInv
<1>2. R \subseteq 1 .. Len(l) /\ R \in SUBSET Nat
  BY <1>1, ReadableFacts
<1>3. \A i \in 1 .. Len(l) :
        i \in R <=> l[i].st = "committed" /\ \A k \in 1 .. i : l[k].st # "open"
  BY <1>1, ReadableFacts
<1>4. f \in R /\ \A n \in R : f <= n
  BY <1>2, LeastNatural
<1>5. {i \in R : i <= Len(l)} = R
  BY <1>1, <1>2
<1>6. \A i, k \in 1 .. Len(l) : l[i].cfg = l[k].cfg
  BY DEF OwnersInv, OnePollInv
<1> HIDE DEF R, f, l
<1>7. l[f].kind = "boot"
  <2>1. SUFFICES ASSUME l[f].kind # "boot" PROVE FALSE
    OBVIOUS
  <2>2. f \in 1 .. Len(l)
    BY <1>2, <1>4
  <2>3. PICK k \in 1 .. f - 1 : BootBy(l, k, l[f].by)
    BY <1>1, <2>1, <2>2 DEF LogOK
  <2>4. k \in 1 .. Len(l) /\ k < f /\ \A i \in 1 .. k : i \in 1 .. f
    BY <1>1, <2>2
  <2>5. k \in R
    BY <1>3, <1>4, <2>2, <2>3, <2>4 DEF BootBy, CommittedAt
  <2> QED
    BY <1>2, <1>4, <2>4, <2>5
<1>8. \A i, k \in R : l[i].kind = "closed" /\ i < k => l[k].kind = "boot"
  BY <1>1, <1>2, <1>3 DEF LogOK
<1>9. \A i, k \in R : i < k => l[i].by <= l[k].by
  BY <1>1, <1>2 DEF LogOK
<1>10. \A i \in R : l[i].cfg = l[f].cfg
  BY <1>2, <1>4, <1>6
<1>11. WellFormed(l, Len(l), l[f].cfg)
  BY <1>5, <1>7, <1>8, <1>10 DEF WellFormed, R, f
<1> QED
  BY <1>9, <1>11 DEF OwnersInOrder, R, f, l

(* Whoever owned the topic, its committed records can be replayed by the   *)
(* owners of its poll: BOOT comes first, one poll is bound, nothing but    *)
(* BOOT follows CLOSED, and fenced owners commit nothing late.             *)
THEOREM JournalsReplay == Spec => []JournalReplays
  BY OwnersAlways, ReplayFollows, PTL

\* Two CLOSED records cannot follow one another, so the one Seal reported is the only one.
LEMMA ManifestFollows == OwnersInv => ManifestIsFinal
<1> SUFFICES ASSUME OwnersInv, NEW s \in Sessions, manifest[s] # <<>>
             PROVE  /\ \A p \in Partitions : ClosedAt(log[p]) = {manifest[s][p]}
                    /\ \A j \in Jobs : Status(result[j]) = 202 =>
                         \E o \in CountedAt(log[Target(j)]) : log[Target(j)][o].job = j
  BY DEF ManifestIsFinal
<1>1. ASSUME NEW p \in Partitions PROVE ClosedAt(log[p]) = {manifest[s][p]}
  <2> DEFINE l == log[p]
             o == manifest[s][p]
  <2>1. l \in Seq(Records) /\ Len(l) \in Nat /\ DOMAIN l = 1 .. Len(l) /\ LogOK(l, epoch[p])
    BY DEF OwnersInv, TypeInv, LogInv
  <2>2. o \in 1 .. Len(l) /\ CommittedAt(l, o, "closed")
    BY DEF OwnersInv, SealedInv
  <2> HIDE DEF l, o
  <2>3. \A i \in 1 .. Len(l) : i \in ClosedAt(l) <=> CommittedAt(l, i, "closed")
    BY <2>1 DEF ClosedAt, Is, CommittedAt
  <2>4. ASSUME NEW i \in ClosedAt(l) PROVE i = o
    <3>1. i \in 1 .. Len(l) /\ CommittedAt(l, i, "closed")
      BY <2>1, <2>3 DEF ClosedAt
    <3>2. ~ i < o /\ ~ o < i
      BY <2>1, <2>2, <3>1 DEF LogOK, CommittedAt
    <3> QED
      BY <2>2, <3>1, <3>2
  <2>5. ClosedAt(l) = {o}
    BY <2>2, <2>3, <2>4
  <2> QED
    BY <2>5 DEF l, o
<1>2. ASSUME NEW j \in Jobs, Status(result[j]) = 202
      PROVE  \E o \in CountedAt(log[Target(j)]) : log[Target(j)][o].job = j
  <2> DEFINE l == log[Target(j)]
             o == result[j].offset
  <2>1. l \in Seq(Records) /\ LogOK(l, epoch[Target(j)])
    BY PartitionAssumption DEF OwnersInv, TypeInv, LogInv
  <2>2. o \in 1 .. Len(l) /\ CommittedAt(l, o, "vote") /\ l[o].job = j
    BY <1>2, StatusFacts DEF OwnersInv, CountInv, Counts
  <2>3. o \in CountedAt(l)
    BY <2>1, <2>2, VotesCount
  <2> QED
    BY <2>2, <2>3
<1> QED
  BY <1>1, <1>2

(* The manifest of Seal names the only CLOSED record of every partition,   *)
(* and every confirmed vote is counted by whoever replays the journal.     *)
THEOREM ManifestsAreFinal == Spec => []ManifestIsFinal
  BY OwnersAlways, ManifestFollows, PTL

\* The writer of a job answered "unknown" is broken, and one that sealed is not.
LEMMA SealFollows == OwnersInv => SealConfirmsAll
<1> SUFFICES ASSUME OwnersInv, NEW s \in Sessions, NEW j \in Jobs, home[j] = s,
                    W(s, Target(j)).sealed, W(s, Target(j)).kind = "closed",
                    reply[j].kind = "unknown"
             PROVE  FALSE
  BY DEF SealConfirmsAll
<1>1. Target(j) \in Partitions /\ s # 0
  BY PartitionAssumption, ConstantFacts
<1>2. PhaseOK(W(s, Target(j)), session[s])
  BY <1>1 DEF OwnersInv, WriterInv, WriterOK
<1>3. session[s] \in {"idle", "boot", "up", "stopped", "dead"}
  BY DEF OwnersInv, TypeInv
<1>4. Running(s)
  BY <1>2, <1>3 DEF PhaseOK, Fresh, Running
<1>5. Broken(W(s, Target(j)))
  BY <1>1, <1>4 DEF OwnersInv, UnknownInv
<1> QED
  BY <1>5 DEF Broken

(* A writer that committed CLOSED told none of its callers that the        *)
(* outcome is unknown (store.go 489-498, 528-531).                         *)
THEOREM SealsConfirmAll == Spec => []SealConfirmsAll
  BY OwnersAlways, SealFollows, PTL

-----------------------------------------------------------------------------
(* The first choice of a token *)

\* What a journal counts comes before whatever it counts later on.
LEMMA NewVotesFollow ==
    ASSUME NEW l \in Seq(Records), NEW m \in Seq(Records), NEW e, NEW d,
           LogOK(l, e), LogOK(m, d), Grows(l, m)
    PROVE  /\ CountedAt(l) \subseteq CountedAt(m)
           /\ \A o \in CountedAt(l) : o \in Nat /\ m[o].job = l[o].job
           /\ \A i \in CountedAt(m) : i \in Nat
           /\ \A o \in CountedAt(l), i \in CountedAt(m) \ CountedAt(l) : o < i
<1>1. Len(l) \in Nat /\ Len(m) \in Nat /\ Len(l) <= Len(m)
  BY DEF Grows
<1>2. /\ CountedAt(l) = {i \in 1 .. Len(l) : CommittedAt(l, i, "vote")}
      /\ CountedAt(m) = {i \in 1 .. Len(m) : CommittedAt(m, i, "vote")}
  BY VotesCount
<1>3. CountedAt(l) \subseteq CountedAt(m)
  BY <1>1, <1>2 DEF Grows, CommittedAt
<1>4. ASSUME NEW o \in CountedAt(l), NEW i \in CountedAt(m) \ CountedAt(l) PROVE o < i
  <2>1. o \in 1 .. Len(l) /\ l[o].st = "committed" /\ i \in 1 .. Len(m)
        /\ m[i].st = "committed" /\ m[i].kind = "vote"
    BY <1>2 DEF CommittedAt
  <2>2. CASE i \notin 1 .. Len(l)
    BY <1>1, <2>1, <2>2
  <2>3. CASE i \in 1 .. Len(l)
    <3>1. l[i].st = "open"
      BY <1>2, <1>4, <2>1, <2>3 DEF Grows, CommittedAt
    <3>2. ~ i < o /\ i # o
      BY <2>1, <2>3, <3>1 DEF LogOK
    <3> QED
      BY <2>1, <2>3, <3>2
  <2> QED
    BY <2>2, <2>3
<1> QED
  BY <1>1, <1>2, <1>3, <1>4 DEF Grows

\* So the first vote of a token stays the first.
LEMMA CanonicalGrows ==
    ASSUME NEW l \in Seq(Records), NEW m \in Seq(Records), NEW e, NEW d,
           LogOK(l, e), LogOK(m, d), Grows(l, m)
    PROVE  Canonical(l) \subseteq Canonical(m)
<1>1. /\ CountedAt(l) \subseteq CountedAt(m)
      /\ \A o \in CountedAt(l) : o \in Nat /\ m[o].job = l[o].job
      /\ \A i \in CountedAt(m) : i \in Nat
      /\ \A o \in CountedAt(l), i \in CountedAt(m) \ CountedAt(l) : o < i
  BY NewVotesFollow
<1>2. ASSUME NEW k \in {l, m}
      PROVE  \A x : x \in Positions(k) <=>
               \E o \in CountedAt(k) : \E i \in 1 .. Size(k[o].job) : x = <<o, i>>
  BY DEF Positions
<1>3. ASSUME NEW x \in Positions(l)
      PROVE  x \in Positions(m) /\ VoteAt(m, x) = VoteAt(l, x) /\ x[1] \in CountedAt(l)
  <2>1. PICK o \in CountedAt(l) : \E i \in 1 .. Size(l[o].job) : x = <<o, i>>
    BY <1>2
  <2>2. x[1] = o /\ m[o].job = l[o].job /\ o \in CountedAt(m)
    BY <1>1, <2>1
  <2> QED
    BY <1>2, <2>1, <2>2 DEF VoteAt
<1>4. ASSUME NEW z \in Positions(m)
      PROVE  z[1] \in CountedAt(m) /\ (z[1] \in CountedAt(l) => z \in Positions(l))
  <2>1. PICK o \in CountedAt(m) : \E i \in 1 .. Size(m[o].job) : z = <<o, i>>
    BY <1>2
  <2>2. z[1] = o
    BY <2>1
  <2> QED
    BY <1>1, <1>2, <2>1, <2>2
<1>5. ASSUME NEW y \in Positions(l), NEW z \in Positions(m), Before(z, y)
      PROVE  z \in Positions(l)
  <2>1. SUFFICES ASSUME z[1] \notin CountedAt(l) PROVE FALSE
    BY <1>4
  <2>2. y[1] < z[1] /\ y[1] \in Nat /\ z[1] \in Nat
    BY <1>1, <1>3, <1>4, <2>1
  <2> QED
    BY <1>5, <2>2 DEF Before
<1>6. ASSUME NEW y \in Positions(l),
             \A z \in Positions(l) : Before(z, y) => VoteAt(l, z)[1] # VoteAt(l, y)[1]
      PROVE  VoteAt(l, y) \in Canonical(m)
  <2>1. y \in Positions(m) /\ VoteAt(m, y) = VoteAt(l, y)
    BY <1>3
  <2>2. ASSUME NEW z \in Positions(m), Before(z, y)
        PROVE  VoteAt(m, z)[1] # VoteAt(m, y)[1]
    <3>1. z \in Positions(l)
      BY <1>5, <2>2
    <3>2. VoteAt(m, z) = VoteAt(l, z)
      BY <1>3, <3>1
    <3> QED
      BY <1>6, <2>1, <2>2, <3>1, <3>2
  <2> QED
    BY <2>1, <2>2 DEF Canonical
<1> QED
  BY <1>6 DEF Canonical

(* A vote that counts goes on counting: no later vote of its token, of     *)
(* whichever owner, replaces it (Audit, audit.go 198-205).                 *)
THEOREM FirstChoicesStay == Spec => FirstChoiceStays
<1> DEFINE Stays == \A p \in Partitions : Canonical(log[p]) \subseteq Canonical(log[p])'
<1>1. ASSUME OwnersInv, OwnersInv', Next, NEW p \in Partitions
      PROVE  Canonical(log[p]) \subseteq Canonical(log'[p])
  <2>1. log[p] \in Seq(Records) /\ log'[p] \in Seq(Records) /\ Grows(log[p], log'[p])
    BY <1>1, LogGrows DEF OwnersInv, TypeInv
  <2>2. LogOK(log[p], epoch[p]) /\ LogOK(log'[p], epoch'[p])
    BY <1>1 DEF OwnersInv, LogInv
  <2> QED
    BY <2>1, <2>2, CanonicalGrows
<1>2. OwnersInv /\ OwnersInv' /\ [Next /\ UNCHANGED ConfigOf]_<<vars, ConfigOf>> => [Stays]_vars
  <2>1. CASE UNCHANGED <<vars, ConfigOf>>
    BY <2>1
  <2>2. ASSUME OwnersInv, OwnersInv', Next PROVE Stays
    <3>1. \A p \in Partitions : Canonical(log[p])' = Canonical(log'[p])
      BY DEF Canonical, Positions, VoteAt, CountedAt, ClosedAt, Is
    <3> QED
      BY <1>1, <2>2, <3>1
  <2> QED
    BY <2>1, <2>2
<1>3. FirstChoiceStays <=> [][Stays]_vars
  BY PTL DEF FirstChoiceStays
<1> QED
  BY <1>2, <1>3, OwnersAlways, PTL DEF Spec
-----------------------------------------------------------------------------
(* The books of a writer *)

\* Every job is in one place of its writer, and there once.
Once(q) == \A i, k \in 1 .. Len(q) : q[i] = q[k] => i = k
Apart(w) ==
    /\ Once(w.batch) /\ Once(w.jobs) /\ Range(w.batch) \cap Range(w.jobs) = {}
    /\ w.hand # NoJob => w.hand \notin Range(w.batch) \cup Range(w.jobs)
    /\ w.mu # NoJob => w.mu \notin LeftOver(w)

\* The credits are the votes in the channel and in hand, with room for the job under the
\* mutex; the batch holds what its counter says.
Charged(w) == Range(w.jobs) \cup InHand(w)
Charge(w) ==
    /\ w.votes \in 0 .. BatchSize /\ VotesIn(Range(w.batch)) = w.votes
    /\ w.queued \in 0 .. QueuePerPartition
    /\ w.mu # NoJob => w.queued + Size(w.mu) <= QueuePerPartition
    /\ w.pc # "done" => w.queued = VotesIn(Charged(w))

\* A job waits in hand for the flush of the batch it does not fit.
HandOK(w)  == w.pc = "select" /\ w.hand # NoJob => w.votes = 0
BooksOK(w) == Apart(w) /\ Charge(w)
BooksInv ==
    /\ \A s \in Sessions, p \in Partitions : BooksOK(W(s, p)) /\ HandOK(W(s, p))
    /\ \A s \in Sessions, p \in Partitions : \A j \in HeldBy(W(s, p)) : reply[j] = Unanswered
    /\ now \in Clock /\ sealing \subseteq Sessions

\* The votes of finitely many jobs are finitely many.
LEMMA VotesFinite ==
    ASSUME NEW S \in SUBSET Jobs, IsFiniteSet(S)
    PROVE  IsFiniteSet(VotesOf(S)) /\ VotesIn(S) \in Nat
<1>1. IsFiniteSet(1 .. BatchSize)
  BY ConstantFacts, FS_Interval
<1>2. IsFiniteSet(S \X (1 .. BatchSize))
  BY <1>1, FS_Product
<1>3. VotesOf(S) \in SUBSET (S \X (1 .. BatchSize))
  BY DEF VotesOf
<1>4. IsFiniteSet(VotesOf(S))
  BY <1>2, <1>3, FS_Subset
<1> QED
  BY <1>4, FS_CardinalityType DEF VotesIn

\* One more job brings its own votes.
LEMMA VotesAdd ==
    ASSUME NEW S \in SUBSET Jobs, IsFiniteSet(S), NEW j \in Jobs, j \notin S
    PROVE  VotesIn(S \cup {j}) = VotesIn(S) + Size(j)
<1> DEFINE new == {j} \X (1 .. Size(j))
<1>1. Size(j) \in 1 .. BatchSize /\ Size(j) \in Nat \ {0}
  BY JobAssumption, ConstantFacts
<1>2. IsFiniteSet({j}) /\ Cardinality({j}) = 1
  BY FS_Singleton
<1>3. IsFiniteSet(1 .. Size(j)) /\ Cardinality(1 .. Size(j)) = Size(j)
  BY <1>1, FS_Interval
<1>4. IsFiniteSet(new) /\ Cardinality(new) = Size(j)
  <2>1. Cardinality(new) = 1 * Size(j) /\ IsFiniteSet(new)
    BY <1>2, <1>3, FS_Product
  <2> QED
    BY <1>1, <2>1
<1>5. VotesOf(S \cup {j}) = VotesOf(S) \cup new
  <2>1. \A n : n \in 1 .. Size(j) <=> n \in 1 .. BatchSize /\ n <= Size(j)
    BY <1>1, ConstantFacts
  <2> QED
    BY <2>1 DEF VotesOf
<1>6. VotesOf(S) \cap new = {}
  BY DEF VotesOf
<1>7. IsFiniteSet(VotesOf(S)) /\ Cardinality(VotesOf(S)) \in Nat
  BY VotesFinite DEF VotesIn
<1>8. Cardinality(VotesOf(S) \cup new)
        = Cardinality(VotesOf(S)) + Cardinality(new) - Cardinality(VotesOf(S) \cap new)
  BY <1>4, <1>7, FS_Union
<1>9. Cardinality(VotesOf(S) \cap new) = 0
  BY <1>6, FS_EmptySet
<1> HIDE DEF new
<1>10. VotesIn(S \cup {j}) = Cardinality(VotesOf(S) \cup new)
  BY <1>5 DEF VotesIn
<1>11. Cardinality(VotesOf(S) \cup new) = Cardinality(VotesOf(S)) + Size(j) - 0
  BY <1>4, <1>8, <1>9
<1>12. VotesIn(S) = Cardinality(VotesOf(S))
  BY DEF VotesIn
<1> QED
  BY <1>1, <1>7, <1>10, <1>11, <1>12

LEMMA NoVotes == VotesIn({}) = 0
  BY FS_EmptySet DEF VotesIn, VotesOf

\* A sequence holds finitely many jobs, as many as its length if it holds none twice.
LEMMA RangeCount ==
    ASSUME NEW S, NEW q \in Seq(S)
    PROVE  IsFiniteSet(Range(q)) /\ (Once(q) => Cardinality(Range(q)) = Len(q))
<1>1. DOMAIN q = 1 .. Len(q) /\ Len(q) \in Nat
  OBVIOUS
<1>2. IsFiniteSet(1 .. Len(q)) /\ Cardinality(1 .. Len(q)) = Len(q)
  BY <1>1, FS_Interval
<1>3. q \in Surjection(1 .. Len(q), Range(q))
  <2>1. q \in [1 .. Len(q) -> Range(q)]
    BY <1>1, RangeFacts
  <2>2. \A e \in Range(q) : \E i \in 1 .. Len(q) : q[i] = e
    BY <1>1 DEF Range
  <2> QED
    BY <2>1, <2>2 DEF Surjection
<1>4. IsFiniteSet(Range(q))
  BY <1>2, <1>3, FS_Surjection
<1>5. ASSUME Once(q) PROVE Cardinality(Range(q)) = Len(q)
  <2>1. q \in Injection(1 .. Len(q), Range(q))
    BY <1>3, <1>5 DEF Once, Surjection, Injection, IsInjective
  <2> QED
    BY <1>2, <1>3, <2>1, FS_Surjection
<1> QED
  BY <1>4, <1>5

\* Appending what is not there, and taking the head, keep a sequence without repetition.
LEMMA OnceAppend ==
    ASSUME NEW S, NEW q \in Seq(S), Once(q), NEW e \in S, e \notin Range(q)
    PROVE  Once(Append(q, e))
<1>1. /\ Len(Append(q, e)) = Len(q) + 1 /\ Append(q, e)[Len(q) + 1] = e /\ Len(q) \in Nat
      /\ \A i \in 1 .. Len(q) : Append(q, e)[i] = q[i]
  BY AppendProperties
<1>2. \A i \in 1 .. Len(q) : q[i] # e
  BY RangeFacts
<1>3. \A i \in 1 .. Len(q) + 1 : i \in 1 .. Len(q) \/ i = Len(q) + 1
  BY <1>1
<1> QED
  BY <1>1, <1>2, <1>3 DEF Once
LEMMA OnceTail ==
    ASSUME NEW S, NEW q \in Seq(S), q # <<>>, Once(q)
    PROVE  /\ Head(q) \in S /\ Tail(q) \in Seq(S) /\ Once(Tail(q))
           /\ Range(q) = Range(Tail(q)) \cup {Head(q)} /\ Head(q) \notin Range(Tail(q))
<1>1. /\ Head(q) \in S /\ Tail(q) \in Seq(S) /\ Head(q) = q[1]
      /\ Len(q) \in Nat \ {0} /\ Len(Tail(q)) = Len(q) - 1
      /\ \A i \in 1 .. Len(q) - 1 : Tail(q)[i] = q[i + 1]
  BY HeadTailProperties
<1>2. /\ \A e : e \in Range(q) <=> \E i \in 1 .. Len(q) : q[i] = e
      /\ \A e : e \in Range(Tail(q)) <=> \E i \in 1 .. Len(q) - 1 : Tail(q)[i] = e
  <2>1. DOMAIN q = 1 .. Len(q) /\ DOMAIN Tail(q) = 1 .. Len(q) - 1
    BY <1>1
  <2> QED
    BY <2>1 DEF Range
<1>3. /\ \A i \in 1 .. Len(q) : i = 1 \/ (i - 1 \in 1 .. Len(q) - 1 /\ (i - 1) + 1 = i)
      /\ \A i \in 1 .. Len(q) - 1 : i + 1 \in 1 .. Len(q) /\ i + 1 # 1
      /\ 1 \in 1 .. Len(q)
  BY <1>1
<1>4. Range(q) = Range(Tail(q)) \cup {Head(q)}
  <2>1. ASSUME NEW e \in Range(q), e # Head(q) PROVE e \in Range(Tail(q))
    <3>1. PICK i \in 1 .. Len(q) : q[i] = e
      BY <1>2
    <3>2. i - 1 \in 1 .. Len(q) - 1 /\ Tail(q)[i - 1] = e
      BY <1>1, <1>3, <2>1, <3>1
    <3> QED
      BY <1>2, <3>2
  <2>2. Range(Tail(q)) \subseteq Range(q) /\ Head(q) \in Range(q)
    BY <1>1, <1>2, <1>3
  <2> QED
    BY <2>1, <2>2
<1>5. Head(q) \notin Range(Tail(q))
  <2> SUFFICES ASSUME NEW i \in 1 .. Len(q) - 1, Tail(q)[i] = Head(q) PROVE FALSE
    BY <1>2
  <2>1. q[i + 1] = q[1] /\ i + 1 \in 1 .. Len(q) /\ 1 \in 1 .. Len(q) /\ i + 1 # 1
    BY <1>1, <1>3
  <2> QED
    BY <2>1 DEF Once
<1>6. Once(Tail(q))
  <2> SUFFICES ASSUME NEW i \in 1 .. Len(q) - 1, NEW k \in 1 .. Len(q) - 1,
                      Tail(q)[i] = Tail(q)[k]
               PROVE  i = k
    BY <1>1 DEF Once
  <2>1. i + 1 = k + 1
    BY <1>1, <1>3 DEF Once
  <2> QED
    BY <2>1
<1> QED
  BY <1>1, <1>4, <1>5, <1>6

\* What a writer holds, as sets of jobs.
LEMMA PlaceFacts ==
    ASSUME NEW p \in Partitions, NEW w \in Writers(p)
    PROVE  /\ Range(w.batch) \in SUBSET Jobs /\ IsFiniteSet(Range(w.batch))
           /\ Range(w.jobs) \in SUBSET Jobs /\ IsFiniteSet(Range(w.jobs))
           /\ InHand(w) \in SUBSET Jobs /\ IsFiniteSet(InHand(w))
           /\ Charged(w) \in SUBSET Jobs /\ IsFiniteSet(Charged(w))
           /\ VotesIn(Charged(w)) \in Nat /\ VotesIn(Range(w.batch)) \in Nat
           /\ w.jobs \in Seq(JobsOf(p)) /\ w.batch \in Seq(JobsOf(p))
           /\ \A j \in JobsOf(p) : j \in Jobs /\ j # NoJob
           /\ w.mu = NoJob \/ w.mu \in JobsOf(p)
           /\ w.hand = NoJob \/ w.hand \in JobsOf(p)
           /\ w.votes \in Int /\ w.queued \in Int
<1>1. /\ w.jobs \in Seq(JobsOf(p)) /\ w.batch \in Seq(JobsOf(p))
      /\ w.mu = NoJob \/ w.mu \in JobsOf(p)
      /\ w.hand = NoJob \/ w.hand \in JobsOf(p)
      /\ w.votes \in Int /\ w.queued \in Int
  BY DEF Writers
<1>2. JobsOf(p) \subseteq Jobs /\ \A j \in JobsOf(p) : j \in Jobs /\ j # NoJob
  BY ConstantFacts DEF JobsOf
<1>3. /\ Range(w.batch) \in SUBSET Jobs /\ IsFiniteSet(Range(w.batch))
      /\ Range(w.jobs) \in SUBSET Jobs /\ IsFiniteSet(Range(w.jobs))
  BY <1>1, <1>2, RangeFacts, RangeCount
<1>4. InHand(w) \in SUBSET Jobs /\ IsFiniteSet(InHand(w))
  <2>1. InHand(w) = {} \/ InHand(w) = {w.hand}
    BY DEF InHand
  <2>2. InHand(w) \in SUBSET Jobs
    BY <1>1, <1>2 DEF InHand
  <2> QED
    BY <2>1, <2>2, FS_EmptySet, FS_Singleton
<1>5. Charged(w) \in SUBSET Jobs /\ IsFiniteSet(Charged(w))
  BY <1>3, <1>4, FS_Union DEF Charged
<1> QED
  BY <1>1, <1>2, <1>3, <1>4, <1>5, VotesFinite

\* A step that moves no job and touches no counter keeps the books.
LEMMA BooksKept ==
    ASSUME NEW w, NEW v, BooksOK(w), v.batch = w.batch, v.jobs = w.jobs, v.hand = w.hand,
           v.mu = w.mu, v.votes = w.votes, v.queued = w.queued, v.pc # "done" => w.pc # "done"
    PROVE  BooksOK(v)
<1>1. LeftOver(v) = LeftOver(w) /\ Charged(v) = Charged(w)
  BY DEF LeftOver, Charged, InHand
<1> QED
  BY <1>1 DEF BooksOK, Apart, Charge

\* The batch is answered and given up.
LEMMA BatchLeaves ==
    ASSUME NEW w, NEW v, BooksOK(w), v.batch = <<>>, v.votes = 0, v.jobs = w.jobs,
           v.hand = w.hand, v.mu = w.mu, v.queued = w.queued, v.pc # "done" => w.pc # "done"
    PROVE  BooksOK(v)
<1>1. Range(v.batch) = {} /\ Len(v.batch) = 0
  BY DEF Range
<1>2. LeftOver(v) \subseteq LeftOver(w) /\ Charged(v) = Charged(w)
  BY <1>1 DEF LeftOver, Charged, InHand
<1>3. Apart(v)
  BY <1>1, <1>2 DEF BooksOK, Apart, Once
<1>4. VotesIn(Range(v.batch)) = 0 /\ 0 \in 0 .. BatchSize
  <2>1. VotesIn(Range(v.batch)) = 0
    BY <1>1, NoVotes, Zenon
  <2> QED
    BY <2>1, ConstantFacts
<1> QED
  BY <1>2, <1>3, <1>4 DEF BooksOK, Charge

\* All it holds is answered and given up, except a job still under the mutex.
LEMMA AllLeave ==
    ASSUME NEW w, NEW v, BooksOK(w), v.batch = <<>>, v.votes = 0, v.jobs = <<>>,
           v.hand = NoJob, v.mu = w.mu, v.queued = w.queued, v.pc = "done"
    PROVE  BooksOK(v)
<1>1. Range(v.batch) = {} /\ Len(v.batch) = 0 /\ Range(v.jobs) = {} /\ Len(v.jobs) = 0
  BY DEF Range
<1>2. LeftOver(v) = {}
  BY <1>1 DEF LeftOver
<1>3. Apart(v)
  BY <1>1, <1>2 DEF BooksOK, Apart, Once
<1>4. VotesIn(Range(v.batch)) = 0 /\ 0 \in 0 .. BatchSize
  <2>1. VotesIn(Range(v.batch)) = 0
    BY <1>1, NoVotes, Zenon
  <2> QED
    BY <2>1, ConstantFacts
<1> QED
  BY <1>3, <1>4 DEF BooksOK, Charge

\* A job goes from the channel into the writer's hand, still charged.
LEMMA HeadTaken ==
    ASSUME NEW p \in Partitions, NEW w \in Writers(p), NEW v, BooksOK(w),
           w.jobs # <<>>, w.hand = NoJob,
           v.batch = w.batch, v.votes = w.votes, v.jobs = Tail(w.jobs), v.hand = Head(w.jobs),
           v.mu = w.mu, v.queued = w.queued, v.pc # "done" => w.pc # "done"
    PROVE  BooksOK(v)
<1>1. /\ Head(w.jobs) \in JobsOf(p) /\ Head(w.jobs) # NoJob /\ Once(Tail(w.jobs))
      /\ Range(w.jobs) = Range(Tail(w.jobs)) \cup {Head(w.jobs)}
      /\ Head(w.jobs) \notin Range(Tail(w.jobs))
  BY PlaceFacts, OnceTail DEF BooksOK, Apart
<1>2. Charged(v) = Charged(w)
  BY <1>1 DEF Charged, InHand
<1>3. LeftOver(v) = LeftOver(w)
  BY <1>1 DEF LeftOver
<1>4. Apart(v)
  BY <1>1, <1>3 DEF BooksOK, Apart
<1> QED
  BY <1>2, <1>4 DEF BooksOK, Charge

\* The job in hand enters the batch, and its credits are given back.
LEMMA HandAdded ==
    ASSUME NEW p \in Partitions, NEW w \in Writers(p), NEW v, BooksOK(w), w.hand # NoJob,
           w.pc # "done", w.votes + Size(w.hand) <= BatchSize,
           v.batch = Append(w.batch, w.hand), v.votes = w.votes + Size(w.hand),
           v.jobs = w.jobs, v.hand = NoJob, v.mu = w.mu,
           v.queued = w.queued - Size(w.hand)
    PROVE  BooksOK(v)
<1> DEFINE j == w.hand
<1>1. /\ j \in JobsOf(p) /\ j \in Jobs /\ j # NoJob /\ Size(j) \in Nat \ {0}
      /\ j \notin Range(w.batch) /\ j \notin Range(w.jobs)
  BY PlaceFacts, ConstantFacts DEF BooksOK, Apart
<1>2. Once(v.batch) /\ Range(v.batch) = Range(w.batch) \cup {j}
  BY <1>1, PlaceFacts, OnceAppend, RangeFacts DEF BooksOK, Apart
<1>3. Charged(w) = Charged(v) \cup {j} /\ j \notin Charged(v)
  BY <1>1 DEF Charged, InHand
<1>4. LeftOver(v) = LeftOver(w)
  BY <1>1, <1>2 DEF LeftOver
<1>5. Apart(v)
  BY <1>1, <1>2, <1>4 DEF BooksOK, Apart
<1>6. VotesIn(Range(v.batch)) = VotesIn(Range(w.batch)) + Size(j)
  BY <1>1, <1>2, PlaceFacts, VotesAdd
<1>7. VotesIn(Charged(w)) = VotesIn(Charged(v)) + Size(j) /\ VotesIn(Charged(v)) \in Nat
  <2>1. Charged(v) \in SUBSET Jobs /\ Charged(v) \in SUBSET Charged(w)
    BY <1>3, PlaceFacts
  <2>2. IsFiniteSet(Charged(v))
    BY <2>1, PlaceFacts, FS_Subset
  <2> QED
    BY <1>1, <1>3, <2>1, <2>2, VotesAdd, VotesFinite
<1> HIDE DEF j
<1>8. /\ w.votes \in 0 .. BatchSize /\ VotesIn(Range(w.batch)) = w.votes
      /\ w.queued \in 0 .. QueuePerPartition /\ w.queued = VotesIn(Charged(w))
      /\ w.mu # NoJob => w.queued + Size(w.mu) <= QueuePerPartition
      /\ BatchSize \in Nat /\ QueuePerPartition \in Nat
      /\ w.mu # NoJob => Size(w.mu) \in Nat
  BY PlaceFacts, ConstantFacts, SizeAssumption DEF BooksOK, Charge, ValidConfig
<1>9. v.votes = w.votes + Size(j) /\ v.queued = w.queued - Size(j) /\ v.votes <= BatchSize
  BY DEF j
<1>10. v.votes \in 0 .. BatchSize /\ VotesIn(Range(v.batch)) = v.votes
  BY <1>1, <1>6, <1>8, <1>9
<1>11. v.queued \in 0 .. QueuePerPartition /\ v.queued = VotesIn(Charged(v)) /\ v.queued <= w.queued
  BY <1>1, <1>7, <1>8, <1>9
<1>12. v.mu # NoJob => v.queued + Size(v.mu) <= QueuePerPartition
  BY <1>8, <1>11
<1> QED
  BY <1>5, <1>10, <1>11, <1>12 DEF BooksOK, Charge

\* A job is admitted, for which there is room, and enters the channel.
LEMMA JobAdmitted ==
    ASSUME NEW p \in Partitions, NEW w \in Writers(p), NEW v, NEW j \in JobsOf(p),
           BooksOK(w), w.mu = NoJob, j \notin LeftOver(w), HasRoom(w, j),
           v.batch = w.batch, v.votes = w.votes, v.jobs = w.jobs, v.hand = w.hand, v.mu = j,
           v.queued = w.queued, v.pc = w.pc
    PROVE  BooksOK(v)
<1>1. LeftOver(v) = LeftOver(w) /\ Charged(v) = Charged(w)
  BY DEF LeftOver, Charged, InHand
<1> QED
  BY <1>1 DEF BooksOK, Apart, Charge, HasRoom
LEMMA JobQueued ==
    ASSUME NEW p \in Partitions, NEW w \in Writers(p), NEW v, BooksOK(w), w.mu # NoJob,
           v.batch = w.batch, v.votes = w.votes, v.jobs = Append(w.jobs, w.mu),
           v.hand = w.hand, v.mu = NoJob, v.queued = w.queued + Size(w.mu), v.pc = w.pc
    PROVE  BooksOK(v)
<1> DEFINE j == w.mu
<1>1. /\ j \in JobsOf(p) /\ j \in Jobs /\ Size(j) \in Nat \ {0} /\ j \notin LeftOver(w)
  BY PlaceFacts, ConstantFacts DEF BooksOK, Apart
<1>2. j \notin Range(w.batch) /\ j \notin Range(w.jobs) /\ (w.hand # NoJob => w.hand # j)
  BY <1>1 DEF LeftOver
<1>3. Once(v.jobs) /\ Range(v.jobs) = Range(w.jobs) \cup {j}
  BY <1>1, <1>2, PlaceFacts, OnceAppend, RangeFacts DEF BooksOK, Apart
<1>4. Apart(v)
  BY <1>2, <1>3 DEF BooksOK, Apart
<1>5. Charged(v) = Charged(w) \cup {j} /\ j \notin Charged(w)
  BY <1>2, <1>3 DEF Charged, InHand
<1>6. VotesIn(Charged(v)) = VotesIn(Charged(w)) + Size(j)
  BY <1>1, <1>5, PlaceFacts, VotesAdd
<1> HIDE DEF j
<1>7. v.queued = w.queued + Size(j) /\ w.queued \in Nat
      /\ w.queued + Size(j) <= QueuePerPartition /\ QueuePerPartition \in Nat
  BY SizeAssumption DEF BooksOK, Charge, ValidConfig, j
<1>8. v.queued \in 0 .. QueuePerPartition
  BY <1>1, <1>7
<1> QED
  BY <1>4, <1>6, <1>7, <1>8 DEF BooksOK, Charge

-----------------------------------------------------------------------------
(* The steps of a writer keep its books *)

\* The writer's new books are right, and whoever was answered has left it.
Booked(s, p, v) ==
    /\ SetW(s, p, v) /\ BooksOK(v) /\ HandOK(v)
    /\ \A j \in Jobs : reply'[j] = reply[j] \/ (j \in LeftOver(W(s, p)) /\ j \notin HeldBy(v))

\* The loop takes a job into its hand, or adds it to the batch.
LEMMA TakeBooks ==
    ASSUME TypeInv, WriterInv, BooksInv, NEW s \in Sessions, NEW p \in Partitions, Alive(s),
           Take(s, p) \/ TakeHand(s, p)
    PROVE  \E v : Booked(s, p, v)
<1> DEFINE w == W(s, p)
           j == Head(w.jobs)
           u == [w EXCEPT !.jobs = Tail(w.jobs)]
           h == [u EXCEPT !.hand = j]
           b == Begin(h, "vote")
<1>1. w \in Writers(p) /\ BooksOK(w) /\ HandOK(w)
  BY WriterFacts DEF BooksInv
<1>2. w.pc = "select" /\ UNCHANGED reply
  BY DEF Take, TakeHand
<1>3. ASSUME NEW x \in Writers(p), BooksOK(x), x.hand # NoJob, x.pc = "select",
             x.votes + Size(x.hand) <= BatchSize, NEW y \in Writers(p), y.jobs = x.jobs,
             y.batch = x.batch, y.votes = x.votes, y.mu = x.mu, y.queued = x.queued,
             SetW(s, p, Appended(y, x.hand))
      PROVE  \E v : Booked(s, p, v)
  <2> DEFINE v == Appended(y, x.hand)
  <2>1. x.hand \in JobsOf(p)
    BY <1>3, PlaceFacts
  <2>2. /\ v.batch = Append(x.batch, x.hand) /\ v.jobs = x.jobs /\ v.hand = NoJob
        /\ v.mu = x.mu
    BY <1>3, <2>1, AppendedFacts
  <2>3. v.votes = x.votes + Size(x.hand) /\ v.queued = x.queued - Size(x.hand)
    BY <1>3 DEF Appended, Credits, Begin, Writers
  <2> HIDE DEF v
  <2>4. BooksOK(v) /\ HandOK(v)
    BY <1>3, <2>2, <2>3, HandAdded DEF HandOK
  <2> QED
    BY <1>2, <1>3, <2>4 DEF Booked, v
<1>4. CASE TakeHand(s, p)
  <2>1. w.hand # NoJob /\ SetW(s, p, Appended(w, w.hand))
    BY <1>4 DEF TakeHand
  <2>2. w.hand \in Jobs /\ w.votes = 0
    BY <1>1, <1>2, <2>1, PlaceFacts DEF HandOK
  <2>3. w.votes + Size(w.hand) <= BatchSize
    BY <2>2, JobAssumption, ConstantFacts
  <2> HIDE DEF w
  <2> QED
    BY <1>1, <1>2, <1>3, <2>1, <2>3
<1>5. CASE Take(s, p)
  <2>1. /\ w.hand = NoJob /\ w.jobs # <<>>
        /\ \/ SetW(s, p, b)
           \/ ~ MustFlushFirst(w, j) /\ SetW(s, p, Appended(u, j))
    BY <1>5 DEF Take
  <2>2. j \in JobsOf(p) /\ j \in Jobs /\ j # NoJob /\ Tail(w.jobs) \in Seq(JobsOf(p))
    BY <1>1, <2>1, PlaceFacts, OnceTail DEF BooksOK, Apart
  <2> HIDE DEF w, j
  <2>3. /\ u \in Writers(p) /\ u.jobs = Tail(w.jobs) /\ u.batch = w.batch /\ u.mu = w.mu
        /\ u.votes = w.votes /\ u.queued = w.queued
    BY <1>1, <2>2 DEF Writers
  <2>4. /\ h \in Writers(p) /\ h.jobs = Tail(w.jobs) /\ h.batch = w.batch /\ h.mu = w.mu
        /\ h.votes = w.votes /\ h.queued = w.queued /\ h.hand = j /\ h.pc = w.pc
    BY <1>1, <2>2 DEF Writers
  <2>5. /\ b.jobs = Tail(w.jobs) /\ b.batch = w.batch /\ b.mu = w.mu
        /\ b.votes = w.votes /\ b.queued = w.queued /\ b.hand = j /\ b.pc = "produce"
    BY <1>1, <2>2 DEF Writers, Begin
  <2> HIDE DEF u, h, b
  <2>6. CASE SetW(s, p, b)
    <3>1. BooksOK(b) /\ HandOK(b)
      BY <1>1, <1>2, <2>1, <2>5, HeadTaken DEF HandOK, j
    <3> QED
      BY <1>2, <2>6, <3>1 DEF Booked
  <2>7. CASE ~ MustFlushFirst(w, j) /\ SetW(s, p, Appended(u, j))
    <3>1. BooksOK(h)
      BY <1>1, <1>2, <2>1, <2>4, HeadTaken DEF j
    <3>2. h.votes + Size(h.hand) <= BatchSize
      <4>1. ~ (w.votes + Size(j) > BatchSize)
        BY <2>7 DEF MustFlushFirst
      <4>2. w.votes \in Int /\ Size(j) \in Nat /\ BatchSize \in Nat
        BY <1>1, <2>2, PlaceFacts, ConstantFacts
      <4> QED
        BY <2>4, <4>1, <4>2
    <3> QED
      BY <1>2, <1>3, <2>2, <2>3, <2>4, <2>7, <3>1, <3>2
  <2> QED
    BY <2>1, <2>6, <2>7
<1> QED
  BY <1>4, <1>5

\* The steps that move no job.
LEMMA StillBooks ==
    ASSUME TypeInv, WriterInv, BooksInv, NEW s \in Sessions, NEW p \in Partitions, Alive(s),
           \/ Tick(s, p) \/ SeeSeal(s, p) \/ Finish(s, p) \/ SealGate(s, p)
           \/ ProducerIDFails(s, p) \/ EndTransaction(s, p) \/ Produce(s, p) \/ ProducerID(s, p)
    PROVE  \E v : Booked(s, p, v)
<1> DEFINE w == W(s, p)
<1>1. w \in Writers(p) /\ BooksOK(w) /\ HandOK(w)
  BY WriterFacts DEF BooksInv
<1>2. ASSUME NEW v, SetW(s, p, v), UNCHANGED reply, v.batch = w.batch, v.jobs = w.jobs,
             v.hand = w.hand, v.mu = w.mu, v.votes = w.votes, v.queued = w.queued,
             v.pc # "done" => w.pc # "done", v.pc = "select" => w.pc = "select"
      PROVE  \E x : Booked(s, p, x)
  <2>1. BooksOK(v) /\ HandOK(v)
    BY <1>1, <1>2, BooksKept DEF HandOK
  <2> QED
    BY <1>2, <2>1 DEF Booked
<1>3. CASE Tick(s, p) \/ Finish(s, p) \/ ProducerID(s, p)
  <2>1. UNCHANGED reply /\ w.pc # "done" /\ \E k : SetW(s, p, Begin(w, k))
    BY <1>3 DEF Tick, Finish, ProducerID
  <2>2. PICK k : SetW(s, p, Begin(w, k))
    BY <2>1
  <2> DEFINE v == Begin(w, k)
  <2>3. /\ v.batch = w.batch /\ v.jobs = w.jobs /\ v.hand = w.hand /\ v.mu = w.mu
        /\ v.votes = w.votes /\ v.queued = w.queued /\ v.pc = "produce"
    BY <1>1 DEF Begin, Writers
  <2> HIDE DEF v, w
  <2> QED
    BY <1>2, <2>1, <2>2, <2>3 DEF v
<1>4. CASE SeeSeal(s, p)
  <2> DEFINE v == [w EXCEPT !.seal = FALSE, !.drain = TRUE]
  <2>1. UNCHANGED reply /\ SetW(s, p, v)
    BY <1>4 DEF SeeSeal
  <2>2. /\ v.batch = w.batch /\ v.jobs = w.jobs /\ v.hand = w.hand /\ v.mu = w.mu
        /\ v.votes = w.votes /\ v.queued = w.queued /\ v.pc = w.pc
    BY <1>1 DEF Writers
  <2> HIDE DEF v, w
  <2> QED
    BY <1>2, <2>1, <2>2
<1>5. CASE SealGate(s, p)
  <2> DEFINE v == [w EXCEPT !.closing = TRUE, !.seal = TRUE]
  <2>1. UNCHANGED reply /\ SetW(s, p, v)
    BY <1>5 DEF SealGate, CloseGate
  <2>2. /\ v.batch = w.batch /\ v.jobs = w.jobs /\ v.hand = w.hand /\ v.mu = w.mu
        /\ v.votes = w.votes /\ v.queued = w.queued /\ v.pc = w.pc
    BY <1>1 DEF Writers
  <2> HIDE DEF v, w
  <2> QED
    BY <1>2, <2>1, <2>2
<1>6. CASE ProducerIDFails(s, p)
  <2> DEFINE v == [w EXCEPT !.pc = "unbooted"]
  <2>1. UNCHANGED reply /\ SetW(s, p, v) /\ w.pc = "init"
    BY <1>6 DEF ProducerIDFails
  <2>2. /\ v.batch = w.batch /\ v.jobs = w.jobs /\ v.hand = w.hand /\ v.mu = w.mu
        /\ v.votes = w.votes /\ v.queued = w.queued /\ v.pc = "unbooted"
    BY <1>1 DEF Writers
  <2> HIDE DEF v, w
  <2> QED
    BY <1>2, <2>1, <2>2
<1>7. CASE EndTransaction(s, p)
  <2> DEFINE v == [w EXCEPT !.pc = "ack"]
  <2>1. UNCHANGED reply /\ SetW(s, p, v) /\ w.pc = "end"
    BY <1>7 DEF EndTransaction
  <2>2. /\ v.batch = w.batch /\ v.jobs = w.jobs /\ v.hand = w.hand /\ v.mu = w.mu
        /\ v.votes = w.votes /\ v.queued = w.queued /\ v.pc = "ack"
    BY <1>1 DEF Writers
  <2> HIDE DEF v, w
  <2> QED
    BY <1>2, <2>1, <2>2
<1>8. CASE Produce(s, p)
  <2> DEFINE v == [w EXCEPT !.pc = "end", !.first = Len(log[p]) + 1]
  <2>1. UNCHANGED reply /\ SetW(s, p, v) /\ w.pc = "produce"
    BY <1>8 DEF Produce
  <2>2. /\ v.batch = w.batch /\ v.jobs = w.jobs /\ v.hand = w.hand /\ v.mu = w.mu
        /\ v.votes = w.votes /\ v.queued = w.queued /\ v.pc = "end"
    BY <1>1 DEF Writers
  <2> HIDE DEF v, w
  <2> QED
    BY <1>2, <2>1, <2>2
<1> QED
  BY <1>3, <1>4, <1>5, <1>6, <1>7, <1>8

\* A commit that is confirmed answers the batch, and CLOSED ends a writer that holds
\* nothing any more.
LEMMA ConfirmBooks ==
    ASSUME TypeInv, WriterInv, BooksInv, NEW s \in Sessions, NEW p \in Partitions, Alive(s),
           Confirm(s, p)
    PROVE  \E v : Booked(s, p, v)
<1> DEFINE w == W(s, p)
<1>1. w \in Writers(p) /\ BooksOK(w) /\ HandOK(w) /\ PhaseOK(w, session[s])
  BY WriterFacts DEF BooksInv
<1>2. w.pc = "acked"
  BY DEF Confirm, Confirmed
<1>3. CASE w.kind = "vote"
  <2> DEFINE v == [w EXCEPT !.pc = "select", !.votes = 0, !.batch = <<>>]
  <2>1. SetW(s, p, v) /\ \A j \in Jobs : reply'[j] = reply[j] \/ j \in Range(w.batch)
    BY <1>3 DEF Confirm, AfterCommit, AnswerAll
  <2>2. /\ v.batch = <<>> /\ v.jobs = w.jobs /\ v.hand = w.hand /\ v.mu = w.mu
        /\ v.votes = 0 /\ v.queued = w.queued /\ v.pc = "select"
    BY <1>1 DEF Writers
  <2> HIDE DEF v, w
  <2>3. BooksOK(v) /\ HandOK(v)
    BY <1>1, <1>2, <2>2, BatchLeaves DEF HandOK
  <2>4. \A j \in Range(w.batch) : j \in LeftOver(w) /\ j \notin HeldBy(v)
    <3>1. Range(v.batch) = {}
      BY <2>2 DEF Range
    <3> QED
      BY <1>1, <2>2, <3>1 DEF BooksOK, Apart, HeldBy, LeftOver
  <2> QED
    BY <2>1, <2>3, <2>4 DEF Booked, w
<1>4. CASE w.kind = "boot"
  <2> DEFINE v == [w EXCEPT !.pc = "booted"]
  <2>1. SetW(s, p, v) /\ UNCHANGED reply
    BY <1>4 DEF Confirm
  <2>2. /\ v.batch = w.batch /\ v.jobs = w.jobs /\ v.hand = w.hand /\ v.mu = w.mu
        /\ v.votes = w.votes /\ v.queued = w.queued /\ v.pc = "booted"
    BY <1>1 DEF Writers
  <2> HIDE DEF v, w
  <2>3. BooksOK(v) /\ HandOK(v)
    BY <1>1, <1>2, <2>2, BooksKept DEF HandOK
  <2> QED
    BY <2>1, <2>3 DEF Booked
<1>5. CASE w.kind = "closed"
  <2> DEFINE v == [w EXCEPT !.pc = "done", !.sealed = TRUE, !.end = w.first, !.jobs = <<>>]
  <2>1. SetW(s, p, v) /\ \A j \in Jobs : reply'[j] = reply[j] \/ j \in LeftOver(w)
    BY <1>5 DEF Confirm, AnswerUnknown, AnswerAll
  <2>2. LeftOver(w) = {}
    BY <1>1, <1>2, <1>5, WriterFacts DEF PhaseOK
  <2>3. w.jobs = <<>>
    <3>1. Range(w.jobs) = {}
      BY <2>2 DEF LeftOver
    <3> QED
      BY <1>1, <3>1, PlaceFacts, RangeFacts
  <2>4. /\ v.batch = w.batch /\ v.jobs = w.jobs /\ v.hand = w.hand /\ v.mu = w.mu
        /\ v.votes = w.votes /\ v.queued = w.queued /\ v.pc = "done"
    BY <1>1, <2>3 DEF Writers
  <2> HIDE DEF v, w
  <2>5. BooksOK(v) /\ HandOK(v)
    BY <1>1, <1>2, <2>4, BooksKept DEF HandOK
  <2> QED
    BY <2>1, <2>2, <2>5 DEF Booked, w
<1> QED
  BY <1>1, <1>3, <1>4, <1>5 DEF Writers

\* A transaction fails, or the writer ends: what it gives up is answered.
LEMMA FailBooks ==
    ASSUME TypeInv, WriterInv, BooksInv, NEW s \in Sessions, NEW p \in Partitions, Alive(s),
           CommitFails(s, p) \/ Fail(s, p) \/ SeeStop(s, p)
    PROVE  \E v : Booked(s, p, v)
<1> DEFINE w == W(s, p)
<1>1. w \in Writers(p) /\ BooksOK(w) /\ HandOK(w)
  BY WriterFacts DEF BooksInv
<1>2. CASE CommitFails(s, p)
  <2> DEFINE pc == IF w.kind = "boot" THEN "unbooted" ELSE "failing"
             v  == [w EXCEPT !.votes = 0, !.batch = <<>>, !.pc = pc]
  <2>1. /\ SetW(s, p, v) /\ \A j \in Jobs : reply'[j] = reply[j] \/ j \in Range(w.batch)
        /\ InTransaction(w)
    BY <1>2 DEF CommitFails, AnswerUnknown, AnswerAll
  <2>2. /\ v.batch = <<>> /\ v.jobs = w.jobs /\ v.hand = w.hand /\ v.mu = w.mu
        /\ v.votes = 0 /\ v.queued = w.queued /\ v.pc = pc
    BY <1>1 DEF Writers
  <2>3. w.pc # "done" /\ pc # "select"
    BY <2>1 DEF InTransaction
  <2> HIDE DEF v, w, pc
  <2>4. BooksOK(v) /\ HandOK(v)
    BY <1>1, <2>2, <2>3, BatchLeaves DEF HandOK
  <2>5. \A j \in Range(w.batch) : j \in LeftOver(w) /\ j \notin HeldBy(v)
    <3>1. Range(v.batch) = {}
      BY <2>2 DEF Range
    <3> QED
      BY <1>1, <2>2, <3>1 DEF BooksOK, Apart, HeldBy, LeftOver
  <2> QED
    BY <2>1, <2>4, <2>5 DEF Booked, w
<1>3. CASE Fail(s, p) \/ SeeStop(s, p)
  <2>1. PICK f : Exit(s, p, f)
    BY <1>3 DEF Fail, SeeStop
  <2> DEFINE v == [w EXCEPT !.pc = "done", !.failed = f, !.votes = 0, !.batch = <<>>,
                            !.hand = NoJob, !.jobs = <<>>]
  <2>2. SetW(s, p, v) /\ \A j \in Jobs : reply'[j] = reply[j] \/ j \in LeftOver(w)
    BY <2>1 DEF Exit, AnswerUnknown, AnswerAll
  <2>3. /\ v.batch = <<>> /\ v.jobs = <<>> /\ v.hand = NoJob /\ v.mu = w.mu
        /\ v.votes = 0 /\ v.queued = w.queued /\ v.pc = "done"
    BY <1>1 DEF Writers
  <2> HIDE DEF v, w
  <2>4. BooksOK(v) /\ HandOK(v)
    BY <1>1, <2>3, AllLeave DEF HandOK
  <2>5. \A j \in LeftOver(w) : j \notin HeldBy(v)
    <3>1. Range(v.batch) = {} /\ Range(v.jobs) = {}
      BY <2>3 DEF Range
    <3> QED
      BY <1>1, <2>3, <3>1 DEF BooksOK, Apart, HeldBy, LeftOver
  <2> QED
    BY <2>2, <2>4, <2>5 DEF Booked, w
<1> QED
  BY <1>2, <1>3

LEMMA LoopBooks ==
    ASSUME TypeInv, WriterInv, BooksInv, NEW s \in Sessions, NEW p \in Partitions, Alive(s),
           Loop(s, p) \/ EndTransaction(s, p) \/ Produce(s, p) \/ ProducerID(s, p)
    PROVE  \E v : Booked(s, p, v)
  BY TakeBooks, StillBooks, ConfirmBooks, FailBooks DEF Loop

-----------------------------------------------------------------------------
(* Every step keeps the books *)

BooksHold == \A s \in Sessions, p \in Partitions : BooksOK(W(s, p)) /\ HandOK(W(s, p))

\* One writer changes, or none.
LEMMA OneBook ==
    ASSUME TypeInv, BooksInv, NEW s, NEW p, NEW v, SetW(s, p, v), BooksOK(v), HandOK(v)
    PROVE  BooksHold'
<1>1. ASSUME NEW t \in Sessions, NEW q \in Partitions
      PROVE  BooksOK(W(t, q)') /\ HandOK(W(t, q)')
  <2>1. W(t, q)' = IF t = s /\ q = p THEN v ELSE W(t, q)
    BY WriterSet DEF W
  <2>2. BooksOK(W(t, q)) /\ HandOK(W(t, q))
    BY DEF BooksInv
  <2> QED
    BY <2>1, <2>2
<1>2. \A t \in Sessions, q \in Partitions : BooksOK(W(t, q))' /\ HandOK(W(t, q))'
  BY <1>1 DEF BooksOK, HandOK, Apart, Charge, Charged, LeftOver, InHand, VotesIn, VotesOf
<1> QED
  BY <1>2 DEF BooksHold
LEMMA SameBooks ==
    ASSUME BooksInv, \A t \in Sessions, q \in Partitions : wr'[t][q] = wr[t][q]
    PROVE  BooksHold'
<1>1. ASSUME NEW t \in Sessions, NEW q \in Partitions
      PROVE  BooksOK(W(t, q)') /\ HandOK(W(t, q)')
  <2>1. W(t, q)' = W(t, q)
    BY DEF W
  <2>2. BooksOK(W(t, q)) /\ HandOK(W(t, q))
    BY DEF BooksInv
  <2> QED
    BY <2>1, <2>2
<1>2. \A t \in Sessions, q \in Partitions : BooksOK(W(t, q))' /\ HandOK(W(t, q))'
  BY <1>1 DEF BooksOK, HandOK, Apart, Charge, Charged, LeftOver, InHand, VotesIn, VotesOf
<1> QED
  BY <1>2 DEF BooksHold

\* A writer that holds nothing has nothing to account for.
LEMMA EmptyBooks ==
    ASSUME NEW w, w.batch = <<>>, w.jobs = <<>>, w.hand = NoJob, w.mu = NoJob, w.votes = 0,
           w.queued = 0
    PROVE  BooksOK(w) /\ HandOK(w)
<1>1. Range(w.batch) = {} /\ Len(w.batch) = 0 /\ Range(w.jobs) = {} /\ Len(w.jobs) = 0
  BY DEF Range
<1>2. Apart(w)
  BY <1>1 DEF Apart, Once
<1>3. Charged(w) = {}
  BY <1>1 DEF Charged, InHand
<1>4. VotesIn(Range(w.batch)) = 0 /\ VotesIn(Charged(w)) = 0
  BY <1>1, <1>3, NoVotes, Zenon
<1>5. 0 \in 0 .. BatchSize /\ 0 \in 0 .. QueuePerPartition
  BY SizeAssumption DEF ValidConfig
<1> QED
  BY <1>2, <1>4, <1>5 DEF BooksOK, Charge, HandOK

\* The steps of a call, of the brokers and of a whole session.
LEMMA CallBooks ==
    ASSUME TypeInv, WriterInv, NowhereInv, BooksInv, NEW j \in Jobs,
           Enqueue(j) \/ \E s \in Sessions : Admit(j, s)
    PROVE  BooksHold'
<1>1. Target(j) \in Partitions /\ j \in JobsOf(Target(j)) /\ j # NoJob
  BY PartitionAssumption, ConstantFacts DEF JobsOf
<1>2. ASSUME NEW s \in Sessions, Admit(j, s) PROVE BooksHold'
  <2> DEFINE w == W(s, Target(j))
             v == [w EXCEPT !.mu = j]
  <2>1. w \in Writers(Target(j)) /\ BooksOK(w) /\ HandOK(w)
    BY <1>1 DEF WriterInv, WriterOK, BooksInv
  <2>2. UNCHANGED wr \/ (SetW(s, Target(j), v) /\ HasRoom(w, j))
    BY <1>2 DEF Admit
  <2>3. w.mu = NoJob /\ j \notin LeftOver(w)
    <3>1. result[j] = Unanswered /\ w.mu = NoJob
      BY <1>2 DEF Admit, Unlocked
    <3>2. Nowhere(j)
      BY <3>1 DEF NowhereInv, Unanswered, Err
    <3> QED
      BY <1>1, <3>1, <3>2 DEF Nowhere, HeldBy
  <2> HIDE DEF w
  <2>4. /\ v.batch = w.batch /\ v.jobs = w.jobs /\ v.hand = w.hand /\ v.mu = j
        /\ v.votes = w.votes /\ v.queued = w.queued /\ v.pc = w.pc
    BY <2>1 DEF Writers
  <2> HIDE DEF v
  <2>5. CASE UNCHANGED wr
    BY <2>5, SameBooks
  <2>6. CASE SetW(s, Target(j), v) /\ HasRoom(w, j)
    <3>1. BooksOK(v)
      BY <1>1, <2>1, <2>3, <2>4, <2>6, JobAdmitted
    <3>2. HandOK(v)
      BY <2>1, <2>4 DEF HandOK
    <3> QED
      BY <2>6, <3>1, <3>2, OneBook
  <2> QED
    BY <2>2, <2>5, <2>6
<1>3. ASSUME Enqueue(j) PROVE BooksHold'
  <2> DEFINE s == home[j]
             w == W(s, Target(j))
             v == [w EXCEPT !.mu = NoJob, !.queued = w.queued + Size(j),
                            !.jobs = Append(w.jobs, j)]
  <2>1. w.mu = j /\ SetW(s, Target(j), v)
    BY <1>3 DEF Enqueue
  <2>2. CASE s \notin Sessions
    <3>1. \A t \in Sessions, q \in Partitions : wr'[t][q] = wr[t][q]
      BY <2>1, <2>2, WriterSet
    <3> QED
      BY <3>1, SameBooks
  <2>3. CASE s \in Sessions
    <3>1. w \in Writers(Target(j)) /\ BooksOK(w) /\ HandOK(w)
      BY <1>1, <2>3 DEF WriterInv, WriterOK, BooksInv
    <3> HIDE DEF w
    <3>2. /\ v.batch = w.batch /\ v.jobs = Append(w.jobs, j) /\ v.hand = w.hand /\ v.mu = NoJob
          /\ v.votes = w.votes /\ v.queued = w.queued + Size(j) /\ v.pc = w.pc
      BY <3>1 DEF Writers
    <3> HIDE DEF v
    <3>3. BooksOK(v)
      BY <1>1, <2>1, <3>1, <3>2, JobQueued
    <3>4. HandOK(v)
      BY <3>1, <3>2 DEF HandOK
    <3> QED
      BY <2>1, <3>3, <3>4, OneBook
  <2> QED
    BY <2>2, <2>3
<1> QED
  BY <1>2, <1>3
LEMMA CommitBooks ==
    ASSUME TypeInv, WriterInv, BooksInv, NEW p \in Partitions, BrokerCommits(p)
    PROVE  BooksHold'
<1> DEFINE s == epoch[p]
           w == W(s, p)
           v == [w EXCEPT !.pc = "acked"]
<1>1. wr' = IF w.pc = "ack" THEN [wr EXCEPT ![s][p].pc = "acked"] ELSE wr
  BY DEF BrokerCommits
<1>2. CASE w.pc # "ack"
  BY <1>1, <1>2, SameBooks
<1>3. CASE w.pc = "ack"
  <2>1. SetW(s, p, v)
    BY <1>1, <1>3 DEF SetW, W
  <2>2. CASE s \notin Sessions
    <3>1. \A t \in Sessions, q \in Partitions : wr'[t][q] = wr[t][q]
      BY <2>1, <2>2, WriterSet
    <3> QED
      BY <3>1, SameBooks
  <2>3. CASE s \in Sessions
    <3>1. w \in Writers(p) /\ BooksOK(w) /\ HandOK(w)
      BY <2>3 DEF WriterInv, WriterOK, BooksInv
    <3> HIDE DEF w
    <3>2. /\ v.batch = w.batch /\ v.jobs = w.jobs /\ v.hand = w.hand /\ v.mu = w.mu
          /\ v.votes = w.votes /\ v.queued = w.queued /\ v.pc = "acked"
      BY <3>1 DEF Writers
    <3> HIDE DEF v
    <3>3. BooksOK(v) /\ HandOK(v)
      BY <1>3, <3>1, <3>2, BooksKept DEF HandOK
    <3> QED
      BY <2>1, <3>3, OneBook
  <2> QED
    BY <2>2, <2>3
<1> QED
  BY <1>2, <1>3
LEMMA SessionBooks ==
    ASSUME TypeInv, WriterInv, BooksInv, NEW s \in Sessions,
           New(s) \/ Barriers(s) \/ NewFails(s) \/ Close(s) \/ Crash(s)
    PROVE  BooksHold'
<1>1. ASSUME NEW v, wr' = [wr EXCEPT ![s] = [q \in Partitions |-> v]], BooksOK(v), HandOK(v)
      PROVE  BooksHold'
  <2>1. \A t \in Sessions, q \in Partitions : wr'[t][q] = v \/ wr'[t][q] = wr[t][q]
    BY <1>1 DEF TypeInv
  <2>2. \A t \in Sessions, q \in Partitions : BooksOK(wr'[t][q]) /\ HandOK(wr'[t][q])
    BY <1>1, <2>1 DEF BooksInv, W
  <2> QED
    BY <2>2 DEF BooksHold, W, BooksOK, HandOK, Apart, Charge, Charged, LeftOver, InHand, VotesIn, VotesOf
<1>2. CASE New(s)
  <2> DEFINE v == [NewWriter EXCEPT !.pc = "init"]
  <2>1. UNCHANGED wr \/ wr' = [wr EXCEPT ![s] = [q \in Partitions |-> v]]
    BY <1>2 DEF New
  <2>2. BooksOK(v) /\ HandOK(v)
    BY EmptyBooks DEF NewWriter
  <2> HIDE DEF v
  <2> QED
    BY <1>1, <2>1, <2>2, SameBooks
<1>3. CASE Crash(s)
  <2>1. wr' = [wr EXCEPT ![s] = [q \in Partitions |-> NewWriter]]
    BY <1>3 DEF Crash
  <2>2. BooksOK(NewWriter) /\ HandOK(NewWriter)
    BY EmptyBooks DEF NewWriter
  <2> HIDE DEF NewWriter
  <2> QED
    BY <1>1, <2>1, <2>2
<1>4. CASE NewFails(s) \/ Close(s)
  BY <1>4, OneWriter, SameBooks
<1>5. CASE Barriers(s)
  <2> DEFINE c(q) == ClosedBefore(q, W(s, q).first)
             v(q) == [W(s, q) EXCEPT !.pc = "select", !.closing = c(q) > 0,
                                     !.sealed = c(q) > 0, !.end = c(q)]
  <2>1. UNCHANGED wr \/ wr' = [wr EXCEPT ![s] = [q \in Partitions |-> v(q)]]
    BY <1>5 DEF Barriers
  <2>2. session[s] = "boot" /\ \A q \in Partitions : W(s, q).pc = "booted"
    BY <1>5 DEF Barriers
  <2>3. ASSUME NEW q \in Partitions PROVE BooksOK(v(q)) /\ HandOK(v(q))
    <3> DEFINE w == W(s, q)
               u == v(q)
    <3>1. w \in Writers(q) /\ BooksOK(w) /\ w.hand = NoJob /\ w.pc = "booted"
      BY <2>2 DEF WriterInv, WriterOK, PhaseOK, Fresh, BooksInv
    <3>2. u = [w EXCEPT !.pc = "select", !.closing = c(q) > 0, !.sealed = c(q) > 0, !.end = c(q)]
      OBVIOUS
    <3> HIDE DEF w, u, c
    <3>3. /\ u.batch = w.batch /\ u.jobs = w.jobs /\ u.hand = w.hand /\ u.mu = w.mu
          /\ u.votes = w.votes /\ u.queued = w.queued
      BY <3>1, <3>2 DEF Writers
    <3>4. BooksOK(u) /\ HandOK(u)
      BY <3>1, <3>3, BooksKept DEF HandOK
    <3> QED
      BY <3>4 DEF u
  <2> HIDE DEF v
  <2>4. \A t \in Sessions, q \in Partitions : wr'[t][q] = wr[t][q] \/ wr'[t][q] = v(q)
    BY <2>1 DEF TypeInv
  <2>5. \A t \in Sessions, q \in Partitions : BooksOK(wr'[t][q]) /\ HandOK(wr'[t][q])
    BY <2>3, <2>4 DEF BooksInv, W
  <2> QED
    BY <2>5 DEF BooksHold, W, BooksOK, HandOK, Apart, Charge, Charged, LeftOver, InHand, VotesIn, VotesOf
<1> QED
  BY <1>2, <1>3, <1>4, <1>5
LEMMA BooksStep ==
    ASSUME TypeInv, WriterInv, NowhereInv, BooksInv, Next
    PROVE  BooksHold'
<1>1. ASSUME NEW s \in Sessions, NEW p \in Partitions, Alive(s),
             Loop(s, p) \/ EndTransaction(s, p) \/ Produce(s, p) \/ ProducerID(s, p)
      PROVE  BooksHold'
  BY <1>1, LoopBooks, OneBook DEF Booked
<1>2. ASSUME UNCHANGED wr PROVE BooksHold'
  BY <1>2, SameBooks
<1>3. ASSUME NEW p \in Partitions, BrokerCommits(p) \/ BrokerAborts(p) PROVE BooksHold'
  BY <1>2, <1>3, CommitBooks, OneWriter
<1>4. ASSUME NEW j \in Jobs, Enqueue(j) \/ Receive(j) \/ GiveUp(j) PROVE BooksHold'
  BY <1>2, <1>4, CallBooks, OneWriter
<1>5. ASSUME NEW j \in Jobs, NEW s \in Sessions, Admit(j, s) PROVE BooksHold'
  BY <1>5, CallBooks
<1>6. ASSUME Aside PROVE BooksHold'
  BY <1>2, <1>6, StepFrames
<1> QED
  BY <1>1, <1>3, <1>4, <1>5, <1>6, SessionBooks, StepCases

\* Whoever is answered has left its writer, and no other one holds the same job.
LEMMA RepliesStep ==
    ASSUME TypeInv, WriterInv, HomeInv, NowhereInv, BooksInv, Next,
           NEW t \in Sessions, NEW q \in Partitions, NEW j \in HeldBy(wr'[t][q])
    PROVE  reply'[j] = Unanswered
<1>1. HeldBy(wr[t][q]) \subseteq JobsOf(q) /\ \A i \in HeldBy(wr[t][q]) : home[i] = t /\ reply[i] = Unanswered
  BY HeldFacts DEF WriterInv, WriterOK, HomeInv, BooksInv, W
<1>2. ASSUME NEW i \in Jobs, NEW s \in Sessions, Admit(i, s)
      PROVE  reply[i] = Unanswered
  <2>1. result[i].kind = "none"
    BY <1>2 DEF Admit, Unanswered, Err
  <2>2. reply[i].kind = "none"
    BY <2>1 DEF NowhereInv
  <2> QED
    BY <2>2 DEF NowhereInv
<1>3. j \in Jobs /\ reply[j] = Unanswered
  <2>1. CASE HeldBy(wr'[t][q]) \subseteq HeldBy(wr[t][q])
    BY <1>1, <2>1 DEF JobsOf
  <2>2. ASSUME NEW i \in Jobs, Admit(i, t), HeldBy(wr'[t][q]) \subseteq HeldBy(wr[t][q]) \cup {i}
        PROVE  j \in Jobs /\ reply[j] = Unanswered
    BY <1>1, <1>2, <2>2 DEF JobsOf
  <2> QED
    BY <2>1, <2>2, WritersEvolve
<1>4. ASSUME NEW s \in Sessions, NEW p \in Partitions, Alive(s),
             Loop(s, p) \/ EndTransaction(s, p) \/ Produce(s, p) \/ ProducerID(s, p)
      PROVE  reply'[j] = Unanswered
  <2>1. PICK v : Booked(s, p, v)
    BY <1>4, LoopBooks
  <2>2. wr'[t][q] = IF t = s /\ q = p THEN v ELSE wr[t][q]
    BY <2>1, WriterSet DEF Booked
  <2>3. CASE reply'[j] = reply[j]
    BY <1>3, <2>3
  <2>4. CASE j \in LeftOver(W(s, p)) /\ j \notin HeldBy(v)
    <3>1. j \in HeldBy(wr[t][q]) /\ ~ (t = s /\ q = p)
      BY <2>2, <2>4
    <3>2. j \in HeldBy(W(s, p))
      BY <2>4 DEF HeldBy
    <3>3. home[j] = s /\ j \in JobsOf(p)
      BY <3>2, HeldFacts DEF HomeInv, WriterInv, WriterOK
    <3>4. home[j] = t /\ j \in JobsOf(q)
      BY <1>1, <3>1
    <3> QED
      BY <3>1, <3>3, <3>4 DEF JobsOf
  <2> QED
    BY <1>3, <2>1, <2>3, <2>4 DEF Booked
<1>5. ASSUME NEW s \in Sessions, New(s) \/ Barriers(s) \/ NewFails(s) \/ Close(s) \/ Crash(s)
      PROVE  reply'[j] = reply[j] \/ reply'[j] = Unanswered
  BY <1>3, <1>5 DEF New, Barriers, NewFails, Close, Crash
<1> QED
  BY <1>3, <1>4, <1>5, StepCases, StepFrames

\* The clock, and the sessions that wait for the deadline.
LEMMA ClockStep ==
    ASSUME now \in Clock, sealing \subseteq Sessions, Next
    PROVE  now' \in Clock /\ sealing' \subseteq Sessions
<1>1. ASSUME NEW s \in Sessions, NEW p \in Partitions, Loop(s, p)
      PROVE  UNCHANGED <<now, sealing>>
  <2>1. CASE Take(s, p) \/ TakeHand(s, p) \/ Tick(s, p) \/ SeeSeal(s, p) \/ Finish(s, p)
    BY <2>1 DEF Take, TakeHand, Tick, SeeSeal, Finish
  <2>2. CASE Confirm(s, p) \/ CommitFails(s, p) \/ ProducerIDFails(s, p) \/ SealGate(s, p)
    BY <2>2 DEF Confirm, CommitFails, ProducerIDFails, SealGate
  <2>3. CASE Fail(s, p) \/ SeeStop(s, p)
    BY <2>3 DEF Fail, SeeStop, Exit
  <2> QED
    BY <1>1, <2>1, <2>2, <2>3 DEF Loop
<1>2. ASSUME NEW s \in Sessions, NEW p \in Partitions,
             EndTransaction(s, p) \/ Produce(s, p) \/ ProducerID(s, p)
      PROVE  UNCHANGED <<now, sealing>>
  BY <1>2 DEF EndTransaction, Produce, ProducerID
<1>3. ASSUME NEW p \in Partitions, BrokerCommits(p) \/ BrokerAborts(p)
      PROVE  UNCHANGED <<now, sealing>>
  BY <1>3 DEF BrokerCommits, BrokerAborts
<1>4. ASSUME NEW j \in Jobs,
             Enqueue(j) \/ Receive(j) \/ GiveUp(j) \/ \E s \in Sessions : Admit(j, s)
      PROVE  UNCHANGED <<now, sealing>>
  BY <1>4 DEF Enqueue, Receive, GiveUp, Admit
<1>5. ASSUME NEW s \in Sessions, New(s) \/ Barriers(s) \/ NewFails(s) \/ Close(s) \/ Crash(s)
      PROVE  now' = now /\ sealing' \subseteq sealing
  BY <1>5 DEF New, Barriers, NewFails, Close, Crash
<1>6. ASSUME NEW s \in Sessions, SealWaits(s) \/ SealReturns(s) \/ SealGivesUp(s)
      PROVE  now' = now /\ sealing' \subseteq sealing \cup {s}
  BY <1>6 DEF SealWaits, SealReturns, SealGivesUp
<1>7. ASSUME NEW t \in Clock, ClockMoves(t) PROVE now' \in Clock /\ sealing' = sealing
  BY <1>7 DEF ClockMoves
<1> QED
  BY <1>1, <1>2, <1>3, <1>4, <1>5, <1>6, <1>7, StepCases DEF Aside

-----------------------------------------------------------------------------
(* The books are right always *)

LEMMA BooksInit == Init => BooksInv
<1> SUFFICES ASSUME Init PROVE BooksInv
  OBVIOUS
<1>1. \A s \in Sessions, p \in Partitions : W(s, p) = NewWriter
  BY DEF Init, W
<1>2. BooksOK(NewWriter) /\ HandOK(NewWriter)
  BY EmptyBooks DEF NewWriter
<1>3. HeldBy(NewWriter) = {}
  BY DEF NewWriter, HeldBy, LeftOver, Range
<1>4. now \in Clock /\ sealing \subseteq Sessions
  BY DEF Init, Clock, Open
<1> HIDE DEF NewWriter
<1> QED
  BY <1>1, <1>2, <1>3, <1>4 DEF BooksInv
LEMMA BooksStutter == BooksInv /\ UNCHANGED <<vars, ConfigOf>> => BooksInv'
<1> SUFFICES ASSUME BooksInv, UNCHANGED <<vars, ConfigOf>> PROVE BooksInv'
  OBVIOUS
<1>1. BooksHold'
  BY SameBooks DEF vars
<1>2. \A s \in Sessions, p \in Partitions : W(s, p)' = W(s, p)
  BY DEF vars, W
<1>3. \A s \in Sessions, p \in Partitions : \A j \in HeldBy(W(s, p)') : reply'[j] = Unanswered
  BY <1>2 DEF BooksInv, vars
<1>4. \A s \in Sessions, p \in Partitions : \A j \in HeldBy(W(s, p))' : reply'[j] = Unanswered'
  BY <1>3 DEF HeldBy, LeftOver, Unanswered, Err
<1> QED
  BY <1>1, <1>4 DEF BooksInv, BooksHold, vars
LEMMA BooksAlways == Spec => []BooksInv
<1>1. OwnersInv /\ BooksInv /\ [Next /\ UNCHANGED ConfigOf]_<<vars, ConfigOf>> => BooksInv'
  <2>1. ASSUME OwnersInv, BooksInv, Next PROVE BooksInv'
    <3>1. TypeInv /\ WriterInv /\ HomeInv /\ NowhereInv
      BY <2>1 DEF OwnersInv
    <3>2. BooksHold'
      BY <2>1, <3>1, BooksStep
    <3>3. ASSUME NEW t \in Sessions, NEW q \in Partitions
          PROVE  \A j \in HeldBy(wr'[t][q]) : reply'[j] = Unanswered
      BY <2>1, <3>1, RepliesStep
    <3>4. \A t \in Sessions, q \in Partitions : \A j \in HeldBy(W(t, q))' : reply'[j] = Unanswered'
      BY <3>3 DEF W, HeldBy, LeftOver, Unanswered, Err
    <3>5. now' \in Clock /\ sealing' \subseteq Sessions
      BY <2>1, ClockStep DEF BooksInv
    <3> QED
      BY <3>2, <3>4, <3>5 DEF BooksInv, BooksHold
  <2> QED
    BY <2>1, BooksStutter
<1> QED
  BY <1>1, BooksInit, OwnersAlways, PTL DEF Spec

LEMMA BooksFollow == OwnersInv /\ BooksInv => JobsAccounted
<1> SUFFICES ASSUME OwnersInv, BooksInv PROVE JobsAccounted
  OBVIOUS
<1>1. TypeInv /\ WriterInv
  BY DEF OwnersInv
<1>2. ASSUME NEW s \in Sessions, NEW p \in Partitions
      PROVE  /\ W(s, p) \in Writers(p) /\ BooksOK(W(s, p))
             /\ \A j \in HeldBy(W(s, p)) : reply[j] = Unanswered
  BY <1>1 DEF WriterInv, WriterOK, BooksInv
<1>3. TypeOK
  <2>1. \A s \in Sessions, p \in Partitions : {W(s, p).queued, W(s, p).first} \subseteq Nat
    <3> SUFFICES ASSUME NEW s \in Sessions, NEW p \in Partitions
                 PROVE  W(s, p).queued \in Nat /\ W(s, p).first \in Nat
      OBVIOUS
    <3>1. W(s, p).first \in Nat
      BY <1>2 DEF Writers
    <3>2. W(s, p).queued \in 0 .. QueuePerPartition
      BY <1>2 DEF BooksOK, Charge
    <3> QED
      BY <3>1, <3>2
  <2>2. \A p \in Partitions : \A i \in DOMAIN log[p] : log[p][i].st \in {"open", "committed", "aborted"}
    <3> SUFFICES ASSUME NEW p \in Partitions
                 PROVE  \A i \in DOMAIN log[p] : log[p][i].st \in {"open", "committed", "aborted"}
      OBVIOUS
    <3>1. log[p] \in Seq(Records)
      BY <1>1 DEF TypeInv
    <3>2. DOMAIN log[p] = 1 .. Len(log[p])
      BY <3>1
    <3> QED
      BY <3>1, <3>2, RecordFacts
  <2> QED
    BY <1>1, <2>1, <2>2 DEF TypeOK, TypeInv, BooksInv
<1>4. ASSUME NEW s \in Sessions, NEW p \in Partitions
      PROVE  LET w == W(s, p) IN
             /\ VotesIn(Range(w.batch)) <= BatchSize
             /\ w.queued <= QueuePerPartition
             /\ w.pc # "done" => w.queued = VotesIn(Range(w.jobs) \cup InHand(w))
             /\ \A j \in LeftOver(w) : reply[j] = Unanswered
             /\ Cardinality(LeftOver(w)) = Len(w.batch) + Len(w.jobs) + Cardinality(InHand(w))
  <2> DEFINE w == W(s, p)
  <2>1. /\ w \in Writers(p) /\ BooksOK(w)
        /\ \A j \in HeldBy(w) : reply[j] = Unanswered
    BY <1>2
  <2> HIDE DEF w
  <2>2. /\ VotesIn(Range(w.batch)) <= BatchSize
        /\ w.queued <= QueuePerPartition
        /\ w.pc # "done" => w.queued = VotesIn(Range(w.jobs) \cup InHand(w))
    <3>1. /\ w.votes \in 0 .. BatchSize /\ VotesIn(Range(w.batch)) = w.votes
          /\ w.queued \in 0 .. QueuePerPartition
          /\ w.pc # "done" => w.queued = VotesIn(Range(w.jobs) \cup InHand(w))
      BY <2>1 DEF BooksOK, Charge, Charged
    <3>2. BatchSize \in Nat /\ QueuePerPartition \in Nat
      BY SizeAssumption DEF ValidConfig
    <3> QED
      BY <3>1, <3>2
  <2>3. \A j \in LeftOver(w) : reply[j] = Unanswered
    BY <2>1 DEF HeldBy
  <2>4. Cardinality(LeftOver(w)) = Len(w.batch) + Len(w.jobs) + Cardinality(InHand(w))
    <3> DEFINE B == Range(w.batch)
               J == Range(w.jobs)
               H == InHand(w)
    <3>1. IsFiniteSet(B) /\ IsFiniteSet(J) /\ IsFiniteSet(H)
      BY <2>1, PlaceFacts
    <3>2. Cardinality(B) = Len(w.batch) /\ Cardinality(J) = Len(w.jobs)
      BY <2>1, PlaceFacts, RangeCount DEF BooksOK, Apart
    <3>3. B \cap J = {} /\ (B \cup J) \cap H = {} /\ LeftOver(w) = (B \cup J) \cup H
      BY <2>1 DEF BooksOK, Apart, LeftOver, InHand
    <3> HIDE DEF B, J, H
    <3>4. Cardinality(B \cap J) = 0 /\ Cardinality((B \cup J) \cap H) = 0
      BY <3>3, FS_EmptySet
    <3>5. IsFiniteSet(B \cup J)
          /\ Cardinality(B \cup J) = Cardinality(B) + Cardinality(J) - Cardinality(B \cap J)
      BY <3>1, FS_Union
    <3>6. Cardinality((B \cup J) \cup H)
            = Cardinality(B \cup J) + Cardinality(H) - Cardinality((B \cup J) \cap H)
      BY <3>1, <3>5, FS_Union
    <3>7. Cardinality(B) \in Nat /\ Cardinality(J) \in Nat /\ Cardinality(H) \in Nat
      BY <3>1, FS_CardinalityType
    <3>8. Cardinality(B \cup J) = Cardinality(B) + Cardinality(J)
      BY <3>4, <3>5, <3>7
    <3>9. Cardinality((B \cup J) \cup H) = Cardinality(B) + Cardinality(J) + Cardinality(H)
      BY <3>4, <3>6, <3>7, <3>8
    <3> QED
      BY <3>2, <3>3, <3>9 DEF H
  <2> QED
    BY <2>2, <2>3, <2>4 DEF w
<1> QED
  BY <1>3, <1>4 DEF JobsAccounted

\* A writer's books are right: its credits are the votes in its channel and its hand and
\* never more than the channel holds, one batch at most is held beside them, and every job
\* it holds is there once and not yet answered (store.go 430-442, 468-475).
THEOREM JobsAreAccounted == Spec => []JobsAccounted
  BY BooksFollow, OwnersAlways, BooksAlways, PTL
=============================================================================
