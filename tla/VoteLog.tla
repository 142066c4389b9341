------------------------------- MODULE VoteLog -------------------------------
(***************************************************************************)
(* The replicated voting journal (internal/votelog): one Kafka topic holds *)
(* one poll, one transactional writer per partition appends batches of     *)
(* votes and answers them after the transaction has committed, Seal ends   *)
(* every partition with a CLOSED record, and New takes the topic over from *)
(* an earlier owner: it fences the owner's producers, commits a BOOT       *)
(* record as a barrier and reads the journal up to it.                     *)
(*                                                                         *)
(* A call of New is a session.  Sessions may overlap: an old one goes on   *)
(* until its writers find themselves fenced.  A request to the brokers may *)
(* be lost, its answer may be lost, and EndTxn may take effect after its   *)
(* sender gave up.  A process may stop at any moment.                      *)
(***************************************************************************)
EXTENDS Naturals, Sequences, SequencesExt, FiniteSets, FiniteSetsExt

CONSTANTS
    Partitions,       \* partitions of the topic
    Jobs,             \* calls of Submit and SubmitFrame
    Votes,            \* job |-> the <<token, choice>>s it carries, in order
    PartitionOf,      \* token |-> partition (Config.Partition)
    MaxSession,       \* number of calls of New
    Configs,          \* what ConfigOf may be: session |-> its poll definition
    BatchSize, QueuePerPartition,
    Faults            \* of "crash", "close", "clockback" and "cancel": what happens

Sessions == 1 .. MaxSession
NoJob    == "none"
Clock    == 0 .. 2    \* before StartsAt, within the minute, EndsAt or later
Open     == 1

Size(j) == Len(Votes[j])

\* Config.validate, without its upper bounds.
ValidConfig == BatchSize \in Nat \ {0} /\ QueuePerPartition \in Nat \ {0} /\ Partitions # {}
ASSUME SizeAssumption == ValidConfig
\* SubmitFrame takes at most a batch, all of it for one partition.
ASSUME JobAssumption ==
    \A j \in Jobs : /\ Size(j) \in 1 .. BatchSize
                    /\ \A i, k \in 1 .. Size(j) :
                         PartitionOf[Votes[j][i][1]] = PartitionOf[Votes[j][k][1]]
ASSUME SessionAssumption == MaxSession \in Nat \ {0} /\ NoJob \notin Jobs

Target(j) == PartitionOf[Votes[j][1][1]]
\* A hash of the token, reduced to the number of partitions.
ASSUME PartitionAssumption == \A j \in Jobs : Target(j) \in Partitions

VARIABLES
    now,      \* the wall clock
    log,      \* partition |-> records, each "open", "committed" or "aborted"
    epoch,    \* partition |-> the session whose producer the broker accepts
    ending,   \* partition |-> a request to commit the open transaction is under way
    session,  \* session |-> "idle", "boot", "up", "stopped" or "dead"
    wr,       \* session |-> partition |-> its writer
    home,     \* job |-> the session it was submitted to, or 0
    reply,    \* job |-> the content of pending.result
    result,   \* job |-> what the call returned, "waiting" while it has not
    sealing,  \* sessions whose Seal is past the deadline
    manifest, \* session |-> what Seal returned: partition |-> offset, or <<>>
    ConfigOf  \* session |-> the poll definition it is started with; never changes

vars == <<now, log, epoch, ending, session, wr, home, reply, result, sealing, manifest>>

-----------------------------------------------------------------------------
(* The journal as its readers see it *)

Record(s, k, j) == [cfg |-> ConfigOf[s], by |-> s, kind |-> k, job |-> j, st |-> "open"]
DecodesAny(r, s) == TRUE  \* mutant: the poll in the record is not compared
Decodes(r, s) == r.cfg = ConfigOf[s]
Is(l, i, k) == l[i].st = "committed" /\ l[i].kind = k
IsOpen(l)   == \E i \in DOMAIN l : l[i].st = "open"

\* A read-committed fetch stops before the records of an open transaction.
Readable(l) == {i \in DOMAIN l : /\ l[i].st = "committed"
                                 /\ \A k \in 1 .. i : l[k].st # "open"}

\* verifyFirstRecords: the first committed record of every partition is a
\* BOOT of this very poll.
FirstRecordIsBoot(s, p) ==
    /\ Readable(log[p]) # {}
    /\ LET r == log[p][Min(Readable(log[p]))] IN Decodes(r, s) /\ r.kind = "boot"
verifyFirstRecords(s) == \A p \in Partitions : FirstRecordIsBoot(s, p)

\* replay accepts the readable records of l up to offset n.
WellFormed(l, n, c) ==
    LET R == {i \in Readable(l) : i <= n} IN
    /\ \A i \in R : l[i].cfg = c
    /\ R # {} => l[Min(R)].kind = "boot"
    /\ \A i, k \in R : l[i].kind = "closed" /\ i < k => l[k].kind = "boot"
ClosedAt(l) == {i \in DOMAIN l : Is(l, i, "closed")}
ClosedOffset(l, n) == LET C == {i \in ClosedAt(l) : i <= n}
                      IN  IF C = {} THEN 0 ELSE Min(C)

\* Audit: every vote before CLOSED has its <<offset, index>>, and the first
\* vote of a token counts.
CountedAt(l) == {i \in DOMAIN l : Is(l, i, "vote") /\ \A c \in ClosedAt(l) : i < c}
Positions(l) == UNION {{<<o, i>> : i \in 1 .. Size(l[o].job)} : o \in CountedAt(l)}
Before(x, y) == x[1] < y[1] \/ (x[1] = y[1] /\ x[2] < y[2])
VoteAt(l, x) == Votes[l[x[1]].job][x[2]]
CanonicalLast(l) ==  \* mutant: a later vote replaces the first
    {VoteAt(l, x) : x \in {y \in Positions(l) :
       \A z \in Positions(l) : Before(y, z) => VoteAt(l, z)[1] # VoteAt(l, y)[1]}}
Canonical(l) ==
    {VoteAt(l, x) : x \in {y \in Positions(l) :
       \A z \in Positions(l) : Before(z, y) => VoteAt(l, z)[1] # VoteAt(l, y)[1]}}

-----------------------------------------------------------------------------
(* Answers *)

Receipt(p, o) == [kind |-> "receipt", partition |-> p, offset |-> o]
Err(e)        == [kind |-> e, partition |-> NoJob, offset |-> 0]
Unanswered    == Err("none")
Waiting       == Err("waiting")
Unknown       == Err("unknown")

AnswerAll(js, f) == reply' = [j \in Jobs |-> IF j \in js THEN f[j] ELSE reply[j]]
AnswerUnknown(js) == AnswerAll(js, [j \in js |-> Unknown])
Return(j, r) == result' = [result EXCEPT ![j] = r]

\* Handler: the status a benchmark client sees.
Status(r) ==
    CASE r.kind = "receipt" -> 202 [] r.kind = "closed" -> 410
      [] r.kind = "not_open" -> 425 [] r.kind = "busy" -> 429 [] OTHER -> 503

-----------------------------------------------------------------------------
(* Submit and SubmitFrame *)

W(s, p) == wr[s][p]
SetW(s, p, w) == wr' = [wr EXCEPT ![s][p] = w]
Running(s) == session[s] \in {"up", "stopped"}
Unlocked(s, p) == W(s, p).mu = NoJob

\* The room for j among the queued votes, and in the channel.
HasRoom(w, j) == /\ w.queued + Size(j) <= QueuePerPartition
                 /\ Len(w.jobs) < QueuePerPartition

\* The mutex is taken and every refusal tested; the clock is read last.
GateIsOpen(w) == ~ (w.sealed \/ w.closing)
Admit(j, s) ==
    LET p == Target(j)
        w == W(s, p)
        Refuse(e) == Return(j, Err(e)) /\ UNCHANGED wr
    IN
    /\ Running(s) /\ result[j] = Unanswered /\ Unlocked(s, p)
    /\ home' = [home EXCEPT ![j] = s]
    /\ \/ ~ GateIsOpen(w) /\ Refuse("closed")
       \/ GateIsOpen(w) /\ (w.failed \/ session[s] = "stopped") /\ Refuse("unknown")
       \/ /\ GateIsOpen(w) /\ ~ w.failed /\ session[s] = "up"
          /\ \/ ~ HasRoom(w, j) /\ Refuse("busy")
             \/ HasRoom(w, j) /\ now < Open /\ Refuse("not_open")
             \/ HasRoom(w, j) /\ now > Open /\ Refuse("closed")
             \/ /\ HasRoom(w, j) /\ now = Open
                /\ SetW(s, p, [w EXCEPT !.mu = j]) /\ Return(j, Waiting)
    /\ UNCHANGED <<now, log, epoch, ending, session, reply, sealing, manifest>>

Submit(j, s)      == Size(j) = 1 /\ Admit(j, s)
SubmitFrame(j, s) == Size(j) > 1 /\ Admit(j, s)

\* The job enters the channel and the mutex is released.
Enqueue(j) ==
    LET s == home[j]
        p == Target(j)
        w == W(s, p)
    IN
    /\ result[j] = Waiting /\ Running(s) /\ w.mu = j
    /\ SetW(s, p, [w EXCEPT !.mu = NoJob, !.queued = w.queued + Size(j),
                            !.jobs = Append(w.jobs, j)])
    /\ UNCHANGED <<now, log, epoch, ending, session, home, reply, result, sealing,
                   manifest>>

\* The call returns the answer, or gives up with the store's or its own
\* context; the job stays where it is.
Receive(j) ==
    /\ result[j] = Waiting /\ reply[j] # Unanswered
    /\ Return(j, reply[j])
    /\ UNCHANGED <<now, log, epoch, ending, session, wr, home, reply, sealing, manifest>>
GaveUpBusy(j) == Err("busy")  \* mutant: the client is told to try again
GaveUp(j) == Unknown
GiveUp(j) ==
    /\ result[j] = Waiting /\ W(home[j], Target(j)).mu # j
    /\ "cancel" \in Faults \/ session[home[j]] = "stopped"
    /\ Return(j, GaveUp(j))
    /\ UNCHANGED <<now, log, epoch, ending, session, wr, home, reply, sealing, manifest>>

-----------------------------------------------------------------------------
(* commit: one transaction of a writer                                      *)

Kinds(w) == IF w.kind = "vote" THEN w.batch ELSE <<NoJob>>

\* The transactional id belongs to the topic and partition, not to a process:
\* only its latest producer is accepted.
Accepts(s, p) == epoch[p] = s

\* ProduceSync: the records get their offsets in an open transaction.  A
\* producer of an older epoch is refused.
Produce(s, p) ==
    LET w == W(s, p)
        records == [i \in DOMAIN Kinds(w) |-> Record(s, w.kind, Kinds(w)[i])]
    IN
    /\ w.pc = "produce" /\ Accepts(s, p)
    /\ log' = [log EXCEPT ![p] = @ \o records]
    /\ SetW(s, p, [w EXCEPT !.pc = "end", !.first = Len(log[p]) + 1])
    /\ UNCHANGED <<now, epoch, ending, session, home, reply, result, sealing, manifest>>

\* EndTransaction(TryCommit) sends its request.
EndTransaction(s, p) ==
    /\ W(s, p).pc = "end" /\ Accepts(s, p) /\ IsOpen(log[p])
    /\ ending' = [ending EXCEPT ![p] = TRUE]
    /\ SetW(s, p, [W(s, p) EXCEPT !.pc = "ack"])
    /\ UNCHANGED <<now, log, epoch, session, home, reply, result, sealing, manifest>>

Settle(l, st) == [i \in DOMAIN l |-> IF l[i].st = "open" THEN [l[i] EXCEPT !.st = st] ELSE l[i]]

\* The brokers commit; the writer may still be waiting for the answer.
BrokerCommits(p) ==
    LET s == epoch[p]
        w == W(s, p) IN
    /\ ending[p] /\ IsOpen(log[p])
    /\ log' = [log EXCEPT ![p] = Settle(@, "committed")]
    /\ ending' = [ending EXCEPT ![p] = FALSE]
    /\ wr' = IF w.pc = "ack" THEN [wr EXCEPT ![s][p].pc = "acked"] ELSE wr
    /\ UNCHANGED <<now, epoch, session, home, reply, result, sealing, manifest>>

\* The transaction timeout: the brokers abort what nobody ended.
BrokerAborts(p) ==
    /\ IsOpen(log[p]) /\ ~ ending[p]
    /\ log' = [log EXCEPT ![p] = Settle(@, "aborted")]
    /\ UNCHANGED <<now, epoch, ending, session, wr, home, reply, result, sealing, manifest>>

-----------------------------------------------------------------------------
(* run: the writer of a partition                                           *)

InTransaction(w) == w.pc \in {"produce", "end", "ack", "acked"}
Begin(w, k) == [w EXCEPT !.pc = "produce", !.kind = k]

\* The second half of appendJob, after any flush made for j: the credits are
\* given back and a full batch is flushed.
KeepCredits(w, j) == w.queued  \* mutant: the credits of j are not given back
Credits(w, j) == w.queued - Size(j)
Appended(w, j) ==
    LET v == [w EXCEPT !.pc = "select", !.hand = NoJob, !.queued = Credits(w, j),
                       !.batch = Append(w.batch, j), !.votes = w.votes + Size(j)]
    IN  IF v.votes < BatchSize THEN v ELSE Begin(v, "vote")

\* A job that does not fit waits in hand, still charged, for the flush.
MustFlushFirst(w, j) == w.votes + Size(j) > BatchSize
Take(s, p) ==
    LET w == W(s, p)
        j == Head(w.jobs)
        v == [w EXCEPT !.jobs = Tail(w.jobs)]
    IN
    /\ w.pc = "select" /\ w.hand = NoJob /\ w.jobs # <<>>
    /\ \/ MustFlushFirst(w, j) /\ SetW(s, p, Begin([v EXCEPT !.hand = j], "vote"))
       \/ ~ MustFlushFirst(w, j) /\ Unlocked(s, p) /\ SetW(s, p, Appended(v, j))
    /\ UNCHANGED <<now, log, epoch, ending, session, home, reply, result, sealing, manifest>>
TakeHand(s, p) ==
    /\ W(s, p).pc = "select" /\ W(s, p).hand # NoJob /\ Unlocked(s, p)
    /\ SetW(s, p, Appended(W(s, p), W(s, p).hand))
    /\ UNCHANGED <<now, log, epoch, ending, session, home, reply, result, sealing, manifest>>

\* The ticker flushes what is there.
Tick(s, p) ==
    /\ W(s, p).pc = "select" /\ W(s, p).hand = NoJob /\ ~ W(s, p).drain
    /\ W(s, p).batch # <<>>
    /\ SetW(s, p, Begin(W(s, p), "vote"))
    /\ UNCHANGED <<now, log, epoch, ending, session, home, reply, result, sealing, manifest>>

\* The seal request: from now on the loop only empties the channel.
SeeSeal(s, p) ==
    /\ W(s, p).pc = "select" /\ W(s, p).hand = NoJob /\ W(s, p).seal
    /\ SetW(s, p, [W(s, p) EXCEPT !.seal = FALSE, !.drain = TRUE])
    /\ UNCHANGED <<now, log, epoch, ending, session, home, reply, result, sealing, manifest>>

\* The channel is empty: the last batch is flushed, then CLOSED is committed.
DrainedEarly(w) == TRUE  \* mutant: what is in the channel is left there
Drained(w) == w.jobs = <<>>
Finish(s, p) ==
    LET w == W(s, p) IN
    /\ w.pc = "select" /\ w.hand = NoJob /\ w.drain /\ Drained(w)
    /\ SetW(s, p, Begin(w, IF w.batch = <<>> THEN "closed" ELSE "vote"))
    /\ UNCHANGED <<now, log, epoch, ending, session, home, reply, result, sealing, manifest>>

\* The deferred function of run answers the batch and the channel's content.
LeftOver(w) == Range(w.batch) \cup Range(w.jobs) \cup ({w.hand} \ {NoJob})

\* The commit is confirmed.  A batch is answered with its offsets; BOOT ends
\* the writer's part of New; CLOSED is remembered and ends the writer.
ConfirmedEarly(w) == w.pc \in {"ack", "acked"}  \* mutant: the commit is not awaited
Confirmed(w) == w.pc = "acked"
AfterCommit(w) == <<>>
Confirm(s, p) ==
    LET w == W(s, p)
        offset(j) == Receipt(p, w.first + (CHOOSE i \in DOMAIN w.batch : w.batch[i] = j) - 1)
    IN
    /\ Confirmed(w)
    /\ \/ /\ w.kind = "vote"
          /\ AnswerAll(Range(w.batch), [j \in Range(w.batch) |-> offset(j)])
          /\ SetW(s, p, [w EXCEPT !.pc = "select", !.votes = 0, !.batch = AfterCommit(w)])
       \/ /\ w.kind = "boot"
          /\ SetW(s, p, [w EXCEPT !.pc = "booted"]) /\ UNCHANGED reply
       \/ /\ w.kind = "closed" /\ Unlocked(s, p)
          /\ SetW(s, p, [w EXCEPT !.pc = "done", !.sealed = TRUE, !.end = w.first,
                                  !.jobs = <<>>])
          /\ AnswerUnknown(LeftOver(w))
    /\ UNCHANGED <<now, log, epoch, ending, session, home, result, sealing, manifest>>

\* Any of commit's requests fails: fenced, timed out, or its answer lost.  The
\* batch is answered first; the writer is marked as failed afterwards.
CommitFails(s, p) ==
    LET w == W(s, p) IN
    /\ InTransaction(w)
    /\ SetW(s, p, [w EXCEPT !.votes = 0, !.batch = <<>>,
                            !.pc = IF w.kind = "boot" THEN "unbooted" ELSE "failing"])
    /\ AnswerUnknown(Range(w.batch))
    /\ UNCHANGED <<now, log, epoch, ending, session, home, result, sealing, manifest>>

Exit(s, p, failed) ==
    LET w == W(s, p) IN
    /\ SetW(s, p, [w EXCEPT !.pc = "done", !.failed = failed, !.votes = 0, !.batch = <<>>,
                            !.hand = NoJob, !.jobs = <<>>])
    /\ AnswerUnknown(LeftOver(w))
    /\ UNCHANGED <<now, log, epoch, ending, session, home, result, sealing, manifest>>
Fail(s, p) == W(s, p).pc = "failing" /\ Unlocked(s, p) /\ Exit(s, p, TRUE)
SeeStop(s, p) ==
    /\ W(s, p).pc = "select" /\ W(s, p).hand = NoJob /\ ~ W(s, p).drain
    /\ session[s] = "stopped"
    /\ Exit(s, p, FALSE)

WriterStep(s, p) ==
    \/ Produce(s, p) \/ EndTransaction(s, p) \/ Take(s, p) \/ TakeHand(s, p)
    \/ Tick(s, p) \/ SeeSeal(s, p) \/ Finish(s, p) \/ Confirm(s, p)
    \/ CommitFails(s, p) \/ Fail(s, p) \/ SeeStop(s, p)

-----------------------------------------------------------------------------
(* New *)

NewWriter == [pc |-> "off", kind |-> "boot", first |-> 0, mu |-> NoJob,
              closing |-> FALSE, sealed |-> FALSE, failed |-> FALSE, end |-> 0,
              jobs |-> <<>>, queued |-> 0, seal |-> FALSE, drain |-> FALSE,
              batch |-> <<>>, votes |-> 0, hand |-> NoJob]

\* An empty topic, or one that already holds this poll.  Only one New runs at
\* a time; the owner before it need not have stopped.
MayOpen(s) == (\A p \in Partitions : log[p] = <<>>) \/ verifyFirstRecords(s)
New(s) ==
    /\ session[s] = "idle" /\ \A t \in 1 .. s - 1 : session[t] \notin {"idle", "boot"}
    /\ \/ /\ MayOpen(s)
          /\ session' = [session EXCEPT ![s] = "boot"]
          /\ wr' = [wr EXCEPT ![s] = [p \in Partitions |-> [NewWriter EXCEPT !.pc = "init"]]]
       \/ ~ MayOpen(s) /\ session' = [session EXCEPT ![s] = "dead"] /\ UNCHANGED wr
    /\ UNCHANGED <<now, log, epoch, ending, home, reply, result, sealing, manifest>>

\* ProducerID: the brokers abort the open transaction of the transactional id
\* and refuse its older producers from now on.
Fence(s, p) ==
    /\ log' = [log EXCEPT ![p] = Settle(@, "aborted")]
    /\ ending' = [ending EXCEPT ![p] = FALSE]
ProducerID(s, p) ==
    /\ W(s, p).pc = "init"
    /\ epoch' = [epoch EXCEPT ![p] = s]
    /\ Fence(s, p)
    /\ SetW(s, p, Begin(W(s, p), "boot"))
    /\ UNCHANGED <<now, session, home, reply, result, sealing, manifest>>
ProducerIDFails(s, p) ==
    /\ W(s, p).pc = "init"
    /\ SetW(s, p, [W(s, p) EXCEPT !.pc = "unbooted"])
    /\ UNCHANGED <<now, log, epoch, ending, session, home, reply, result, sealing, manifest>>

\* Every partition has its barrier: the journal is read up to it, and a
\* partition that is CLOSED already stays sealed.
ClosedForgotten(p, n) == 0  \* mutant: the recovered owner does not look for CLOSED
ClosedBefore(p, n) == ClosedOffset(log[p], n)
Barriers(s) ==
    /\ session[s] = "boot"
    /\ \A p \in Partitions : W(s, p).pc = "booted"
    /\ \/ /\ \A p \in Partitions : WellFormed(log[p], W(s, p).first, ConfigOf[s])
          /\ session' = [session EXCEPT ![s] = "up"]
          /\ wr' = [wr EXCEPT ![s] = [p \in Partitions |->
               LET c == ClosedBefore(p, W(s, p).first) IN
               [W(s, p) EXCEPT !.pc = "select", !.closing = c > 0, !.sealed = c > 0,
                               !.end = c]]]
       \/ /\ \E p \in Partitions : ~ WellFormed(log[p], W(s, p).first, ConfigOf[s])
          /\ session' = [session EXCEPT ![s] = "dead"] /\ UNCHANGED wr
    /\ UNCHANGED <<now, log, epoch, ending, home, reply, result, sealing, manifest>>
NewFails(s) ==
    /\ session[s] = "boot"
    /\ \A p \in Partitions : W(s, p).pc \in {"booted", "unbooted"}
    /\ \E p \in Partitions : W(s, p).pc = "unbooted"
    /\ session' = [session EXCEPT ![s] = "dead"]
    /\ UNCHANGED <<now, log, epoch, ending, wr, home, reply, result, sealing, manifest>>

-----------------------------------------------------------------------------
(* Seal, Close and the environment *)

\* waitUntil has seen the clock at EndsAt.
SealWaits(s) ==
    /\ Running(s) /\ now > Open /\ s \notin sealing
    /\ sealing' = sealing \cup {s}
    /\ UNCHANGED <<now, log, epoch, ending, session, wr, home, reply, result, manifest>>

\* The gate is closed and the writer told, unless it is done or told already.
GateWithoutSignal(w) == [w EXCEPT !.closing = TRUE]  \* mutant: the writer is not told
CloseGate(w) == [w EXCEPT !.closing = TRUE, !.seal = TRUE]
SealGate(s, p) ==
    LET w == W(s, p) IN
    /\ Running(s) /\ s \in sealing /\ Unlocked(s, p)
    /\ ~ w.sealed /\ ~ w.failed /\ ~ w.closing
    /\ SetW(s, p, CloseGate(w))
    /\ UNCHANGED <<now, log, epoch, ending, session, home, reply, result, sealing, manifest>>

\* Seal returns the manifest, an unknown outcome, or its context's error; it
\* may be called again.
SealReturns(s) ==
    /\ Running(s) /\ s \in sealing
    /\ \A p \in Partitions : W(s, p).sealed
    /\ manifest' = [manifest EXCEPT ![s] = [p \in Partitions |-> W(s, p).end]]
    /\ sealing' = sealing \ {s}
    /\ UNCHANGED <<now, log, epoch, ending, session, wr, home, reply, result>>
SealGivesUp(s) ==
    /\ Running(s) /\ s \in sealing
    /\ sealing' = sealing \ {s}
    /\ UNCHANGED <<now, log, epoch, ending, session, wr, home, reply, result, manifest>>

Close(s) ==
    /\ "close" \in Faults /\ session[s] = "up"
    /\ session' = [session EXCEPT ![s] = "stopped"]
    /\ UNCHANGED <<now, log, epoch, ending, wr, home, reply, result, sealing, manifest>>

\* The process stops and its memory is gone: its callers learn nothing.
Crash(s) ==
    LET lost == {j \in Jobs : result[j] = Waiting /\ home[j] = s} IN
    /\ "crash" \in Faults /\ session[s] \in {"boot", "up", "stopped"}
    /\ session' = [session EXCEPT ![s] = "dead"]
    /\ wr' = [wr EXCEPT ![s] = [p \in Partitions |-> NewWriter]]
    /\ sealing' = sealing \ {s}
    /\ result' = [j \in Jobs |-> IF j \in lost THEN Unknown ELSE result[j]]
    /\ reply' = [j \in Jobs |-> IF j \in lost THEN Unanswered ELSE reply[j]]
    /\ UNCHANGED <<now, log, epoch, ending, home, manifest>>

\* Time passes; the wall clock may also be set back into the minute.
ClockMoves(t) ==
    /\ \/ t = now + 1
       \/ "clockback" \in Faults /\ now > Open /\ t = Open
    /\ now' = t
    /\ UNCHANGED <<log, epoch, ending, session, wr, home, reply, result, sealing, manifest>>

-----------------------------------------------------------------------------
\* CreateTopic has made the topic, and its partitions are ready.
EmptyTopic == [p \in Partitions |-> <<>>]
Init ==
    /\ now \in {0, Open}
    /\ log = EmptyTopic
    /\ epoch = [p \in Partitions |-> 0]
    /\ ending = [p \in Partitions |-> FALSE]
    /\ session = [s \in Sessions |-> "idle"]
    /\ wr = [s \in Sessions |-> [p \in Partitions |-> NewWriter]]
    /\ home = [j \in Jobs |-> 0]
    /\ reply = [j \in Jobs |-> Unanswered]
    /\ result = [j \in Jobs |-> Unanswered]
    /\ sealing = {}
    /\ manifest = [s \in Sessions |-> <<>>]
    /\ ConfigOf \in Configs

\* New starts its writers in parallel.
Boots(s, p) == ProducerID(s, p) \/ ProducerIDFails(s, p)
Alive(s) == session[s] \in {"boot", "up", "stopped"}

Next ==
    \/ \E s \in Sessions, j \in Jobs : Submit(j, s) \/ SubmitFrame(j, s)
    \/ \E j \in Jobs : Enqueue(j) \/ Receive(j) \/ GiveUp(j)
    \/ \E p \in Partitions : BrokerCommits(p) \/ BrokerAborts(p)
    \/ \E s \in Sessions, p \in Partitions : Alive(s) /\ (WriterStep(s, p) \/ Boots(s, p))
    \/ \E s \in Sessions : New(s) \/ Barriers(s) \/ NewFails(s)
    \/ \E s \in Sessions, p \in Partitions : SealGate(s, p)
    \/ \E s \in Sessions : SealWaits(s) \/ SealReturns(s) \/ SealGivesUp(s)
    \/ \E s \in Sessions : Close(s) \/ Crash(s)
    \/ \E t \in Clock : ClockMoves(t)

Spec == Init /\ [][Next /\ UNCHANGED ConfigOf]_<<vars, ConfigOf>>

(* Go schedules the goroutines, the ticker ticks, and every transaction is *)
(* bounded by its timeout, so a writer step that stays possible is taken.  *)
(* The brokers, the administrator and the clock owe nothing.               *)
StoreStops(j) ==
    result[j] = Waiting /\ session[home[j]] = "stopped" /\ GiveUp(j)
FairSpec ==
    /\ Spec
    /\ \A s \in Sessions, p \in Partitions : WF_vars(Alive(s) /\ WriterStep(s, p))
    /\ \A j \in Jobs : WF_vars(Enqueue(j)) /\ WF_vars(Receive(j)) /\ WF_vars(StoreStops(j))

-----------------------------------------------------------------------------
(* Properties *)

TypeOK ==
    /\ now \in Clock
    /\ epoch \in [Partitions -> 0 .. MaxSession] /\ ending \in [Partitions -> BOOLEAN]
    /\ session \in [Sessions -> {"idle", "boot", "up", "stopped", "dead"}]
    /\ home \in [Jobs -> 0 .. MaxSession] /\ sealing \subseteq Sessions
    /\ \A s \in Sessions, p \in Partitions : {W(s, p).queued, W(s, p).first} \subseteq Nat
    /\ \A p \in Partitions : \A i \in DOMAIN log[p] : log[p][i].st \in {"open", "committed", "aborted"}

(* A confirmed vote counts: a caller that holds a receipt (202) finds its  *)
(* record committed at that position, before any CLOSED of the partition   *)
(* (flush, store.go 404-418; replay reads no vote after CLOSED).           *)
ReceiptCounts ==
    \A j \in Jobs : Status(reply[j]) = 202 =>
        LET l == log[reply[j].partition]
            o == reply[j].offset
        IN  /\ o \in DOMAIN l /\ Is(l, o, "vote") /\ l[o].job = j
            /\ \A c \in ClosedAt(l) : o < c

(* A definite refusal (closed, not open, busy) means the vote is nowhere,  *)
(* not even in an open transaction or an old owner's queue.                *)
RefusedIsAbsent ==
    \A j \in Jobs : Status(result[j]) \in {410, 425, 429} =>
        /\ \A p \in Partitions : \A i \in DOMAIN log[p] : log[p][i].job # j
        /\ \A s \in Sessions : LET w == W(s, Target(j)) IN
             j \notin Range(w.jobs) \cup Range(w.batch) \cup {w.hand}

(* The committed journal can always be read by its poll's owners: it       *)
(* begins with BOOT, binds one poll, nothing but BOOT follows CLOSED, and  *)
(* an owner commits nothing once a later one has its barrier, whoever      *)
(* wrote it and however many owners it had (audit.go 91-163; New, 228-257).*)
OwnersInOrder(l) == \A i, k \in Readable(l) : i < k => l[i].by <= l[k].by
JournalReplays ==
    \A p \in Partitions : Readable(log[p]) # {} =>
        /\ WellFormed(log[p], Len(log[p]), log[p][Min(Readable(log[p]))].cfg)
        /\ OwnersInOrder(log[p])

(* What Seal reported is what any later replay finds: its offsets are the  *)
(* partitions' CLOSED records, and no vote that was confirmed is missing.  *)
ManifestIsFinal ==
    \A s \in Sessions : manifest[s] # <<>> =>
        /\ \A p \in Partitions : ClosedAt(log[p]) = {manifest[s][p]}
        /\ \A j \in Jobs : Status(result[j]) = 202 =>
             \E o \in CountedAt(log[Target(j)]) : log[Target(j)][o].job = j

(* Sealing loses nobody: a writer that committed CLOSED has confirmed      *)
(* every vote that passed its gate before Seal closed it, the ones still   *)
(* in the channel at that moment too (store.go 489-498, 528-531).          *)
SealConfirmsAll ==
    \A s \in Sessions, j \in Jobs :
        /\ home[j] = s /\ W(s, Target(j)).sealed /\ W(s, Target(j)).kind = "closed"
        => reply[j].kind # "unknown"

\* The votes of a set of jobs, each of them its job and its place in it.
VotesOf(S) == {v \in S \X (1 .. BatchSize) : v[2] <= Size(v[1])}
VotesIn(S) == Cardinality(VotesOf(S))
InHand(w)  == {w.hand} \ {NoJob}

(* A writer's books: its credits are the votes in the channel and in hand, *)
(* at most one batch is held beside them, and every job is in one place    *)
(* and answered once: until it leaves, its result channel, of capacity     *)
(* one, is empty (store.go 430-442, 468-475).                              *)
JobsAccounted ==
    /\ TypeOK
    /\ \A s \in Sessions, p \in Partitions : LET w == W(s, p) IN
        /\ VotesIn(Range(w.batch)) <= BatchSize
        /\ w.queued <= QueuePerPartition
        /\ w.pc # "done" => w.queued = VotesIn(Range(w.jobs) \cup InHand(w))
        /\ Alive(s) =>
             /\ \A j \in LeftOver(w) : reply[j] = Unanswered
             /\ Cardinality(LeftOver(w)) = Len(w.batch) + Len(w.jobs) + Cardinality(InHand(w))

(* A vote that counts goes on counting: no later vote of the token         *)
(* replaces it, whoever owns the topic by then (Audit, audit.go 198-205).  *)
FirstChoiceStays ==
    [][\A p \in Partitions : Canonical(log[p]) \subseteq Canonical(log[p])']_vars

(* Nobody waits for ever: a failed writer and a stopped store answer what  *)
(* they hold, a Submit that slipped in beside them gives up with the store *)
(* (store.go 335-342, 430-442), and a closed gate stops its writer, for    *)
(* which Seal waits.                                                       *)
NobodyWaitsForever ==
    /\ \A j \in Jobs : result[j] = Waiting ~> result[j] # Waiting
    /\ \A s \in Sessions, p \in Partitions :
         W(s, p).closing ~> (W(s, p).pc = "done" \/ ~ Alive(s) \/ W(s, p).sealed)
=============================================================================
