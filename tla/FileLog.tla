------------------------------- MODULE FileLog -------------------------------
(***************************************************************************)
(* The single-disk voting journal (internal/filelog): callers of           *)
(* SubmitFrame put frames of votes in a bounded queue, one writer groups   *)
(* them, appends the group to the file, syncs it and answers; Seal closes  *)
(* the journal with a CLOSED frame after the deadline, Close stops it      *)
(* early.  A write or a sync may fail, callers may give up waiting, the    *)
(* wall clock may jump, and the machine may stop at any moment, leaving    *)
(* what was not synced in any condition.  Scan and Replay read the file    *)
(* that is left.                                                           *)
(*                                                                         *)
(* One call of SubmitFrame, Seal or Close is one member of Calls, Sealers  *)
(* or Closers.  What is done under Store.mu is one step, and so is each    *)
(* write and each sync.                                                    *)
(***************************************************************************)
EXTENDS Naturals, Sequences, FiniteSets

CONSTANTS
    Calls,            \* calls of SubmitFrame with valid inputs
    Loads,            \* what Count may be: call |-> number of votes in its frame
    Sealers, Closers, \* calls of Seal and of Close
    BatchSize, QueuePerPartition,
    Lingers,          \* Config.Linger > 0
    StartsAt, EndsAt, MaxClock,
    Crashes           \* whether the machine may stop

\* Config.validate, without its upper bounds.
ValidConfig ==
    /\ BatchSize \in Nat \ {0} /\ QueuePerPartition \in Nat \ {0}
    /\ Lingers \in BOOLEAN /\ StartsAt \in Nat /\ EndsAt \in Nat /\ StartsAt < EndsAt
ASSUME SizeAssumption ==
    /\ ValidConfig
    /\ Loads \subseteq [Calls -> 1 .. BatchSize]
ASSUME TimeAssumption == MaxClock \in Nat /\ EndsAt <= MaxClock
ASSUME FlagAssumption == Crashes \in BOOLEAN
ASSUME CallerAssumption == Sealers \cap Closers = {} /\ "nobody" \notin Calls

VARIABLES
    now,               \* the wall clock
    admissionClosed, queueClosed, sealRequested, poisoned, \* Store, under mu
    manifest,          \* <<>>, or <<offset of CLOSED>>
    queuedVotes,       \* Store.queuedVotes
    queue,             \* the channel
    wpc, after,        \* the writer's next step, and where flush returns to
    pending,           \* the job taken from the queue, not yet in the batch
    batch, votes, sequence, \* the writer's locals
    file, synced,      \* frames of votes.wal; how many of them are durable
    reply,             \* call |-> the content of job.done
    result,            \* call |-> what SubmitFrame returned
    spc, sealResult,   \* Seal and Close callers: next step; Seal's result
    alive,             \* the machine has not stopped
    order,             \* history: the calls in the order they were queued
    deadlineSeen,      \* history: the clock has shown EndsAt or later
    Count              \* call |-> number of votes in its frame; never changes

admission == <<admissionClosed, queueClosed, sealRequested, poisoned>>
writer    == <<wpc, after, pending, batch, votes, sequence>>
disk      == <<file, synced>>
callers   == <<reply, result, spc, sealResult>>
history   == <<order, deadlineSeen>>
vars == <<now, admission, manifest, queuedVotes, queue, writer, disk, callers,
          alive, history>>

Clock    == 0 .. MaxClock
Nobody   == "nobody"
NoJob    == [call |-> Nobody, admitted |-> 0]
Err(e)   == [kind |-> e, offset |-> 0]
Waiting  == Err("none")
Ack(n)   == [kind |-> "ack", offset |-> n]

VoteFrame(c, n, t) == [kind |-> "votes", seq |-> n, call |-> c, admitted |-> t]
ClosedFrame(n)     == [kind |-> "closed", seq |-> n, call |-> Nobody, admitted |-> 0]
Torn               == [kind |-> "torn", seq |-> 0, call |-> Nobody, admitted |-> 0]
Bad                == [kind |-> "bad", seq |-> 0, call |-> Nobody, admitted |-> 0]

-----------------------------------------------------------------------------
(* SubmitFrame *)

Return(c, r) == result' = [result EXCEPT ![c] = r]

\* The refusals of SubmitFrame.  Seeing the deadline closes admission, so that
\* a clock set back does not reopen the poll.
Refuse(c, e) ==
    /\ Return(c, Err(e))
    /\ UNCHANGED <<admissionClosed, queuedVotes, queue, order>>
CloseAdmission(c) ==
    /\ admissionClosed' = TRUE
    /\ Return(c, Err("closed"))
    /\ UNCHANGED <<queuedVotes, queue, order>>

\* The vote's time travels with the call: see the frames of Write.
Enqueue(c, t) ==
    /\ queuedVotes' = queuedVotes + Count[c]
    /\ queue' = Append(queue, [call |-> c, admitted |-> t])
    /\ order' = Append(order, c)
    /\ Return(c, Err("queued"))
    /\ UNCHANGED admissionClosed

HasRoomForOne(c) == queuedVotes < QueuePerPartition  \* mutant: a frame counts as one vote
HasRoom(c) == queuedVotes + Count[c] <= QueuePerPartition

\* The second reading of the clock, the one the frame will carry.
Admit(c, t) ==
    \/ t < StartsAt /\ Refuse(c, "not_open")
    \/ t >= EndsAt /\ CloseAdmission(c)
    \/ StartsAt <= t /\ t < EndsAt /\ Refuse(c, "cancelled")
    \/ StartsAt <= t /\ t < EndsAt /\ Enqueue(c, t)

AdmissionOpen == ~ admissionClosed
SubmitFrame(c) ==
    /\ result[c] = Waiting
    /\ \/ poisoned /\ Refuse(c, "poison") /\ UNCHANGED now
       \/ ~ poisoned /\ ~ AdmissionOpen /\ Refuse(c, "closed") /\ UNCHANGED now
       \/ /\ ~ poisoned /\ AdmissionOpen
          /\ \/ now >= EndsAt /\ CloseAdmission(c) /\ UNCHANGED now
             \/ now < StartsAt /\ Refuse(c, "not_open") /\ UNCHANGED now
             \/ /\ StartsAt <= now /\ now < EndsAt
                /\ \/ ~ HasRoom(c) /\ Refuse(c, "busy") /\ UNCHANGED now
                   \/ HasRoom(c) /\ \E t \in Clock : now' = t /\ Admit(c, t)
    /\ deadlineSeen' = (deadlineSeen \/ now' >= EndsAt)
    /\ UNCHANGED <<queueClosed, sealRequested, poisoned, manifest, writer, disk,
                   reply, spc, sealResult, alive>>

\* The caller gets the answer, or gives up: then its vote may or may not count.
Receive(c) ==
    /\ result[c] = Err("queued") /\ reply[c] # Waiting
    /\ Return(c, reply[c])
    /\ UNCHANGED <<now, admission, manifest, queuedVotes, queue, writer, disk,
                   reply, spc, sealResult, alive, history>>
GiveUp(c) ==
    /\ result[c] = Err("queued")
    /\ Return(c, Err("unknown"))
    /\ UNCHANGED <<now, admission, manifest, queuedVotes, queue, writer, disk,
                   reply, spc, sealResult, alive, history>>

-----------------------------------------------------------------------------
(* Store.run, the writer *)

StopQueueAdmissionOnly ==  \* mutant: the channel stays open
    admissionClosed' = TRUE /\ UNCHANGED queueClosed
StopQueue == admissionClosed' = TRUE /\ queueClosed' = TRUE
Fail == StopQueue /\ poisoned' = TRUE /\ UNCHANGED sealRequested
NoFault == UNCHANGED admission

\* A job is taken.  If it does not fit the batch, the batch is flushed first;
\* meanwhile the job stays charged to the queue.
Take ==
    LET j == Head(queue) IN
    /\ wpc = "select" /\ queue # <<>>
    /\ queue' = Tail(queue)
    /\ pending' = j
    /\ IF votes + Count[j.call] > BatchSize
         THEN wpc' = "flush" /\ after' = "append"
         ELSE wpc' = "append" /\ UNCHANGED after
    /\ UNCHANGED <<now, admission, manifest, queuedVotes, batch, votes, sequence,
                   disk, callers, alive, history>>

Release(j) == Count[j.call]

AddToBatch ==
    /\ wpc = "append"
    /\ queuedVotes' = queuedVotes - Release(pending)
    /\ batch' = Append(batch, pending)
    /\ votes' = votes + Count[pending.call]
    /\ pending' = NoJob
    /\ IF votes' >= BatchSize \/ ~ Lingers
         THEN wpc' = "flush" /\ after' = "select"
         ELSE wpc' = "select" /\ UNCHANGED after
    /\ UNCHANGED <<now, admission, manifest, queue, sequence, disk, callers,
                   alive, history>>

\* The linger timer runs exactly while the writer waits with a batch.
Tick ==
    /\ wpc = "select" /\ Lingers /\ batch # <<>>
    /\ wpc' = "flush" /\ after' = "select"
    /\ UNCHANGED <<now, admission, manifest, queuedVotes, queue, pending, batch,
                   votes, sequence, disk, callers, alive, history>>

\* A receive from a closed channel fails only once the channel is empty.
QueueEnded == queueClosed /\ queue = <<>>
SeeClosed ==
    /\ wpc = "select" /\ QueueEnded
    /\ wpc' = IF batch = <<>> THEN "closing" ELSE "flush"
    /\ after' = "closing"
    /\ UNCHANGED <<now, admission, manifest, queuedVotes, queue, pending, batch,
                   votes, sequence, disk, callers, alive, history>>

Group == [i \in 1 .. Len(batch) |->
            VoteFrame(batch[i].call, sequence + i - 1, batch[i].admitted)]

AfterWriteNoSync == "answer"  \* mutant: answers before the sync
AfterWrite == "sync"
Write ==
    /\ wpc = "flush"
    /\ file' = file \o Group
    /\ wpc' = AfterWrite
    /\ NoFault
    /\ UNCHANGED <<now, manifest, queuedVotes, queue, after, pending, batch,
                   votes, sequence, synced, callers, alive, history>>

\* writeAll fails after some of the bytes, maybe inside a frame.
WriteFails ==
    /\ wpc = "flush"
    /\ \E n \in 0 .. Len(batch) :
         \/ file' = file \o SubSeq(Group, 1, n)
         \/ n < Len(batch) /\ file' = file \o SubSeq(Group, 1, n) \o <<Torn>>
    /\ wpc' = "answer"
    /\ Fail
    /\ UNCHANGED <<now, manifest, queuedVotes, queue, after, pending, batch,
                   votes, sequence, synced, callers, alive, history>>

Sync ==
    /\ wpc = "sync"
    /\ wpc' = "answer"
    /\ \/ synced' = Len(file) /\ NoFault
       \/ Fail /\ UNCHANGED synced
    /\ UNCHANGED <<now, manifest, queuedVotes, queue, after, pending, batch,
                   votes, sequence, file, callers, alive, history>>

InBatch(c) == \E i \in 1 .. Len(batch) : batch[i].call = c
OffsetOf(c) == sequence + (CHOOSE i \in 1 .. Len(batch) : batch[i].call = c) - 1

\* flush answers its group; after a failure the writer only drains the queue.
AfterAnswerGoesOn == after  \* mutant: the failure does not stop the writer
AfterAnswer ==
    IF ~ poisoned THEN after ELSE IF after = "closing" THEN "exit" ELSE "drain"
AnswerBatch ==
    /\ wpc = "answer"
    /\ reply' = [c \in Calls |->
         IF InBatch(c) THEN IF poisoned THEN Err("poison") ELSE Ack(OffsetOf(c))
         ELSE reply[c]]
    /\ sequence' = sequence + Len(batch)
    /\ batch' = <<>> /\ votes' = 0
    /\ wpc' = AfterAnswer
    /\ UNCHANGED <<now, admission, manifest, queuedVotes, queue, after, pending,
                   disk, result, spc, sealResult, alive, history>>

\* drainFailure: the pending job first, then the closed queue to its end.
DrainJob ==
    /\ wpc = "drain"
    /\ \/ /\ pending # NoJob
          /\ queuedVotes' = queuedVotes - Count[pending.call]
          /\ reply' = [reply EXCEPT ![pending.call] = Err("poison")]
          /\ pending' = NoJob /\ UNCHANGED <<queue, wpc>>
       \/ /\ pending = NoJob /\ queue # <<>>
          /\ queuedVotes' = queuedVotes - Count[Head(queue).call]
          /\ reply' = [reply EXCEPT ![Head(queue).call] = Err("poison")]
          /\ queue' = Tail(queue) /\ UNCHANGED <<pending, wpc>>
       \/ /\ pending = NoJob /\ queue = <<>> /\ queueClosed
          /\ wpc' = "exit" /\ UNCHANGED <<queuedVotes, reply, pending, queue>>
    /\ UNCHANGED <<now, admission, manifest, after, batch, votes, sequence, disk,
                   result, spc, sealResult, alive, history>>

\* The queue is drained and flushed: CLOSED is written only if Seal asked.
WriteClosed ==
    /\ wpc = "closing"
    /\ \/ /\ ~ sealRequested /\ wpc' = "exit" /\ NoFault /\ UNCHANGED file
       \/ /\ sealRequested /\ wpc' = "syncClosed" /\ NoFault
          /\ file' = Append(file, ClosedFrame(sequence))
       \/ /\ sealRequested /\ wpc' = "exit" /\ Fail
          /\ file' \in {file, Append(file, Torn), Append(file, ClosedFrame(sequence))}
    /\ UNCHANGED <<now, manifest, queuedVotes, queue, after, pending, batch,
                   votes, sequence, synced, callers, alive, history>>

ManifestOffset == sequence
SyncClosed ==
    /\ wpc = "syncClosed"
    /\ wpc' = "exit"
    /\ \/ synced' = Len(file) /\ manifest' = <<ManifestOffset>> /\ NoFault
       \/ Fail /\ UNCHANGED <<synced, manifest>>
    /\ UNCHANGED <<now, queuedVotes, queue, after, pending, batch, votes,
                   sequence, file, callers, alive, history>>

\* The deferred close of the file may fail; then Store.done is closed.
Exit ==
    /\ wpc = "exit"
    /\ wpc' = "done"
    /\ NoFault \/ Fail
    /\ UNCHANGED <<now, manifest, queuedVotes, queue, after, pending, batch,
                   votes, sequence, disk, callers, alive, history>>

-----------------------------------------------------------------------------
(* Seal and Close *)

SealChecks(k) ==
    /\ spc[k] = "idle"
    /\ spc' = [spc EXCEPT ![k] = IF queueClosed THEN "wait" ELSE "until"]
    /\ UNCHANGED <<now, admission, manifest, queuedVotes, queue, writer, disk,
                   reply, result, sealResult, alive, history>>

\* waitUntil returns when it sees the clock at the deadline.
DeadlineReached == now >= EndsAt
SealWaits(k) ==
    /\ spc[k] = "until" /\ DeadlineReached
    /\ spc' = [spc EXCEPT ![k] = "stop"]
    /\ UNCHANGED <<now, admission, manifest, queuedVotes, queue, writer, disk,
                   reply, result, sealResult, alive, history>>

SealStops(k) ==
    /\ spc[k] = "stop"
    /\ \/ ~ queueClosed /\ StopQueue /\ sealRequested' = TRUE /\ UNCHANGED poisoned
       \/ queueClosed /\ UNCHANGED admission
    /\ spc' = [spc EXCEPT ![k] = "wait"]
    /\ UNCHANGED <<now, manifest, queuedVotes, queue, writer, disk, reply, result,
                   sealResult, alive, history>>

SealReturns(k) ==
    /\ spc[k] = "wait" /\ wpc = "done"
    /\ sealResult' = [sealResult EXCEPT ![k] =
         IF poisoned THEN Err("poison")
         ELSE IF manifest = <<>> THEN Err("closed") ELSE Ack(manifest[1])]
    /\ spc' = [spc EXCEPT ![k] = "returned"]
    /\ UNCHANGED <<now, admission, manifest, queuedVotes, queue, writer, disk,
                   reply, result, alive, history>>

\* Seal's context ends while it waits.
SealGivesUp(k) ==
    /\ spc[k] \in {"until", "wait"}
    /\ spc' = [spc EXCEPT ![k] = "returned"]
    /\ sealResult' = [sealResult EXCEPT ![k] = Err("cancelled")]
    /\ UNCHANGED <<now, admission, manifest, queuedVotes, queue, writer, disk,
                   reply, result, alive, history>>

CloseStops(k) ==
    /\ spc[k] = "idle"
    /\ StopQueue /\ UNCHANGED <<sealRequested, poisoned>>
    /\ spc' = [spc EXCEPT ![k] = "wait"]
    /\ UNCHANGED <<now, manifest, queuedVotes, queue, writer, disk, reply, result,
                   sealResult, alive, history>>
CloseReturns(k) ==
    /\ spc[k] = "wait" /\ wpc = "done"
    /\ spc' = [spc EXCEPT ![k] = "returned"]
    /\ UNCHANGED <<now, admission, manifest, queuedVotes, queue, writer, disk,
                   reply, result, sealResult, alive, history>>

-----------------------------------------------------------------------------
(* The environment *)

SetClock(t) ==
    /\ now # t
    /\ now' = t
    /\ deadlineSeen' = (deadlineSeen \/ t >= EndsAt)
    /\ UNCHANGED <<admission, manifest, queuedVotes, queue, writer, disk, callers,
                   alive, order>>

\* What may be left of the frames that were not synced: any prefix, each frame
\* intact or spoilt, the last one perhaps cut short.
Remains(u) ==
    UNION { {t \in [1 .. n -> {u[i] : i \in 1 .. n} \cup {Bad, Torn}] :
               \A i \in 1 .. n : \/ t[i] = u[i] \/ t[i] = Bad
                                 \/ t[i] = Torn /\ i = n} : n \in 0 .. Len(u) }
Crash ==
    /\ alive /\ Crashes
    /\ alive' = FALSE
    /\ \E t \in Remains(SubSeq(file, synced + 1, Len(file))) :
         file' = SubSeq(file, 1, synced) \o t
    /\ UNCHANGED <<now, admission, manifest, queuedVotes, queue, writer, synced,
                   callers, history>>

-----------------------------------------------------------------------------
Init ==
    /\ now \in Clock
    /\ admissionClosed = FALSE /\ queueClosed = FALSE
    /\ sealRequested = FALSE /\ poisoned = FALSE
    /\ manifest = <<>>
    /\ queuedVotes = 0 /\ queue = <<>>
    /\ wpc = "select" /\ after = "select" /\ pending = NoJob
    /\ batch = <<>> /\ votes = 0 /\ sequence = 0
    /\ file = <<>> /\ synced = 0
    /\ reply = [c \in Calls |-> Waiting]
    /\ result = [c \in Calls |-> Waiting]
    /\ spc = [k \in Sealers \cup Closers |-> "idle"]
    /\ sealResult = [k \in Sealers |-> Waiting]
    /\ alive = TRUE
    /\ order = <<>>
    /\ deadlineSeen = (now >= EndsAt)
    /\ Count \in Loads

CallStep(c) == SubmitFrame(c) \/ Receive(c) \/ GiveUp(c)
WriterStep ==
    \/ Take \/ AddToBatch \/ Tick \/ SeeClosed \/ Write \/ WriteFails \/ Sync
    \/ AnswerBatch \/ DrainJob \/ WriteClosed \/ SyncClosed \/ Exit
SealStep(k) ==
    SealChecks(k) \/ SealWaits(k) \/ SealStops(k) \/ SealReturns(k) \/ SealGivesUp(k)
CloseStep(k) == CloseStops(k) \/ CloseReturns(k)

Next ==
    \/ alive /\ \/ \E c \in Calls : CallStep(c)
                \/ WriterStep
                \/ \E k \in Sealers : SealStep(k)
                \/ \E k \in Closers : CloseStep(k)
                \/ \E t \in Clock : SetClock(t)
    \/ Crash

Spec == Init /\ [][Next /\ UNCHANGED Count]_<<vars, Count>>

(* The runtime schedules the writer and the callers; the timer fires and   *)
(* disk calls return.  Nobody is obliged to give up waiting, and the clock *)
(* is not obliged to do anything.                                          *)
LiveSpec ==
    /\ Spec
    /\ WF_vars(alive /\ WriterStep)
    /\ \A c \in Calls : WF_vars(alive /\ Receive(c))
    /\ \A k \in Sealers : WF_vars(alive /\ (SealStops(k) \/ SealReturns(k)))
    /\ \A k \in Closers : WF_vars(alive /\ CloseReturns(k))

-----------------------------------------------------------------------------
(* Scan and Replay of the file that is left *)

\* The frames Scan accepts: complete, in sequence, its votes inside the poll's
\* window, and nothing before it is CLOSED.
Sound(f, i) ==
    /\ f[i].kind \in {"votes", "closed"}
    /\ f[i].seq = i - 1
    /\ f[i].kind = "votes" => StartsAt <= f[i].admitted /\ f[i].admitted < EndsAt
    /\ i > 1 => f[i - 1].kind # "closed"

\* How many frames Scan accepts before it stops.  The header and the poll's
\* metadata it compares first were synced before admission began.
Accepted(f) ==
    CHOOSE n \in 0 .. Len(f) :
        /\ \A i \in 1 .. n : Sound(f, i)
        /\ n < Len(f) => ~ Sound(f, n + 1)

ScanClosed(f) == Accepted(f) > 0 /\ f[Accepted(f)].kind = "closed"
\* Only the end of the file inside a frame is a tolerated tail.
IncompleteTail(f) ==
    /\ Accepted(f) + 1 = Len(f) /\ f[Len(f)].kind = "torn" /\ ~ ScanClosed(f)
ScanFails(f) == Accepted(f) < Len(f) /\ ~ IncompleteTail(f)
Replays(f) == ~ ScanFails(f) /\ ScanClosed(f)
-----------------------------------------------------------------------------
(* Properties *)

Jobs    == [call : Calls, admitted : Clock]
Results == [kind : {"none", "queued", "ack", "busy", "closed", "not_open",
                    "cancelled", "poison", "unknown"},
            offset : Nat]
Frames  == [kind : {"votes", "closed", "torn", "bad"}, seq : Nat,
            call : Calls \cup {Nobody}, admitted : Clock]

\* The state is well typed; a flush never finds its batch empty.
TypeOK ==
    /\ now \in Clock
    /\ {admissionClosed, queueClosed, sealRequested, poisoned, alive, deadlineSeen}
         \subseteq BOOLEAN
    /\ manifest \in {<<>>} \cup {<<n>> : n \in 0 .. Len(order)}
    /\ queuedVotes \in Nat /\ votes \in Nat /\ sequence \in Nat
    /\ queue \in Seq(Jobs) /\ batch \in Seq(Jobs) /\ pending \in Jobs \cup {NoJob}
    /\ wpc \in {"select", "append", "flush", "sync", "answer", "drain", "closing",
                "syncClosed", "exit", "done"}
    /\ after \in {"select", "append", "closing"}
    /\ wpc \in {"flush", "sync", "answer"} => batch # <<>>
    /\ file \in Seq(Frames) /\ synced \in 0 .. Len(file)
    /\ reply \in [Calls -> Results] /\ result \in [Calls -> Results]
    /\ spc \in [Sealers \cup Closers -> {"idle", "until", "stop", "wait", "returned"}]
    /\ sealResult \in [Sealers -> Results]
    /\ order \in Seq(Calls)

\* An acknowledged frame is found by Scan at the offset of its receipt, in
\* every later state and also after a crash, whatever became of the rest of
\* the file.
AckedIsFound ==
    \A c \in Calls : result[c].kind = "ack" =>
        /\ result[c].offset < Accepted(file)
        /\ file[result[c].offset + 1].call = c

\* The journal that is left can be trusted, whatever failed and whenever the
\* machine stopped:
\*   - where Scan finds CLOSED, the journal holds every frame that was ever
\*     queued, acknowledged or not, in the order of admission, and the deadline
\*     had passed, so Replay always counts the complete poll;
\*   - the manifest Seal returns is durable: Replay succeeds, with CLOSED at the
\*     manifest's offset;
\*   - without a crash the writer leaves a file that Scan reads without an
\*     error, although a write or a sync failed or the clock jumped during
\*     admission: at worst its last frame is incomplete.
ClosedIsComplete ==
    ScanClosed(file) =>
        /\ deadlineSeen
        /\ Accepted(file) = Len(order) + 1
        /\ \A i \in 1 .. Len(order) : file[i].call = order[i]
SealedReplays ==
    \A k \in Sealers : sealResult[k].kind = "ack" =>
        Replays(file) /\ Accepted(file) = sealResult[k].offset + 1
WriterLeavesReadable == alive /\ wpc = "done" => ~ ScanFails(file)
JournalIsSound == ClosedIsComplete /\ SealedReplays /\ WriterLeavesReadable

\* The votes held in memory are at most a full queue, which the job the writer
\* has taken out still counts to, and one batch; the channel send under the
\* mutex never finds the channel full, and once the writer has stopped nothing
\* is charged any more.
VotesOf(S) == {v \in S \X (1 .. BatchSize) : v[2] <= Count[v[1]]}
VotesIn(S) == Cardinality(VotesOf(S))
Held(q) == {q[i].call : i \in 1 .. Len(q)}
HeldPending == IF pending = NoJob THEN {} ELSE {pending.call}
MemoryBound ==
    /\ TypeOK
    /\ VotesIn(Held(queue) \cup HeldPending) <= QueuePerPartition
    /\ VotesIn(Held(batch)) <= BatchSize
    /\ Len(queue) <= QueuePerPartition
    /\ wpc = "done" => queuedVotes = 0

\* Nobody waits for ever, although the disk may fail, the store may be closed
\* or sealed at any moment and callers may have gone: every queued frame is
\* answered, and a Seal that saw the deadline and a Close that has stopped the
\* queue return.  Only a crash of the machine excuses from it.
NobodyWaitsForever ==
    /\ \A c \in Calls : result[c] = Err("queued") ~> (reply[c] # Waiting \/ ~ alive)
    /\ \A k \in Sealers : spc[k] = "stop" ~> (spc[k] = "returned" \/ ~ alive)
    /\ \A k \in Closers : spc[k] = "wait" ~> (spc[k] = "returned" \/ ~ alive)
=============================================================================
