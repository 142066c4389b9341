--------------------------- MODULE FileLogProofs ---------------------------
(***************************************************************************)
(* Proofs about the single-disk journal (FileLog) and its benchmark        *)
(* (FileBench), for any callers, batch and queue sizes, attempts and       *)
(* faults.  Of the journal: Scan finds the frame of every receipt          *)
(* (AckedIsFound), what it finds can be trusted (JournalIsSound), and the  *)
(* memory of its writer is bounded (MemoryBound).  Of the benchmark: its   *)
(* report is fair to the journal (ReportIsFair) and a verdict of correct   *)
(* is true (CorrectIsTrue).                                                *)
(*                                                                         *)
(* The journal follows the order of admission.  As long as the writer      *)
(* works, that order is what it has answered, its batch, the job in its    *)
(* hand and the queue, in this order (ChainInv), and the file holds a      *)
(* prefix of it (FilledInv); nothing is written once it is poisoned.  So   *)
(* every frame is the next call of the order, or CLOSED behind the last    *)
(* one, or spoilt, and the frames a sync has covered are never spoilt      *)
(* (FileInv).  Accepted, the prefix of sound frames that Scan reads, is    *)
(* at least what was synced: the first frame that is not sound is a least  *)
(* natural number, found by well-founded minimality instead of induction.  *)
(* The votes in memory are counted as the size of a set of pairs: the      *)
(* queue is charged with what it and the writer's hand hold (ChargeInv),   *)
(* and the batch holds no more than its counter says (BatchInv).           *)
(*                                                                         *)
(* In the benchmark a planned attempt is in one place: it waits in the     *)
(* generator or the channel (WaitInv), a worker calls with it (CallInv),   *)
(* its outcome is noted (OutcomeInv), or it was skipped.  As these places  *)
(* are apart, the counters are the sizes of sets of attempts, which add    *)
(* up (TallyInv), and a journal that is not spoilt agrees with the ledger  *)
(* (DiskInv).  What a spoilt one may contain is not known: there the       *)
(* theorem rests on what the reconciliation itself compares.               *)
(***************************************************************************)
EXTENDS FileLog, FileBench, Integers, WellFoundedInduction, FiniteSetTheorems, SequenceTheorems, TLAPS

-----------------------------------------------------------------------------
(* The inductive invariant *)

TypeInv ==
    /\ now \in Clock /\ synced \in 0 .. Len(file) /\ sequence \in Nat
    /\ order \in Seq(Calls) /\ queue \in Seq(Jobs) /\ batch \in Seq(Jobs)
    /\ pending \in Jobs \cup {NoJob} /\ file \in Seq(Frames)
    /\ manifest \in Seq(Nat)
    /\ reply \in [Calls -> Results] /\ result \in [Calls -> Results]
    /\ sealResult \in [Sealers -> Results] /\ DOMAIN spc = Sealers \cup Closers

\* Whoever acts on the deadline has seen it, and a closed queue is never
\* opened again.
DeadlineInv ==
    /\ now >= EndsAt => deadlineSeen
    /\ \A k \in Sealers : spc[k] = "stop" => deadlineSeen
    /\ sealRequested => deadlineSeen /\ queueClosed
    /\ queueClosed => admissionClosed

InWindow(j) == StartsAt <= j.admitted /\ j.admitted < EndsAt
WindowInv ==
    /\ \A i \in 1 .. Len(queue) : InWindow(queue[i])
    /\ \A i \in 1 .. Len(batch) : InWindow(batch[i])
    /\ pending # NoJob => InWindow(pending)

\* What the place of the writer in its loop says.
Flushing == wpc \in {"flush", "sync", "answer"}
PlaceInv ==
    /\ wpc \in {"select", "append", "flush", "sync", "answer", "drain", "closing", "syncClosed",
                "exit", "done"}
    /\ after \in {"select", "append", "closing"}
    /\ wpc \in {"select", "append", "flush", "sync", "closing", "syncClosed"} => ~ poisoned
    /\ wpc = "drain" => poisoned
    /\ wpc \in {"select", "closing", "syncClosed"} => pending = NoJob
    /\ Flushing => (pending = NoJob <=> after # "append")
    /\ wpc = "append" => pending # NoJob
    /\ wpc \in {"closing", "syncClosed"} \/ (Flushing /\ after = "closing")
         => queueClosed /\ queue = <<>>
    /\ wpc \in {"closing", "syncClosed"} => batch = <<>>
    /\ wpc = "syncClosed" => sealRequested

\* While the writer works, the calls in the order of admission are the ones it
\* has answered, its batch, the job in its hand and the queue; and the file holds
\* the frames of the answered ones, and of the batch once it is written.
Working == alive /\ ~ poisoned /\ wpc \notin {"exit", "done"}
InHand == IF pending = NoJob THEN 0 ELSE 1
ChainInv ==
    /\ Len(order) = sequence + Len(batch) + InHand + Len(queue)
    /\ \A i \in 1 .. Len(batch) : batch[i].call = order[sequence + i]
    /\ pending # NoJob => pending.call = order[sequence + Len(batch) + 1]
    /\ \A i \in 1 .. Len(queue) : queue[i].call = order[sequence + Len(batch) + InHand + i]
Written ==
    IF wpc \in {"sync", "answer"} THEN Len(batch) ELSE IF wpc = "syncClosed" THEN 1 ELSE 0
FilledInv == Len(file) = sequence + Written /\ (wpc = "answer" => synced = Len(file))
WorkInv == Working => ChainInv /\ FilledInv

\* The frames of the file, whole or spoilt, and those a sync has covered.
VoteAt(i) ==
    /\ file[i].kind = "votes" /\ file[i].seq = i - 1 /\ InWindow(file[i])
    /\ i <= Len(order) /\ file[i].call = order[i]
ClosedAt(i) ==
    /\ file[i].kind = "closed" /\ file[i].seq = i - 1
    /\ i = Len(order) + 1 /\ deadlineSeen /\ queueClosed
WholeOrSpoilt(i) == VoteAt(i) \/ ClosedAt(i) \/ file[i].kind \in {"torn", "bad"}
VotesThenEnd(i)  == VoteAt(i) \/ (i = Len(file) /\ (ClosedAt(i) \/ file[i].kind = "torn"))
VotesThenClosed(i) ==
    VoteAt(i) \/ (i = Len(file) /\ ClosedAt(i) /\ wpc \in {"syncClosed", "exit", "done"})
FileInv ==
    /\ \A i \in 1 .. Len(file) : WholeOrSpoilt(i)
    /\ \A i \in 1 .. synced : VoteAt(i) \/ ClosedAt(i)
    /\ alive => \A i \in 1 .. Len(file) : VotesThenEnd(i)
    /\ alive /\ ~ poisoned => \A i \in 1 .. Len(file) : VotesThenClosed(i)
    /\ alive /\ wpc = "syncClosed" => file # <<>> /\ ClosedAt(Len(file))

\* What was told: the receipts, and the manifest.
Found(r, c) ==
    r.kind = "ack" => r.offset < synced /\ VoteAt(r.offset + 1) /\ file[r.offset + 1].call = c
AckInv == \A c \in Calls : Found(reply[c], c) /\ Found(result[c], c)
ManifestInv ==
    /\ manifest # <<>> =>
         /\ wpc \in {"exit", "done"} /\ synced = Len(file) /\ manifest[1] + 1 = Len(file)
         /\ ClosedAt(Len(file))
    /\ \A k \in Sealers : sealResult[k].kind = "ack" =>
         manifest # <<>> /\ sealResult[k].offset = manifest[1]

JournalInv ==
    TypeInv /\ DeadlineInv /\ WindowInv /\ PlaceInv /\ WorkInv /\ FileInv /\ AckInv
      /\ ManifestInv

-----------------------------------------------------------------------------
(* What the operators return *)

\* The frames of a flush are those of its batch, numbered from sequence on.
LEMMA GroupFacts ==
    ASSUME sequence \in Nat, batch \in Seq(Jobs)
    PROVE  /\ Group \in Seq(Frames) /\ Len(Group) = Len(batch)
           /\ \A i \in 1 .. Len(batch) :
                Group[i] = VoteFrame(batch[i].call, sequence + i - 1, batch[i].admitted)
<1>1. \A i \in 1 .. Len(batch) :
        VoteFrame(batch[i].call, sequence + i - 1, batch[i].admitted) \in Frames
  <2> SUFFICES ASSUME NEW i \in 1 .. Len(batch)
               PROVE  VoteFrame(batch[i].call, sequence + i - 1, batch[i].admitted) \in Frames
    OBVIOUS
  <2>1. batch[i] \in Jobs /\ sequence + i - 1 \in Nat
    OBVIOUS
  <2>2. batch[i].call \in Calls /\ batch[i].admitted \in Clock
    BY <2>1 DEF Jobs
  <2> QED
    BY <2>1, <2>2 DEF VoteFrame, Frames
<1> QED
  BY <1>1 DEF Group

\* The offset given in a receipt is the position of the call in the batch.
LEMMA OffsetFacts ==
    ASSUME sequence \in Nat, batch \in Seq(Jobs), NEW c \in Calls, InBatch(c)
    PROVE  /\ OffsetOf(c) \in Nat
           /\ \E i \in 1 .. Len(batch) :
                batch[i].call = c /\ OffsetOf(c) = sequence + i - 1
<1> DEFINE i == CHOOSE i \in 1 .. Len(batch) : batch[i].call = c
<1>1. i \in 1 .. Len(batch) /\ batch[i].call = c
  BY DEF InBatch
<1>2. OffsetOf(c) = sequence + i - 1
  BY DEF OffsetOf
<1> HIDE DEF i
<1> QED
  BY <1>1, <1>2

\* A prefix of a group is written by a disk that fails.
LEMMA PrefixFacts ==
    ASSUME NEW S, NEW g \in Seq(S), NEW n \in 0 .. Len(g)
    PROVE  /\ SubSeq(g, 1, n) \in Seq(S) /\ Len(SubSeq(g, 1, n)) = n
           /\ \A i \in 1 .. n : SubSeq(g, 1, n)[i] = g[i]
  OBVIOUS

\* One sequence behind another.
LEMMA JoinFacts ==
    ASSUME NEW f \in Seq(Frames), NEW g \in Seq(Frames)
    PROVE  /\ f \o g \in Seq(Frames) /\ Len(f \o g) = Len(f) + Len(g)
           /\ \A i \in 1 .. Len(f) : (f \o g)[i] = f[i]
           /\ \A j \in 1 .. Len(g) : (f \o g)[Len(f) + j] = g[j]
<1>1. /\ f \o g \in Seq(Frames) /\ Len(f \o g) = Len(f) + Len(g)
      /\ \A i \in 1 .. Len(f) + Len(g) :
           (f \o g)[i] = IF i <= Len(f) THEN f[i] ELSE g[i - Len(f)]
  BY ConcatProperties
<1>2. ASSUME NEW j \in 1 .. Len(g) PROVE (f \o g)[Len(f) + j] = g[j]
  <2>1. /\ Len(f) + j \in 1 .. Len(f) + Len(g) /\ ~ Len(f) + j <= Len(f)
        /\ Len(f) + j - Len(f) = j
    OBVIOUS
  <2> QED
    BY <1>1, <2>1
<1> QED
  BY <1>1, <1>2

\* A crash leaves the synced frames, and of the others some, whole or spoilt.
LEMMA CrashFacts ==
    ASSUME TypeInv, Crash
    PROVE  /\ file' \in Seq(Frames) /\ Len(file') \in synced .. Len(file)
           /\ \A i \in 1 .. synced : file'[i] = file[i]
           /\ \A i \in 1 .. Len(file') : file'[i] \in {file[i], Bad, Torn}
<1> DEFINE u == SubSeq(file, synced + 1, Len(file))
<1>1. /\ file \in Seq(Frames) /\ synced \in 0 .. Len(file)
      /\ Bad \in Frames /\ Torn \in Frames
  BY TimeAssumption DEF TypeInv, Bad, Torn, Frames, Clock
<1>2. /\ u \in Seq(Frames) /\ Len(u) = Len(file) - synced
      /\ \A i \in 1 .. Len(u) : u[i] = file[synced + i]
  BY <1>1
<1>3. PICK t \in Remains(u) : file' = SubSeq(file, 1, synced) \o t
  BY DEF Crash
<1> HIDE DEF u
<1>4. PICK n \in 0 .. Len(u) :
        /\ t \in [1 .. n -> {u[i] : i \in 1 .. n} \cup {Bad, Torn}]
        /\ \A i \in 1 .. n : \/ t[i] = u[i] \/ t[i] = Bad
                             \/ t[i] = Torn /\ i = n
  BY <1>3 DEF Remains
<1>5. \A i \in 1 .. n : t[i] \in Frames
  BY <1>1, <1>2, <1>4
<1>6. t \in [1 .. n -> Frames]
  BY <1>4, <1>5
<1>7. t \in Seq(Frames) /\ Len(t) = n
  BY <1>6, <1>2
<1>8. /\ SubSeq(file, 1, synced) \in Seq(Frames) /\ Len(SubSeq(file, 1, synced)) = synced
      /\ \A i \in 1 .. synced : SubSeq(file, 1, synced)[i] = file[i]
  BY <1>1
<1>9. /\ file' \in Seq(Frames) /\ Len(file') = synced + n
      /\ \A i \in 1 .. synced + n : file'[i] =
           IF i <= synced THEN SubSeq(file, 1, synced)[i] ELSE t[i - synced]
  BY <1>3, <1>7, <1>8, ConcatProperties
<1>10. \A i \in 1 .. synced : file'[i] = file[i]
  BY <1>1, <1>8, <1>9
<1>11. ASSUME NEW i \in synced + 1 .. synced + n PROVE file'[i] \in {file[i], Bad, Torn}
  <2>1. i - synced \in 1 .. n /\ file'[i] = t[i - synced] /\ u[i - synced] = file[i]
    BY <1>1, <1>2, <1>9
  <2> QED
    BY <2>1, <1>4
<1>12. n \in 0 .. Len(file) - synced
  BY <1>2, <1>4
<1> QED
  BY <1>1, <1>9, <1>10, <1>11, <1>12

\* A call of SubmitFrame is refused, and changes nothing but the admission flag,
\* or it is queued while admission is open, with a time inside the poll's window.
LEMMA SubmitCases ==
    ASSUME NEW c \in Calls, SubmitFrame(c)
    PROVE  \/ /\ UNCHANGED <<queue, order>>
              /\ admissionClosed' \in {admissionClosed, TRUE}
              /\ \E e \in {"poison", "closed", "not_open", "busy", "cancelled"} :
                   result' = [result EXCEPT ![c] = Err(e)]
           \/ /\ ~ admissionClosed /\ ~ poisoned /\ UNCHANGED admissionClosed
              /\ \E t \in Clock : /\ StartsAt <= t /\ t < EndsAt
                                  /\ queue' = Append(queue, [call |-> c, admitted |-> t])
              /\ order' = Append(order, c)
              /\ result' = [result EXCEPT ![c] = Err("queued")]
<1>1. CASE \E t \in Clock : StartsAt <= t /\ t < EndsAt /\ Enqueue(c, t)
  BY <1>1 DEF SubmitFrame, Admit, Refuse, CloseAdmission, Enqueue, Return, AdmissionOpen
<1>2. CASE CloseAdmission(c)
  BY <1>2 DEF CloseAdmission, Return
<1>3. CASE \E e \in {"poison", "closed", "not_open", "busy", "cancelled"} : Refuse(c, e)
  BY <1>3 DEF Refuse, Return
<1> QED
  BY <1>1, <1>2, <1>3 DEF SubmitFrame, Admit

\* Only these steps move jobs.
LEMMA QueueFrame ==
    ASSUME Next
    PROVE  \/ \E c \in Calls : SubmitFrame(c)
           \/ Take \/ AddToBatch \/ DrainJob \/ AnswerBatch
           \/ UNCHANGED <<queue, batch, pending, sequence, order>>
<1>1. ASSUME NEW c \in Calls, Receive(c) \/ GiveUp(c)
      PROVE  UNCHANGED <<queue, batch, pending, sequence, order>>
  BY <1>1 DEF Receive, GiveUp, writer, history
<1>2. ASSUME Tick \/ SeeClosed \/ Write \/ WriteFails \/ Sync \/ WriteClosed \/ SyncClosed \/ Exit
      PROVE  UNCHANGED <<queue, batch, pending, sequence, order>>
  BY <1>2 DEF Tick, SeeClosed, Write, WriteFails, Sync, WriteClosed, SyncClosed, Exit, history
<1>3. ASSUME NEW k \in Sealers, SealStep(k)
      PROVE  UNCHANGED <<queue, batch, pending, sequence, order>>
  BY <1>3 DEF SealStep, SealChecks, SealWaits, SealStops, SealReturns, SealGivesUp, writer, history
<1>4. ASSUME NEW k \in Closers, CloseStep(k)
      PROVE  UNCHANGED <<queue, batch, pending, sequence, order>>
  BY <1>4 DEF CloseStep, CloseStops, CloseReturns, writer, history
<1>5. ASSUME NEW t \in Clock, SetClock(t)
      PROVE  UNCHANGED <<queue, batch, pending, sequence, order>>
  BY <1>5 DEF SetClock, writer
<1>6. ASSUME Crash PROVE UNCHANGED <<queue, batch, pending, sequence, order>>
  BY <1>6 DEF Crash, writer, history
<1> QED
  BY <1>1, <1>2, <1>3, <1>4, <1>5, <1>6 DEF Next, CallStep, WriterStep

\* What the callers, the clock and a crash leave alone.
LEMMA IdleFrame ==
    ASSUME \/ \E c \in Calls : Receive(c) \/ GiveUp(c)
           \/ \E k \in Sealers : SealStep(k)
           \/ \E k \in Closers : CloseStep(k)
           \/ \E t \in Clock : SetClock(t)
           \/ Crash
    PROVE  /\ UNCHANGED <<wpc, after, pending, batch, queue, sequence, order, poisoned, manifest,
                         synced, reply>>
           /\ queueClosed => queueClosed'
           /\ sealRequested => sealRequested'
           /\ deadlineSeen => deadlineSeen'
           /\ alive' => UNCHANGED <<alive, file>>
<1> DEFINE Goal ==
        /\ UNCHANGED <<wpc, after, pending, batch, queue, sequence, order, poisoned, manifest,
                      synced, reply>>
        /\ queueClosed => queueClosed'
        /\ sealRequested => sealRequested'
        /\ deadlineSeen => deadlineSeen'
        /\ alive' => UNCHANGED <<alive, file>>
<1>1. ASSUME NEW c \in Calls, Receive(c) \/ GiveUp(c) PROVE Goal
  BY <1>1 DEF Receive, GiveUp, admission, writer, disk, history
<1>2. ASSUME NEW k \in Sealers, SealStep(k) PROVE Goal
  BY <1>2 DEF SealStep, SealChecks, SealWaits, SealStops, SealReturns, SealGivesUp, StopQueue,
              admission, writer, disk, history
<1>3. ASSUME NEW k \in Closers, CloseStep(k) PROVE Goal
  BY <1>3 DEF CloseStep, CloseStops, CloseReturns, StopQueue, admission, writer, disk, history
<1>4. ASSUME NEW t \in Clock, SetClock(t) PROVE Goal
  BY <1>4 DEF SetClock, admission, writer, disk, callers
<1>5. ASSUME Crash PROVE Goal
  BY <1>5 DEF Crash, admission, writer, callers, history
<1> QED
  BY <1>1, <1>2, <1>3, <1>4, <1>5

-----------------------------------------------------------------------------
(* Types *)

\* A step keeps the types.
LEMMA TypeStep == ASSUME TypeInv, PlaceInv, Next PROVE TypeInv'
<1> USE TimeAssumption DEF TypeInv
<1>r. /\ \A e : Err(e) = [kind |-> e, offset |-> 0]
      /\ \A n \in Nat : Ack(n) \in Results
      /\ \A e \in {"none", "queued", "ack", "busy", "closed", "not_open", "cancelled",
                   "poison", "unknown"} : Err(e) \in Results
      /\ NoJob \notin Jobs
  BY CallerAssumption DEF Err, Ack, Results, Jobs, NoJob, Nobody
<1>1. ASSUME NEW c \in Calls, SubmitFrame(c) PROVE TypeInv'
  <2>1. /\ UNCHANGED <<synced, sequence, batch, pending, file, manifest, reply, sealResult, spc>>
        /\ now' \in Clock
    BY <1>1 DEF SubmitFrame, writer, disk
  <2>2. result' \in [Calls -> Results]
    BY <1>1, <1>r, SubmitCases, ZenonT(40)
  <2>3. \A t \in Clock : [call |-> c, admitted |-> t] \in Jobs
    BY DEF Jobs
  <2>4. order' \in Seq(Calls) /\ queue' \in Seq(Jobs)
    <3>1. CASE UNCHANGED <<queue, order>>
      BY <3>1
    <3>2. CASE ~ UNCHANGED <<queue, order>>
      <4>1. /\ order' = Append(order, c)
            /\ \E t \in Clock : queue' = Append(queue, [call |-> c, admitted |-> t])
        BY <1>1, <3>2, SubmitCases
      <4> QED
        BY <4>1, <2>3, AppendProperties
    <3> QED
      BY <3>1, <3>2
  <2> QED
    BY <2>1, <2>2, <2>4
<1>2. ASSUME NEW c \in Calls, Receive(c) \/ GiveUp(c) PROVE TypeInv'
  BY <1>2, <1>r DEF Receive, GiveUp, Return, writer, disk, history
<1>3. ASSUME Take PROVE TypeInv'
  BY <1>3, HeadTailProperties DEF Take, disk, callers, history
<1>4. ASSUME AddToBatch PROVE TypeInv'
  <2>1. pending \in Jobs
    BY <1>4 DEF AddToBatch, PlaceInv
  <2>2. batch' \in Seq(Jobs)
    BY <1>4, <2>1 DEF AddToBatch
  <2> QED
    BY <1>4, <2>2 DEF AddToBatch, disk, callers, history
<1>5. ASSUME Tick \/ SeeClosed PROVE TypeInv'
  BY <1>5 DEF Tick, SeeClosed, disk, callers, history
<1>6. ASSUME Write \/ WriteFails PROVE TypeInv'
  <2>1. UNCHANGED <<now, synced, sequence, order, queue, batch, pending, manifest, reply, result,
                    sealResult, spc>>
    BY <1>6 DEF Write, WriteFails, callers, history
  <2>2. Torn \in Frames
    BY DEF Torn, Frames, Clock
  <2>3. Group \in Seq(Frames) /\ Len(Group) = Len(batch)
    BY GroupFacts
  <2>4. \A n \in 0 .. Len(batch) : SubSeq(Group, 1, n) \in Seq(Frames)
    BY <2>3, PrefixFacts
  <2>5. file' \in Seq(Frames) /\ Len(file') >= Len(file)
    <3>1. ASSUME NEW g \in Seq(Frames)
          PROVE  /\ file \o g \in Seq(Frames) /\ Len(file \o g) >= Len(file)
                 /\ file \o g \o <<Torn>> \in Seq(Frames)
                 /\ Len(file \o g \o <<Torn>>) >= Len(file)
      BY <2>2
    <3>2. CASE Write
      BY <3>1, <3>2, <2>3 DEF Write
    <3>3. CASE WriteFails
      <4>1. PICK n \in 0 .. Len(batch) :
              \/ file' = file \o SubSeq(Group, 1, n)
              \/ file' = file \o SubSeq(Group, 1, n) \o <<Torn>>
        BY <3>3 DEF WriteFails
      <4> QED
        BY <4>1, <3>1, <2>4
    <3> QED
      BY <3>2, <3>3, <1>6
  <2> QED
    BY <2>1, <2>5
<1>7. ASSUME Sync PROVE TypeInv'
  BY <1>7 DEF Sync, callers, history
<1>8. ASSUME AnswerBatch PROVE TypeInv'
  <2>1. \A c \in Calls : InBatch(c) => OffsetOf(c) \in Nat
    BY OffsetFacts
  <2>2. reply' \in [Calls -> Results]
    BY <2>1, <1>8, <1>r DEF AnswerBatch
  <2> QED
    BY <2>2, <1>8 DEF AnswerBatch, disk, callers, history
<1>9. ASSUME DrainJob PROVE TypeInv'
  <2>1. reply' \in [Calls -> Results]
    BY <1>9, <1>r DEF DrainJob
  <2>2. pending' \in Jobs \cup {NoJob}
    BY <1>9 DEF DrainJob
  <2>3. queue' \in Seq(Jobs)
    <3>1. queue' = queue \/ (queue # <<>> /\ queue' = Tail(queue))
      BY <1>9 DEF DrainJob
    <3> QED
      BY <3>1, HeadTailProperties, ZenonT(40)
  <2> QED
    BY <2>1, <2>2, <2>3, <1>9 DEF DrainJob, disk, history
<1>10. ASSUME WriteClosed PROVE TypeInv'
  <2>1. Torn \in Frames /\ ClosedFrame(sequence) \in Frames
    BY DEF Torn, ClosedFrame, Frames, Clock
  <2>2. file' \in {file, Append(file, Torn), Append(file, ClosedFrame(sequence))}
    BY <1>10 DEF WriteClosed
  <2>3. file' \in Seq(Frames) /\ Len(file') >= Len(file)
    <3>1. ASSUME NEW f \in Frames
          PROVE  Append(file, f) \in Seq(Frames) /\ Len(Append(file, f)) >= Len(file)
      OBVIOUS
    <3>2. CASE file' = file
      BY <3>2
    <3>3. CASE file' = Append(file, Torn)
      BY <3>1, <3>3, <2>1
    <3>4. CASE file' = Append(file, ClosedFrame(sequence))
      BY <3>1, <3>4, <2>1
    <3> QED
      BY <3>2, <3>3, <3>4, <2>2
  <2> QED
    BY <2>3, <1>10 DEF WriteClosed, callers, history
<1>11. ASSUME SyncClosed PROVE TypeInv'
  <2>1. manifest' \in {manifest, <<sequence>>} /\ synced' \in {synced, Len(file)}
    BY <1>11 DEF SyncClosed, ManifestOffset
  <2>2. <<sequence>> \in Seq(Nat) /\ Len(file) \in 0 .. Len(file)
    OBVIOUS
  <2>3. manifest' \in Seq(Nat) /\ synced' \in 0 .. Len(file)
    BY <2>1, <2>2
  <2> QED
    BY <2>3, <1>11 DEF SyncClosed, callers, history
<1>12. ASSUME Exit PROVE TypeInv'
  BY <1>12 DEF Exit, disk, callers, history
<1>13. ASSUME NEW k \in Sealers, SealStep(k) PROVE TypeInv'
  <2>1. /\ UNCHANGED <<now, synced, sequence, order, queue, batch, pending, file, manifest, reply,
                       result>>
        /\ DOMAIN spc' = Sealers \cup Closers
    BY <1>13 DEF SealStep, SealChecks, SealWaits, SealStops, SealReturns, SealGivesUp, writer,
                 disk, history
  <2>2. sealResult' \in [Sealers -> Results]
    <3>1. manifest # <<>> => manifest[1] \in Nat
      OBVIOUS
    <3>2. CASE SealReturns(k)
      BY <3>1, <3>2, <1>r DEF SealReturns
    <3>3. CASE ~ SealReturns(k)
      BY <3>3, <1>13, <1>r DEF SealStep, SealChecks, SealWaits, SealStops, SealGivesUp
    <3> QED
      BY <3>2, <3>3
  <2> QED
    BY <2>1, <2>2
<1>14. ASSUME NEW k \in Closers, CloseStep(k) PROVE TypeInv'
  BY <1>14 DEF CloseStep, CloseStops, CloseReturns, writer, disk, history
<1>15. ASSUME NEW t \in Clock, SetClock(t) PROVE TypeInv'
  BY <1>15 DEF SetClock, writer, disk, callers
<1>16. ASSUME Crash PROVE TypeInv'
  <2>1. file' \in Seq(Frames) /\ synced <= Len(file')
    BY <1>16, CrashFacts
  <2> QED
    BY <2>1, <1>16 DEF Crash, writer, callers, history
<1> QED
  BY <1>1, <1>2, <1>3, <1>4, <1>5, <1>6, <1>7, <1>8, <1>9, <1>10, <1>11, <1>12, <1>13, <1>14,
     <1>15, <1>16 DEF Next, CallStep, WriterStep

-----------------------------------------------------------------------------
(* The deadline and the window *)

\* A step closes the queue, or asks for the seal, only once the deadline was seen.
LEMMA DeadlineStep == ASSUME TypeInv, DeadlineInv, Next PROVE DeadlineInv'
<1> USE DEF DeadlineInv
<1>1. ASSUME NEW c \in Calls, SubmitFrame(c) PROVE DeadlineInv'
  <2>1. /\ UNCHANGED <<spc, sealRequested, queueClosed>>
        /\ deadlineSeen' = (deadlineSeen \/ now' >= EndsAt)
    BY <1>1 DEF SubmitFrame
  <2>2. admissionClosed' \in {admissionClosed, TRUE}
    BY <1>1, SubmitCases
  <2> QED
    BY <2>1, <2>2
<1>2. ASSUME NEW c \in Calls, Receive(c) \/ GiveUp(c) PROVE DeadlineInv'
  BY <1>2 DEF Receive, GiveUp, admission, history
<1>3. ASSUME Take \/ AddToBatch \/ Tick \/ SeeClosed \/ AnswerBatch \/ DrainJob
      PROVE  DeadlineInv'
  BY <1>3 DEF Take, AddToBatch, Tick, SeeClosed, AnswerBatch, DrainJob, admission, callers, history
<1>4. ASSUME Write \/ WriteFails \/ Sync \/ WriteClosed \/ SyncClosed \/ Exit
      PROVE  DeadlineInv'
  <2>1. UNCHANGED <<now, spc, deadlineSeen>>
    BY <1>4 DEF Write, WriteFails, Sync, WriteClosed, SyncClosed, Exit, callers, history
  <2>2. UNCHANGED admission \/ Fail
    BY <1>4 DEF Write, WriteFails, Sync, WriteClosed, SyncClosed, Exit, NoFault
  <2> QED
    BY <2>1, <2>2 DEF Fail, StopQueue, admission
<1>5. ASSUME NEW k \in Sealers, SealStep(k) PROVE DeadlineInv'
  <2>1. UNCHANGED <<now, deadlineSeen>>
    BY <1>5 DEF SealStep, SealChecks, SealWaits, SealStops, SealReturns, SealGivesUp, history
  <2>2. CASE SealStops(k)
    BY <2>1, <2>2 DEF SealStops, StopQueue, admission, TypeInv
  <2>3. CASE ~ SealStops(k)
    BY <2>1, <2>3, <1>5 DEF SealStep, SealChecks, SealWaits, SealReturns, SealGivesUp, admission,
                           DeadlineReached, TypeInv
  <2> QED
    BY <2>2, <2>3
<1>6. ASSUME NEW k \in Closers, CloseStep(k) PROVE DeadlineInv'
  BY <1>6, CallerAssumption
     DEF CloseStep, CloseStops, CloseReturns, StopQueue, admission, history, TypeInv
<1>7. ASSUME NEW t \in Clock, SetClock(t) PROVE DeadlineInv'
  BY <1>7 DEF SetClock, admission, callers
<1>8. ASSUME Crash PROVE DeadlineInv'
  BY <1>8 DEF Crash, admission, callers, history
<1> QED
  BY <1>1, <1>2, <1>3, <1>4, <1>5, <1>6, <1>7, <1>8 DEF Next, CallStep, WriterStep

\* A step admits a job only within the minute, and keeps its time of admission.
LEMMA WindowStep == ASSUME TypeInv, PlaceInv, WindowInv, Next PROVE WindowInv'
<1> USE DEF WindowInv
<1>1. ASSUME NEW c \in Calls, SubmitFrame(c) PROVE WindowInv'
  <2>1. UNCHANGED <<batch, pending>>
    BY <1>1 DEF SubmitFrame, writer
  <2>2. CASE UNCHANGED queue
    BY <2>1, <2>2 DEF InWindow
  <2>3. CASE ~ UNCHANGED queue
    <3>1. PICK t \in Clock : /\ StartsAt <= t /\ t < EndsAt
                             /\ queue' = Append(queue, [call |-> c, admitted |-> t])
      BY <1>1, <2>3, SubmitCases
    <3>2. [call |-> c, admitted |-> t] \in Jobs /\ InWindow([call |-> c, admitted |-> t])
      BY <3>1 DEF Jobs, InWindow
    <3>3. \A i \in 1 .. Len(queue') : InWindow(queue'[i])
      BY <3>1, <3>2, AppendProperties DEF TypeInv
    <3> QED
      BY <2>1, <3>3 DEF InWindow
  <2> QED
    BY <2>2, <2>3
<1>2. ASSUME Take PROVE WindowInv'
  <2>1. /\ queue \in Seq(Jobs) /\ queue # <<>> /\ UNCHANGED batch
        /\ queue' = Tail(queue) /\ pending' = queue[1]
    BY <1>2 DEF Take, TypeInv
  <2>2. \A i \in 1 .. Len(queue') : InWindow(queue'[i])
    BY <2>1, HeadTailProperties
  <2>3. InWindow(pending')
    BY <2>1
  <2> QED
    BY <2>1, <2>2, <2>3 DEF InWindow
<1>3. ASSUME AddToBatch PROVE WindowInv'
  <2>1. /\ UNCHANGED queue /\ pending \in Jobs /\ pending # NoJob /\ pending' = NoJob
        /\ batch \in Seq(Jobs) /\ batch' = Append(batch, pending)
    BY <1>3 DEF AddToBatch, TypeInv, PlaceInv
  <2>2. \A i \in 1 .. Len(batch') : InWindow(batch'[i])
    BY <2>1, AppendProperties
  <2> QED
    BY <2>1, <2>2 DEF InWindow
<1>4. ASSUME DrainJob PROVE WindowInv'
  <2>1. /\ queue \in Seq(Jobs) /\ UNCHANGED batch
        /\ pending' = pending \/ pending' = NoJob
    BY <1>4 DEF DrainJob, TypeInv
  <2>2. queue' = queue \/ (queue # <<>> /\ queue' = Tail(queue))
    BY <1>4 DEF DrainJob
  <2>3. \A i \in 1 .. Len(queue') : InWindow(queue'[i])
    BY <2>1, <2>2, HeadTailProperties
  <2> QED
    BY <2>1, <2>3 DEF InWindow
<1>5. ASSUME AnswerBatch PROVE WindowInv'
  BY <1>5 DEF AnswerBatch, InWindow
<1>6. ASSUME UNCHANGED <<queue, batch, pending>> PROVE WindowInv'
  BY <1>6 DEF InWindow
<1>7. Next => \/ \E c \in Calls : SubmitFrame(c)
              \/ Take \/ AddToBatch \/ DrainJob \/ AnswerBatch
              \/ UNCHANGED <<queue, batch, pending>>
  BY QueueFrame
<1> QED
  BY <1>1, <1>2, <1>3, <1>4, <1>5, <1>6, <1>7

-----------------------------------------------------------------------------
(* The writer *)

\* A step keeps what the place of the writer in its loop says.
LEMMA PlaceStep == ASSUME TypeInv, DeadlineInv, PlaceInv, Next PROVE PlaceInv'
<1> USE DEF PlaceInv, Flushing
<1>1. ASSUME NEW c \in Calls, SubmitFrame(c) PROVE PlaceInv'
  <2>1. UNCHANGED <<wpc, after, pending, batch, poisoned, queueClosed, sealRequested>>
    BY <1>1 DEF SubmitFrame, writer
  <2>2. queueClosed => UNCHANGED queue
    BY <1>1, SubmitCases DEF DeadlineInv
  <2> QED
    BY <2>1, <2>2
<1>2. ASSUME Take PROVE PlaceInv'
  <2>1. pending' \in Jobs
    BY <1>2, HeadTailProperties DEF Take, TypeInv
  <2>2. pending' # NoJob
    BY <2>1, CallerAssumption DEF Jobs, NoJob, Nobody
  <2>3. UNCHANGED <<poisoned, queueClosed, sealRequested, batch>>
    BY <1>2 DEF Take, admission
  <2>4. \/ wpc' = "flush" /\ after' = "append"
        \/ wpc' = "append" /\ after' = after
    BY <1>2 DEF Take
  <2> QED
    BY <1>2, <2>2, <2>3, <2>4 DEF Take
<1>3. ASSUME AddToBatch PROVE PlaceInv'
  BY <1>3 DEF AddToBatch, admission
<1>4. ASSUME Tick PROVE PlaceInv'
  BY <1>4 DEF Tick, admission
<1>5. ASSUME SeeClosed PROVE PlaceInv'
  BY <1>5 DEF SeeClosed, QueueEnded, admission
<1>6. ASSUME Write PROVE PlaceInv'
  BY <1>6 DEF Write, AfterWrite, NoFault, admission
<1>7. ASSUME WriteFails PROVE PlaceInv'
  BY <1>7 DEF WriteFails, Fail, StopQueue
<1>8. ASSUME Sync PROVE PlaceInv'
  BY <1>8 DEF Sync, NoFault, Fail, StopQueue, admission
<1>9. ASSUME AnswerBatch PROVE PlaceInv'
  BY <1>9 DEF AnswerBatch, AfterAnswer, admission
<1>10. ASSUME DrainJob PROVE PlaceInv'
  BY <1>10 DEF DrainJob, admission
<1>11. ASSUME WriteClosed \/ SyncClosed \/ Exit PROVE PlaceInv'
  BY <1>11 DEF WriteClosed, SyncClosed, Exit, NoFault, Fail, StopQueue, admission
<1>12. ASSUME \/ \E c \in Calls : Receive(c) \/ GiveUp(c)
              \/ \E k \in Sealers : SealStep(k)
              \/ \E k \in Closers : CloseStep(k)
              \/ \E t \in Clock : SetClock(t)
              \/ Crash
       PROVE  PlaceInv'
  <2>1. /\ UNCHANGED <<wpc, after, pending, batch, queue, poisoned>>
        /\ queueClosed => queueClosed'
        /\ sealRequested => sealRequested'
    BY <1>12, IdleFrame
  <2> QED
    BY <2>1
<1> QED
  BY <1>1, <1>2, <1>3, <1>4, <1>5, <1>6, <1>7, <1>8, <1>9, <1>10, <1>11, <1>12
     DEF Next, CallStep, WriterStep

\* While the writer works, a step moves calls along the order of admission.
LEMMA WorkStep ==
    ASSUME TypeInv, DeadlineInv, PlaceInv, WorkInv, Next PROVE WorkInv'
<1> SUFFICES ASSUME Working' PROVE ChainInv' /\ FilledInv'
  BY DEF WorkInv
<1>t. /\ sequence \in Nat /\ queue \in Seq(Jobs) /\ batch \in Seq(Jobs) /\ order \in Seq(Calls)
      /\ file \in Seq(Frames) /\ NoJob \notin Jobs /\ InHand \in {0, 1}
  BY CallerAssumption DEF TypeInv, Jobs, NoJob, Nobody, InHand
<1>1. ASSUME NEW c \in Calls, SubmitFrame(c) PROVE ChainInv' /\ FilledInv'
  <2>1. UNCHANGED <<wpc, after, pending, batch, sequence, poisoned, alive, file, synced>>
    BY <1>1 DEF SubmitFrame, writer, disk
  <2>2. ChainInv /\ FilledInv
    BY <2>1 DEF WorkInv, Working
  <2>3. InHand' = InHand
    BY <2>1 DEF InHand
  <2>4. FilledInv'
    BY <2>1, <2>2 DEF FilledInv, Written
  <2>5. CASE UNCHANGED <<queue, order>>
    BY <2>1, <2>2, <2>3, <2>4, <2>5 DEF ChainInv
  <2>6. CASE ~ UNCHANGED <<queue, order>>
    <3>1. PICK t \in Clock : queue' = Append(queue, [call |-> c, admitted |-> t])
      BY <1>1, <2>6, SubmitCases
    <3>2. order' = Append(order, c)
      BY <1>1, <2>6, SubmitCases
    <3>3. /\ Len(queue') = Len(queue) + 1 /\ queue'[Len(queue) + 1].call = c
          /\ \A i \in 1 .. Len(queue) : queue'[i] = queue[i]
      <4>1. [call |-> c, admitted |-> t] \in Jobs
        BY DEF Jobs
      <4> QED
        BY <1>t, <3>1, <4>1, AppendProperties
    <3>4. /\ Len(order') = Len(order) + 1 /\ order'[Len(order) + 1] = c
          /\ \A i \in 1 .. Len(order) : order'[i] = order[i]
      BY <1>t, <3>2, AppendProperties
    <3>5. Len(order') = sequence' + Len(batch') + InHand' + Len(queue')
      BY <1>t, <2>1, <2>2, <2>3, <3>3, <3>4 DEF ChainInv
    <3>6. \A i \in 1 .. Len(batch') : batch'[i].call = order'[sequence' + i]
      <4> SUFFICES ASSUME NEW i \in 1 .. Len(batch)
                   PROVE  batch[i].call = order'[sequence + i]
        BY <2>1
      <4>1. batch[i].call = order[sequence + i]
        BY <2>2 DEF ChainInv
      <4>2. sequence + i \in 1 .. Len(order)
        BY <1>t, <2>2 DEF ChainInv
      <4> QED
        BY <4>1, <4>2, <3>4
    <3>7. pending' # NoJob => pending'.call = order'[sequence' + Len(batch') + 1]
      BY <1>t, <2>1, <2>2, <3>4 DEF ChainInv, InHand
    <3>8. \A i \in 1 .. Len(queue') :
            queue'[i].call = order'[sequence' + Len(batch') + InHand' + i]
      <4> SUFFICES ASSUME NEW i \in 1 .. Len(queue) + 1
                   PROVE  queue'[i].call = order'[sequence + Len(batch) + InHand + i]
        BY <2>1, <2>3, <3>3
      <4>1. Len(order) = sequence + Len(batch) + InHand + Len(queue)
        BY <2>2 DEF ChainInv
      <4>2. CASE i = Len(queue) + 1
        <5>1. sequence + Len(batch) + InHand + i = Len(order) + 1
          BY <1>t, <4>1, <4>2
        <5> QED
          BY <5>1, <4>2, <3>3, <3>4
      <4>3. CASE i \in 1 .. Len(queue)
        <5>1. sequence + Len(batch) + InHand + i \in 1 .. Len(order)
          BY <1>t, <4>1, <4>3
        <5>2. queue[i].call = order[sequence + Len(batch) + InHand + i]
          BY <2>2, <4>3 DEF ChainInv
        <5> QED
          BY <5>1, <5>2, <4>3, <3>3, <3>4
      <4> QED
        BY <1>t, <4>2, <4>3
    <3> QED
      BY <2>4, <3>5, <3>6, <3>7, <3>8 DEF ChainInv
  <2> QED
    BY <2>5, <2>6

<1>2. ASSUME Take PROVE ChainInv' /\ FilledInv'
  <2>1. /\ UNCHANGED <<batch, sequence, order, poisoned, alive, file, synced>>
        /\ wpc = "select" /\ wpc' \in {"flush", "append"} /\ queue # <<>> /\ pending = NoJob
        /\ queue' = Tail(queue) /\ pending' = Head(queue)
    BY <1>2 DEF Take, PlaceInv, admission, disk, history
  <2>2. ChainInv /\ FilledInv
    BY <2>1 DEF WorkInv, Working
  <2>3. /\ pending' = queue[1] /\ pending' \in Jobs
        /\ Len(queue') = Len(queue) - 1 /\ Len(queue) \in Nat \ {0}
        /\ \A i \in 1 .. Len(queue') : queue'[i] = queue[i + 1]
    BY <1>t, <2>1, HeadTailProperties, EmptySeq
  <2>4. InHand = 0 /\ InHand' = 1
    BY <1>t, <2>1, <2>3 DEF InHand
  <2>5. FilledInv'
    BY <2>1, <2>2 DEF FilledInv, Written
  <2>6. /\ Len(order) = sequence + Len(batch) + Len(queue)
        /\ \A i \in 1 .. Len(queue) : queue[i].call = order[sequence + Len(batch) + i]
    BY <1>t, <2>2, <2>4 DEF ChainInv
  <2>7. Len(order') = sequence' + Len(batch') + InHand' + Len(queue')
    BY <1>t, <2>1, <2>3, <2>4, <2>6
  <2>8. \A i \in 1 .. Len(batch') : batch'[i].call = order'[sequence' + i]
    BY <2>1, <2>2 DEF ChainInv
  <2>9. pending'.call = order'[sequence' + Len(batch') + 1]
    <3>1. 1 \in 1 .. Len(queue)
      BY <2>3
    <3>2. queue[1].call = order[sequence + Len(batch) + 1]
      BY <2>6, <3>1
    <3> QED
      BY <2>1, <2>3, <3>2
  <2>10. \A i \in 1 .. Len(queue') :
           queue'[i].call = order'[sequence' + Len(batch') + InHand' + i]
    <3> SUFFICES ASSUME NEW i \in 1 .. Len(queue')
                 PROVE  queue'[i].call = order'[sequence' + Len(batch') + InHand' + i]
      OBVIOUS
    <3>1. queue'[i] = queue[i + 1] /\ i + 1 \in 1 .. Len(queue)
      BY <1>t, <2>3
    <3>2. sequence + Len(batch) + (i + 1) = sequence + Len(batch) + 1 + i
      BY <1>t
    <3> QED
      BY <2>1, <2>4, <2>6, <3>1, <3>2
  <2> QED
    BY <2>5, <2>7, <2>8, <2>9, <2>10 DEF ChainInv
<1>3. ASSUME AddToBatch PROVE ChainInv' /\ FilledInv'
  <2>1. /\ UNCHANGED <<queue, sequence, order, poisoned, alive, file, synced>>
        /\ wpc = "append" /\ wpc' \in {"flush", "select"}
        /\ pending # NoJob /\ pending \in Jobs /\ pending' = NoJob
        /\ batch' = Append(batch, pending)
    BY <1>3 DEF AddToBatch, PlaceInv, TypeInv, admission, disk, history
  <2>2. ChainInv /\ FilledInv
    BY <2>1 DEF WorkInv, Working
  <2>3. /\ Len(batch') = Len(batch) + 1 /\ batch'[Len(batch) + 1] = pending
        /\ \A i \in 1 .. Len(batch) : batch'[i] = batch[i]
    BY <1>t, <2>1, AppendProperties
  <2>4. InHand = 1 /\ InHand' = 0
    BY <2>1 DEF InHand
  <2>5. FilledInv'
    BY <2>1, <2>2 DEF FilledInv, Written
  <2>6. Len(order') = sequence' + Len(batch') + InHand' + Len(queue')
    BY <1>t, <2>1, <2>2, <2>3, <2>4 DEF ChainInv
  <2>7. \A i \in 1 .. Len(batch') : batch'[i].call = order'[sequence' + i]
    <3> SUFFICES ASSUME NEW i \in 1 .. Len(batch) + 1
                 PROVE  batch'[i].call = order[sequence + i]
      BY <2>1, <2>3
    <3>1. CASE i = Len(batch) + 1
      <4>1. sequence + i = sequence + Len(batch) + 1
        BY <1>t, <3>1
      <4> QED
        BY <2>1, <2>2, <2>3, <3>1, <4>1 DEF ChainInv
    <3>2. CASE i \in 1 .. Len(batch)
      BY <2>2, <2>3, <3>2 DEF ChainInv
    <3> QED
      BY <1>t, <3>1, <3>2
  <2>8. \A i \in 1 .. Len(queue') :
          queue'[i].call = order'[sequence' + Len(batch') + InHand' + i]
    BY <1>t, <2>1, <2>2, <2>3, <2>4 DEF ChainInv
  <2> QED
    BY <2>1, <2>5, <2>6, <2>7, <2>8 DEF ChainInv
<1>4. ASSUME AnswerBatch PROVE ChainInv' /\ FilledInv'
  <2>1. /\ UNCHANGED <<queue, pending, order, poisoned, alive, file, synced, after>>
        /\ wpc = "answer" /\ wpc' = after
        /\ batch' = <<>> /\ sequence' = sequence + Len(batch)
    BY <1>4 DEF AnswerBatch, AfterAnswer, Working, admission, disk, history
  <2>2. ChainInv /\ FilledInv
    BY <2>1 DEF WorkInv, Working
  <2>3. InHand' = InHand
    BY <2>1 DEF InHand
  <2>4. Len(batch') = 0
    BY <2>1
  <2>5. wpc' \in {"select", "append", "closing"}
    BY <2>1 DEF PlaceInv
  <2>6. FilledInv'
    <3>1. Len(file) = sequence + Len(batch)
      BY <2>1, <2>2 DEF FilledInv, Written
    <3>2. Written' = 0 /\ wpc' # "answer"
      BY <2>5 DEF Written
    <3> QED
      BY <1>t, <2>1, <3>1, <3>2 DEF FilledInv
  <2>7. Len(order') = sequence' + Len(batch') + InHand' + Len(queue')
    BY <1>t, <2>1, <2>2, <2>3, <2>4 DEF ChainInv
  <2>8. pending' # NoJob => pending'.call = order'[sequence' + Len(batch') + 1]
    BY <1>t, <2>1, <2>2, <2>3, <2>4 DEF ChainInv
  <2>9. \A i \in 1 .. Len(queue') :
          queue'[i].call = order'[sequence' + Len(batch') + InHand' + i]
    BY <1>t, <2>1, <2>2, <2>3, <2>4 DEF ChainInv
  <2> QED
    BY <2>4, <2>6, <2>7, <2>8, <2>9 DEF ChainInv
<1>5. ASSUME DrainJob PROVE FALSE
  BY <1>5 DEF DrainJob, PlaceInv, Working, admission
<1>6. ASSUME UNCHANGED <<queue, batch, pending, sequence, order>>, Working PROVE ChainInv'
  BY <1>6 DEF WorkInv, ChainInv, InHand
<1>7. ASSUME Tick \/ SeeClosed PROVE ChainInv' /\ FilledInv'
  <2>1. /\ UNCHANGED <<queue, batch, pending, sequence, order, poisoned, alive, file, synced>>
        /\ wpc = "select" /\ wpc' \in {"flush", "closing"}
    BY <1>7 DEF Tick, SeeClosed, admission, disk, history
  <2> QED
    BY <1>6, <2>1 DEF WorkInv, Working, FilledInv, Written
<1>8. ASSUME Write PROVE ChainInv' /\ FilledInv'
  <2>1. /\ UNCHANGED <<queue, batch, pending, sequence, order, poisoned, alive>>
        /\ wpc = "flush" /\ wpc' = "sync" /\ file' = file \o Group
    BY <1>8 DEF Write, AfterWrite, NoFault, admission, history
  <2>2. Group \in Seq(Frames) /\ Len(Group) = Len(batch)
    BY <1>t, GroupFacts
  <2>3. Len(file') = Len(file) + Len(batch)
    BY <1>t, <2>1, <2>2, ConcatProperties, ZenonT(40)
  <2>4. Working
    BY <2>1 DEF Working
  <2>5. Len(file) = sequence
    BY <1>t, <2>1, <2>4 DEF WorkInv, FilledInv, Written
  <2>6. FilledInv'
    BY <1>t, <2>1, <2>3, <2>5 DEF FilledInv, Written
  <2> QED
    BY <1>6, <2>1, <2>4, <2>6
<1>9. ASSUME Sync PROVE ChainInv' /\ FilledInv'
  <2>1. /\ UNCHANGED <<queue, batch, pending, sequence, order, poisoned, alive, file>>
        /\ wpc = "sync" /\ wpc' = "answer" /\ synced' = Len(file)
    BY <1>9 DEF Sync, NoFault, Fail, Working, admission, history
  <2> QED
    BY <1>6, <2>1 DEF WorkInv, Working, FilledInv, Written
<1>10. ASSUME WriteClosed PROVE ChainInv' /\ FilledInv'
  <2>1. /\ UNCHANGED <<queue, batch, pending, sequence, order, poisoned, alive>>
        /\ wpc = "closing" /\ wpc' = "syncClosed" /\ file' = Append(file, ClosedFrame(sequence))
    BY <1>10 DEF WriteClosed, NoFault, Fail, Working, admission, history
  <2>2. Len(file') = Len(file) + 1
    BY <1>t, <2>1
  <2> QED
    BY <1>t, <1>6, <2>1, <2>2 DEF WorkInv, Working, FilledInv, Written
<1>11. ASSUME WriteFails \/ SyncClosed \/ Exit PROVE FALSE
  BY <1>11 DEF WriteFails, SyncClosed, Exit, Fail, Working
<1>12. ASSUME \/ \E c \in Calls : Receive(c) \/ GiveUp(c)
              \/ \E k \in Sealers : SealStep(k)
              \/ \E k \in Closers : CloseStep(k)
              \/ \E t \in Clock : SetClock(t)
              \/ Crash
       PROVE  ChainInv' /\ FilledInv'
  <2>1. /\ UNCHANGED <<queue, batch, pending, sequence, order, poisoned, wpc, synced>>
        /\ UNCHANGED <<alive, file>>
    BY <1>12, IdleFrame DEF Working
  <2> QED
    BY <1>6, <2>1 DEF WorkInv, Working, FilledInv, Written
<1> QED
  BY <1>1, <1>2, <1>3, <1>4, <1>5, <1>7, <1>8, <1>9, <1>10, <1>11, <1>12
     DEF Next, CallStep, WriterStep

-----------------------------------------------------------------------------
(* The file *)

\* Admission appends to the order, and not once the queue is closed.
LEMMA OrderGrows ==
    ASSUME TypeInv, DeadlineInv, Next
    PROVE  /\ Len(order) <= Len(order') /\ \A i \in 1 .. Len(order) : order'[i] = order[i]
           /\ queueClosed => UNCHANGED order
           /\ queueClosed => queueClosed'
           /\ deadlineSeen => deadlineSeen'
<1>1. ASSUME NEW c \in Calls, SubmitFrame(c)
      PROVE  /\ UNCHANGED queueClosed
             /\ deadlineSeen => deadlineSeen'
             /\ UNCHANGED order \/ (~ admissionClosed /\ order' = Append(order, c))
  BY <1>1, SubmitCases DEF SubmitFrame
<1>2. ASSUME WriterStep
      PROVE  UNCHANGED <<order, deadlineSeen>> /\ (queueClosed => queueClosed')
  <2>1. UNCHANGED <<order, deadlineSeen>>
    BY <1>2 DEF WriterStep, Take, AddToBatch, Tick, SeeClosed, Write, WriteFails, Sync, AnswerBatch,
                DrainJob, WriteClosed, SyncClosed, Exit, history
  <2>2. UNCHANGED queueClosed \/ queueClosed' = TRUE
    BY <1>2 DEF WriterStep, Take, AddToBatch, Tick, SeeClosed, Write, WriteFails, Sync, AnswerBatch,
                DrainJob, WriteClosed, SyncClosed, Exit, Fail, StopQueue, NoFault, admission
  <2> QED
    BY <2>1, <2>2
<1>3. CASE \E c \in Calls : SubmitFrame(c)
  <2>1. PICK c \in Calls : SubmitFrame(c)
    BY <1>3
  <2>2. CASE UNCHANGED order
    BY <1>1, <2>1, <2>2 DEF TypeInv
  <2>3. CASE ~ UNCHANGED order
    <3>1. order \in Seq(Calls) /\ Len(order) \in Nat /\ order' = Append(order, c)
      BY <1>1, <2>1, <2>3 DEF TypeInv
    <3>2. Len(order') = Len(order) + 1 /\ \A i \in 1 .. Len(order) : order'[i] = order[i]
      BY <3>1, AppendProperties
    <3>3. ~ queueClosed /\ queueClosed' = queueClosed /\ (deadlineSeen => deadlineSeen')
      BY <1>1, <2>1, <2>3 DEF DeadlineInv
    <3> QED
      BY <3>1, <3>2, <3>3
  <2> QED
    BY <2>2, <2>3
<1>4. CASE WriterStep
  BY <1>2, <1>4 DEF TypeInv
<1>5. CASE ~ WriterStep /\ ~ \E c \in Calls : SubmitFrame(c)
  BY <1>5, IdleFrame DEF TypeInv, Next, CallStep
<1> QED
  BY <1>3, <1>4, <1>5

\* A frame that stays where it is stays what it was.
LEMMA FramesStay ==
    ASSUME TypeInv, PlaceInv, DeadlineInv, Next, NEW i \in Nat, file'[i] = file[i]
    PROVE  (VoteAt(i) /\ i > 0 => VoteAt(i)') /\ (ClosedAt(i) => ClosedAt(i)')
<1>1. /\ Len(order) \in Nat /\ Len(order') \in Nat
  BY TypeStep DEF TypeInv
<1>2. ASSUME VoteAt(i), i > 0 PROVE VoteAt(i)'
  <2>1. i \in 1 .. Len(order)
    BY <1>1, <1>2 DEF VoteAt
  <2>2. i <= Len(order') /\ order'[i] = order[i]
    BY <1>1, <2>1, OrderGrows
  <2> QED
    BY <1>2, <2>2 DEF VoteAt, InWindow
<1>3. ASSUME ClosedAt(i) PROVE ClosedAt(i)'
  BY <1>3, OrderGrows DEF ClosedAt
<1> QED
  BY <1>2, <1>3

\* Only these steps touch the disk, or stop the machine.
LEMMA DiskFrame ==
    ASSUME Next
    PROVE  \/ Write \/ WriteFails \/ Sync \/ WriteClosed \/ SyncClosed \/ Crash
           \/ UNCHANGED <<file, synced, alive>> /\ alive
<1>1. ASSUME \E c \in Calls : SubmitFrame(c) PROVE UNCHANGED <<file, synced, alive>>
  BY <1>1 DEF SubmitFrame, disk
<1>2. ASSUME Take \/ AddToBatch \/ Tick \/ SeeClosed \/ AnswerBatch \/ DrainJob \/ Exit
      PROVE  UNCHANGED <<file, synced, alive>>
  BY <1>2 DEF Take, AddToBatch, Tick, SeeClosed, AnswerBatch, DrainJob, Exit, disk
<1>3. ASSUME \/ \E c \in Calls : Receive(c) \/ GiveUp(c)
             \/ \E k \in Sealers : SealStep(k)
             \/ \E k \in Closers : CloseStep(k)
             \/ \E t \in Clock : SetClock(t)
      PROVE  UNCHANGED <<file, synced, alive>>
  BY <1>3 DEF Receive, GiveUp, SealStep, SealChecks, SealWaits, SealStops, SealReturns, SealGivesUp,
              CloseStep, CloseStops, CloseReturns, SetClock, disk
<1> QED
  BY <1>1, <1>2, <1>3 DEF Next, CallStep, WriterStep

\* Whatever happens, what is synced stays.
LEMMA SyncedStays ==
    ASSUME TypeInv, Next
    PROVE  synced' >= synced /\ \A i \in 1 .. synced : file'[i] = file[i]
<1>t. file \in Seq(Frames) /\ synced \in 0 .. Len(file) /\ sequence \in Nat /\ batch \in Seq(Jobs)
  BY DEF TypeInv
<1>1. CASE Write
  <2>1. UNCHANGED synced /\ file' = file \o Group
    BY <1>1 DEF Write
  <2> QED
    BY <1>t, <2>1, GroupFacts, ConcatProperties
<1>2. CASE WriteFails
  <2>1. PICK n \in 0 .. Len(batch) :
          \/ file' = file \o SubSeq(Group, 1, n)
          \/ file' = file \o SubSeq(Group, 1, n) \o <<Torn>>
    BY <1>2 DEF WriteFails
  <2>2. UNCHANGED synced
    BY <1>2 DEF WriteFails
  <2>3. SubSeq(Group, 1, n) \in Seq(Frames) /\ Torn \in Frames
    <3>1. Group \in Seq(Frames) /\ Len(Group) = Len(batch)
      BY <1>t, GroupFacts
    <3>2. n \in 0 .. Len(Group)
      BY <3>1
    <3>3. Torn \in Frames
      BY TimeAssumption DEF Torn, Frames, Clock
    <3> QED
      BY <3>1, <3>2, <3>3, PrefixFacts
  <2>4. \A i \in 1 .. Len(file) :
          /\ (file \o SubSeq(Group, 1, n))[i] = file[i]
          /\ (file \o SubSeq(Group, 1, n) \o <<Torn>>)[i] = file[i]
    BY <1>t, <2>3
  <2> QED
    BY <1>t, <2>1, <2>2, <2>4
<1>3. CASE WriteClosed
  <2>1. UNCHANGED synced
    BY <1>3 DEF WriteClosed
  <2>2. \A e \in {Torn, ClosedFrame(sequence)} : \A i \in 1 .. Len(file) :
          Append(file, e)[i] = file[i]
    BY <1>t
  <2>3. file' \in {file, Append(file, Torn), Append(file, ClosedFrame(sequence))}
    BY <1>3 DEF WriteClosed
  <2> QED
    BY <1>t, <2>1, <2>2, <2>3
<1>4. CASE Sync \/ SyncClosed
  BY <1>t, <1>4 DEF Sync, SyncClosed
<1>5. CASE Crash
  BY <1>t, <1>5, CrashFacts DEF Crash
<1>6. CASE UNCHANGED <<file, synced>>
  BY <1>t, <1>6
<1> QED
  BY <1>1, <1>2, <1>3, <1>4, <1>5, <1>6, DiskFrame

\* What a flush writes of its batch is the next calls in the order of admission.
LEMMA FlushedFrames ==
    ASSUME TypeInv, PlaceInv, WindowInv, WorkInv, alive, wpc = "flush",
           UNCHANGED order, NEW j \in 1 .. Len(batch),
           NEW i \in Nat, i = Len(file) + j, file'[i] = Group[j]
    PROVE  VoteAt(i)'
<1>t. /\ sequence \in Nat /\ batch \in Seq(Jobs) /\ file \in Seq(Frames) /\ order \in Seq(Calls)
      /\ queue \in Seq(Jobs)
  BY DEF TypeInv
<1>1. /\ Len(order) = sequence + Len(batch) + InHand + Len(queue) /\ InHand \in {0, 1}
      /\ batch[j].call = order[sequence + j]
      /\ Len(file) = sequence + Written /\ Written = 0
  BY DEF WorkInv, Working, PlaceInv, ChainInv, FilledInv, InHand, Written
<1>2. file'[i] = VoteFrame(batch[j].call, sequence + j - 1, batch[j].admitted)
  BY <1>t, GroupFacts
<1>3. InWindow(batch[j])
  BY DEF WindowInv
<1>4. i = sequence + j /\ i <= Len(order) /\ sequence + j - 1 = i - 1
  BY <1>t, <1>1
<1> QED
  BY <1>1, <1>2, <1>3, <1>4 DEF VoteAt, InWindow, VoteFrame

\* A writer that has written CLOSED, or is done with its file, only goes on to its end.
LEMMA PoisonFrame ==
    ASSUME PlaceInv, Next, ~ (Write \/ WriteFails \/ Sync \/ WriteClosed \/ SyncClosed)
    PROVE  /\ poisoned => poisoned'
           /\ wpc' = "syncClosed" => wpc = "syncClosed"
           /\ wpc \in {"syncClosed", "exit", "done"} => wpc' \in {"syncClosed", "exit", "done"}
<1> DEFINE Goal ==
        /\ poisoned => poisoned'
        /\ wpc' = "syncClosed" => wpc = "syncClosed"
        /\ wpc \in {"syncClosed", "exit", "done"} => wpc' \in {"syncClosed", "exit", "done"}
<1>1. ASSUME \E c \in Calls : SubmitFrame(c) PROVE Goal
  BY <1>1 DEF SubmitFrame, writer
<1>2. ASSUME Take \/ AddToBatch \/ Tick \/ SeeClosed \/ DrainJob PROVE Goal
  BY <1>2 DEF Take, AddToBatch, Tick, SeeClosed, DrainJob, admission
<1>3. ASSUME AnswerBatch PROVE Goal
  BY <1>3 DEF AnswerBatch, AfterAnswer, PlaceInv, admission
<1>4. ASSUME Exit PROVE Goal
  BY <1>4 DEF Exit, NoFault, Fail, admission
<1>5. CASE \/ \E c \in Calls : Receive(c) \/ GiveUp(c)
           \/ \E k \in Sealers : SealStep(k)
           \/ \E k \in Closers : CloseStep(k)
           \/ \E t \in Clock : SetClock(t)
           \/ Crash
  BY <1>5, IdleFrame
<1> QED
  BY <1>1, <1>2, <1>3, <1>4, <1>5 DEF Next, CallStep, WriterStep

\* A step writes the next calls of the order, or CLOSED behind the last of them; a disk
\* or a machine that fails spoils only what no sync has covered.
LEMMA FileStep ==
    ASSUME TypeInv, DeadlineInv, WindowInv, PlaceInv, WorkInv, FileInv, Next PROVE FileInv'
<1>t. /\ file \in Seq(Frames) /\ file' \in Seq(Frames) /\ synced \in 0 .. Len(file)
      /\ synced' \in 0 .. Len(file') /\ Len(order) \in Nat /\ Torn \in Frames
  BY TypeStep, TimeAssumption DEF TypeInv, Torn, Frames, Clock
<1>s. \A i \in 1 .. synced : VoteAt(i)' \/ ClosedAt(i)'
  <2> SUFFICES ASSUME NEW i \in 1 .. synced PROVE VoteAt(i)' \/ ClosedAt(i)'
    OBVIOUS
  <2>1. i \in Nat /\ i > 0 /\ file'[i] = file[i]
    BY <1>t, SyncedStays
  <2> QED
    BY <2>1, FramesStay DEF FileInv
\* A step that leaves the frames where they are, and syncs at most a clean file.
<1>u. ASSUME UNCHANGED file, UNCHANGED synced \/ (synced' = Len(file) /\ alive /\ ~ poisoned),
             alive' => alive, ~ poisoned' => ~ poisoned, wpc' = "syncClosed" => wpc = "syncClosed",
             wpc \in {"syncClosed", "exit", "done"} => wpc' \in {"syncClosed", "exit", "done"}
      PROVE  FileInv'
  <2>1. \A i \in 1 .. Len(file) :
          (VoteAt(i) => VoteAt(i)') /\ (ClosedAt(i) => ClosedAt(i)')
    BY <1>t, <1>u, FramesStay
  <2>2. \A i \in 1 .. Len(file') : WholeOrSpoilt(i)'
    BY <1>u, <2>1 DEF FileInv, WholeOrSpoilt
  <2>3. \A i \in 1 .. synced' : VoteAt(i)' \/ ClosedAt(i)'
    BY <1>s, <1>u, <2>1 DEF FileInv, VotesThenClosed
  <2>4. alive' => \A i \in 1 .. Len(file') : VotesThenEnd(i)'
    BY <1>u, <2>1 DEF FileInv, VotesThenEnd
  <2>5. alive' /\ ~ poisoned' => \A i \in 1 .. Len(file') : VotesThenClosed(i)'
    BY <1>u, <2>1 DEF FileInv, VotesThenClosed
  <2>6. alive' /\ wpc' = "syncClosed" => file' # <<>> /\ ClosedAt(Len(file))'
    <3> SUFFICES ASSUME alive', wpc' = "syncClosed" PROVE file' # <<>> /\ ClosedAt(Len(file))'
      OBVIOUS
    <3>1. file # <<>> /\ ClosedAt(Len(file))
      BY <1>u DEF FileInv
    <3>2. Len(file) \in 1 .. Len(file)
      BY <1>t, <3>1
    <3>3. PICK n \in Nat : n = Len(file) /\ n \in 1 .. Len(file)
      BY <1>t, <3>2
    <3>4. ClosedAt(n)
      BY <3>1, <3>3
    <3>5. ClosedAt(n)'
      BY <2>1, <3>3, <3>4
    <3>6. n = Len(file')
      BY <3>3, <1>u
    <3> QED
      BY <1>u, <3>1, <3>5, <3>6 DEF ClosedAt
  <2> QED
    BY <2>2, <2>3, <2>4, <2>5, <2>6 DEF FileInv

\* A step that leaves votes up to the end of the file, where CLOSED or a torn frame may be.
<1>w. ASSUME UNCHANGED synced, \A i \in 1 .. Len(file') : VotesThenEnd(i)', wpc' # "syncClosed",
             \A i \in 1 .. Len(file') : ~ poisoned' => VoteAt(i)'
      PROVE  FileInv'
  <2>1. \A i \in 1 .. Len(file') : WholeOrSpoilt(i)'
    BY <1>w DEF WholeOrSpoilt, VotesThenEnd
  <2>2. \A i \in 1 .. synced' : VoteAt(i)' \/ ClosedAt(i)'
    BY <1>s, <1>w
  <2>3. ~ poisoned' => \A i \in 1 .. Len(file') : VotesThenClosed(i)'
    BY <1>w DEF VotesThenClosed
  <2> QED
    BY <1>w, <2>1, <2>2, <2>3 DEF FileInv
\* In the middle of its work the writer has only votes in the file.
<1>o. ASSUME alive, wpc \in {"flush", "closing"}, NEW i \in 1 .. Len(file), file'[i] = file[i]
      PROVE  VoteAt(i)'
  <2>1. VoteAt(i)
    BY <1>o DEF FileInv, VotesThenClosed, PlaceInv
  <2> QED
    BY <1>t, <1>o, <2>1, FramesStay
<1>1. ASSUME alive, Write PROVE FileInv'
  <2>1. /\ UNCHANGED <<synced, order>> /\ file' = file \o Group
        /\ wpc = "flush" /\ wpc' = "sync"
    BY <1>1 DEF Write, AfterWrite, history
  <2>2. Group \in Seq(Frames) /\ Len(Group) = Len(batch) /\ batch \in Seq(Jobs)
    BY GroupFacts DEF TypeInv
  <2>3. /\ Len(file') = Len(file) + Len(batch)
        /\ \A i \in 1 .. Len(file) : file'[i] = file[i]
        /\ \A j \in 1 .. Len(batch) : file'[Len(file) + j] = Group[j]
    <3> DEFINE f == file \o Group
    <3>1. /\ f \in Seq(Frames) /\ Len(f) = Len(file) + Len(Group)
          /\ \A i \in 1 .. Len(file) : f[i] = file[i]
          /\ \A j \in 1 .. Len(Group) : f[Len(file) + j] = Group[j]
      BY <1>t, <2>2, JoinFacts
    <3>2. file' = f
      BY <2>1
    <3> HIDE DEF f
    <3> QED
      BY <2>2, <3>1, <3>2
  <2>4. \A i \in 1 .. Len(file') : VoteAt(i)'
    <3> SUFFICES ASSUME NEW i \in 1 .. Len(file') PROVE VoteAt(i)'
      OBVIOUS
    <3>1. CASE i \in 1 .. Len(file)
      BY <1>o, <1>1, <2>1, <2>3, <3>1
    <3>2. CASE i > Len(file)
      <4>1. PICK j \in 1 .. Len(batch) : i = Len(file) + j
        <5>1. i - Len(file) \in 1 .. Len(batch) /\ i = Len(file) + (i - Len(file))
          BY <1>t, <2>2, <2>3, <3>2
        <5> QED
          BY <5>1
      <4>2. i \in Nat /\ file'[i] = Group[j]
        BY <2>3, <4>1
      <4> QED
        BY <1>1, <2>1, <4>1, <4>2, FlushedFrames
    <3> QED
      BY <1>t, <3>1, <3>2
  <2> QED
    BY <1>w, <2>1, <2>4 DEF VotesThenEnd
<1>2. ASSUME alive, WriteFails PROVE FileInv'
  <2>1. /\ UNCHANGED <<synced, order>> /\ poisoned' /\ wpc = "flush" /\ wpc' = "answer"
    BY <1>2 DEF WriteFails, Fail, history
  <2>2. Group \in Seq(Frames) /\ Len(Group) = Len(batch) /\ batch \in Seq(Jobs)
    BY GroupFacts DEF TypeInv
  <2>3. PICK n \in 0 .. Len(batch) :
          \/ file' = file \o SubSeq(Group, 1, n)
          \/ file' = file \o SubSeq(Group, 1, n) \o <<Torn>>
    BY <1>2 DEF WriteFails
  <2> DEFINE g == SubSeq(Group, 1, n)
  <2>4. g \in Seq(Frames) /\ Len(g) = n /\ \A j \in 1 .. n : g[j] = Group[j]
    BY <2>2, PrefixFacts
  <2> HIDE DEF g
  <2>5. /\ file \o g \in Seq(Frames) /\ Len(file \o g) = Len(file) + n
        /\ \A i \in 1 .. Len(file) : (file \o g)[i] = file[i]
        /\ \A j \in 1 .. n : (file \o g)[Len(file) + j] = Group[j]
    BY <1>t, <2>4, JoinFacts
  <2>6. /\ \A i \in 1 .. Len(file) + n : file'[i] = (file \o g)[i]
        /\ Len(file') = Len(file) + n
           \/ (Len(file') = Len(file) + n + 1 /\ file'[Len(file')] = Torn)
    <3>1. CASE file' = file \o g
      BY <3>1, <2>5
    <3>2. CASE file' = (file \o g) \o <<Torn>>
      <4> DEFINE f == file \o g
      <4> HIDE DEF f
      <4>2. f \in Seq(Frames) /\ Len(f) = Len(file) + n
        BY <2>5 DEF f
      <4>3. file' = Append(f, Torn)
        BY <3>2, <4>2, <1>t, AppendIsConcat DEF f
      <4>4. \A e \in Frames :
              /\ Len(Append(f, e)) = Len(f) + 1 /\ Append(f, e)[Len(f) + 1] = e
              /\ \A i \in 1 .. Len(f) : Append(f, e)[i] = f[i]
        BY <4>2, AppendProperties
      <4>5. /\ Len(file') = Len(f) + 1 /\ file'[Len(f) + 1] = Torn
            /\ \A i \in 1 .. Len(f) : file'[i] = f[i]
        BY <4>3, <4>4, <1>t
      <4> QED
        BY <4>2, <4>5, <1>t DEF f
    <3> QED
      BY <3>1, <3>2, <2>3 DEF g
  <2>7. \A i \in 1 .. Len(file) + n : VoteAt(i)'
    <3> SUFFICES ASSUME NEW i \in 1 .. Len(file) + n PROVE VoteAt(i)'
      OBVIOUS
    <3>1. CASE i \in 1 .. Len(file)
      BY <1>o, <1>2, <2>1, <2>5, <2>6, <3>1
    <3>2. CASE i > Len(file)
      <4>1. PICK j \in 1 .. n : i = Len(file) + j
        <5>1. i - Len(file) \in 1 .. n /\ i = Len(file) + (i - Len(file))
          BY <1>t, <3>2
        <5> QED
          BY <5>1
      <4>2. i \in Nat /\ file'[i] = Group[j] /\ j \in 1 .. Len(batch)
        BY <2>2, <2>5, <2>6, <4>1, SMTT(30)
      <4> QED
        BY <1>2, <2>1, <4>1, <4>2, FlushedFrames
    <3> QED
      BY <1>t, <3>1, <3>2
  <2>8. \A i \in 1 .. Len(file') : VotesThenEnd(i)'
    <3> SUFFICES ASSUME NEW i \in 1 .. Len(file') PROVE VotesThenEnd(i)'
      OBVIOUS
    <3>1. CASE i \in 1 .. Len(file) + n
      BY <2>7, <3>1 DEF VotesThenEnd
    <3>2. CASE i = Len(file') /\ file'[Len(file')] = Torn
      BY <3>2 DEF VotesThenEnd, Torn
    <3> QED
      BY <1>t, <2>6, <3>1, <3>2
  <2> QED
    BY <1>w, <2>1, <2>8
<1>3. ASSUME alive, WriteClosed PROVE FileInv'
  <2>1. /\ UNCHANGED <<synced, alive, order>> /\ wpc = "closing" /\ ~ poisoned
        /\ sealRequested => deadlineSeen /\ queueClosed
    BY <1>3 DEF WriteClosed, PlaceInv, DeadlineInv, history
  <2>2. CASE UNCHANGED file /\ NoFault /\ wpc' = "exit"
    BY <1>u, <2>1, <2>2, <1>3 DEF NoFault, admission
  <2>3. Len(file) = sequence /\ sequence = Len(order)
    BY <1>3, <2>1 DEF WorkInv, Working, ChainInv, FilledInv, Written, InHand, PlaceInv, TypeInv
  <2>4. ASSUME NEW e \in {Torn, ClosedFrame(sequence)}, file' = Append(file, e)
        PROVE  /\ Len(file') = Len(file) + 1 /\ file'[Len(file) + 1] = e
               /\ \A i \in 1 .. Len(file) : file'[i] = file[i]
    BY <1>t, <2>4
  <2>5. ASSUME file' = Append(file, ClosedFrame(sequence)), sealRequested, NEW i \in Nat, i = Len(file')
        PROVE  ClosedAt(i)'
    <3>1. /\ file'[i] = ClosedFrame(sequence) /\ i = Len(order) + 1
      BY <1>t, <2>3, <2>4, <2>5
    <3>2. sequence = i - 1 /\ UNCHANGED order /\ deadlineSeen' /\ queueClosed'
      BY <1>t, <2>1, <2>3, <2>5, <3>1, OrderGrows
    <3> QED
      BY <3>1, <3>2 DEF ClosedAt, ClosedFrame
  <2>6. CASE /\ file' = Append(file, ClosedFrame(sequence)) /\ sealRequested
             /\ NoFault /\ wpc' = "syncClosed"
    <3>1. \A i \in 1 .. Len(file') : VoteAt(i)' \/ (i = Len(file') /\ ClosedAt(i)')
      <4> SUFFICES ASSUME NEW i \in 1 .. Len(file')
                   PROVE  VoteAt(i)' \/ (i = Len(file') /\ ClosedAt(i)')
        OBVIOUS
      <4>1. CASE i = Len(file')
        BY <1>t, <2>5, <2>6, <4>1
      <4>2. CASE i \in 1 .. Len(file)
        BY <1>o, <1>3, <2>1, <2>4, <2>6, <4>2
      <4> QED
        BY <1>t, <2>4, <2>6, <4>1, <4>2
    <3>2. \A i \in Nat : i = Len(file') => ClosedAt(i)'
      BY <2>5, <2>6
    <3>3. file' # <<>> /\ ClosedAt(Len(file))'
      <4>1. PICK n \in Nat : n = Len(file')
        BY <1>t
      <4>2. ClosedAt(n)'
        BY <3>2, <4>1
      <4> QED
        BY <1>t, <2>6, <4>1, <4>2 DEF ClosedAt
    <3> QED
      BY <1>s, <2>1, <2>6, <3>1, <3>3
         DEF FileInv, WholeOrSpoilt, VotesThenEnd, VotesThenClosed
  <2>7. CASE /\ file' \in {file, Append(file, Torn), Append(file, ClosedFrame(sequence))}
             /\ sealRequested /\ Fail /\ wpc' = "exit"
    <3>1. \A i \in 1 .. Len(file') : VotesThenEnd(i)'
      <4> SUFFICES ASSUME NEW i \in 1 .. Len(file') PROVE VotesThenEnd(i)'
        OBVIOUS
      <4>1. CASE UNCHANGED file
        BY <1>o, <1>3, <2>1, <4>1 DEF VotesThenEnd
      <4>2. ASSUME NEW e \in {Torn, ClosedFrame(sequence)}, file' = Append(file, e),
                   i \in 1 .. Len(file)
            PROVE  VotesThenEnd(i)'
        BY <1>o, <1>3, <2>1, <2>4, <4>2 DEF VotesThenEnd
      <4>3. ASSUME file' = Append(file, Torn), i = Len(file') PROVE VotesThenEnd(i)'
        BY <1>t, <2>4, <4>3 DEF VotesThenEnd, Torn
      <4>4. ASSUME file' = Append(file, ClosedFrame(sequence)), i = Len(file')
            PROVE  VotesThenEnd(i)'
        BY <1>t, <2>5, <2>7, <4>4 DEF VotesThenEnd
      <4>5. i \in 1 .. Len(file) \/ UNCHANGED file \/ i = Len(file')
        BY <1>t, <2>4, <2>7
      <4> QED
        BY <2>7, <4>1, <4>2, <4>3, <4>4, <4>5
    <3> QED
      BY <1>w, <2>1, <2>7, <3>1 DEF Fail
  <2> QED
    BY <1>3, <2>2, <2>6, <2>7 DEF WriteClosed
<1>4. ASSUME alive, Sync \/ SyncClosed PROVE FileInv'
  <2>1. /\ UNCHANGED <<file, alive>> /\ wpc \in {"sync", "syncClosed"} /\ ~ poisoned
        /\ wpc' \in {"answer", "exit"} /\ (wpc = "syncClosed" => wpc' = "exit")
        /\ UNCHANGED synced \/ synced' = Len(file)
    BY <1>4 DEF Sync, SyncClosed, PlaceInv
  <2> QED
    BY <1>u, <1>4, <2>1
<1>5. ASSUME Crash PROVE FileInv'
  <2>1. UNCHANGED synced /\ ~ alive'
    BY <1>5 DEF Crash
  <2>2. Len(file') \in synced .. Len(file) /\ \A i \in 1 .. Len(file') : file'[i] \in {file[i], Bad, Torn}
    BY <1>5, CrashFacts
  <2>3. ASSUME NEW i \in 1 .. Len(file') PROVE WholeOrSpoilt(i)'
    <3>1. CASE file'[i] = file[i]
      <4>1. i \in 1 .. Len(file) /\ i \in Nat /\ i > 0
        BY <1>t, <2>2
      <4>2. WholeOrSpoilt(i)
        BY <4>1 DEF FileInv
      <4> QED
        BY <3>1, <4>1, <4>2, FramesStay DEF WholeOrSpoilt
    <3>2. CASE file'[i] \in {Bad, Torn}
      BY <3>2 DEF WholeOrSpoilt, Bad, Torn
    <3> QED
      BY <2>2, <3>1, <3>2
  <2> QED
    BY <1>s, <2>1, <2>3 DEF FileInv
<1>6. ASSUME UNCHANGED <<file, synced, alive>>, alive,
             ~ (Write \/ WriteFails \/ Sync \/ WriteClosed \/ SyncClosed \/ Crash)
      PROVE  FileInv'
  <2>1. ~ poisoned' => ~ poisoned
    BY <1>6, PoisonFrame
  <2>2. /\ wpc' = "syncClosed" => wpc = "syncClosed"
        /\ wpc \in {"syncClosed", "exit", "done"} => wpc' \in {"syncClosed", "exit", "done"}
    BY <1>6, PoisonFrame
  <2> QED
    BY <1>u, <1>6, <2>1, <2>2
<1> QED
  BY <1>1, <1>2, <1>3, <1>4, <1>5, <1>6, DiskFrame DEF Next

-----------------------------------------------------------------------------
(* Receipts *)

\* Only the answer to a batch that was synced makes a receipt; the caller takes it over.
LEMMA ReceiptFrame ==
    ASSUME TypeInv, Next, NEW c \in Calls
    PROVE  /\ \/ result'[c] = result[c] \/ result'[c] = reply[c]
              \/ result'[c].kind # "ack"
           /\ \/ reply'[c] = reply[c]
              \/ reply'[c].kind # "ack"
              \/ alive /\ AnswerBatch /\ ~ poisoned /\ InBatch(c) /\ reply'[c] = Ack(OffsetOf(c))
<1> DEFINE Goal ==
        /\ \/ result'[c] = result[c] \/ result'[c] = reply[c]
           \/ result'[c].kind # "ack"
        /\ \/ reply'[c] = reply[c]
           \/ reply'[c].kind # "ack"
           \/ alive /\ AnswerBatch /\ ~ poisoned /\ InBatch(c) /\ reply'[c] = Ack(OffsetOf(c))
<1>t. reply \in [Calls -> Results] /\ result \in [Calls -> Results]
  BY DEF TypeInv
<1>e. \A e : Err(e).kind = e
  BY DEF Err
<1>1. ASSUME NEW d \in Calls, SubmitFrame(d) PROVE Goal
  <2>1. UNCHANGED reply
    BY <1>1 DEF SubmitFrame
  <2>2. \E e \in {"poison", "closed", "not_open", "busy", "cancelled", "queued"} :
          result' = [result EXCEPT ![d] = Err(e)]
    BY <1>1, SubmitCases
  <2> QED
    BY <1>t, <1>e, <2>1, <2>2
<1>2. ASSUME NEW d \in Calls, Receive(d) \/ GiveUp(d) PROVE Goal
  BY <1>t, <1>e, <1>2 DEF Receive, GiveUp, Return
<1>3. ASSUME alive, AnswerBatch PROVE Goal
  <2>1. UNCHANGED result
    BY <1>3 DEF AnswerBatch
  <2>2. reply'[c] = IF InBatch(c) THEN IF poisoned THEN Err("poison") ELSE Ack(OffsetOf(c))
                    ELSE reply[c]
    BY <1>3 DEF AnswerBatch
  <2> QED
    BY <1>3, <1>e, <2>1, <2>2
<1>4. ASSUME DrainJob PROVE Goal
  <2>1. UNCHANGED result
    BY <1>4 DEF DrainJob
  <2>2. \/ UNCHANGED reply
        \/ \E d : reply' = [reply EXCEPT ![d] = Err("poison")]
    BY <1>4 DEF DrainJob
  <2> QED
    BY <1>t, <1>e, <2>1, <2>2
<1>5. ASSUME \/ Take \/ AddToBatch \/ Tick \/ SeeClosed \/ Write \/ WriteFails \/ Sync
             \/ WriteClosed \/ SyncClosed \/ Exit
      PROVE  Goal
  BY <1>5 DEF Take, AddToBatch, Tick, SeeClosed, Write, WriteFails, Sync, WriteClosed, SyncClosed,
              Exit, callers
<1>6. ASSUME \/ \E k \in Sealers : SealStep(k)
             \/ \E k \in Closers : CloseStep(k)
             \/ \E t \in Clock : SetClock(t)
             \/ Crash
      PROVE  Goal
  BY <1>6 DEF SealStep, SealChecks, SealWaits, SealStops, SealReturns, SealGivesUp, CloseStep,
              CloseStops, CloseReturns, SetClock, Crash, callers
<1> QED
  BY <1>1, <1>2, <1>3, <1>4, <1>5, <1>6 DEF Next, CallStep, WriterStep

\* A step gives receipts only for frames that a sync has covered.
LEMMA AckStep ==
    ASSUME TypeInv, DeadlineInv, PlaceInv, WorkInv, FileInv, AckInv, Next PROVE AckInv'
<1>t. /\ reply \in [Calls -> Results] /\ result \in [Calls -> Results]
      /\ reply' \in [Calls -> Results] /\ result' \in [Calls -> Results]
      /\ synced \in Nat /\ synced' \in Nat /\ synced <= Len(file) /\ sequence \in Nat
      /\ batch \in Seq(Jobs) /\ file \in Seq(Frames)
  BY TypeStep DEF TypeInv
\* A receipt stays true.
<1>1. ASSUME NEW c \in Calls, NEW r \in Results, Found(r, c) PROVE Found(r, c)'
  <2> SUFFICES ASSUME r.kind = "ack" PROVE Found(r, c)'
    BY DEF Found
  <2>1. PICK i \in Nat : i = r.offset + 1
    BY DEF Results
  <2>2. i \in 1 .. synced /\ VoteAt(i) /\ file[i].call = c /\ r.offset \in Nat
    BY <1>t, <1>1, <2>1 DEF Found, Results
  <2>3. VoteAt(i)' /\ file'[i].call = c
    BY <1>t, <2>2, SyncedStays, FramesStay
  <2>4. r.offset < synced'
    BY <1>t, <2>1, <2>2, SyncedStays
  <2> QED
    BY <2>1, <2>3, <2>4 DEF Found, VoteAt
\* A new receipt is true.
<1>2. ASSUME NEW c \in Calls, alive, AnswerBatch, ~ poisoned, InBatch(c),
             NEW r \in Results, r = Ack(OffsetOf(c))
      PROVE  Found(r, c)
  <2>1. PICK j \in 1 .. Len(batch) : batch[j].call = c /\ OffsetOf(c) = sequence + j - 1
    BY <1>t, <1>2, OffsetFacts
  <2>2. wpc = "answer"
    BY <1>2 DEF AnswerBatch
  <2>3. /\ Len(file) = sequence + Len(batch) /\ synced = Len(file)
        /\ batch[j].call = order[sequence + j]
    BY <1>2, <2>2 DEF WorkInv, Working, ChainInv, FilledInv, Written
  <2>4. PICK i \in Nat : i = sequence + j
    BY <1>t
  <2>5. i \in 1 .. Len(file) /\ r.offset = i - 1 /\ r.offset + 1 = i /\ r.offset < synced
    BY <1>t, <1>2, <2>1, <2>3, <2>4 DEF Ack
  <2>6. VoteAt(i)
    BY <1>2, <2>2, <2>5 DEF FileInv, VotesThenClosed
  <2>7. file[i].call = c
    BY <2>1, <2>3, <2>4, <2>6 DEF VoteAt
  <2> QED
    BY <2>5, <2>6, <2>7 DEF Found
<1>3. ASSUME NEW c \in Calls PROVE Found(reply[c], c)'
  <2>1. PICK r \in Results : r = reply'[c]
    BY <1>t
  <2>2. Found(r, c)'
    <3>1. CASE r = reply[c]
      BY <1>1, <3>1 DEF AckInv
    <3>2. CASE r.kind # "ack"
      BY <3>2 DEF Found
    <3>3. CASE alive /\ AnswerBatch /\ ~ poisoned /\ InBatch(c) /\ r = Ack(OffsetOf(c))
      BY <1>1, <1>2, <3>3
    <3> QED
      BY <2>1, <3>1, <3>2, <3>3, ReceiptFrame
  <2> QED
    BY <2>1, <2>2 DEF Found, VoteAt
<1>4. ASSUME NEW c \in Calls PROVE Found(result[c], c)'
  <2>1. PICK r \in Results : r = result'[c]
    BY <1>t
  <2>2. Found(r, c)'
    <3>1. CASE r = reply[c] \/ r = result[c]
      BY <1>1, <3>1 DEF AckInv
    <3>2. CASE r.kind # "ack"
      BY <3>2 DEF Found
    <3> QED
      BY <2>1, <3>1, <3>2, ReceiptFrame
  <2> QED
    BY <2>1, <2>2 DEF Found, VoteAt
<1> QED
  BY <1>3, <1>4 DEF AckInv

\* Once the writer is at its end it stays there.
LEMMA DoneFrame ==
    ASSUME PlaceInv, Next, wpc \in {"exit", "done"} PROVE wpc' \in {"exit", "done"}
<1>1. ASSUME WriterStep PROVE wpc' = "done"
  BY <1>1 DEF WriterStep, Take, AddToBatch, Tick, SeeClosed, Write, WriteFails, Sync, AnswerBatch,
              DrainJob, WriteClosed, SyncClosed, Exit
<1>2. ASSUME \E c \in Calls : SubmitFrame(c) PROVE UNCHANGED wpc
  BY <1>2 DEF SubmitFrame, writer
<1> QED
  BY <1>1, <1>2, IdleFrame DEF Next, CallStep

\* Only the sync of CLOSED makes a manifest.
LEMMA ManifestFrame == ASSUME Next PROVE UNCHANGED manifest \/ (alive /\ SyncClosed)
<1>1. ASSUME \/ Take \/ AddToBatch \/ Tick \/ SeeClosed \/ Write \/ WriteFails \/ Sync
             \/ AnswerBatch \/ DrainJob \/ WriteClosed \/ Exit
      PROVE  UNCHANGED manifest
  BY <1>1 DEF Take, AddToBatch, Tick, SeeClosed, Write, WriteFails, Sync, AnswerBatch, DrainJob,
              WriteClosed, Exit
<1>2. ASSUME \E c \in Calls : SubmitFrame(c) PROVE UNCHANGED manifest
  BY <1>2 DEF SubmitFrame
<1> QED
  BY <1>1, <1>2, IdleFrame DEF Next, CallStep, WriterStep

\* Seal returns an offset only from the manifest.
LEMMA SealFrame ==
    ASSUME TypeInv, Next, NEW k \in Sealers, sealResult'[k] # sealResult[k],
           sealResult'[k].kind = "ack"
    PROVE  manifest # <<>> /\ sealResult'[k].offset = manifest[1]
<1>1. ASSUME NEW s \in Sealers, SealStep(s)
      PROVE  manifest # <<>> /\ sealResult'[k].offset = manifest[1]
  <2>1. SealReturns(s) \/ SealGivesUp(s)
    BY <1>1 DEF SealStep, SealChecks, SealWaits, SealStops
  <2>2. \/ sealResult' = [sealResult EXCEPT ![s] = Err("cancelled")]
        \/ sealResult' = [sealResult EXCEPT ![s] = Err("poison")]
        \/ sealResult' = [sealResult EXCEPT ![s] = Err("closed")]
        \/ manifest # <<>> /\ sealResult' = [sealResult EXCEPT ![s] = Ack(manifest[1])]
    BY <2>1 DEF SealReturns, SealGivesUp
  <2>3. \A e : Err(e).kind = e
    BY DEF Err
  <2>4. s = k
    BY <2>2 DEF TypeInv
  <2> QED
    BY <2>2, <2>3, <2>4 DEF TypeInv, Ack
<1>2. ASSUME ~ \E s \in Sealers : SealStep(s) PROVE UNCHANGED sealResult
  <2>1. ASSUME WriterStep PROVE UNCHANGED sealResult
    BY <2>1 DEF WriterStep, Take, AddToBatch, Tick, SeeClosed, Write, WriteFails, Sync, AnswerBatch,
                DrainJob, WriteClosed, SyncClosed, Exit, callers
  <2>2. ASSUME \/ \E c \in Calls : CallStep(c)
               \/ \E x \in Closers : CloseStep(x)
               \/ \E t \in Clock : SetClock(t)
               \/ Crash
        PROVE  UNCHANGED sealResult
    BY <2>2 DEF CallStep, SubmitFrame, Receive, GiveUp, CloseStep, CloseStops, CloseReturns,
                SetClock, Crash, callers
  <2> QED
    BY <1>2, <2>1, <2>2 DEF Next
<1> QED
  BY <1>1, <1>2

\* A step returns the manifest only when CLOSED is durable, the last frame of the file.
LEMMA ManifestStep ==
    ASSUME TypeInv, DeadlineInv, PlaceInv, WorkInv, FileInv, ManifestInv, Next
    PROVE  ManifestInv'
<1>t. /\ manifest \in Seq(Nat) /\ file \in Seq(Frames) /\ synced \in 0 .. Len(file)
      /\ sealResult \in [Sealers -> Results]
  BY DEF TypeInv
<1>1. ASSUME manifest # <<>>, UNCHANGED manifest
      PROVE  /\ wpc' \in {"exit", "done"} /\ synced' = Len(file') /\ manifest'[1] + 1 = Len(file')
             /\ ClosedAt(Len(file))'
  <2>1. /\ wpc \in {"exit", "done"} /\ synced = Len(file) /\ manifest[1] + 1 = Len(file)
        /\ ClosedAt(Len(file))
    BY <1>1 DEF ManifestInv
  <2>2. UNCHANGED <<synced, file>> \/ Crash
    BY <2>1, DiskFrame DEF Write, WriteFails, Sync, WriteClosed, SyncClosed
  <2>3. Len(file') = Len(file) /\ UNCHANGED synced
    <3>1. CASE Crash
      <4>1. UNCHANGED synced
        BY <3>1 DEF Crash
      <4>2. Len(file') \in synced .. Len(file)
        BY <3>1, CrashFacts
      <4> QED
        BY <1>t, <2>1, <4>1, <4>2
    <3> QED
      BY <2>2, <3>1
  <2>4. wpc' \in {"exit", "done"}
    BY <2>1, DoneFrame
  <2>5. PICK n \in Nat : n = Len(file) /\ n \in 1 .. synced
    <3>1. manifest[1] \in Nat
      BY <1>t, <1>1
    <3> QED
      BY <1>t, <2>1, <3>1
  <2>6. ClosedAt(n)'
    BY <2>1, <2>5, SyncedStays, FramesStay
  <2> QED
    BY <1>1, <2>1, <2>3, <2>4, <2>5, <2>6 DEF ClosedAt
<1>2. ASSUME alive, SyncClosed, ~ UNCHANGED manifest
      PROVE  /\ manifest = <<>> /\ manifest' # <<>>
             /\ wpc' \in {"exit", "done"} /\ synced' = Len(file') /\ manifest'[1] + 1 = Len(file')
             /\ ClosedAt(Len(file))'
  <2>1. /\ wpc = "syncClosed" /\ wpc' = "exit" /\ UNCHANGED file
        /\ synced' = Len(file) /\ manifest' = <<sequence>>
    BY <1>2 DEF SyncClosed, ManifestOffset
  <2>2. manifest = <<>>
    BY <2>1 DEF ManifestInv
  <2>3. Len(file) = sequence + 1
    BY <1>2, <2>1 DEF WorkInv, Working, FilledInv, Written, PlaceInv
  <2>4. PICK n \in Nat : n = Len(file)
    BY <1>t
  <2>5. ClosedAt(n)
    BY <1>2, <2>1, <2>4 DEF FileInv
  <2>6. ClosedAt(n)'
    BY <2>1, <2>4, <2>5, FramesStay
  <2> QED
    BY <2>1, <2>2, <2>3, <2>4, <2>6 DEF ClosedAt
<1>3. UNCHANGED manifest \/ (alive /\ SyncClosed)
  BY ManifestFrame
<1>4. ASSUME NEW k \in Sealers, sealResult'[k].kind = "ack"
      PROVE  manifest # <<>> /\ sealResult'[k].offset = manifest[1]
  <2>1. CASE sealResult'[k] = sealResult[k]
    BY <1>4, <2>1 DEF ManifestInv
  <2>2. CASE sealResult'[k] # sealResult[k]
    BY <1>t, <1>4, <2>2, SealFrame
  <2> QED
    BY <2>1, <2>2
<1>5. manifest # <<>> => UNCHANGED manifest
  BY <1>2, <1>3
<1> QED
  BY <1>1, <1>2, <1>3, <1>4, <1>5 DEF ManifestInv

-----------------------------------------------------------------------------
(* The invariant *)

\* The invariant holds of a journal just created.
LEMMA JournalInit == Init => JournalInv
<1> SUFFICES ASSUME Init PROVE JournalInv
  OBVIOUS
<1> USE DEF Init
<1>1. TypeInv
  BY TimeAssumption DEF TypeInv, Waiting, Err, Results
<1>2. DeadlineInv
  BY CallerAssumption, TimeAssumption, SizeAssumption DEF DeadlineInv, ValidConfig, Clock
<1>3. WindowInv
  BY DEF WindowInv
<1>4. PlaceInv
  BY DEF PlaceInv, Flushing
<1>5. WorkInv
  BY DEF WorkInv, ChainInv, FilledInv, InHand, Written
<1>6. FileInv
  BY DEF FileInv
<1>7. AckInv
  BY DEF AckInv, Found, Waiting, Err
<1>8. ManifestInv
  BY DEF ManifestInv, Waiting, Err
<1> QED
  BY <1>1, <1>2, <1>3, <1>4, <1>5, <1>6, <1>7, <1>8 DEF JournalInv

\* The invariant is about the variables only.
LEMMA JournalStutter == ASSUME JournalInv, UNCHANGED vars PROVE JournalInv'
<1> USE DEF vars, admission, writer, disk, callers, history
<1>1. TypeInv'
  BY DEF JournalInv, TypeInv
<1>2. DeadlineInv' /\ WindowInv' /\ PlaceInv'
  BY DEF JournalInv, DeadlineInv, WindowInv, InWindow, PlaceInv, Flushing
<1>3. WorkInv'
  BY DEF JournalInv, WorkInv, Working, ChainInv, FilledInv, InHand, Written
<1>4. FileInv'
  BY DEF JournalInv, FileInv, WholeOrSpoilt, VotesThenEnd, VotesThenClosed, VoteAt, ClosedAt, InWindow
<1>5. AckInv' /\ ManifestInv'
  BY DEF JournalInv, AckInv, ManifestInv, Found, VoteAt, ClosedAt, InWindow
<1> QED
  BY <1>1, <1>2, <1>3, <1>4, <1>5 DEF JournalInv

\* The invariant of the journal holds always.
LEMMA JournalAlways == Spec => []JournalInv
<1>1. JournalInv /\ [Next /\ UNCHANGED Count]_<<vars, Count>> => JournalInv'
  <2>1. ASSUME JournalInv, Next PROVE JournalInv'
    BY <2>1, TypeStep, DeadlineStep, WindowStep, PlaceStep, WorkStep, FileStep, AckStep, ManifestStep
       DEF JournalInv
  <2>2. ASSUME JournalInv, UNCHANGED <<vars, Count>> PROVE JournalInv'
    BY <2>2, JournalStutter
  <2> QED
    BY <2>1, <2>2
<1> QED
  BY <1>1, JournalInit, PTL DEF Spec

-----------------------------------------------------------------------------
(* What Scan accepts *)

\* A set of numbers that is not empty has a least one.
LEMMA LeastNatural ==
    ASSUME NEW S \in SUBSET Nat, S # {}
    PROVE  \E n \in S : \A m \in S : n <= m
<1>1. \A x, y \in Nat : x < y => <<x, y>> \in OpToRel(<, Nat)
  BY DEF OpToRel
<1>2. PICK n \in S : \A m \in S : <<m, n>> \notin OpToRel(<, Nat)
  BY WFMin, NatLessThanWellFounded
<1>3. \A m \in S : ~ m < n
  BY <1>1, <1>2
<1> QED
  BY <1>3

\* Scan accepts the longest prefix of sound frames.
LEMMA AcceptedFacts ==
    ASSUME NEW f, Len(f) \in Nat
    PROVE  /\ Accepted(f) \in 0 .. Len(f) /\ \A i \in 1 .. Accepted(f) : Sound(f, i)
           /\ Accepted(f) < Len(f) => ~ Sound(f, Accepted(f) + 1)
<1> DEFINE Good(n) == /\ \A i \in 1 .. n : Sound(f, i)
                      /\ n < Len(f) => ~ Sound(f, n + 1)
           U == {i \in 1 .. Len(f) : ~ Sound(f, i)}
<1>1. \E n \in 0 .. Len(f) : Good(n)
  <2>1. CASE U = {}
    <3>1. Good(Len(f))
      BY <2>1
    <3> QED
      BY <3>1
  <2>2. CASE U # {}
    <3>1. U \in SUBSET Nat
      OBVIOUS
    <3>2. PICK m \in U : \A i \in U : m <= i
      BY <2>2, <3>1, LeastNatural
    <3>3. m \in 1 .. Len(f) /\ ~ Sound(f, m)
      BY <3>2
    <3>4. ASSUME NEW i \in 1 .. m - 1 PROVE Sound(f, i)
      BY <3>2, <3>3, <3>4
    <3>5. m - 1 \in 0 .. Len(f) /\ (m - 1) + 1 = m
      BY <3>3
    <3>6. Good(m - 1)
      BY <3>3, <3>4, <3>5
    <3> QED
      BY <3>5, <3>6
  <2> QED
    BY <2>1, <2>2
<1>2. Accepted(f) = CHOOSE n \in 0 .. Len(f) : Good(n)
  BY DEF Accepted
<1> HIDE DEF Good
<1>3. Accepted(f) \in 0 .. Len(f) /\ Good(Accepted(f))
  BY <1>1, <1>2
<1> QED
  BY <1>3 DEF Good

\* Scan accepts every prefix of sound frames.
LEMMA AcceptedCovers ==
    ASSUME NEW f, Len(f) \in Nat, NEW m \in 0 .. Len(f), \A i \in 1 .. m : Sound(f, i)
    PROVE  m <= Accepted(f)
<1>1. /\ Accepted(f) \in 0 .. Len(f)
      /\ Accepted(f) < Len(f) => ~ Sound(f, Accepted(f) + 1)
  BY AcceptedFacts
<1> SUFFICES ASSUME Accepted(f) < m PROVE FALSE
  BY <1>1
<1>2. Accepted(f) + 1 \in 1 .. m /\ Accepted(f) < Len(f)
  BY <1>1
<1> QED
  BY <1>1, <1>2

\* Up to where the frames are whole, Scan accepts them.
LEMMA WholeIsSound ==
    ASSUME TypeInv, NEW m \in 0 .. Len(file), \A i \in 1 .. m : VoteAt(i) \/ ClosedAt(i)
    PROVE  \A i \in 1 .. m : Sound(file, i)
<1> SUFFICES ASSUME NEW i \in 1 .. m PROVE Sound(file, i)
  OBVIOUS
<1>1. Len(order) \in Nat /\ Len(file) \in Nat
  BY DEF TypeInv
<1>2. i > 1 => file[i - 1].kind # "closed"
  <2> SUFFICES ASSUME i > 1 PROVE file[i - 1].kind # "closed"
    OBVIOUS
  <2>1. i - 1 \in 1 .. m
    BY <1>1
  <2>2. ~ ClosedAt(i - 1)
    <3>1. i <= Len(order) \/ i = Len(order) + 1
      BY DEF ClosedAt, VoteAt
    <3>2. i - 1 # Len(order) + 1
      BY <1>1, <3>1
    <3> QED
      BY <3>2 DEF ClosedAt
  <2>3. VoteAt(i - 1)
    BY <2>1, <2>2
  <2> QED
    BY <2>3 DEF VoteAt
<1> QED
  BY <1>2 DEF Sound, VoteAt, ClosedAt, InWindow

\* Scan accepts everything that a sync has covered.
LEMMA SyncedIsAccepted ==
    ASSUME JournalInv PROVE synced <= Accepted(file)
<1>1. Len(file) \in Nat /\ synced \in 0 .. Len(file)
  BY DEF JournalInv, TypeInv
<1>2. \A i \in 1 .. synced : Sound(file, i)
  BY <1>1, WholeIsSound DEF JournalInv, FileInv
<1> QED
  BY <1>1, <1>2, AcceptedCovers

-----------------------------------------------------------------------------
(* The theorems *)

\* A receipt is for a synced frame, which Scan accepts.
LEMMA FoundFollows == JournalInv => AckedIsFound
<1> SUFFICES ASSUME JournalInv, NEW c \in Calls, result[c].kind = "ack"
             PROVE  /\ result[c].offset < Accepted(file)
                    /\ file[result[c].offset + 1].call = c
  BY DEF AckedIsFound
<1>1. /\ result[c].offset < synced /\ file[result[c].offset + 1].call = c
      /\ result[c].offset \in Nat /\ synced \in Nat
  BY DEF JournalInv, AckInv, Found, TypeInv, Results
<1>2. Accepted(file) \in Nat
  BY AcceptedFacts DEF JournalInv, TypeInv
<1> QED
  BY <1>1, <1>2, SyncedIsAccepted

\* CLOSED is written behind the last call of the order only.
LEMMA CompleteFollows == JournalInv => ClosedIsComplete
<1> SUFFICES ASSUME JournalInv, ScanClosed(file)
             PROVE  /\ deadlineSeen
                    /\ Accepted(file) = Len(order) + 1
                    /\ \A i \in 1 .. Len(order) : file[i].call = order[i]
  BY DEF ClosedIsComplete
<1> DEFINE n == Accepted(file)
<1>1. /\ Len(file) \in Nat /\ Len(order) \in Nat
      /\ \A i \in 1 .. Len(file) : WholeOrSpoilt(i)
  BY DEF JournalInv, TypeInv, FileInv
<1>2. n \in 0 .. Len(file) /\ \A i \in 1 .. n : Sound(file, i)
  BY <1>1, AcceptedFacts
<1>3. n > 0 /\ file[n].kind = "closed"
  BY DEF ScanClosed
<1> HIDE DEF n
<1>4. \A i \in 1 .. n : VoteAt(i) \/ ClosedAt(i)
  <2> SUFFICES ASSUME NEW i \in 1 .. n PROVE VoteAt(i) \/ ClosedAt(i)
    OBVIOUS
  <2>1. i \in 1 .. Len(file) /\ Sound(file, i)
    BY <1>1, <1>2
  <2>2. file[i].kind \in {"votes", "closed"}
    BY <2>1 DEF Sound
  <2>3. WholeOrSpoilt(i)
    BY <1>1, <2>1
  <2> QED
    BY <2>2, <2>3 DEF WholeOrSpoilt
<1>5. ClosedAt(n)
  BY <1>1, <1>2, <1>3, <1>4 DEF VoteAt
<1>6. n = Len(order) + 1 /\ deadlineSeen
  BY <1>5 DEF ClosedAt
<1>7. ASSUME NEW i \in 1 .. Len(order) PROVE file[i].call = order[i]
  <2>1. i \in 1 .. n /\ i # Len(order) + 1
    BY <1>1, <1>6
  <2> QED
    BY <1>4, <2>1 DEF VoteAt, ClosedAt
<1> QED
  BY <1>6, <1>7 DEF n

\* The manifest's CLOSED is synced and the last frame.
LEMMA ReplaysFollows == JournalInv => SealedReplays
<1> SUFFICES ASSUME JournalInv, NEW k \in Sealers, sealResult[k].kind = "ack"
             PROVE  Replays(file) /\ Accepted(file) = sealResult[k].offset + 1
  BY DEF SealedReplays
<1>1. /\ synced = Len(file) /\ sealResult[k].offset + 1 = Len(file) /\ ClosedAt(Len(file))
      /\ manifest # <<>> /\ sealResult[k].offset \in Nat /\ Len(file) \in Nat
  BY DEF JournalInv, ManifestInv, TypeInv, Results
<1>2. Accepted(file) \in 0 .. Len(file)
  BY <1>1, AcceptedFacts
<1>3. Accepted(file) = Len(file)
  BY <1>1, <1>2, SyncedIsAccepted
<1> QED
  BY <1>1, <1>3 DEF Replays, ScanFails, ScanClosed, ClosedAt

\* While the machine runs only the last frame may be torn, which Scan takes for a tail.
LEMMA ReadableFollows == JournalInv => WriterLeavesReadable
<1> SUFFICES ASSUME JournalInv, alive, Accepted(file) < Len(file) PROVE IncompleteTail(file)
  BY DEF WriterLeavesReadable, ScanFails
<1> DEFINE n == Accepted(file)
<1>1. /\ TypeInv /\ Len(file) \in Nat /\ \A i \in 1 .. Len(file) : VotesThenEnd(i)
  BY DEF JournalInv, TypeInv, FileInv
<1>2. n \in 0 .. Len(file) /\ ~ Sound(file, n + 1)
  BY <1>1, AcceptedFacts
<1>3. Len(file) - 1 \in 0 .. Len(file) /\ \A i \in 1 .. Len(file) - 1 : VoteAt(i)
  BY <1>1, <1>2 DEF VotesThenEnd
<1>4. Len(file) - 1 <= n
  BY <1>1, <1>3, WholeIsSound, AcceptedCovers
<1>5. n + 1 = Len(file)
  BY <1>1, <1>2, <1>4
<1>6. ~ (VoteAt(Len(file)) \/ ClosedAt(Len(file)))
  <2> SUFFICES ASSUME VoteAt(Len(file)) \/ ClosedAt(Len(file)) PROVE FALSE
    OBVIOUS
  <2>1. \A i \in 1 .. Len(file) : i = Len(file) \/ i \in 1 .. Len(file) - 1
    BY <1>1
  <2>2. \A i \in 1 .. Len(file) : VoteAt(i) \/ ClosedAt(i)
    BY <1>3, <2>1
  <2>3. \A i \in 1 .. Len(file) : Sound(file, i)
    BY <1>1, <2>2, WholeIsSound
  <2> QED
    BY <1>1, <1>2, <1>5, <2>3
<1>7. file[Len(file)].kind = "torn"
  BY <1>1, <1>2, <1>5, <1>6 DEF VotesThenEnd
<1>8. ~ ScanClosed(file)
  BY <1>1, <1>2, <1>3, <1>5 DEF ScanClosed, VoteAt
<1> QED
  BY <1>5, <1>7, <1>8 DEF IncompleteTail

\* Whatever fails, and whenever the machine stops, Scan finds the frame of every
\* receipt that SubmitFrame returned, at the offset of the receipt.
THEOREM ReceiptsAreFound == Spec => []AckedIsFound
  BY JournalAlways, FoundFollows, PTL

\* What Scan finds can be trusted: a closed journal is the complete poll in the order
\* of admission, the manifest of Seal is durable, and without a crash the file that
\* the writer leaves is read without an error.
THEOREM JournalCanBeTrusted == Spec => []JournalIsSound
<1>1. JournalInv => JournalIsSound
  BY CompleteFollows, ReplaysFollows, ReadableFollows DEF JournalIsSound
<1> QED
  BY <1>1, JournalAlways, PTL

-----------------------------------------------------------------------------
(* The memory *)

\* What is charged to the queue is what it holds and the job in the writer's hand; no
\* call is charged twice, since it is queued once.  The batch holds no more than its
\* counter says, and the job in the hand fits it when it is added.
Charged == Held(queue) \cup HeldPending
ChargeInv ==
    /\ queuedVotes = VotesIn(Charged) /\ queuedVotes <= QueuePerPartition
    /\ \A i, k \in 1 .. Len(queue) : queue[i].call = queue[k].call => i = k
    /\ HeldPending \cap Held(queue) = {}
    /\ \A c \in Charged : result[c] # Waiting
    /\ wpc \in {"exit", "done"} => queueClosed /\ Charged = {}
BatchInv ==
    /\ votes \in 0 .. BatchSize /\ VotesIn(Held(batch)) <= votes
    /\ batch = <<>> => votes = 0
    /\ wpc = "append" => votes + Count[pending.call] <= BatchSize
    /\ Flushing => batch # <<>>
RestInv ==
    /\ Count \in [Calls -> 1 .. BatchSize]
    /\ {admissionClosed, queueClosed, sealRequested, poisoned, alive, deadlineSeen}
         \subseteq BOOLEAN
    /\ spc \in [Sealers \cup Closers -> {"idle", "until", "stop", "wait", "returned"}]
    /\ Len(manifest) <= 1
BoundInv == ChargeInv /\ BatchInv /\ RestInv

\* The votes of finitely many calls are finitely many.
LEMMA VotesFinite ==
    ASSUME NEW S \in SUBSET Calls, IsFiniteSet(S)
    PROVE  IsFiniteSet(VotesOf(S)) /\ VotesIn(S) \in Nat
<1>1. IsFiniteSet(1 .. BatchSize)
  BY SizeAssumption, FS_Interval DEF ValidConfig
<1>2. IsFiniteSet(S \X (1 .. BatchSize))
  BY <1>1, FS_Product
<1>3. VotesOf(S) \in SUBSET (S \X (1 .. BatchSize))
  BY DEF VotesOf
<1>4. IsFiniteSet(VotesOf(S))
  BY <1>2, <1>3, FS_Subset
<1> QED
  BY <1>4, FS_CardinalityType DEF VotesIn

\* One more call brings its own votes.
LEMMA VotesAdd ==
    ASSUME RestInv, NEW S \in SUBSET Calls, IsFiniteSet(S), NEW c \in Calls, c \notin S
    PROVE  IsFiniteSet(S \cup {c}) /\ VotesIn(S \cup {c}) = VotesIn(S) + Count[c]
<1> DEFINE new == {c} \X (1 .. Count[c])
<1>1. Count[c] \in 1 .. BatchSize /\ Count[c] \in Nat \ {0} /\ Count[c] \in Int
  BY SizeAssumption DEF RestInv, ValidConfig
<1>2. IsFiniteSet({c}) /\ Cardinality({c}) = 1
  BY FS_Singleton
<1>3. IsFiniteSet(1 .. Count[c]) /\ Cardinality(1 .. Count[c]) = Count[c]
  <2>1. 1 \in Int
    OBVIOUS
  <2>2. /\ IsFiniteSet(1 .. Count[c])
        /\ Cardinality(1 .. Count[c]) = IF 1 > Count[c] THEN 0 ELSE Count[c] - 1 + 1
    BY <1>1, <2>1, FS_Interval, Zenon
  <2> QED
    BY <1>1, <2>2
<1>4. IsFiniteSet(new) /\ Cardinality(new) = Count[c]
  <2>1. IsFiniteSet(new) /\ Cardinality(new) = Cardinality({c}) * Cardinality(1 .. Count[c])
    BY <1>2, <1>3, FS_Product
  <2> QED
    BY <1>1, <1>2, <1>3, <2>1
<1>5. VotesOf(S \cup {c}) = VotesOf(S) \cup new
  <2>1. \A n : n \in 1 .. Count[c] <=> n \in 1 .. BatchSize /\ n <= Count[c]
    BY <1>1, SizeAssumption DEF ValidConfig
  <2> QED
    BY <2>1 DEF VotesOf
<1>6. VotesOf(S) \cap new = {}
  BY DEF VotesOf
<1>7. IsFiniteSet(VotesOf(S)) /\ Cardinality(VotesOf(S)) \in Nat
  BY VotesFinite DEF VotesIn
<1>8. Cardinality(VotesOf(S) \cup new)
        = Cardinality(VotesOf(S)) + Cardinality(new) - Cardinality(VotesOf(S) \cap new)
  BY <1>4, <1>7, FS_Union
<1>9. Cardinality(VotesOf(S) \cap new) = 0
  BY <1>6, FS_EmptySet
<1>10. VotesIn(S \cup {c}) = VotesIn(S) + Count[c]
  <2> HIDE DEF new
  <2>1. VotesIn(S \cup {c}) = Cardinality(VotesOf(S) \cup new)
    BY <1>5 DEF VotesIn
  <2>2. Cardinality(VotesOf(S) \cup new) = Cardinality(VotesOf(S)) + Count[c] - 0
    BY <1>4, <1>8, <1>9
  <2>3. VotesIn(S) = Cardinality(VotesOf(S))
    BY DEF VotesIn
  <2> QED
    BY <1>1, <1>7, <2>1, <2>2, <2>3
<1> QED
  BY <1>10, FS_AddElement

\* The calls held by a sequence of jobs.
LEMMA HeldFacts ==
    ASSUME NEW q \in Seq(Jobs)
    PROVE  /\ Held(q) \in SUBSET Calls /\ IsFiniteSet(Held(q))
           /\ \A j \in Jobs : Held(Append(q, j)) = Held(q) \cup {j.call}
<1>1. \A i \in 1 .. Len(q) : q[i].call \in Calls
  <2>1. \A i \in 1 .. Len(q) : q[i] \in Jobs
    OBVIOUS
  <2> QED
    BY <2>1 DEF Jobs
<1> DEFINE f == [i \in 1 .. Len(q) |-> q[i].call]
<1>2. f \in Surjection(1 .. Len(q), Held(q))
  BY DEF Held, Surjection
<1>3. IsFiniteSet(1 .. Len(q))
  BY FS_Interval
<1>4. IsFiniteSet(Held(q))
  <2> HIDE DEF f
  <2> QED
    BY <1>2, <1>3, FS_Surjection
<1>5. ASSUME NEW j \in Jobs PROVE Held(Append(q, j)) = Held(q) \cup {j.call}
  <2>1. /\ Len(Append(q, j)) = Len(q) + 1 /\ Append(q, j)[Len(q) + 1] = j
        /\ \A i \in 1 .. Len(q) : Append(q, j)[i] = q[i]
    OBVIOUS
  <2>2. 1 .. Len(q) + 1 = (1 .. Len(q)) \cup {Len(q) + 1}
    OBVIOUS
  <2> QED
    BY <2>1, <2>2 DEF Held
<1> QED
  BY <1>1, <1>4, <1>5 DEF Held

\* Taking the head of a sequence that holds no call twice.
LEMMA TailFacts ==
    ASSUME NEW q \in Seq(Jobs), q # <<>>,
           \A i, k \in 1 .. Len(q) : q[i].call = q[k].call => i = k
    PROVE  /\ Head(q) \in Jobs /\ Tail(q) \in Seq(Jobs)
           /\ Held(q) = Held(Tail(q)) \cup {Head(q).call}
           /\ Head(q).call \notin Held(Tail(q))
           /\ \A i, k \in 1 .. Len(Tail(q)) : Tail(q)[i].call = Tail(q)[k].call => i = k
<1>1. /\ Head(q) \in Jobs /\ Tail(q) \in Seq(Jobs) /\ Head(q) = q[1]
      /\ Len(q) \in Nat \ {0} /\ Len(Tail(q)) = Len(q) - 1
      /\ \A i \in 1 .. Len(q) - 1 : Tail(q)[i] = q[i + 1]
  BY HeadTailProperties
<1>2. \A i \in 1 .. Len(q) : i = 1 \/ (i - 1 \in 1 .. Len(q) - 1 /\ i = (i - 1) + 1)
  BY <1>1
<1>3. \A i \in 1 .. Len(q) - 1 : i + 1 \in 1 .. Len(q) /\ i + 1 # 1
  BY <1>1
<1>4. 1 \in 1 .. Len(q)
  BY <1>1
<1>5. Held(q) \subseteq Held(Tail(q)) \cup {Head(q).call}
  <2> SUFFICES ASSUME NEW i \in 1 .. Len(q), i # 1 PROVE q[i].call \in Held(Tail(q))
    BY <1>1 DEF Held
  <2>1. i - 1 \in 1 .. Len(Tail(q)) /\ Tail(q)[i - 1] = q[i]
    BY <1>1, <1>2
  <2> QED
    BY <2>1 DEF Held
<1>6. Held(Tail(q)) \cup {Head(q).call} \subseteq Held(q)
  BY <1>1, <1>3, <1>4 DEF Held
<1>7. Head(q).call \notin Held(Tail(q))
  BY <1>1, <1>3, <1>4 DEF Held
<1>8. ASSUME NEW i \in 1 .. Len(Tail(q)), NEW k \in 1 .. Len(Tail(q)),
             Tail(q)[i].call = Tail(q)[k].call
      PROVE  i = k
  <2>1. i + 1 = k + 1
    BY <1>1, <1>3, <1>8
  <2> QED
    BY <2>1
<1> QED
  BY <1>1, <1>5, <1>6, <1>7, <1>8

\* Each call holds at least one vote.
LEMMA LenBound ==
    ASSUME RestInv, NEW q \in Seq(Jobs),
           \A i, k \in 1 .. Len(q) : q[i].call = q[k].call => i = k
    PROVE  Len(q) <= VotesIn(Held(q))
<1> DEFINE f == [i \in 1 .. Len(q) |-> <<q[i].call, 1>>]
<1>1. \A i \in 1 .. Len(q) : q[i].call \in Held(q) /\ q[i].call \in Calls
  BY HeldFacts DEF Held
<1>2. \A c \in Calls : 1 \in 1 .. BatchSize /\ 1 <= Count[c]
  BY SizeAssumption DEF RestInv, ValidConfig
<1>3. f \in [1 .. Len(q) -> VotesOf(Held(q))]
  BY <1>1, <1>2 DEF VotesOf
<1>4. f \in Injection(1 .. Len(q), VotesOf(Held(q)))
  BY <1>3 DEF Injection, IsInjective
<1>5. IsFiniteSet(VotesOf(Held(q)))
  BY HeldFacts, VotesFinite
<1>6. Cardinality(1 .. Len(q)) = Len(q)
  BY FS_Interval
<1>7. Cardinality(1 .. Len(q)) <= Cardinality(VotesOf(Held(q)))
  <2> HIDE DEF f
  <2> QED
    BY <1>4, <1>5, FS_Injection
<1> QED
  BY <1>6, <1>7 DEF VotesIn

\* Votes are counted in the same way before and after a step.
LEMMA SameVotes ==
    ASSUME UNCHANGED Count
    PROVE  /\ VotesIn(Charged)' = VotesIn(Charged')
           /\ VotesIn(Held(batch))' = VotesIn(Held(batch'))
BY DEF VotesIn, VotesOf

\* The job in the writer's hand.
LEMMA PendingFacts ==
    ASSUME TypeInv
    PROVE  /\ pending = NoJob => HeldPending = {}
           /\ pending # NoJob => pending \in Jobs /\ pending.call \in Calls
                                 /\ HeldPending = {pending.call}
           /\ HeldPending \in SUBSET Calls /\ IsFiniteSet(HeldPending)
           /\ \A j \in Jobs : j # NoJob
           /\ Held(queue) \in SUBSET Calls /\ IsFiniteSet(Held(queue))
           /\ Charged \in SUBSET Calls /\ IsFiniteSet(Charged)
<1>1. \A j \in Jobs : j # NoJob /\ j.call \in Calls
  BY CallerAssumption DEF Jobs, NoJob, Nobody
<1>2. /\ pending = NoJob => HeldPending = {}
      /\ pending # NoJob => pending \in Jobs /\ pending.call \in Calls
                            /\ HeldPending = {pending.call}
  BY <1>1 DEF TypeInv, HeldPending
<1>3. HeldPending \in SUBSET Calls /\ IsFiniteSet(HeldPending)
  BY <1>2, FS_EmptySet, FS_Singleton
<1>4. Held(queue) \in SUBSET Calls /\ IsFiniteSet(Held(queue))
  BY HeldFacts DEF TypeInv
<1>5. Charged \in SUBSET Calls /\ IsFiniteSet(Charged)
  BY <1>3, <1>4, FS_Union DEF Charged
<1> QED
  BY <1>1, <1>2, <1>3, <1>4, <1>5

\* Steps that leave the queue alone keep the charge.
LEMMA ChargeFrame ==
    ASSUME ChargeInv, UNCHANGED <<queue, pending, queuedVotes, Count>>,
           \A c \in Charged : result[c] # Waiting => result'[c] # Waiting,
           wpc' \in {"exit", "done"} => queueClosed' /\ Charged = {}
    PROVE  ChargeInv'
<1>1. Charged' = Charged /\ HeldPending' = HeldPending
  BY DEF Charged, HeldPending
<1>2. VotesIn(Charged)' = VotesIn(Charged)
  BY <1>1, SameVotes
<1>3. queuedVotes' = VotesIn(Charged)' /\ queuedVotes' <= QueuePerPartition
  BY <1>2 DEF ChargeInv
<1>4. /\ \A i, k \in 1 .. Len(queue') : queue'[i].call = queue'[k].call => i = k
      /\ HeldPending' \cap Held(queue') = {}
      /\ \A c \in Charged' : result'[c] # Waiting'
  BY <1>1 DEF ChargeInv, Waiting
<1>5. wpc' \in {"exit", "done"} => queueClosed' /\ Charged' = {}
  BY <1>1
<1> QED
  BY <1>3, <1>4, <1>5 DEF ChargeInv

\* SubmitFrame charges its call to the queue, or refuses it.
LEMMA SubmitCharges ==
    ASSUME NEW c \in Calls, SubmitFrame(c), DOMAIN result = Calls
    PROVE  /\ result[c] = Waiting /\ UNCHANGED <<wpc, pending, queueClosed>>
           /\ \E e : result' = [result EXCEPT ![c] = Err(e)] /\ e # "none"
           /\ \/ UNCHANGED <<queue, queuedVotes>>
              \/ /\ ~ admissionClosed /\ HasRoom(c)
                 /\ \E t \in Clock : queue' = Append(queue, [call |-> c, admitted |-> t])
                 /\ queuedVotes' = queuedVotes + Count[c]
<1>0. result[c] = Waiting /\ UNCHANGED <<wpc, pending, queueClosed>>
  BY DEF SubmitFrame, writer
<1>1. CASE \E t \in Clock : HasRoom(c) /\ ~ admissionClosed /\ Enqueue(c, t)
  <2>1. /\ result' = [result EXCEPT ![c] = Err("queued")] /\ "queued" # "none"
        /\ ~ admissionClosed /\ HasRoom(c)
        /\ \E t \in Clock : queue' = Append(queue, [call |-> c, admitted |-> t])
        /\ queuedVotes' = queuedVotes + Count[c]
    BY <1>1 DEF Enqueue, Return
  <2> QED
    BY <1>0, <2>1
<1>2. CASE CloseAdmission(c)
  <2>1. /\ result' = [result EXCEPT ![c] = Err("closed")] /\ "closed" # "none"
        /\ UNCHANGED <<queue, queuedVotes>>
    BY <1>2 DEF CloseAdmission, Return
  <2> QED
    BY <1>0, <2>1
<1>3. CASE \E e \in {"poison", "closed", "not_open", "busy", "cancelled"} : Refuse(c, e)
  BY <1>0, <1>3 DEF Refuse, Return
<1> QED
  BY <1>1, <1>2, <1>3 DEF SubmitFrame, Admit, AdmissionOpen

\* The charge is right after every step.
LEMMA ChargeStep ==
    ASSUME TypeInv, TypeInv', DeadlineInv, PlaceInv, ChargeInv, RestInv, Next, UNCHANGED Count
    PROVE  ChargeInv'
<1>t. /\ queue \in Seq(Jobs) /\ DOMAIN result = Calls
      /\ VotesIn(Charged) \in Nat /\ queuedVotes \in Nat /\ QueuePerPartition \in Nat
      /\ \A c \in Calls : Count[c] \in Nat /\ Count[c] \in 1 .. BatchSize
  <2>1. queue \in Seq(Jobs) /\ DOMAIN result = Calls /\ VotesIn(Charged) \in Nat
    BY PendingFacts, VotesFinite DEF TypeInv
  <2>2. BatchSize \in Nat /\ QueuePerPartition \in Nat
    BY SizeAssumption DEF ValidConfig
  <2>3. \A c \in Calls : Count[c] \in 1 .. BatchSize
    BY DEF RestInv
  <2>4. queuedVotes \in Nat
    BY <2>1 DEF ChargeInv
  <2> QED
    BY <2>1, <2>2, <2>3, <2>4
<1>e. /\ \A e : e # "none" => Err(e) # Waiting
      /\ Waiting' = Waiting
  BY DEF Err, Waiting
<1>1. ASSUME NEW c \in Calls, SubmitFrame(c) PROVE ChargeInv'
  <2>1. /\ result[c] = Waiting /\ UNCHANGED <<wpc, pending, queueClosed>>
        /\ \E e : result' = [result EXCEPT ![c] = Err(e)] /\ e # "none"
    BY <1>1, <1>t, SubmitCharges
  <2>2. result'[c] # Waiting /\ \A d \in Calls \ {c} : result'[d] = result[d]
    BY <2>1, <1>t, <1>e
  <2>3. CASE UNCHANGED <<queue, queuedVotes>>
    <3>1. \A d \in Charged : result[d] # Waiting => result'[d] # Waiting
      BY <2>2, PendingFacts
    <3> QED
      BY <2>1, <2>3, <3>1, ChargeFrame DEF ChargeInv
  <2>4. CASE ~ UNCHANGED <<queue, queuedVotes>>
    <3>1. /\ ~ admissionClosed /\ HasRoom(c)
          /\ \E t \in Clock : queue' = Append(queue, [call |-> c, admitted |-> t])
          /\ queuedVotes' = queuedVotes + Count[c]
      BY <1>1, <1>t, <2>4, SubmitCharges
    <3>2. PICK t \in Clock : queue' = Append(queue, [call |-> c, admitted |-> t])
      BY <3>1
    <3> DEFINE j == [call |-> c, admitted |-> t]
    <3>3. j \in Jobs /\ j.call = c
      BY DEF Jobs
    <3>4. queue' = Append(queue, j)
      BY <3>2
    <3>5. c \notin Charged
      BY <2>1 DEF ChargeInv
    <3> HIDE DEF j
    <3>6. Held(queue') = Held(queue) \cup {c} /\ HeldPending' = HeldPending
      BY <1>t, <2>1, <3>3, <3>4, HeldFacts DEF HeldPending, NoJob
    <3>7. Charged' = Charged \cup {c}
      BY <3>6 DEF Charged
    <3>8. VotesIn(Charged)' = VotesIn(Charged) + Count[c]
      BY <3>5, <3>7, PendingFacts, VotesAdd, SameVotes
    <3>9. queuedVotes' = VotesIn(Charged)' /\ queuedVotes' <= QueuePerPartition
      BY <1>t, <3>1, <3>8 DEF ChargeInv, HasRoom
    <3>10. \A i, k \in 1 .. Len(queue') : queue'[i].call = queue'[k].call => i = k
      <4>1. /\ Len(queue') = Len(queue) + 1 /\ queue'[Len(queue) + 1] = j
            /\ \A i \in 1 .. Len(queue) : queue'[i] = queue[i]
        BY <1>t, <3>3, <3>4, AppendProperties
      <4>2. \A i \in 1 .. Len(queue) : queue[i].call # c
        BY <3>5 DEF Charged, Held
      <4>3. \A i \in 1 .. Len(queue') : i \in 1 .. Len(queue) \/ i = Len(queue) + 1
        BY <1>t, <4>1
      <4> QED
        BY <3>3, <4>1, <4>2, <4>3 DEF ChargeInv
    <3>11. HeldPending' \cap Held(queue') = {}
      BY <3>5, <3>6 DEF ChargeInv, Charged
    <3>12. \A d \in Charged' : result'[d] # Waiting'
      BY <1>e, <2>2, <3>7, PendingFacts DEF ChargeInv
    <3>13. wpc' \notin {"exit", "done"}
      BY <2>1, <3>1 DEF ChargeInv, DeadlineInv
    <3> QED
      BY <3>9, <3>10, <3>11, <3>12, <3>13 DEF ChargeInv
  <2> QED
    BY <2>3, <2>4
<1>2. ASSUME Take PROVE ChargeInv'
  <2>1. /\ queue # <<>> /\ pending = NoJob /\ queue' = Tail(queue) /\ pending' = Head(queue)
        /\ UNCHANGED <<queuedVotes, result>> /\ wpc' \notin {"exit", "done"}
    BY <1>2 DEF Take, PlaceInv, callers
  <2>2. /\ Head(queue) \in Jobs /\ Held(queue) = Held(Tail(queue)) \cup {Head(queue).call}
        /\ Head(queue).call \notin Held(Tail(queue))
        /\ \A i, k \in 1 .. Len(Tail(queue)) : Tail(queue)[i].call = Tail(queue)[k].call => i = k
    BY <1>t, <2>1, TailFacts DEF ChargeInv
  <2>3. HeldPending = {} /\ HeldPending' = {Head(queue).call}
    BY <2>1, <2>2, PendingFacts DEF HeldPending, NoJob
  <2>4. Charged' = Charged
    BY <2>1, <2>2, <2>3 DEF Charged
  <2>5. VotesIn(Charged)' = VotesIn(Charged)
    BY <2>4, SameVotes
  <2>6. queuedVotes' = VotesIn(Charged)' /\ queuedVotes' <= QueuePerPartition
    BY <2>1, <2>5 DEF ChargeInv
  <2>7. /\ \A i, k \in 1 .. Len(queue') : queue'[i].call = queue'[k].call => i = k
        /\ HeldPending' \cap Held(queue') = {}
    BY <2>1, <2>2, <2>3
  <2>8. \A d \in Charged' : result'[d] # Waiting'
    BY <1>e, <2>1, <2>4 DEF ChargeInv
  <2> QED
    BY <2>1, <2>6, <2>7, <2>8 DEF ChargeInv
<1>3. ASSUME UNCHANGED <<queue, result>>, wpc' \notin {"exit", "done"},
             pending # NoJob, pending' = NoJob, queuedVotes' = queuedVotes - Count[pending.call]
      PROVE  ChargeInv'
  <2>1. pending.call \in Calls /\ HeldPending = {pending.call} /\ HeldPending' = {}
    BY <1>3, PendingFacts DEF HeldPending, NoJob
  <2>2. /\ Charged' = Held(queue) /\ Charged = Held(queue) \cup {pending.call}
        /\ pending.call \notin Held(queue)
    BY <1>3, <2>1 DEF Charged, ChargeInv
  <2>3. VotesIn(Charged) = VotesIn(Held(queue)) + Count[pending.call]
    BY <2>1, <2>2, PendingFacts, VotesAdd
  <2>4. VotesIn(Charged)' = VotesIn(Held(queue)) /\ VotesIn(Held(queue)) \in Nat
    BY <2>2, SameVotes, PendingFacts, VotesFinite
  <2>5. queuedVotes' = VotesIn(Charged)' /\ queuedVotes' <= QueuePerPartition
    BY <1>3, <1>t, <2>1, <2>3, <2>4 DEF ChargeInv
  <2>6. /\ \A i, k \in 1 .. Len(queue') : queue'[i].call = queue'[k].call => i = k
        /\ HeldPending' \cap Held(queue') = {}
        /\ \A d \in Charged' : result'[d] # Waiting'
    BY <1>3, <1>e, <2>1, <2>2 DEF ChargeInv
  <2> QED
    BY <1>3, <2>5, <2>6 DEF ChargeInv
<1>4. ASSUME AddToBatch PROVE ChargeInv'
  BY <1>3, <1>4 DEF AddToBatch, Release, PlaceInv, callers
<1>5. ASSUME DrainJob, pending = NoJob, queue # <<>> PROVE ChargeInv'
  <2>1. /\ queue' = Tail(queue) /\ UNCHANGED <<pending, result>> /\ wpc' \notin {"exit", "done"}
        /\ queuedVotes' = queuedVotes - Count[Head(queue).call]
    BY <1>5 DEF DrainJob
  <2> DEFINE c == Head(queue).call
  <2>2. /\ Held(queue) = Held(Tail(queue)) \cup {c} /\ c \notin Held(Tail(queue))
        /\ Tail(queue) \in Seq(Jobs) /\ Head(queue) \in Jobs
        /\ \A i, k \in 1 .. Len(Tail(queue)) : Tail(queue)[i].call = Tail(queue)[k].call => i = k
    BY <1>t, <1>5, TailFacts DEF ChargeInv
  <2>3. c \in Calls /\ HeldPending = {} /\ HeldPending' = {}
    BY <1>5, <2>1, <2>2, PendingFacts DEF HeldPending, NoJob, Jobs
  <2>4. /\ Charged' = Held(Tail(queue)) /\ Charged = Held(Tail(queue)) \cup {c}
        /\ Held(Tail(queue)) \in SUBSET Calls /\ IsFiniteSet(Held(Tail(queue)))
    BY <2>1, <2>2, <2>3, HeldFacts DEF Charged
  <2> HIDE DEF c
  <2>5. VotesIn(Charged) = VotesIn(Held(Tail(queue))) + Count[c]
    BY <2>2, <2>3, <2>4, VotesAdd
  <2>6. VotesIn(Charged)' = VotesIn(Held(Tail(queue))) /\ VotesIn(Held(Tail(queue))) \in Nat
    BY <2>4, SameVotes, VotesFinite
  <2>7. queuedVotes' = VotesIn(Charged)' /\ queuedVotes' <= QueuePerPartition
    <3>1. queuedVotes' = queuedVotes - Count[c]
      BY <2>1 DEF c
    <3> QED
      BY <1>t, <2>3, <2>5, <2>6, <3>1 DEF ChargeInv
  <2>8. /\ \A i, k \in 1 .. Len(queue') : queue'[i].call = queue'[k].call => i = k
        /\ HeldPending' \cap Held(queue') = {}
        /\ \A d \in Charged' : result'[d] # Waiting'
    BY <1>e, <2>1, <2>2, <2>3, <2>4 DEF ChargeInv
  <2> QED
    BY <2>1, <2>7, <2>8 DEF ChargeInv
<1>6. ASSUME DrainJob PROVE ChargeInv'
  <2>1. CASE pending # NoJob
    BY <1>3, <1>6, <2>1 DEF DrainJob
  <2>2. CASE pending = NoJob /\ queue = <<>>
    <3>1. UNCHANGED <<queue, pending, queuedVotes, result, queueClosed>> /\ queueClosed
      BY <1>6, <2>2 DEF DrainJob, admission
    <3>2. Charged = {}
      BY <2>2, PendingFacts DEF Charged, Held
    <3> QED
      BY <3>1, <3>2, ChargeFrame
  <2> QED
    BY <1>5, <1>6, <2>1, <2>2
<1>7. ASSUME NEW c \in Calls, Receive(c) \/ GiveUp(c) PROVE ChargeInv'
  <2>1. /\ UNCHANGED <<queue, pending, queuedVotes, wpc, queueClosed>>
        /\ \E r : r # Waiting /\ result' = [result EXCEPT ![c] = r]
    <3>1. CASE Receive(c)
      BY <3>1 DEF Receive, Return, admission, writer
    <3>2. CASE GiveUp(c)
      <4>1. UNCHANGED <<queue, pending, queuedVotes, wpc, queueClosed>>
        BY <3>2 DEF GiveUp, admission, writer
      <4>2. result' = [result EXCEPT ![c] = Err("unknown")] /\ Err("unknown") # Waiting
        BY <3>2, <1>e DEF GiveUp, Return
      <4> QED
        BY <4>1, <4>2
    <3> QED
      BY <1>7, <3>1, <3>2
  <2>2. \A d \in Charged : result[d] # Waiting => result'[d] # Waiting
    BY <1>t, <2>1
  <2> QED
    BY <2>1, <2>2, ChargeFrame DEF ChargeInv
<1>8. ASSUME Tick \/ SeeClosed \/ Write \/ WriteFails \/ Sync \/ AnswerBatch \/ WriteClosed
               \/ SyncClosed \/ Exit
      PROVE  ChargeInv'
  <2>1. UNCHANGED <<queue, pending, queuedVotes, result>>
    BY <1>8 DEF Tick, SeeClosed, Write, WriteFails, Sync, AnswerBatch, WriteClosed, SyncClosed, Exit,
                writer, callers
  <2>2. wpc' \in {"exit", "done"} => queueClosed' /\ Charged = {}
    <3>1. CASE Tick \/ SeeClosed \/ Write \/ WriteFails \/ Sync
      BY <3>1 DEF Tick, SeeClosed, Write, WriteFails, Sync, AfterWrite
    <3>2. CASE AnswerBatch
      BY <3>2, PendingFacts DEF AnswerBatch, AfterAnswer, PlaceInv, Flushing, Charged, Held, admission
    <3>3. CASE WriteClosed \/ SyncClosed
      BY <3>3, PendingFacts
         DEF WriteClosed, SyncClosed, NoFault, Fail, StopQueue, PlaceInv, Charged, Held, admission
    <3>4. CASE Exit
      BY <3>4 DEF Exit, NoFault, Fail, StopQueue, ChargeInv, admission
    <3> QED
      BY <1>8, <3>1, <3>2, <3>3, <3>4
  <2> QED
    BY <2>1, <2>2, ChargeFrame
<1>9. ASSUME \/ \E k \in Sealers : SealStep(k)
             \/ \E k \in Closers : CloseStep(k)
             \/ \E t \in Clock : SetClock(t)
             \/ Crash
      PROVE  ChargeInv'
  <2>1. /\ UNCHANGED <<wpc, pending, queue>> /\ (queueClosed => queueClosed')
    BY <1>9, IdleFrame
  <2>2. UNCHANGED <<queuedVotes, result>>
    BY <1>9 DEF SealStep, SealChecks, SealWaits, SealStops, SealReturns, SealGivesUp, CloseStep,
                CloseStops, CloseReturns, SetClock, Crash, callers
  <2> QED
    BY <2>1, <2>2, ChargeFrame DEF ChargeInv
<1> QED
  BY <1>1, <1>2, <1>4, <1>6, <1>7, <1>8, <1>9 DEF Next, CallStep, WriterStep

\* Steps that leave the batch alone.
LEMMA BatchFrame ==
    ASSUME BatchInv, UNCHANGED <<batch, votes, Count>>,
           wpc' = "append" => votes + Count[pending'.call] <= BatchSize,
           wpc' \in {"flush", "sync", "answer"} => batch # <<>>
    PROVE  BatchInv'
<1>1. VotesIn(Held(batch))' = VotesIn(Held(batch))
  BY SameVotes
<1>2. votes' \in 0 .. BatchSize /\ VotesIn(Held(batch))' <= votes' /\ (batch' = <<>> => votes' = 0)
  BY <1>1 DEF BatchInv
<1> QED
  BY <1>2 DEF BatchInv, Flushing

\* The batch is right after every step.
LEMMA BatchStep ==
    ASSUME TypeInv, TypeInv', PlaceInv, BatchInv, RestInv, Next, UNCHANGED Count
    PROVE  BatchInv'
<1>t. /\ queue \in Seq(Jobs) /\ batch \in Seq(Jobs) /\ BatchSize \in Nat \ {0}
      /\ \A c \in Calls : Count[c] \in Nat \ {0} /\ Count[c] <= BatchSize
      /\ votes \in Nat /\ votes <= BatchSize
  <2>1. BatchSize \in Nat \ {0}
    BY SizeAssumption DEF ValidConfig
  <2>2. votes \in 0 .. BatchSize /\ \A c \in Calls : Count[c] \in 1 .. BatchSize
    BY DEF BatchInv, RestInv
  <2> QED
    BY <2>1, <2>2 DEF TypeInv
<1>f. Flushing => batch # <<>>
  BY DEF BatchInv
<1>1. ASSUME Take PROVE BatchInv'
  <2>1. /\ wpc = "select" /\ queue # <<>> /\ pending' = Head(queue) /\ UNCHANGED <<batch, votes>>
        /\ IF votes + Count[Head(queue).call] > BatchSize THEN wpc' = "flush" ELSE wpc' = "append"
    BY <1>1 DEF Take
  <2>2. Head(queue) \in Jobs
    BY <1>t, <2>1, HeadTailProperties
  <2>3. Count[Head(queue).call] \in Nat /\ Count[Head(queue).call] <= BatchSize
    BY <1>t, <2>2 DEF Jobs
  <2>4. wpc' = "append" => votes + Count[pending'.call] <= BatchSize
    BY <1>t, <2>1, <2>3
  <2>5. wpc' \in {"flush", "sync", "answer"} => batch # <<>>
    <3>1. batch = <<>> => votes = 0
      BY DEF BatchInv
    <3> QED
      BY <1>t, <2>1, <2>3, <3>1
  <2> QED
    BY <2>1, <2>4, <2>5, BatchFrame
<1>2. ASSUME AddToBatch PROVE BatchInv'
  <2>1. /\ wpc = "append" /\ pending # NoJob /\ batch' = Append(batch, pending)
        /\ votes' = votes + Count[pending.call] /\ wpc' # "append"
    BY <1>2 DEF AddToBatch, PlaceInv
  <2>2. pending \in Jobs /\ pending.call \in Calls
    BY <2>1, PendingFacts
  <2> DEFINE c == pending.call
  <2>3. Held(batch') = Held(batch) \cup {c} /\ Held(batch) \in SUBSET Calls /\ IsFiniteSet(Held(batch))
    BY <1>t, <2>1, <2>2, HeldFacts
  <2>4. votes + Count[c] <= BatchSize /\ VotesIn(Held(batch)) <= votes
    BY <2>1 DEF BatchInv
  <2>5. VotesIn(Held(batch')) <= VotesIn(Held(batch)) + Count[c] /\ VotesIn(Held(batch)) \in Nat
    <3>1. CASE c \in Held(batch)
      <4>1. Held(batch') = Held(batch)
        BY <2>3, <3>1
      <4>2. VotesIn(Held(batch)) \in Nat /\ Count[c] \in Nat
        BY <1>t, <2>2, <2>3, VotesFinite
      <4> QED
        BY <4>1, <4>2
    <3>2. CASE c \notin Held(batch)
      <4>1. VotesIn(Held(batch')) = VotesIn(Held(batch)) + Count[c]
        BY <2>2, <2>3, <3>2, VotesAdd
      <4>2. VotesIn(Held(batch)) \in Nat /\ Count[c] \in Nat
        BY <1>t, <2>2, <2>3, VotesFinite
      <4> QED
        BY <4>1, <4>2
    <3> QED
      BY <3>1, <3>2
  <2>6. VotesIn(Held(batch))' = VotesIn(Held(batch'))
    BY SameVotes
  <2>7. VotesIn(Held(batch'))  \in Nat
    <3>1. Held(batch') \in SUBSET Calls /\ IsFiniteSet(Held(batch'))
      BY HeldFacts DEF TypeInv
    <3> QED
      BY <3>1, VotesFinite
  <2>8. batch' # <<>>
    BY <1>t, <2>1, <2>2, AppendProperties
  <2>9. votes' = votes + Count[c] /\ Count[c] \in Nat
    BY <1>t, <2>1, <2>2
  <2> HIDE DEF c
  <2>10. votes' \in 0 .. BatchSize
    BY <1>t, <2>4, <2>9
  <2>11. VotesIn(Held(batch))' <= votes'
    BY <1>t, <2>4, <2>5, <2>6, <2>7, <2>9
  <2> QED
    BY <2>1, <2>8, <2>10, <2>11 DEF BatchInv
<1>3. ASSUME AnswerBatch PROVE BatchInv'
  <2>1. /\ batch' = <<>> /\ votes' = 0 /\ UNCHANGED pending
        /\ wpc' \in {"select", "append", "closing", "exit", "drain"}
        /\ wpc' = "append" => after = "append"
    BY <1>3 DEF AnswerBatch, AfterAnswer, PlaceInv
  <2>2. after = "append" => pending # NoJob
    BY <1>3 DEF AnswerBatch, PlaceInv, Flushing
  <2>3. wpc' = "append" => Count[pending.call] <= BatchSize /\ Count[pending.call] \in Nat
    BY <1>t, <2>1, <2>2, PendingFacts
  <2>4. VotesIn(Held(batch))' = VotesIn(Held(batch')) /\ Held(batch') = {}
    BY <2>1, SameVotes DEF Held
  <2>5. VotesIn({}) = 0
    BY FS_EmptySet DEF VotesIn, VotesOf
  <2>6. VotesIn(Held(batch))' = 0
    BY <2>4, <2>5
  <2>7. wpc' = "append" => votes' + Count'[pending'.call] <= BatchSize
    BY <2>1, <2>3
  <2> QED
    BY <1>t, <2>1, <2>6, <2>7 DEF BatchInv, Flushing
<1>4. ASSUME Tick \/ SeeClosed \/ Write \/ WriteFails \/ Sync \/ WriteClosed \/ SyncClosed \/ Exit
               \/ DrainJob
      PROVE  BatchInv'
  <2>1. UNCHANGED <<batch, votes>> /\ wpc' # "append"
    BY <1>4 DEF Tick, SeeClosed, Write, WriteFails, Sync, WriteClosed, SyncClosed, Exit, DrainJob,
                AfterWrite
  <2>2. wpc' \in {"flush", "sync", "answer"} => batch # <<>>
    BY <1>4, <1>f
       DEF Tick, SeeClosed, Write, WriteFails, Sync, WriteClosed, SyncClosed, Exit, DrainJob,
           AfterWrite, Flushing
  <2> QED
    BY <2>1, <2>2, BatchFrame
<1>5. ASSUME UNCHANGED <<wpc, pending, batch, votes>> PROVE BatchInv'
  BY <1>5, BatchFrame DEF BatchInv, Flushing
<1>6. ASSUME NEW c \in Calls, CallStep(c) PROVE BatchInv'
  BY <1>5, <1>6 DEF CallStep, SubmitFrame, Receive, GiveUp, writer
<1>7. ASSUME \/ \E k \in Sealers : SealStep(k)
             \/ \E k \in Closers : CloseStep(k)
             \/ \E t \in Clock : SetClock(t)
             \/ Crash
      PROVE  BatchInv'
  BY <1>5, <1>7
     DEF SealStep, SealChecks, SealWaits, SealStops, SealReturns, SealGivesUp, CloseStep,
         CloseStops, CloseReturns, SetClock, Crash, writer
<1> QED
  BY <1>1, <1>2, <1>3, <1>4, <1>6, <1>7 DEF Next, WriterStep

\* The flags stay flags, and the manifest is written once.
LEMMA RestStep ==
    ASSUME TypeInv, RestInv, Next, UNCHANGED Count
    PROVE  RestInv'
<1>1. Len(manifest') <= 1
  <2>1. CASE UNCHANGED manifest
    BY <2>1 DEF RestInv
  <2>2. CASE manifest' = <<sequence>>
    BY <2>2 DEF TypeInv
  <2> QED
    BY <2>1, <2>2, ManifestFrame DEF SyncClosed, ManifestOffset
<1>2. DOMAIN spc = Sealers \cup Closers
  BY DEF RestInv
<1>3. /\ Count' \in [Calls -> 1 .. BatchSize]
      /\ spc \in [Sealers \cup Closers -> {"idle", "until", "stop", "wait", "returned"}]
      /\ {admissionClosed, queueClosed, sealRequested, poisoned, alive, deadlineSeen}
           \subseteq BOOLEAN
  BY DEF RestInv
<1> DEFINE Flags == {admissionClosed, queueClosed, sealRequested, poisoned, alive, deadlineSeen}'
                      \subseteq BOOLEAN
           Places == spc' \in [Sealers \cup Closers -> {"idle", "until", "stop", "wait", "returned"}]
<1>4. ASSUME NEW c \in Calls, CallStep(c) PROVE Flags /\ Places
  <2>1. CASE SubmitFrame(c)
    <3>1. /\ UNCHANGED <<queueClosed, sealRequested, poisoned, alive, spc>>
          /\ admissionClosed' \in {admissionClosed, TRUE}
          /\ deadlineSeen' \in BOOLEAN
      BY <2>1, SubmitCases DEF SubmitFrame
    <3> QED
      BY <1>3, <3>1
  <2>2. CASE Receive(c) \/ GiveUp(c)
    BY <1>3, <2>2 DEF Receive, GiveUp, admission, history
  <2> QED
    BY <1>4, <2>1, <2>2 DEF CallStep
<1>5. ASSUME WriterStep PROVE Flags /\ Places
  <2>1. UNCHANGED <<spc, sealRequested, alive, deadlineSeen>>
        /\ admissionClosed' \in {admissionClosed, TRUE} /\ queueClosed' \in {queueClosed, TRUE}
        /\ poisoned' \in {poisoned, TRUE}
    BY <1>5 DEF WriterStep, Take, AddToBatch, Tick, SeeClosed, Write, WriteFails, Sync, AnswerBatch,
                DrainJob, WriteClosed, SyncClosed, Exit, NoFault, Fail, StopQueue, admission, callers,
                history
  <2> QED
    BY <1>3, <2>1
<1>6. ASSUME NEW k \in Sealers, SealStep(k) PROVE Flags /\ Places
  <2>1. /\ UNCHANGED <<poisoned, alive, deadlineSeen>>
        /\ admissionClosed' \in {admissionClosed, TRUE} /\ queueClosed' \in {queueClosed, TRUE}
        /\ sealRequested' \in {sealRequested, TRUE}
        /\ \E l \in {"until", "stop", "wait", "returned"} : spc' = [spc EXCEPT ![k] = l]
    BY <1>6 DEF SealStep, SealChecks, SealWaits, SealStops, SealReturns, SealGivesUp, StopQueue,
                admission, history
  <2> QED
    BY <1>3, <2>1
<1>7. ASSUME NEW k \in Closers, CloseStep(k) PROVE Flags /\ Places
  <2>1. /\ UNCHANGED <<poisoned, alive, deadlineSeen, sealRequested>>
        /\ admissionClosed' \in {admissionClosed, TRUE} /\ queueClosed' \in {queueClosed, TRUE}
        /\ \E l \in {"wait", "returned"} : spc' = [spc EXCEPT ![k] = l]
    BY <1>7 DEF CloseStep, CloseStops, CloseReturns, StopQueue, admission, history
  <2> QED
    BY <1>3, <2>1
<1>8. ASSUME NEW t \in Clock, SetClock(t) PROVE Flags /\ Places
  BY <1>3, <1>8 DEF SetClock, admission, callers
<1>9. ASSUME Crash PROVE Flags /\ Places
  BY <1>3, <1>9 DEF Crash, admission, callers, history
<1>10. Flags /\ Places
  BY <1>4, <1>5, <1>6, <1>7, <1>8, <1>9 DEF Next
<1> QED
  BY <1>1, <1>3, <1>10 DEF RestInv

\* Nothing is held at first.
LEMMA BoundInit == Init => BoundInv
<1> SUFFICES ASSUME Init PROVE BoundInv
  OBVIOUS
<1>1. Charged = {} /\ HeldPending = {} /\ Held(batch) = {} /\ queue = <<>> /\ batch = <<>>
  BY DEF Init, Charged, HeldPending, Held
<1>2. VotesIn({}) = 0
  BY FS_EmptySet DEF VotesIn, VotesOf
<1>3. QueuePerPartition \in Nat /\ BatchSize \in Nat
  BY SizeAssumption DEF ValidConfig
<1>4. ChargeInv
  BY <1>1, <1>2, <1>3 DEF Init, ChargeInv
<1>5. BatchInv
  <2>1. votes = 0 /\ wpc = "select"
    BY DEF Init
  <2> QED
    BY <1>1, <1>2, <1>3, <2>1 DEF BatchInv, Flushing
<1>6. RestInv
  <2>1. Count \in [Calls -> 1 .. BatchSize]
    BY SizeAssumption DEF Init
  <2>2. deadlineSeen \in BOOLEAN
    <3>1. (now >= EndsAt) \in BOOLEAN
      OBVIOUS
    <3>2. deadlineSeen = (now >= EndsAt)
      BY DEF Init
    <3> QED
      BY <3>1, <3>2, Zenon
  <2>3. /\ admissionClosed = FALSE /\ queueClosed = FALSE /\ sealRequested = FALSE
        /\ poisoned = FALSE /\ alive = TRUE /\ Len(manifest) <= 1
        /\ spc = [k \in Sealers \cup Closers |-> "idle"]
    BY DEF Init
  <2> QED
    BY <2>1, <2>2, <2>3 DEF RestInv
<1> QED
  BY <1>4, <1>5, <1>6 DEF BoundInv

\* The invariant is about the variables only.
LEMMA BoundStutter == ASSUME BoundInv, UNCHANGED <<vars, Count>> PROVE BoundInv'
<1> USE DEF vars, admission, writer, callers, history
<1>1. ChargeInv'
  BY ChargeFrame DEF BoundInv, ChargeInv
<1>2. BatchInv'
  BY BatchFrame DEF BoundInv, BatchInv, Flushing
<1>3. RestInv'
  BY DEF BoundInv, RestInv
<1> QED
  BY <1>1, <1>2, <1>3 DEF BoundInv

\* What is held in memory is bounded always.
LEMMA BoundAlways == Spec => []BoundInv
<1>1. JournalInv /\ JournalInv' /\ BoundInv /\ [Next /\ UNCHANGED Count]_<<vars, Count>> => BoundInv'
  <2>1. ASSUME JournalInv, JournalInv', BoundInv, Next, UNCHANGED Count PROVE BoundInv'
    BY <2>1, ChargeStep, BatchStep, RestStep DEF JournalInv, BoundInv
  <2> QED
    BY <2>1, BoundStutter
<1> QED
  BY <1>1, BoundInit, JournalAlways, PTL DEF Spec

\* The parts of the invariant give the types.
LEMMA TypesFollow == JournalInv /\ BoundInv => TypeOK
<1> SUFFICES ASSUME JournalInv, BoundInv PROVE TypeOK
  OBVIOUS
<1>1. TypeInv /\ PlaceInv /\ BatchInv /\ RestInv /\ ChargeInv
  BY DEF JournalInv, BoundInv
<1>2. queuedVotes \in Nat /\ votes \in Nat
  <2>1. VotesIn(Charged) \in Nat
    BY <1>1, PendingFacts, VotesFinite
  <2> QED
    BY <1>1, <2>1, SizeAssumption DEF ChargeInv, BatchInv, ValidConfig
<1>3. manifest \in {<<>>} \cup {<<n>> : n \in 0 .. Len(order)}
  <2> SUFFICES ASSUME manifest # <<>> PROVE \E n \in 0 .. Len(order) : manifest = <<n>>
    OBVIOUS
  <2>1. manifest \in Seq(Nat) /\ Len(manifest) = 1 /\ manifest[1] \in Nat
    <3>1. manifest \in Seq(Nat) /\ Len(manifest) \in Nat /\ Len(manifest) <= 1
      BY <1>1 DEF TypeInv, RestInv
    <3>2. Len(manifest) # 0
      BY <3>1, EmptySeq
    <3>3. Len(manifest) = 1
      <4>1. \A n \in Nat : n # 0 /\ n <= 1 => n = 1
        OBVIOUS
      <4> QED
        BY <3>1, <3>2, <4>1, Zenon
    <3>4. manifest[1] \in Nat
      BY <3>1, <3>3, ElementOfSeq
    <3> QED
      BY <3>1, <3>3, <3>4
  <2>2. manifest = <<manifest[1]>>
    BY <2>1
  <2>3. manifest[1] + 1 = Len(file) /\ Len(file) = Len(order) + 1 /\ Len(order) \in Nat
    BY DEF JournalInv, ManifestInv, ClosedAt, TypeInv
  <2> QED
    BY <2>1, <2>2, <2>3
<1> QED
  BY <1>1, <1>2, <1>3 DEF TypeOK, TypeInv, PlaceInv, BatchInv, RestInv, Flushing

\* A full queue and one batch bound the votes in memory.
LEMMA MemoryFollows == JournalInv /\ BoundInv => MemoryBound
<1> SUFFICES ASSUME JournalInv, BoundInv PROVE MemoryBound
  OBVIOUS
<1>1. TypeInv /\ ChargeInv /\ BatchInv /\ RestInv
  BY DEF JournalInv, BoundInv
<1>2. /\ Held(queue) \in SUBSET Calls /\ IsFiniteSet(Held(queue))
      /\ Held(batch) \in SUBSET Calls /\ IsFiniteSet(Held(batch))
      /\ Charged \in SUBSET Calls /\ IsFiniteSet(Charged)
  BY <1>1, HeldFacts, PendingFacts DEF TypeInv
<1>3. /\ QueuePerPartition \in Nat /\ BatchSize \in Nat /\ votes \in Nat /\ votes <= BatchSize
      /\ VotesIn(Charged) <= QueuePerPartition /\ VotesIn(Held(batch)) <= votes
  BY <1>1, SizeAssumption DEF ChargeInv, BatchInv, ValidConfig
<1>4. VotesIn(Held(queue) \cup HeldPending) <= QueuePerPartition /\ VotesIn(Held(batch)) <= BatchSize
  <2>1. VotesIn(Held(batch)) \in Nat
    BY <1>2, VotesFinite
  <2> QED
    BY <1>3, <2>1 DEF Charged
<1>5. Len(queue) <= QueuePerPartition
  <2>1. Len(queue) <= VotesIn(Held(queue)) /\ Len(queue) \in Nat
    BY <1>1, LenBound DEF ChargeInv, TypeInv
  <2>2. VotesIn(Held(queue)) <= VotesIn(Charged)
    <3>1. IsFiniteSet(VotesOf(Charged)) /\ VotesOf(Held(queue)) \in SUBSET VotesOf(Charged)
      BY <1>2, VotesFinite DEF VotesOf, Charged
    <3> QED
      BY <3>1, FS_Subset DEF VotesIn
  <2>3. VotesIn(Charged) \in Nat /\ VotesIn(Held(queue)) \in Nat
    BY <1>2, VotesFinite
  <2> QED
    BY <1>3, <2>1, <2>2, <2>3
<1>6. wpc = "done" => queuedVotes = 0
  <2>1. VotesIn({}) = 0
    BY FS_EmptySet DEF VotesIn, VotesOf
  <2> QED
    BY <1>1, <2>1 DEF ChargeInv
<1> QED
  BY <1>4, <1>5, <1>6, TypesFollow DEF MemoryBound

\* The journal holds at most a full queue, with the job in the writer's hand, and one
\* batch; the channel has room for whatever was charged, and a writer that has stopped
\* has given back every charge.
THEOREM MemoryIsBounded == Spec => []MemoryBound
  BY BoundAlways, JournalAlways, MemoryFollows, PTL

-----------------------------------------------------------------------------
(* The benchmark: where a planned attempt is *)

Plans  == {f \in Seq(Attempts) : \A m, n \in DOMAIN f : f[m] = f[n] => m = n}
Packed == {f \in Plans : Len(f) \in 1 .. FrameSize}

Entries(q) == UNION {ToSet(q[j]) : j \in DOMAIN q}
Apart(q)   == \A i, j \in DOMAIN q : i # j => ToSet(q[i]) \cap ToSet(q[j]) = {}
NotedAs(s) == {a \in Attempts : state[a] = s}
InCall(w)  == ToSet(wk[w].frame)
Calling    == UNION {InCall(w) : w \in Workers}
Unsent     == {a \in Attempts : a[1] < gen.next /\ state[a] = "never"}
Packing    == ToSet(gen.todo) \cup ToSet(gen.buf)
Skipped    == Unsent \ (Packing \cup Entries(jobs))
States     == {"never", "unknown", "ack", "rejected"}

BenchTypeInv ==
    /\ gen \in [next : 1 .. Keys + 1, todo : Plans, buf : Plans] /\ Len(gen.buf) < FrameSize
    /\ jobs \in Seq(Packed)
    /\ wk \in [Workers -> [pc : {"idle", "sent", "written"}, frame : Packed \cup {<<>>}, offset : Nat]]
    /\ \A w \in Workers : wk[w].pc = "idle" <=> wk[w].frame = <<>>
    /\ state \in [Attempts -> States]
    /\ acks \subseteq [offset : Nat, frame : Packed]
    /\ cnt \in [Counters -> Nat]
    /\ journal \in Seq(Seq(Attempts)) /\ late \subseteq Packed /\ refused \subseteq Packed

\* Attempts that are not sent yet are in the generator, in one frame of the
\* channel or skipped; those that are being sent are with one worker.
WaitInv ==
    /\ Packing \subseteq Unsent /\ Entries(jobs) \subseteq Unsent
    /\ ToSet(gen.todo) \cap ToSet(gen.buf) = {} /\ Packing \cap Entries(jobs) = {}
    /\ Apart(jobs)
    /\ \A a \in Attempts : state[a] # "never" => a[1] < gen.next
CallInv ==
    /\ \A w \in Workers : InCall(w) \subseteq NotedAs("unknown")
    /\ \A w, v \in Workers : w # v => InCall(w) \cap InCall(v) = {}

\* What is acknowledged has one receipt, and what was refused was rejected.
OutcomeInv ==
    /\ \A r \in acks : ToSet(r.frame) \subseteq NotedAs("ack")
    /\ \A a \in NotedAs("ack") : \E r \in acks : a \in ToSet(r.frame)
    /\ \A r, q \in acks : r # q => ToSet(r.frame) \cap ToSet(q.frame) = {}
    /\ \A f \in refused : ToSet(f) \subseteq NotedAs("rejected")

\* A journal that is not spoilt has each frame once, where its receipt says, or
\* without one when its outcome is unknown.
Unspoilt ==
    /\ journal \in Seq(Packed) /\ Apart(journal)
    /\ \A i \in DOMAIN journal :
        ToSet(journal[i]) \subseteq NotedAs("unknown") \/ \E r \in acks : r.offset = i
    /\ \A r \in acks : r.offset \in DOMAIN journal /\ r.frame = journal[r.offset]
    /\ \A f \in late : /\ ToSet(f) \subseteq NotedAs("unknown")
                       /\ ToSet(f) \cap Entries(journal) = {}
                       /\ \A w \in Workers : ToSet(f) \cap InCall(w) = {}
                       /\ \A g \in late : f # g => ToSet(f) \cap ToSet(g) = {}
    /\ \A w \in Workers :
        /\ wk[w].pc = "sent" => InCall(w) \cap Entries(journal) = {}
        /\ wk[w].pc = "written" => /\ wk[w].offset \in DOMAIN journal
                                   /\ journal[wk[w].offset] = wk[w].frame
DiskInv == ~ closed \/ Faults = {} => Unspoilt

\* The counters are the sizes of these sets; a frame that is dropped after the
\* run was cancelled is not counted.
TallyInv ==
    /\ cnt["dispatched"] = Cardinality({a \in Attempts : state[a] # "never"})
    /\ cnt["recorded"] = Cardinality(NotedAs("ack"))
    /\ cnt["rejected"] = Cardinality(NotedAs("rejected"))
    /\ cnt["unknown"] = Cardinality(NotedAs("unknown") \ Calling)
    /\ cnt["lag"] + cnt["queue"] <= Cardinality(Skipped)
    /\ ~ cancelled => cnt["lag"] + cnt["queue"] = Cardinality(Skipped)

StageInv ==
    /\ phase # "run" => /\ gen.todo = <<>> /\ gen.buf = <<>> /\ jobs = <<>>
                        /\ \A w \in Workers : wk[w].pc = "idle"
                        /\ cancelled \/ gen.next > Keys
    /\ phase = "run" => ledger = <<>>
    /\ closed => phase \in {"sealed", "audited"}
    /\ verdict # "none" => phase = "audited"
    /\ verdict = "correct" => Correct
    /\ verdict = "wrong" => Faults # {}

BenchInv == /\ BenchTypeInv /\ WaitInv /\ CallInv /\ OutcomeInv /\ DiskInv /\ TallyInv /\ StageInv

-----------------------------------------------------------------------------
\* The elements of a sequence.
LEMMA ElementsOf ==
    ASSUME NEW S, NEW s \in Seq(S)
    PROVE  /\ ToSet(s) \subseteq S
           /\ \A e : e \in ToSet(s) <=> \E i \in DOMAIN s : s[i] = e
           /\ \A i \in DOMAIN s : s[i] \in ToSet(s)
           /\ DOMAIN s = 1 .. Len(s) /\ Len(s) \in Nat
  BY DEF ToSet
LEMMA ElementsOfEmpty == ToSet(<<>>) = {}
  BY DEF ToSet

\* A plan with one attempt more, and a plan without its first.
LEMMA PlanAppend ==
    ASSUME NEW f \in Plans, NEW a \in Attempts, a \notin ToSet(f)
    PROVE  /\ Append(f, a) \in Plans /\ Len(Append(f, a)) = Len(f) + 1
           /\ ToSet(Append(f, a)) = ToSet(f) \cup {a}
<1>1. f \in Seq(Attempts) /\ \A m, n \in DOMAIN f : f[m] = f[n] => m = n
  BY DEF Plans
<1> DEFINE g == Append(f, a)
<1>2. /\ g \in Seq(Attempts) /\ Len(g) = Len(f) + 1 /\ DOMAIN g = 1 .. Len(f) + 1
      /\ g[Len(f) + 1] = a /\ \A i \in 1 .. Len(f) : g[i] = f[i]
  BY <1>1
<1>3. DOMAIN f = 1 .. Len(f) /\ Len(f) \in Nat /\ \A i \in DOMAIN f : f[i] # a
  BY <1>1, ElementsOf
<1> HIDE DEF g
<1>4. \A m, n \in DOMAIN g : g[m] = g[n] => m = n
  BY <1>1, <1>2, <1>3
<1>5. \A e : e \in ToSet(g) <=> e \in ToSet(f) \cup {a}
  BY <1>1, <1>2, <1>3 DEF ToSet
<1> QED
  BY <1>2, <1>4, <1>5 DEF Plans, g
LEMMA PlanTail ==
    ASSUME NEW f \in Plans, f # <<>>
    PROVE  /\ Head(f) \in Attempts /\ Tail(f) \in Plans
           /\ ToSet(f) = ToSet(Tail(f)) \cup {Head(f)}
           /\ Head(f) \notin ToSet(Tail(f))
<1>1. f \in Seq(Attempts) /\ \A m, n \in DOMAIN f : f[m] = f[n] => m = n
  BY DEF Plans
<1> DEFINE g == Tail(f)
<1>2. /\ Len(f) \in Nat \ {0} /\ DOMAIN f = 1 .. Len(f) /\ Head(f) = f[1]
  BY <1>1
<1>3. /\ g \in Seq(Attempts) /\ Len(g) = Len(f) - 1 /\ DOMAIN g = 1 .. Len(f) - 1
      /\ \A i \in 1 .. Len(f) - 1 : g[i] = f[i + 1]
  BY <1>1, <1>2
<1> HIDE DEF g
<1>4. \A m, n \in DOMAIN g : g[m] = g[n] => m = n
  <2> SUFFICES ASSUME NEW m \in DOMAIN g, NEW n \in DOMAIN g, g[m] = g[n] PROVE m = n
    OBVIOUS
  <2>1. m + 1 \in DOMAIN f /\ n + 1 \in DOMAIN f /\ f[m + 1] = f[n + 1]
    BY <1>2, <1>3
  <2>2. m + 1 = n + 1
    BY <1>1, <2>1
  <2> QED
    BY <1>2, <1>3, <2>2
<1>5. ASSUME NEW e PROVE e \in ToSet(f) <=> e \in ToSet(g) \/ e = f[1]
  <2>1. ASSUME NEW i \in DOMAIN f, f[i] = e PROVE e \in ToSet(g) \/ e = f[1]
    <3>1. CASE i = 1
      BY <2>1, <3>1
    <3>2. CASE i # 1
      <4>1. i - 1 \in DOMAIN g /\ g[i - 1] = e
        BY <1>2, <1>3, <2>1, <3>2
      <4> QED
        BY <4>1 DEF ToSet
    <3> QED
      BY <3>1, <3>2
  <2>2. ASSUME NEW i \in DOMAIN g, g[i] = e PROVE e \in ToSet(f)
    <3>1. i + 1 \in DOMAIN f /\ f[i + 1] = e
      BY <1>2, <1>3, <2>2
    <3> QED
      BY <3>1 DEF ToSet
  <2>3. f[1] \in ToSet(f)
    BY <1>2 DEF ToSet
  <2> QED
    BY <2>1, <2>2, <2>3 DEF ToSet
<1>6. f[1] \notin ToSet(g)
  <2> SUFFICES ASSUME NEW i \in DOMAIN g, g[i] = f[1] PROVE FALSE
    BY DEF ToSet
  <2>1. i + 1 \in DOMAIN f /\ f[i + 1] = f[1] /\ 1 \in DOMAIN f /\ i + 1 # 1
    BY <1>2, <1>3
  <2> QED
    BY <1>1, <2>1
<1>7. ToSet(f) = ToSet(g) \cup {f[1]}
  BY <1>5
<1>8. g \in Plans /\ f[1] \in Attempts
  BY <1>1, <1>2, <1>3, <1>4 DEF Plans
<1> QED
  BY <1>2, <1>6, <1>7, <1>8 DEF g

\* The attempts of a key are one or two; together they are a finite set.
LEMMA KeyAttempts ==
    ASSUME NEW k \in 1 .. Keys
    PROVE  /\ AttemptsOf(k) \in Plans
           /\ ToSet(AttemptsOf(k)) = {a \in Attempts : a[1] = k}
<1> USE BenchAssumption DEF BenchConfig
<1>1. ASSUME NEW j \in 1 .. Keys
      PROVE  /\ AttemptsOf(j) \in {<<<<j, 1>>, <<j, 2>>>>, <<<<j, 1>>>>}
             /\ ToSet(AttemptsOf(j)) \in {{<<j, 1>>, <<j, 2>>}, {<<j, 1>>}}
  <2>1. ToSet(<<<<j, 1>>, <<j, 2>>>>) = {<<j, 1>>, <<j, 2>>} /\ ToSet(<<<<j, 1>>>>) = {<<j, 1>>}
    BY DEF ToSet
  <2> QED
    BY <2>1 DEF AttemptsOf
<1>2. ToSet(AttemptsOf(k)) \subseteq Attempts
  BY DEF Attempts
<1>3. \A a \in ToSet(AttemptsOf(k)) : a[1] = k
  BY <1>1
<1>4. ASSUME NEW a \in Attempts, a[1] = k PROVE a \in ToSet(AttemptsOf(k))
  <2>1. PICK j \in 1 .. Keys : a \in ToSet(AttemptsOf(j))
    BY DEF Attempts
  <2>2. a[1] = j
    BY <1>1, <2>1
  <2> QED
    BY <1>4, <2>1, <2>2
<1>5. AttemptsOf(k) \in Plans
  <2>1. <<k, 1>> \in ToSet(AttemptsOf(k)) /\ <<k, 1>> # <<k, 2>>
    BY <1>1
  <2>2. CASE AttemptsOf(k) = <<<<k, 1>>>>
    BY <1>2, <2>1, <2>2 DEF Plans
  <2>3. CASE AttemptsOf(k) = <<<<k, 1>>, <<k, 2>>>>
    <3>1. <<k, 1>> \in Attempts /\ <<k, 2>> \in Attempts
      BY <1>2, <2>3 DEF ToSet
    <3> QED
      BY <2>1, <2>3, <3>1 DEF Plans
  <2> QED
    BY <1>1, <2>2, <2>3
<1> QED
  BY <1>2, <1>3, <1>4, <1>5
LEMMA AttemptsFinite ==
    /\ IsFiniteSet(Attempts) /\ \A a \in Attempts : a[1] \in 1 .. Keys
    /\ \A S : S \subseteq Attempts => /\ IsFiniteSet(S) /\ Cardinality(S) \in Nat
                                      /\ Cardinality(S) <= Cardinality(Attempts)
<1> USE BenchAssumption DEF BenchConfig
<1>1. ASSUME NEW a \in Attempts PROVE a \in (1 .. Keys) \X (1 .. 2)
  <2>1. PICK j \in 1 .. Keys : a \in ToSet(AttemptsOf(j))
    BY DEF Attempts
  <2>2. ToSet(AttemptsOf(j)) = {<<j, 1>>, <<j, 2>>} \/ ToSet(AttemptsOf(j)) = {<<j, 1>>}
    BY DEF AttemptsOf, ToSet
  <2> QED
    BY <2>1, <2>2
<1>2. IsFiniteSet(1 .. Keys) /\ IsFiniteSet(1 .. 2)
  <2>1. 1 \in Int /\ 2 \in Int /\ Keys \in Int
    OBVIOUS
  <2> QED
    BY <2>1, FS_Interval, Zenon
<1>3. IsFiniteSet((1 .. Keys) \X (1 .. 2))
  BY <1>2, FS_Product
<1>4. IsFiniteSet(Attempts)
  BY <1>1, <1>3, FS_Subset
<1> QED
  BY <1>1, <1>4, FS_Subset, FS_CardinalityType
\* A plan has as many attempts as it is long.
LEMMA PlanLength ==
    ASSUME NEW f \in Plans
    PROVE  IsFiniteSet(ToSet(f)) /\ Cardinality(ToSet(f)) = Len(f) /\ ToSet(f) \subseteq Attempts
<1>1. f \in Seq(Attempts) /\ DOMAIN f = 1 .. Len(f) /\ Len(f) \in Nat
  BY DEF Plans
<1>2. f \in Surjection(1 .. Len(f), ToSet(f))
  BY <1>1 DEF Surjection, ToSet
<1>3. f \in Injection(1 .. Len(f), ToSet(f))
  BY <1>1, <1>2 DEF Plans, Injection, IsInjective, Surjection
<1>4. IsFiniteSet(1 .. Len(f)) /\ Cardinality(1 .. Len(f)) = Len(f)
  BY <1>1, FS_Interval
<1>5. IsFiniteSet(ToSet(f)) /\ Cardinality(ToSet(f)) = Len(f)
  BY <1>2, <1>3, <1>4, FS_Surjection
<1> QED
  BY <1>1, <1>5, ElementsOf

\* A channel, or a journal, with a frame more, and one without its first.
LEMMA EntriesAppend ==
    ASSUME NEW q \in Seq(Packed), Apart(q), NEW f \in Packed, ToSet(f) \cap Entries(q) = {}
    PROVE  /\ Append(q, f) \in Seq(Packed) /\ Apart(Append(q, f))
           /\ Entries(Append(q, f)) = Entries(q) \cup ToSet(f)
           /\ DOMAIN q = 1 .. Len(q) /\ Len(q) \in Nat
           /\ DOMAIN Append(q, f) = 1 .. Len(q) + 1 /\ Append(q, f)[Len(q) + 1] = f
           /\ \A i \in DOMAIN q : Append(q, f)[i] = q[i]
<1> DEFINE g == Append(q, f)
<1>1. /\ g \in Seq(Packed) /\ DOMAIN g = 1 .. Len(q) + 1 /\ g[Len(q) + 1] = f
      /\ \A i \in 1 .. Len(q) : g[i] = q[i]
      /\ DOMAIN q = 1 .. Len(q) /\ Len(q) \in Nat
  OBVIOUS
<1> HIDE DEF g
<1>2. \A i \in DOMAIN q : ToSet(q[i]) \cap ToSet(f) = {}
  BY DEF Entries
<1>3. Apart(g)
  BY <1>1, <1>2 DEF Apart
<1>4. \A e : e \in Entries(g) <=> e \in Entries(q) \cup ToSet(f)
  <2>1. \A e : e \in Entries(g) <=> \E i \in 1 .. Len(q) + 1 : e \in ToSet(g[i])
    BY <1>1 DEF Entries
  <2>2. \A e : e \in Entries(q) <=> \E i \in 1 .. Len(q) : e \in ToSet(q[i])
    BY <1>1 DEF Entries
  <2> QED
    BY <1>1, <2>1, <2>2
<1>5. Entries(g) = Entries(q) \cup ToSet(f)
  BY <1>4
<1> QED
  BY <1>1, <1>3, <1>5 DEF g
LEMMA EntriesTail ==
    ASSUME NEW q \in Seq(Packed), Apart(q), q # <<>>
    PROVE  /\ Head(q) \in Packed /\ Tail(q) \in Seq(Packed) /\ Apart(Tail(q))
           /\ Entries(q) = ToSet(Head(q)) \cup Entries(Tail(q))
           /\ ToSet(Head(q)) \cap Entries(Tail(q)) = {}
<1> DEFINE g == Tail(q)
<1>1. /\ Len(q) \in Nat \ {0} /\ DOMAIN q = 1 .. Len(q) /\ Head(q) = q[1] /\ q[1] \in Packed
  OBVIOUS
<1>2. /\ g \in Seq(Packed) /\ DOMAIN g = 1 .. Len(q) - 1
      /\ \A i \in 1 .. Len(q) - 1 : g[i] = q[i + 1]
  BY <1>1
<1> HIDE DEF g
<1>3. Apart(g)
  <2> SUFFICES ASSUME NEW i \in DOMAIN g, NEW j \in DOMAIN g, i # j
               PROVE  ToSet(g[i]) \cap ToSet(g[j]) = {}
    BY DEF Apart
  <2>1. i + 1 \in DOMAIN q /\ j + 1 \in DOMAIN q /\ i + 1 # j + 1
    BY <1>1, <1>2
  <2> QED
    BY <1>2, <2>1 DEF Apart
<1>4. ASSUME NEW e PROVE e \in Entries(q) <=> e \in ToSet(q[1]) \/ e \in Entries(g)
  <2>1. e \in Entries(q) <=> \E i \in DOMAIN q : e \in ToSet(q[i])
    BY DEF Entries
  <2>2. e \in Entries(g) <=> \E i \in DOMAIN g : e \in ToSet(g[i])
    BY DEF Entries
  <2>3. ASSUME NEW i \in DOMAIN q, e \in ToSet(q[i]) PROVE e \in ToSet(q[1]) \/ e \in Entries(g)
    <3>1. CASE i # 1
      <4>1. i - 1 \in DOMAIN g /\ g[i - 1] = q[i]
        BY <1>1, <1>2, <3>1
      <4> QED
        BY <2>2, <2>3, <4>1
    <3> QED
      BY <2>3, <3>1
  <2>4. ASSUME NEW i \in DOMAIN g, e \in ToSet(g[i]) PROVE e \in Entries(q)
    <3>1. i + 1 \in DOMAIN q /\ g[i] = q[i + 1]
      BY <1>1, <1>2
    <3> QED
      BY <2>1, <2>4, <3>1
  <2>5. 1 \in DOMAIN q
    BY <1>1
  <2> QED
    BY <2>1, <2>2, <2>3, <2>4, <2>5
<1>5. ToSet(q[1]) \cap Entries(g) = {}
  <2> SUFFICES ASSUME NEW i \in DOMAIN g PROVE ToSet(q[1]) \cap ToSet(g[i]) = {}
    BY DEF Entries
  <2>1. i + 1 \in DOMAIN q /\ g[i] = q[i + 1] /\ 1 \in DOMAIN q /\ i + 1 # 1
    BY <1>1, <1>2
  <2> QED
    BY <2>1 DEF Apart
<1>6. Entries(q) = ToSet(q[1]) \cup Entries(g)
  BY <1>4
<1> QED
  BY <1>1, <1>2, <1>3, <1>5, <1>6 DEF g

\* The size of a set that some attempts join, or leave.
LEMMA SizeOfUnion ==
    ASSUME NEW S \in SUBSET Attempts, NEW f \in Plans, S \cap ToSet(f) = {}
    PROVE  Cardinality(S \cup ToSet(f)) = Cardinality(S) + Len(f)
<1>1. /\ IsFiniteSet(S) /\ Cardinality(S) \in Nat /\ IsFiniteSet(ToSet(f))
      /\ Cardinality(ToSet(f)) = Len(f) /\ Len(f) \in Nat
  BY AttemptsFinite, PlanLength DEF Plans
<1>2. Cardinality(S \cap ToSet(f)) = 0
  BY FS_EmptySet
<1>3. Cardinality(S \cup ToSet(f)) =
        Cardinality(S) + Cardinality(ToSet(f)) - Cardinality(S \cap ToSet(f))
  BY <1>1, FS_Union
<1> QED
  BY <1>1, <1>2, <1>3

-----------------------------------------------------------------------------
\* Nothing is planned, sent or written at first.
LEMMA BenchInitInv == BenchInit => BenchInv
<1> SUFFICES ASSUME BenchInit PROVE BenchInv
  OBVIOUS
<1> USE BenchAssumption DEF BenchConfig
<1>1. /\ gen.next = 1 /\ gen.todo = <<>> /\ gen.buf = <<>> /\ jobs = <<>> /\ journal = <<>>
      /\ gen = [next |-> 1, todo |-> <<>>, buf |-> <<>>]
      /\ acks = {} /\ late = {} /\ refused = {} /\ closed = FALSE /\ cancelled = FALSE
      /\ killed = FALSE /\ phase = "run" /\ ledger = <<>> /\ verdict = "none"
      /\ \A w \in Workers : wk[w].pc = "idle" /\ wk[w].frame = <<>>
      /\ \A a \in Attempts : state[a] = "never"
      /\ \A c \in Counters : cnt[c] = 0
  BY DEF BenchInit, Idle
<1>2. <<>> \in Plans /\ ToSet(<<>>) = {} /\ Entries(<<>>) = {} /\ Apart(<<>>)
  <2>1. <<>> \in Seq(Attempts) /\ DOMAIN <<>> = {}
    OBVIOUS
  <2> QED
    BY <2>1, ElementsOfEmpty DEF Plans, Entries, Apart
<1>3. BenchTypeInv
  <2>1. wk \in [Workers -> [pc : {"idle", "sent", "written"}, frame : Packed \cup {<<>>}, offset : Nat]]
    BY DEF BenchInit, Idle
  <2>2. gen \in [next : 1 .. Keys + 1, todo : Plans, buf : Plans] /\ Len(gen.buf) < FrameSize
    BY <1>1, <1>2
  <2>3. state \in [Attempts -> States] /\ cnt \in [Counters -> Nat]
    BY DEF BenchInit, States
  <2> QED
    BY <1>1, <2>1, <2>2, <2>3 DEF BenchTypeInv
<1>4. WaitInv /\ CallInv /\ OutcomeInv
  BY <1>1, <1>2 DEF WaitInv, CallInv, OutcomeInv, Packing, InCall, NotedAs
<1>5. DiskInv
  BY <1>1, <1>2 DEF DiskInv, Unspoilt
<1>6. TallyInv
  <2>1. /\ {a \in Attempts : state[a] # "never"} = {} /\ NotedAs("ack") = {}
        /\ NotedAs("rejected") = {} /\ NotedAs("unknown") \ Calling = {} /\ Skipped = {}
    <3>1. \A a \in Attempts : ~ (a[1] < 1)
      BY AttemptsFinite
    <3> QED
      BY <1>1, <3>1 DEF NotedAs, Skipped, Unsent
  <2>2. \A c \in {"dispatched", "recorded", "rejected", "unknown", "lag", "queue"} : cnt[c] = 0
    BY <1>1 DEF Counters
  <2>3. Cardinality({}) = 0
    BY FS_EmptySet
  <2>4. /\ Cardinality({a \in Attempts : state[a] # "never"}) = 0
        /\ Cardinality(NotedAs("ack")) = 0 /\ Cardinality(NotedAs("rejected")) = 0
        /\ Cardinality(NotedAs("unknown") \ Calling) = 0 /\ Cardinality(Skipped) = 0
    BY <2>1, <2>3, Zenon
  <2> QED
    BY <2>2, <2>4 DEF TallyInv
<1>7. StageInv
  BY <1>1 DEF StageInv, Counters
<1> QED
  BY <1>3, <1>4, <1>5, <1>6, <1>7 DEF BenchInv

\* A frame in the channel or with a worker.
LEMMA PackedIsPlan == \A f \in Packed : f \in Plans /\ f \in Seq(Attempts) /\ f # <<>> /\ Len(f) \in Nat
  BY BenchAssumption DEF Packed, Plans, BenchConfig
\* What a faulty journal makes of its frames is still frames.
LEMMA DamagedType == BenchTypeInv => \A j \in Damaged : j \in Seq(Seq(Attempts))
<1> SUFFICES ASSUME BenchTypeInv, NEW j \in Damaged PROVE j \in Seq(Seq(Attempts))
  OBVIOUS
<1> DEFINE S == Seq(Attempts)
<1>1. journal \in Seq(S) /\ \A f \in refused : f \in S
  BY PackedIsPlan DEF BenchTypeInv
<1>2. \A i \in DOMAIN journal : Reverse(journal[i]) \in S
  <2> TAKE i \in DOMAIN journal
  <2>1. journal[i] \in Seq(Attempts) /\ Len(journal[i]) \in Nat
    BY <1>1
  <2> QED
    BY <2>1 DEF Reverse
<1> HIDE DEF S
<1>3. CASE j = journal
  BY <1>1, <1>3 DEF S
<1>4. ASSUME NEW i \in DOMAIN journal, j = RemoveAt(journal, i) PROVE j \in Seq(S)
  <2>1. i \in 1 .. Len(journal) /\ Len(journal) \in Nat
    BY <1>1
  <2>2. SubSeq(journal, 1, i - 1) \in Seq(S) /\ SubSeq(journal, i + 1, Len(journal)) \in Seq(S)
    BY <1>1, <2>1
  <2> QED
    BY <1>4, <2>2 DEF RemoveAt
<1>5. ASSUME NEW i \in DOMAIN journal, j = Append(journal, journal[i]) PROVE j \in Seq(S)
  BY <1>1, <1>5
<1>6. ASSUME NEW f \in refused, j = Append(journal, f) PROVE j \in Seq(S)
  BY <1>1, <1>6
<1>7. ASSUME NEW i \in DOMAIN journal, j = [journal EXCEPT ![i] = Reverse(@)] PROVE j \in Seq(S)
  BY <1>1, <1>2, <1>7
<1> QED
  BY <1>3, <1>4, <1>5, <1>6, <1>7 DEF Damaged, S

\* The outcome of a frame.
LEMMA NotedType ==
    ASSUME state \in [Attempts -> States], NEW f, NEW s \in States
    PROVE  /\ Noted(f, s) \in [Attempts -> States]
           /\ \A a \in Attempts : Noted(f, s)[a] = IF a \in ToSet(f) THEN s ELSE state[a]
  BY DEF Noted
LEMMA AddType ==
    ASSUME cnt \in [Counters -> Nat], NEW c \in Counters, NEW n \in Nat, Add(c, n)
    PROVE  cnt' \in [Counters -> Nat] /\ cnt'[c] = cnt[c] + n
           /\ \A d \in Counters \ {c} : cnt'[d] = cnt[d]
  BY DEF Add

-----------------------------------------------------------------------------
(* The generator and the channel *)

\* The journal agrees with the ledger as long as neither changes.
LEMMA DiskStays ==
    ASSUME DiskInv, UNCHANGED <<wk, state, acks, journal, closed, Faults>>, late' \in {late, {}}
    PROVE  DiskInv'
<1>1. /\ wk' = wk /\ acks' = acks /\ journal' = journal /\ closed' = closed /\ Faults' = Faults
      /\ NotedAs("unknown")' = NotedAs("unknown") /\ \A w \in Workers : InCall(w)' = InCall(w)
      /\ late' \subseteq late
  BY DEF NotedAs, InCall
<1>2. ASSUME Unspoilt PROVE Unspoilt'
  <2>1. \A f \in late' : /\ ToSet(f) \subseteq NotedAs("unknown")
                         /\ ToSet(f) \cap Entries(journal) = {}
                         /\ \A w \in Workers : ToSet(f) \cap InCall(w) = {}
                         /\ \A g \in late' : f # g => ToSet(f) \cap ToSet(g) = {}
    BY <1>1, <1>2 DEF Unspoilt
  <2> QED
    BY <1>1, <1>2, <2>1 DEF Unspoilt
<1> QED
  BY <1>1, <1>2 DEF DiskInv

\* A step that only moves attempts that are not sent: d is skipped by it, and n
\* of it are counted, all of them unless the run was cancelled.
QueueMoves(d, n) ==
    /\ phase = "run" /\ UNCHANGED <<wk, state, acks, cancelled, store, end, Faults>>
    /\ d \in Plans /\ n \in Nat /\ n <= Len(d) /\ (~ cancelled => n = Len(d))
    /\ cnt' \in [Counters -> Nat]
    /\ cnt'["lag"] + cnt'["queue"] = cnt["lag"] + cnt["queue"] + n
    /\ \A c \in Counters \ {"lag", "queue"} : cnt'[c] = cnt[c]
    /\ gen' \in [next : 1 .. Keys + 1, todo : Plans, buf : Plans] /\ Len(gen'.buf) < FrameSize
    /\ jobs' \in Seq(Packed)
    /\ WaitInv'
    /\ Skipped' = Skipped \cup ToSet(d) /\ Skipped \cap ToSet(d) = {}
LEMMA QueueStep == ASSUME BenchInv, NEW d, NEW n, QueueMoves(d, n) PROVE BenchInv'
<1> USE DEF QueueMoves
<1>0. /\ wk' = wk /\ state' = state /\ acks' = acks /\ cancelled' = cancelled
      /\ journal' = journal /\ late' = late /\ refused' = refused /\ closed' = closed
      /\ phase' = phase /\ ledger' = ledger /\ killed' = killed /\ verdict' = verdict
      /\ Faults' = Faults
  BY DEF store, end
<1>1. BenchTypeInv'
  BY <1>0 DEF BenchInv, BenchTypeInv
<1>2. CallInv' /\ OutcomeInv'
  BY <1>0 DEF BenchInv, CallInv, OutcomeInv, InCall, NotedAs
<1>3. DiskInv'
  BY <1>0, DiskStays DEF BenchInv
<1>4. TallyInv'
  <2>1. Skipped \subseteq Attempts /\ Cardinality(Skipped) \in Nat
    BY AttemptsFinite DEF Skipped, Unsent
  <2>2. Cardinality(Skipped') = Cardinality(Skipped) + Len(d)
    BY <2>1, SizeOfUnion
  <2>3. Len(d) \in Nat
    BY DEF Plans
  <2>4. \A c \in {"dispatched", "recorded", "rejected", "unknown"} : cnt'[c] = cnt[c]
    BY DEF Counters
  <2>5. cnt["lag"] \in Nat /\ cnt["queue"] \in Nat /\ cnt'["lag"] \in Nat /\ cnt'["queue"] \in Nat
    BY DEF BenchInv, BenchTypeInv, Counters
  <2>6. /\ cnt'["lag"] + cnt'["queue"] <= Cardinality(Skipped')
        /\ ~ cancelled => cnt'["lag"] + cnt'["queue"] = Cardinality(Skipped')
    BY <2>1, <2>2, <2>3, <2>5 DEF BenchInv, TallyInv
  <2> QED
    BY <1>0, <2>4, <2>6 DEF BenchInv, TallyInv, NotedAs, Calling, InCall
<1>5. StageInv'
  BY <1>0 DEF BenchInv, StageInv, Counters
<1> QED
  BY <1>1, <1>2, <1>3, <1>4, <1>5 DEF BenchInv

LEMMA NextKeyStep == BenchInv /\ NextKey /\ UNCHANGED Faults => BenchInv'
<1> SUFFICES ASSUME BenchInv, NextKey, UNCHANGED Faults PROVE BenchInv'
  OBVIOUS
<1> USE BenchAssumption DEF BenchConfig
<1>0. /\ gen \in [next : 1 .. Keys + 1, todo : Plans, buf : Plans] /\ Len(gen.buf) < FrameSize
      /\ jobs \in Seq(Packed) /\ cnt \in [Counters -> Nat] /\ gen.next \in 1 .. Keys
      /\ gen.todo = <<>> /\ ToSet(<<>>) = {} /\ <<>> \in Plans
      /\ phase = "run" /\ UNCHANGED <<wk, state, acks, cancelled, store, end>> /\ jobs' = jobs
      /\ state' = state
  BY ElementsOfEmpty DEF BenchInv, BenchTypeInv, NextKey
<1> DEFINE f == AttemptsOf(gen.next)
           K == {a \in Attempts : a[1] = gen.next}
<1>1. /\ f \in Plans /\ ToSet(f) = K /\ Len(f) \in Nat
  BY <1>0, KeyAttempts DEF Plans
<1> HIDE DEF f
<1>2. ASSUME gen'.next = gen.next + 1
      PROVE  Unsent' = Unsent \cup K /\ Unsent \cap K = {}
  <2>1. \A a \in Attempts : a[1] \in Nat /\ (a[1] < gen.next + 1 <=> a[1] < gen.next \/ a[1] = gen.next)
    BY <1>0, AttemptsFinite
  <2>2. \A a \in Attempts : a[1] = gen.next => state[a] = "never" /\ ~ (a[1] < gen.next)
    BY <1>0, <2>1 DEF BenchInv, WaitInv
  <2> QED
    BY <1>0, <1>2, <2>1, <2>2 DEF Unsent
<1>3. /\ \A a \in Attempts : state[a] # "never" => a[1] < gen.next + 1
      /\ ToSet(gen.todo) = {} /\ Packing = ToSet(gen.buf)
  <2>1. \A a \in Attempts : a[1] \in Nat
    BY AttemptsFinite
  <2> QED
    BY <1>0, <2>1 DEF BenchInv, WaitInv, Packing
<1>4. /\ Packing \subseteq Unsent /\ Entries(jobs) \subseteq Unsent
      /\ Packing \cap Entries(jobs) = {} /\ Apart(jobs)
  BY DEF BenchInv, WaitInv
<1>5. CASE gen' = [gen EXCEPT !.next = @ + 1, !.todo = f] /\ UNCHANGED cnt
  <2>1. gen'.next = gen.next + 1 /\ gen'.todo = f /\ gen'.buf = gen.buf
    BY <1>0, <1>5
  <2>2. Packing' = Packing \cup K
    BY <1>1, <1>3, <2>1 DEF Packing
  <2>3. WaitInv'
    BY <1>0, <1>1, <1>2, <1>3, <1>4, <2>1, <2>2 DEF WaitInv
  <2>4. Skipped' = Skipped \cup ToSet(<<>>)
    BY <1>0, <1>2, <1>4, <2>1, <2>2 DEF Skipped
  <2>5. gen' \in [next : 1 .. Keys + 1, todo : Plans, buf : Plans] /\ Len(gen'.buf) < FrameSize
    <3>1. gen' = [next |-> gen.next + 1, todo |-> f, buf |-> gen.buf]
      BY <1>0, <1>5
    <3>2. gen.next + 1 \in 1 .. Keys + 1 /\ gen.buf \in Plans
      BY <1>0
    <3> QED
      BY <1>0, <1>1, <3>1, <3>2
  <2>6. QueueMoves(<<>>, 0)
    <3>1. cnt["lag"] \in Nat /\ cnt["queue"] \in Nat /\ Len(<<>>) = 0
      BY <1>0 DEF Counters
    <3> QED
      BY <1>0, <1>5, <2>3, <2>4, <2>5, <3>1 DEF QueueMoves
  <2> QED
    BY <2>6, QueueStep
<1>6. CASE gen' = [gen EXCEPT !.next = @ + 1] /\ Add("lag", LagOf(gen.next))
  <2>1. gen'.next = gen.next + 1 /\ gen'.todo = gen.todo /\ gen'.buf = gen.buf
    BY <1>0, <1>6
  <2>2. Packing' = Packing
    BY <2>1 DEF Packing
  <2>3. WaitInv'
    BY <1>0, <1>2, <1>3, <1>4, <2>1, <2>2 DEF WaitInv
  <2>4. Skipped' = Skipped \cup ToSet(f) /\ Skipped \cap ToSet(f) = {}
    BY <1>0, <1>1, <1>2, <1>4, <2>1, <2>2 DEF Skipped
  <2>5. gen' \in [next : 1 .. Keys + 1, todo : Plans, buf : Plans] /\ Len(gen'.buf) < FrameSize
    <3>1. gen' = [next |-> gen.next + 1, todo |-> gen.todo, buf |-> gen.buf]
      BY <1>0, <1>6
    <3>2. gen.next + 1 \in 1 .. Keys + 1 /\ gen.todo \in Plans /\ gen.buf \in Plans
      BY <1>0
    <3> QED
      BY <1>0, <3>1, <3>2
  <2>6. /\ cnt' \in [Counters -> Nat] /\ cnt'["lag"] = cnt["lag"] + Len(f)
        /\ \A c \in Counters \ {"lag"} : cnt'[c] = cnt[c]
    <3>1. "lag" \in Counters /\ LagOf(gen.next) = Len(f)
      BY DEF Counters, LagOf, f
    <3> QED
      BY <1>0, <1>1, <1>6, <3>1, AddType
  <2>7. QueueMoves(f, Len(f))
    <3>1. cnt["lag"] \in Nat /\ cnt["queue"] \in Nat /\ cnt'["queue"] = cnt["queue"]
      BY <1>0, <2>6 DEF Counters
    <3>2. cnt'["lag"] + cnt'["queue"] = cnt["lag"] + cnt["queue"] + Len(f)
      BY <1>1, <2>6, <3>1
    <3>3. Len(f) <= Len(f) /\ \A c \in Counters \ {"lag", "queue"} : cnt'[c] = cnt[c]
      BY <1>1, <2>6
    <3> QED
      BY <1>0, <1>1, <2>3, <2>4, <2>5, <2>6, <3>2, <3>3 DEF QueueMoves
  <2> QED
    BY <2>7, QueueStep
<1> QED
  BY <1>5, <1>6 DEF NextKey, f

\* A frame goes into the channel, or is skipped.
LEMMA FlushStep ==
    ASSUME BenchInv, NEW f \in Packed, Flush(f), gen' \in [next : {gen.next}, todo : Plans, buf : {<<>>}],
           phase = "run", UNCHANGED <<wk, state, acks, cancelled, store, end, Faults>>,
           ToSet(gen'.todo) \cup ToSet(f) = Packing, ToSet(gen'.todo) \cap ToSet(f) = {}
    PROVE  BenchInv'
<1> USE BenchAssumption DEF BenchConfig
<1>0. /\ gen.next \in 1 .. Keys + 1 /\ jobs \in Seq(Packed) /\ cnt \in [Counters -> Nat]
      /\ ToSet(<<>>) = {} /\ <<>> \in Plans /\ gen'.next = gen.next /\ gen'.buf = <<>>
      /\ state' = state /\ Len(<<>>) = 0
      /\ gen' \in [next : 1 .. Keys + 1, todo : Plans, buf : Plans] /\ Len(gen'.buf) < FrameSize
  <2>1. <<>> \in Plans /\ Len(<<>>) = 0
    BY DEF Plans
  <2>2. gen.next \in 1 .. Keys + 1
    BY DEF BenchInv, BenchTypeInv
  <2> QED
    BY <2>1, <2>2, ElementsOfEmpty DEF BenchInv, BenchTypeInv
<1>1. /\ Packing \subseteq Unsent /\ Entries(jobs) \subseteq Unsent
      /\ Packing \cap Entries(jobs) = {} /\ Apart(jobs)
      /\ \A a \in Attempts : state[a] # "never" => a[1] < gen.next
  BY DEF BenchInv, WaitInv
<1>2. Packing' = ToSet(gen'.todo) /\ Unsent' = Unsent /\ f \in Plans /\ Len(f) \in Nat
  BY <1>0, PackedIsPlan DEF Packing, Unsent
<1>3. ASSUME jobs' = Append(jobs, f), UNCHANGED cnt PROVE BenchInv'
  <2>1. jobs' \in Seq(Packed) /\ Apart(jobs') /\ Entries(jobs') = Entries(jobs) \cup ToSet(f)
    BY <1>0, <1>1, <1>3, EntriesAppend
  <2>2. WaitInv'
    BY <1>0, <1>1, <1>2, <2>1 DEF WaitInv
  <2>3. Skipped' = Skipped \cup ToSet(<<>>)
    BY <1>0, <1>1, <1>2, <2>1 DEF Skipped
  <2>4. QueueMoves(<<>>, 0)
    <3>1. cnt["lag"] \in Nat /\ cnt["queue"] \in Nat
      BY <1>0 DEF Counters
    <3> QED
      BY <1>0, <1>3, <2>1, <2>2, <2>3, <3>1 DEF QueueMoves
  <2> QED
    BY <2>4, QueueStep
<1>4. ASSUME Add("queue", Len(f)), UNCHANGED jobs PROVE BenchInv'
  <2>1. WaitInv'
    BY <1>0, <1>1, <1>2, <1>4 DEF WaitInv
  <2>2. Skipped' = Skipped \cup ToSet(f) /\ Skipped \cap ToSet(f) = {}
    BY <1>0, <1>1, <1>2, <1>4 DEF Skipped
  <2>3. /\ cnt' \in [Counters -> Nat] /\ cnt'["queue"] = cnt["queue"] + Len(f)
        /\ \A c \in Counters \ {"queue"} : cnt'[c] = cnt[c]
    <3>1. "queue" \in Counters
      BY DEF Counters
    <3> QED
      BY <1>0, <1>2, <1>4, <3>1, AddType
  <2>4. QueueMoves(f, Len(f))
    <3>1. cnt["lag"] \in Nat /\ cnt["queue"] \in Nat /\ cnt'["lag"] = cnt["lag"]
      BY <1>0, <2>3 DEF Counters
    <3> QED
      BY <1>0, <1>2, <1>4, <2>1, <2>2, <2>3, <3>1 DEF QueueMoves
  <2> QED
    BY <2>4, QueueStep
<1> QED
  BY <1>3, <1>4 DEF Flush, Skip

LEMMA AppendInputStep == BenchInv /\ AppendInput /\ UNCHANGED Faults => BenchInv'
<1> SUFFICES ASSUME BenchInv, AppendInput, UNCHANGED Faults PROVE BenchInv'
  OBVIOUS
<1> USE BenchAssumption DEF BenchConfig
<1> DEFINE a == Head(gen.todo)
           f == Append(gen.buf, a)
<1>0. /\ gen \in [next : 1 .. Keys + 1, todo : Plans, buf : Plans] /\ Len(gen.buf) < FrameSize
      /\ jobs \in Seq(Packed) /\ cnt \in [Counters -> Nat]
      /\ phase = "run" /\ gen.todo # <<>> /\ Len(gen.buf) \in Nat
      /\ UNCHANGED <<wk, state, acks, cancelled, store, end>> /\ state' = state
  BY DEF BenchInv, BenchTypeInv, AppendInput, Plans
<1>1. /\ a \in Attempts /\ Tail(gen.todo) \in Plans
      /\ ToSet(gen.todo) = ToSet(Tail(gen.todo)) \cup {a} /\ a \notin ToSet(Tail(gen.todo))
  BY <1>0, PlanTail
<1>2. ToSet(gen.todo) \cap ToSet(gen.buf) = {}
  BY DEF BenchInv, WaitInv
<1> HIDE DEF a
<1>3. /\ f \in Plans /\ Len(f) = Len(gen.buf) + 1 /\ ToSet(f) = ToSet(gen.buf) \cup {a}
      /\ ToSet(Tail(gen.todo)) \cap ToSet(f) = {} /\ ToSet(Tail(gen.todo)) \cup ToSet(f) = Packing
  BY <1>0, <1>1, <1>2, PlanAppend DEF Packing
<1> HIDE DEF f
<1>4. CASE Len(f) < FrameSize /\ UNCHANGED <<jobs, cnt>> /\ gen' = [gen EXCEPT !.todo = Tail(@), !.buf = f]
  <2>1. /\ gen' = [next |-> gen.next, todo |-> Tail(gen.todo), buf |-> f]
    BY <1>0, <1>4
  <2>2. gen'.next = gen.next /\ gen'.todo = Tail(gen.todo) /\ gen'.buf = f
    BY <2>1
  <2>3. gen' \in [next : 1 .. Keys + 1, todo : Plans, buf : Plans] /\ Len(gen'.buf) < FrameSize
    BY <1>0, <1>1, <1>3, <1>4, <2>1
  <2>4. Packing' = Packing /\ Unsent' = Unsent /\ Skipped' = Skipped /\ Skipped' = Skipped \cup ToSet(<<>>)
    BY <1>0, <1>3, <1>4, <2>2, ElementsOfEmpty DEF Packing, Unsent, Skipped
  <2>5. WaitInv'
    BY <1>0, <1>3, <1>4, <2>2, <2>4 DEF BenchInv, WaitInv
  <2>6. QueueMoves(<<>>, 0)
    <3>1. cnt["lag"] \in Nat /\ cnt["queue"] \in Nat /\ Len(<<>>) = 0 /\ <<>> \in Plans
      BY <1>0 DEF Counters, Plans
    <3> QED
      BY <1>0, <1>4, <2>3, <2>4, <2>5, <3>1, ElementsOfEmpty DEF QueueMoves
  <2> QED
    BY <2>6, QueueStep
<1>5. CASE Len(f) = FrameSize /\ Flush(f) /\ gen' = [gen EXCEPT !.todo = Tail(@), !.buf = <<>>]
  <2>1. /\ gen' = [next |-> gen.next, todo |-> Tail(gen.todo), buf |-> <<>>]
    BY <1>0, <1>5
  <2>2. gen' \in [next : {gen.next}, todo : Plans, buf : {<<>>}] /\ gen'.todo = Tail(gen.todo)
    BY <1>1, <2>1
  <2>3. f \in Packed
    BY <1>3, <1>5 DEF Packed
  <2>4. ToSet(gen'.todo) \cup ToSet(f) = Packing /\ ToSet(gen'.todo) \cap ToSet(f) = {}
    BY <1>3, <2>2
  <2> QED
    BY <1>0, <1>5, <2>2, <2>3, <2>4, FlushStep
<1> QED
  BY <1>4, <1>5 DEF AppendInput, f, a

LEMMA FlushOldStep == BenchInv /\ FlushOld /\ UNCHANGED Faults => BenchInv'
<1> SUFFICES ASSUME BenchInv, FlushOld, UNCHANGED Faults PROVE BenchInv'
  OBVIOUS
<1>0. /\ gen \in [next : 1 .. Keys + 1, todo : Plans, buf : Plans] /\ Len(gen.buf) < FrameSize
      /\ gen.buf # <<>> /\ gen.todo = <<>> /\ gen' = [gen EXCEPT !.buf = <<>>]
      /\ phase = "run" /\ UNCHANGED <<wk, state, acks, cancelled, store, end>> /\ Flush(gen.buf)
  BY DEF BenchInv, BenchTypeInv, FlushOld, AtGroup
<1>1. gen' = [next |-> gen.next, todo |-> gen.todo, buf |-> <<>>]
  BY <1>0
<1>2. gen' \in [next : {gen.next}, todo : Plans, buf : {<<>>}] /\ gen'.todo = <<>>
  BY <1>0, <1>1
<1>3. gen.buf \in Packed
  <2>1. gen.buf \in Seq(Attempts) /\ gen.buf \in Plans
    BY <1>0 DEF Plans
  <2>2. Len(gen.buf) \in Nat /\ Len(gen.buf) # 0
    BY <1>0, <2>1
  <2> QED
    BY <1>0, <2>1, <2>2, BenchAssumption DEF Packed, BenchConfig
<1>4. ToSet(gen'.todo) \cup ToSet(gen.buf) = Packing /\ ToSet(gen'.todo) \cap ToSet(gen.buf) = {}
  BY <1>0, <1>2, ElementsOfEmpty DEF Packing
<1> QED
  BY <1>0, <1>2, <1>3, <1>4, FlushStep

\* A worker takes a frame from the channel and drops it.
LEMMA DropStep ==
    ASSUME BenchInv, NEW w \in Workers, TakeFrame(w), UNCHANGED <<wk, state, Faults>>,
           (cancelled /\ UNCHANGED cnt) \/ (~ cancelled /\ Add("lag", Len(Head(jobs))))
    PROVE  BenchInv'
<1> DEFINE f == Head(jobs)
<1>0. /\ gen \in [next : 1 .. Keys + 1, todo : Plans, buf : Plans] /\ Len(gen.buf) < FrameSize
      /\ jobs \in Seq(Packed) /\ jobs # <<>> /\ jobs' = Tail(jobs) /\ cnt \in [Counters -> Nat]
      /\ phase = "run" /\ UNCHANGED <<wk, state, acks, cancelled, store, end>>
      /\ state' = state /\ gen' = gen
  BY DEF BenchInv, BenchTypeInv, TakeFrame
<1>1. /\ Packing \subseteq Unsent /\ Entries(jobs) \subseteq Unsent
      /\ Packing \cap Entries(jobs) = {} /\ Apart(jobs)
  BY DEF BenchInv, WaitInv
<1>2. /\ f \in Packed /\ jobs' \in Seq(Packed) /\ Apart(jobs')
      /\ Entries(jobs) = ToSet(f) \cup Entries(jobs') /\ ToSet(f) \cap Entries(jobs') = {}
  BY <1>0, <1>1, EntriesTail
<1>3. f \in Plans /\ Len(f) \in Nat
  BY <1>2, PackedIsPlan
<1> HIDE DEF f
<1>4. Packing' = Packing /\ Unsent' = Unsent
  BY <1>0 DEF Packing, Unsent
<1>5. WaitInv'
  BY <1>0, <1>1, <1>2, <1>4 DEF BenchInv, WaitInv
<1>6. Skipped' = Skipped \cup ToSet(f) /\ Skipped \cap ToSet(f) = {}
  BY <1>1, <1>2, <1>4 DEF Skipped
<1>7. cnt["lag"] \in Nat /\ cnt["queue"] \in Nat /\ "lag" \in Counters
  BY <1>0 DEF Counters
<1>8. CASE cancelled /\ UNCHANGED cnt
  <2>1. QueueMoves(f, 0)
    BY <1>0, <1>2, <1>3, <1>5, <1>6, <1>7, <1>8 DEF QueueMoves
  <2> QED
    BY <2>1, QueueStep
<1>9. CASE Add("lag", Len(f))
  <2>1. /\ cnt' \in [Counters -> Nat] /\ cnt'["lag"] = cnt["lag"] + Len(f)
        /\ \A c \in Counters \ {"lag"} : cnt'[c] = cnt[c]
    BY <1>0, <1>3, <1>7, <1>9, AddType
  <2>2. cnt'["queue"] = cnt["queue"]
    BY <2>1 DEF Counters
  <2>3. QueueMoves(f, Len(f))
    BY <1>0, <1>2, <1>3, <1>5, <1>6, <1>7, <2>1, <2>2 DEF QueueMoves
  <2> QED
    BY <2>3, QueueStep
<1> QED
  BY <1>8, <1>9 DEF f

-----------------------------------------------------------------------------
(* The workers *)

\* What is known of a worker's call.
LEMMA CallFacts ==
    ASSUME BenchInv, NEW w \in Workers, wk[w].pc # "idle"
    PROVE  /\ wk[w].frame \in Packed /\ wk[w].frame \in Plans /\ Len(wk[w].frame) \in Nat
           /\ InCall(w) \subseteq NotedAs("unknown")
           /\ \A v \in Workers \ {w} : InCall(v) \cap InCall(w) = {}
           /\ InCall(w) \subseteq Calling
           /\ phase = "run" /\ ~ closed /\ Unspoilt
           /\ state \in [Attempts -> States] /\ cnt \in [Counters -> Nat]
<1>1. wk[w].frame \in Packed
  <2>1. wk[w].frame \in Packed \cup {<<>>} /\ wk[w].frame # <<>>
    BY DEF BenchInv, BenchTypeInv
  <2> QED
    BY <2>1
<1>2. phase = "run" /\ ~ closed
  BY DEF BenchInv, StageInv
<1> QED
  BY <1>1, <1>2, PackedIsPlan DEF BenchInv, BenchTypeInv, CallInv, DiskInv, Calling

\* The sets of outcomes and calls when the worker's call ends with s.
LEMMA EndSets ==
    ASSUME BenchInv, NEW w \in Workers, wk[w].pc # "idle", NEW s \in States \ {"never"},
           state' = Noted(wk[w].frame, s), wk' = [wk EXCEPT ![w] = Idle]
    PROVE  /\ \A t : NotedAs(t)' = IF t = s THEN NotedAs(s) \cup InCall(w) ELSE NotedAs(t) \ InCall(w)
           /\ InCall(w)' = {} /\ \A v \in Workers \ {w} : InCall(v)' = InCall(v) /\ wk'[v] = wk[v]
           /\ wk'[w].pc = "idle" /\ wk'[w].frame = <<>>
           /\ Calling' = Calling \ InCall(w)
           /\ \A a \in Attempts : state'[a] = "never" <=> state[a] = "never"
           /\ state' \in [Attempts -> States]
<1>0. /\ InCall(w) \subseteq NotedAs("unknown") /\ state \in [Attempts -> States]
      /\ \A v \in Workers \ {w} : InCall(v) \cap InCall(w) = {}
  BY CallFacts
<1>1. /\ state' \in [Attempts -> States]
      /\ \A a \in Attempts : state'[a] = IF a \in InCall(w) THEN s ELSE state[a]
  BY <1>0, NotedType DEF InCall
<1>2. \A a \in InCall(w) : a \in Attempts /\ state[a] = "unknown"
  BY <1>0 DEF NotedAs
<1>3. ASSUME NEW t
      PROVE  NotedAs(t)' = IF t = s THEN NotedAs(s) \cup InCall(w) ELSE NotedAs(t) \ InCall(w)
  <2>1. NotedAs(t)' = {a \in Attempts : state'[a] = t}
    BY DEF NotedAs
  <2>2. CASE t = s
    <3>1. \A a : a \in NotedAs(t)' <=> a \in NotedAs(s) \cup InCall(w)
      BY <1>1, <1>2, <2>1, <2>2 DEF NotedAs
    <3> QED
      BY <2>2, <3>1
  <2>3. CASE t # s
    <3>1. \A a : a \in NotedAs(t)' <=> a \in NotedAs(t) \ InCall(w)
      BY <1>1, <1>2, <2>1, <2>3 DEF NotedAs
    <3> QED
      BY <2>3, <3>1
  <2> QED
    BY <2>2, <2>3
<1>4. /\ wk'[w] = Idle /\ \A v \in Workers \ {w} : wk'[v] = wk[v]
  BY DEF BenchInv, BenchTypeInv
<1>5. InCall(w)' = {} /\ \A v \in Workers \ {w} : InCall(v)' = InCall(v)
  BY <1>4, ElementsOfEmpty DEF InCall, Idle
<1>6. Calling' = Calling \ InCall(w)
  BY <1>0, <1>5 DEF Calling
<1>7. \A a \in Attempts : state'[a] = "never" <=> state[a] = "never"
  BY <1>1, <1>2
<1> QED
  BY <1>1, <1>3, <1>4, <1>5, <1>6, <1>7 DEF Idle

\* An attempt has one outcome.
LEMMA OneOutcome == \A s, t : s # t => NotedAs(s) \cap NotedAs(t) = {}
  BY DEF NotedAs

\* A call ends, and its attempts are counted.
Ends(w, s, c) ==
    /\ wk[w].pc # "idle"
    /\ <<s, c>> \in {<<"ack", "recorded">>, <<"rejected", "rejected">>, <<"unknown", "unknown">>}
    /\ state' = Noted(wk[w].frame, s) /\ wk' = [wk EXCEPT ![w] = Idle]
    /\ cnt' \in [Counters -> Nat] /\ cnt'[c] = cnt[c] + Len(wk[w].frame)
    /\ \A d \in Counters \ {c, "invalid"} : cnt'[d] = cnt[d]
    /\ UNCHANGED <<gen, jobs, cancelled, closed, end, Faults>>
    /\ acks' \subseteq [offset : Nat, frame : Packed] /\ journal' \in Seq(Seq(Attempts))
    /\ late' \subseteq Packed /\ refused' \subseteq Packed
    /\ OutcomeInv' /\ Unspoilt'
LEMMA EndStep == ASSUME BenchInv, NEW w \in Workers, NEW s, NEW c, Ends(w, s, c) PROVE BenchInv'
<1> USE DEF Ends
<1>0. /\ gen' = gen /\ jobs' = jobs /\ cancelled' = cancelled /\ closed' = closed /\ phase' = phase
      /\ ledger' = ledger /\ verdict' = verdict /\ Faults' = Faults
  BY DEF end
<1>1. s \in States \ {"never"} /\ s \in {"ack", "rejected", "unknown"} /\ c \in Counters
  BY DEF States, Counters
<1>2. /\ \A t : NotedAs(t)' = IF t = s THEN NotedAs(s) \cup InCall(w) ELSE NotedAs(t) \ InCall(w)
      /\ InCall(w)' = {} /\ \A v \in Workers \ {w} : InCall(v)' = InCall(v) /\ wk'[v] = wk[v]
      /\ wk'[w].pc = "idle" /\ wk'[w].frame = <<>>
      /\ Calling' = Calling \ InCall(w)
      /\ \A a \in Attempts : state'[a] = "never" <=> state[a] = "never"
      /\ state' \in [Attempts -> States]
  BY <1>1, EndSets
<1>3. /\ InCall(w) \subseteq NotedAs("unknown") /\ InCall(w) \subseteq Calling
      /\ \A v \in Workers \ {w} : InCall(v) \cap InCall(w) = {}
      /\ phase = "run" /\ ~ closed
      /\ wk[w].frame \in Plans /\ Len(wk[w].frame) \in Nat
  BY CallFacts
<1>4. BenchTypeInv'
  <2>1. wk' \in [Workers -> [pc : {"idle", "sent", "written"}, frame : Packed \cup {<<>>}, offset : Nat]]
    BY DEF BenchInv, BenchTypeInv, Idle
  <2>2. \A v \in Workers : wk'[v].pc = "idle" <=> wk'[v].frame = <<>>
    BY <1>2 DEF BenchInv, BenchTypeInv
  <2> QED
    BY <1>0, <1>2, <2>1, <2>2 DEF BenchInv, BenchTypeInv
<1>5. Unsent' = Unsent /\ Packing' = Packing /\ Entries(jobs') = Entries(jobs)
  BY <1>0, <1>2 DEF Unsent, Packing
<1>6. WaitInv'
  BY <1>0, <1>2, <1>5 DEF BenchInv, WaitInv
<1>7. CallInv'
  BY <1>2, <1>3 DEF BenchInv, CallInv
<1>8. TallyInv'
  <2>1. /\ {a \in Attempts : state'[a] # "never"} = {a \in Attempts : state[a] # "never"}
        /\ Skipped' = Skipped
    BY <1>0, <1>2, <1>5 DEF Skipped
  <2>2. \A d \in {"dispatched", "lag", "queue"} : cnt'[d] = cnt[d]
    BY DEF Counters
  <2>3. /\ cnt'["dispatched"] = Cardinality({a \in Attempts : state'[a] # "never"})
        /\ cnt'["lag"] + cnt'["queue"] <= Cardinality(Skipped')
        /\ ~ cancelled' => cnt'["lag"] + cnt'["queue"] = Cardinality(Skipped')
    <3>1. /\ Cardinality({a \in Attempts : state'[a] # "never"})
               = Cardinality({a \in Attempts : state[a] # "never"})
          /\ Cardinality(Skipped') = Cardinality(Skipped)
      BY <2>1, Zenon
    <3>2. cnt'["dispatched"] = cnt["dispatched"] /\ cnt'["lag"] = cnt["lag"] /\ cnt'["queue"] = cnt["queue"]
      BY <2>2
    <3> QED
      BY <1>0, <3>1, <3>2 DEF BenchInv, TallyInv
  <2>4. \A t : NotedAs(t) \in SUBSET Attempts
    BY DEF NotedAs
  <2>5. \A t, u : t # u => NotedAs(t) \cap NotedAs(u) = {}
    BY DEF NotedAs
  <2>6. CASE s = "unknown" /\ c = "unknown"
    <3>1. /\ NotedAs("ack")' = NotedAs("ack") /\ NotedAs("rejected")' = NotedAs("rejected")
          /\ NotedAs("unknown")' \ Calling' = (NotedAs("unknown") \ Calling) \cup InCall(w)
          /\ (NotedAs("unknown") \ Calling) \cap InCall(w) = {}
      BY <1>2, <1>3, <2>5, <2>6
    <3>2. Cardinality((NotedAs("unknown") \ Calling) \cup InCall(w)) =
            Cardinality(NotedAs("unknown") \ Calling) + Len(wk[w].frame)
      BY <1>3, <2>4, <3>1, SizeOfUnion DEF InCall
    <3>3. cnt'["recorded"] = cnt["recorded"] /\ cnt'["rejected"] = cnt["rejected"]
      BY <2>6 DEF Counters
    <3> QED
      BY <2>3, <2>6, <3>1, <3>2, <3>3 DEF BenchInv, TallyInv
  <2>7. CASE s # "unknown" /\ <<s, c>> \in {<<"ack", "recorded">>, <<"rejected", "rejected">>}
    <3>1. /\ NotedAs(s)' = NotedAs(s) \cup InCall(w) /\ NotedAs(s) \cap InCall(w) = {}
          /\ \A t \in {"ack", "rejected"} \ {s} : NotedAs(t)' = NotedAs(t)
          /\ NotedAs("unknown")' \ Calling' = NotedAs("unknown") \ Calling
      BY <1>2, <1>3, <2>5, <2>7
    <3>2. Cardinality(NotedAs(s) \cup InCall(w)) = Cardinality(NotedAs(s)) + Len(wk[w].frame)
      BY <1>3, <2>4, <3>1, SizeOfUnion DEF InCall
    <3>3. \A d \in {"recorded", "rejected", "unknown"} \ {c} : cnt'[d] = cnt[d]
      BY DEF Counters
    <3>4. CASE s = "ack" /\ c = "recorded"
      BY <2>3, <3>1, <3>2, <3>3, <3>4 DEF BenchInv, TallyInv
    <3>5. CASE s = "rejected" /\ c = "rejected"
      BY <2>3, <3>1, <3>2, <3>3, <3>5 DEF BenchInv, TallyInv
    <3> QED
      BY <2>7, <3>4, <3>5
  <2> QED
    BY <2>6, <2>7
<1>9. StageInv'
  BY <1>0, <1>3 DEF BenchInv, StageInv
<1> QED
  BY <1>0, <1>4, <1>6, <1>7, <1>8, <1>9 DEF BenchInv, DiskInv

LEMMA RefusedStep == ASSUME BenchInv, NEW w \in Workers, Refused(w), UNCHANGED Faults PROVE BenchInv'
<1> DEFINE f == wk[w].frame
<1>0. /\ wk[w].pc = "sent" /\ state' = Noted(f, "rejected") /\ Add("rejected", Len(f))
      /\ wk' = [wk EXCEPT ![w] = Idle] /\ UNCHANGED <<gen, jobs, cancelled, closed, end>>
      /\ refused' = refused \cup {f} /\ acks' = acks /\ journal' = journal /\ late' = late
  BY DEF Refused, Answered
<1>1. /\ f \in Packed /\ Len(f) \in Nat /\ InCall(w) \subseteq NotedAs("unknown")
      /\ Unspoilt /\ cnt \in [Counters -> Nat] /\ InCall(w) = ToSet(f)
  BY <1>0, CallFacts DEF InCall
<1>2. /\ \A t : NotedAs(t)' = IF t = "rejected" THEN NotedAs("rejected") \cup InCall(w)
                                                ELSE NotedAs(t) \ InCall(w)
      /\ InCall(w)' = {} /\ \A v \in Workers \ {w} : InCall(v)' = InCall(v) /\ wk'[v] = wk[v]
      /\ wk'[w].pc = "idle"
  BY <1>0, EndSets DEF States
<1>3. /\ NotedAs("rejected")' = NotedAs("rejected") \cup InCall(w)
      /\ NotedAs("ack")' = NotedAs("ack") /\ NotedAs("unknown")' = NotedAs("unknown") \ InCall(w)
  <2>1. NotedAs("ack") \cap NotedAs("unknown") = {}
    BY OneOutcome
  <2> QED
    BY <1>1, <1>2, <2>1
<1>4. OutcomeInv'
  <2>1. /\ \A r \in acks' : ToSet(r.frame) \subseteq NotedAs("ack")'
        /\ \A e \in NotedAs("ack")' : \E r \in acks' : e \in ToSet(r.frame)
        /\ \A r, q \in acks' : r # q => ToSet(r.frame) \cap ToSet(q.frame) = {}
    BY <1>0, <1>3 DEF BenchInv, OutcomeInv
  <2>2. \A g \in refused' : ToSet(g) \subseteq NotedAs("rejected")'
    <3>1. \A g \in refused : ToSet(g) \subseteq NotedAs("rejected")
      BY DEF BenchInv, OutcomeInv
    <3> QED
      BY <1>0, <1>1, <1>3, <3>1
  <2> QED
    BY <2>1, <2>2 DEF OutcomeInv
<1>5. Unspoilt'
  <2>1. InCall(w) \cap Entries(journal) = {} /\ \A g \in late : ToSet(g) \cap InCall(w) = {}
    BY <1>0, <1>1 DEF Unspoilt
  <2>2. \A i \in DOMAIN journal : ToSet(journal[i]) \cap InCall(w) = {}
    BY <2>1 DEF Entries
  <2> QED
    BY <1>0, <1>1, <1>2, <1>3, <2>1, <2>2 DEF Unspoilt
<1>6. /\ cnt' \in [Counters -> Nat] /\ cnt'["rejected"] = cnt["rejected"] + Len(f)
      /\ \A d \in Counters \ {"rejected"} : cnt'[d] = cnt[d]
  <2>1. "rejected" \in Counters
    BY DEF Counters
  <2> QED
    BY <1>0, <1>1, <2>1, AddType
<1>7. "invalid" \in Counters \ {"rejected"}
  BY DEF Counters
<1>8. refused' \subseteq Packed /\ acks' \subseteq [offset : Nat, frame : Packed]
      /\ journal' \in Seq(Seq(Attempts)) /\ late' \subseteq Packed
  BY <1>0, <1>1 DEF BenchInv, BenchTypeInv
<1> QED
  <2>1. Ends(w, "rejected", "rejected")
    BY <1>0, <1>4, <1>5, <1>6, <1>7, <1>8 DEF Ends
  <2> QED
    BY <2>1, EndStep

\* A call without an answer: its attempts stay unknown.
LEMMA UnknownSets ==
    ASSUME BenchInv, NEW w \in Workers, wk[w].pc # "idle",
           state' = Noted(wk[w].frame, "unknown"), wk' = [wk EXCEPT ![w] = Idle]
    PROVE  /\ NotedAs("rejected")' = NotedAs("rejected") /\ NotedAs("ack")' = NotedAs("ack")
           /\ NotedAs("unknown")' = NotedAs("unknown")
           /\ InCall(w)' = {} /\ \A v \in Workers \ {w} : InCall(v)' = InCall(v) /\ wk'[v] = wk[v]
           /\ wk'[w].pc = "idle"
<1>1. /\ \A t : NotedAs(t)' = IF t = "unknown" THEN NotedAs("unknown") \cup InCall(w)
                                               ELSE NotedAs(t) \ InCall(w)
      /\ InCall(w)' = {} /\ \A v \in Workers \ {w} : InCall(v)' = InCall(v) /\ wk'[v] = wk[v]
      /\ wk'[w].pc = "idle"
  BY EndSets DEF States
<1>2. InCall(w) \subseteq NotedAs("unknown")
  BY CallFacts
<1> QED
  BY <1>1, <1>2 DEF NotedAs
LEMMA UnansweredStep ==
    ASSUME BenchInv, NEW w \in Workers, Unanswered(w) \/ InvalidReceipt(w), UNCHANGED Faults
    PROVE  BenchInv'
<1> DEFINE f == wk[w].frame
<1>0. /\ wk[w].pc # "idle" /\ state' = Noted(f, "unknown")
      /\ wk' = [wk EXCEPT ![w] = Idle] /\ UNCHANGED <<gen, jobs, cancelled, closed, end>>
      /\ refused' = refused /\ acks' = acks /\ journal' = journal
      /\ late' = late \/ (wk[w].pc = "sent" /\ late' = late \cup {f})
  BY DEF Unanswered, Answered, InvalidReceipt, store
<1>1. /\ f \in Packed /\ Len(f) \in Nat /\ InCall(w) \subseteq NotedAs("unknown")
      /\ Unspoilt /\ cnt \in [Counters -> Nat] /\ InCall(w) = ToSet(f)
      /\ \A v \in Workers \ {w} : InCall(v) \cap InCall(w) = {}
  BY <1>0, CallFacts DEF InCall
<1>2. /\ NotedAs("rejected")' = NotedAs("rejected") /\ NotedAs("ack")' = NotedAs("ack")
      /\ NotedAs("unknown")' = NotedAs("unknown")
      /\ InCall(w)' = {} /\ \A v \in Workers \ {w} : InCall(v)' = InCall(v) /\ wk'[v] = wk[v]
      /\ wk'[w].pc = "idle"
  BY <1>0, UnknownSets
<1>3. OutcomeInv'
  BY <1>0, <1>2 DEF BenchInv, OutcomeInv
<1>4. Unspoilt'
  <2>1. CASE late' = late
    BY <1>0, <1>1, <1>2, <2>1 DEF Unspoilt
  <2>2. CASE wk[w].pc = "sent" /\ late' = late \cup {f}
    <3>1. /\ ToSet(f) \cap Entries(journal) = {} /\ \A g \in late : ToSet(g) \cap ToSet(f) = {}
          /\ ToSet(f) \subseteq NotedAs("unknown")
      BY <1>1, <2>2 DEF Unspoilt
    <3>2. \A g \in late' : /\ ToSet(g) \subseteq NotedAs("unknown")
                           /\ ToSet(g) \cap Entries(journal) = {}
                           /\ \A v \in Workers : ToSet(g) \cap InCall(v)' = {}
                           /\ \A h \in late' : g # h => ToSet(g) \cap ToSet(h) = {}
      <4>1. \A g \in late : /\ ToSet(g) \subseteq NotedAs("unknown")
                            /\ ToSet(g) \cap Entries(journal) = {}
                            /\ \A v \in Workers : ToSet(g) \cap InCall(v) = {}
                            /\ \A h \in late : g # h => ToSet(g) \cap ToSet(h) = {}
        BY <1>1 DEF Unspoilt
      <4>2. \A g \in late' : ToSet(g) \subseteq NotedAs("unknown") /\ ToSet(g) \cap Entries(journal) = {}
        BY <2>2, <3>1, <4>1
      <4>3. \A g \in late' : \A v \in Workers : ToSet(g) \cap InCall(v)' = {}
        BY <1>1, <1>2, <2>2, <4>1
      <4>4. \A g, h \in late' : g # h => ToSet(g) \cap ToSet(h) = {}
        BY <2>2, <3>1, <4>1
      <4> QED
        BY <4>2, <4>3, <4>4
    <3> QED
      BY <1>0, <1>1, <1>2, <3>2 DEF Unspoilt
  <2> QED
    BY <1>0, <2>1, <2>2
<1>5. /\ cnt' \in [Counters -> Nat] /\ cnt'["unknown"] = cnt["unknown"] + Len(f)
      /\ \A d \in Counters \ {"unknown", "invalid"} : cnt'[d] = cnt[d]
  <2>0. {"unknown", "invalid"} \subseteq Counters
    BY DEF Counters
  <2>1. CASE Unanswered(w)
    <3>1. Add("unknown", Len(f))
      BY <2>1 DEF Unanswered, Answered
    <3> QED
      BY <1>1, <2>0, <3>1, AddType
  <2>2. CASE InvalidReceipt(w)
    <3>1. /\ cnt' = [cnt EXCEPT !["unknown"] = @ + Len(f), !["invalid"] = @ + 1]
          /\ "receipt" \in Faults
      BY <2>2 DEF InvalidReceipt, ReceiptMayBeWrong
    <3> QED
      BY <1>1, <2>0, <3>1
  <2> QED
    BY <2>1, <2>2
<1>6. refused' \subseteq Packed /\ acks' \subseteq [offset : Nat, frame : Packed]
      /\ journal' \in Seq(Seq(Attempts)) /\ late' \subseteq Packed
  BY <1>0, <1>1 DEF BenchInv, BenchTypeInv
<1> QED
  <2>1. Ends(w, "unknown", "unknown")
    BY <1>0, <1>3, <1>4, <1>5, <1>6 DEF Ends
  <2> QED
    BY <2>1, EndStep

LEMMA AcknowledgedStep ==
    ASSUME BenchInv, NEW w \in Workers, Acknowledged(w), UNCHANGED Faults PROVE BenchInv'
<1> DEFINE f == wk[w].frame
           q == [offset |-> wk[w].offset, frame |-> f]
<1>0. /\ wk[w].pc = "written" /\ wk[w].pc # "idle" /\ state' = Noted(f, "ack") /\ Add("recorded", Len(f))
      /\ wk' = [wk EXCEPT ![w] = Idle] /\ UNCHANGED <<gen, jobs, cancelled, closed, end>>
      /\ refused' = refused /\ acks' = acks \cup {q} /\ journal' = journal /\ late' = late
  BY DEF Acknowledged, Answered
<1>1. /\ f \in Packed /\ Len(f) \in Nat /\ InCall(w) \subseteq NotedAs("unknown")
      /\ Unspoilt /\ cnt \in [Counters -> Nat] /\ InCall(w) = ToSet(f)
      /\ \A v \in Workers \ {w} : InCall(v) \cap InCall(w) = {}
  BY <1>0, CallFacts DEF InCall
<1>2. /\ \A t : NotedAs(t)' = IF t = "ack" THEN NotedAs("ack") \cup InCall(w)
                                           ELSE NotedAs(t) \ InCall(w)
      /\ InCall(w)' = {} /\ \A v \in Workers \ {w} : InCall(v)' = InCall(v) /\ wk'[v] = wk[v]
      /\ wk'[w].pc = "idle"
  BY <1>0, EndSets DEF States
<1>3. /\ NotedAs("ack")' = NotedAs("ack") \cup InCall(w) /\ NotedAs("ack") \cap InCall(w) = {}
      /\ NotedAs("rejected")' = NotedAs("rejected")
      /\ NotedAs("unknown")' = NotedAs("unknown") \ InCall(w)
  <2>1. NotedAs("ack") \cap NotedAs("unknown") = {} /\ NotedAs("rejected") \cap NotedAs("unknown") = {}
    BY OneOutcome
  <2> QED
    BY <1>1, <1>2, <2>1
<1>4. q.frame = f /\ q.offset = wk[w].offset /\ q \in [offset : Nat, frame : Packed]
  <2>1. wk[w].offset \in Nat
    BY DEF BenchInv, BenchTypeInv
  <2> QED
    BY <1>1, <2>1
<1>5. wk[w].offset \in DOMAIN journal /\ journal[wk[w].offset] = f
  BY <1>0, <1>1 DEF Unspoilt
<1> HIDE DEF q, f
<1>6. OutcomeInv'
  <2>1. \A r \in acks : ToSet(r.frame) \subseteq NotedAs("ack")
    BY DEF BenchInv, OutcomeInv
  <2>2. \A r \in acks' : ToSet(r.frame) \subseteq NotedAs("ack")'
    BY <1>0, <1>1, <1>3, <1>4, <2>1
  <2>3. \A a \in NotedAs("ack")' : \E r \in acks' : a \in ToSet(r.frame)
    BY <1>0, <1>1, <1>3, <1>4 DEF BenchInv, OutcomeInv
  <2>4. \A r, p \in acks' : r # p => ToSet(r.frame) \cap ToSet(p.frame) = {}
    <3>1. \A r \in acks : ToSet(r.frame) \cap ToSet(f) = {}
      BY <1>1, <1>3, <2>1
    <3> QED
      BY <1>0, <1>4, <3>1 DEF BenchInv, OutcomeInv
  <2>5. \A g \in refused' : ToSet(g) \subseteq NotedAs("rejected")'
    BY <1>0, <1>3 DEF BenchInv, OutcomeInv
  <2> QED
    BY <2>2, <2>3, <2>4, <2>5 DEF OutcomeInv
<1>7. Unspoilt'
  <2>1. journal' \in Seq(Packed) /\ Apart(journal')
    BY <1>0, <1>1 DEF Unspoilt
  <2>2. \A i \in DOMAIN journal' :
          ToSet(journal'[i]) \subseteq NotedAs("unknown")' \/ \E r \in acks' : r.offset = i
    <3> SUFFICES ASSUME NEW i \in DOMAIN journal, i # wk[w].offset
                 PROVE  ToSet(journal[i]) \subseteq NotedAs("unknown")' \/ \E r \in acks : r.offset = i
      BY <1>0, <1>4
    <3>1. ToSet(journal[i]) \cap ToSet(f) = {}
      BY <1>1, <1>5 DEF Unspoilt, Apart
    <3> QED
      BY <1>1, <1>3, <3>1 DEF Unspoilt
  <2>3. \A r \in acks' : r.offset \in DOMAIN journal' /\ r.frame = journal'[r.offset]
    BY <1>0, <1>1, <1>4, <1>5 DEF Unspoilt
  <2>4. \A g \in late' : /\ ToSet(g) \subseteq NotedAs("unknown")'
                         /\ ToSet(g) \cap Entries(journal') = {}
                         /\ \A v \in Workers : ToSet(g) \cap InCall(v)' = {}
                         /\ \A h \in late' : g # h => ToSet(g) \cap ToSet(h) = {}
    BY <1>0, <1>1, <1>2, <1>3 DEF Unspoilt
  <2>5. \A v \in Workers :
          /\ wk'[v].pc = "sent" => InCall(v)' \cap Entries(journal') = {}
          /\ wk'[v].pc = "written" =>
               wk'[v].offset \in DOMAIN journal' /\ journal'[wk'[v].offset] = wk'[v].frame
    BY <1>0, <1>1, <1>2 DEF Unspoilt
  <2> QED
    BY <2>1, <2>2, <2>3, <2>4, <2>5 DEF Unspoilt
<1>8. /\ cnt' \in [Counters -> Nat] /\ cnt'["recorded"] = cnt["recorded"] + Len(f)
      /\ \A d \in Counters \ {"recorded"} : cnt'[d] = cnt[d]
  <2>1. "recorded" \in Counters
    BY DEF Counters
  <2> QED
    BY <1>0, <1>1, <2>1, AddType
<1>9. "invalid" \in Counters \ {"recorded"}
  BY DEF Counters
<1>10. refused' \subseteq Packed /\ acks' \subseteq [offset : Nat, frame : Packed]
       /\ journal' \in Seq(Seq(Attempts)) /\ late' \subseteq Packed
  BY <1>0, <1>1, <1>4 DEF BenchInv, BenchTypeInv
<1> QED
  <2>1. Ends(w, "ack", "recorded")
    BY <1>0, <1>6, <1>7, <1>8, <1>9, <1>10 DEF Ends, f
  <2> QED
    BY <2>1, EndStep


\* A worker takes a frame from the channel, notes its attempts as unknown and
\* sends it.
LEMMA SendStep ==
    ASSUME BenchInv, NEW w \in Workers, TakeFrame(w), ~ cancelled, UNCHANGED Faults,
           state' = BeforeSend(Head(jobs)), Add("dispatched", Len(Head(jobs))),
           wk' = [wk EXCEPT ![w] = [pc |-> "sent", frame |-> Head(jobs), offset |-> 0]]
    PROVE  BenchInv'
<1> DEFINE f == Head(jobs)
<1>0. /\ gen \in [next : 1 .. Keys + 1, todo : Plans, buf : Plans] /\ Len(gen.buf) < FrameSize
      /\ jobs \in Seq(Packed) /\ jobs # <<>> /\ jobs' = Tail(jobs) /\ cnt \in [Counters -> Nat]
      /\ phase = "run" /\ UNCHANGED <<acks, cancelled, store, end>> /\ gen' = gen
      /\ wk[w].pc = "idle" /\ state \in [Attempts -> States]
  BY DEF BenchInv, BenchTypeInv, TakeFrame
<1>1. /\ Packing \subseteq Unsent /\ Entries(jobs) \subseteq Unsent
      /\ Packing \cap Entries(jobs) = {} /\ Apart(jobs)
  BY DEF BenchInv, WaitInv
<1>2. /\ f \in Packed /\ jobs' \in Seq(Packed) /\ Apart(jobs')
      /\ Entries(jobs) = ToSet(f) \cup Entries(jobs') /\ ToSet(f) \cap Entries(jobs') = {}
  BY <1>0, <1>1, EntriesTail
<1>3. f \in Plans /\ Len(f) \in Nat /\ f # <<>>
  BY <1>2, PackedIsPlan
<1>4. wk' = [wk EXCEPT ![w] = [pc |-> "sent", frame |-> f, offset |-> 0]] /\ state' = Noted(f, "unknown")
  BY DEF BeforeSend
<1>5. Add("dispatched", Len(f))
  OBVIOUS
<1> HIDE DEF f
<1>6. /\ wk'[w].pc = "sent" /\ wk'[w].frame = f /\ wk'[w] = [pc |-> "sent", frame |-> f, offset |-> 0]
      /\ \A v \in Workers \ {w} : wk'[v] = wk[v]
  BY <1>4 DEF BenchInv, BenchTypeInv
<1>7. /\ InCall(w) = {} /\ InCall(w)' = ToSet(f) /\ \A v \in Workers \ {w} : InCall(v)' = InCall(v)
  <2>1. wk[w].frame = <<>>
    BY <1>0 DEF BenchInv, BenchTypeInv
  <2> QED
    BY <1>6, <2>1, ElementsOfEmpty DEF InCall
<1>8. Calling' = Calling \cup ToSet(f)
  BY <1>7 DEF Calling
<1>9. /\ state' \in [Attempts -> States]
      /\ \A a \in Attempts : state'[a] = IF a \in ToSet(f) THEN "unknown" ELSE state[a]
      /\ ToSet(f) \subseteq Unsent
      /\ \A a \in ToSet(f) : a \in Attempts /\ state[a] = "never" /\ a[1] < gen.next
  <2>1. "unknown" \in States
    BY DEF States
  <2> QED
    BY <1>0, <1>1, <1>2, <1>4, <2>1, NotedType DEF Unsent
<1>10. /\ NotedAs("unknown")' = NotedAs("unknown") \cup ToSet(f)
       /\ NotedAs("ack")' = NotedAs("ack") /\ NotedAs("rejected")' = NotedAs("rejected")
       /\ {a \in Attempts : state'[a] # "never"} = {a \in Attempts : state[a] # "never"} \cup ToSet(f)
       /\ {a \in Attempts : state[a] # "never"} \cap ToSet(f) = {}
       /\ \A t \in {"unknown", "ack", "rejected"} : NotedAs(t) \cap ToSet(f) = {}
  BY <1>9 DEF NotedAs
<1>11. Unsent' = Unsent \ ToSet(f) /\ Packing' = Packing /\ Skipped' = Skipped
  <2>1. Unsent' = Unsent \ ToSet(f) /\ Packing' = Packing
    BY <1>0, <1>9 DEF Unsent, Packing
  <2> QED
    BY <1>1, <1>2, <2>1 DEF Skipped
<1>12. WaitInv'
  <2>1. Packing \cap ToSet(f) = {} /\ Packing \cap Entries(jobs') = {}
    BY <1>1, <1>2
  <2>2. \A a \in Attempts : state'[a] # "never" => a[1] < gen'.next
    BY <1>0, <1>9 DEF BenchInv, WaitInv
  <2> QED
    BY <1>0, <1>1, <1>2, <1>11, <2>1, <2>2 DEF BenchInv, WaitInv
<1>13. CallInv'
  <2>1. \A v \in Workers : InCall(v) \subseteq NotedAs("unknown")
    BY DEF BenchInv, CallInv
  <2> QED
    BY <1>7, <1>10, <2>1 DEF BenchInv, CallInv
<1>14. OutcomeInv'
  <2>1. acks' = acks /\ refused' = refused
    BY <1>0 DEF store
  <2> QED
    BY <1>10, <2>1 DEF BenchInv, OutcomeInv
<1>15. Unspoilt /\ ~ closed /\ verdict = "none"
  BY <1>0 DEF BenchInv, DiskInv, StageInv
<1>16. Unspoilt'
  <2>0. journal' = journal /\ late' = late /\ acks' = acks
    BY <1>0 DEF store
  <2>1. \A i \in DOMAIN journal : ToSet(journal[i]) \cap ToSet(f) = {}
    <3>1. \A r \in acks : ToSet(r.frame) \subseteq NotedAs("ack")
      BY DEF BenchInv, OutcomeInv
    <3>2. ASSUME NEW i \in DOMAIN journal, NEW r \in acks, r.offset = i
          PROVE  ToSet(journal[i]) \subseteq NotedAs("ack")
      BY <1>15, <3>1, <3>2 DEF Unspoilt
    <3>3. ASSUME NEW i \in DOMAIN journal
          PROVE  ToSet(journal[i]) \subseteq NotedAs("unknown") \/ ToSet(journal[i]) \subseteq NotedAs("ack")
      BY <1>15, <3>2 DEF Unspoilt
    <3> QED
      BY <1>10, <3>3
  <2>2. ToSet(f) \cap Entries(journal) = {}
    BY <2>1 DEF Entries
  <2>3. journal' \in Seq(Packed) /\ Apart(journal')
        /\ \A r \in acks' : r.offset \in DOMAIN journal' /\ r.frame = journal'[r.offset]
    BY <1>15, <2>0 DEF Unspoilt
  <2>4. \A i \in DOMAIN journal' :
          ToSet(journal'[i]) \subseteq NotedAs("unknown")' \/ \E r \in acks' : r.offset = i
    BY <1>10, <1>15, <2>0 DEF Unspoilt
  <2>5. \A g \in late' : /\ ToSet(g) \subseteq NotedAs("unknown")'
                         /\ ToSet(g) \cap Entries(journal') = {}
                         /\ \A v \in Workers : ToSet(g) \cap InCall(v)' = {}
                         /\ \A h \in late' : g # h => ToSet(g) \cap ToSet(h) = {}
    <3>1. \A g \in late : ToSet(g) \subseteq NotedAs("unknown")
      BY <1>15 DEF Unspoilt
    <3>2. \A g \in late : ToSet(g) \cap ToSet(f) = {}
      BY <1>10, <3>1
    <3> QED
      BY <1>7, <1>10, <1>15, <2>0, <3>2 DEF Unspoilt
  <2>6. \A v \in Workers :
          /\ wk'[v].pc = "sent" => InCall(v)' \cap Entries(journal') = {}
          /\ wk'[v].pc = "written" =>
               wk'[v].offset \in DOMAIN journal' /\ journal'[wk'[v].offset] = wk'[v].frame
    BY <1>6, <1>7, <1>15, <2>0, <2>2 DEF Unspoilt
  <2> QED
    BY <2>3, <2>4, <2>5, <2>6 DEF Unspoilt
<1>17. /\ cnt' \in [Counters -> Nat] /\ cnt'["dispatched"] = cnt["dispatched"] + Len(f)
       /\ \A d \in Counters \ {"dispatched"} : cnt'[d] = cnt[d]
  <2>1. "dispatched" \in Counters
    BY DEF Counters
  <2> QED
    BY <1>0, <1>3, <1>5, <2>1, AddType
<1>18. TallyInv'
  <2>1. cnt'["dispatched"] = Cardinality({a \in Attempts : state'[a] # "never"})
    <3>1. Cardinality({a \in Attempts : state[a] # "never"} \cup ToSet(f)) =
            Cardinality({a \in Attempts : state[a] # "never"}) + Len(f)
      <4>1. {a \in Attempts : state[a] # "never"} \in SUBSET Attempts
        OBVIOUS
      <4> QED
        BY <1>3, <1>10, <4>1, SizeOfUnion
    <3> QED
      BY <1>10, <1>17, <3>1 DEF BenchInv, TallyInv
  <2>2. \A d \in {"recorded", "rejected", "unknown", "lag", "queue"} : cnt'[d] = cnt[d]
    BY <1>17 DEF Counters
  <2>3. NotedAs("unknown")' \ Calling' = NotedAs("unknown") \ Calling
    BY <1>8, <1>10
  <2>4. /\ Cardinality(NotedAs("ack")') = Cardinality(NotedAs("ack"))
        /\ Cardinality(NotedAs("rejected")') = Cardinality(NotedAs("rejected"))
        /\ Cardinality(NotedAs("unknown")' \ Calling') = Cardinality(NotedAs("unknown") \ Calling)
        /\ Cardinality(Skipped') = Cardinality(Skipped)
    BY <1>10, <1>11, <2>3, Zenon
  <2>5. cancelled' = cancelled
    BY <1>0
  <2> QED
    BY <2>1, <2>2, <2>4, <2>5 DEF BenchInv, TallyInv
<1>19. BenchTypeInv'
  <2>1. wk' \in [Workers -> [pc : {"idle", "sent", "written"}, frame : Packed \cup {<<>>}, offset : Nat]]
    BY <1>2, <1>4 DEF BenchInv, BenchTypeInv
  <2>2. \A v \in Workers : wk'[v].pc = "idle" <=> wk'[v].frame = <<>>
    BY <1>3, <1>6 DEF BenchInv, BenchTypeInv
  <2>3. /\ acks' \subseteq [offset : Nat, frame : Packed]
        /\ journal' \in Seq(Seq(Attempts)) /\ late' \subseteq Packed /\ refused' \subseteq Packed
    BY <1>0 DEF BenchInv, BenchTypeInv, store
  <2> QED
    BY <1>0, <1>2, <1>9, <1>17, <2>1, <2>2, <2>3 DEF BenchTypeInv
<1>20. StageInv'
  <2>1. phase' = phase /\ ledger' = ledger /\ closed' = closed /\ verdict' = verdict
    BY <1>0 DEF end, store
  <2> QED
    BY <1>0, <1>15, <2>1 DEF BenchInv, StageInv
<1> QED
  BY <1>12, <1>13, <1>14, <1>16, <1>18, <1>19, <1>20 DEF BenchInv, DiskInv

\* A step of the journal, or of the process, that changes no attempt, call or
\* count.
Quiet ==
    /\ UNCHANGED <<gen, jobs, wk, state, acks, cnt, refused, Faults>> /\ (cancelled => cancelled')
    /\ journal' \in Seq(Seq(Attempts)) /\ late' \subseteq Packed
    /\ DiskInv' /\ StageInv'
LEMMA QuietStep == BenchInv /\ Quiet => BenchInv'
<1> SUFFICES ASSUME BenchInv, Quiet PROVE BenchInv'
  OBVIOUS
<1>0. /\ gen' = gen /\ jobs' = jobs /\ wk' = wk /\ state' = state /\ acks' = acks /\ cnt' = cnt
      /\ refused' = refused /\ (~ cancelled' => ~ cancelled) /\ DiskInv' /\ StageInv'
      /\ journal' \in Seq(Seq(Attempts)) /\ late' \subseteq Packed
  BY DEF Quiet
<1>1. BenchTypeInv'
  BY <1>0 DEF BenchInv, BenchTypeInv
<1>2. WaitInv'
  BY <1>0 DEF BenchInv, WaitInv, Packing, Unsent
<1>3. CallInv' /\ OutcomeInv'
  BY <1>0 DEF BenchInv, CallInv, OutcomeInv, InCall, NotedAs
<1>4. /\ NotedAs("ack")' = NotedAs("ack") /\ NotedAs("rejected")' = NotedAs("rejected")
      /\ NotedAs("unknown")' = NotedAs("unknown") /\ Calling' = Calling /\ Skipped' = Skipped
  BY <1>0 DEF NotedAs, Calling, InCall, Skipped, Unsent, Packing
<1>5. TallyInv'
  BY <1>0, <1>4 DEF BenchInv, TallyInv
<1> QED
  BY <1>0, <1>1, <1>2, <1>3, <1>5 DEF BenchInv

\* The journal writes the frame of a call.
LEMMA WriteFrameStep ==
    ASSUME BenchInv, NEW w \in Workers, WriteFrame(w), UNCHANGED Faults PROVE BenchInv'
<1> DEFINE f == wk[w].frame
<1>0. /\ wk[w].pc = "sent" /\ wk[w].pc # "idle" /\ journal' = Append(journal, f)
      /\ wk' = [wk EXCEPT ![w].pc = "written", ![w].offset = Len(journal) + 1]
      /\ gen' = gen /\ jobs' = jobs /\ state' = state /\ acks' = acks /\ cnt' = cnt
      /\ cancelled' = cancelled /\ late' = late /\ refused' = refused /\ closed' = closed
      /\ phase' = phase /\ ledger' = ledger /\ verdict' = verdict
  BY DEF WriteFrame, end
<1>1. /\ f \in Packed /\ Unspoilt /\ InCall(w) \subseteq NotedAs("unknown") /\ InCall(w) = ToSet(f)
      /\ phase = "run" /\ ~ closed
  BY <1>0, CallFacts DEF InCall
<1>2. /\ wk \in [Workers -> [pc : {"idle", "sent", "written"}, frame : Packed \cup {<<>>}, offset : Nat]]
      /\ journal \in Seq(Packed) /\ Apart(journal) /\ ToSet(f) \cap Entries(journal) = {}
  BY <1>0, <1>1 DEF BenchInv, BenchTypeInv, Unspoilt
<1> HIDE DEF f
<1>3. /\ journal' \in Seq(Packed) /\ Apart(journal') /\ Entries(journal') = Entries(journal) \cup ToSet(f)
      /\ DOMAIN journal = 1 .. Len(journal) /\ Len(journal) \in Nat
      /\ DOMAIN journal' = 1 .. Len(journal) + 1 /\ journal'[Len(journal) + 1] = f
      /\ \A i \in DOMAIN journal : journal'[i] = journal[i]
  BY <1>0, <1>1, <1>2, EntriesAppend
<1>4. /\ wk'[w].pc = "written" /\ wk'[w].frame = f /\ wk'[w].offset = Len(journal) + 1
      /\ wk' = [v \in Workers |-> wk'[v]]
      /\ wk'[w] = [pc |-> "written", frame |-> f, offset |-> Len(journal) + 1]
      /\ \A v \in Workers : wk'[v].frame = wk[v].frame
      /\ \A v \in Workers \ {w} : wk'[v] = wk[v]
  <2>1. wk[w] \in [pc : {"idle", "sent", "written"}, frame : Packed \cup {<<>>}, offset : Nat]
    BY <1>2
  <2>2. /\ wk'[w] = [wk[w] EXCEPT !.pc = "written", !.offset = Len(journal) + 1]
        /\ \A v \in Workers \ {w} : wk'[v] = wk[v]
        /\ wk' = [v \in Workers |-> wk'[v]]
    BY <1>0, <1>2
  <2>3. wk'[w] = [pc |-> "written", frame |-> wk[w].frame, offset |-> Len(journal) + 1]
    BY <2>1, <2>2
  <2> QED
    BY <2>2, <2>3 DEF f
<1>5. /\ \A v \in Workers : InCall(v)' = InCall(v)
      /\ \A t : NotedAs(t)' = NotedAs(t)
  BY <1>0, <1>4 DEF InCall, NotedAs
<1>6. Calling' = Calling
  BY <1>5 DEF Calling
<1>7. Packing' = Packing /\ Unsent' = Unsent /\ Skipped' = Skipped
  BY <1>0 DEF Packing, Unsent, Skipped
<1>8. BenchTypeInv'
  <2>1. wk' \in [Workers -> [pc : {"idle", "sent", "written"}, frame : Packed \cup {<<>>}, offset : Nat]]
    BY <1>1, <1>2, <1>3, <1>4
  <2>2. \A v \in Workers : wk'[v].pc = "idle" <=> wk'[v].frame = <<>>
    BY <1>0, <1>4 DEF BenchInv, BenchTypeInv
  <2>3. journal' \in Seq(Seq(Attempts))
    <3>1. journal \in Seq(Seq(Attempts)) /\ f \in Seq(Attempts)
      BY <1>1, PackedIsPlan DEF BenchInv, BenchTypeInv
    <3> QED
      BY <1>0, <3>1
  <2> QED
    BY <1>0, <2>1, <2>2, <2>3 DEF BenchInv, BenchTypeInv
<1>9. WaitInv' /\ CallInv' /\ OutcomeInv'
  BY <1>0, <1>5, <1>7 DEF BenchInv, WaitInv, CallInv, OutcomeInv
<1>10. TallyInv'
  BY <1>0, <1>5, <1>6, <1>7 DEF BenchInv, TallyInv
<1>11. Unspoilt'
  <2>1. \A i \in DOMAIN journal' :
          ToSet(journal'[i]) \subseteq NotedAs("unknown")' \/ \E r \in acks' : r.offset = i
    <3>1. ASSUME NEW i \in DOMAIN journal'
          PROVE  i \in DOMAIN journal \/ i = Len(journal) + 1
      BY <1>3
    <3>2. \A i \in DOMAIN journal :
            ToSet(journal[i]) \subseteq NotedAs("unknown") \/ \E r \in acks : r.offset = i
      BY <1>1 DEF Unspoilt
    <3> QED
      BY <1>0, <1>1, <1>3, <1>5, <3>1, <3>2
  <2>2. \A r \in acks' : r.offset \in DOMAIN journal' /\ r.frame = journal'[r.offset]
    <3>1. \A r \in acks : r.offset \in DOMAIN journal /\ r.frame = journal[r.offset]
      BY <1>1 DEF Unspoilt
    <3>2. \A i \in DOMAIN journal : i \in DOMAIN journal'
      BY <1>3
    <3> QED
      BY <1>0, <1>3, <3>1, <3>2
  <2>3. \A g \in late' : /\ ToSet(g) \subseteq NotedAs("unknown")'
                         /\ ToSet(g) \cap Entries(journal') = {}
                         /\ \A v \in Workers : ToSet(g) \cap InCall(v)' = {}
                         /\ \A h \in late' : g # h => ToSet(g) \cap ToSet(h) = {}
    <3>1. \A g \in late : /\ ToSet(g) \subseteq NotedAs("unknown")
                          /\ ToSet(g) \cap Entries(journal) = {}
                          /\ \A v \in Workers : ToSet(g) \cap InCall(v) = {}
                          /\ \A h \in late : g # h => ToSet(g) \cap ToSet(h) = {}
      BY <1>1 DEF Unspoilt
    <3>2. \A g \in late : ToSet(g) \cap Entries(journal') = {}
      BY <1>1, <1>3, <3>1
    <3> QED
      BY <1>0, <1>5, <3>1, <3>2
  <2>4. ASSUME NEW v \in Workers
        PROVE  /\ wk'[v].pc = "sent" => InCall(v)' \cap Entries(journal') = {}
               /\ wk'[v].pc = "written" =>
                    wk'[v].offset \in DOMAIN journal' /\ journal'[wk'[v].offset] = wk'[v].frame
    <3>1. CASE v = w
      BY <1>3, <1>4, <3>1
    <3>2. CASE v # w
      <4>1. InCall(v) \cap ToSet(f) = {}
        BY <1>1, <3>2 DEF BenchInv, CallInv
      <4>2. \A i \in DOMAIN journal : i \in DOMAIN journal'
        BY <1>3
      <4>3. /\ wk[v].pc = "sent" => InCall(v) \cap Entries(journal) = {}
            /\ wk[v].pc = "written" => wk[v].offset \in DOMAIN journal /\ journal[wk[v].offset] = wk[v].frame
        BY <1>1 DEF Unspoilt
      <4> QED
        BY <1>3, <1>4, <1>5, <3>2, <4>1, <4>2, <4>3
    <3> QED
      BY <3>1, <3>2
  <2> QED
    BY <1>3, <2>1, <2>2, <2>3, <2>4 DEF Unspoilt
<1>12. StageInv'
  <2>1. verdict = "none"
    BY <1>1 DEF BenchInv, StageInv
  <2> QED
    BY <1>0, <1>1, <2>1 DEF BenchInv, StageInv
<1> QED
  BY <1>8, <1>9, <1>10, <1>11, <1>12 DEF BenchInv, DiskInv

\* The journal writes a frame whose call had no answer.
LEMMA WriteLateStep == BenchInv /\ WriteLate /\ UNCHANGED Faults => BenchInv'
<1> SUFFICES ASSUME BenchInv, WriteLate, UNCHANGED Faults PROVE BenchInv'
  OBVIOUS
<1>0. /\ ~ closed /\ UNCHANGED <<work, refused, closed, end>>
      /\ gen' = gen /\ jobs' = jobs /\ wk' = wk /\ state' = state /\ acks' = acks /\ cnt' = cnt
      /\ cancelled' = cancelled /\ refused' = refused /\ closed' = closed
      /\ phase' = phase /\ ledger' = ledger /\ verdict' = verdict
  BY DEF WriteLate, work, end
<1>1. PICK f \in late : journal' = Append(journal, f) /\ late' = late \ {f}
  BY DEF WriteLate
<1>2. /\ Unspoilt /\ f \in Packed /\ journal \in Seq(Packed) /\ Apart(journal)
      /\ \A g \in late : /\ ToSet(g) \subseteq NotedAs("unknown")
                         /\ ToSet(g) \cap Entries(journal) = {}
                         /\ \A v \in Workers : ToSet(g) \cap InCall(v) = {}
                         /\ \A h \in late : g # h => ToSet(g) \cap ToSet(h) = {}
  BY <1>0 DEF BenchInv, BenchTypeInv, DiskInv, Unspoilt
<1>3. /\ journal' \in Seq(Packed) /\ Apart(journal') /\ Entries(journal') = Entries(journal) \cup ToSet(f)
      /\ DOMAIN journal = 1 .. Len(journal) /\ Len(journal) \in Nat
      /\ DOMAIN journal' = 1 .. Len(journal) + 1 /\ journal'[Len(journal) + 1] = f
      /\ \A i \in DOMAIN journal : journal'[i] = journal[i]
  BY <1>1, <1>2, EntriesAppend
<1>4. \A i \in DOMAIN journal : i \in DOMAIN journal'
  BY <1>3
<1>5. /\ \A v \in Workers : InCall(v)' = InCall(v)
      /\ \A t : NotedAs(t)' = NotedAs(t)
  BY <1>0 DEF InCall, NotedAs
<1>6. Unspoilt'
  <2>1. \A i \in DOMAIN journal' :
          ToSet(journal'[i]) \subseteq NotedAs("unknown")' \/ \E r \in acks' : r.offset = i
    <3>1. ASSUME NEW i \in DOMAIN journal'
          PROVE  i \in DOMAIN journal \/ i = Len(journal) + 1
      BY <1>3
    <3>2. \A i \in DOMAIN journal :
            ToSet(journal[i]) \subseteq NotedAs("unknown") \/ \E r \in acks : r.offset = i
      BY <1>2 DEF Unspoilt
    <3> QED
      BY <1>0, <1>2, <1>3, <1>5, <3>1, <3>2
  <2>2. \A r \in acks' : r.offset \in DOMAIN journal' /\ r.frame = journal'[r.offset]
    <3>1. \A r \in acks : r.offset \in DOMAIN journal /\ r.frame = journal[r.offset]
      BY <1>2 DEF Unspoilt
    <3> QED
      BY <1>0, <1>3, <1>4, <3>1
  <2>3. \A g \in late' : /\ ToSet(g) \subseteq NotedAs("unknown")'
                         /\ ToSet(g) \cap Entries(journal') = {}
                         /\ \A v \in Workers : ToSet(g) \cap InCall(v)' = {}
                         /\ \A h \in late' : g # h => ToSet(g) \cap ToSet(h) = {}
    <3>1. \A g \in late' : g \in late /\ g # f
      BY <1>1
    <3>2. \A g \in late' : ToSet(g) \cap Entries(journal') = {}
      BY <1>2, <1>3, <3>1
    <3> QED
      BY <1>0, <1>2, <1>5, <3>1, <3>2
  <2>4. ASSUME NEW v \in Workers
        PROVE  /\ wk'[v].pc = "sent" => InCall(v)' \cap Entries(journal') = {}
               /\ wk'[v].pc = "written" =>
                    wk'[v].offset \in DOMAIN journal' /\ journal'[wk'[v].offset] = wk'[v].frame
    <3>1. InCall(v) \cap ToSet(f) = {}
      BY <1>2
    <3>2. /\ wk[v].pc = "sent" => InCall(v) \cap Entries(journal) = {}
          /\ wk[v].pc = "written" => wk[v].offset \in DOMAIN journal /\ journal[wk[v].offset] = wk[v].frame
      BY <1>2 DEF Unspoilt
    <3> QED
      BY <1>0, <1>3, <1>4, <1>5, <3>1, <3>2
  <2> QED
    BY <1>3, <2>1, <2>2, <2>3, <2>4 DEF Unspoilt
<1>7. StageInv'
  <2>1. verdict # "correct"
    BY <1>0 DEF BenchInv, StageInv, Correct
  <2> QED
    BY <1>0, <2>1 DEF BenchInv, StageInv
<1>8. journal' \in Seq(Seq(Attempts)) /\ late' \subseteq Packed
  <2>1. journal \in Seq(Seq(Attempts)) /\ f \in Seq(Attempts)
    BY <1>2, PackedIsPlan DEF BenchInv, BenchTypeInv
  <2> QED
    BY <1>1, <2>1 DEF BenchInv, BenchTypeInv
<1>9. Quiet
  BY <1>0, <1>6, <1>7, <1>8 DEF Quiet, DiskInv
<1> QED
  BY <1>9, QuietStep

-----------------------------------------------------------------------------
(* The audit *)

\* An attempt that is on disk once at most.
LEMMA OnePosition ==
    ASSUME journal \in Seq(Seq(Attempts)), NEW a
    PROVE  /\ IsFiniteSet(Positions(a))
           /\ Cardinality(Positions(a)) <= 1 <=> \A p, q \in Positions(a) : p = q
<1> DEFINE P == Positions(a)
<1>1. DOMAIN journal = 1 .. Len(journal) /\ Len(journal) \in Nat /\ FrameSize \in Nat
  BY BenchAssumption DEF BenchConfig
<1>2. IsFiniteSet(1 .. Len(journal)) /\ IsFiniteSet(1 .. FrameSize)
  BY <1>1, FS_Interval
<1>3. IsFiniteSet((1 .. Len(journal)) \X (1 .. FrameSize))
  BY <1>2, FS_Product
<1>4. P \subseteq (1 .. Len(journal)) \X (1 .. FrameSize)
  BY <1>1 DEF Positions
<1> HIDE DEF P
<1>5. IsFiniteSet(P) /\ Cardinality(P) \in Nat
  BY <1>3, <1>4, FS_Subset, FS_CardinalityType
<1>6. ASSUME \A p, q \in P : p = q PROVE Cardinality(P) <= 1
  <2>1. CASE P = {}
    BY <2>1, FS_EmptySet
  <2>2. CASE P # {}
    <3>1. PICK p : p \in P
      BY <2>2
    <3>2. P = {p}
      BY <1>6, <3>1
    <3>3. Cardinality(P) = 1
      BY <3>2, FS_Singleton
    <3> QED
      BY <3>3
  <2> QED
    BY <2>1, <2>2
<1>7. ASSUME Cardinality(P) <= 1, NEW p \in P, NEW q \in P PROVE p = q
  <2>1. CASE Cardinality(P) = 0
    BY <1>5, <2>1, FS_EmptySet
  <2>2. CASE Cardinality(P) = 1
    BY <1>5, <2>2, FS_Singleton
  <2> QED
    BY <1>5, <1>7, <2>1, <2>2
<1> QED
  BY <1>5, <1>6, <1>7 DEF P

\* The receipts have as many attempts as were acknowledged.
LEMMA ReceiptCount ==
    ASSUME BenchInv
    PROVE  Cardinality({a \in Attempts : state[a] = "ack"}) =
             Cardinality({p \in acks \X (1 .. FrameSize) : p[2] <= Len(p[1].frame)})
<1> DEFINE P == {p \in acks \X (1 .. FrameSize) : p[2] <= Len(p[1].frame)}
           g == [p \in P |-> p[1].frame[p[2]]]
<1>1. ASSUME NEW r \in acks
      PROVE  /\ r.frame \in Packed /\ r.frame \in Plans /\ Len(r.frame) \in 1 .. FrameSize
             /\ DOMAIN r.frame = 1 .. Len(r.frame) /\ ToSet(r.frame) \subseteq NotedAs("ack")
             /\ \A n \in DOMAIN r.frame : r.frame[n] \in ToSet(r.frame)
             /\ \A m, n \in DOMAIN r.frame : r.frame[m] = r.frame[n] => m = n
  <2>1. r.frame \in Packed /\ ToSet(r.frame) \subseteq NotedAs("ack")
    BY DEF BenchInv, BenchTypeInv, OutcomeInv
  <2>2. r.frame \in Plans /\ r.frame \in Seq(Attempts) /\ Len(r.frame) \in 1 .. FrameSize
    BY <2>1, PackedIsPlan DEF Packed
  <2> QED
    BY <2>1, <2>2, ElementsOf DEF Plans
<1>2. ASSUME NEW p \in P
      PROVE  p = <<p[1], p[2]>> /\ p[1] \in acks /\ p[2] \in DOMAIN p[1].frame
  <2>1. p = <<p[1], p[2]>> /\ p[1] \in acks /\ p[2] \in 1 .. FrameSize /\ p[2] <= Len(p[1].frame)
    OBVIOUS
  <2> QED
    BY <1>1, <2>1
<1>3. ASSUME NEW r \in acks, NEW n \in DOMAIN r.frame PROVE <<r, n>> \in P
  <2>1. n \in 1 .. FrameSize /\ n <= Len(r.frame)
    BY <1>1, BenchAssumption DEF BenchConfig
  <2> QED
    BY <2>1
<1> HIDE DEF P
<1>4. g \in [P -> NotedAs("ack")]
  BY <1>1, <1>2
<1>5. ASSUME NEW p \in P, NEW q \in P, g[p] = g[q] PROVE p = q
  <2>1. p[1].frame[p[2]] = q[1].frame[q[2]]
    BY <1>5
  <2>2. p[1].frame[p[2]] \in ToSet(p[1].frame) /\ q[1].frame[q[2]] \in ToSet(q[1].frame)
    BY <1>1, <1>2
  <2>3. p[1] = q[1]
    BY <1>2, <2>1, <2>2 DEF BenchInv, OutcomeInv
  <2>4. p[2] = q[2]
    BY <1>1, <1>2, <2>1, <2>3
  <2> QED
    BY <1>2, <2>3, <2>4
<1>6. ASSUME NEW a \in NotedAs("ack") PROVE \E p \in P : g[p] = a
  <2>1. PICK r \in acks : a \in ToSet(r.frame)
    BY DEF BenchInv, OutcomeInv
  <2>2. PICK n \in DOMAIN r.frame : r.frame[n] = a
    BY <2>1 DEF ToSet
  <2>3. <<r, n>> \in P
    BY <1>3
  <2> QED
    BY <2>2, <2>3
<1>7. g \in Injection(P, NotedAs("ack")) /\ g \in Surjection(P, NotedAs("ack"))
  BY <1>4, <1>5, <1>6 DEF Injection, IsInjective, Surjection
<1>8. IsFiniteSet(NotedAs("ack"))
  BY AttemptsFinite DEF NotedAs
<1>9. Cardinality(P) = Cardinality(NotedAs("ack"))
  BY <1>7, <1>8, FS_Injection
<1> QED
  BY <1>9 DEF NotedAs, P

\* A sealed journal that kept its contract passes the audit.
LEMMA SoundIsCorrect == BenchInv /\ closed /\ Faults = {} => Correct
<1> SUFFICES ASSUME BenchInv, closed, Faults = {} PROVE Correct
  OBVIOUS
<1>1. /\ journal \in Seq(Packed) /\ Apart(journal)
      /\ \A i \in DOMAIN journal :
           ToSet(journal[i]) \subseteq NotedAs("unknown") \/ \E r \in acks : r.offset = i
      /\ \A r \in acks : r.offset \in DOMAIN journal /\ r.frame = journal[r.offset]
  BY DEF BenchInv, DiskInv, Unspoilt
<1>2. /\ acks \subseteq [offset : Nat, frame : Packed] /\ journal \in Seq(Seq(Attempts))
      /\ \A r \in acks : ToSet(r.frame) \subseteq NotedAs("ack")
  BY DEF BenchInv, BenchTypeInv, OutcomeInv
<1>3. LedgerFits
  <2>1. ASSUME NEW r \in acks, NEW q \in acks, r.offset = q.offset PROVE r = q
    <3>1. r.frame = q.frame
      BY <1>1, <2>1
    <3>2. r \in [offset : Nat, frame : Packed] /\ q \in [offset : Nat, frame : Packed]
      BY <1>2
    <3> QED
      BY <2>1, <3>1, <3>2
  <2> QED
    BY <2>1, ReceiptCount DEF LedgerFits
<1>4. NothingMissing /\ ReceiptsFit
  BY <1>1 DEF NothingMissing, ReceiptsFit, ReceiptAt
<1>5. StatesFit
  <2> SUFFICES ASSUME NEW i \in DOMAIN journal, NEW a \in ToSet(journal[i])
               PROVE  \/ state[a] = "ack" /\ ReceiptAt(i) # {}
                      \/ state[a] = "unknown" /\ ReceiptAt(i) = {}
    BY DEF StatesFit
  <2>1. CASE \E r \in acks : r.offset = i
    BY <1>1, <1>2, <2>1 DEF ReceiptAt, NotedAs
  <2>2. CASE ~ \E r \in acks : r.offset = i
    BY <1>1, <2>2 DEF ReceiptAt, NotedAs
  <2> QED
    BY <2>1, <2>2
<1>6. NoCopies
  <2> SUFFICES ASSUME NEW a \in Attempts, NEW p \in Positions(a), NEW q \in Positions(a) PROVE p = q
    BY <1>2, OnePosition DEF NoCopies
  <2>1. /\ p = <<p[1], p[2]>> /\ p[1] \in DOMAIN journal /\ p[2] \in 1 .. Len(journal[p[1]])
        /\ journal[p[1]][p[2]] = a
        /\ q = <<q[1], q[2]>> /\ q[1] \in DOMAIN journal /\ q[2] \in 1 .. Len(journal[q[1]])
        /\ journal[q[1]][q[2]] = a
    BY <1>2 DEF Positions
  <2>2. \A i \in DOMAIN journal : /\ journal[i] \in Plans /\ DOMAIN journal[i] = 1 .. Len(journal[i])
                                 /\ \A n \in DOMAIN journal[i] : journal[i][n] \in ToSet(journal[i])
    BY <1>1, PackedIsPlan, ElementsOf
  <2>3. p[1] = q[1]
    BY <1>1, <2>1, <2>2 DEF Apart
  <2>4. p[2] = q[2]
    BY <2>1, <2>2, <2>3 DEF Plans
  <2> QED
    BY <2>1, <2>3, <2>4
<1> QED
  BY <1>3, <1>4, <1>5, <1>6 DEF Correct

-----------------------------------------------------------------------------
(* The process *)

LEMMA CancelStep == BenchInv /\ Cancel /\ UNCHANGED Faults => BenchInv'
<1> SUFFICES ASSUME BenchInv, Cancel, UNCHANGED Faults PROVE BenchInv'
  OBVIOUS
<1>1. /\ phase = "run" /\ cancelled' = TRUE
      /\ gen' = gen /\ jobs' = jobs /\ wk' = wk /\ state' = state /\ acks' = acks /\ cnt' = cnt
      /\ journal' = journal /\ late' = late /\ refused' = refused /\ closed' = closed
      /\ phase' = phase /\ ledger' = ledger /\ verdict' = verdict
  BY DEF Cancel, store, end
<1>2. DiskInv'
  BY <1>1, DiskStays DEF BenchInv
<1>3. StageInv'
  BY <1>1 DEF BenchInv, StageInv
<1>4. Quiet
  BY <1>1, <1>2, <1>3 DEF BenchInv, BenchTypeInv, Quiet
<1> QED
  BY <1>4, QuietStep

\* The workload ends, or the ledger is saved.
LEMMA SaveStep == BenchInv /\ (WorkloadEnds \/ SavePart \/ SaveEnds) /\ UNCHANGED Faults => BenchInv'
<1> SUFFICES ASSUME BenchInv, WorkloadEnds \/ SavePart \/ SaveEnds, UNCHANGED Faults PROVE BenchInv'
  OBVIOUS
<1>1. /\ gen' = gen /\ jobs' = jobs /\ wk' = wk /\ state' = state /\ acks' = acks /\ cnt' = cnt
      /\ cancelled' = cancelled /\ journal' = journal /\ late' = late /\ refused' = refused
      /\ closed' = closed /\ verdict' = verdict
  BY DEF WorkloadEnds, SavePart, SaveEnds, work, store
<1>2. DiskInv'
  BY <1>1, DiskStays DEF BenchInv
<1>3. phase \in {"run", "save"} /\ phase' \in {"save", "seal"}
  BY DEF WorkloadEnds, SavePart, SaveEnds
<1>4. phase = "run" => /\ gen.todo = <<>> /\ gen.buf = <<>> /\ jobs = <<>>
                       /\ \A w \in Workers : wk[w].pc = "idle"
                       /\ gen.next > Keys \/ cancelled
  BY DEF WorkloadEnds, SavePart, SaveEnds, Generated, AtGroup
<1>5. StageInv'
  BY <1>1, <1>3, <1>4 DEF BenchInv, StageInv
<1>6. Quiet
  BY <1>1, <1>2, <1>5 DEF BenchInv, BenchTypeInv, Quiet
<1> QED
  BY <1>6, QuietStep

\* Nothing is written after the journal was sealed, or could not be, or the
\* process was killed.
LEMMA StopStep == BenchInv /\ (SealFails \/ Kill) /\ UNCHANGED Faults => BenchInv'
<1> SUFFICES ASSUME BenchInv, SealFails \/ Kill, UNCHANGED Faults PROVE BenchInv'
  OBVIOUS
<1>1. /\ gen' = gen /\ jobs' = jobs /\ wk' = wk /\ state' = state /\ acks' = acks /\ cnt' = cnt
      /\ cancelled' = cancelled /\ journal' = journal /\ late' = {} /\ refused' = refused
      /\ closed' = closed /\ ledger' = ledger /\ verdict' = verdict
  BY DEF SealFails, Kill, work
<1>2. DiskInv'
  BY <1>1, DiskStays DEF BenchInv
<1>3. \/ phase' = phase /\ phase # "audited"
      \/ phase = "seal" /\ phase' = "over"
  BY DEF SealFails, Kill
<1>4. StageInv'
  BY <1>1, <1>3 DEF BenchInv, StageInv
<1>5. Quiet
  BY <1>1, <1>2, <1>4 DEF BenchInv, BenchTypeInv, Quiet
<1> QED
  BY <1>5, QuietStep

LEMMA SealBenchStep == BenchInv /\ Seal /\ UNCHANGED Faults => BenchInv'
<1> SUFFICES ASSUME BenchInv, Seal, UNCHANGED Faults PROVE BenchInv'
  OBVIOUS
<1>1. /\ gen' = gen /\ jobs' = jobs /\ wk' = wk /\ state' = state /\ acks' = acks /\ cnt' = cnt
      /\ cancelled' = cancelled /\ journal' \in Damaged /\ late' = {} /\ refused' = refused
      /\ closed' = TRUE /\ ledger' = ledger /\ verdict' = verdict
      /\ phase = "seal" /\ phase' = "sealed"
  BY DEF Seal, work
<1>2. verdict = "none" /\ ~ closed
  BY <1>1 DEF BenchInv, StageInv
<1>3. DiskInv'
  <2>1. Unspoilt
    BY <1>2 DEF BenchInv, DiskInv
  <2>2. Faults = {} => journal' = journal
    BY <1>1 DEF Damaged
  <2>3. journal' = journal => Unspoilt'
    BY <1>1, <2>1 DEF Unspoilt, InCall, NotedAs
  <2> QED
    BY <1>1, <2>2, <2>3 DEF DiskInv
<1>4. StageInv'
  BY <1>1, <1>2 DEF BenchInv, StageInv
<1>5. journal' \in Seq(Seq(Attempts))
  BY <1>1, DamagedType DEF BenchInv
<1>6. Quiet
  BY <1>1, <1>3, <1>4, <1>5 DEF Quiet
<1> QED
  BY <1>6, QuietStep

LEMMA AuditStep == BenchInv /\ Audit /\ UNCHANGED Faults => BenchInv'
<1> SUFFICES ASSUME BenchInv, Audit, UNCHANGED Faults PROVE BenchInv'
  OBVIOUS
<1>1. /\ gen' = gen /\ jobs' = jobs /\ wk' = wk /\ state' = state /\ acks' = acks /\ cnt' = cnt
      /\ cancelled' = cancelled /\ journal' = journal /\ late' = late /\ refused' = refused
      /\ closed' = closed /\ ledger' = ledger /\ phase' = "audited"
      /\ verdict' = IF Correct THEN "correct" ELSE IF closed THEN "wrong" ELSE "error"
      /\ phase \in {"sealed", "over"} \/ ledger = Parts
  BY DEF Audit, work, store, LedgerWhole
<1>2. phase # "run"
  <2>1. Parts # <<>>
    BY DEF Parts
  <2> QED
    BY <1>1, <2>1 DEF BenchInv, StageInv
<1>3. DiskInv'
  BY <1>1, DiskStays DEF BenchInv
<1>4. Correct' = Correct
  BY <1>1 DEF Correct, LedgerFits, NothingMissing, ReceiptsFit, ReceiptAt, StatesFit, NoCopies, Positions
<1>5. verdict' = "wrong" => Faults # {}
  BY <1>1, SoundIsCorrect
<1>6. verdict' = "correct" => Correct
  BY <1>1
<1>7. StageInv'
  BY <1>1, <1>2, <1>4, <1>5, <1>6 DEF BenchInv, StageInv
<1>8. Quiet
  BY <1>1, <1>3, <1>7 DEF BenchInv, BenchTypeInv, Quiet
<1> QED
  BY <1>8, QuietStep

LEMMA BenchStutter == BenchInv /\ UNCHANGED <<benchVars, Faults>> => BenchInv'
<1> SUFFICES ASSUME BenchInv, UNCHANGED <<benchVars, Faults>> PROVE BenchInv'
  OBVIOUS
<1>1. /\ gen' = gen /\ jobs' = jobs /\ wk' = wk /\ state' = state /\ acks' = acks /\ cnt' = cnt
      /\ cancelled' = cancelled /\ journal' = journal /\ late' = late /\ refused' = refused
      /\ closed' = closed /\ phase' = phase /\ ledger' = ledger /\ verdict' = verdict
      /\ Faults' = Faults
  BY DEF benchVars, work, store
<1>2. DiskInv'
  BY <1>1, DiskStays DEF BenchInv
<1>3. Correct' = Correct
  BY <1>1 DEF Correct, LedgerFits, NothingMissing, ReceiptsFit, ReceiptAt, StatesFit, NoCopies, Positions
<1>4. StageInv'
  BY <1>1, <1>3 DEF BenchInv, StageInv
<1>5. Quiet
  BY <1>1, <1>2, <1>4 DEF BenchInv, BenchTypeInv, Quiet
<1> QED
  BY <1>5, QuietStep

LEMMA WorkerStep ==
    ASSUME BenchInv, NEW w \in Workers, Worker(w), UNCHANGED Faults PROVE BenchInv'
<1>1. CASE TakeFrame(w)
  <2>1. CASE cancelled /\ UNCHANGED <<wk, state, cnt>>
    BY <1>1, <2>1, DropStep
  <2>2. CASE ~ cancelled /\ Add("lag", Len(Head(jobs))) /\ UNCHANGED <<wk, state>>
    BY <1>1, <2>2, DropStep
  <2>3. CASE /\ ~ cancelled
             /\ state' = BeforeSend(Head(jobs)) /\ Add("dispatched", Len(Head(jobs)))
             /\ wk' = [wk EXCEPT ![w] = [pc |-> "sent", frame |-> Head(jobs), offset |-> 0]]
    BY <1>1, <2>3, SendStep
  <2> QED
    BY <1>1, <2>1, <2>2, <2>3 DEF TakeFrame
<1>2. CASE Acknowledged(w)
  BY <1>2, AcknowledgedStep
<1>3. CASE Refused(w)
  BY <1>3, RefusedStep
<1>4. CASE Unanswered(w) \/ InvalidReceipt(w)
  BY <1>4, UnansweredStep
<1>5. CASE WriteFrame(w)
  BY <1>5, WriteFrameStep
<1> QED
  BY <1>1, <1>2, <1>3, <1>4, <1>5 DEF Worker

THEOREM BenchInvHolds == BenchSpec => []BenchInv
<1>1. BenchInit => BenchInv
  BY BenchInitInv
<1>2. BenchInv /\ [BenchNext /\ UNCHANGED Faults]_<<benchVars, Faults>> => BenchInv'
  <2> SUFFICES ASSUME BenchInv, [BenchNext /\ UNCHANGED Faults]_<<benchVars, Faults>> PROVE BenchInv'
    OBVIOUS
  <2>1. CASE NextKey /\ UNCHANGED Faults
    BY <2>1, NextKeyStep
  <2>2. CASE AppendInput /\ UNCHANGED Faults
    BY <2>2, AppendInputStep
  <2>3. CASE FlushOld /\ UNCHANGED Faults
    BY <2>3, FlushOldStep
  <2>4. CASE Cancel /\ UNCHANGED Faults
    BY <2>4, CancelStep
  <2>5. CASE WriteLate /\ UNCHANGED Faults
    BY <2>5, WriteLateStep
  <2>6. ASSUME NEW w \in Workers, Worker(w), UNCHANGED Faults PROVE BenchInv'
    BY <2>6, WorkerStep
  <2>7. CASE (WorkloadEnds \/ SavePart \/ SaveEnds) /\ UNCHANGED Faults
    BY <2>7, SaveStep
  <2>8. CASE Seal /\ UNCHANGED Faults
    BY <2>8, SealBenchStep
  <2>9. CASE (SealFails \/ Kill) /\ UNCHANGED Faults
    BY <2>9, StopStep
  <2>10. CASE Audit /\ UNCHANGED Faults
    BY <2>10, AuditStep
  <2>11. CASE UNCHANGED <<benchVars, Faults>>
    BY <2>11, BenchStutter
  <2> QED
    BY <2>1, <2>2, <2>3, <2>4, <2>5, <2>6, <2>7, <2>8, <2>9, <2>10, <2>11 DEF BenchNext
<1> QED
  BY <1>1, <1>2, PTL DEF BenchSpec

-----------------------------------------------------------------------------
(* The report and the verdict *)

\* Sizes of sets of attempts that are apart.
LEMMA SizeOfBoth ==
    ASSUME NEW S \in SUBSET Attempts, NEW T \in SUBSET Attempts, S \cap T = {}
    PROVE  /\ Cardinality(S \cup T) = Cardinality(S) + Cardinality(T)
           /\ Cardinality(S) \in Nat /\ Cardinality(T) \in Nat
<1>1. /\ IsFiniteSet(S) /\ IsFiniteSet(T) /\ Cardinality(S) \in Nat /\ Cardinality(T) \in Nat
  BY AttemptsFinite
<1>2. Cardinality(S \cap T) = 0
  BY FS_EmptySet
<1>3. Cardinality(S \cup T) = Cardinality(S) + Cardinality(T) - Cardinality(S \cap T)
  BY <1>1, FS_Union
<1> QED
  BY <1>1, <1>2, <1>3

\* After the workload every attempt that was sent has an outcome, and every other
\* was skipped or, if the run was cancelled, may not have been reached.
LEMMA CountsFromInv == BenchInv => CountsAddUp
<1> SUFFICES ASSUME BenchInv, phase # "run" PROVE CountsAddUp
  BY DEF CountsAddUp
<1> DEFINE Sent == {a \in Attempts : state[a] # "never"}
<1>1. /\ gen.todo = <<>> /\ gen.buf = <<>> /\ jobs = <<>>
      /\ \A w \in Workers : wk[w].frame = <<>>
      /\ cancelled \/ gen.next > Keys
      /\ gen.next \in 1 .. Keys + 1 /\ state \in [Attempts -> States]
  BY DEF BenchInv, BenchTypeInv, StageInv
<1>2. Calling = {} /\ Packing = {} /\ Entries(jobs) = {}
  BY <1>1, ElementsOfEmpty DEF Calling, InCall, Packing, Entries
<1>3. Skipped = Unsent /\ NotedAs("unknown") \ Calling = NotedAs("unknown")
  BY <1>2 DEF Skipped
<1>4. /\ Sent = (NotedAs("ack") \cup NotedAs("rejected")) \cup NotedAs("unknown")
      /\ \A t : NotedAs(t) \in SUBSET Attempts
  BY <1>1 DEF NotedAs, States
<1>5. Cardinality(Sent) =
        Cardinality(NotedAs("ack")) + Cardinality(NotedAs("rejected")) + Cardinality(NotedAs("unknown"))
  <2>1. /\ NotedAs("ack") \cap NotedAs("rejected") = {}
        /\ (NotedAs("ack") \cup NotedAs("rejected")) \cap NotedAs("unknown") = {}
    BY DEF NotedAs
  <2>2. Cardinality(NotedAs("ack") \cup NotedAs("rejected")) =
          Cardinality(NotedAs("ack")) + Cardinality(NotedAs("rejected"))
    BY <1>4, <2>1, SizeOfBoth
  <2>3. Cardinality((NotedAs("ack") \cup NotedAs("rejected")) \cup NotedAs("unknown")) =
          Cardinality(NotedAs("ack") \cup NotedAs("rejected")) + Cardinality(NotedAs("unknown"))
    <3>1. NotedAs("ack") \cup NotedAs("rejected") \in SUBSET Attempts
      BY <1>4
    <3> QED
      BY <1>4, <2>1, <3>1, SizeOfBoth
  <2> QED
    BY <1>4, <2>2, <2>3
<1>6. Sent \in SUBSET Attempts /\ Unsent \in SUBSET Attempts /\ Sent \cap Unsent = {}
  BY DEF Unsent
<1>7. /\ Cardinality(Sent \cup Unsent) = Cardinality(Sent) + Cardinality(Unsent)
      /\ Cardinality(Sent) \in Nat /\ Cardinality(Unsent) \in Nat
  BY <1>6, SizeOfBoth
<1>8. Cardinality(Sent \cup Unsent) <= Planned
  BY <1>6, AttemptsFinite DEF Planned
<1>9. ~ cancelled => Cardinality(Sent \cup Unsent) = Planned
  <2> SUFFICES ASSUME ~ cancelled PROVE Cardinality(Sent \cup Unsent) = Planned
    OBVIOUS
  <2>1. \A a \in Attempts : a[1] < gen.next
    BY <1>1, AttemptsFinite, BenchAssumption DEF BenchConfig
  <2>2. Sent \cup Unsent = Attempts
    BY <2>1 DEF Unsent
  <2> QED
    BY <2>2 DEF Planned
<1>10. /\ cnt["dispatched"] = Cardinality(Sent)
       /\ cnt["recorded"] = Cardinality(NotedAs("ack"))
       /\ cnt["rejected"] = Cardinality(NotedAs("rejected"))
       /\ cnt["unknown"] = Cardinality(NotedAs("unknown"))
       /\ cnt["lag"] + cnt["queue"] <= Cardinality(Unsent)
       /\ ~ cancelled => cnt["lag"] + cnt["queue"] = Cardinality(Unsent)
  BY <1>3 DEF BenchInv, TallyInv
<1>11. /\ cnt["dispatched"] \in Nat /\ cnt["lag"] \in Nat /\ cnt["queue"] \in Nat
       /\ cnt["recorded"] \in Nat /\ cnt["unknown"] \in Nat /\ cnt["rejected"] \in Nat
       /\ Planned \in Nat
  BY AttemptsFinite, FS_CardinalityType DEF BenchInv, BenchTypeInv, Counters, Planned
<1> HIDE DEF Sent
<1>12. cnt["dispatched"] = cnt["recorded"] + cnt["unknown"] + cnt["rejected"]
  BY <1>5, <1>10, <1>11
<1>13. /\ cnt["dispatched"] + cnt["lag"] + cnt["queue"] <= Planned
       /\ ~ cancelled => cnt["dispatched"] + cnt["lag"] + cnt["queue"] = Planned
  BY <1>7, <1>8, <1>9, <1>10, <1>11
<1> QED
  BY <1>12, <1>13 DEF CountsAddUp

(* ReportIsFair.  Whatever is skipped, refused, left unanswered, written   *)
(* late or cut off by a kill (runWorkload, execute), a journal that kept   *)
(* its contract is not called wrong, and the counters of the report add up *)
(* to the attempts that were sent, skipped and planned.                    *)
THEOREM TheReportIsFair == BenchSpec => []ReportIsFair
<1>1. BenchInv => ReportIsFair
  <2>1. BenchInv => NoFalseAlarm
    BY DEF BenchInv, StageInv, NoFalseAlarm
  <2> QED
    BY <2>1, CountsFromInv DEF ReportIsFair
<1> QED
  BY <1>1, BenchInvHolds, PTL

(* CorrectIsTrue.  Whatever a faulty journal lost, copied, reordered or    *)
(* kept of refused frames, when the reconciliation finds nothing wrong     *)
(* (reconcile) each acknowledged attempt is on disk once, in the frame of  *)
(* its receipt, and no refused one is.                                     *)
THEOREM TheCorrectVerdictIsTrue == BenchSpec => []CorrectIsTrue
<1>1. BenchInv => CorrectIsTrue
  <2> SUFFICES ASSUME BenchInv, verdict = "correct"
               PROVE  /\ \A r \in acks : \A n \in DOMAIN r.frame :
                           Positions(r.frame[n]) = {<<r.offset, n>>}
                      /\ \A a \in Attempts : Positions(a) # {} =>
                           state[a] \in {"ack", "unknown"} /\ \A f \in refused : a \notin ToSet(f)
    BY DEF CorrectIsTrue
  <2>1. NothingMissing /\ ReceiptsFit /\ StatesFit /\ NoCopies
    BY DEF BenchInv, StageInv, Correct
  <2>2. journal \in Seq(Seq(Attempts)) /\ acks \subseteq [offset : Nat, frame : Packed]
    BY DEF BenchInv, BenchTypeInv
  <2>3. ASSUME NEW r \in acks, NEW n \in DOMAIN r.frame
        PROVE  Positions(r.frame[n]) = {<<r.offset, n>>}
    <3>1. r.offset \in DOMAIN journal /\ r.frame = journal[r.offset]
      BY <2>1 DEF NothingMissing, ReceiptsFit, ReceiptAt
    <3>2. /\ r.frame \in Seq(Attempts) /\ Len(r.frame) \in 1 .. FrameSize
      BY <2>2, PackedIsPlan DEF Packed
    <3>3. r.frame[n] \in Attempts /\ n \in 1 .. FrameSize /\ n <= Len(r.frame)
      BY <3>2, BenchAssumption DEF BenchConfig
    <3>4. <<r.offset, n>> \in Positions(r.frame[n])
      BY <3>1, <3>3 DEF Positions
    <3>5. \A p, q \in Positions(r.frame[n]) : p = q
      BY <2>1, <2>2, <3>3, OnePosition DEF NoCopies
    <3> QED
      BY <3>4, <3>5
  <2>4. ASSUME NEW a \in Attempts, Positions(a) # {}
        PROVE  state[a] \in {"ack", "unknown"} /\ \A f \in refused : a \notin ToSet(f)
    <3>1. PICK p \in Positions(a) : TRUE
      BY <2>4
    <3>2. p[1] \in DOMAIN journal /\ p[2] \in 1 .. Len(journal[p[1]]) /\ journal[p[1]][p[2]] = a
      BY <2>2 DEF Positions
    <3>3. a \in ToSet(journal[p[1]])
      <4>1. journal[p[1]] \in Seq(Attempts)
        BY <2>2, <3>2
      <4> QED
        BY <3>2, <4>1, ElementsOf
    <3>4. state[a] \in {"ack", "unknown"}
      BY <2>1, <3>2, <3>3 DEF StatesFit
    <3>5. \A f \in refused : a \in ToSet(f) => state[a] = "rejected"
      BY DEF BenchInv, OutcomeInv, NotedAs
    <3> QED
      BY <3>4, <3>5
  <2> QED
    BY <2>3, <2>4
<1> QED
  BY <1>1, BenchInvHolds, PTL
=============================================================================
