------------------------------ MODULE FileBench ------------------------------
(***************************************************************************)
(* The benchmark of the single-disk journal (cmd/filebench): a generator   *)
(* packs planned attempts into frames for a bounded queue, workers submit  *)
(* them and note each attempt's outcome, the ledger is saved, the journal  *)
(* sealed and replayed, and every record and receipt is reconciled.  The   *)
(* tool's verdict is only worth something if it neither accuses a journal  *)
(* that kept its promises nor passes one that did not.                     *)
(*                                                                         *)
(* The journal is its contract (FileLog.tla): a frame is written whole or  *)
(* not, a refused one is not written, and an unknown one may still be      *)
(* written until the seal.  Faults are ways in which it may break that.    *)
(* Times are left out: whatever depends on lag, age or a deadline may      *)
(* happen or not.  A digest stands for what it is computed from.           *)
(***************************************************************************)
EXTENDS Naturals, Sequences, FiniteSets, SequencesExt

CONSTANTS
    Keys,          \* number of planned keys
    RepeatEvery,   \* every so many keys a second choice is sent too; 0: never
    GroupSize,     \* keys the generator takes at a time
    FrameSize, Queue, Workers,
    FaultSets      \* what Faults may be

\* config.validate, without its upper bounds.
BenchConfig == /\ Keys \in Nat /\ RepeatEvery \in Nat
               /\ {GroupSize, FrameSize, Queue} \subseteq Nat \ {0}
ASSUME BenchAssumption ==
    /\ BenchConfig
    /\ FaultSets \subseteq SUBSET {"lost", "copied", "refused", "swapped", "receipt"}

VARIABLES
    gen,        \* the generator: next key, what of the last is still to be packed, frame
    jobs,       \* the channel of frames
    wk,         \* worker |-> its call
    state,      \* attempt |-> "never", "unknown", "ack" or "rejected"
    acks,       \* the receipts: set of [offset, frame]
    cnt,        \* the counters
    cancelled,  \* the context is done: deadline or interrupt
    journal,    \* the frames on disk; a frame's offset is its index
    late,       \* frames of unknown outcome the journal may still write
    refused,    \* frames it refused
    phase,      \* "run", "save", "seal", "sealed", "audited" or "over"
    ledger,     \* the parts of the ledger that are on disk
    killed,     \* the process was killed
    closed,     \* the journal ends with CLOSED
    verdict,
    Faults      \* what a faulty journal does; never changes

work == <<gen, jobs, wk, state, acks, cnt, cancelled>>
store == <<journal, late, refused, closed>>
benchVars == <<work, store, phase, ledger, killed, verdict>>
end == <<phase, ledger, killed, verdict>>

Repeated(k) == RepeatEvery > 0 /\ k % RepeatEvery = 0
AttemptsOf(k) == IF Repeated(k) THEN <<<<k, 1>>, <<k, 2>>>> ELSE <<<<k, 1>>>>
Attempts == UNION {ToSet(AttemptsOf(k)) : k \in 1 .. Keys}
Planned == Cardinality(Attempts)
Counters == {"dispatched", "recorded", "unknown", "rejected", "lag", "queue", "invalid"}
Add(c, n) == cnt' = [cnt EXCEPT ![c] = @ + n]
Idle == [pc |-> "idle", frame |-> <<>>, offset |-> 0]

-----------------------------------------------------------------------------
(* generate *)

\* flush: a full channel costs the frame, never the schedule.
Skip(f) == Add("queue", Len(f))
Flush(f) == \/ Len(jobs) < Queue /\ jobs' = Append(jobs, f) /\ UNCHANGED cnt
            \/ Len(jobs) = Queue /\ Skip(f) /\ UNCHANGED jobs

\* The next key is due, or it lags and is skipped with its repetition.  Only
\* between groups the generator looks whether the context is done.
AtGroup == gen.todo = <<>> /\ (gen.next > Keys \/ (gen.next - 1) % GroupSize = 0)
LagOf(k) == Len(AttemptsOf(k))
NextKey ==
    /\ phase = "run" /\ gen.todo = <<>> /\ gen.next <= Keys /\ ~ killed
    /\ AtGroup => ~ cancelled
    /\ \/ /\ gen' = [gen EXCEPT !.next = @ + 1, !.todo = AttemptsOf(gen.next)] /\ UNCHANGED cnt
       \/ /\ gen' = [gen EXCEPT !.next = @ + 1] /\ Add("lag", LagOf(gen.next))
    /\ UNCHANGED <<jobs, wk, state, acks, cancelled, store, end>>
AppendInput ==
    LET f == Append(gen.buf, Head(gen.todo)) IN
    /\ phase = "run" /\ gen.todo # <<>> /\ ~ killed
    /\ \/ /\ Len(f) < FrameSize /\ UNCHANGED <<jobs, cnt>>
          /\ gen' = [gen EXCEPT !.todo = Tail(@), !.buf = f]
       \/ /\ Len(f) = FrameSize /\ Flush(f)
          /\ gen' = [gen EXCEPT !.todo = Tail(@), !.buf = <<>>]
    /\ UNCHANGED <<wk, state, acks, cancelled, store, end>>
\* A frame is old enough, or the keys are used up, or the context is done.
FlushOld ==
    /\ phase = "run" /\ AtGroup /\ gen.buf # <<>> /\ ~ killed
    /\ Flush(gen.buf) /\ gen' = [gen EXCEPT !.buf = <<>>]
    /\ UNCHANGED <<wk, state, acks, cancelled, store, end>>
Generated == AtGroup /\ (gen.next > Keys \/ cancelled) /\ gen.buf = <<>>

-----------------------------------------------------------------------------
(* The workers of runWorkload *)

Noted(f, s) == [a \in Attempts |-> IF a \in ToSet(f) THEN s ELSE state[a]]
\* Before it is sent, a frame is noted as unknown.
BeforeSend(f) == Noted(f, "unknown")
TakeFrame(w) ==
    /\ phase = "run" /\ wk[w].pc = "idle" /\ jobs # <<>> /\ ~ killed
    /\ jobs' = Tail(jobs)
    /\ \/ cancelled /\ UNCHANGED <<wk, state, cnt>>
       \/ ~ cancelled /\ Add("lag", Len(Head(jobs))) /\ UNCHANGED <<wk, state>>
       \/ /\ ~ cancelled
          /\ state' = BeforeSend(Head(jobs)) /\ Add("dispatched", Len(Head(jobs)))
          /\ wk' = [wk EXCEPT ![w] = [pc |-> "sent", frame |-> Head(jobs), offset |-> 0]]
    /\ UNCHANGED <<gen, acks, cancelled, store, end>>

Answered(w, s, c) ==
    /\ state' = Noted(wk[w].frame, s) /\ Add(c, Len(wk[w].frame))
    /\ wk' = [wk EXCEPT ![w] = Idle]
    /\ UNCHANGED <<gen, jobs, cancelled, closed, end>>
Acknowledged(w) ==
    /\ wk[w].pc = "written" /\ ~ killed /\ Answered(w, "ack", "recorded")
    /\ acks' = acks \cup {[offset |-> wk[w].offset, frame |-> wk[w].frame]}
    /\ UNCHANGED <<journal, late, refused>>
Refused(w) ==
    /\ wk[w].pc = "sent" /\ ~ killed /\ Answered(w, "rejected", "rejected")
    /\ refused' = refused \cup {wk[w].frame} /\ UNCHANGED <<acks, journal, late>>
\* A timeout, a cancelled context or a failed write.
Unanswered(w) ==
    /\ wk[w].pc \in {"sent", "written"} /\ ~ killed /\ Answered(w, "unknown", "unknown")
    /\ late' = IF wk[w].pc = "sent" THEN late \cup {wk[w].frame} ELSE late
    /\ UNCHANGED <<acks, journal, refused>>
\* A receipt for another partition, count, offset or minute than the frame's
\* is counted and not believed.
ReceiptMayBeWrong == "receipt" \in Faults
InvalidReceipt(w) ==
    /\ wk[w].pc = "written" /\ ~ killed /\ ReceiptMayBeWrong
    /\ state' = Noted(wk[w].frame, "unknown")
    /\ cnt' = [cnt EXCEPT !["unknown"] = @ + Len(wk[w].frame), !["invalid"] = @ + 1]
    /\ wk' = [wk EXCEPT ![w] = Idle]
    /\ UNCHANGED <<gen, jobs, acks, cancelled, store, end>>

\* The journal writes what it was given.
WriteFrame(w) ==
    /\ wk[w].pc = "sent" /\ ~ killed
    /\ journal' = Append(journal, wk[w].frame)
    /\ wk' = [wk EXCEPT ![w].pc = "written", ![w].offset = Len(journal) + 1]
    /\ UNCHANGED <<gen, jobs, state, acks, cnt, cancelled, late, refused, closed, end>>
WriteLate ==
    /\ ~ closed /\ ~ killed
    /\ \E f \in late : journal' = Append(journal, f) /\ late' = late \ {f}
    /\ UNCHANGED <<work, refused, closed, end>>
Cancel == /\ phase = "run" /\ ~ cancelled /\ ~ killed /\ cancelled' = TRUE
          /\ UNCHANGED <<gen, jobs, wk, state, acks, cnt, store, end>>

-----------------------------------------------------------------------------
(* execute *)

WorkloadEnds ==
    /\ phase = "run" /\ Generated /\ jobs = <<>> /\ \A w \in Workers : wk[w].pc = "idle"
    /\ phase' = "save" /\ ~ killed /\ UNCHANGED <<work, store, ledger, killed, verdict>>

\* saveLedger: the manifest names the other parts and comes last.  When it
\* fails, the run goes on without a ledger.
Parts == <<"original", "repeat", "acks", "manifest">>
SavePart ==
    /\ phase = "save" /\ ~ killed /\ Len(ledger) < Len(Parts)
    /\ ledger' = Append(ledger, Parts[Len(ledger) + 1])
    /\ UNCHANGED <<work, store, phase, killed, verdict>>
SaveEnds ==
    /\ phase = "save" /\ ~ killed /\ phase' = "seal"
    /\ UNCHANGED <<work, store, ledger, killed, verdict>>

\* What a faulty journal makes of its frames.
Damaged == {journal}
    \cup (IF "lost" \in Faults THEN {RemoveAt(journal, i) : i \in DOMAIN journal} ELSE {})
    \cup (IF "copied" \in Faults THEN {Append(journal, journal[i]) : i \in DOMAIN journal} ELSE {})
    \cup (IF "refused" \in Faults THEN {Append(journal, f) : f \in refused} ELSE {})
    \cup (IF "swapped" \in Faults THEN {[journal EXCEPT ![i] = Reverse(@)] : i \in DOMAIN journal}
                                  ELSE {})
Seal ==
    /\ phase = "seal" /\ ~ killed
    /\ journal' \in Damaged /\ closed' = TRUE /\ late' = {}
    /\ phase' = "sealed" /\ UNCHANGED <<work, refused, ledger, killed, verdict>>
SealFails ==
    /\ phase = "seal" /\ ~ killed
    /\ phase' = "over" /\ late' = {} /\ UNCHANGED <<work, journal, refused, closed, ledger, killed, verdict>>
Kill == /\ phase \in {"run", "save", "seal", "sealed"} /\ ~ killed
        /\ killed' = TRUE /\ late' = {}
        /\ UNCHANGED <<work, journal, refused, closed, phase, ledger, verdict>>

-----------------------------------------------------------------------------
(* reconcile *)

Positions(a) == {p \in (DOMAIN journal) \X (1 .. FrameSize) :
                   p[2] <= Len(journal[p[1]]) /\ journal[p[1]][p[2]] = a}
ReceiptAt(i) == {r \in acks : r.offset = i}
MissingUnchecked == TRUE  \* mutant: receipts without a record are not counted
NothingMissing == \A r \in acks : r.offset \in DOMAIN journal
ReceiptsFit == \A i \in DOMAIN journal : \A r \in ReceiptAt(i) : r.frame = journal[i]
KnownOnly ==  \* mutant: a record of unknown outcome is taken for an intruder
    \A i \in DOMAIN journal : \A a \in ToSet(journal[i]) : state[a] = "ack" /\ ReceiptAt(i) # {}
StatesFit == \A i \in DOMAIN journal : \A a \in ToSet(journal[i]) :
    \/ state[a] = "ack" /\ ReceiptAt(i) # {}
    \/ state[a] = "unknown" /\ ReceiptAt(i) = {}
NoCopies == \A a \in Attempts : Cardinality(Positions(a)) <= 1
LedgerFits ==
    /\ \A r, q \in acks : r.offset = q.offset => r = q
    /\ Cardinality({a \in Attempts : state[a] = "ack"}) =
         Cardinality({p \in acks \X (1 .. FrameSize) : p[2] <= Len(p[1].frame)})
Correct == closed /\ LedgerFits /\ NothingMissing /\ ReceiptsFit /\ StatesFit /\ NoCopies

\* The verdict of the run itself, or of an audit of what a killed run left:
\* without a whole ledger there is none.
LedgerWhole == ledger = Parts
Audit ==
    /\ verdict = "none"
    /\ \/ ~ killed /\ phase = "sealed"
       \/ (killed \/ phase = "over") /\ LedgerWhole
    /\ phase' = "audited"
    /\ verdict' = IF Correct THEN "correct" ELSE IF closed THEN "wrong" ELSE "error"
    /\ UNCHANGED <<work, store, ledger, killed>>

-----------------------------------------------------------------------------
BenchInit ==
    /\ gen = [next |-> 1, todo |-> <<>>, buf |-> <<>>] /\ jobs = <<>>
    /\ wk = [w \in Workers |-> Idle] /\ state = [a \in Attempts |-> "never"]
    /\ acks = {} /\ cnt = [c \in Counters |-> 0] /\ cancelled = FALSE
    /\ journal = <<>> /\ late = {} /\ refused = {} /\ closed = FALSE
    /\ phase = "run" /\ ledger = <<>> /\ killed = FALSE /\ verdict = "none"
    /\ Faults \in FaultSets
Worker(w) == \/ TakeFrame(w) \/ Acknowledged(w) \/ Refused(w) \/ Unanswered(w) \/ WriteFrame(w)
             \/ InvalidReceipt(w)
BenchNext == \/ NextKey \/ AppendInput \/ FlushOld \/ Cancel \/ WriteLate
             \/ \E w \in Workers : Worker(w)
             \/ WorkloadEnds \/ SavePart \/ SaveEnds \/ Seal \/ SealFails \/ Kill \/ Audit
BenchSpec == BenchInit /\ [][BenchNext /\ UNCHANGED Faults]_<<benchVars, Faults>>

-----------------------------------------------------------------------------
(* Properties *)

(* The report is fair.  A journal that kept its contract is never called   *)
(* wrong, whatever was skipped, refused, timed out, written late or cut    *)
(* off by a kill.  And every planned attempt ends up in one counter, so    *)
(* the report's differences of unsigned numbers do not wrap, and nothing   *)
(* is called cancelled unless the run was (workload.go 379-381).           *)
NoFalseAlarm == Faults = {} => verdict # "wrong"
CountsAddUp ==
    phase # "run" =>
        LET visited == cnt["dispatched"] + cnt["lag"] + cnt["queue"] IN
        /\ cnt["dispatched"] = cnt["recorded"] + cnt["unknown"] + cnt["rejected"]
        /\ visited <= Planned
        /\ ~ cancelled => visited = Planned
ReportIsFair == NoFalseAlarm /\ CountsAddUp

(* A verdict of correct is true: each acknowledged attempt is on disk once *)
(* in the frame of its receipt, and nothing else is but attempts whose     *)
(* outcome was unknown.  Losing, copying or reordering frames and keeping  *)
(* refused ones does not get past it.                                      *)
CorrectIsTrue ==
    verdict = "correct" =>
        /\ \A r \in acks : \A n \in DOMAIN r.frame : Positions(r.frame[n]) = {<<r.offset, n>>}
        /\ \A a \in Attempts : Positions(a) # {} =>
             state[a] \in {"ack", "unknown"} /\ \A f \in refused : a \notin ToSet(f)
=============================================================================
