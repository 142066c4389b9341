# Gigaquizz in TLA+

Gigaquizz runs live polls: a poll is open for a window `[starts_at, ends_at)`,
everybody who has the link sends one choice under a random token, and after the
deadline one exact result is published. The answers that matter are few and hard:
the first choice of a token is final, a receipt is never taken back, "closed" means
that the vote is not counted and never will be, and the result counts exactly the
recorded votes. They must hold while calls race with each other and with the
finalization, answers get lost and are repeated, transactions abort, servers and
disks fail, pages are closed and reloaded and the wall clock jumps.

This directory models the parts of the code that keep those promises, checks them
with TLC on small instances and proves central ones with TLAPS for all instances.
`PROJECT.json` lists components, runs, mutants, the definition-to-source map, hazards
and theorems.

## 1. Inventory

| Component | State | Operations | Modelled by |
|---|---|---|---|
| Voting and finalization in PostgreSQL (`internal/postgres/migrations/001_initial.sql`, `store.go`) | tables `polls`, `votes`, `poll_results`; advisory locks (poll, shard) | `record_vote`, `finalize_poll`, called by `Store.Vote`, `Store.FinalizeDue` | `PgVote`, `PollContract` |
| Poll administration (`store.go`) | table `polls`, creation lock, migration lock | `Create`, `Results`, passes of `FinalizeDue`; `Migrate`, `Warm`, `Close` | `PgPolls`; `Lifecycle` |
| Replicated durability (`internal/postgres/durability.go`) | pinned primary identity, pool; the server's WAL, settings, standbys | `checkConnection`, `waitDurableConn` after each operation | `PgDurability` |
| In-memory engine (`internal/votecore`) | sharded maps with counts under mutexes, `sealed` | `Submit`, `Seal`, `Lookup` | `VoteCore` |
| Single-disk journal (`internal/filelog`) | bounded channel, batch, `votes.wal`, admission flags, poison | `SubmitFrame`, writer goroutine, `Seal`, `Close`, `Scan`, `Replay` | `FileLog` |
| Kafka log (`internal/votelog`) | per partition: channel, credits, transactional producer, CLOSED offset | `New` (ownership transfer), `Submit`, `SubmitFrame`, `Seal`, `Close`, `Replay`, `Audit` | `VoteLog` |
| HTTP API (`internal/httpapi/server.go`) | slots of three pools, outcome counters | vote, poll, results and administrator handlers | `HttpApi` |
| Voter page (`internal/web/static/poll.js`) | one record (token, pending, receipt) shared by the tabs | `init`, `sendVote`, storage updates, refresh | `VotePage` |
| Administrator page (`internal/web/static/admin.js`) | session shown, list, selected poll, results panel, sequence numbers | login, logout, list, selection, results, creation | `AdminPage` |
| Process lifecycle (`cmd/gigaquizz`) | pools, readiness, server, maintenance worker | start, maintenance tick, shutdown | `Lifecycle` |
| Journal benchmark (`cmd/filebench`) | schedule, frames, ledger | generate, submit, save, seal, reconcile | `FileBench` |
| Poll rules (`internal/poll`) | none | `State`; `Validate`, `NormalizeChoices` | `State` in `HttpApi`, `PgPolls` |
| Administrator sessions (`internal/httpapi/auth.go`) | sessions with expiry, login token bucket | `login`, `valid`, `logout` | not modelled, section 7 |
| Configuration; other benchmarks and load generators; lab and capacity scripts | settings, schedules, local clusters | parsing, measurement | not modelled, section 7 |

How they interact. The page posts a token and choices to the HTTP API, which holds one
of a fixed number of slots and calls `Store.Vote` with a context that outlives the
client. `Store.Vote` runs `record_vote` in one implicit transaction and, for a positive
outcome, `waitDurableConn`. The maintenance worker calls `Store.FinalizeDue` every
second; several processes may do so at once. `votecore`, `filelog` and `votelog` are
alternative storage designs with the same contract (admission window, first choice
final, seal after the deadline), driven by the benchmarks and tests.

What is hard in each component, and what makes it correct:

* **PostgreSQL voting.** The lock mode is chosen from a clock and a row that are stale
  once the lock is granted; total and option counts are two statements with two
  snapshots; insert, foreign key and finalization take locks in different places;
  answers of committed transactions get lost. Correct means `PollContract`: first choice
  final, receipts agree, "closed" definitive, the result exact and published once, no
  circle of waiting transactions, and a poll that becomes final.
* **Poll administration.** The overlap test and the insert are two statements, results
  are read in three, a pass stops at its first error. Correct means polls that do not
  overlap, results of one moment, and that every ended poll has its turn.
* **Durability.** A cancelled SyncRep wait makes a commit visible that no standby has;
  another call may then find that row, or a result may count it. Correct means that
  nothing reported survives only on the lost primary, and that a `Store` never confirms
  on behalf of two primaries.
* **Engine.** A `Submit` may be between its clock test and its store when `Seal` starts
  to count. Correct means an exact snapshot that stays exact.
* **Journal.** Frames are in the channel, in the writer's hand, in the batch, in the file
  without sync, or durable, when a failure, a crash, `Seal` or `Close` comes. Correct
  means that an acknowledged frame is found afterwards, that CLOSED is written only after
  everything that was ever queued, that memory is bounded and that everybody who waits is
  answered.
* **Kafka log.** A transaction's outcome may be unknown to its writer, two processes may
  own a topic for a while, and a job may be in a channel, a hand, a batch or a
  transaction when its writer fails. Correct means that a receipt's record counts in
  every later replay, a refusal is definite, the committed log reads as one poll with its
  owners in order, and CLOSED is final.
* **HTTP API.** The vote outlives its client and its handler. Correct means that slots
  and counters balance on every path and that no answer contradicts the database, now or
  later.
* **Pages.** Tabs share storage that may fail in between; answers come in another order
  than requests were sent. Correct means one vote for one browser, a receipt that is
  true, a panel that never shows another poll's result, and answers of one kind that
  replace each other in their order.
* **Lifecycle.** Two processes migrate at once; a shutdown that timed out leaves handlers
  and a worker on pools that are about to be closed. Correct means one migration, nothing
  in progress in the database when the process ends, and that it ends.
* **Journal benchmark.** Outcomes are noted before and after a call, and a run may be
  killed anywhere. Correct means a verdict that neither accuses a journal that kept its
  contract nor passes one that did not.

## 2. Modules

| Module | Content |
|---|---|
| `PollContract` | abstract specification of one poll: decide, confirm, close, publish |
| `PgVote` | `record_vote` and `finalize_poll`, statement by statement |
| `PgPolls` | several polls: creation, passes of the worker, results |
| `PgDurability` | WAL, standbys, promotion and the proof of durability before an answer |
| `VoteCore` | the in-memory engine, one step per access to shared memory |
| `FileLog` | the journal: submitters, writer, Seal, Close, crash, Scan |
| `VoteLog` | the Kafka log: writers, transactions, brokers, owners, Seal, replay |
| `HttpApi` | the handlers over the contract of the repository |
| `VotePage` | the voter's tabs, EXTENDS `HttpApi`: the two are checked together |
| `AdminPage` | the administrator's page and its requests under way |
| `Lifecycle` | processes on one database, from start to exit |
| `FileBench` | the journal's benchmark over the contract of the journal |
| `MC…` | instances for TLC: model values, small sets, symmetry |
| `…Proofs` | the theorems about the module named before it, and their proofs (those about `VotePage` and `AdminPage` are in `HttpApiProofs`, those about `FileBench` in `FileLogProofs`) |

A definition whose comment says *mutant* is not part of a specification. It is the
definition after it with one plausible mistake, and `PROJECT.json` names the property
that TLC finds violated when it takes that definition's place.

Some variables never change: `Count` (FileLog), `ConfigOf` (VoteLog), `Kind` and `Limit`
(HttpApi), `Browser` (VotePage), `Cast` (PgPolls), `Faults` (FileBench). Each is chosen in
`Init` from a set that is a constant, so that one run covers several settings, and the
specification is `Init /\ [][Next /\ UNCHANGED x]_<<vars, x>>`. Where one proof module
EXTENDS several components, the second and third carry a prefix: `AdminSpec`, `BenchNext`.

### PgVote and the code

A voter is a pooled connection inside `record_vote`, a finalizer one inside
`finalize_poll`. `vpc` and `fpc` say which statement comes next, and one action is one
statement, because READ COMMITTED takes a new snapshot for each: `Call` is the first
`SELECT` of the poll, `ChooseLock` the choice between the shared and the exclusive
advisory lock, `Lock` its grant, `Admit` the second `SELECT`, the validation and
`admitted_at`, then `Lookup`, or `Insert` and `Fetch`, then `Commit`. `Admit` is one step
although it is several statements: nothing it reads but the clock can change while the
shard lock is held, and it reads the clock once.
`finalize_poll` is `Begin`, one `Drain` for each shard, `Reread` (`FOR UPDATE`),
`CountTotal`, `CountOptions`, `Finalize`, or `ReturnFalse` if another was first.

An inserted row is invisible until the commit (`Inserted`) and blocks other inserts of
its key (`KeyFree`), and its foreign key conflicts with `FOR UPDATE`. Timeouts and dead
backends are `Abort` and `AbortFinalize`; an answer that is lost is the second
alternative of `Commit`; a retry is another `Call`. `Tick` moves the clock on and, where
`ClockMayStepBack`, also back. `receipts` and `closedFor` record
what clients were told. Choices are sets of options: the function sorts them and refuses
duplicates. `not_found` is left out, since no code deletes a poll.

The refinement maps the committed rows, what clients were told and the published result
to the variables of `PollContract`; locks, statements and the clock disappear.

### PgPolls and the code

`Lock`, `ReadStart`, `TestOverlap`, `Insert` and `Commit` are the statements of
`Store.Create`, `Rollback` any failure between them; the start is read after the lock is
granted. `Query` is the `SELECT … LIMIT 20` of `FinalizeDue` (`Batch` here), `FinalizeNext`
one call of `finalize_poll`, `PassFails` the first error, after which the rest of the list
is dropped. `BeginRead`, `ReadRow`, `ReadTotal` and `ReadCounts` are `Results` in its
REPEATABLE READ transaction: the first statement fixes the snapshot, `BEGIN` the time by
which the state is told. What a vote or `finalize_poll` does inside is `PgVote`'s matter;
here they are one step each.

### PgDurability and the code

The WAL is the sequence of committed keys, a position is a length. `Acquire` is a pooled
connection or a new one that passes `checkConnection`; `FindVote`, `InsertVote` and `Read`
are the transactions; `Commit` and `SyncRepEnds` are PostgreSQL's commit, of which the
second may be a cancelled wait; `Probe` is one query of `waitDurableConn`, which fixes its
target once, and `GiveUp` is any of its failures. `policy` stands for all the settings
that the query compares. Standbys stream, report, disconnect and are lost, the primary
restarts, and a surviving standby is promoted.

The environment is that of `docs/replication-durability.md`: fewer standbys than required
are lost before the primary is, the most advanced survivor is promoted, the old primary is
fenced by the operator and does not come back, and one `Store` is in use at a time.

### VoteCore and the code

The steps of `Submit` are the mutex, the load of `sealed`, the clock, the store of
`sealed` when the deadline has passed, the map, the unlock. `Seal` tests, stores `sealed`,
and adds shard after shard under its mutex; `Lookup` reads an entry. The clock takes any
value at any time.

### FileLog and the code

What is done under `Store.mu` is one step. `SubmitFrame` reads the clock twice; the
second reading is `now'`. The writer's steps are the cases of the `select` in `run`
(`Take`, `Tick`, `SeeClosed`) and the parts of `flush`: `Write` or `WriteFails`, `Sync`,
`AnswerBatch`. `DrainJob` is `drainFailure`, `WriteClosed` and `SyncClosed` write the
CLOSED frame. `GiveUp` is the caller's context, `SealGivesUp` that of `Seal`.

`file` is the sequence of frames in `votes.wal`, of which `synced` are durable. `Crash`
keeps those and leaves any prefix of the others, each intact or spoilt, the last perhaps
cut short. `Accepted`, `ScanClosed`, `ScanFails` and `Replays` are what `Scan` and
`Replay` find in a file. `order` and `deadlineSeen` are history.

### VoteLog and the code

A session is one process that owns the topic, `wr[s][p]` its writer of partition `p` with
mutex, gate, credits (`queued`), channel (`jobs`), the job that does not fit (`hand`) and
batch. A log is a sequence of records, each open, committed or aborted; read-committed
readers stop at the first open one. `New` opens a session: `ProducerID` fences the earlier
epoch of the partition, which aborts or, when a commit was already asked for, completes
its transaction; `Barriers` commits BOOT records and looks for an earlier CLOSED.
`Submit` and `SubmitFrame` take the writer's mutex, test everything, and send to the
channel in a step of their own (`Enqueue`). The writer's steps are the cases of `run`:
`Take`, `TakeHand`, `Tick`, `SeeSeal`, `SeeStop`, and those of `flush` and `commit`: `Produce`,
`EndTransaction`, `Confirm`, `CommitFails`. The broker settles an asked commit on its own
(`BrokerCommits`, `BrokerAborts`), whatever the client learnt. `SealGate`, `SealReturns` and
`SealGivesUp` are `Seal` over all partitions. `WellFormed`, `CountedAt`, `ClosedAt` and
`Canonical` are `replay` and `Audit`. A crash ends a session at any step.

### HttpApi and VotePage and the code

A request that writes may be refused for its origin before anything else (`ForeignOrigin`).
Otherwise it goes through `Begin` (slot or refusal), `Malformed` or `ClientLeft`,
`StartOperation`, and an answer; its operation (`op`) is separate and is executed, or
fails, also after `AnswerError` gave its handler's answer: that is `context.WithoutCancel`
with a timeout, and a lost answer of the database. `Vote` is the outcome that `PollContract`
allows; `wrote` records which request wrote something. Reads compute the poll's state from a
row read earlier and the present clock (`State`).

`VotePage` adds the tabs. A tab's `rec` is its memory copy, `db` the record in IndexedDB,
and `Update` the transaction of `store.update` with its three ends: committed, aborted
after the change, or not possible at all, after which the tab lives on its memory.
`Click`, `Save`, `Post`, `Response`, `Settle` are the awaits of `sendVote`; `ConnectionLost`
and `CloseTab` leave the request to the server.

### AdminPage and the code

`calls` holds the requests sent, each with the sequence number and identifiers it was sent
with. An answer is handled by the action named for its handler's branch (`Dashboard`,
`ListArrives`, `ResultsArrive`, `Created`, `SessionOver`, …), in any order, some time after
the server has served the request (`Serve`). `Follows` is a
handler that awaits another request; `buttons` are the disabled ones. The server is
reduced to a session, the polls created and how far each has come (`progress`): the state
of a poll and its votes only go forward, so one number stands for both and an answer carries
the one of its moment.

What the page shows of a poll comes from two kinds of answers. `ListArrives` replaces all
rows and sets the badge of the panel; `ResultsArrive` writes total, badge and the poll's row.
Each kind has a sequence number of its own, and nothing orders one against the other: a list
that was served before a results answer and arrives after it takes a poll back, for example
from final to processing, until the next answer. `from` (history) notes which kind a shown
state is from, and `NeverOlder` promises the order within a kind only. The total in the panel
comes from results alone and never goes down. `Listed` is the `LIMIT 100` of the list: only a
full list may drop a poll. That states only go forward rests on the server's clock not being
set back.

### Lifecycle and the code

`pc` is the line of `run` each process is at; `StartFails` an error return of any of its
calls. Deferred calls are the steps after "close": the votes' pool, then the
administrative pool, each of which waits until nobody holds a connection. The worker's
loop is `WorkerTick`, `PassEnds`, `PingEnds`, `WorkerEnds`.

### FileBench and the code

`NextKey`, `AppendInput`, `Flush` are the generator, which takes the keys in groups and
looks for cancellation and for frames that are old enough between groups only (`AtGroup`);
`TakeFrame` to `Unanswered` the workers, `SavePart` the files of the ledger in their order,
`Audit` the reconciliation that ends in a verdict. The journal under test obeys the contract
of `FileLog` unless `Faults` says how it breaks it: frames lost, copied, swapped or written
although refused, and receipts that do not fit their frame (`InvalidReceipt`, which the tool
counts).

### The proof modules

`PgVoteProofs`, `PgPollsProofs`, `PgDurabilityProofs`, `VoteCoreProofs`, `FileLogProofs`,
`VoteLogProofs`, `HttpApiProofs` and `LifecycleProofs` EXTEND the module they are about and
contain invariants, lemmas and theorems only (section 4). `HttpApiProofs` is about the two
pages as well: the theorems about `VotePage` rest on the server's invariants, those about
`AdminPage` on its own. `FileLogProofs` is about the journal and about its benchmark.

## 3. Runs

| Run | Instance | Shows |
|---|---|---|
| `pg_vote` | two callers of one key with two choices, two finalizers, two shards, one abort | receipts agree, "closed" is definitive, the result is exact, nobody waits in a circle, every call ends, the poll becomes final, `PollContract` is implemented |
| `durability` | ANY 2 of three standbys, one lost for ever, a restart or a promotion, rebuilt Stores | what was reported is replicated and survives; a Store confirms on one primary only |
| `vote_core` | two submitters, three tokens, one Seal, a clock that jumps | the snapshot is exact for ever, the first choice is final, Seal returns |
| `file_log` | two frames that fit the queue and one batch or do not, Seal against Close, a failing disk, a crash at any step | acknowledged frames are found, CLOSED means complete, the file stays readable, memory stays within its bounds, everybody who waits is answered |
| `log_owners` | two sessions that overlap on one partition, the second perhaps of another poll, crashes | receipts count, the committed log replays as one poll with its owners in order, CLOSED and first choices stay |
| `log_seal` | one owner of two partitions, a frame that does not fit beside a vote, Seal against Close | refusals are definite, each job is answered once within the bounds of memory, CLOSED comes after all that was admitted, every call returns |
| `http` | two requests of five mixes of kinds, one or two slots, all phases of the poll | slots and counters balance, answers are true, every request ends |
| `page` | two tabs of one browser against the handlers of `HttpApi`, storage that fails | one vote for one browser, a page keeps its key, a receipt shown is true |
| `admin_page` | two polls, lists of one, six requests that overlap, logout and login | the panel shows the selected poll and a total it had, answers of one kind never take back what an earlier one showed |
| `polls` | two polls, passes of one poll that fail, two administrators or two readers | polls do not overlap, a result belongs to one moment, every ended poll becomes final |
| `lifecycle` | two processes with a request at each pool, stopped at any point | one migration, an idle database when a process ends, and that it ends |
| `bench` | four keys, repeats, frames of two, two workers, a journal that is sound or breaks its word in any of five ways | no sound journal is called wrong, no broken one correct |

All of them pass; each takes between a few seconds and about four minutes. No
statement of the repository's documents, comments or tests was found to disagree with the
code modelled here, so no run expects a violation.

### Bounds

* Clocks have three values, before, in and after the window, `EndsAt` itself being the
  boundary; that of `PgPolls` has five, so that the second poll can follow the first.
* `PgVote`: `MaxFaults` 1. An abort releases what its transaction holds and nothing else,
  so a second one meets no new state. The key's shard is the last to be drained, so that
  one shard is already drained when a call comes.
* `PgDurability`: `MaxEpoch` 2 allows a restart or a promotion. ANY 2 of three is the
  smallest setting in which a standby may be lost before the primary is.
* `VoteCore`: two of three tokens share a shard with one place left.
* `FileLog`: batch and queue of two votes; frames of one and of one or two votes, so that
  the second one does or does not fit beside the first: together they exceed the queue unless
  `HasRoom` refuses one, and the batch unless it is flushed first. The channel has as many
  places as the queue has votes and a frame has at least one, so that its bound follows.
* `VoteLog`: `log_owners` looks at one log that is written by several owners, `log_seal` at
  one owner with several logs. Nothing in a partition depends on other partitions but Seal
  and Close. Two sessions make one change of owners; `Faults` names what may happen
  besides: crash, Close, a caller that gives up, a clock set back. The clock is set back in
  `log_owners` only, and callers give up only when their store stops: with more, `log_seal` is too
  large for liveness. Its three invariants hold with them too (517,134 states under `Spec`),
  and the theorems about them are for every `Faults`.
* `HttpApi`: two requests are enough for a slot to be taken, and for a repeated or
  conflicting vote. `VotePage` stays within the open phase and gives the server one slot:
  the phases and the counters are the matter of `http`, and the tabs react to outcomes
  only.
* `AdminPage`: six requests (`MaxCalls`) are a dashboard, two selections and a refresh that
  overlap with a logout. A list holds one poll of the two, so that a poll can leave it; that
  it has several rows is left to the theorem, since no row depends on another.
* `PgPolls`: `Batch` 1 where the code says 20, so that a pass leaves a poll for the next one.
* `Lifecycle`: one pass of each worker.
* `FileBench`: four keys, of which two are sent a second time with another choice, make
  three frames; the queue holds one, so that another can be skipped. A group is two keys.
* Symmetry is used where only safety is checked (`durability`, `admin_page`, `bench`), over
  keys, calls, standbys, polls and workers, which no definition tells apart.

`CHECK_DEADLOCK FALSE` is said where the system comes to an end: a journal is closed or
its machine has stopped, all requests are answered, a page has used up its bound of
requests, all polls are final, a process has exited, the benchmark has its verdict. `PgVote`,
`PgDurability` and `VoteCore` never stop, and deadlock is checked there.

`ClosedIsDefinitive` and the refinement of `PollContract` hold for a database clock that is
not set back: with one that is, a client that was told "closed" could vote in the reopened
window, until the poll is finalized. The theorems on results and receipts have no such
condition.

### Fairness

* `PgVote`: a running statement goes on (weak fairness). A lock that becomes free again
  and again is granted (strong fairness on `Lock` and `Drain`), since PostgreSQL queues
  lock requests and a shared request does not overtake an exclusive one that waits.
  Finalization is started again (the worker's ticker) and time passes. No client is obliged
  to call, and aborts are bounded by `MaxFaults`.
* `VoteCore`: goroutines run on; strong fairness on taking a mutex, which `sync.Mutex`
  gives in its starvation mode.
* `FileLog`, `VoteLog`: the runtime schedules writers and callers, calls of the disk and of
  the broker return (those of the broker with an error at the latest when their context
  ends), timers fire, and a stopped store's context reaches everyone. Nobody has to give up,
  and a crash excuses what the process did not do.
* `HttpApi`: each handler runs on; its timeout ends the wait for the repository, of which
  nothing is assumed.
* `PgPolls`: time passes, the ticker starts passes, a pass goes on. For each poll, a
  finalization that is attempted again and again succeeds in the end (strong fairness on
  `FinalizeNext`); all of this for the workers there are (`Cast`). An error that is
  permanent would hold up the polls behind it, because a pass stops at its first error.
* `Lifecycle`: `run` goes on after the signal, handlers and passes end (their contexts have
  deadlines). Strong fairness on `WorkerEnds`: between a tick and the cancelled context Go's
  `select` chooses at random, so the worker sees the cancellation in the end.

## 4. Proofs

All theorems hold for any number of actors, tokens, options, shards, partitions, standbys,
requests and polls; their assumptions are the named `ASSUME`s of the modules, which TLC
evaluates in the runs. Each invariant below was first checked by TLC on the run of its
component.

**`PgVoteProofs`.** The invariants are proved one upon the other.
`TypeOK` is inductive. `LockInv` says that a voter past its lock holds it, and that a
finalizer past its loop holds all shards: so whoever counts is alone (`DrainedAlone`), and
`FinalInv` (a finalizer's partial tally equals the counts of the votes, and no voter can
still insert once the poll is final) becomes inductive, which gives
`FinalResultIsExact`. `RowInv` relates what a voter is about to answer to the committed
row of its key or, for the one insert in flight, to its absence; it gives
`AllReceiptsAgree` and `ResultsGrow`. `ClosedInv` adds, for a clock that is not set back,
that a key told "closed" has no row and no voter that could still insert one:
`ClosedStaysClosed`. The four together give `PgVoteImplementsContract`: `Commit` is
`Decide`, `Confirm`, `Close` or nothing, `Finalize` is `Publish`, and all other steps
leave the abstract state alone. For deadlocks, `Rank` is a transaction's distance from
having all its locks; whoever is waited for has a lower one (`RankFalls`), so the lowest of
any set of transactions waits for none of them: `NobodyWaitsInACircle`.

**`PgPollsProofs`.** `NoOverlap` is not inductive, since the insert relies on a test made
two statements earlier. `LockInv` (one transaction is past the creation lock) keeps other
creations away, and so `FreshInv` (what was tested free is still free) survives the steps of
everybody else; passes, votes and readers leave the windows alone (`SameWindows`). This
gives `PollsNeverOverlap`. For results, `SnapshotOK` says what remains true of a snapshot
while the tables change: a row that was final is final with the same total, and the votes it
counted are still there. `AnswerOK` says how the answer follows from it. Both are stable
because a result is written once and votes are only added: `ResultsAlwaysAgree`.

**`PgDurabilityProofs`.** `ConfirmedSurvives` is an argument about a quorum. The target of a
proof covers what its call saw (`SeenInv`), a standby has on its disk what it reported
(`ReportInv`), so a quorum holds each confirmed key when it is confirmed. As long as the
first primary is in charge, fewer standbys are lost than that (`LostInv`); one of the quorum
is therefore left, and the standby that is promoted has no less WAL than that one. It gives
`ReceiptsAreDurable`. `OwnerInv` (a Store confirms in the epoch it has pinned) gives
`StoreHasOneOwner`.

**`VoteCoreProofs`.** `TypeInv` adds to the types where each actor can be and that an
answer about to be reported is the recorded one. `MutexInv` says that whoever is inside
owns the mutex, and `SealInv` that no submitter that may still store is in a shard a Seal
has added: after `sealed` is stored nobody new passes its test, and those that passed hold
the mutex that `Seal` needs. This gives `SealFreezes`. `CountInv` says that the shard
counts and the partial snapshots are cardinalities of sets of tokens, which only the
preceding invariant keeps true when a `Store` follows the addition of another shard; it
gives `ExactSnapshot`. `FirstChoice` follows from `TypeInv` alone.

**`FileLogProofs`.** The order of admission is the thread. While the writer works, `order` is
what it has answered, its batch, the job in its hand and the queue, one after the other
(`ChainInv`), and the file holds a prefix of it (`FilledInv`). Once it is poisoned nothing
more is written, so in any case each frame of the file is the next call of the order, CLOSED
behind the last one, or spoilt, and spoilt frames lie behind what a sync has covered
(`FileInv`). A receipt is given for a synced frame only. What `Scan` accepts is the longest
prefix of sound frames, hence at least what was synced: `ReceiptsAreFound` and, with the
manifest and the CLOSED frame, `JournalCanBeTrusted`.

The memory is a second argument: the queue and the batch each have their bound. The votes of
a set of calls are the size of a set of pairs (call, number of the vote), which needs no
sum. `ChargeInv` says that the queue's charge is the votes of the calls in the channel and
in the writer's hand, that no call is there twice and that none is left when the writer has
stopped; `BatchInv` that the batch holds no more than its counter says and that a job is
added only where it fits. A step then adds or removes one call: `MemoryIsBounded`.

**`FileLogProofs`, the benchmark.** A planned attempt is in one place. It waits in the
generator or in one frame of the channel (`WaitInv`), one worker calls with it (`CallInv`),
its outcome is noted, in one receipt if it was acknowledged (`OutcomeInv`), or it was skipped.
Each counter is therefore the size of a set of attempts (`TallyInv`), a step moves a frame
from one set to another, and at the end the sets are a partition of the plan. As long as the
journal is not spoilt, each frame is in it once, where its receipt says or as one of unknown
outcome, and a frame that may still be written is not there yet (`DiskInv`): so each
comparison of the reconciliation succeeds (`SoundIsCorrect`), the count of receipts by a
bijection between their positions and the acknowledged attempts. This gives
`TheReportIsFair`. Nothing is known of a spoilt journal; `TheCorrectVerdictIsTrue` follows
from the comparisons alone and from what the ledger says of refused frames.

**`VoteLogProofs`.** The argument is the one of fencing. The open records of a partition are
the last of its log and belong to the producer that the broker accepts (`LogOK`), so only
that producer's owner needs to know where the log ends (`OwnerOK`): it writes behind its own
BOOT, and finds no CLOSED there, since it has read the log up to the barrier and has been
alone since. What an owner has seen committed outlives its fencing, because a log only grows
(`KnownOK`). From these follow `JournalsReplay` and, since votes that begin to count come
after those that count already, `FirstChoicesStay`. The answers need the writer's books
besides: a job is held by the session that admitted it only (`HomeInv`), a refused one by
nobody and in no log (`NowhereInv`), each receipt names a committed vote (`CountInv`), and a
writer that answered "unknown" is broken and never commits CLOSED (`UnknownInv`). They give
`ReceiptsCount`, `RefusalsAreTrue`, `ManifestsAreFinal` and `SealsConfirmAll`. The bounds of
memory are a separate argument about one writer: each job is in its channel, its hand, its
batch or under its mutex, once and unanswered, and the credits and the counter of the batch
are the votes of those places (`BooksInv`), which is what `JobsAreAccounted` needs when a
batch is answered or a writer fails.

**`HttpApiProofs`, the server.** `PlaceInv` ties a handler's place to its operation: before
`StartOperation` there is none, and only a finished handler has answered. `OutInv` says what
the repository returned means for the database: a request that wrote returned "accepted" or
"created", and a positive outcome names what is recorded, which no later vote changes. With
both, `AnswersAreTrue` is preserved by each handler's answer and by operations that are
executed after it: `AnswersStayTrue`. For the books, `CountInv` says which set of requests
each slot and counter is the size of, and a handler's step moves one request from set to set
(`Booked`, `BooksMove`). `CoverInv` says that a vote on record is answered as accepted, as
unknown or not yet, so that counters of answers bound the number of records:
`BooksAlwaysBalance`.

**`HttpApiProofs`, the page.** A page's state is spread over its memory, the shared record,
its request and the server, and `TabOK` ties them together for one tab: a tab whose storage
works has the token of the shared record, a request under way carries the tab's token, what
is about to be settled is recorded for that token, and so is a receipt that is shown. All
changes of a record go through `Update`; `BaseFacts` says what it may start from (the shared
record, the tab's own, or a fresh one when there is neither), `UpdateStep` that `TabOK` then
holds for all tabs, since the shared record only ever gets readier under its one token
(`Grown`). With the server's side, which `ServerSteps` reduces to "what was sent and
recorded stays", this gives `ReceiptStaysTrue` and `KeyAlwaysKept`. `OneChoice` is the
additional invariant of a browser whose storage never fails: everything ready, sent or
recorded is the choice of the shared record, so there is no second choice to conflict with
(`OneVoteOnly`).

**`HttpApiProofs`, the administrator's page.** What the panel shows is compared with what is
still under way. `PanelInv` says that an open panel is the selected poll's, open for an
administrator only, and shows no more votes than the server has counted
(`PanelShowsTheSelected`). `SequenceInv` says that no two requests of a kind have the same
number and none is ahead of the counter, so an older answer is recognized by its number.
`AnswerInv` says that an answer under way with the newest number of its kind is no older than
what the page shows from that kind: a list has no state behind a row or a badge that a list
has written and, unless it is full, all polls that are shown; results for the selected poll
have no state behind what results have written and no smaller total than the panel. It holds
because an answer is the state of the moment in which the server serves the request, and
polls only go forward (`AnswersKeepTheirOrder`). Between the kinds no invariant of this form
holds, which is why the theorem leaves them apart. Each step is the page's (`CallsMove`,
`PageMoves`) or the server's (`ServerMoves`).

**`LifecycleProofs`.** `MigrateInv` says that one process is between the migration lock and
its release, that it applies the migration to an empty schema only, and that whoever is
past it finds the schema: `MigrationIsAppliedOnce`. `CloseInv` says that the worker has
returned before pools are closed, and that a handler with a connection keeps its pool open:
`ProcessEndsIdle`.

A fact about all prefixes of a sequence or all members of a set would ask for induction over
an operator, which the provers cannot instantiate. Where one is needed the least
counterexample is taken instead (`WFMin` over the naturals): the first frame that `Scan`
refuses, the first readable record of a log, the transaction nearest to its locks.

**Only model-checked.** Liveness (`EveryCallEnds`, `EventuallyFinal`, `SealReturns`,
`NobodyWaitsForever`, `EveryRequestEnds`, `AllBecomeFinal`, `ProcessEnds`), because the
prover does not treat fairness. Every invariant and action property of the runs has its
theorem.

## 5. Hazards

`PROJECT.json` lists them at their lines with the properties that would notice. Some carry a
note on what the property does not say. The list and the results on the administrator's page
are not ordered against each other (section 2). `NoOverlap` would not notice a start that is
read before the wait for the creation lock: such a poll lies in the past, but overlaps none.
`FirstChoiceFinal` rests on one map access under one mutex. `AllBecomeFinal` needs
finalization errors that are not permanent (above). And the maintenance worker may set
readiness again after the shutdown has cleared it; the listener is closed by then, so nobody
can ask.

## 6. What could come next

1. An abstract journal contract that `FileLog` and `VoteLog` both refine, and that
   `FileBench` takes for its journal.
2. The promotion protocol of `scripts/replication_lab.py` as the environment of
   `PgDurability`.

## 7. Not modelled

* Byte layouts, checksums and formats: a frame is intact, cut short or spoilt. SHA-256 and
  `hashtext` routing: any function from tokens to shards or partitions.
* Counters and diagnostics that no decision reads.
* Failures of `filelog.New` and of the configuration: nothing is admitted before they
  succeed. Failures of `votelog.New` are part of `VoteLog`.
* The local durability mode, in which `waitDurableConn` returns at once.
* Deadlines as durations: a deadline is a failure that may come at any time.
* Administrator sessions (`auth.go`): each of its operations is one critical section of one
  mutex, and its limits are tests a unit test reaches. Who is logged in is an assumption of
  `HttpApi` and part of `AdminPage`.
* `Validate` and `NormalizeChoices` of the poll rules, which are functions of one value.
* The other benchmarks and load generators. `framebench` is the scheduler, ledger and audit
  of `filebench` against Kafka; `logbench` and `storagebench` keep the same kind of ledger,
  one vote or one key at a time, and reconcile it in the same way; `corebench` and `loadtest`
  measure only. Latency histograms and diagnostics decide nothing.
* The lab and capacity scripts operate clusters; the configuration parser keeps no state.
