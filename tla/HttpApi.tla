------------------------------- MODULE HttpApi -------------------------------
(***************************************************************************)
(* The HTTP server (internal/httpapi/server.go): requests pass a bounded   *)
(* pool of slots, are checked, run one operation of the repository and are *)
(* answered.  The operation of a vote is not cancelled with its client; it *)
(* has a timeout, after which the handler answers "unknown" and the        *)
(* database may still commit.  Reads and the administrator's calls are     *)
(* cancelled with their client.                                            *)
(*                                                                         *)
(* The repository is seen as its contract: PgVote.tla models the real one. *)
(***************************************************************************)
EXTENDS Naturals, Sequences, FiniteSets

CONSTANTS
    Requests,       \* HTTP requests
    Mixes, Limits,  \* what Kind and Limit may be
    Tokens, Choices,
    Window          \* the phases of the poll that a run goes through

Kinds == {"vote", "get", "create", "list", "results"}
Pools == {"inflight", "readInflight", "adminInflight"}
Counters == {"attempts", "accepted", "duplicates", "conflicts", "rejected", "unknown",
             "storageErrors"}
Phases == <<"scheduled", "open", "processing", "final">>

ASSUME LimitAssumption == Limits \subseteq [Pools -> Nat \ {0}] /\ Window \subseteq 1 .. 4
ASSUME KindAssumption == Mixes \subseteq [Requests -> Kinds]

VARIABLES
    hs,        \* request |-> "idle", "sent", "held" (has a slot), "waiting", "done"
    gone,      \* requests whose client has disconnected
    body,      \* request |-> token and choice of a vote
    op,        \* request |-> its operation: "none", "running", "done" or "failed"
    out,       \* request |-> what the operation returned
    resp,      \* request |-> the answer: status, outcome and choices
    slots,     \* pool |-> how many slots are taken
    cnt,       \* the counters of Metrics
    recorded,  \* token |-> the choice that counts
    phase,     \* index of the poll's phase in Phases
    early,     \* requests whose operation began while the poll was open
    wrote,     \* history: requests whose operation recorded a vote or a poll
    \* what never changes: request |-> "vote", "get", "create", "list" or
    \* "results", and pool |-> capacity of its channel
    Kind, Limit

server == <<hs, gone, body, op, out, resp, slots, cnt, recorded, phase, early, wrote>>
setting == <<Kind, Limit>>

Pool(r) == CASE Kind[r] = "vote" -> "inflight" [] Kind[r] = "get" -> "readInflight"
             [] OTHER -> "adminInflight"

None     == "none"
ASSUME ChoiceAssumption == None \notin Choices
NoBody   == [token |-> None, choice |-> None]
NoAnswer == [status |-> 0, outcome |-> None, choice |-> None]
Answer(s, o) == [status |-> s, outcome |-> o, choice |-> None]

-----------------------------------------------------------------------------
(* Answers, counters and slots *)

Active(r) == hs[r] \in {"held", "waiting"}
Count(S) == cnt' = [c \in Counters |-> IF c \in S THEN cnt[c] + 1 ELSE cnt[c]]

\* writeJSON, and the deferred release of the slot.
Release(r) == slots' = [slots EXCEPT ![Pool(r)] = @ - 1]
Reply(r, a) ==
    /\ hs' = [hs EXCEPT ![r] = "done"]
    /\ resp' = [resp EXCEPT ![r] = a]

Send(r, b) ==
    /\ hs[r] = "idle"
    /\ hs' = [hs EXCEPT ![r] = "sent"]
    /\ body' = [body EXCEPT ![r] = b]
    /\ UNCHANGED <<gone, op, out, resp, slots, cnt, recorded, phase, early, wrote>>

\* A request without a free slot is refused at once; an administrator's
\* needs a valid session first (protected).
HasSlot(p) == slots[p] < Limit[p]
TakeSlot(r) ==
    /\ HasSlot(Pool(r))
    /\ slots' = [slots EXCEPT ![Pool(r)] = @ + 1]
    /\ hs' = [hs EXCEPT ![r] = "held"]
    /\ UNCHANGED resp
NoSlot(r) ==
    /\ ~ HasSlot(Pool(r))
    /\ Reply(r, Answer(503, IF Kind[r] = "vote" THEN "not_admitted" ELSE "busy"))
    /\ UNCHANGED slots
Begin(r) ==
    /\ hs[r] = "sent"
    /\ \/ /\ Kind[r] = "vote"
          /\ \/ TakeSlot(r) /\ Count({"attempts"})
             \/ NoSlot(r) /\ Count({"attempts", "rejected"})
       \/ Kind[r] = "get" /\ (TakeSlot(r) \/ NoSlot(r)) /\ UNCHANGED cnt
       \/ /\ Pool(r) = "adminInflight" /\ UNCHANGED cnt
          /\ \/ TakeSlot(r) \/ NoSlot(r)
             \/ Reply(r, Answer(401, None)) /\ UNCHANGED slots
    /\ UNCHANGED <<gone, body, op, out, recorded, phase, early, wrote>>

\* A page of another site may not write: refused before everything else, and
\* no attempt.  The pages of VotePage.tla and AdminPage.tla are the server's own.
Writes(r) == Kind[r] \in {"vote", "create"}
ForeignOrigin(r) ==
    /\ hs[r] = "sent" /\ Writes(r)
    /\ Reply(r, Answer(403, None))
    /\ UNCHANGED <<gone, body, op, out, slots, cnt, recorded, phase, early, wrote>>

\* The path, the JSON, the token and the choices are checked: 404, 415, 400
\* or 422, all written 400 here.  A vote whose client has left by now is dropped without an answer.
MayBeMalformed(r) == Kind[r] # "list"
Malformed(r) ==
    /\ hs[r] = "held" /\ MayBeMalformed(r)
    /\ Reply(r, Answer(400, None))
    /\ Release(r)
    /\ IF Kind[r] = "vote" THEN Count({"rejected"}) ELSE UNCHANGED cnt
    /\ UNCHANGED <<gone, body, op, out, recorded, phase, early, wrote>>
ClientLeft(r) ==
    /\ hs[r] = "held" /\ Kind[r] = "vote" /\ r \in gone
    /\ Reply(r, NoAnswer) /\ Release(r)
    /\ UNCHANGED <<gone, body, op, out, cnt, recorded, phase, early, wrote>>

StartOperation(r) ==
    /\ hs[r] = "held" /\ (Kind[r] = "vote" => r \notin gone)
    /\ hs' = [hs EXCEPT ![r] = "waiting"]
    /\ op' = [op EXCEPT ![r] = "running"]
    /\ early' = IF Phases[phase] = "open" THEN early \cup {r} ELSE early
    /\ UNCHANGED <<gone, body, out, resp, slots, cnt, recorded, phase, wrote>>

-----------------------------------------------------------------------------
(* The repository *)

Outcome(o, c) == [status |-> o, choice |-> c]
Vote(r) ==
    LET t == body[r].token
        c == body[r].choice
        Same(o) == out' = [out EXCEPT ![r] = Outcome(o, recorded[t])]
                   /\ UNCHANGED <<recorded, wrote>>
    IN
    \/ recorded[t] = c /\ Same("duplicate")
    \/ recorded[t] \notin {None, c} /\ Same("conflict")
    \/ recorded[t] = None /\ Phases[phase] = "scheduled" /\ Same("not_open")
    \/ recorded[t] = None /\ phase > 2 /\ (Same("closed") \/ Same("unknown"))
    \/ /\ \E o \in {"invalid", "not_found"} : out' = [out EXCEPT ![r] = Outcome(o, None)]
       /\ UNCHANGED <<recorded, wrote>>
    \/ /\ recorded[t] = None
       /\ Phases[phase] = "open" \/ (Phases[phase] = "processing" /\ r \in early)
       /\ recorded' = [recorded EXCEPT ![t] = c]
       /\ wrote' = wrote \cup {r}
       /\ out' = [out EXCEPT ![r] = Outcome("accepted", c)]

\* Get and List return rows, whose state is computed later; Results computes
\* it itself.  Create inserts a poll or finds an overlap.
Read(r) ==
    /\ UNCHANGED <<recorded, wrote>>
    /\ LET row == IF Phases[phase] = "final" \/ Kind[r] = "results" THEN Phases[phase] ELSE "row"
       IN  out' = [out EXCEPT ![r] = Outcome(row, None)]
Create(r) ==
    /\ UNCHANGED recorded
    /\ \/ out' = [out EXCEPT ![r] = Outcome("overlap", None)] /\ UNCHANGED wrote
       \/ out' = [out EXCEPT ![r] = Outcome("created", None)] /\ wrote' = wrote \cup {r}

\* The operation takes effect, even after its handler has given up.
Execute(r) ==
    /\ op[r] = "running"
    /\ op' = [op EXCEPT ![r] = "done"]
    /\ \/ Kind[r] = "vote" /\ Vote(r)
       \/ Kind[r] \in {"get", "list", "results"} /\ Read(r)
       \/ Kind[r] = "create" /\ Create(r)
    /\ UNCHANGED <<hs, gone, body, resp, slots, cnt, phase, early>>
OperationFails(r) ==
    /\ op[r] = "running"
    /\ op' = [op EXCEPT ![r] = "failed"]
    /\ UNCHANGED <<hs, gone, body, out, resp, slots, cnt, recorded, phase, early, wrote>>

-----------------------------------------------------------------------------
(* The handlers' answers *)

\* An error of the repository: the operation failed, the timeout or (but for
\* a vote) the client's leaving ended it, or its answer was lost.
FailedOnly(r) == op[r] = "failed"  \* mutant: no timeout
Failed(r) == op[r] \in {"failed", "running", "done"}
ErrorIsRefusal(r) == "not_admitted"  \* mutant: told that nothing was tried
ErrorOutcome(r) == IF Kind[r] \in {"vote", "create"} THEN "unknown" ELSE None
AnswerError(r) ==
    /\ hs[r] = "waiting" /\ Failed(r)
    /\ Reply(r, Answer(503, ErrorOutcome(r)))
    /\ Release(r)
    /\ Count(IF Kind[r] = "vote" THEN {"storageErrors", "unknown"} ELSE {"storageErrors"})
    /\ UNCHANGED <<gone, body, op, out, recorded, phase, early, wrote>>

DuplicateIsAccepted(o) ==  \* mutant: a repeated vote counts as a new one
    CASE o \in {"accepted", "duplicate"} -> "accepted"
      [] o = "conflict" -> "conflicts" [] o = "unknown" -> "unknown" [] OTHER -> "rejected"
CounterOf(o) == CASE o = "accepted" -> "accepted" [] o = "duplicate" -> "duplicates"
                  [] o = "conflict" -> "conflicts" [] o = "unknown" -> "unknown"
                  [] OTHER -> "rejected"
StatusOf(o) == CASE o = "accepted" -> 201 [] o = "duplicate" -> 200
                 [] o = "conflict" -> 409 [] o = "closed" -> 410
                 [] o = "not_open" -> 425 [] o = "invalid" -> 422
                 [] o = "not_found" -> 404 [] OTHER -> 503
ChoiceAsSent(r) == body[r].choice  \* mutant: the receipt repeats the request
ChoiceOf(r) == out[r].choice
AnswerVote(r) ==
    /\ hs[r] = "waiting" /\ Kind[r] = "vote" /\ op[r] = "done"
    /\ Reply(r, [status |-> StatusOf(out[r].status), outcome |-> out[r].status,
                 choice |-> ChoiceOf(r)])
    /\ Release(r)
    /\ Count({CounterOf(out[r].status)})
    /\ UNCHANGED <<gone, body, op, out, recorded, phase, early, wrote>>

\* public: State combines the row that was read with the clock of now.
State(r) == IF out[r].status = "row" THEN Phases[IF phase > 3 THEN 3 ELSE phase] ELSE out[r].status
AnswerRead(r) ==
    /\ hs[r] = "waiting" /\ Kind[r] \in {"get", "list", "results"} /\ op[r] = "done"
    /\ \/ Reply(r, [status |-> 200, outcome |-> State(r), choice |-> None])
       \/ Kind[r] # "list" /\ Reply(r, Answer(404, None))
    /\ Release(r)
    /\ UNCHANGED <<gone, body, op, out, cnt, recorded, phase, early, wrote>>
AnswerCreate(r) ==
    /\ hs[r] = "waiting" /\ Kind[r] = "create" /\ op[r] = "done"
    /\ Reply(r, Answer(IF out[r].status = "created" THEN 201 ELSE 409, None))
    /\ Release(r)
    /\ UNCHANGED <<gone, body, op, out, cnt, recorded, phase, early, wrote>>

-----------------------------------------------------------------------------
(* The environment.  A client that leaves later changes nothing more: see AnswerError. *)

Leave(r) ==
    /\ hs[r] \in {"sent", "held"} /\ r \notin gone
    /\ gone' = gone \cup {r}
    /\ UNCHANGED <<hs, body, op, out, resp, slots, cnt, recorded, phase, early, wrote>>
TimePasses ==
    /\ phase + 1 \in Window
    /\ phase' = phase + 1
    /\ UNCHANGED <<hs, gone, body, op, out, resp, slots, cnt, recorded, early, wrote>>

ServerInit ==
    /\ hs = [r \in Requests |-> "idle"] /\ gone = {}
    /\ body = [r \in Requests |-> NoBody]
    /\ op = [r \in Requests |-> None]
    /\ out = [r \in Requests |-> Outcome(None, None)]
    /\ resp = [r \in Requests |-> NoAnswer]
    /\ slots = [p \in Pools |-> 0]
    /\ cnt = [c \in Counters |-> 0]
    /\ recorded = [t \in Tokens |-> None]
    /\ phase \in Window \cap {1, 2}
    /\ early = {} /\ wrote = {}
    /\ Kind \in Mixes /\ Limit \in Limits

Handle(r) == \/ Begin(r) \/ Malformed(r) \/ ClientLeft(r) \/ StartOperation(r)
             \/ AnswerError(r) \/ AnswerVote(r) \/ AnswerRead(r) \/ AnswerCreate(r)
ServerStep == \/ \E r \in Requests : Handle(r) \/ Execute(r) \/ OperationFails(r)
              \/ TimePasses
Bodies(r) == IF Kind[r] = "vote" THEN [token : Tokens, choice : Choices] ELSE {NoBody}
Next == \/ ServerStep
        \/ \E r \in Requests : Leave(r) \/ ForeignOrigin(r) \/ \E b \in Bodies(r) : Send(r, b)

Spec == ServerInit /\ [][Next /\ UNCHANGED setting]_<<server, setting>>
(* The runtime schedules every handler, and its timeout ends the wait.     *)
FairSpec == Spec /\ \A r \in Requests : WF_server(Handle(r))

-----------------------------------------------------------------------------
(* Properties *)

TypeOK ==
    /\ hs \in [Requests -> {"idle", "sent", "held", "waiting", "done"}]
    /\ op \in [Requests -> {None, "running", "done", "failed"}]
    /\ gone \cup early \cup wrote \subseteq Requests
    /\ slots \in [Pools -> Nat] /\ cnt \in [Counters -> Nat] /\ phase \in 1 .. 4
    /\ recorded \in [Tokens -> Choices \cup {None}]

Votes == {r \in Requests : Kind[r] = "vote"}

(* The books balance.  The channels bound the work in progress, and every  *)
(* path of a handler gives its slot back (server.go 145-152, 243-250,      *)
(* 294-302).  The counters account for every attempt: it is in progress,   *)
(* was answered in exactly one of the five ways, or its client had left    *)
(* before anything was tried (328-330).  And they agree with the database: *)
(* each vote on record was answered as accepted once, or its answer is     *)
(* pending or was lost to an unknown.                                      *)
SlotsBalanced ==
    \A p \in Pools : /\ slots[p] = Cardinality({r \in Requests : Active(r) /\ Pool(r) = p})
                     /\ slots[p] <= Limit[p]
CountersAddUp ==
    cnt["attempts"] = cnt["accepted"] + cnt["duplicates"] + cnt["conflicts"]
        + cnt["rejected"] + cnt["unknown"]
        + Cardinality({r \in Votes : Active(r) \/ (hs[r] = "done" /\ resp[r] = NoAnswer)})
AcceptedOnce ==
    LET stored == Cardinality({t \in Tokens : recorded[t] # None}) IN
    /\ cnt["accepted"] <= stored
    /\ stored <= cnt["accepted"] + cnt["unknown"]
                   + Cardinality({r \in Votes : hs[r] = "waiting"})
BooksBalance == TypeOK /\ SlotsBalanced /\ CountersAddUp /\ AcceptedOnce

(* An answer is true, now and later.  One with a choice (201, 200, 409)    *)
(* tells what counts, whatever was asked and whoever asked at the same     *)
(* time.  A definite refusal is definite: the request records nothing,     *)
(* then or later; only 503 unknown leaves it open, not_admitted does not.  *)
ReceiptIsRecorded ==
    \A r \in Votes : resp[r].status \in {200, 201, 409} =>
        resp[r].choice = recorded[body[r].token] /\ resp[r].choice # None
RefusalWritesNothing ==
    \A r \in Requests :
        \/ resp[r].status \in {400, 401, 403, 404, 410, 422, 425}
        \/ Kind[r] = "create" /\ resp[r].status = 409
        \/ resp[r].outcome \in {"not_admitted", "busy"}
        => r \notin wrote /\ op[r] # "running"
AnswersAreTrue == ReceiptIsRecorded /\ RefusalWritesNothing

(* Every request that reached the server gets its slot back and an end,    *)
(* also when the client is gone and when the database never answers.       *)
EveryRequestEnds == \A r \in Requests : hs[r] = "sent" ~> hs[r] = "done"
=============================================================================
