--------------------------- MODULE HttpApiProofs ---------------------------
(***************************************************************************)
(* Proofs about HttpApi, about VotePage, which EXTENDS it, and about       *)
(* AdminPage, the other page, for any number of requests, voters, choices, *)
(* slots, tabs and polls.                                                  *)
(*                                                                         *)
(* The server.  An answer is true when it is given and stays true:         *)
(* PlaceInv says how far a request's operation is when its handler is at a *)
(* certain place, OutInv what the repository returned means for the        *)
(* database.                                                               *)
(* The books balance: CountInv says which set of requests each slot and    *)
(* counter counts, and CoverInv which answers a recorded vote may have; a  *)
(* step moves one request between these sets (Booked).                     *)
(***************************************************************************)
EXTENDS VotePage, AdminPage, Integers, FiniteSetTheorems, WellFoundedInduction, TLAPS

TypeInv ==
    /\ Kind \in [Requests -> Kinds]
    /\ hs \in [Requests -> {"idle", "sent", "held", "waiting", "done"}]
    /\ op \in [Requests -> {None, "running", "done", "failed"}]
    /\ body \in [Requests -> [token : Tokens, choice : Choices] \cup {NoBody}]
    /\ DOMAIN out = Requests /\ DOMAIN resp = Requests
    /\ recorded \in [Tokens -> Choices \cup {None}]
    /\ phase \in 1 .. 4

PlaceInv ==
    \A r \in Requests :
        /\ hs[r] \in {"idle", "sent", "held"} => op[r] = None
        /\ hs[r] # "done" => resp[r] = NoAnswer
        /\ hs[r] # "idle" /\ Kind[r] = "vote" => body[r] \in [token : Tokens, choice : Choices]

OutInv ==
    \A r \in Requests :
        /\ r \in wrote => /\ op[r] = "done"
                          /\ \/ Kind[r] = "vote" /\ out[r].status = "accepted"
                             \/ Kind[r] = "create" /\ out[r].status = "created"
        /\ op[r] = "done" /\ Kind[r] = "vote"
             /\ out[r].status \in {"accepted", "duplicate", "conflict"} =>
               /\ out[r].choice = recorded[body[r].token]
               /\ out[r].choice # None

-----------------------------------------------------------------------------
\* No request is under way at first.
LEMMA InitInv == ServerInit => TypeInv /\ PlaceInv /\ OutInv /\ AnswersAreTrue
<1> SUFFICES ASSUME ServerInit PROVE TypeInv /\ PlaceInv /\ OutInv /\ AnswersAreTrue
  OBVIOUS
<1> USE KindAssumption, LimitAssumption
    DEF ServerInit, None, NoBody, NoAnswer, Outcome
<1>1. TypeInv
  BY DEF TypeInv
<1>2. PlaceInv /\ OutInv
  BY DEF PlaceInv, OutInv
<1>3. AnswersAreTrue
  BY DEF AnswersAreTrue, ReceiptIsRecorded, RefusalWritesNothing, Votes
<1> QED
  BY <1>1, <1>2, <1>3

\* The type invariant is inductive.
LEMMA NextTypeInv ==
    TypeInv /\ PlaceInv /\ [Next /\ UNCHANGED setting]_<<server, setting>> => TypeInv'
<1> SUFFICES ASSUME TypeInv, PlaceInv, [Next /\ UNCHANGED setting]_<<server, setting>>
             PROVE  TypeInv'
  OBVIOUS
<1> USE DEF TypeInv, PlaceInv, None, NoBody, NoAnswer, Kinds, Phases
<1>0. Kind' = Kind /\ Limit' = Limit
  BY DEF setting
<1> USE <1>0
<1>1. ASSUME NEW r \in Requests, Begin(r) PROVE TypeInv'
  BY <1>1 DEF Begin, TakeSlot, NoSlot, Reply, Answer, Count
<1>2. ASSUME NEW r \in Requests, Malformed(r) PROVE TypeInv'
  BY <1>2 DEF Malformed, MayBeMalformed, Reply, Answer, Release, Count
<1>3. ASSUME NEW r \in Requests, ClientLeft(r) PROVE TypeInv'
  BY <1>3 DEF ClientLeft, Reply, Release
<1>4. ASSUME NEW r \in Requests, StartOperation(r) PROVE TypeInv'
  BY <1>4 DEF StartOperation
<1>5. ASSUME NEW r \in Requests, Execute(r) PROVE TypeInv'
  BY <1>5 DEF Execute, Vote, Read, Create, Outcome
<1>6. ASSUME NEW r \in Requests, OperationFails(r) PROVE TypeInv'
  BY <1>6 DEF OperationFails
<1>7. ASSUME NEW r \in Requests, AnswerError(r) PROVE TypeInv'
  BY <1>7 DEF AnswerError, Reply, Answer, Release, Count, ErrorOutcome
<1>8. ASSUME NEW r \in Requests, AnswerVote(r) PROVE TypeInv'
  BY <1>8 DEF AnswerVote, Reply, Release, Count, StatusOf, ChoiceOf
<1>9. ASSUME NEW r \in Requests, AnswerRead(r) PROVE TypeInv'
  BY <1>9 DEF AnswerRead, Reply, Answer, Release, State
<1>10. ASSUME NEW r \in Requests, AnswerCreate(r) PROVE TypeInv'
  BY <1>10 DEF AnswerCreate, Reply, Answer, Release
<1>11. ASSUME NEW r \in Requests, Leave(r) PROVE TypeInv'
  BY <1>11 DEF Leave
<1>12. ASSUME NEW r \in Requests, NEW b \in Bodies(r), Send(r, b) PROVE TypeInv'
  BY <1>12 DEF Send, Bodies
<1>13. CASE TimePasses
  BY <1>13, LimitAssumption DEF TimePasses
<1>14. ASSUME NEW r \in Requests, ForeignOrigin(r) PROVE TypeInv'
  BY <1>14 DEF ForeignOrigin, Reply, Answer
<1>15. CASE UNCHANGED <<server, setting>>
  BY <1>15 DEF server
<1> QED
  BY <1>1, <1>2, <1>3, <1>4, <1>5, <1>6, <1>7, <1>8, <1>9, <1>10, <1>11, <1>12,
     <1>13, <1>14, <1>15
  DEF Next, ServerStep, Handle

\* A handler starts its operation once and answers once.
LEMMA NextPlaceInv ==
    TypeInv /\ PlaceInv /\ [Next /\ UNCHANGED setting]_<<server, setting>> => PlaceInv'
<1> SUFFICES ASSUME TypeInv, PlaceInv, [Next /\ UNCHANGED setting]_<<server, setting>>
             PROVE  PlaceInv'
  OBVIOUS
<1> USE DEF TypeInv, PlaceInv, None, NoAnswer, NoBody
<1>0. Kind' = Kind /\ Limit' = Limit
  BY DEF setting
<1> USE <1>0
<1>1. ASSUME NEW r \in Requests, Begin(r) PROVE PlaceInv'
  BY <1>1 DEF Begin, TakeSlot, NoSlot, Reply, Answer, Count
<1>2. ASSUME NEW r \in Requests, Malformed(r) PROVE PlaceInv'
  BY <1>2 DEF Malformed, MayBeMalformed, Reply, Answer, Release, Count
<1>3. ASSUME NEW r \in Requests, ClientLeft(r) PROVE PlaceInv'
  BY <1>3 DEF ClientLeft, Reply, Release
<1>4. ASSUME NEW r \in Requests, StartOperation(r) PROVE PlaceInv'
  BY <1>4 DEF StartOperation
<1>5. ASSUME NEW r \in Requests, Execute(r) PROVE PlaceInv'
  BY <1>5 DEF Execute, Vote, Read, Create, Outcome
<1>6. ASSUME NEW r \in Requests, OperationFails(r) PROVE PlaceInv'
  BY <1>6 DEF OperationFails
<1>7. ASSUME NEW r \in Requests, AnswerError(r) PROVE PlaceInv'
  BY <1>7 DEF AnswerError, Reply, Answer, Release, Count, ErrorOutcome
<1>8. ASSUME NEW r \in Requests, AnswerVote(r) PROVE PlaceInv'
  BY <1>8 DEF AnswerVote, Reply, Release, Count, StatusOf, ChoiceOf
<1>9. ASSUME NEW r \in Requests, AnswerRead(r) PROVE PlaceInv'
  BY <1>9 DEF AnswerRead, Reply, Answer, Release, State
<1>10. ASSUME NEW r \in Requests, AnswerCreate(r) PROVE PlaceInv'
  BY <1>10 DEF AnswerCreate, Reply, Answer, Release
<1>11. ASSUME NEW r \in Requests, Leave(r) PROVE PlaceInv'
  BY <1>11 DEF Leave
<1>12. ASSUME NEW r \in Requests, NEW b \in Bodies(r), Send(r, b) PROVE PlaceInv'
  BY <1>12 DEF Send, Bodies
<1>13. CASE TimePasses
  BY <1>13, LimitAssumption DEF TimePasses
<1>14. ASSUME NEW r \in Requests, ForeignOrigin(r) PROVE PlaceInv'
  BY <1>14 DEF ForeignOrigin, Reply, Answer
<1>15. CASE UNCHANGED <<server, setting>>
  BY <1>15 DEF server
<1> QED
  BY <1>1, <1>2, <1>3, <1>4, <1>5, <1>6, <1>7, <1>8, <1>9, <1>10, <1>11, <1>12,
     <1>13, <1>14, <1>15
  DEF Next, ServerStep, Handle

\* What the repository returned stays what the database holds.
LEMMA NextOutInv ==
    TypeInv /\ PlaceInv /\ OutInv /\ [Next /\ UNCHANGED setting]_<<server, setting>> => OutInv'
<1> SUFFICES ASSUME TypeInv, PlaceInv, OutInv, [Next /\ UNCHANGED setting]_<<server, setting>>
             PROVE  OutInv'
  OBVIOUS
<1> USE DEF TypeInv, PlaceInv, OutInv, None, NoBody, Kinds
<1>0. Kind' = Kind /\ Limit' = Limit
  BY DEF setting
<1> USE <1>0
<1>1. ASSUME NEW r \in Requests, Begin(r) PROVE OutInv'
  BY <1>1 DEF Begin, TakeSlot, NoSlot, Reply, Answer, Count
<1>2. ASSUME NEW r \in Requests, Malformed(r) PROVE OutInv'
  BY <1>2 DEF Malformed, MayBeMalformed, Reply, Answer, Release, Count
<1>3. ASSUME NEW r \in Requests, ClientLeft(r) PROVE OutInv'
  BY <1>3 DEF ClientLeft, Reply, Release
<1>4. ASSUME NEW r \in Requests, StartOperation(r) PROVE OutInv'
  BY <1>4 DEF StartOperation
<1>5. ASSUME NEW r \in Requests, Execute(r) PROVE OutInv'
  <2>1. /\ op[r] = "running" /\ hs[r] # "idle" /\ r \notin wrote
        /\ op' = [op EXCEPT ![r] = "done"] /\ UNCHANGED <<hs, body>>
    BY <1>5 DEF Execute
  <2>2. CASE Kind[r] = "vote" /\ Vote(r)
    <3>1. body[r] \in [token : Tokens, choice : Choices]
      BY <2>1, <2>2
    <3>2. CASE /\ recorded[body[r].token] = None
               /\ recorded' = [recorded EXCEPT ![body[r].token] = body[r].choice]
               /\ wrote' = wrote \cup {r}
               /\ out' = [out EXCEPT ![r] = Outcome("accepted", body[r].choice)]
      BY <2>1, <2>2, <3>1, <3>2, ChoiceAssumption DEF Outcome
    <3>3. CASE /\ UNCHANGED <<recorded, wrote>>
               /\ \/ /\ out' = [out EXCEPT ![r] = Outcome("duplicate", recorded[body[r].token])]
                     /\ recorded[body[r].token] = body[r].choice
                  \/ /\ out' = [out EXCEPT ![r] = Outcome("conflict", recorded[body[r].token])]
                     /\ recorded[body[r].token] # None
      BY <2>1, <2>2, <3>1, <3>3, ChoiceAssumption DEF Outcome
    <3>4. CASE /\ UNCHANGED <<recorded, wrote>>
               /\ \E o \in {"not_open", "closed", "unknown", "invalid", "not_found"} :
                     \E c \in {None, recorded[body[r].token]} :
                        out' = [out EXCEPT ![r] = Outcome(o, c)]
      BY <2>1, <2>2, <3>1, <3>4 DEF Outcome
    <3> QED
      BY <2>2, <3>2, <3>3, <3>4 DEF Vote
  <2>3. CASE Kind[r] \in {"get", "list", "results"} /\ Read(r)
    BY <2>1, <2>3 DEF Read, Outcome
  <2>4. CASE Kind[r] = "create" /\ Create(r)
    BY <2>1, <2>4 DEF Create, Outcome
  <2> QED
    BY <1>5, <2>2, <2>3, <2>4 DEF Execute
<1>6. ASSUME NEW r \in Requests, OperationFails(r) PROVE OutInv'
  BY <1>6 DEF OperationFails
<1>7. ASSUME NEW r \in Requests, AnswerError(r) PROVE OutInv'
  BY <1>7 DEF AnswerError, Reply, Answer, Release, Count, ErrorOutcome
<1>8. ASSUME NEW r \in Requests, AnswerVote(r) PROVE OutInv'
  BY <1>8 DEF AnswerVote, Reply, Release, Count, StatusOf, ChoiceOf
<1>9. ASSUME NEW r \in Requests, AnswerRead(r) PROVE OutInv'
  BY <1>9 DEF AnswerRead, Reply, Answer, Release, State
<1>10. ASSUME NEW r \in Requests, AnswerCreate(r) PROVE OutInv'
  BY <1>10 DEF AnswerCreate, Reply, Answer, Release
<1>11. ASSUME NEW r \in Requests, Leave(r) PROVE OutInv'
  BY <1>11 DEF Leave
<1>12. ASSUME NEW r \in Requests, NEW b \in Bodies(r), Send(r, b) PROVE OutInv'
  BY <1>12 DEF Send, Bodies
<1>13. CASE TimePasses
  BY <1>13, LimitAssumption DEF TimePasses
<1>14. ASSUME NEW r \in Requests, ForeignOrigin(r) PROVE OutInv'
  BY <1>14 DEF ForeignOrigin, Reply, Answer
<1>15. CASE UNCHANGED <<server, setting>>
  BY <1>15 DEF server
<1> QED
  BY <1>1, <1>2, <1>3, <1>4, <1>5, <1>6, <1>7, <1>8, <1>9, <1>10, <1>11, <1>12,
     <1>13, <1>14, <1>15
  DEF Next, ServerStep, Handle

\* Answers are true when they are given, and no later step makes them false.
LEMMA NextAnswers ==
    TypeInv /\ PlaceInv /\ OutInv /\ AnswersAreTrue /\ [Next /\ UNCHANGED setting]_<<server, setting>> => AnswersAreTrue'
<1> SUFFICES ASSUME TypeInv, PlaceInv, OutInv, AnswersAreTrue, [Next /\ UNCHANGED setting]_<<server, setting>>
             PROVE  AnswersAreTrue'
  OBVIOUS
<1> USE DEF TypeInv, PlaceInv, OutInv, AnswersAreTrue, ReceiptIsRecorded, RefusalWritesNothing, Votes,
        None, NoAnswer, NoBody, Kinds
<1>0. Kind' = Kind /\ Limit' = Limit
  BY DEF setting
<1> USE <1>0
<1>1. ASSUME NEW r \in Requests, Begin(r) PROVE AnswersAreTrue'
  BY <1>1 DEF Begin, TakeSlot, NoSlot, Reply, Answer, Count
<1>2. ASSUME NEW r \in Requests, Malformed(r) PROVE AnswersAreTrue'
  BY <1>2 DEF Malformed, MayBeMalformed, Reply, Answer, Release, Count
<1>3. ASSUME NEW r \in Requests, ClientLeft(r) PROVE AnswersAreTrue'
  BY <1>3 DEF ClientLeft, Reply, Release
<1>4. ASSUME NEW r \in Requests, StartOperation(r) PROVE AnswersAreTrue'
  BY <1>4 DEF StartOperation
<1>5. ASSUME NEW r \in Requests, Execute(r) PROVE AnswersAreTrue'
  BY <1>5 DEF Execute, Vote, Read, Create, Outcome
<1>6. ASSUME NEW r \in Requests, OperationFails(r) PROVE AnswersAreTrue'
  BY <1>6 DEF OperationFails
<1>7. ASSUME NEW r \in Requests, AnswerError(r) PROVE AnswersAreTrue'
  BY <1>7 DEF AnswerError, Reply, Answer, Release, Count, ErrorOutcome
<1>8. ASSUME NEW r \in Requests, AnswerVote(r) PROVE AnswersAreTrue'
  BY <1>8 DEF AnswerVote, Reply, Release, Count, StatusOf, ChoiceOf
<1>9. ASSUME NEW r \in Requests, AnswerRead(r) PROVE AnswersAreTrue'
  BY <1>9 DEF AnswerRead, Reply, Answer, Release, State
<1>10. ASSUME NEW r \in Requests, AnswerCreate(r) PROVE AnswersAreTrue'
  BY <1>10 DEF AnswerCreate, Reply, Answer, Release
<1>11. ASSUME NEW r \in Requests, Leave(r) PROVE AnswersAreTrue'
  BY <1>11 DEF Leave
<1>12. ASSUME NEW r \in Requests, NEW b \in Bodies(r), Send(r, b) PROVE AnswersAreTrue'
  BY <1>12 DEF Send, Bodies
<1>13. CASE TimePasses
  BY <1>13, LimitAssumption DEF TimePasses
<1>14. ASSUME NEW r \in Requests, ForeignOrigin(r) PROVE AnswersAreTrue'
  BY <1>14 DEF ForeignOrigin, Reply, Answer
<1>15. CASE UNCHANGED <<server, setting>>
  BY <1>15 DEF server
<1> QED
  BY <1>1, <1>2, <1>3, <1>4, <1>5, <1>6, <1>7, <1>8, <1>9, <1>10, <1>11, <1>12,
     <1>13, <1>14, <1>15
  DEF Next, ServerStep, Handle

-----------------------------------------------------------------------------
\* No answer is ever contradicted by the database: not when the operation
\* outlives its handler, nor by what other requests do (the handlers' table of
\* statuses in server.go).
THEOREM AnswersStayTrue == Spec => []AnswersAreTrue
BY InitInv, NextTypeInv, NextPlaceInv, NextOutInv, NextAnswers, PTL DEF Spec

-----------------------------------------------------------------------------
(* The books *)

\* The sets of requests that the slots and counters count, and of tokens on record.
Holders(p)  == {r \in Requests : Active(r) /\ Pool(r) = p}
Pending     == {r \in Votes : Active(r) \/ (hs[r] = "done" /\ resp[r] = NoAnswer)}
Answered(o) == {r \in Votes : hs[r] = "done" /\ resp[r].outcome = o}
Writing     == {r \in Votes : r \in wrote}
Stored      == {t \in Tokens : recorded[t] # None}
Answers     == cnt["accepted"] + cnt["duplicates"] + cnt["conflicts"] + cnt["rejected"]
                 + cnt["unknown"]

CountInv ==
    /\ gone \cup early \cup wrote \subseteq Requests
    /\ Limit \in [Pools -> Nat \ {0}]
    /\ slots \in [Pools -> Nat] /\ cnt \in [Counters -> Nat]
    /\ \A p \in Pools : IsFiniteSet(Holders(p)) /\ slots[p] = Cardinality(Holders(p))
                        /\ slots[p] <= Limit[p]
    /\ IsFiniteSet(Pending) /\ cnt["attempts"] = Answers + Cardinality(Pending)
    /\ \A o \in {"accepted", "unknown"} :
         IsFiniteSet(Answered(o)) /\ cnt[o] = Cardinality(Answered(o))
    /\ IsFiniteSet(Writing) /\ IsFiniteSet(Stored) /\ Cardinality(Writing) = Cardinality(Stored)

Outcomes == {"accepted", "duplicate", "conflict", "not_open", "closed", "unknown", "invalid",
             "not_found"}

\* A vote on record was answered as accepted, or its answer is pending or was
\* lost; what goes on behind a handler was answered as unknown.
CoverInv ==
    \A r \in Votes :
        /\ op[r] = "done" => /\ out[r].status \in Outcomes
                             /\ out[r].status = "accepted" => r \in wrote
        /\ hs[r] = "done" /\ op[r] = "running" => resp[r].outcome = "unknown"
        /\ r \in Answered("accepted") => r \in wrote
        /\ r \in wrote => hs[r] = "waiting" \/ r \in Answered("accepted") \cup Answered("unknown")

In(x, S) == IF x \in S THEN 1 ELSE 0

\* A set that changes by one element at most changes its size accordingly.
LEMMA OneChange ==
    ASSUME NEW S, NEW T, NEW r, IsFiniteSet(S), \A q : q # r => (q \in T <=> q \in S)
    PROVE  /\ IsFiniteSet(T) /\ Cardinality(S) \in Nat /\ Cardinality(T) \in Nat
           /\ Cardinality(T) = Cardinality(S) + In(r, T) - In(r, S)
<1>1. Cardinality(S) \in Nat
  BY FS_CardinalityType
<1>2. CASE r \in T
  <2>1. T = S \cup {r}
    BY <1>2
  <2>2. IsFiniteSet(T) /\ Cardinality(T) = IF r \in S THEN Cardinality(S) ELSE Cardinality(S) + 1
    BY <2>1, FS_AddElement
  <2> QED
    BY <1>1, <1>2, <2>2 DEF In
<1>3. CASE r \notin T
  <2>1. T = S \ {r}
    BY <1>3
  <2>2. IsFiniteSet(T) /\ Cardinality(T) = IF r \in S THEN Cardinality(S) - 1 ELSE Cardinality(S)
    BY <2>1, FS_RemoveElement
  <2>3. Cardinality(T) \in Nat
    BY <2>2, FS_CardinalityType
  <2> QED
    BY <1>1, <1>3, <2>2, <2>3 DEF In
<1> QED
  BY <1>2, <1>3

\* A request has one pool, for ever.
LEMMA PoolFacts ==
    ASSUME TypeInv
    PROVE  /\ \A r \in Requests : Pool(r) \in Pools
           /\ \A r \in Votes : Pool(r) = "inflight"
           /\ Kind' = Kind => \A r \in Requests : Pool(r)' = Pool(r)
<1>1. ASSUME NEW r \in Requests PROVE Pool(r) \in Pools /\ (r \in Votes => Pool(r) = "inflight")
  <2>1. CASE Kind[r] = "vote"
    <3>1. Kind[r] # "get"
      BY <2>1
    <3>2. Pool(r) = "inflight"
      BY <2>1, <3>1, Zenon DEF Pool
    <3> QED
      BY <3>2 DEF Pools
  <2>2. CASE Kind[r] = "get"
    <3>1. Kind[r] # "vote"
      BY <2>2
    <3>2. Pool(r) = "readInflight"
      BY <2>2, <3>1, Zenon DEF Pool
    <3> QED
      BY <3>1, <3>2 DEF Pools, Votes
  <2>3. CASE Kind[r] # "vote" /\ Kind[r] # "get"
    <3>1. Pool(r) = "adminInflight"
      BY <2>3, Zenon DEF Pool
    <3> QED
      BY <2>3, <3>1 DEF Pools, Votes
  <2> QED
    BY <2>1, <2>2, <2>3
<1>2. ASSUME Kind' = Kind, NEW r \in Requests PROVE Pool(r)' = Pool(r)
  BY <1>2, Zenon DEF Pool
<1> QED
  BY <1>1, <1>2 DEF Votes

\* The counter of an outcome.
LEMMA CounterFacts ==
    ASSUME NEW o \in Outcomes
    PROVE  /\ CounterOf(o) \in {"accepted", "duplicates", "conflicts", "unknown", "rejected"}
           /\ CounterOf(o) = "accepted" <=> o = "accepted"
           /\ CounterOf(o) = "unknown" <=> o = "unknown"
<1>1. CASE o = "accepted"
  <2>1. o # "duplicate" /\ o # "conflict" /\ o # "unknown"
    BY <1>1
  <2>2. CounterOf(o) = "accepted"
    BY <1>1, <2>1, Zenon DEF CounterOf
  <2> QED
    BY <1>1, <2>2
<1>2. CASE o = "duplicate"
  <2>1. o # "accepted" /\ o # "conflict" /\ o # "unknown"
    BY <1>2
  <2>2. CounterOf(o) = "duplicates"
    BY <1>2, <2>1, Zenon DEF CounterOf
  <2> QED
    BY <1>2, <2>2
<1>3. CASE o = "conflict"
  <2>1. o # "accepted" /\ o # "duplicate" /\ o # "unknown"
    BY <1>3
  <2>2. CounterOf(o) = "conflicts"
    BY <1>3, <2>1, Zenon DEF CounterOf
  <2> QED
    BY <1>3, <2>2
<1>4. CASE o = "unknown"
  <2>1. o # "accepted" /\ o # "duplicate" /\ o # "conflict"
    BY <1>4
  <2>2. CounterOf(o) = "unknown"
    BY <1>4, <2>1, Zenon DEF CounterOf
  <2> QED
    BY <1>4, <2>2
<1>5. CASE o \notin {"accepted", "duplicate", "conflict", "unknown"}
  <2>1. o # "accepted" /\ o # "duplicate" /\ o # "conflict" /\ o # "unknown"
    BY <1>5
  <2>2. CounterOf(o) = "rejected"
    BY <2>1, Zenon DEF CounterOf
  <2> QED
    BY <2>1, <2>2
<1> QED
  BY <1>1, <1>2, <1>3, <1>4, <1>5

\* The books stay balanced when one request moves and the slots and counters
\* follow it.
Booked(r) ==
    /\ \A q \in Requests : q # r => hs'[q] = hs[q] /\ resp'[q] = resp[q]
    /\ gone' \cup early' \subseteq Requests
    /\ slots' \in [Pools -> Int] /\ cnt' \in [Counters -> Nat]
    /\ \A p \in Pools : slots'[p] = slots[p] + In(r, Holders(p)') - In(r, Holders(p))
    /\ \A p \in Pools : r \in Holders(p)' /\ r \notin Holders(p) => slots[p] < Limit[p]
    /\ cnt'["attempts"] - Answers' = cnt["attempts"] - Answers
                                       + In(r, Pending') - In(r, Pending)
    /\ \A o \in {"accepted", "unknown"} :
         cnt'[o] = cnt[o] + In(r, Answered(o)') - In(r, Answered(o))

LEMMA BooksMove ==
    ASSUME TypeInv, CountInv, Kind' = Kind, Limit' = Limit, UNCHANGED <<wrote, recorded>>,
           NEW r \in Requests, Booked(r)
    PROVE  CountInv'
<1>1. /\ \A q \in Requests : Pool(q)' = Pool(q)
      /\ Votes' = Votes /\ Votes \subseteq Requests
  BY PoolFacts DEF Votes
<1>2. \A q \in Requests : q # r => hs'[q] = hs[q] /\ resp'[q] = resp[q]
  BY DEF Booked
<1>3. ASSUME NEW p \in Pools
      PROVE  IsFiniteSet(Holders(p)') /\ slots'[p] = Cardinality(Holders(p)')
             /\ slots'[p] <= Limit'[p] /\ slots'[p] \in Nat
  <2>1. \A q : q # r => (q \in Holders(p)' <=> q \in Holders(p))
    BY <1>1, <1>2 DEF Holders, Active
  <2>2. IsFiniteSet(Holders(p)) /\ slots[p] = Cardinality(Holders(p)) /\ slots[p] <= Limit[p]
    BY DEF CountInv
  <2>3. /\ IsFiniteSet(Holders(p)') /\ Cardinality(Holders(p)) \in Nat
        /\ Cardinality(Holders(p)') \in Nat
        /\ Cardinality(Holders(p)') =
             Cardinality(Holders(p)) + In(r, Holders(p)') - In(r, Holders(p))
    BY <2>1, <2>2, OneChange
  <2>4. slots'[p] = slots[p] + In(r, Holders(p)') - In(r, Holders(p))
        /\ (r \in Holders(p)' /\ r \notin Holders(p) => slots[p] < Limit[p])
    BY DEF Booked
  <2>5. Limit[p] \in Nat /\ Limit' = Limit
    BY DEF CountInv
  <2>6. CASE r \in Holders(p)' /\ r \notin Holders(p)
    BY <2>2, <2>3, <2>4, <2>5, <2>6 DEF In
  <2>7. CASE ~ (r \in Holders(p)' /\ r \notin Holders(p))
    BY <2>2, <2>3, <2>4, <2>5, <2>7 DEF In
  <2> QED
    BY <2>6, <2>7
<1>4. IsFiniteSet(Pending') /\ cnt'["attempts"] = Answers' + Cardinality(Pending')
  <2>1. \A q : q # r => (q \in Pending' <=> q \in Pending)
    BY <1>1, <1>2 DEF Pending, Active
  <2>2. IsFiniteSet(Pending) /\ cnt["attempts"] = Answers + Cardinality(Pending)
    BY DEF CountInv
  <2>3. /\ IsFiniteSet(Pending') /\ Cardinality(Pending) \in Nat /\ Cardinality(Pending') \in Nat
        /\ Cardinality(Pending') = Cardinality(Pending) + In(r, Pending') - In(r, Pending)
    BY <2>1, <2>2, OneChange
  <2>4. /\ Answers \in Nat /\ cnt["attempts"] \in Nat
        /\ Answers' \in Nat /\ cnt'["attempts"] \in Nat
    BY DEF CountInv, Booked, Answers, Counters
  <2>5. cnt'["attempts"] - Answers' = cnt["attempts"] - Answers
                                        + In(r, Pending') - In(r, Pending)
    BY DEF Booked
  <2> QED
    BY <2>2, <2>3, <2>4, <2>5 DEF In
<1>5. ASSUME NEW o \in {"accepted", "unknown"}
      PROVE  IsFiniteSet(Answered(o)') /\ cnt'[o] = Cardinality(Answered(o)')
  <2>1. \A q : q # r => (q \in Answered(o)' <=> q \in Answered(o))
    BY <1>1, <1>2 DEF Answered
  <2>2. IsFiniteSet(Answered(o)) /\ cnt[o] = Cardinality(Answered(o))
    BY DEF CountInv
  <2>3. /\ IsFiniteSet(Answered(o)')
        /\ Cardinality(Answered(o)') =
             Cardinality(Answered(o)) + In(r, Answered(o)') - In(r, Answered(o))
    BY <2>1, <2>2, OneChange
  <2> QED
    BY <2>2, <2>3 DEF Booked
<1>6. Writing' = Writing /\ Stored' = Stored
  BY <1>1 DEF Writing, Stored
<1>7. /\ gone' \cup early' \cup wrote' \subseteq Requests /\ cnt' \in [Counters -> Nat]
      /\ Limit' \in [Pools -> Nat \ {0}]
  BY DEF Booked, CountInv
<1>8. slots' \in [Pools -> Nat]
  BY <1>3 DEF Booked
<1> QED
  BY <1>3, <1>4, <1>5, <1>6, <1>7, <1>8 DEF CountInv

\* One request moves: what is to be shown of its slot and its counters.
LEMMA BookOne ==
    ASSUME TypeInv, CountInv, Kind' = Kind, NEW r \in Requests, NEW S \in SUBSET Counters,
           \A q \in Requests : q # r => hs'[q] = hs[q] /\ resp'[q] = resp[q],
           gone' \cup early' \subseteq Requests,
           cnt' = [c \in Counters |-> IF c \in S THEN cnt[c] + 1 ELSE cnt[c]],
           \A p \in Pools : Pool(r) = p =>
             slots' = [slots EXCEPT ![p] = @ + In(r, Holders(p)') - In(r, Holders(p))],
           Active(r)' /\ ~ Active(r) => HasSlot(Pool(r)),
           In("attempts", S) - (In("accepted", S) + In("duplicates", S)
               + In("conflicts", S) + In("rejected", S) + In("unknown", S))
             = In(r, Pending') - In(r, Pending),
           \A o \in {"accepted", "unknown"} :
             In(o, S) = In(r, Answered(o)') - In(r, Answered(o))
    PROVE  Booked(r)
<1>1. /\ Pool(r)' = Pool(r) /\ Pool(r) \in Pools
      /\ slots \in [Pools -> Nat] /\ cnt \in [Counters -> Nat]
  BY PoolFacts DEF CountInv
<1>2. \A x, X : In(x, X) \in {0, 1}
  BY DEF In
<1>3. \A c \in Counters : cnt'[c] = cnt[c] + In(c, S) /\ cnt[c] \in Nat
  BY <1>1 DEF In
<1>4. cnt' \in [Counters -> Nat]
  BY <1>1
<1>5. slots' \in [Pools -> Int]
  BY <1>1, <1>2
<1>6. ASSUME NEW p \in Pools
      PROVE  /\ slots'[p] = slots[p] + In(r, Holders(p)') - In(r, Holders(p))
             /\ r \in Holders(p)' /\ r \notin Holders(p) => slots[p] < Limit[p]
  <2>1. /\ r \in Holders(p) <=> Active(r) /\ Pool(r) = p
        /\ r \in Holders(p)' <=> Active(r)' /\ Pool(r) = p
    BY <1>1 DEF Holders
  <2>2. CASE Pool(r) = p
    <3>1. slots'[p] = slots[p] + In(r, Holders(p)') - In(r, Holders(p))
      BY <1>1, <2>2
    <3> QED
      BY <2>1, <2>2, <3>1 DEF HasSlot
  <2>3. CASE Pool(r) # p
    <3>1. In(r, Holders(p)) = 0 /\ In(r, Holders(p)') = 0
      BY <2>1, <2>3 DEF In
    <3>2. slots'[p] = slots[p] /\ slots[p] \in Nat
      BY <1>1, <2>3
    <3> QED
      BY <2>1, <2>3, <3>1, <3>2
  <2> QED
    BY <2>2, <2>3
<1>7. cnt'["attempts"] - Answers' = cnt["attempts"] - Answers
                                      + In(r, Pending') - In(r, Pending)
  <2>1. \A c \in {"attempts", "accepted", "duplicates", "conflicts", "rejected", "unknown"} :
          cnt'[c] = cnt[c] + In(c, S) /\ cnt[c] \in Nat /\ In(c, S) \in Int
    BY <1>2, <1>3 DEF Counters
  <2>2. In(r, Pending') \in Int /\ In(r, Pending) \in Int
    BY <1>2
  <2>3. /\ cnt'["attempts"] = cnt["attempts"] + In("attempts", S)
        /\ cnt'["accepted"] = cnt["accepted"] + In("accepted", S)
        /\ cnt'["duplicates"] = cnt["duplicates"] + In("duplicates", S)
        /\ cnt'["conflicts"] = cnt["conflicts"] + In("conflicts", S)
        /\ cnt'["rejected"] = cnt["rejected"] + In("rejected", S)
        /\ cnt'["unknown"] = cnt["unknown"] + In("unknown", S)
    BY <2>1
  <2>4. /\ Answers' = Answers + (In("accepted", S) + In("duplicates", S)
                          + In("conflicts", S) + In("rejected", S) + In("unknown", S))
        /\ Answers \in Int /\ Answers' \in Int
    BY <2>1, <2>3 DEF Answers
  <2> QED
    BY <2>1, <2>2, <2>3, <2>4
<1>8. \A o \in {"accepted", "unknown"} :
        cnt'[o] = cnt[o] + In(r, Answered(o)') - In(r, Answered(o))
  <2>1. \A o \in {"accepted", "unknown"} :
          /\ cnt'[o] = cnt[o] + In(o, S) /\ cnt[o] \in Nat
          /\ In(r, Answered(o)') \in Int /\ In(r, Answered(o)) \in Int
    BY <1>2, <1>3 DEF Counters
  <2> QED
    BY <2>1
<1> QED
  BY <1>4, <1>5, <1>6, <1>7, <1>8 DEF Booked

\* A handler that answers gives its slot back and counts its answer.
Five == {"accepted", "duplicates", "conflicts", "rejected", "unknown"}
Counted(r, S, d) ==
    /\ r \notin Votes => S \cap (Five \cup {"attempts"}) = {}
    /\ r \in Votes /\ d = NoAnswer => S = {}
    /\ r \in Votes /\ d # NoAnswer =>
         \E c \in Five : /\ S \cap (Five \cup {"attempts"}) = {c}
                         /\ c = "accepted" <=> d.outcome = "accepted"
                         /\ c = "unknown" <=> d.outcome = "unknown"

LEMMA BookAnswer ==
    ASSUME TypeInv, CountInv, Kind' = Kind, NEW r \in Requests, NEW S \in SUBSET Counters, NEW d,
           hs[r] \in {"held", "waiting"}, Reply(r, d), Release(r), UNCHANGED <<gone, early>>,
           cnt' = [c \in Counters |-> IF c \in S THEN cnt[c] + 1 ELSE cnt[c]],
           Counted(r, S, d)
    PROVE  Booked(r)
<1>1. /\ Pool(r)' = Pool(r) /\ Pool(r) \in Pools /\ Votes' = Votes
      /\ slots \in [Pools -> Nat] /\ gone \cup early \subseteq Requests
  BY PoolFacts DEF CountInv, Votes
<1>2. /\ \A q \in Requests : q # r => hs'[q] = hs[q] /\ resp'[q] = resp[q]
      /\ hs'[r] = "done" /\ resp'[r] = d
  BY DEF TypeInv, Reply
<1>3. Active(r) /\ ~ Active(r)'
  BY <1>2 DEF Active
<1>4. \A p \in Pools : Pool(r) = p =>
        slots' = [slots EXCEPT ![p] = @ + In(r, Holders(p)') - In(r, Holders(p))]
  <2> SUFFICES ASSUME NEW p \in Pools, Pool(r) = p
               PROVE  slots' = [slots EXCEPT ![p] = @ + In(r, Holders(p)') - In(r, Holders(p))]
    OBVIOUS
  <2>1. r \in Holders(p) /\ r \notin Holders(p)'
    BY <1>1, <1>3 DEF Holders
  <2>2. In(r, Holders(p)) = 1 /\ In(r, Holders(p)') = 0
    BY <2>1 DEF In
  <2>3. slots[p] - 1 = slots[p] + 0 - 1
    BY <1>1
  <2> QED
    BY <2>2, <2>3 DEF Release
<1>5. /\ r \in Pending <=> r \in Votes
      /\ r \in Pending' <=> r \in Votes /\ d = NoAnswer
      /\ \A o \in {"accepted", "unknown"} :
           r \notin Answered(o) /\ (r \in Answered(o)' <=> r \in Votes /\ d.outcome = o)
  BY <1>1, <1>2, <1>3 DEF Pending, Answered
<1>6. /\ In("attempts", S) - (In("accepted", S) + In("duplicates", S)
               + In("conflicts", S) + In("rejected", S) + In("unknown", S))
             = In(r, Pending') - In(r, Pending)
      /\ \A o \in {"accepted", "unknown"} : In(o, S) = In(r, Answered(o)') - In(r, Answered(o))
  <2>1. CASE r \notin Votes
    <3>1. \A c \in Five \cup {"attempts"} : In(c, S) = 0
      BY <2>1 DEF Counted, In
    <3>2. /\ In(r, Pending) = 0 /\ In(r, Pending') = 0
          /\ \A o \in {"accepted", "unknown"} : In(r, Answered(o)) = 0 /\ In(r, Answered(o)') = 0
      BY <1>5, <2>1 DEF In
    <3> QED
      BY <3>1, <3>2 DEF Five
  <2>2. CASE r \in Votes /\ d = NoAnswer
    <3>1. \A c \in Five \cup {"attempts"} : In(c, S) = 0
      BY <2>2 DEF Counted, In
    <3>2. /\ In(r, Pending) = 1 /\ In(r, Pending') = 1
          /\ \A o \in {"accepted", "unknown"} : In(r, Answered(o)) = 0 /\ In(r, Answered(o)') = 0
      BY <1>5, <2>2 DEF In, NoAnswer, None
    <3> QED
      BY <3>1, <3>2 DEF Five
  <2>3. CASE r \in Votes /\ d # NoAnswer
    <3>1. PICK c \in Five : /\ S \cap (Five \cup {"attempts"}) = {c}
                            /\ c = "accepted" <=> d.outcome = "accepted"
                            /\ c = "unknown" <=> d.outcome = "unknown"
      BY <2>3 DEF Counted
    <3>2. /\ In("attempts", S) = 0 /\ In(c, S) = 1
          /\ \A e \in Five : e # c => In(e, S) = 0
      BY <3>1 DEF In, Five
    <3>3. /\ In(r, Pending) = 1 /\ In(r, Pending') = 0
          /\ \A o \in {"accepted", "unknown"} :
               In(r, Answered(o)) = 0 /\ In(r, Answered(o)') = IF o = c THEN 1 ELSE 0
      BY <1>5, <2>3, <3>1 DEF In
    <3> QED
      BY <3>2, <3>3 DEF Five
  <2> QED
    BY <2>1, <2>2, <2>3
<1>7. gone' \cup early' \subseteq Requests
  BY <1>1
<1>8. Active(r)' /\ ~ Active(r) => HasSlot(Pool(r))
  BY <1>3
<1> QED
  BY <1>2, <1>4, <1>6, <1>7, <1>8, BookOne

\* A request takes a slot and is counted as an attempt, or is refused.
LEMMA BookBegin ==
    ASSUME TypeInv, PlaceInv, CountInv, Kind' = Kind, Limit' = Limit, NEW r \in Requests, Begin(r)
    PROVE  Booked(r)
<1>1. /\ Pool(r)' = Pool(r) /\ Pool(r) \in Pools /\ Votes' = Votes
      /\ r \in Votes <=> Kind[r] = "vote"
      /\ r \in Votes => Pool(r) = "inflight"
      /\ slots \in [Pools -> Nat] /\ cnt \in [Counters -> Nat]
      /\ gone' \cup early' \subseteq Requests
  BY PoolFacts DEF CountInv, Votes, Begin
<1>2. hs[r] = "sent" /\ ~ Active(r) /\ resp[r] = NoAnswer
  BY DEF Begin, Active, PlaceInv
<1>3. /\ \A p \in Pools : In(r, Holders(p)) = 0
      /\ In(r, Pending) = 0
      /\ \A o \in {"accepted", "unknown"} : In(r, Answered(o)) = 0
  BY <1>2 DEF In, Holders, Pending, Answered
<1>4. CASE TakeSlot(r)
  <2>1. /\ \A q \in Requests : q # r => hs'[q] = hs[q] /\ resp'[q] = resp[q]
        /\ hs'[r] = "held" /\ Active(r)' /\ HasSlot(Pool(r))
        /\ slots' = [slots EXCEPT ![Pool(r)] = @ + 1]
    BY <1>4 DEF TypeInv, TakeSlot, Active
  <2>2. \A p \in Pools : Pool(r) = p =>
          slots' = [slots EXCEPT ![p] = @ + In(r, Holders(p)') - In(r, Holders(p))]
    <3> SUFFICES ASSUME NEW p \in Pools, Pool(r) = p
                 PROVE  slots' = [slots EXCEPT ![p] = @ + In(r, Holders(p)') - In(r, Holders(p))]
      OBVIOUS
    <3>1. In(r, Holders(p)') = 1 /\ In(r, Holders(p)) = 0
      BY <1>1, <1>3, <2>1 DEF In, Holders
    <3>2. slots[p] + 1 = slots[p] + 1 - 0
      BY <1>1
    <3> QED
      BY <2>1, <3>1, <3>2
  <2>3. /\ In(r, Pending') = IF r \in Votes THEN 1 ELSE 0
        /\ \A o \in {"accepted", "unknown"} : In(r, Answered(o)') = 0
    BY <1>1, <2>1 DEF In, Pending, Answered
  <2> DEFINE S == IF r \in Votes THEN {"attempts"} ELSE {}
  <2>4. S \in SUBSET Counters /\ cnt' = [c \in Counters |-> IF c \in S THEN cnt[c] + 1 ELSE cnt[c]]
    <3>1. CASE r \in Votes
      <4>1. Count({"attempts"})
        BY <1>1, <1>4, <3>1 DEF Begin, TakeSlot, NoSlot
      <4> QED
        BY <4>1, <3>1 DEF Count, Counters
    <3>2. CASE r \notin Votes
      <4>1. cnt' = cnt
        BY <1>1, <3>2 DEF Begin
      <4> QED
        BY <1>1, <4>1, <3>2
    <3> QED
      BY <3>1, <3>2
  <2>5. /\ In("attempts", S) = IF r \in Votes THEN 1 ELSE 0
        /\ \A c \in Five : In(c, S) = 0
    BY DEF In, Five
  <2>6. /\ In("attempts", S) - (In("accepted", S) + In("duplicates", S)
               + In("conflicts", S) + In("rejected", S) + In("unknown", S))
             = In(r, Pending') - In(r, Pending)
        /\ \A o \in {"accepted", "unknown"} : In(o, S) = In(r, Answered(o)') - In(r, Answered(o))
    BY <1>3, <2>3, <2>5 DEF Five
  <2> HIDE DEF S
  <2> QED
    BY <1>1, <2>1, <2>2, <2>4, <2>6, BookOne
<1>5. ASSUME NEW d, d # NoAnswer, d.outcome \notin {"accepted", "unknown"},
             Reply(r, d), UNCHANGED slots,
             NEW S \in SUBSET Counters,
             cnt' = [c \in Counters |-> IF c \in S THEN cnt[c] + 1 ELSE cnt[c]],
             r \in Votes => S = {"attempts", "rejected"},
             r \notin Votes => S = {}
      PROVE  Booked(r)
  <2>1. /\ \A q \in Requests : q # r => hs'[q] = hs[q] /\ resp'[q] = resp[q]
        /\ hs'[r] = "done" /\ resp'[r] = d /\ ~ Active(r)'
    BY <1>5 DEF TypeInv, Reply, Active
  <2>2. \A p \in Pools : Pool(r) = p =>
          slots' = [slots EXCEPT ![p] = @ + In(r, Holders(p)') - In(r, Holders(p))]
    <3> SUFFICES ASSUME NEW p \in Pools, Pool(r) = p
                 PROVE  slots' = [slots EXCEPT ![p] = @ + In(r, Holders(p)') - In(r, Holders(p))]
      OBVIOUS
    <3>1. In(r, Holders(p)') = 0 /\ In(r, Holders(p)) = 0
      BY <1>1, <1>3, <2>1 DEF In, Holders
    <3>2. slots[p] = slots[p] + 0 - 0
      BY <1>1
    <3>3. slots = [slots EXCEPT ![p] = slots[p]]
      BY <1>1
    <3> QED
      BY <1>5, <3>1, <3>2, <3>3
  <2>3. /\ In(r, Pending') = 0
        /\ \A o \in {"accepted", "unknown"} : In(r, Answered(o)') = 0
    BY <1>1, <1>5, <2>1 DEF In, Pending, Answered
  <2>4. In("attempts", S) = In("rejected", S) /\ In("rejected", S) \in Int
    BY <1>5 DEF In
  <2>5. \A c \in Five : c # "rejected" => In(c, S) = 0
    BY <1>5 DEF In, Five
  <2>6. /\ In("attempts", S) - (In("accepted", S) + In("duplicates", S)
               + In("conflicts", S) + In("rejected", S) + In("unknown", S))
             = In(r, Pending') - In(r, Pending)
        /\ \A o \in {"accepted", "unknown"} : In(o, S) = In(r, Answered(o)') - In(r, Answered(o))
    BY <1>3, <2>3, <2>4, <2>5 DEF Five
  <2> QED
    BY <1>1, <1>5, <2>1, <2>2, <2>6, BookOne
<1>6. CASE NoSlot(r)
  <2> DEFINE d == Answer(503, IF Kind[r] = "vote" THEN "not_admitted" ELSE "busy")
  <2>1. d # NoAnswer /\ d.outcome \notin {"accepted", "unknown"}
    BY DEF Answer, NoAnswer, None
  <2>2. Reply(r, d) /\ UNCHANGED slots
    BY <1>6 DEF NoSlot
  <2> HIDE DEF d
  <2>3. CASE r \in Votes
    <3>1. Count({"attempts", "rejected"})
      BY <1>1, <1>6, <2>3 DEF Begin, TakeSlot, NoSlot
    <3> QED
      BY <1>5, <2>1, <2>2, <2>3, <3>1 DEF Count, Counters
  <2>4. CASE r \notin Votes
    <3>1. cnt' = cnt
      BY <1>1, <2>4 DEF Begin
    <3>2. PICK S \in SUBSET Counters : S = {}
      OBVIOUS
    <3>3. cnt' = [c \in Counters |-> IF c \in S THEN cnt[c] + 1 ELSE cnt[c]]
      BY <1>1, <3>1, <3>2
    <3> QED
      BY <1>5, <2>1, <2>2, <2>4, <3>2, <3>3
  <2> QED
    BY <2>3, <2>4
<1>7. CASE /\ Pool(r) = "adminInflight" /\ UNCHANGED cnt
           /\ Reply(r, Answer(401, None)) /\ UNCHANGED slots
  <2>1. Answer(401, None) # NoAnswer /\ Answer(401, None).outcome \notin {"accepted", "unknown"}
    BY DEF Answer, NoAnswer, None
  <2>2. r \notin Votes
    BY <1>7, PoolFacts
  <2>3. PICK S \in SUBSET Counters : S = {}
    OBVIOUS
  <2>4. cnt' = [c \in Counters |-> IF c \in S THEN cnt[c] + 1 ELSE cnt[c]]
    BY <1>1, <1>7, <2>3
  <2> QED
    BY <1>5, <1>7, <2>1, <2>2, <2>3, <2>4
<1> QED
  BY <1>4, <1>6, <1>7 DEF Begin

\* A vote's operation starts: it stays in progress.
LEMMA BookStart ==
    ASSUME TypeInv, CountInv, Kind' = Kind, NEW r \in Requests, StartOperation(r)
    PROVE  Booked(r)
<1>1. /\ Pool(r)' = Pool(r) /\ Pool(r) \in Pools /\ Votes' = Votes
      /\ slots \in [Pools -> Nat] /\ cnt \in [Counters -> Nat]
      /\ gone' \cup early' \subseteq Requests
  BY PoolFacts DEF CountInv, Votes, StartOperation
<1>2. /\ \A q \in Requests : q # r => hs'[q] = hs[q] /\ resp'[q] = resp[q]
      /\ Active(r) /\ Active(r)' /\ hs[r] = "held" /\ hs'[r] = "waiting"
  BY DEF TypeInv, StartOperation, Active
<1>3. \A p \in Pools : r \in Holders(p)' <=> r \in Holders(p)
  BY <1>1, <1>2 DEF Holders
<1>4. /\ r \in Pending' <=> r \in Pending
      /\ \A o \in {"accepted", "unknown"} : r \notin Answered(o) /\ r \notin Answered(o)'
  BY <1>1, <1>2 DEF Pending, Answered
<1>5. /\ \A p \in Pools : In(r, Holders(p)') = In(r, Holders(p)) /\ In(r, Holders(p)) \in Int
      /\ In(r, Pending') = In(r, Pending) /\ In(r, Pending) \in Int
      /\ \A o \in {"accepted", "unknown"} : In(r, Answered(o)) = 0 /\ In(r, Answered(o)') = 0
      /\ \A c \in Counters : In(c, {}) = 0
  BY <1>3, <1>4 DEF In
<1>6. cnt' = [c \in Counters |-> IF c \in {} THEN cnt[c] + 1 ELSE cnt[c]]
  BY <1>1 DEF StartOperation
<1>7. \A p \in Pools : Pool(r) = p =>
        slots' = [slots EXCEPT ![p] = @ + In(r, Holders(p)') - In(r, Holders(p))]
  <2> SUFFICES ASSUME NEW p \in Pools
               PROVE  slots' = [slots EXCEPT ![p] = @ + In(r, Holders(p)') - In(r, Holders(p))]
    OBVIOUS
  <2>1. slots[p] + In(r, Holders(p)') - In(r, Holders(p)) = slots[p]
    BY <1>1, <1>5
  <2>2. slots = [slots EXCEPT ![p] = slots[p]]
    BY <1>1
  <2> QED
    BY <2>1, <2>2 DEF StartOperation
<1>8. /\ In("attempts", {}) - (In("accepted", {}) + In("duplicates", {})
               + In("conflicts", {}) + In("rejected", {}) + In("unknown", {}))
             = In(r, Pending') - In(r, Pending)
      /\ \A o \in {"accepted", "unknown"} : In(o, {}) = In(r, Answered(o)') - In(r, Answered(o))
  BY <1>5 DEF Counters
<1>9. {} \in SUBSET Counters
  OBVIOUS
<1> QED
  BY <1>1, <1>2, <1>6, <1>7, <1>8, <1>9, BookOne

\* What the steps of one handler do to the books.
LEMMA HandleBooks ==
    ASSUME TypeInv, PlaceInv, CountInv, CoverInv, Kind' = Kind, Limit' = Limit,
           NEW r \in Requests, Handle(r)
    PROVE  Booked(r) /\ UNCHANGED <<wrote, recorded>>
<1>1. /\ cnt \in [Counters -> Nat]
      /\ r \in Votes <=> Kind[r] = "vote"
  BY DEF CountInv, Votes
<1>2. PICK E \in SUBSET Counters : E = {}
  OBVIOUS
<1>3. cnt = [c \in Counters |-> IF c \in E THEN cnt[c] + 1 ELSE cnt[c]]
  BY <1>1, <1>2
<1>4. CASE Begin(r)
  BY <1>4, BookBegin DEF Begin
<1>5. CASE Malformed(r)
  <2>1. /\ hs[r] \in {"held", "waiting"} /\ Reply(r, Answer(400, None)) /\ Release(r)
        /\ UNCHANGED <<gone, early, wrote, recorded>>
    BY <1>5 DEF Malformed
  <2>2. Answer(400, None) # NoAnswer /\ Answer(400, None).outcome \notin {"accepted", "unknown"}
    BY DEF Answer, NoAnswer, None
  <2>3. CASE Kind[r] = "vote"
    <3>1. PICK S \in SUBSET Counters : S = {"rejected"}
      BY DEF Counters
    <3>2. cnt' = [c \in Counters |-> IF c \in S THEN cnt[c] + 1 ELSE cnt[c]]
      BY <1>5, <2>3, <3>1 DEF Malformed, Count
    <3>3. \E c \in Five : /\ S \cap (Five \cup {"attempts"}) = {c}
                          /\ c = "accepted" <=> Answer(400, None).outcome = "accepted"
                          /\ c = "unknown" <=> Answer(400, None).outcome = "unknown"
      <4>1. "rejected" \in Five /\ S \cap (Five \cup {"attempts"}) = {"rejected"}
        BY <3>1 DEF Five
      <4> QED
        BY <2>2, <4>1
    <3>4. Counted(r, S, Answer(400, None))
      BY <1>1, <2>2, <2>3, <3>3 DEF Counted
    <3> QED
      BY <2>1, <3>2, <3>4, BookAnswer
  <2>4. CASE Kind[r] # "vote"
    <3>1. cnt' = cnt
      BY <1>5, <2>4 DEF Malformed
    <3>2. Counted(r, E, Answer(400, None))
      BY <1>1, <1>2, <2>4 DEF Counted
    <3> QED
      BY <1>3, <2>1, <3>1, <3>2, BookAnswer
  <2> QED
    BY <2>3, <2>4
<1>6. CASE ClientLeft(r)
  <2>1. /\ hs[r] \in {"held", "waiting"} /\ Reply(r, NoAnswer) /\ Release(r)
        /\ UNCHANGED <<gone, early, wrote, recorded, cnt>>
    BY <1>6 DEF ClientLeft
  <2>2. Counted(r, E, NoAnswer)
    BY <1>2 DEF Counted
  <2> QED
    BY <1>3, <2>1, <2>2, BookAnswer
<1>7. CASE StartOperation(r)
  BY <1>7, BookStart DEF StartOperation
<1>8. CASE AnswerError(r)
  <2> DEFINE d == Answer(503, ErrorOutcome(r))
  <2>1. /\ hs[r] \in {"held", "waiting"} /\ Reply(r, d) /\ Release(r)
        /\ UNCHANGED <<gone, early, wrote, recorded>>
    BY <1>8 DEF AnswerError
  <2>2. d # NoAnswer /\ (Kind[r] = "vote" => d.outcome = "unknown")
    BY DEF Answer, NoAnswer, None, ErrorOutcome
  <2> HIDE DEF d
  <2>3. CASE Kind[r] = "vote"
    <3>1. PICK S \in SUBSET Counters : S = {"storageErrors", "unknown"}
      BY DEF Counters
    <3>2. cnt' = [c \in Counters |-> IF c \in S THEN cnt[c] + 1 ELSE cnt[c]]
      BY <1>8, <2>3, <3>1 DEF AnswerError, Count
    <3>3. \E c \in Five : /\ S \cap (Five \cup {"attempts"}) = {c}
                          /\ c = "accepted" <=> d.outcome = "accepted"
                          /\ c = "unknown" <=> d.outcome = "unknown"
      <4>1. "unknown" \in Five /\ S \cap (Five \cup {"attempts"}) = {"unknown"}
        BY <3>1 DEF Five
      <4> QED
        BY <2>2, <2>3, <4>1
    <3>4. Counted(r, S, d)
      BY <1>1, <2>2, <2>3, <3>3 DEF Counted
    <3> QED
      BY <2>1, <3>2, <3>4, BookAnswer
  <2>4. CASE Kind[r] # "vote"
    <3>1. PICK S \in SUBSET Counters : S = {"storageErrors"}
      BY DEF Counters
    <3>2. cnt' = [c \in Counters |-> IF c \in S THEN cnt[c] + 1 ELSE cnt[c]]
      BY <1>8, <2>4, <3>1 DEF AnswerError, Count
    <3>3. Counted(r, S, d)
      BY <1>1, <2>4, <3>1 DEF Counted, Five
    <3> QED
      BY <2>1, <3>2, <3>3, BookAnswer
  <2> QED
    BY <2>3, <2>4
<1>9. CASE AnswerVote(r)
  <2> DEFINE d == [status |-> StatusOf(out[r].status), outcome |-> out[r].status,
                   choice |-> ChoiceOf(r)]
             k == CounterOf(out[r].status)
  <2>1. /\ hs[r] \in {"held", "waiting"} /\ Reply(r, d) /\ Release(r)
        /\ UNCHANGED <<gone, early, wrote, recorded>>
    BY <1>9 DEF AnswerVote
  <2>2. out[r].status \in Outcomes /\ r \in Votes /\ Count({k})
    BY <1>1, <1>9 DEF AnswerVote, CoverInv
  <2>3. /\ k \in Five /\ (k = "accepted" <=> d.outcome = "accepted")
        /\ k = "unknown" <=> d.outcome = "unknown"
    BY <2>2, CounterFacts DEF Five
  <2>4. d # NoAnswer
    BY <2>2 DEF Outcomes, NoAnswer, None
  <2> HIDE DEF d, k
  <2>5. PICK S \in SUBSET Counters : S = {k}
    BY <2>3 DEF Counters, Five
  <2>6. cnt' = [c \in Counters |-> IF c \in S THEN cnt[c] + 1 ELSE cnt[c]]
    BY <2>2, <2>5 DEF Count
  <2>7. S \cap (Five \cup {"attempts"}) = {k}
    BY <2>3, <2>5
  <2>8. Counted(r, S, d)
    BY <2>2, <2>3, <2>4, <2>7 DEF Counted
  <2> QED
    BY <2>1, <2>6, <2>8, BookAnswer
<1>10. CASE AnswerRead(r) \/ AnswerCreate(r)
  <2>1. PICK d : Reply(r, d)
    BY <1>10 DEF AnswerRead, AnswerCreate
  <2>2. /\ hs[r] \in {"held", "waiting"} /\ Release(r) /\ r \notin Votes
        /\ UNCHANGED <<gone, early, wrote, recorded, cnt>>
    BY <1>1, <1>10 DEF AnswerRead, AnswerCreate
  <2>3. Counted(r, E, d)
    BY <1>2, <2>2 DEF Counted
  <2> QED
    BY <1>3, <2>1, <2>2, <2>3, BookAnswer
<1> QED
  BY <1>4, <1>5, <1>6, <1>7, <1>8, <1>9, <1>10 DEF Handle

Recorded == IsFiniteSet(Writing) /\ IsFiniteSet(Stored) /\ Cardinality(Writing) = Cardinality(Stored)

\* A request ends before it reaches its handler, and no counter takes it.
TurnedAway(r) == hs[r] # "done" /\ resp'[r] # NoAnswer /\ resp'[r].outcome = None

\* A step that moves no request into or out of its handler leaves the slots
\* and the counters as they are.
LEMMA BooksStill ==
    ASSUME TypeInv, CountInv, Kind' = Kind, Limit' = Limit, UNCHANGED <<slots, cnt>>,
           gone' \cup early' \cup wrote' \subseteq Requests,
           \A r \in Requests : Active(r)' <=> Active(r),
           \A r \in Requests : \/ /\ hs'[r] = "done" <=> hs[r] = "done"
                                  /\ resp'[r] = resp[r]
                               \/ TurnedAway(r),
           Recorded'
    PROVE  CountInv'
<1>1. /\ \A q \in Requests : Pool(q)' = Pool(q)
      /\ Votes' = Votes /\ Votes \subseteq Requests
  BY PoolFacts DEF Votes
<1>2. \A p \in Pools : Holders(p)' = Holders(p)
  BY <1>1 DEF Holders
<1>3. Pending' = Pending /\ \A o \in {"accepted", "unknown"} : Answered(o)' = Answered(o)
  BY <1>1 DEF Pending, Answered, TurnedAway, None
<1>4. /\ gone' \cup early' \cup wrote' \subseteq Requests
      /\ Limit' \in [Pools -> Nat \ {0}]
      /\ slots' \in [Pools -> Nat] /\ cnt' \in [Counters -> Nat]
  BY DEF CountInv
<1>5. \A p \in Pools : IsFiniteSet(Holders(p)') /\ slots'[p] = Cardinality(Holders(p)')
                       /\ slots'[p] <= Limit'[p]
  BY <1>2 DEF CountInv
<1>6. IsFiniteSet(Pending') /\ cnt'["attempts"] = Answers' + Cardinality(Pending')
  BY <1>3 DEF CountInv, Answers
<1>7. \A o \in {"accepted", "unknown"} :
        IsFiniteSet(Answered(o)') /\ cnt'[o] = Cardinality(Answered(o)')
  BY <1>3 DEF CountInv
<1> QED
  BY <1>4, <1>5, <1>6, <1>7 DEF CountInv, Recorded

\* An operation that records a vote records it for a token that had none.
LEMMA ExecuteRecords ==
    ASSUME TypeInv, PlaceInv, OutInv, CountInv, Kind' = Kind, NEW r \in Requests, Execute(r)
    PROVE  Recorded' /\ wrote' \subseteq Requests
<1>1. /\ Votes' = Votes /\ r \notin wrote /\ hs[r] # "idle"
      /\ wrote \subseteq Requests /\ Recorded
  BY DEF Votes, Execute, OutInv, PlaceInv, CountInv, None, Recorded
<1>2. CASE UNCHANGED <<recorded, wrote>>
  <2>1. Writing' = Writing /\ Stored' = Stored
    BY <1>1, <1>2 DEF Writing, Stored
  <2> QED
    BY <1>1, <1>2, <2>1 DEF Recorded
<1>3. CASE Kind[r] = "create" /\ UNCHANGED recorded /\ wrote' = wrote \cup {r}
  <2>1. Writing' = Writing /\ Stored' = Stored
    BY <1>1, <1>3 DEF Writing, Stored, Votes
  <2> QED
    BY <1>1, <1>3, <2>1 DEF Recorded
<1>4. CASE /\ Kind[r] = "vote" /\ recorded[body[r].token] = None
           /\ recorded' = [recorded EXCEPT ![body[r].token] = body[r].choice]
           /\ wrote' = wrote \cup {r}
  <2>1. body[r] \in [token : Tokens, choice : Choices]
    BY <1>1, <1>4 DEF PlaceInv
  <2>2. Writing' = Writing \cup {r} /\ r \notin Writing
    BY <1>1, <1>4 DEF Writing, Votes
  <2>3. Stored' = Stored \cup {body[r].token} /\ body[r].token \notin Stored
    BY <1>4, <2>1, ChoiceAssumption DEF Stored, TypeInv
  <2>4. /\ IsFiniteSet(Writing') /\ Cardinality(Writing') = Cardinality(Writing) + 1
        /\ IsFiniteSet(Stored') /\ Cardinality(Stored') = Cardinality(Stored) + 1
    BY <1>1, <2>2, <2>3, FS_AddElement DEF Recorded
  <2> QED
    BY <1>1, <1>4, <2>4 DEF Recorded
<1>5. \/ UNCHANGED <<recorded, wrote>>
      \/ Kind[r] = "create" /\ UNCHANGED recorded /\ wrote' = wrote \cup {r}
      \/ /\ Kind[r] = "vote" /\ recorded[body[r].token] = None
         /\ recorded' = [recorded EXCEPT ![body[r].token] = body[r].choice]
         /\ wrote' = wrote \cup {r}
  BY DEF Execute, Vote, Read, Create
<1> QED
  BY <1>2, <1>3, <1>4, <1>5

\* The books are balanced at first and every step keeps them so.
LEMMA InitCountInv == ServerInit => CountInv /\ CoverInv
<1> SUFFICES ASSUME ServerInit PROVE CountInv /\ CoverInv
  OBVIOUS
<1>1. \A r \in Requests : hs[r] = "idle" /\ op[r] = None /\ ~ Active(r)
  BY DEF ServerInit, Active
<1>2. /\ \A p \in Pools : Holders(p) = {} /\ slots[p] = 0
      /\ Pending = {} /\ Writing = {} /\ Stored = {}
      /\ \A o : Answered(o) = {}
      /\ \A c \in Counters : cnt[c] = 0
  BY <1>1 DEF ServerInit, Holders, Pending, Writing, Stored, Answered, Votes
<1>3. IsFiniteSet({}) /\ Cardinality({}) = 0
  BY FS_EmptySet
<1>4. /\ Limit \in [Pools -> Nat \ {0}] /\ slots \in [Pools -> Nat] /\ cnt \in [Counters -> Nat]
      /\ gone \cup early \cup wrote \subseteq Requests
  BY LimitAssumption DEF ServerInit
<1>5. Answers = 0 /\ cnt["attempts"] = 0 /\ cnt["accepted"] = 0 /\ cnt["unknown"] = 0
  BY <1>2 DEF Answers, Counters
<1>6. \A p \in Pools : IsFiniteSet(Holders(p)) /\ slots[p] = Cardinality(Holders(p))
                       /\ slots[p] <= Limit[p]
  BY <1>2, <1>3, <1>4
<1>7. CountInv
  <2>1. IsFiniteSet(Pending) /\ cnt["attempts"] = Answers + Cardinality(Pending)
    BY <1>2, <1>3, <1>5
  <2>2. \A o \in {"accepted", "unknown"} :
          IsFiniteSet(Answered(o)) /\ cnt[o] = Cardinality(Answered(o))
    BY <1>2, <1>3, <1>5
  <2>3. IsFiniteSet(Writing) /\ IsFiniteSet(Stored) /\ Cardinality(Writing) = Cardinality(Stored)
    BY <1>2, <1>3
  <2> QED
    BY <1>4, <1>6, <2>1, <2>2, <2>3 DEF CountInv
<1>8. CoverInv
  BY <1>1, <1>2 DEF CoverInv, Votes, ServerInit, None
<1> QED
  BY <1>7, <1>8

LEMMA NextCountInv ==
    TypeInv /\ PlaceInv /\ OutInv /\ CountInv /\ CoverInv
        /\ [Next /\ UNCHANGED setting]_<<server, setting>> => CountInv'
<1> SUFFICES ASSUME TypeInv, PlaceInv, OutInv, CountInv, CoverInv,
                    [Next /\ UNCHANGED setting]_<<server, setting>>
             PROVE  CountInv'
  OBVIOUS
<1>1. Kind' = Kind /\ Limit' = Limit
  BY DEF setting
<1>2. gone \cup early \cup wrote \subseteq Requests /\ Recorded /\ DOMAIN hs = Requests
  BY DEF CountInv, Recorded, TypeInv
<1>3. UNCHANGED <<wrote, recorded>> => Recorded'
  BY <1>1, <1>2 DEF Recorded, Writing, Stored, Votes
<1>4. ASSUME NEW r \in Requests, Handle(r) PROVE CountInv'
  BY <1>1, <1>4, HandleBooks, BooksMove
<1>5. ASSUME NEW r \in Requests, Execute(r) PROVE CountInv'
  <2>1. UNCHANGED <<slots, cnt, resp, hs, gone, early>>
    BY <1>5 DEF Execute
  <2>2. Recorded' /\ wrote' \subseteq Requests
    BY <1>1, <1>5, ExecuteRecords
  <2> QED
    BY <1>1, <1>2, <2>1, <2>2, BooksStill DEF Active
<1>6. ASSUME NEW r \in Requests, OperationFails(r) PROVE CountInv'
  BY <1>1, <1>2, <1>3, <1>6, BooksStill DEF OperationFails, Active
<1>7. ASSUME NEW r \in Requests, Leave(r) PROVE CountInv'
  BY <1>1, <1>2, <1>3, <1>7, BooksStill DEF Leave, Active
<1>8. ASSUME NEW r \in Requests, NEW b \in Bodies(r), Send(r, b) PROVE CountInv'
  <2>1. UNCHANGED <<slots, cnt, resp, gone, early, wrote, recorded>>
    BY <1>8 DEF Send
  <2>2. hs[r] = "idle" /\ hs' = [hs EXCEPT ![r] = "sent"]
    BY <1>8 DEF Send
  <2>3. \A q \in Requests : /\ Active(q)' <=> Active(q)
                            /\ hs'[q] = "done" <=> hs[q] = "done"
    BY <1>2, <2>2 DEF Active, TypeInv
  <2> QED
    BY <1>1, <1>2, <1>3, <2>1, <2>3, BooksStill
<1>9. CASE TimePasses
  BY <1>1, <1>2, <1>3, <1>9, BooksStill DEF TimePasses, Active
<1>10. ASSUME NEW r \in Requests, ForeignOrigin(r) PROVE CountInv'
  <2>1. UNCHANGED <<slots, cnt, gone, early, wrote, recorded>>
    BY <1>10 DEF ForeignOrigin
  <2>2. /\ hs[r] = "sent" /\ hs' = [hs EXCEPT ![r] = "done"]
        /\ resp' = [resp EXCEPT ![r] = Answer(403, None)]
    BY <1>10 DEF ForeignOrigin, Reply
  <2>3. \A q \in Requests : Active(q)' <=> Active(q)
    BY <1>2, <2>2 DEF Active
  <2>4. TurnedAway(r)
    BY <2>2 DEF TurnedAway, TypeInv, Answer, NoAnswer, None
  <2>5. \A q \in Requests : q # r => hs'[q] = hs[q] /\ resp'[q] = resp[q]
    BY <2>2
  <2> QED
    BY <1>1, <1>2, <1>3, <2>1, <2>3, <2>4, <2>5, BooksStill
<1>11. CASE UNCHANGED <<server, setting>>
  BY <1>1, <1>2, <1>3, <1>11, BooksStill DEF server, Active
<1> QED
  BY <1>4, <1>5, <1>6, <1>7, <1>8, <1>9, <1>10, <1>11 DEF Next, ServerStep

\* What was recorded stays covered by an answer, and what was answered by a record.
LEMMA NextCoverInv ==
    TypeInv /\ PlaceInv /\ OutInv /\ CoverInv
        /\ [Next /\ UNCHANGED setting]_<<server, setting>> => CoverInv'
<1> SUFFICES ASSUME TypeInv, PlaceInv, OutInv, CoverInv,
                    [Next /\ UNCHANGED setting]_<<server, setting>>
             PROVE  CoverInv'
  OBVIOUS
<1> USE DEF TypeInv, PlaceInv, OutInv, CoverInv, Votes, Answered, None, NoAnswer
<1>0. Kind' = Kind /\ Limit' = Limit
  BY DEF setting
<1> USE <1>0
<1>1. ASSUME NEW r \in Requests, Begin(r) PROVE CoverInv'
  BY <1>1 DEF Begin, TakeSlot, NoSlot, Reply, Answer, Count
<1>2. ASSUME NEW r \in Requests, Malformed(r) PROVE CoverInv'
  BY <1>2 DEF Malformed, Reply, Answer, Release, Count
<1>3. ASSUME NEW r \in Requests, ClientLeft(r) PROVE CoverInv'
  BY <1>3 DEF ClientLeft, Reply, Release
<1>4. ASSUME NEW r \in Requests, StartOperation(r) PROVE CoverInv'
  BY <1>4 DEF StartOperation
<1>5. ASSUME NEW r \in Requests, Execute(r) PROVE CoverInv'
  <2>1. /\ op[r] = "running" /\ hs[r] \in {"waiting", "done"} /\ r \notin wrote
        /\ op' = [op EXCEPT ![r] = "done"] /\ UNCHANGED <<hs, resp>>
    BY <1>5 DEF Execute
  <2>2. CASE Kind[r] = "vote" /\ Vote(r)
    <3>1. \/ /\ wrote' = wrote
             /\ \E o \in Outcomes \ {"accepted"} : \E c : out' = [out EXCEPT ![r] = Outcome(o, c)]
          \/ wrote' = wrote \cup {r} /\ out' = [out EXCEPT ![r] = Outcome("accepted", body[r].choice)]
      BY <2>2 DEF Vote, Outcomes
    <3>2. /\ out'[r].status \in Outcomes
          /\ out'[r].status = "accepted" => r \in wrote'
          /\ \A q \in Requests : q # r => out'[q] = out[q] /\ (q \in wrote' <=> q \in wrote)
          /\ wrote \subseteq wrote'
      BY <3>1 DEF Outcome, Outcomes
    <3> QED
      BY <2>1, <2>2, <3>2
  <2>3. CASE Kind[r] # "vote" /\ (Read(r) \/ Create(r))
    <3>1. \A q \in Votes : out'[q] = out[q] /\ (q \in wrote' <=> q \in wrote) /\ op'[q] = op[q]
      BY <2>1, <2>3 DEF Read, Create
    <3> QED
      BY <2>1, <3>1
  <2> QED
    BY <1>5, <2>2, <2>3 DEF Execute
<1>6. ASSUME NEW r \in Requests, OperationFails(r) PROVE CoverInv'
  BY <1>6 DEF OperationFails
<1>7. ASSUME NEW r \in Requests, AnswerError(r) PROVE CoverInv'
  BY <1>7 DEF AnswerError, Reply, Answer, ErrorOutcome
<1>8. ASSUME NEW r \in Requests, AnswerVote(r) PROVE CoverInv'
  BY <1>8 DEF AnswerVote, Reply
<1>9. ASSUME NEW r \in Requests, AnswerRead(r) \/ AnswerCreate(r) PROVE CoverInv'
  <2>1. PICK d : Reply(r, d)
    BY <1>9 DEF AnswerRead, AnswerCreate
  <2>2. r \notin Votes /\ UNCHANGED <<op, out, wrote>>
    BY <1>9 DEF AnswerRead, AnswerCreate
  <2> QED
    BY <2>1, <2>2 DEF Reply
<1>10. ASSUME NEW r \in Requests, Leave(r) PROVE CoverInv'
  BY <1>10 DEF Leave
<1>11. ASSUME NEW r \in Requests, NEW b \in Bodies(r), Send(r, b) PROVE CoverInv'
  BY <1>11 DEF Send
<1>12. CASE TimePasses
  BY <1>12 DEF TimePasses
<1>13. ASSUME NEW r \in Requests, ForeignOrigin(r) PROVE CoverInv'
  BY <1>13 DEF ForeignOrigin, Reply, Answer
<1>14. CASE UNCHANGED <<server, setting>>
  BY <1>14 DEF server
<1> QED
  BY <1>1, <1>2, <1>3, <1>4, <1>5, <1>6, <1>7, <1>8, <1>9, <1>10, <1>11, <1>12,
     <1>13, <1>14
  DEF Next, ServerStep, Handle

\* The invariants imply that the books balance: a vote on record is answered as
\* accepted, as unknown, or not yet, and an accepted one is on record.
LEMMA BooksFollow == TypeInv /\ CountInv /\ CoverInv => BooksBalance
<1> SUFFICES ASSUME TypeInv, CountInv, CoverInv PROVE BooksBalance
  OBVIOUS
<1>1. TypeOK
  BY DEF TypeOK, TypeInv, CountInv
<1>2. SlotsBalanced
  BY DEF SlotsBalanced, CountInv, Holders
<1>3. CountersAddUp
  BY DEF CountersAddUp, CountInv, Answers, Pending
<1>4. AcceptedOnce
  <2> DEFINE Waiting == {r \in Votes : hs[r] = "waiting"}
             A == Answered("accepted")
             U == Answered("unknown")
  <2>1. /\ IsFiniteSet(A) /\ cnt["accepted"] = Cardinality(A)
        /\ IsFiniteSet(U) /\ cnt["unknown"] = Cardinality(U)
        /\ IsFiniteSet(Writing) /\ Cardinality(Writing) = Cardinality(Stored)
    BY DEF CountInv
  <2>2. IsFiniteSet(Waiting)
    <3>1. Waiting \subseteq Holders("inflight")
      BY PoolFacts DEF Holders, Active, Votes
    <3> QED
      BY <3>1, FS_Subset DEF CountInv, Pools
  <2>3. A \subseteq Writing /\ Writing \subseteq (A \cup U) \cup Waiting
    BY DEF CoverInv, Writing, Answered
  <2> HIDE DEF A, U, Waiting
  <2>4. Cardinality(A) <= Cardinality(Writing)
    BY <2>1, <2>3, FS_Subset
  <2>5. /\ IsFiniteSet(A \cup U)
        /\ Cardinality(A \cup U) = Cardinality(A) + Cardinality(U) - Cardinality(A \cap U)
    BY <2>1, FS_Union
  <2>6. /\ IsFiniteSet((A \cup U) \cup Waiting)
        /\ Cardinality((A \cup U) \cup Waiting) =
             Cardinality(A \cup U) + Cardinality(Waiting) - Cardinality((A \cup U) \cap Waiting)
    BY <2>2, <2>5, FS_Union
  <2>7. Cardinality(Writing) <= Cardinality((A \cup U) \cup Waiting)
    BY <2>3, <2>6, FS_Subset
  <2>8. IsFiniteSet(A \cap U) /\ IsFiniteSet((A \cup U) \cap Waiting)
    BY <2>1, <2>5, FS_Intersection
  <2>9. /\ Cardinality(A) \in Nat /\ Cardinality(U) \in Nat /\ Cardinality(Waiting) \in Nat
        /\ Cardinality(Writing) \in Nat /\ Cardinality(A \cup U) \in Nat
        /\ Cardinality((A \cup U) \cup Waiting) \in Nat
        /\ Cardinality(A \cap U) \in Nat /\ Cardinality((A \cup U) \cap Waiting) \in Nat
    BY <2>1, <2>2, <2>5, <2>6, <2>8, FS_CardinalityType
  <2>10. Cardinality(Writing) <= Cardinality(A) + Cardinality(U) + Cardinality(Waiting)
    BY <2>5, <2>6, <2>7, <2>9
  <2> QED
    BY <2>1, <2>4, <2>10 DEF AcceptedOnce, Stored, Waiting
<1> QED
  BY <1>1, <1>2, <1>3, <1>4 DEF BooksBalance

-----------------------------------------------------------------------------
\* The slots are given back on every path, the counters account for every
\* attempt, and the accepted votes are those on record, but for what is pending
\* or unknown (server.go 145-152, 243-250, 294-368).
THEOREM BooksAlwaysBalance == Spec => []BooksBalance
BY InitInv, InitCountInv, NextTypeInv, NextPlaceInv, NextOutInv, NextCountInv, NextCoverInv,
   BooksFollow, PTL DEF Spec

-----------------------------------------------------------------------------
(***************************************************************************)
(* The page.  The receipt it shows is what the server counts               *)
(* (ReceiptIsTrue), with working storage a browser has one vote            *)
(* (OneVotePerBrowser), and a page never changes its token (KeyIsKept).    *)
(*                                                                         *)
(* The server's invariants are those above.  A tab is described by TabOK:  *)
(* with working storage it has the token of the shared record and knows of *)
(* nothing that is not in it, its request was sent under its token, and    *)
(* what it is about to settle is recorded for that token.                  *)
(* Update, the one way in which a record changes, starts from the shared   *)
(* record, the tab's own or a new one (BaseFacts).  BrowserOK says that    *)
(* with working storage everything sent and recorded is the choice of the  *)
(* shared record, which is made once.                                      *)
(***************************************************************************)

Recs == [token : Tokens, pending : Choices \cup {None}, receipt : Choices \cup {None}]
Pages ==
    [pc : {"closed", "idle", "saving", "sending", "waiting", "settling"}, dbok : BOOLEAN,
     rec : Recs \cup {NoRecord}, chosen : Choices \cup {None}, req : Requests \cup {0},
     settle : Choices \cup {None}]
Ready(v)  == v.pending # None \/ v.receipt # None
Choice(v) == IF v.receipt # None THEN v.receipt ELSE v.pending

ServerInv ==
    /\ TypeInv /\ PlaceInv /\ OutInv /\ AnswersAreTrue
    /\ \A r \in Requests : Kind[r] = "vote"

PageType ==
    /\ Browser \in [failing : SUBSET Tabs, tokens : SUBSET Tokens, choices : SUBSET Choices]
    /\ db \in Recs \cup {NoRecord} /\ tab \in [Tabs -> Pages]

TabOK(t) ==
    /\ tab[t].pc = "closed" => tab[t] = ClosedTab
    /\ tab[t].pc # "closed" => tab[t].rec \in Recs
    /\ tab[t].pc # "closed" /\ tab[t].dbok =>
         db \in Recs /\ db.token = tab[t].rec.token /\ (Ready(tab[t].rec) => Ready(db))
    /\ tab[t].pc = "saving" => tab[t].chosen # None \/ Ready(tab[t].rec)
    /\ tab[t].pc = "sending" => tab[t].rec.pending # None /\ tab[t].rec.receipt = None
    /\ tab[t].pc = "waiting" => /\ tab[t].req \in Requests /\ hs[tab[t].req] # "idle"
                                /\ body[tab[t].req].token = tab[t].rec.token
    /\ tab[t].pc = "settling" => /\ tab[t].settle # None
                                 /\ recorded[tab[t].rec.token] = tab[t].settle
    /\ tab[t].rec.receipt # None => recorded[tab[t].rec.token] = tab[t].rec.receipt

PageInv ==
    /\ PageType
    /\ db.receipt # None => recorded[db.token] = db.receipt
    /\ \A t \in Tabs : TabOK(t)

OneChoice ==
    /\ \A t \in Tabs : tab[t].pc # "closed" =>
         tab[t].dbok /\ (Ready(tab[t].rec) => Choice(tab[t].rec) = Choice(db))
    /\ \A r \in Requests : hs[r] # "idle" =>
         db \in Recs /\ body[r].token = db.token /\ body[r].choice = Choice(db)
    /\ \A k \in Tokens : recorded[k] # None =>
         db \in Recs /\ k = db.token /\ recorded[k] = Choice(db)
    /\ cnt["conflicts"] = 0 /\ \A r \in Requests : out[r].status # "conflict"
BrowserOK == Failing = {} => OneChoice

-----------------------------------------------------------------------------
(* The storage *)

\* A record that is drawn has a token and nothing else.
LEMMA NewRecordFacts ==
    ASSUME PageType, Unused # {}
    PROVE  NewRecord \in Recs /\ NewRecord # NoRecord /\ ~ Ready(NewRecord)
<1>1. Unused \subseteq Tokens /\ Unused \subseteq Nat /\ 0 \notin Tokens
  BY NumberAssumption DEF Unused, PageType
<1>2. \A x, y \in Nat : x < y => <<x, y>> \in OpToRel(<, Nat)
  BY DEF OpToRel
<1>3. PICK n \in Unused : \A m \in Unused : <<m, n>> \notin OpToRel(<, Nat)
  BY <1>1, WFMin, NatLessThanWellFounded
<1>7. \A m \in Unused : ~ m < n
  BY <1>1, <1>2, <1>3
<1>4. \A m \in Unused : n <= m
  BY <1>1, <1>7
<1> DEFINE k == CHOOSE k \in Unused : \A m \in Unused : k <= m
<1>5. k \in Unused
  BY <1>4
<1>8. NewRecord = [NoRecord EXCEPT !.token = k]
  BY DEF NewRecord
<1> HIDE DEF k
<1>6. NewRecord = [token |-> k, pending |-> None, receipt |-> None]
  BY <1>8 DEF NoRecord
<1> QED
  BY <1>1, <1>5, <1>6 DEF Recs, NoRecord, Ready

\* What Update reads: from the storage, or from the tab's memory.
Base(t, p, v, ok) ==
    \/ p.dbok /\ CanDraw({db, p.rec}) /\ v = Current(t) /\ (ok \/ t \in Failing)
    \/ (~ p.dbok \/ t \in Failing) /\ CanDraw({p.rec}) /\ v = Fallback(p) /\ ~ ok

LEMMA BaseFacts ==
    ASSUME PageInv, NEW t \in Tabs, NEW p \in Pages, NEW v, NEW ok \in BOOLEAN, Base(t, p, v, ok),
           p.rec = tab[t].rec, tab[t].pc # "closed" /\ p.dbok => tab[t].dbok,
           tab[t].pc = "closed" /\ Failing = {} => p.dbok
    PROVE  /\ v \in Recs
           /\ tab[t].pc # "closed" =>
                v.token = tab[t].rec.token /\ (v = tab[t].rec \/ (tab[t].dbok /\ v = db))
           /\ tab[t].pc = "closed" => v = db \/ ~ Ready(v)
           /\ ok => v = db \/ (db = NoRecord /\ ~ Ready(v) /\ tab[t].pc = "closed")
           /\ Failing = {} /\ p.dbok => ok
<1>1. TabOK(t) /\ PageType /\ NoRecord \notin Recs
  BY NumberAssumption DEF PageInv, Recs, NoRecord
<1>2. /\ tab[t].pc = "closed" => p.rec = NoRecord
      /\ tab[t].pc # "closed" => p.rec \in Recs /\ p.rec # NoRecord
      /\ tab[t].pc # "closed" /\ p.dbok => db \in Recs /\ db.token = p.rec.token
  BY <1>1 DEF TabOK, ClosedTab
<1>3. CASE p.dbok /\ CanDraw({db, p.rec}) /\ v = Current(t) /\ (ok \/ t \in Failing)
  <2>1. CASE db # NoRecord
    <3>1. v = db /\ db \in Recs
      BY <1>1, <1>3, <2>1 DEF Current, Known, PageType
    <3> QED
      BY <1>2, <1>3, <3>1
  <2>2. CASE db = NoRecord
    <3>1. tab[t].pc = "closed" /\ p.rec = NoRecord
      BY <1>1, <1>2, <1>3, <2>2
    <3>2. Unused # {} /\ v = NewRecord
      BY <1>3, <2>2, <3>1 DEF CanDraw, Current, Known
    <3>3. v \in Recs /\ ~ Ready(v)
      BY <1>1, <3>2, NewRecordFacts
    <3> QED
      BY <1>3, <2>2, <3>1, <3>3
  <2> QED
    BY <2>1, <2>2
<1>4. CASE (~ p.dbok \/ t \in Failing) /\ CanDraw({p.rec}) /\ v = Fallback(p) /\ ~ ok
  <2>1. CASE tab[t].pc = "closed"
    <3>1. Unused # {} /\ v = NewRecord
      BY <1>2, <1>4, <2>1 DEF CanDraw, Fallback, Known
    <3>2. v \in Recs /\ ~ Ready(v)
      BY <1>1, <3>1, NewRecordFacts
    <3> QED
      BY <1>4, <2>1, <3>2
  <2>2. CASE tab[t].pc # "closed"
    <3>1. v = tab[t].rec /\ v \in Recs
      BY <1>2, <1>4, <2>2 DEF Fallback, Known
    <3> QED
      BY <1>4, <2>2, <3>1
  <2> QED
    BY <2>1, <2>2
<1> QED
  BY <1>3, <1>4 DEF Base

\* A record is changed where it is, or the tab has it in memory from now on.
Changed(t, p, w, ok) ==
    /\ tab' = [tab EXCEPT ![t] = [[p EXCEPT !.rec = w] EXCEPT !.dbok = ok]]
    /\ db' = IF ok THEN w ELSE db

LEMMA UpdateCases ==
    ASSUME NEW t \in Tabs, NEW p
    PROVE  /\ Update(t, p, Same) =>
                \E v : \E ok \in BOOLEAN : Base(t, p, v, ok) /\ Changed(t, p, v, ok)
           /\ \A c : LET M(v) == WithPending(v, c) IN Update(t, p, M) =>
                \E v : \E ok \in BOOLEAN : Base(t, p, v, ok) /\ Changed(t, p, WithPending(v, c), ok)
           /\ \A c : LET M(v) == WithReceipt(v, c) IN Update(t, p, M) =>
                \E v : \E ok \in BOOLEAN : Base(t, p, v, ok) /\ Changed(t, p, WithReceipt(v, c), ok)
<1>1. /\ \A v, M : Base(t, p, v, TRUE) /\ db' = M /\ Updated(t, p, M, TRUE)
                     => Base(t, p, v, TRUE) /\ Changed(t, p, M, TRUE)
      /\ \A v, M : Base(t, p, v, FALSE) /\ UNCHANGED db /\ Updated(t, p, M, FALSE)
                     => Base(t, p, v, FALSE) /\ Changed(t, p, M, FALSE)
  BY DEF Changed, Updated
<1>2. /\ p.dbok /\ CanDraw({db, p.rec}) => Base(t, p, Current(t), TRUE)
      /\ p.dbok /\ CanDraw({db, p.rec}) /\ t \in Failing => Base(t, p, Current(t), FALSE)
      /\ (~ p.dbok \/ t \in Failing) /\ CanDraw({p.rec}) => Base(t, p, Fallback(p), FALSE)
  BY DEF Base
<1>3. TRUE \in BOOLEAN /\ FALSE \in BOOLEAN
  OBVIOUS
<1>4. ASSUME Update(t, p, Same)
      PROVE  \E v : \E ok \in BOOLEAN : Base(t, p, v, ok) /\ Changed(t, p, v, ok)
  BY <1>1, <1>2, <1>3, <1>4 DEF Update, Same
<1>5. ASSUME NEW c
      PROVE LET M(v) == WithPending(v, c) IN Update(t, p, M) =>
                \E v : \E ok \in BOOLEAN : Base(t, p, v, ok) /\ Changed(t, p, WithPending(v, c), ok)
  BY <1>1, <1>2, <1>3 DEF Update
<1>6. ASSUME NEW c
      PROVE LET M(v) == WithReceipt(v, c) IN Update(t, p, M) =>
                \E v : \E ok \in BOOLEAN : Base(t, p, v, ok) /\ Changed(t, p, WithReceipt(v, c), ok)
  BY <1>1, <1>2, <1>3 DEF Update
<1> QED
  BY <1>4, <1>5, <1>6

-----------------------------------------------------------------------------
(* The server, seen by the page *)

\* What was sent and what is recorded stay.
Forward ==
    /\ \A r \in Requests : hs[r] # "idle" => hs'[r] # "idle" /\ body'[r] = body[r]
    /\ \A k \in Tokens : recorded[k] # None => recorded'[k] = recorded[k]

\* With these, a conflict needs two choices under one token.
NoConflict == cnt["conflicts"] = 0 /\ \A r \in Requests : out[r].status # "conflict"
Recording ==
    /\ \A r \in Requests : hs'[r] # "idle" => hs[r] # "idle"
    /\ \A k \in Tokens : recorded'[k] # recorded[k] =>
         \E r \in Requests : /\ hs[r] # "idle" /\ k = body[r].token
                             /\ recorded'[k] = body[r].choice
    /\ NoConflict =>
         \/ NoConflict'
         \/ \E r \in Requests : hs[r] # "idle" /\ body[r].token \in Tokens
                                  /\ recorded[body[r].token] \notin {None, body[r].choice}

LEMMA ServerSteps ==
    ASSUME ServerInv, ServerStep, UNCHANGED setting
    PROVE  ServerInv' /\ body' = body /\ Forward /\ Recording
<1>1. [Next /\ UNCHANGED setting]_<<server, setting>>
  BY DEF Next
<1>2. TypeInv' /\ PlaceInv' /\ OutInv' /\ AnswersAreTrue'
  BY <1>1, NextTypeInv, NextPlaceInv, NextOutInv, NextAnswers DEF ServerInv
<1>3. ServerInv'
  BY <1>2 DEF ServerInv, setting
<1> DEFINE F == body' = body /\ Forward /\ Recording
<1> USE DEF ServerInv, TypeInv, PlaceInv, Forward, Recording, None, NoAnswer
<1>4. ASSUME NEW r \in Requests, Begin(r) PROVE F
  <2>1. hs' = [hs EXCEPT ![r] = "held"] \/ hs' = [hs EXCEPT ![r] = "done"]
    BY <1>4 DEF Begin, TakeSlot, NoSlot, Reply
  <2>2. cnt'["conflicts"] = cnt["conflicts"]
    BY <1>4 DEF Begin, Count, Counters
  <2>3. UNCHANGED <<body, out, recorded>>
    BY <1>4 DEF Begin
  <2> QED
    BY <1>4, <2>1, <2>2, <2>3 DEF NoConflict, Begin
<1>5. ASSUME NEW r \in Requests, Malformed(r) PROVE F
  BY <1>5 DEF Malformed, Reply, Count, Counters, NoConflict
<1>6. ASSUME NEW r \in Requests, ClientLeft(r) PROVE F
  BY <1>6 DEF ClientLeft, Reply, NoConflict
<1>7. ASSUME NEW r \in Requests, StartOperation(r) PROVE F
  BY <1>7 DEF StartOperation, NoConflict
<1>8. ASSUME NEW r \in Requests, Execute(r) PROVE F
  <2>1. hs[r] # "idle" /\ body[r].token \in Tokens /\ body[r].choice \in Choices /\ Vote(r)
    BY <1>8 DEF Execute
  <2>2. UNCHANGED <<hs, body, cnt>>
    BY <1>8 DEF Execute
  <2>3. \/ recorded' = recorded
        \/ /\ recorded[body[r].token] = None
           /\ recorded' = [recorded EXCEPT ![body[r].token] = body[r].choice]
    BY <2>1 DEF Vote
  <2>4. \/ /\ \A q \in Requests : q # r => out'[q] = out[q]
           /\ out'[r].status # "conflict"
        \/ recorded[body[r].token] \notin {None, body[r].choice}
    BY <2>1 DEF Vote, Outcome
  <2>5. Forward
    BY <2>1, <2>2, <2>3
  <2>6. NoConflict => \/ NoConflict'
                      \/ recorded[body[r].token] \notin {None, body[r].choice}
    BY <2>2, <2>4 DEF NoConflict
  <2>7. \A k \in Tokens : recorded'[k] # recorded[k] =>
           k = body[r].token /\ recorded'[k] = body[r].choice
    BY <2>1, <2>3
  <2> HIDE DEF ServerInv, TypeInv, PlaceInv, Forward
  <2> QED
    BY <2>1, <2>2, <2>5, <2>6, <2>7
<1>9. ASSUME NEW r \in Requests, OperationFails(r) PROVE F
  BY <1>9 DEF OperationFails, NoConflict
<1>10. ASSUME NEW r \in Requests, AnswerError(r) PROVE F
  BY <1>10 DEF AnswerError, Reply, Count, Counters, NoConflict
<1>11. ASSUME NEW r \in Requests, AnswerVote(r) PROVE F
  <2>1. UNCHANGED <<body, out, recorded>> /\ hs' = [hs EXCEPT ![r] = "done"]
    BY <1>11 DEF AnswerVote, Reply
  <2>2. out[r].status # "conflict" => CounterOf(out[r].status) # "conflicts"
    BY ZenonT(40) DEF CounterOf
  <2>3. out[r].status # "conflict" => cnt'["conflicts"] = cnt["conflicts"]
    BY <1>11, <2>2 DEF AnswerVote, Count, Counters
  <2>4. NoConflict => NoConflict'
    BY <2>1, <2>3 DEF NoConflict
  <2> HIDE DEF NoConflict
  <2> QED
    BY <1>11, <2>1, <2>4 DEF AnswerVote
<1>12. ASSUME NEW r \in Requests, AnswerRead(r) PROVE F
  BY <1>12 DEF AnswerRead
<1>13. ASSUME NEW r \in Requests, AnswerCreate(r) PROVE F
  BY <1>13 DEF AnswerCreate
<1>14. ASSUME TimePasses PROVE F
  <2>1. UNCHANGED <<hs, body, out, cnt, recorded>>
    BY <1>14 DEF TimePasses
  <2> HIDE DEF ServerInv, TypeInv, PlaceInv
  <2> QED
    BY <2>1 DEF NoConflict
<1> HIDE DEF ServerInv, TypeInv, PlaceInv, Forward, Recording, None, NoAnswer
<1>15. F
  BY <1>4, <1>5, <1>6, <1>7, <1>8, <1>9, <1>10, <1>11, <1>12, <1>13, <1>14
  DEF ServerStep, Handle
<1> QED
  BY <1>3, <1>15

-----------------------------------------------------------------------------
(* The tabs *)

\* The shared record keeps its token and what is ready in it.
Grown ==
    /\ db' \in Recs \cup {NoRecord}
    /\ db # NoRecord => db' \in Recs /\ db'.token = db.token /\ (Ready(db) => Ready(db'))

\* A tab that does nothing stays as TabOK says.
LEMMA TabStays ==
    ASSUME PageInv, NEW u \in Tabs, tab'[u] = tab[u], Forward, Grown
    PROVE  TabOK(u)'
<1>1. TabOK(u) /\ tab[u] \in Pages /\ NoRecord \notin Recs /\ ClosedTab.rec = NoRecord
  BY NumberAssumption DEF PageInv, PageType, Recs, NoRecord, ClosedTab
<1>2. tab[u].rec \in Recs => tab[u].rec.token \in Tokens
  BY DEF Recs
<1>3. NoRecord.receipt = None
  BY DEF NoRecord
<1>4. tab[u].rec.receipt # None => tab[u].rec \in Recs
  BY <1>1, <1>3 DEF TabOK
<1>5. tab[u].pc # "closed" /\ tab[u].dbok =>
         db' \in Recs /\ db'.token = tab[u].rec.token /\ (Ready(tab[u].rec) => Ready(db'))
  BY <1>1 DEF TabOK, Grown
<1>6. tab[u].pc = "waiting" => hs'[tab[u].req] # "idle" /\ body'[tab[u].req] = body[tab[u].req]
  BY <1>1 DEF TabOK, Forward
<1>7. tab[u].rec \in Recs /\ recorded[tab[u].rec.token] # None =>
         recorded'[tab[u].rec.token] = recorded[tab[u].rec.token]
  BY <1>2 DEF Forward
<1> HIDE DEF Ready
<1> QED
  BY <1>1, <1>2, <1>3, <1>4, <1>5, <1>6, <1>7 DEF TabOK

\* The page p of a tab reads v, makes w of it and has it stored, or keeps it.
LEMMA UpdateStep ==
    ASSUME PageInv, UNCHANGED server, UNCHANGED Browser,
           NEW t \in Tabs, NEW p \in Pages, NEW v, NEW w \in Recs,
           NEW ok \in BOOLEAN, Base(t, p, v, ok), Changed(t, p, w, ok),
           p.rec = tab[t].rec, tab[t].pc # "closed" /\ p.dbok => tab[t].dbok,
           tab[t].pc = "closed" /\ Failing = {} => p.dbok,
           w.token = v.token, Ready(v) => Ready(w),
           w.receipt # None => w.receipt = v.receipt \/ recorded[w.token] = w.receipt,
           p.pc \in {"idle", "saving", "sending"},
           p.pc = "saving" => p.chosen # None \/ Ready(w),
           p.pc = "sending" => w.pending # None /\ w.receipt = None
    PROVE  PageInv'
<1>1. TabOK(t) /\ PageType /\ NoRecord \notin Recs
  BY NumberAssumption DEF PageInv, Recs, NoRecord
<1>2. /\ v \in Recs
      /\ tab[t].pc # "closed" => v = tab[t].rec \/ v = db
      /\ tab[t].pc = "closed" => v = db \/ ~ Ready(v)
      /\ ok => v = db \/ (db = NoRecord /\ ~ Ready(v))
  BY BaseFacts
<1>3. v.receipt # None => recorded[v.token] = v.receipt
  <2>1. ~ Ready(v) => v.receipt = None
    BY DEF Ready
  <2> QED
    BY <1>1, <1>2, <2>1 DEF TabOK, PageInv
<1>4. w.receipt # None => recorded[w.token] = w.receipt
  BY <1>3
<1>5. Grown
  BY <1>1, <1>2 DEF Grown, Changed, PageType
<1>6. Forward
  BY DEF Forward, server
<1>7. tab'[t] = [[p EXCEPT !.rec = w] EXCEPT !.dbok = ok]
  BY <1>1 DEF Changed, PageType
<1>8. tab'[t] \in Pages /\ tab'[t].rec = w /\ tab'[t].dbok = ok /\ tab'[t].pc = p.pc
        /\ tab'[t].chosen = p.chosen
  BY <1>7 DEF Pages
<1>9. \A u \in Tabs \ {t} : tab'[u] = tab[u]
  BY <1>1 DEF Changed, PageType
<1>10. PageType'
  <2>1. tab' \in [Tabs -> Pages]
    BY <1>1, <1>8 DEF Changed, PageType
  <2> QED
    BY <1>1, <1>5, <2>1 DEF PageType, Grown
<1>11. (db.receipt # None => recorded[db.token] = db.receipt)'
  BY <1>4 DEF Changed, PageInv, server
<1>12. ASSUME NEW u \in Tabs, u # t PROVE TabOK(u)'
  BY <1>5, <1>6, <1>9, <1>12, TabStays
<1>13. TabOK(t)'
  <2>1. ok => db' = w
    BY DEF Changed
  <2>2. recorded' = recorded
    BY DEF server
  <2> HIDE DEF Ready
  <2> QED
    BY <1>4, <1>8, <2>1, <2>2 DEF TabOK
<1> QED
  BY <1>10, <1>11, <1>12, <1>13 DEF PageInv

\* When nothing is stored and a tab changes as TabOK allows, all is well.
LEMMA TabStep ==
    ASSUME PageInv, Forward, UNCHANGED <<db, Browser>>, NEW t \in Tabs,
           tab' \in [Tabs -> Pages], \A u \in Tabs \ {t} : tab'[u] = tab[u], TabOK(t)'
    PROVE  PageInv'
<1>1. Grown
  BY DEF Grown, PageInv, PageType
<1>2. ASSUME NEW u \in Tabs PROVE TabOK(u)'
  <2>1. CASE u = t
    BY <2>1
  <2>2. CASE u # t
    BY <1>1, <2>2, TabStays
  <2> QED
    BY <2>1, <2>2
<1>3. (db.receipt # None => recorded[db.token] = db.receipt)'
  <2>1. db.receipt # None => db.token \in Tokens
    BY DEF PageInv, PageType, Recs, NoRecord
  <2> QED
    BY <2>1 DEF PageInv, Forward
<1> QED
  BY <1>2, <1>3 DEF PageInv, PageType

\* Changing a record leaves a record of the same token with what was there.
LEMMA ChangeFacts ==
    ASSUME NEW v \in Recs, NEW c \in Choices \cup {None}
    PROVE  /\ WithPending(v, c) \in Recs /\ WithPending(v, c).token = v.token
           /\ Ready(v) => WithPending(v, c) = v \/ v.receipt # None
           /\ Ready(v) => Ready(WithPending(v, c))
           /\ c # None => Ready(WithPending(v, c))
           /\ WithPending(v, c).receipt = v.receipt
           /\ WithReceipt(v, c) \in Recs /\ WithReceipt(v, c).token = v.token
           /\ WithReceipt(v, c).pending = None /\ WithReceipt(v, c).receipt = c
<1>1. \/ WithPending(v, c) = v
      \/ /\ v.receipt = None /\ v.pending = None
         /\ WithPending(v, c) = [v EXCEPT !.pending = c]
  BY DEF WithPending
<1>2. /\ WithReceipt(v, c) \in Recs /\ WithReceipt(v, c).token = v.token
      /\ WithReceipt(v, c).pending = None /\ WithReceipt(v, c).receipt = c
  BY DEF WithReceipt, Recs
<1>3. c # None => Ready(WithPending(v, c))
  BY DEF WithPending, Ready, Recs
<1>4. WithPending(v, c) \in Recs
  BY <1>1 DEF Recs
<1> QED
  BY <1>1, <1>2, <1>3, <1>4 DEF Ready, Recs

LEMMA LoadStep ==
    ASSUME PageInv, NEW t \in Tabs, Load(t), UNCHANGED Browser PROVE PageInv'
<1> DEFINE P(b) == [ClosedTab EXCEPT !.pc = "idle", !.dbok = b]
<1>1. PICK b \in {TRUE, t \notin Failing} : Update(t, P(b), Same)
  BY DEF Load
<1>2. b \in BOOLEAN /\ (Failing = {} => b)
  OBVIOUS
<1>9. ClosedTab \in Pages
  BY DEF ClosedTab, Pages
<1>10. ClosedTab.rec = NoRecord /\ tab[t] = ClosedTab
  BY DEF ClosedTab, Load, PageInv, TabOK
<1>3. /\ P(b) \in Pages /\ P(b).rec = NoRecord /\ P(b).pc = "idle" /\ P(b).dbok = b
      /\ tab[t].rec = NoRecord
  BY <1>2, <1>9, <1>10 DEF Pages
<1> DEFINE p == P(b)
<1>4. PICK v : \E ok \in BOOLEAN : Base(t, p, v, ok) /\ Changed(t, p, v, ok)
  BY <1>1, UpdateCases
<1>5. PICK ok \in BOOLEAN : Base(t, p, v, ok) /\ Changed(t, p, v, ok)
  BY <1>4
<1>6. tab[t].pc = "closed" /\ UNCHANGED server
  BY DEF Load
<1> HIDE DEF P, p
<1>7. p \in Pages /\ p.rec = tab[t].rec /\ p.pc = "idle" /\ (Failing = {} => p.dbok)
  BY <1>2, <1>3 DEF p
<1>8. v \in Recs
  BY <1>5, <1>6, <1>7, BaseFacts
<1> QED
  BY <1>5, <1>6, <1>7, <1>8, UpdateStep

LEMMA RefreshStep ==
    ASSUME PageInv, NEW t \in Tabs, Refresh(t), UNCHANGED Browser PROVE PageInv'
<1> DEFINE p == tab[t]
<1>1. tab[t].pc \in {"idle", "saving"} /\ UNCHANGED server /\ Update(t, p, Same)
  BY DEF Refresh
<1>2. PICK v : \E ok \in BOOLEAN : Base(t, p, v, ok) /\ Changed(t, p, v, ok)
  BY <1>1, UpdateCases
<1>3. PICK ok \in BOOLEAN : Base(t, p, v, ok) /\ Changed(t, p, v, ok)
  BY <1>2
<1>4. p \in Pages /\ TabOK(t)
  BY DEF PageInv, PageType
<1>5. v \in Recs /\ (v = tab[t].rec \/ (tab[t].dbok /\ v = db))
  BY <1>1, <1>3, <1>4, BaseFacts
<1>6. p.pc = "saving" => p.chosen # None \/ Ready(v)
  BY <1>4, <1>5 DEF TabOK
<1>7. Ready(v) => Ready(v)
  OBVIOUS
<1>8. p.pc # "closed" /\ p.pc # "sending" /\ p.pc \in {"idle", "saving", "sending"}
  BY <1>1
<1> HIDE DEF Ready
<1> QED
  BY <1>1, <1>3, <1>4, <1>5, <1>6, <1>7, <1>8, UpdateStep

LEMMA SaveStep ==
    ASSUME PageInv, NEW t \in Tabs, Save(t), UNCHANGED Browser PROVE PageInv'
<1> DEFINE c == tab[t].chosen
           M(v) == WithPending(v, c)
           P(pc) == [tab[t] EXCEPT !.pc = pc]
<1>1. tab[t].pc = "saving" /\ UNCHANGED server /\ TabOK(t) /\ PageType
  BY DEF Save, PageInv
<1>2. PICK pc \in {"idle", "sending"} : Update(t, P(pc), M) /\ pc = AfterSave(tab'[t].rec)
  BY DEF Save
<1> DEFINE p == P(pc)
<1>3. PICK v : \E ok \in BOOLEAN : Base(t, p, v, ok) /\ Changed(t, p, WithPending(v, c), ok)
  BY <1>2, UpdateCases
<1>4. PICK ok \in BOOLEAN : Base(t, p, v, ok) /\ Changed(t, p, WithPending(v, c), ok)
  BY <1>3
<1>5. /\ p \in Pages /\ p.rec = tab[t].rec /\ p.pc = pc /\ p.dbok = tab[t].dbok
      /\ c \in Choices \cup {None}
  BY <1>1 DEF Pages, PageType
<1> DEFINE w == WithPending(v, c)
<1>6. tab'[t].rec = w
  <2>1. tab'[t] = [[p EXCEPT !.rec = w] EXCEPT !.dbok = ok]
    BY <1>1, <1>4 DEF Changed, PageType
  <2> HIDE DEF p, w
  <2> QED
    BY <1>5, <2>1 DEF Pages
<1> HIDE DEF P, p
<1>7. v \in Recs /\ (v = tab[t].rec \/ (tab[t].dbok /\ v = db))
  BY <1>1, <1>4, <1>5, BaseFacts
<1>8. w \in Recs /\ w.token = v.token /\ (Ready(v) => Ready(w)) /\ w.receipt = v.receipt
        /\ (c # None => Ready(w))
  BY <1>5, <1>7, ChangeFacts
<1>9. c # None \/ Ready(v)
  BY <1>1, <1>7 DEF TabOK
<1>10. pc = "sending" => w.pending # None /\ w.receipt = None
  <2>1. pc = "sending" => w.receipt = None
    BY <1>2, <1>6 DEF AfterSave
  <2>2. Ready(w)
    BY <1>8, <1>9
  <2> QED
    BY <2>1, <2>2 DEF Ready
<1> HIDE DEF w, Ready
<1> QED
  BY <1>1, <1>2, <1>4, <1>5, <1>7, <1>8, <1>10, UpdateStep DEF w

LEMMA SettleStep ==
    ASSUME PageInv, NEW t \in Tabs, Settle(t), UNCHANGED Browser PROVE PageInv'
<1> DEFINE c == tab[t].settle
           M(v) == WithReceipt(v, c)
           p == [tab[t] EXCEPT !.pc = "idle", !.settle = None]
<1>1. tab[t].pc = "settling" /\ UNCHANGED server /\ TabOK(t) /\ PageType
  BY DEF Settle, PageInv
<1>2. Update(t, p, M)
  BY DEF Settle
<1>3. PICK v : \E ok \in BOOLEAN : Base(t, p, v, ok) /\ Changed(t, p, WithReceipt(v, c), ok)
  BY <1>2, UpdateCases
<1>4. PICK ok \in BOOLEAN : Base(t, p, v, ok) /\ Changed(t, p, WithReceipt(v, c), ok)
  BY <1>3
<1>11. tab[t] \in Pages
  BY <1>1 DEF PageType
<1>5. /\ p \in Pages /\ p.rec = tab[t].rec /\ p.pc = "idle" /\ p.dbok = tab[t].dbok
      /\ c \in Choices \cup {None}
  BY <1>11 DEF Pages
<1> DEFINE w == WithReceipt(v, c)
<1> HIDE DEF p
<1>7. v \in Recs /\ v.token = tab[t].rec.token
  BY <1>1, <1>4, <1>5, BaseFacts
<1>8. w \in Recs /\ w.token = v.token /\ w.receipt = c
  BY <1>5, <1>7, ChangeFacts
<1>9. c # None /\ recorded[w.token] = c
  BY <1>1, <1>7, <1>8 DEF TabOK
<1>10. Ready(v) => Ready(w)
  BY <1>8, <1>9 DEF Ready
<1> HIDE DEF w, Ready
<1> QED
  BY <1>1, <1>4, <1>5, <1>7, <1>8, <1>9, <1>10, UpdateStep DEF w

\* The steps of a tab that store nothing.
LEMMA TabSteps ==
    ASSUME PageInv, ServerInv, NEW t \in Tabs, UNCHANGED Browser,
           \/ CloseTab(t) \/ StorageLost(t) \/ Click(t) \/ Post(t)
           \/ Response(t) \/ ConnectionLost(t)
    PROVE  PageInv'
<1>1. TabOK(t) /\ tab[t] \in Pages /\ tab \in [Tabs -> Pages]
  BY DEF PageInv, PageType
<1>2. Browser.choices \subseteq Choices
  BY DEF PageInv, PageType
<1> DEFINE Fits(p) == tab' = [tab EXCEPT ![t] = p]
<1>3. ASSUME NEW p \in Pages, Fits(p), Forward, db' = db, TabOK(t)' PROVE PageInv'
  <2>1. tab' \in [Tabs -> Pages] /\ \A u \in Tabs \ {t} : tab'[u] = tab[u]
    BY <1>1, <1>3
  <2> QED
    BY <1>3, <2>1, TabStep
<1>4. ASSUME UNCHANGED <<hs, body, recorded>> PROVE Forward
  BY <1>4 DEF Forward
<1>5. CASE CloseTab(t)
  <2>1. ClosedTab \in Pages /\ ClosedTab.pc = "closed" /\ ClosedTab.rec.receipt = None
    BY DEF Pages, ClosedTab, NoRecord
  <2>2. Fits(ClosedTab) /\ db' = db /\ UNCHANGED <<hs, body, recorded>>
    BY <1>5 DEF CloseTab
  <2>3. tab'[t] = ClosedTab
    BY <1>1, <2>2
  <2>4. TabOK(t)'
    BY <2>1, <2>3 DEF TabOK
  <2> QED
    BY <1>3, <1>4, <2>1, <2>2, <2>4
<1>6. CASE StorageLost(t)
  <2> DEFINE p == [tab[t] EXCEPT !.dbok = FALSE]
  <2>1. /\ p \in Pages /\ p.pc = tab[t].pc /\ p.rec = tab[t].rec /\ p.chosen = tab[t].chosen
        /\ p.req = tab[t].req /\ p.settle = tab[t].settle /\ p.dbok = FALSE
    BY <1>1 DEF Pages
  <2>2. Fits(p) /\ UNCHANGED <<db, hs, body, recorded>> /\ tab[t].pc # "closed"
    BY <1>6 DEF StorageLost, server
  <2> HIDE DEF p
  <2>3. tab'[t] = p
    BY <1>1, <2>2
  <2> HIDE DEF Fits
  <2>4. TabOK(t)'
    BY <1>1, <2>1, <2>2, <2>3 DEF TabOK, Ready
  <2> QED
    BY <1>3, <1>4, <2>1, <2>2, <2>4
<1>7. CASE Click(t)
  <2>1. PICK c \in IF tab[t].rec.pending = None THEN Browser.choices ELSE {None} :
             tab' = [tab EXCEPT ![t].pc = "saving", ![t].chosen = c]
    BY <1>7 DEF Click
  <2> DEFINE p == [tab[t] EXCEPT !.pc = "saving", !.chosen = c]
  <2>2. c \in Choices \cup {None} /\ (c # None \/ tab[t].rec.pending # None)
    BY <1>2, <2>1, ChoiceAssumption
  <2>3. /\ p \in Pages /\ p.pc = "saving" /\ p.rec = tab[t].rec /\ p.chosen = c
        /\ p.dbok = tab[t].dbok
    BY <1>1, <2>2 DEF Pages
  <2>4. Fits(p) /\ UNCHANGED <<db, hs, body, recorded>> /\ tab[t].pc # "closed"
    BY <1>1, <1>7, <2>1 DEF Click, server
  <2> HIDE DEF p
  <2>5. tab'[t] = p
    BY <1>1, <2>4
  <2> HIDE DEF Fits
  <2>6. TabOK(t)'
    BY <1>1, <2>2, <2>3, <2>4, <2>5 DEF TabOK, Ready
  <2> QED
    BY <1>3, <1>4, <2>3, <2>4, <2>6
<1>8. CASE Post(t)
  <2>1. PICK r \in NextRequest : /\ Send(r, [token |-> tab[t].rec.token, choice |-> SentChoice(t)])
             /\ tab' = [tab EXCEPT ![t].pc = "waiting", ![t].req = r, ![t].chosen = None]
    BY <1>8 DEF Post
  <2> DEFINE p == [tab[t] EXCEPT !.pc = "waiting", !.req = r, !.chosen = None]
  <2>2. r \in Requests
    BY DEF NextRequest
  <2>3. /\ p \in Pages /\ p.pc = "waiting" /\ p.rec = tab[t].rec /\ p.req = r
        /\ p.dbok = tab[t].dbok
    BY <1>1, <2>2 DEF Pages
  <2>4. Fits(p) /\ UNCHANGED <<db, recorded>> /\ tab[t].pc = "sending"
    BY <1>1, <1>8, <2>1 DEF Post, Send
  <2>5. Forward /\ hs'[r] # "idle" /\ body'[r].token = tab[t].rec.token
    BY <2>1, <2>2 DEF Send, Forward, ServerInv, TypeInv
  <2> HIDE DEF p
  <2>6. tab'[t] = p
    BY <1>1, <2>4
  <2> HIDE DEF Fits
  <2>7. TabOK(t)'
    BY <1>1, <2>2, <2>3, <2>4, <2>5, <2>6 DEF TabOK, Ready
  <2> QED
    BY <1>3, <2>3, <2>4, <2>5, <2>7
<1>9. CASE Response(t)
  <2> DEFINE a == resp[tab[t].req]
             pc == IF Confirms(a) THEN "settling" ELSE "idle"
             c == IF Confirms(a) THEN a.choice ELSE None
             p == [tab[t] EXCEPT !.pc = pc, !.settle = c, !.req = 0]
  <2>1. tab[t].pc = "waiting" /\ tab' = [tab EXCEPT ![t].pc = pc, ![t].settle = c, ![t].req = 0]
    BY <1>9 DEF Response
  <2>2. tab[t].req \in Requests /\ body[tab[t].req].token = tab[t].rec.token
          /\ tab[t].rec.token \in Tokens
    BY <1>1, <2>1 DEF TabOK, Recs
  <2>3. Confirms(a) => a.choice = recorded[tab[t].rec.token] /\ a.choice # None
    BY <2>2 DEF Confirms, ServerInv, AnswersAreTrue, ReceiptIsRecorded, Votes
  <2>4. recorded[tab[t].rec.token] \in Choices \cup {None}
    BY <2>2 DEF ServerInv, TypeInv
  <2>5. c \in Choices \cup {None} /\ pc \in {"settling", "idle"}
          /\ (pc = "settling" => c # None /\ recorded[tab[t].rec.token] = c)
    BY <2>3, <2>4
  <2> HIDE DEF pc, c
  <2>6. p \in Pages /\ p.pc = pc /\ p.rec = tab[t].rec /\ p.settle = c /\ p.dbok = tab[t].dbok
    BY <1>1, <2>5 DEF Pages
  <2>7. Fits(p) /\ UNCHANGED <<db, hs, body, recorded>>
    BY <1>1, <1>9, <2>1 DEF Response, server
  <2> HIDE DEF p
  <2>8. tab'[t] = p
    BY <1>1, <2>7
  <2> HIDE DEF Fits
  <2>9. TabOK(t)'
    BY <1>1, <2>1, <2>5, <2>6, <2>7, <2>8 DEF TabOK, Ready
  <2> QED
    BY <1>3, <1>4, <2>6, <2>7, <2>9
<1>10. CASE ConnectionLost(t)
  <2> DEFINE p == [tab[t] EXCEPT !.pc = "idle", !.req = 0]
  <2>1. p \in Pages /\ p.pc = "idle" /\ p.rec = tab[t].rec /\ p.dbok = tab[t].dbok
    BY <1>1 DEF Pages
  <2>2. Fits(p) /\ UNCHANGED <<db, hs, body, recorded>> /\ tab[t].pc = "waiting"
    BY <1>1, <1>10 DEF ConnectionLost
  <2> HIDE DEF p
  <2>3. tab'[t] = p
    BY <1>1, <2>2
  <2> HIDE DEF Fits
  <2>4. TabOK(t)'
    BY <1>1, <2>1, <2>2, <2>3 DEF TabOK, Ready
  <2> QED
    BY <1>3, <1>4, <2>1, <2>2, <2>4
<1> QED
  BY <1>5, <1>6, <1>7, <1>8, <1>9, <1>10

\* The server sees of a tab what it may send, and that its client has left.
LEMMA PageServer ==
    ASSUME PageInv, ServerInv, NEW t \in Tabs, PageStep(t), UNCHANGED setting
    PROVE  ServerInv'
<1>1. CASE UNCHANGED <<hs, body, op, out, resp, recorded, phase, wrote>>
  BY <1>1 DEF ServerInv, TypeInv, PlaceInv, OutInv, AnswersAreTrue, ReceiptIsRecorded,
              RefusalWritesNothing, Votes, setting
<1>2. CASE Post(t)
  <2>1. PICK r \in NextRequest : Send(r, [token |-> tab[t].rec.token, choice |-> SentChoice(t)])
    BY <1>2 DEF Post
  <2>2. TabOK(t) /\ tab[t] \in Pages /\ tab[t].pc = "sending"
    BY <1>2 DEF Post, PageInv, PageType
  <2>3. tab[t].rec.token \in Tokens /\ SentChoice(t) \in Choices
    BY <2>2 DEF TabOK, Recs, SentChoice
  <2>4. r \in Requests /\ [token |-> tab[t].rec.token, choice |-> SentChoice(t)] \in Bodies(r)
    BY <2>3 DEF NextRequest, Bodies, ServerInv
  <2>5. [Next /\ UNCHANGED setting]_<<server, setting>>
    BY <2>1, <2>4 DEF Next
  <2> QED
    BY <2>5, NextTypeInv, NextPlaceInv, NextOutInv, NextAnswers DEF ServerInv, setting
<1> QED
  BY <1>1, <1>2
  DEF PageStep, Load, CloseTab, Refresh, StorageLost, Click, Save, Response, ConnectionLost,
      Settle, server

-----------------------------------------------------------------------------
(* One browser with working storage *)

\* The choice of the shared record is made once.
LEMMA ChoiceStays ==
    ASSUME PageInv, ServerInv, OneChoice, UNCHANGED server,
           NEW t \in Tabs, NEW p \in Pages, NEW v \in Recs, NEW w \in Recs, Changed(t, p, w, TRUE),
           p.pc # "closed", v = db \/ (db = NoRecord /\ ~ Ready(v) /\ tab[t].pc = "closed"),
           w.token = v.token, Ready(v) => Choice(w) = Choice(v)
    PROVE  OneChoice'
<1>1. PageType /\ NoRecord \notin Recs
  BY NumberAssumption DEF PageInv, Recs, NoRecord
<1>2. db' = w /\ \A u \in Tabs \ {t} : tab'[u] = tab[u]
  BY <1>1 DEF Changed, PageType
<1>3. tab'[t].rec = w /\ tab'[t].dbok
  <2>1. tab'[t] = [[p EXCEPT !.rec = w] EXCEPT !.dbok = TRUE]
    BY <1>1 DEF Changed, PageType
  <2> QED
    BY <2>1 DEF Pages
<1>4. Choice(db) # None => Ready(db)
  BY DEF Ready, Choice
<1>5. db \in Recs /\ Ready(db) => db'.token = db.token /\ Choice(db') = Choice(db)
  BY <1>1, <1>2
<1>6. ASSUME NEW u \in Tabs, tab'[u].pc # "closed"
      PROVE  tab'[u].dbok /\ (Ready(tab'[u].rec) => Choice(tab'[u].rec) = Choice(db'))
  <2>1. CASE u = t
    BY <1>2, <1>3, <2>1
  <2>2. CASE u # t
    <3>1. tab'[u] = tab[u] /\ TabOK(u) /\ tab[u].pc # "closed" /\ tab[u].dbok
      BY <1>2, <1>6, <2>2 DEF PageInv, OneChoice
    <3>2. db \in Recs /\ (Ready(tab[u].rec) => Ready(db) /\ Choice(tab[u].rec) = Choice(db))
      BY <3>1 DEF TabOK, OneChoice
    <3> QED
      BY <1>5, <3>1, <3>2
  <2> QED
    BY <2>1, <2>2
<1>7. ASSUME NEW r \in Requests, hs[r] # "idle"
      PROVE  db' \in Recs /\ body[r].token = db'.token /\ body[r].choice = Choice(db')
  <2>1. body[r].choice \in Choices
    BY <1>7 DEF ServerInv, PlaceInv
  <2>2. db \in Recs /\ body[r].token = db.token /\ body[r].choice = Choice(db)
    BY <1>7 DEF OneChoice
  <2> QED
    BY <1>2, <1>4, <1>5, <2>1, <2>2, ChoiceAssumption
<1>8. ASSUME NEW k \in Tokens, recorded[k] # None
      PROVE  db' \in Recs /\ k = db'.token /\ recorded[k] = Choice(db')
  BY <1>2, <1>4, <1>5, <1>8 DEF OneChoice
<1>9. UNCHANGED <<hs, body, recorded, cnt, out>>
  BY DEF server
<1> QED
  BY <1>6, <1>7, <1>8, <1>9 DEF OneChoice

\* An update of a tab whose storage works is stored.
LEMMA UpdateIsStored ==
    ASSUME PageInv, OneChoice, Failing = {}, NEW t \in Tabs, NEW p \in Pages, NEW v,
           NEW ok \in BOOLEAN, Base(t, p, v, ok), p.rec = tab[t].rec, p.dbok
    PROVE  /\ ok /\ v \in Recs
           /\ v = db \/ (db = NoRecord /\ ~ Ready(v) /\ tab[t].pc = "closed")
           /\ tab[t].pc # "closed" => v.token = tab[t].rec.token
<1>1. tab[t].pc # "closed" => tab[t].dbok
  BY DEF OneChoice
<1>4. /\ tab[t].pc # "closed" /\ p.dbok => tab[t].dbok
      /\ tab[t].pc = "closed" /\ Failing = {} => p.dbok
  BY <1>1
<1>2. /\ v \in Recs
      /\ tab[t].pc # "closed" => v.token = tab[t].rec.token
      /\ ok => v = db \/ (db = NoRecord /\ ~ Ready(v) /\ tab[t].pc = "closed")
      /\ Failing = {} /\ p.dbok => ok
  BY <1>4, BaseFacts
<1> HIDE DEF Ready
<1> QED
  BY <1>2

LEMMA BrowserSteps ==
    ASSUME PageInv, ServerInv, OneChoice, Failing = {}, NEW t \in Tabs, PageStep(t)
    PROVE  OneChoice'
<1>1. TabOK(t) /\ tab[t] \in Pages /\ tab \in [Tabs -> Pages]
        /\ (tab[t].pc # "closed" => tab[t].dbok)
  BY DEF PageInv, PageType, OneChoice
<1>2. CASE Load(t)
  <2> DEFINE p == [ClosedTab EXCEPT !.pc = "idle", !.dbok = TRUE]
  <2>1. Update(t, p, Same) /\ tab[t].pc = "closed" /\ UNCHANGED server
    BY <1>2 DEF Load
  <2>7. ClosedTab \in Pages /\ ClosedTab.rec = NoRecord /\ tab[t] = ClosedTab
    BY <1>1, <2>1 DEF Pages, ClosedTab, TabOK
  <2>2. p \in Pages /\ p.rec = NoRecord /\ p.pc = "idle" /\ p.dbok /\ tab[t].rec = NoRecord
    BY <2>7 DEF Pages
  <2>3. PICK v : \E ok \in BOOLEAN : Base(t, p, v, ok) /\ Changed(t, p, v, ok)
    BY <2>1, UpdateCases
  <2>4. PICK ok \in BOOLEAN : Base(t, p, v, ok) /\ Changed(t, p, v, ok)
    BY <2>3
  <2> HIDE DEF p
  <2>5. ok /\ v \in Recs /\ (v = db \/ (db = NoRecord /\ ~ Ready(v) /\ tab[t].pc = "closed"))
    BY <2>2, <2>4, UpdateIsStored
  <2>6. Changed(t, p, v, TRUE)
    BY <2>4, <2>5
  <2> QED
    BY <2>1, <2>2, <2>5, <2>6, ChoiceStays
<1>3. CASE Refresh(t)
  <2> DEFINE p == tab[t]
  <2>1. Update(t, p, Same) /\ p.pc \in {"idle", "saving"} /\ UNCHANGED server
    BY <1>3 DEF Refresh
  <2>3. PICK v : \E ok \in BOOLEAN : Base(t, p, v, ok) /\ Changed(t, p, v, ok)
    BY <2>1, UpdateCases
  <2>4. PICK ok \in BOOLEAN : Base(t, p, v, ok) /\ Changed(t, p, v, ok)
    BY <2>3
  <2>5. ok /\ v \in Recs /\ (v = db \/ (db = NoRecord /\ ~ Ready(v) /\ tab[t].pc = "closed"))
    BY <1>1, <2>1, <2>4, UpdateIsStored
  <2>6. Changed(t, p, v, TRUE)
    BY <2>4, <2>5
  <2> QED
    BY <1>1, <2>1, <2>5, <2>6, ChoiceStays
<1>4. CASE Save(t)
  <2> DEFINE c == tab[t].chosen
             M(v) == WithPending(v, c)
             P(pc) == [tab[t] EXCEPT !.pc = pc]
  <2>1. tab[t].pc = "saving" /\ UNCHANGED server
    BY <1>4 DEF Save
  <2>2. PICK pc \in {"idle", "sending"} : Update(t, P(pc), M)
    BY <1>4 DEF Save
  <2> DEFINE p == P(pc)
  <2>3. PICK v : \E ok \in BOOLEAN : Base(t, p, v, ok) /\ Changed(t, p, WithPending(v, c), ok)
    BY <2>2, UpdateCases
  <2>4. PICK ok \in BOOLEAN : Base(t, p, v, ok) /\ Changed(t, p, WithPending(v, c), ok)
    BY <2>3
  <2>5. p \in Pages /\ p.rec = tab[t].rec /\ p.pc # "closed" /\ p.dbok /\ c \in Choices \cup {None}
    BY <1>1, <2>1 DEF Pages
  <2> HIDE DEF P, p
  <2>6. ok /\ v \in Recs /\ (v = db \/ (db = NoRecord /\ ~ Ready(v) /\ tab[t].pc = "closed"))
    BY <1>1, <2>1, <2>4, <2>5, UpdateIsStored
  <2> DEFINE w == WithPending(v, c)
  <2>7. w \in Recs /\ w.token = v.token /\ (Ready(v) => w = v \/ v.receipt # None)
          /\ w.receipt = v.receipt
    BY <2>5, <2>6, ChangeFacts
  <2>8. Changed(t, p, w, TRUE)
    BY <2>4, <2>6
  <2> HIDE DEF w
  <2>9. Ready(v) => Choice(w) = Choice(v)
    BY <2>7 DEF Choice
  <2> QED
    BY <2>1, <2>5, <2>6, <2>7, <2>8, <2>9, ChoiceStays
<1>5. CASE Settle(t)
  <2> DEFINE c == tab[t].settle
             M(v) == WithReceipt(v, c)
             p == [tab[t] EXCEPT !.pc = "idle", !.settle = None]
  <2>1. tab[t].pc = "settling" /\ UNCHANGED server /\ Update(t, p, M)
    BY <1>5 DEF Settle
  <2>3. PICK v : \E ok \in BOOLEAN : Base(t, p, v, ok) /\ Changed(t, p, WithReceipt(v, c), ok)
    BY <2>1, UpdateCases
  <2>4. PICK ok \in BOOLEAN : Base(t, p, v, ok) /\ Changed(t, p, WithReceipt(v, c), ok)
    BY <2>3
  <2>5. p \in Pages /\ p.rec = tab[t].rec /\ p.pc # "closed" /\ p.dbok /\ c \in Choices \cup {None}
    BY <1>1, <2>1 DEF Pages
  <2> HIDE DEF p
  <2>6. ok /\ v \in Recs /\ v = db /\ v.token = tab[t].rec.token
    BY <1>1, <2>1, <2>4, <2>5, UpdateIsStored
  <2> DEFINE w == WithReceipt(v, c)
  <2>7. w \in Recs /\ w.token = v.token /\ w.receipt = c
    BY <2>5, <2>6, ChangeFacts
  <2>8. Changed(t, p, w, TRUE)
    BY <2>4, <2>6
  <2> HIDE DEF w
  <2>9. Choice(w) = Choice(v)
    <3>1. c # None /\ recorded[v.token] = c /\ v.token \in Tokens
      BY <1>1, <2>1, <2>6 DEF TabOK, Recs
    <3>2. Choice(w) = c
      BY <2>7, <3>1 DEF Choice
    <3> QED
      BY <2>6, <3>1, <3>2 DEF OneChoice
  <2> QED
    BY <2>1, <2>5, <2>6, <2>7, <2>8, <2>9, ChoiceStays

<1>6. ASSUME UNCHANGED <<db, hs, body, recorded, cnt, out>>,
             NEW p, tab' = [tab EXCEPT ![t] = p],
             p.pc = "closed" \/ (tab[t].pc # "closed" /\ p.rec = tab[t].rec /\ p.dbok = tab[t].dbok)
      PROVE  OneChoice'
  <2>1. tab'[t] = p /\ \A u \in Tabs \ {t} : tab'[u] = tab[u]
    BY <1>1, <1>6
  <2>2. \A u \in Tabs : tab'[u].pc # "closed" =>
          tab[u].pc # "closed" /\ tab'[u].rec = tab[u].rec /\ tab'[u].dbok = tab[u].dbok
    BY <1>6, <2>1
  <2> HIDE DEF Ready, Choice
  <2> QED
    BY <1>6, <2>2 DEF OneChoice
<1>7. CASE CloseTab(t)
  <2>1. ClosedTab.pc = "closed"
    BY DEF ClosedTab
  <2>2. tab' = [tab EXCEPT ![t] = ClosedTab] /\ UNCHANGED <<db, hs, body, recorded, cnt, out>>
    BY <1>7 DEF CloseTab
  <2> QED
    BY <1>6, <2>1, <2>2
<1>8. CASE StorageLost(t)
  BY <1>8 DEF StorageLost
<1>9. CASE Click(t)
  <2>1. PICK c : tab' = [tab EXCEPT ![t].pc = "saving", ![t].chosen = c]
    BY <1>9 DEF Click
  <2> DEFINE p == [tab[t] EXCEPT !.pc = "saving", !.chosen = c]
  <2>2. p.rec = tab[t].rec /\ p.dbok = tab[t].dbok
    BY <1>1 DEF Pages
  <2>3. tab' = [tab EXCEPT ![t] = p] /\ UNCHANGED <<db, hs, body, recorded, cnt, out>>
          /\ tab[t].pc # "closed"
    BY <1>1, <1>9, <2>1 DEF Click, server
  <2> HIDE DEF p
  <2> QED
    BY <1>6, <2>2, <2>3
<1>10. CASE Response(t)
  <2>1. PICK pc, c : tab' = [tab EXCEPT ![t].pc = pc, ![t].settle = c, ![t].req = 0]
    BY <1>10 DEF Response
  <2> DEFINE p == [tab[t] EXCEPT !.pc = pc, !.settle = c, !.req = 0]
  <2>2. p.rec = tab[t].rec /\ p.dbok = tab[t].dbok
    BY <1>1 DEF Pages
  <2>3. tab' = [tab EXCEPT ![t] = p] /\ UNCHANGED <<db, hs, body, recorded, cnt, out>>
          /\ tab[t].pc # "closed"
    BY <1>1, <1>10, <2>1 DEF Response, server
  <2> HIDE DEF p
  <2> QED
    BY <1>6, <2>2, <2>3
<1>11. CASE ConnectionLost(t)
  <2> DEFINE p == [tab[t] EXCEPT !.pc = "idle", !.req = 0]
  <2>2. p.rec = tab[t].rec /\ p.dbok = tab[t].dbok
    BY <1>1 DEF Pages
  <2>3. tab' = [tab EXCEPT ![t] = p] /\ UNCHANGED <<db, hs, body, recorded, cnt, out>>
          /\ tab[t].pc # "closed"
    BY <1>1, <1>11 DEF ConnectionLost
  <2> HIDE DEF p
  <2> QED
    BY <1>6, <2>2, <2>3
<1>12. CASE Post(t)
  <2>1. PICK r \in Requests :
             /\ Send(r, [token |-> tab[t].rec.token, choice |-> SentChoice(t)])
             /\ tab' = [tab EXCEPT ![t].pc = "waiting", ![t].req = r, ![t].chosen = None]
    BY <1>12 DEF Post, NextRequest
  <2> DEFINE p == [tab[t] EXCEPT !.pc = "waiting", !.req = r, !.chosen = None]
  <2>2. p.rec = tab[t].rec /\ p.dbok = tab[t].dbok
    BY <1>1 DEF Pages
  <2>3. tab' = [tab EXCEPT ![t] = p] /\ UNCHANGED <<db, recorded, cnt, out>>
          /\ tab[t].pc = "sending"
    BY <1>1, <1>12, <2>1 DEF Post, Send
  <2> HIDE DEF p
  <2>4. tab'[t] = p /\ \A u \in Tabs \ {t} : tab'[u] = tab[u]
    BY <1>1, <2>3
  <2>5. \A u \in Tabs : tab'[u].pc # "closed" =>
          tab[u].pc # "closed" /\ tab'[u].rec = tab[u].rec /\ tab'[u].dbok = tab[u].dbok
    BY <2>2, <2>3, <2>4
  <2>6. tab[t].rec.pending # None /\ tab[t].rec.receipt = None /\ tab[t].dbok
          /\ db \in Recs /\ db.token = tab[t].rec.token
    BY <1>1, <2>3 DEF TabOK
  <2>7. SentChoice(t) = Choice(db)
    BY <2>3, <2>6 DEF SentChoice, OneChoice, Ready, Choice
  <2>8. body' = [body EXCEPT ![r] = [token |-> tab[t].rec.token, choice |-> SentChoice(t)]]
          /\ hs' = [hs EXCEPT ![r] = "sent"]
    BY <2>1 DEF Send
  <2>9. body'[r].token = db.token /\ body'[r].choice = Choice(db)
          /\ \A q \in Requests \ {r} : body'[q] = body[q] /\ hs'[q] = hs[q]
    BY <2>6, <2>7, <2>8 DEF ServerInv, TypeInv
  <2> HIDE DEF Ready, Choice
  <2> QED
    BY <2>3, <2>5, <2>6, <2>9 DEF OneChoice
<1> QED
  BY <1>2, <1>3, <1>4, <1>5, <1>7, <1>8, <1>9, <1>10, <1>11, <1>12 DEF PageStep

\* Nor does the server record anything else, or find a conflict.
LEMMA BrowserServer ==
    ASSUME PageInv, ServerInv, OneChoice, ServerStep, UNCHANGED <<db, tab, setting>>
    PROVE  OneChoice'
<1>1. Forward /\ Recording /\ body' = body
  BY ServerSteps
<1>2. \A r \in Requests : hs[r] # "idle" => body[r].token = db.token /\ body[r].choice = Choice(db)
                                              /\ db \in Recs /\ body[r].choice # None
  BY ChoiceAssumption DEF OneChoice, ServerInv, PlaceInv
<1>3. \A k \in Tokens : recorded[k] # None => k = db.token /\ recorded[k] = Choice(db)
  BY DEF OneChoice
<1>4. NoConflict
  BY DEF NoConflict, OneChoice
<1>5. NoConflict'
  BY <1>1, <1>2, <1>3, <1>4 DEF Recording
<1>6. \A r \in Requests : hs'[r] # "idle" => hs[r] # "idle"
  BY <1>1 DEF Recording
<1>7. \A k \in Tokens : recorded'[k] # None =>
         db \in Recs /\ k = db.token /\ recorded'[k] = Choice(db)
  <2> TAKE k \in Tokens
  <2>1. CASE recorded'[k] = recorded[k]
    BY <2>1 DEF OneChoice
  <2>2. CASE recorded'[k] # recorded[k]
    BY <1>1, <1>2, <2>2 DEF Recording
  <2> QED
    BY <2>1, <2>2
<1> HIDE DEF Ready, Choice
<1> QED
  BY <1>1, <1>2, <1>5, <1>6, <1>7 DEF OneChoice, NoConflict

-----------------------------------------------------------------------------
(* The theorems *)

PageIInv == ServerInv /\ PageInv /\ BrowserOK

LEMMA InitPageInv == PageInit => PageIInv
<1> SUFFICES ASSUME PageInit PROVE PageIInv
  OBVIOUS
<1>1. ServerInv
  BY InitInv DEF PageInit, ServerInv
<1>2. Browser \in [failing : SUBSET Tabs, tokens : SUBSET Tokens, choices : SUBSET Choices]
  BY NumberAssumption DEF PageInit
<1>3. ClosedTab \in Pages /\ ClosedTab.pc = "closed" /\ ClosedTab.rec.receipt = None
        /\ NoRecord.receipt = None
  BY DEF ClosedTab, Pages, NoRecord
<1>4. tab \in [Tabs -> Pages] /\ db = NoRecord /\ \A t \in Tabs : tab[t] = ClosedTab
  BY <1>3 DEF PageInit
<1>5. PageInv
  BY <1>2, <1>3, <1>4 DEF PageInv, PageType, TabOK
<1>6. OneChoice
  BY <1>3, <1>4 DEF OneChoice, PageInit, ServerInit, Outcome, None, Counters
<1> QED
  BY <1>1, <1>5, <1>6 DEF PageIInv, BrowserOK

LEMMA NextPageInv ==
    PageIInv /\ [PageNext /\ UNCHANGED <<setting, Browser>>]_<<vars, setting, Browser>> => PageIInv'
<1> SUFFICES ASSUME PageIInv,
                    [PageNext /\ UNCHANGED <<setting, Browser>>]_<<vars, setting, Browser>>
             PROVE  PageIInv'
  OBVIOUS
<1>1. CASE UNCHANGED <<vars, setting, Browser>>
  <2>1. ServerInv'
    BY <1>1 DEF PageIInv, ServerInv, TypeInv, PlaceInv, OutInv, AnswersAreTrue,
                ReceiptIsRecorded, RefusalWritesNothing, Votes, setting, vars, server
  <2>2. PageInv'
    BY <1>1 DEF PageIInv, PageInv, PageType, TabOK, vars, server
  <2>3. BrowserOK'
    BY <1>1 DEF PageIInv, BrowserOK, OneChoice, Failing, vars, server
  <2> QED
    BY <2>1, <2>2, <2>3 DEF PageIInv
<1>2. CASE ServerStep /\ UNCHANGED <<db, tab>> /\ UNCHANGED <<setting, Browser>>
  <2>1. ServerInv' /\ Forward
    BY <1>2, ServerSteps DEF PageIInv
  <2>2. Grown
    BY <1>2 DEF Grown, PageIInv, PageInv, PageType
  <2>3. \A t \in Tabs : TabOK(t)'
    BY <1>2, <2>1, <2>2, TabStays DEF PageIInv
  <2>4. (db.receipt # None => recorded[db.token] = db.receipt)'
    <3>1. db.receipt # None => db.token \in Tokens
      BY DEF PageIInv, PageInv, PageType, Recs, NoRecord
    <3> QED
      BY <1>2, <2>1, <3>1 DEF PageIInv, PageInv, Forward
  <2>5. PageInv'
    BY <1>2, <2>3, <2>4 DEF PageIInv, PageInv, PageType
  <2>6. BrowserOK'
    BY <1>2, BrowserServer DEF PageIInv, BrowserOK, Failing
  <2> QED
    BY <2>1, <2>5, <2>6 DEF PageIInv
<1>3. ASSUME NEW t \in Tabs, PageStep(t), UNCHANGED <<setting, Browser>> PROVE PageIInv'
  <2>1. ServerInv'
    BY <1>3, PageServer DEF PageIInv
  <2>2. PageInv'
    BY <1>3, LoadStep, RefreshStep, SaveStep, SettleStep, TabSteps DEF PageIInv, PageStep
  <2>3. BrowserOK'
    BY <1>3, BrowserSteps DEF PageIInv, BrowserOK, Failing
  <2> QED
    BY <2>1, <2>2, <2>3 DEF PageIInv
<1> QED
  BY <1>1, <1>2, <1>3 DEF PageNext

\* What any tab shows as recorded is what the server counts for its token: the
\* receipt that is saved is the server's, which never changes (sendVote and
\* settleReceipt in poll.js).
THEOREM ReceiptStaysTrue == PageSpec => []ReceiptIsTrue
<1>1. PageIInv => ReceiptIsTrue
  BY DEF PageIInv, PageInv, TabOK, ReceiptIsTrue, Records
<1> QED
  BY <1>1, InitPageInv, NextPageInv, PTL DEF PageSpec

\* As long as the storage of a browser works, whatever its tabs do at the same
\* time, one token and one choice reach the server (update in poll.js).
THEOREM OneVoteOnly == PageSpec => []OneVotePerBrowser
<1>1. PageIInv => OneVotePerBrowser
  <2> SUFFICES ASSUME PageIInv, Failing = {}
               PROVE  /\ Cardinality({k \in Tokens : recorded[k] # None}) <= 1
                      /\ cnt["conflicts"] = 0
    BY DEF OneVotePerBrowser
  <2> DEFINE S == {k \in Tokens : recorded[k] # None}
  <2>1. OneChoice
    BY DEF PageIInv, BrowserOK
  <2>2. S \subseteq {db.token}
    BY <2>1 DEF OneChoice
  <2>4. IsFiniteSet({db.token}) /\ Cardinality({db.token}) = 1
    BY FS_Singleton
  <2>5. IsFiniteSet(S) /\ Cardinality(S) <= Cardinality({db.token})
    BY <2>2, <2>4, FS_Subset
  <2>3. Cardinality(S) <= 1
    BY <2>4, <2>5
  <2> QED
    BY <2>1, <2>3 DEF OneChoice
<1> QED
  BY <1>1, InitPageInv, NextPageInv, PTL DEF PageSpec

\* A record that is changed keeps its token.
LEMMA TokenStays ==
    ASSUME PageInv, NEW t \in Tabs, NEW p \in Pages, NEW v, NEW w \in Recs, NEW ok \in BOOLEAN,
           Base(t, p, v, ok), Changed(t, p, w, ok), w.token = v.token,
           p.rec = tab[t].rec, p.dbok = tab[t].dbok, tab[t].pc # "closed"
    PROVE  tab'[t].rec.token = tab[t].rec.token
<1>1. tab \in [Tabs -> Pages]
  BY DEF PageInv, PageType
<1>2. v.token = tab[t].rec.token
  BY BaseFacts
<1>3. tab'[t] = [[p EXCEPT !.rec = w] EXCEPT !.dbok = ok]
  BY <1>1 DEF Changed
<1>4. tab'[t].rec = w
  BY <1>3 DEF Pages
<1> QED
  BY <1>2, <1>4

\* A step of a page is its own.
LEMMA OneTabMoves ==
    ASSUME PageInv, NEW t \in Tabs, PageStep(t), NEW u \in Tabs \ {t}
    PROVE  tab'[u] = tab[u]
<1>1. tab \in [Tabs -> Pages]
  BY DEF PageInv, PageType
<1>2. ASSUME NEW p, Update(t, p, Same) PROVE tab'[u] = tab[u]
  BY <1>1, <1>2, UpdateCases DEF Changed
<1>3. CASE Save(t)
  <2> DEFINE c == tab[t].chosen
             M(v) == WithPending(v, c)
  <2>1. PICK pc \in {"idle", "sending"} : Update(t, [tab[t] EXCEPT !.pc = pc], M)
    BY <1>3 DEF Save
  <2>2. PICK v : \E ok \in BOOLEAN : Changed(t, [tab[t] EXCEPT !.pc = pc], WithPending(v, c), ok)
    BY <2>1, UpdateCases
  <2> QED
    BY <1>1, <2>2 DEF Changed
<1>4. CASE Settle(t)
  <2> DEFINE c == tab[t].settle
             M(v) == WithReceipt(v, c)
             p == [tab[t] EXCEPT !.pc = "idle", !.settle = None]
  <2>1. Update(t, p, M)
    BY <1>4 DEF Settle
  <2>2. PICK v : \E ok \in BOOLEAN : Changed(t, p, WithReceipt(v, c), ok)
    BY <2>1, UpdateCases
  <2> QED
    BY <1>1, <2>2 DEF Changed
<1>5. CASE Load(t) \/ Refresh(t)
  BY <1>2, <1>5 DEF Load, Refresh
<1>6. CASE CloseTab(t) \/ StorageLost(t) \/ Click(t) \/ Post(t) \/ Response(t) \/ ConnectionLost(t)
  BY <1>1, <1>6 DEF CloseTab, StorageLost, Click, Post, Response, ConnectionLost
<1> QED
  BY <1>3, <1>4, <1>5, <1>6 DEF PageStep

\* A loaded page never changes its token: whatever is read, in storage or in
\* memory, has the token the page already has (update in poll.js).
THEOREM KeyAlwaysKept == PageSpec => KeyIsKept
<1>1. ASSUME PageInv, NEW t \in Tabs, PageStep(t), tab[t].pc # "closed", tab'[t].pc # "closed"
      PROVE  tab'[t].rec.token = tab[t].rec.token
  <2>1. TabOK(t) /\ tab[t] \in Pages /\ tab \in [Tabs -> Pages]
    BY <1>1 DEF PageInv, PageType
  <2>2. ~ Load(t) /\ ~ CloseTab(t)
    <3>1. ClosedTab.pc = "closed"
      BY DEF ClosedTab
    <3> QED
      BY <1>1, <2>1, <3>1 DEF Load, CloseTab
  <2>3. CASE StorageLost(t) \/ Click(t) \/ Post(t) \/ Response(t) \/ ConnectionLost(t)
    <3>1. CASE StorageLost(t)
      BY <2>1, <3>1 DEF StorageLost, Pages
    <3>2. CASE Click(t)
      BY <2>1, <3>2 DEF Click, Pages
    <3>3. CASE Post(t)
      BY <2>1, <3>3 DEF Post, Pages
    <3>4. CASE Response(t)
      BY <2>1, <3>4 DEF Response, Pages
    <3>5. CASE ConnectionLost(t)
      BY <2>1, <3>5 DEF ConnectionLost, Pages
    <3> QED
      BY <2>3, <3>1, <3>2, <3>3, <3>4, <3>5
  <2>4. CASE Refresh(t)
    <3>1. PICK v : \E ok \in BOOLEAN : Base(t, tab[t], v, ok) /\ Changed(t, tab[t], v, ok)
      BY <2>4, UpdateCases DEF Refresh
    <3>2. PICK ok \in BOOLEAN : Base(t, tab[t], v, ok) /\ Changed(t, tab[t], v, ok)
      BY <3>1
    <3>3. v \in Recs
      BY <1>1, <2>1, <3>2, BaseFacts
    <3> QED
      BY <1>1, <2>1, <3>2, <3>3, TokenStays
  <2>5. CASE Save(t)
    <3> DEFINE c == tab[t].chosen
               M(v) == WithPending(v, c)
               P(pc) == [tab[t] EXCEPT !.pc = pc]
    <3>1. PICK pc \in {"idle", "sending"} : Update(t, P(pc), M)
      BY <2>5 DEF Save
    <3> DEFINE p == P(pc)
    <3>2. PICK v : \E ok \in BOOLEAN : Base(t, p, v, ok) /\ Changed(t, p, WithPending(v, c), ok)
      BY <3>1, UpdateCases
    <3>3. PICK ok \in BOOLEAN : Base(t, p, v, ok) /\ Changed(t, p, WithPending(v, c), ok)
      BY <3>2
    <3>4. p \in Pages /\ p.rec = tab[t].rec /\ p.dbok = tab[t].dbok /\ c \in Choices \cup {None}
      BY <2>1 DEF Pages
    <3> HIDE DEF P, p
    <3>5. v \in Recs
      BY <1>1, <2>1, <3>3, <3>4, BaseFacts
    <3> DEFINE w == WithPending(v, c)
    <3>6. w \in Recs /\ w.token = v.token
      BY <3>4, <3>5, ChangeFacts
    <3> HIDE DEF c, w
    <3> QED
      BY <1>1, <2>1, <3>3, <3>4, <3>6, TokenStays DEF w
  <2>6. CASE Settle(t)
    <3> DEFINE c == tab[t].settle
               M(v) == WithReceipt(v, c)
               p == [tab[t] EXCEPT !.pc = "idle", !.settle = None]
    <3>1. Update(t, p, M)
      BY <2>6 DEF Settle
    <3>2. PICK v : \E ok \in BOOLEAN : Base(t, p, v, ok) /\ Changed(t, p, WithReceipt(v, c), ok)
      BY <3>1, UpdateCases
    <3>3. PICK ok \in BOOLEAN : Base(t, p, v, ok) /\ Changed(t, p, WithReceipt(v, c), ok)
      BY <3>2
    <3>4. p \in Pages /\ p.rec = tab[t].rec /\ p.dbok = tab[t].dbok /\ c \in Choices \cup {None}
      BY <2>1 DEF Pages
    <3> HIDE DEF p
    <3>5. v \in Recs
      BY <1>1, <2>1, <3>3, <3>4, BaseFacts
    <3> DEFINE w == WithReceipt(v, c)
    <3>6. w \in Recs /\ w.token = v.token
      BY <3>4, <3>5, ChangeFacts
    <3> HIDE DEF c, w
    <3> QED
      BY <1>1, <2>1, <3>3, <3>4, <3>6, TokenStays DEF w
  <2> QED
    BY <1>1, <2>2, <2>3, <2>4, <2>5, <2>6 DEF PageStep
<1>2. PageIInv /\ [PageNext /\ UNCHANGED <<setting, Browser>>]_<<vars, setting, Browser>>
        => [\A t \in Tabs : tab[t].pc # "closed" /\ tab'[t].pc # "closed" =>
              tab'[t].rec.token = tab[t].rec.token]_vars
  <2> SUFFICES ASSUME PageInv, PageNext, NEW u \in Tabs, tab[u].pc # "closed", tab'[u].pc # "closed"
               PROVE  tab'[u].rec.token = tab[u].rec.token
    BY DEF PageIInv
  <2>1. CASE tab'[u] = tab[u]
    BY <2>1
  <2>2. CASE tab'[u] # tab[u]
    <3>1. PICK t \in Tabs : PageStep(t)
      BY <2>2 DEF PageNext
    <3>2. t = u
      BY <2>2, <3>1, OneTabMoves
    <3> QED
      BY <1>1, <3>1, <3>2
  <2> QED
    BY <2>1, <2>2
<1> QED
  BY <1>2, InitPageInv, NextPageInv, PTL DEF PageSpec, KeyIsKept

-----------------------------------------------------------------------------
(* The administrator's page.  Requests overlap, so what is needed is about *)
(* every request under way: PanelInv says what the panel shows, and        *)
(* AnswerInv that an answer is never older than what it would replace of   *)
(* an answer of its kind, which holds because SequenceInv gives the newest *)
(* number to one request of a kind.                                        *)

Lists == UNION {[S -> Nat] : S \in SUBSET Polls}
ShownSet == [state : Nat, from : {"list", "results"}]
PanelSet == [open : BOOLEAN, poll : Polls \cup {Nothing}, total : Nat, badge : ShownSet]
CallSet == [kind   : {"login", "logout", "session", "list", "results", "create", Nothing},
            id     : Polls \cup {Nothing}, seq : Nat,
            frees  : SUBSET {"login", "logout", "create"},
            st     : {"sent", "answered", "lost", "over"}, status : Nat,
            list   : Lists, at : Nat]

AdminTypeInv ==
    /\ auth \in BOOLEAN /\ created \subseteq Polls
    /\ DOMAIN polls \subseteq created /\ \A p \in DOMAIN polls : polls[p] \in ShownSet
    /\ listSequence \in Nat /\ resultsSequence \in Nat
    /\ panel \in PanelSet
    /\ progress \in [Polls -> 0 .. MaxProgress]
    /\ calls \in Seq(CallSet)

\* The panel is open exactly when a poll is selected, and shows that poll, with
\* a total it had; every state shown is one the poll had, and the badge is not
\* behind a row that is from the same kind of answer.
PanelInv ==
    /\ panel.poll = selectedID /\ panel.open = (selectedID # Nothing)
    /\ panel.open => auth /\ selectedID \in created
    /\ panel.total # Dash => panel.open /\ panel.total <= progress[panel.poll]
    /\ panel.open => panel.badge.state <= progress[selectedID]
    /\ \A p \in DOMAIN polls : polls[p].state <= progress[p]
    /\ panel.open /\ selectedID \in DOMAIN polls => NotBack(panel.badge, polls[selectedID])

\* No two requests of a kind have the same number.
SequenceInv ==
    /\ \A i \in Ids : /\ calls[i].kind = "list" => calls[i].seq <= listSequence
                      /\ calls[i].kind = "results" => calls[i].seq <= resultsSequence
    /\ \A i, j \in Ids :
        calls[i].kind \in {"list", "results"} /\ calls[i].kind = calls[j].kind
          /\ calls[i].seq = calls[j].seq => i = j

\* What a list, and results, may not be older than: the states shown that are
\* from an answer of that kind, and the total.
NoOlderList(list) ==
    /\ \A p \in DOMAIN polls :
        IF p \in DOMAIN list THEN polls[p].from = "list" => polls[p].state <= list[p]
        ELSE Cardinality(DOMAIN list) = ListLimit
    /\ panel.open /\ panel.badge.from = "list" /\ selectedID \in DOMAIN list =>
        panel.badge.state <= list[selectedID]
NoOlderResults(id, at) ==
    /\ id \in DOMAIN polls /\ polls[id].from = "results" => polls[id].state <= at
    /\ id = selectedID =>
        /\ panel.total # Dash => panel.total <= at
        /\ panel.badge.from = "results" => panel.badge.state <= at

\* An answer under way is one the server could give since; the newest of its
\* kind is no older than what the page shows of that kind.
CallPolls(c) ==
    /\ c.kind \in {"create", "results"} => c.id \in Polls
    /\ c.kind = "results" => c.id \in created
    /\ \A p \in DOMAIN c.list : p \in created /\ c.list[p] <= progress[p]
AnswerIsNew(c) ==
    /\ c.kind = "list" /\ c.seq = listSequence => NoOlderList(c.list)
    /\ c.kind = "results" => c.at <= progress[c.id]
    /\ c.kind = "results" /\ c.seq = resultsSequence => NoOlderResults(c.id, c.at)
Given(c) == c.st = "answered" /\ c.status = 200
AnswerInv ==
    \A i \in Ids : CallPolls(calls[i]) /\ (Given(calls[i]) => AnswerIsNew(calls[i]))

AdminInv == AdminTypeInv /\ PanelInv /\ SequenceInv /\ AnswerInv

\* What NeverOlder asks of a step, and what is shown of every step.
OnlyForward ==
    /\ auth /\ auth' => \A p \in DOMAIN polls :
          IF p \in DOMAIN polls' THEN NotBack(polls[p], polls'[p])
          ELSE Cardinality(DOMAIN polls') = ListLimit
    /\ panel.open /\ panel'.open /\ panel.poll = panel'.poll =>
          /\ NotBack(panel.badge, panel'.badge)
          /\ panel.total # Dash /\ panel'.total # Dash => panel.total <= panel'.total
StepIsSound == AdminInv' /\ OnlyForward

\* What the steps of the page do to its requests: some end and are forgotten, or
\* nobody waits for them any more, and one may be sent, with the next number of
\* its kind.
CallsMove ==
    /\ UNCHANGED <<created, progress>>
    /\ listSequence' \in Nat /\ listSequence' >= listSequence
    /\ resultsSequence' \in Nat /\ resultsSequence' >= resultsSequence
    /\ calls' \in Seq(CallSet) /\ Ids \subseteq Ids'
    /\ \A i \in Ids : \/ calls'[i] = calls[i]
                      \/ calls'[i].kind = Nothing /\ calls'[i].st = "over" /\ DOMAIN calls'[i].list = {}
                      \/ /\ calls'[i].kind = calls[i].kind /\ calls'[i].seq = calls[i].seq
                         /\ calls'[i].id = calls[i].id /\ calls'[i].list = calls[i].list
                         /\ calls'[i].st = "lost"
    /\ \A i \in Ids' \ Ids :
        /\ calls'[i].st = "sent" /\ DOMAIN calls'[i].list = {}
        /\ calls'[i].kind = "create" => calls'[i].id \in Polls
        /\ calls'[i].kind = "list" => /\ listSequence' = listSequence + 1
                                      /\ calls'[i].seq = listSequence'
        /\ calls'[i].kind = "results" => /\ resultsSequence' = resultsSequence + 1
                                         /\ calls'[i].seq = resultsSequence'
                                         /\ calls'[i].id \in created
    /\ \A i, j \in Ids' \ Ids : i = j

\* What they do to the page: it stays, is emptied, has a poll selected from its
\* list, or takes the newest answer of a kind.
Newer(i, kind, sequence) ==
    /\ i \in Ids /\ calls[i].kind = kind /\ calls[i].seq = sequence
    /\ Given(calls[i]) /\ calls'[i].kind = Nothing
Stays == UNCHANGED <<polls, selectedID, panel>> /\ auth' \in {auth, TRUE}
IsEmptied == auth' = FALSE /\ polls' = NoPolls /\ selectedID' = Nothing /\ panel' = Hidden
\* p is selected from the list that is then shown.
Selects(p) ==
    /\ p \in DOMAIN polls' /\ selectedID' = p /\ panel' = Emptied(p, polls'[p])
    /\ resultsSequence' = resultsSequence + 1
TakesList(i) ==
    /\ Newer(i, "list", listSequence) /\ polls' = Rows(calls[i].list)
    /\ \/ Selects(calls[i].id)
       \/ UNCHANGED <<selectedID, panel>>
       \/ /\ selectedID \in DOMAIN calls[i].list /\ UNCHANGED selectedID
          /\ panel' = [panel EXCEPT !.badge = polls'[selectedID]]
TakesResults(i) ==
    /\ Newer(i, "results", resultsSequence) /\ calls[i].id = selectedID
    /\ panel' = [panel EXCEPT !.total = calls[i].at, !.badge = Shown(calls[i].at, "results")]
    /\ polls' = [p \in DOMAIN polls |->
                   IF p = calls[i].id THEN Shown(calls[i].at, "results") ELSE polls[p]]
    /\ UNCHANGED selectedID
PageMoves ==
    \/ Stays
    \/ IsEmptied
    \/ /\ auth /\ UNCHANGED auth
       /\ \/ UNCHANGED polls /\ \E p \in DOMAIN polls : Selects(p)
          \/ \E i : TakesList(i) \/ TakesResults(i)

-----------------------------------------------------------------------------
\* A sequence with one element more, and one with an element replaced.
LEMMA OneMoreCall ==
    ASSUME NEW s \in Seq(CallSet), NEW c \in CallSet
    PROVE  /\ Append(s, c) \in Seq(CallSet) /\ Len(s) \in Nat
           /\ DOMAIN s = 1 .. Len(s)
           /\ DOMAIN Append(s, c) = DOMAIN s \cup {Len(s) + 1}
           /\ Len(s) + 1 \notin DOMAIN s
           /\ Append(s, c)[Len(s) + 1] = c
           /\ \A i \in DOMAIN s : Append(s, c)[i] = s[i]
  OBVIOUS
LEMMA OtherCall ==
    ASSUME NEW s \in Seq(CallSet), NEW i \in DOMAIN s, NEW c \in CallSet
    PROVE  /\ [s EXCEPT ![i] = c] \in Seq(CallSet)
           /\ Len([s EXCEPT ![i] = c]) = Len(s)
           /\ DOMAIN [s EXCEPT ![i] = c] = DOMAIN s
           /\ [s EXCEPT ![i] = c][i] = c
           /\ \A j \in DOMAIN s \ {i} : [s EXCEPT ![i] = c][j] = s[j]
  OBVIOUS
LEMMA OneCall ==
    ASSUME NEW s \in Seq(CallSet), NEW i \in DOMAIN s
    PROVE  s[i] \in CallSet
  OBVIOUS
LEMMA CallNumber ==
    ASSUME AdminInv, NEW i \in Ids
    PROVE  /\ calls[i] \in CallSet /\ calls[i].seq \in Nat
           /\ calls[i].kind = "list" => calls[i].seq <= listSequence
           /\ calls[i].kind = "results" => calls[i].seq <= resultsSequence
           /\ listSequence \in Nat /\ resultsSequence \in Nat
<1>1. calls[i] \in CallSet
  BY OneCall DEF AdminInv, AdminTypeInv, Ids
<1>2. calls[i].seq \in Nat
  BY <1>1 DEF CallSet
<1> QED
  BY <1>1, <1>2 DEF AdminInv, AdminTypeInv, SequenceInv
LEMMA NoPollsList == NoPolls \in Lists /\ DOMAIN NoPolls = {}
<1>1. NoPolls \in [{} -> Nat]
  BY DEF NoPolls
<1> QED
  BY <1>1 DEF Lists, NoPolls
LEMMA ListFact ==
    ASSUME NEW list \in Lists
    PROVE  DOMAIN list \subseteq Polls /\ \A p \in DOMAIN list : list[p] \in Nat
  BY DEF Lists
LEMMA OverIsCall == Over \in CallSet /\ Over.kind = Nothing /\ Over.st = "over" /\ DOMAIN Over.list = {}
  BY AdminAssumption, NoPollsList DEF Over, Call, CallSet, Dash, Nothing
LEMMA RowsFact ==
    ASSUME NEW list
    PROVE  /\ DOMAIN Rows(list) = DOMAIN list
           /\ \A p \in DOMAIN list : Rows(list)[p] = Shown(list[p], "list")
  BY DEF Rows
LEMMA ShownFact ==
    ASSUME NEW n \in Nat, NEW kind \in {"list", "results"}
    PROVE  /\ Shown(n, kind) \in ShownSet
           /\ Shown(n, kind).state = n /\ Shown(n, kind).from = kind
  BY DEF Shown, ShownSet
LEMMA ShownIsNat == \A r \in ShownSet : r.state \in Nat /\ r.from \in {"list", "results"}
  BY DEF ShownSet

\* A poll is selected, or the panel hidden.
LEMMA EmptiedPanel ==
    ASSUME NEW p \in Polls, NEW badge \in ShownSet
    PROVE  /\ Emptied(p, badge) \in PanelSet
           /\ Emptied(p, badge).open = TRUE /\ Emptied(p, badge).poll = p
           /\ Emptied(p, badge).total = Dash /\ Emptied(p, badge).badge = badge
           /\ p # Nothing
  BY AdminAssumption DEF Emptied, Dash, Nothing, PanelSet
LEMMA HiddenPanel ==
    /\ Hidden \in PanelSet
    /\ Hidden.open = FALSE /\ Hidden.poll = Nothing /\ Hidden.total = Dash
    /\ Hidden.badge.from = "list"
  BY AdminAssumption DEF Hidden, Dash, PanelSet, Shown, ShownSet

\* What a step of the page leaves of what is shown: an answer that is still to
\* come and was no older than the page is none now.
PageIsKept ==
    /\ auth' \in BOOLEAN
    /\ DOMAIN polls' \subseteq created /\ \A p \in DOMAIN polls' : polls'[p] \in ShownSet
    /\ panel' \in PanelSet /\ PanelInv'
    /\ OnlyForward
    /\ \/ \E i : Newer(i, "list", listSequence)
       \/ \A list \in Lists : NoOlderList(list) => NoOlderList(list)'
    /\ \/ \E i : Newer(i, "results", resultsSequence)
       \/ resultsSequence' = resultsSequence + 1
       \/ \A id \in Polls, at \in Nat : NoOlderResults(id, at) => NoOlderResults(id, at)'

\* What the invariant says of the page's parts.
LEMMA PageParts ==
    ASSUME AdminInv
    PROVE  /\ auth \in BOOLEAN /\ created \subseteq Polls /\ DOMAIN polls \subseteq created
           /\ \A p \in DOMAIN polls : /\ polls[p] \in ShownSet /\ polls[p].state \in Nat
                                      /\ polls[p].from \in {"list", "results"}
           /\ \A p \in Polls : progress[p] \in Nat
           /\ panel \in PanelSet /\ panel.badge \in ShownSet
           /\ panel.total \in Nat /\ panel.badge.state \in Nat
           /\ panel.badge.from \in {"list", "results"}
           /\ listSequence \in Nat /\ resultsSequence \in Nat /\ PanelInv
<1>1. panel \in PanelSet
  BY DEF AdminInv, AdminTypeInv
<1>2. panel.badge \in ShownSet /\ panel.total \in Nat
  BY <1>1 DEF PanelSet
<1>3. \A p \in Polls : progress[p] \in Nat
  BY AdminAssumption DEF AdminInv, AdminTypeInv
<1> QED
  BY <1>1, <1>2, <1>3, ShownIsNat DEF AdminInv, AdminTypeInv

\* The parts of an answer that is taken.
LEMMA NewerParts ==
    ASSUME AdminInv, NEW i, NEW kind, NEW sequence, Newer(i, kind, sequence)
    PROVE  /\ calls[i] \in CallSet /\ CallPolls(calls[i]) /\ AnswerIsNew(calls[i])
           /\ calls[i].list \in Lists /\ calls[i].at \in Nat /\ i \in Ids
           /\ calls[i].kind = kind /\ calls[i].seq = sequence
<1>1. i \in Ids /\ Given(calls[i]) /\ calls[i].kind = kind /\ calls[i].seq = sequence
  BY DEF Newer
<1>2. calls[i] \in CallSet
  BY <1>1, CallNumber
<1> QED
  BY <1>1, <1>2 DEF CallSet, AdminInv, AnswerInv

LEMMA StaysIsKept == AdminInv /\ UNCHANGED <<created, progress>> /\ Stays => PageIsKept
<1> SUFFICES ASSUME AdminInv, UNCHANGED <<created, progress>>, Stays PROVE PageIsKept
  OBVIOUS
<1>1. /\ polls' = polls /\ selectedID' = selectedID /\ panel' = panel /\ auth' \in {auth, TRUE}
      /\ created' = created /\ progress' = progress /\ Dash' = Dash
  BY DEF Stays, Dash
<1>2. OnlyForward
  BY <1>1, PageParts DEF OnlyForward, NotBack
<1>3. \A list \in Lists : NoOlderList(list) => NoOlderList(list)'
  BY <1>1 DEF NoOlderList
<1>4. \A id \in Polls, at \in Nat : NoOlderResults(id, at) => NoOlderResults(id, at)'
  BY <1>1 DEF NoOlderResults, Dash
<1>5. PanelInv'
  <2>1. panel.open => auth' = TRUE
    BY <1>1, PageParts DEF PanelInv
  <2> QED
    BY <1>1, <2>1, PageParts DEF PanelInv, NotBack
<1> QED
  BY <1>1, <1>2, <1>3, <1>4, <1>5, PageParts DEF PageIsKept

LEMMA IsEmptiedIsKept == AdminInv /\ UNCHANGED <<created, progress>> /\ IsEmptied => PageIsKept
<1> SUFFICES ASSUME AdminInv, UNCHANGED <<created, progress>>, IsEmptied PROVE PageIsKept
  OBVIOUS
<1>1. /\ auth' = FALSE /\ DOMAIN polls' = {} /\ selectedID' = Nothing /\ panel' = Hidden
      /\ Dash' = Dash
  BY NoPollsList DEF IsEmptied, Dash
<1>2. /\ panel'.open = FALSE /\ panel'.poll = Nothing /\ panel'.total = Dash
      /\ panel'.badge.from = "list" /\ panel' \in PanelSet
  BY <1>1, HiddenPanel
<1>3. OnlyForward
  BY <1>1, <1>2 DEF OnlyForward
<1>4. \A list \in Lists : NoOlderList(list)'
  BY <1>1, <1>2 DEF NoOlderList
<1>5. \A id \in Polls, at \in Nat : NoOlderResults(id, at)'
  BY <1>1, <1>2 DEF NoOlderResults
<1>6. PanelInv'
  BY <1>1, <1>2 DEF PanelInv
<1> QED
  BY <1>1, <1>2, <1>3, <1>4, <1>5, <1>6 DEF PageIsKept

\* A poll is selected: its badge is its row, which a list to come may not be
\* older than, and results are asked for again.
LEMMA SelectsIsKept ==
    ASSUME AdminInv, UNCHANGED <<created, progress, auth, polls>>, auth,
           NEW p \in DOMAIN polls, Selects(p)
    PROVE  PageIsKept
<1>1. /\ selectedID' = p /\ panel' = Emptied(p, polls[p]) /\ polls' = polls
      /\ resultsSequence' = resultsSequence + 1 /\ auth' = auth /\ Dash' = Dash
      /\ created' = created /\ progress' = progress
  BY DEF Selects, Dash
<1>2. p \in created /\ p \in Polls /\ polls[p] \in ShownSet
  BY PageParts
<1>3. /\ panel' \in PanelSet /\ panel'.open = TRUE /\ panel'.poll = p
      /\ panel'.total = Dash /\ panel'.badge = polls[p] /\ p # Nothing
  BY <1>1, <1>2, EmptiedPanel
<1>4. OnlyForward
  <2>1. panel.open /\ panel.poll = p => NotBack(panel.badge, polls[p])
    BY PageParts DEF PanelInv
  <2> QED
    BY <1>1, <1>3, <2>1, PageParts DEF OnlyForward, NotBack
<1>5. \A list \in Lists : NoOlderList(list) => NoOlderList(list)'
  BY <1>1, <1>3 DEF NoOlderList
<1>6. PanelInv'
  <2>1. panel'.open = (selectedID' # Nothing)
    BY <1>1, <1>3, Zenon
  <2> QED
    BY <1>1, <1>2, <1>3, <2>1, PageParts DEF PanelInv, NotBack
<1> QED
  BY <1>1, <1>3, <1>4, <1>5, <1>6, PageParts DEF PageIsKept

\* The newest list is taken: it is not older than a row or a badge from a list.
LEMMA TakesListIsKept ==
    ASSUME AdminInv, UNCHANGED <<created, progress, auth>>, auth, NEW i, TakesList(i)
    PROVE  PageIsKept
<1> DEFINE list == calls[i].list
<1>1. /\ Newer(i, "list", listSequence) /\ polls' = Rows(list)
      /\ auth' = auth /\ created' = created /\ progress' = progress /\ Dash' = Dash
  BY DEF TakesList, Dash
<1>2. /\ list \in Lists /\ \A p \in DOMAIN list : p \in created /\ list[p] <= progress[p]
      /\ NoOlderList(list)
  BY <1>1, NewerParts DEF AnswerIsNew, CallPolls
<1>3. \A p \in DOMAIN list : p \in Polls /\ list[p] \in Nat
  BY <1>2, ListFact
<1>t. TakesList(i)
  OBVIOUS
<1> HIDE DEF list
<1>4. /\ DOMAIN polls' = DOMAIN list
      /\ \A p \in DOMAIN list : /\ polls'[p] \in ShownSet /\ polls'[p].state = list[p]
                                /\ polls'[p].from = "list"
  BY <1>1, <1>3, RowsFact, ShownFact
<1>5. /\ DOMAIN polls' \subseteq created
      /\ \A p \in DOMAIN polls' : polls'[p] \in ShownSet /\ polls'[p].state <= progress[p]
  BY <1>2, <1>4
<1>6. \A p \in DOMAIN polls :
        IF p \in DOMAIN polls' THEN NotBack(polls[p], polls'[p])
        ELSE Cardinality(DOMAIN polls') = ListLimit
  BY <1>2, <1>4 DEF NoOlderList, NotBack
<1>7. panel.open /\ selectedID \in DOMAIN polls' => NotBack(panel.badge, polls'[selectedID])
  BY <1>2, <1>4 DEF NoOlderList, NotBack
<1>8. ASSUME NEW p \in DOMAIN polls', Selects(p)
      PROVE  PageIsKept
  <2>1. /\ selectedID' = p /\ panel' = Emptied(p, polls'[p])
        /\ resultsSequence' = resultsSequence + 1
    BY <1>8 DEF Selects
  <2>2. p \in created /\ p \in Polls /\ polls'[p] \in ShownSet
    BY <1>5, <1>8, PageParts
  <2>3. /\ panel' \in PanelSet /\ panel'.open = TRUE /\ panel'.poll = p
        /\ panel'.total = Dash /\ panel'.badge = polls'[p] /\ p # Nothing
    BY <2>1, <2>2, EmptiedPanel
  <2>4. OnlyForward
    <3>1. panel.poll = selectedID
      BY PageParts DEF PanelInv
    <3> QED
      BY <1>1, <1>6, <1>7, <1>8, <2>3, <3>1 DEF OnlyForward
  <2>5. polls'[p].state \in Nat
    BY <2>2, ShownIsNat
  <2>6. PanelInv'
    <3>1. panel'.open = (selectedID' # Nothing)
      BY <2>1, <2>3, Zenon
    <3> QED
      BY <1>1, <1>5, <1>8, <2>1, <2>2, <2>3, <2>5, <3>1 DEF PanelInv, NotBack
  <2> QED
    BY <1>1, <1>5, <2>1, <2>3, <2>4, <2>6, PageParts DEF PageIsKept
<1>9. ASSUME UNCHANGED selectedID,
             \/ UNCHANGED panel
             \/ selectedID \in DOMAIN list /\ panel' = [panel EXCEPT !.badge = polls'[selectedID]]
      PROVE  \A id \in Polls, at \in Nat : NoOlderResults(id, at) => NoOlderResults(id, at)'
  <2>1. /\ panel'.total = panel.total
        /\ panel'.badge.from = "results" => panel'.badge = panel.badge
    BY <1>4, <1>9, PageParts DEF PanelSet
  <2>2. \A p \in DOMAIN polls' : polls'[p].from # "results"
    BY <1>4
  <2> QED
    BY <1>1, <1>9, <2>1, <2>2 DEF NoOlderResults
<1>10. CASE UNCHANGED <<selectedID, panel>>
  <2>1. OnlyForward
    BY <1>1, <1>6, <1>10, PageParts DEF OnlyForward, NotBack
  <2>2. PanelInv'
    BY <1>1, <1>5, <1>7, <1>10, PageParts DEF PanelInv
  <2> QED
    BY <1>1, <1>5, <1>9, <1>10, <2>1, <2>2, PageParts DEF PageIsKept
<1>11. ASSUME selectedID \in DOMAIN list, UNCHANGED selectedID,
              panel' = [panel EXCEPT !.badge = polls'[selectedID]]
       PROVE  PageIsKept
  <2>1. /\ panel' \in PanelSet /\ panel'.open = panel.open /\ panel'.poll = panel.poll
        /\ panel'.total = panel.total /\ panel'.badge = polls'[selectedID]
    BY <1>4, <1>11, PageParts DEF PanelSet
  <2>2. OnlyForward
    <3>1. panel.poll = selectedID
      BY PageParts DEF PanelInv
    <3> QED
      BY <1>1, <1>4, <1>6, <1>7, <1>11, <2>1, <3>1, PageParts DEF OnlyForward
  <2>3. polls'[selectedID].state \in Nat
    BY <1>4, <1>11, ShownIsNat
  <2>4. PanelInv'
    BY <1>1, <1>4, <1>5, <1>11, <2>1, <2>3, PageParts DEF PanelInv, NotBack
  <2> QED
    BY <1>1, <1>5, <1>9, <1>11, <2>1, <2>2, <2>4, PageParts DEF PageIsKept
<1>12. calls[i].list = list
  BY DEF list
<1> QED
  BY <1>t, <1>8, <1>10, <1>11, <1>12 DEF TakesList, Selects

\* The newest results are taken: they are not older than the total, nor than a
\* row or a badge from results.
LEMMA TakesResultsIsKept ==
    ASSUME AdminInv, UNCHANGED <<created, progress, auth>>, auth, NEW i, TakesResults(i)
    PROVE  PageIsKept
<1> DEFINE n == calls[i].at
<1>1. /\ Newer(i, "results", resultsSequence) /\ calls[i].id = selectedID
      /\ panel' = [panel EXCEPT !.total = n, !.badge = Shown(n, "results")]
      /\ polls' = [p \in DOMAIN polls |-> IF p = selectedID THEN Shown(n, "results") ELSE polls[p]]
      /\ auth' = auth /\ created' = created /\ progress' = progress /\ Dash' = Dash
      /\ selectedID' = selectedID
  BY DEF TakesResults, Dash
<1>2. /\ n \in Nat /\ selectedID \in created /\ selectedID \in Polls /\ n <= progress[selectedID]
      /\ NoOlderResults(selectedID, n)
  BY <1>1, NewerParts DEF AnswerIsNew, CallPolls
<1> HIDE DEF n
<1>3. /\ Shown(n, "results") \in ShownSet /\ Shown(n, "results").state = n
      /\ Shown(n, "results").from = "results"
  BY <1>2, ShownFact
<1>4. /\ panel' \in PanelSet /\ panel'.open = panel.open /\ panel'.poll = panel.poll
      /\ panel'.total = n /\ panel'.badge = Shown(n, "results")
  BY <1>1, <1>2, <1>3, PageParts DEF PanelSet
<1>5. /\ DOMAIN polls' = DOMAIN polls
      /\ \A p \in DOMAIN polls : p # selectedID => polls'[p] = polls[p]
      /\ selectedID \in DOMAIN polls => polls'[selectedID] = Shown(n, "results")
  BY <1>1
<1>6. \A p \in DOMAIN polls' : polls'[p] \in ShownSet /\ polls'[p].state <= progress[p]
  BY <1>2, <1>3, <1>5, PageParts DEF PanelInv
<1>7. panel.open = (selectedID # Nothing) /\ panel.poll = selectedID /\ panel.open
  BY <1>2, AdminAssumption, PageParts DEF PanelInv, Nothing
<1>8. OnlyForward
  <2>1. \A p \in DOMAIN polls : NotBack(polls[p], polls'[p])
    BY <1>2, <1>3, <1>5, PageParts DEF NoOlderResults, NotBack
  <2>2. NotBack(panel.badge, panel'.badge) /\ (panel.total # Dash => panel.total <= panel'.total)
    BY <1>2, <1>3, <1>4 DEF NoOlderResults, NotBack
  <2> QED
    BY <1>5, <2>1, <2>2 DEF OnlyForward
<1>9. \A list \in Lists : NoOlderList(list) => NoOlderList(list)'
  BY <1>1, <1>3, <1>4, <1>5 DEF NoOlderList
<1>10. PanelInv'
  BY <1>1, <1>2, <1>3, <1>4, <1>5, <1>6, <1>7, PageParts DEF PanelInv, NotBack
<1> QED
  BY <1>1, <1>4, <1>5, <1>6, <1>8, <1>9, <1>10, PageParts DEF PageIsKept

LEMMA PageMovesIsKept ==
    AdminInv /\ UNCHANGED <<created, progress>> /\ PageMoves => PageIsKept
  BY StaysIsKept, IsEmptiedIsKept, SelectsIsKept, TakesListIsKept, TakesResultsIsKept
     DEF PageMoves

\* A step of the page keeps the invariant and goes forward.
LEMMA AdminPageStep == AdminInv /\ CallsMove /\ PageMoves => StepIsSound
<1> SUFFICES ASSUME AdminInv, CallsMove, PageMoves PROVE AdminInv' /\ OnlyForward
  BY DEF StepIsSound
<1>0. PageIsKept
  BY PageMovesIsKept DEF CallsMove
<1>1. AdminTypeInv'
  BY <1>0 DEF AdminInv, AdminTypeInv, CallsMove, PageIsKept
<1>2. ASSUME NEW i \in Ids'
      PROVE /\ calls'[i].kind = "list" => calls'[i].seq <= listSequence'
            /\ calls'[i].kind = "results" => calls'[i].seq <= resultsSequence'
  <2> USE <1>2 DEF Nothing
  <2>1. calls' \in Seq(CallSet) /\ i \in DOMAIN calls'
    BY DEF CallsMove, Ids
  <2>2. calls'[i].seq \in Nat
    BY <2>1, OneCall DEF CallSet
  <2>3. CASE i \in Ids
    BY <2>2, <2>3, CallNumber DEF CallsMove
  <2>4. CASE i \notin Ids
    BY <2>2, <2>4 DEF CallsMove
  <2> QED
    BY <2>3, <2>4
<1>3. ASSUME NEW i \in Ids', NEW j \in Ids',
             calls'[i].kind \in {"list", "results"}, calls'[i].kind = calls'[j].kind,
             calls'[i].seq = calls'[j].seq
      PROVE  i = j
  <2> USE <1>3 DEF Nothing
  <2>1. CASE i \in Ids /\ j \in Ids
    BY <2>1 DEF AdminInv, SequenceInv, CallsMove
  <2>2. CASE i \notin Ids /\ j \notin Ids
    BY <2>2 DEF CallsMove
  <2>3. ASSUME NEW k \in Ids, NEW l \in Ids' \ Ids, calls'[k].kind = calls'[l].kind,
               calls'[l].kind \in {"list", "results"}
        PROVE  calls'[k].seq # calls'[l].seq
    <3>1. calls'[k].kind = calls[k].kind /\ calls'[k].seq = calls[k].seq
      BY <2>3 DEF CallsMove
    <3>2. /\ calls[k].kind = "list" => calls[k].seq <= listSequence
          /\ calls[k].kind = "results" => calls[k].seq <= resultsSequence
          /\ calls[k].seq \in Nat /\ listSequence \in Nat /\ resultsSequence \in Nat
      BY <2>3, CallNumber
    <3>3. /\ calls'[l].kind = "list" => calls'[l].seq = listSequence + 1
          /\ calls'[l].kind = "results" => calls'[l].seq = resultsSequence + 1
      BY <2>3 DEF CallsMove
    <3> QED
      BY <2>3, <3>1, <3>2, <3>3
  <2> QED
    BY <2>1, <2>2, <2>3
<1>4. ASSUME NEW i \in Ids' PROVE CallPolls(calls[i])'
  <2>1. created \subseteq Polls /\ created' = created /\ progress' = progress
    BY DEF AdminInv, AdminTypeInv, CallsMove
  <2>2. CASE i \in Ids
    <3>1. CallPolls(calls[i])
      BY <2>2 DEF AdminInv, AnswerInv
    <3> QED
      BY <2>1, <2>2, <3>1 DEF CallPolls, CallsMove, Nothing
  <2>3. CASE i \notin Ids
    BY <1>4, <2>1, <2>3 DEF CallPolls, CallsMove
  <2> QED
    BY <2>2, <2>3
<1>5. ASSUME NEW i \in Ids', Given(calls[i])'
      PROVE  AnswerIsNew(calls[i])'
  <2>1. i \in Ids /\ calls'[i] = calls[i] /\ Given(calls[i])
    BY <1>5 DEF CallsMove, Given
  <2>2. AnswerIsNew(calls[i]) /\ CallPolls(calls[i])
    BY <2>1 DEF AdminInv, AnswerInv
  <2>3. /\ calls[i].kind = "list" => calls[i].seq <= listSequence
        /\ calls[i].kind = "results" => calls[i].seq <= resultsSequence
        /\ calls[i].seq \in Nat /\ listSequence \in Nat /\ resultsSequence \in Nat
        /\ calls[i] \in CallSet
    BY <2>1, CallNumber
  <2>4. ASSUME NEW j, NEW kind \in {"list", "results"}, NEW sequence, Newer(j, kind, sequence),
               calls[i].kind = kind
        PROVE  calls[i].seq # sequence
    BY <2>1, <2>4 DEF Newer, AdminInv, SequenceInv, Nothing
  <2>5. ASSUME calls[i].kind = "list", calls[i].seq = listSequence'
        PROVE  NoOlderList(calls[i].list)'
    <3>1. calls[i].seq = listSequence
      BY <2>3, <2>5 DEF CallsMove
    <3>2. \A list \in Lists : NoOlderList(list) => NoOlderList(list)'
      BY <1>0, <2>4, <2>5, <3>1 DEF PageIsKept
    <3>3. calls[i].list \in Lists /\ NoOlderList(calls[i].list)
      BY <2>2, <2>3, <2>5, <3>1 DEF CallSet, AnswerIsNew
    <3>4. calls'[i].list = calls[i].list
      BY <2>1
    <3> QED
      BY <3>2, <3>3, <3>4 DEF NoOlderList
  <2>6. ASSUME calls[i].kind = "results", calls[i].seq = resultsSequence'
        PROVE  NoOlderResults(calls[i].id, calls[i].at)'
    <3>1. calls[i].seq = resultsSequence /\ resultsSequence' # resultsSequence + 1
      BY <2>3, <2>6 DEF CallsMove
    <3>2. \A id \in Polls, at \in Nat : NoOlderResults(id, at) => NoOlderResults(id, at)'
      BY <1>0, <2>4, <2>6, <3>1 DEF PageIsKept
    <3>3. /\ calls[i].id \in Polls /\ calls[i].at \in Nat
          /\ NoOlderResults(calls[i].id, calls[i].at)
      BY <2>2, <2>3, <2>6, <3>1 DEF CallSet, AnswerIsNew, CallPolls
    <3>4. calls'[i].id = calls[i].id /\ calls'[i].at = calls[i].at
      BY <2>1
    <3> QED
      BY <3>2, <3>3, <3>4 DEF NoOlderResults
  <2> QED
    BY <2>1, <2>2, <2>5, <2>6 DEF CallsMove, AnswerIsNew
<1>6. SequenceInv'
  BY <1>2, <1>3 DEF SequenceInv
<1>7. AnswerInv'
  BY <1>4, <1>5 DEF AnswerInv
<1> QED
  BY <1>0, <1>1, <1>6, <1>7 DEF AdminInv, PageIsKept

-----------------------------------------------------------------------------
\* What a request that is sent must be.
NextCall(c) ==
    /\ c \in CallSet /\ c.st = "sent" /\ DOMAIN c.list = {}
    /\ c.kind = "create" => c.id \in Polls
    /\ c.kind = "list" => listSequence' = listSequence + 1 /\ c.seq = listSequence'
    /\ c.kind = "results" => /\ resultsSequence' = resultsSequence + 1
                             /\ c.seq = resultsSequence' /\ c.id \in created
Later ==
    /\ UNCHANGED <<created, progress>>
    /\ listSequence' \in {listSequence, listSequence + 1}
    /\ resultsSequence' \in {resultsSequence, resultsSequence + 1}

LEMMA CallIsNext ==
    ASSUME NEW kind \in {"login", "logout", "list", "results", "create"},
           NEW id \in Polls \cup {Nothing}, NEW seq \in Nat,
           NEW frees \in SUBSET {"login", "logout", "create"},
           kind = "create" => id \in Polls,
           kind = "list" => listSequence' = listSequence + 1 /\ seq = listSequence',
           kind = "results" => /\ resultsSequence' = resultsSequence + 1
                               /\ seq = resultsSequence' /\ id \in created
    PROVE  NextCall(Call(kind, id, seq, frees))
  BY AdminAssumption, NoPollsList DEF NextCall, Call, CallSet, Dash

LEMMA CallEnds ==
    ASSUME AdminInv, Later, NEW i \in Ids, calls' = [calls EXCEPT ![i] = Over]
    PROVE  CallsMove /\ calls'[i].kind = Nothing
<1> DEFINE t == [calls EXCEPT ![i] = Over]
<1>1. calls \in Seq(CallSet) /\ i \in DOMAIN calls
  BY DEF AdminInv, AdminTypeInv, Ids
<1>2. /\ t \in Seq(CallSet) /\ DOMAIN t = DOMAIN calls
      /\ t[i] = Over /\ \A j \in DOMAIN calls \ {i} : t[j] = calls[j]
  BY <1>1, OtherCall, OverIsCall
<1>3. calls' = t
  OBVIOUS
<1> HIDE DEF t
<1> QED
  BY <1>2, <1>3, OverIsCall DEF CallsMove, Later, AdminInv, AdminTypeInv, Ids

LEMMA CallSent ==
    ASSUME AdminInv, Later, NEW c, NextCall(c), calls' = Append(calls, c)
    PROVE  CallsMove
<1> DEFINE t == Append(calls, c)
<1>1. calls \in Seq(CallSet) /\ c \in CallSet
  BY DEF AdminInv, AdminTypeInv, NextCall
<1>2. /\ t \in Seq(CallSet) /\ DOMAIN t = DOMAIN calls \cup {Len(calls) + 1}
      /\ t[Len(calls) + 1] = c /\ \A j \in DOMAIN calls : t[j] = calls[j]
  BY <1>1, OneMoreCall
<1>3. calls' = t
  OBVIOUS
<1> HIDE DEF t
<1> QED
  BY <1>2, <1>3 DEF CallsMove, Later, NextCall, AdminInv, AdminTypeInv, Ids

LEMMA CallFollows ==
    ASSUME AdminInv, Later, NEW i \in Ids, NEW c, NextCall(c),
           calls' = Append([calls EXCEPT ![i] = Over], c)
    PROVE  CallsMove /\ calls'[i].kind = Nothing
<1> DEFINE t == [calls EXCEPT ![i] = Over]
           u == Append(t, c)
<1>1. calls \in Seq(CallSet) /\ i \in DOMAIN calls /\ c \in CallSet
  BY DEF AdminInv, AdminTypeInv, Ids, NextCall
<1>2. /\ t \in Seq(CallSet) /\ DOMAIN t = DOMAIN calls
      /\ t[i] = Over /\ \A j \in DOMAIN calls \ {i} : t[j] = calls[j]
  BY <1>1, OtherCall, OverIsCall
<1>3. calls' = u
  OBVIOUS
<1> HIDE DEF t
<1>4. /\ u \in Seq(CallSet) /\ DOMAIN u = DOMAIN t \cup {Len(t) + 1}
      /\ u[Len(t) + 1] = c /\ \A j \in DOMAIN t : u[j] = t[j]
  BY <1>1, <1>2, OneMoreCall
<1> HIDE DEF u
<1>5. /\ DOMAIN calls' = DOMAIN calls \cup {Len(t) + 1} /\ calls'[Len(t) + 1] = c
      /\ calls'[i] = Over /\ \A j \in DOMAIN calls \ {i} : calls'[j] = calls[j]
      /\ calls' \in Seq(CallSet)
  BY <1>1, <1>2, <1>3, <1>4
<1> QED
  BY <1>1, <1>5, OverIsCall DEF CallsMove, Later, NextCall, AdminInv, AdminTypeInv, Ids

-----------------------------------------------------------------------------
\* What the administrator does keeps the invariant.
LEMMA UserStep == AdminInv /\ User => StepIsSound
<1> SUFFICES ASSUME AdminInv, User PROVE StepIsSound
  OBVIOUS
<1> USE AdminAssumption
<1>0. /\ listSequence \in Nat /\ resultsSequence \in Nat /\ PanelInv
      /\ DOMAIN polls \subseteq created /\ created \subseteq Polls
      /\ Nothing \notin Polls /\ Nothing \in Polls \cup {Nothing}
  BY DEF AdminInv, AdminTypeInv, Nothing
<1>a. ASSUME UNCHANGED <<auth, polls, selectedID, panel, progress, created>> PROVE PageMoves
  BY <1>a DEF PageMoves, Stays
<1>1. CASE Login
  <2>1. NextCall(Call("login", Nothing, 0, {"login"}))
    BY <1>0, CallIsNext
  <2>2. Later /\ calls' = Append(calls, Call("login", Nothing, 0, {"login"}))
    BY <1>1 DEF Login, SendCall, Later, serverSide
  <2> QED
    BY <1>1, <1>a, <2>1, <2>2, CallSent, AdminPageStep DEF Login, serverSide
<1>2. CASE Logout
  <2>1. NextCall(Call("logout", Nothing, 0, {"logout"}))
    BY <1>0, CallIsNext
  <2>2. Later /\ calls' = Append(calls, Call("logout", Nothing, 0, {"logout"}))
    BY <1>2 DEF Logout, SendCall, Later, serverSide
  <2> QED
    BY <1>2, <1>a, <2>1, <2>2, CallSent, AdminPageStep DEF Logout, serverSide
<1>3. CASE RefreshList
  <2>1. NextCall(Call("list", Nothing, listSequence + 1, {}))
    BY <1>0, <1>3, CallIsNext DEF RefreshList, SendList
  <2>2. Later /\ calls' = Append(calls, Call("list", Nothing, listSequence + 1, {}))
    BY <1>3 DEF RefreshList, SendList, SendCall, Later, serverSide
  <2> QED
    BY <1>3, <1>a, <2>1, <2>2, CallSent, AdminPageStep DEF RefreshList, serverSide
<1>4. CASE RefreshResults
  <2>1. selectedID \in created /\ selectedID \in Polls
    BY <1>0, <1>4 DEF RefreshResults, PanelInv
  <2>2. NextCall(Call("results", selectedID, resultsSequence + 1, {}))
    BY <1>0, <1>4, <2>1, CallIsNext DEF RefreshResults, SendResults
  <2>3. Later /\ calls' = Append(calls, Call("results", selectedID, resultsSequence + 1, {}))
    BY <1>4 DEF RefreshResults, SendResults, SendCall, Later, serverSide
  <2> QED
    BY <1>4, <1>a, <2>2, <2>3, CallSent, AdminPageStep DEF RefreshResults, serverSide
<1>5. ASSUME NEW p \in Polls, CreatePoll(p) PROVE StepIsSound
  <2>1. NextCall(Call("create", p, 0, {"create"}))
    BY <1>0, CallIsNext
  <2>2. Later /\ calls' = Append(calls, Call("create", p, 0, {"create"}))
    BY <1>5 DEF CreatePoll, SendCall, Later, serverSide
  <2> QED
    BY <1>5, <1>a, <2>1, <2>2, CallSent, AdminPageStep DEF CreatePoll, serverSide
<1>6. ASSUME NEW p \in Polls, SelectPoll(p) PROVE StepIsSound
  <2>1. p \in created
    BY <1>0, <1>6 DEF SelectPoll
  <2>2. NextCall(Call("results", p, resultsSequence + 1, {}))
    BY <1>0, <1>6, <2>1, CallIsNext DEF SelectPoll, SendResults
  <2>3. Later /\ calls' = Append(calls, Call("results", p, resultsSequence + 1, {}))
    BY <1>6 DEF SelectPoll, SendResults, SendCall, Later, serverSide
  <2>4. PageMoves
    <3>1. auth /\ UNCHANGED <<auth, polls>> /\ p \in DOMAIN polls /\ Selects(p)
      BY <1>6 DEF SelectPoll, Selects, SendResults
    <3> QED
      BY <3>1 DEF PageMoves
  <2> QED
    BY <2>2, <2>3, <2>4, CallSent, AdminPageStep
<1> QED
  BY <1>1, <1>2, <1>3, <1>4, <1>5, <1>6 DEF User

-----------------------------------------------------------------------------
\* The login form is shown: nothing of the dashboard stays.
LEMMA LoginShown == AdminInv /\ ShowLogin /\ UNCHANGED <<created, progress>> => PageMoves /\ Later
  BY DEF ShowLogin, PageMoves, IsEmptied, Later, AdminInv, AdminTypeInv

\* The handlers of the answers keep the invariant.
LEMMA ArrivalStep == AdminInv /\ (\E i \in Ids : Arrives(i)) => StepIsSound
<1> SUFFICES ASSUME AdminInv, NEW i \in Ids, Arrives(i) PROVE StepIsSound
  OBVIOUS
<1>0. /\ listSequence \in Nat /\ resultsSequence \in Nat /\ PanelInv
      /\ DOMAIN polls \subseteq created /\ created \subseteq Polls
      /\ Nothing \notin Polls /\ Nothing \in Polls \cup {Nothing}
      /\ calls[i] \in CallSet /\ calls[i].id \in Polls \cup {Nothing}
      /\ calls[i].frees \in SUBSET {"login", "logout", "create"}
  <2>1. calls[i] \in CallSet
    BY CallNumber
  <2> QED
    BY <2>1, AdminAssumption DEF AdminInv, AdminTypeInv, Nothing, CallSet
<1>a. ASSUME UNCHANGED <<polls, selectedID, panel, progress, created>>, auth' \in {auth, TRUE}
      PROVE  PageMoves
  BY <1>a DEF PageMoves, Stays
<1>b. ASSUME SamePage, UNCHANGED <<progress, created>>, calls' = [calls EXCEPT ![i] = Over]
      PROVE  StepIsSound
  <2>1. Later /\ PageMoves
    BY <1>a, <1>b DEF SamePage, Later
  <2> QED
    BY <1>b, <2>1, CallEnds, AdminPageStep
<1>c. ASSUME ShowLogin, UNCHANGED <<progress, created>>, calls' = [calls EXCEPT ![i] = Over]
      PROVE  StepIsSound
  BY <1>c, LoginShown, CallEnds, AdminPageStep
<1>1. CASE SessionOver(i)
  BY <1>1, <1>c DEF SessionOver, Ends, serverSide
<1>2. CASE Dashboard(i)
  <2> DEFINE frees == IF calls[i].kind = "login" THEN {"login"} ELSE {}
             c == Call("list", Nothing, listSequence + 1, frees)
  <2>1. /\ listSequence' = listSequence + 1 /\ calls' = Append([calls EXCEPT ![i] = Over], c)
        /\ UNCHANGED <<polls, selectedID, resultsSequence, panel, progress, created>> /\ auth' = TRUE
    BY <1>2 DEF Dashboard, Follows, serverSide
  <2>2. frees \in SUBSET {"login", "logout", "create"}
    OBVIOUS
  <2> HIDE DEF frees
  <2>3. NextCall(c)
    BY <1>0, <2>1, <2>2, CallIsNext
  <2> HIDE DEF c
  <2>4. Later /\ PageMoves
    BY <1>a, <2>1 DEF Later
  <2> QED
    BY <2>1, <2>3, <2>4, CallFollows, AdminPageStep
<1>3. CASE LoginRefused(i)
  BY <1>3, <1>b DEF LoginRefused, Ends, serverSide
<1>4. CASE SessionUnknown(i)
  BY <1>4, <1>c DEF SessionUnknown, Ends, serverSide
<1>5. CASE LoggedOut(i)
  BY <1>5, <1>b, <1>c DEF LoggedOut, Ends, serverSide
<1>6. CASE NotCreated(i)
  BY <1>6, <1>b DEF NotCreated, Ends, serverSide
<1>7. CASE Created(i)
  <2> DEFINE c == Call("list", calls[i].id, listSequence + 1, {"create"})
  <2>1. /\ listSequence' = listSequence + 1 /\ calls' = Append([calls EXCEPT ![i] = Over], c)
        /\ UNCHANGED <<auth, polls, selectedID, resultsSequence, panel, progress, created>>
    BY <1>7 DEF Created, Follows, serverSide
  <2>2. NextCall(c)
    BY <1>0, <2>1, CallIsNext
  <2> HIDE DEF c
  <2>3. Later /\ PageMoves
    BY <1>a, <2>1 DEF Later
  <2> QED
    BY <2>1, <2>2, <2>3, CallFollows, AdminPageStep
<1>8. CASE ListArrives(i)
  <2>1. /\ calls[i].kind = "list" /\ calls[i].st = "answered"
        /\ UNCHANGED <<auth, listSequence, progress, created>>
    BY <1>8 DEF ListArrives, Arrived, serverSide
  <2>2. CASE ~ (Newest(calls[i], listSequence) /\ calls[i].status = 200)
    BY <1>8, <1>b, <2>1, <2>2 DEF ListArrives, Ends, SamePage
  <2>3. ASSUME Newest(calls[i], listSequence), calls[i].status = 200, calls'[i].kind = Nothing
        PROVE  auth /\ Newer(i, "list", listSequence)
    BY <2>1, <2>3 DEF Newest, Newer, Given
  <2>4. ASSUME Newest(calls[i], listSequence), calls[i].status = 200,
               polls' = Rows(calls[i].list), calls[i].id \in DOMAIN calls[i].list,
               selectedID' = calls[i].id, panel' = Emptied(calls[i].id, polls'[calls[i].id]),
               resultsSequence' = resultsSequence + 1,
               Follows(i, "results", calls[i].id, resultsSequence + 1, calls[i].frees)
        PROVE  StepIsSound
    <3> DEFINE c == Call("results", calls[i].id, resultsSequence + 1, calls[i].frees)
    <3>1. calls[i].id \in created
      BY <2>4 DEF AdminInv, AnswerInv, CallPolls
    <3>2. calls' = Append([calls EXCEPT ![i] = Over], c)
      BY <2>4 DEF Follows
    <3>3. NextCall(c)
      BY <1>0, <2>4, <3>1, CallIsNext
    <3> HIDE DEF c
    <3>4. Later
      BY <2>1, <2>4 DEF Later
    <3>5. CallsMove /\ calls'[i].kind = Nothing
      BY <3>2, <3>3, <3>4, CallFollows
    <3>6. Selects(calls[i].id)
      BY <2>4, RowsFact DEF Selects
    <3>7. PageMoves
      BY <2>1, <2>3, <2>4, <3>5, <3>6 DEF PageMoves, TakesList
    <3> QED
      BY <3>5, <3>7, AdminPageStep
  <2>5. ASSUME Newest(calls[i], listSequence), calls[i].status = 200,
               polls' = Rows(calls[i].list), Ends(i, Own(calls[i])),
               UNCHANGED <<selectedID, resultsSequence>>,
               \/ UNCHANGED panel
               \/ /\ selectedID \in DOMAIN calls[i].list
                  /\ panel' = [panel EXCEPT !.badge = polls'[selectedID]]
        PROVE  StepIsSound
    <3>1. Later /\ CallsMove /\ calls'[i].kind = Nothing
      BY <2>1, <2>5, CallEnds DEF Later, Ends
    <3>2. PageMoves
      BY <2>1, <2>3, <2>5, <3>1 DEF PageMoves, TakesList
    <3> QED
      BY <3>1, <3>2, AdminPageStep
  <2> QED
    BY <1>8, <2>2, <2>4, <2>5 DEF ListArrives
<1>9. CASE ResultsArrive(i)
  <2>1. /\ calls[i].kind = "results" /\ calls[i].st = "answered"
        /\ UNCHANGED <<auth, selectedID, listSequence, resultsSequence, progress, created>>
        /\ calls' = [calls EXCEPT ![i] = Over]
    BY <1>9 DEF ResultsArrive, Arrived, serverSide, Ends
  <2>2. CASE UNCHANGED <<panel, polls>>
    BY <1>b, <2>1, <2>2 DEF SamePage
  <2>3. ASSUME Newest(calls[i], resultsSequence), calls[i].id = selectedID, calls[i].status = 200,
               panel' = [panel EXCEPT !.total = calls[i].at, !.badge = Shown(calls[i].at, "results")],
               polls' = [p \in DOMAIN polls |->
                          IF p = calls[i].id THEN Shown(calls[i].at, "results") ELSE polls[p]]
        PROVE  StepIsSound
    <3>1. Later /\ CallsMove /\ calls'[i].kind = Nothing
      BY <2>1, CallEnds DEF Later
    <3>2. auth /\ TakesResults(i)
      BY <2>1, <2>3, <3>1 DEF Newest, Newer, Given, TakesResults
    <3>3. PageMoves
      BY <2>1, <3>2 DEF PageMoves
    <3> QED
      BY <3>1, <3>3, AdminPageStep
  <2> QED
    BY <1>9, <2>2, <2>3 DEF ResultsArrive
<1>10. CASE Broken(i)
  <2>1. SamePage /\ UNCHANGED <<progress, created>> /\ calls[i].st # "over"
    BY <1>10 DEF Broken, serverSide
  <2>2. CASE calls' = [calls EXCEPT ![i] = Over]
    BY <1>b, <2>1, <2>2
  <2>3. CASE calls' = [calls EXCEPT ![i].st = "lost"]
    <3> DEFINE c == [calls[i] EXCEPT !.st = "lost"]
               t == [calls EXCEPT ![i] = c]
    <3>1. /\ c \in CallSet /\ c.kind = calls[i].kind /\ c.seq = calls[i].seq /\ c.id = calls[i].id
          /\ c.list = calls[i].list /\ c.st = "lost"
      BY <1>0 DEF CallSet
    <3>2. calls' = t
      BY <2>3
    <3> HIDE DEF c
    <3>3. calls \in Seq(CallSet) /\ i \in DOMAIN calls
      BY DEF AdminInv, AdminTypeInv, Ids
    <3>4. /\ t \in Seq(CallSet) /\ DOMAIN t = DOMAIN calls
          /\ t[i] = c /\ \A j \in DOMAIN calls \ {i} : t[j] = calls[j]
      BY <3>1, <3>3, OtherCall
    <3> HIDE DEF t
    <3>5. CallsMove
      BY <1>0, <2>1, <3>1, <3>2, <3>4 DEF CallsMove, SamePage, Ids
    <3>6. PageMoves
      BY <1>a, <2>1 DEF SamePage
    <3> QED
      BY <3>5, <3>6, AdminPageStep
  <2> QED
    BY <1>10, <2>2, <2>3 DEF Broken
<1> QED
  BY <1>1, <1>2, <1>3, <1>4, <1>5, <1>6, <1>7, <1>8, <1>9, <1>10 DEF Arrives

-----------------------------------------------------------------------------
\* What the server does: polls are created and go on, and an answer tells how
\* far they were; a request that nobody waits for is over.
AnswersCall(c, d) ==
    \/ d.kind = Nothing /\ d.st = "over" /\ DOMAIN d.list = {}
    \/ /\ d.kind = c.kind /\ d.seq = c.seq /\ d.id = c.id
       /\ \A p \in DOMAIN d.list : p \in created /\ d.list[p] = progress[p]
       /\ Given(d) => /\ c.kind = "list" => \/ DOMAIN d.list = created
                                           \/ Cardinality(DOMAIN d.list) = ListLimit
                      /\ c.kind = "results" => d.at = progress[c.id]
ServerMoves ==
    /\ UNCHANGED page
    /\ created \subseteq created' /\ created' \subseteq Polls
    /\ progress' \in [Polls -> 0 .. MaxProgress] /\ \A p \in Polls : progress[p] <= progress'[p]
    /\ calls' \in Seq(CallSet) /\ Ids' = Ids
    /\ \A i \in Ids : calls'[i] = calls[i] \/ AnswersCall(calls[i], calls'[i])

\* A step of the server keeps the invariant and changes nothing that is shown.
LEMMA GrowthStep == AdminInv /\ ServerMoves => StepIsSound
<1> SUFFICES ASSUME AdminInv, ServerMoves PROVE AdminInv' /\ OnlyForward
  BY DEF StepIsSound
<1>0. /\ auth' = auth /\ polls' = polls /\ selectedID' = selectedID /\ panel' = panel
      /\ listSequence' = listSequence /\ resultsSequence' = resultsSequence
      /\ created \subseteq created' /\ Ids' = Ids /\ Dash' = Dash
  BY DEF ServerMoves, page, Dash
<1>1. AdminTypeInv'
  BY <1>0 DEF AdminInv, AdminTypeInv, ServerMoves
<1>2. ASSUME NEW p \in Polls, NEW n \in Nat, n <= progress[p] PROVE n <= progress'[p]
  <2>1. progress[p] \in Nat /\ progress'[p] \in Nat /\ progress[p] <= progress'[p]
    BY AdminAssumption DEF AdminInv, AdminTypeInv, ServerMoves
  <2> QED
    BY <1>2, <2>1
<1>3. PanelInv'
  <2>1. panel.total # Dash => panel.total <= progress'[panel.poll]
    BY <1>2, PageParts DEF PanelInv
  <2>2. panel.open => panel.badge.state <= progress'[selectedID]
    BY <1>2, PageParts DEF PanelInv
  <2>3. \A p \in DOMAIN polls : polls[p].state <= progress'[p]
    BY <1>2, PageParts DEF PanelInv
  <2> QED
    BY <1>0, <2>1, <2>2, <2>3, PageParts DEF PanelInv, NotBack
<1>4. SequenceInv'
  <2>1. \A i \in Ids : \/ calls'[i].kind = Nothing
                       \/ calls'[i].kind = calls[i].kind /\ calls'[i].seq = calls[i].seq
    BY DEF ServerMoves, AnswersCall
  <2> QED
    BY <1>0, <2>1 DEF AdminInv, SequenceInv, Nothing
<1>5. \A p \in created : progress[p] <= progress'[p]
  BY PageParts DEF ServerMoves
<1>6. ASSUME NEW i \in Ids PROVE CallPolls(calls[i])'
  <2>1. CallPolls(calls[i]) /\ calls[i].list \in Lists
    <3>1. calls[i] \in CallSet
      BY CallNumber
    <3> QED
      BY <3>1 DEF AdminInv, AnswerInv, CallSet
  <2>2. CASE calls'[i] = calls[i]
    <3>1. \A p \in DOMAIN calls[i].list : p \in Polls /\ calls[i].list[p] \in Nat
      BY <2>1, ListFact
    <3>2. \A p \in DOMAIN calls[i].list : calls[i].list[p] <= progress'[p]
      BY <1>2, <2>1, <3>1 DEF CallPolls
    <3> QED
      BY <1>0, <2>1, <2>2, <3>2 DEF CallPolls
  <2>3. CASE AnswersCall(calls[i], calls'[i])
    BY <1>0, <1>5, <2>1, <2>3 DEF CallPolls, AnswersCall, Nothing
  <2> QED
    BY <2>2, <2>3 DEF ServerMoves
<1>7. ASSUME NEW i \in Ids, Given(calls[i])' PROVE AnswerIsNew(calls[i])'
  <2>1. calls[i].at \in Nat /\ CallPolls(calls[i])
    BY CallNumber DEF CallSet, AdminInv, AnswerInv
  <2>2. CASE calls'[i] = calls[i]
    <3>1. AnswerIsNew(calls[i])
      BY <1>7, <2>2 DEF AdminInv, AnswerInv, Given
    <3>2. calls[i].kind = "results" => calls[i].at <= progress'[calls[i].id]
      BY <1>2, <2>1, <3>1 DEF AnswerIsNew, CallPolls
    <3> QED
      BY <1>0, <2>2, <3>1, <3>2 DEF AnswerIsNew, NoOlderList, NoOlderResults
  <2>3. CASE calls'[i].kind = Nothing
    BY <2>3 DEF AnswerIsNew, Nothing
  <2>4. CASE /\ AnswersCall(calls[i], calls'[i]) /\ calls'[i].kind = calls[i].kind
             /\ calls'[i].id = calls[i].id /\ calls'[i].kind # Nothing
    <3>1. calls[i].kind = "list" => NoOlderList(calls'[i].list)
      BY <1>7, <2>4, PageParts DEF AnswersCall, NoOlderList, PanelInv, Given
    <3>2. calls[i].kind = "results" =>
            calls'[i].at = progress[calls[i].id] /\ calls[i].id \in created /\ calls[i].id \in Polls
      BY <1>7, <2>1, <2>4 DEF AnswersCall, CallPolls, Given
    <3>3. calls[i].kind = "results" => calls'[i].at <= progress'[calls'[i].id]
      BY <1>5, <2>4, <3>2
    <3>4. calls[i].kind = "results" => NoOlderResults(calls[i].id, calls'[i].at)
      BY <3>2, AdminAssumption, PageParts DEF NoOlderResults, PanelInv, Nothing
    <3> QED
      BY <1>0, <2>4, <3>1, <3>3, <3>4 DEF AnswerIsNew, NoOlderList, NoOlderResults
  <2> QED
    BY <2>2, <2>3, <2>4 DEF ServerMoves, AnswersCall
<1>8. AnswerInv'
  BY <1>0, <1>6, <1>7 DEF AnswerInv
<1>9. OnlyForward
  BY <1>0, PageParts DEF OnlyForward, NotBack
<1> QED
  BY <1>1, <1>3, <1>4, <1>8, <1>9 DEF AdminInv

\* A poll is created by the request for it.
Creates(i) == calls[i].kind = "create" /\ created' = created \cup {calls[i].id}

\* The server handles a request, a poll goes on, or the session ends.
LEMMA AdminServerStep ==
    AdminInv /\ ((\E i \in Ids : Serve(i) \/ HandleLost(i)) \/ Expire \/ \E p \in Polls : GoesOn(p))
      => StepIsSound
<1> SUFFICES ASSUME AdminInv,
                    (\E i \in Ids : Serve(i) \/ HandleLost(i)) \/ Expire \/ \E p \in Polls : GoesOn(p)
             PROVE  StepIsSound
  OBVIOUS
<1> USE AdminAssumption
<1>0. /\ created \subseteq Polls /\ progress \in [Polls -> 0 .. MaxProgress]
      /\ calls \in Seq(CallSet) /\ \A p \in Polls : progress[p] <= progress[p]
  BY DEF AdminInv, AdminTypeInv
<1>1. CASE Expire
  BY <1>0, <1>1, GrowthStep DEF Expire, ServerMoves, Ids
<1>2. ASSUME NEW p \in Polls, GoesOn(p) PROVE StepIsSound
  <2>1. progress' \in [Polls -> 0 .. MaxProgress] /\ \A q \in Polls : progress[q] <= progress'[q]
    BY <1>0, <1>2 DEF GoesOn
  <2> QED
    BY <1>0, <1>2, <2>1, GrowthStep DEF GoesOn, ServerMoves, Ids
<1>3. ASSUME NEW i \in Ids, NEW d \in CallSet, AnswersCall(calls[i], d),
             calls' = [calls EXCEPT ![i] = d], UNCHANGED <<page, progress>>,
             created' = created \/ Creates(i)
      PROVE  StepIsSound
  <2> DEFINE t == [calls EXCEPT ![i] = d]
  <2>1. i \in DOMAIN calls
    BY DEF Ids
  <2>2. /\ t \in Seq(CallSet) /\ DOMAIN t = DOMAIN calls
        /\ t[i] = d /\ \A j \in DOMAIN calls \ {i} : t[j] = calls[j]
    BY <1>0, <2>1, OtherCall
  <2>3. calls' = t
    BY <1>3
  <2> HIDE DEF t
  <2>4. created \subseteq created' /\ created' \subseteq Polls
    BY <1>0, <1>3 DEF Creates, AdminInv, AnswerInv, CallPolls
  <2>5. /\ calls' \in Seq(CallSet) /\ Ids' = Ids
        /\ \A j \in Ids : calls'[j] = calls[j] \/ AnswersCall(calls[j], calls'[j])
    BY <1>3, <2>2, <2>3 DEF Ids
  <2>6. progress' = progress /\ UNCHANGED page
    BY <1>3
  <2> QED
    BY <1>0, <2>4, <2>5, <2>6, GrowthStep DEF ServerMoves
<1>4. ASSUME NEW i \in Ids, HandleLost(i) PROVE StepIsSound
  <2>1. AnswersCall(calls[i], Over) /\ Over \in CallSet
    BY OverIsCall DEF AnswersCall
  <2>2. created' = created \/ Creates(i)
    BY <1>4 DEF Creates, HandleLost, serverSide
  <2>3. calls' = [calls EXCEPT ![i] = Over] /\ UNCHANGED <<page, progress>>
    BY <1>4 DEF HandleLost, serverSide
  <2> QED
    BY <1>3, <2>1, <2>2, <2>3
<1>5. ASSUME NEW i \in Ids, NEW status \in Nat, NEW list \in Lists, NEW at \in Nat,
             Handled(i, status, list, at), UNCHANGED <<page, progress>>,
             created' = created \/ Creates(i),
             \A p \in DOMAIN list : p \in created /\ list[p] = progress[p],
             status = 200 => /\ calls[i].kind = "list" => \/ DOMAIN list = created
                                                          \/ Cardinality(DOMAIN list) = ListLimit
                             /\ calls[i].kind = "results" => at = progress[calls[i].id]
      PROVE  StepIsSound
  <2> DEFINE d == [calls[i] EXCEPT !.st = "answered", !.status = status,
                                   !.list = list, !.at = at]
  <2>1. calls[i] \in CallSet
    BY CallNumber
  <2>2. /\ d \in CallSet /\ d.kind = calls[i].kind /\ d.seq = calls[i].seq /\ d.id = calls[i].id
        /\ d.list = list /\ d.at = at /\ d.status = status
    BY <1>0, <2>1 DEF CallSet
  <2>3. calls' = [calls EXCEPT ![i] = d]
    BY <1>5 DEF Handled
  <2> HIDE DEF d
  <2>4. AnswersCall(calls[i], d)
    BY <1>5, <2>2 DEF AnswersCall, Given
  <2> QED
    BY <1>3, <1>5, <2>2, <2>3, <2>4
<1>6. ASSUME NEW i \in Ids, Serve(i) PROVE StepIsSound
  <2>1. Dash \in Nat /\ NoPolls \in Lists /\ DOMAIN NoPolls = {}
    BY NoPollsList DEF Dash
  <2>2. ASSUME NEW status \in Nat, Handled(i, status, NoPolls, Dash), UNCHANGED <<page, progress>>,
               created' = created \/ Creates(i),
               status = 200 => calls[i].kind \notin {"list", "results"}
        PROVE  StepIsSound
    BY <1>5, <2>1, <2>2
  <2>3. ASSUME calls[i].kind = "list", UNCHANGED serverSide, NEW S \in SUBSET created, Listed(S),
               Handled(i, 200, [p \in S |-> progress[p]], Dash)
        PROVE  StepIsSound
    <3> DEFINE list == [p \in S |-> progress[p]]
    <3>1. \A p \in S : progress[p] \in Nat /\ p \in created
      BY PageParts
    <3>2. list \in [S -> Nat] /\ DOMAIN list = S /\ \A p \in S : list[p] = progress[p]
      BY <3>1
    <3>3. Handled(i, 200, list, Dash)
      BY <2>3
    <3> HIDE DEF list
    <3>4. list \in Lists
      BY <1>0, <3>2 DEF Lists
    <3>5. DOMAIN list = created \/ Cardinality(DOMAIN list) = ListLimit
      BY <2>3, <3>2 DEF Listed
    <3>6. UNCHANGED <<page, progress>> /\ created' = created
      BY <1>6, <2>3 DEF Serve, serverSide
    <3>7. \A p \in DOMAIN list : p \in created /\ list[p] = progress[p]
      BY <3>1, <3>2
    <3>8. 200 \in Nat /\ calls[i].kind # "results"
      BY <2>3
    <3> QED
      BY <1>5, <2>1, <3>3, <3>4, <3>5, <3>6, <3>7, <3>8
  <2>4. CASE /\ calls[i].kind = "results" /\ Handled(i, 200, NoPolls, progress[calls[i].id])
             /\ UNCHANGED serverSide
    <3>1. progress[calls[i].id] \in Nat
      BY <2>4, PageParts DEF AdminInv, AnswerInv, CallPolls
    <3> QED
      BY <1>5, <1>6, <2>1, <2>4, <3>1 DEF Serve, serverSide
  <2>5. CASE \E S \in SUBSET created : /\ calls[i].kind = "list" /\ UNCHANGED serverSide /\ Listed(S)
                                      /\ Handled(i, 200, [p \in S |-> progress[p]], Dash)
    BY <2>3, <2>5
  <2> QED
    BY <1>6, <2>2, <2>4, <2>5 DEF Creates, Serve, serverSide
<1> QED
  BY <1>1, <1>2, <1>4, <1>6

-----------------------------------------------------------------------------
\* The page as it is loaded.
LEMMA AdminInitInv == AdminInit => AdminInv
<1> SUFFICES ASSUME AdminInit PROVE AdminInv
  OBVIOUS
<1> USE AdminAssumption
<1> DEFINE c == Call("session", Nothing, 0, {"login"})
<1>1. /\ c \in CallSet /\ c.kind = "session" /\ c.st = "sent" /\ DOMAIN c.list = {} /\ calls = <<c>>
  BY NoPollsList DEF AdminInit, CallSet, Call, Dash
<1> HIDE DEF c
<1>2. calls \in Seq(CallSet) /\ Ids = {1} /\ calls[1] = c
  BY <1>1 DEF Ids
<1>3. AdminTypeInv
  <2>1. progress \in [Polls -> 0 .. MaxProgress]
    BY DEF AdminInit
  <2>2. created \subseteq Polls /\ DOMAIN polls = {} /\ auth = FALSE /\ panel = Hidden
    BY NoPollsList DEF AdminInit
  <2> QED
    BY <1>2, <2>1, <2>2, HiddenPanel DEF AdminInit, AdminTypeInv
<1>4. PanelInv
  BY HiddenPanel, NoPollsList DEF AdminInit, PanelInv
<1>5. SequenceInv /\ AnswerInv
  BY <1>1, <1>2 DEF SequenceInv, AnswerInv, CallPolls, Given
<1> QED
  BY <1>3, <1>4, <1>5 DEF AdminInv

LEMMA AdminNextStep == AdminInv /\ AdminNext => StepIsSound
<1> SUFFICES ASSUME AdminInv, AdminNext PROVE StepIsSound
  OBVIOUS
<1>1. CASE User
  BY <1>1, UserStep
<1>2. CASE (\E i \in Ids : Serve(i) \/ HandleLost(i)) \/ Expire \/ \E p \in Polls : GoesOn(p)
  BY <1>2, AdminServerStep
<1>3. CASE \E i \in Ids : Arrives(i)
  BY <1>3, ArrivalStep
<1> QED
  BY <1>1, <1>2, <1>3 DEF AdminNext

LEMMA AdminNextInv == AdminInv /\ [AdminNext]_adminVars => AdminInv'
<1>1. AdminInv /\ AdminNext => AdminInv'
  BY AdminNextStep DEF StepIsSound
<1>2. AdminInv /\ UNCHANGED adminVars => AdminInv'
  BY DEF adminVars, page, serverSide, AdminInv, AdminTypeInv, PanelInv, SequenceInv, AnswerInv,
         CallPolls, AnswerIsNew, NoOlderList, NoOlderResults, Given, Ids, Dash
<1> QED
  BY <1>1, <1>2

LEMMA AdminInvariant == AdminSpec => []AdminInv
<1> QED
  BY AdminInitInv, AdminNextInv, PTL DEF AdminSpec

(* Whatever answers overtake each other, the panel is open only for an     *)
(* administrator who is logged in, and its total is one the selected poll  *)
(* had (admin.js, loadResults).                                            *)
THEOREM PanelShowsTheSelected == AdminSpec => []PanelIsSelected
<1>1. AdminInv => PanelIsSelected
  BY DEF AdminInv, PanelInv, PanelIsSelected
<1> QED
  BY <1>1, AdminInvariant, PTL

(* Answers of one kind reach the page only in the order of their requests: *)
(* a poll leaves the list only when that is full, the total of the poll in *)
(* the panel never goes down, and no list brings back a state that an      *)
(* earlier list had left behind, nor do results (admin.js, loadPolls and   *)
(* loadResults).  Between a list and results nothing is promised.          *)
THEOREM AnswersKeepTheirOrder == AdminSpec => NeverOlder
<1>1. AdminInv /\ [AdminNext]_adminVars => [OnlyForward]_adminVars
  BY AdminNextStep DEF StepIsSound
<1> QED
  BY <1>1, AdminInvariant, PTL DEF AdminSpec, NeverOlder, OnlyForward
=============================================================================
