------------------------------ MODULE VotePage ------------------------------
(***************************************************************************)
(* The voter's page (internal/web/static/poll.js) against the server of    *)
(* HttpApi.tla: several tabs of one browser share a record in IndexedDB    *)
(* with the voter's token, the choice that is being sent and the receipt.  *)
(* A tab whose storage fails goes on with a record in memory.  Nothing is  *)
(* resent but by the voter's click; connections break, tabs are closed and *)
(* reloaded, and an old request may reach the server late.                 *)
(***************************************************************************)
EXTENDS HttpApi

CONSTANTS Tabs, Browsers   \* what Browser may be

VARIABLES
    db,     \* the shared record
    tab,    \* tab |-> its page
    Browser \* what never changes: the tabs whose IndexedDB may fail,
            \* the tokens that can be drawn and the choices that are clicked

vars == <<server, db, tab>>

\* Requests are numbered; tokens too, in the order they are drawn.
ASSUME NumberAssumption == /\ Requests \subseteq Nat \ {0} /\ Tokens \subseteq Nat \ {0}
                           /\ Browsers \subseteq [failing : SUBSET Tabs, tokens : SUBSET Tokens,
                                                  choices : SUBSET Choices]

Failing == Browser.failing

NoRecord == [token |-> 0, pending |-> None, receipt |-> None]
\* A page's own copy of the record is both memoryRecord and record.
ClosedTab == [pc |-> "closed", dbok |-> TRUE, rec |-> NoRecord,
              chosen |-> None, req |-> 0, settle |-> None]

\* randomToken: a token nobody holds.
Drawn == {db.token} \cup {tab[t].rec.token : t \in Tabs}
           \cup {body[r].token : r \in Requests \ {q \in Requests : hs[q] = "idle"}}
Unused == Browser.tokens \ Drawn
NewRecord == [NoRecord EXCEPT !.token = CHOOSE k \in Unused : \A m \in Unused : k <= m]
Known(a, b) == IF a # NoRecord THEN a ELSE IF b # NoRecord THEN b ELSE NewRecord
\* The bound on tokens: a page that would need one more does not go on.
CanDraw(known) == known # {NoRecord} \/ Unused # {}

\* update: one transaction reads the record (or takes the tab's own, or draws
\* a token), changes it and stores it.  When it aborts, what was read stays in
\* memory, is changed there, and the tab uses its memory from then on.
Current(t) == Known(db, tab[t].rec)
FallbackForgets(p) ==  \* mutant: the fallback draws a token of its own
    IF Unused = {} THEN p.rec ELSE NewRecord
Fallback(p) == Known(p.rec, NoRecord)
Updated(t, p, value, isok) ==
    tab' = [tab EXCEPT ![t] = [p EXCEPT !.rec = value, !.dbok = isok]]
Update(t, p, Mutate(_)) ==
    \/ /\ p.dbok /\ CanDraw({db, p.rec})
       /\ \/ db' = Mutate(Current(t)) /\ Updated(t, p, Mutate(Current(t)), TRUE)
          \/ t \in Failing /\ UNCHANGED db /\ Updated(t, p, Mutate(Current(t)), FALSE)
    \/ /\ ~ p.dbok \/ t \in Failing
       /\ CanDraw({p.rec}) /\ UNCHANGED db
       /\ Updated(t, p, Mutate(Fallback(p)), FALSE)

\* The three changes: none, the first pending choice, the receipt.
Same(v) == v
PendingOverwritten(v, c) == [v EXCEPT !.pending = c]  \* mutant: the last choice wins
WithPending(v, c) == IF v.receipt = None /\ v.pending = None THEN [v EXCEPT !.pending = c] ELSE v
WithReceipt(v, c) == [v EXCEPT !.receipt = c, !.pending = None]

-----------------------------------------------------------------------------
\* init: the storage is opened, or not, and the record read or created.
Load(t) ==
    /\ tab[t].pc = "closed"
    /\ \E ok \in {TRUE, t \notin Failing} :
         Update(t, [ClosedTab EXCEPT !.pc = "idle", !.dbok = ok], Same)
    /\ UNCHANGED server
CloseTab(t) ==
    /\ tab[t].pc # "closed"
    /\ tab' = [tab EXCEPT ![t] = ClosedTab]
    /\ gone' = gone \cup ({tab[t].req} \ {0})
    /\ UNCHANGED <<hs, body, op, out, resp, slots, cnt, recorded, phase, early, wrote, db>>

\* refreshLocalRecord, on a message of another tab or on focus: begun before
\* a click, it ends at the latest before the click's own update.
Refresh(t) ==
    /\ tab[t].pc \in {"idle", "saving"}
    /\ Update(t, tab[t], Same)
    /\ UNCHANGED server
StorageLost(t) ==
    /\ t \in Failing /\ tab[t].pc # "closed" /\ tab[t].dbok
    /\ tab' = [tab EXCEPT ![t].dbok = FALSE]
    /\ UNCHANGED <<server, db>>

\* sendVote.  The page's idea of the time is an estimate: with a choice made
\* the click goes through, in whatever phase the server is.  The pause after
\* a failure (delayManualRetry) is a click that comes later.
Click(t) ==
    /\ tab[t].pc = "idle" /\ tab[t].rec.receipt = None
    /\ \E c \in IF tab[t].rec.pending = None THEN Browser.choices ELSE {None} :
         tab' = [tab EXCEPT ![t].pc = "saving", ![t].chosen = c]
    /\ UNCHANGED <<server, db>>
AfterSave(v) == IF v.receipt # None THEN "idle" ELSE "sending"
Save(t) ==
    LET Mutate(v) == WithPending(v, tab[t].chosen) IN
    /\ tab[t].pc = "saving"
    /\ \E pc \in {"idle", "sending"} :
         /\ Update(t, [tab[t] EXCEPT !.pc = pc], Mutate)
         /\ pc = AfterSave(tab'[t].rec)
    /\ UNCHANGED server

NextRequest == {r \in Requests : hs[r] = "idle" /\ \A q \in Requests : hs[q] = "idle" => r <= q}
SentChoice(t) == tab[t].rec.pending
Post(t) ==
    /\ tab[t].pc = "sending"
    /\ \E r \in NextRequest :
         /\ Send(r, [token |-> tab[t].rec.token, choice |-> SentChoice(t)])
         /\ tab' = [tab EXCEPT ![t].pc = "waiting", ![t].req = r, ![t].chosen = None]
    /\ UNCHANGED db

\* The answer: a receipt is saved next; after the others the voter may try again.
Confirms(a) == a.status \in {200, 201, 409} /\ a.choice # None
Response(t) ==
    LET a == resp[tab[t].req] IN
    /\ tab[t].pc = "waiting" /\ hs[tab[t].req] = "done" /\ a # NoAnswer
    /\ tab' = [tab EXCEPT ![t].pc = IF Confirms(a) THEN "settling" ELSE "idle",
                          ![t].settle = IF Confirms(a) THEN a.choice ELSE None, ![t].req = 0]
    /\ UNCHANGED <<server, db>>
ConnectionLost(t) ==
    /\ tab[t].pc = "waiting"
    /\ tab' = [tab EXCEPT ![t].pc = "idle", ![t].req = 0]
    /\ gone' = gone \cup {tab[t].req}
    /\ UNCHANGED <<hs, body, op, out, resp, slots, cnt, recorded, phase, early, wrote, db>>
Settle(t) ==
    LET Mutate(v) == WithReceipt(v, tab[t].settle) IN
    /\ tab[t].pc = "settling"
    /\ Update(t, [tab[t] EXCEPT !.pc = "idle", !.settle = None], Mutate)
    /\ UNCHANGED server

-----------------------------------------------------------------------------
PageInit == /\ ServerInit /\ \A r \in Requests : Kind[r] = "vote"
            /\ db = NoRecord /\ tab = [t \in Tabs |-> ClosedTab] /\ Browser \in Browsers
PageStep(t) ==
    \/ Load(t) \/ CloseTab(t) \/ Refresh(t) \/ StorageLost(t)
    \/ Click(t) \/ Save(t) \/ Post(t) \/ Response(t) \/ ConnectionLost(t) \/ Settle(t)
PageNext == (ServerStep /\ UNCHANGED <<db, tab>>) \/ \E t \in Tabs : PageStep(t)
PageSpec == PageInit /\ [][PageNext /\ UNCHANGED <<setting, Browser>>]_<<vars, setting, Browser>>

-----------------------------------------------------------------------------
(* Properties *)

Records == {db} \cup {tab[t].rec : t \in Tabs}

(* What the page shows as recorded is what the server counts for that      *)
(* token, also after a conflict and after storage failures (poll.js 187).  *)
ReceiptIsTrue ==
    \A v \in Records : v.receipt # None => recorded[v.token] = v.receipt

(* With working storage a browser has one token and one choice: whatever   *)
(* its tabs do, at most one vote counts and no request ever conflicts      *)
(* with an earlier one (poll.js 177-181).                                  *)
OneVotePerBrowser ==
    Failing = {} => /\ Cardinality({k \in Tokens : recorded[k] # None}) <= 1
                      /\ cnt["conflicts"] = 0

(* A loaded page never changes its token, not even when its storage fails  *)
(* (docs/api.md: the client never replaces the key on a retry).            *)
KeyIsKept ==
    [][\A t \in Tabs : tab[t].pc # "closed" /\ tab'[t].pc # "closed" =>
         tab'[t].rec.token = tab[t].rec.token]_vars
=============================================================================
