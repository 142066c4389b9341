------------------------------ MODULE AdminPage ------------------------------
(***************************************************************************)
(* The administrator's page (internal/web/static/admin.js).  Its requests  *)
(* overlap; the server handles them and their answers come back in any     *)
(* order, or not at all (common.js: 20 s, broken connection).  Sequence    *)
(* numbers drop the answers that are out of date.  The server is reduced   *)
(* to what the page sees: a session that logs in, expires and logs out,    *)
(* and polls that are created and go on.  A poll's state (scheduled, open, *)
(* processing, final) and its votes only go forward, so one number says    *)
(* how far it is, and an answer carries the number of its moment.          *)
(***************************************************************************)
EXTENDS Naturals, Sequences, FiniteSets

CONSTANTS
    Polls,       \* polls that may be created
    ListLimit,   \* how many polls a list holds at most: 100 in the code
    MaxCalls,    \* bound on the requests of the page
    MaxProgress  \* bound on how far a poll goes

\* A poll's identifier is not the empty one.
ASSUME AdminAssumption == MaxProgress \in Nat /\ "none" \notin Polls

VARIABLES
    \* the page
    auth, selectedID, listSequence, resultsSequence,
    polls,       \* the list: poll |-> the state it shows of it
    panel,       \* the results panel: hidden, or the poll, its total and its badge
    buttons,     \* the buttons that are disabled while their request is out
    \* the requests, in the order they are sent
    calls,
    \* the server
    session, created, progress

page == <<auth, polls, selectedID, listSequence, resultsSequence, panel, buttons>>
serverSide == <<session, created, progress>>
adminVars == <<page, calls, serverSide>>

Nothing == "none"
Dash == MaxProgress + 1    \* stands in an empty panel
NoPolls == [p \in {} |-> 0]
\* A state shown, and (history) the kind of answer it is from.
Shown(state, from) == [state |-> state, from |-> from]
Rows(list) == [p \in DOMAIN list |-> Shown(list[p], "list")]
Hidden == [open |-> FALSE, poll |-> Nothing, total |-> Dash, badge |-> Shown(Dash, "list")]
Ids == DOMAIN calls
\* frees: the buttons of the handlers that wait for this request in the end.
Call(kind, id, seq, frees) ==
    [kind |-> kind, id |-> id, seq |-> seq, frees |-> frees, st |-> "sent", status |-> 0,
     list |-> NoPolls, at |-> Dash]
SendCall(c) == Len(calls) < MaxCalls /\ calls' = Append(calls, c)

\* The functions of the page, as what they leave in its state.
ShowLogin ==
    /\ auth' = FALSE
    /\ listSequence' = listSequence + 1 /\ resultsSequence' = resultsSequence + 1
    /\ polls' = NoPolls /\ selectedID' = Nothing
    /\ panel' = Hidden
SendList(id) == /\ listSequence' = listSequence + 1
                /\ SendCall(Call("list", id, listSequence + 1, {}))
SendResults(id) == /\ resultsSequence' = resultsSequence + 1
                   /\ SendCall(Call("results", id, resultsSequence + 1, {}))

-----------------------------------------------------------------------------
(* What the administrator does.  A bound on requests is a bound on these.  *)

Press(b) == b \notin buttons /\ buttons' = buttons \cup {b}
Login == /\ ~ auth /\ Press("login") /\ SendCall(Call("login", Nothing, 0, {"login"}))
         /\ UNCHANGED <<auth, polls, selectedID, listSequence, resultsSequence, panel, serverSide>>
Logout == /\ auth /\ Press("logout") /\ SendCall(Call("logout", Nothing, 0, {"logout"}))
          /\ UNCHANGED <<auth, polls, selectedID, listSequence, resultsSequence, panel, serverSide>>
CreatePoll(p) ==
    /\ auth /\ p \notin created \cup {calls[i].id : i \in {j \in Ids : calls[j].kind = "create"}}
    /\ Press("create") /\ SendCall(Call("create", p, 0, {"create"}))
    /\ UNCHANGED <<auth, polls, selectedID, listSequence, resultsSequence, panel, serverSide>>
RefreshList ==
    /\ auth /\ Press("list") /\ SendList(Nothing)
    /\ UNCHANGED <<auth, polls, selectedID, resultsSequence, panel, serverSide>>
RefreshResults ==
    /\ auth /\ panel.open /\ Press("results") /\ SendResults(selectedID)
    /\ UNCHANGED <<auth, polls, selectedID, listSequence, panel, serverSide>>

\* selectPoll empties the panel before it asks for the results.
\* Its badge is the list's.
KeepTotal(p, badge) ==  \* mutant: the old total stays
    [panel EXCEPT !.open = TRUE, !.poll = p, !.badge = badge]
Emptied(p, badge) == [open |-> TRUE, poll |-> p, total |-> Dash, badge |-> badge]
SelectPoll(p) ==
    /\ auth /\ p \in DOMAIN polls
    /\ selectedID' = p /\ panel' = Emptied(p, polls[p])
    /\ SendResults(p)
    /\ buttons' = buttons \cup {"results"}
    /\ UNCHANGED <<auth, polls, listSequence, serverSide>>

-----------------------------------------------------------------------------
(* The server handles a request that was sent, whoever still waits for it. *)

Handled(i, status, list, at) ==
    calls' = [calls EXCEPT ![i] = [@ EXCEPT !.st = "answered", !.status = status,
                                            !.list = list, !.at = at]]
\* store.go, List: a full list leaves out those that start first, which the
\* model does not tell apart.
Listed(S) == IF Cardinality(created) <= ListLimit THEN S = created
             ELSE S \subseteq created /\ Cardinality(S) = ListLimit
Serve(i) ==
    /\ calls[i].st = "sent"
    /\ \/ calls[i].kind = "login" /\ Handled(i, 200, NoPolls, Dash)
          /\ session' = TRUE /\ UNCHANGED <<created, progress>>
       \/ calls[i].kind = "login" /\ Handled(i, 401, NoPolls, Dash) /\ UNCHANGED serverSide
       \/ calls[i].kind # "login" /\ ~ session /\ Handled(i, 401, NoPolls, Dash) /\ UNCHANGED serverSide
       \/ calls[i].kind # "login" /\ session /\ Handled(i, 503, NoPolls, Dash) /\ UNCHANGED serverSide
       \/ session /\ calls[i].kind = "logout" /\ Handled(i, 204, NoPolls, Dash)
          /\ session' = FALSE /\ UNCHANGED <<created, progress>>
       \/ session /\ calls[i].kind = "session" /\ Handled(i, 200, NoPolls, Dash) /\ UNCHANGED serverSide
       \/ session /\ calls[i].kind = "list" /\ UNCHANGED serverSide
          /\ \E S \in SUBSET created :
                Listed(S) /\ Handled(i, 200, [p \in S |-> progress[p]], Dash)
       \/ session /\ calls[i].kind = "results" /\ Handled(i, 200, NoPolls, progress[calls[i].id])
          /\ UNCHANGED serverSide
       \/ session /\ calls[i].kind = "create" /\ Handled(i, 409, NoPolls, Dash) /\ UNCHANGED serverSide
       \/ session /\ calls[i].kind = "create" /\ Handled(i, 201, NoPolls, Dash)
          /\ created' = created \cup {calls[i].id} /\ UNCHANGED <<session, progress>>
    /\ UNCHANGED page
Expire == session /\ session' = FALSE /\ UNCHANGED <<page, calls, created, progress>>
GoesOn(p) ==
    /\ p \in created /\ progress[p] < MaxProgress
    /\ progress' = [progress EXCEPT ![p] = @ + 1]
    /\ UNCHANGED <<page, calls, session, created>>

-----------------------------------------------------------------------------
(* Answers.  A request that is over is forgotten.                          *)

Over == [Call(Nothing, Nothing, 0, {}) EXCEPT !.st = "over"]
\* The finally blocks: the list's and the results' button is the newest
\* request's to free; the others are freed by whoever pressed them.
Own(c) == IF \/ c.kind = "list" /\ c.seq = listSequence
             \/ c.kind = "results" /\ c.seq = resultsSequence THEN {c.kind} ELSE {}
Ends(i, own) == /\ calls' = [calls EXCEPT ![i] = Over]
                /\ buttons' = buttons \ (calls[i].frees \cup own)
\* The handler goes on with another request, which disables its own button.
Follows(i, kind, id, seq, frees) ==
    /\ Len(calls) < MaxCalls
    /\ calls' = Append([calls EXCEPT ![i] = Over], Call(kind, id, seq, frees))
    /\ buttons' = (buttons \ ((calls[i].frees \cup Own(calls[i])) \ frees)) \cup {kind}
SamePage == UNCHANGED <<auth, polls, selectedID, listSequence, resultsSequence, panel>>
Arrived(i, kinds, statuses) ==
    calls[i].st = "answered" /\ calls[i].kind \in kinds /\ calls[i].status \in statuses

\* protectedRequest: a 401, however old, shows the login; the sequence numbers
\* it moves on make every list and results request an old one.
SessionOver(i) ==
    /\ Arrived(i, {"session", "logout", "list", "results", "create"}, {401})
    /\ ShowLogin /\ Ends(i, {}) /\ UNCHANGED serverSide

\* showDashboard: logged in, it loads the list at once, and the login form
\* waits for that.
Dashboard(i) ==
    /\ Arrived(i, {"login", "session"}, {200})
    /\ auth' = TRUE
    /\ listSequence' = listSequence + 1
    /\ Follows(i, "list", Nothing, listSequence + 1,
               IF calls[i].kind = "login" THEN {"login"} ELSE {})
    /\ UNCHANGED <<polls, selectedID, resultsSequence, panel, serverSide>>
LoginRefused(i) ==
    /\ Arrived(i, {"login"}, {401})
    /\ Ends(i, {}) /\ SamePage /\ UNCHANGED serverSide
SessionUnknown(i) ==
    /\ calls[i].kind = "session" /\ calls[i].status \notin {200, 401}
    /\ ShowLogin /\ Ends(i, {}) /\ UNCHANGED serverSide
LoggedOut(i) ==
    /\ Arrived(i, {"logout"}, {204, 503})
    /\ IF calls[i].status = 204 THEN ShowLogin ELSE SamePage
    /\ Ends(i, {}) /\ UNCHANGED serverSide

\* loadPolls: only the newest request's answer counts, and only when still
\* logged in.  The list and its states are replaced, and drawn again with the
\* selection.  After a creation the new poll is selected, if it is listed;
\* otherwise the badge of the selected poll follows the list.
NewestAny(c, sequence) == auth  \* mutant: answers are taken as they come
Newest(c, sequence) == c.seq = sequence /\ auth
ListArrives(i) ==
    LET c == calls[i] IN
    /\ Arrived(i, {"list"}, {200, 503})
    /\ UNCHANGED <<auth, listSequence, serverSide>>
    /\ \/ /\ Newest(c, listSequence) /\ c.status = 200
          /\ polls' = Rows(c.list)
          /\ \/ /\ c.id \in DOMAIN c.list
                /\ selectedID' = c.id /\ panel' = Emptied(c.id, polls'[c.id])
                /\ resultsSequence' = resultsSequence + 1
                /\ Follows(i, "results", c.id, resultsSequence + 1, c.frees)
             \/ /\ c.id = Nothing /\ selectedID \in DOMAIN c.list
                /\ panel' = [panel EXCEPT !.badge = polls'[selectedID]]
                /\ Ends(i, Own(c)) /\ UNCHANGED <<selectedID, resultsSequence>>
             \/ /\ c.id \notin DOMAIN c.list
                /\ c.id # Nothing \/ selectedID \notin DOMAIN c.list
                /\ Ends(i, Own(c)) /\ UNCHANGED <<selectedID, panel, resultsSequence>>
       \/ /\ ~ (Newest(c, listSequence) /\ c.status = 200) /\ Ends(i, Own(c))
          /\ UNCHANGED <<polls, selectedID, panel, resultsSequence>>

\* loadResults: the state goes to the badge and to the list's row, if there is
\* one, and the list is drawn again.
ResultsArrive(i) ==
    LET c == calls[i] IN
    /\ Arrived(i, {"results"}, {200, 503})
    /\ IF Newest(c, resultsSequence) /\ c.id = selectedID /\ c.status = 200
         THEN /\ panel' = [panel EXCEPT !.total = c.at, !.badge = Shown(c.at, "results")]
              /\ polls' = [p \in DOMAIN polls |->
                             IF p = c.id THEN Shown(c.at, "results") ELSE polls[p]]
         ELSE UNCHANGED <<panel, polls>>
    /\ Ends(i, Own(c))
    /\ UNCHANGED <<auth, selectedID, listSequence, resultsSequence, serverSide>>

\* createPoll: after a confirmed creation the list is loaded, whatever the
\* page shows by then, and the form waits for it.
Created(i) ==
    /\ Arrived(i, {"create"}, {201})
    /\ listSequence' = listSequence + 1
    /\ Follows(i, "list", calls[i].id, listSequence + 1, {"create"})
    /\ UNCHANGED <<auth, polls, selectedID, resultsSequence, panel, serverSide>>
NotCreated(i) ==
    /\ Arrived(i, {"create"}, {409, 503})
    /\ Ends(i, {}) /\ SamePage /\ UNCHANGED serverSide

\* The connection breaks before or after the server handled the request, which
\* may also still be on its way: then it is handled when nobody waits any more.
Broken(i) ==
    /\ calls[i].st \in {"sent", "answered"} /\ calls[i].kind # "session"
    /\ \/ calls[i].st = "sent" /\ calls' = [calls EXCEPT ![i].st = "lost"]
       \/ calls' = [calls EXCEPT ![i] = Over]
    /\ buttons' = buttons \ (calls[i].frees \cup Own(calls[i]))
    /\ SamePage /\ UNCHANGED serverSide
HandleLost(i) ==
    /\ calls[i].st = "lost" /\ calls' = [calls EXCEPT ![i] = Over]
    /\ \/ calls[i].kind = "login" /\ session' = TRUE /\ UNCHANGED <<created, progress>>
       \/ calls[i].kind = "logout" /\ session' = FALSE /\ UNCHANGED <<created, progress>>
       \/ /\ calls[i].kind = "create" /\ session
          /\ created' = created \cup {calls[i].id} /\ UNCHANGED <<session, progress>>
       \/ UNCHANGED serverSide
    /\ UNCHANGED page

AdminInit ==
    /\ auth = FALSE /\ polls = NoPolls /\ selectedID = Nothing
    /\ listSequence = 0 /\ resultsSequence = 0
    /\ panel = Hidden /\ buttons = {"login"}    \* not shown before the session is known
    /\ calls = <<Call("session", Nothing, 0, {"login"})>>
    /\ session \in BOOLEAN /\ created \in {{}, Polls}
    /\ progress = [p \in Polls |-> 0]
User == \/ Login \/ Logout \/ RefreshList \/ RefreshResults
        \/ \E p \in Polls : CreatePoll(p) \/ SelectPoll(p)
Arrives(i) == \/ SessionOver(i) \/ Dashboard(i) \/ LoginRefused(i) \/ SessionUnknown(i)
              \/ LoggedOut(i) \/ ListArrives(i) \/ ResultsArrive(i) \/ Created(i)
              \/ NotCreated(i) \/ Broken(i)
AdminNext == \/ User \/ Expire \/ \E p \in Polls : GoesOn(p)
             \/ \E i \in Ids : Serve(i) \/ HandleLost(i) \/ Arrives(i)
AdminSpec == AdminInit /\ [][AdminNext]_adminVars

-----------------------------------------------------------------------------
(* Properties *)

(* The panel is open only for who is logged in, and the total in it is one *)
(* the selected poll really had: no late answer fills another poll's panel *)
(* (admin.js 145).                                                         *)
PanelIsSelected ==
    panel.open => /\ auth /\ panel.poll = selectedID
                  /\ panel.total # Dash => panel.total <= progress[panel.poll]
                                           /\ panel.poll \in created

(* Answers of one kind replace each other only in the order of their       *)
(* requests (admin.js 101, 145).  While somebody stays logged in, a poll   *)
(* leaves the list only when that is full, the total of the poll in the    *)
(* panel never goes down, and a state in the list or in the badge goes     *)
(* back only where an answer to the list replaces one to the results, or   *)
(* the other way round: the two are not ordered by the code, so a list     *)
(* that was slow does bring back a state the results had left behind.      *)
NotBack(old, new) == old.from = new.from => old.state <= new.state
NeverOlder ==
    [][/\ auth /\ auth' => \A p \in DOMAIN polls :
            IF p \in DOMAIN polls' THEN NotBack(polls[p], polls'[p])
            ELSE Cardinality(DOMAIN polls') = ListLimit
       /\ panel.open /\ panel'.open /\ panel.poll = panel'.poll =>
            /\ NotBack(panel.badge, panel'.badge)
            /\ panel.total # Dash /\ panel'.total # Dash => panel.total <= panel'.total]_adminVars
=============================================================================
