------------------------------ MODULE PollSession ------------------------------
(***************************************************************************)
(* The long poll of one client (lib/msg.c:1639-1875): which request polls, *)
(* what its answer does (poll again, quit and start anew, relink), and how *)
(* that meets the calls of the application (poll, close, log out, change   *)
(* the status, log in) and the answers of relinks and status changes.      *)
(* USE_MSG_THREAD is off: the callback runs on the loop thread, and the    *)
(* application calls from there too, so each is one step.                  *)
(*                                                                         *)
(* The request itself is HttpQueue's: here it is answered at any time, and *)
(* once cancelled never with success (HttpQueue!CancelIsSeen).             *)
(*                                                                         *)
(* Spec assumes an application that closes the list while no relink is     *)
(* pending and polls again when the cancelled request is gone.             *)
(* CarelessSpec assumes nothing.                                           *)
(***************************************************************************)
EXTENDS Naturals, FiniteSets

CONSTANTS
  Polls,      \* the request objects of polls; a freed one may be allocated again
  Relinks,    \* the request objects of relinks; bounds how many are pending
  None        \* the NULL pointer

ASSUME PollConstants == None \notin Polls

VARIABLES
  stat,       \* lc->stat, one of Stats
  entering,   \* BOOLEAN, a login is under way
  changing,   \* the status asked for by a pending change_status2, or "none"
  running,    \* list_->running
  req,        \* list_->req
  flying,     \* SUBSET Polls, the polls submitted and not yet answered
  cancelled,  \* SUBSET Polls, those that lwqq_http_cancel was called on
  stale,      \* SUBSET Polls, those whose post names a session that is gone
  relinking,  \* SUBSET Relinks, the pending ones
  unread,     \* BOOLEAN, messages are in list->head
  delayed,    \* BOOLEAN, messages wait for the event set of their pictures or senders
  queued      \* SUBSET Notices, dispatched to the loop and not yet run

vars == <<stat, entering, changing, running, req, flying, cancelled, stale, relinking,
          unread, delayed, queued>>

pollVars == <<running, req, flying, cancelled, stale>>
messageVars == <<unread, delayed, queued>>

\* "online" stands for every status but these two.
Stats == {"online", "offline", "logout"}
Notices == {"poll_msg", "poll_lost"}

\* lwqq_client_logined: any status but LOGOUT, OFFLINE included.
LoggedIn == stat # "logout"

------------------------------------------------------------------------------
Init ==
  /\ stat = "online"
  /\ entering = FALSE
  /\ changing = "none"
  /\ running = FALSE
  /\ req = None
  /\ flying = {} /\ cancelled = {} /\ stale = {}
  /\ relinking = {}
  /\ unread = FALSE /\ delayed = FALSE /\ queued = {}

\* start_poll_msg: a new request with the session of now, beside those still flying.
StartPoll(others) ==
  \E q \in Polls \ others :
    /\ running' = TRUE
    /\ req' = q
    /\ flying' = others \cup {q}

\* Variant: a repeated poll is not avoided.
PollAgain ==
  /\ StartPoll(flying)
  /\ UNCHANGED cancelled

\* lwqq_msglist_poll: "avoid repeat poll".
MsglistPoll ==
  IF running
    THEN UNCHANGED <<running, req, flying, cancelled>>
    ELSE /\ StartPoll(flying)
         /\ UNCHANGED cancelled

------------------------------------------------------------------------------
(* The application. *)

Poll ==
  /\ MsglistPoll
  /\ UNCHANGED <<stale, stat, entering, changing, relinking>>
  /\ UNCHANGED messageVars

Close ==
  /\ running
  /\ cancelled' = cancelled \cup {req}
  /\ running' = FALSE
  /\ UNCHANGED <<req, flying, stale, stat, entering, changing, relinking>>
  /\ UNCHANGED messageVars

\* lwqq_logout: LOGOUT at once, then a synchronous change_status2 that sets
\* OFFLINE when the server agrees and dispatches poll_lost when it says 108.
Logout ==
  /\ LoggedIn
  /\ \/ stat' = "offline" /\ UNCHANGED queued
     \/ stat' = "logout" /\ UNCHANGED queued
     \/ stat' = "logout" /\ queued' = queued \cup {"poll_lost"}
  /\ UNCHANGED <<entering, changing, relinking, unread, delayed>>
  /\ UNCHANGED pollVars

\* lwqq_login assumes the status it asks for, before the stages of the login.
Login ==
  /\ stat = "logout" /\ ~entering
  /\ stat' = "online"
  /\ entering' = TRUE
  /\ UNCHANGED <<changing, relinking>>
  /\ UNCHANGED pollVars
  /\ UNCHANGED messageVars

\* lwqq_info_change_status; bound: one pending.
ChangeStatus ==
  /\ changing = "none"
  /\ changing' \in {"online", "offline"}
  /\ UNCHANGED <<stat, entering, relinking>>
  /\ UNCHANGED pollVars
  /\ UNCHANGED messageVars

------------------------------------------------------------------------------
(* The loop thread. *)

\* The login ends with the status the server reports, or logged out.
LoginEnds ==
  /\ entering
  /\ entering' = FALSE
  /\ stat' \in Stats
  /\ UNCHANGED <<changing, relinking>>
  /\ UNCHANGED pollVars
  /\ UNCHANGED messageVars

\* do_change_status, whatever happened to stat since the request.
StatusChanged ==
  /\ changing # "none"
  /\ changing' = "none"
  /\ \/ stat' = changing /\ UNCHANGED queued
     \/ UNCHANGED <<stat, queued>>
     \/ UNCHANGED stat /\ queued' = queued \cup {"poll_lost"}
  /\ UNCHANGED <<entering, relinking, unread, delayed>>
  /\ UNCHANGED pollVars

\* What the callback finds: ev.err is CANCELED (also when nobody cancelled: see
\* HttpQueue!CanceledByUser) or another error; or a body with messages, with
\* nothing to act on (102, other codes, a status other than 200), with a loss
\* (109, no JSON), a demand to relink (120, 121) or a new ptwebqq (116).
Codes == {"canceled", "error", "message", "nothing", "lost", "relink", "ptwebqq"}
PossibleCodes(p) == IF p \in cancelled THEN {"canceled", "error"} ELSE Codes

\* process_poll_message_cb returns LWQQ_EC_ERROR.
Quits(code) == ~LoggedIn \/ code \in {"canceled", "error", "relink", "ptwebqq"}

\* Variant: the callback never starts another poll.
QuitOnly(p) ==
  /\ running' = FALSE
  /\ req' = None
  /\ flying' = flying \ {p}

\* receive_poll_message frees the request and clears list_->req, whichever request
\* that names; try_restart_poll starts another one unless logged out.
QuitPoll(p) ==
  IF LoggedIn
    THEN StartPoll(flying \ {p})
    ELSE /\ running' = FALSE
         /\ req' = None
         /\ flying' = flying \ {p}

\* The marks of the request go with it.
Forget(p) == cancelled' = cancelled \ {p}

\* lwqq_relink, after an error or on the server's demand; check_connection_lost
\* will hear of the answer.  Bound: an answer waits while all Relinks are pending.
SendRelink(code) ==
  IF LoggedIn /\ code \in {"error", "relink"}
    THEN \E x \in Relinks \ relinking : relinking' = relinking \cup {x}
    ELSE UNCHANGED relinking

AnswerQuits(p, code) ==
  /\ p \in flying /\ code \in PossibleCodes(p)
  /\ Quits(code)
  /\ SendRelink(code)
  /\ QuitPoll(p)
  /\ Forget(p)
  /\ stale' = IF LoggedIn /\ code = "ptwebqq" THEN flying \ {p} ELSE stale \ {p}
  /\ UNCHANGED <<stat, entering, changing>>
  /\ UNCHANGED messageVars

\* The request is submitted again with the same post.  Messages are inserted, or
\* wait for an event set; poll_msg is dispatched in either case.
AnswerGoesOn(p, code) ==
  /\ p \in flying /\ code \in PossibleCodes(p)
  /\ ~Quits(code)
  /\ CASE code = "message" ->
            /\ unread' \in {unread, TRUE}
            /\ delayed' \in {delayed, TRUE}
            /\ queued' = queued \cup {"poll_msg"}
       [] code = "lost" ->
            /\ queued' = queued \cup {"poll_lost"}
            /\ UNCHANGED <<unread, delayed>>
       [] OTHER -> UNCHANGED messageVars
  /\ UNCHANGED <<stat, entering, changing, relinking>>
  /\ UNCHANGED pollVars

Answer(p) == \E code \in Codes : AnswerQuits(p, code) \/ AnswerGoesOn(p, code)

\* process_login2 and check_connection_lost: the session and the status are the
\* server's, and a list that does not run is polled, logged in or not.
RelinkAccepted(x) ==
  /\ x \in relinking
  /\ relinking' = relinking \ {x}
  /\ stat' \in Stats
  /\ stale' = flying
  /\ MsglistPoll
  /\ UNCHANGED <<entering, changing>>
  /\ UNCHANGED messageVars

\* The poll_lost handlers run, twice when the server refused.
RelinkFailed(x) ==
  /\ x \in relinking
  /\ relinking' = relinking \ {x}
  /\ UNCHANGED <<stat, entering, changing>>
  /\ UNCHANGED pollVars
  /\ UNCHANGED messageVars

\* Variant: the message is inserted and nobody is told.
InsertDelayedQuietly ==
  /\ delayed
  /\ delayed' \in BOOLEAN
  /\ unread' = TRUE
  /\ UNCHANGED <<queued, stat, entering, changing, relinking>>
  /\ UNCHANGED pollVars

\* insert_msg_delay_by_request_content, when an event set fires.
InsertDelayed ==
  /\ delayed
  /\ delayed' \in BOOLEAN
  /\ unread' = TRUE
  /\ queued' = queued \cup {"poll_msg"}
  /\ UNCHANGED <<stat, entering, changing, relinking>>
  /\ UNCHANGED pollVars

\* The handlers of poll_msg empty the list.
Notify(n) ==
  /\ n \in queued
  /\ queued' = queued \ {n}
  /\ unread' = IF n = "poll_msg" THEN FALSE ELSE unread
  /\ UNCHANGED <<stat, entering, changing, relinking, delayed>>
  /\ UNCHANGED pollVars

------------------------------------------------------------------------------
Loop ==
  \/ LoginEnds \/ StatusChanged
  \/ InsertDelayed
  \/ \E p \in Polls : Answer(p)
  \/ \E x \in Relinks : RelinkAccepted(x) \/ RelinkFailed(x)
  \/ \E n \in Notices : Notify(n)

User == Logout \/ Login \/ ChangeStatus

\* The application polls after a login, and closes as described above.
CarefulPoll == LoggedIn /\ cancelled = {} /\ Poll
CarefulClose == relinking = {} /\ Close

Next == Loop \/ User \/ CarefulPoll \/ CarefulClose

\* The loop runs; polls and relinks have time-outs and a bounded number of tries.
Fairness ==
  /\ \A p \in Polls : WF_vars(Answer(p))
  /\ \A x \in Relinks : WF_vars(RelinkAccepted(x) \/ RelinkFailed(x))
  /\ \A n \in Notices : WF_vars(Notify(n))
  /\ WF_vars(LoginEnds) /\ WF_vars(StatusChanged)

Spec == Init /\ [][Next]_vars /\ Fairness

CarelessSpec == Init /\ [][Loop \/ User \/ Poll \/ Close]_vars

------------------------------------------------------------------------------
(* Properties. *)

TypeOK ==
  /\ stat \in Stats
  /\ entering \in BOOLEAN
  /\ changing \in {"none", "online", "offline"}
  /\ running \in BOOLEAN
  /\ req \in Polls \cup {None}
  /\ flying \subseteq Polls
  /\ cancelled \subseteq flying
  /\ stale \subseteq flying
  /\ relinking \subseteq Relinks
  /\ unread \in BOOLEAN /\ delayed \in BOOLEAN
  /\ queued \subseteq Notices

\* list_->req names the one poll in flight and is NULL when there is none, so a
\* close cancels that poll and never a freed request; "running" tells exactly
\* whether it is still wanted (msg.c:1756-1762, 1781, 1839-1875).
OnePoll ==
  /\ flying = IF req = None THEN {} ELSE {req}
  /\ running <=> req # None /\ req \notin cancelled

\* Polling ends only in an answer that finds the client logged out: no error, no
\* relink and no close leaves a client that is logged in without a poll.
EndsOnlyByLogout == [][flying # {} /\ flying' = {} => stat = "logout"]_vars

\* A client that went offline for good stops polling.  Not so: a log-out that succeeds
\* leaves OFFLINE, which lwqq_client_logined counts as logged in, and the poll goes on
\* (login.c:491-498, info.c:246, type.h:439).
LogoutStops == <>[](stat \in {"logout", "offline"}) => <>[](flying = {})

\* No message lies in the list without a poll_msg on its way to the user, also
\* when it waited for a picture (msg.c:352-358, 1580-1583, 1729).
MessagesAnnounced == unread => "poll_msg" \in queued

\* "avoid repeat poll" (msg.c:1843): at most one poll that nobody cancelled.
NoRepeatPoll == Cardinality(flying \ cancelled) <= 1

\* "some thing is wrong. try relogin first." (msg.c:1714): polling goes on in the
\* session that the relink brought.
RelinkFirst == stale = {}
==============================================================================
