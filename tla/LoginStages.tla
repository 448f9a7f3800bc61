------------------------------ MODULE LoginStages ------------------------------
(***************************************************************************)
(* The login (lib/login.c:46-482, 647-691): do_login_stage submits the     *)
(* request of the next stage, and is its listener; one struct LoginStage   *)
(* goes with it, also while the user looks at a verify code, and is freed  *)
(* when login_complete has been reported.                                  *)
(*                                                                         *)
(* A request is answered later, on the loop thread, or, between            *)
(* LWQQ_SYNC_BEGIN and LWQQ_SYNC_END, before the call that submits it      *)
(* returns, so that the stages nest.  A callback and the listener that is  *)
(* run after it are two steps, since the handler of need_verify is called  *)
(* between them.                                                           *)
(*                                                                         *)
(* lc->args->vf_image, where do_login finds what the user typed, has a     *)
(* second writer: a search, for a friend or a group, shows an image, too   *)
(* (lib/internal.c:11-48), and frees it when its code was handed in        *)
(* (lib/info.c:2037, 2130, 2198).  There is one search at a time.          *)
(*                                                                         *)
(* Spec assumes a handler that hands the code in when the callback that    *)
(* asked for it has ended, and not after the user began another login.     *)
(* HastySpec does not assume the first.                                    *)
(***************************************************************************)
EXTENDS Naturals, SequencesExt

CONSTANTS
  Events,     \* the event objects; a freed one may be allocated again
  None        \* the NULL pointer

ASSUME LoginConstants == None \notin Events

VARIABLES
  alive,      \* the LoginStage is allocated
  stage,      \* s->stage, an index into login_seq
  ev,         \* s->ev
  calls,      \* the events in flight, in the order of their submission
  nested,     \* BOOLEAN, LWQQ_SYNC_ENABLED
  job,        \* [Events -> 0..5], the stage an event in flight is of
  result,     \* [Events -> Results], ev->result
  called,     \* SUBSET Events, those whose callback has run and listener not
  image,      \* lc->args->vf_image: of this login, an old one, the search, or freed
  waiting,    \* BOOLEAN, code->cmd has not been run
  search,     \* a search: "none", "asked" for an image, or it is "shown"
  stat,       \* lc->stat
  demanded,   \* history: this login was asked for a verify code
  sent,       \* history: the code that do_login sent last
  misused     \* history: a freed LoginStage was used

vars == <<alive, stage, ev, calls, nested, job, result, called, image, waiting, search,
          stat, demanded, sent, misused>>

Results == {"ok", "failed", "need_vc"}

\* The stages, as in login_seq.
GetLoginSig == 0
CheckNeedVerify == 1
GetVerifyImage == 2
DoLogin == 3
CheckSig == 4
SetOnlineStatus == 5
Done == 6

------------------------------------------------------------------------------
Init ==
  /\ alive = FALSE /\ stage = 0 /\ ev = None
  /\ calls = <<>> /\ nested = FALSE
  /\ job = [e \in Events |-> 0]
  /\ result = [e \in Events |-> "ok"]
  /\ called = {}
  /\ image = "none" /\ waiting = FALSE /\ search = "none"
  /\ stat = "logout"
  /\ demanded = FALSE /\ sent = "none" /\ misused = FALSE

\* do_login uses what was typed at the image that is there, or else what the server
\* said, and frees the image, also one that is freed: that is undefined, and the
\* login goes on.
TakeCode(k) ==
  IF k = DoLogin
    THEN /\ sent' = CASE image = "none" -> "server"
                      [] image = "own"  -> "typed"
                      [] OTHER          -> image
         /\ image' = "none"
    ELSE UNCHANGED <<sent, image>>

\* The stages that are counted before they are answered.
CountedAtOnce == {GetLoginSig, CheckSig}

\* login_seq[s->stage](lc, s).
\* A nested request is answered before s->ev is assigned; the event that s->ev names
\* is not freed yet, so another one is allocated.
Submit(cur, others) ==
  \E e \in Events \ (ToSet(others) \cup {cur}) :
    /\ calls' = Append(others, e)
    /\ job' = [job EXCEPT ![e] = stage]
    /\ result' = [result EXCEPT ![e] = "ok"]
    /\ ev' = IF nested' THEN cur ELSE e
    /\ stage' = IF stage \in CountedAtOnce THEN stage + 1 ELSE stage
    /\ TakeCode(stage)
    /\ UNCHANGED <<alive, stat>>

\* The login is reported and the LoginStage freed.
Complete(others, err) ==
  /\ alive' = FALSE
  /\ stat' = IF err = "ok" THEN stat ELSE "logout"
  /\ calls' = others
  /\ ev' = None /\ stage' = 0
  /\ UNCHANGED <<job, result, image, sent>>

\* Variant: s->ev still names the event of the image.
PauseKeepsEvent(others) ==
  /\ calls' = others
  /\ UNCHANGED <<alive, stage, ev, job, result, image, sent, stat>>

\* Variant: the LoginStage is released.
PauseFrees(others) ==
  /\ alive' = FALSE
  /\ ev' = None
  /\ calls' = others
  /\ UNCHANGED <<stage, job, result, image, sent, stat>>

\* The LoginStage waits for the code.
Pause(others) ==
  /\ ev' = None
  /\ calls' = others
  /\ UNCHANGED <<alive, stage, job, result, image, sent, stat>>

\* do_login_stage, which looks at s->ev whatever it is run for.  (That a client is no
\* longer valid changes nothing: the error is set and not looked at.)
DoLoginStage(cur, others) ==
  LET err == IF cur = None THEN "ok" ELSE result[cur]
  IN  \/ err = "need_vc" /\ Pause(others)
      \/ err = "failed" /\ Complete(others, err)
      \/ err = "ok" /\ stage >= Done /\ Complete(others, err)
      \/ err = "ok" /\ stage < Done /\ Submit(cur, others)

------------------------------------------------------------------------------
(* The callers. *)

\* lwqq_login, one at a time; one that waits for its code may have been given up.
Login ==
  /\ ~alive \/ waiting
  /\ calls = <<>> /\ stat = "logout"
  /\ nested' \in BOOLEAN
  /\ \E e \in Events :
       /\ calls' = <<e>>
       /\ job' = [job EXCEPT ![e] = GetLoginSig]
       /\ result' = [result EXCEPT ![e] = "ok"]
       /\ ev' = IF nested' THEN None ELSE e
  /\ alive' = TRUE
  /\ stage' = CheckNeedVerify
  /\ stat' = "online"
  /\ demanded' = FALSE /\ sent' = "none"
  /\ waiting' = FALSE
  /\ image' = IF image = "own" THEN "old" ELSE image
  /\ UNCHANGED <<called, search, misused>>

\* lwqq_logout, also while a login is under way, which does not notice.
Logout ==
  /\ stat = "online"
  /\ stat' = "logout"
  /\ UNCHANGED <<alive, stage, ev, calls, nested, job, result, called, image, waiting,
                 search, demanded, sent, misused>>

\* The user types the code, and vp_do(code->cmd); the synchronous section may have
\* been left in between.
Answer ==
  /\ waiting
  /\ waiting' = FALSE
  /\ nested' \in IF calls = <<>> THEN BOOLEAN ELSE {nested}
  /\ IF alive
       THEN DoLoginStage(ev, calls) /\ UNCHANGED misused
       ELSE misused' = TRUE /\ UNCHANGED <<alive, stage, ev, calls, job, result, image, stat, sent>>
  /\ UNCHANGED <<called, search, demanded>>

------------------------------------------------------------------------------
(* A search shows an image, too. *)

loginVars == <<alive, stage, ev, calls, nested, job, result, called, waiting, stat,
               demanded, sent, misused>>

\* lwqq_info_search_friend and its like: lwqq__request_captcha.
AskSearch ==
  /\ search = "none"
  /\ search' = "asked"
  /\ UNCHANGED <<loginVars, image>>

\* request_captcha_back, on the loop thread, between two answers of a login that is
\* not nested: the image is shown, or there is none.
SearchAnswered ==
  /\ search = "asked" /\ (~nested => called = {})
  /\ \/ search' = "shown" /\ image' = "other"
     \/ search' = "none" /\ UNCHANGED image
  /\ UNCHANGED loginVars

\* add_friend_stage_2, add_group_stage_1 and add_group_stage_4 free the code when the
\* user has handed it in, and leave what names it.
SearchTyped ==
  /\ search = "shown"
  /\ search' = "none"
  /\ image' = IF image = "other" THEN "freed" ELSE image
  /\ UNCHANGED loginVars

------------------------------------------------------------------------------
(* The answers. *)

\* A nested request is answered before anything else happens, and the loop thread
\* handles one event at a time.
MayRun(e) ==
  /\ e \in ToSet(calls) \ called
  /\ IF nested THEN e = Last(calls) ELSE called = {}

\* get_login_sig and check_sig ask nothing of the answer.
Ignored(e) ==
  /\ job[e] \in {GetLoginSig, CheckSig}
  /\ UNCHANGED <<stage, stat, result, image, waiting, demanded>>

\* No answer, or one that says no; an event of get_login_sig takes the error of the
\* transfer only when it is nested, as its callback returns nothing (http.c:929-941).
Refused(e) ==
  /\ job[e] # CheckSig /\ (job[e] = GetLoginSig => nested)
  /\ result' = [result EXCEPT ![e] = "failed"]
  /\ UNCHANGED <<stage, stat, image, waiting, demanded>>

\* check_need_verify_cb; an answer that cannot be read leaves need_vf to chance, and
\* ends the program when it is neither 0 nor 1.
NeedVerify(e) ==
  /\ job[e] = CheckNeedVerify
  /\ demanded' \in BOOLEAN
  /\ stage' = IF demanded' THEN stage + 1 ELSE stage + 2
  /\ UNCHANGED <<stat, result, image, waiting>>

\* get_verify_image_cb.
ImageShown(e) ==
  /\ job[e] = GetVerifyImage
  /\ image' = "own" /\ waiting' = TRUE
  /\ stage' = stage + 1
  /\ result' = [result EXCEPT ![e] = "need_vc"]
  /\ UNCHANGED <<stat, demanded>>

\* do_login_cb and set_online_status_cb.
Accepted(e) ==
  /\ job[e] \in {DoLogin, SetOnlineStatus}
  /\ stage' = stage + 1
  /\ stat' = IF job[e] = SetOnlineStatus THEN "online" ELSE stat
  /\ UNCHANGED <<result, image, waiting, demanded>>

\* set_online_status_cb finds retcode 0 and no result: the stage will be repeated.
NoResult(e) ==
  /\ job[e] = SetOnlineStatus
  /\ UNCHANGED <<stage, stat, result, image, waiting, demanded>>

Answered(e) ==
  \/ Ignored(e) \/ Refused(e) \/ NeedVerify(e) \/ ImageShown(e) \/ Accepted(e)

\* The callback of the request, before the event is finished.
Callback(e) ==
  /\ MayRun(e)
  /\ Answered(e) \/ NoResult(e)
  /\ called' = called \cup {e}
  /\ UNCHANGED <<alive, ev, calls, nested, job, search, sent, misused>>

\* The events in flight without e.
Without(e) == RemoveAt(calls, CHOOSE i \in DOMAIN calls : calls[i] = e)

\* The listener of the event, or what follows a nested submission.
Finish(e) ==
  /\ e \in called
  /\ nested => e = Last(calls)
  /\ called' = called \ {e}
  /\ UNCHANGED <<nested, waiting, search, demanded>>
  /\ IF alive
       THEN DoLoginStage(IF nested THEN e ELSE ev, Without(e)) /\ UNCHANGED misused
       ELSE /\ misused' = TRUE
            /\ calls' = Without(e)
            /\ UNCHANGED <<alive, stage, ev, job, result, image, stat, sent>>

------------------------------------------------------------------------------
Loop == \E e \in Events : Callback(e) \/ Finish(e)

Search == AskSearch \/ SearchAnswered \/ SearchTyped

Next ==
  \/ Login \/ Logout \/ Search
  \/ called = {} /\ Answer
  \/ Loop

\* Requests are answered, a user who is asked for a code again and again hands one in,
\* and the server does not answer without a result for ever.
Fairness ==
  /\ WF_vars(Loop)
  /\ SF_vars(called = {} /\ Answer)
  /\ SF_vars(\E e \in Events : Answered(e) /\ Callback(e))

Spec == Init /\ [][Next]_vars /\ Fairness

HastySpec == Init /\ [][Login \/ Logout \/ Search \/ Answer \/ Loop]_vars

------------------------------------------------------------------------------
(* Properties. *)

TypeOK ==
  /\ alive \in BOOLEAN
  /\ stage \in 0..Done
  /\ ev \in Events \cup {None}
  /\ calls \in Seq(Events)
  /\ nested \in BOOLEAN
  /\ job \in [Events -> 0..SetOnlineStatus]
  /\ result \in [Events -> Results]
  /\ called \subseteq ToSet(calls)
  /\ image \in {"none", "own", "old", "other", "freed"}
  /\ waiting \in BOOLEAN
  /\ search \in {"none", "asked", "shown"}
  /\ stat \in {"online", "logout"}
  /\ demanded \in BOOLEAN
  /\ sent \in {"none", "server", "typed", "old", "other", "freed"}
  /\ misused \in BOOLEAN

\* do_login_stage is run once for every answer, by the listener or by the code and not
\* by both (login.c:664-680): one thing at a time moves a login on, a request or a code
\* that the user owes, and none is left when the login is over.
OneMove ==
  LET moves == {e \in ToSet(calls) : ~(e \in called /\ result[e] = "need_vc")}
  IN  /\ waiting => moves = {}
      /\ \A d, e \in moves : d = e
      /\ alive <=> waiting \/ moves # {}

\* Nobody uses the LoginStage after the login was reported (login.c:683-690), so it
\* is reported and freed once.
StageOutlivesUse == ~misused

\* do_login would send what the user typed when this login asked for a code, and what
\* the server said when it did not (login.c:205-211, 238-245).  It does not: the image
\* may be of a search, freed by it, or of a login that was given up.
RightCode ==
  \A e \in ToSet(calls) : job[e] = DoLogin => sent = IF demanded THEN "typed" ELSE "server"

\* A login ends: the trigger that lwqq_login returned is finished.
LoginEnds == alive ~> ~alive
==============================================================================
