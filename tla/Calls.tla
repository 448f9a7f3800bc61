------------------------------- MODULE Calls -------------------------------
(***************************************************************************)
(* The functions of info.c and msg.c that need several requests, while     *)
(* their caller waits for one event: those that ask the user for a code    *)
(* first (internal.c), the one that asks a friend's permission first, and  *)
(* lwqq_msg_send, which uploads the pictures of a message before it sends  *)
(* the message.  Callbacks run on the dispatching thread; the requests of  *)
(* different calls overlap, and each is answered or fails (HttpQueue).     *)
(* Events and chains are those of module AsyncEvset, with synced off.      *)
(***************************************************************************)
EXTENDS Integers, Sequences, FiniteSets

CONSTANTS Calls, Pictures,
          RetryValue,   \* LWQQ_RETRY_VALUE, config.h
          MaxWritten    \* bound: messages that others write in the group

ASSUME CallConstants ==
    /\ IsFiniteSet(Calls) /\ "sig" \notin Pictures
    /\ RetryValue \in Nat /\ MaxWritten \in Nat

VARIABLES
    call,       \* the calls, with their messages
    commands,   \* of the event that is finishing: the commands left to run
    sig,        \* lc->gface_sig is known
    running,    \* msg_list->running
    lastSeq,    \* last_seq of the group
    number,     \* the number of the group's last message at the server
    incoming,   \* numbers of messages of others, on their way
    written,    \* bound: messages of others
    astray      \* history: a message of the group failed, or crossed another

vars == <<call, commands, sig, running, lastSeq, number, incoming, written, astray>>
group == <<lastSeq, number, incoming, written, astray>>

WithCode == {"search_friend", "search_group", "add_group", "create_discu"}
Kinds == WithCode \cup {"add_member", "send", "single", "file", "send_file"}
PictureTypes == {"none", "cface", "offpic"}

(* Of a call: what it is; how far; the event the caller waits for; the     *)
(* discussion it makes, or the friend or file it was given.  Of a message: *)
(* to whom; its pictures, with the state of their data; upload_retry; the  *)
(* requests in its event set; and as history, the uploads made of each     *)
(* picture, up to RetryValue + 1, and whether the signature was asked for  *)
(* in vain.                                                                *)
Unused == [kind |-> "none", at |-> "unused", event |-> "none", object |-> "none",
           to |-> "buddy", type |-> [p \in Pictures |-> "none"],
           pic |-> [p \in Pictures |-> "none"], retry |-> RetryValue,
           set |-> {}, tries |-> [p \in Pictures |-> 0], unsigned |-> FALSE]

CallType ==
    [kind : Kinds \cup {"none"},
     at : {"unused", "captcha", "shown", "allow", "uploading", "delay", "request",
           "served", "ended", "forgotten", "refused", "crashed"},
     event : {"none", "waiting", "ok", "failed"},
     object : {"none", "held", "listed", "freed", "uploaded"},
     to : {"buddy", "group"},
     type : [Pictures -> PictureTypes],
     pic : [Pictures -> {"none", "fresh", "uploaded", "told"}],
     retry : -2..RetryValue,
     set : SUBSET (Pictures \cup {"sig"}),
     tries : [Pictures -> 0..(RetryValue + 1)],
     unsigned : BOOLEAN]

TypeOK ==
    /\ call \in [Calls -> CallType]
    /\ commands \in Seq({"do_create_discu", "on_chain"} \X Calls \X {"ok", "failed"})
    /\ sig \in BOOLEAN /\ running \in BOOLEAN /\ astray \in BOOLEAN
    /\ lastSeq \in Nat /\ number \in Nat /\ written \in 0..MaxWritten
    /\ incoming \in Seq(Nat)

Init ==
    /\ call = [c \in Calls |-> Unused]
    /\ commands = <<>> /\ sig = FALSE /\ running = TRUE
    /\ lastSeq = 0 /\ number = 1 /\ incoming = <<>>
    /\ written = 0 /\ astray = FALSE

Idle == commands = <<>>      \* of the dispatching thread
Alive == \A c \in Calls : call[c].at /= "crashed"
Moves(c, at) == call' = [call EXCEPT ![c].at = at]
Ends(c, result) ==
    [call EXCEPT ![c].at = "ended", ![c].event = result]

-----------------------------------------------------------------------------
(* A code from the user first. *)

(* lwqq__request_captcha *)
RequestCaptcha(c, kind) ==
    /\ call[c].at = "unused"
    /\ call' = [call EXCEPT ![c].kind = kind, ![c].at = "captcha",
                            ![c].event = "waiting"]
    /\ UNCHANGED <<commands, sig, running, group>>

SearchFriend(c) == RequestCaptcha(c, "search_friend")
SearchGroupByQq(c) == RequestCaptcha(c, "search_group")
AddGroup(c) == RequestCaptcha(c, "add_group")
CreateDiscu(c) == RequestCaptcha(c, "create_discu")

(* The image of the code is shown (need_verify); if it did not come, the   *)
(* command that was to use the code is dropped with it.                    *)
RequestCaptchaBack(c) ==
    /\ Idle /\ call[c].at = "captcha"
    /\ \E at \in {"shown", "forgotten"} : Moves(c, at)
    /\ UNCHANGED <<commands, sig, running, group>>

(* The stages that follow, with code->str or without. *)
AddFriendStage2(c, code) ==
    /\ call[c].kind = "search_friend"
    /\ IF code THEN Moves(c, "request") ELSE call' = Ends(c, "failed")
AddGroupStage1(c, code) ==
    /\ call[c].kind = "search_group"
    /\ Moves(c, IF code THEN "request" ELSE "forgotten")
AddGroupStage4(c, code) ==
    /\ call[c].kind = "add_group"
    /\ IF code THEN Moves(c, "request") ELSE call' = Ends(c, "failed")
CreateDiscuStage2(c, code) ==
    /\ call[c].kind = "create_discu"
    /\ IF code
       THEN call' = [call EXCEPT ![c].at = "request", ![c].object = "held"]
       ELSE call' = Ends(c, "failed")

UserAnswers(c) ==
    /\ call[c].at = "shown"
    /\ \E code \in BOOLEAN :
         \/ AddFriendStage2(c, code) \/ AddGroupStage1(c, code)
         \/ AddGroupStage4(c, code) \/ CreateDiscuStage2(c, code)
    /\ UNCHANGED <<commands, sig, running, group>>

-----------------------------------------------------------------------------
(* A friend from a group: whether he allows it, then the request. *)

AddGroupMemberAsFriend(c) ==
    /\ call[c].at = "unused"
    /\ call' = [call EXCEPT ![c].kind = "add_member", ![c].at = "allow",
                            ![c].event = "waiting", ![c].object = "held"]
    /\ UNCHANGED <<commands, sig, running, group>>

AddGroupMemberStage2(c) ==
    /\ Idle /\ call[c].at = "allow"
    /\ \/ Moves(c, "request")
       \/ call' = [Ends(c, "failed") EXCEPT ![c].object = "freed"]
    /\ UNCHANGED <<commands, sig, running, group>>

-----------------------------------------------------------------------------
(* One request, whose answer is the result. *)

Single(c, kind, object) ==
    /\ call[c].at = "unused"
    /\ call' = [call EXCEPT ![c].kind = kind, ![c].at = "request",
                            ![c].event = "waiting", ![c].object = object]
    /\ UNCHANGED <<commands, sig, running, group>>

AddFriend(c) == Single(c, "single", "none")
AnswerRequestFriend(c) == Single(c, "single", "none")
AnswerRequestJoinGroup(c) == Single(c, "single", "none")
RefuseFile(c) == Single(c, "single", "none")
(* lwqq_msg_input_notify, shake_window, friend_history, group_history and  *)
(* remove_uploaded_cface                                                   *)
Notify(c) == Single(c, "single", "none")

(* An off-line file is uploaded, and then offered to the friend: by the    *)
(* application, which is to look at the result first (msg.h:477).          *)
UploadOfflineFile(c) == Single(c, "file", "held")
SendOfffile(c) ==
    /\ call[c].kind = "file" /\ call[c].event = "ok"
    /\ call' = [call EXCEPT ![c].kind = "send_file", ![c].at = "request",
                            ![c].event = "waiting"]
    /\ UNCHANGED <<commands, sig, running, group>>

-----------------------------------------------------------------------------
(* Sending a message. *)

(* The pictures that are uploaded in this attempt. *)
WillUpload(m) ==
    {p \in Pictures : m.retry >= 0 /\ m.pic[p] = "fresh"}

(* Variant: only one message at a time asks for the signature. *)
QueryUnlessAsked(m) ==
    /\ m.to /= "buddy" /\ ~sig
    /\ \E p \in WillUpload(m) : m.type[p] = "cface"
    /\ \A c \in Calls : "sig" \notin call[c].set

(* query_gface_sig, for custom faces of a group *)
ShouldQueryGface(m) ==
    /\ m.to /= "buddy" /\ ~sig
    /\ \E p \in WillUpload(m) : m.type[p] = "cface"

(* Variant: the message is numbered for a friend too. *)
IncreAlways(m) == lastSeq /= 0

(* lwqq_msg_incre_seq *)
IncreSeq(m) == m.to = "group" /\ lastSeq /= 0

(* content_parse_string: the faces that have a name, and of these there    *)
(* are some.                                                               *)
HasCface(m) ==
    \E p \in Pictures : m.type[p] = "cface" /\ m.pic[p] = "uploaded"

(* Variant: an attempt is not counted. *)
NotCounted(m) == m

(* mmsg->upload_retry--, also when nothing is uploaded *)
Counted(m) == [m EXCEPT !.retry = @ - 1]

(* lwqq_msg_send of a message m of call c, which is at `nowhere' if there  *)
(* is no event to return.                                                  *)
MsgSend(c, m, nowhere) ==
    LET up == WillUpload(m)
        less == Counted(m)
    IN  /\ call' = [call EXCEPT ![c] =
             CASE up /= {} ->
                    [less EXCEPT !.at = "uploading", !.event = "waiting",
                       !.set = up \cup (IF ShouldQueryGface(m) THEN {"sig"} ELSE {}),
                       !.tries = [p \in Pictures |->
                         @[p] + IF p \in up /\ @[p] <= RetryValue THEN 1 ELSE 0]]
               [] up = {} /\ running ->
                    [less EXCEPT !.at = "request", !.event = "waiting"]
               [] OTHER -> [less EXCEPT !.at = nowhere]]
        /\ IF up = {} /\ running
           THEN /\ lastSeq' = IF IncreSeq(m) THEN lastSeq + 1 ELSE lastSeq
                /\ astray' = (astray \/ (m.to = "group" /\ incoming /= <<>>))
           ELSE UNCHANGED <<lastSeq, astray>>
        /\ UNCHANGED <<commands, sig, running, number, incoming, written>>

Send(c) ==
    /\ call[c].at = "unused"
    /\ \E to \in {"buddy", "group"}, type \in [Pictures -> PictureTypes] :
         MsgSend(c, [Unused EXCEPT !.kind = "send", !.to = to, !.type = type,
                       !.pic = [p \in Pictures |->
                                  IF type[p] = "none" THEN "none" ELSE "fresh"]],
                 "refused")

(* Variant: the delay begins with the first answer. *)
AnyAnswer(c, r) == TRUE

(* The event set of the uploads fires with its last event, and the delay   *)
(* of msg_send_delay begins.                                               *)
LastAnswer(c, r) == call[c].set = {r}

Answered(c, r, m) ==
    call' = [call EXCEPT ![c] = [m EXCEPT !.set = @ \ {r},
               !.at = IF LastAnswer(c, r) THEN "delay" ELSE @]]

(* upload_offline_pic_back: uploaded, uploaded with no path to it, which   *)
(* is announced by upload_fail, or neither, and the data is kept.          *)
UploadOfflinePicBack(c) == {"uploaded", "told", "fresh"}

(* upload_cface_back: uploaded, or announced and given up. *)
UploadCfaceBack(c) == {"uploaded", "told"}

UploadBack(c, p) ==
    /\ Idle /\ p \in call[c].set
    /\ \E now \in IF call[c].type[p] = "offpic" THEN UploadOfflinePicBack(c)
                  ELSE UploadCfaceBack(c) :
         Answered(c, p, [call[c] EXCEPT !.pic[p] = now])
    /\ UNCHANGED <<commands, sig, running, group>>

ProcessGfaceSig(c) ==
    /\ Idle /\ "sig" \in call[c].set
    /\ \/ sig' = TRUE /\ Answered(c, "sig", call[c])
       \/ sig' = sig /\ Answered(c, "sig", [call[c] EXCEPT !.unsigned = TRUE])
    /\ UNCHANGED <<commands, running, group>>

(* After the delay the message is sent again, and that event is chained to *)
(* the one the caller has; there is none if the poll stopped meanwhile,    *)
(* and lwqq_async_add_event_chain reads through the null pointer.          *)
MsgSendContinue(c) ==
    Idle /\ call[c].at = "delay" /\ MsgSend(c, call[c], "crashed")

(* msg_list->running, which module PollSession is about. *)
PollStopsOrStarts ==
    running' = ~running /\ UNCHANGED <<call, commands, sig, group>>

-----------------------------------------------------------------------------
(* The last request of a call. *)

InGroup(c) == call[c].kind = "send" /\ call[c].to = "group"

(* The server serves it; a message of the group gets the next number. *)
Serve(c) ==
    /\ call[c].at = "request" /\ Moves(c, "served")
    /\ number' = IF InGroup(c) THEN number + 1 ELSE number
    /\ UNCHANGED <<commands, sig, running, lastSeq, incoming, written, astray>>

(* Variant: the caller is told first. *)
ToldFirst(c, result) ==
    <<<<"on_chain", c, result>>>>
    \o (IF call[c].kind = "create_discu"
        THEN <<<<"do_create_discu", c, result>>>> ELSE <<>>)

(* The commands of its event, in the order they were added. *)
CommandsOf(c, result) ==
    (IF call[c].kind = "create_discu"
     THEN <<<<"do_create_discu", c, result>>>> ELSE <<>>)
    \o <<<<"on_chain", c, result>>>>

(* upload_offline_file_back: the file has a path at the server now. *)
ObjectAfter(c, result) ==
    IF call[c].kind = "file" /\ result = "ok" THEN "uploaded" ELSE call[c].object

RequestBack(c) ==
    /\ Idle /\ call[c].at \in {"request", "served"}
    /\ \E result \in {"failed"} \cup (IF call[c].at = "served" THEN {"ok"} ELSE {}) :
         /\ commands' = CommandsOf(c, result)
         /\ call' = [call EXCEPT ![c].at = "ended",
                                 ![c].object = ObjectAfter(c, result)]
    /\ astray' = (astray \/ (InGroup(c) /\ call[c].at = "request"))
    /\ UNCHANGED <<sig, running, lastSeq, number, incoming, written>>

(* do_create_discu *)
DoCreateDiscu(c, result) ==
    call' = [call EXCEPT ![c].object = IF result = "ok" THEN "listed" ELSE "freed"]

(* on_chain: the event of the caller finishes. *)
OnChain(c, result) == call' = Ends(c, result)

RunCommand ==
    /\ commands /= <<>> /\ commands' = Tail(commands)
    /\ LET c == Head(commands)[2]
           result == Head(commands)[3]
       IN  \/ Head(commands)[1] = "do_create_discu" /\ DoCreateDiscu(c, result)
           \/ Head(commands)[1] = "on_chain" /\ OnChain(c, result)
    /\ UNCHANGED <<sig, running, group>>

-----------------------------------------------------------------------------
(* Others write in the group, and the application looks at their numbers.  *)

MemberWrites ==
    /\ written < MaxWritten /\ written' = written + 1
    /\ number' = number + 1 /\ incoming' = Append(incoming, number')
    /\ astray' = (astray \/ \E c \in Calls : InGroup(c) /\ call[c].at = "request")
    /\ UNCHANGED <<call, commands, sig, running, lastSeq>>

(* lwqq_msg_check_lost *)
CheckLost(seq) ==
    lastSeq' = IF lastSeq /= 0 /\ lastSeq + 1 > seq THEN lastSeq ELSE seq
ReadMessage ==
    /\ running /\ incoming /= <<>>
    /\ CheckLost(Head(incoming)) /\ incoming' = Tail(incoming)
    /\ UNCHANGED <<call, commands, sig, running, number, written, astray>>

-----------------------------------------------------------------------------
Begins(c) ==
    \/ SearchFriend(c) \/ SearchGroupByQq(c) \/ AddGroup(c) \/ CreateDiscu(c)
    \/ AddGroupMemberAsFriend(c) \/ Send(c)
    \/ AddFriend(c) \/ AnswerRequestFriend(c) \/ AnswerRequestJoinGroup(c)
    \/ RefuseFile(c) \/ Notify(c) \/ UploadOfflineFile(c) \/ SendOfffile(c)
Proceeds(c) ==
    \/ RequestCaptchaBack(c) \/ UserAnswers(c) \/ AddGroupMemberStage2(c)
    \/ \E p \in Pictures : UploadBack(c, p)
    \/ ProcessGfaceSig(c) \/ MsgSendContinue(c) \/ RequestBack(c)

Next ==
    /\ Alive
    /\ \/ \E c \in Calls : Begins(c) \/ Proceeds(c) \/ Serve(c)
       \/ RunCommand \/ PollStopsOrStarts \/ MemberWrites \/ ReadMessage

(* Every request is answered or fails, the user answers, timers expire and *)
(* the thread runs the commands of a finished event.  No request need      *)
(* succeed, and nobody need make a call.                                   *)
Fairness ==
    /\ \A c \in Calls : WF_vars(Alive /\ Proceeds(c))
    /\ WF_vars(Alive /\ RunCommand)

Spec == Init /\ [][Next]_vars /\ Fairness

-----------------------------------------------------------------------------
(* Properties. *)

OnItsWay(c) == call[c].kind = "send" /\ call[c].at \in {"request", "served", "ended"}

(* A message goes out when each of its pictures is uploaded, was announced *)
(* as failed, or failed in every attempt that upload_retry allows: not     *)
(* while an upload is under way, and not before the last attempt.          *)
PicturesSettled ==
    \A c \in Calls : OnItsWay(c) =>
       /\ call[c].set = {}
       /\ \A p \in Pictures :
            call[c].pic[p] = "fresh" => call[c].tries[p] = RetryValue + 1

(* A message with custom faces goes to a group with the signature they     *)
(* need, unless it was asked for in vain, also when messages overlap.      *)
FacesSigned ==
    \A c \in Calls :
       /\ OnItsWay(c) /\ call[c].to = "group" /\ ~call[c].unsigned
       /\ HasCface(call[c])
       => sig

(* Who made a discussion finds it in the list when his event finishes, and *)
(* a discussion that was not made is freed by then.                        *)
ListedWhenTold ==
    \A c \in Calls : call[c].kind = "create_discu" =>
       /\ call[c].event = "ok" => call[c].object = "listed"
       /\ call[c].event = "failed" => call[c].object \in {"none", "freed"}

(* The group's number here and at the server are the same when no message  *)
(* is on its way, so that check_lost tells a gap from the messages sent    *)
(* from here; unless one failed, or crossed one that somebody wrote.       *)
NumbersAgree ==
    /\ ~astray /\ incoming = <<>>
    /\ \A c \in Calls : InGroup(c) => call[c].at /= "request"
    => lastSeq \in {0, number}

(* Every call ends: the event its caller waits for finishes however often  *)
(* uploads fail; but for the two ways to drop it that NothingForgotten     *)
(* is about, and the crash that NeverCrashes is about.                     *)
CallEnds ==
    \A c \in Calls :
       call[c].event = "waiting" ~>
          \/ call[c].event /= "waiting" \/ call[c].at = "forgotten" \/ ~Alive

(* info.h:188, of lwqq_info_search_group_by_qq, "just like search_friend": *)
(* that one finishes its event if the user gives no code.  Violated.       *)
NoCodeEnds ==
    [][\A c \in Calls : UserAnswers(c) => call'[c].at /= "forgotten"]_vars

(* By hand (CallsImage.cfg): no call is dropped.  The image of the code    *)
(* need not come.                                                          *)
NothingForgotten == \A c \in Calls : call[c].at /= "forgotten"

(* By hand (CallsCrash.cfg): msg.h:407, "return a async event. you can     *)
(* wait it": a message with a picture whose poll stops while it is         *)
(* uploaded makes a chain with no event.                                   *)
NeverCrashes == Alive

(* type.h:368, "this is upload content failed such as lwqq offline pic":   *)
(* by hand (CallsUpload.cfg), a picture that is not uploaded when its      *)
(* message goes out was announced.  An off-line picture whose requests all *)
(* fail is not.                                                            *)
FailureAnnounced ==
    \A c \in Calls, p \in Pictures : OnItsWay(c) => call[c].pic[p] /= "fresh"

(* info.h:238, "if successed. mem_detail would added into LwqqClient, if   *)
(* failed. it would be freed by lwqq": by hand (CallsMember.cfg), neither  *)
(* happens once the permission was asked.                                  *)
MemberPlaced ==
    \A c \in Calls : call[c].kind = "add_member" =>
       /\ call[c].event = "ok" => call[c].object = "listed"
       /\ call[c].event = "failed" => call[c].object = "freed"

(* msg.h:440, "-1 --> duplicate message": by hand (CallsRepeat.cfg), what  *)
(* somebody else writes is not taken for repeated.  A message from here is *)
(* numbered before it is sent, and may fail or cross another.              *)
NewIsNew ==
    [][ReadMessage => lastSeq < Head(incoming)]_vars
=============================================================================
