------------------------------- MODULE Details -------------------------------
(***************************************************************************)
(* What a client knows of its friends, groups and discussions, and the     *)
(* requests of info.c that ask for it or change it.  Every such function   *)
(* sends one request and returns its event; what is known changes when the *)
(* answer is handled, on the dispatching thread.  Requests overlap, and    *)
(* the server serves and answers them in any order.                        *)
(*                                                                         *)
(* A field of a contact holds the number of the change that gave it its    *)
(* value, 0 if it is not known; the members of a group are a set.  Who is  *)
(* listed at all, and the life of the contacts, is in module Contacts; the *)
(* members of a group are freed and made anew whenever its details come.   *)
(***************************************************************************)
EXTENDS Naturals, FiniteSets, Functions

CONSTANTS Buddies, Quns, Discus,   \* the contacts that are listed
          People,                  \* who can be in a group
          Myself,                  \* lc->myself
          MaxCalls,                \* bound: requests of the application
          MaxOthers,               \* bound: changes somebody else makes
          Slots                    \* bound: requests under way together

ASSUME DetailsAssumption == MaxCalls \in Nat /\ MaxOthers \in Nat

Groups == Quns \cup Discus
Field(names, contacts) == names \X contacts
BuddyFields == Field({"mark", "category", "status", "detail", "number",
                      "level", "long_nick", "avatar"}, Buddies)
QunFields == Field({"mark", "mask", "members", "info", "number", "memo",
                    "card", "avatar"}, Quns)
DiscuFields == Field({"topic", "mask", "members", "seq"}, Discus)
MemberFields == Field({"sig"}, Groups \X People)
SelfFields == Field({"status", "long_nick", "recent"}, {Myself})
Fields == BuddyFields \cup QunFields \cup DiscuFields \cup MemberFields
          \cup SelfFields

Members(g) == <<"members", g>>
Seq(g) == <<"seq", g>>

VARIABLES
    there,    \* the fields at the server
    here,     \* the fields of LwqqBuddy, LwqqGroup, LwqqClient
    request,  \* the requests under way, by slot
    changes,  \* the number of changes so far
    calls,    \* bound: calls made by the application
    others,   \* bound: changes made by others
    clash     \* history: fields of which the client cannot know the value

vars == <<there, here, request, changes, calls, others, clash>>

(* A value for one field, and new values over those that were there before. *)
(* (\E new \in {...} binds the new values, so that TLC computes them once.) *)
One(f, v) == [x \in {f} |-> v]
Over(new, old) ==
    IF DOMAIN new = {} THEN old
    ELSE [x \in DOMAIN new \cup DOMAIN old |->
             IF x \in DOMAIN new THEN new[x] ELSE old[x]]

(* A request: the fields it sets at the server, the people it adds to a    *)
(* discussion, from a group or (Myself) from the friends, the fields whose *)
(* values it brings back, the fields that its callback sets after a        *)
(* success, and whether the member that its callback writes to was freed.  *)
(* The events that callbacks run for their listeners are left out.         *)
Empty == [f \in {} |-> 0]
Quiet == [on |-> Myself, sets |-> Empty, adds |-> {}, from |-> Myself, reads |-> {},
          keeps |-> Empty, answer |-> Empty, freed |-> FALSE, at |-> "idle"]
Busy(s) == request[s].at /= "idle"

Touches(r) == DOMAIN r.sets \cup r.reads

TypeOK ==
    LET Value(f) == IF f[1] = "members" THEN SUBSET People ELSE 0..changes
        Valued(v) == /\ DOMAIN v \subseteq Fields
                     /\ \A f \in DOMAIN v : v[f] \in Value(f)
    IN  /\ DOMAIN there = Fields /\ Valued(there)
        /\ DOMAIN here = Fields /\ Valued(here)
        /\ \A s \in Slots : LET r == request[s]
              IN  /\ Valued(r.sets) /\ Valued(r.keeps) /\ Valued(r.answer)
                  /\ r.reads \subseteq Fields /\ r.adds \subseteq People
                  /\ r.from \in Quns \cup {Myself} /\ r.freed \in BOOLEAN
                  /\ r.at \in {"idle", "sent", "ok", "failed"}
        /\ calls \in 0..MaxCalls /\ others \in 0..MaxOthers
        /\ clash \subseteq Fields

(* A client before the first load; People are those who come and go.       *)
Init ==
    /\ \E who \in SUBSET People :
          there = [f \in Fields |-> IF f[1] = "members" THEN who ELSE 1]
    /\ here = [f \in Fields |-> IF f[1] = "members" THEN {} ELSE 0]
    /\ request = [s \in Slots |-> Quiet]
    /\ changes = 1 /\ calls = 0 /\ others = 0 /\ clash = {}

-----------------------------------------------------------------------------
(* Sending a request. *)

FreeSlot == CHOOSE s \in Slots : ~Busy(s)
Submit(r) ==
    /\ \E s \in Slots : ~Busy(s)
    /\ request' = [request EXCEPT ![FreeSlot] = [r EXCEPT !.at = "sent"]]
    /\ UNCHANGED <<there, here, others, clash>>
Ask(on, names) ==
    /\ Submit([Quiet EXCEPT !.on = on, !.reads = Field(names, {on})])
    /\ UNCHANGED changes
AskAll(fields) ==
    Submit([Quiet EXCEPT !.reads = fields]) /\ UNCHANGED changes

(* A change to a fresh value, kept by the callback if keep holds. *)
Fresh == changes + 1
Change(on, name, keep) ==
    /\ Submit([Quiet EXCEPT !.on = on, !.sets = One(<<name, on>>, Fresh),
                  !.keeps = IF keep THEN One(<<name, on>>, Fresh) ELSE Empty])
    /\ changes' = Fresh

(* The lists of info.c that carry fields: do_get_friends_info and          *)
(* parse_marknames_child, parse_friends_child; parse_groups_gmasklist_child *)
(* and parse_groups_gmarklist_child; parse_discus_discu_child.             *)
GetFriendsInfo == AskAll(Field({"mark", "category"}, Buddies))
GetGroupNameList == AskAll(Field({"mask", "mark"}, Quns))
GetDiscuNameList == AskAll(Field({"topic", "mask"}, Discus))

(* ... the answer of this one names those who are online *)
GetOnlineBuddies == \E named \in SUBSET Buddies : AskAll(Field({"status"}, named))

(* Questions about one contact. *)
GetFriendDetailInfo(b) == Ask(b, {"detail", "status", "number"})
GetStrangerInfo(b) == Ask(b, {"detail", "status", "number"})
GetQqnumber(c) == Ask(c, {"number"})
GetAvatar(c) == Ask(c, {"avatar"})
GetLevel(b) == Ask(b, {"level"})
GetSingleLongNick(b) == Ask(b, {"long_nick"})
GetStrangerInfoByMsg(b) == Ask(b, {"detail", "status", "number"})
GetGroupMemo(g) == Ask(g, {"memo"})
GetGroupPublicInfo(g) == Ask(g, {"info"})
RecentList == Ask(Myself, {"recent"})
GetSelfCard(g) == Ask(g, {"card"})
(* ... about a member that is known; that group->group_sig is looked at    *)
(* first stops nothing, for no code sets it                                *)
GetGroupSig(g, p) == p \in here[Members(g)] /\ Ask(<<g, p>>, {"sig"})

(* lwqq_info_get_group_detail_info: the answer of a discussion says its    *)
(* number, that of a group has none.                                       *)
DetailFields(g) == IF g \in Discus THEN {"topic", "members", "seq"}
                   ELSE {"info", "members"}
GetGroupDetailInfo(g) == Ask(g, DetailFields(g))

(* Changes of one field. *)
ChangeBuddyMarkname(b) == Change(b, "mark", TRUE)
ChangeGroupMarkname(g) == Change(g, "mark", TRUE)
ChangeDiscuTopic(d) == Change(d, "topic", TRUE)
ChangeStatus == Change(Myself, "status", TRUE)
SetSelfLongNick == Change(Myself, "long_nick", TRUE)
SetSelfCard(g) == Change(g, "card", FALSE)

(* ... into a category of lc->categories, or into none *)
ModifyBuddyCategory(b) == Change(b, "category", TRUE)

(* lwqq_info_mask_group: the request carries the masks of all groups of    *)
(* the kind, as they are known now.                                        *)
SameKind(g) == IF g \in Quns THEN Quns ELSE Discus
Masks(g) ==
    [f \in Field({"mask"}, SameKind(g)) |->
        IF f[2] = g THEN Fresh ELSE here[f]]
MaskGroup(g) ==
    /\ Submit([Quiet EXCEPT !.on = g, !.sets = Masks(g),
                            !.keeps = One(<<"mask", g>>, Fresh)])
    /\ changes' = Fresh

(* lwqq_info_change_discu_mem adds friends, or known members of a group.   *)
ChangeDiscuMem(d, from, who) ==
    /\ from \in Quns => who \subseteq here[Members(from)]
    /\ Submit([Quiet EXCEPT !.on = d, !.adds = who, !.from = from])
    /\ UNCHANGED changes

Call(A) == A /\ calls < MaxCalls /\ calls' = calls + 1

-----------------------------------------------------------------------------
(* What the callbacks take from a request. *)

(* Variant: what was asked for is kept although it was refused. *)
KeepsRefused(r) == r.keeps

(* do_change_markname, do_rename_discu, do_modify_category,                *)
(* do_change_status, do_mask_group, do_modify_longnick: what was asked for *)
(* becomes the value after a success.                                      *)
Kept(r) == IF r.at = "ok" THEN r.keeps ELSE Empty

(* process_qqnumber, process_qq_level and get_discu_detail_info_back look  *)
(* at the result and not at the retcode.                                   *)
Heedless(r) ==
    \A f \in r.reads : \/ f[1] \in {"number", "level"}
                       \/ f \in Field({"topic", "members", "seq"}, Discus)

(* process_friend_detail, process_qqnumber, group_detail_back, ...: the    *)
(* values of the answer, when the callback takes them.                     *)
Learned(r) ==
    IF ~r.freed /\ (r.at = "ok" \/ (r.at = "failed" /\ Heedless(r)))
    THEN r.answer ELSE Empty

-----------------------------------------------------------------------------
(* The server. *)

(* Any change of a discussion gives its information the next number. *)
Renumbered(fields) ==
    [f \in {Seq(d) : d \in {x \in Discus :
               fields \cap {<<"topic", x>>, Members(x)} /= {}}} |-> Fresh]

(* What the callback of a request that was served is about to write, or    *)
(* need not, as it is known.                                               *)
Pending(r) ==
    (IF r.at = "ok" THEN DOMAIN r.sets ELSE {}) \cup DOMAIN Learned(r)

(* A request sets what another one, that was served and whose callback has *)
(* not run, has set or read: the callbacks may run in the other order.  Or *)
(* it sets a field that it only carries along to what is no longer known.  *)
Overtaken(s) ==
    {f \in DOMAIN request[s].sets :
        \/ \E t \in Slots \ {s} : f \in Pending(request[t])
        \/ f \notin DOMAIN request[s].keeps /\ request[s].sets[f] /= here[f]}

(* ... or it reads the members that the callback of another one adds to. *)
Joining(s) ==
    {Members(d) : d \in {x \in Discus :
        /\ Members(x) \in request[s].reads
        /\ \E t \in Slots \ {s} : LET r == request[t]
              IN  r.on = x /\ r.adds /= {} /\ r.at = "ok"}}

(* The request is served; its answer may yet be lost. *)
Serve(s) ==
    LET r == request[s]
        added == IF r.adds = {} THEN Empty
                 ELSE One(Members(r.on), there[Members(r.on)] \cup r.adds)
        number == Renumbered(DOMAIN r.sets \cup DOMAIN added)
    IN  /\ r.at = "sent"
        /\ \E new \in {Over(number, Over(added, r.sets))} : there' = Over(new, there)
        /\ changes' = IF number = Empty THEN changes ELSE Fresh
        /\ \/ /\ request' = [request EXCEPT ![s].at = "ok",
                                ![s].answer = Restrict(there, r.reads)]
              /\ clash' = clash \cup Overtaken(s) \cup Joining(s)
           \/ /\ request' = [request EXCEPT ![s].at = "failed"]
              /\ clash' = clash \cup DOMAIN r.sets
    /\ UNCHANGED <<here, calls, others>>

(* The server refuses, with a result or without one, or a result that says *)
(* no level; or a connection does not come about.  (The result of a        *)
(* refusal is left out where no callback takes it.)                        *)
Results(r) ==
    {Empty} \cup
    (IF Heedless(r)
     THEN {Restrict(there, r.reads), [f \in {x \in r.reads : x[1] = "level"} |-> 0]}
     ELSE {})
Refuse(s) ==
    /\ request[s].at = "sent"
    /\ \E answer \in Results(request[s]) :
          request' = [request EXCEPT ![s].at = "failed", ![s].answer = answer]
    /\ clash' = clash \cup Joining(s)
    /\ UNCHANGED <<there, here, changes, calls, others>>

(* Somebody else changes the topic of a discussion, or who is in a group.  *)
(* What others change besides, the client sees when it asks the next time. *)
SomebodyChanges(f) ==
    /\ f \in Field({"topic"}, Discus) \cup Field({"members"}, Groups) /\ others < MaxOthers
    /\ \E v \in IF f[1] = "members" THEN SUBSET People \ {there[f]}
                ELSE {Fresh} :
          there' = Over(Renumbered({f}), [there EXCEPT ![f] = v])
    /\ changes' = Fresh /\ others' = others + 1
    /\ clash' = clash \cup ({f} \cap Field({"topic"}, Discus))
    /\ UNCHANGED <<here, request, calls>>

-----------------------------------------------------------------------------
(* The callbacks. *)

(* do_change_discu_mem: after a success, those added join the members, if  *)
(* they are still found: a friend who was not deleted (module Contacts), a *)
(* member of the group.                                                    *)
Found(r) ==
    IF r.from = Myself THEN SUBSET r.adds ELSE {r.adds \cap here[Members(r.from)]}
Joined(r, who) ==
    IF r.at = "ok" /\ r.adds /= {}
    THEN One(Members(r.on), here[Members(r.on)] \cup who) ELSE Empty

(* The details of a group free its members; the new ones have no signature *)
(* yet.                                                                    *)
MembersFreed(r) == {g \in Groups : Members(g) \in DOMAIN Learned(r)}
Forgotten(r) == [f \in Field({"sig"}, MembersFreed(r) \X People) |-> 0]

(* A signature that is written to a member that was freed is lost, or      *)
(* becomes that of another member, whose memory it is now.                 *)
Strays(r) ==
    {Empty} \cup
    (IF r.freed /\ r.at = "ok"
     THEN {One(f, r.answer[q]) :
             f \in {x \in MemberFields : x[2][2] \in here[Members(x[2][1])]},
             q \in DOMAIN r.answer \cap MemberFields}
     ELSE {})

(* What the callback of a request writes. *)
Writes(r, stray) ==
    {Over(stray, Over(Forgotten(r), Over(Kept(r), Over(Learned(r), Joined(r, who))))) :
        who \in Found(r)}

Back(s) ==
    LET r == request[s]
        freed == {t \in Slots \ {s} : request[t].reads \cap DOMAIN Forgotten(r) /= {}}
    IN  /\ r.at \in {"ok", "failed"}
        /\ \E stray \in Strays(r) :
              /\ \E new \in Writes(r, stray) : here' = Over(new, here)
              /\ clash' = clash \cup DOMAIN stray
        /\ request' = [t \in Slots |->
                IF t = s THEN Quiet
                ELSE IF t \in freed THEN [request[t] EXCEPT !.freed = TRUE]
                ELSE request[t]]
    /\ UNCHANGED <<there, changes, calls, others>>

(* Variant: the number of a message is not looked at. *)
NeverChecked(g) == FALSE

(* lwqq_msg_check_member_chg, for a message that somebody writes in g: the *)
(* details are asked for again when the message has another number than    *)
(* the details, and these were loaded.  A group's details have no number.  *)
InfoSeq(g) == IF g \in Discus THEN here[Seq(g)] ELSE 0
CheckMemberChg(g) ==
    InfoSeq(g) /= 0 /\ InfoSeq(g) /= there[Seq(g)]
MessageIn(g) ==
    CheckMemberChg(g) /\ GetGroupDetailInfo(g) /\ UNCHANGED calls

-----------------------------------------------------------------------------
CallOnBuddy(b) ==
    \/ GetFriendDetailInfo(b) \/ GetStrangerInfo(b) \/ GetStrangerInfoByMsg(b)
    \/ GetQqnumber(b) \/ GetAvatar(b) \/ GetLevel(b) \/ GetSingleLongNick(b)
    \/ ChangeBuddyMarkname(b) \/ ModifyBuddyCategory(b)
CallOnQun(g) ==
    \/ GetGroupDetailInfo(g) \/ GetQqnumber(g) \/ GetAvatar(g)
    \/ GetGroupMemo(g) \/ GetGroupPublicInfo(g)
    \/ \E p \in People : GetGroupSig(g, p)
    \/ GetSelfCard(g) \/ SetSelfCard(g)
    \/ ChangeGroupMarkname(g) \/ MaskGroup(g)
CallOnDiscu(d) ==
    \/ GetGroupDetailInfo(d) \/ MaskGroup(d) \/ ChangeDiscuTopic(d)
    \/ \E p \in People : GetGroupSig(d, p)
    \/ \E who \in SUBSET People \ {{}}, from \in Quns \cup {Myself} :
          ChangeDiscuMem(d, from, who)
CallOnClient ==
    \/ GetFriendsInfo \/ GetGroupNameList \/ GetDiscuNameList
    \/ GetOnlineBuddies \/ RecentList \/ ChangeStatus \/ SetSelfLongNick

Next ==
    \/ Call(CallOnClient)
    \/ \E b \in Buddies : Call(CallOnBuddy(b))
    \/ \E g \in Quns : Call(CallOnQun(g))
    \/ \E d \in Discus : Call(CallOnDiscu(d)) \/ MessageIn(d)
    \/ \E f \in Fields : SomebodyChanges(f)
    \/ \E s \in Slots : Serve(s) \/ Refuse(s) \/ Back(s)

(* Requests are answered (module HttpQueue), and not refused forever;      *)
(* people go on writing in a discussion.  The application owes no call.    *)
Fairness ==
    /\ SF_vars(\E s \in Slots : Serve(s) /\ request'[s].at = "ok")
    /\ \A s \in Slots : WF_vars(Back(s))
    /\ \A d \in Discus : SF_vars(MessageIn(d))

Spec == Init /\ [][Next]_vars /\ Fairness

-----------------------------------------------------------------------------
(* Properties. *)

Settled(f) == \A s \in Slots : Busy(s) => f \notin Touches(request[s])

(* What the client knows of a field is what the server has, once nothing   *)
(* is under way for it, however many requests about it overlapped: unless  *)
(* two were served before the callback of one had run, so that these may   *)
(* run in the wrong order (info.c has no way to tell), an answer to a      *)
(* change was lost, or somebody else changed it.  No callback keeps what   *)
(* was refused, or puts an answer into another field or another contact,   *)
(* and none that does not look at the retcode does harm.  (A card is the   *)
(* caller's own, and a change of it is not written back.)                  *)
InStep ==
    \A f \in Fields :
       f[1] \notin {"members", "seq", "card"} /\ Settled(f) /\ f \notin clash
       => here[f] \in {0, there[f]}

(* The members of a discussion whose details were loaded come to be what   *)
(* the server has, while people write in it, whatever detail answers       *)
(* overtake each other and whatever answers are lost (msg.c:2442): unless  *)
(* the details were read between the server's adding of people and the     *)
(* callback that adds them here.                                           *)
DiscuCatchesUp ==
    \A d \in Discus :
       <>[](\/ Members(d) \in clash \/ here[Seq(d)] = 0
            \/ here[Members(d)] = there[Members(d)])

(* info.c:1336 and 1618, "simple buddy can be safely removed".  By hand    *)
(* (add it to Details.cfg): the signature of a member was asked for, and   *)
(* its callback will write to the member that was freed.                   *)
MemberOutlivesQuery == \A s \in Slots : ~request[s].freed

(* msg.h:445, "check group member has changed by using info_seq": for      *)
(* groups too.  By hand (DetailsQun.cfg): nothing sets the number of a     *)
(* group, so its members are never asked for again.                        *)
GroupCatchesUp ==
    \A g \in Quns :
       <>[](\/ here[<<"info", g>>] = 0 \/ here[Members(g)] = there[Members(g)])

(* info.h:112, "you can call this function many times before didn't load   *)
(* list complete and only occur one real network request".  By hand        *)
(* (DetailsOnce.cfg): every call makes a request.                          *)
OneDetailRequest ==
    \A s, t \in Slots :
       /\ Busy(s) /\ Busy(t) /\ request[s].on = request[t].on
       /\ Members(request[s].on) \in request[s].reads \cap request[t].reads
       => s = t

(* By hand (DetailsMasks.cfg): masking one group leaves the masks of the   *)
(* others alone.  The second of two requests under way carries the mask of *)
(* the first group as it was before.                                       *)
OtherMasksKept ==
    [][\A s \in Slots : \A g \in Quns :
         /\ request[s].at = "sent" /\ Serve(s)
         /\ <<"mask", g>> \in DOMAIN request[s].sets
         /\ here[<<"mask", g>>] /= 0 \/ there[<<"mask", g>>] > 1
         => \/ request[s].on = g
            \/ there'[<<"mask", g>>] = there[<<"mask", g>>]]_vars
=============================================================================
