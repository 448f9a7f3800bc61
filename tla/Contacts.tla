------------------------------ MODULE Contacts ------------------------------
(***************************************************************************)
(* The friends, groups and discussions of a client, as objects: who lists  *)
(* them, who frees them, and which messages hold them.  The lists are      *)
(* loaded once by a request each (info.c), changed by messages of the      *)
(* server (msg.c: friends added and removed, a group joined or left),      *)
(* by quitting a group, and by a message whose sender is not listed: the   *)
(* message then waits for the lookups of the new object and is put into    *)
(* the message list after the object is in its list.  All handlers run on  *)
(* the dispatching thread, so each is one action; between them run the     *)
(* server and the reader of the messages.                                  *)
(*                                                                         *)
(* Several changes in one message of the server are several messages here; *)
(* names, details and members are left out (module Details), and so is the *)
(* order in which the numbered messages are read (module MessageList).     *)
(***************************************************************************)
EXTENDS Naturals, FiniteSets, Sequences, SequencesExt

CONSTANTS Buddies,       \* uins of people
          Quns,          \* gids of groups
          Discus,        \* dids of discussions
          MaxMessages,   \* bound: messages the server sends
          MaxLoads,      \* bound: requests for a list
          MaxQuits       \* bound: groups the user quits

(* The keys of the three lists are told apart; the server knows finitely   *)
(* many.  The bounds are numbers.                                          *)
ASSUME ContactsAssumption ==
    /\ MaxMessages \in Nat /\ MaxLoads \in Nat /\ MaxQuits \in Nat
    /\ Buddies \cap Quns = {} /\ Buddies \cap Discus = {} /\ Quns \cap Discus = {}
    /\ IsFiniteSet(Buddies \cup Quns \cup Discus)

Keys == Buddies \cup Quns \cup Discus
Kinds == {"buddy", "qun", "discu"}
Kind(k) == CASE k \in Buddies -> "buddy" [] k \in Quns -> "qun"
             [] OTHER -> "discu"
OfKind(kind) == {k \in Keys : Kind(k) = kind}

VARIABLES
    contact,   \* the server's view: the account's friends and groups
    news,      \* messages of the server, not yet polled
    load,      \* per kind: the list is not asked for, under way, known
    snapshot,  \* per kind: what the answer under way will say
    asked,     \* bound: the number of requests for a list
    key,       \* the objects made, each by the uin, gid or did it stands for
    freed,     \* the objects freed
    lists,     \* lc->friends, lc->groups, lc->discus; first is the newest
    message,   \* the messages made from what the poll brought
    inbox,     \* the message list
    quits      \* the requests to quit a group

vars == <<contact, news, load, snapshot, asked, key, freed, lists, message, inbox,
          quits>>
server == <<contact, news>>
loads == <<load, snapshot, asked>>
objects == <<key, freed, lists>>
messages == <<message, inbox>>

Objects == 1..Len(key)
Lookup == {"info", "number", "detail", "public", "picture"}

TypeOK ==
    /\ contact \subseteq Keys
    /\ news \in Seq([about : Keys, what : {"talk", "picture", "in", "out"}])
    /\ load \in [Kinds -> {"none", "sent", "done"}]
    /\ snapshot \in [Kinds -> SUBSET Keys]
    /\ asked \in 0..MaxLoads
    /\ key \in Seq(Keys)
    /\ freed \subseteq Objects
    /\ lists \in [Kinds -> Seq(Objects)]
    /\ message \in Seq([what : {"talk", "in", "out"}, object : Nat,
                        makes : BOOLEAN, waits : SUBSET Lookup,
                        at : {"waiting", "listed", "read"}])
    /\ inbox \in Seq(1..Len(message))
    /\ quits \in Seq([group : Objects,
                      at : {"server", "left", "failed", "answered"}])

(* A new client: the account has friends and groups, nothing is loaded. *)
Init ==
    /\ contact \in SUBSET Keys
    /\ news = <<>>
    /\ load = [kind \in Kinds |-> "none"]
    /\ snapshot = [kind \in Kinds |-> {}] /\ asked = 0
    /\ key = <<>> /\ freed = {}
    /\ lists = [kind \in Kinds |-> <<>>]
    /\ message = <<>> /\ inbox = <<>>
    /\ quits = <<>>

-----------------------------------------------------------------------------
(* Lists and lookups. *)

(* lwqq_buddy_find_buddy_by_uin, lwqq_group_find_group_by_gid: the first   *)
(* of the list with the key, 0 for none.                                   *)
FoundIn(list, k) ==
    LET at == SelectInSeq(list, LAMBDA h : key[h] = k)
    IN  IF at = 0 THEN 0 ELSE list[at]
FindBuddyByUin(uin) == FoundIn(lists["buddy"], uin)
FindGroupByGid(gid) == FoundIn(lists["qun"] \o lists["discu"], gid)
Find(k) == IF k \in Buddies THEN FindBuddyByUin(k) ELSE FindGroupByGid(k)

(* Variant: a removed contact stays in its list. *)
KeepsListed(h) == lists

(* LIST_INSERT_HEAD and LIST_REMOVE. *)
Inserted(kind, h) == [lists EXCEPT ![kind] = <<h>> \o @]
Removed(h) ==
    [kind \in Kinds |-> RemoveFirst(lists[kind], h)]

(* lwqq_buddy_new and lwqq_group_new: a fresh object for key k. *)
NewObject == Len(key) + 1

(* insert_recv_msg_with_order: a message gets its place in the list. *)
PlacesFor(m) == {InsertAt(inbox, i, m) : i \in 1..(Len(inbox) + 1)}

(* A message is made: it waits for its lookups, or is listed at once. *)
Receive(what, h, makes, waits) ==
    LET m == Len(message) + 1
        new == [what |-> what, object |-> h, makes |-> makes, waits |-> waits,
                at |-> IF waits = {} THEN "listed" ELSE "waiting"]
    IN  /\ message' = Append(message, new)
        /\ inbox' = IF waits = {} THEN Append(inbox, m) ELSE inbox

-----------------------------------------------------------------------------
(* The server. *)

MayTell == Len(news) + Len(message) < MaxMessages
Tell(k, what) == news' = Append(news, [about |-> k, what |-> what])
OnlyServer == UNCHANGED <<loads, objects, messages, quits>>

(* Somebody becomes a friend, or an invitation puts the user in a group.   *)
(* Of a new discussion the server says nothing.                            *)
ServerAdds(k) ==
    /\ k \notin contact /\ contact' = contact \cup {k}
    /\ \/ Kind(k) /= "discu" /\ MayTell /\ Tell(k, "in")
       \/ Kind(k) = "discu" /\ UNCHANGED news
    /\ OnlyServer

(* A friend deletes the user, or an administrator removes the user. *)
ServerDrops(k) ==
    /\ k \in contact /\ Kind(k) /= "discu" /\ MayTell
    /\ contact' = contact \ {k} /\ Tell(k, "out")
    /\ OnlyServer

(* Anybody may write to the user; in a group, while the user is in it. *)
SomebodyTalks(k) ==
    /\ MayTell /\ (Kind(k) = "buddy" \/ k \in contact)
    /\ \E what \in {"talk", "picture"} : Tell(k, what)
    /\ UNCHANGED contact /\ OnlyServer

-----------------------------------------------------------------------------
(* The poll brings the next message of the server. *)

(* lwqq_msg_request_picture: the pictures of the message are fetched. *)
RequestPicture(n) == IF n.what = "picture" THEN {"picture"} ELSE {}

(* request_content_offpic, request_content_cface, request_content_cface2:  *)
(* one request per picture; set_content_picture_data takes the answer.     *)

(* lwqq_msg_message_bind_buddy: the sender as listed, or a new object that *)
(* is looked up and will be listed when its lookups have ended.            *)
LookupsOf(kind) == CASE kind = "buddy" -> {"info", "number"}
                     [] kind = "qun" -> {"number", "detail"}
                     [] kind = "discu" -> {"detail"}
MessageBindBuddy(n) ==
    IF Find(n.about) /= 0
    THEN /\ Receive("talk", Find(n.about), FALSE, RequestPicture(n))
         /\ UNCHANGED objects
    ELSE /\ Receive("talk", NewObject, TRUE,
                    RequestPicture(n) \cup LookupsOf(Kind(n.about)))
         /\ key' = Append(key, n.about)
         /\ UNCHANGED <<freed, lists>>

(* parse_blist_change: an added friend is listed without a lookup, a       *)
(* removed one passes from the list to the message.                        *)
ParseBlistChange(n) ==
    \/ /\ n.what = "in"
       /\ key' = Append(key, n.about)
       /\ lists' = Inserted("buddy", NewObject)
       /\ Receive("in", NewObject, FALSE, {})
       /\ UNCHANGED freed
    \/ /\ n.what = "out"
       /\ lists' = Removed(FindBuddyByUin(n.about))
       /\ Receive("out", FindBuddyByUin(n.about), FALSE, {})
       /\ UNCHANGED <<key, freed>>

(* parse_sys_g_msg, for the user: group_join lists a new group and asks    *)
(* for its public information before the message is read; group_leave      *)
(* takes the group from the list.                                          *)
ParseSysGMsg(n) ==
    \/ /\ n.what = "in"
       /\ key' = Append(key, n.about)
       /\ lists' = Inserted("qun", NewObject)
       /\ Receive("in", NewObject, FALSE, {"public"})
       /\ UNCHANGED freed
    \/ /\ n.what = "out"
       /\ lists' = Removed(FindGroupByGid(n.about))
       /\ Receive("out", FindGroupByGid(n.about), FALSE, {})
       /\ UNCHANGED <<key, freed>>

(* parse_recvmsg_from_json, one message of the answer. *)
PollBrings ==
    /\ news /= <<>> /\ news' = Tail(news)
    /\ LET n == Head(news)
       IN  \/ n.what \in {"talk", "picture"} /\ MessageBindBuddy(n)
           \/ n.what \in {"in", "out"} /\ Kind(n.about) = "buddy"
              /\ ParseBlistChange(n)
           \/ n.what \in {"in", "out"} /\ Kind(n.about) = "qun"
              /\ ParseSysGMsg(n)
    /\ UNCHANGED <<contact, loads, quits>>

(* Variant: the sender of a delayed message is not listed with it. *)
AddNobody(m) == lists

(* add_passerby: the object a message has waited for goes into its list. *)
AddPasserby(m) ==
    IF message[m].makes
    THEN Inserted(Kind(key[message[m].object]), message[m].object)
    ELSE lists

(* Variant: nothing runs when the last lookup ends. *)
NeverComplete(m, w) == FALSE

(* evset_complete_if_done: the answer is the last one the message needs. *)
LastAnswer(m, w) == message[m].waits = {w}

(* A lookup of a waiting message is answered, well or not.  The last one   *)
(* runs the listeners of the set: add_passerby, then                       *)
(* insert_msg_delay_by_request_content.                                    *)
LookupEnds(m, w) ==
    /\ w \in message[m].waits
    /\ IF message[m].at = "waiting" /\ LastAnswer(m, w)
       THEN /\ message' = [message EXCEPT ![m].waits = @ \ {w},
                                          ![m].at = "listed"]
            /\ lists' = AddPasserby(m)
            /\ inbox' \in PlacesFor(m)
       ELSE /\ message' = [message EXCEPT ![m].waits = @ \ {w}]
            /\ UNCHANGED <<lists, inbox>>
    /\ UNCHANGED <<server, loads, key, freed, quits>>

(* What lwqq_msg_free frees with a message: the friends it removed, the    *)
(* group it took from the list.                                            *)
FreedWith(m) ==
    IF message[m].what = "out" /\ message[m].object /= 0
    THEN {message[m].object} ELSE {}

(* The reader handles the first message of the list and frees it. *)
ReadMessage ==
    /\ inbox /= <<>> /\ inbox' = Tail(inbox)
    /\ LET m == Head(inbox)
       IN  /\ message' = [message EXCEPT ![m].at = "read", ![m].object = 0]
           /\ freed' = freed \cup FreedWith(m)
    /\ UNCHANGED <<server, loads, key, lists, quits>>

-----------------------------------------------------------------------------
(* Loading the lists, and leaving groups. *)

(* lwqq_info_get_friends_info, lwqq_info_get_group_name_list,              *)
(* lwqq_info_get_discu_name_list: the server answers with the list of this *)
(* moment, and the answer takes its time.                                  *)
GetList(kind) ==
    /\ load[kind] = "none" /\ asked < MaxLoads
    /\ load' = [load EXCEPT ![kind] = "sent"] /\ asked' = asked + 1
    /\ snapshot' = [snapshot EXCEPT ![kind] = contact \cap OfKind(kind)]
    /\ UNCHANGED <<server, objects, messages, quits>>

(* parse_info_child, parse_groups_gnamelist_child,                         *)
(* parse_discus_discu_child: an object for every entry, listed whether or  *)
(* not one of that key is.                                                 *)
ListAll(kind, ks) ==
    LET new == SetToSeq(ks)
        n == Len(new)
    IN  /\ key' = key \o new
        /\ lists' = [lists EXCEPT ![kind] =
                        [i \in 1..n |-> Len(key) + n + 1 - i] \o @]

ListBack(kind) ==
    /\ load[kind] = "sent"
    /\ \/ /\ ListAll(kind, snapshot[kind])
          /\ load' = [load EXCEPT ![kind] = "done"]
       \/ /\ load' = [load EXCEPT ![kind] = "none"]   \* an error
          /\ UNCHANGED <<key, lists>>
    /\ snapshot' = [snapshot EXCEPT ![kind] = {}]
    /\ UNCHANGED <<server, asked, freed, messages, quits>>

(* lwqq_info_delete_friend: what the answer says changes nothing, the      *)
(* friend goes when the server tells of it.                                *)
DeleteFriend(h) ==
    /\ h \in Range(lists["buddy"]) /\ key[h] \in contact /\ MayTell
    /\ contact' = contact \ {key[h]} /\ Tell(key[h], "out")
    /\ OnlyServer

(* lwqq_info_delete_group, for a group that is listed. *)
DeleteGroup(h) ==
    /\ h \in Range(lists["qun"]) \cup Range(lists["discu"])
    /\ Len(quits) < MaxQuits
    /\ quits' = Append(quits, [group |-> h, at |-> "server"])
    /\ UNCHANGED <<server, loads, objects, messages>>

QuitServed(q) ==
    /\ quits[q].at = "server"
    /\ LET g == key[quits[q].group]
       IN  \/ /\ g \in contact /\ contact' = contact \ {g}
              /\ \E answer \in {"left", "failed"} :   \* it may be lost
                    quits' = [quits EXCEPT ![q].at = answer]
           \/ /\ UNCHANGED contact
              /\ quits' = [quits EXCEPT ![q].at = "failed"]
    /\ UNCHANGED <<news, loads, objects, messages>>

(* Variant: the answer is not looked at before the group is removed. *)
DeleteAnyway(q) ==
    /\ lists' = Removed(quits[q].group)
    /\ freed' = freed \cup {quits[q].group}

(* do_delete_group: after a success, the group is unlisted and freed. *)
DoDeleteGroup(q) ==
    IF quits[q].at = "left"
    THEN /\ lists' = Removed(quits[q].group)
         /\ freed' = freed \cup {quits[q].group}
    ELSE UNCHANGED <<lists, freed>>
QuitBack(q) ==
    /\ quits[q].at \in {"left", "failed"} /\ DoDeleteGroup(q)
    /\ quits' = [quits EXCEPT ![q].at = "answered"]
    /\ UNCHANGED <<server, loads, key, messages>>

-----------------------------------------------------------------------------
Next ==
    \/ \E k \in Keys : ServerAdds(k) \/ ServerDrops(k) \/ SomebodyTalks(k)
    \/ PollBrings \/ ReadMessage
    \/ \E m \in DOMAIN message : \E w \in Lookup : LookupEnds(m, w)
    \/ \E kind \in Kinds : GetList(kind) \/ ListBack(kind)
    \/ \E h \in Objects : DeleteFriend(h) \/ DeleteGroup(h)
    \/ \E q \in DOMAIN quits : QuitServed(q) \/ QuitBack(q)

(* The poll goes on, every request is answered (module HttpQueue), and the *)
(* application reads its messages; nobody has to load, quit or talk.       *)
Fairness ==
    /\ WF_vars(PollBrings)
    /\ WF_vars(ReadMessage)
    /\ \A m \in 1..MaxMessages :
         WF_vars(m \in DOMAIN message /\ \E w \in Lookup : LookupEnds(m, w))

Spec == Init /\ [][Next]_vars /\ Fairness
-----------------------------------------------------------------------------
(* Properties.  *)

(* The groups a quit is about: what happens to them when the server also   *)
(* removes the user is not the lists' doing (see GroupsToo).               *)
BeingQuit == {quits[q].group : q \in DOMAIN quits}

(* Who would free h: the list it is in, the message that waits to list it, *)
(* the message that removed it.                                            *)
Owners(h) ==
    {<<"list", kind>> : kind \in {x \in Kinds : h \in Range(lists[x])}}
    \cup {<<"lookup", m>> : m \in {x \in DOMAIN message :
             /\ message[x].makes /\ message[x].object = h
             /\ message[x].at = "waiting"}}
    \cup {<<"removal", m>> : m \in {x \in DOMAIN message :
             /\ message[x].what = "out" /\ message[x].object = h
             /\ message[x].at /= "read"}}
OwnedOnce(h) ==
    /\ Cardinality(Owners(h)) = IF h \in freed THEN 0 ELSE 1
    /\ \A kind \in Kinds : \A i, j \in DOMAIN lists[kind] :
         lists[kind][i] = h /\ lists[kind][j] = h => i = j

(* A friend or a group passes from the lookup to its list and from there   *)
(* to the message that removes it, and is freed with that message: it is   *)
(* never in two hands, and never in none while it lives, however loads,    *)
(* lookups and removals of one key overlap (msg.c:1076, 1142, 359, 788).   *)
OneOwner == \A h \in Objects \ BeingQuit : OwnedOnce(h)

(* A message that is read has a sender the user can see: the object it     *)
(* waited for is in its list, or has been there, before the message is in  *)
(* the message list (the listeners of one set, msg.c:1462 and 1569).       *)
SenderListed ==
    \A i \in DOMAIN inbox :
       LET m == message[inbox[i]]
       IN  m.what = "talk" =>
             \/ m.object \in freed \cup BeingQuit
             \/ \E kind \in Kinds : m.object \in Range(lists[kind])
             \/ \E x \in DOMAIN message :
                   /\ message[x].what = "out" /\ message[x].object = m.object
                   /\ message[x].at /= "read"

(* A list that was loaded has everyone the server counts, when no news of  *)
(* him is under way: a load, a lookup or a quit that overlaps with changes *)
(* at the server may leave objects too many, never one too few.            *)
EveryContactListed ==
    \A k \in contact \ Discus :
       /\ load[Kind(k)] = "done"
       /\ \A i \in DOMAIN news :
             news[i].about = k => news[i].what \in {"talk", "picture"}
       => Find(k) /= 0

(* Every message the poll brings is read, whatever its lookups answer.     *)
EveryMessageRead ==
    \A m \in 1..MaxMessages :
       (m \in DOMAIN message) ~> (m \in DOMAIN message /\ message[m].at = "read")

(* By hand (ContactsQuit.cfg): a group that the server has removed and     *)
(* that a quit, answered afterwards, unlists and frees again.              *)
GroupsToo == \A h \in Objects : OwnedOnce(h)

(* By hand (ContactsStale.cfg): a listed friend is a friend, or somebody   *)
(* who wrote.  An added friend that the load has listed already is listed  *)
(* twice, and removed once.                                                *)
NobodyTwice ==
    \A kind \in Kinds : \A i, j \in DOMAIN lists[kind] :
       key[lists[kind][i]] = key[lists[kind][j]] => i = j

(* msg.h:153, 161: from is "bind a buddy from friend list or trigger       *)
(* new_friend event to create new", a live object for the reader.          *)
SenderIsLive ==
    \A i \in DOMAIN inbox :
       message[inbox[i]].what = "talk" => message[inbox[i]].object \notin freed
=============================================================================
