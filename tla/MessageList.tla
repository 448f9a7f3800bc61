------------------------------ MODULE MessageList ------------------------------
(***************************************************************************)
(* The list of received messages (lib/msg.c:50-60, 352-358, 557-607,       *)
(* 1520-1687) and the check for lost group messages that its readers use   *)
(* (msg.c:2400-2424).                                                      *)
(*                                                                         *)
(* The loop thread parses the answers of the poll: each item is inserted   *)
(* at once, or when the event set that its pictures or its sender need has *)
(* fired (AsyncEvset), in any order and also after later messages.  An     *)
(* item may come again when the poll that brought it is repeated.  The     *)
(* list's mutex makes an insertion one step; the application reads from    *)
(* its own thread.                                                         *)
(*                                                                         *)
(* One list holds the messages of every sender.  It sorts and drops them   *)
(* by msg_id alone, which the server chooses: two messages, of one sender  *)
(* or of two, may bear the same.  The seq of a group or a discussion is a  *)
(* number of its own, which only the readers look at.  Items that cannot   *)
(* be parsed are dropped and not modelled.                                 *)
(***************************************************************************)
EXTENDS Integers, FiniteSets, SequencesExt

CONSTANTS
  Messages,    \* what the senders wrote
  Notice,      \* an item of any other type: a status change, a kick, a file...
  Senders,     \* friends, strangers, groups and discussions
  Groups,      \* those of them that number their messages
  From,        \* [Messages -> Senders], super.from or did
  GroupSeq,    \* [Messages -> Nat], seq, which has a meaning in a group only
  Numberings,  \* SUBSET [Messages -> Nat], how the server may give out msg_ids
  MaxArrivals  \* bound: how many items come

Number == Nat \ {0}

\* A message whose msg_id or seq is missing is parsed as 0, and not modelled.
ASSUME MessageConstants ==
  /\ Notice \notin Messages
  /\ Groups \subseteq Senders
  /\ From \in [Messages -> Senders]
  /\ GroupSeq \in [Messages -> Number]
  /\ \A m, n \in Messages :
       From[m] = From[n] /\ From[m] \in Groups /\ GroupSeq[m] = GroupSeq[n] => m = n
  /\ Numberings \subseteq [Messages -> Number]
  /\ MaxArrivals \in Nat

VARIABLES
  removing,   \* flags has POLL_REMOVE_DUPLICATED_MSG
  msgId,      \* [Messages -> Number], the msg_id of each message
  head,       \* list->head
  lastId,     \* last_id, 0 at first
  arrivals,   \* how many items were parsed
  copies,     \* [Messages -> Nat], how often each message was parsed
  waiting,    \* [Messages -> Nat], how many copies wait for an event set
  reads,      \* [Messages -> Nat], how many copies were read
  lastSeq,    \* [Groups -> Nat], g->last_seq, 0 at first
  accepted,   \* history: the messages that the check did not call duplicates
  told        \* history: the groups of which the check has said 1

listVars == <<removing, msgId, head, lastId, arrivals, copies, waiting,
              reads, lastSeq, accepted, told>>

setUp == <<removing, msgId>>
readerVars == <<reads, lastSeq, accepted, told>>

NoCopies == [m \in Messages |-> 0]

------------------------------------------------------------------------------
ListInit ==
  /\ removing \in BOOLEAN
  /\ msgId \in Numberings
  /\ head = <<>> /\ lastId = 0
  /\ arrivals = 0 /\ copies = NoCopies
  /\ waiting = NoCopies /\ reads = NoCopies
  /\ lastSeq = [g \in Groups |-> 0]
  /\ accepted = {} /\ told = {}

\* The messages in the list whose number is not above that of m.
NotYounger(m) == {i \in DOMAIN head : head[i] \in Messages /\ msgId[head[i]] <= msgId[m]}

\* The place of the last of them, where items of other types are passed over; 0
\* when there is none, and the message becomes the first of the list.
PlaceAfter(m) == Max({0} \cup NotYounger(m))

\* Variant: a message that is not younger than the last one is taken for known.
SeenBefore(m) == removing /\ msgId[m] <= lastId

\* A message that is destroyed instead of inserted: its number is that of the last
\* one or of the one it would follow, whoever sent them.
IsDuplicate(m) ==
  /\ removing
  /\ \/ lastId = msgId[m]
     \/ PlaceAfter(m) # 0 /\ msgId[head[PlaceAfter(m)]] = msgId[m]

\* Variant: the walk does not look for the place.
InsertFirst(m) ==
  /\ lastId' = msgId[m]
  /\ head' = IF IsDuplicate(m) THEN head ELSE InsertAt(head, 1, m)

\* insert_recv_msg_with_order of a message.
InsertInOrder(m) ==
  /\ lastId' = msgId[m]
  /\ head' = IF IsDuplicate(m) THEN head ELSE InsertAt(head, PlaceAfter(m) + 1, m)

------------------------------------------------------------------------------
(* The loop thread. *)

Arrive == arrivals < MaxArrivals /\ arrivals' = arrivals + 1

\* Variant: a message that waits is well-formed too, and inserted.
ParseAndInsert(m) ==
  /\ Arrive
  /\ copies' = [copies EXCEPT ![m] = @ + 1]
  /\ InsertInOrder(m)
  /\ waiting' \in {waiting, [waiting EXCEPT ![m] = @ + 1]}
  /\ UNCHANGED setUp
  /\ UNCHANGED readerVars

\* parse_recvmsg_from_json, for one item of an answer.
ParseMessage(m) ==
  /\ Arrive
  /\ copies' = [copies EXCEPT ![m] = @ + 1]
  /\ \/ InsertInOrder(m) /\ UNCHANGED waiting
     \/ waiting' = [waiting EXCEPT ![m] = @ + 1] /\ UNCHANGED <<head, lastId>>
  /\ UNCHANGED setUp
  /\ UNCHANGED readerVars

ParseOther ==
  /\ Arrive
  /\ head' = Append(head, Notice)
  /\ UNCHANGED <<lastId, copies, waiting>>
  /\ UNCHANGED setUp
  /\ UNCHANGED readerVars

\* Variant: the event set fires and the message is forgotten.
InsertWaitingNever(m) ==
  /\ waiting[m] > 0
  /\ waiting' = [waiting EXCEPT ![m] = 0]
  /\ UNCHANGED <<head, lastId, arrivals, copies>>
  /\ UNCHANGED setUp
  /\ UNCHANGED readerVars

\* insert_msg_delay_by_request_content.
InsertWaiting(m) ==
  /\ waiting[m] > 0
  /\ waiting' = [waiting EXCEPT ![m] = @ - 1]
  /\ InsertInOrder(m)
  /\ UNCHANGED <<arrivals, copies>>
  /\ UNCHANGED setUp
  /\ UNCHANGED readerVars

------------------------------------------------------------------------------
(* The application's thread. *)

\* Variant: a gap of one message goes unnoticed.
JudgedLate(seq, last) ==
  IF last # 0 /\ last + 1 > seq THEN -1
  ELSE IF last # 0 /\ last + 2 < seq THEN 1
  ELSE 0

\* lwqq_msg_check_lost, in a known group: -1 is "duplicate", 1 "lost".
Judged(seq, last) ==
  CASE last # 0 /\ last + 1 > seq -> -1
    [] last # 0 /\ last + 1 < seq -> 1
    [] OTHER -> 0

Verdict(m) == IF From[m] \in Groups THEN Judged(GroupSeq[m], lastSeq[From[m]]) ELSE 0

\* lwqq_msglist_read, and the check of what was read.
Read ==
  /\ head # <<>>
  /\ head' = Tail(head)
  /\ LET m == Head(head) IN
     IF m \in Messages
       THEN /\ reads' = [reads EXCEPT ![m] = @ + 1]
            /\ accepted' = IF Verdict(m) = -1 THEN accepted ELSE accepted \cup {m}
            /\ told' = IF Verdict(m) = 1 THEN told \cup {From[m]} ELSE told
            /\ lastSeq' = IF From[m] \in Groups /\ Verdict(m) # -1
                            THEN [lastSeq EXCEPT ![From[m]] = GroupSeq[m]]
                            ELSE lastSeq
       ELSE UNCHANGED readerVars
  /\ UNCHANGED <<lastId, arrivals, copies, waiting>>
  /\ UNCHANGED setUp

------------------------------------------------------------------------------
ListNext ==
  \/ \E m \in Messages : ParseMessage(m) \/ InsertWaiting(m)
  \/ ParseOther
  \/ Read

\* Event sets fire (AsyncEvset!SetEventuallyFires); poll_msg makes the application
\* read until the list is empty (PollSession!MessagesAnnounced).
ListFairness == WF_listVars(Read) /\ \A m \in Messages : WF_listVars(InsertWaiting(m))

ListSpec == ListInit /\ [][ListNext]_listVars /\ ListFairness

\* The same with senders whose messages come once and in order.
OrderlyNext ==
  \/ \E m \in Messages :
       \/ /\ copies[m] = 0
          /\ \A n \in Messages :
               From[n] = From[m] /\ GroupSeq[n] < GroupSeq[m] => copies[n] > 0
          /\ ParseMessage(m)
       \/ InsertWaiting(m)
  \/ Read

OrderlySpec == ListInit /\ [][OrderlyNext]_listVars

------------------------------------------------------------------------------
(* Properties. *)

Copies(s, m) == Cardinality({i \in DOMAIN s : s[i] = m})

\* A message that the application has, or will find in the list.
Kept(m) == m \in ToSet(head) \/ reads[m] > 0

ListTypeOK ==
  /\ removing \in BOOLEAN
  /\ msgId \in [Messages -> Number]
  /\ head \in Seq(Messages \cup {Notice})
  /\ lastId \in Nat
  /\ arrivals \in 0..MaxArrivals
  /\ copies \in [Messages -> Nat]
  /\ waiting \in [Messages -> Nat]
  /\ reads \in [Messages -> Nat]
  /\ lastSeq \in [Groups -> Nat]
  /\ accepted \subseteq Messages
  /\ told \subseteq Groups

\* Whatever the order in which messages come and event sets fire, and however the
\* items of other types lie between them, the messages in the list are sorted, and
\* no two have one number when duplicates are removed (msg.c:1645-1683).
Sorted ==
  \A i, j \in DOMAIN head :
    i < j /\ head[i] \in Messages /\ head[j] \in Messages =>
      /\ msgId[head[i]] <= msgId[head[j]]
      /\ removing => msgId[head[i]] # msgId[head[j]]

\* A message is in one place, so that nobody reads or frees it twice: the list, the
\* event sets and the readers hold no more copies of it than were parsed, and hold
\* all of them when duplicates are not removed (msg.c:1645-1683, 352-358).
OnePlace ==
  \A m \in Messages :
    LET placed == Copies(head, m) + waiting[m] + reads[m]
    IN  placed <= copies[m] /\ (~removing => placed = copies[m])

\* No message is lost between the event sets, the list and the readers but one of
\* whose number another one, perhaps of another sender, is in the list or was read,
\* and that only when duplicates are removed (msg.c:1651-1676).
OnlyDuplicatesDie ==
  \A m \in Messages : copies[m] > 0 =>
    \/ waiting[m] > 0 \/ Kept(m)
    \/ removing /\ \E n \in Messages : msgId[n] = msgId[m] /\ Kept(n)

\* A message that was parsed is read, also when its event set fires after younger
\* messages were read, unless it is destroyed for one of its number, which is.
EveryMessageRead ==
  \A m \in Messages : copies[m] > 0 ~>
    \/ reads[m] > 0
    \/ removing /\ \E n \in Messages : msgId[n] = msgId[m] /\ reads[n] > 0

\* Of a group whose check never said that messages were lost, the readers accepted
\* every message between the first and the last they accepted (msg.c:2416-2423),
\* also when a message of another sender took the place of one in the list.
GapsReported ==
  \A m, n \in Messages :
    /\ From[m] = From[n] /\ From[m] \in Groups \ told
    /\ n \in accepted /\ GroupSeq[n] < GroupSeq[m] /\ GroupSeq[m] < lastSeq[From[m]]
    => m \in accepted

\* "-1 --> duplicate message" (msg.h:440): the message was read before.
DuplicateWasRead ==
  [][\A m \in Messages : reads'[m] > reads[m] /\ Verdict(m) = -1 => reads[m] > 0]_listVars

\* "this is duplicated message. we destroy it." (msg.c:1665): what is destroyed is a
\* copy of a message that is in the list or was read.
OnlyCopiesDie == \A m \in Messages : copies[m] > 0 => waiting[m] > 0 \/ Kept(m)
==============================================================================
