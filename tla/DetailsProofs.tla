---------------------------- MODULE DetailsProofs ----------------------------
(***************************************************************************)
(* Proofs about Details, for any buddies, groups and number of requests.   *)
(*                                                                         *)
(* That the client knows what the server has is not inductive: it rests on *)
(* what the requests under way carry.  A request keeps only what it sets,  *)
(* and what a callback is about to write is what the server has, except    *)
(* where the server has served another request in between that changes it. *)
(***************************************************************************)
EXTENDS Details, TLAPS

\* The fields that InStep is about.
Plain == {f \in Fields : f[1] \notin {"members", "seq", "card"}}

RequestParts == {"on", "sets", "adds", "from", "reads", "keeps", "answer", "freed", "at"}

\* A request keeps nothing but what it sets, and does not ask for what it sets.
Sound(r) ==
  /\ DOMAIN r = RequestParts
  /\ DOMAIN r.keeps \subseteq DOMAIN r.sets
  /\ \A f \in DOMAIN r.keeps : r.keeps[f] = r.sets[f]
  /\ DOMAIN r.sets \cap r.reads = {}
  /\ DOMAIN r.answer \subseteq r.reads

RequestsSound ==
  /\ DOMAIN request = Slots /\ Fields \subseteq DOMAIN there /\ Fields \subseteq DOMAIN here
  /\ \A s \in Slots :
       /\ Sound(request[s])
       /\ request[s].at \in {"idle", "sent", "ok", "failed"}
       /\ request[s].at \in {"idle", "sent"} => DOMAIN request[s].answer = {}

\* What a callback is about to write is what the server has, or not known.
ServedIsThere ==
  \A s \in Slots : \A f \in Plain \ clash :
    /\ request[s].at = "ok" /\ f \in DOMAIN request[s].sets
         => request[s].sets[f] = there[f]
    /\ f \in DOMAIN Learned(request[s]) => Learned(request[s])[f] \in {0, there[f]}

\* What a served request has set and its callback does not keep is known already.
CarriedIsKnown ==
  \A s \in Slots : \A f \in Plain \ clash :
    request[s].at = "ok" /\ f \in DOMAIN request[s].sets \ DOMAIN request[s].keeps
    => here[f] \in {0, request[s].sets[f]}

\* A field is known as the server has it, but for the requests that were served
\* and whose callback has not run.
KnownButServed ==
  \A f \in Plain \ clash :
    (\A s \in Slots : request[s].at = "ok" => f \notin DOMAIN request[s].sets)
    => here[f] \in {0, there[f]}

\* The client and the server agree but for what served requests still carry.
IInv == RequestsSound /\ ServedIsThere /\ CarriedIsKnown /\ KnownButServed

------------------------------------------------------------------------------
\* A request that is marked, one that is answered and one whose member was freed.
LEMMA MarkedRequest ==
  ASSUME NEW r, DOMAIN r = RequestParts, NEW at, NEW answer
  PROVE  /\ LET m == [r EXCEPT !.at = at] IN
              /\ DOMAIN m = RequestParts /\ m.at = at /\ m.answer = r.answer
              /\ m.sets = r.sets /\ m.keeps = r.keeps /\ m.reads = r.reads
              /\ m.adds = r.adds /\ m.on = r.on /\ m.from = r.from /\ m.freed = r.freed
         /\ LET m == [r EXCEPT !.at = at, !.answer = answer] IN
              /\ DOMAIN m = RequestParts /\ m.at = at /\ m.answer = answer
              /\ m.sets = r.sets /\ m.keeps = r.keeps /\ m.reads = r.reads
              /\ m.adds = r.adds /\ m.on = r.on /\ m.from = r.from /\ m.freed = r.freed
         /\ LET m == [r EXCEPT !.freed = TRUE] IN
              /\ DOMAIN m = RequestParts /\ m.at = r.at /\ m.answer = r.answer
              /\ m.sets = r.sets /\ m.keeps = r.keeps /\ m.reads = r.reads
              /\ m.adds = r.adds /\ m.on = r.on /\ m.from = r.from /\ m.freed = TRUE
BY DEF RequestParts

\* New values, and those that were there before where there is no new one.
LEMMA Overridden ==
  ASSUME NEW new, NEW old
  PROVE  /\ DOMAIN Over(new, old) = DOMAIN new \cup DOMAIN old
         /\ \A f \in DOMAIN new : Over(new, old)[f] = new[f]
         /\ \A f \in DOMAIN old \ DOMAIN new : Over(new, old)[f] = old[f]
<1>1. CASE DOMAIN new = {}
  BY <1>1 DEF Over
<1>2. CASE DOMAIN new # {}
  BY <1>2 DEF Over
<1> QED
  BY <1>1, <1>2

LEMMA Single ==
  ASSUME NEW f, NEW v
  PROVE  DOMAIN One(f, v) = {f} /\ One(f, v)[f] = v
BY DEF One

LEMMA QuietRequest == Sound(Quiet) /\ Quiet.at = "idle" /\ DOMAIN Empty = {}
  /\ Quiet.sets = Empty /\ Quiet.keeps = Empty /\ Quiet.answer = Empty
  /\ Quiet.reads = {} /\ Quiet.adds = {} /\ Quiet.from = Myself /\ Quiet.freed = FALSE
BY DEF Quiet, Empty, Sound, RequestParts

\* What a callback learns is in the answer.
LEMMA LearnedIsAnswer ==
  ASSUME NEW r
  PROVE  /\ DOMAIN Learned(r) \subseteq DOMAIN r.answer
         /\ \A f \in DOMAIN Learned(r) : Learned(r)[f] = r.answer[f]
         /\ r.at \notin {"ok", "failed"} => DOMAIN Learned(r) = {}
BY QuietRequest DEF Learned

LEMMA InitInv == Init => IInv
<1> SUFFICES ASSUME Init PROVE IInv
  OBVIOUS
<1> USE DEF Init
<1>1. \A s \in Slots : request[s] = Quiet
  OBVIOUS
<1>2. RequestsSound
  BY <1>1, QuietRequest DEF RequestsSound
<1>3. ServedIsThere
  BY <1>1, QuietRequest, LearnedIsAnswer DEF ServedIsThere
<1>4. CarriedIsKnown
  BY <1>1, QuietRequest DEF CarriedIsKnown
<1>5. KnownButServed
  BY DEF KnownButServed, Plain
<1> QED
  BY <1>2, <1>3, <1>4, <1>5 DEF IInv

------------------------------------------------------------------------------
(* Sending a request. *)

\* A request that may be sent.
Sendable(r) == Sound(r) /\ DOMAIN r.answer = {}

LEMMA SubmitInv ==
  ASSUME IInv, NEW r, Sendable(r), Submit(r)
  PROVE  IInv'
<1> DEFINE q == [r EXCEPT !.at = "sent"]
<1>1. PICK n \in Slots : n = FreeSlot /\ ~Busy(n)
  BY DEF Submit, FreeSlot
<1>2. request' = [request EXCEPT ![n] = q] /\ UNCHANGED <<there, here, clash>>
  BY <1>1 DEF Submit
<1>3. /\ DOMAIN q = RequestParts /\ q.at = "sent" /\ q.answer = r.answer
      /\ q.sets = r.sets /\ q.keeps = r.keeps /\ q.reads = r.reads
  BY MarkedRequest DEF Sendable, Sound
<1> HIDE DEF q
<1>4. /\ request'[n] = q /\ DOMAIN request' = Slots
      /\ \A s \in Slots \ {n} : request'[s] = request[s]
  BY <1>1, <1>2 DEF IInv, RequestsSound
<1>5. Sound(q) /\ DOMAIN q.answer = {} /\ DOMAIN Learned(q) = {}
  BY <1>3, LearnedIsAnswer DEF Sendable, Sound
<1>6. RequestsSound'
  BY <1>2, <1>3, <1>4, <1>5 DEF IInv, RequestsSound
<1>7. \A s \in Slots : s # n => request'[s] = request[s] /\ request'[n].at = "sent"
  BY <1>3, <1>4
<1>8. ServedIsThere'
  <2> SUFFICES ASSUME NEW s \in Slots, NEW f \in Plain \ clash
               PROVE  /\ request'[s].at = "ok" /\ f \in DOMAIN request'[s].sets
                           => request'[s].sets[f] = there[f]
                      /\ f \in DOMAIN Learned(request'[s])
                           => Learned(request'[s])[f] \in {0, there[f]}
    BY <1>2 DEF ServedIsThere, Learned, Heedless
  <2>1. CASE s = n
    BY <2>1, <1>3, <1>4, <1>5
  <2>2. CASE s # n
    BY <2>2, <1>4 DEF IInv, ServedIsThere
  <2> QED
    BY <2>1, <2>2
<1>9. CarriedIsKnown'
  BY <1>2, <1>3, <1>4 DEF IInv, CarriedIsKnown
<1>10. KnownButServed'
  <2> SUFFICES ASSUME NEW f \in Plain \ clash,
                      \A s \in Slots : request'[s].at = "ok" => f \notin DOMAIN request'[s].sets
               PROVE  here[f] \in {0, there[f]}
    BY <1>2 DEF KnownButServed
  <2>1. \A s \in Slots : request[s].at = "ok" => f \notin DOMAIN request[s].sets
    BY <1>1, <1>4 DEF Busy
  <2> QED
    BY <2>1 DEF IInv, KnownButServed
<1> QED
  BY <1>6, <1>8, <1>9, <1>10 DEF IInv

\* Questions set nothing.
LEMMA AskSendable ==
  ASSUME NEW on, NEW fields
  PROVE  /\ Sendable([Quiet EXCEPT !.reads = fields])
         /\ Sendable([Quiet EXCEPT !.on = on, !.reads = fields])
BY DEF Sendable, Sound, Quiet, Empty, RequestParts

\* A change of one field sets it, and keeps it unless it is a card.
LEMMA ChangeSendable ==
  ASSUME NEW on, NEW name, NEW keep \in BOOLEAN
  PROVE  Sendable([Quiet EXCEPT !.on = on, !.sets = One(<<name, on>>, Fresh),
                     !.keeps = IF keep THEN One(<<name, on>>, Fresh) ELSE Empty])
<1> DEFINE one == One(<<name, on>>, Fresh)
           kept == IF keep THEN one ELSE Empty
           r == [Quiet EXCEPT !.on = on, !.sets = one, !.keeps = kept]
<1>1. DOMAIN kept \subseteq DOMAIN one /\ \A f \in DOMAIN kept : kept[f] = one[f]
  BY QuietRequest
<1> HIDE DEF one, kept
<1>2. /\ DOMAIN r = RequestParts /\ r.sets = one /\ r.keeps = kept
      /\ r.reads = {} /\ r.answer = Empty
  BY DEF Quiet, RequestParts
<1> HIDE DEF r
<1>3. Sound(r) /\ DOMAIN r.answer = {}
  BY <1>1, <1>2, QuietRequest DEF Sound
<1> QED
  BY <1>3 DEF Sendable, r, one, kept

\* The request that masks a group keeps the mask of that group.
LEMMA MaskSendable ==
  ASSUME NEW g \in Groups
  PROVE  Sendable([Quiet EXCEPT !.on = g, !.sets = Masks(g), !.keeps = One(<<"mask", g>>, Fresh)])
<1> DEFINE one == One(<<"mask", g>>, Fresh)
           all == Masks(g)
           r == [Quiet EXCEPT !.on = g, !.sets = all, !.keeps = one]
<1>1. DOMAIN one = {<<"mask", g>>} /\ one[<<"mask", g>>] = Fresh
  BY Single
<1>2. <<"mask", g>> \in DOMAIN all /\ all[<<"mask", g>>] = Fresh
  BY DEF Masks, SameKind, Groups, Field
<1> HIDE DEF one, all
<1>3. /\ DOMAIN r = RequestParts /\ r.sets = all /\ r.keeps = one
      /\ r.reads = {} /\ r.answer = Empty
  BY DEF Quiet, RequestParts
<1> HIDE DEF r
<1>4. Sound(r) /\ DOMAIN r.answer = {}
  BY <1>1, <1>2, <1>3, QuietRequest DEF Sound
<1> QED
  BY <1>4 DEF Sendable, r, one, all

LEMMA AddSendable ==
  ASSUME NEW d, NEW from, NEW who
  PROVE  Sendable([Quiet EXCEPT !.on = d, !.adds = who, !.from = from])
BY DEF Sendable, Sound, Quiet, Empty, RequestParts

LEMMA AskInv ==
  ASSUME IInv, NEW on, NEW names, Ask(on, names)
  PROVE  IInv'
BY SubmitInv, AskSendable DEF Ask

LEMMA AskAllInv ==
  ASSUME IInv, NEW fields, AskAll(fields)
  PROVE  IInv'
BY SubmitInv, AskSendable DEF AskAll

LEMMA ChangeInv ==
  ASSUME IInv, NEW on, NEW name, NEW keep \in BOOLEAN, Change(on, name, keep)
  PROVE  IInv'
BY SubmitInv, ChangeSendable DEF Change

\* Every call of the application sends one request.
LEMMA CallOnClientInv == IInv /\ CallOnClient => IInv'
BY AskInv, AskAllInv, ChangeInv
DEF CallOnClient, GetFriendsInfo, GetGroupNameList, GetDiscuNameList, GetOnlineBuddies,
    RecentList, ChangeStatus, SetSelfLongNick

LEMMA CallOnBuddyInv ==
  ASSUME IInv, NEW b \in Buddies, CallOnBuddy(b)
  PROVE  IInv'
BY AskInv, ChangeInv
DEF CallOnBuddy, GetFriendDetailInfo, GetStrangerInfo, GetStrangerInfoByMsg, GetQqnumber,
    GetAvatar, GetLevel, GetSingleLongNick, ChangeBuddyMarkname, ModifyBuddyCategory

LEMMA MaskGroupInv ==
  ASSUME IInv, NEW g \in Groups, MaskGroup(g)
  PROVE  IInv'
BY SubmitInv, MaskSendable DEF MaskGroup

LEMMA CallOnQunInv ==
  ASSUME IInv, NEW g \in Quns, CallOnQun(g)
  PROVE  IInv'
BY AskInv, ChangeInv, MaskGroupInv
DEF CallOnQun, GetGroupDetailInfo, GetQqnumber, GetAvatar, GetGroupMemo, GetGroupPublicInfo,
    GetGroupSig, GetSelfCard, SetSelfCard, ChangeGroupMarkname, Groups

LEMMA CallOnDiscuInv ==
  ASSUME IInv, NEW d \in Discus, CallOnDiscu(d)
  PROVE  IInv'
<1>1. ASSUME NEW from, NEW who, ChangeDiscuMem(d, from, who) PROVE IInv'
  BY <1>1, SubmitInv, AddSendable DEF ChangeDiscuMem
<1> QED
  BY <1>1, AskInv, ChangeInv, MaskGroupInv
  DEF CallOnDiscu, GetGroupDetailInfo, GetGroupSig, ChangeDiscuTopic, Groups

LEMMA MessageInInv ==
  ASSUME IInv, NEW d \in Discus, MessageIn(d)
  PROVE  IInv'
BY AskInv DEF MessageIn, GetGroupDetailInfo

------------------------------------------------------------------------------
(* Serving and refusing a request, and the changes of others. *)

\* A request that is answered has the parts it had.
LEMMA Marked ==
  ASSUME IInv, NEW s \in Slots, NEW at, NEW answer,
         \/ request' = [request EXCEPT ![s].at = at, ![s].answer = answer]
         \/ request' = [request EXCEPT ![s].at = at] /\ answer = request[s].answer
  PROVE  /\ DOMAIN request' = Slots
         /\ \A t \in Slots \ {s} : request'[t] = request[t]
         /\ DOMAIN request'[s] = RequestParts /\ request'[s].at = at
         /\ request'[s].answer = answer
         /\ request'[s].sets = request[s].sets /\ request'[s].keeps = request[s].keeps
         /\ request'[s].reads = request[s].reads /\ request'[s].adds = request[s].adds
         /\ request'[s].on = request[s].on /\ request'[s].from = request[s].from
         /\ request'[s].freed = request[s].freed
<1> DEFINE m == [request[s] EXCEPT !.at = at, !.answer = answer]
           n == [request[s] EXCEPT !.at = at]
<1>1. DOMAIN request = Slots /\ DOMAIN request[s] = RequestParts
  BY DEF IInv, RequestsSound, Sound
<1>2. /\ DOMAIN m = RequestParts /\ m.at = at /\ m.answer = answer
      /\ m.sets = request[s].sets /\ m.keeps = request[s].keeps
      /\ m.reads = request[s].reads /\ m.adds = request[s].adds
      /\ m.on = request[s].on /\ m.from = request[s].from /\ m.freed = request[s].freed
  BY <1>1, MarkedRequest
<1>3. /\ DOMAIN n = RequestParts /\ n.at = at /\ n.answer = request[s].answer
      /\ n.sets = request[s].sets /\ n.keeps = request[s].keeps
      /\ n.reads = request[s].reads /\ n.adds = request[s].adds
      /\ n.on = request[s].on /\ n.from = request[s].from /\ n.freed = request[s].freed
  BY <1>1, MarkedRequest
<1>4. \/ request' = [request EXCEPT ![s] = m]
      \/ request' = [request EXCEPT ![s] = n] /\ answer = request[s].answer
  BY <1>1
<1> HIDE DEF m, n
<1> QED
  BY <1>1, <1>2, <1>3, <1>4

\* What the server has after it served a request, where changes are not counted.
LEMMA ServedFields ==
  ASSUME IInv, NEW s \in Slots, Serve(s)
  PROVE  /\ Fields \subseteq DOMAIN there'
         /\ \A f \in Plain :
              there'[f] = IF f \in DOMAIN request[s].sets THEN request[s].sets[f] ELSE there[f]
<1> DEFINE r == request[s]
           added == IF r.adds = {} THEN Empty
                    ELSE One(Members(r.on), there[Members(r.on)] \cup r.adds)
           number == Renumbered(DOMAIN r.sets \cup DOMAIN added)
           most == Over(added, r.sets)
           all == Over(number, most)
<1>1. there' = Over(all, there)
  BY DEF Serve
<1>2. Plain \subseteq DOMAIN there /\ Fields \subseteq DOMAIN there
  BY DEF IInv, RequestsSound, Plain
<1>3. \A f \in Plain : f \notin DOMAIN added
  <2>1. DOMAIN added \subseteq {Members(r.on)}
    <3>1. CASE r.adds = {}
      BY <3>1, QuietRequest
    <3>2. CASE r.adds /= {}
      BY <3>2, Single
    <3> QED
      BY <3>1, <3>2
  <2> QED
    BY <2>1 DEF Plain, Members
<1>4. \A f \in Plain : f \notin DOMAIN number
  BY DEF Plain, Renumbered, Seq
<1> HIDE DEF number, added
<1>5. /\ DOMAIN most = DOMAIN added \cup DOMAIN r.sets
      /\ \A f \in DOMAIN r.sets \ DOMAIN added : most[f] = r.sets[f]
  BY Overridden
<1> HIDE DEF most
<1>6. /\ DOMAIN all = DOMAIN number \cup DOMAIN most
      /\ \A f \in DOMAIN most \ DOMAIN number : all[f] = most[f]
  BY Overridden
<1> HIDE DEF all
<1>7. /\ DOMAIN there' = DOMAIN all \cup DOMAIN there
      /\ \A f \in DOMAIN all : there'[f] = all[f]
      /\ \A f \in DOMAIN there \ DOMAIN all : there'[f] = there[f]
  <2>1. /\ DOMAIN Over(all, there) = DOMAIN all \cup DOMAIN there
        /\ \A f \in DOMAIN all : Over(all, there)[f] = all[f]
        /\ \A f \in DOMAIN there \ DOMAIN all : Over(all, there)[f] = there[f]
    BY Overridden
  <2> QED
    BY <1>1, <2>1
<1> HIDE DEF r
<1>8. Fields \subseteq DOMAIN there'
  BY <1>2, <1>7
<1>9. ASSUME NEW f \in Plain
      PROVE  there'[f] = IF f \in DOMAIN r.sets THEN r.sets[f] ELSE there[f]
  <2>1. f \in DOMAIN all <=> f \in DOMAIN r.sets
    BY <1>3, <1>4, <1>5, <1>6
  <2>2. f \in DOMAIN r.sets => all[f] = r.sets[f]
    BY <1>3, <1>4, <1>5, <1>6
  <2> QED
    BY <2>1, <2>2, <1>2, <1>7
<1> QED
  BY <1>8, <1>9 DEF r

\* The requests in the slots other than one, which are as they were.
LEMMA OthersServed ==
  ASSUME IInv, NEW s \in Slots, NEW t \in Slots, t # s, request'[t] = request[t],
         NEW f \in Plain \ clash, there'[f] = there[f]
  PROVE  /\ request'[t].at = "ok" /\ f \in DOMAIN request'[t].sets
              => request'[t].sets[f] = there'[f]
         /\ f \in DOMAIN Learned(request'[t]) => Learned(request'[t])[f] \in {0, there'[f]}
BY DEF IInv, ServedIsThere

LEMMA ServeInv ==
  ASSUME IInv, NEW s \in Slots, Serve(s)
  PROVE  IInv'
<1> DEFINE asked == Restrict(there, request[s].reads)
<1>1. /\ request[s].at = "sent" /\ here' = here
      /\ DOMAIN asked = request[s].reads
      /\ \A f \in request[s].reads : asked[f] = there[f]
  BY DEF Serve, Restrict
<1>2. PICK at, answer :
        /\ at \in {"ok", "failed"}
        /\ \/ request' = [request EXCEPT ![s].at = at, ![s].answer = answer]
           \/ request' = [request EXCEPT ![s].at = at] /\ answer = request[s].answer
        /\ at = "ok" => answer = asked /\ clash' = clash \cup Overtaken(s) \cup Joining(s)
        /\ at = "failed" => /\ answer = request[s].answer
                            /\ clash' = clash \cup DOMAIN request[s].sets
  <2>1. CASE /\ request' = [request EXCEPT ![s].at = "ok", ![s].answer = asked]
             /\ clash' = clash \cup Overtaken(s) \cup Joining(s)
    <3> WITNESS "ok", asked
    <3> QED
      BY <2>1
  <2>2. CASE /\ request' = [request EXCEPT ![s].at = "failed"]
             /\ clash' = clash \cup DOMAIN request[s].sets
    <3> WITNESS "failed", request[s].answer
    <3> QED
      BY <2>2
  <2> QED
    BY <2>1, <2>2 DEF Serve
<1> HIDE DEF asked
<1>3. /\ DOMAIN request' = Slots
      /\ \A t \in Slots \ {s} : request'[t] = request[t]
      /\ DOMAIN request'[s] = RequestParts /\ request'[s].at = at
      /\ request'[s].answer = answer
      /\ request'[s].sets = request[s].sets /\ request'[s].keeps = request[s].keeps
      /\ request'[s].reads = request[s].reads
  BY <1>2, Marked
<1>4. /\ Fields \subseteq DOMAIN there'
      /\ \A f \in Plain :
           there'[f] = IF f \in DOMAIN request[s].sets THEN request[s].sets[f] ELSE there[f]
  BY ServedFields
<1>5. clash \subseteq clash' /\ Plain \ clash' \subseteq Plain \ clash
  BY <1>2
<1>6. at = "failed" => DOMAIN answer = {} /\ \A f \in Plain \ clash' : f \notin DOMAIN request[s].sets
  BY <1>1, <1>2 DEF IInv, RequestsSound
<1>7. ASSUME NEW f \in Plain \ clash', f \in DOMAIN request[s].sets
      PROVE  /\ at = "ok"
             /\ \A t \in Slots \ {s} : f \notin Pending(request[t])
             /\ f \notin DOMAIN request[s].keeps => here[f] = request[s].sets[f]
  BY <1>2, <1>6, <1>7 DEF Overtaken
<1>8. RequestsSound'
  <2>1. \A t \in Slots : Sound(request[t])
    BY DEF IInv, RequestsSound
  <2>2. DOMAIN answer \subseteq request[s].reads
    BY <1>1, <1>2, <1>6
  <2>3. Sound(request'[s])
    BY <2>1, <2>2, <1>3 DEF Sound
  <2> QED
    BY <2>1, <2>3, <1>1, <1>2, <1>3, <1>4 DEF IInv, RequestsSound
<1>9. ServedIsThere'
  <2> SUFFICES ASSUME NEW t \in Slots, NEW f \in Plain \ clash'
               PROVE  /\ request'[t].at = "ok" /\ f \in DOMAIN request'[t].sets
                           => request'[t].sets[f] = there'[f]
                      /\ f \in DOMAIN Learned(request'[t])
                           => Learned(request'[t])[f] \in {0, there'[f]}
    BY DEF ServedIsThere, Learned, Heedless
  <2>1. CASE t = s
    <3>1. f \in request[s].reads => f \notin DOMAIN request[s].sets
      BY DEF IInv, RequestsSound, Sound
    <3>2. f \in DOMAIN Learned(request'[s])
          => f \in DOMAIN answer /\ Learned(request'[s])[f] = answer[f]
      BY <1>3, LearnedIsAnswer
    <3>3. f \in DOMAIN answer => answer[f] = there[f] /\ f \in request[s].reads
      BY <1>1, <1>2, <1>6
    <3> QED
      BY <2>1, <3>1, <3>2, <3>3, <1>3, <1>4
  <2>2. CASE t # s /\ f \notin DOMAIN request[s].sets
    BY <2>2, <1>3, <1>4, <1>5, OthersServed
  <2>3. CASE t # s /\ f \in DOMAIN request[s].sets
    BY <2>3, <1>3, <1>7 DEF Pending
  <2> QED
    BY <2>1, <2>2, <2>3
<1>10. CarriedIsKnown'
  <2> SUFFICES ASSUME NEW t \in Slots, NEW f \in Plain \ clash', request'[t].at = "ok",
                      f \in DOMAIN request'[t].sets \ DOMAIN request'[t].keeps
               PROVE  here[f] \in {0, request'[t].sets[f]}
    BY <1>1 DEF CarriedIsKnown
  <2>1. CASE t = s
    BY <2>1, <1>3, <1>7
  <2>2. CASE t # s
    BY <2>2, <1>3, <1>5 DEF IInv, CarriedIsKnown
  <2> QED
    BY <2>1, <2>2
<1>11. KnownButServed'
  <2> SUFFICES ASSUME NEW f \in Plain \ clash',
                      \A t \in Slots : request'[t].at = "ok" => f \notin DOMAIN request'[t].sets
               PROVE  here[f] \in {0, there'[f]}
    BY <1>1 DEF KnownButServed
  <2>1. f \notin DOMAIN request[s].sets
    BY <1>3, <1>7
  <2>2. \A t \in Slots : request[t].at = "ok" => f \notin DOMAIN request[t].sets
    BY <2>1, <1>3
  <2> QED
    BY <2>1, <2>2, <1>4, <1>5 DEF IInv, KnownButServed
<1> QED
  BY <1>8, <1>9, <1>10, <1>11 DEF IInv

\* A refusal tells what the server has, that a level is not known, or nothing.
LEMMA ResultValues ==
  ASSUME NEW r, NEW answer \in Results(r)
  PROVE  /\ DOMAIN answer \subseteq r.reads
         /\ \A f \in DOMAIN answer : answer[f] \in {0, there[f]}
BY QuietRequest DEF Results, Restrict

LEMMA RefuseInv ==
  ASSUME IInv, NEW s \in Slots, Refuse(s)
  PROVE  IInv'
<1>1. PICK answer \in Results(request[s]) :
        request' = [request EXCEPT ![s].at = "failed", ![s].answer = answer]
  BY DEF Refuse
<1>2. /\ request[s].at = "sent" /\ UNCHANGED <<there, here>>
      /\ Plain \ clash' \subseteq Plain \ clash
  BY DEF Refuse
<1>3. /\ DOMAIN request' = Slots
      /\ \A t \in Slots \ {s} : request'[t] = request[t]
      /\ DOMAIN request'[s] = RequestParts /\ request'[s].at = "failed"
      /\ request'[s].answer = answer
      /\ request'[s].sets = request[s].sets /\ request'[s].keeps = request[s].keeps
      /\ request'[s].reads = request[s].reads
  <2>1. \/ request' = [request EXCEPT ![s].at = "failed", ![s].answer = answer]
        \/ request' = [request EXCEPT ![s].at = "failed"] /\ answer = request[s].answer
    BY <1>1
  <2> QED
    BY <2>1, Marked
<1>4. DOMAIN answer \subseteq request[s].reads
      /\ \A f \in DOMAIN answer : answer[f] \in {0, there[f]}
  BY ResultValues
<1>5. RequestsSound'
  <2>1. \A t \in Slots : Sound(request[t])
    BY DEF IInv, RequestsSound
  <2>2. Sound(request'[s])
    BY <2>1, <1>3, <1>4 DEF Sound
  <2> QED
    BY <2>1, <2>2, <1>2, <1>3 DEF IInv, RequestsSound
<1>6. ServedIsThere'
  <2> SUFFICES ASSUME NEW t \in Slots, NEW f \in Plain \ clash'
               PROVE  /\ request'[t].at = "ok" /\ f \in DOMAIN request'[t].sets
                           => request'[t].sets[f] = there'[f]
                      /\ f \in DOMAIN Learned(request'[t])
                           => Learned(request'[t])[f] \in {0, there'[f]}
    BY DEF ServedIsThere, Learned, Heedless
  <2>1. CASE t = s
    <3>1. f \in DOMAIN Learned(request'[s])
          => f \in DOMAIN answer /\ Learned(request'[s])[f] = answer[f]
      BY <1>3, LearnedIsAnswer
    <3> QED
      BY <2>1, <3>1, <1>2, <1>3, <1>4
  <2>2. CASE t # s
    BY <2>2, <1>2, <1>3, OthersServed
  <2> QED
    BY <2>1, <2>2
<1>7. CarriedIsKnown'
  BY <1>2, <1>3 DEF IInv, CarriedIsKnown
<1>8. KnownButServed'
  BY <1>2, <1>3 DEF IInv, KnownButServed
<1> QED
  BY <1>5, <1>6, <1>7, <1>8 DEF IInv

\* Only a topic is a field of InStep that others change, and that is a clash.
LEMMA SomebodyInv ==
  ASSUME IInv, NEW f \in Fields, SomebodyChanges(f)
  PROVE  IInv'
<1>1. /\ clash' = clash \cup ({f} \cap Field({"topic"}, Discus))
      /\ here' = here /\ request' = request
      /\ f \in Field({"topic"}, Discus) \cup Field({"members"}, Groups)
  BY DEF SomebodyChanges
<1>2. PICK v : there' = Over(Renumbered({f}), [there EXCEPT ![f] = v])
  BY DEF SomebodyChanges
<1> DEFINE number == Renumbered({f})
           one == [there EXCEPT ![f] = v]
<1>3. \A g \in Plain : g \notin DOMAIN number
  BY DEF Plain, Renumbered, Seq
<1>4. DOMAIN one = DOMAIN there /\ \A g \in DOMAIN there : g /= f => one[g] = there[g]
  OBVIOUS
<1>2a. there' = Over(number, one)
  BY <1>2
<1> HIDE DEF number, one
<1>5. /\ DOMAIN there' = DOMAIN number \cup DOMAIN one
      /\ \A g \in DOMAIN one \ DOMAIN number : there'[g] = one[g]
  <2>1. /\ DOMAIN Over(number, one) = DOMAIN number \cup DOMAIN one
        /\ \A g \in DOMAIN one \ DOMAIN number : Over(number, one)[g] = one[g]
    BY Overridden
  <2> QED
    BY <1>2a, <2>1
<1>6. f \in Plain => f \in clash'
  BY <1>1 DEF Plain, Field
<1>7. \A g \in Plain \ clash' : g \in Plain \ clash /\ there'[g] = there[g]
  <2>1. Plain \subseteq DOMAIN there
    BY DEF IInv, RequestsSound, Plain
  <2> QED
    BY <2>1, <1>1, <1>3, <1>4, <1>5, <1>6
<1>8. Fields \subseteq DOMAIN there'
  BY <1>4, <1>5 DEF IInv, RequestsSound
<1>9. RequestsSound'
  BY <1>1, <1>8 DEF IInv, RequestsSound
<1>10. ServedIsThere'
  <2> SUFFICES ASSUME NEW t \in Slots, NEW g \in Plain \ clash'
               PROVE  /\ request[t].at = "ok" /\ g \in DOMAIN request[t].sets
                           => request[t].sets[g] = there'[g]
                      /\ g \in DOMAIN Learned(request[t])
                           => Learned(request[t])[g] \in {0, there'[g]}
    BY <1>1 DEF ServedIsThere, Learned, Heedless
  <2> QED
    BY <1>7 DEF IInv, ServedIsThere
<1>11. CarriedIsKnown'
  BY <1>1, <1>7 DEF IInv, CarriedIsKnown
<1>12. KnownButServed'
  BY <1>1, <1>7 DEF IInv, KnownButServed
<1> QED
  BY <1>9, <1>10, <1>11, <1>12 DEF IInv

------------------------------------------------------------------------------
(* The callbacks. *)

\* What is known after the callback of a request, of fields other than members.
LEMMA KnownFields ==
  ASSUME IInv, NEW s \in Slots, Back(s)
  PROVE  /\ Fields \subseteq DOMAIN here'
         /\ clash \subseteq clash'
         /\ \A f \in Plain \ clash' :
              \/ here'[f] = 0
              \/ /\ request[s].at = "ok" /\ f \in DOMAIN request[s].keeps
                 /\ here'[f] = request[s].keeps[f]
              \/ /\ request[s].at = "ok" => f \notin DOMAIN request[s].keeps
                 /\ f \in DOMAIN Learned(request[s])
                 /\ here'[f] = Learned(request[s])[f]
              \/ /\ request[s].at = "ok" => f \notin DOMAIN request[s].keeps
                 /\ f \notin DOMAIN Learned(request[s])
                 /\ here'[f] = here[f]
<1>1. PICK who \in Found(request[s]), stray \in Strays(request[s]) :
        /\ here' = Over(Over(stray, Over(Forgotten(request[s]), Over(Kept(request[s]),
                          Over(Learned(request[s]), Joined(request[s], who))))), here)
        /\ clash' = clash \cup DOMAIN stray
  BY DEF Back, Writes
<1> DEFINE r == request[s]
           kept == Kept(r)
           learned == Learned(r)
           joined == Joined(r, who)
           gone == Forgotten(r)
           base == Over(learned, joined)
           more == Over(kept, base)
           most == Over(gone, more)
           all == Over(stray, most)
<1>2. here' = Over(all, here)
  BY <1>1
<1>3. Plain \subseteq DOMAIN here /\ Fields \subseteq DOMAIN here
  BY DEF IInv, RequestsSound, Plain
<1>4. \A f \in Plain : f \notin DOMAIN joined
  <2>1. DOMAIN joined \subseteq {Members(r.on)}
    <3>1. CASE r.at = "ok" /\ r.adds /= {}
      BY <3>1, Single DEF Joined
    <3>2. CASE ~(r.at = "ok" /\ r.adds /= {})
      BY <3>2, QuietRequest DEF Joined
    <3> QED
      BY <3>1, <3>2
  <2> QED
    BY <2>1 DEF Plain, Members
<1>5. kept = IF r.at = "ok" THEN r.keeps ELSE Empty
  BY DEF Kept
<1>6. \A f \in DOMAIN gone : gone[f] = 0
  BY DEF Forgotten
<1> HIDE DEF kept, learned, joined, gone
<1>7. /\ DOMAIN base = DOMAIN learned \cup DOMAIN joined
      /\ \A f \in DOMAIN learned : base[f] = learned[f]
  BY Overridden
<1> HIDE DEF base
<1>8. /\ DOMAIN more = DOMAIN kept \cup DOMAIN base
      /\ \A f \in DOMAIN kept : more[f] = kept[f]
      /\ \A f \in DOMAIN base \ DOMAIN kept : more[f] = base[f]
  BY Overridden
<1> HIDE DEF more
<1>9. /\ DOMAIN most = DOMAIN gone \cup DOMAIN more
      /\ \A f \in DOMAIN gone : most[f] = gone[f]
      /\ \A f \in DOMAIN more \ DOMAIN gone : most[f] = more[f]
  BY Overridden
<1> HIDE DEF most
<1>10. /\ DOMAIN all = DOMAIN stray \cup DOMAIN most
       /\ \A f \in DOMAIN most \ DOMAIN stray : all[f] = most[f]
  BY Overridden
<1> HIDE DEF all
<1>11. /\ DOMAIN here' = DOMAIN all \cup DOMAIN here
       /\ \A f \in DOMAIN all : here'[f] = all[f]
       /\ \A f \in DOMAIN here \ DOMAIN all : here'[f] = here[f]
  <2>1. /\ DOMAIN Over(all, here) = DOMAIN all \cup DOMAIN here
        /\ \A f \in DOMAIN all : Over(all, here)[f] = all[f]
        /\ \A f \in DOMAIN here \ DOMAIN all : Over(all, here)[f] = here[f]
    BY Overridden
  <2> QED
    BY <1>2, <2>1
<1>12. Fields \subseteq DOMAIN here'
  BY <1>3, <1>11
<1>13. clash \subseteq clash' /\ \A f \in Plain \ clash' : f \notin DOMAIN stray
  BY <1>1
<1>14. ASSUME NEW f \in Plain \ clash'
       PROVE  \/ here'[f] = 0
              \/ f \in DOMAIN kept /\ here'[f] = kept[f]
              \/ f \notin DOMAIN kept /\ f \in DOMAIN learned /\ here'[f] = learned[f]
              \/ f \notin DOMAIN kept /\ f \notin DOMAIN learned /\ here'[f] = here[f]
  <2>1. f \notin DOMAIN stray /\ f \notin DOMAIN joined /\ f \in DOMAIN here
    BY <1>3, <1>4, <1>13
  <2>2. CASE f \in DOMAIN gone
    BY <2>1, <2>2, <1>6, <1>9, <1>10, <1>11
  <2>3. CASE f \notin DOMAIN gone /\ f \in DOMAIN kept
    BY <2>1, <2>3, <1>8, <1>9, <1>10, <1>11
  <2>4. CASE f \notin DOMAIN gone /\ f \notin DOMAIN kept /\ f \in DOMAIN learned
    BY <2>1, <2>4, <1>7, <1>8, <1>9, <1>10, <1>11
  <2>5. CASE f \notin DOMAIN gone /\ f \notin DOMAIN kept /\ f \notin DOMAIN learned
    <3>1. f \notin DOMAIN all
      BY <2>1, <2>5, <1>7, <1>8, <1>9, <1>10
    <3> QED
      BY <2>1, <2>5, <3>1, <1>11
  <2> QED
    BY <2>2, <2>3, <2>4, <2>5
<1>15. DOMAIN Empty = {}
  BY QuietRequest
<1> HIDE DEF r
<1>16. ASSUME NEW f \in Plain \ clash'
       PROVE  \/ here'[f] = 0
              \/ r.at = "ok" /\ f \in DOMAIN r.keeps /\ here'[f] = r.keeps[f]
              \/ /\ r.at = "ok" => f \notin DOMAIN r.keeps
                 /\ f \in DOMAIN Learned(r) /\ here'[f] = Learned(r)[f]
              \/ /\ r.at = "ok" => f \notin DOMAIN r.keeps
                 /\ f \notin DOMAIN Learned(r) /\ here'[f] = here[f]
  BY <1>5, <1>14, <1>15, <1>16 DEF learned
<1> QED
  BY <1>12, <1>13, <1>16 DEF r

\* A request whose member was freed learns no more than it did.
LEMMA FreedLearns ==
  ASSUME NEW r, NEW m, m.answer = r.answer, m.at = r.at, m.reads = r.reads, m.freed = TRUE
  PROVE  DOMAIN Learned(m) = {}
BY QuietRequest DEF Learned

\* The other requests, when a callback has run: their member may have been freed.
LEMMA OthersAfterBack ==
  ASSUME IInv, NEW s \in Slots, Back(s)
  PROVE  /\ DOMAIN request' = Slots /\ request'[s] = Quiet
         /\ \A t \in Slots \ {s} :
              /\ DOMAIN request'[t] = RequestParts
              /\ request'[t].at = request[t].at /\ request'[t].answer = request[t].answer
              /\ request'[t].sets = request[t].sets /\ request'[t].keeps = request[t].keeps
              /\ request'[t].reads = request[t].reads /\ request'[t].adds = request[t].adds
              /\ request'[t].on = request[t].on /\ request'[t].from = request[t].from
              /\ request'[t].freed \in {TRUE, request[t].freed}
              /\ \/ DOMAIN Learned(request'[t]) = {}
                 \/ request'[t] = request[t]
<1> DEFINE freed == {t \in Slots \ {s} : request[t].reads \cap DOMAIN Forgotten(request[s]) /= {}}
<1>1. request' = [t \in Slots |->
                    IF t = s THEN Quiet
                    ELSE IF t \in freed THEN [request[t] EXCEPT !.freed = TRUE]
                    ELSE request[t]]
  BY DEF Back
<1> HIDE DEF freed
<1>2. ASSUME NEW t \in Slots \ {s}
      PROVE  /\ DOMAIN request'[t] = RequestParts
             /\ request'[t].at = request[t].at /\ request'[t].answer = request[t].answer
             /\ request'[t].sets = request[t].sets /\ request'[t].keeps = request[t].keeps
             /\ request'[t].reads = request[t].reads /\ request'[t].adds = request[t].adds
             /\ request'[t].on = request[t].on /\ request'[t].from = request[t].from
             /\ request'[t].freed \in {TRUE, request[t].freed}
             /\ \/ DOMAIN Learned(request'[t]) = {}
                \/ request'[t] = request[t]
  <2>1. DOMAIN request[t] = RequestParts
    BY DEF IInv, RequestsSound, Sound
  <2>2. CASE t \notin freed
    BY <1>1, <2>1, <2>2
  <2>3. CASE t \in freed
    <3> DEFINE m == [request[t] EXCEPT !.freed = TRUE]
    <3>1. /\ DOMAIN m = RequestParts /\ m.at = request[t].at /\ m.answer = request[t].answer
          /\ m.sets = request[t].sets /\ m.keeps = request[t].keeps
          /\ m.reads = request[t].reads /\ m.adds = request[t].adds
          /\ m.on = request[t].on /\ m.from = request[t].from /\ m.freed = TRUE
      BY <2>1, MarkedRequest
    <3>2. request'[t] = m
      BY <1>1, <2>3
    <3> HIDE DEF m
    <3>3. DOMAIN Learned(m) = {}
      BY <3>1, FreedLearns
    <3> QED
      BY <3>1, <3>2, <3>3
  <2> QED
    BY <2>2, <2>3
<1> QED
  BY <1>1, <1>2

LEMMA BackInv ==
  ASSUME IInv, NEW s \in Slots, Back(s)
  PROVE  IInv'
<1>1. request[s].at \in {"ok", "failed"} /\ there' = there
  BY DEF Back
<1>2. /\ DOMAIN request' = Slots /\ request'[s] = Quiet
      /\ \A t \in Slots \ {s} :
           /\ DOMAIN request'[t] = RequestParts
           /\ request'[t].at = request[t].at /\ request'[t].answer = request[t].answer
           /\ request'[t].sets = request[t].sets /\ request'[t].keeps = request[t].keeps
           /\ request'[t].reads = request[t].reads
           /\ \/ DOMAIN Learned(request'[t]) = {}
              \/ request'[t] = request[t]
  BY OthersAfterBack
<1>3. /\ Fields \subseteq DOMAIN here'
      /\ Plain \ clash' \subseteq Plain \ clash
      /\ \A f \in Plain \ clash' :
           \/ here'[f] = 0
           \/ /\ request[s].at = "ok" /\ f \in DOMAIN request[s].keeps
              /\ here'[f] = request[s].keeps[f]
           \/ /\ request[s].at = "ok" => f \notin DOMAIN request[s].keeps
              /\ f \in DOMAIN Learned(request[s])
              /\ here'[f] = Learned(request[s])[f]
           \/ /\ request[s].at = "ok" => f \notin DOMAIN request[s].keeps
              /\ f \notin DOMAIN Learned(request[s])
              /\ here'[f] = here[f]
  BY KnownFields
<1>4. \A t \in Slots : Sound(request[t])
  BY DEF IInv, RequestsSound
<1>5. RequestsSound'
  <2>1. ASSUME NEW t \in Slots
        PROVE  /\ Sound(request'[t])
               /\ request'[t].at \in {"idle", "sent", "ok", "failed"}
               /\ request'[t].at \in {"idle", "sent"} => DOMAIN request'[t].answer = {}
    <3>1. CASE t = s
      BY <3>1, <1>2, QuietRequest
    <3>2. CASE t # s
      BY <3>2, <1>2, <1>4 DEF Sound, IInv, RequestsSound
    <3> QED
      BY <3>1, <3>2
  <2> QED
    BY <1>1, <1>2, <1>3, <2>1 DEF IInv, RequestsSound
\* What a callback has written, where nothing else changed the field.
<1>6. ASSUME NEW f \in Plain \ clash'
      PROVE  here'[f] \in {0, there[f], here[f]}
  <2>1. request[s].at = "ok" /\ f \in DOMAIN request[s].keeps => request[s].keeps[f] = there[f]
    BY <1>3, <1>4 DEF Sound, IInv, ServedIsThere
  <2>2. f \in DOMAIN Learned(request[s]) => Learned(request[s])[f] \in {0, there[f]}
    BY <1>3 DEF IInv, ServedIsThere
  <2> QED
    BY <2>1, <2>2, <1>3
<1>7. ServedIsThere'
  <2> SUFFICES ASSUME NEW t \in Slots, NEW f \in Plain \ clash'
               PROVE  /\ request'[t].at = "ok" /\ f \in DOMAIN request'[t].sets
                           => request'[t].sets[f] = there[f]
                      /\ f \in DOMAIN Learned(request'[t])
                           => Learned(request'[t])[f] \in {0, there[f]}
    BY <1>1 DEF ServedIsThere, Learned, Heedless
  <2>1. CASE t = s
    BY <2>1, <1>2, QuietRequest, LearnedIsAnswer
  <2>2. CASE t # s
    BY <2>2, <1>2, <1>3 DEF IInv, ServedIsThere
  <2> QED
    BY <2>1, <2>2
<1>8. CarriedIsKnown'
  <2> SUFFICES ASSUME NEW t \in Slots, NEW f \in Plain \ clash', request'[t].at = "ok",
                      f \in DOMAIN request'[t].sets \ DOMAIN request'[t].keeps
               PROVE  here'[f] \in {0, request'[t].sets[f]}
    BY DEF CarriedIsKnown
  <2>1. t # s
    BY <1>2, QuietRequest
  <2>2. /\ request[t].at = "ok" /\ request'[t].sets = request[t].sets
        /\ f \in DOMAIN request[t].sets \ DOMAIN request[t].keeps
    BY <2>1, <1>2
  <2>3. here[f] \in {0, request[t].sets[f]} /\ request[t].sets[f] = there[f]
    BY <2>2, <1>3 DEF IInv, CarriedIsKnown, ServedIsThere
  <2> QED
    BY <2>2, <2>3, <1>6
<1>9. KnownButServed'
  <2> SUFFICES ASSUME NEW f \in Plain \ clash',
                      \A t \in Slots : request'[t].at = "ok" => f \notin DOMAIN request'[t].sets
               PROVE  here'[f] \in {0, there[f]}
    BY <1>1 DEF KnownButServed
  <2>1. \A t \in Slots \ {s} : request[t].at = "ok" => f \notin DOMAIN request[t].sets
    BY <1>2
  <2>2. CASE request[s].at = "ok" /\ f \in DOMAIN request[s].sets
    <3>1. request[s].sets[f] = there[f]
      BY <2>2, <1>3 DEF IInv, ServedIsThere
    <3>2. CASE f \in DOMAIN request[s].keeps
      <4>1. request[s].keeps[f] = there[f]
        BY <3>1, <3>2, <1>4 DEF Sound
      <4> QED
        BY <2>2, <3>2, <4>1, <1>3
    <3>3. CASE f \notin DOMAIN request[s].keeps
      <4>1. here[f] \in {0, there[f]}
        BY <2>2, <3>1, <3>3, <1>3 DEF IInv, CarriedIsKnown
      <4> QED
        BY <4>1, <1>6
    <3> QED
      BY <3>2, <3>3
  <2>3. CASE ~(request[s].at = "ok" /\ f \in DOMAIN request[s].sets)
    <3>1. here[f] \in {0, there[f]}
      BY <2>1, <2>3, <1>3 DEF IInv, KnownButServed
    <3> QED
      BY <3>1, <1>6
  <2> QED
    BY <2>2, <2>3
<1> QED
  BY <1>5, <1>7, <1>8, <1>9 DEF IInv

------------------------------------------------------------------------------
LEMMA StepInv == IInv /\ [Next]_vars => IInv'
<1> SUFFICES ASSUME IInv, [Next]_vars PROVE IInv'
  OBVIOUS
<1>1. CASE UNCHANGED vars
  BY <1>1
  DEF vars, IInv, RequestsSound, ServedIsThere, CarriedIsKnown, KnownButServed, Learned,
      Heedless
<1>2. CASE Call(CallOnClient)
  BY <1>2, CallOnClientInv DEF Call
<1>3. CASE \E b \in Buddies : Call(CallOnBuddy(b))
  BY <1>3, CallOnBuddyInv DEF Call
<1>4. CASE \E g \in Quns : Call(CallOnQun(g))
  BY <1>4, CallOnQunInv DEF Call
<1>5. CASE \E d \in Discus : Call(CallOnDiscu(d)) \/ MessageIn(d)
  BY <1>5, CallOnDiscuInv, MessageInInv DEF Call
<1>6. CASE \E f \in Fields : SomebodyChanges(f)
  BY <1>6, SomebodyInv
<1>7. CASE \E s \in Slots : Serve(s) \/ Refuse(s) \/ Back(s)
  BY <1>7, ServeInv, RefuseInv, BackInv
<1> QED
  BY <1>1, <1>2, <1>3, <1>4, <1>5, <1>6, <1>7 DEF Next

\* The client and the server keep agreeing, whatever the application, the server and
\* others do (do_change_markname and the other callbacks).
THEOREM Invariance == Spec => []IInv
BY InitInv, StepInv, PTL DEF Spec

\* What the client knows of a field that nothing is under way for is what the server
\* has, whatever requests about it overlapped: unless the server served two of them
\* before one was handled, an answer to a change was lost, or somebody else changed it
\* (do_change_markname and the other callbacks, process_qqnumber and its like).
THEOREM KnownAsServed == Spec => []InStep
<1>1. IInv => InStep
  <2> SUFFICES ASSUME IInv, NEW f \in Fields, f[1] \notin {"members", "seq", "card"},
                      Settled(f), f \notin clash
               PROVE  here[f] \in {0, there[f]}
    BY DEF InStep
  <2>1. f \in Plain \ clash
    BY DEF Plain
  <2>2. \A s \in Slots : request[s].at = "ok" => f \notin DOMAIN request[s].sets
    BY DEF Settled, Busy, Touches
  <2> QED
    BY <2>1, <2>2 DEF IInv, KnownButServed
<1> QED
  BY <1>1, Invariance, PTL

------------------------------------------------------------------------------
(* What the fields hold: members are people, all else is the number of a change. *)

Values(f, n) == IF f[1] = "members" THEN SUBSET People ELSE 0 .. n
Typed(v, n) == DOMAIN v \subseteq Fields /\ \A f \in DOMAIN v : v[f] \in Values(f, n)

TypedRequest(r, n) ==
  /\ Typed(r.sets, n) /\ Typed(r.keeps, n) /\ Typed(r.answer, n)
  /\ r.reads \subseteq Fields /\ r.adds \subseteq People
  /\ r.adds # {} => r.on \in Discus
  /\ r.from \in Quns \cup {Myself} /\ r.freed \in BOOLEAN

Types ==
  /\ changes \in Nat
  /\ DOMAIN there = Fields /\ Typed(there, changes)
  /\ DOMAIN here = Fields /\ Typed(here, changes)
  /\ \A s \in Slots : TypedRequest(request[s], changes)
  /\ clash \subseteq Fields

Counts == calls \in 0 .. MaxCalls /\ others \in 0 .. MaxOthers

\* Values stay values when there are more changes.
LEMMA TypedLater ==
  ASSUME NEW v, NEW n \in Nat, NEW m \in Nat, n <= m, Typed(v, n)
  PROVE  Typed(v, m)
BY DEF Typed, Values

LEMMA RequestTypedLater ==
  ASSUME NEW r, NEW n \in Nat, NEW m \in Nat, n <= m, TypedRequest(r, n)
  PROVE  TypedRequest(r, m)
BY TypedLater DEF TypedRequest

\* New values over old ones, one value, and none.
LEMMA TypedOver ==
  ASSUME NEW new, NEW old, NEW n, Typed(new, n), Typed(old, n)
  PROVE  Typed(Over(new, old), n) /\ DOMAIN Over(new, old) = DOMAIN new \cup DOMAIN old
<1>1. /\ DOMAIN Over(new, old) = DOMAIN new \cup DOMAIN old
      /\ \A f \in DOMAIN new : Over(new, old)[f] = new[f]
      /\ \A f \in DOMAIN old \ DOMAIN new : Over(new, old)[f] = old[f]
  BY Overridden
<1> QED
  BY <1>1 DEF Typed

LEMMA TypedOne ==
  ASSUME NEW f \in Fields, NEW n, NEW v \in Values(f, n)
  PROVE  Typed(One(f, v), n)
<1>1. DOMAIN One(f, v) = {f} /\ One(f, v)[f] = v
  BY Single
<1> QED
  BY <1>1 DEF Typed

LEMMA TypedEmpty == \A n : Typed(Empty, n)
BY QuietRequest DEF Typed

\* A discussion has members and a number.
LEMMA DiscuHas ==
  ASSUME NEW d \in Discus
  PROVE  Members(d) \in Fields /\ Seq(d) \in Fields
BY DEF Fields, DiscuFields, Field, Members, Seq

\* A part of what there is.
LEMMA TypedRestrict ==
  ASSUME NEW v, NEW n, NEW fields, Typed(v, n), DOMAIN v = Fields, fields \subseteq Fields
  PROVE  Typed(Restrict(v, fields), n)
BY DEF Typed, Restrict

LEMMA InitTypes == Init => Types /\ Counts
<1> SUFFICES ASSUME Init PROVE Types /\ Counts
  OBVIOUS
<1> USE DEF Init
<1>1. Typed(there, 1) /\ Typed(here, 1) /\ changes = 1
  BY DEF Typed, Values
<1>2. TypedRequest(Quiet, 1)
  BY QuietRequest, TypedEmpty DEF TypedRequest
<1> QED
  BY <1>1, <1>2, DetailsAssumption DEF Types, Counts

\* A request that is sent has values that there are when it is sent.
LEMMA SubmitTypes ==
  ASSUME IInv, Types, NEW r, DOMAIN r = RequestParts, changes' \in Nat, changes <= changes',
         TypedRequest(r, changes'), Submit(r)
  PROVE  Types'
<1> DEFINE q == [r EXCEPT !.at = "sent"]
<1>1. PICK n \in Slots : n = FreeSlot /\ ~Busy(n)
  BY DEF Submit, FreeSlot
<1>2. /\ request' = [request EXCEPT ![n] = q]
      /\ UNCHANGED <<there, here, clash>>
  BY <1>1 DEF Submit
<1>3. TypedRequest(q, changes')
  <2>1. /\ q.answer = r.answer /\ q.sets = r.sets /\ q.keeps = r.keeps
        /\ q.reads = r.reads /\ q.adds = r.adds /\ q.on = r.on
        /\ q.from = r.from /\ q.freed = r.freed
    BY MarkedRequest
  <2> HIDE DEF q
  <2> QED
    BY <2>1 DEF TypedRequest
<1> HIDE DEF q
<1>4. \A s \in Slots : request'[s] = IF s = n THEN q ELSE request[s]
  BY <1>1, <1>2 DEF IInv, RequestsSound
<1>5. \A s \in Slots : TypedRequest(request'[s], changes')
  BY <1>3, <1>4, RequestTypedLater DEF Types
<1>6. Typed(there, changes') /\ Typed(here, changes')
  BY TypedLater DEF Types
<1> QED
  BY <1>2, <1>5, <1>6 DEF Types

\* The requests that the functions of info.c build.
LEMMA AskTypes ==
  ASSUME IInv, Types, NEW on, NEW names, Field(names, {on}) \subseteq Fields, Ask(on, names)
  PROVE  Types'
<1> DEFINE r == [Quiet EXCEPT !.on = on, !.reads = Field(names, {on})]
<1>1. /\ DOMAIN r = RequestParts /\ r.sets = Empty /\ r.keeps = Empty /\ r.answer = Empty
      /\ r.reads = Field(names, {on}) /\ r.adds = {} /\ r.from = Myself /\ r.freed = FALSE
  BY DEF Quiet, RequestParts
<1>2. Submit(r) /\ changes' = changes
  BY DEF Ask
<1> HIDE DEF r
<1>3. TypedRequest(r, changes')
  BY <1>1, TypedEmpty DEF TypedRequest
<1> QED
  BY <1>1, <1>2, <1>3, SubmitTypes DEF Types

LEMMA AskAllTypes ==
  ASSUME IInv, Types, NEW fields \in SUBSET Fields, AskAll(fields)
  PROVE  Types'
<1> DEFINE r == [Quiet EXCEPT !.reads = fields]
<1>1. /\ DOMAIN r = RequestParts /\ r.sets = Empty /\ r.keeps = Empty /\ r.answer = Empty
      /\ r.reads = fields /\ r.adds = {} /\ r.from = Myself /\ r.freed = FALSE
  BY DEF Quiet, RequestParts
<1>2. Submit(r) /\ changes' = changes
  BY DEF AskAll
<1> HIDE DEF r
<1>3. TypedRequest(r, changes')
  BY <1>1, TypedEmpty DEF TypedRequest
<1> QED
  BY <1>1, <1>2, <1>3, SubmitTypes DEF Types

LEMMA ChangeTypes ==
  ASSUME IInv, Types, NEW on, NEW name, name # "members", <<name, on>> \in Fields,
         NEW keep \in BOOLEAN, Change(on, name, keep)
  PROVE  Types'
<1> DEFINE one == One(<<name, on>>, Fresh)
           kept == IF keep THEN one ELSE Empty
           r == [Quiet EXCEPT !.on = on, !.sets = one, !.keeps = kept]
<1>1. /\ DOMAIN r = RequestParts /\ r.sets = one /\ r.keeps = kept /\ r.answer = Empty
      /\ r.reads = {} /\ r.adds = {} /\ r.from = Myself /\ r.freed = FALSE
  BY DEF Quiet, RequestParts
<1>2. Submit(r) /\ changes' = Fresh
  BY DEF Change
<1>3. Fresh \in Nat /\ changes <= Fresh /\ Fresh \in Values(<<name, on>>, Fresh)
  BY DEF Types, Fresh, Values
<1>4. Typed(one, Fresh)
  BY <1>3, TypedOne
<1> HIDE DEF one
<1>5. Typed(kept, Fresh)
  BY <1>4, TypedEmpty
<1> HIDE DEF kept, r
<1>6. TypedRequest(r, changes')
  BY <1>1, <1>2, <1>4, <1>5, TypedEmpty DEF TypedRequest
<1> QED
  BY <1>1, <1>2, <1>3, <1>6, SubmitTypes

LEMMA MaskTypes ==
  ASSUME IInv, Types, NEW g \in Groups, MaskGroup(g)
  PROVE  Types'
<1> DEFINE one == One(<<"mask", g>>, Fresh)
           all == Masks(g)
           r == [Quiet EXCEPT !.on = g, !.sets = all, !.keeps = one]
<1>1. /\ DOMAIN r = RequestParts /\ r.sets = all /\ r.keeps = one /\ r.answer = Empty
      /\ r.reads = {} /\ r.adds = {} /\ r.from = Myself /\ r.freed = FALSE
  BY DEF Quiet, RequestParts
<1>2. Submit(r) /\ changes' = Fresh
  BY DEF MaskGroup
<1>3. Fresh \in Nat /\ changes <= Fresh /\ Fresh \in 0 .. Fresh
  BY DEF Types, Fresh
<1>4. <<"mask", g>> \in Fields
  BY DEF Fields, QunFields, DiscuFields, Field, Groups
<1>5. Typed(one, Fresh)
  BY <1>3, <1>4, TypedOne DEF Values
<1>6. Typed(all, Fresh)
  <2>1. DOMAIN all \subseteq Fields /\ \A f \in DOMAIN all : f[1] = "mask"
    BY DEF Masks, SameKind, Fields, QunFields, DiscuFields, Field, Groups
  <2>2. \A f \in DOMAIN all : all[f] = Fresh \/ all[f] = here[f]
    BY DEF Masks
  <2> HIDE DEF all
  <2>3. Typed(here, Fresh) /\ DOMAIN here = Fields
    BY <1>3, TypedLater DEF Types
  <2> QED
    BY <1>3, <2>1, <2>2, <2>3 DEF Typed, Values
<1> HIDE DEF one, all, r
<1>7. TypedRequest(r, changes')
  BY <1>1, <1>2, <1>5, <1>6, TypedEmpty DEF TypedRequest
<1> QED
  BY <1>1, <1>2, <1>3, <1>7, SubmitTypes

LEMMA AddTypes ==
  ASSUME IInv, Types, NEW d \in Discus, NEW from \in Quns \cup {Myself},
         NEW who \in SUBSET People, ChangeDiscuMem(d, from, who)
  PROVE  Types'
<1> DEFINE r == [Quiet EXCEPT !.on = d, !.adds = who, !.from = from]
<1>1. /\ DOMAIN r = RequestParts /\ r.sets = Empty /\ r.keeps = Empty /\ r.answer = Empty
      /\ r.reads = {} /\ r.adds = who /\ r.on = d /\ r.from = from /\ r.freed = FALSE
  BY DEF Quiet, RequestParts
<1>2. Submit(r) /\ changes' = changes
  BY DEF ChangeDiscuMem
<1> HIDE DEF r
<1>3. TypedRequest(r, changes')
  BY <1>1, TypedEmpty DEF TypedRequest
<1> QED
  BY <1>1, <1>2, <1>3, SubmitTypes DEF Types

\* Every function of info.c asks for fields that there are.
LEMMA CallTypes ==
  ASSUME IInv, Types,
         \/ CallOnClient
         \/ \E b \in Buddies : CallOnBuddy(b)
         \/ \E g \in Quns : CallOnQun(g)
         \/ \E d \in Discus : CallOnDiscu(d) \/ MessageIn(d)
  PROVE  Types'
<1>1. CASE CallOnClient
  <2>1. /\ Field({"mark", "category"}, Buddies) \subseteq Fields
        /\ Field({"mask", "mark"}, Quns) \subseteq Fields
        /\ Field({"topic", "mask"}, Discus) \subseteq Fields
        /\ \A named \in SUBSET Buddies : Field({"status"}, named) \subseteq Fields
        /\ Field({"recent"}, {Myself}) \subseteq Fields
        /\ <<"status", Myself>> \in Fields /\ <<"long_nick", Myself>> \in Fields
    BY DEF Fields, BuddyFields, QunFields, DiscuFields, SelfFields, Field
  <2> QED
    BY <1>1, <2>1, AskTypes, AskAllTypes, ChangeTypes
    DEF CallOnClient, GetFriendsInfo, GetGroupNameList, GetDiscuNameList, GetOnlineBuddies,
        RecentList, ChangeStatus, SetSelfLongNick
<1>2. ASSUME NEW b \in Buddies, CallOnBuddy(b) PROVE Types'
  <2>1. /\ Field({"detail", "status", "number"}, {b}) \subseteq Fields
        /\ Field({"number"}, {b}) \subseteq Fields /\ Field({"avatar"}, {b}) \subseteq Fields
        /\ Field({"level"}, {b}) \subseteq Fields /\ Field({"long_nick"}, {b}) \subseteq Fields
        /\ <<"mark", b>> \in Fields /\ <<"category", b>> \in Fields
    BY DEF Fields, BuddyFields, Field
  <2> QED
    BY <1>2, <2>1, AskTypes, ChangeTypes
    DEF CallOnBuddy, GetFriendDetailInfo, GetStrangerInfo, GetStrangerInfoByMsg, GetQqnumber,
        GetAvatar, GetLevel, GetSingleLongNick, ChangeBuddyMarkname, ModifyBuddyCategory
<1>3. ASSUME NEW g \in Groups PROVE Field(DetailFields(g), {g}) \subseteq Fields
  BY <1>3 DEF DetailFields, Groups, Fields, QunFields, DiscuFields, Field
<1>3a. ASSUME NEW g \in Groups, NEW m \in People, GetGroupSig(g, m) PROVE Types'
  <2>1. Field({"sig"}, {<<g, m>>}) \subseteq Fields
    BY DEF Fields, MemberFields, Field
  <2> QED
    BY <1>3a, <2>1, AskTypes DEF GetGroupSig
<1>4. ASSUME NEW g \in Quns, CallOnQun(g) PROVE Types'
  <2>1. /\ Field({"number"}, {g}) \subseteq Fields /\ Field({"avatar"}, {g}) \subseteq Fields
        /\ Field({"memo"}, {g}) \subseteq Fields /\ Field({"info"}, {g}) \subseteq Fields
        /\ Field({"card"}, {g}) \subseteq Fields
        /\ <<"mark", g>> \in Fields /\ <<"card", g>> \in Fields /\ g \in Groups
    BY DEF Fields, QunFields, Field, Groups
  <2> QED
    BY <1>3, <1>3a, <1>4, <2>1, AskTypes, ChangeTypes, MaskTypes
    DEF CallOnQun, GetGroupDetailInfo, GetQqnumber, GetAvatar, GetGroupMemo, GetGroupPublicInfo,
        GetSelfCard, SetSelfCard, ChangeGroupMarkname
<1>5. ASSUME NEW d \in Discus, CallOnDiscu(d) \/ MessageIn(d) PROVE Types'
  <2>1. <<"topic", d>> \in Fields /\ d \in Groups
    BY DEF Fields, DiscuFields, Field, Groups
  <2> QED
    BY <1>3, <1>3a, <1>5, <2>1, AskTypes, ChangeTypes, MaskTypes, AddTypes
    DEF CallOnDiscu, GetGroupDetailInfo, ChangeDiscuTopic, MessageIn
<1> QED
  BY <1>1, <1>2, <1>4, <1>5

\* A change gives the discussions that it is about the next number.
LEMMA RenumberedTyped ==
  ASSUME NEW fields, changes \in Nat
  PROVE  /\ DOMAIN Renumbered(fields) \subseteq Fields
         /\ Typed(Renumbered(fields), Fresh)
         /\ DOMAIN Renumbered(fields) = {} => Renumbered(fields) = Empty
<1>1. \A f \in DOMAIN Renumbered(fields) :
        f \in Fields /\ f[1] = "seq" /\ Renumbered(fields)[f] = Fresh
  BY DiscuHas DEF Renumbered, Seq
<1>2. Fresh \in 0 .. Fresh
  BY DEF Fresh
<1>3. DOMAIN Renumbered(fields) = {} => Renumbered(fields) = Empty
  BY DEF Renumbered, Empty
<1> QED
  BY <1>1, <1>2, <1>3 DEF Typed, Values

\* What a request that was served or refused is, when its answer is typed.
LEMMA AnswerTypes ==
  ASSUME IInv, Types, NEW s \in Slots, NEW at, NEW answer, Typed(answer, changes),
         \/ request' = [request EXCEPT ![s].at = at, ![s].answer = answer]
         \/ request' = [request EXCEPT ![s].at = at] /\ answer = request[s].answer
  PROVE  \A x \in Slots : TypedRequest(request'[x], changes)
<1>1. /\ \A t \in Slots \ {s} : request'[t] = request[t]
      /\ request'[s].answer = answer
      /\ request'[s].sets = request[s].sets /\ request'[s].keeps = request[s].keeps
      /\ request'[s].reads = request[s].reads /\ request'[s].adds = request[s].adds
      /\ request'[s].on = request[s].on /\ request'[s].from = request[s].from
      /\ request'[s].freed = request[s].freed
  BY Marked
<1>2. \A x \in Slots : TypedRequest(request[x], changes)
  BY DEF Types
<1> QED
  BY <1>1, <1>2 DEF TypedRequest

LEMMA JoiningTyped == \A s \in Slots : Joining(s) \subseteq Fields
BY DiscuHas DEF Joining

LEMMA ServeTypes ==
  ASSUME IInv, Types, NEW s \in Slots, Serve(s)
  PROVE  Types'
<1> DEFINE r == request[s]
           added == IF r.adds = {} THEN Empty
                    ELSE One(Members(r.on), there[Members(r.on)] \cup r.adds)
           number == Renumbered(DOMAIN r.sets \cup DOMAIN added)
           most == Over(added, r.sets)
           all == Over(number, most)
           asked == Restrict(there, r.reads)
<1>1. /\ there' = Over(all, there) /\ here' = here
      /\ changes' = IF number = Empty THEN changes ELSE Fresh
  BY DEF Serve
<1>2. \/ /\ request' = [request EXCEPT ![s].at = "ok", ![s].answer = asked]
         /\ clash' = clash \cup Overtaken(s) \cup Joining(s)
      \/ /\ request' = [request EXCEPT ![s].at = "failed"]
         /\ clash' = clash \cup DOMAIN r.sets
  BY DEF Serve
<1>3. /\ TypedRequest(r, changes) /\ changes \in Nat /\ Fresh \in Nat /\ changes <= Fresh
      /\ Typed(there, changes) /\ DOMAIN there = Fields
  BY DEF Types, Fresh
<1>4. changes' \in Nat /\ changes <= changes'
  BY <1>1, <1>3
<1>5. Typed(added, changes)
  <2>1. CASE r.adds = {}
    BY <2>1, TypedEmpty
  <2>2. CASE r.adds # {}
    <3>1. Members(r.on) \in Fields /\ r.adds \subseteq People
      BY <2>2, <1>3, DiscuHas DEF TypedRequest
    <3>2. there[Members(r.on)] \in SUBSET People /\ Members(r.on)[1] = "members"
      BY <3>1 DEF Types, Typed, Values, Members
    <3>3. there[Members(r.on)] \cup r.adds \in Values(Members(r.on), changes)
      BY <3>1, <3>2 DEF Values
    <3> QED
      BY <2>2, <3>1, <3>3, TypedOne
  <2> QED
    BY <2>1, <2>2
<1>6. DOMAIN number \subseteq Fields /\ Typed(number, changes')
  <2>1. /\ DOMAIN number \subseteq Fields /\ Typed(number, Fresh)
        /\ DOMAIN number = {} => number = Empty
    BY <1>3, RenumberedTyped
  <2> HIDE DEF number
  <2> QED
    BY <1>1, <2>1, TypedEmpty
<1>7. Typed(asked, changes)
  BY <1>3, TypedRestrict DEF TypedRequest
<1>8. Overtaken(s) \cup Joining(s) \cup DOMAIN r.sets \subseteq Fields
  BY <1>3, JoiningTyped DEF Overtaken, TypedRequest, Typed
<1> HIDE DEF number, added, asked
<1>9. Typed(added, changes') /\ Typed(r.sets, changes') /\ Typed(there, changes')
      /\ Typed(here, changes')
  BY <1>3, <1>4, <1>5, TypedLater DEF Types, TypedRequest
<1>10. Typed(most, changes')
  BY <1>9, TypedOver
<1> HIDE DEF most
<1>11. Typed(all, changes')
  BY <1>6, <1>10, TypedOver
<1> HIDE DEF all
<1>12. Typed(there', changes') /\ DOMAIN there' = Fields
  <2>1. Typed(Over(all, there), changes') /\ DOMAIN Over(all, there) = Fields
    <3>1. DOMAIN all \subseteq Fields
      BY <1>11 DEF Typed
    <3>2. Typed(Over(all, there), changes') /\ DOMAIN Over(all, there) = DOMAIN all \cup DOMAIN there
      BY <1>9, <1>11, TypedOver
    <3> QED
      BY <3>1, <3>2, <1>3
  <2> QED
    BY <1>1, <2>1
<1>13. \A x \in Slots : TypedRequest(request'[x], changes)
  <2>1. CASE request' = [request EXCEPT ![s].at = "ok", ![s].answer = asked]
    BY <2>1, <1>7, AnswerTypes
  <2>2. CASE request' = [request EXCEPT ![s].at = "failed"]
    <3>1. Typed(request[s].answer, changes)
      BY <1>3 DEF TypedRequest, r
    <3> QED
      BY <2>2, <3>1, AnswerTypes
  <2> QED
    BY <1>2, <2>1, <2>2
<1>14. \A x \in Slots : TypedRequest(request'[x], changes')
  BY <1>3, <1>4, <1>13, RequestTypedLater
<1>15. clash' \subseteq Fields
  BY <1>2, <1>8 DEF Types
<1> QED
  BY <1>1, <1>4, <1>9, <1>12, <1>14, <1>15 DEF Types

LEMMA SomebodyTypes ==
  ASSUME Types, NEW f \in Fields, SomebodyChanges(f)
  PROVE  Types'
<1> DEFINE number == Renumbered({f})
<1>1. PICK v \in (IF f[1] = "members" THEN SUBSET People \ {there[f]} ELSE {Fresh}) :
        there' = Over(number, [there EXCEPT ![f] = v])
  BY DEF SomebodyChanges
<1>2. /\ changes' = Fresh /\ here' = here /\ request' = request
      /\ clash' \subseteq clash \cup {f}
  BY DEF SomebodyChanges
<1>3. changes \in Nat /\ Fresh \in Nat /\ changes <= Fresh /\ Fresh \in 0 .. Fresh
  BY DEF Types, Fresh
<1>4. Typed(there, Fresh) /\ Typed(here, Fresh) /\ DOMAIN there = Fields
  BY <1>3, TypedLater DEF Types
<1> DEFINE most == [there EXCEPT ![f] = v]
<1>5. Typed(most, Fresh) /\ DOMAIN most = Fields
  <2>1. v \in Values(f, Fresh)
    BY <1>1, <1>3 DEF Values
  <2> QED
    BY <1>4, <2>1 DEF Typed
<1>6. DOMAIN number \subseteq Fields /\ Typed(number, Fresh)
  BY <1>3, RenumberedTyped
<1> HIDE DEF number, most
<1>7. Typed(Over(number, most), Fresh) /\ DOMAIN Over(number, most) = Fields
  BY <1>5, <1>6, TypedOver
<1>8. there' = Over(number, most)
  BY <1>1 DEF most
<1>9. \A s \in Slots : TypedRequest(request[s], Fresh)
  BY <1>3, RequestTypedLater DEF Types
<1> QED
  BY <1>2, <1>3, <1>4, <1>7, <1>8, <1>9 DEF Types

LEMMA RefuseTypes ==
  ASSUME IInv, Types, NEW s \in Slots, Refuse(s)
  PROVE  Types'
<1> DEFINE r == request[s]
<1>1. PICK answer \in Results(r) :
        request' = [request EXCEPT ![s].at = "failed", ![s].answer = answer]
  BY DEF Refuse
<1>2. /\ clash' = clash \cup Joining(s)
      /\ UNCHANGED <<there, here, changes>>
  BY DEF Refuse
<1>3. r.reads \subseteq Fields /\ Typed(there, changes) /\ DOMAIN there = Fields /\ changes \in Nat
  BY DEF Types, TypedRequest
<1>4. Typed([f \in {x \in r.reads : x[1] = "level"} |-> 0], changes)
  BY <1>3 DEF Typed, Values
<1>5. Typed(answer, changes)
  <2>1. Typed(Restrict(there, r.reads), changes)
    BY <1>3, TypedRestrict
  <2> QED
    BY <1>4, <2>1, TypedEmpty DEF Results
<1>6. \A x \in Slots : TypedRequest(request'[x], changes)
  BY <1>1, <1>5, AnswerTypes
<1> QED
  BY <1>2, <1>6, JoiningTyped DEF Types

\* What a callback writes to another member is a signature.
LEMMA StrayTyped ==
  ASSUME NEW r, NEW n, TypedRequest(r, n), NEW stray \in Strays(r)
  PROVE  Typed(stray, n)
<1>1. CASE stray = Empty
  BY <1>1, TypedEmpty
<1>2. ASSUME NEW f \in MemberFields, NEW q \in DOMAIN r.answer \cap MemberFields,
             stray = One(f, r.answer[q])
      PROVE  Typed(stray, n)
  <2>1. f \in Fields /\ f[1] = "sig" /\ q[1] = "sig"
    BY DEF Fields, MemberFields, Field
  <2>2. r.answer[q] \in Values(q, n)
    BY DEF TypedRequest, Typed
  <2>3. r.answer[q] \in Values(f, n)
    BY <2>1, <2>2 DEF Values
  <2> QED
    BY <1>2, <2>1, <2>3, TypedOne
<1> QED
  BY <1>1, <1>2 DEF Strays

\* People of a discussion, and those that join them.
LEMMA JoinedTyped ==
  ASSUME Types, NEW r, TypedRequest(r, changes), NEW who \in Found(r)
  PROVE  Typed(Joined(r, who), changes)
<1>1. CASE ~(r.at = "ok" /\ r.adds # {})
  BY <1>1, TypedEmpty DEF Joined
<1>2. CASE r.at = "ok" /\ r.adds # {}
  <2>1. Members(r.on) \in Fields /\ r.adds \subseteq People
    BY <1>2, DiscuHas DEF TypedRequest
  <2>2. who \subseteq r.adds
    BY DEF Found
  <2>3. here[Members(r.on)] \in SUBSET People /\ Members(r.on)[1] = "members"
    BY <2>1 DEF Types, Typed, Values, Members
  <2>4. here[Members(r.on)] \cup who \in Values(Members(r.on), changes)
    BY <2>1, <2>2, <2>3 DEF Values
  <2>5. Joined(r, who) = One(Members(r.on), here[Members(r.on)] \cup who)
    BY <1>2 DEF Joined
  <2> QED
    BY <2>1, <2>4, <2>5, TypedOne
<1> QED
  BY <1>1, <1>2

LEMMA BackTypes ==
  ASSUME IInv, Types, NEW s \in Slots, Back(s)
  PROVE  Types'
<1> DEFINE r == request[s]
<1>1. PICK who \in Found(r), stray \in Strays(r) :
        /\ here' = Over(Over(stray, Over(Forgotten(r), Over(Kept(r),
                          Over(Learned(r), Joined(r, who))))), here)
        /\ clash' = clash \cup DOMAIN stray
  BY DEF Back, Writes
<1> DEFINE kept == Kept(r)
           learned == Learned(r)
           joined == Joined(r, who)
           gone == Forgotten(r)
           base == Over(learned, joined)
           more == Over(kept, base)
           most == Over(gone, more)
           all == Over(stray, most)
<1>2. UNCHANGED <<there, changes>> /\ here' = Over(all, here)
  BY <1>1 DEF Back
<1>3. TypedRequest(r, changes) /\ changes \in Nat
  BY DEF Types
<1>4. Typed(kept, changes) /\ Typed(learned, changes)
  BY <1>3, TypedEmpty DEF TypedRequest, Kept, Learned
<1>5. Typed(joined, changes) /\ Typed(stray, changes)
  BY <1>3, JoinedTyped, StrayTyped
<1>6. Typed(gone, changes)
  <2>1. DOMAIN gone \subseteq Fields /\ \A f \in DOMAIN gone : gone[f] = 0 /\ f[1] = "sig"
    BY DEF Forgotten, MembersFreed, Fields, MemberFields, Field
  <2> QED
    BY <1>3, <2>1 DEF Typed, Values
<1> HIDE DEF kept, learned, joined, gone
<1>7. Typed(base, changes)
  BY <1>4, <1>5, TypedOver
<1> HIDE DEF base
<1>8. Typed(more, changes)
  BY <1>4, <1>7, TypedOver
<1> HIDE DEF more
<1>9. Typed(most, changes)
  BY <1>6, <1>8, TypedOver
<1> HIDE DEF most
<1>10. Typed(all, changes)
  BY <1>5, <1>9, TypedOver
<1> HIDE DEF all
<1>11. Typed(here', changes) /\ DOMAIN here' = Fields
  <2>1. Typed(Over(all, here), changes) /\ DOMAIN Over(all, here) = Fields
    BY <1>10, TypedOver DEF Types, Typed
  <2> QED
    BY <1>2, <2>1
<1>12. ASSUME NEW x \in Slots PROVE TypedRequest(request'[x], changes)
  <2>1. TypedRequest(request[x], changes)
    BY DEF Types
  <2>2. CASE x = s
    <3>1. request'[x] = Quiet
      BY <2>2, OthersAfterBack
    <3>2. TypedRequest(Quiet, changes)
      BY QuietRequest, TypedEmpty DEF TypedRequest
    <3> QED
      BY <3>1, <3>2
  <2>3. CASE x # s
    <3>1. /\ request'[x].answer = request[x].answer
          /\ request'[x].sets = request[x].sets /\ request'[x].keeps = request[x].keeps
          /\ request'[x].reads = request[x].reads /\ request'[x].adds = request[x].adds
          /\ request'[x].on = request[x].on /\ request'[x].from = request[x].from
          /\ request'[x].freed \in {TRUE, request[x].freed}
      BY <2>3, OthersAfterBack
    <3> QED
      BY <2>1, <3>1 DEF TypedRequest
  <2> QED
    BY <2>2, <2>3
<1>13. clash' \subseteq Fields
  BY <1>1, <1>5 DEF Types, Typed
<1> QED
  BY <1>2, <1>11, <1>12, <1>13 DEF Types

\* A call changes nothing that others have changed.
LEMMA OthersUnmoved ==
  /\ CallOnClient => others' = others
  /\ \A b \in Buddies : CallOnBuddy(b) => others' = others
  /\ \A g \in Quns : CallOnQun(g) => others' = others
  /\ \A d \in Discus : CallOnDiscu(d) \/ MessageIn(d) => others' = others
<1>1. \A r : Submit(r) => others' = others
  BY DEF Submit
<1>2. /\ \A on, names : Ask(on, names) => others' = others
      /\ \A fields : AskAll(fields) => others' = others
      /\ \A on, name, keep : Change(on, name, keep) => others' = others
      /\ \A g : MaskGroup(g) => others' = others
      /\ \A d, from, who : ChangeDiscuMem(d, from, who) => others' = others
      /\ \A g, p : GetGroupSig(g, p) => others' = others
  BY <1>1 DEF Ask, AskAll, Change, MaskGroup, ChangeDiscuMem, GetGroupSig
<1> QED
  BY <1>2
  DEF CallOnClient, GetFriendsInfo, GetGroupNameList, GetDiscuNameList, GetOnlineBuddies,
      RecentList, ChangeStatus, SetSelfLongNick, CallOnBuddy, GetFriendDetailInfo,
      GetStrangerInfo, GetStrangerInfoByMsg, GetQqnumber, GetAvatar, GetLevel,
      GetSingleLongNick, ChangeBuddyMarkname, ModifyBuddyCategory, CallOnQun,
      GetGroupDetailInfo, GetGroupMemo, GetGroupPublicInfo, GetSelfCard,
      SetSelfCard, ChangeGroupMarkname, CallOnDiscu, ChangeDiscuTopic, MessageIn

\* Calls and changes of others are counted, and a field keeps its kind of value.
LEMMA StepTypes == IInv /\ Types /\ Counts /\ [Next]_vars => Types' /\ Counts'
<1> SUFFICES ASSUME IInv, Types, Counts, [Next]_vars PROVE Types' /\ Counts'
  OBVIOUS
<1>1. Types'
  <2>1. CASE \/ Call(CallOnClient)
             \/ \E b \in Buddies : Call(CallOnBuddy(b))
             \/ \E g \in Quns : Call(CallOnQun(g))
             \/ \E d \in Discus : Call(CallOnDiscu(d)) \/ MessageIn(d)
    BY <2>1, CallTypes DEF Call
  <2>2. CASE \E f \in Fields : SomebodyChanges(f)
    BY <2>2, SomebodyTypes
  <2>3. CASE \E s \in Slots : Serve(s) \/ Refuse(s) \/ Back(s)
    BY <2>3, ServeTypes, RefuseTypes, BackTypes
  <2>4. CASE UNCHANGED vars
    BY <2>4 DEF vars, Types, TypedRequest, Typed
  <2> QED
    BY <2>1, <2>2, <2>3, <2>4 DEF Next
<1>2. /\ calls' = calls \/ (calls < MaxCalls /\ calls' = calls + 1)
      /\ others' = others \/ (others < MaxOthers /\ others' = others + 1)
  <2>1. CASE \/ Call(CallOnClient)
             \/ \E b \in Buddies : Call(CallOnBuddy(b))
             \/ \E g \in Quns : Call(CallOnQun(g))
             \/ \E d \in Discus : Call(CallOnDiscu(d))
             \/ \E d \in Discus : MessageIn(d)
    BY <2>1, OthersUnmoved DEF Call, MessageIn
  <2>2. CASE \E f \in Fields : SomebodyChanges(f)
    BY <2>2 DEF SomebodyChanges
  <2>3. CASE \E s \in Slots : Serve(s) \/ Refuse(s) \/ Back(s)
    BY <2>3 DEF Serve, Refuse, Back
  <2>4. CASE UNCHANGED vars
    BY <2>4 DEF vars
  <2> QED
    BY <2>1, <2>2, <2>3, <2>4 DEF Next
<1>3. Counts'
  BY <1>2, DetailsAssumption DEF Counts
<1> QED
  BY <1>1, <1>3

\* The fields hold what they are for, at the server, in the client and in every request
\* (type.h:185-341), and no request brings a field that there is not.
THEOREM TypeCorrect == Spec => []TypeOK
<1>1. IInv /\ Types /\ Counts => TypeOK
  BY DEF IInv, RequestsSound, Types, TypedRequest, Typed, Values, Counts, TypeOK
<1> QED
  BY <1>1, InitInv, StepInv, InitTypes, StepTypes, PTL DEF Spec

==============================================================================
