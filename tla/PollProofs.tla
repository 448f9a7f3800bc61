----------------------------- MODULE PollProofs ------------------------------
(***************************************************************************)
(* Proofs about the poll and the list that it fills: PollSession for any   *)
(* number of request objects, MessageList for all messages of any senders, *)
(* however many come and whatever numbers they bear.                       *)
(***************************************************************************)
EXTENDS PollSession, MessageList, FiniteSetTheorems, SequenceTheorems, TLAPS

------------------------------------------------------------------------------
(* The poll. *)

\* A careful application has no relink pending while a cancelled poll is still in
\* flight: without this an accepted relink would start a second poll.
CloseIsQuiet == cancelled # {} => relinking = {}

Inv == TypeOK /\ OnePoll /\ CloseIsQuiet /\ MessagesAnnounced

\* The shape of the poll variables, as a predicate of their values.
Shape(r, q, f, c) ==
  /\ q \in Polls \cup {None}
  /\ f = IF q = None THEN {} ELSE {q}
  /\ c \subseteq f
  /\ r \in BOOLEAN
  /\ r <=> q # None /\ q \notin c

\* lwqq_msglist_poll keeps one poll when none that was cancelled is in flight.
LEMMA PollKeepsShape ==
  ASSUME Shape(running, req, flying, cancelled), MsglistPoll, cancelled = {}
  PROVE  Shape(running', req', flying', cancelled') /\ flying \subseteq flying'
                /\ flying' # {}
<1>1. CASE running
  BY <1>1, PollConstants DEF Shape, MsglistPoll
<1>2. CASE ~running
  <2>1. flying = {} BY <1>2 DEF Shape
  <2>2. PICK q \in Polls : running' = TRUE /\ req' = q /\ flying' = {q}
    BY <1>2, <2>1 DEF MsglistPoll, StartPoll
  <2>3. cancelled' = {} BY <1>2 DEF MsglistPoll
  <2> QED BY <2>1, <2>2, <2>3, PollConstants DEF Shape
<1> QED BY <1>1, <1>2 DEF Shape

\* An answer that quits leaves one poll or, logged out, none.
LEMMA QuitKeepsShape ==
  ASSUME NEW p \in flying, Shape(running, req, flying, cancelled),
         QuitPoll(p), Forget(p)
  PROVE  /\ Shape(running', req', flying', cancelled')
         /\ cancelled' = {}
         /\ flying' = {} => ~LoggedIn
<1>1. flying = {p} /\ flying \ {p} = {} /\ cancelled' = {}
  BY DEF Shape, Forget
<1>2. CASE LoggedIn
  <2>1. PICK q \in Polls : running' = TRUE /\ req' = q /\ flying' = {q}
    BY <1>1, <1>2 DEF QuitPoll, StartPoll
  <2> QED BY <1>1, <2>1, PollConstants DEF Shape
<1>3. CASE ~LoggedIn
  BY <1>1, <1>3 DEF QuitPoll, Shape
<1> QED BY <1>2, <1>3

LEMMA InvGivesShape ==
  ASSUME Inv PROVE Shape(running, req, flying, cancelled)
BY DEF Inv, TypeOK, OnePoll, Shape

LEMMA ShapeGivesInv ==
  ASSUME Shape(running', req', flying', cancelled'),
         stat' \in Stats, entering' \in BOOLEAN, changing' \in {"none", "online", "offline"},
         stale' \subseteq flying', relinking' \subseteq Relinks,
         unread' \in BOOLEAN, delayed' \in BOOLEAN, queued' \subseteq Notices,
         unread' => "poll_msg" \in queued',
         cancelled' # {} => relinking' = {}
  PROVE  Inv'
<1>1. TypeOK' BY DEF Shape, TypeOK
<1>2. OnePoll' BY DEF Shape, OnePoll
<1> QED BY <1>1, <1>2 DEF Inv, CloseIsQuiet, MessagesAnnounced

LEMMA InvInit == Init => Inv
BY DEF Init, Inv, TypeOK, OnePoll, CloseIsQuiet, MessagesAnnounced, Stats

\* Every step keeps one poll; where a step can disturb it, one of the two lemmas
\* above says why it does not.
LEMMA InvStep == Inv /\ [Next]_vars => Inv'
<1> SUFFICES ASSUME Inv, [Next]_vars PROVE Inv'
  OBVIOUS
<1> USE InvGivesShape, ShapeGivesInv
<1>0. /\ TypeOK /\ OnePoll /\ CloseIsQuiet /\ MessagesAnnounced
      /\ Shape(running, req, flying, cancelled)
  BY DEF Inv
<1>1. CASE UNCHANGED vars
  BY <1>0, <1>1 DEF vars, TypeOK, OnePoll, CloseIsQuiet, MessagesAnnounced, Inv
<1>2. CASE StatusChanged
  BY <1>0, <1>2
  DEF StatusChanged, pollVars, Shape, TypeOK, CloseIsQuiet, MessagesAnnounced, Stats, Notices
<1>3. CASE LoginEnds
  BY <1>0, <1>3
  DEF LoginEnds, pollVars, messageVars, Shape, TypeOK, CloseIsQuiet, MessagesAnnounced
<1>4. CASE InsertDelayed
  BY <1>0, <1>4 DEF InsertDelayed, pollVars, Shape, TypeOK, CloseIsQuiet, Notices
<1>5. ASSUME NEW p \in Polls, NEW code \in Codes, AnswerQuits(p, code) PROVE Inv'
  <2>1. Shape(running', req', flying', cancelled') /\ cancelled' = {}
    BY <1>0, <1>5, QuitKeepsShape DEF AnswerQuits
  <2>2. flying = {p}
    BY <1>0, <1>5 DEF AnswerQuits, Shape
  <2>3. stale' = {}
    BY <1>0, <1>5, <2>2 DEF AnswerQuits, TypeOK
  <2>4. relinking' \subseteq Relinks
    BY <1>0, <1>5 DEF AnswerQuits, SendRelink, TypeOK
  <2> QED
    BY <1>0, <1>5, <2>1, <2>3, <2>4
    DEF AnswerQuits, messageVars, TypeOK, CloseIsQuiet, MessagesAnnounced
<1>6. ASSUME NEW p \in Polls, NEW code \in Codes, AnswerGoesOn(p, code) PROVE Inv'
  <2>1. /\ unread' \in BOOLEAN /\ delayed' \in BOOLEAN /\ queued' \subseteq Notices
        /\ unread' => "poll_msg" \in queued'
    BY <1>0, <1>6 DEF AnswerGoesOn, messageVars, TypeOK, CloseIsQuiet, MessagesAnnounced, Notices
  <2> QED
    BY <1>0, <1>6, <2>1 DEF AnswerGoesOn, pollVars, Shape, TypeOK, CloseIsQuiet
<1>7. ASSUME NEW x \in Relinks, RelinkAccepted(x) PROVE Inv'
  <2>1. cancelled = {}
    BY <1>0, <1>7 DEF RelinkAccepted, CloseIsQuiet
  <2>2. /\ Shape(running', req', flying', cancelled') /\ flying \subseteq flying'
        /\ cancelled' = {}
    BY <1>0, <1>7, <2>1, PollKeepsShape DEF RelinkAccepted, MsglistPoll
  <2> QED
    BY <1>0, <1>7, <2>2
    DEF RelinkAccepted, messageVars, TypeOK, CloseIsQuiet, MessagesAnnounced
<1>8. ASSUME NEW x \in Relinks, RelinkFailed(x) PROVE Inv'
  BY <1>0, <1>8
  DEF RelinkFailed, pollVars, messageVars, Shape, TypeOK, CloseIsQuiet, MessagesAnnounced
<1>9. ASSUME NEW n \in Notices, Notify(n) PROVE Inv'
  BY <1>0, <1>9 DEF Notify, pollVars, Shape, TypeOK, CloseIsQuiet, MessagesAnnounced
<1>10. CASE User
  <2>1. CASE Logout
    <3>1. stat' \in Stats /\ queued' \subseteq Notices /\ queued \subseteq queued'
      BY <1>0, <2>1 DEF Logout, Stats, Notices, TypeOK
    <3> QED
      BY <1>0, <2>1, <3>1
      DEF Logout, pollVars, Shape, TypeOK, CloseIsQuiet, MessagesAnnounced
  <2>2. CASE Login
    BY <1>0, <2>2
    DEF Login, pollVars, messageVars, Shape, TypeOK, CloseIsQuiet, MessagesAnnounced, Stats
  <2>3. CASE ChangeStatus
    BY <1>0, <2>3
    DEF ChangeStatus, pollVars, messageVars, Shape, TypeOK, CloseIsQuiet, MessagesAnnounced
  <2> QED
    BY <1>10, <2>1, <2>2, <2>3 DEF User
<1>11. CASE CarefulPoll
  <2>1. /\ Shape(running', req', flying', cancelled') /\ flying \subseteq flying'
        /\ cancelled' = {}
    BY <1>0, <1>11, PollKeepsShape DEF CarefulPoll, Poll, MsglistPoll
  <2> QED
    BY <1>0, <1>11, <2>1
    DEF CarefulPoll, Poll, messageVars, TypeOK, CloseIsQuiet, MessagesAnnounced
<1>12. CASE CarefulClose
  BY <1>0, <1>12
  DEF CarefulClose, Close, messageVars, Shape, TypeOK, CloseIsQuiet, MessagesAnnounced
<1> QED
  BY <1>1, <1>2, <1>3, <1>4, <1>5, <1>6, <1>7, <1>8, <1>9, <1>10, <1>11, <1>12
  DEF Next, Loop, Answer

LEMMA Invariance == Spec => []Inv
BY InvInit, InvStep, PTL DEF Spec

\* The states have the types the code gives them, for any request objects.
THEOREM TypeCorrect == Spec => []TypeOK
<1>1. Inv => TypeOK
  BY DEF Inv
<1> QED
  BY Invariance, <1>1, PTL

\* One poll at most, which list_->req names: whatever the order of answers,
\* relinks, status changes and calls, a close reaches the poll in flight.
THEOREM PollsOnce == Spec => []OnePoll
<1>1. Inv => OnePoll
  BY DEF Inv
<1> QED
  BY Invariance, <1>1, PTL

\* A message in the list has been announced.
THEOREM Announced == Spec => []MessagesAnnounced
<1>1. Inv => MessagesAnnounced
  BY DEF Inv
<1> QED
  BY Invariance, <1>1, PTL

\* The polls end in no other way than by an answer to a client logged out.
THEOREM PollsUntilLogout == Spec => EndsOnlyByLogout
<1>1. Inv /\ [Next]_vars => [flying # {} /\ flying' = {} => stat = "logout"]_vars
  <2> SUFFICES ASSUME Inv, Next, flying # {}, flying' = {} PROVE stat = "logout"
    OBVIOUS
  <2>1. Shape(running, req, flying, cancelled) /\ CloseIsQuiet
    BY InvGivesShape DEF Inv
  <2>2. ASSUME NEW p \in Polls, NEW code \in Codes, AnswerQuits(p, code) PROVE ~LoggedIn
    BY <2>1, <2>2, QuitKeepsShape DEF AnswerQuits
  <2>3. ASSUME MsglistPoll, cancelled = {} PROVE FALSE
    BY <2>1, <2>3, PollKeepsShape
  <2>4. ASSUME NEW x \in Relinks, RelinkAccepted(x) PROVE FALSE
    BY <2>1, <2>3, <2>4 DEF RelinkAccepted, CloseIsQuiet
  <2>5. ~CarefulPoll
    BY <2>3 DEF CarefulPoll, Poll
  <2>6. ASSUME UNCHANGED flying PROVE FALSE
    BY <2>6
  <2> QED
    BY <2>2, <2>4, <2>5, <2>6
    DEF Next, Loop, User, Answer, LoggedIn, pollVars, LoginEnds, StatusChanged, InsertDelayed,
        AnswerGoesOn, RelinkFailed, Notify, Logout, Login, ChangeStatus, CarefulClose, Close
<1> QED
  BY Invariance, <1>1, PTL DEF Spec, EndsOnlyByLogout

------------------------------------------------------------------------------
(* Sequences: where their elements stand, and how many of them are equal. *)

\* The greatest element of a set of numbers below a bound.
LEMMA MaxOfBounded ==
  ASSUME NEW n \in Nat, NEW S \in SUBSET (0 .. n), S # {}
  PROVE  Max(S) \in S /\ \A y \in S : Max(S) >= y
<1> DEFINE Gaps == {k \in Nat : n - k \in S}
<1>1. PICK x \in S : TRUE
  OBVIOUS
<1>2. n - x \in Gaps
  BY <1>1
<1>3. Gaps \subseteq Nat /\ Gaps # {}
  BY <1>2
<1>4. PICK k \in Gaps : \A j \in Gaps : ~(<<j, k>> \in OpToRel(<, Nat))
  BY <1>3, WFMin, NatLessThanWellFounded
<1>5. n - k \in S /\ k \in Nat
  BY <1>4
<1>6. \A y \in S : n - k >= y
  <2>1. TAKE y \in S
  <2>2. n - y \in Gaps /\ n - y \in Nat
    OBVIOUS
  <2>3. ~(n - y < k)
    BY <1>4, <1>5, <2>2 DEF OpToRel
  <2> QED
    BY <2>3, <2>2, <1>5
<1> QED
  BY <1>5, <1>6 DEF Max

\* t is s with x at p: the new element moves those behind it by one place.
IsInsertion(t, s, p, x) ==
  /\ DOMAIN t = 1 .. Len(s) + 1
  /\ \A j \in 1 .. Len(s) + 1 : t[j] = IF j < p THEN s[j] ELSE IF j = p THEN x ELSE s[j - 1]

LEMMA InsertedAt ==
  ASSUME NEW S, NEW s \in Seq(S), NEW p \in 1 .. Len(s) + 1, NEW x \in S
  PROVE  InsertAt(s, p, x) \in Seq(S) /\ IsInsertion(InsertAt(s, p, x), s, p, x)
<1> DEFINE front == SubSeq(s, 1, p - 1)
           back == SubSeq(s, p, Len(s))
<1>1. /\ front \in Seq(S) /\ Len(front) = p - 1
      /\ \A j \in 1 .. p - 1 : front[j] = s[j]
  OBVIOUS
<1>2. /\ back \in Seq(S) /\ Len(back) = Len(s) + 1 - p
      /\ \A j \in 1 .. Len(s) + 1 - p : back[j] = s[p + j - 1]
  OBVIOUS
<1>3. InsertAt(s, p, x) = front \o <<x>> \o back
  BY DEF InsertAt
<1> HIDE DEF front, back
<1>4. /\ front \o <<x>> \in Seq(S) /\ Len(front \o <<x>>) = p
      /\ \A j \in 1 .. p : (front \o <<x>>)[j] = IF j < p THEN s[j] ELSE x
  <2>1. p \in Nat /\ front \o <<x>> = Append(front, x)
    BY <1>1
  <2> QED
    BY <2>1, <1>1
<1> DEFINE most == front \o <<x>>
<1> HIDE DEF most
<1>5. /\ most \in Seq(S) /\ Len(most) = p
      /\ \A j \in 1 .. p : most[j] = IF j < p THEN s[j] ELSE x
  BY <1>4 DEF most
<1>6. InsertAt(s, p, x) = most \o back
  BY <1>3 DEF most
<1>7. /\ most \o back \in Seq(S) /\ Len(most \o back) = Len(s) + 1
      /\ \A j \in 1 .. Len(s) + 1 : (most \o back)[j] = IF j <= p THEN most[j] ELSE back[j - p]
  <2>1. Len(most) + Len(back) = Len(s) + 1 /\ Len(s) \in Nat
    BY <1>2, <1>5
  <2>2. /\ most \o back \in Seq(S) /\ Len(most \o back) = Len(most) + Len(back)
        /\ \A j \in 1 .. Len(most) + Len(back) :
             (most \o back)[j] = IF j <= Len(most) THEN most[j] ELSE back[j - Len(most)]
    BY <1>2, <1>5, ConcatProperties
  <2> QED
    BY <2>1, <2>2, <1>5
<1>8. ASSUME NEW j \in 1 .. Len(s) + 1
      PROVE  (most \o back)[j] = IF j < p THEN s[j] ELSE IF j = p THEN x ELSE s[j - 1]
  <2>0. j \in Int /\ p \in Int
    OBVIOUS
  <2>1. CASE j <= p
    BY <2>1, <1>5, <1>7
  <2>2. CASE j > p
    <3>1. j - p \in 1 .. Len(s) + 1 - p /\ p + (j - p) - 1 = j - 1
      BY <2>2
    <3>2. (most \o back)[j] = back[j - p] /\ back[j - p] = s[j - 1]
      <4>1. j \in 1 .. Len(s) + 1 /\ ~(j <= p)
        BY <2>0, <2>2
      <4>2. (most \o back)[j] = back[j - p]
        BY <4>1, <1>7
      <4>3. back[j - p] = s[p + (j - p) - 1]
        BY <3>1, <1>2
      <4> QED
        BY <4>2, <4>3, <3>1
    <3> QED
      BY <2>0, <2>2, <3>2
  <2>3. j <= p \/ j > p
    BY <2>0
  <2> QED
    BY <2>1, <2>2, <2>3, Zenon
<1>9. DOMAIN (most \o back) = 1 .. Len(s) + 1
  BY <1>7
<1> QED
  BY <1>6, <1>7, <1>8, <1>9 DEF IsInsertion

\* What is in a list after an insertion, an addition or a removal.
LEMMA ElementsAfter ==
  ASSUME NEW S, NEW s \in Seq(S), NEW x \in S
  PROVE  /\ \A p \in 1 .. Len(s) + 1 : ToSet(InsertAt(s, p, x)) = ToSet(s) \cup {x}
         /\ ToSet(Append(s, x)) = ToSet(s) \cup {x}
         /\ s # << >> => ToSet(s) = {Head(s)} \cup ToSet(Tail(s))
<1>1. ASSUME NEW p \in 1 .. Len(s) + 1
      PROVE  ToSet(InsertAt(s, p, x)) = ToSet(s) \cup {x}
  <2> DEFINE t == InsertAt(s, p, x)
  <2>0. IsInsertion(t, s, p, x)
    BY InsertedAt
  <2> HIDE DEF t
  <2>1. /\ DOMAIN t = 1 .. Len(s) + 1 /\ DOMAIN s = 1 .. Len(s)
        /\ \A j \in 1 .. Len(s) + 1 : t[j] = IF j < p THEN s[j] ELSE IF j = p THEN x ELSE s[j - 1]
    BY <2>0 DEF IsInsertion
  <2>2. \A i \in DOMAIN s : \E j \in DOMAIN t : t[j] = s[i]
    <3>1. TAKE i \in DOMAIN s
    <3>2. CASE i < p
      BY <3>2, <2>1
    <3>3. CASE i >= p
      <4>1. i + 1 \in DOMAIN t /\ t[i + 1] = s[i]
        BY <3>3, <2>1
      <4> QED
        BY <4>1
    <3> QED
      BY <3>2, <3>3, <2>1
  <2>3. p \in DOMAIN t /\ t[p] = x
    BY <2>1
  <2>4. \A j \in DOMAIN t : t[j] = x \/ \E i \in DOMAIN s : t[j] = s[i]
    BY <2>1
  <2> QED
    BY <2>2, <2>3, <2>4 DEF ToSet, t
<1>2. ToSet(Append(s, x)) = ToSet(s) \cup {x}
  <2> DEFINE t == Append(s, x)
  <2>1. /\ DOMAIN t = 1 .. Len(s) + 1 /\ DOMAIN s = 1 .. Len(s) /\ Len(s) \in Nat
        /\ \A j \in DOMAIN s : t[j] = s[j]
        /\ t[Len(s) + 1] = x
    OBVIOUS
  <2> HIDE DEF t
  <2>2. Len(s) + 1 \in DOMAIN t /\ \A j \in DOMAIN t : j = Len(s) + 1 \/ j \in DOMAIN s
    BY <2>1
  <2> QED
    BY <2>1, <2>2 DEF ToSet, t
<1>3. ASSUME s # << >> PROVE ToSet(s) = {Head(s)} \cup ToSet(Tail(s))
  <2> DEFINE t == Tail(s)
  <2>1. /\ DOMAIN t = 1 .. Len(s) - 1 /\ DOMAIN s = 1 .. Len(s) /\ Len(s) \in Nat /\ Len(s) > 0
        /\ \A j \in DOMAIN t : t[j] = s[j + 1]
        /\ Head(s) = s[1]
    BY <1>3
  <2> HIDE DEF t
  <2>2. /\ 1 \in DOMAIN s
        /\ \A j \in DOMAIN t : j + 1 \in DOMAIN s
        /\ \A i \in DOMAIN s : i = 1 \/ (i - 1 \in DOMAIN t /\ t[i - 1] = s[i])
    BY <2>1
  <2> QED
    BY <2>1, <2>2 DEF ToSet, t
<1> QED
  BY <1>1, <1>2, <1>3

\* The places of an element, and their number.
Places(s, id) == {i \in DOMAIN s : s[i] = id}

LEMMA PlacesFinite ==
  ASSUME NEW S, NEW s \in Seq(S), NEW id
  PROVE  IsFiniteSet(Places(s, id)) /\ Copies(s, id) \in Nat
<1>1. Places(s, id) \subseteq 1 .. Len(s) /\ Len(s) \in Nat
  BY DEF Places
<1>2. IsFiniteSet(1 .. Len(s))
  BY <1>1, FS_Interval
<1> QED
  BY <1>1, <1>2, FS_Subset, FS_CardinalityType DEF Copies, Places

\* Moving the places of an element does not change their number.
LEMMA MovedPlaces ==
  ASSUME NEW A, NEW B, IsFiniteSet(A), NEW f \in [A -> B],
         \A i, j \in A : f[i] = f[j] => i = j,
         \A b \in B : \E i \in A : f[i] = b
  PROVE  IsFiniteSet(B) /\ Cardinality(B) = Cardinality(A)
<1>1. f \in Bijection(A, B)
  BY DEF Bijection, Injection, Surjection, IsInjective
<1>2. ExistsBijection(A, B)
  BY <1>1 DEF ExistsBijection
<1> QED
  BY <1>2, FS_Bijection

\* An insertion adds one copy of what is inserted, an append likewise, and a
\* removal at the head takes one copy of the head away.
LEMMA CopiesInserted ==
  ASSUME NEW S, NEW s \in Seq(S), NEW p \in 1 .. Len(s) + 1, NEW x \in S, NEW id
  PROVE  Copies(InsertAt(s, p, x), id) = Copies(s, id) + (IF x = id THEN 1 ELSE 0)
<1> DEFINE t == InsertAt(s, p, x)
<1>1. /\ DOMAIN t = 1 .. Len(s) + 1 /\ DOMAIN s = 1 .. Len(s) /\ Len(s) \in Nat
      /\ \A j \in 1 .. Len(s) + 1 : t[j] = IF j < p THEN s[j] ELSE IF j = p THEN x ELSE s[j - 1]
  <2>1. IsInsertion(t, s, p, x)
    BY InsertedAt
  <2> HIDE DEF t
  <2> QED
    BY <2>1 DEF IsInsertion
<1> DEFINE A == Places(s, id)
           B == Places(t, id) \ {p}
           f == [i \in A |-> IF i < p THEN i ELSE i + 1]
<1>2. IsFiniteSet(A) /\ Cardinality(A) = Copies(s, id) /\ Copies(s, id) \in Nat
  BY PlacesFinite DEF Copies, Places
<1> HIDE DEF t
<1>3. \A i \in A : i \in 1 .. Len(s) /\ s[i] = id
  BY <1>1 DEF Places
<1>4. \A j : j \in B <=> j \in 1 .. Len(s) + 1 /\ j # p /\ t[j] = id
  BY <1>1 DEF Places
<1>5. f \in [A -> B]
  <2> SUFFICES ASSUME NEW i \in A PROVE (IF i < p THEN i ELSE i + 1) \in B
    OBVIOUS
  <2>1. CASE i < p
    BY <2>1, <1>1, <1>3, <1>4
  <2>2. CASE ~(i < p)
    BY <2>2, <1>1, <1>3, <1>4
  <2> QED
    BY <2>1, <2>2
<1>6. \A i, j \in A : f[i] = f[j] => i = j
  BY <1>3
<1>7. \A b \in B : \E i \in A : f[i] = b
  <2> SUFFICES ASSUME NEW b \in B PROVE \E i \in A : f[i] = b
    OBVIOUS
  <2>1. CASE b < p
    <3>1. b \in A
      BY <2>1, <1>1, <1>4 DEF Places
    <3> QED
      BY <2>1, <3>1
  <2>2. CASE ~(b < p)
    <3>1. b - 1 \in A /\ b - 1 >= p
      BY <2>2, <1>1, <1>4 DEF Places
    <3>2. f[b - 1] = b
      BY <3>1, <1>4
    <3> QED
      BY <3>1, <3>2
  <2> QED
    BY <2>1, <2>2
<1> HIDE DEF A, B, f
<1>8. IsFiniteSet(B) /\ Cardinality(B) = Copies(s, id)
  BY <1>2, <1>5, <1>6, <1>7, MovedPlaces
<1>11. Copies(t, id) = Cardinality(Places(t, id))
  BY DEF Copies, Places
<1>9. CASE x = id
  <2>1. Places(t, id) = B \cup {p} /\ p \notin B
    BY <1>1, <1>9 DEF B, Places
  <2>2. Cardinality(Places(t, id)) = Cardinality(B) + 1
    BY <2>1, <1>8, FS_AddElement
  <2> QED
    BY <2>2, <1>8, <1>9, <1>11 DEF t
<1>10. CASE x # id
  <2>1. Places(t, id) = B
    BY <1>1, <1>10 DEF B, Places
  <2> QED
    BY <2>1, <1>2, <1>8, <1>10, <1>11 DEF t
<1> QED
  BY <1>9, <1>10 DEF t

LEMMA CopiesAppended ==
  ASSUME NEW S, NEW s \in Seq(S), NEW x \in S, NEW id
  PROVE  Copies(Append(s, x), id) = Copies(s, id) + (IF x = id THEN 1 ELSE 0)
<1> DEFINE t == Append(s, x)
           last == Len(s) + 1
<1>1. /\ DOMAIN t = 1 .. last /\ DOMAIN s = 1 .. Len(s) /\ Len(s) \in Nat
      /\ \A j \in 1 .. Len(s) : t[j] = s[j]
      /\ t[last] = x
  OBVIOUS
<1>2. IsFiniteSet(Places(s, id)) /\ Copies(s, id) = Cardinality(Places(s, id)) /\ Copies(s, id) \in Nat
  BY PlacesFinite DEF Copies, Places
<1> HIDE DEF t
<1>11. Copies(t, id) = Cardinality(Places(t, id))
  BY DEF Copies, Places
<1>3. CASE x = id
  <2>1. Places(t, id) = Places(s, id) \cup {last} /\ last \notin Places(s, id)
    BY <1>1, <1>3 DEF Places
  <2>2. Cardinality(Places(t, id)) = Cardinality(Places(s, id)) + 1
    BY <2>1, <1>2, FS_AddElement
  <2> QED
    BY <2>1, <2>2, <1>2, <1>3, <1>11 DEF t
<1>4. CASE x # id
  <2>1. Places(t, id) = Places(s, id)
    BY <1>1, <1>4 DEF Places
  <2> QED
    BY <2>1, <1>2, <1>4, <1>11 DEF t
<1> QED
  BY <1>3, <1>4 DEF t

LEMMA CopiesBehind ==
  ASSUME NEW S, NEW s \in Seq(S), s # << >>, NEW id
  PROVE  Copies(s, id) = Copies(Tail(s), id) + (IF Head(s) = id THEN 1 ELSE 0)
<1> DEFINE t == Tail(s)
           A == Places(t, id)
           B == Places(s, id) \ {1}
           f == [i \in A |-> i + 1]
<1>1. /\ t \in Seq(S) /\ DOMAIN t = 1 .. Len(s) - 1 /\ DOMAIN s = 1 .. Len(s)
      /\ Len(s) \in Nat /\ Len(s) > 0
      /\ \A j \in 1 .. Len(s) - 1 : t[j] = s[j + 1]
      /\ Head(s) = s[1]
  OBVIOUS
<1> HIDE DEF t
<1>2. IsFiniteSet(A) /\ Cardinality(A) = Copies(t, id) /\ Copies(t, id) \in Nat
  BY <1>1, PlacesFinite DEF Copies, Places
<1>3. \A i \in A : i \in 1 .. Len(s) - 1 /\ t[i] = id
  BY <1>1 DEF Places
<1>4. \A j : j \in B <=> j \in 1 .. Len(s) /\ j # 1 /\ s[j] = id
  BY <1>1 DEF Places
<1>5. f \in [A -> B]
  <2> SUFFICES ASSUME NEW i \in A PROVE i + 1 \in B
    OBVIOUS
  <2>1. i \in 1 .. Len(s) - 1 /\ t[i] = id
    BY <1>3
  <2>2. i + 1 \in 1 .. Len(s) /\ i + 1 # 1 /\ s[i + 1] = id
    BY <1>1, <2>1
  <2> QED
    BY <1>4, <2>2
<1>6. \A i, j \in A : f[i] = f[j] => i = j
  BY <1>3
<1>7. \A b \in B : \E i \in A : f[i] = b
  <2> SUFFICES ASSUME NEW b \in B PROVE \E i \in A : f[i] = b
    OBVIOUS
  <2>1. b - 1 \in A /\ (b - 1) + 1 = b
    BY <1>1, <1>4 DEF Places
  <2> QED
    BY <2>1
<1> HIDE DEF A, B, f
<1>8. IsFiniteSet(B) /\ Cardinality(B) = Copies(t, id)
  BY <1>2, <1>5, <1>6, <1>7, MovedPlaces
<1>11. Copies(s, id) = Cardinality(Places(s, id))
  BY DEF Copies, Places
<1>9. CASE Head(s) = id
  <2>1. Places(s, id) = B \cup {1} /\ 1 \notin B
    BY <1>1, <1>9 DEF B, Places
  <2>2. Cardinality(Places(s, id)) = Cardinality(B) + 1
    BY <2>1, <1>8, FS_AddElement
  <2> QED
    BY <2>2, <1>8, <1>9, <1>11 DEF t
<1>10. CASE Head(s) # id
  <2>1. Places(s, id) = B
    BY <1>1, <1>10 DEF B, Places
  <2> QED
    BY <2>1, <1>2, <1>8, <1>10, <1>11 DEF t
<1> QED
  BY <1>9, <1>10 DEF t

------------------------------------------------------------------------------
(* The list of messages. *)

Items == Messages \cup {Notice}

\* A message of this number is in the list or was read.
Known(k) == \E n \in Messages : msgId[n] = k /\ Kept(n)

LastKnown == lastId # 0 => Known(lastId)

\* g->last_seq is the seq of a message of g that the check accepted.
ReaderKnows ==
  \A g \in Groups :
    /\ lastSeq[g] = 0 => \A n \in accepted : From[n] # g
    /\ lastSeq[g] # 0 => \E n \in accepted : From[n] = g /\ GroupSeq[n] = lastSeq[g]

\* A message is a duplicate when its number is that of the one it would follow: no
\* other is looked at, and none needs to be, because the list is sorted.
ListIInv ==
  /\ ListTypeOK
  /\ Sorted
  /\ OnePlace
  /\ OnlyDuplicatesDie
  /\ LastKnown
  /\ ReaderKnows
  /\ GapsReported

LEMMA NumbersAreNumbers ==
  ASSUME ListTypeOK
  PROVE  \A m \in Messages : msgId[m] \in Nat /\ msgId[m] # 0
BY DEF ListTypeOK, Number

LEMMA InitInv == ListInit => ListIInv
<1> SUFFICES ASSUME ListInit PROVE ListIInv
  OBVIOUS
<1> USE DEF ListInit
<1>1. ListTypeOK
  <2>1. NoCopies \in [Messages -> Nat] /\ lastSeq \in [Groups -> Nat]
    BY DEF NoCopies
  <2>2. head \in Seq(Messages \cup {Notice})
    BY EmptySeq
  <2>3. msgId \in [Messages -> Number] /\ arrivals \in 0 .. MaxArrivals /\ lastId \in Nat
    BY MessageConstants
  <2>4. removing \in BOOLEAN /\ accepted \subseteq Messages /\ told \subseteq Groups
    BY Zenon
  <2> QED
    BY ONLY <2>1, <2>2, <2>3, <2>4, ListInit DEF ListTypeOK
<1>2. \A y : Places(<< >>, y) = {}
  BY DEF Places
<1>3. \A y : Copies(<< >>, y) = 0
  BY <1>2, FS_EmptySet DEF Copies, Places
<1>4. OnePlace
  BY <1>3 DEF OnePlace, NoCopies
<1>5. Sorted /\ OnlyDuplicatesDie /\ LastKnown /\ ReaderKnows /\ GapsReported
  BY DEF Sorted, OnlyDuplicatesDie, LastKnown, ReaderKnows, GapsReported, NoCopies
<1> QED
  BY <1>1, <1>4, <1>5 DEF ListIInv

\* The walk of insert_recv_msg_with_order ends behind the last message that is not
\* younger: every message behind that place is younger.
LEMMA PlaceIsRight ==
  ASSUME ListTypeOK, NEW m \in Messages
  PROVE  /\ PlaceAfter(m) \in 0 .. Len(head)
         /\ PlaceAfter(m) # 0 =>
              /\ head[PlaceAfter(m)] \in Messages
              /\ msgId[head[PlaceAfter(m)]] <= msgId[m]
         /\ \A i \in DOMAIN head :
              i > PlaceAfter(m) /\ head[i] \in Messages => msgId[head[i]] > msgId[m]
<1> DEFINE S == {0} \cup NotYounger(m)
<1>1. head \in Seq(Items) /\ Len(head) \in Nat /\ DOMAIN head = 1 .. Len(head)
  BY DEF ListTypeOK, Items
<1>2. S \in SUBSET (0 .. Len(head)) /\ S # {}
  BY <1>1 DEF NotYounger
<1>3. PlaceAfter(m) \in S /\ \A y \in S : PlaceAfter(m) >= y
  BY <1>1, <1>2, MaxOfBounded DEF PlaceAfter
<1>4. PlaceAfter(m) \in 0 .. Len(head)
  BY <1>2, <1>3
<1>5. PlaceAfter(m) # 0 =>
        head[PlaceAfter(m)] \in Messages /\ msgId[head[PlaceAfter(m)]] <= msgId[m]
  BY <1>3 DEF NotYounger
<1>6. ASSUME NEW i \in DOMAIN head, i > PlaceAfter(m), head[i] \in Messages
      PROVE  msgId[head[i]] > msgId[m]
  <2>1. i \in Nat /\ PlaceAfter(m) \in Nat
    BY <1>1, <1>4
  <2>2. i \notin NotYounger(m)
    BY <1>3, <1>6, <2>1
  <2>3. ~(msgId[head[i]] <= msgId[m])
    BY <1>6, <2>2 DEF NotYounger
  <2> QED
    BY <1>6, <2>3, NumbersAreNumbers
<1> QED
  BY <1>4, <1>5, <1>6

\* An insertion keeps the list sorted.
LEMMA InsertKeepsOrder ==
  ASSUME ListTypeOK, Sorted, NEW m \in Messages, InsertInOrder(m), ~IsDuplicate(m),
         UNCHANGED setUp
  PROVE  Sorted'
<1> DEFINE p == PlaceAfter(m) + 1
<1>1. /\ head \in Seq(Items) /\ Len(head) \in Nat /\ DOMAIN head = 1 .. Len(head) /\ m \in Items
      /\ removing' = removing /\ msgId' = msgId
  BY DEF ListTypeOK, Items, setUp
<1>2. p \in 1 .. Len(head) + 1 /\ p - 1 = PlaceAfter(m)
  BY <1>1, PlaceIsRight
<1>3. head' = InsertAt(head, p, m)
  BY DEF InsertInOrder
<1>4. /\ DOMAIN head' = 1 .. Len(head) + 1
      /\ \A j \in 1 .. Len(head) + 1 :
           head'[j] = IF j < p THEN head[j] ELSE IF j = p THEN m ELSE head[j - 1]
  <2> HIDE DEF p
  <2> DEFINE t == InsertAt(head, p, m)
  <2>1. IsInsertion(t, head, p, m)
    BY <1>1, <1>2, InsertedAt
  <2>2. head' = t
    BY <1>3
  <2> HIDE DEF t
  <2> QED
    BY <2>1, <2>2 DEF IsInsertion
<1>5. \A i \in DOMAIN head : i < p /\ head[i] \in Messages =>
        msgId[head[i]] <= msgId[m] /\ (removing => msgId[head[i]] # msgId[m])
  <2> SUFFICES ASSUME NEW i \in DOMAIN head, i < p, head[i] \in Messages
               PROVE  msgId[head[i]] <= msgId[m] /\ (removing => msgId[head[i]] # msgId[m])
    OBVIOUS
  <2> DEFINE a == PlaceAfter(m)
  <2>1. a \in DOMAIN head /\ i <= a /\ a # 0
    BY <1>1, <1>2
  <2>2. head[a] \in Messages /\ msgId[head[a]] <= msgId[m]
    BY <2>1, PlaceIsRight
  <2>3. removing => msgId[head[a]] # msgId[m]
    BY <2>1 DEF IsDuplicate
  <2> HIDE DEF a
  <2>4. msgId[head[i]] <= msgId[head[a]]
    <3>1. CASE i = a
      BY <3>1, <2>2, NumbersAreNumbers
    <3>2. CASE i < a
      BY <3>2, <2>1, <2>2 DEF Sorted
    <3> QED
      BY <3>1, <3>2, <2>1, <1>1
  <2>5. msgId[head[i]] \in Nat /\ msgId[head[a]] \in Nat /\ msgId[m] \in Nat
    BY <2>2, NumbersAreNumbers
  <2> QED
    BY <2>2, <2>3, <2>4, <2>5
<1>6. \A i \in DOMAIN head : i >= p /\ head[i] \in Messages => msgId[head[i]] > msgId[m]
  BY <1>1, <1>2, PlaceIsRight
<1> HIDE DEF p
<1>7. ASSUME NEW i \in DOMAIN head', NEW j \in DOMAIN head',
             i < j, head'[i] \in Messages, head'[j] \in Messages
      PROVE  /\ msgId[head'[i]] <= msgId[head'[j]]
             /\ removing => msgId[head'[i]] # msgId[head'[j]]
  <2>1. i \in 1 .. Len(head) + 1 /\ j \in 1 .. Len(head) + 1 /\ p \in Int
    BY <1>2, <1>4
  <2>0. msgId[m] \in Nat /\ msgId[head'[i]] \in Nat /\ msgId[head'[j]] \in Nat
    BY <1>7, NumbersAreNumbers
  <2>2. CASE j < p
    <3>1. i \in DOMAIN head /\ j \in DOMAIN head /\ head'[i] = head[i] /\ head'[j] = head[j]
      BY <2>1, <2>2, <1>1, <1>2, <1>4, <1>7
    <3> QED
      BY <3>1, <1>7 DEF Sorted
  <2>3. CASE j = p
    <3>1. i \in DOMAIN head /\ i < p /\ head'[i] = head[i] /\ head'[j] = m
      BY <2>1, <2>3, <1>1, <1>2, <1>4, <1>7
    <3> QED
      BY <3>1, <1>5, <1>7
  <2>4. CASE j > p /\ i < p
    <3>2. /\ i \in DOMAIN head /\ j - 1 \in DOMAIN head /\ j - 1 >= p
          /\ head'[i] = head[i] /\ head'[j] = head[j - 1]
      BY <2>1, <2>4, <1>1, <1>2, <1>4
    <3>3. msgId[head[i]] <= msgId[m] /\ msgId[head[j - 1]] > msgId[m]
      BY <3>2, <2>4, <1>5, <1>6, <1>7
    <3> QED
      BY <3>2, <3>3, <2>0
  <2>5. CASE j > p /\ i = p
    <3>1. j - 1 \in DOMAIN head /\ j - 1 >= p /\ head'[i] = m /\ head'[j] = head[j - 1]
      BY <2>1, <2>5, <1>1, <1>2, <1>4
    <3>2. msgId[head[j - 1]] > msgId[m]
      BY <3>1, <1>6, <1>7
    <3> QED
      BY <3>1, <3>2, <2>0
  <2>6. CASE j > p /\ i > p
    <3>1. /\ i - 1 \in DOMAIN head /\ j - 1 \in DOMAIN head /\ i - 1 < j - 1
          /\ head'[i] = head[i - 1] /\ head'[j] = head[j - 1]
      BY <2>1, <2>6, <1>1, <1>2, <1>4, <1>7
    <3> QED
      BY <3>1, <1>7 DEF Sorted
  <2>7. j < p \/ j = p \/ (j > p /\ i < p) \/ (j > p /\ i = p) \/ (j > p /\ i > p)
    <3>1. i \in Int /\ j \in Int /\ p \in Int
      BY <2>1
    <3> QED
      BY <3>1
  <2> QED
    BY <2>2, <2>3, <2>4, <2>5, <2>6, <2>7, Zenon
<1> QED
  BY <1>1, <1>7 DEF Sorted

\* What insert_recv_msg_with_order does to the list: it stays sorted and loses nothing,
\* the number of the message is then known, and the message is added unless it is a
\* duplicate.
LEMMA Inserted ==
  ASSUME ListIInv, NEW m \in Messages, InsertInOrder(m), UNCHANGED setUp,
         UNCHANGED readerVars
  PROVE  /\ head' \in Seq(Items) /\ Sorted' /\ lastId' = msgId[m]
         /\ ToSet(head) \subseteq ToSet(head')
         /\ Known(msgId[m])'
         /\ m \in ToSet(head') \/ removing
         /\ \A y : /\ Copies(head, y) \in Nat /\ Copies(head', y) \in Nat
                   /\ Copies(head', y) <= Copies(head, y) + (IF m = y THEN 1 ELSE 0)
                   /\ ~removing =>
                        Copies(head', y) = Copies(head, y) + (IF m = y THEN 1 ELSE 0)
<1>1. /\ head \in Seq(Items) /\ Len(head) \in Nat /\ m \in Items /\ ListTypeOK /\ Sorted
      /\ removing' = removing /\ msgId' = msgId /\ reads' = reads
  BY DEF ListIInv, ListTypeOK, Items, setUp, readerVars
<1>2. lastId' = msgId[m]
  BY DEF InsertInOrder
<1>3. \A y : Copies(head, y) \in Nat
  BY <1>1, PlacesFinite
<1>4. CASE IsDuplicate(m)
  <2>1. head' = head /\ removing
    BY <1>4 DEF InsertInOrder, IsDuplicate
  <2>2. Sorted'
    BY <2>1, <1>1 DEF Sorted
  <2>3. Known(msgId[m])
    <3>1. CASE lastId = msgId[m]
      BY <3>1, <1>1, NumbersAreNumbers DEF ListIInv, LastKnown
    <3>2. CASE PlaceAfter(m) # 0 /\ msgId[head[PlaceAfter(m)]] = msgId[m]
      <4>1. PlaceAfter(m) \in DOMAIN head /\ head[PlaceAfter(m)] \in Messages
        BY <3>2, <1>1, PlaceIsRight
      <4>2. head[PlaceAfter(m)] \in ToSet(head)
        BY <4>1 DEF ToSet
      <4> QED
        BY <4>1, <4>2, <3>2 DEF Known, Kept
    <3> QED
      BY <3>1, <3>2, <1>4 DEF IsDuplicate
  <2>4. Known(msgId[m])'
    BY <2>1, <2>3, <1>1 DEF Known, Kept
  <2>5. \A y : Copies(head', y) <= Copies(head, y) + (IF m = y THEN 1 ELSE 0)
    BY <2>1, <1>3
  <2> QED
    BY <2>1, <2>2, <2>4, <2>5, <1>1, <1>2, <1>3
<1>5. CASE ~IsDuplicate(m)
  <2> DEFINE p == PlaceAfter(m) + 1
  <2>1. head' = InsertAt(head, p, m) /\ p \in 1 .. Len(head) + 1
    BY <1>1, <1>5, PlaceIsRight DEF InsertInOrder
  <2> HIDE DEF p
  <2>2. Sorted'
    BY <1>1, <1>5, InsertKeepsOrder
  <2>3. head' \in Seq(Items)
    BY <1>1, <2>1, InsertedAt
  <2>4. ToSet(head') = ToSet(head) \cup {m}
    BY <1>1, <2>1, ElementsAfter
  <2>5. \A y : Copies(head', y) = Copies(head, y) + (IF m = y THEN 1 ELSE 0)
    BY <1>1, <2>1, CopiesInserted
  <2>6. \A y : Copies(head', y) \in Nat
    BY <2>3, PlacesFinite
  <2>7. \A y : Copies(head', y) <= Copies(head, y) + (IF m = y THEN 1 ELSE 0)
    BY <2>5, <2>6, <1>3
  <2>8. Known(msgId[m])'
    BY <2>4, <1>1 DEF Known, Kept
  <2> QED
    BY <2>2, <2>3, <2>4, <2>5, <2>6, <2>7, <2>8, <1>2, <1>3
<1> QED
  BY <1>4, <1>5

\* What is known stays known when the list loses nothing.
LEMMA StaysKnown ==
  ASSUME ToSet(head) \subseteq ToSet(head'), UNCHANGED setUp, UNCHANGED readerVars
  PROVE  /\ \A m \in Messages : Kept(m) => Kept(m)'
         /\ \A k : Known(k) => Known(k)'
<1>1. msgId' = msgId /\ reads' = reads
  BY DEF setUp, readerVars
<1>2. \A m \in Messages : Kept(m) => Kept(m)'
  BY <1>1 DEF Kept
<1> QED
  BY <1>1, <1>2 DEF Known

\* The part of the invariant that speaks of the readers depends on them alone.
LEMMA ReadersUndisturbed ==
  ASSUME ListIInv, UNCHANGED readerVars
  PROVE  ReaderKnows' /\ GapsReported'
BY DEF ListIInv, ReaderKnows, GapsReported, readerVars

\* A message that comes goes into the list, is destroyed, or waits.
LEMMA ParseMessageInv ==
  ASSUME ListIInv, NEW m \in Messages, ParseMessage(m)
  PROVE  ListIInv'
<1> USE DEF ParseMessage
<1>1. /\ head \in Seq(Items) /\ copies \in [Messages -> Nat] /\ waiting \in [Messages -> Nat]
      /\ reads \in [Messages -> Nat]
      /\ removing' = removing /\ msgId' = msgId /\ reads' = reads /\ lastSeq' = lastSeq
      /\ accepted' = accepted /\ told' = told
  BY DEF ListIInv, ListTypeOK, Items, setUp, readerVars
<1>2. /\ copies' \in [Messages -> Nat]
      /\ \A y \in Messages : copies'[y] = copies[y] + (IF m = y THEN 1 ELSE 0)
      /\ arrivals' \in 0 .. MaxArrivals
  BY <1>1, MessageConstants DEF ListIInv, ListTypeOK, Arrive
<1>3. ReaderKnows' /\ GapsReported'
  BY ReadersUndisturbed
<1>4. \A y : Copies(head, y) \in Nat
  BY <1>1, PlacesFinite
<1>5. \A y \in Messages :
        /\ Copies(head, y) + waiting[y] + reads[y] <= copies[y]
        /\ ~removing => Copies(head, y) + waiting[y] + reads[y] = copies[y]
  BY DEF ListIInv, OnePlace
<1>6. CASE InsertInOrder(m) /\ UNCHANGED waiting
  <2>1. /\ head' \in Seq(Items) /\ Sorted' /\ lastId' = msgId[m]
        /\ ToSet(head) \subseteq ToSet(head')
        /\ Known(msgId[m])'
        /\ m \in ToSet(head') \/ removing
        /\ \A y : /\ Copies(head, y) \in Nat /\ Copies(head', y) \in Nat
                  /\ Copies(head', y) <= Copies(head, y) + (IF m = y THEN 1 ELSE 0)
                  /\ ~removing =>
                       Copies(head', y) = Copies(head, y) + (IF m = y THEN 1 ELSE 0)
    BY <1>6, Inserted
  <2>2. ListTypeOK'
    <3>1. lastId' \in Nat
      BY <2>1, NumbersAreNumbers DEF ListIInv
    <3> QED
      BY <1>1, <1>2, <1>6, <2>1, <3>1 DEF ListIInv, ListTypeOK, Items
  <2>3. OnePlace'
    <3> SUFFICES ASSUME NEW y \in Messages
                 PROVE  /\ Copies(head', y) + waiting[y] + reads[y] <= copies'[y]
                        /\ ~removing => Copies(head', y) + waiting[y] + reads[y] = copies'[y]
      BY <1>1, <1>6 DEF OnePlace
    <3>1. copies[y] \in Nat /\ waiting[y] \in Nat /\ reads[y] \in Nat
      BY <1>1
    <3>2. copies'[y] = copies[y] + (IF m = y THEN 1 ELSE 0)
      BY <1>2
    <3>3. /\ Copies(head, y) + waiting[y] + reads[y] <= copies[y]
          /\ ~removing => Copies(head, y) + waiting[y] + reads[y] = copies[y]
      BY <1>5
    <3>4. /\ Copies(head, y) \in Nat /\ Copies(head', y) \in Nat
          /\ Copies(head', y) <= Copies(head, y) + (IF m = y THEN 1 ELSE 0)
          /\ ~removing => Copies(head', y) = Copies(head, y) + (IF m = y THEN 1 ELSE 0)
      BY <2>1
    <3> QED
      BY <3>1, <3>2, <3>3, <3>4
  <2>4. OnlyDuplicatesDie'
    <3> SUFFICES ASSUME NEW y \in Messages, copies'[y] > 0
                 PROVE  waiting[y] > 0 \/ Kept(y)' \/ (removing /\ Known(msgId[y])')
      BY <1>1, <1>6 DEF OnlyDuplicatesDie, Known
    <3>1. CASE y = m
      BY <3>1, <2>1 DEF Kept
    <3>2. CASE y # m
      <4>1. waiting[y] > 0 \/ Kept(y) \/ (removing /\ Known(msgId[y]))
        BY <3>2, <1>1, <1>2 DEF ListIInv, OnlyDuplicatesDie, Known
      <4> QED
        BY <4>1, <1>1, <2>1, StaysKnown
    <3> QED
      BY <3>1, <3>2
  <2>5. LastKnown'
    BY <1>1, <2>1 DEF LastKnown
  <2> QED
    BY <1>3, <2>1, <2>2, <2>3, <2>4, <2>5 DEF ListIInv
<1>7. CASE waiting' = [waiting EXCEPT ![m] = @ + 1] /\ UNCHANGED <<head, lastId>>
  <2>1. /\ waiting' \in [Messages -> Nat]
        /\ \A y \in Messages : waiting'[y] = waiting[y] + (IF m = y THEN 1 ELSE 0)
    BY <1>1, <1>7
  <2>2. ListTypeOK'
    BY <1>1, <1>2, <1>7, <2>1 DEF ListIInv, ListTypeOK
  <2>3. OnePlace'
    <3> SUFFICES ASSUME NEW y \in Messages
                 PROVE  /\ Copies(head, y) + waiting'[y] + reads[y] <= copies'[y]
                        /\ ~removing => Copies(head, y) + waiting'[y] + reads[y] = copies'[y]
      BY <1>1, <1>7 DEF OnePlace
    <3>1. copies[y] \in Nat /\ waiting[y] \in Nat /\ reads[y] \in Nat
      BY <1>1
    <3>2. /\ copies'[y] = copies[y] + (IF m = y THEN 1 ELSE 0)
          /\ waiting'[y] = waiting[y] + (IF m = y THEN 1 ELSE 0)
      BY <1>2, <2>1
    <3> QED
      BY <3>1, <3>2, <1>4, <1>5
  <2>4. Sorted' /\ LastKnown'
    BY <1>1, <1>7 DEF ListIInv, Sorted, LastKnown, Known, Kept
  <2>5. OnlyDuplicatesDie'
    <3> SUFFICES ASSUME NEW y \in Messages, copies'[y] > 0
                 PROVE  waiting'[y] > 0 \/ Kept(y)' \/ (removing /\ Known(msgId[y])')
      BY <1>1 DEF OnlyDuplicatesDie, Known
    <3>1. waiting[y] \in Nat /\ copies[y] \in Nat
      BY <1>1
    <3>2. CASE y = m
      BY <3>1, <3>2, <2>1
    <3>3. CASE y # m
      <4>1. waiting[y] > 0 \/ Kept(y) \/ (removing /\ Known(msgId[y]))
        BY <3>1, <3>3, <1>2 DEF ListIInv, OnlyDuplicatesDie, Known
      <4>2. waiting'[y] = waiting[y]
        BY <3>1, <3>3, <2>1
      <4> QED
        BY <4>1, <4>2, <1>1, <1>7, StaysKnown
    <3> QED
      BY <3>2, <3>3
  <2> QED
    BY <1>3, <2>2, <2>3, <2>4, <2>5 DEF ListIInv
<1> QED
  BY <1>6, <1>7

\* A message that waited goes from its event set into the list, or is destroyed.
LEMMA InsertDelayedInv ==
  ASSUME ListIInv, NEW m \in Messages, InsertWaiting(m)
  PROVE  ListIInv'
<1> USE DEF InsertWaiting
<1>1. /\ copies \in [Messages -> Nat] /\ waiting \in [Messages -> Nat]
      /\ reads \in [Messages -> Nat]
      /\ removing' = removing /\ msgId' = msgId /\ reads' = reads /\ lastSeq' = lastSeq
      /\ accepted' = accepted /\ told' = told
  BY DEF ListIInv, ListTypeOK, setUp, readerVars
<1>2. /\ waiting[m] > 0 /\ waiting' \in [Messages -> Nat]
      /\ \A y \in Messages : waiting'[y] = waiting[y] - (IF m = y THEN 1 ELSE 0)
  BY <1>1
<1>3. ReaderKnows' /\ GapsReported'
  BY ReadersUndisturbed
<1>4. /\ head' \in Seq(Items) /\ Sorted' /\ lastId' = msgId[m]
      /\ ToSet(head) \subseteq ToSet(head')
      /\ Known(msgId[m])'
      /\ m \in ToSet(head') \/ removing
      /\ \A y : /\ Copies(head, y) \in Nat /\ Copies(head', y) \in Nat
                /\ Copies(head', y) <= Copies(head, y) + (IF m = y THEN 1 ELSE 0)
                /\ ~removing =>
                     Copies(head', y) = Copies(head, y) + (IF m = y THEN 1 ELSE 0)
  BY Inserted
<1>5. \A y \in Messages :
        /\ Copies(head, y) + waiting[y] + reads[y] <= copies[y]
        /\ ~removing => Copies(head, y) + waiting[y] + reads[y] = copies[y]
  BY DEF ListIInv, OnePlace
<1>6. ListTypeOK'
  <2>1. lastId' \in Nat
    BY <1>4, NumbersAreNumbers DEF ListIInv
  <2> QED
    BY <1>1, <1>2, <1>4, <2>1 DEF ListIInv, ListTypeOK, Items
<1>7. OnePlace'
  <2> SUFFICES ASSUME NEW y \in Messages
               PROVE  /\ Copies(head', y) + waiting'[y] + reads[y] <= copies[y]
                      /\ ~removing => Copies(head', y) + waiting'[y] + reads[y] = copies[y]
    BY <1>1 DEF OnePlace
  <2>1. copies[y] \in Nat /\ waiting[y] \in Nat /\ reads[y] \in Nat
    BY <1>1
  <2>2. waiting'[y] = waiting[y] - (IF m = y THEN 1 ELSE 0)
    BY <1>2
  <2>3. /\ Copies(head, y) + waiting[y] + reads[y] <= copies[y]
        /\ ~removing => Copies(head, y) + waiting[y] + reads[y] = copies[y]
    BY <1>5
  <2>4. /\ Copies(head, y) \in Nat /\ Copies(head', y) \in Nat
        /\ Copies(head', y) <= Copies(head, y) + (IF m = y THEN 1 ELSE 0)
        /\ ~removing => Copies(head', y) = Copies(head, y) + (IF m = y THEN 1 ELSE 0)
    BY <1>4
  <2> QED
    BY <2>1, <2>2, <2>3, <2>4
<1>8. OnlyDuplicatesDie'
  <2> SUFFICES ASSUME NEW y \in Messages, copies[y] > 0
               PROVE  waiting'[y] > 0 \/ Kept(y)' \/ (removing /\ Known(msgId[y])')
    BY <1>1 DEF OnlyDuplicatesDie, Known
  <2>1. CASE y = m
    BY <2>1, <1>4 DEF Kept
  <2>2. CASE y # m
    <3>1. waiting[y] > 0 \/ Kept(y) \/ (removing /\ Known(msgId[y]))
      BY DEF ListIInv, OnlyDuplicatesDie, Known
    <3>2. waiting'[y] = waiting[y]
      BY <2>2, <1>1, <1>2
    <3> QED
      BY <3>1, <3>2, <1>1, <1>4, StaysKnown
  <2> QED
    BY <2>1, <2>2
<1>9. LastKnown'
  BY <1>1, <1>4 DEF LastKnown
<1> QED
  BY <1>3, <1>4, <1>6, <1>7, <1>8, <1>9 DEF ListIInv

\* An item of another type goes to the end and disturbs no message.
LEMMA ParseOtherInv == ListIInv /\ ParseOther => ListIInv'
<1> SUFFICES ASSUME ListIInv, ParseOther PROVE ListIInv'
  OBVIOUS
<1> USE DEF ParseOther
<1>1. /\ head \in Seq(Items) /\ Notice \in Items /\ Notice \notin Messages /\ Len(head) \in Nat
      /\ removing' = removing /\ msgId' = msgId /\ reads' = reads
      /\ lastSeq' = lastSeq /\ accepted' = accepted /\ told' = told
  BY MessageConstants DEF ListIInv, ListTypeOK, Items, setUp, readerVars
<1>2. head' = Append(head, Notice) /\ head' \in Seq(Items)
  BY <1>1
<1>3. /\ DOMAIN head' = 1 .. Len(head) + 1 /\ DOMAIN head = 1 .. Len(head)
      /\ \A i \in DOMAIN head : head'[i] = head[i]
      /\ head'[Len(head) + 1] = Notice
  BY <1>1, <1>2
<1>4. \A i \in DOMAIN head' : head'[i] \in Messages => i \in DOMAIN head /\ head'[i] = head[i]
  BY <1>1, <1>3
<1>5. Sorted'
  BY <1>1, <1>4 DEF ListIInv, Sorted
<1>6. ToSet(head') = ToSet(head) \cup {Notice}
  BY <1>1, <1>2, ElementsAfter
<1>7. \A y \in Messages : Copies(head', y) = Copies(head, y)
  <2> SUFFICES ASSUME NEW y \in Messages PROVE Copies(head', y) = Copies(head, y)
    OBVIOUS
  <2>1. Copies(head', y) = Copies(head, y) + (IF Notice = y THEN 1 ELSE 0)
    BY <1>1, <1>2, CopiesAppended
  <2>2. Copies(head, y) \in Nat
    BY <1>1, PlacesFinite
  <2> QED
    BY <2>1, <2>2, <1>1
<1>8. ListTypeOK'
  BY <1>1, <1>2, MessageConstants DEF ListIInv, ListTypeOK, Items, Arrive
<1>9. OnePlace'
  BY <1>1, <1>7 DEF ListIInv, OnePlace
<1>10. /\ \A m \in Messages : Kept(m) => Kept(m)'
       /\ \A k : Known(k) => Known(k)'
  BY <1>6, StaysKnown
<1>11. OnlyDuplicatesDie' /\ LastKnown'
  BY <1>1, <1>10 DEF ListIInv, OnlyDuplicatesDie, LastKnown, Known
<1>12. ReaderKnows' /\ GapsReported'
  BY ReadersUndisturbed
<1> QED
  BY <1>5, <1>8, <1>9, <1>11, <1>12 DEF ListIInv

\* lwqq_msg_check_lost accepts a message right after the last one of its group, or
\* says 1: with the numbers of a group all different, nothing is passed over.
LEMMA ReadSequence ==
  ASSUME ListIInv, Read, Head(head) \in Messages
  PROVE  ReaderKnows' /\ GapsReported'
<1> DEFINE x == Head(head)
           g == From[x]
           v == Verdict(x)
<1>1. /\ x \in Messages /\ lastSeq \in [Groups -> Nat]
      /\ accepted \subseteq Messages /\ told \subseteq Groups
      /\ accepted' = IF v = -1 THEN accepted ELSE accepted \cup {x}
      /\ told' = IF v = 1 THEN told \cup {g} ELSE told
      /\ lastSeq' = IF g \in Groups /\ v # -1
                      THEN [lastSeq EXCEPT ![g] = GroupSeq[x]] ELSE lastSeq
      /\ v = IF g \in Groups THEN Judged(GroupSeq[x], lastSeq[g]) ELSE 0
  BY DEF ListIInv, ListTypeOK, Read, Verdict
<1>2. /\ \A m \in Messages : GroupSeq[m] \in Nat /\ GroupSeq[m] # 0
      /\ \A m, n \in Messages :
           From[m] = From[n] /\ From[m] \in Groups /\ GroupSeq[m] = GroupSeq[n] => m = n
  BY MessageConstants DEF Number
<1> HIDE DEF x, g, v
<1>0. g = From[x]
  BY DEF g
<1>3. CASE v = -1 \/ g \notin Groups
  <2>1. lastSeq' = lastSeq /\ accepted \subseteq accepted' /\ told \subseteq told'
        /\ \A n \in accepted' : From[n] \in Groups => n \in accepted
    BY <1>0, <1>1, <1>3
  <2>2. ReaderKnows'
    BY <2>1 DEF ListIInv, ReaderKnows
  <2>3. GapsReported'
    BY <2>1 DEF ListIInv, GapsReported
  <2> QED
    BY <2>2, <2>3
<1>4. CASE v # -1 /\ g \in Groups
  <2>1. /\ accepted' = accepted \cup {x} /\ told \subseteq told'
        /\ lastSeq'[g] = GroupSeq[x]
        /\ \A h \in Groups : h # g => lastSeq'[h] = lastSeq[h]
    BY <1>1, <1>4
  <2>2. ReaderKnows'
    <3> SUFFICES ASSUME NEW h \in Groups
                 PROVE  /\ lastSeq'[h] = 0 => \A n \in accepted' : From[n] # h
                        /\ lastSeq'[h] # 0 =>
                             \E n \in accepted' : From[n] = h /\ GroupSeq[n] = lastSeq'[h]
      BY DEF ReaderKnows
    <3>1. CASE h = g
      BY <3>1, <2>1, <1>0, <1>1, <1>2
    <3>2. CASE h # g
      BY <3>2, <2>1, <1>0 DEF ListIInv, ReaderKnows
    <3> QED
      BY <3>1, <3>2
  <2>3. GapsReported'
    <3> SUFFICES ASSUME NEW m \in Messages, NEW n \in Messages,
                        From[m] = From[n], From[m] \in Groups, From[m] \notin told',
                        n \in accepted', GroupSeq[n] < GroupSeq[m],
                        GroupSeq[m] < lastSeq'[From[m]]
                 PROVE  m \in accepted'
      BY DEF GapsReported
    <3>1. From[m] \notin told
      BY <2>1
    <3>2. CASE From[m] # g
      <4>1. n \in accepted /\ lastSeq'[From[m]] = lastSeq[From[m]]
        BY <3>2, <2>1, <1>0
      <4>2. m \in accepted
        BY <4>1, <3>1 DEF ListIInv, GapsReported
      <4> QED
        BY <4>2, <2>1
    <3>3. CASE From[m] = g
      <4>1. v # 1
        BY <3>3, <1>1
      <4>2. /\ GroupSeq[m] \in Nat /\ GroupSeq[n] \in Nat /\ GroupSeq[x] \in Nat
            /\ lastSeq[g] \in Nat /\ GroupSeq[m] < GroupSeq[x]
        BY <3>3, <2>1, <1>1, <1>2, <1>4
      <4>3. n # x /\ n \in accepted
        BY <4>2, <2>1
      <4>4. lastSeq[g] # 0
        BY <4>3, <3>3, <1>4 DEF ListIInv, ReaderKnows
      <4>5. GroupSeq[x] = lastSeq[g] + 1
        <5>1. v = Judged(GroupSeq[x], lastSeq[g])
          BY <1>1, <1>4
        <5> QED
          BY <5>1, <4>1, <4>2, <4>4, <1>4 DEF Judged
      <4>6. CASE GroupSeq[m] < lastSeq[g]
        BY <4>6, <4>3, <3>1, <3>3, <2>1 DEF ListIInv, GapsReported
      <4>7. CASE GroupSeq[m] = lastSeq[g]
        <5>1. PICK w \in accepted : From[w] = g /\ GroupSeq[w] = lastSeq[g]
          BY <4>4, <1>4 DEF ListIInv, ReaderKnows
        <5>2. w = m
          BY <5>1, <4>7, <3>3, <1>1, <1>2
        <5> QED
          BY <5>1, <5>2, <2>1
      <4> QED
        BY <4>2, <4>5, <4>6, <4>7
    <3> QED
      BY <3>2, <3>3
  <2> QED
    BY <2>2, <2>3
<1> QED
  BY <1>3, <1>4

\* Reading takes the first item out of the list; a message goes to the readers.
LEMMA ReadInv == ListIInv /\ Read => ListIInv'
<1> SUFFICES ASSUME ListIInv, Read PROVE ListIInv'
  OBVIOUS
<1>1. /\ head \in Seq(Items) /\ Len(head) \in Nat /\ head # << >> /\ head' = Tail(head)
      /\ removing' = removing /\ msgId' = msgId /\ lastId' = lastId
      /\ arrivals' = arrivals /\ copies' = copies /\ waiting' = waiting
      /\ copies \in [Messages -> Nat] /\ waiting \in [Messages -> Nat]
      /\ reads \in [Messages -> Nat]
  BY DEF ListIInv, ListTypeOK, Items, Read, setUp
<1>2. /\ head' \in Seq(Items) /\ Head(head) \in Items
      /\ DOMAIN head' = 1 .. Len(head) - 1 /\ DOMAIN head = 1 .. Len(head)
      /\ \A i \in DOMAIN head' : i + 1 \in DOMAIN head /\ head'[i] = head[i + 1]
  <2>1. Tail(head) \in Seq(Items) /\ Head(head) \in Items /\ Len(Tail(head)) = Len(head) - 1
    BY <1>1
  <2>2. \A i \in 1 .. Len(head) - 1 : Tail(head)[i] = head[i + 1]
    BY <1>1
  <2> QED
    BY <2>1, <2>2, <1>1
<1>3. Sorted'
  <2> SUFFICES ASSUME NEW i \in DOMAIN head', NEW j \in DOMAIN head',
                      i < j, head'[i] \in Messages, head'[j] \in Messages
               PROVE  /\ msgId[head'[i]] <= msgId[head'[j]]
                      /\ removing => msgId[head'[i]] # msgId[head'[j]]
    BY <1>1 DEF Sorted
  <2>1. /\ i + 1 \in DOMAIN head /\ j + 1 \in DOMAIN head /\ i + 1 < j + 1
        /\ head'[i] = head[i + 1] /\ head'[j] = head[j + 1]
    BY <1>2
  <2> QED
    BY <2>1 DEF ListIInv, Sorted
<1>4. ToSet(head) = {Head(head)} \cup ToSet(head')
  BY <1>1, <1>2, ElementsAfter
<1>5. \A y : /\ Copies(head, y) = Copies(head', y) + (IF Head(head) = y THEN 1 ELSE 0)
             /\ Copies(head', y) \in Nat
  <2>1. \A y : Copies(head, y) = Copies(Tail(head), y) + (IF Head(head) = y THEN 1 ELSE 0)
    BY <1>1, CopiesBehind
  <2>2. \A y : Copies(head', y) \in Nat
    BY <1>2, PlacesFinite
  <2> QED
    BY <2>1, <2>2, <1>1
<1>6. /\ reads' \in [Messages -> Nat]
      /\ \A y \in Messages : reads'[y] = reads[y] + (IF Head(head) = y THEN 1 ELSE 0)
      /\ accepted' \subseteq Messages /\ told' \subseteq Groups
      /\ lastSeq' \in [Groups -> Nat]
  <2>1. CASE Head(head) \in Messages
    <3>1. reads' = [reads EXCEPT ![Head(head)] = @ + 1]
      BY <2>1 DEF Read
    <3>2. /\ accepted' \in {accepted, accepted \cup {Head(head)}}
          /\ told' \subseteq Groups
      BY <2>1 DEF Read, Verdict, ListIInv, ListTypeOK
    <3>3. lastSeq' \in [Groups -> Nat]
      BY <2>1, MessageConstants DEF Read, ListIInv, ListTypeOK, Number
    <3> QED
      BY <3>1, <3>2, <3>3, <2>1, <1>1 DEF ListIInv, ListTypeOK
  <2>2. CASE Head(head) \notin Messages
    <3>1. UNCHANGED <<reads, lastSeq, accepted, told>>
      BY <2>2 DEF Read, readerVars
    <3> QED
      BY <3>1, <2>2, <1>1 DEF ListIInv, ListTypeOK
  <2> QED
    BY <2>1, <2>2
<1>7. ListTypeOK'
  BY <1>1, <1>2, <1>6 DEF ListIInv, ListTypeOK, Items
<1>8. OnePlace'
  <2> SUFFICES ASSUME NEW y \in Messages
               PROVE  /\ Copies(head', y) + waiting[y] + reads'[y] <= copies[y]
                      /\ ~removing => Copies(head', y) + waiting[y] + reads'[y] = copies[y]
    BY <1>1 DEF OnePlace
  <2>1. /\ Copies(head, y) + waiting[y] + reads[y] <= copies[y]
        /\ ~removing => Copies(head, y) + waiting[y] + reads[y] = copies[y]
    BY DEF ListIInv, OnePlace
  <2>2. reads'[y] = reads[y] + (IF Head(head) = y THEN 1 ELSE 0)
    BY <1>6
  <2>3. copies[y] \in Nat /\ waiting[y] \in Nat /\ reads[y] \in Nat
    BY <1>1
  <2> QED
    BY <2>1, <2>2, <2>3, <1>5
<1>9. \A y \in Messages : Kept(y) => Kept(y)'
  <2> SUFFICES ASSUME NEW y \in Messages, Kept(y) PROVE y \in ToSet(head') \/ reads'[y] > 0
    BY DEF Kept
  <2>1. reads'[y] = reads[y] + (IF Head(head) = y THEN 1 ELSE 0) /\ reads[y] \in Nat
    BY <1>1, <1>6
  <2>2. y = Head(head) \/ y \in ToSet(head') \/ reads[y] > 0
    BY <1>4 DEF Kept
  <2> QED
    BY <2>1, <2>2
<1>10. \A k : Known(k) => Known(k)'
  BY <1>1, <1>9 DEF Known
<1>11. OnlyDuplicatesDie' /\ LastKnown'
  BY <1>1, <1>9, <1>10 DEF ListIInv, OnlyDuplicatesDie, LastKnown, Known
<1>12. ReaderKnows' /\ GapsReported'
  <2>1. CASE Head(head) \in Messages
    BY <2>1, ReadSequence
  <2>2. CASE Head(head) \notin Messages
    BY <2>2, ReadersUndisturbed DEF Read
  <2> QED
    BY <2>1, <2>2
<1> QED
  BY <1>3, <1>7, <1>8, <1>11, <1>12 DEF ListIInv

LEMMA StepInv == ListIInv /\ [ListNext]_listVars => ListIInv'
<1> SUFFICES ASSUME ListIInv, [ListNext]_listVars PROVE ListIInv'
  OBVIOUS
<1>1. CASE UNCHANGED listVars
  BY <1>1 DEF listVars, ListIInv, ListTypeOK, Sorted, OnePlace, OnlyDuplicatesDie, Kept,
              LastKnown, Known, ReaderKnows, GapsReported
<1>2. CASE \E m \in Messages : ParseMessage(m) \/ InsertWaiting(m)
  BY <1>2, ParseMessageInv, InsertDelayedInv
<1>3. CASE ParseOther \/ Read
  BY <1>3, ParseOtherInv, ReadInv
<1> QED
  BY <1>1, <1>2, <1>3 DEF ListNext

THEOREM ListInvariance == ListSpec => []ListIInv
BY InitInv, StepInv, PTL DEF ListSpec

\* The list holds messages and other items that there are; what waits and what was
\* read is counted (msg.c:531-607).
THEOREM ListTypeCorrect == ListSpec => []ListTypeOK
<1>1. ListIInv => ListTypeOK
  BY DEF ListIInv
<1> QED
  BY <1>1, ListInvariance, PTL

\* However messages come and event sets fire, the list is sorted by msg_id, whatever
\* msg_ids the server gives and to whom, and has no number twice when duplicates are
\* removed (insert_recv_msg_with_order, msg.c:1645-1683).
THEOREM ListSorted == ListSpec => []Sorted
<1>1. ListIInv => Sorted
  BY DEF ListIInv
<1> QED
  BY <1>1, ListInvariance, PTL

\* No copy of a message is in two places, so none is read or freed twice, and none is
\* dropped when duplicates are not removed.
THEOREM NoCopyTwice == ListSpec => []OnePlace
<1>1. ListIInv => OnePlace
  BY DEF ListIInv
<1> QED
  BY <1>1, ListInvariance, PTL

\* A message is only ever destroyed for another of its msg_id, of whatever sender, that
\* is in the list or was read: the number of what is lost is never lost.
THEOREM NumberNeverLost == ListSpec => []OnlyDuplicatesDie
<1>1. ListIInv => OnlyDuplicatesDie
  BY DEF ListIInv
<1> QED
  BY <1>1, ListInvariance, PTL

\* In a group of which the check never said 1 no message between two accepted ones is
\* missing, whatever the list destroyed (msg.c:2416-2423).
THEOREM NoGapHidden == ListSpec => []GapsReported
<1>1. ListIInv => GapsReported
  BY DEF ListIInv
<1> QED
  BY <1>1, ListInvariance, PTL

==============================================================================
