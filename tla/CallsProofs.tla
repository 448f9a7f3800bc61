----------------------------- MODULE CallsProofs -----------------------------
(***************************************************************************)
(* Proofs about Calls, for any finite set of calls, any pictures, any      *)
(* number of retries and of messages that others write.  Each call is a    *)
(* record of its own, so most of the invariant is a predicate on records.  *)
(***************************************************************************)
EXTENDS Calls, FiniteSetTheorems, SequenceTheorems, TLAPS

Waits == {"captcha", "shown", "allow", "uploading", "delay", "request", "served"}
Sends == {"uploading", "delay", "request", "served", "ended"}

\* A call that has not ended keeps its caller waiting, and has no object before the
\* user gave the code.
Begun(m) ==
  /\ m.at = "unused" => m = Unused
  /\ m.at \in Waits => m.event = "waiting"
  /\ m.at \in {"captcha", "shown"} => m.kind \in WithCode /\ m.object = "none"
  /\ m.at = "allow" => m.kind = "add_member"

\* While pictures are uploaded, every picture that is left was tried in each attempt
\* that upload_retry counted.
Tried(m) ==
  /\ m.set # {} => m.at = "uploading"
  /\ \A p \in Pictures : p \in m.set => m.pic[p] = "fresh"
  /\ m.at \in {"uploading", "delay"} =>
       /\ m.kind = "send" /\ m.retry \in -1..(RetryValue - 1)
       /\ \A p \in Pictures : m.pic[p] = "fresh" => m.tries[p] = RetryValue - m.retry
  /\ m.kind = "send" /\ m.at \in {"request", "served", "ended"} =>
       \A p \in Pictures : m.pic[p] = "fresh" => m.tries[p] = RetryValue + 1

\* A message with faces for a group has the signature, waits for it, or asked in vain.
Asked(m, s) ==
  (/\ m.kind = "send" /\ m.to = "group" /\ m.at \in Sends
   /\ \E p \in Pictures : m.type[p] = "cface")
  => s \/ m.unsigned \/ "sig" \in m.set

Listed(m) ==
  m.kind = "create_discu" =>
    /\ m.event = "ok" => m.object = "listed"
    /\ m.event = "failed" => m.object \in {"none", "freed"}

Good(m, s) == m \in CallType /\ Begun(m) /\ Tried(m) /\ Asked(m, s) /\ Listed(m)

CallsGood == call \in [Calls -> CallType] /\ \A c \in Calls : Good(call[c], sig)

\* The commands that are left belong to one call, whose caller still waits; when the
\* last of them is left, the discussion is where it belongs.
LeftOf(c, result) ==
  /\ call[c].at = "ended" /\ call[c].event = "waiting"
  /\ \/ /\ call[c].kind = "create_discu"
        /\ commands = <<<<"do_create_discu", c, result>>, <<"on_chain", c, result>>>>
     \/ /\ commands = <<<<"on_chain", c, result>>>>
        /\ call[c].kind = "create_discu" =>
             call[c].object = IF result = "ok" THEN "listed" ELSE "freed"

CommandsLeft ==
  commands # <<>> => \E c \in Calls, result \in {"ok", "failed"} : LeftOf(c, result)

\* The messages of the group that are numbered here and not at the server.
IsPending(m) == m.kind = "send" /\ m.to = "group" /\ m.at = "request"
Pending == {c \in Calls : IsPending(call[c])}

\* What others wrote goes up to the number of the server, from above our own.
Numbered ==
  /\ \A i, j \in DOMAIN incoming : i < j => incoming[i] < incoming[j]
  /\ ~astray =>
       /\ incoming = <<>> => lastSeq = 0 \/ lastSeq = number + Cardinality(Pending)
       /\ incoming # <<>> => /\ Pending = {}
                             /\ lastSeq < incoming[1]
                             /\ incoming[Len(incoming)] = number

Rest ==
  /\ sig \in BOOLEAN /\ running \in BOOLEAN /\ astray \in BOOLEAN
  /\ lastSeq \in Nat /\ number \in Nat /\ written \in 0..MaxWritten
  /\ incoming \in Seq(Nat)
  /\ commands \in Seq({"do_create_discu", "on_chain"} \X Calls \X {"ok", "failed"})
  /\ \A i \in DOMAIN incoming : incoming[i] <= number

IInv == CallsGood /\ CommandsLeft /\ Numbered /\ Rest

------------------------------------------------------------------------------
(* One call moves. *)

LEMMA PendingIsFinite == IsFiniteSet(Pending) /\ Cardinality(Pending) \in Nat
<1>1. Pending \subseteq Calls BY DEF Pending
<1>2. IsFiniteSet(Pending) BY <1>1, CallConstants, FS_Subset
<1> QED BY <1>2, FS_CardinalityType

\* The commands that are left are not of the call that moves.
LEMMA OthersLeft ==
  ASSUME IInv, NEW c \in Calls, NEW m, call' = [call EXCEPT ![c] = m],
         commands' = commands,
         Idle \/ call[c].at # "ended" \/ call[c].event # "waiting"
  PROVE  CommandsLeft'
<1>1. CASE Idle BY <1>1 DEF Idle, CommandsLeft
<1>2. CASE ~Idle
  <2>1. PICK d \in Calls, result \in {"ok", "failed"} : LeftOf(d, result)
    BY <1>2 DEF Idle, IInv, CommandsLeft
  <2>2. c # d BY <1>2, <2>1 DEF LeftOf
  <2>3. call'[d] = call[d] BY <2>2 DEF IInv, CallsGood
  <2>4. LeftOf(d, result)' BY <2>1, <2>3 DEF LeftOf
  <2> QED BY <2>4 DEF CommandsLeft
<1> QED BY <1>1, <1>2

\* A signature that is there stays, and so every other call stays good.
LEMMA OthersGood ==
  ASSUME IInv, NEW c \in Calls, NEW m, call' = [call EXCEPT ![c] = m],
         Good(m, sig'), sig => sig'
  PROVE  CallsGood'
<1>1. call \in [Calls -> CallType] /\ m \in CallType BY DEF IInv, CallsGood, Good
<1>2. ASSUME NEW d \in Calls, d # c PROVE Good(call'[d], sig')
  <2>1. call'[d] = call[d] /\ Good(call[d], sig) BY <1>1, <1>2 DEF IInv, CallsGood
  <2> QED BY <2>1 DEF Good, Asked
<1>3. call'[c] = m BY <1>1
<1> QED BY <1>1, <1>2, <1>3 DEF CallsGood

\* The step of a call that is no message on its way to the group.
LEMMA CallMoves ==
  ASSUME IInv, NEW c \in Calls, NEW m, call' = [call EXCEPT ![c] = m],
         Good(m, sig'), sig => sig', sig' \in BOOLEAN, running' \in BOOLEAN,
         commands' = commands,
         Idle \/ call[c].at # "ended" \/ call[c].event # "waiting",
         IsPending(m) <=> IsPending(call[c]), UNCHANGED group
  PROVE  IInv'
<1>1. CallsGood' /\ CommandsLeft' BY OthersGood, OthersLeft
<1>2. Pending' = Pending
  <2>1. call \in [Calls -> CallType] BY DEF IInv, CallsGood
  <2>2. \A d \in Calls : IsPending(call'[d]) <=> IsPending(call[d]) BY <2>1
  <2> QED BY <2>2 DEF Pending
<1>3. Numbered' BY <1>2 DEF IInv, Numbered, group
<1>4. Rest' BY DEF IInv, Rest, group
<1> QED BY <1>1, <1>3, <1>4 DEF IInv

------------------------------------------------------------------------------
(* The calls with a code, a permission or one request. *)

LEMMA UnusedIsGood == Good(Unused, sig) /\ ~IsPending(Unused)
BY CallConstants DEF Good, CallType, Unused, Begun, Tried, Asked, Listed, Kinds,
   PictureTypes, Waits, Sends, IsPending

LEMMA InvInit == Init => IInv
<1> SUFFICES ASSUME Init PROVE IInv
  OBVIOUS
<1>1. CallsGood
  <2>1. Unused \in CallType BY UnusedIsGood DEF Good
  <2> QED BY <2>1, UnusedIsGood DEF Init, CallsGood
<1>2. Pending = {} BY UnusedIsGood DEF Init, Pending
<1>3. Cardinality(Pending) = 0 BY <1>2, FS_EmptySet
<1>4. Rest
  <2>1. /\ commands = <<>> /\ incoming = <<>>
        /\ commands \in Seq({"do_create_discu", "on_chain"} \X Calls \X {"ok", "failed"})
        /\ incoming \in Seq(Nat) /\ DOMAIN incoming = {}
    BY DEF Init
  <2>2. written = 0 /\ written \in 0..MaxWritten BY CallConstants DEF Init
  <2>3. lastSeq \in Nat /\ number \in Nat BY DEF Init
  <2> QED BY <2>1, <2>2, <2>3 DEF Init, Rest
<1>5. Numbered BY <1>2, <1>3 DEF Init, Numbered
<1> QED BY <1>1, <1>4, <1>5 DEF Init, IInv, CommandsLeft

\* A call that is not used yet is as new.
LEMMA UnusedCall ==
  ASSUME IInv, NEW c \in Calls, call[c].at = "unused"
  PROVE  call[c] = Unused
BY DEF IInv, CallsGood, Good, Begun

\* A call other than a message, that waits for its first request, is good.
LEMMA WaitingIsGood ==
  ASSUME NEW m \in CallType, NEW s,
         m.event = "waiting", m.set = {}, m.kind # "send",
         m.at \in {"captcha", "allow", "request"},
         m.at = "captcha" => m.kind \in WithCode /\ m.object = "none",
         m.at = "allow" => m.kind = "add_member"
  PROVE  Good(m, s) /\ ~IsPending(m)
<1>1. Begun(m) BY DEF Begun, Waits
<1>2. Tried(m) BY DEF Tried
<1>3. Asked(m, s) BY DEF Asked
<1>4. Listed(m) BY DEF Listed
<1>5. ~IsPending(m) BY DEF IsPending
<1> QED BY <1>1, <1>2, <1>3, <1>4, <1>5 DEF Good

LEMMA UnusedHasType == Unused \in CallType
BY UnusedIsGood DEF Good

LEMMA RequestCaptchaKeeps ==
  ASSUME IInv, NEW c \in Calls, NEW kind \in WithCode, RequestCaptcha(c, kind)
  PROVE  IInv'
<1> DEFINE m == [Unused EXCEPT !.kind = kind, !.at = "captcha", !.event = "waiting"]
<1>1. call[c] = Unused /\ call[c].at = "unused" BY UnusedCall DEF RequestCaptcha
<1>2. call' = [call EXCEPT ![c] = m]
  BY <1>1 DEF RequestCaptcha, IInv, CallsGood
<1>3. Good(m, sig') /\ ~IsPending(m)
  <2>1. kind \in Kinds /\ kind # "send" BY DEF Kinds, WithCode
  <2>2. m \in CallType BY <2>1, UnusedHasType DEF CallType
  <2>3. /\ m.kind = kind /\ m.at = "captcha" /\ m.event = "waiting"
        /\ m.object = "none" /\ m.set = {}
    BY DEF Unused
  <2> HIDE DEF m
  <2> QED BY <2>1, <2>2, <2>3, WaitingIsGood
<1> HIDE DEF m
<1> QED BY <1>1, <1>2, <1>3, UnusedIsGood, CallMoves DEF RequestCaptcha, IInv, Rest

LEMMA SingleKeeps ==
  ASSUME IInv, NEW c \in Calls, NEW kind \in {"single", "file"},
         NEW object \in {"none", "held"}, Single(c, kind, object)
  PROVE  IInv'
<1> DEFINE m == [Unused EXCEPT !.kind = kind, !.at = "request", !.event = "waiting",
                               !.object = object]
<1>1. call[c] = Unused /\ call[c].at = "unused" BY UnusedCall DEF Single
<1>2. call' = [call EXCEPT ![c] = m]
  BY <1>1 DEF Single, IInv, CallsGood
<1>3. Good(m, sig') /\ ~IsPending(m)
  <2>1. kind \in Kinds /\ kind # "send" BY DEF Kinds
  <2>2. m \in CallType BY <2>1, UnusedHasType DEF CallType
  <2>3. m.kind = kind /\ m.at = "request" /\ m.event = "waiting" /\ m.set = {}
    BY DEF Unused
  <2> HIDE DEF m
  <2> QED BY <2>1, <2>2, <2>3, WaitingIsGood
<1> HIDE DEF m
<1> QED BY <1>1, <1>2, <1>3, UnusedIsGood, CallMoves DEF Single, IInv, Rest

LEMMA AddGroupMemberKeeps ==
  ASSUME IInv, NEW c \in Calls, AddGroupMemberAsFriend(c) PROVE IInv'
<1> DEFINE m == [Unused EXCEPT !.kind = "add_member", !.at = "allow",
                               !.event = "waiting", !.object = "held"]
<1>1. call[c] = Unused /\ call[c].at = "unused"
  BY UnusedCall DEF AddGroupMemberAsFriend
<1>2. call' = [call EXCEPT ![c] = m]
  BY <1>1 DEF AddGroupMemberAsFriend, IInv, CallsGood
<1>3. Good(m, sig') /\ ~IsPending(m)
  <2>1. "add_member" \in Kinds BY DEF Kinds
  <2>2. m \in CallType BY <2>1, UnusedHasType DEF CallType
  <2>3. m.kind = "add_member" /\ m.at = "allow" /\ m.event = "waiting" /\ m.set = {}
    BY DEF Unused
  <2> HIDE DEF m
  <2> QED BY <2>2, <2>3, WaitingIsGood
<1> HIDE DEF m
<1> QED BY <1>1, <1>2, <1>3, UnusedIsGood, CallMoves
        DEF AddGroupMemberAsFriend, IInv, Rest

LEMMA SendOfffileKeeps == ASSUME IInv, NEW c \in Calls, SendOfffile(c) PROVE IInv'
<1> DEFINE m == [call[c] EXCEPT !.kind = "send_file", !.at = "request",
                                !.event = "waiting"]
<1>1. Good(call[c], sig) /\ call[c] \in CallType /\ call[c].kind = "file"
      /\ call[c].event = "ok"
  BY DEF SendOfffile, IInv, CallsGood, Good
<1>2. call' = [call EXCEPT ![c] = m]
  BY <1>1 DEF SendOfffile, IInv, CallsGood
<1>3. Good(m, sig') /\ ~IsPending(m) /\ ~IsPending(call[c])
  BY <1>1 DEF Good, CallType, Begun, Tried, Asked, Listed, Kinds,
     Waits, Sends, IsPending
<1> HIDE DEF m
<1> QED BY <1>1, <1>2, <1>3, CallMoves DEF SendOfffile, IInv, Rest

\* Until anything is asked for, a call with a code or a permission only moves on, or
\* its event fails.
LEMMA EarlyMoves ==
  ASSUME IInv, NEW c \in Calls, call[c].at \in {"captcha", "shown", "allow"},
         NEW m, call' = [call EXCEPT ![c] = m],
         Good(m, sig), m.kind = call[c].kind,
         UNCHANGED <<commands, sig, running, group>>
  PROVE  IInv'
<1>1. Good(call[c], sig) /\ call[c].kind \in WithCode \cup {"add_member"}
  BY DEF IInv, CallsGood, Good, Begun
<1>2. ~IsPending(m) /\ ~IsPending(call[c]) BY <1>1 DEF IsPending, WithCode
<1> QED BY <1>2, CallMoves DEF IInv, Rest

LEMMA EarlyRecords ==
  ASSUME NEW m, Good(m, sig), m.at \in {"captcha", "shown", "allow"}
  PROVE  /\ m.at = "captcha" => Good([m EXCEPT !.at = "shown"], sig)
         /\ Good([m EXCEPT !.at = "forgotten"], sig)
         /\ Good([m EXCEPT !.at = "request"], sig)
         /\ m.at = "shown" => Good([m EXCEPT !.at = "request", !.object = "held"], sig)
         /\ m.at = "shown" => Good([m EXCEPT !.at = "ended", !.event = "failed"], sig)
         /\ m.at = "allow" => Good([m EXCEPT !.at = "ended", !.event = "failed",
                                            !.object = "freed"], sig)
<1> USE DEF Good, CallType, Begun, Tried, Asked, Listed, Waits, Sends, WithCode
<1>1. m.at = "captcha" => Good([m EXCEPT !.at = "shown"], sig)
  OBVIOUS
<1>2. Good([m EXCEPT !.at = "forgotten"], sig)
  OBVIOUS
<1>3. Good([m EXCEPT !.at = "request"], sig)
  OBVIOUS
<1>4. m.at = "shown" => Good([m EXCEPT !.at = "request", !.object = "held"], sig)
  OBVIOUS
<1>5. m.at = "shown" => Good([m EXCEPT !.at = "ended", !.event = "failed"], sig)
  OBVIOUS
<1>6. m.at = "allow" => Good([m EXCEPT !.at = "ended", !.event = "failed",
                                      !.object = "freed"], sig)
  OBVIOUS
<1> QED BY <1>1, <1>2, <1>3, <1>4, <1>5, <1>6

LEMMA KindStays ==
  ASSUME NEW u \in CallType
  PROVE  /\ \A at : [u EXCEPT !.at = at].kind = u.kind
         /\ \A at, o : [u EXCEPT !.at = at, !.object = o].kind = u.kind
         /\ \A at, e : [u EXCEPT !.at = at, !.event = e].kind = u.kind
         /\ \A at, e, o : [u EXCEPT !.at = at, !.event = e, !.object = o].kind = u.kind
<1>1. \A at : [u EXCEPT !.at = at].kind = u.kind BY DEF CallType
<1>2. \A at, o : [u EXCEPT !.at = at, !.object = o].kind = u.kind BY DEF CallType
<1>3. \A at, e : [u EXCEPT !.at = at, !.event = e].kind = u.kind BY DEF CallType
<1>4. \A at, e, o : [u EXCEPT !.at = at, !.event = e, !.object = o].kind = u.kind
  BY DEF CallType
<1> QED BY <1>1, <1>2, <1>3, <1>4

LEMMA CodeKeeps ==
  ASSUME IInv, NEW c \in Calls,
         RequestCaptchaBack(c) \/ UserAnswers(c) \/ AddGroupMemberStage2(c)
  PROVE  IInv'
<1> DEFINE m == call[c]
<1>1. Good(m, sig) /\ m \in CallType /\ call \in [Calls -> CallType]
  BY DEF IInv, CallsGood, Good
<1>2. m.at \in {"captcha", "shown", "allow"} /\ UNCHANGED <<commands, sig, running, group>>
  BY DEF RequestCaptchaBack, UserAnswers, AddGroupMemberStage2
<1>3. ASSUME NEW n, Good(n, sig), n.kind = m.kind, call' = [call EXCEPT ![c] = n]
      PROVE  IInv'
  BY <1>2, <1>3, EarlyMoves
<1>4. /\ \A at : [m EXCEPT !.at = at].kind = m.kind
      /\ \A at, o : [m EXCEPT !.at = at, !.object = o].kind = m.kind
      /\ \A at, e : [m EXCEPT !.at = at, !.event = e].kind = m.kind
      /\ \A at, e, o : [m EXCEPT !.at = at, !.event = e, !.object = o].kind = m.kind
  BY <1>1, KindStays
<1>5. /\ m.at = "captcha" => Good([m EXCEPT !.at = "shown"], sig)
      /\ Good([m EXCEPT !.at = "forgotten"], sig)
      /\ Good([m EXCEPT !.at = "request"], sig)
      /\ m.at = "shown" => Good([m EXCEPT !.at = "request", !.object = "held"], sig)
      /\ m.at = "shown" => Good([m EXCEPT !.at = "ended", !.event = "failed"], sig)
      /\ m.at = "allow" => Good([m EXCEPT !.at = "ended", !.event = "failed",
                                         !.object = "freed"], sig)
  BY <1>1, <1>2, EarlyRecords
<1>6. CASE RequestCaptchaBack(c)
  <2>1. \E at \in {"shown", "forgotten"} :
          m.at = "captcha" /\ call' = [call EXCEPT ![c] = [m EXCEPT !.at = at]]
    BY <1>1, <1>6 DEF RequestCaptchaBack, Moves
  <2> HIDE DEF m
  <2> QED BY <2>1, <1>3, <1>4, <1>5
<1>7. CASE UserAnswers(c)
  <2>1. m.at = "shown" BY <1>7 DEF UserAnswers
  <2>2. \/ call' = [call EXCEPT ![c] = [m EXCEPT !.at = "request"]]
        \/ call' = [call EXCEPT ![c] = [m EXCEPT !.at = "forgotten"]]
        \/ call' = [call EXCEPT ![c] = [m EXCEPT !.at = "ended", !.event = "failed"]]
        \/ call' = [call EXCEPT ![c] = [m EXCEPT !.at = "request", !.object = "held"]]
    BY <1>1, <1>7 DEF UserAnswers, AddFriendStage2, AddGroupStage1, AddGroupStage4,
       CreateDiscuStage2, Moves, Ends
  <2> HIDE DEF m
  <2>3. CASE call' = [call EXCEPT ![c] = [m EXCEPT !.at = "request"]]
    BY <2>3, <1>3, <1>4, <1>5
  <2>4. CASE call' = [call EXCEPT ![c] = [m EXCEPT !.at = "forgotten"]]
    BY <2>4, <1>3, <1>4, <1>5
  <2>5. CASE call' = [call EXCEPT ![c] = [m EXCEPT !.at = "ended", !.event = "failed"]]
    BY <2>1, <2>5, <1>3, <1>4, <1>5
  <2>6. CASE call' = [call EXCEPT ![c] = [m EXCEPT !.at = "request", !.object = "held"]]
    BY <2>1, <2>6, <1>3, <1>4, <1>5
  <2> QED BY <2>2, <2>3, <2>4, <2>5, <2>6
<1>8. CASE AddGroupMemberStage2(c)
  <2>1. m.at = "allow" BY <1>8 DEF AddGroupMemberStage2
  <2>2. \/ call' = [call EXCEPT ![c] = [m EXCEPT !.at = "request"]]
        \/ call' = [call EXCEPT ![c] = [m EXCEPT !.at = "ended", !.event = "failed",
                                                !.object = "freed"]]
    BY <1>1, <1>8 DEF AddGroupMemberStage2, Moves, Ends
  <2> HIDE DEF m
  <2>3. CASE call' = [call EXCEPT ![c] = [m EXCEPT !.at = "request"]]
    BY <2>3, <1>3, <1>4, <1>5
  <2>4. CASE call' = [call EXCEPT ![c] = [m EXCEPT !.at = "ended", !.event = "failed",
                                                   !.object = "freed"]]
    <3> DEFINE n == [m EXCEPT !.at = "ended", !.event = "failed", !.object = "freed"]
    <3>1. Good(n, sig) BY <2>1, <1>5
    <3>2. n.kind = m.kind BY <1>4
    <3> HIDE DEF n
    <3>3. call' = [call EXCEPT ![c] = n] BY <2>4 DEF n
    <3> QED BY <3>1, <3>2, <3>3, <1>3
  <2> QED BY <2>2, <2>3, <2>4
<1> QED BY <1>6, <1>7, <1>8

------------------------------------------------------------------------------
(* Messages. *)

\* A message that lwqq_msg_send may be called with, first or after a delay.
Sendable(m) ==
  /\ m \in CallType /\ m.kind = "send" /\ m.set = {}
  /\ m.retry \in -1..RetryValue
  /\ \A p \in Pictures : m.pic[p] = "fresh" => m.tries[p] = RetryValue - m.retry
  /\ m.to = "group" /\ (\E p \in Pictures : m.type[p] = "cface")
       => \/ sig \/ m.unsigned
          \/ m.retry >= 0 /\ \E p \in Pictures : m.type[p] = "cface" /\ m.pic[p] = "fresh"

LEMMA UploadHasType ==
  ASSUME NEW m \in CallType, NEW retry \in -2..RetryValue,
         NEW set \in SUBSET (Pictures \cup {"sig"}),
         NEW tries \in [Pictures -> 0..(RetryValue + 1)]
  PROVE  [m EXCEPT !.retry = retry, !.at = "uploading", !.event = "waiting",
                   !.set = set, !.tries = tries] \in CallType
BY DEF CallType

\* A message whose pictures are uploaded, in this attempt.
LEMMA UploadIsGood ==
  ASSUME IInv, NEW m, Sendable(m), WillUpload(m) # {},
         NEW set, set = WillUpload(m) \cup (IF ShouldQueryGface(m) THEN {"sig"} ELSE {}),
         NEW tries,
         tries = [p \in Pictures |-> m.tries[p] +
                    IF p \in WillUpload(m) /\ m.tries[p] <= RetryValue THEN 1 ELSE 0]
  PROVE  Good([m EXCEPT !.retry = m.retry - 1, !.at = "uploading", !.event = "waiting",
                        !.set = set, !.tries = tries], sig)
<1> DEFINE n == [m EXCEPT !.retry = m.retry - 1, !.at = "uploading", !.event = "waiting",
                          !.set = set, !.tries = tries]
<1>1. m \in CallType /\ m.retry \in 0..RetryValue /\ RetryValue \in Nat
  BY CallConstants DEF Sendable, WillUpload
<1>2. /\ n.retry = m.retry - 1 /\ n.at = "uploading" /\ n.event = "waiting"
      /\ n.set = set /\ n.tries = tries /\ n.kind = "send" /\ n.pic = m.pic
      /\ n.type = m.type /\ n.to = m.to /\ n.unsigned = m.unsigned
  BY <1>1 DEF CallType, Sendable
<1>3. set \in SUBSET (Pictures \cup {"sig"}) BY DEF WillUpload
<1>4. m.tries \in [Pictures -> 0..(RetryValue + 1)] BY <1>1 DEF CallType
<1>5. \A p \in Pictures : tries[p] \in 0..(RetryValue + 1)
  BY <1>1, <1>4
<1>6. tries \in [Pictures -> 0..(RetryValue + 1)]
  <2>1. tries = [p \in Pictures |-> tries[p]] OBVIOUS
  <2> QED BY <1>5, <2>1
<1>7. n \in CallType
  <2>1. m.retry - 1 \in -2..RetryValue BY <1>1
  <2> QED BY <1>1, <1>3, <1>6, <2>1, UploadHasType
<1>8. \A p \in Pictures : m.pic[p] = "fresh" => tries[p] = RetryValue - (m.retry - 1)
  BY <1>1, <1>4 DEF Sendable, WillUpload
<1>9. Asked(n, sig)
  BY <1>2 DEF Asked, Sendable, ShouldQueryGface, WillUpload
<1> HIDE DEF n
<1>10. n.retry \in -1..(RetryValue - 1) BY <1>1, <1>2
<1>11. Tried(n)
  <2>1. \A p \in Pictures : p \in set => m.pic[p] = "fresh"
    BY CallConstants DEF WillUpload
  <2> QED BY <1>2, <1>8, <1>10, <2>1 DEF Tried
<1>12. Begun(n) /\ Listed(n) BY <1>2 DEF Begun, Listed
<1>13. Good(n, sig) BY <1>7, <1>9, <1>11, <1>12 DEF Good
<1> QED BY <1>13 DEF n

\* A message with no picture left to upload.
LEMMA RequestIsGood ==
  ASSUME IInv, NEW m, Sendable(m), WillUpload(m) = {}
  PROVE  /\ Good([m EXCEPT !.retry = m.retry - 1, !.at = "request", !.event = "waiting"],
                 sig)
         /\ \A at \in {"refused", "crashed"} :
              Good([m EXCEPT !.retry = m.retry - 1, !.at = at], sig)
<1>1. m \in CallType /\ m.retry \in -1..RetryValue /\ RetryValue \in Nat
  BY CallConstants DEF Sendable
<1>2. m.retry - 1 \in -2..RetryValue BY <1>1
<1>3. \A p \in Pictures : m.pic[p] = "fresh" => m.tries[p] = RetryValue + 1
  BY <1>1 DEF Sendable, WillUpload
<1>4. m.to = "group" /\ (\E p \in Pictures : m.type[p] = "cface") => sig \/ m.unsigned
  BY DEF Sendable, WillUpload
<1>5. Good([m EXCEPT !.retry = m.retry - 1, !.at = "request", !.event = "waiting"], sig)
  <2> DEFINE n == [m EXCEPT !.retry = m.retry - 1, !.at = "request", !.event = "waiting"]
  <2>1. n \in CallType BY <1>1, <1>2 DEF CallType
  <2>2. /\ n.kind = m.kind /\ n.to = m.to /\ n.type = m.type /\ n.pic = m.pic
        /\ n.tries = m.tries /\ n.set = m.set /\ n.unsigned = m.unsigned
        /\ n.at = "request" /\ n.event = "waiting"
    BY <1>1 DEF CallType
  <2>3. m.kind = "send" /\ m.set = {} BY DEF Sendable
  <2> HIDE DEF n
  <2>4. Begun(n) /\ Listed(n) BY <2>2, <2>3 DEF Begun, Listed, Waits
  <2>5. Tried(n) BY <1>3, <2>2, <2>3 DEF Tried
  <2>6. Asked(n, sig) BY <1>4, <2>2 DEF Asked
  <2>7. Good(n, sig) BY <2>1, <2>4, <2>5, <2>6 DEF Good
  <2> QED BY <2>7 DEF n
<1>6. ASSUME NEW at \in {"refused", "crashed"}
      PROVE  Good([m EXCEPT !.retry = m.retry - 1, !.at = at], sig)
  BY <1>1, <1>2, <1>6
     DEF Good, CallType, Begun, Tried, Asked, Listed, Waits, Sends, Sendable
<1> QED BY <1>5, <1>6

\* One message more, or less, between the two numbers.
LEMMA OneMore ==
  ASSUME IInv, NEW c \in Calls, NEW m, call' = [call EXCEPT ![c] = m],
         ~IsPending(call[c]), IsPending(m)
  PROVE  Pending' = Pending \cup {c} /\ Cardinality(Pending') = Cardinality(Pending) + 1
<1>1. call \in [Calls -> CallType] BY DEF IInv, CallsGood
<1>2. Pending' = Pending \cup {c} /\ c \notin Pending BY <1>1 DEF Pending
<1> QED BY <1>2, PendingIsFinite, FS_AddElement

LEMMA OneLess ==
  ASSUME IInv, NEW c \in Calls, NEW m, call' = [call EXCEPT ![c] = m],
         IsPending(call[c]), ~IsPending(m)
  PROVE  Pending' = Pending \ {c} /\ Cardinality(Pending') = Cardinality(Pending) - 1
         /\ c \in Pending
<1>1. call \in [Calls -> CallType] BY DEF IInv, CallsGood
<1>2. Pending' = Pending \ {c} /\ c \in Pending BY <1>1 DEF Pending
<1> QED BY <1>2, PendingIsFinite, FS_RemoveElement

LEMMA Together == ASSUME CallsGood', CommandsLeft', Numbered', Rest' PROVE IInv'
BY DEF IInv

LEMMA MsgSendKeeps ==
  ASSUME IInv, NEW c \in Calls, NEW m, Sendable(m), call[c].at \in {"unused", "delay"},
         NEW nowhere \in {"refused", "crashed"}, MsgSend(c, m, nowhere)
  PROVE  IInv'
<1>1. Counted(m) = [m EXCEPT !.retry = m.retry - 1] /\ m \in CallType
  BY DEF Counted, Sendable
<1>2. ~IsPending(call[c]) /\ UNCHANGED <<commands, sig, running, number, incoming, written>>
  BY DEF IsPending, MsgSend
<1>3. CASE WillUpload(m) # {}
  <2> DEFINE set == WillUpload(m) \cup (IF ShouldQueryGface(m) THEN {"sig"} ELSE {})
             tries == [p \in Pictures |-> m.tries[p] +
                    IF p \in WillUpload(m) /\ m.tries[p] <= RetryValue THEN 1 ELSE 0]
             n == [m EXCEPT !.retry = m.retry - 1, !.at = "uploading",
                            !.event = "waiting", !.set = set, !.tries = tries]
  <2>1. Good(n, sig) BY <1>3, UploadIsGood
  <2>2. call' = [call EXCEPT ![c] = n] /\ UNCHANGED <<lastSeq, astray>>
    BY <1>1, <1>3 DEF MsgSend, CallType
  <2>3. ~IsPending(n) BY <1>1 DEF IsPending, CallType
  <2> HIDE DEF n
  <2> QED BY <1>2, <2>1, <2>2, <2>3, CallMoves DEF group, IInv, Rest
<1>4. CASE WillUpload(m) = {} /\ ~running
  <2> DEFINE n == [m EXCEPT !.retry = m.retry - 1, !.at = nowhere]
  <2>1. Good(n, sig) BY <1>4, RequestIsGood
  <2>2. call' = [call EXCEPT ![c] = n] /\ UNCHANGED <<lastSeq, astray>>
    BY <1>1, <1>4 DEF MsgSend, CallType
  <2>3. ~IsPending(n) BY <1>1 DEF IsPending, CallType
  <2> HIDE DEF n
  <2> QED BY <1>2, <2>1, <2>2, <2>3, CallMoves DEF group, IInv, Rest
<1>5. CASE WillUpload(m) = {} /\ running
  <2> DEFINE n == [m EXCEPT !.retry = m.retry - 1, !.at = "request", !.event = "waiting"]
  <2>1. Good(n, sig) BY <1>5, RequestIsGood
  <2>2. /\ call' = [call EXCEPT ![c] = n]
        /\ lastSeq' = IF IncreSeq(m) THEN lastSeq + 1 ELSE lastSeq
        /\ astray' = (astray \/ (m.to = "group" /\ incoming # <<>>))
    BY <1>1, <1>5 DEF MsgSend, CallType
  <2>3. IsPending(n) <=> m.to = "group" BY <1>1 DEF IsPending, CallType, Sendable
  <2> HIDE DEF n
  <2>4. CallsGood' /\ CommandsLeft' BY <1>2, <2>1, <2>2, OthersGood, OthersLeft
  <2>5. lastSeq \in Nat /\ number \in Nat /\ astray \in BOOLEAN BY DEF IInv, Rest
  <2>6. lastSeq' \in Nat /\ astray' \in BOOLEAN BY <2>2, <2>5
  <2>7. Rest' BY <1>2, <2>6 DEF IInv, Rest
  <2>8. Numbered'
    <3>1. CASE m.to = "group"
      <4>1. /\ Pending' = Pending \cup {c}
            /\ Cardinality(Pending') = Cardinality(Pending) + 1
        BY <1>2, <2>2, <2>3, <3>1, OneMore
      <4>2. CASE incoming # <<>>
        <5>1. astray' = TRUE BY <2>2, <3>1, <4>2
        <5> QED BY <1>2, <5>1 DEF IInv, Numbered
      <4>3. CASE incoming = <<>>
        <5>1. ~astray' => lastSeq = 0 \/ lastSeq = number + Cardinality(Pending)
          BY <2>2, <2>5, <4>3 DEF IInv, Numbered
        <5>2. lastSeq' = IF lastSeq # 0 THEN lastSeq + 1 ELSE lastSeq
          BY <2>2, <3>1 DEF IncreSeq
        <5>3. ~astray' => lastSeq' = 0 \/ lastSeq' = number' + Cardinality(Pending')
          BY <1>2, <2>5, <4>1, <5>1, <5>2, PendingIsFinite
        <5> QED BY <1>2, <4>3, <5>3 DEF IInv, Numbered
      <4> QED BY <4>2, <4>3
    <3>2. CASE m.to # "group"
      <4>1. Pending' = Pending
        BY <1>2, <2>2, <2>3, <3>2 DEF Pending, IInv, CallsGood
      <4>2. astray' = astray /\ lastSeq' = lastSeq
        BY <2>2, <2>5, <3>2 DEF IncreSeq
      <4> QED BY <1>2, <4>1, <4>2 DEF IInv, Numbered
    <3> QED BY <3>1, <3>2
  <2> QED BY <2>4, <2>7, <2>8, Together, ZenonT(30)
<1> QED BY <1>3, <1>4, <1>5

LEMMA SendKeeps ==
  ASSUME IInv, NEW c \in Calls, Send(c) \/ MsgSendContinue(c) PROVE IInv'
<1>1. CASE Send(c)
  <2>1. PICK to \in {"buddy", "group"}, type \in [Pictures -> PictureTypes] :
          MsgSend(c, [Unused EXCEPT !.kind = "send", !.to = to, !.type = type,
                       !.pic = [p \in Pictures |->
                                  IF type[p] = "none" THEN "none" ELSE "fresh"]],
                 "refused")
    BY <1>1 DEF Send
  <2> DEFINE pic == [p \in Pictures |-> IF type[p] = "none" THEN "none" ELSE "fresh"]
             m == [Unused EXCEPT !.kind = "send", !.to = to, !.type = type, !.pic = pic]
  <2>2. pic \in [Pictures -> {"none", "fresh", "uploaded", "told"}]
        /\ \A p \in Pictures : type[p] = "cface" => pic[p] = "fresh"
    OBVIOUS
  <2>3. Sendable(m)
    <3> HIDE DEF pic
    <3>1. Unused \in CallType BY UnusedIsGood DEF Good
    <3>2. m \in CallType
      <4>1. "send" \in Kinds BY DEF Kinds
      <4> QED BY <2>2, <3>1, <4>1 DEF CallType
    <3>3. /\ m.kind = "send" /\ m.set = {} /\ m.retry = RetryValue
          /\ m.tries = [p \in Pictures |-> 0] /\ m.pic = pic /\ m.type = type
      BY DEF Unused
    <3>4. RetryValue - RetryValue = 0 /\ RetryValue \in -1..RetryValue /\ RetryValue >= 0
      BY CallConstants
    <3> HIDE DEF m
    <3> QED BY <2>2, <3>2, <3>3, <3>4 DEF Sendable
  <2>4. MsgSend(c, m, "refused") BY <2>1
  <2> HIDE DEF m
  <2> QED BY <1>1, <2>3, <2>4, MsgSendKeeps DEF Send
<1>2. CASE MsgSendContinue(c)
  <2>1. MsgSend(c, call[c], "crashed") /\ call[c].at = "delay"
    BY <1>2 DEF MsgSendContinue
  <2>2. Good(call[c], sig) BY DEF IInv, CallsGood
  <2>3. Sendable(call[c])
    BY <2>1, <2>2, CallConstants DEF Good, Tried, Asked, Sends, Sendable
  <2> QED BY <2>1, <2>3, MsgSendKeeps
<1> QED BY <1>1, <1>2

\* An answer for a picture or for the signature: m is the message with what was
\* learned, and s the signature after it.
LEMMA AnsweredKeeps ==
  ASSUME IInv, NEW c \in Calls, NEW r \in call[c].set, Idle, NEW m, Answered(c, r, m),
         m \in CallType, m.kind = call[c].kind, m.at = call[c].at,
         m.event = call[c].event, m.object = call[c].object, m.to = call[c].to,
         m.type = call[c].type, m.set = call[c].set, m.retry = call[c].retry,
         m.tries = call[c].tries,
         \A p \in Pictures \ {r} : m.pic[p] = call[c].pic[p],
         call[c].unsigned => m.unsigned,
         r = "sig" => sig' \/ m.unsigned,
         sig => sig', sig' \in BOOLEAN,
         UNCHANGED <<commands, running, group>>
  PROVE  IInv'
<1> DEFINE n == [m EXCEPT !.set = m.set \ {r},
                          !.at = IF LastAnswer(c, r) THEN "delay" ELSE m.at]
<1>1. Good(call[c], sig) /\ call[c].at = "uploading" /\ call[c].kind = "send"
  BY DEF IInv, CallsGood, Good, Tried
<1>2. /\ n.set = m.set \ {r} /\ n.at \in {"uploading", "delay"}
      /\ n.at = "delay" => n.set = {}
      /\ n.at = "uploading" => n.set # {}
      /\ n.kind = "send" /\ n.event = call[c].event /\ n.object = call[c].object
      /\ n.to = call[c].to /\ n.type = call[c].type /\ n.retry = call[c].retry
      /\ n.tries = call[c].tries /\ n.pic = m.pic /\ n.unsigned = m.unsigned
  BY <1>1 DEF CallType, LastAnswer
<1>3. n \in CallType
  BY DEF CallType
<1>4. call' = [call EXCEPT ![c] = n] BY DEF Answered
<1> HIDE DEF n
<1>5. Begun(n) /\ Listed(n) BY <1>1, <1>2 DEF Good, Begun, Listed, Waits
<1>6. Tried(n)
  <2>1. \A p \in Pictures : m.pic[p] = "fresh" => call[c].pic[p] = "fresh"
    BY <1>1 DEF Good, Tried
  <2>2. \A p \in Pictures : p \in n.set => m.pic[p] = "fresh"
    BY <1>1, <1>2 DEF Good, Tried
  <2> QED BY <1>1, <1>2, <2>1, <2>2 DEF Good, Tried
<1>7. Asked(n, sig')
  <2>1. "sig" \in call[c].set => "sig" \in n.set \/ r = "sig" BY <1>2
  <2> QED BY <1>1, <1>2, <2>1 DEF Good, Asked, Sends
<1>8. ~IsPending(n) /\ ~IsPending(call[c]) BY <1>1, <1>2 DEF IsPending
<1>9. Good(n, sig') BY <1>3, <1>5, <1>6, <1>7 DEF Good
<1> QED BY <1>4, <1>8, <1>9, CallMoves DEF IInv, Rest

LEMMA AnswersKeep ==
  ASSUME IInv, NEW c \in Calls,
         ProcessGfaceSig(c) \/ \E p \in Pictures : UploadBack(c, p)
  PROVE  IInv'
<1>1. call[c] \in CallType /\ sig \in BOOLEAN BY DEF IInv, CallsGood, Rest
<1>2. ASSUME NEW p \in Pictures, UploadBack(c, p) PROVE IInv'
  <2>1. PICK now \in {"uploaded", "told", "fresh"} :
          Answered(c, p, [call[c] EXCEPT !.pic[p] = now])
    BY <1>2 DEF UploadBack, UploadOfflinePicBack, UploadCfaceBack
  <2> DEFINE m == [call[c] EXCEPT !.pic[p] = now]
  <2>2. m = [call[c] EXCEPT !.pic = [call[c].pic EXCEPT ![p] = now]]
    OBVIOUS
  <2>3. [call[c].pic EXCEPT ![p] = now] \in [Pictures -> {"none", "fresh", "uploaded", "told"}]
        /\ \A q \in Pictures \ {p} : [call[c].pic EXCEPT ![p] = now][q] = call[c].pic[q]
    BY <1>1 DEF CallType
  <2>4. m \in CallType /\ m.pic = [call[c].pic EXCEPT ![p] = now]
    BY <1>1, <2>2, <2>3 DEF CallType
  <2>5. /\ m.kind = call[c].kind /\ m.at = call[c].at
        /\ m.event = call[c].event /\ m.object = call[c].object /\ m.to = call[c].to
        /\ m.type = call[c].type /\ m.set = call[c].set /\ m.retry = call[c].retry
        /\ m.tries = call[c].tries /\ m.unsigned = call[c].unsigned
    BY <1>1 DEF CallType
  <2>6. p \in call[c].set /\ p # "sig" /\ Idle /\ UNCHANGED <<commands, sig, running, group>>
    BY <1>2, CallConstants DEF UploadBack
  <2>7. Answered(c, p, m) BY <2>1
  <2> HIDE DEF m
  <2> QED BY <1>1, <2>3, <2>4, <2>5, <2>6, <2>7, AnsweredKeeps
<1>3. ASSUME ProcessGfaceSig(c) PROVE IInv'
  <2>1. "sig" \in call[c].set /\ Idle /\ UNCHANGED <<commands, running, group>>
    BY <1>3 DEF ProcessGfaceSig
  <2>2. CASE sig' = TRUE /\ Answered(c, "sig", call[c])
    BY <1>1, <2>1, <2>2, AnsweredKeeps
  <2>3. CASE sig' = sig /\ Answered(c, "sig", [call[c] EXCEPT !.unsigned = TRUE])
    <3> DEFINE m == [call[c] EXCEPT !.unsigned = TRUE]
    <3>1. /\ m \in CallType /\ m.kind = call[c].kind /\ m.at = call[c].at
          /\ m.event = call[c].event /\ m.object = call[c].object /\ m.to = call[c].to
          /\ m.type = call[c].type /\ m.set = call[c].set /\ m.retry = call[c].retry
          /\ m.tries = call[c].tries /\ m.pic = call[c].pic /\ m.unsigned = TRUE
      BY <1>1 DEF CallType
    <3>2. Answered(c, "sig", m) BY <2>3
    <3> HIDE DEF m
    <3> QED BY <1>1, <2>1, <2>3, <3>1, <3>2, AnsweredKeeps
  <2> QED BY <1>3, <2>2, <2>3 DEF ProcessGfaceSig
<1> QED BY <1>2, <1>3

LEMMA ServeKeeps == ASSUME IInv, NEW c \in Calls, Serve(c) PROVE IInv'
<1> DEFINE m == [call[c] EXCEPT !.at = "served"]
<1>1. Good(call[c], sig) /\ call[c].at = "request" /\ call[c] \in CallType
  BY DEF Serve, IInv, CallsGood, Good
<1>2. call' = [call EXCEPT ![c] = m] /\ sig' = sig BY <1>1 DEF Serve, Moves, IInv, CallsGood
<1>3. Good(m, sig') /\ ~IsPending(m)
  BY <1>1, <1>2 DEF Good, CallType, Begun, Tried, Asked, Listed, Waits, Sends, IsPending
<1> HIDE DEF m
<1>4. (sig => sig') /\ sig' \in BOOLEAN BY <1>2 DEF IInv, Rest
<1>5. call[c].at # "ended" BY <1>1
<1>6. CASE ~InGroup(c)
  <2>1. ~IsPending(call[c]) BY <1>6 DEF InGroup, IsPending
  <2>2. UNCHANGED <<commands, sig, running, group>> BY <1>6 DEF Serve, group
  <2> QED BY <1>2, <1>3, <1>4, <1>5, <2>1, <2>2, CallMoves DEF IInv, Rest
<1>7. CASE InGroup(c)
  <2>1. /\ Pending' = Pending \ {c} /\ c \in Pending
        /\ Cardinality(Pending') = Cardinality(Pending) - 1
    BY <1>1, <1>2, <1>3, <1>7, OneLess DEF InGroup, IsPending
  <2>2. number' = number + 1
        /\ UNCHANGED <<commands, sig, running, lastSeq, incoming, written, astray>>
    BY <1>7 DEF Serve
  <2>3. CallsGood' /\ CommandsLeft' BY <1>2, <1>3, <1>4, <1>5, <2>2, OthersGood, OthersLeft
  <2>4. Rest'
    <3>1. number \in Nat /\ incoming \in Seq(Nat) /\ \A i \in DOMAIN incoming : incoming[i] <= number
      BY DEF IInv, Rest
    <3>2. \A i \in DOMAIN incoming : incoming[i] <= number + 1 BY <3>1
    <3>3. number' \in Nat BY <2>2, <3>1
    <3> QED BY <2>2, <3>2, <3>3 DEF IInv, Rest
  <2>5. Numbered'
    <3>1. ~astray => incoming = <<>> BY <2>1 DEF IInv, Numbered
    <3>2. ~astray => lastSeq = 0 \/ lastSeq = number + Cardinality(Pending)
      BY <3>1 DEF IInv, Numbered
    <3>3. ~astray' => lastSeq' = 0 \/ lastSeq' = number' + Cardinality(Pending')
      BY <2>1, <2>2, <3>2, PendingIsFinite DEF IInv, Rest
    <3> QED BY <2>2, <3>1, <3>3 DEF IInv, Numbered
  <2> QED BY <2>3, <2>4, <2>5 DEF IInv
<1> QED BY <1>6, <1>7

------------------------------------------------------------------------------
(* The end of a call. *)

LEMMA TwoCommands ==
  ASSUME NEW S, NEW x \in S, NEW y \in S PROVE <<x>> \o <<y>> = <<x, y>>
<1> DEFINE both == <<x>> \o <<y>>
<1>1. <<x>> \in Seq(S) /\ <<y>> \in Seq(S) /\ <<x, y>> \in Seq(S)
  OBVIOUS
<1>2. Len(<<x>> \o <<y>>) = 2 /\ <<x>> \o <<y>> \in Seq(S)
  BY <1>1
<1>3. (<<x>> \o <<y>>)[1] = x /\ (<<x>> \o <<y>>)[2] = y
  BY <1>1
<1>4. /\ both \in Seq(S) /\ Len(both) = Len(<<x, y>>)
      /\ \A i \in 1..Len(both) : both[i] = <<x, y>>[i]
  BY <1>1, <1>2, <1>3
<1> HIDE DEF both
<1>5. both = <<x, y>> BY <1>1, <1>4, SeqEqual
<1> QED BY <1>5 DEF both

\* What comes back ends the call, and the commands of its event are left.
LEMMA EndingIsGood ==
  ASSUME NEW u \in CallType, Good(u, sig), u.event = "waiting",
         u.at \in {"request", "served"}, NEW o \in {u.object, "uploaded"}
  PROVE  Good([u EXCEPT !.at = "ended", !.object = o], sig)
<1> DEFINE n == [u EXCEPT !.at = "ended", !.object = o]
<1>1. n \in CallType BY DEF CallType
<1>2. /\ n.kind = u.kind /\ n.to = u.to /\ n.type = u.type /\ n.pic = u.pic
      /\ n.tries = u.tries /\ n.set = u.set /\ n.unsigned = u.unsigned
      /\ n.at = "ended" /\ n.event = "waiting"
  BY DEF CallType
<1> HIDE DEF n
<1>3. Begun(n) /\ Listed(n) BY <1>2 DEF Begun, Listed, Waits
<1>4. Tried(n) BY <1>2 DEF Good, Tried
<1>5. Asked(n, sig) BY <1>2 DEF Good, Asked, Sends
<1>6. Good(n, sig) BY <1>1, <1>3, <1>4, <1>5 DEF Good
<1> QED BY <1>6 DEF n

LEMMA RequestBackKeeps == ASSUME IInv, NEW c \in Calls, RequestBack(c) PROVE IInv'
<1>1. PICK result \in {"ok", "failed"} :
        /\ commands' = CommandsOf(c, result)
        /\ call' = [call EXCEPT ![c].at = "ended", ![c].object = ObjectAfter(c, result)]
  BY DEF RequestBack
<1> DEFINE m == [call[c] EXCEPT !.at = "ended", !.object = ObjectAfter(c, result)]
<1>2. /\ Good(call[c], sig) /\ call[c] \in CallType /\ call[c].event = "waiting"
      /\ call[c].at \in {"request", "served"}
  BY DEF RequestBack, IInv, CallsGood, Good, Begun, Waits
<1>3. call' = [call EXCEPT ![c] = m] BY <1>1 DEF IInv, CallsGood
<1>4. ObjectAfter(c, result) \in {call[c].object, "uploaded"}
      /\ (call[c].kind = "create_discu" => ObjectAfter(c, result) = call[c].object)
  BY DEF ObjectAfter
<1>5. /\ m.at = "ended" /\ m.event = "waiting" /\ m.kind = call[c].kind
      /\ ~IsPending(m)
  BY <1>2 DEF CallType, IsPending
<1>6. Good(m, sig) BY <1>2, <1>4, EndingIsGood
<1> HIDE DEF m
<1>7. UNCHANGED <<sig, running, lastSeq, number, incoming, written>>
      /\ astray' = (astray \/ (InGroup(c) /\ call[c].at = "request"))
  BY DEF RequestBack
<1>8. (sig => sig') /\ Good(m, sig') BY <1>6, <1>7
<1>9. CallsGood' BY <1>3, <1>8, OthersGood
<1>10. call'[c] = m BY <1>3 DEF IInv, CallsGood
<1>11. /\ <<"do_create_discu", c, result>>
            \in {"do_create_discu", "on_chain"} \X Calls \X {"ok", "failed"}
       /\ <<"on_chain", c, result>>
            \in {"do_create_discu", "on_chain"} \X Calls \X {"ok", "failed"}
  OBVIOUS
<1>12. CommandsLeft' /\ commands' \in Seq({"do_create_discu", "on_chain"} \X Calls
                                            \X {"ok", "failed"})
  <2>1. CASE call[c].kind = "create_discu"
    <3>1. commands' = <<<<"do_create_discu", c, result>>, <<"on_chain", c, result>>>>
      BY <1>1, <2>1, <1>11, TwoCommands DEF CommandsOf
    <3> QED BY <1>5, <1>10, <1>11, <2>1, <3>1 DEF CommandsLeft, LeftOf
  <2>2. CASE call[c].kind # "create_discu"
    <3>1. commands' = <<<<"on_chain", c, result>>>>
      BY <1>1, <2>2 DEF CommandsOf
    <3> QED BY <1>5, <1>10, <1>11, <2>2, <3>1 DEF CommandsLeft, LeftOf
  <2> QED BY <2>1, <2>2
<1>13. Rest'
  <2>1. astray' \in BOOLEAN BY <1>7 DEF IInv, Rest
  <2> QED BY <1>7, <1>12, <2>1 DEF IInv, Rest
<1>14. Numbered'
  <2>1. CASE IsPending(call[c])
    <3>1. astray' = TRUE BY <1>7, <2>1 DEF IsPending, InGroup
    <3> QED BY <1>7, <3>1 DEF IInv, Numbered
  <2>2. CASE ~IsPending(call[c])
    <3>1. Pending' = Pending BY <1>3, <1>5, <2>2 DEF Pending, IInv, CallsGood
    <3>2. astray' = astray BY <1>7, <2>2 DEF IsPending, InGroup, IInv, Rest
    <3> QED BY <1>7, <3>1, <3>2 DEF IInv, Numbered
  <2> QED BY <2>1, <2>2
<1> QED BY <1>9, <1>12, <1>13, <1>14 DEF IInv

\* The commands run in their order: the discussion is placed, then the caller told.
LEMMA RunCommandKeeps == ASSUME IInv, RunCommand PROVE IInv'
<1>1. PICK c \in Calls, result \in {"ok", "failed"} : LeftOf(c, result)
  BY DEF RunCommand, IInv, CommandsLeft
<1>2. /\ Good(call[c], sig) /\ call[c] \in CallType
      /\ call[c].at = "ended" /\ call[c].event = "waiting"
      /\ commands' = Tail(commands) /\ UNCHANGED <<sig, running, group>>
  BY <1>1 DEF LeftOf, RunCommand, IInv, CallsGood, Good
<1>3. ASSUME NEW m, call' = [call EXCEPT ![c] = m], Good(m, sig), m.at = "ended",
             CommandsLeft', commands' \in Seq({"do_create_discu", "on_chain"} \X Calls
                                                \X {"ok", "failed"})
      PROVE  IInv'
  <2>1. (sig => sig') /\ Good(m, sig') BY <1>2, <1>3
  <2>2. CallsGood' BY <1>3, <2>1, OthersGood
  <2>3. ~IsPending(m) /\ ~IsPending(call[c]) BY <1>2, <1>3 DEF IsPending
  <2>4. Pending' = Pending BY <1>3, <2>3 DEF Pending, IInv, CallsGood
  <2>5. Numbered' BY <1>2, <2>4 DEF IInv, Numbered, group
  <2>6. Rest' BY <1>2, <1>3 DEF IInv, Rest, group
  <2> QED BY <1>3, <2>2, <2>5, <2>6 DEF IInv
<1>4. CASE /\ call[c].kind = "create_discu"
           /\ commands = <<<<"do_create_discu", c, result>>, <<"on_chain", c, result>>>>
  <2> DEFINE o == IF result = "ok" THEN "listed" ELSE "freed"
             m == [call[c] EXCEPT !.object = o]
  <2>1. Head(commands) = <<"do_create_discu", c, result>>
        /\ commands' = <<<<"on_chain", c, result>>>>
    BY <1>2, <1>4
  <2>2. Head(commands)[1] = "do_create_discu" /\ Head(commands)[2] = c
        /\ Head(commands)[3] = result
    BY <2>1
  <2>3. DoCreateDiscu(c, result)
    BY <2>2 DEF RunCommand
  <2>4. call' = [call EXCEPT ![c] = m] BY <2>3 DEF DoCreateDiscu, IInv, CallsGood
  <2>5. m.at = "ended" /\ m.event = "waiting" /\ m.object = o BY <1>2 DEF CallType
  <2>6. Good(m, sig)
    <3>1. m \in CallType BY <1>2 DEF CallType
    <3>2. /\ m.kind = call[c].kind /\ m.to = call[c].to /\ m.type = call[c].type
          /\ m.pic = call[c].pic /\ m.tries = call[c].tries /\ m.set = call[c].set
          /\ m.unsigned = call[c].unsigned
      BY <1>2 DEF CallType
    <3> HIDE DEF m
    <3>3. Begun(m) /\ Listed(m) BY <2>5 DEF Begun, Listed, Waits
    <3>4. Tried(m) BY <1>2, <2>5, <3>2 DEF Good, Tried
    <3>5. Asked(m, sig) BY <1>2, <2>5, <3>2 DEF Good, Asked, Sends
    <3> QED BY <3>1, <3>3, <3>4, <3>5 DEF Good
  <2> HIDE DEF m
  <2>7. call'[c] = m BY <2>4 DEF IInv, CallsGood
  <2>8. CommandsLeft' BY <2>1, <2>5, <2>7 DEF CommandsLeft, LeftOf
  <2>9. commands' \in Seq({"do_create_discu", "on_chain"} \X Calls \X {"ok", "failed"})
    BY <2>1
  <2> QED BY <1>3, <2>4, <2>5, <2>6, <2>8, <2>9
<1>5. CASE /\ commands = <<<<"on_chain", c, result>>>>
           /\ call[c].kind = "create_discu" =>
                call[c].object = IF result = "ok" THEN "listed" ELSE "freed"
  <2> DEFINE m == [call[c] EXCEPT !.at = "ended", !.event = result]
  <2>1. Head(commands) = <<"on_chain", c, result>> /\ commands' = <<>>
    BY <1>2, <1>5
  <2>2. Head(commands)[1] = "on_chain" /\ Head(commands)[2] = c
        /\ Head(commands)[3] = result
    BY <2>1
  <2>3. OnChain(c, result)
    BY <2>2 DEF RunCommand
  <2>4. call' = [call EXCEPT ![c] = m] BY <2>3 DEF OnChain, Ends, IInv, CallsGood
  <2>5. m.at = "ended" BY <1>2 DEF CallType
  <2>6. Good(m, sig)
    <3>1. m \in CallType BY <1>2, <1>5 DEF Good, CallType
    <3>2. /\ m.kind = call[c].kind /\ m.to = call[c].to /\ m.type = call[c].type
          /\ m.pic = call[c].pic /\ m.tries = call[c].tries /\ m.set = call[c].set
          /\ m.unsigned = call[c].unsigned /\ m.object = call[c].object
          /\ m.at = "ended" /\ m.event = result
      BY <1>2 DEF Good, CallType
    <3> HIDE DEF m
    <3>3. Begun(m) BY <3>2 DEF Begun, Waits
    <3>4. Listed(m) BY <1>2, <1>5, <3>2 DEF Listed
    <3>5. Tried(m) BY <1>2, <3>2 DEF Good, Tried
    <3>6. Asked(m, sig) BY <1>2, <3>2 DEF Good, Asked, Sends
    <3> QED BY <3>1, <3>3, <3>4, <3>5, <3>6 DEF Good
  <2> HIDE DEF m
  <2>7. CommandsLeft' /\ commands' \in Seq({"do_create_discu", "on_chain"} \X Calls
                                             \X {"ok", "failed"})
    BY <2>1 DEF CommandsLeft
  <2> QED BY <1>3, <2>4, <2>5, <2>6, <2>7
<1> QED BY <1>1, <1>4, <1>5 DEF LeftOf

------------------------------------------------------------------------------
(* The group. *)

\* Where no call and no command changes, only the numbers can go wrong.
LEMMA GroupMoves ==
  ASSUME IInv, UNCHANGED <<call, commands, sig>>, Numbered', Rest' PROVE IInv'
BY DEF IInv, CallsGood, CommandsLeft, LeftOf

LEMMA MemberWritesKeeps == ASSUME IInv, MemberWrites PROVE IInv'
<1>1. /\ incoming \in Seq(Nat) /\ number \in Nat /\ lastSeq \in Nat /\ MaxWritten \in Nat
      /\ written \in 0..MaxWritten /\ astray \in BOOLEAN
      /\ \A i \in DOMAIN incoming : incoming[i] <= number
  BY CallConstants DEF IInv, Rest
<1>2. /\ number' = number + 1 /\ incoming' = Append(incoming, number + 1)
      /\ written' = written + 1 /\ written < MaxWritten
      /\ UNCHANGED <<call, commands, sig, running, lastSeq>>
      /\ astray' = (astray \/ \E c \in Calls : InGroup(c) /\ call[c].at = "request")
  BY DEF MemberWrites
<1>3. /\ Len(incoming') = Len(incoming) + 1 /\ incoming' \in Seq(Nat)
      /\ DOMAIN incoming' = 1..(Len(incoming) + 1) /\ DOMAIN incoming = 1..Len(incoming)
      /\ \A i \in 1..Len(incoming) : incoming'[i] = incoming[i]
      /\ incoming'[Len(incoming) + 1] = number + 1
      /\ Len(incoming) \in Nat /\ incoming' # <<>>
  BY <1>1, <1>2
<1>4. \A i \in DOMAIN incoming' : incoming'[i] <= number' BY <1>1, <1>2, <1>3
<1>5. Rest'
  <2>1. astray' \in BOOLEAN BY <1>1, <1>2
  <2>2. number' \in Nat /\ written' \in 0..MaxWritten BY <1>1, <1>2
  <2> QED BY <1>2, <1>3, <1>4, <2>1, <2>2 DEF IInv, Rest
<1>6. ASSUME NEW i \in DOMAIN incoming', NEW j \in DOMAIN incoming', i < j
      PROVE  incoming'[i] < incoming'[j]
  <2>1. i \in 1..Len(incoming) /\ incoming'[i] = incoming[i] /\ incoming[i] \in Nat
    BY <1>1, <1>3, <1>6
  <2>2. CASE j \in 1..Len(incoming)
    BY <1>3, <1>6, <2>1, <2>2 DEF IInv, Numbered
  <2>3. CASE j = Len(incoming) + 1
    BY <1>1, <1>3, <2>1, <2>3
  <2> QED BY <1>3, <2>2, <2>3
<1>7. ASSUME ~astray'
      PROVE  Pending' = {} /\ lastSeq' < incoming'[1] /\ incoming'[Len(incoming')] = number'
  <2>1. ~astray /\ Pending = {} BY <1>1, <1>2, <1>7 DEF Pending, IsPending, InGroup
  <2>2. Pending' = {} BY <1>2, <2>1 DEF Pending
  <2>3. CASE incoming = <<>>
    <3>1. Cardinality(Pending) = 0 BY <2>1, FS_EmptySet
    <3>2. lastSeq = 0 \/ lastSeq = number BY <1>1, <2>1, <2>3, <3>1 DEF IInv, Numbered
    <3>3. Len(incoming) = 0 BY <2>3
    <3> QED BY <1>1, <1>2, <1>3, <2>2, <3>2, <3>3
  <2>4. CASE incoming # <<>>
    <3>1. lastSeq < incoming[1] /\ 1 \in 1..Len(incoming)
      BY <1>1, <2>1, <2>4 DEF IInv, Numbered
    <3> QED BY <1>1, <1>2, <1>3, <2>2, <3>1
  <2> QED BY <2>3, <2>4
<1>8. Numbered' BY <1>3, <1>6, <1>7 DEF Numbered
<1> QED BY <1>2, <1>5, <1>8, GroupMoves

LEMMA ReadMessageKeeps == ASSUME IInv, ReadMessage PROVE IInv'
<1>1. /\ incoming \in Seq(Nat) /\ incoming # <<>> /\ lastSeq \in Nat /\ number \in Nat
      /\ \A i \in DOMAIN incoming : incoming[i] <= number
      /\ \A i, j \in DOMAIN incoming : i < j => incoming[i] < incoming[j]
  BY DEF IInv, Rest, ReadMessage, Numbered
<1>2. /\ incoming' = Tail(incoming)
      /\ lastSeq' = IF lastSeq # 0 /\ lastSeq + 1 > incoming[1] THEN lastSeq ELSE incoming[1]
      /\ UNCHANGED <<call, commands, sig, running, number, written, astray>>
  BY <1>1 DEF ReadMessage, CheckLost
<1>3. /\ Len(incoming) \in Nat \ {0} /\ Len(incoming') = Len(incoming) - 1
      /\ DOMAIN incoming = 1..Len(incoming) /\ DOMAIN incoming' = 1..(Len(incoming) - 1)
      /\ \A i \in 1..(Len(incoming) - 1) : incoming'[i] = incoming[i + 1]
      /\ incoming' \in Seq(Nat) /\ incoming[1] \in Nat
  BY <1>1, <1>2
<1>4. Rest'
  <2>1. \A i \in DOMAIN incoming' : incoming'[i] <= number' BY <1>1, <1>2, <1>3
  <2>2. lastSeq' \in Nat BY <1>1, <1>2, <1>3
  <2> QED BY <1>2, <1>3, <2>1, <2>2 DEF IInv, Rest
<1>5. ASSUME NEW i \in DOMAIN incoming', NEW j \in DOMAIN incoming', i < j
      PROVE  incoming'[i] < incoming'[j]
  <2>0. i \in 1..(Len(incoming) - 1) /\ j \in 1..(Len(incoming) - 1)
    BY <1>3
  <2>1. i + 1 \in 1..Len(incoming) /\ j + 1 \in 1..Len(incoming) /\ i + 1 < j + 1
    <3>1. i \in Int /\ j \in Int /\ Len(incoming) \in Int BY <1>3, <2>0
    <3> QED BY <1>5, <2>0, <3>1
  <2>2. incoming[i + 1] < incoming[j + 1] BY <1>1, <1>3, <2>1
  <2>3. incoming'[i] = incoming[i + 1] /\ incoming'[j] = incoming[j + 1] BY <1>3, <2>0
  <2> QED BY <2>2, <2>3
<1>6. Pending' = Pending BY <1>2 DEF Pending
<1>7. ASSUME ~astray PROVE lastSeq' = incoming[1] /\ Pending = {}
                           /\ incoming[Len(incoming)] = number
  BY <1>1, <1>2, <1>3, <1>7 DEF IInv, Numbered
<1>8. ASSUME ~astray', incoming' = <<>>
      PROVE  lastSeq' = number' + Cardinality(Pending')
  <2>1. Len(incoming) = 1 BY <1>3, <1>8
  <2>2. lastSeq' = number BY <1>2, <1>7, <1>8, <2>1
  <2>3. Cardinality(Pending') = 0 BY <1>2, <1>6, <1>7, <1>8, FS_EmptySet
  <2> QED BY <1>1, <1>2, <2>2, <2>3
<1>9. ASSUME ~astray', incoming' # <<>>
      PROVE  Pending' = {} /\ lastSeq' < incoming'[1] /\ incoming'[Len(incoming')] = number'
  <2>0. Len(incoming') # 0 BY <1>3, <1>9, EmptySeq
  <2>1. Len(incoming) - 1 \in 1..(Len(incoming) - 1) /\ 1 \in 1..(Len(incoming) - 1)
    BY <1>3, <2>0
  <2>2. incoming'[1] = incoming[2] /\ incoming'[Len(incoming')] = incoming[Len(incoming)]
    BY <1>3, <2>1
  <2>3. 1 \in DOMAIN incoming /\ 2 \in DOMAIN incoming /\ 1 < 2 BY <1>3, <2>0
  <2>4. incoming[1] < incoming[2] BY <1>1, <2>3
  <2> QED BY <1>2, <1>6, <1>7, <1>9, <2>2, <2>4
<1>10. Numbered' BY <1>5, <1>8, <1>9 DEF Numbered
<1> QED BY <1>2, <1>4, <1>10, GroupMoves

------------------------------------------------------------------------------
LEMMA InvStep == ASSUME IInv, [Next]_vars PROVE IInv'
<1>1. ASSUME NEW c \in Calls, Begins(c) PROVE IInv'
  <2>1. CASE SearchFriend(c) \/ SearchGroupByQq(c) \/ AddGroup(c) \/ CreateDiscu(c)
    BY <2>1, RequestCaptchaKeeps
       DEF SearchFriend, SearchGroupByQq, AddGroup, CreateDiscu, WithCode
  <2>2. CASE \/ AddFriend(c) \/ AnswerRequestFriend(c) \/ AnswerRequestJoinGroup(c)
             \/ RefuseFile(c) \/ Notify(c) \/ UploadOfflineFile(c)
    BY <2>2, SingleKeeps
       DEF AddFriend, AnswerRequestFriend, AnswerRequestJoinGroup, RefuseFile, Notify,
           UploadOfflineFile
  <2> QED BY <1>1, <2>1, <2>2, AddGroupMemberKeeps, SendKeeps, SendOfffileKeeps DEF Begins
<1>2. ASSUME NEW c \in Calls, Proceeds(c) PROVE IInv'
  BY <1>2, CodeKeeps, AnswersKeep, SendKeeps, RequestBackKeeps DEF Proceeds
<1>3. ASSUME PollStopsOrStarts PROVE IInv'
  <2>1. UNCHANGED <<call, commands, sig, group>> /\ running' \in BOOLEAN
    BY <1>3 DEF PollStopsOrStarts
  <2>2. Numbered' /\ Rest' BY <2>1 DEF IInv, Numbered, Rest, Pending, group
  <2> QED BY <2>1, <2>2, GroupMoves
<1>4. ASSUME UNCHANGED vars PROVE IInv'
  <2>1. Numbered' /\ Rest' BY <1>4 DEF IInv, Numbered, Rest, Pending, vars
  <2> QED BY <1>4, <2>1, GroupMoves DEF vars
<1> QED BY <1>1, <1>2, <1>3, <1>4, ServeKeeps, RunCommandKeeps, MemberWritesKeeps,
           ReadMessageKeeps DEF Next

LEMMA Invariance == Spec => []IInv
<1>1. IInv /\ [Next]_vars => IInv' BY InvStep
<1> QED BY InvInit, <1>1, PTL DEF Spec

\* The calls, the commands that are left and the numbers of the group have their types.
THEOREM TypeCorrect == Spec => []TypeOK
<1>1. IInv => TypeOK BY DEF IInv, CallsGood, Rest, TypeOK
<1> QED BY <1>1, Invariance, PTL

\* msg_send_back: however uploads fail and however many calls overlap, a message goes
\* out with no upload under way and no picture that has an attempt left.
THEOREM PicturesAreSettled == Spec => []PicturesSettled
<1>1. IInv => PicturesSettled
  BY DEF IInv, CallsGood, Good, Tried, PicturesSettled, OnItsWay
<1> QED BY <1>1, Invariance, PTL

\* query_gface_sig: the signature is there for every message with faces that goes to a
\* group, whichever of the overlapping messages asked for it.
THEOREM FacesAreSigned == Spec => []FacesSigned
<1>1. IInv => FacesSigned
  BY DEF IInv, CallsGood, Good, Tried, Asked, Sends, FacesSigned, OnItsWay, HasCface
<1> QED BY <1>1, Invariance, PTL

\* do_create_discu runs before the caller is told.
THEOREM DiscuIsListed == Spec => []ListedWhenTold
<1>1. IInv => ListedWhenTold BY DEF IInv, CallsGood, Good, Listed, ListedWhenTold
<1> QED BY <1>1, Invariance, PTL

\* lwqq_msg_incre_seq and lwqq_msg_check_lost keep to the numbers of the server.
THEOREM NumbersStayTogether == Spec => []NumbersAgree
<1>1. ASSUME IInv PROVE NumbersAgree
  <2> SUFFICES ASSUME ~astray, incoming = <<>>,
                      \A c \in Calls : InGroup(c) => call[c].at # "request"
               PROVE  lastSeq \in {0, number}
    BY DEF NumbersAgree
  <2>1. Pending = {} BY DEF Pending, IsPending, InGroup
  <2>2. Cardinality(Pending) = 0 BY <2>1, FS_EmptySet
  <2> QED BY <1>1, <2>2 DEF IInv, Numbered, Rest
<1> QED BY <1>1, Invariance, PTL
=============================================================================
