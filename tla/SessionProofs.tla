---------------------------- MODULE SessionProofs ----------------------------
(***************************************************************************)
(* Proofs about what a session begins with: LoginStages for any set of     *)
(* events, and HashLoad for every size of the table and every number of    *)
(* loads.                                                                  *)
(*                                                                         *)
(* The inductive invariant of HashLoad describes the walk that is under    *)
(* way: its requests were sent with the arc of the table from its first    *)
(* algorithm to hash_idx, and the walk has not come to hash_beg again.     *)
(***************************************************************************)
EXTENDS HashLoad, LoginStages, TLAPS

------------------------------------------------------------------------------
(* The login. *)

\* The stage when a request of stage k has been sent.
StageSent(k) == IF k \in CountedAtOnce THEN k + 1 ELSE k

\* A request that is under way, and one that was answered and is not finished: a code
\* is owed exactly when the image was the answer.
Sent(e) == e \notin called => ~waiting /\ result[e] = "ok" /\ stage = StageSent(job[e])

Counted(e) == e \in called => (waiting <=> result[e] = "need_vc")

\* There is one request, or a code that is owed, or no login.
OneCall ==
  \/ /\ calls = <<>>
     /\ IF alive THEN waiting /\ ev = None ELSE ~waiting
  \/ \E e \in Events :
       /\ calls = <<e>> /\ alive
       /\ ~nested => ev = e
       /\ Sent(e) /\ Counted(e)

IInv == TypeOK /\ StageOutlivesUse /\ OneCall

------------------------------------------------------------------------------
(* The events in flight. *)

LEMMA Alone ==
  ASSUME NEW e \in Events, calls = <<e>>
  PROVE  /\ ToSet(calls) = {e} /\ Last(calls) = e
         /\ Without(e) = <<>>
<1>1. DOMAIN calls = {1} /\ calls[1] = e /\ Len(calls) = 1 /\ calls \in Seq(Events)
  OBVIOUS
<1>2. (CHOOSE i \in DOMAIN calls : calls[i] = e) = 1 BY <1>1
<1>3. SubSeq(calls, 1, 0) = <<>> /\ SubSeq(calls, 2, 1) = <<>> BY <1>1
<1>4. RemoveAt(calls, 1) = <<>> BY <1>1, <1>3 DEF RemoveAt
<1> QED BY <1>1, <1>2, <1>4 DEF ToSet, Last, Without

LEMMA NoneAtAll == ToSet(<<>>) = {} /\ <<>> \in Seq(Events)
BY DEF ToSet

LEMMA TheFirst == ASSUME NEW e \in Events PROVE Append(<<>>, e) = <<e>> /\ <<e>> \in Seq(Events)
OBVIOUS

LEMMA InvInit == Init => IInv
<1> SUFFICES ASSUME Init PROVE IInv
  OBVIOUS
<1>1. TypeOK
  <2>1. calls = <<>> /\ calls \in Seq(Events) BY NoneAtAll DEF Init
  <2>2. called \subseteq ToSet(calls) BY DEF Init
  <2>3. stage \in 0..Done /\ job \in [Events -> 0..SetOnlineStatus]
        /\ result \in [Events -> Results]
    BY DEF Init, Results, SetOnlineStatus, Done
  <2> QED BY <2>1, <2>2, <2>3 DEF Init, TypeOK
<1> QED BY <1>1 DEF Init, IInv, StageOutlivesUse, OneCall

\* One event is in flight after a stage was submitted, and it is of that stage.
LEMMA SubmitMakesOne ==
  ASSUME IInv, NEW cur \in Events \cup {None}, Submit(cur, <<>>), stage < Done, alive,
         called' = {}, waiting' = FALSE, UNCHANGED <<search, demanded, misused>>,
         nested' \in BOOLEAN
  PROVE  IInv'
<1>1. PICK e \in Events :
        /\ calls' = <<e>>
        /\ job' = [job EXCEPT ![e] = stage]
        /\ result' = [result EXCEPT ![e] = "ok"]
        /\ ev' = IF nested' THEN cur ELSE e
        /\ stage' = IF stage \in CountedAtOnce THEN stage + 1 ELSE stage
        /\ TakeCode(stage)
        /\ UNCHANGED <<alive, stat>>
  BY TheFirst DEF Submit
<1>2. stage \in 0..5 /\ TypeOK BY DEF IInv, TypeOK, Done
<1>3. job'[e] = stage /\ result'[e] = "ok" /\ stage' = StageSent(job'[e])
  BY <1>1, <1>2 DEF TypeOK, StageSent
<1>4. /\ image' \in {"none", "own", "old", "other", "freed"}
      /\ sent' \in {"none", "server", "typed", "old", "other", "freed"}
  <2>1. CASE image = "none" BY <1>1, <1>2, <2>1 DEF TakeCode, TypeOK
  <2>2. CASE image = "own" BY <1>1, <1>2, <2>2 DEF TakeCode, TypeOK
  <2>3. CASE image \notin {"none", "own"} BY <1>1, <1>2, <2>3 DEF TakeCode, TypeOK
  <2> QED BY <2>1, <2>2, <2>3
<1>5. TypeOK'
  <2>1. stage' \in 0..Done
    BY <1>1, <1>2 DEF Done, CountedAtOnce, GetLoginSig, CheckSig
  <2>2. job' \in [Events -> 0..SetOnlineStatus] /\ result' \in [Events -> Results]
    BY <1>1, <1>2 DEF TypeOK, Results, SetOnlineStatus
  <2>3. calls' \in Seq(Events) /\ ev' \in Events \cup {None} BY <1>1
  <2> QED BY <1>1, <1>2, <1>4, <2>1, <2>2, <2>3 DEF TypeOK
<1>6. OneCall'
  BY <1>1, <1>3 DEF OneCall, Sent, Counted
<1> QED BY <1>5, <1>6 DEF IInv, StageOutlivesUse

\* The end of a login, or the wait for a code, leaves no event in flight.
LEMMA OthersMakeNone ==
  ASSUME IInv, NEW cur \in Events \cup {None},
         \/ Pause(<<>>) /\ waiting' = TRUE /\ alive
         \/ waiting' = FALSE /\ \E err \in Results : Complete(<<>>, err),
         called' = {}, nested' \in BOOLEAN, UNCHANGED <<search, demanded, misused>>
  PROVE  IInv'
<1>1. calls' = <<>> /\ calls' \in Seq(Events)
  BY NoneAtAll DEF Pause, Complete
<1>2. TypeOK'
  <2>1. called' \subseteq ToSet(calls') OBVIOUS
  <2>2. TypeOK /\ stage \in 0..Done /\ 0 \in 0..Done BY DEF IInv, TypeOK, Done
  <2>3. /\ stage' \in 0..Done /\ alive' \in BOOLEAN
        /\ stat' \in {"online", "logout"} /\ ev' \in Events \cup {None}
        /\ UNCHANGED <<job, result, image, sent>>
    BY <2>2 DEF Pause, Complete, TypeOK
  <2> QED BY <1>1, <2>1, <2>2, <2>3 DEF TypeOK
<1> QED BY <1>1, <1>2 DEF IInv, StageOutlivesUse, OneCall, Pause, Complete

LEMMA CallbackKeeps == ASSUME IInv, NEW e \in Events, Callback(e) PROVE IInv'
<1>1. calls = <<e>> /\ alive /\ (~nested => ev = e) /\ Sent(e) /\ e \notin called
  BY Alone, NoneAtAll DEF IInv, OneCall, Callback, MayRun
<1>2. TypeOK /\ job[e] \in 0..5 /\ ~waiting /\ result[e] = "ok"
      /\ stage = StageSent(job[e])
  BY <1>1 DEF IInv, TypeOK, Sent, SetOnlineStatus
<1>3. /\ called' = called \cup {e}
      /\ UNCHANGED <<alive, ev, calls, nested, job, search, sent, misused>>
  BY DEF Callback
<1>4. ToSet(calls) = {e} BY <1>1, Alone
<1>5. ASSUME TypeOK', Counted(e)' PROVE IInv'
  <2>1. Sent(e)' BY <1>3 DEF Sent
  <2>2. OneCall' BY <1>1, <1>3, <1>5, <2>1 DEF OneCall
  <2> QED BY <1>3, <1>5, <2>2 DEF IInv, StageOutlivesUse
<1> USE DEF GetLoginSig, CheckNeedVerify, GetVerifyImage, DoLogin, CheckSig, SetOnlineStatus,
            Done, CountedAtOnce, StageSent
<1>6. CASE Ignored(e) \/ NoResult(e)
  <2>1. TypeOK' BY <1>2, <1>3, <1>4, <1>6 DEF TypeOK, Ignored, NoResult
  <2> QED BY <1>2, <1>5, <1>6, <2>1 DEF Ignored, NoResult, Counted
<1>7. CASE Refused(e)
  <2>1. TypeOK' BY <1>2, <1>3, <1>4, <1>7 DEF TypeOK, Refused, Results
  <2>2. result'[e] = "failed" BY <1>2, <1>7 DEF TypeOK, Refused
  <2> QED BY <1>2, <1>5, <1>7, <2>1, <2>2 DEF Refused, Counted
<1>8. CASE NeedVerify(e)
  <2>1. stage = 1 /\ stage' = IF demanded' THEN 2 ELSE 3 BY <1>2, <1>8 DEF NeedVerify
  <2>2. TypeOK' BY <1>2, <1>3, <1>4, <1>8, <2>1 DEF TypeOK, NeedVerify
  <2> QED BY <1>2, <1>5, <1>8, <2>2 DEF NeedVerify, Counted
<1>9. CASE ImageShown(e)
  <2>1. stage = 2 /\ stage' = 3 BY <1>2, <1>9 DEF ImageShown
  <2>2. TypeOK' BY <1>2, <1>3, <1>4, <1>9, <2>1 DEF TypeOK, ImageShown, Results
  <2>3. result'[e] = "need_vc" BY <1>2, <1>9 DEF TypeOK, ImageShown
  <2> QED BY <1>5, <1>9, <2>2, <2>3 DEF ImageShown, Counted
<1>10. CASE Accepted(e)
  <2>1. stage' \in {4, 6} BY <1>2, <1>10 DEF Accepted
  <2>2. TypeOK' BY <1>2, <1>3, <1>4, <1>10, <2>1 DEF TypeOK, Accepted
  <2> QED BY <1>2, <1>5, <1>10, <2>2 DEF Accepted, Counted
<1> QED BY <1>6, <1>7, <1>8, <1>9, <1>10 DEF Callback, Answered

LEMMA FinishKeeps == ASSUME IInv, NEW e \in Events, Finish(e) PROVE IInv'
<1>1. TypeOK /\ e \in called /\ called \subseteq ToSet(calls) BY DEF IInv, TypeOK, Finish
<1>2. calls = <<e>> /\ alive /\ (~nested => ev = e) /\ Counted(e)
  BY <1>1, Alone, NoneAtAll DEF IInv, OneCall
<1>3. called = {e} BY <1>1, <1>2, Alone
<1>4. called' = {} /\ UNCHANGED <<nested, waiting, search, demanded, misused>>
      /\ DoLoginStage(e, <<>>)
  BY <1>2, <1>3, Alone DEF Finish
<1>5. e # None /\ result[e] \in Results BY <1>1, LoginConstants DEF TypeOK
<1>6. CASE result[e] = "need_vc"
  <2>1. Pause(<<>>) /\ waiting BY <1>1, <1>2, <1>4, <1>5, <1>6 DEF DoLoginStage, Counted
  <2> QED BY <1>1, <1>2, <1>4, <2>1, OthersMakeNone DEF TypeOK
<1>7. CASE result[e] # "need_vc" /\ (\E err \in Results : Complete(<<>>, err))
  <2>1. ~waiting BY <1>1, <1>2, <1>7 DEF Counted
  <2> QED BY <1>1, <1>4, <1>7, <2>1, OthersMakeNone DEF TypeOK
<1>8. CASE result[e] = "ok" /\ stage < Done /\ Submit(e, <<>>)
  <2>1. ~waiting BY <1>1, <1>2, <1>8 DEF Counted
  <2> QED BY <1>1, <1>2, <1>4, <1>8, <2>1, SubmitMakesOne DEF TypeOK
<1> QED BY <1>4, <1>5, <1>6, <1>7, <1>8 DEF DoLoginStage, Results

LEMMA AnswerKeeps == ASSUME IInv, called = {}, Answer PROVE IInv'
<1>1. TypeOK /\ waiting /\ waiting' = FALSE /\ UNCHANGED <<called, search, demanded>>
  BY DEF IInv, TypeOK, Answer
<1>2. calls = <<>> /\ alive /\ ev = None BY <1>1 DEF IInv, OneCall, Sent
<1>3. DoLoginStage(None, <<>>) /\ misused' = misused /\ nested' \in BOOLEAN
  BY <1>1, <1>2 DEF Answer
<1>4. CASE \E err \in Results : Complete(<<>>, err)
  BY <1>1, <1>3, <1>4, OthersMakeNone
<1>5. CASE stage < Done /\ Submit(None, <<>>)
  BY <1>1, <1>2, <1>3, <1>5, SubmitMakesOne
<1> QED BY <1>3, <1>4, <1>5 DEF DoLoginStage, Results

LEMMA LoginKeeps == ASSUME IInv, Login PROVE IInv'
<1>1. PICK e \in Events :
        /\ calls' = <<e>>
        /\ job' = [job EXCEPT ![e] = GetLoginSig]
        /\ result' = [result EXCEPT ![e] = "ok"]
        /\ ev' = IF nested' THEN None ELSE e
  BY DEF Login
<1>2. TypeOK /\ calls = <<>> /\ ~waiting' /\ called = {}
  BY NoneAtAll DEF IInv, TypeOK, Login
<1>3. job'[e] = 0 /\ result'[e] = "ok" /\ stage' = 1
  BY <1>1, <1>2 DEF TypeOK, Login, GetLoginSig, CheckNeedVerify
<1>4. TypeOK'
  <2>1. calls' = <<e>> /\ calls' \in Seq(Events) BY <1>1
  <2>2. called' = {} BY <1>2 DEF Login
  <2>3. called' \subseteq ToSet(calls') BY <2>2
  <2>4. /\ stage' \in 0..Done /\ job' \in [Events -> 0..SetOnlineStatus]
        /\ result' \in [Events -> Results]
    BY <1>1, <1>2, <1>3
       DEF TypeOK, Results, GetLoginSig, SetOnlineStatus, Done
  <2>5. image' \in {image, "old"} /\ UNCHANGED <<search, misused>> BY DEF Login
  <2> QED BY <1>1, <1>2, <2>1, <2>3, <2>4, <2>5 DEF TypeOK, Login
<1>5. OneCall'
  BY <1>1, <1>2, <1>3
     DEF Login, OneCall, Sent, Counted, StageSent, CountedAtOnce, GetLoginSig, CheckSig
<1> QED BY <1>4, <1>5 DEF IInv, StageOutlivesUse, Login

LEMMA OutsideKeeps == ASSUME IInv, Logout \/ Search \/ UNCHANGED vars PROVE IInv'
<1> USE DEF IInv, StageOutlivesUse, OneCall, Sent, Counted
<1>1. CASE Logout
  <2>1. TypeOK' BY <1>1 DEF Logout, TypeOK
  <2> QED BY <1>1, <2>1 DEF Logout
<1>2. CASE Search
  <2>1. UNCHANGED loginVars BY <1>2 DEF Search, AskSearch, SearchAnswered, SearchTyped
  <2>2. search' \in {"none", "asked", "shown"} /\ image' \in {image, "other", "freed"}
    BY <1>2 DEF Search, AskSearch, SearchAnswered, SearchTyped
  <2>3. TypeOK' BY <2>1, <2>2 DEF TypeOK, loginVars
  <2> QED BY <2>1, <2>3 DEF loginVars
<1>3. CASE UNCHANGED vars
  <2>1. TypeOK' BY <1>3 DEF vars, TypeOK
  <2> QED BY <1>3, <2>1 DEF vars
<1> QED BY <1>1, <1>2, <1>3

LEMMA Invariance == Spec => []IInv
<1>1. IInv /\ [Next]_vars => IInv'
  BY CallbackKeeps, FinishKeeps, AnswerKeeps, LoginKeeps, OutsideKeeps DEF Next, Loop
<1> QED BY InvInit, <1>1, PTL DEF Spec

\* The state of a login has its types.
THEOREM TypeCorrect == Spec => []TypeOK
<1>1. IInv => TypeOK BY DEF IInv
<1> QED BY <1>1, Invariance, PTL

\* do_login_stage and its callbacks never touch a LoginStage that was reported and
\* freed, as long as the code is handed in from outside of a callback.
THEOREM StageIsThere == Spec => []StageOutlivesUse
<1>1. IInv => StageOutlivesUse BY DEF IInv
<1> QED BY <1>1, Invariance, PTL

\* do_login_stage runs once for every answer: a login has one request under way, or a
\* code that is owed, and is over with the last.
THEOREM MovesOnce == Spec => []OneMove
<1>1. ASSUME IInv PROVE OneMove
  <2>1. CASE calls = <<>>
    BY <1>1, <2>1, NoneAtAll DEF IInv, OneCall, OneMove
  <2>2. ASSUME NEW e \in Events, calls = <<e>>, alive, Sent(e), Counted(e) PROVE OneMove
    <3>1. ToSet(calls) = {e} BY <2>2, Alone
    <3> QED BY <1>1, <2>2, <3>1 DEF Sent, Counted, OneMove, IInv, TypeOK
  <2> QED BY <1>1, <2>1, <2>2 DEF IInv, OneCall
<1> QED BY <1>1, Invariance, PTL

------------------------------------------------------------------------------
(* The hash algorithms. *)

\* The two lists are not loaded together.
OneLoad ==
  \A l, m \in Lists : state[l] = "waiting" /\ state[m] = "waiting" => l = m

Walk(l) ==
  /\ used[l] = idx
  /\ next = TRUE
  /\ start[l] \in 1 .. count
  /\ tried[l] = Arc(start[l], idx)
  /\ start[l] = beg \/ beg \notin Arc(start[l], idx)

Walks == \A l \in Lists : state[l] = "waiting" /\ auto[l] => Walk(l)

HashIInv == HashTypeOK /\ OneLoad /\ Walks

------------------------------------------------------------------------------
\* The entry after another one, coming round at the end of the table.
Following(i) == IF i = count THEN 1 ELSE i + 1

\* An arc and the entry that follows it make the arc that is longer by one.
LEMMA ArcGrows ==
  ASSUME count \in Nat \ {0},
         NEW a \in 1 .. count, NEW b \in 1 .. count,
         Following(b) # a
  PROVE  /\ Following(b) \in 1 .. count
         /\ Following(b) \notin Arc(a, b)
         /\ Arc(a, Following(b)) = Arc(a, b) \cup {Following(b)}
<1>1. CASE b = count
  <2>1. Following(b) = 1 /\ a > 1 /\ a <= b BY <1>1 DEF Following
  <2>2. Arc(a, b) = a .. b BY <2>1 DEF Arc
  <2>3. Arc(a, 1) = (a .. count) \cup (1 .. 1) BY <2>1 DEF Arc
  <2> QED BY <1>1, <2>1, <2>2, <2>3
<1>2. CASE b # count /\ a <= b
  <2>1. Following(b) = b + 1 /\ b + 1 \in 1 .. count BY <1>2 DEF Following
  <2>2. Arc(a, b) = a .. b BY <1>2 DEF Arc
  <2>3. Arc(a, b + 1) = a .. (b + 1) BY <1>2 DEF Arc
  <2> QED BY <1>2, <2>1, <2>2, <2>3
<1>3. CASE b # count /\ ~(a <= b)
  <2>1. Following(b) = b + 1 /\ b + 1 \in 1 .. count BY <1>3 DEF Following
  <2>2. Arc(a, b) = (a .. count) \cup (1 .. b) BY <1>3 DEF Arc
  <2>3. b + 1 < a BY <1>3, <2>1
  <2>4. Arc(a, b + 1) = (a .. count) \cup (1 .. (b + 1)) BY <2>3 DEF Arc
  <2> QED BY <1>3, <2>1, <2>2, <2>3, <2>4
<1> QED BY <1>1, <1>2, <1>3

\* The arc from an entry round to the entry before it is the whole table.
LEMMA WholeArc ==
  ASSUME count \in Nat \ {0}, beg \in 1 .. count, idx \in 1 .. count, HashAllFinished
  PROVE  Arc(beg, idx) = 1 .. count
<1>1. CASE beg = 1
  <2>1. idx = count /\ beg <= idx BY <1>1 DEF HashAllFinished
  <2> QED BY <1>1, <2>1 DEF Arc
<1>2. CASE beg # 1
  <2>1. idx = beg - 1 /\ ~(beg <= idx) BY <1>2 DEF HashAllFinished
  <2>2. Arc(beg, idx) = (beg .. count) \cup (1 .. (beg - 1)) BY <2>1 DEF Arc
  <2> QED BY <2>2
<1> QED BY <1>1, <1>2

\* A walk that goes on sends an algorithm it has not sent, and is a walk again.
LEMMA WalkGoesOn ==
  ASSUME HashIInv, NEW l \in Lists, BackAgain(l)
  PROVE  /\ HashAuto \in 1 .. count
         /\ HashAuto \notin tried[l]
         /\ Walk(l)'
<1>1. HashTypeOK /\ Walk(l) BY DEF HashIInv, Walks, BackAgain
<1>2. count \in Nat \ {0} /\ idx \in 1 .. count /\ beg \in 1 .. count
  BY <1>1, TableFits DEF HashTypeOK
<1>3. HashAuto = Following(idx) BY <1>1 DEF HashAuto, Following, Walk
<1>4. Following(idx) # beg BY <1>2 DEF BackAgain, HashAllFinished, Following
<1>5. start[l] \in 1 .. count BY <1>1 DEF Walk
<1>6. Following(idx) # start[l]
  <2>1. CASE start[l] = beg BY <2>1, <1>4
  <2>2. CASE beg \notin Arc(start[l], idx)
    BY <2>2, <1>2, <1>5 DEF Arc, Following
  <2> QED BY <2>1, <2>2, <1>1 DEF Walk
<1>7. /\ Following(idx) \in 1 .. count
      /\ Following(idx) \notin Arc(start[l], idx)
      /\ Arc(start[l], Following(idx)) = Arc(start[l], idx) \cup {Following(idx)}
  BY <1>2, <1>5, <1>6, ArcGrows
<1>8. /\ idx' = Following(idx) /\ next' = TRUE /\ count' = count /\ beg' = beg
      /\ used'[l] = Following(idx) /\ start'[l] = start[l]
      /\ tried'[l] = tried[l] \cup {Following(idx)}
  BY <1>1, <1>3 DEF BackAgain, Send, HashTypeOK
<1>9. Arc(start[l], idx)' = Arc(start[l], Following(idx)) BY <1>8 DEF Arc
<1> QED BY <1>1, <1>3, <1>4, <1>5, <1>7, <1>8, <1>9 DEF Walk

------------------------------------------------------------------------------
LEMMA HashInvInit == HashInit => HashIInv
<1> SUFFICES ASSUME HashInit PROVE HashIInv
  OBVIOUS
<1>1. count \in InitialCount .. Capacity - 1 /\ 1 \in 1 .. count /\ 0 \in 0 .. count
  BY TableFits DEF HashInit
<1>2. 0 \in 0 .. MaxLoads BY TableFits
<1>3. HashTypeOK BY <1>1, <1>2 DEF HashInit, HashTypeOK, States
<1> QED BY <1>3 DEF HashInit, HashIInv, OneLoad, Walks

\* What loading a list leaves of the invariant, besides the walk it begins.
LEMMA SetupKeeps == ASSUME HashIInv, Setup PROVE HashIInv'
<1> USE DEF HashIInv, HashTypeOK, OneLoad, Walks, Quiet
<1>1. ASSUME HashAddEntry PROVE HashIInv'
  BY <1>1, TableFits DEF HashAddEntry
<1>2. ASSUME NEW a \in 1 .. count, HashSetBeg(a) PROVE HashIInv'
  BY <1>2 DEF HashSetBeg
<1> QED BY <1>1, <1>2 DEF Setup

LEMMA LoadKeeps == ASSUME HashIInv, Quiet, NEW l \in Lists, Load(l) PROVE HashIInv'
<1>1. HashTypeOK BY DEF HashIInv
<1>2. count \in Nat \ {0} BY <1>1, TableFits DEF HashTypeOK
<1>3. HashAuto \in 1 .. count BY <1>1, <1>2 DEF HashAuto, HashTypeOK
<1>4. HashTypeOK'
  BY <1>1, <1>2, <1>3, TableFits DEF HashTypeOK, Load, Begin, Send, States
<1>5. \A m \in Lists : state'[m] = "waiting" => m = l
  BY <1>1 DEF Quiet, Load, Begin, HashTypeOK
<1>6. Walk(l)'
  <2>1. /\ idx' = HashAuto /\ next' = TRUE /\ count' = count
        /\ used'[l] = HashAuto /\ start'[l] = HashAuto /\ tried'[l] = {HashAuto}
    BY <1>1 DEF Load, Begin, Send, HashTypeOK
  <2>2. beg' = beg /\ beg \in 1 .. count BY <1>1 DEF Load, HashTypeOK
  <2>3. Arc(start[l], idx)' = {HashAuto} BY <2>1, <1>3 DEF Arc
  <2> QED BY <2>1, <2>2, <2>3, <1>3 DEF Walk
<1> QED BY <1>4, <1>5, <1>6 DEF HashIInv, OneLoad, Walks

LEMMA LoadWithKeeps == ASSUME HashIInv, Quiet, NEW l \in Lists, LoadWith(l) PROVE HashIInv'
<1>1. HashTypeOK BY DEF HashIInv
<1>2. HashTypeOK' BY <1>1, TableFits DEF HashTypeOK, LoadWith, Begin, States
<1>3. \A m \in Lists : state'[m] = "waiting" => m = l /\ ~auto'[m]
  BY <1>1 DEF Quiet, LoadWith, Begin, HashTypeOK
<1> QED BY <1>2, <1>3 DEF HashIInv, OneLoad, Walks

LEMMA BackKeeps == ASSUME HashIInv, NEW l \in Lists, Back(l) PROVE HashIInv'
<1>1. HashTypeOK /\ OneLoad /\ Walks BY DEF HashIInv
<1>2. ASSUME BackBroken(l) \/ BackEnds(l) PROVE HashIInv'
  <2>1. /\ state[l] = "waiting"
        /\ \E s \in States \ {"waiting"} : state' = [state EXCEPT ![l] = s]
        /\ UNCHANGED <<count, beg, idx, right, auto, used, start, tried, loads>>
        /\ next' \in BOOLEAN
    BY <1>1, <1>2 DEF BackBroken, BackEnds, ClearHashNext, States, HashTypeOK
  <2>2. \A m \in Lists : state'[m] # "waiting"
    BY <2>1, <1>1 DEF OneLoad, HashTypeOK
  <2>3. HashTypeOK' BY <2>1, <1>1 DEF HashTypeOK
  <2> QED BY <2>2, <2>3 DEF HashIInv, OneLoad, Walks
<1>3. ASSUME BackAgain(l) PROVE HashIInv'
  <2>1. HashAuto \in 1 .. count /\ Walk(l)' BY <1>3, WalkGoesOn
  <2>2. HashTypeOK' BY <1>1, <1>3, <2>1 DEF HashTypeOK, BackAgain, Send
  <2>3. \A m \in Lists : state'[m] = "waiting" => m = l
    BY <1>1, <1>3 DEF OneLoad, BackAgain
  <2>4. OneLoad' BY <1>1, <1>3 DEF OneLoad, BackAgain
  <2> QED BY <2>1, <2>2, <2>3, <2>4 DEF HashIInv, Walks
<1> QED BY <1>2, <1>3 DEF Back

LEMMA HashInvStep == ASSUME HashIInv, [HashNext]_hashVars PROVE HashIInv'
<1>1. ASSUME Quiet, GetFriendsInfo \/ GetGroupNameList PROVE HashIInv'
  BY <1>1, LoadKeeps, LoadWithKeeps DEF GetFriendsInfo, GetGroupNameList, Lists
<1>2. ASSUME Answers PROVE HashIInv'
  BY <1>2, BackKeeps DEF Answers, GetFriendsInfoBack, GetGroupNameListBack, Lists
<1>3. ASSUME UNCHANGED hashVars PROVE HashIInv'
  BY <1>3 DEF hashVars, HashIInv, HashTypeOK, OneLoad, Walks, Walk, Arc
<1> QED BY <1>1, <1>2, <1>3, SetupKeeps DEF HashNext

LEMMA HashInvariance == HashSpec => []HashIInv
BY HashInvInit, HashInvStep, PTL DEF HashSpec

------------------------------------------------------------------------------
\* hash_idx and hash_beg always name an entry of the table, for every table.
THEOREM HashTypeCorrect == HashSpec => []HashTypeOK
<1>1. HashIInv => HashTypeOK BY DEF HashIInv
<1> QED BY <1>1, HashInvariance, PTL

\* A load that began at hash_beg gives up only when the server has refused every
\* algorithm of the table.
THEOREM GivesUpLastHolds == HashSpec => GivesUpLast
<1>1. ASSUME HashIInv, [HashNext]_hashVars
      PROVE  [\A l \in Lists :
                state[l] = "waiting" /\ state'[l] = "wrong" /\ auto[l] /\ start[l] = beg
                  => tried[l] = 1 .. count]_hashVars
  <2> SUFFICES ASSUME NEW l \in Lists, state[l] = "waiting", state'[l] = "wrong",
                      auto[l], start[l] = beg
               PROVE  tried[l] = 1 .. count
    OBVIOUS
  <2>1. HashTypeOK /\ Walk(l) BY <1>1 DEF HashIInv, Walks
  <2>2. HashAllFinished
    <3>1. ASSUME NEW m \in Lists, Back(m) PROVE HashAllFinished
      BY <3>1, <2>1 DEF Back, BackBroken, BackAgain, BackEnds, HashTypeOK
    <3>2. Answers
      BY <1>1, <2>1 DEF HashNext, Setup, HashAddEntry, HashSetBeg, Quiet, hashVars
    <3> QED BY <3>1, <3>2 DEF Answers, GetFriendsInfoBack, GetGroupNameListBack, Lists
  <2>3. count \in Nat \ {0} /\ beg \in 1 .. count /\ idx \in 1 .. count
    BY <2>1, TableFits DEF HashTypeOK
  <2> QED BY <2>1, <2>2, <2>3, WholeArc DEF Walk
<1> QED BY <1>1, HashInvariance, PTL DEF HashSpec, GivesUpLast

\* No walk sends an algorithm twice.
THEOREM NoneTwiceHolds == HashSpec => NoneTwice
<1>1. ASSUME HashIInv
      PROVE  [\A l \in Lists : BackAgain(l) => used'[l] \notin tried[l]]_hashVars
  <2> SUFFICES ASSUME NEW l \in Lists, BackAgain(l) PROVE used'[l] \notin tried[l]
    OBVIOUS
  <2>1. used'[l] = HashAuto BY <1>1 DEF HashIInv, HashTypeOK, BackAgain, Send
  <2> QED BY <1>1, <2>1, WalkGoesOn
<1> QED BY <1>1, HashInvariance, PTL DEF NoneTwice

\* After a load that succeeded the table stands at the algorithm the server accepted.
THEOREM LastIsAcceptedHolds == HashSpec => LastIsAccepted
<1>1. ASSUME HashIInv, [HashNext]_hashVars
      PROVE  [\A l \in Lists :
                state[l] = "waiting" /\ state'[l] = "ok" /\ auto[l]
                  => HashGetLast' = right]_hashVars
  <2> SUFFICES ASSUME NEW l \in Lists, state[l] = "waiting", state'[l] = "ok", auto[l]
               PROVE  idx' = right
    BY DEF HashGetLast
  <2>1. HashTypeOK /\ Walk(l) BY <1>1 DEF HashIInv, Walks
  <2>2. ASSUME NEW m \in Lists, Back(m) PROVE idx' = right
    BY <2>1, <2>2 DEF Back, BackBroken, BackAgain, BackEnds, ClearHashNext, HashTypeOK, Walk
  <2>3. Answers
    BY <1>1, <2>1 DEF HashNext, Setup, HashAddEntry, HashSetBeg, Quiet, hashVars
  <2> QED BY <2>2, <2>3 DEF Answers, GetFriendsInfoBack, GetGroupNameListBack, Lists
<1> QED BY <1>1, HashInvariance, PTL DEF HashSpec, LastIsAccepted

==============================================================================
