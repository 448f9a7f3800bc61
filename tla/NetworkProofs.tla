---------------------------- MODULE NetworkProofs ----------------------------
(***************************************************************************)
(* Proofs about the loop thread and about the queue of requests that it    *)
(* serves: EventLoop for any set of timers, HttpQueue for any clients,     *)
(* requests, retries and slots.                                            *)
(***************************************************************************)
EXTENDS EventLoop, HttpQueue, FiniteSetTheorems, TLAPS

------------------------------------------------------------------------------
(* The loop thread. *)

\* A caller that is about to free the loop has joined the thread.
JoinedBeforeFree == caller = "free" => thread = "none"

\* Whoever has just started a watcher finds the loop it started it in.
WatchedLoop == caller = "watched" => loopMade

\* A status that promises a thread promises a loop, except after a missed look.
StatusMeansLoop == status # "none" => loopMade \/ missed

\* Once a quit has reset the status only a thread that missed the quit sets it.
ForgottenStays == caller \in {"join", "free"} => status = "none" \/ missed

\* A thread that is about to park when a quit has notified it has missed that.
ParkingMisses ==
  caller \in {"forget", "join", "free"} /\ thread \in {"retire", "settle"} => missed

LoopIInv ==
  /\ LoopTypeOK
  /\ LoopIsThere
  /\ NoneMeansNone
  /\ JoinedBeforeFree
  /\ WatchedLoop
  /\ StatusMeansLoop
  /\ ForgottenStays
  /\ ParkingMisses

LEMMA LoopInvInit ==
  ASSUME LoopInit PROVE LoopIInv
BY DEF LoopInit, LoopIInv, LoopTypeOK, LoopIsThere, NoneMeansNone, JoinedBeforeFree, WatchedLoop,
  StatusMeansLoop, ForgottenStays, ParkingMisses, ThreadSteps, CallerSteps

LEMMA LoopInvStep ==
  ASSUME LoopIInv, [LoopNext]_loopVars PROVE LoopIInv'
<1> USE DEF LoopIInv, LoopTypeOK, LoopIsThere, NoneMeansNone, JoinedBeforeFree, WatchedLoop,
      StatusMeansLoop, ForgottenStays, ParkingMisses, ThreadSteps, CallerSteps
<1>1. ASSUME NEW t \in Timers, Watch(t) PROVE LoopIInv'
  BY <1>1 DEF Watch
<1>2. ASSUME NEW t \in Timers, Fire(t) PROVE LoopIInv'
  <2>1. watchers' \subseteq Timers BY <1>2 DEF Fire
  <2>2. watchers # {} BY <1>2 DEF Fire
  <2> QED BY <1>2, <2>1, <2>2 DEF Fire
<1>3. ASSUME Quit PROVE LoopIInv'
  BY <1>3 DEF Quit
<1>4. ASSUME StartThread PROVE LoopIInv'
  BY <1>4 DEF StartThread, Signal
<1>5. ASSUME StopLoop PROVE LoopIInv'
  BY <1>5 DEF StopLoop, Signal
<1>6. ASSUME ForgetThread PROVE LoopIInv'
  BY <1>6 DEF ForgetThread
<1>7. ASSUME Join PROVE LoopIInv'
  BY <1>7 DEF Join
<1>8. ASSUME LoopFree PROVE LoopIInv'
  BY <1>8 DEF LoopFree
<1>9. ASSUME Start PROVE LoopIInv'
  BY <1>9 DEF Start
<1>10. ASSUME Leave PROVE LoopIInv'
  BY <1>10 DEF Leave
<1>11. ASSUME LookAtLock PROVE LoopIInv'
  BY <1>11 DEF LookAtLock
<1>12. ASSUME Retire PROVE LoopIInv'
  BY <1>12 DEF Retire
<1>13. ASSUME Park PROVE LoopIInv'
  BY <1>13 DEF Park
<1>14. ASSUME UNCHANGED loopVars PROVE LoopIInv'
  BY <1>14 DEF loopVars
<1> QED
  BY <1>1, <1>2, <1>3, <1>4, <1>5, <1>6, <1>7, <1>8, <1>9, <1>10, <1>11, <1>12, <1>13, <1>14 DEF LoopNext, CallerStep, ThreadStep

LEMMA LoopInvariance == LoopSpec => []LoopIInv
BY LoopInvInit, LoopInvStep, PTL DEF LoopSpec

\* The status and the lock of the loop thread always have their types, and the lock
\* is held exactly while a quit is under way.
THEOREM LoopTypeCorrect == LoopSpec => []LoopTypeOK
<1>1. LoopIInv => LoopTypeOK BY DEF LoopIInv
<1> QED BY <1>1, LoopInvariance, PTL

\* The loop is freed only when no thread can run it, and nothing is watched in a
\* loop that is gone, except after a missed look at the status.
THEOREM LoopOutlivesThread == LoopSpec => []LoopIsThere
<1>1. LoopIInv => LoopIsThere BY DEF LoopIInv
<1> QED BY <1>1, LoopInvariance, PTL

\* A thread is created only when there is none: one loop thread at a time.
THEOREM OneThread == LoopSpec => []NoneMeansNone
<1>1. LoopIInv => NoneMeansNone BY DEF LoopIInv
<1> QED BY <1>1, LoopInvariance, PTL

------------------------------------------------------------------------------
(* The queue. *)

\* The loop thread is held in safe_remove_link exactly while a clean-up goes on.
LoopIsHeld == loop \in {"signalled", "blocked"} <=> cleaner \in {"woken", "walked"}

\* The multi handle has the running requests, less those that safe_remove_link took
\* out and the cleaning thread has still to answer.
HandlesAreConn ==
  inMulti = IF cleaner = "woken" THEN {r \in Conn : Owner[r] # cleaned} ELSE Conn

\* A request that waits or runs has an attempt left.
AttemptLeft == \A r \in Requests : place[r] \in {"add", "conn"} => retry[r] >= 0

\* Nothing makes a cancelled request look well again.
CancelStays == \A r \in Requests : cancelled[r] => r \in Cancelable /\ err[r] # "ok"

IInv ==
  /\ TypeOK
  /\ SlotsRespected
  /\ QueueIsExact
  /\ LoopIsHeld
  /\ HandlesAreConn
  /\ AttemptLeft
  /\ CancelStays

------------------------------------------------------------------------------
(* Facts about the lists. *)

LEMMA ConnIsFinite == IsFiniteSet(Conn) /\ Cardinality(Conn) \in Nat
<1>1. Conn \subseteq Requests BY DEF Conn
<1>2. IsFiniteSet(Conn) BY <1>1, QueueConstants, FS_Subset
<1> QED BY <1>2, FS_CardinalityType

\* The requests that a step leaves where they are in conn_link.
LEMMA ConnUnmoved ==
  ASSUME \A r \in Requests : place'[r] = "conn" <=> place[r] = "conn"
  PROVE  Conn' = Conn
BY DEF Conn

\* A request at the tail of add_link.
LEMMA AppendIsExact ==
  ASSUME TypeOK, QueueIsExact, NEW r \in Requests, place[r] # "add",
         place' = [place EXCEPT ![r] = "add"], addLink' = Append(addLink, r)
  PROVE  QueueIsExact' /\ addLink' \in Seq(Requests)
<1>1. /\ addLink \in Seq(Requests) /\ place \in [Requests -> Places]
      BY DEF TypeOK
<1>2. /\ Len(addLink') = Len(addLink) + 1
      /\ \A i \in 1..Len(addLink) : addLink'[i] = addLink[i]
      /\ addLink'[Len(addLink) + 1] = r
      /\ addLink' \in Seq(Requests)
      /\ Len(addLink) \in Nat
      BY <1>1
<1>3. \A i \in DOMAIN addLink : addLink[i] \in Requests /\ place[addLink[i]] = "add"
      BY <1>1 DEF QueueIsExact
<1>4. DOMAIN addLink = 1..Len(addLink) /\ DOMAIN addLink' = 1..(Len(addLink) + 1)
      BY <1>1, <1>2
<1>5. {addLink'[i] : i \in DOMAIN addLink'} = {addLink[i] : i \in DOMAIN addLink} \cup {r}
      BY <1>2, <1>4
<1>6. {s \in Requests : place'[s] = "add"} = {s \in Requests : place[s] = "add"} \cup {r}
      BY <1>1
<1>7. ASSUME NEW i \in DOMAIN addLink', NEW j \in DOMAIN addLink', addLink'[i] = addLink'[j]
      PROVE  i = j
      BY <1>2, <1>3, <1>4, <1>7 DEF QueueIsExact
<1> QED BY <1>2, <1>5, <1>6, <1>7 DEF QueueIsExact

LEMMA QueueUnmoved ==
  ASSUME QueueIsExact, UNCHANGED addLink,
         \A r \in Requests : place'[r] = "add" <=> place[r] = "add"
  PROVE  QueueIsExact'
BY DEF QueueIsExact

------------------------------------------------------------------------------
(* The initial states, and the steps of the application. *)

LEMMA InvInit == ASSUME Init PROVE IInv
<1>1. Conn = {} BY DEF Init, Conn
<1>2. Cardinality(Conn) = 0 BY <1>1, FS_EmptySet
<1>3. 0 \in -1..MaxRetry BY QueueConstants
<1>4. place \in [Requests -> Places] /\ err \in [Requests -> Codes] /\ addLink \in Seq(Requests)
      BY DEF Init, Places, Codes
<1>5. TypeOK BY <1>3, <1>4 DEF Init, TypeOK
<1>6. QueueIsExact BY DEF Init, QueueIsExact
<1>7. SlotsRespected BY <1>2, QueueConstants DEF Init, SlotsRespected
<1> QED BY <1>1, <1>5, <1>6, <1>7 DEF Init, IInv, LoopIsHeld, HandlesAreConn, AttemptLeft, CancelStays

\* A submission, by the application or by a poll's callback.
LEMMA EnqueueKeeps ==
  ASSUME IInv, NEW r \in Requests, place[r] \in {"idle", "calling"}, Enqueue(r),
         UNCHANGED <<valid, cleaner, cleaned>>,
         \/ UNCHANGED loop
         \/ loop = "callback" /\ loop' = "run"
  PROVE  IInv'
<1>1. TypeOK /\ QueueIsExact BY DEF IInv
<1>2. QueueIsExact' /\ addLink' \in Seq(Requests)
      BY <1>1, AppendIsExact DEF Enqueue
<1>3. Conn' = Conn BY <1>1, ConnUnmoved DEF Enqueue, TypeOK
<1>4. TypeOK' BY <1>1, <1>2, QueueConstants DEF TypeOK, Enqueue, WakeUp, Places
<1>5. AttemptLeft' BY <1>1, QueueConstants DEF IInv, AttemptLeft, Enqueue, TypeOK
<1> QED BY <1>2, <1>3, <1>4, <1>5
        DEF IInv, Enqueue, SlotsRespected, LoopIsHeld, HandlesAreConn, CancelStays

LEMMA UserKeeps == ASSUME IInv, UserStep PROVE IInv'
<1>1. ASSUME NEW r \in Requests, Submit(r) PROVE IInv'
      BY <1>1, EnqueueKeeps DEF Submit, threadVars
<1>2. ASSUME NEW r \in Requests, Cancel(r) PROVE IInv'
  <2>1. Conn' = Conn BY <1>2 DEF Cancel, Conn
  <2>2. TypeOK' BY <1>2, QueueConstants DEF IInv, TypeOK, Cancel, threadVars, Codes
  <2>3. AttemptLeft' /\ CancelStays'
        BY <1>2 DEF IInv, AttemptLeft, CancelStays, Cancel, TypeOK
  <2> QED BY <1>2, <2>1, <2>2, <2>3
          DEF IInv, Cancel, threadVars, SlotsRespected, QueueIsExact, LoopIsHeld, HandlesAreConn
<1>3. ASSUME NEW c \in Leaving, CleanupBegin(c) PROVE IInv'
  <2>1. c \in Clients BY QueueConstants
  <2>2. Conn' = Conn BY <1>3 DEF CleanupBegin, Conn, requestVars
  <2>3. TypeOK' BY <1>3, <2>1 DEF IInv, TypeOK, CleanupBegin, requestVars
  <2> QED BY <1>3, <2>2, <2>3
          DEF IInv, CleanupBegin, requestVars, SlotsRespected, QueueIsExact, LoopIsHeld,
              HandlesAreConn, AttemptLeft, CancelStays
<1> QED BY <1>1, <1>2, <1>3 DEF UserStep

------------------------------------------------------------------------------
(* The steps of the loop thread. *)

\* What delay_add_handle_cb starts: the head of add_link, one request for each slot.
LEMMA StartedFit ==
  ASSUME TypeOK, QueueIsExact, SlotsRespected, NEW started,
         started = {addLink[i] : i \in 1..FreeSlots}
  PROVE  /\ FreeSlots \in 0..Len(addLink)
         /\ connLength + FreeSlots <= CacheSize
         /\ started \subseteq {r \in Requests : place[r] = "add"}
         /\ IsFiniteSet(started) /\ Cardinality(started) <= FreeSlots
<1>1. addLink \in Seq(Requests) /\ connLength \in Nat /\ CacheSize \in Nat /\ Len(addLink) \in Nat
      BY QueueConstants DEF TypeOK
<1>2. FreeSlots \in 0..Len(addLink) /\ connLength + FreeSlots <= CacheSize
      BY <1>1 DEF FreeSlots, SlotsRespected
<1>3. started \subseteq {r \in Requests : place[r] = "add"}
      BY <1>1, <1>2 DEF QueueIsExact
<1>4. IsFiniteSet(started)
  <2>1. started \subseteq Requests BY <1>3
  <2> QED BY <2>1, QueueConstants, FS_Subset
<1>5. Cardinality(started) <= FreeSlots
  <2> DEFINE f == [i \in 1..FreeSlots |-> addLink[i]]
  <2>1. f \in [1..FreeSlots -> started] BY <1>1, <1>2
  <2>2. \A t \in started : \E i \in 1..FreeSlots : f[i] = t BY <1>1, <1>2
  <2>3. FreeSlots \in Nat BY <1>1, <1>2
  <2>4. IsFiniteSet(1..FreeSlots) /\ Cardinality(1..FreeSlots) = FreeSlots
        BY <2>3, FS_Interval
  <2>5. f \in Surjection(1..FreeSlots, started) BY <2>1, <2>2 DEF Surjection
  <2> HIDE DEF f
  <2> QED BY <2>4, <2>5, FS_Surjection
<1> QED BY <1>2, <1>3, <1>4, <1>5

\* The rest of add_link is as exact as the whole was.
LEMMA RestIsExact ==
  ASSUME TypeOK, QueueIsExact, NEW n \in 0..Len(addLink), NEW started,
         started = {addLink[i] : i \in 1..n},
         place' = [r \in Requests |-> IF r \in started THEN "conn" ELSE place[r]],
         addLink' \in Seq(Requests), Len(addLink') = Len(addLink) - n,
         \A i \in 1..(Len(addLink) - n) : addLink'[i] = addLink[n + i]
  PROVE  QueueIsExact'
<1>1. addLink \in Seq(Requests) /\ Len(addLink) \in Nat BY DEF TypeOK
<1>2. DOMAIN addLink = 1..Len(addLink) /\ DOMAIN addLink' = 1..(Len(addLink) - n)
      BY <1>1
<1>3. \A i \in DOMAIN addLink' : addLink'[i] \in Requests /\ place'[addLink'[i]] = "add"
  <2> TAKE i \in DOMAIN addLink'
  <2>1. n + i \in DOMAIN addLink /\ addLink'[i] = addLink[n + i] BY <1>1, <1>2
  <2>2. addLink[n + i] \in Requests /\ place[addLink[n + i]] = "add"
        BY <2>1 DEF QueueIsExact
  <2>3. ASSUME NEW j \in 1..n PROVE addLink[j] # addLink[n + i]
    <3>1. j \in DOMAIN addLink /\ j # n + i BY <1>1, <1>2
    <3> QED BY <2>1, <3>1 DEF QueueIsExact
  <2> QED BY <2>1, <2>2, <2>3
<1>4. ASSUME NEW r \in Requests, place'[r] = "add"
      PROVE  \E i \in DOMAIN addLink' : addLink'[i] = r
  <2>1. r \notin started /\ place[r] = "add" BY <1>4
  <2>2. PICK j \in DOMAIN addLink : addLink[j] = r BY <2>1 DEF QueueIsExact
  <2>3. j \in 1..Len(addLink) /\ j > n BY <1>1, <1>2, <2>1, <2>2
  <2>4. j - n \in DOMAIN addLink' /\ addLink'[j - n] = addLink[n + (j - n)]
        BY <1>1, <1>2, <2>3
  <2>5. n + (j - n) = j BY <1>1, <2>3
  <2> QED BY <2>2, <2>4, <2>5
<1>5. ASSUME NEW i \in DOMAIN addLink', NEW j \in DOMAIN addLink', addLink'[i] = addLink'[j]
      PROVE  i = j
  <2>1. n + i \in DOMAIN addLink /\ n + j \in DOMAIN addLink
        /\ addLink[n + i] = addLink[n + j]
        BY <1>1, <1>2, <1>5
  <2>2. n + i = n + j BY <2>1 DEF QueueIsExact
  <2> QED BY <1>1, <1>2, <2>2
<1>6. {addLink'[i] : i \in DOMAIN addLink'} = {r \in Requests : place'[r] = "add"}
  <2>1. {addLink'[i] : i \in DOMAIN addLink'} \subseteq {r \in Requests : place'[r] = "add"}
        BY <1>3
  <2>2. {r \in Requests : place'[r] = "add"} \subseteq {addLink'[i] : i \in DOMAIN addLink'}
        BY <1>4
  <2> QED BY <2>1, <2>2
<1> QED BY <1>5, <1>6 DEF QueueIsExact

LEMMA DelayAddHandleKeeps == ASSUME IInv, DelayAddHandle PROVE IInv'
<1> DEFINE started == {addLink[i] : i \in 1..FreeSlots}
<1>1. TypeOK /\ QueueIsExact /\ SlotsRespected BY DEF IInv
<1>2. /\ FreeSlots \in 0..Len(addLink)
      /\ connLength + FreeSlots <= CacheSize
      /\ started \subseteq {r \in Requests : place[r] = "add"}
      /\ IsFiniteSet(started) /\ Cardinality(started) <= FreeSlots
      BY <1>1, StartedFit
<1>3. /\ place' = [r \in Requests |-> IF r \in started THEN "conn" ELSE place[r]]
      /\ inMulti' = inMulti \cup started
      /\ addLink' = SubSeq(addLink, FreeSlots + 1, Len(addLink))
      /\ connLength' = connLength + FreeSlots
      BY DEF DelayAddHandle
<1> HIDE DEF started
<1>4. QueueIsExact' /\ addLink' \in Seq(Requests)
  <2> DEFINE n == FreeSlots
  <2>1. started = {addLink[i] : i \in 1..n} BY DEF started
  <2>2. n \in 0..Len(addLink) /\ addLink' = SubSeq(addLink, n + 1, Len(addLink)) BY <1>2, <1>3
  <2> HIDE DEF n
  <2>3. /\ addLink' \in Seq(Requests)
        /\ Len(addLink') = Len(addLink) - n
        /\ \A i \in 1..(Len(addLink) - n) : addLink'[i] = addLink[n + i]
        BY <1>1, <2>2, SMTT(20) DEF TypeOK
  <2> QED BY <1>1, <1>3, <2>1, <2>2, <2>3, RestIsExact
<1>5. Conn' = Conn \cup started BY <1>2, <1>3 DEF Conn
<1>6. Cardinality(Conn') <= Cardinality(Conn) + Cardinality(started)
      /\ Cardinality(started) \in Nat /\ Cardinality(Conn) \in Nat
      /\ Cardinality(Conn') \in Nat
  <2>1. IsFiniteSet(Conn) /\ Cardinality(Conn) \in Nat BY ConnIsFinite
  <2>2. IsFiniteSet(Conn \cap started) /\ IsFiniteSet(Conn \cup started)
        BY <1>2, <2>1, FS_Intersection, FS_Union
  <2>3. Cardinality(Conn \cap started) \in Nat /\ Cardinality(started) \in Nat
        /\ Cardinality(Conn \cup started) \in Nat
        BY <1>2, <2>2, FS_CardinalityType
  <2>4. Cardinality(Conn \cup started) =
          Cardinality(Conn) + Cardinality(started) - Cardinality(Conn \cap started)
        BY <1>2, <2>1, FS_Union
  <2> QED BY <1>5, <2>1, <2>3, <2>4
<1>7. FreeSlots \in Nat /\ connLength \in Nat /\ CacheSize \in Nat
      BY <1>1, <1>2, QueueConstants DEF TypeOK
<1>8. SlotsRespected' BY <1>1, <1>2, <1>3, <1>6, <1>7 DEF SlotsRespected
<1>9. TypeOK'
  <2>1. place' \in [Requests -> Places] BY <1>1, <1>3 DEF TypeOK, Places
  <2>2. connLength' \in Nat BY <1>3, <1>7
  <2>3. inMulti' \subseteq Requests BY <1>1, <1>2, <1>3 DEF TypeOK
  <2> QED BY <1>1, <1>4, <2>1, <2>2, <2>3 DEF DelayAddHandle, threadVars, TypeOK
<1>10. LoopIsHeld' /\ HandlesAreConn'
      BY <1>3, <1>5 DEF IInv, DelayAddHandle, threadVars, LoopIsHeld, HandlesAreConn
<1>11. AttemptLeft' /\ CancelStays'
      BY <1>2, <1>3 DEF IInv, DelayAddHandle, AttemptLeft, CancelStays
<1> QED BY <1>4, <1>8, <1>9, <1>10, <1>11 DEF IInv

LEMMA CheckMultiInfoKeeps ==
  ASSUME IInv, NEW r \in Requests, NEW result \in Results, CheckMultiInfo(r, result)
  PROVE  IInv'
<1>1. TypeOK /\ QueueIsExact /\ SlotsRespected BY DEF IInv
<1>2. /\ loop = "run" /\ r \in inMulti /\ inMulti' = inMulti \ {r}
      /\ connLength' = connLength - 1
      /\ (RetryLater(r, result) /\ RetryLeft(r, result) >= 0) \/ Over(r, result)
      BY DEF CheckMultiInfo
<1>3. cleaner # "woken" /\ inMulti = Conn /\ place[r] = "conn"
      BY <1>2 DEF IInv, LoopIsHeld, HandlesAreConn, Conn
<1>4. MaxRetry \in Nat /\ retry[r] \in 0..MaxRetry /\ RetryLeft(r, result) \in -1..MaxRetry
      BY <1>1, <1>3, QueueConstants DEF IInv, AttemptLeft, TypeOK, RetryLeft
<1>5. place' \in [Requests -> Places]
      /\ \A s \in Requests : s # r => place'[s] = place[s]
      BY <1>1, <1>2 DEF RetryLater, Over, TypeOK, Places
<1>6. place'[r] # "conn" BY <1>1, <1>2 DEF RetryLater, Over, TypeOK
<1>7. Conn' = Conn \ {r} BY <1>5, <1>6 DEF Conn
<1>8. Cardinality(Conn') = Cardinality(Conn) - 1 /\ Cardinality(Conn) \in Nat
      /\ Cardinality(Conn') \in Nat
  <2>1. IsFiniteSet(Conn) /\ r \in Conn BY <1>2, <1>3, ConnIsFinite
  <2>2. IsFiniteSet(Conn \ {r}) /\ Cardinality(Conn \ {r}) = Cardinality(Conn) - 1
        BY <2>1, FS_RemoveElement
  <2> QED BY <1>7, <2>1, <2>2, FS_CardinalityType
<1>9. connLength \in Nat /\ CacheSize \in Nat BY <1>1, QueueConstants DEF TypeOK
<1>10. SlotsRespected' /\ connLength' \in Nat BY <1>1, <1>2, <1>8, <1>9 DEF SlotsRespected
<1>11. QueueIsExact' /\ addLink' \in Seq(Requests)
  <2>1. CASE RetryLater(r, result) BY <1>1, <1>3, <2>1, AppendIsExact DEF RetryLater
  <2>2. CASE Over(r, result)
    <3>1. \A s \in Requests : place'[s] = "add" <=> place[s] = "add"
          BY <1>1, <1>3, <2>2 DEF Over, TypeOK
    <3> QED BY <1>1, <2>2, <3>1, QueueUnmoved DEF Over, TypeOK
  <2> QED BY <1>2, <2>1, <2>2
<1>12. retry' \in [Requests -> -1..MaxRetry] /\ err' \in [Requests -> Codes]
      /\ forced' \in [Requests -> BOOLEAN]
      BY <1>1, <1>2, <1>4, ZenonT(40) DEF RetryLater, Over, TypeOK, CodeOf, Codes
<1>13. TypeOK'
      BY <1>1, <1>2, <1>5, <1>10, <1>11, <1>12
      DEF CheckMultiInfo, WakeUp, threadVars, TypeOK
<1>14. LoopIsHeld' /\ HandlesAreConn'
      BY <1>2, <1>3, <1>7 DEF IInv, CheckMultiInfo, threadVars, LoopIsHeld, HandlesAreConn
<1>15. AttemptLeft'
      BY <1>1, <1>2, <1>4, <1>5 DEF IInv, AttemptLeft, RetryLater, Over, TypeOK
<1>16. CancelStays'
  <2>1. result = "redirects" => r \notin Cancelable
        BY QueueConstants DEF CheckMultiInfo
  <2>2. err'[r] # "ok" \/ err'[r] = err[r] \/ r \notin Cancelable
        BY <1>1, <1>2, <2>1 DEF RetryLater, Over, TypeOK, CodeOf
  <2>3. \A s \in Requests : s # r => err'[s] = err[s]
        BY <1>1, <1>2 DEF RetryLater, Over, TypeOK
  <2> QED BY <2>2, <2>3 DEF IInv, CheckMultiInfo, CancelStays
<1> QED BY <1>10, <1>11, <1>13, <1>14, <1>15, <1>16 DEF IInv

\* The requests that a callback, or the cleaning thread, frees.
LEMMA FreeKeeps ==
  ASSUME TypeOK, QueueIsExact, AttemptLeft, NEW freed,
         freed \cap {r \in Requests : place[r] = "add"} = {},
         UNCHANGED addLink, FreeRequests(freed)
  PROVE  /\ QueueIsExact' /\ AttemptLeft'
         /\ place' \in [Requests -> Places]
         /\ retry' \in [Requests -> -1..MaxRetry]
         /\ forced' \in [Requests -> BOOLEAN]
         /\ Conn' = Conn \ freed
<1>1. \A r \in Requests : place'[r] = "add" <=> place[r] = "add"
      BY DEF FreeRequests
<1>2. QueueIsExact' BY <1>1, QueueUnmoved
<1> QED BY <1>2, QueueConstants DEF FreeRequests, TypeOK, AttemptLeft, Conn, Places

LEMMA AsyncCompleteKeeps == ASSUME IInv, NEW r \in Requests, AsyncComplete(r) PROVE IInv'
<1>1. TypeOK /\ QueueIsExact /\ AttemptLeft BY DEF IInv
<1>2. place[r] = "dispatch" BY DEF AsyncComplete
<1>3. /\ QueueIsExact' /\ AttemptLeft'
      /\ place' \in [Requests -> Places]
      /\ retry' \in [Requests -> -1..MaxRetry]
      /\ forced' \in [Requests -> BOOLEAN]
      /\ Conn' = Conn
  <2>1. CASE FreeRequests({r})
    <3>1. {r} \cap {s \in Requests : place[s] = "add"} = {} /\ r \notin Conn
          BY <1>2 DEF Conn
    <3> HIDE DEF Conn
    <3>2. UNCHANGED addLink BY DEF AsyncComplete
    <3> DEFINE freed == {r}
    <3>3. freed \cap {s \in Requests : place[s] = "add"} = {} /\ FreeRequests(freed)
          /\ r \notin Conn BY <2>1, <3>1
    <3>4. Conn \ freed = Conn BY <3>1
    <3> HIDE DEF freed
    <3> QED BY <1>1, <3>2, <3>3, <3>4, FreeKeeps
  <2>2. CASE \E p \in {"leaked", "calling"} :
               place' = [place EXCEPT ![r] = p] /\ UNCHANGED <<retry, forced>>
    <3>1. \A s \in Requests : place'[s] = "add" <=> place[s] = "add"
          BY <1>1, <1>2, <2>2 DEF TypeOK
    <3>2. QueueIsExact' BY <1>1, <3>1, QueueUnmoved DEF AsyncComplete
    <3>3. Conn' = Conn BY <1>1, <1>2, <2>2, ConnUnmoved DEF TypeOK
    <3> QED BY <1>1, <1>2, <2>2, <3>2, <3>3 DEF TypeOK, AttemptLeft, Places
  <2> QED BY <2>1, <2>2 DEF AsyncComplete
<1>4. /\ UNCHANGED <<addLink, inMulti, connLength, err, cancelled>>
      /\ UNCHANGED <<pipe, valid, cleaner, cleaned>>
      /\ loop = "run" /\ loop' \in {"run", "callback"}
      BY DEF AsyncComplete
<1>5. TypeOK' BY <1>1, <1>3, <1>4 DEF TypeOK
<1> QED BY <1>3, <1>4, <1>5
        DEF IInv, SlotsRespected, LoopIsHeld, HandlesAreConn, CancelStays

LEMMA LoopKeeps == ASSUME IInv, LoopStep PROVE IInv'
<1>1. ASSUME SafeRemoveLink PROVE IInv'
  <2>1. Conn' = Conn /\ inMulti = Conn
        BY <1>1 DEF IInv, SafeRemoveLink, Conn, HandlesAreConn
  <2>2. TypeOK' BY <1>1 DEF IInv, TypeOK, SafeRemoveLink
  <2>3. HandlesAreConn' /\ LoopIsHeld'
        BY <1>1, <2>1 DEF SafeRemoveLink, HandlesAreConn, LoopIsHeld
  <2> QED BY <1>1, <2>1, <2>2, <2>3
          DEF IInv, SafeRemoveLink, SlotsRespected, QueueIsExact, AttemptLeft, CancelStays
<1>2. ASSUME LoopBlocks PROVE IInv'
  <2>1. Conn' = Conn BY <1>2 DEF LoopBlocks, requestVars, Conn
  <2>2. TypeOK' BY <1>2 DEF IInv, TypeOK, LoopBlocks, requestVars
  <2> QED BY <1>2, <2>1, <2>2
          DEF IInv, LoopBlocks, requestVars, SlotsRespected, QueueIsExact, LoopIsHeld,
              HandlesAreConn, AttemptLeft, CancelStays
<1>3. ASSUME NEW r \in Requests, SubmitAgain(r) PROVE IInv'
      BY <1>3, EnqueueKeeps DEF SubmitAgain
<1> QED BY <1>1, <1>2, <1>3, DelayAddHandleKeeps, CheckMultiInfoKeeps, AsyncCompleteKeeps
        DEF LoopStep

------------------------------------------------------------------------------
(* The steps of the cleaning thread. *)

LEMMA CleanupWalkKeeps == ASSUME IInv, CleanupWalk PROVE IInv'
<1> DEFINE freed == {r \in Conn : Owner[r] = cleaned}
<1>1. TypeOK /\ QueueIsExact /\ AttemptLeft /\ SlotsRespected BY DEF IInv
<1>2. freed \cap {r \in Requests : place[r] = "add"} = {} BY DEF Conn
<1>3. /\ FreeRequests(freed) /\ cleaner = "woken" /\ cleaner' = "walked"
      /\ err' = [r \in Requests |->
                   IF r \in Conn /\ Owner[r] = cleaned THEN "canceled" ELSE err[r]]
      /\ UNCHANGED <<addLink, inMulti, connLength, cancelled>>
      /\ UNCHANGED <<pipe, valid, cleaned, loop>>
      BY DEF CleanupWalk
<1>4. inMulti = Conn \ freed BY <1>3 DEF IInv, HandlesAreConn
<1> HIDE DEF freed
<1>5. /\ QueueIsExact' /\ AttemptLeft'
      /\ place' \in [Requests -> Places]
      /\ retry' \in [Requests -> -1..MaxRetry]
      /\ forced' \in [Requests -> BOOLEAN]
      /\ Conn' = Conn \ freed
      BY <1>1, <1>2, <1>3, FreeKeeps
<1>6. Cardinality(Conn') <= Cardinality(Conn) /\ Cardinality(Conn') \in Nat
      /\ Cardinality(Conn) \in Nat
  <2>1. IsFiniteSet(Conn) /\ Conn \ freed \subseteq Conn BY ConnIsFinite
  <2>2. IsFiniteSet(Conn \ freed) /\ Cardinality(Conn \ freed) <= Cardinality(Conn)
        BY <2>1, FS_Subset
  <2> QED BY <1>5, <2>1, <2>2, FS_CardinalityType
<1>7. SlotsRespected' BY <1>1, <1>3, <1>6, QueueConstants DEF SlotsRespected, TypeOK
<1>8. err' \in [Requests -> Codes] BY <1>1, <1>3 DEF TypeOK, Codes
<1>9. TypeOK' BY <1>1, <1>3, <1>5, <1>8 DEF TypeOK
<1>10. LoopIsHeld' /\ HandlesAreConn'
      BY <1>3, <1>4, <1>5 DEF IInv, LoopIsHeld, HandlesAreConn
<1>11. CancelStays' BY <1>1, <1>3 DEF IInv, CancelStays, TypeOK
<1> QED BY <1>5, <1>7, <1>9, <1>10, <1>11 DEF IInv

LEMMA TimelySignalKeeps == ASSUME IInv, TimelySignal PROVE IInv'
<1>1. Conn' = Conn BY DEF TimelySignal, CleanupSignal, requestVars, Conn
<1>2. TypeOK' BY DEF IInv, TypeOK, TimelySignal, CleanupSignal, requestVars
<1> QED BY <1>1, <1>2
        DEF IInv, TimelySignal, CleanupSignal, requestVars, SlotsRespected, QueueIsExact,
            LoopIsHeld, HandlesAreConn, AttemptLeft, CancelStays

LEMMA StutterKeeps == ASSUME IInv, UNCHANGED vars PROVE IInv'
<1>1. Conn' = Conn BY DEF vars, Conn
<1>2. TypeOK' BY DEF IInv, TypeOK, vars
<1> QED BY <1>1, <1>2
        DEF IInv, vars, SlotsRespected, QueueIsExact, LoopIsHeld, HandlesAreConn,
            AttemptLeft, CancelStays

LEMMA InvStep == ASSUME IInv, [Next]_vars PROVE IInv'
BY UserKeeps, LoopKeeps, CleanupWalkKeeps, TimelySignalKeeps, StutterKeeps DEF Next

------------------------------------------------------------------------------
(* The theorems. *)

LEMMA Invariance == Spec => []IInv
<1>1. Init => IInv BY InvInit
<1>2. IInv /\ [Next]_vars => IInv' BY InvStep
<1> QED BY <1>1, <1>2, PTL DEF Spec

\* The type invariant of the queue, its clients and the two threads.
THEOREM TypeCorrect == Spec => []TypeOK
<1>1. IInv => TypeOK BY DEF IInv
<1> QED BY <1>1, Invariance, PTL

\* However many requests retry, are cancelled or cleaned up, no more than cache_size
\* of them run, and each that runs has a slot (delay_add_handle_cb, check_multi_info).
THEOREM SlotsAreRespected == Spec => []SlotsRespected
<1>1. IInv => SlotsRespected BY DEF IInv
<1> QED BY <1>1, Invariance, PTL

\* add_link holds exactly the waiting requests, each once, through all retries.
THEOREM QueueStaysExact == Spec => []QueueIsExact
<1>1. IInv => QueueIsExact BY DEF IInv
<1> QED BY <1>1, Invariance, PTL

\* When the loop thread runs, the multi handle has all running requests and no other:
\* the handshake of a clean-up holds the loop while that is not so.
THEOREM LoopSeesTheRunning == Spec => []LoopSeesRunning
<1>1. IInv => LoopSeesRunning
      BY DEF IInv, LoopIsHeld, HandlesAreConn, LoopSeesRunning
<1> QED BY <1>1, Invariance, PTL

\* No callback of a cancelled request is told that all is well.
THEOREM CancelReachesCallback == Spec => []CancelIsSeen
<1>1. IInv => CancelIsSeen BY DEF IInv, CancelStays, CancelIsSeen
<1> QED BY <1>1, Invariance, PTL

==============================================================================
