------------------------------ MODULE HashLoad ------------------------------
(***************************************************************************)
(* The lists of friends and of groups are asked for with a hash of the uin *)
(* whose algorithm changes with the server's version.  The client keeps a     *)
(* table of algorithms (lib/type.c:56-100, 600-686) and the two requests   *)
(* walk it together (lib/info.c:795-880, 1102-1190): an answer HASH_WRONG  *)
(* sends the request again with the next algorithm, until the one before   *)
(* hash_beg has been refused.                                              *)
(*                                                                         *)
(* HashSpec loads one list at a time, as an application that loads its     *)
(* groups from the listener of its friends does.  TogetherSpec lets both   *)
(* requests be under way, which nothing in the library forbids.            *)
(***************************************************************************)
EXTENDS Naturals

CONSTANTS
  InitialCount,   \* the algorithms lwqq_client_new enters
  Capacity,       \* HASH_ENTRY_SIZE
  MaxLoads        \* Bound: how many loads there are

ASSUME TableFits ==
  /\ InitialCount \in Nat \ {0}
  /\ Capacity \in Nat /\ InitialCount < Capacity
  /\ MaxLoads \in Nat

Lists == {"friends", "groups"}

VARIABLES
  count,      \* the entries of hash_entry that have a name
  beg,        \* hash_beg, by its place in the table
  idx,        \* hash_idx
  next,       \* hash_next
  right,      \* external: the algorithm the server accepts, 0 when it knows none
  state,      \* [Lists -> States], what became of the last load of a list
  auto,       \* [Lists -> BOOLEAN], called # NULL: hash_auto chooses
  used,       \* [Lists -> Nat], the algorithm of the request under way
  start,      \* history: the first algorithm of the load
  tried,      \* history: the algorithms the load has sent
  loads       \* history: how many loads there were

table == <<count, beg, idx, next>>
hashVars == <<count, beg, idx, next, right, state, auto, used, start, tried, loads>>

States == {"none", "waiting", "ok", "wrong", "failed"}

------------------------------------------------------------------------------
(* The table of algorithms. *)

HashInit ==
  /\ count = InitialCount
  /\ beg = 1 /\ idx = 1
  /\ next = FALSE
  /\ right \in 0 .. Capacity - 1
  /\ state = [l \in Lists |-> "none"]
  /\ auto = [l \in Lists |-> FALSE]
  /\ used = [l \in Lists |-> 0]
  /\ start = [l \in Lists |-> 0]
  /\ tried = [l \in Lists |-> {}]
  /\ loads = 0

Quiet == \A l \in Lists : state[l] # "waiting"

\* lwqq_hash_add_entry: the last place of the table stays empty, it ends the walk.
\* An application enters its own algorithms before it loads (cli.c:483).
HashAddEntry ==
  /\ Quiet
  /\ count < Capacity - 1
  /\ count' = count + 1
  /\ UNCHANGED <<beg, idx, next, right, state, auto, used, start, tried, loads>>

\* lwqq_hash_set_beg with the name of an algorithm, before the login.
HashSetBeg(a) ==
  /\ Quiet
  /\ next' = FALSE
  /\ idx' = a /\ beg' = a
  /\ UNCHANGED <<count, right, state, auto, used, start, tried, loads>>

\* The algorithm lwqq_hash_auto takes.
HashAuto ==
  IF next THEN (IF idx = count THEN 1 ELSE idx + 1) ELSE idx

\* Variant: without the case of hash_beg at the head of the table.
HashNeverFinished == idx = beg - 1

\* Variant: the comparison is with hash_beg itself.
HashFinishedAtOnce == idx = beg

HashAllFinished == idx = (IF beg = 1 THEN count ELSE beg - 1)

HashGetLast == idx

------------------------------------------------------------------------------
(* Requests and answers. *)

\* The request for list l goes out with the algorithm of hash_auto.
Send(l) ==
  /\ idx' = HashAuto
  /\ next' = TRUE
  /\ used' = [used EXCEPT ![l] = HashAuto]

Begin(l) ==
  /\ state[l] # "waiting"
  /\ loads < MaxLoads
  /\ loads' = loads + 1
  /\ state' = [state EXCEPT ![l] = "waiting"]

\* hash = NULL: hash_auto is used and the answers are chained to a fresh event.
Load(l) ==
  /\ Begin(l)
  /\ Send(l)
  /\ auto' = [auto EXCEPT ![l] = TRUE]
  /\ start' = [start EXCEPT ![l] = HashAuto]
  /\ tried' = [tried EXCEPT ![l] = {HashAuto}]
  /\ UNCHANGED <<count, beg, right>>

\* A hash function of the caller's own: the table is left alone.
LoadWith(l) ==
  /\ Begin(l)
  /\ auto' = [auto EXCEPT ![l] = FALSE]
  /\ used' = [used EXCEPT ![l] = 0]
  /\ start' = [start EXCEPT ![l] = 0]
  /\ tried' = [tried EXCEPT ![l] = {}]
  /\ UNCHANGED <<count, beg, idx, next, right>>

GetFriendsInfo == Load("friends") \/ LoadWith("friends")
GetGroupNameList == Load("groups") \/ LoadWith("groups")

\* No usable answer: goto done before hash_next is cleared.
BackBroken(l) ==
  /\ state[l] = "waiting"
  /\ state' = [state EXCEPT ![l] = "failed"]
  /\ UNCHANGED <<count, beg, idx, next, right, auto, used, start, tried, loads>>

\* The request's own callback sends it again with the next algorithm.
BackAgain(l) ==
  /\ state[l] = "waiting" /\ auto[l] /\ used[l] # right
  /\ ~HashAllFinished
  /\ Send(l)
  /\ tried' = [tried EXCEPT ![l] = @ \cup {HashAuto}]
  /\ UNCHANGED <<count, beg, right, state, auto, start, loads>>

\* lwqq_hash_set_beg(lc, NULL).
ClearHashNext == next' = FALSE /\ UNCHANGED <<count, beg, idx>>

\* The server refuses the hash, accepts it, or has another complaint.
BackEnds(l) ==
  /\ state[l] = "waiting"
  /\ \/ /\ used[l] # right
        /\ auto[l] => HashAllFinished
        /\ state' = [state EXCEPT ![l] = "wrong"]
     \/ /\ used[l] = right \/ ~auto[l]
        /\ state' = [state EXCEPT ![l] = "ok"]
     \/ state' = [state EXCEPT ![l] = "failed"]
  /\ ClearHashNext
  /\ UNCHANGED <<right, auto, used, start, tried, loads>>

Back(l) == BackBroken(l) \/ BackAgain(l) \/ BackEnds(l)

GetFriendsInfoBack == Back("friends")
GetGroupNameListBack == Back("groups")

------------------------------------------------------------------------------
Answers == GetFriendsInfoBack \/ GetGroupNameListBack
Setup == HashAddEntry \/ \E a \in 1 .. count : HashSetBeg(a)

HashNext == Setup \/ (Quiet /\ (GetFriendsInfo \/ GetGroupNameList)) \/ Answers

TogetherNext == Setup \/ GetFriendsInfo \/ GetGroupNameList \/ Answers

\* Every request is answered or fails (HttpQueue).
HashFairness == WF_hashVars(GetFriendsInfoBack) /\ WF_hashVars(GetGroupNameListBack)

HashSpec == HashInit /\ [][HashNext]_hashVars /\ HashFairness

TogetherSpec == HashInit /\ [][TogetherNext]_hashVars /\ HashFairness

------------------------------------------------------------------------------
(* Properties. *)

HashTypeOK ==
  /\ count \in InitialCount .. Capacity - 1
  /\ beg \in 1 .. count /\ idx \in 1 .. count
  /\ next \in BOOLEAN
  /\ right \in 0 .. Capacity - 1
  /\ state \in [Lists -> States]
  /\ auto \in [Lists -> BOOLEAN]
  /\ used \in [Lists -> 0 .. count]
  /\ start \in [Lists -> 0 .. count]
  /\ tried \in [Lists -> SUBSET (1 .. count)]
  /\ loads \in 0 .. MaxLoads

\* The places of the table from a up to b, coming round at its end.
Arc(a, b) == IF a <= b THEN a .. b ELSE (a .. count) \cup (1 .. b)

\* A load that began with the algorithm hash_beg and is told HASH_WRONG in the end
\* had every algorithm of the table refused (get_friends_info_back, hash_all_finished).
GivesUpLast ==
  [][\A l \in Lists :
       state[l] = "waiting" /\ state'[l] = "wrong" /\ auto[l] /\ start[l] = beg
         => tried[l] = 1 .. count]_hashVars

\* No answer makes a load send an algorithm that it has sent before.
NoneTwice ==
  [][\A l \in Lists : BackAgain(l) => used'[l] \notin tried[l]]_hashVars

\* After a load that succeeded, lwqq_hash_get_last names the algorithm that the
\* server accepted, which an application keeps for lwqq_hash_set_beg.
LastIsAccepted ==
  [][\A l \in Lists :
       state[l] = "waiting" /\ state'[l] = "ok" /\ auto[l]
         => HashGetLast' = right]_hashVars

\* A walk whose algorithms are all refused comes to an end.
LoadEnds == \A l \in Lists : state[l] = "waiting" ~> state[l] # "waiting"

\* What type.c:635 says of HASH_WRONG: every algorithm was tried.
AllTried ==
  [][\A l \in Lists :
       state[l] = "waiting" /\ state'[l] = "wrong" /\ auto[l]
         => tried[l] = 1 .. count]_hashVars
==============================================================================
