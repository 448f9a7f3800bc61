--------------------------- MODULE AsyncEvsetProofs ---------------------------
(***************************************************************************)
(* Proofs about AsyncEvset, for any finite set of events and any sets.     *)
(*                                                                         *)
(* The safety properties are not inductive by themselves: that nobody      *)
(* touches a freed set rests on ref_count being the number of references   *)
(* that are really held, and that the reported err_count is exact rests on *)
(* every failed event counting itself before it drops its reference.       *)
(*                                                                         *)
(* Chains have an invariant of their own: an event that was chained to     *)
(* another waits until that one comes to the command which finishes it,    *)
(* and is finished inside that command.                                    *)
(***************************************************************************)
EXTENDS AsyncEvset, FiniteSetTheorems, TLAPS

\* Only a pending event can still be in the turn that submitted it.
TurnIsPending == \A e \in Events : turn[e] => stage[e] = "pending"

\* Where in its life an event belongs to a set, and to which sets.
HostKnown ==
  \A e \in Events :
    /\ stage[e] = "unborn" => host[e] = Nothing
    /\ stage[e] \in {"err", "unref", "fire"} => host[e] # Nothing
    /\ stage[e] = "err" => failed[e]

UnbornUnused ==
  \A s \in Sets : memory[s] = "unborn" => ~owned[s] /\ ~firing[s] /\ Members(s) = {}

\* The creator's own reference, as a number.
Own(s) == IF owned[s] THEN 1 ELSE 0

RefCountExact == \A s \in Sets : refCount[s] = Cardinality(Holders(s)) + Own(s)

\* The failed events of a set that have been counted.
Counted(s) ==
  {e \in Members(s) : failed[e] /\ stage[e] \in {"unref", "fire", "free", "freed"}}

ErrCountExact == \A s \in Sets : errCount[s] = Cardinality(Counted(s))

SeenExact == \A s \in Sets : memory[s] = "freed" => seen[s] = errCount[s]

IInv ==
  /\ TypeOK
  /\ TurnIsPending
  /\ HostKnown
  /\ UnbornUnused
  /\ RefCountExact
  /\ ErrCountExact
  /\ SetOutlivesUse
  /\ OneFires
  /\ SeenExact

------------------------------------------------------------------------------
\* Every group of events the counters stand for is finite.
LEMMA FiniteGroups ==
  \A s \in Sets :
    /\ IsFiniteSet(Holders(s)) /\ Cardinality(Holders(s)) \in Nat
    /\ IsFiniteSet(Counted(s)) /\ Cardinality(Counted(s)) \in Nat
<1>1. TAKE s \in Sets
<1>2. Holders(s) \subseteq Events /\ Counted(s) \subseteq Events
  BY DEF Holders, Counted, Members
<1>3. IsFiniteSet(Events)
  BY DistinctObjects
<1> QED
  BY <1>2, <1>3, FS_Subset, FS_CardinalityType

\* The initial states satisfy the invariant.
LEMMA InitInv == Init => IInv
<1> SUFFICES ASSUME Init PROVE IInv
  OBVIOUS
<1> USE DEF Init
<1>1. TypeOK
  BY DEF TypeOK, Stages
<1>2. \A s \in Sets : Members(s) = {} /\ Holders(s) = {} /\ Counted(s) = {}
  BY DistinctObjects DEF Members, Holders, Counted
<1>3. TurnIsPending /\ HostKnown /\ SeenExact
  BY DEF TurnIsPending, HostKnown, SeenExact
<1>4. UnbornUnused
  BY <1>2 DEF UnbornUnused
<1>5. Cardinality({}) = 0
  BY FS_EmptySet
<1>6. RefCountExact
  <2> SUFFICES ASSUME NEW s \in Sets PROVE refCount[s] = Cardinality(Holders(s)) + Own(s)
    BY DEF RefCountExact
  <2>1. refCount[s] = 0 /\ Own(s) = 0
    BY DEF Own
  <2>2. Cardinality(Holders(s)) = 0
    BY <1>2, <1>5
  <2> QED
    BY <2>1, <2>2
<1>7. ErrCountExact
  BY <1>2, <1>5 DEF ErrCountExact
<1>8. SetOutlivesUse
  <2>1. \A e \in Events : host[e] = Nothing
    OBVIOUS
  <2>2. \A s \in Sets : ~owned[s] /\ ~firing[s]
    OBVIOUS
  <2> QED
    BY <2>1, <2>2 DEF SetOutlivesUse
<1>9. OneFires
  <2>1. \A s \in Sets : Firers(s) = {} /\ ~firing[s] /\ memory[s] # "live"
    BY <1>2 DEF Firers
  <2> QED
    BY <2>1 DEF OneFires
<1> QED
  BY <1>1, <1>3, <1>4, <1>6, <1>7, <1>8, <1>9 DEF IInv

------------------------------------------------------------------------------
\* A step that changes no set, no membership and no group of events keeps the
\* invariant, if it keeps the facts about single events.
LEMMA SameGroupsStep ==
  ASSUME IInv, TypeOK', TurnIsPending', HostKnown',
         UNCHANGED host, UNCHANGED setVars,
         \A s \in Sets : /\ Holders(s)' = Holders(s)
                        /\ Counted(s)' = Counted(s)
                        /\ Firers(s)' = Firers(s)
  PROVE  IInv'
<1> USE DEF setVars
<1>1. \A s \in Sets : Members(s)' = Members(s)
  BY DEF Members
<1>2. UnbornUnused'
  BY <1>1 DEF IInv, UnbornUnused
<1>3. \A s \in Sets : Own(s)' = Own(s)
  BY DEF Own
<1>4. RefCountExact'
  BY <1>3 DEF IInv, RefCountExact
<1>5. ErrCountExact'
  BY DEF IInv, ErrCountExact
<1>6. SeenExact'
  BY DEF IInv, SeenExact
<1>7. OneFires'
  BY DEF IInv, OneFires
<1>8. SetOutlivesUse'
  <2>1. ASSUME NEW e \in Events, host'[e] # Nothing, stage'[e] \in Holding \cup {"fire"}
        PROVE  memory'[host'[e]] = "live"
    <3>1. host[e] \in Sets
      BY <2>1 DEF IInv, TypeOK
    <3>2. e \in Holders(host[e])' \/ e \in Firers(host[e])'
      BY <2>1 DEF Holders, Firers, Members
    <3>3. e \in Holders(host[e]) \/ e \in Firers(host[e])
      BY <3>1, <3>2
    <3>4. stage[e] \in Holding \cup {"fire"}
      BY <3>3 DEF Holders, Firers
    <3> QED
      BY <2>1, <3>4 DEF IInv, SetOutlivesUse
  <2>2. ASSUME NEW s \in Sets, owned'[s] \/ firing'[s]
        PROVE  memory'[s] = "live"
    BY <2>2 DEF IInv, SetOutlivesUse
  <2> QED
    BY <2>1, <2>2 DEF SetOutlivesUse
<1> QED
  BY <1>2, <1>4, <1>5, <1>6, <1>7, <1>8 DEF IInv

\* A step that only changes commands, chains and turns keeps the invariant.
LEMMA QuietStep ==
  ASSUME IInv, TypeOK', UNCHANGED <<stage, failed, host>>, UNCHANGED setVars,
         \A e \in Events : turn'[e] => turn[e]
  PROVE  IInv'
<1>1. TurnIsPending'
  BY DEF IInv, TurnIsPending
<1>2. HostKnown'
  BY DEF IInv, HostKnown
<1>3. \A s \in Sets : /\ Holders(s)' = Holders(s)
                      /\ Counted(s)' = Counted(s)
                      /\ Firers(s)' = Firers(s)
  BY DEF Holders, Counted, Firers, Members
<1> QED
  BY <1>1, <1>2, <1>3, SameGroupsStep

------------------------------------------------------------------------------
(* The steps that leave the sets alone. *)

LEMMA AddEventListenerInv ==
  ASSUME IInv, NEW e \in Events, AddEventListener(e)
  PROVE  IInv'
<1>1. TypeOK'
  BY DEF IInv, TypeOK, AddEventListener, Commands, setVars
<1> QED
  BY <1>1, QuietStep DEF AddEventListener

LEMMA AddEventChainInv ==
  ASSUME IInv, NEW caller \in Events, NEW called \in Events,
         AddEventChain(caller, called)
  PROVE  IInv'
<1>1. Rechained(caller, called) \in [Events -> Seq(Commands)]
  <2>1. ASSUME NEW e \in Events
        PROVE  Append(cmd[e], called) \in Seq(Commands) /\ << >> \in Seq(Commands)
               /\ cmd[e] \in Seq(Commands)
    BY DEF IInv, TypeOK, Commands
  <2> QED
    BY <2>1 DEF Rechained
<1>2. TypeOK'
  BY <1>1 DEF IInv, TypeOK, AddEventChain, setVars
<1> QED
  BY <1>2, QuietStep DEF AddEventChain

LEMMA EndTurnInv ==
  ASSUME IInv, NEW e \in Events, EndTurn(e)
  PROVE  IInv'
<1>1. TypeOK'
  BY DEF IInv, TypeOK, EndTurn, setVars
<1>2. \A f \in Events : turn'[f] => turn[f]
  BY DEF IInv, TypeOK, EndTurn
<1> QED
  BY <1>1, <1>2, QuietStep DEF EndTurn

\* Taking the head off a command list leaves a command list.
LEMMA TailOfCommands ==
  ASSUME TypeOK, NEW e \in Events, cmd[e] # << >>
  PROVE  [cmd EXCEPT ![e] = Tail(@)] \in [Events -> Seq(Commands)]
<1>1. Tail(cmd[e]) \in Seq(Commands)
  BY DEF TypeOK
<1> QED
  BY <1>1 DEF TypeOK

LEMMA RunListenerInv ==
  ASSUME IInv, NEW e \in Events, RunListener(e)
  PROVE  IInv'
<1>1. TypeOK'
  BY TailOfCommands DEF IInv, TypeOK, RunListener, setVars
<1> QED
  BY <1>1, QuietStep DEF RunListener

LEMMA OnChainReturnInv ==
  ASSUME IInv, NEW e \in Events, NEW called \in Events, OnChainReturn(e, called)
  PROVE  IInv'
<1>1. TypeOK'
  BY TailOfCommands DEF IInv, TypeOK, OnChainReturn, setVars
<1> QED
  BY <1>1, QuietStep DEF OnChainReturn

LEMMA EventNewInv ==
  ASSUME IInv, NEW e \in Events, EventNew(e)
  PROVE  IInv'
<1> USE DEF EventNew
<1>1. TypeOK'
  BY DEF IInv, TypeOK, setVars, Stages
<1>2. TurnIsPending' /\ HostKnown'
  BY DEF IInv, TypeOK, TurnIsPending, HostKnown
<1>3. \A s \in Sets : e \notin Members(s) /\ e \notin Members(s)'
  BY DistinctObjects DEF IInv, HostKnown, Members
<1>4. \A s \in Sets : /\ Holders(s)' = Holders(s)
                      /\ Counted(s)' = Counted(s)
                      /\ Firers(s)' = Firers(s)
  BY <1>3 DEF IInv, TypeOK, Holders, Counted, Firers, Members
<1> QED
  BY <1>1, <1>2, <1>4, SameGroupsStep

\* An event begins to finish: it has not failed a set before, and still holds it.
LEMMA BeginInv ==
  ASSUME IInv, NEW e \in Events, NEW f \in BOOLEAN,
         ~turn[e], stage[e] = "pending",
         stage' = [stage EXCEPT ![e] = "cmd"],
         failed' = [failed EXCEPT ![e] = f],
         UNCHANGED setVars, UNCHANGED <<turn, cmd, chained, host>>
  PROVE  IInv'
<1>1. TypeOK'
  BY DEF IInv, TypeOK, setVars, Stages
<1>2. TurnIsPending' /\ HostKnown'
  BY DEF IInv, TypeOK, TurnIsPending, HostKnown
<1>3. \A s \in Sets : /\ Holders(s)' = Holders(s)
                      /\ Counted(s)' = Counted(s)
                      /\ Firers(s)' = Firers(s)
  BY DEF IInv, TypeOK, Holders, Counted, Firers, Members, Holding
<1> QED
  BY <1>1, <1>2, <1>3, SameGroupsStep

LEMMA DeliverInv ==
  ASSUME IInv, NEW e \in Events, Deliver(e)
  PROVE  IInv'
BY BeginInv DEF Deliver, FinishBegin

LEMMA DeliverChainedInv ==
  ASSUME IInv, NEW e \in Events, NEW called \in Events, DeliverChained(e, called)
  PROVE  IInv'
<1>1. failed[e] \in BOOLEAN
  BY DEF IInv, TypeOK
<1> QED
  BY <1>1, BeginInv DEF DeliverChained, OnChain

LEMMA CommandsDoneInv ==
  ASSUME IInv, NEW e \in Events, CommandsDone(e)
  PROVE  IInv'
<1> USE DEF CommandsDone, AfterCommands
<1>1. TypeOK'
  BY DEF IInv, TypeOK, setVars, Stages
<1>2. TurnIsPending' /\ HostKnown'
  BY DEF IInv, TypeOK, TurnIsPending, HostKnown
<1>3. \A s \in Sets : /\ Holders(s)' = Holders(s)
                      /\ Counted(s)' = Counted(s)
                      /\ Firers(s)' = Firers(s)
  BY DistinctObjects DEF IInv, TypeOK, Holders, Counted, Firers, Members, Holding
<1> QED
  BY <1>1, <1>2, <1>3, SameGroupsStep

LEMMA EventFreeInv ==
  ASSUME IInv, NEW e \in Events, EventFree(e)
  PROVE  IInv'
<1> USE DEF EventFree
<1>1. TypeOK'
  BY DEF IInv, TypeOK, setVars, Stages
<1>2. TurnIsPending' /\ HostKnown'
  BY DEF IInv, TypeOK, TurnIsPending, HostKnown
<1>3. \A s \in Sets : /\ Holders(s)' = Holders(s)
                      /\ Counted(s)' = Counted(s)
                      /\ Firers(s)' = Firers(s)
  BY DEF IInv, TypeOK, Holders, Counted, Firers, Members, Holding
<1> QED
  BY <1>1, <1>2, <1>3, SameGroupsStep

------------------------------------------------------------------------------
(* The steps that change a set. *)

LEMMA EvsetNewInv ==
  ASSUME IInv, NEW s \in Sets, EvsetNew(s)
  PROVE  IInv'
<1> USE DEF EvsetNew, eventVars, InitialRefs
<1>1. TypeOK'
  BY DEF IInv, TypeOK
<1>2. TurnIsPending' /\ HostKnown'
  BY DEF IInv, TurnIsPending, HostKnown
<1>3. \A r \in Sets : /\ Members(r)' = Members(r)
                      /\ Holders(r)' = Holders(r)
                      /\ Counted(r)' = Counted(r)
                      /\ Firers(r)' = Firers(r)
  BY DEF Members, Holders, Counted, Firers
<1>4. Members(s) = {} /\ ~owned[s] /\ ~firing[s]
  BY DEF IInv, UnbornUnused
<1>5. UnbornUnused'
  BY <1>3 DEF IInv, TypeOK, UnbornUnused
<1>6. RefCountExact'
  <2> SUFFICES ASSUME NEW r \in Sets
               PROVE  refCount'[r] = Cardinality(Holders(r)) + Own(r)'
    BY <1>3 DEF RefCountExact
  <2>1. CASE r = s
    <3>1. Holders(s) = {}
      BY <1>4 DEF Holders
    <3>2. Own(s)' = 1 /\ refCount'[s] = 1
      BY DEF IInv, TypeOK, Own
    <3> QED
      BY <2>1, <3>1, <3>2, FS_EmptySet
  <2>2. CASE r # s
    <3>1. Own(r)' = Own(r) /\ refCount'[r] = refCount[r]
      BY <2>2 DEF IInv, TypeOK, Own
    <3> QED
      BY <3>1 DEF IInv, RefCountExact
  <2> QED
    BY <2>1, <2>2
<1>7. ErrCountExact'
  BY <1>3 DEF IInv, ErrCountExact
<1>8. SetOutlivesUse'
  BY DEF IInv, TypeOK, SetOutlivesUse
<1>9. OneFires'
  <2> SUFFICES ASSUME NEW r \in Sets
               PROVE  /\ \A e, f \in Firers(r) : e = f
                      /\ firing[r] => Firers(r) = {}
                      /\ memory'[r] = "live" =>
                           (owned'[r] \/ Holders(r) # {} <=> Firers(r) = {} /\ ~firing[r])
    BY <1>3 DEF OneFires
  <2>1. CASE r = s
    <3>1. Firers(s) = {} /\ ~firing[s]
      BY <1>4 DEF Firers
    <3>2. owned'[s]
      BY DEF IInv, TypeOK
    <3> QED
      BY <2>1, <3>1, <3>2
  <2>2. CASE r # s
    <3>1. memory'[r] = memory[r] /\ owned'[r] = owned[r]
      BY <2>2 DEF IInv, TypeOK
    <3> QED
      BY <3>1 DEF IInv, OneFires
  <2> QED
    BY <2>1, <2>2
<1>10. SeenExact'
  BY DEF IInv, TypeOK, SeenExact
<1> QED
  BY <1>1, <1>2, <1>5, <1>6, <1>7, <1>8, <1>9, <1>10 DEF IInv

LEMMA EvsetAddEventInv ==
  ASSUME IInv, NEW s \in Sets, NEW e \in Events, EvsetAddEvent(s, e)
  PROVE  IInv'
<1> USE DEF EvsetAddEvent
<1>1. stage[e] = "pending" /\ memory[s] = "live"
  BY DEF IInv, TurnIsPending, SetOutlivesUse
<1>2. TypeOK'
  BY DEF IInv, TypeOK
<1>3. TurnIsPending' /\ HostKnown'
  BY <1>1 DEF IInv, TypeOK, TurnIsPending, HostKnown
<1>4. /\ Holders(s)' = Holders(s) \cup {e}
      /\ e \notin Holders(s)
      /\ \A r \in Sets \ {s} : Holders(r)' = Holders(r)
  BY <1>1, DistinctObjects DEF IInv, TypeOK, Holders, Members, Holding
<1>5. \A r \in Sets : /\ Counted(r)' = Counted(r)
                      /\ Firers(r)' = Firers(r)
                      /\ r # s => Members(r)' = Members(r)
  BY <1>1, DistinctObjects DEF IInv, TypeOK, Counted, Firers, Members
<1>6. UnbornUnused'
  BY <1>1, <1>5 DEF IInv, UnbornUnused
<1>7. RefCountExact'
  <2> SUFFICES ASSUME NEW r \in Sets
               PROVE  refCount'[r] = Cardinality(Holders(r)') + Own(r)
    BY DEF RefCountExact, Own
  <2>1. CASE r = s
    <3>1. Cardinality(Holders(s)') = Cardinality(Holders(s)) + 1
      BY <1>4, FiniteGroups, FS_AddElement
    <3>2. refCount'[s] = refCount[s] + 1 /\ refCount[s] = Cardinality(Holders(s)) + Own(s)
      BY DEF IInv, TypeOK, RefCountExact
    <3>3. Cardinality(Holders(s)) \in Nat /\ Own(s) \in Nat
      BY FiniteGroups DEF Own
    <3> QED
      BY <2>1, <3>1, <3>2, <3>3
  <2>2. CASE r # s
    <3>1. refCount'[r] = refCount[r] /\ Holders(r)' = Holders(r)
      BY <1>4, <2>2 DEF IInv, TypeOK
    <3>2. refCount[r] = Cardinality(Holders(r)) + Own(r)
      BY DEF IInv, RefCountExact
    <3> QED
      BY <3>1, <3>2
  <2> QED
    BY <2>1, <2>2
<1>8. ErrCountExact'
  BY <1>5 DEF IInv, ErrCountExact
<1>9. SetOutlivesUse'
  BY <1>1 DEF IInv, TypeOK, SetOutlivesUse
<1>10. OneFires'
  <2> SUFFICES ASSUME NEW r \in Sets
               PROVE  /\ \A f, g \in Firers(r) : f = g
                      /\ firing[r] => Firers(r) = {}
                      /\ memory[r] = "live" =>
                           (owned[r] \/ Holders(r)' # {} <=> Firers(r) = {} /\ ~firing[r])
    BY <1>5 DEF OneFires
  <2>1. CASE r = s
    BY <2>1 DEF IInv, OneFires
  <2>2. CASE r # s
    BY <1>4, <2>2 DEF IInv, OneFires
  <2> QED
    BY <2>1, <2>2
<1>11. SeenExact'
  BY DEF IInv, SeenExact
<1> QED
  BY <1>2, <1>3, <1>6, <1>7, <1>8, <1>9, <1>10, <1>11 DEF IInv

LEMMA UnrefByOwnerInv ==
  ASSUME IInv, NEW s \in Sets, UnrefByOwner(s)
  PROVE  IInv'
<1> USE DEF UnrefByOwner, eventVars
<1>1. memory[s] = "live" /\ Firers(s) = {} /\ ~firing[s]
  BY DEF IInv, SetOutlivesUse, OneFires
<1>2. refCount[s] = Cardinality(Holders(s)) + 1
  BY DEF IInv, RefCountExact, Own
<1>3. Cardinality(Holders(s)) \in Nat
  BY FiniteGroups
<1>4. refCount[s] - 1 = Cardinality(Holders(s)) /\ refCount[s] - 1 \in Nat
  BY <1>2, <1>3
<1>5. TypeOK'
  BY <1>4 DEF IInv, TypeOK
<1>6. TurnIsPending' /\ HostKnown'
  BY DEF IInv, TurnIsPending, HostKnown
<1>7. \A r \in Sets : /\ Members(r)' = Members(r)
                      /\ Holders(r)' = Holders(r)
                      /\ Counted(r)' = Counted(r)
                      /\ Firers(r)' = Firers(r)
  BY DEF Members, Holders, Counted, Firers
<1>8. UnbornUnused'
  BY <1>1, <1>7 DEF IInv, TypeOK, UnbornUnused
<1>9. \A r \in Sets \ {s} : /\ owned'[r] = owned[r] /\ refCount'[r] = refCount[r]
                            /\ firing'[r] = firing[r]
  BY DEF IInv, TypeOK
<1>10. ~owned'[s] /\ refCount'[s] = refCount[s] - 1 /\ (firing'[s] <=> refCount[s] = 1)
  BY DEF IInv, TypeOK
<1>11. RefCountExact'
  <2> SUFFICES ASSUME NEW r \in Sets
               PROVE  refCount'[r] = Cardinality(Holders(r)) + Own(r)'
    BY <1>7 DEF RefCountExact
  <2>1. CASE r = s
    <3>1. Own(s)' = 0
      BY <1>10 DEF Own
    <3> QED
      BY <2>1, <3>1, <1>3, <1>4, <1>10
  <2>2. CASE r # s
    <3>1. Own(r)' = Own(r)
      BY <1>9, <2>2 DEF Own
    <3> QED
      BY <1>9, <2>2, <3>1 DEF IInv, RefCountExact
  <2> QED
    BY <2>1, <2>2
<1>12. ErrCountExact'
  BY <1>7 DEF IInv, ErrCountExact
<1>13. SetOutlivesUse'
  BY <1>1 DEF IInv, TypeOK, SetOutlivesUse
<1>14. OneFires'
  <2> SUFFICES ASSUME NEW r \in Sets
               PROVE  /\ \A e, f \in Firers(r) : e = f
                      /\ firing'[r] => Firers(r) = {}
                      /\ memory[r] = "live" =>
                           (owned'[r] \/ Holders(r) # {} <=> Firers(r) = {} /\ ~firing'[r])
    BY <1>7 DEF OneFires
  <2>1. CASE r = s
    <3>1. Holders(s) = {} <=> Cardinality(Holders(s)) = 0
      BY FiniteGroups, FS_EmptySet
    <3>2. Holders(s) = {} <=> firing'[s]
      BY <3>1, <1>2, <1>3, <1>10
    <3> QED
      BY <2>1, <3>2, <1>1, <1>10
  <2>2. CASE r # s
    BY <1>9, <2>2 DEF IInv, OneFires
  <2> QED
    BY <2>1, <2>2
<1>15. SeenExact'
  BY DEF IInv, SeenExact
<1> QED
  BY <1>5, <1>6, <1>8, <1>11, <1>12, <1>13, <1>14, <1>15 DEF IInv

LEMMA CountErrorInv ==
  ASSUME IInv, NEW e \in Events, CountError(e)
  PROVE  IInv'
<1> DEFINE s == host[e]
<1> USE DEF CountError
<1>1. s \in Sets /\ failed[e] /\ memory[s] = "live"
  BY DEF IInv, TypeOK, HostKnown, SetOutlivesUse, Holding
<1>2. TypeOK'
  BY <1>1 DEF IInv, TypeOK, Stages
<1>3. TurnIsPending' /\ HostKnown'
  BY DEF IInv, TypeOK, TurnIsPending, HostKnown
<1>4. \A r \in Sets : /\ Members(r)' = Members(r)
                      /\ Holders(r)' = Holders(r)
                      /\ Firers(r)' = Firers(r)
  BY DEF IInv, TypeOK, Members, Holders, Firers, Holding
<1>5. /\ Counted(s)' = Counted(s) \cup {e}
      /\ e \notin Counted(s)
      /\ \A r \in Sets \ {s} : Counted(r)' = Counted(r)
  BY <1>1 DEF IInv, TypeOK, Counted, Members
<1>6. UnbornUnused'
  BY <1>4 DEF IInv, UnbornUnused
<1>7. RefCountExact'
  BY <1>4 DEF IInv, RefCountExact, Own
<1>8. ErrCountExact'
  <2> SUFFICES ASSUME NEW r \in Sets
               PROVE  errCount'[r] = Cardinality(Counted(r)')
    BY DEF ErrCountExact
  <2>1. CASE r = s
    <3>1. Cardinality(Counted(s)') = Cardinality(Counted(s)) + 1
      BY <1>1, <1>5, FiniteGroups, FS_AddElement
    <3>2. errCount'[s] = errCount[s] + 1 /\ errCount[s] = Cardinality(Counted(s))
      BY <1>1 DEF IInv, TypeOK, ErrCountExact
    <3> QED
      BY <2>1, <3>1, <3>2
  <2>2. CASE r # s
    BY <1>5, <2>2 DEF IInv, TypeOK, ErrCountExact
  <2> QED
    BY <2>1, <2>2
<1>9. SetOutlivesUse'
  BY <1>1 DEF IInv, TypeOK, SetOutlivesUse, Holding
<1>10. OneFires'
  BY <1>4 DEF IInv, OneFires
<1>11. SeenExact'
  BY <1>1 DEF IInv, TypeOK, SeenExact
<1> QED
  BY <1>2, <1>3, <1>6, <1>7, <1>8, <1>9, <1>10, <1>11 DEF IInv

LEMMA UnrefInv ==
  ASSUME IInv, NEW e \in Events, Unref(e)
  PROVE  IInv'
<1> DEFINE s == host[e]
<1> USE DEF Unref
<1>1. s \in Sets /\ memory[s] = "live" /\ e \in Holders(s)
  BY DEF IInv, TypeOK, HostKnown, SetOutlivesUse, Holding, Holders, Members
<1>2. Firers(s) = {} /\ ~firing[s]
  BY <1>1 DEF IInv, OneFires
<1>3. refCount[s] = Cardinality(Holders(s)) + Own(s)
  BY <1>1 DEF IInv, RefCountExact
<1>4. Cardinality(Holders(s) \ {e}) = Cardinality(Holders(s)) - 1
      /\ Cardinality(Holders(s) \ {e}) \in Nat /\ Cardinality(Holders(s)) \in Nat
  BY <1>1, FiniteGroups, FS_RemoveElement, FS_CardinalityType
<1>5. refCount[s] - 1 = Cardinality(Holders(s) \ {e}) + Own(s)
      /\ refCount[s] - 1 \in Nat
  <2>1. Own(s) \in Nat
    BY DEF Own
  <2> QED
    BY <2>1, <1>3, <1>4
<1>6. TypeOK'
  BY <1>1, <1>5 DEF IInv, TypeOK, Stages
<1>7. TurnIsPending' /\ HostKnown'
  BY DEF IInv, TypeOK, TurnIsPending, HostKnown
<1>8. \A r \in Sets : Members(r)' = Members(r) /\ Counted(r)' = Counted(r)
  BY DEF IInv, TypeOK, Members, Counted
<1>9. /\ Holders(s)' = Holders(s) \ {e}
      /\ \A r \in Sets \ {s} : Holders(r)' = Holders(r) /\ Firers(r)' = Firers(r)
  BY <1>1 DEF IInv, TypeOK, Holders, Firers, Members, Holding
<1>10. Firers(s)' = IF refCount[s] = 1 THEN {e} ELSE {}
  BY <1>1, <1>2 DEF IInv, TypeOK, Firers, Members
<1>11. UnbornUnused'
  BY <1>8 DEF IInv, UnbornUnused
<1>12. RefCountExact'
  <2> SUFFICES ASSUME NEW r \in Sets
               PROVE  refCount'[r] = Cardinality(Holders(r)') + Own(r)
    BY DEF RefCountExact, Own
  <2>1. CASE r = s
    BY <1>1, <1>5, <1>9, <2>1 DEF IInv, TypeOK
  <2>2. CASE r # s
    <3>1. refCount'[r] = refCount[r] /\ Holders(r)' = Holders(r)
      BY <1>9, <2>2 DEF IInv, TypeOK
    <3> QED
      BY <3>1 DEF IInv, RefCountExact
  <2> QED
    BY <2>1, <2>2
<1>13. ErrCountExact'
  BY <1>8 DEF IInv, ErrCountExact
<1>14. SetOutlivesUse'
  BY <1>1 DEF IInv, TypeOK, SetOutlivesUse, Holding
<1>15. OneFires'
  <2> SUFFICES ASSUME NEW r \in Sets
               PROVE  /\ \A f, g \in Firers(r)' : f = g
                      /\ firing[r] => Firers(r)' = {}
                      /\ memory[r] = "live" =>
                           (owned[r] \/ Holders(r)' # {} <=> Firers(r)' = {} /\ ~firing[r])
    BY DEF OneFires
  <2>1. CASE r = s
    <3>1. Holders(s)' = {} <=> Cardinality(Holders(s) \ {e}) = 0
      BY <1>1, <1>9, FiniteGroups, FS_RemoveElement, FS_EmptySet
    <3>2. refCount[s] = 1 <=> Cardinality(Holders(s) \ {e}) = 0 /\ Own(s) = 0
      <4>1. Own(s) \in {0, 1}
        BY DEF Own
      <4> QED
        BY <4>1, <1>3, <1>4
    <3>3. Own(s) = 0 <=> ~owned[s]
      BY DEF Own
    <3>4. refCount[s] = 1 <=> Holders(s)' = {} /\ ~owned[s]
      BY <3>1, <3>2, <3>3
    <3> QED
      BY <2>1, <3>4, <1>2, <1>10
  <2>2. CASE r # s
    BY <1>9, <2>2 DEF IInv, OneFires
  <2> QED
    BY <2>1, <2>2
<1>16. SeenExact'
  BY DEF IInv, SeenExact
<1> QED
  BY <1>6, <1>7, <1>11, <1>12, <1>13, <1>14, <1>15, <1>16 DEF IInv

LEMMA FireByEventInv ==
  ASSUME IInv, NEW e \in Events, FireByEvent(e)
  PROVE  IInv'
<1> DEFINE s == host[e]
<1> USE DEF FireByEvent, RunSetCommand
<1>1. s \in Sets /\ memory[s] = "live" /\ e \in Firers(s)
  BY DEF IInv, TypeOK, HostKnown, SetOutlivesUse, Firers, Members
<1>2. ~firing[s] /\ ~owned[s] /\ Holders(s) = {} /\ Firers(s) = {e}
  BY <1>1 DEF IInv, OneFires
<1>3. TypeOK'
  BY <1>1 DEF IInv, TypeOK, Stages
<1>4. TurnIsPending' /\ HostKnown'
  BY DEF IInv, TypeOK, TurnIsPending, HostKnown
<1>5. \A r \in Sets : /\ Members(r)' = Members(r)
                      /\ Holders(r)' = Holders(r)
                      /\ Counted(r)' = Counted(r)
  BY DEF IInv, TypeOK, Members, Holders, Counted, Holding
<1>6. /\ Firers(s)' = {}
      /\ \A r \in Sets \ {s} : Firers(r)' = Firers(r)
  BY <1>1, <1>2 DEF IInv, TypeOK, Firers, Members
<1>7. /\ memory'[s] = "freed" /\ seen'[s] = errCount[s]
      /\ \A r \in Sets \ {s} : memory'[r] = memory[r] /\ seen'[r] = seen[r]
  BY <1>1 DEF IInv, TypeOK
<1>8. UnbornUnused'
  BY <1>5, <1>7 DEF IInv, UnbornUnused
<1>9. RefCountExact' /\ ErrCountExact'
  BY <1>5 DEF IInv, RefCountExact, ErrCountExact, Own
<1>10. SetOutlivesUse'
  <2>1. ASSUME NEW f \in Events, host[f] # Nothing, stage'[f] \in Holding \cup {"fire"}
        PROVE  memory'[host[f]] = "live"
    <3>1. host[f] \in Sets /\ memory[host[f]] = "live"
      BY <2>1 DEF IInv, TypeOK, SetOutlivesUse, Holding
    <3>2. f # e /\ stage[f] \in Holding \cup {"fire"}
      BY <2>1 DEF IInv, TypeOK, Holding
    <3>3. host[f] # s
      BY <1>2, <2>1, <3>2 DEF Holders, Firers, Members
    <3> QED
      BY <3>1, <3>3, <1>7
  <2>2. ASSUME NEW r \in Sets, owned[r] \/ firing[r]
        PROVE  memory'[r] = "live"
    BY <1>2, <1>7, <2>2 DEF IInv, SetOutlivesUse
  <2> QED
    BY <2>1, <2>2 DEF SetOutlivesUse
<1>11. OneFires'
  <2> SUFFICES ASSUME NEW r \in Sets
               PROVE  /\ \A f, g \in Firers(r)' : f = g
                      /\ firing[r] => Firers(r)' = {}
                      /\ memory'[r] = "live" =>
                           (owned[r] \/ Holders(r) # {} <=> Firers(r)' = {} /\ ~firing[r])
    BY <1>5 DEF OneFires
  <2>1. CASE r = s
    BY <1>6, <1>7, <2>1
  <2>2. CASE r # s
    BY <1>6, <1>7, <2>2 DEF IInv, OneFires
  <2> QED
    BY <2>1, <2>2
<1>12. SeenExact'
  BY <1>7 DEF IInv, SeenExact
<1> QED
  BY <1>3, <1>4, <1>8, <1>9, <1>10, <1>11, <1>12 DEF IInv

LEMMA FireByOwnerInv ==
  ASSUME IInv, NEW s \in Sets, FireByOwner(s)
  PROVE  IInv'
<1> USE DEF FireByOwner, RunSetCommand, eventVars
<1>1. memory[s] = "live" /\ ~owned[s] /\ Holders(s) = {} /\ Firers(s) = {}
  BY DEF IInv, SetOutlivesUse, OneFires
<1>2. TypeOK'
  BY DEF IInv, TypeOK
<1>3. TurnIsPending' /\ HostKnown'
  BY DEF IInv, TurnIsPending, HostKnown
<1>4. \A r \in Sets : /\ Members(r)' = Members(r)
                      /\ Holders(r)' = Holders(r)
                      /\ Counted(r)' = Counted(r)
                      /\ Firers(r)' = Firers(r)
  BY DEF Members, Holders, Counted, Firers
<1>5. /\ memory'[s] = "freed" /\ seen'[s] = errCount[s] /\ ~firing'[s]
      /\ \A r \in Sets \ {s} : /\ memory'[r] = memory[r] /\ seen'[r] = seen[r]
                              /\ firing'[r] = firing[r]
  BY DEF IInv, TypeOK
<1>6. UnbornUnused'
  BY <1>4, <1>5 DEF IInv, UnbornUnused
<1>7. RefCountExact' /\ ErrCountExact'
  BY <1>4 DEF IInv, RefCountExact, ErrCountExact, Own
<1>8. SetOutlivesUse'
  <2>1. ASSUME NEW f \in Events, host[f] # Nothing, stage[f] \in Holding \cup {"fire"}
        PROVE  memory'[host[f]] = "live"
    <3>1. host[f] \in Sets /\ memory[host[f]] = "live"
      BY <2>1 DEF IInv, TypeOK, SetOutlivesUse
    <3>2. host[f] # s
      BY <1>1, <2>1 DEF Holders, Firers, Members
    <3> QED
      BY <3>1, <3>2, <1>5
  <2>2. ASSUME NEW r \in Sets, owned[r] \/ firing'[r]
        PROVE  memory'[r] = "live"
    BY <1>1, <1>5, <2>2 DEF IInv, SetOutlivesUse
  <2> QED
    BY <2>1, <2>2 DEF SetOutlivesUse
<1>9. OneFires'
  <2> SUFFICES ASSUME NEW r \in Sets
               PROVE  /\ \A f, g \in Firers(r) : f = g
                      /\ firing'[r] => Firers(r) = {}
                      /\ memory'[r] = "live" =>
                           (owned[r] \/ Holders(r) # {} <=> Firers(r) = {} /\ ~firing'[r])
    BY <1>4 DEF OneFires
  <2>1. CASE r = s
    BY <1>1, <1>5, <2>1
  <2>2. CASE r # s
    BY <1>5, <2>2 DEF IInv, OneFires
  <2> QED
    BY <2>1, <2>2
<1>10. SeenExact'
  BY <1>5 DEF IInv, SeenExact
<1> QED
  BY <1>2, <1>3, <1>6, <1>7, <1>8, <1>9, <1>10 DEF IInv

------------------------------------------------------------------------------
\* Every step keeps the invariant.
LEMMA StepInv == IInv /\ [Next]_vars => IInv'
<1> SUFFICES ASSUME IInv, [Next]_vars PROVE IInv'
  OBVIOUS
<1>1. CASE UNCHANGED vars
  BY <1>1, QuietStep DEF vars, setVars, IInv, TypeOK
<1>2. CASE Submit
  <2>1. CASE \E s \in Sets : EvsetNew(s) \/ UnrefByOwner(s) \/ FireByOwner(s)
    BY <2>1, EvsetNewInv, UnrefByOwnerInv, FireByOwnerInv
  <2>2. CASE \E e \in Events : EventNew(e) \/ AddEventListener(e) \/ EndTurn(e)
    BY <2>2, EventNewInv, AddEventListenerInv, EndTurnInv
  <2>3. CASE \E s \in Sets, e \in Events : EvsetAddEvent(s, e)
    BY <2>3, EvsetAddEventInv
  <2>4. CASE \E caller, called \in Events : AddEventChain(caller, called)
    BY <2>4, AddEventChainInv
  <2> QED
    BY <1>2, <2>1, <2>2, <2>3, <2>4 DEF Submit
<1>3. CASE Finish
  <2>1. CASE \E e \in Events : RunListener(e) \/ CommandsDone(e) \/ CountError(e)
    BY <2>1, RunListenerInv, CommandsDoneInv, CountErrorInv
  <2>2. CASE \E e \in Events : Unref(e) \/ FireByEvent(e) \/ EventFree(e)
    BY <2>2, UnrefInv, FireByEventInv, EventFreeInv
  <2>3. CASE \E e, called \in Events : OnChainReturn(e, called)
    BY <2>3, OnChainReturnInv
  <2> QED
    BY <1>3, <2>1, <2>2, <2>3 DEF Finish
<1>4. CASE \E e \in Events : Deliver(e)
  BY <1>4, DeliverInv
<1>5. CASE \E e, called \in Events : DeliverChained(e, called)
  BY <1>5, DeliverChainedInv
<1> QED
  BY <1>1, <1>2, <1>3, <1>4, <1>5 DEF Next

\* The invariant holds in every reachable state.
THEOREM Invariance == Spec => []IInv
BY InitInv, StepInv, PTL DEF Spec

\* Every variable keeps its type; in particular ref_count never goes below zero.
THEOREM TypeCorrect == Spec => []TypeOK
<1>1. IInv => TypeOK
  BY DEF IInv
<1> QED
  BY <1>1, Invariance, PTL

\* No event and no creator uses a set after it has been freed (async.c:149-184).
THEOREM NoUseAfterFree == Spec => []SetOutlivesUse
<1>1. IInv => SetOutlivesUse
  BY DEF IInv
<1> QED
  BY <1>1, Invariance, PTL

\* Exactly one party fires a set, when the last reference is gone (async.c:155-166).
THEOREM FiresOnce == Spec => []OneFires
<1>1. IInv => OneFires
  BY DEF IInv
<1> QED
  BY <1>1, Invariance, PTL

\* The err_count a set's command reads is the number of its events that failed.
THEOREM ExactReport == Spec => []ReportIsExact
<1>1. IInv => ReportIsExact
  <2> SUFFICES ASSUME IInv, NEW s \in Sets, memory[s] = "freed"
               PROVE  /\ ~owned[s] /\ Holders(s) = {}
                      /\ seen[s] = Cardinality(Failures(s))
    BY DEF ReportIsExact
  <2>1. ~owned[s] /\ Holders(s) = {} /\ Firers(s) = {}
    <3>1. ~owned[s]
      BY DEF IInv, SetOutlivesUse
    <3>2. s # Nothing
      BY DistinctObjects
    <3> QED
      BY <3>1, <3>2 DEF IInv, SetOutlivesUse, Holders, Firers, Members
  <2>2. \A e \in Members(s) : stage[e] \in {"free", "freed"}
    BY <2>1, DistinctObjects
    DEF IInv, TypeOK, HostKnown, Stages, Holding, Holders, Firers, Members
  <2>3. Counted(s) = Failures(s)
    BY <2>2 DEF Counted, Failures
  <2> QED
    BY <2>1, <2>3 DEF IInv, SeenExact, ErrCountExact
<1> QED
  BY <1>1, Invariance, PTL

------------------------------------------------------------------------------
(* Chains: an event that another one was chained to is finished by it. *)

\* An event that is past its commands has none left.
CommandsRun ==
  \A e \in Events : stage[e] \in {"err", "unref", "fire", "free", "freed"} => cmd[e] = << >>

\* A chain command stands in the list of the event it was last chained to.
OnlyChained ==
  \A e \in Events : \A i \in DOMAIN cmd[e] :
    cmd[e][i] # "listener" => chained[cmd[e][i]] = e

\* No two events wait for the same caller.
OneCalled ==
  \A x, y \in Events : chained[x] # Nothing /\ chained[x] = chained[y] => x = y

\* The caller has not come to the command that finishes the event called.
Waits(called, caller) ==
  /\ stage[caller] \in {"pending", "cmd"}
  /\ \E i \in DOMAIN cmd[caller] : cmd[caller][i] = called

CallerKnown ==
  \A x \in Events :
    chained[x] # Nothing =>
      /\ stage[x] # "unborn" /\ stage[chained[x]] # "unborn"
      /\ stage[chained[x]] = "pending" => stage[x] = "pending"
      /\ stage[x] # "freed" => Waits(x, chained[x])

\* The event called is finished inside its caller's command, with its result.
CallerRuns ==
  \A x \in Events :
    chained[x] # Nothing =>
      /\ stage[x] \notin {"pending", "freed"} =>
           /\ stage[chained[x]] = "cmd"
           /\ cmd[chained[x]] # << >> /\ Head(cmd[chained[x]]) = x
      /\ stage[x] # "pending" => failed[x] = failed[chained[x]]

Chains == CommandsRun /\ OnlyChained /\ OneCalled /\ CallerKnown /\ CallerRuns

\* A caller is an event, and not NULL.
LEMMA CallerIsEvent ==
  ASSUME TypeOK, NEW x \in Events, chained[x] # Nothing
  PROVE  chained[x] \in Events
BY DEF TypeOK

LEMMA InitChains == Init => Chains
BY DEF Init, Chains, CommandsRun, OnlyChained, OneCalled, CallerKnown, CallerRuns

\* A step that leaves stages, results, commands and chains as they are.
LEMMA UnchainedStep ==
  ASSUME Chains, UNCHANGED <<stage, failed, cmd, chained>>
  PROVE  Chains'
BY DEF Chains, CommandsRun, OnlyChained, OneCalled, CallerKnown, CallerRuns, Waits

\* The event that a submitting turn holds is pending, and so is what it calls.
LEMMA TurnChains ==
  ASSUME IInv, Chains, NEW caller \in Events, turn[caller]
  PROVE  /\ stage[caller] = "pending"
         /\ \A x \in Events : chained[x] = caller => stage[x] = "pending"
<1>1. stage[caller] = "pending"
  BY DEF IInv, TurnIsPending
<1>2. caller # Nothing
  BY DistinctObjects
<1> QED
  BY <1>1, <1>2 DEF Chains, CallerKnown

LEMMA EventNewChains ==
  ASSUME IInv, Chains, NEW e \in Events, EventNew(e)
  PROVE  Chains'
<1> USE DEF EventNew, setVars
<1>1. /\ stage \in [Events -> Stages] /\ e # Nothing
      /\ stage' = [stage EXCEPT ![e] = "pending"] /\ stage[e] = "unborn"
      /\ UNCHANGED <<failed, cmd, chained>>
  BY DistinctObjects DEF IInv, TypeOK
<1>2. chained[e] = Nothing /\ \A x \in Events : chained[x] # e
  BY <1>1 DEF Chains, CallerKnown
<1>3. \A x \in Events \ {e} : stage'[x] = stage[x]
  BY <1>1
<1>4. \A x \in Events : chained[x] # Nothing => x # e /\ chained[x] \in Events \ {e}
  BY <1>2, CallerIsEvent DEF IInv
<1>5. CommandsRun'
  BY <1>1, <1>3 DEF Chains, CommandsRun
<1>6. OnlyChained' /\ OneCalled'
  BY <1>1 DEF Chains, OnlyChained, OneCalled
<1>7. CallerKnown' /\ CallerRuns'
  BY <1>1, <1>3, <1>4 DEF Chains, CallerKnown, CallerRuns, Waits
<1> QED
  BY <1>5, <1>6, <1>7 DEF Chains

LEMMA AddEventListenerChains ==
  ASSUME IInv, Chains, NEW e \in Events, AddEventListener(e)
  PROVE  Chains'
<1> USE DEF AddEventListener, setVars
<1>1. /\ cmd \in [Events -> Seq(Commands)]
      /\ cmd' = [cmd EXCEPT ![e] = Append(cmd[e], "listener")]
      /\ UNCHANGED <<stage, failed, chained>>
  BY DEF IInv, TypeOK
<1>2. stage[e] = "pending" /\ \A x \in Events : chained[x] = e => stage[x] = "pending"
  BY TurnChains
<1>3. \A f \in Events \ {e} : cmd'[f] = cmd[f]
  BY <1>1
<1>4. /\ cmd[e] \in Seq(Commands) /\ cmd'[e] = Append(cmd[e], "listener")
      /\ \A i \in DOMAIN cmd[e] : i \in DOMAIN cmd'[e] /\ cmd'[e][i] = cmd[e][i]
      /\ \A i \in DOMAIN cmd'[e] : i \in DOMAIN cmd[e] \/ cmd'[e][i] = "listener"
  BY <1>1
<1>5. CommandsRun'
  BY <1>1, <1>2, <1>3 DEF Chains, CommandsRun
<1>6. OnlyChained' /\ OneCalled'
  BY <1>1, <1>3, <1>4 DEF Chains, OnlyChained, OneCalled
<1>7. \A x \in Events : chained[x] # Nothing /\ Waits(x, chained[x]) => Waits(x, chained[x])'
  BY <1>1, <1>3, <1>4, CallerIsEvent DEF IInv, Waits
<1>8. CallerKnown'
  BY <1>1, <1>7 DEF Chains, CallerKnown
<1>9. CallerRuns'
  BY <1>1, <1>2, <1>3, CallerIsEvent DEF Chains, CallerRuns, IInv
<1> QED
  BY <1>5, <1>6, <1>8, <1>9 DEF Chains

\* Chaining: the new caller had no chain command, the old one loses its commands.
LEMMA AddEventChainChains ==
  ASSUME IInv, Chains, NEW caller \in Events, NEW called \in Events,
         AddEventChain(caller, called)
  PROVE  Chains'
<1> USE DEF AddEventChain, setVars
<1>1. /\ cmd \in [Events -> Seq(Commands)] /\ chained \in [Events -> Events \cup {Nothing}]
      /\ chained' = [chained EXCEPT ![called] = caller]
      /\ cmd' = Rechained(caller, called)
      /\ UNCHANGED <<stage, failed>>
      /\ caller # Nothing /\ "listener" \notin Events
  BY DistinctObjects DEF IInv, TypeOK
<1>2. stage[caller] = "pending" /\ \A x \in Events : chained[x] = caller => stage[x] = "pending"
  BY TurnChains
<1>3. \A x \in Events : chained[x] # caller
  BY <1>1, <1>2 DEF Chains, CallerKnown, Waits
<1>4. chained'[called] = caller /\ \A x \in Events \ {called} : chained'[x] = chained[x]
  BY <1>1
<1>5. /\ cmd[caller] \in Seq(Commands) /\ cmd'[caller] = Append(cmd[caller], called)
      /\ \A f \in Events \ {caller} :
           cmd'[f] = IF f = chained[called] THEN << >> ELSE cmd[f]
  BY <1>1 DEF Rechained
<1>6. \A x \in Events \ {called} : chained[x] # Nothing =>
         /\ chained[x] \in Events \ {caller} /\ chained[x] # chained[called]
         /\ cmd'[chained[x]] = cmd[chained[x]]
  BY <1>3, <1>5, CallerIsEvent DEF Chains, OneCalled, IInv
<1>7. /\ Len(cmd[caller]) + 1 \in DOMAIN cmd'[caller]
      /\ cmd'[caller][Len(cmd[caller]) + 1] = called
      /\ \A i \in DOMAIN cmd'[caller] : cmd'[caller][i] \in {"listener", called}
  BY <1>5
<1>8. CommandsRun'
  BY <1>1, <1>2, <1>5 DEF Chains, CommandsRun
<1>9. OneCalled'
  BY <1>3, <1>4 DEF Chains, OneCalled
<1>10. OnlyChained'
  <2> SUFFICES ASSUME NEW f \in Events, NEW i \in DOMAIN cmd'[f], cmd'[f][i] # "listener"
               PROVE  chained'[cmd'[f][i]] = f
    BY DEF OnlyChained
  <2>1. CASE f = caller
    BY <2>1, <1>4, <1>7
  <2>2. CASE f # caller
    <3>1. cmd'[f] = cmd[f] /\ f # chained[called]
      BY <2>2, <1>5
    <3>2. cmd[f][i] \in Events /\ chained[cmd[f][i]] = f
      BY <3>1, <1>1 DEF Chains, OnlyChained, Commands
    <3> QED
      BY <3>1, <3>2, <1>4
  <2> QED
    BY <2>1, <2>2
<1>11. stage[called] = "pending" /\ Waits(called, caller)'
  BY <1>1, <1>2, <1>7 DEF Waits
<1>12. CallerKnown'
  BY <1>1, <1>2, <1>4, <1>6, <1>11 DEF Chains, CallerKnown, Waits
<1>13. CallerRuns'
  BY <1>1, <1>2, <1>4, <1>6, <1>11 DEF Chains, CallerRuns
<1> QED
  BY <1>8, <1>9, <1>10, <1>12, <1>13 DEF Chains

\* A waiting event that is delivered takes no chained event along.
LEMMA DeliverChains ==
  ASSUME IInv, Chains, NEW e \in Events, Deliver(e)
  PROVE  Chains'
<1> USE DEF Deliver, FinishBegin, setVars
<1>1. /\ stage \in [Events -> Stages] /\ failed \in [Events -> BOOLEAN] /\ e # Nothing
      /\ stage' = [stage EXCEPT ![e] = "cmd"] /\ stage[e] = "pending" /\ chained[e] = Nothing
      /\ UNCHANGED <<cmd, chained>>
  BY DistinctObjects DEF IInv, TypeOK
<1>2. PICK f \in BOOLEAN : failed' = [failed EXCEPT ![e] = f]
  OBVIOUS
<1>3. stage'[e] = "cmd" /\ \A x \in Events \ {e} : stage'[x] = stage[x] /\ failed'[x] = failed[x]
  BY <1>1, <1>2
<1>4. \A x \in Events : chained[x] # Nothing => chained[x] \in Events /\ x # e
  BY <1>1, CallerIsEvent DEF IInv
<1>5. CommandsRun'
  BY <1>1, <1>3 DEF Chains, CommandsRun
<1>6. OnlyChained' /\ OneCalled'
  BY <1>1 DEF Chains, OnlyChained, OneCalled
<1>7. \A x \in Events : chained[x] = e => stage[x] = "pending"
  BY <1>1 DEF Chains, CallerKnown
<1>8. CallerKnown'
  BY <1>1, <1>3, <1>4, <1>7 DEF Chains, CallerKnown, Waits
<1>9. CallerRuns'
  BY <1>1, <1>3, <1>4, <1>7 DEF Chains, CallerRuns
<1> QED
  BY <1>5, <1>6, <1>8, <1>9 DEF Chains

\* on_chain starts the finish of the only event its caller was chained to.
LEMMA DeliverChainedChains ==
  ASSUME IInv, Chains, NEW e \in Events, NEW called \in Events, DeliverChained(e, called)
  PROVE  Chains'
<1> USE DEF DeliverChained, OnChain, setVars
<1>1. /\ stage \in [Events -> Stages] /\ failed \in [Events -> BOOLEAN]
      /\ cmd \in [Events -> Seq(Commands)]
      /\ e # Nothing /\ called # Nothing /\ called # "listener" /\ called # e
      /\ stage[e] = "cmd" /\ stage[called] = "pending"
      /\ cmd[e] # << >> /\ Head(cmd[e]) = called
      /\ stage' = [stage EXCEPT ![called] = "cmd"]
      /\ failed' = [failed EXCEPT ![called] = failed[e]]
      /\ UNCHANGED <<cmd, chained>>
  BY DistinctObjects DEF IInv, TypeOK
<1>2. chained[called] = e
  <2>1. 1 \in DOMAIN cmd[e] /\ cmd[e][1] = called
    BY <1>1
  <2> QED
    BY <2>1, <1>1 DEF Chains, OnlyChained
<1>3. /\ stage'[called] = "cmd" /\ failed'[called] = failed[e]
      /\ \A x \in Events \ {called} : stage'[x] = stage[x] /\ failed'[x] = failed[x]
  BY <1>1
<1>4. \A x \in Events : chained[x] # Nothing => chained[x] \in Events
  BY CallerIsEvent DEF IInv
<1>5. \A x \in Events : chained[x] = called => stage[x] = "pending" /\ x # called
  BY <1>1, <1>2 DEF Chains, CallerKnown
<1>6. CommandsRun'
  BY <1>1, <1>3 DEF Chains, CommandsRun
<1>7. OnlyChained' /\ OneCalled'
  BY <1>1 DEF Chains, OnlyChained, OneCalled
<1>8. CallerKnown'
  BY <1>1, <1>2, <1>3, <1>4, <1>5 DEF Chains, CallerKnown, Waits
<1>9. CallerRuns'
  <2> SUFFICES ASSUME NEW x \in Events, chained[x] # Nothing
               PROVE  /\ stage'[x] \notin {"pending", "freed"} =>
                           /\ stage'[chained[x]] = "cmd"
                           /\ cmd[chained[x]] # << >> /\ Head(cmd[chained[x]]) = x
                      /\ stage'[x] # "pending" => failed'[x] = failed'[chained[x]]
    BY <1>1 DEF CallerRuns
  <2>1. CASE x = called
    BY <2>1, <1>1, <1>2, <1>3
  <2>2. CASE x # called /\ chained[x] = called
    BY <2>2, <1>3, <1>5
  <2>3. CASE x # called /\ chained[x] # called
    BY <2>3, <1>3, <1>4 DEF Chains, CallerRuns
  <2> QED
    BY <2>1, <2>2, <2>3
<1> QED
  BY <1>6, <1>7, <1>8, <1>9 DEF Chains

\* Where the commands behind the first one stand in a list and in its tail.
LEMMA TailIndices ==
  ASSUME NEW S, NEW s \in Seq(S), s # << >>
  PROVE  /\ \A i \in DOMAIN Tail(s) : i + 1 \in DOMAIN s /\ Tail(s)[i] = s[i + 1]
         /\ \A i \in DOMAIN s : i = 1 \/ (i - 1 \in DOMAIN Tail(s) /\ Tail(s)[i - 1] = s[i])
         /\ Head(s) = s[1]
<1>1. /\ Len(Tail(s)) = Len(s) - 1 /\ Len(s) \in Nat
      /\ DOMAIN s = 1 .. Len(s) /\ DOMAIN Tail(s) = 1 .. Len(s) - 1
  OBVIOUS
<1>2. \A i \in 1 .. Len(s) - 1 : Tail(s)[i] = s[i + 1]
  OBVIOUS
<1> QED
  BY <1>1, <1>2

\* A caller drops its first command when that is a listener it has run, or the
\* event called when that one is gone.
LEMMA PopChains ==
  ASSUME IInv, Chains, NEW e \in Events, stage[e] = "cmd", cmd[e] # << >>,
         cmd' = [cmd EXCEPT ![e] = Tail(cmd[e])],
         UNCHANGED <<stage, failed, chained>>,
         \A x \in Events : Head(cmd[e]) = x => stage[x] = "freed"
  PROVE  Chains'
<1>1. cmd \in [Events -> Seq(Commands)] /\ e # Nothing /\ "listener" \notin Events
  BY DistinctObjects DEF IInv, TypeOK
<1>2. cmd'[e] = Tail(cmd[e]) /\ \A f \in Events \ {e} : cmd'[f] = cmd[f]
  BY <1>1
<1>3. /\ \A i \in DOMAIN cmd'[e] : i + 1 \in DOMAIN cmd[e] /\ cmd'[e][i] = cmd[e][i + 1]
      /\ \A i \in DOMAIN cmd[e] : i = 1 \/ (i - 1 \in DOMAIN cmd'[e] /\ cmd'[e][i - 1] = cmd[e][i])
      /\ Head(cmd[e]) = cmd[e][1]
  <2>1. cmd[e] \in Seq(Commands)
    BY <1>1
  <2> DEFINE rest == Tail(cmd[e])
  <2>2. /\ \A i \in DOMAIN rest : i + 1 \in DOMAIN cmd[e] /\ rest[i] = cmd[e][i + 1]
        /\ \A i \in DOMAIN cmd[e] : i = 1 \/ (i - 1 \in DOMAIN rest /\ rest[i - 1] = cmd[e][i])
        /\ Head(cmd[e]) = cmd[e][1]
    BY <2>1, TailIndices
  <2>3. cmd'[e] = rest
    BY <1>2
  <2> HIDE DEF rest
  <2> QED
    BY <2>2, <2>3
<1>4. \A x \in Events : chained[x] # Nothing => chained[x] \in Events
  BY CallerIsEvent DEF IInv
<1>5. CommandsRun'
  BY <1>2 DEF Chains, CommandsRun
<1>6. OnlyChained'
  <2> SUFFICES ASSUME NEW f \in Events, NEW i \in DOMAIN cmd'[f], cmd'[f][i] # "listener"
               PROVE  chained[cmd'[f][i]] = f
    BY DEF OnlyChained
  <2>1. CASE f = e
    BY <2>1, <1>3 DEF Chains, OnlyChained
  <2>2. CASE f # e
    BY <2>2, <1>2 DEF Chains, OnlyChained
  <2> QED
    BY <2>1, <2>2
<1>7. OneCalled'
  BY DEF Chains, OneCalled
<1>8. \A x \in Events : chained[x] # Nothing /\ stage[x] # "freed" => Waits(x, chained[x])'
  <2> SUFFICES ASSUME NEW x \in Events, chained[x] # Nothing, stage[x] # "freed"
               PROVE  Waits(x, chained[x])'
    OBVIOUS
  <2>1. Waits(x, chained[x])
    BY DEF Chains, CallerKnown
  <2>2. CASE chained[x] # e
    BY <2>1, <2>2, <1>2, <1>4 DEF Waits
  <2>3. CASE chained[x] = e
    <3>1. PICK i \in DOMAIN cmd[e] : cmd[e][i] = x
      BY <2>1, <2>3 DEF Waits
    <3>2. i # 1
      BY <3>1, <1>3
    <3>3. i - 1 \in DOMAIN cmd'[e] /\ cmd'[e][i - 1] = x
      BY <3>1, <3>2, <1>3
    <3>4. stage'[e] \in {"pending", "cmd"}
      OBVIOUS
    <3> QED
      BY <3>3, <3>4, <2>3 DEF Waits
  <2> QED
    BY <2>2, <2>3
<1>9. CallerKnown'
  BY <1>8 DEF Chains, CallerKnown
<1>10. CallerRuns'
  BY <1>2, <1>4 DEF Chains, CallerRuns
<1> QED
  BY <1>5, <1>6, <1>7, <1>9, <1>10 DEF Chains

LEMMA RunListenerChains ==
  ASSUME IInv, Chains, NEW e \in Events, RunListener(e)
  PROVE  Chains'
BY PopChains, DistinctObjects DEF RunListener

LEMMA OnChainReturnChains ==
  ASSUME IInv, Chains, NEW e \in Events, NEW called \in Events, OnChainReturn(e, called)
  PROVE  Chains'
BY PopChains DEF OnChainReturn

\* An event without commands moves on: what was chained to it is gone.
LEMMA MoveChains ==
  ASSUME IInv, Chains, NEW e \in Events, NEW next \in Stages,
         stage[e] \notin {"unborn", "pending"}, cmd[e] = << >>,
         stage' = [stage EXCEPT ![e] = next], next \notin {"unborn", "pending", "cmd"},
         stage[e] # "freed", UNCHANGED <<failed, cmd, chained>>
  PROVE  Chains'
<1>1. stage \in [Events -> Stages] /\ e # Nothing
  BY DistinctObjects DEF IInv, TypeOK
<1>2. stage'[e] = next /\ \A x \in Events \ {e} : stage'[x] = stage[x]
  BY <1>1
<1>3. \A x \in Events : chained[x] # Nothing => chained[x] \in Events
  BY CallerIsEvent DEF IInv
<1>4. \A x \in Events : chained[x] = e => stage[x] = "freed"
  BY <1>1 DEF Chains, CallerKnown, Waits
<1>5. CommandsRun'
  BY <1>2 DEF Chains, CommandsRun
<1>6. OnlyChained' /\ OneCalled'
  BY DEF Chains, OnlyChained, OneCalled
<1>7. CallerKnown'
  BY <1>2, <1>3, <1>4 DEF Chains, CallerKnown, Waits
<1>8. CallerRuns'
  BY <1>2, <1>3, <1>4 DEF Chains, CallerRuns
<1> QED
  BY <1>5, <1>6, <1>7, <1>8 DEF Chains

LEMMA FinishChains ==
  ASSUME IInv, Chains, NEW e \in Events,
         CommandsDone(e) \/ CountError(e) \/ Unref(e) \/ FireByEvent(e) \/ EventFree(e)
  PROVE  Chains'
<1> USE DEF Stages
<1>1. CASE CommandsDone(e)
  BY <1>1, MoveChains DEF CommandsDone, AfterCommands
<1>2. CASE CountError(e)
  BY <1>2, MoveChains DEF CountError, Chains, CommandsRun
<1>3. CASE Unref(e)
  BY <1>3, MoveChains DEF Unref, Chains, CommandsRun
<1>4. CASE FireByEvent(e)
  BY <1>4, MoveChains DEF FireByEvent, Chains, CommandsRun
<1>5. CASE EventFree(e)
  BY <1>5, MoveChains DEF EventFree, Chains, CommandsRun
<1> QED
  BY <1>1, <1>2, <1>3, <1>4, <1>5

LEMMA StepChains == IInv /\ Chains /\ [Next]_vars => Chains'
<1> SUFFICES ASSUME IInv, Chains, [Next]_vars PROVE Chains'
  OBVIOUS
<1>1. CASE UNCHANGED vars
  BY <1>1, UnchainedStep DEF vars
<1>2. CASE Submit
  <2>1. CASE \E s \in Sets : EvsetNew(s) \/ UnrefByOwner(s) \/ FireByOwner(s)
    BY <2>1, UnchainedStep DEF EvsetNew, UnrefByOwner, FireByOwner, eventVars
  <2>2. CASE \E e \in Events : EventNew(e) \/ AddEventListener(e) \/ EndTurn(e)
    BY <2>2, UnchainedStep, EventNewChains, AddEventListenerChains DEF EndTurn
  <2>3. CASE \E s \in Sets, e \in Events : EvsetAddEvent(s, e)
    BY <2>3, UnchainedStep DEF EvsetAddEvent
  <2>4. CASE \E caller, called \in Events : AddEventChain(caller, called)
    BY <2>4, AddEventChainChains
  <2> QED
    BY <1>2, <2>1, <2>2, <2>3, <2>4 DEF Submit
<1>3. CASE Finish
  BY <1>3, RunListenerChains, FinishChains, OnChainReturnChains DEF Finish
<1>4. CASE \E e \in Events : Deliver(e)
  BY <1>4, DeliverChains
<1>5. CASE \E e, called \in Events : DeliverChained(e, called)
  BY <1>5, DeliverChainedChains
<1> QED
  BY <1>1, <1>2, <1>3, <1>4, <1>5 DEF Next

\* The invariant of chains holds in every reachable state.
THEOREM ChainInvariance == Spec => []Chains
BY InitChains, StepChains, Invariance, PTL DEF Spec

\* A chained event is finished within the finish of its caller, with the caller's
\* result, and is gone before its caller is (on_chain, async.c:215-240).
THEOREM CalledInsideCaller == Spec => []ChainFinishesCalled
<1>1. IInv /\ Chains => ChainFinishesCalled
  <2> SUFFICES ASSUME IInv, Chains, NEW called \in Events, chained[called] # Nothing
               PROVE  LET caller == chained[called] IN
                        /\ stage[called] # "pending" => failed[called] = failed[caller]
                        /\ stage[called] \notin {"pending", "freed"} => stage[caller] = "cmd"
                        /\ stage[caller] \notin {"pending", "cmd"} => stage[called] = "freed"
    BY DEF ChainFinishesCalled
  <2> QED
    BY DEF Chains, CallerKnown, CallerRuns, Waits
<1> QED
  BY <1>1, Invariance, ChainInvariance, PTL

------------------------------------------------------------------------------
(* The event set implements the joint completion. *)

\* A step that no user of a group can tell from doing nothing.
LEMMA JointStutter ==
  ASSUME UNCHANGED <<memory, owned, seen>>,
         \A s \in Sets : /\ Members(s)' = Members(s)
                        /\ Released(s)' = Released(s)
                        /\ ReleasedFailures(s)' = ReleasedFailures(s)
  PROVE  UNCHANGED Joint!vars
<1>1. \A s \in Sets : Phase(s)' = Phase(s)
  BY DEF Phase
<1> QED
  BY <1>1 DEF Joint!vars

\* The initial states are initial states of the abstract specification.
LEMMA JointInit == Init => Joint!Init
<1> SUFFICES ASSUME Init PROVE Joint!Init
  OBVIOUS
<1>1. \A s \in Sets : /\ Phase(s) = "unborn"
                      /\ Members(s) = {} /\ Released(s) = {} /\ ReleasedFailures(s) = {}
  BY DistinctObjects DEF Init, Phase, Members, Released, ReleasedFailures, Failures
<1>2. seen = [s \in Sets |-> 0]
  BY DEF Init
<1> QED
  BY <1>1, <1>2 DEF Joint!Init

\* A step in which no event of a set passes its release.
LEMMA StageStutter ==
  ASSUME IInv, UNCHANGED <<host, memory, owned, seen>>,
         \A e \in Events : host[e] # Nothing =>
            /\ stage'[e] \in Holding <=> stage[e] \in Holding
            /\ stage[e] \notin Holding => failed'[e] = failed[e]
  PROVE  UNCHANGED Joint!vars
<1>1. \A s \in Sets : s # Nothing
  BY DistinctObjects
<1>2. \A s \in Sets : Members(s)' = Members(s)
  BY DEF Members
<1>3. \A s \in Sets : Released(s)' = Released(s)
  BY <1>1 DEF Released, Holders, Members
<1>4. \A s \in Sets : ReleasedFailures(s)' = ReleasedFailures(s)
  BY <1>1 DEF ReleasedFailures, Failures, Holders, Members
<1> QED
  BY <1>2, <1>3, <1>4, JointStutter

LEMMA EvsetNewOpens ==
  ASSUME IInv, NEW s \in Sets, EvsetNew(s)
  PROVE  Joint!Open(s)
<1> USE DEF EvsetNew, eventVars
<1>1. \A r \in Sets : /\ Members(r)' = Members(r)
                      /\ Released(r)' = Released(r)
                      /\ ReleasedFailures(r)' = ReleasedFailures(r)
  BY DEF Released, ReleasedFailures, Failures, Holders, Members
<1>2. Phase(s) = "unborn" /\ Phase(s)' = "open"
  BY DEF IInv, TypeOK, Phase
<1>3. \A r \in Sets \ {s} : Phase(r)' = Phase(r)
  BY DEF IInv, TypeOK, Phase
<1> QED
  BY <1>1, <1>2, <1>3 DEF Joint!Open

LEMMA EvsetAddEventJoins ==
  ASSUME IInv, NEW s \in Sets, NEW e \in Events, EvsetAddEvent(s, e)
  PROVE  Joint!Join(s, e)
<1> USE DEF EvsetAddEvent
<1>1. stage[e] = "pending" /\ memory[s] = "live"
  BY DEF IInv, TurnIsPending, SetOutlivesUse
<1>2. Phase(s) = "open" /\ \A r \in Sets : Phase(r)' = Phase(r)
  BY <1>1 DEF Phase
<1>3. \A r \in Sets : e \notin Members(r)
  BY DistinctObjects DEF Members
<1>4. /\ Members(s)' = Members(s) \cup {e}
      /\ \A r \in Sets \ {s} : Members(r)' = Members(r)
  BY DistinctObjects DEF IInv, TypeOK, Members
<1>5. \A r \in Sets : /\ Released(r)' = Released(r)
                      /\ ReleasedFailures(r)' = ReleasedFailures(r)
  BY <1>1, DistinctObjects
  DEF IInv, TypeOK, Released, ReleasedFailures, Failures, Holders, Members, Holding
<1> QED
  BY <1>2, <1>3, <1>4, <1>5 DEF Joint!Join

LEMMA UnrefByOwnerCloses ==
  ASSUME IInv, NEW s \in Sets, UnrefByOwner(s)
  PROVE  Joint!Close(s)
<1> USE DEF UnrefByOwner, eventVars
<1>1. memory[s] = "live"
  BY DEF IInv, SetOutlivesUse
<1>2. \A r \in Sets : /\ Members(r)' = Members(r)
                      /\ Released(r)' = Released(r)
                      /\ ReleasedFailures(r)' = ReleasedFailures(r)
  BY DEF Released, ReleasedFailures, Failures, Holders, Members
<1>3. Phase(s) = "open" /\ Phase(s)' = "closed"
  BY <1>1 DEF IInv, TypeOK, Phase
<1>4. \A r \in Sets \ {s} : Phase(r)' = Phase(r)
  BY DEF IInv, TypeOK, Phase
<1> QED
  BY <1>2, <1>3, <1>4 DEF Joint!Close

LEMMA UnrefCompletes ==
  ASSUME IInv, NEW e \in Events, Unref(e)
  PROVE  Joint!Complete(host[e], e)
<1> DEFINE s == host[e]
<1> USE DEF Unref
<1>1. s \in Sets /\ e \in Holders(s) /\ e \in Members(s)
  BY DEF IInv, TypeOK, HostKnown, Holding, Holders, Members
<1>2. \A r \in Sets : Phase(r)' = Phase(r) /\ Members(r)' = Members(r)
  BY DEF Phase, Members
<1>3. /\ Holders(s)' = Holders(s) \ {e}
      /\ \A r \in Sets \ {s} : Holders(r)' = Holders(r)
  BY <1>1 DEF IInv, TypeOK, Holders, Members, Holding
<1>4. \A r \in Sets : Failures(r)' = Failures(r)
  BY <1>2 DEF Failures
<1>5. e \in Members(s) \ Released(s)
  BY <1>1 DEF Released
<1>6. /\ Released(s)' = Released(s) \cup {e}
      /\ \A r \in Sets \ {s} : Released(r)' = Released(r)
  BY <1>1, <1>2, <1>3 DEF Released
<1>7. \A r \in Sets \ {s} : ReleasedFailures(r)' = ReleasedFailures(r)
  BY <1>3, <1>4 DEF ReleasedFailures
<1>8. \/ ReleasedFailures(s)' = ReleasedFailures(s) \cup {e}
      \/ ReleasedFailures(s)' = ReleasedFailures(s)
  BY <1>1, <1>3, <1>4 DEF ReleasedFailures
<1> QED
  BY <1>1, <1>2, <1>5, <1>6, <1>7, <1>8 DEF Joint!Complete

\* When the last reference is gone everything that joined has completed, and the
\* count that is handed over is the number of the failures.
LEMMA FireReports ==
  ASSUME IInv, NEW s \in Sets, memory[s] = "live",
         Firers(s) # {} \/ firing[s],
         RunSetCommand(s), UNCHANGED <<host, owned, failed, errCount>>,
         \A e \in Events : host[e] # Nothing =>
            (stage'[e] \in Holding <=> stage[e] \in Holding)
  PROVE  Joint!Report(s)
<1> USE DEF RunSetCommand
<1>1. ~owned[s] /\ Holders(s) = {}
  BY DEF IInv, OneFires
<1>2. Phase(s) = "closed" /\ Phase(s)' = "reported"
  BY <1>1 DEF IInv, TypeOK, Phase
<1>3. \A r \in Sets \ {s} : Phase(r)' = Phase(r)
  BY DEF IInv, TypeOK, Phase
<1>4. \A r \in Sets : r # Nothing
  BY DistinctObjects
<1>5. \A r \in Sets : /\ Members(r)' = Members(r)
                      /\ Released(r)' = Released(r)
                      /\ ReleasedFailures(r)' = ReleasedFailures(r)
  BY <1>4 DEF Released, ReleasedFailures, Failures, Holders, Members
<1>6. Released(s) = Members(s)
  BY <1>1 DEF Released
<1>7. \A e \in Members(s) : stage[e] \in {"fire", "free", "freed"}
  BY <1>1, <1>4 DEF IInv, TypeOK, HostKnown, Stages, Holding, Holders, Members
<1>8. Counted(s) = ReleasedFailures(s)
  BY <1>1, <1>7 DEF Counted, ReleasedFailures, Failures
<1>9. errCount[s] = Cardinality(ReleasedFailures(s))
  BY <1>8 DEF IInv, ErrCountExact
<1>10. Joint!Cardinality(ReleasedFailures(s)) = Cardinality(ReleasedFailures(s))
  BY DEF Joint!Cardinality, Cardinality
<1> QED
  BY <1>2, <1>3, <1>5, <1>6, <1>9, <1>10 DEF Joint!Report

\* Every step is a step of the joint completion, or invisible to it.
LEMMA JointStep == IInv /\ [Next]_vars => [Joint!Next]_(Joint!vars)
<1> SUFFICES ASSUME IInv, [Next]_vars PROVE [Joint!Next]_(Joint!vars)
  OBVIOUS
<1> USE DEF Joint!Next
<1>1. CASE UNCHANGED vars
  BY <1>1, StageStutter DEF vars
<1>2. ASSUME NEW s \in Sets, EvsetNew(s) PROVE Joint!Next
  BY <1>2, EvsetNewOpens
<1>3. ASSUME NEW s \in Sets, UnrefByOwner(s) PROVE Joint!Next
  BY <1>3, UnrefByOwnerCloses
<1>4. ASSUME NEW s \in Sets, FireByOwner(s) PROVE Joint!Next
  BY <1>4, FireReports DEF FireByOwner, eventVars, IInv, SetOutlivesUse
<1>5. ASSUME NEW s \in Sets, NEW e \in Events, EvsetAddEvent(s, e) PROVE Joint!Next
  BY <1>5, EvsetAddEventJoins
<1>6. ASSUME NEW e \in Events, Unref(e) PROVE Joint!Next
  <2>1. host[e] \in Sets
    BY <1>6 DEF Unref, IInv, TypeOK, HostKnown
  <2> QED
    BY <1>6, <2>1, UnrefCompletes
<1>7. ASSUME NEW e \in Events, FireByEvent(e) PROVE Joint!Next
  <2>1. host[e] \in Sets /\ e \in Firers(host[e]) /\ memory[host[e]] = "live"
    BY <1>7 DEF FireByEvent, IInv, TypeOK, HostKnown, Firers, Members, SetOutlivesUse
  <2>2. \A f \in Events : stage'[f] \in Holding <=> stage[f] \in Holding
    BY <1>7 DEF FireByEvent, IInv, TypeOK, Holding
  <2>3. Joint!Report(host[e])
    BY <1>7, <2>1, <2>2, FireReports DEF FireByEvent
  <2> QED
    BY <2>1, <2>3
<1>8. ASSUME NEW e \in Events, EventNew(e) PROVE UNCHANGED Joint!vars
  BY <1>8, StageStutter DEF EventNew, setVars, IInv, TypeOK, HostKnown
<1>9. ASSUME NEW e \in Events, AddEventListener(e) \/ EndTurn(e) \/ RunListener(e)
      PROVE  UNCHANGED Joint!vars
  BY <1>9, StageStutter DEF AddEventListener, EndTurn, RunListener, setVars
<1>10. ASSUME NEW e \in Events, NEW f \in Events, AddEventChain(e, f) \/ OnChainReturn(e, f)
       PROVE  UNCHANGED Joint!vars
  BY <1>10, StageStutter DEF AddEventChain, OnChainReturn, setVars
<1>11. ASSUME NEW e \in Events, CommandsDone(e) \/ CountError(e) \/ EventFree(e)
       PROVE  UNCHANGED Joint!vars
  BY <1>11, StageStutter
  DEF CommandsDone, CountError, EventFree, AfterCommands, Holding, setVars, IInv, TypeOK
<1>12. ASSUME NEW e \in Events, Deliver(e) PROVE UNCHANGED Joint!vars
  <2>1. /\ stage[e] = "pending" /\ stage' = [stage EXCEPT ![e] = "cmd"]
        /\ \E r \in BOOLEAN : failed' = [failed EXCEPT ![e] = r]
        /\ UNCHANGED <<host, memory, owned, seen>>
    BY <1>12 DEF Deliver, FinishBegin, setVars
  <2>2. \A f \in Events : host[f] # Nothing =>
                         /\ stage'[f] \in Holding <=> stage[f] \in Holding
                         /\ stage[f] \notin Holding => failed'[f] = failed[f]
    BY <2>1 DEF Holding, IInv, TypeOK
  <2>3. UNCHANGED <<host, memory, owned, seen>>
    BY <2>1
  <2> QED
    BY <2>2, <2>3, StageStutter
<1>13. ASSUME NEW e \in Events, NEW f \in Events, DeliverChained(e, f)
       PROVE  UNCHANGED Joint!vars
  BY <1>13, StageStutter DEF DeliverChained, OnChain, Holding, setVars, IInv, TypeOK
<1> QED
  BY <1>1, <1>2, <1>3, <1>4, <1>5, <1>6, <1>7, <1>8, <1>9, <1>10, <1>11, <1>12, <1>13
  DEF Next, Submit, Finish

\* Event sets implement the joint completion, for any events and sets.
THEOREM Refinement == Spec => ImplementsJoint
BY JointInit, JointStep, Invariance, PTL DEF Spec, ImplementsJoint, Joint!Spec
==============================================================================
