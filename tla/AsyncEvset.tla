------------------------------ MODULE AsyncEvset ------------------------------
(***************************************************************************)
(* Events, event sets, listeners and chains (lib/async.c:31-253).          *)
(*                                                                         *)
(* An event is the handle of one pending request.  event_finish runs its   *)
(* commands, counts a failure in the set the event belongs to, drops the   *)
(* event's reference on that set and frees the event; whoever drops the    *)
(* last reference runs the set's command and frees the set.  These are     *)
(* separate steps here because only err_count++ and the two reference      *)
(* updates are under the set's mutex: events of one set are finished by    *)
(* the loop thread (async_complete), by the thread that enters a captcha   *)
(* and by the thread that cleans the client up.                            *)
(*                                                                         *)
(* Spec is the discipline the library itself keeps: the code that submits  *)
(* a request also registers its listeners, chain and set before control    *)
(* returns to the loop, so the completion is not delivered in between.     *)
(* AnyThreadSpec drops that, as in src/cli.c where the main thread submits *)
(* while the loop thread runs.  The handle's "synced" mode is off.         *)
(***************************************************************************)
EXTENDS Naturals, Sequences, FiniteSets

CONSTANTS
  Events,     \* the LwqqAsyncEvent objects
  Sets,       \* the LwqqAsyncEvset objects
  Nothing     \* the NULL pointer

ASSUME DistinctObjects ==
  /\ Nothing \notin Events \cup Sets
  /\ "listener" \notin Events
  /\ IsFiniteSet(Events)

VARIABLES
  stage,      \* [Events -> Stages], how far the life of the event has got
  turn,       \* [Events -> BOOLEAN], the submitting code still runs
  failed,     \* [Events -> BOOLEAN], event->result # LWQQ_EC_OK
  cmd,        \* [Events -> Seq(Commands)], event->cmd, head first
  chained,    \* [Events -> Events \cup {Nothing}], called->chained
  host,       \* [Events -> Sets \cup {Nothing}], event->host_lock
  memory,     \* [Sets -> {"unborn", "live", "freed"}]
  refCount,   \* [Sets -> Nat], set->ref_count
  errCount,   \* [Sets -> Nat], set->err_count
  owned,      \* [Sets -> BOOLEAN], the creator still holds its own reference
  firing,     \* [Sets -> BOOLEAN], the creator dropped the last reference
  seen        \* [Sets -> Nat], the err_count the set's command read

eventVars == <<stage, turn, failed, cmd, chained, host>>
setVars == <<memory, refCount, errCount, owned, firing, seen>>
vars == <<stage, turn, failed, cmd, chained, host,
          memory, refCount, errCount, owned, firing, seen>>

Stages == {"unborn", "pending", "cmd", "err", "unref", "fire", "free", "freed"}

\* A command of an event is a user's callback or on_chain for the event called.
Commands == {"listener"} \cup Events

\* The stages in which an event still holds its reference on its set.
Holding == {"pending", "cmd", "err", "unref"}

------------------------------------------------------------------------------
Init ==
  /\ stage = [e \in Events |-> "unborn"]
  /\ turn = [e \in Events |-> FALSE]
  /\ failed = [e \in Events |-> FALSE]
  /\ cmd = [e \in Events |-> << >>]
  /\ chained = [e \in Events |-> Nothing]
  /\ host = [e \in Events |-> Nothing]
  /\ memory = [s \in Sets |-> "unborn"]
  /\ refCount = [s \in Sets |-> 0]
  /\ errCount = [s \in Sets |-> 0]
  /\ owned = [s \in Sets |-> FALSE]
  /\ firing = [s \in Sets |-> FALSE]
  /\ seen = [s \in Sets |-> 0]

------------------------------------------------------------------------------
(* The code that submits requests and builds sets. *)

\* The reference count a new set starts with: the creator's own.
InitialRefs == 1

EvsetNew(s) ==
  /\ memory[s] = "unborn"
  /\ memory' = [memory EXCEPT ![s] = "live"]
  /\ refCount' = [refCount EXCEPT ![s] = InitialRefs]
  /\ owned' = [owned EXCEPT ![s] = TRUE]
  /\ UNCHANGED eventVars
  /\ UNCHANGED <<errCount, firing, seen>>

\* do_request_async (or event_new(NULL)) hands the caller a pending event.
EventNew(e) ==
  /\ stage[e] = "unborn"
  /\ stage' = [stage EXCEPT ![e] = "pending"]
  /\ turn' = [turn EXCEPT ![e] = TRUE]
  /\ UNCHANGED setVars
  /\ UNCHANGED <<failed, cmd, chained, host>>

\* Bound: one user callback per event.
AddEventListener(e) ==
  /\ turn[e]
  /\ \A i \in DOMAIN cmd[e] : cmd[e][i] # "listener"
  /\ cmd' = [cmd EXCEPT ![e] = Append(@, "listener")]
  /\ UNCHANGED setVars
  /\ UNCHANGED <<stage, turn, failed, chained, host>>

\* Variant: the commands of both callers are cancelled.
RechainedForgets(caller, called) ==
  [e \in Events |->
     IF chained[called] # Nothing /\ e \in {caller, chained[called]} THEN << >>
     ELSE IF e = caller THEN Append(cmd[e], called)
     ELSE cmd[e]]

\* The commands after "called" is chained to "caller": those of the event it
\* was chained to before are cancelled.
Rechained(caller, called) ==
  [e \in Events |->
     IF e = caller THEN Append(cmd[e], called)
     ELSE IF e = chained[called] THEN << >>
     ELSE cmd[e]]

\* A fresh event is chained to one that is still pending, for the first time or,
\* when the server rejects the hash of friend and group lists, from the callback
\* of the request that "called" waits for (lib/info.c:866-868).
AddEventChain(caller, called) ==
  /\ turn[caller] /\ chained[caller] = Nothing
  /\ \A i \in DOMAIN cmd[caller] : cmd[caller][i] = "listener"
  /\ caller # called /\ stage[called] = "pending"
  /\ chained[called] # Nothing => stage[chained[called]] = "pending"
  /\ cmd' = Rechained(caller, called)
  /\ chained' = [chained EXCEPT ![called] = caller]
  /\ UNCHANGED setVars
  /\ UNCHANGED <<stage, turn, failed, host>>

\* Variant: the event joins without taking a reference.
EvsetAddEventUncounted(s, e) ==
  /\ owned[s]
  /\ turn[e] /\ host[e] = Nothing
  /\ host' = [host EXCEPT ![e] = s]
  /\ UNCHANGED <<stage, turn, failed, cmd, chained>>
  /\ UNCHANGED setVars

\* The event joins the set, which counts one reference more.
EvsetAddEvent(s, e) ==
  /\ owned[s]
  /\ turn[e] /\ host[e] = Nothing
  /\ host' = [host EXCEPT ![e] = s]
  /\ refCount' = [refCount EXCEPT ![s] = @ + 1]
  /\ UNCHANGED <<stage, turn, failed, cmd, chained>>
  /\ UNCHANGED <<memory, errCount, owned, firing, seen>>

\* The submitting code returns to the loop; the pointer is no longer its own.
EndTurn(e) ==
  /\ turn[e]
  /\ turn' = [turn EXCEPT ![e] = FALSE]
  /\ UNCHANGED setVars
  /\ UNCHANGED <<stage, failed, cmd, chained, host>>

\* Variant: the creator's release always fires the set, as if no event were left.
UnrefByOwnerFires(s) ==
  /\ owned[s]
  /\ owned' = [owned EXCEPT ![s] = FALSE]
  /\ refCount' = [refCount EXCEPT ![s] = @ - 1]
  /\ firing' = [firing EXCEPT ![s] = TRUE]
  /\ UNCHANGED eventVars
  /\ UNCHANGED <<memory, errCount, seen>>

\* Variant: the creator's release never fires the set.
UnrefByOwnerSilent(s) ==
  /\ owned[s]
  /\ owned' = [owned EXCEPT ![s] = FALSE]
  /\ refCount' = [refCount EXCEPT ![s] = @ - 1]
  /\ UNCHANGED eventVars
  /\ UNCHANGED <<memory, errCount, firing, seen>>

\* The creator gives up its own reference, having attached the set's command.
UnrefByOwner(s) ==
  /\ owned[s]
  /\ owned' = [owned EXCEPT ![s] = FALSE]
  /\ refCount' = [refCount EXCEPT ![s] = @ - 1]
  /\ firing' = [firing EXCEPT ![s] = refCount[s] = 1]
  /\ UNCHANGED eventVars
  /\ UNCHANGED <<memory, errCount, seen>>

------------------------------------------------------------------------------
(* lwqq_async_event_finish, step by step. *)

\* Whoever completes an event that waits for no other one calls event_finish.
FinishBegin(e) ==
  /\ stage[e] = "pending" /\ chained[e] = Nothing
  /\ stage' = [stage EXCEPT ![e] = "cmd"]
  /\ \E f \in BOOLEAN : failed' = [failed EXCEPT ![e] = f]
  /\ UNCHANGED setVars
  /\ UNCHANGED <<turn, cmd, chained, host>>

RunListener(e) ==
  /\ stage[e] = "cmd"
  /\ cmd[e] # << >> /\ Head(cmd[e]) = "listener"
  /\ cmd' = [cmd EXCEPT ![e] = Tail(@)]
  /\ UNCHANGED setVars
  /\ UNCHANGED <<stage, turn, failed, chained, host>>

\* Variant: the called event keeps its own result.
OnChainKeepsResult(e, called) ==
  /\ stage[e] = "cmd"
  /\ cmd[e] # << >> /\ Head(cmd[e]) = called
  /\ stage[called] = "pending"
  /\ stage' = [stage EXCEPT ![called] = "cmd"]
  /\ UNCHANGED setVars
  /\ UNCHANGED <<turn, failed, cmd, chained, host>>

\* on_chain: the called event takes the caller's result and is finished within
\* the caller's own event_finish.
OnChain(e, called) ==
  /\ stage[e] = "cmd"
  /\ cmd[e] # << >> /\ Head(cmd[e]) = called
  /\ stage[called] = "pending"
  /\ failed' = [failed EXCEPT ![called] = failed[e]]
  /\ stage' = [stage EXCEPT ![called] = "cmd"]
  /\ UNCHANGED setVars
  /\ UNCHANGED <<turn, cmd, chained, host>>

OnChainReturn(e, called) ==
  /\ stage[e] = "cmd"
  /\ cmd[e] # << >> /\ Head(cmd[e]) = called
  /\ stage[called] = "freed"
  /\ cmd' = [cmd EXCEPT ![e] = Tail(@)]
  /\ UNCHANGED setVars
  /\ UNCHANGED <<stage, turn, failed, chained, host>>

\* What follows the commands: a failure is counted before the reference goes.
AfterCommands(e) ==
  IF host[e] = Nothing THEN "free" ELSE IF failed[e] THEN "err" ELSE "unref"

CommandsDone(e) ==
  /\ stage[e] = "cmd"
  /\ cmd[e] = << >>
  /\ stage' = [stage EXCEPT ![e] = AfterCommands(e)]
  /\ UNCHANGED setVars
  /\ UNCHANGED <<turn, failed, cmd, chained, host>>

CountError(e) ==
  /\ stage[e] = "err"
  /\ errCount' = [errCount EXCEPT ![host[e]] = @ + 1]
  /\ stage' = [stage EXCEPT ![e] = "unref"]
  /\ UNCHANGED <<turn, failed, cmd, chained, host>>
  /\ UNCHANGED <<memory, refCount, owned, firing, seen>>

Unref(e) ==
  /\ stage[e] = "unref"
  /\ refCount' = [refCount EXCEPT ![host[e]] = @ - 1]
  /\ stage' = [stage EXCEPT ![e] = IF refCount[host[e]] = 1 THEN "fire" ELSE "free"]
  /\ UNCHANGED <<turn, failed, cmd, chained, host>>
  /\ UNCHANGED <<memory, errCount, owned, firing, seen>>

\* The set's command runs and the set is freed (nothing sets cond_waiting).
RunSetCommand(s) ==
  /\ seen' = [seen EXCEPT ![s] = errCount[s]]
  /\ memory' = [memory EXCEPT ![s] = "freed"]

FireByEvent(e) ==
  /\ stage[e] = "fire"
  /\ RunSetCommand(host[e])
  /\ stage' = [stage EXCEPT ![e] = "free"]
  /\ UNCHANGED <<turn, failed, cmd, chained, host>>
  /\ UNCHANGED <<refCount, errCount, owned, firing>>

FireByOwner(s) ==
  /\ firing[s]
  /\ RunSetCommand(s)
  /\ firing' = [firing EXCEPT ![s] = FALSE]
  /\ UNCHANGED eventVars
  /\ UNCHANGED <<refCount, errCount, owned>>

EventFree(e) ==
  /\ stage[e] = "free"
  /\ stage' = [stage EXCEPT ![e] = "freed"]
  /\ UNCHANGED setVars
  /\ UNCHANGED <<turn, failed, cmd, chained, host>>

------------------------------------------------------------------------------
\* An event is not completed, by the loop or through a chain, before the turn
\* that submitted it is over.
Deliver(e) == ~turn[e] /\ FinishBegin(e)
DeliverChained(e, called) == ~turn[called] /\ OnChain(e, called)

Submit ==
  \/ \E s \in Sets : EvsetNew(s) \/ UnrefByOwner(s) \/ FireByOwner(s)
  \/ \E e \in Events : EventNew(e) \/ AddEventListener(e) \/ EndTurn(e)
  \/ \E s \in Sets, e \in Events : EvsetAddEvent(s, e)
  \/ \E caller, called \in Events : AddEventChain(caller, called)

Finish ==
  \/ \E e \in Events :
       \/ RunListener(e) \/ CommandsDone(e) \/ CountError(e)
       \/ Unref(e) \/ FireByEvent(e) \/ EventFree(e)
  \/ \E e, called \in Events : OnChainReturn(e, called)

Next ==
  \/ Submit
  \/ Finish
  \/ \E e \in Events : Deliver(e)
  \/ \E e, called \in Events : DeliverChained(e, called)

\* Straight-line code of the library and requests that time out: every step of
\* a finish is taken, every turn ends, every set is released, every event that
\* no other one finishes is completed.
Fairness ==
  /\ WF_vars(Finish)
  /\ \A e \in Events : WF_vars(EndTurn(e)) /\ WF_vars(Deliver(e))
  /\ \A e, called \in Events : WF_vars(DeliverChained(e, called))
  /\ \A s \in Sets : WF_vars(UnrefByOwner(s)) /\ WF_vars(FireByOwner(s))

Spec == Init /\ [][Next]_vars /\ Fairness

\* The submitting code runs in another thread than the one that completes.
AnyThreadNext ==
  \/ Submit
  \/ Finish
  \/ \E e \in Events : FinishBegin(e)
  \/ \E e, called \in Events : OnChain(e, called)
AnyThreadSpec == Init /\ [][AnyThreadNext]_vars

------------------------------------------------------------------------------
(* Properties. *)

TypeOK ==
  /\ stage \in [Events -> Stages]
  /\ turn \in [Events -> BOOLEAN]
  /\ failed \in [Events -> BOOLEAN]
  /\ cmd \in [Events -> Seq(Commands)]
  /\ chained \in [Events -> Events \cup {Nothing}]
  /\ host \in [Events -> Sets \cup {Nothing}]
  /\ memory \in [Sets -> {"unborn", "live", "freed"}]
  /\ refCount \in [Sets -> Nat]
  /\ errCount \in [Sets -> Nat]
  /\ owned \in [Sets -> BOOLEAN]
  /\ firing \in [Sets -> BOOLEAN]
  /\ seen \in [Sets -> Nat]

Members(s) == {e \in Events : host[e] = s}
Holders(s) == {e \in Members(s) : stage[e] \in Holding}
Failures(s) == {e \in Members(s) : failed[e]}
Firers(s) == {e \in Members(s) : stage[e] = "fire"}

\* No step of a finish, and no call of the creator, touches a set that has been
\* freed: lock, err_count, ref_count and cmd are only used while it is live
\* (async.c:149-184; ChangeLog 0.4.3 records a race in exactly this code).
SetOutlivesUse ==
  /\ \A e \in Events :
       host[e] # Nothing /\ stage[e] \in Holding \cup {"fire"} => memory[host[e]] = "live"
  /\ \A s \in Sets : owned[s] \/ firing[s] => memory[s] = "live"

\* A set whose references are all gone is being fired by exactly one party,
\* and no set fires while a reference is held: not two frees, not none.
OneFires ==
  \A s \in Sets :
    /\ \A e, f \in Firers(s) : e = f
    /\ firing[s] => Firers(s) = {}
    /\ memory[s] = "live" =>
         (owned[s] \/ Holders(s) # {} <=> Firers(s) = {} /\ ~firing[s])

\* When the command of a set has run, the creator and every event that joined
\* have released the set, and the err_count the command read is the number of
\* the events that failed (msg.c:1430 and others branch on it).
ReportIsExact ==
  \A s \in Sets :
    memory[s] = "freed" =>
      /\ ~owned[s] /\ Holders(s) = {}
      /\ seen[s] = Cardinality(Failures(s))

\* "if event is finished ,cmd would triggerd" (async.h:84).  Spec has nobody add a
\* command to an event that is finishing; AnyThreadSpec has, and loses it.
FinishedRunsCommands == \A e \in Events : stage[e] = "freed" => cmd[e] = << >>

\* An event that another one was chained to is finished inside the finish of the
\* last event chained to it, with that event's result, and is gone before its
\* caller is (on_chain, async.c:215-240).
ChainFinishesCalled ==
  \A called \in Events :
    LET caller == chained[called] IN
      caller # Nothing =>
        /\ stage[called] # "pending" => failed[called] = failed[caller]
        /\ stage[called] \notin {"pending", "freed"} => stage[caller] = "cmd"
        /\ stage[caller] \notin {"pending", "cmd"} => stage[called] = "freed"

\* Every set that was created is fired and freed once its creator lets go.
SetEventuallyFires == \A s \in Sets : memory[s] = "live" ~> memory[s] = "freed"

\* Every event that was handed out is finished and freed, also one that waits for
\* another and was chained anew: the retry that takes it over cancels the commands
\* that would have finished it, and has to bring its own (async.c:221-231).
EventEventuallyFreed == \A e \in Events : stage[e] = "pending" ~> stage[e] = "freed"

\* The set's promise, without its reference count: an event has completed when
\* it has dropped its reference, the group is closed when the creator has.
Phase(s) ==
  CASE memory[s] = "unborn" -> "unborn"
    [] memory[s] = "freed" -> "reported"
    [] OTHER -> IF owned[s] THEN "open" ELSE "closed"

Released(s) == Members(s) \ Holders(s)
ReleasedFailures(s) == Failures(s) \ Holders(s)

Joint == INSTANCE JointCompletion WITH
  Jobs <- Events,
  Groups <- Sets,
  phase <- [s \in Sets |-> Phase(s)],
  joined <- [s \in Sets |-> Members(s)],
  completed <- [s \in Sets |-> Released(s)],
  failures <- [s \in Sets |-> ReleasedFailures(s)],
  report <- seen

\* An event set implements the joint completion of JointCompletion: what an event
\* joins before the creator lets go is waited for, and nothing is reported twice.
ImplementsJoint == Joint!Spec
==============================================================================
