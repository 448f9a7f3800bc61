--------------------------- MODULE JointCompletion ---------------------------
(***************************************************************************)
(* What an event set promises its user (lib/async.h:10-33), free of locks, *)
(* counters and threads: a group is opened, jobs join it while it is open, *)
(* every job completes once with or without an error, the owner closes the *)
(* group, and the group reports exactly once, after everything that joined *)
(* it has completed, with the number of jobs that failed.                  *)
(***************************************************************************)
EXTENDS Naturals, FiniteSets

CONSTANTS Jobs, Groups

VARIABLES
  phase,      \* [Groups -> {"unborn", "open", "closed", "reported"}]
  joined,     \* [Groups -> SUBSET Jobs]
  completed,  \* [Groups -> SUBSET Jobs], a subset of joined
  failures,   \* [Groups -> SUBSET Jobs], the completed jobs that failed
  report      \* [Groups -> Nat], the number of failures handed to the callback

vars == <<phase, joined, completed, failures, report>>

Init ==
  /\ phase = [g \in Groups |-> "unborn"]
  /\ joined = [g \in Groups |-> {}]
  /\ completed = [g \in Groups |-> {}]
  /\ failures = [g \in Groups |-> {}]
  /\ report = [g \in Groups |-> 0]

Open(g) ==
  /\ phase[g] = "unborn"
  /\ phase' = [phase EXCEPT ![g] = "open"]
  /\ UNCHANGED <<joined, completed, failures, report>>

\* A job joins at most one group.
Join(g, j) ==
  /\ phase[g] = "open"
  /\ \A h \in Groups : j \notin joined[h]
  /\ joined' = [joined EXCEPT ![g] = @ \cup {j}]
  /\ UNCHANGED <<phase, completed, failures, report>>

Complete(g, j) ==
  /\ j \in joined[g] \ completed[g]
  /\ completed' = [completed EXCEPT ![g] = @ \cup {j}]
  /\ \/ failures' = [failures EXCEPT ![g] = @ \cup {j}]
     \/ UNCHANGED failures
  /\ UNCHANGED <<phase, joined, report>>

Close(g) ==
  /\ phase[g] = "open"
  /\ phase' = [phase EXCEPT ![g] = "closed"]
  /\ UNCHANGED <<joined, completed, failures, report>>

Report(g) ==
  /\ phase[g] = "closed"
  /\ completed[g] = joined[g]
  /\ phase' = [phase EXCEPT ![g] = "reported"]
  /\ report' = [report EXCEPT ![g] = Cardinality(failures[g])]
  /\ UNCHANGED <<joined, completed, failures>>

Next ==
  \E g \in Groups :
    \/ Open(g)
    \/ Close(g)
    \/ Report(g)
    \/ \E j \in Jobs : Join(g, j) \/ Complete(g, j)

Spec == Init /\ [][Next]_vars
==============================================================================
