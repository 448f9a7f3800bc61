------------------------------ MODULE RowStore ------------------------------
(***************************************************************************)
(* What the user database promises: a map from QQ numbers to what is known *)
(* of their owners, in which a call either happened or did not, and where  *)
(* a batch is kept as a whole by a commit or lost as a whole.              *)
(***************************************************************************)
CONSTANTS
  Keys,     \* the QQ numbers
  Holders,  \* the objects of the client that are filled from the map
  Data,     \* what is kept for a number
  Nothing   \* nothing is known

VARIABLES
  durable,  \* [Keys -> Data \cup {Nothing}], what a crash leaves
  view,     \* [Keys -> Data \cup {Nothing}], what a query sees
  batch,    \* BOOLEAN, a batch is open
  held,     \* [Holders -> Data \cup {Nothing}], the client's own copies
  told      \* BOOLEAN, the last change of a copy was not a query's

vars == <<durable, view, batch, held, told>>

Empty == [k \in Keys |-> Nothing]

Init ==
  /\ durable = Empty /\ view = Empty
  /\ batch = FALSE
  /\ held = [h \in Holders |-> Nothing]
  /\ told = FALSE

\* Outside a batch a change is durable at once.
Store(new) ==
  /\ view' = new
  /\ durable' = IF batch THEN durable ELSE new
  /\ batch' = batch

\* What a holder knows, or that it knows nothing, is written under a number.
Put(k, h) ==
  /\ Store([view EXCEPT ![k] = held[h]])
  /\ UNCHANGED <<held, told>>

Forget(gone) ==
  /\ Store([k \in Keys |-> IF k \in gone THEN Nothing ELSE view[k]])
  /\ UNCHANGED <<held, told>>

Begin == batch' = TRUE /\ UNCHANGED <<durable, view, held, told>>

Commit == durable' = view /\ batch' = FALSE /\ UNCHANGED <<view, held, told>>

\* The end of a session, in whatever way: an open batch is lost.
End ==
  /\ view' = durable
  /\ batch' = FALSE
  /\ durable' = durable
  /\ held' = [h \in Holders |-> Nothing]
  /\ told' = FALSE

\* A database of another version is replaced by an empty one.
Replace ==
  /\ durable' = Empty /\ view' = Empty
  /\ UNCHANGED <<batch, held, told>>

Read(k, h) ==
  /\ view[k] # Nothing
  /\ held' = [held EXCEPT ![h] = view[k]]
  /\ told' = FALSE
  /\ UNCHANGED <<durable, view, batch>>

\* The server tells more about a holder: nothing else changes a copy, but a query.
Learn(h) ==
  /\ \E d \in Data : held' = [held EXCEPT ![h] = d]
  /\ told' = TRUE
  /\ UNCHANGED <<durable, view, batch>>

Next ==
  \/ \E k \in Keys, h \in Holders : Put(k, h) \/ Read(k, h)
  \/ \E gone \in SUBSET Keys : Forget(gone)
  \/ \E h \in Holders : Learn(h)
  \/ Begin \/ Commit \/ End \/ Replace

Spec == Init /\ [][Next]_vars
==============================================================================
