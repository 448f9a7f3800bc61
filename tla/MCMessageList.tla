----------------------------- MODULE MCMessageList -----------------------------
(* Three messages of a group and one of a friend for TLC. *)
EXTENDS MessageList

CONSTANTS m1, m2, m3, f1, group, friend

MCFrom == [m \in Messages |-> IF m = f1 THEN friend ELSE group]

Assign(a, b, c, d) ==
  [m \in Messages |-> CASE m = m1 -> a [] m = m2 -> b [] m = m3 -> c [] m = f1 -> d]

MCGroupSeq == Assign(1, 2, 3, 1)

\* The friend's message has a number of its own or that of one of the group's, and the
\* group's follow its seq or do not.
MCNumberings == {Assign(1, 2, 4, 3), Assign(1, 2, 3, 2), Assign(3, 1, 2, 3)}
==============================================================================
