--------------------------- MODULE ContactsProofs ----------------------------
(***************************************************************************)
(* Proofs about Contacts, for any keys and any number of messages,         *)
(* objects, loads and quits.                                               *)
(*                                                                         *)
(* The inductive invariant follows every object: a list has it, a message  *)
(* that has still to list it, or a message that took it out, and only one  *)
(* of them; and it follows the news, because a contact whose news is still *)
(* to be read need not be listed yet.                                      *)
(***************************************************************************)
EXTENDS Contacts, FiniteSetTheorems, SequenceTheorems, WellFoundedInduction, TLAPS

\* Who holds an object: a message that waits to list it, a message that removed it, a list.
Waiting(m, h) == message[m].makes /\ message[m].object = h /\ message[m].at = "waiting"
Removing(m, h) == message[m].what = "out" /\ message[m].object = h /\ message[m].at /= "read"
Listed(h) == \E kind \in Kinds : h \in Range(lists[kind])

\* The groups that left the account by a quit and are still listed.
Left == {quits[q].group : q \in {x \in DOMAIN quits : quits[x].at = "left"}}

\* The values of the variables; which of the objects, messages and quits they name is below.
Stories == {"talk", "picture", "in", "out"}
Messages == [what : {"talk", "in", "out"}, object : Nat, makes : BOOLEAN,
             waits : SUBSET Lookup, at : {"waiting", "listed", "read"}]
Quits == [group : Nat, at : {"server", "left", "failed", "answered"}]
Shaped ==
  /\ contact \subseteq Keys
  /\ news \in Seq([about : Keys, what : Stories])
  /\ load \in [Kinds -> {"none", "sent", "done"}]
  /\ snapshot \in [Kinds -> SUBSET Keys]
  /\ \A kind \in Kinds : snapshot[kind] \subseteq OfKind(kind)
  /\ key \in Seq(Keys)
  /\ lists \in [Kinds -> Seq(Nat)]
  /\ message \in Seq(Messages)
  /\ inbox \in Seq(Nat)
  /\ quits \in Seq(Quits)

\* Only objects that were made are listed, freed, held or quit; a list has one kind.
Made ==
  /\ freed \subseteq Objects
  /\ \A kind \in Kinds : \A h \in Range(lists[kind]) : h \in Objects /\ Kind(key[h]) = kind
  /\ \A m \in DOMAIN message :
       /\ message[m].object \in Objects \cup {0}
       /\ message[m].what = "talk" /\ message[m].at /= "read" => message[m].object /= 0
       /\ message[m].makes => message[m].what = "talk"
  /\ BeingQuit \subseteq Objects

\* No list has an object twice.
ListedOnce == \A kind \in Kinds : IsInjective(lists[kind])

\* An object that waits to be listed is known to its message only.
Unseen ==
  \A m \in DOMAIN message : \A h \in Objects : Waiting(m, h) =>
    /\ ~Listed(h) /\ h \notin freed /\ h \notin BeingQuit
    /\ \A x \in DOMAIN message : message[x].object = h => x = m

\* An object that a message removed is in no list, and no second message removed it.
RemovedOnce ==
  \A m \in DOMAIN message : \A h \in Objects \ BeingQuit : Removing(m, h) =>
    /\ ~Listed(h) /\ h \notin freed
    /\ \A x \in DOMAIN message : Removing(x, h) => x = m

FreedGone == \A h \in freed \ BeingQuit : ~Listed(h)

\* No object is lost.
Somewhere ==
  \A h \in Objects \ BeingQuit :
    h \in freed \/ Listed(h) \/ \E m \in DOMAIN message : Waiting(m, h) \/ Removing(m, h)

\* The message list has no message twice, and none that waits or was read.
InboxReady ==
  /\ IsInjective(inbox)
  /\ \A i \in DOMAIN inbox :
       inbox[i] \in DOMAIN message /\ message[inbox[i]].at = "listed"

\* News that a contact has gone is followed by news that he is back.
BackAgain ==
  \A k \in contact \ Discus : \A i \in DOMAIN news :
    news[i].about = k /\ news[i].what = "out"
    => \E j \in DOMAIN news : j > i /\ news[j].about = k /\ news[j].what = "in"

\* A contact is listed as an object that no quit will unlist.
Stays(k) == \E h \in Range(lists[Kind(k)]) : key[h] = k /\ h \notin Left
NoNews(k) == \A i \in DOMAIN news : news[i].about = k => news[i].what \in {"talk", "picture"}
InSight ==
  \A k \in contact \ Discus :
    NoNews(k) =>
      /\ load[Kind(k)] = "done" => Stays(k)
      /\ load[Kind(k)] = "sent" => k \in snapshot[Kind(k)] \/ Stays(k)

\* Every object has one owner, or was freed.
Owned == Made /\ ListedOnce /\ Unseen /\ RemovedOnce /\ FreedGone /\ Somewhere

IInv == Shaped /\ Owned /\ InboxReady /\ BackAgain /\ InSight
------------------------------------------------------------------------------
(* Lists: what is found in them, put in front of them and taken out. *)

LEMMA MinOfNumbers ==
  ASSUME NEW S \in SUBSET Nat, S /= {}
  PROVE  Min(S) \in S /\ \A y \in S : Min(S) <= y
<1> DEFINE Numbers == {k \in Nat : k \in S}
<1>0. Numbers \subseteq Nat /\ Numbers # {} /\ Numbers = S
  OBVIOUS
<1> HIDE DEF Numbers
<1>1. PICK k \in Numbers : \A j \in Numbers : ~(<<j, k>> \in OpToRel(<, Nat))
  BY <1>0, WFMin, NatLessThanWellFounded
<1>2. \A j \in S : k <= j
  <2>1. TAKE j \in S
  <2>2. k \in Nat /\ j \in Nat /\ j \in Numbers
    BY <1>0
  <2>3. ~(j < k)
    BY <1>1, <2>2 DEF OpToRel
  <2> QED
    BY <2>2, <2>3
<1> QED
  BY <1>0, <1>2 DEF Min

\* What is found has the key, and something is found where something has it.
LEMMA Found ==
  ASSUME NEW s \in Seq(Nat), NEW k
  PROVE  /\ \A h \in Range(s) : key[h] = k => FoundIn(s, k) \in Range(s)
         /\ FoundIn(s, k) = 0 \/ (FoundIn(s, k) \in Range(s) /\ key[FoundIn(s, k)] = k)
<1> DEFINE I == {i \in 1 .. Len(s) : key[s[i]] = k}
           at == SelectInSeq(s, LAMBDA h : key[h] = k)
<1>1. at = IF I /= {} THEN Min(I) ELSE 0
  BY DEF SelectInSeq
<1>2. I /= {} => Min(I) \in I
  <2>1. I \in SUBSET Nat
    OBVIOUS
  <2> HIDE DEF I
  <2> QED
    BY <2>1, MinOfNumbers
<1>3. FoundIn(s, k) = IF at = 0 THEN 0 ELSE s[at]
  BY DEF FoundIn
<1> HIDE DEF at
<1>4. CASE I = {}
  <2>1. FoundIn(s, k) = 0
    BY <1>1, <1>3, <1>4
  <2>2. \A h \in Range(s) : key[h] /= k
    BY <1>4 DEF Range
  <2> QED
    BY <2>1, <2>2
<1>5. CASE I /= {}
  <2>1. at \in I /\ FoundIn(s, k) = s[at]
    BY <1>1, <1>2, <1>3, <1>5
  <2> QED
    BY <2>1 DEF Range
<1> QED
  BY <1>4, <1>5

\* A list from which an element is taken has the others, in their order.
LEMMA Taken ==
  ASSUME NEW s \in Seq(Nat), IsInjective(s), NEW h
  PROVE  /\ RemoveFirst(s, h) \in Seq(Nat) /\ IsInjective(RemoveFirst(s, h))
         /\ Range(RemoveFirst(s, h)) = Range(s) \ {h}
<1>0. DOMAIN s = 1 .. Len(s) /\ Len(s) \in Nat
  OBVIOUS
<1>1. CASE \A i \in 1 .. Len(s) : s[i] /= h
  BY <1>0, <1>1 DEF RemoveFirst, Range
<1>2. CASE \E i \in 1 .. Len(s) : s[i] = h
  <2> DEFINE I == {i \in 1 .. Len(s) : s[i] = h}
             at == SelectInSeq(s, LAMBDA v : v = h)
             front == SubSeq(s, 1, at - 1)
             back == SubSeq(s, at + 1, Len(s))
             t == front \o back
  <2>1. at = IF I /= {} THEN Min(I) ELSE 0
    BY DEF SelectInSeq
  <2>2. at \in 1 .. Len(s) /\ s[at] = h
    <3>1. I \in SUBSET Nat /\ I /= {}
      BY <1>2
    <3> HIDE DEF I
    <3>2. at \in I
      BY <2>1, <3>1, MinOfNumbers
    <3> QED
      BY <3>2 DEF I
  <2>3. RemoveFirst(s, h) = t
    BY <1>2 DEF RemoveFirst, RemoveAt
  <2> HIDE DEF at
  <2>4. /\ front \in Seq(Nat) /\ Len(front) = at - 1
        /\ \A j \in 1 .. at - 1 : front[j] = s[j]
    BY <2>2
  <2>5. /\ back \in Seq(Nat) /\ Len(back) = Len(s) - at
        /\ \A j \in 1 .. Len(s) - at : back[j] = s[at + j]
    BY <2>2
  <2> HIDE DEF front, back
  <2>6. /\ t \in Seq(Nat) /\ Len(t) = Len(front) + Len(back)
        /\ \A j \in 1 .. Len(front) + Len(back) :
             t[j] = IF j <= Len(front) THEN front[j] ELSE back[j - Len(front)]
    BY <2>4, <2>5, ConcatProperties
  <2> HIDE DEF t
  <2>7. t \in Seq(Nat) /\ DOMAIN t = 1 .. Len(s) - 1
    BY <1>0, <2>2, <2>4, <2>5, <2>6
  <2>8. \A j \in 1 .. Len(s) - 1 : t[j] = IF j < at THEN s[j] ELSE s[j + 1]
    <3>1. TAKE j \in 1 .. Len(s) - 1
    <3>2. j \in 1 .. Len(front) + Len(back)
      BY <1>0, <2>2, <2>4, <2>5
    <3>3. CASE j < at
      <4>1. j \in 1 .. at - 1 /\ j <= Len(front)
        BY <3>3, <2>2, <2>4
      <4> QED
        BY <4>1, <3>2, <3>3, <2>4, <2>6
    <3>4. CASE ~(j < at)
      <4>1. ~(j <= Len(front)) /\ j - Len(front) = j - at + 1
        BY <3>4, <2>2, <2>4
      <4>2. j - at + 1 \in 1 .. Len(s) - at /\ at + (j - at + 1) = j + 1
        BY <3>4, <2>2, <1>0
      <4> QED
        BY <4>1, <4>2, <3>2, <3>4, <2>5, <2>6
    <3> QED
      BY <3>3, <3>4
  <2>9. IsInjective(t)
    <3> SUFFICES ASSUME NEW a \in 1 .. Len(s) - 1, NEW b \in 1 .. Len(s) - 1, t[a] = t[b]
                 PROVE  a = b
      BY <2>7 DEF IsInjective
    <3>1. \A i, j \in 1 .. Len(s) : s[i] = s[j] => i = j
      BY <1>0 DEF IsInjective
    <3>2. /\ a \in 1 .. Len(s) /\ a + 1 \in 1 .. Len(s) /\ b \in 1 .. Len(s) /\ b + 1 \in 1 .. Len(s)
      BY <1>0
    <3> QED
      BY <2>2, <2>8, <3>1, <3>2
  <2>10. \A i \in DOMAIN s : s[i] /= h => \E j \in DOMAIN t : t[j] = s[i]
    <3>1. TAKE i \in DOMAIN s
    <3>2. HAVE s[i] /= h
    <3>3. CASE i < at
      <4>1. i \in 1 .. Len(s) - 1
        BY <3>3, <1>0, <2>2
      <4> QED
        BY <4>1, <3>3, <2>7, <2>8
    <3>4. CASE ~(i < at)
      <4>1. i - 1 \in 1 .. Len(s) - 1 /\ ~(i - 1 < at) /\ (i - 1) + 1 = i
        BY <3>2, <3>4, <1>0, <2>2
      <4> QED
        BY <4>1, <2>7, <2>8
    <3> QED
      BY <3>3, <3>4
  <2>11. \A j \in DOMAIN t : t[j] /= h /\ \E i \in DOMAIN s : t[j] = s[i]
    <3>1. TAKE j \in DOMAIN t
    <3>2. \A i \in 1 .. Len(s) : s[i] = h => i = at
      BY <1>0, <2>2 DEF IsInjective
    <3>3. j \in 1 .. Len(s) /\ j + 1 \in 1 .. Len(s) /\ at \in Nat
      <4>1. j \in 1 .. Len(s) - 1
        BY <2>7
      <4> QED
        BY <4>1, <1>0, <2>2
    <3>4. t[j] = IF j < at THEN s[j] ELSE s[j + 1]
      BY <2>7, <2>8
    <3>5. \E i \in 1 .. Len(s) : i /= at /\ t[j] = s[i]
      BY <3>3, <3>4
    <3> QED
      BY <1>0, <3>2, <3>5
  <2>12. Range(t) = Range(s) \ {h}
    BY <2>10, <2>11 DEF Range
  <2> QED
    BY <2>3, <2>7, <2>9, <2>12
<1> QED
  BY <1>1, <1>2

\* Sequences put together, where no element is in both.
LEMMA Joint ==
  ASSUME NEW s \in Seq(Nat), NEW t \in Seq(Nat)
  PROVE  /\ t \o s \in Seq(Nat) /\ Range(t \o s) = Range(t) \cup Range(s)
         /\ IsInjective(s) /\ IsInjective(t) /\ Range(s) \cap Range(t) = {}
            => IsInjective(t \o s)
<1> DEFINE c == t \o s
           n == Len(t)
<1>1. /\ c \in Seq(Nat) /\ Len(c) = n + Len(s)
      /\ \A j \in 1 .. n + Len(s) : c[j] = IF j <= n THEN t[j] ELSE s[j - n]
  BY ConcatProperties
<1>2. /\ n \in Nat /\ DOMAIN t = 1 .. n /\ Len(s) \in Nat /\ DOMAIN s = 1 .. Len(s)
  OBVIOUS
<1> HIDE DEF c, n
<1>3. DOMAIN c = 1 .. n + Len(s)
  BY <1>1, <1>2
<1>4. \A j \in DOMAIN c : \/ j \in DOMAIN t /\ c[j] = t[j]
                          \/ j - n \in DOMAIN s /\ c[j] = s[j - n]
  BY <1>1, <1>2, <1>3
<1>5. /\ \A i \in DOMAIN t : i \in DOMAIN c /\ c[i] = t[i]
      /\ \A i \in DOMAIN s : i + n \in DOMAIN c /\ c[i + n] = s[i]
  <2>1. \A i \in DOMAIN t : i \in DOMAIN c /\ c[i] = t[i]
    BY <1>1, <1>2, <1>3
  <2>2. ASSUME NEW i \in DOMAIN s PROVE i + n \in DOMAIN c /\ c[i + n] = s[i]
    <3>1. i + n \in 1 .. n + Len(s) /\ ~(i + n <= n) /\ (i + n) - n = i
      BY <1>2
    <3> QED
      BY <3>1, <1>1, <1>3
  <2> QED
    BY <2>1, <2>2
<1>6. Range(c) = Range(t) \cup Range(s)
  BY <1>4, <1>5 DEF Range
<1>7. ASSUME IsInjective(s), IsInjective(t), Range(s) \cap Range(t) = {}
      PROVE  IsInjective(c)
  <2> SUFFICES ASSUME NEW a \in DOMAIN c, NEW b \in DOMAIN c, c[a] = c[b] PROVE a = b
    BY DEF IsInjective
  <2>1. a \in Int /\ b \in Int
    BY <1>3
  <2>2. CASE a \in DOMAIN t /\ c[a] = t[a]
    <3>1. b \in DOMAIN t /\ c[b] = t[b]
      BY <2>2, <1>4, <1>7 DEF Range
    <3> QED
      BY <2>2, <3>1, <1>7 DEF IsInjective
  <2>3. CASE a - n \in DOMAIN s /\ c[a] = s[a - n]
    <3>1. b - n \in DOMAIN s /\ c[b] = s[b - n]
      BY <2>3, <1>4, <1>7 DEF Range
    <3>2. a - n = b - n
      BY <2>3, <3>1, <1>7 DEF IsInjective
    <3> QED
      BY <2>1, <3>2, <1>2
  <2> QED
    BY <2>2, <2>3, <1>4
<1> QED
  BY <1>1, <1>6, <1>7 DEF c

LEMMA InFront ==
  ASSUME NEW s \in Seq(Nat), IsInjective(s), NEW h \in Nat \ Range(s)
  PROVE  /\ <<h>> \o s \in Seq(Nat) /\ IsInjective(<<h>> \o s)
         /\ Range(<<h>> \o s) = Range(s) \cup {h}
<1> DEFINE t == <<h>>
<1>1. t \in Seq(Nat) /\ DOMAIN t = {1} /\ t[1] = h
  OBVIOUS
<1> HIDE DEF t
<1>2. Range(t) = {h} /\ IsInjective(t)
  BY <1>1 DEF Range, IsInjective
<1> QED
  <2>1. Range(s) \cap Range(t) = {}
    BY <1>2
  <2>2. t \o s \in Seq(Nat) /\ Range(t \o s) = Range(t) \cup Range(s) /\ IsInjective(t \o s)
    BY <1>1, <1>2, <2>1, Joint
  <2> QED
    BY <1>2, <2>2 DEF t

\* A finite set as a sequence.
LEMMA AsSequence ==
  ASSUME NEW S, IsFiniteSet(S)
  PROVE  SetToSeq(S) \in Seq(S) /\ Range(SetToSeq(S)) = S
<1> DEFINE n == Cardinality(S)
<1>1. n \in Nat /\ ExistsBijection(1 .. n, S)
  BY FS_CardinalityType
<1> HIDE DEF n
<1>2. PICK f \in [1 .. n -> S] : IsInjective(f)
  BY <1>1 DEF ExistsBijection, Bijection, Injection, IsInjective
<1>3. SetToSeq(S) \in [1 .. n -> S] /\ IsInjective(SetToSeq(S))
  BY <1>2 DEF SetToSeq, n
<1> DEFINE g == SetToSeq(S)
<1> HIDE DEF g
<1>4. g \in [1 .. n -> S] /\ IsInjective(g)
  BY <1>3 DEF g
<1>5. g \in Seq(S)
  BY <1>1, <1>4
<1>6. Range(g) \subseteq S
  BY <1>4 DEF Range
<1>7. IsFiniteSet(Range(g)) /\ Cardinality(Range(g)) = n
  <2>1. g \in Bijection(1 .. n, Range(g))
    BY <1>4 DEF Bijection, Injection, Surjection, IsInjective, Range
  <2>2. ExistsBijection(1 .. n, Range(g))
    BY <2>1 DEF ExistsBijection
  <2> QED
    <3>1. \A m \in Nat : \A T : ExistsBijection(1 .. m, T) => IsFiniteSet(T) /\ Cardinality(T) = m
      BY FS_CountingElements, FS_NatBijection
    <3> QED
      BY <2>2, <1>1, <3>1
<1>8. Range(g) = S
  BY <1>6, <1>7, FS_Subset, FS_CardinalityType DEF n
<1> QED
  BY <1>5, <1>8 DEF g

\* t is s with x at p: the new element moves those behind it by one place.
IsInsertion(t, s, p, x) ==
  /\ DOMAIN t = 1 .. Len(s) + 1
  /\ \A j \in 1 .. Len(s) + 1 : t[j] = IF j < p THEN s[j] ELSE IF j = p THEN x ELSE s[j - 1]

LEMMA InsertedAt ==
  ASSUME NEW s \in Seq(Nat), NEW p \in 1 .. Len(s) + 1, NEW x \in Nat
  PROVE  InsertAt(s, p, x) \in Seq(Nat) /\ IsInsertion(InsertAt(s, p, x), s, p, x)
<1> DEFINE front == SubSeq(s, 1, p - 1)
           back == SubSeq(s, p, Len(s))
<1>1. /\ front \in Seq(Nat) /\ Len(front) = p - 1
      /\ \A j \in 1 .. p - 1 : front[j] = s[j]
  OBVIOUS
<1>2. /\ back \in Seq(Nat) /\ Len(back) = Len(s) + 1 - p
      /\ \A j \in 1 .. Len(s) + 1 - p : back[j] = s[p + j - 1]
  OBVIOUS
<1>3. InsertAt(s, p, x) = front \o <<x>> \o back
  BY DEF InsertAt
<1> HIDE DEF front, back
<1>4. /\ front \o <<x>> \in Seq(Nat) /\ Len(front \o <<x>>) = p
      /\ \A j \in 1 .. p : (front \o <<x>>)[j] = IF j < p THEN s[j] ELSE x
  <2>1. p \in Nat /\ front \o <<x>> = Append(front, x)
    BY <1>1
  <2> QED
    BY <2>1, <1>1
<1> DEFINE most == front \o <<x>>
<1> HIDE DEF most
<1>5. /\ most \in Seq(Nat) /\ Len(most) = p
      /\ \A j \in 1 .. p : most[j] = IF j < p THEN s[j] ELSE x
  BY <1>4 DEF most
<1>6. InsertAt(s, p, x) = most \o back
  BY <1>3 DEF most
<1>7. /\ most \o back \in Seq(Nat) /\ Len(most \o back) = Len(s) + 1
      /\ \A j \in 1 .. Len(s) + 1 : (most \o back)[j] = IF j <= p THEN most[j] ELSE back[j - p]
  <2>1. Len(most) + Len(back) = Len(s) + 1 /\ Len(s) \in Nat
    BY <1>2, <1>5
  <2>2. /\ most \o back \in Seq(Nat) /\ Len(most \o back) = Len(most) + Len(back)
        /\ \A j \in 1 .. Len(most) + Len(back) :
             (most \o back)[j] = IF j <= Len(most) THEN most[j] ELSE back[j - Len(most)]
    BY <1>2, <1>5, ConcatProperties
  <2> QED
    BY <2>1, <2>2, <1>5
<1>8. ASSUME NEW j \in 1 .. Len(s) + 1
      PROVE  (most \o back)[j] = IF j < p THEN s[j] ELSE IF j = p THEN x ELSE s[j - 1]
  <2>0. j \in Int /\ p \in Int
    OBVIOUS
  <2>1. CASE j <= p
    BY <2>1, <1>5, <1>7
  <2>2. CASE j > p
    <3>1. j - p \in 1 .. Len(s) + 1 - p /\ p + (j - p) - 1 = j - 1
      BY <2>2
    <3>2. (most \o back)[j] = back[j - p] /\ back[j - p] = s[j - 1]
      <4>1. j \in 1 .. Len(s) + 1 /\ ~(j <= p)
        BY <2>0, <2>2
      <4>2. (most \o back)[j] = back[j - p]
        BY <4>1, <1>7
      <4>3. back[j - p] = s[p + (j - p) - 1]
        BY <3>1, <1>2
      <4> QED
        BY <4>2, <4>3, <3>1
    <3> QED
      BY <2>0, <2>2, <3>2
  <2>3. j <= p \/ j > p
    BY <2>0
  <2> QED
    BY <2>1, <2>2, <2>3, Zenon
<1>9. DOMAIN (most \o back) = 1 .. Len(s) + 1
  BY <1>7
<1> QED
  BY <1>6, <1>7, <1>8, <1>9 DEF IsInsertion

\* A number that is put into a list where it was not.
LEMMA PutIn ==
  ASSUME NEW s \in Seq(Nat), IsInjective(s), NEW x \in Nat \ Range(s), NEW p \in 1 .. Len(s) + 1
  PROVE  /\ InsertAt(s, p, x) \in Seq(Nat) /\ IsInjective(InsertAt(s, p, x))
         /\ \A j \in DOMAIN InsertAt(s, p, x) : InsertAt(s, p, x)[j] \in Range(s) \cup {x}
<1> DEFINE t == InsertAt(s, p, x)
<1>0. s \in Seq(Nat) /\ x \in Nat /\ p \in 1 .. Len(s) + 1
  OBVIOUS
<1>1. t \in Seq(Nat) /\ IsInsertion(t, s, p, x)
  BY <1>0, InsertedAt
<1> HIDE DEF t
<1>2. /\ \A j \in 1 .. Len(s) + 1 : t[j] = IF j < p THEN s[j] ELSE IF j = p THEN x ELSE s[j - 1]
      /\ DOMAIN t = 1 .. Len(s) + 1 /\ DOMAIN s = 1 .. Len(s) /\ Len(s) \in Nat /\ p \in Nat
  BY <1>1 DEF IsInsertion
<1>3. \A j \in DOMAIN t : /\ j < p => j \in DOMAIN s /\ t[j] = s[j]
                          /\ j = p => t[j] = x
                          /\ j > p => j - 1 \in DOMAIN s /\ t[j] = s[j - 1]
  <2>1. TAKE j \in DOMAIN t
  <2>2. /\ j \in 1 .. Len(s) + 1 /\ j \in Nat
        /\ t[j] = IF j < p THEN s[j] ELSE IF j = p THEN x ELSE s[j - 1]
    <3>1. j \in 1 .. Len(s) + 1
      BY <1>2
    <3>2. j \in Nat
      BY <3>1, <1>2
    <3> QED
      BY <3>1, <3>2, <1>2
  <2>3. (j < p => j \in DOMAIN s) /\ (j > p => j - 1 \in DOMAIN s)
    BY <1>2, <2>2
  <2> QED
    BY <1>2, <2>2, <2>3
<1>4. \A j \in DOMAIN t : t[j] \in Range(s) \cup {x} /\ (t[j] = x => j = p)
  <2>1. TAKE j \in DOMAIN t
  <2>2. j \in Nat /\ \A i \in DOMAIN s : s[i] /= x
    BY <1>2 DEF Range
  <2>3. CASE j < p
    BY <2>2, <2>3, <1>3 DEF Range
  <2>4. CASE j = p
    BY <2>4, <1>3
  <2>5. CASE j > p
    BY <2>2, <2>5, <1>3 DEF Range
  <2> QED
    BY <2>2, <2>3, <2>4, <2>5, <1>2
<1>5. ASSUME NEW a \in DOMAIN t, NEW b \in DOMAIN t, t[a] = t[b]
      PROVE  a = b
  <2>1. a \in Nat /\ b \in Nat /\ \A i, j \in DOMAIN s : s[i] = s[j] => i = j
    BY <1>2 DEF IsInjective
  <2>2. CASE a = p \/ b = p
    BY <2>2, <1>3, <1>4, <1>5
  <2>3. CASE a < p /\ b < p
    BY <2>1, <2>3, <1>3, <1>5
  <2>4. CASE a > p /\ b > p
    <3>1. a - 1 = b - 1
      BY <2>1, <2>4, <1>3, <1>5
    <3> QED
      BY <3>1, <2>1
  <2>5. CASE a < p /\ b > p
    <3>1. a = b - 1
      BY <2>1, <2>5, <1>3, <1>5
    <3> QED
      BY <3>1, <2>1, <2>5, <1>2
  <2>6. CASE a > p /\ b < p
    <3>1. b = a - 1
      BY <2>1, <2>6, <1>3, <1>5
    <3> QED
      BY <3>1, <2>1, <2>6, <1>2
  <2> QED
    BY <2>1, <2>2, <2>3, <2>4, <2>5, <2>6, <1>2
<1> QED
  BY <1>1, <1>4, <1>5 DEF t, IsInjective
------------------------------------------------------------------------------
(* What the operators of Contacts find, and steps that leave objects alone. *)

LEMMA KindOf ==
  ASSUME NEW k \in Keys
  PROVE  /\ Kind(k) \in Kinds /\ k \in OfKind(Kind(k))
         /\ Kind(k) = "buddy" <=> k \in Buddies
         /\ Kind(k) = "qun" <=> k \in Quns
         /\ Kind(k) = "discu" <=> k \in Discus
BY ContactsAssumption DEF Kind, Kinds, Keys, OfKind

LEMMA FindOne ==
  ASSUME Shaped, Made, NEW k \in Keys
  PROVE  /\ Find(k) = 0 \/ (Find(k) \in Range(lists[Kind(k)]) /\ key[Find(k)] = k)
         /\ \A h \in Range(lists[Kind(k)]) : key[h] = k => Find(k) /= 0
<1>1. /\ lists["buddy"] \in Seq(Nat) /\ lists["qun"] \in Seq(Nat) /\ lists["discu"] \in Seq(Nat)
  BY DEF Shaped, Kinds
<1>2. \A kind \in Kinds : \A h \in Range(lists[kind]) : h /= 0 /\ Kind(key[h]) = kind
  BY DEF Made, Objects
<1>3. CASE k \in Buddies
  <2>1. Find(k) = FoundIn(lists["buddy"], k) /\ Kind(k) = "buddy"
    BY <1>3, KindOf DEF Find, FindBuddyByUin
  <2>2. /\ \A h \in Range(lists["buddy"]) : key[h] = k => Find(k) \in Range(lists["buddy"])
        /\ Find(k) = 0 \/ (Find(k) \in Range(lists["buddy"]) /\ key[Find(k)] = k)
    BY <1>1, <2>1, Found
  <2> QED
    BY <1>2, <2>1, <2>2 DEF Kinds
<1>4. CASE k \notin Buddies
  <2> DEFINE s == lists["qun"] \o lists["discu"]
  <2>1. Find(k) = FoundIn(s, k) /\ Kind(k) \in {"qun", "discu"}
    BY <1>4, KindOf DEF Find, FindGroupByGid, Kinds
  <2>2. s \in Seq(Nat) /\ Range(s) = Range(lists["qun"]) \cup Range(lists["discu"])
    BY <1>1, Joint
  <2> HIDE DEF s
  <2>3. /\ \A h \in Range(s) : key[h] = k => Find(k) \in Range(s)
        /\ Find(k) = 0 \/ (Find(k) \in Range(s) /\ key[Find(k)] = k)
    BY <2>1, <2>2, Found
  <2> QED
    BY <1>2, <2>1, <2>2, <2>3 DEF Kinds
<1> QED
  BY <1>3, <1>4

\* Nobody gets or loses an object.
LEMMA OwnersKept ==
  ASSUME Owned, UNCHANGED objects, BeingQuit' = BeingQuit,
         DOMAIN message' = DOMAIN message,
         \A x \in DOMAIN message :
           /\ message'[x].what = message[x].what /\ message'[x].object = message[x].object
           /\ message'[x].makes = message[x].makes
           /\ message[x].makes => message'[x].at = message[x].at
           /\ message'[x].at = "read" <=> message[x].at = "read"
  PROVE  Owned'
<1>1. lists' = lists /\ freed' = freed /\ key' = key
  BY DEF objects
<1>3. \A h : Listed(h)' <=> Listed(h)
  BY <1>1 DEF Listed
<1>4. Made' /\ ListedOnce'
  BY <1>1 DEF Owned, Made, ListedOnce, Objects
<1>5. Unseen'
  <2> SUFFICES ASSUME NEW m \in DOMAIN message, NEW h \in Objects, Waiting(m, h)'
               PROVE  /\ ~Listed(h)' /\ h \notin freed /\ h \notin BeingQuit
                      /\ \A x \in DOMAIN message : message[x].object = h => x = m
    BY <1>1 DEF Unseen, Objects
  <2>1. Waiting(m, h)
    BY DEF Waiting
  <2>2. Listed(h)' <=> Listed(h)
    BY <1>1 DEF Listed
  <2> QED
    BY <2>1, <2>2 DEF Owned, Unseen
<1>6. RemovedOnce'
  <2> SUFFICES ASSUME NEW m \in DOMAIN message, NEW h \in Objects \ BeingQuit, Removing(m, h)'
               PROVE  /\ ~Listed(h)' /\ h \notin freed
                      /\ \A x \in DOMAIN message : Removing(x, h)' => x = m
    BY <1>1 DEF RemovedOnce, Objects
  <2>1. Removing(m, h) /\ \A x \in DOMAIN message : Removing(x, h)' => Removing(x, h)
    BY DEF Removing
  <2>2. Listed(h)' <=> Listed(h)
    BY <1>1 DEF Listed
  <2> QED
    BY <2>1, <2>2 DEF Owned, RemovedOnce
<1>7. FreedGone'
  BY <1>1, <1>3 DEF Owned, FreedGone
<1>8. Somewhere'
  <2> SUFFICES ASSUME NEW h \in Objects \ BeingQuit
               PROVE  h \in freed \/ Listed(h)' \/ \E m \in DOMAIN message : Waiting(m, h)' \/ Removing(m, h)'
    BY <1>1 DEF Somewhere, Objects
  <2>1. Listed(h)' <=> Listed(h)
    BY <1>1 DEF Listed
  <2>2. CASE h \in freed \/ Listed(h)
    BY <2>1, <2>2
  <2>3. CASE \E m \in DOMAIN message : Waiting(m, h) \/ Removing(m, h)
    <3>1. PICK m \in DOMAIN message : Waiting(m, h) \/ Removing(m, h)
      BY <2>3
    <3>2. Waiting(m, h)' \/ Removing(m, h)'
      BY <3>1 DEF Waiting, Removing
    <3> QED
      BY <3>2
  <2> QED
    BY <2>2, <2>3 DEF Owned, Somewhere
<1> QED
  BY <1>4, <1>5, <1>6, <1>7, <1>8 DEF Owned

LEMMA MessagesKept == UNCHANGED messages /\ InboxReady => InboxReady'
BY DEF messages, InboxReady

LEMMA LeftKept == UNCHANGED quits => BeingQuit' = BeingQuit /\ Left' = Left
BY DEF BeingQuit, Left

\* The server and what it told, the loads and who is in sight stay.
LEMMA SightKept ==
  ASSUME BackAgain, InSight, contact' = contact, news' = news,
         load' = load, snapshot' = snapshot, \A k \in contact \ Discus : Stays(k) => Stays(k)'
  PROVE  BackAgain' /\ InSight'
BY DEF BackAgain, InSight, NoNews

------------------------------------------------------------------------------
(* The server. *)

LEMMA ServerInv ==
  ASSUME IInv, OnlyServer
  PROVE  /\ Owned' /\ InboxReady'
         /\ \A k \in contact \ Discus : Stays(k) => Stays(k)'
         /\ load' = load /\ snapshot' = snapshot
         /\ contact' \subseteq Keys /\ news' \in Seq([about : Keys, what : Stories]) => Shaped'
<1>1. /\ objects' = objects /\ messages' = messages /\ quits' = quits
      /\ load' = load /\ snapshot' = snapshot
      /\ key' = key /\ freed' = freed /\ lists' = lists /\ message' = message /\ inbox' = inbox
  BY DEF OnlyServer, objects, messages, loads
<1>2. Owned'
  BY <1>1, OwnersKept, LeftKept DEF IInv
<1>3. InboxReady'
  BY <1>1, MessagesKept DEF IInv
<1>4. \A k \in contact \ Discus : Stays(k) => Stays(k)'
  BY <1>1, LeftKept DEF Stays
<1>5. contact' \subseteq Keys /\ news' \in Seq([about : Keys, what : Stories]) => Shaped'
  BY <1>1 DEF IInv, Shaped
<1> QED
  BY <1>1, <1>2, <1>3, <1>4, <1>5

\* One more piece of news.
LEMMA Told ==
  ASSUME Shaped, NEW k \in Keys, NEW what \in Stories, Tell(k, what)
  PROVE  /\ news' \in Seq([about : Keys, what : Stories])
         /\ DOMAIN news = 1 .. Len(news) /\ Len(news) \in Nat
         /\ DOMAIN news' = DOMAIN news \cup {Len(news) + 1}
         /\ \A i \in DOMAIN news : news'[i] = news[i]
         /\ news'[Len(news) + 1].about = k /\ news'[Len(news) + 1].what = what
<1> DEFINE n == [about |-> k, what |-> what]
<1>1. n \in [about : Keys, what : Stories] /\ n.about = k /\ n.what = what
  OBVIOUS
<1>2. news' = Append(news, n) /\ news \in Seq([about : Keys, what : Stories])
  BY DEF Tell, Shaped
<1> HIDE DEF n
<1> QED
  BY <1>1, <1>2

LEMMA ServerAddsInv ==
  ASSUME IInv, NEW k \in Keys, ServerAdds(k)
  PROVE  IInv'
<1>1. /\ Owned' /\ InboxReady' /\ \A c \in contact \ Discus : Stays(c) => Stays(c)'
      /\ load' = load /\ snapshot' = snapshot
      /\ contact' \subseteq Keys /\ news' \in Seq([about : Keys, what : Stories]) => Shaped'
  BY ServerInv DEF ServerAdds
<1>2. contact' = contact \cup {k} /\ contact' \subseteq Keys
  BY DEF ServerAdds, IInv, Shaped
<1>3. CASE Kind(k) /= "discu" /\ Tell(k, "in")
  <2> DEFINE n == Len(news) + 1
  <2>1. /\ news' \in Seq([about : Keys, what : Stories])
        /\ DOMAIN news = 1 .. Len(news) /\ Len(news) \in Nat
        /\ DOMAIN news' = DOMAIN news \cup {n} /\ \A i \in DOMAIN news : news'[i] = news[i]
        /\ news'[n].about = k /\ news'[n].what = "in"
    BY <1>3, Told DEF IInv, Stories
  <2>2. \A i \in DOMAIN news : n > i
    BY <2>1
  <2> HIDE DEF n
  <2>3. BackAgain'
    BY <1>2, <2>1, <2>2 DEF IInv, BackAgain
  <2>4. ~NoNews(k)'
    BY <2>1 DEF NoNews
  <2>5. \A c : NoNews(c)' => NoNews(c)
    BY <2>1 DEF NoNews
  <2>6. InSight'
    BY <1>1, <1>2, <2>4, <2>5 DEF IInv, InSight
  <2> QED
    BY <1>1, <1>2, <2>1, <2>3, <2>6 DEF IInv
<1>4. CASE Kind(k) = "discu" /\ news' = news
  <2>1. k \in Discus
    BY <1>4, KindOf
  <2>2. BackAgain' /\ InSight'
    BY <1>1, <1>2, <1>4, <2>1 DEF IInv, BackAgain, InSight, NoNews
  <2>3. news' \in Seq([about : Keys, what : Stories])
    BY <1>4 DEF IInv, Shaped
  <2> QED
    BY <1>1, <1>2, <2>2, <2>3 DEF IInv
<1> QED
  BY <1>3, <1>4 DEF ServerAdds

\* Somebody goes, and the server tells of it.
LEMMA DropInv ==
  ASSUME IInv, NEW k \in Keys, contact' = contact \ {k}, Tell(k, "out"), OnlyServer
  PROVE  IInv'
<1>1. /\ Owned' /\ InboxReady' /\ \A c \in contact \ Discus : Stays(c) => Stays(c)'
      /\ load' = load /\ snapshot' = snapshot
      /\ contact' \subseteq Keys /\ news' \in Seq([about : Keys, what : Stories]) => Shaped'
  BY ServerInv
<1>2. contact' \subseteq Keys
  BY DEF IInv, Shaped
<1> DEFINE n == Len(news) + 1
<1>3. /\ news' \in Seq([about : Keys, what : Stories])
      /\ DOMAIN news' = DOMAIN news \cup {n} /\ \A i \in DOMAIN news : news'[i] = news[i]
      /\ news'[n].about = k
  BY Told DEF IInv, Stories
<1> HIDE DEF n
<1>4. BackAgain'
  BY <1>3 DEF IInv, BackAgain
<1>5. \A c : NoNews(c)' => NoNews(c)
  BY <1>3 DEF NoNews
<1>6. InSight'
  BY <1>1, <1>5 DEF IInv, InSight
<1> QED
  BY <1>1, <1>2, <1>3, <1>4, <1>6 DEF IInv

LEMMA SomebodyTalksInv ==
  ASSUME IInv, NEW k \in Keys, SomebodyTalks(k)
  PROVE  IInv'
<1>1. /\ Owned' /\ InboxReady' /\ \A c \in contact \ Discus : Stays(c) => Stays(c)'
      /\ load' = load /\ snapshot' = snapshot
      /\ contact' \subseteq Keys /\ news' \in Seq([about : Keys, what : Stories]) => Shaped'
  BY ServerInv DEF SomebodyTalks
<1>2. contact' = contact /\ contact' \subseteq Keys
  BY DEF SomebodyTalks, IInv, Shaped
<1>3. PICK what \in {"talk", "picture"} : Tell(k, what)
  BY DEF SomebodyTalks
<1> DEFINE n == Len(news) + 1
<1>4. /\ news' \in Seq([about : Keys, what : Stories])
      /\ DOMAIN news' = DOMAIN news \cup {n} /\ \A i \in DOMAIN news : news'[i] = news[i]
      /\ news'[n].what \in {"talk", "picture"}
  BY <1>3, Told DEF IInv, Stories
<1> HIDE DEF n
<1>5. BackAgain'
  BY <1>2, <1>4 DEF IInv, BackAgain
<1>6. \A c : NoNews(c)' => NoNews(c)
  BY <1>4 DEF NoNews
<1>7. InSight'
  BY <1>1, <1>2, <1>6 DEF IInv, InSight
<1> QED
  BY <1>1, <1>2, <1>4, <1>5, <1>7 DEF IInv

LEMMA DeleteFriendInv ==
  ASSUME IInv, NEW h \in Objects, DeleteFriend(h)
  PROVE  IInv'
<1>1. key[h] \in Keys
  BY DEF IInv, Shaped, Objects
<1> QED
  BY <1>1, DropInv DEF DeleteFriend
------------------------------------------------------------------------------
(* The poll brings the next message of the server. *)

\* The message that is made is the last one, and is in the message list unless it waits.
LEMMA Received ==
  ASSUME Shaped, InboxReady, NEW m, m = Len(message) + 1,
         NEW new \in Messages, new.waits = {} => new.at = "listed",
         message' = Append(message, new),
         inbox' = IF new.waits = {} THEN Append(inbox, m) ELSE inbox
  PROVE  /\ message' \in Seq(Messages) /\ DOMAIN message' = DOMAIN message \cup {m}
         /\ m \notin DOMAIN message /\ \A x \in DOMAIN message : message'[x] = message[x]
         /\ message'[m] = new /\ inbox' \in Seq(Nat) /\ InboxReady'
<1>3. message \in Seq(Messages) /\ inbox \in Seq(Nat)
  BY DEF Shaped
<1>4. /\ DOMAIN message = 1 .. Len(message) /\ m \in Nat /\ m \notin DOMAIN message
      /\ message' \in Seq(Messages) /\ DOMAIN message' = DOMAIN message \cup {m}
      /\ \A x \in DOMAIN message : message'[x] = message[x]
      /\ message'[m] = new
  BY <1>3
<1>5. \A i \in DOMAIN inbox : inbox[i] \in DOMAIN message /\ inbox[i] /= m
  BY <1>4 DEF InboxReady
<1>6. inbox' \in Seq(Nat) /\ InboxReady'
  <2>1. CASE new.waits = {}
    <3> DEFINE n == Len(inbox) + 1
    <3>1. /\ inbox' \in Seq(Nat) /\ DOMAIN inbox' = DOMAIN inbox \cup {n} /\ inbox'[n] = m
          /\ \A i \in DOMAIN inbox : inbox'[i] = inbox[i]
      BY <2>1, <1>3, <1>4
    <3> HIDE DEF n
    <3>2. IsInjective(inbox')
      BY <3>1, <1>5 DEF InboxReady, IsInjective
    <3>3. \A i \in DOMAIN inbox' : inbox'[i] \in DOMAIN message' /\ message'[inbox'[i]].at = "listed"
      BY <3>1, <1>4, <1>5, <2>1 DEF InboxReady
    <3> QED
      BY <3>1, <3>2, <3>3 DEF InboxReady
  <2>2. CASE new.waits /= {}
    <3>1. inbox' = inbox
      BY <2>2
    <3> QED
      BY <3>1, <1>3, <1>4, <1>5 DEF InboxReady
  <2> QED
    BY <2>1, <2>2
<1> QED
  BY <1>4, <1>6

LEMMA HeadNews ==
  ASSUME Shaped, news /= <<>>, NEW n, n = Head(news)
  PROVE  n \in [about : Keys, what : Stories] /\ n.about \in Keys /\ n.what \in Stories
<1> DEFINE T == [about : Keys, what : Stories]
<1>1. news \in Seq(T)
  BY DEF Shaped
<1> HIDE DEF T
<1>2. n \in T
  BY <1>1
<1> QED
  BY <1>2 DEF T

\* The first news is taken from the queue.
LEMMA FirstNews ==
  ASSUME Shaped, BackAgain, InSight, news /= <<>>, news' = Tail(news),
         contact' = contact, load' = load, snapshot' = snapshot,
         NEW n, n = Head(news),
         \A k \in contact \ Discus :
           IF n.about = k /\ n.what = "in" THEN Stays(k)'
           ELSE Stays(k) /\ ~(n.about = k /\ n.what = "out") => Stays(k)'
  PROVE  /\ n \in [about : Keys, what : Stories]
         /\ news' \in Seq([about : Keys, what : Stories])
         /\ BackAgain' /\ InSight'
<1>1. /\ news \in Seq([about : Keys, what : Stories]) /\ Len(news) \in Nat /\ Len(news) > 0
      /\ news' \in Seq([about : Keys, what : Stories])
      /\ DOMAIN news = 1 .. Len(news) /\ DOMAIN news' = 1 .. Len(news) - 1
      /\ n = news[1] /\ n \in [about : Keys, what : Stories]
      /\ \A i \in 1 .. Len(news) - 1 : news'[i] = news[i + 1]
  <2> DEFINE T == [about : Keys, what : Stories]
  <2>1. news \in Seq(T)
    BY DEF Shaped
  <2> HIDE DEF T
  <2>2. /\ Len(news) \in Nat /\ Len(news) > 0 /\ news' \in Seq(T)
        /\ DOMAIN news = 1 .. Len(news) /\ DOMAIN news' = 1 .. Len(news) - 1
        /\ n = news[1] /\ n \in T
        /\ \A i \in 1 .. Len(news) - 1 : news'[i] = news[i + 1]
    BY <2>1
  <2> QED
    BY <2>1, <2>2 DEF T
<1>2. \A i \in DOMAIN news' : i \in Nat /\ i + 1 \in DOMAIN news /\ news'[i] = news[i + 1]
  BY <1>1
<1>3. /\ 1 \in DOMAIN news
      /\ \A j \in DOMAIN news : j > 1 => j - 1 \in DOMAIN news' /\ news'[j - 1] = news[j]
  <2>1. ASSUME NEW j \in DOMAIN news, j > 1
        PROVE  j - 1 \in DOMAIN news' /\ news'[j - 1] = news[j]
    <3>1. j - 1 \in 1 .. Len(news) - 1 /\ (j - 1) + 1 = j
      BY <2>1, <1>1
    <3> QED
      BY <3>1, <1>1
  <2> QED
    BY <2>1, <1>1
<1>4. BackAgain'
  <2> SUFFICES ASSUME NEW k \in contact \ Discus, NEW i \in DOMAIN news',
                      news'[i].about = k, news'[i].what = "out"
               PROVE  \E j \in DOMAIN news' : j > i /\ news'[j].about = k /\ news'[j].what = "in"
    BY DEF BackAgain
  <2>1. PICK j \in DOMAIN news : j > i + 1 /\ news[j].about = k /\ news[j].what = "in"
    BY <1>2 DEF BackAgain
  <2>2. j > 1 /\ j - 1 > i
    BY <2>1, <1>1, <1>2
  <2> QED
    BY <2>1, <2>2, <1>3
<1>5. ASSUME NEW k \in contact \ Discus, NoNews(k)'
      PROVE  ~(n.about = k /\ n.what = "out")
  <2> SUFFICES ASSUME n.about = k, n.what = "out" PROVE FALSE
    OBVIOUS
  <2>1. PICK j \in DOMAIN news : j > 1 /\ news[j].about = k /\ news[j].what = "in"
    BY <1>1, <1>3 DEF BackAgain
  <2> QED
    BY <2>1, <1>3, <1>5 DEF NoNews
<1>6. ASSUME NEW k \in contact \ Discus, NoNews(k)', ~(n.about = k /\ n.what = "in")
      PROVE  NoNews(k)
  <2> SUFFICES ASSUME NEW i \in DOMAIN news, news[i].about = k
               PROVE  news[i].what \in {"talk", "picture"}
    BY DEF NoNews
  <2>1. CASE i = 1
    BY <2>1, <1>1, <1>5, <1>6 DEF Stories
  <2>2. CASE i > 1
    BY <2>2, <1>3, <1>6 DEF NoNews
  <2> QED
    BY <2>1, <2>2, <1>1
<1>7. InSight'
  <2> SUFFICES ASSUME NEW k \in contact \ Discus, NoNews(k)'
               PROVE  /\ load[Kind(k)] = "done" => Stays(k)'
                      /\ load[Kind(k)] = "sent" => k \in snapshot[Kind(k)] \/ Stays(k)'
    BY DEF InSight
  <2>1. CASE n.about = k /\ n.what = "in"
    BY <2>1
  <2>2. CASE ~(n.about = k /\ n.what = "in")
    <3>1. NoNews(k)
      BY <2>2, <1>6
    <3>2. Stays(k) => Stays(k)'
      BY <2>2, <1>5
    <3> QED
      BY <3>1, <3>2 DEF InSight
  <2> QED
    BY <2>1, <2>2
<1> QED
  BY <1>1, <1>4, <1>7

\* The new message is about an object that is listed.
LEMMA HeldListed ==
  ASSUME Owned, UNCHANGED objects, BeingQuit' = BeingQuit,
         NEW h, Listed(h), NEW m, m \notin DOMAIN message, DOMAIN message' = DOMAIN message \cup {m},
         \A x \in DOMAIN message : message'[x] = message[x],
         message'[m].what = "talk", message'[m].object = h, ~message'[m].makes
  PROVE  Owned'
<1>1. /\ lists' = lists /\ freed' = freed /\ key' = key /\ Objects' = Objects
      /\ \A g : Listed(g)' <=> Listed(g)
  BY DEF objects, Objects, Listed
<1>2. h \in Objects /\ h /= 0
  BY DEF Owned, Made, Listed, Objects
<1>3. Made' /\ ListedOnce'
  BY <1>1, <1>2 DEF Owned, Made, ListedOnce, Objects
<1>4. Unseen'
  <2> SUFFICES ASSUME NEW x \in DOMAIN message', NEW g \in Objects, Waiting(x, g)'
               PROVE  /\ ~Listed(g) /\ g \notin freed /\ g \notin BeingQuit
                      /\ \A y \in DOMAIN message' : message'[y].object = g => y = x
    BY <1>1 DEF Unseen, Listed
  <2>1. x \in DOMAIN message /\ Waiting(x, g)
    BY DEF Waiting
  <2>2. /\ ~Listed(g) /\ g \notin freed /\ g \notin BeingQuit
        /\ \A y \in DOMAIN message : message[y].object = g => y = x
    BY <2>1 DEF Owned, Unseen
  <2> QED
    BY <2>2
<1>5. RemovedOnce'
  <2> SUFFICES ASSUME NEW x \in DOMAIN message', NEW g \in Objects \ BeingQuit, Removing(x, g)'
               PROVE  /\ ~Listed(g) /\ g \notin freed
                      /\ \A y \in DOMAIN message' : Removing(y, g)' => y = x
    BY <1>1 DEF RemovedOnce, Listed
  <2>1. x \in DOMAIN message /\ Removing(x, g)
    BY DEF Removing
  <2>2. \A y \in DOMAIN message' : Removing(y, g)' => y \in DOMAIN message /\ Removing(y, g)
    BY DEF Removing
  <2> QED
    BY <2>1, <2>2 DEF Owned, RemovedOnce
<1>6. FreedGone'
  BY <1>1 DEF Owned, FreedGone
<1>7. Somewhere'
  <2> SUFFICES ASSUME NEW g \in Objects \ BeingQuit
               PROVE  g \in freed \/ Listed(g) \/ \E x \in DOMAIN message' : Waiting(x, g)' \/ Removing(x, g)'
    BY <1>1 DEF Somewhere, Listed
  <2>1. CASE g \in freed \/ Listed(g)
    BY <2>1
  <2>2. CASE \E x \in DOMAIN message : Waiting(x, g) \/ Removing(x, g)
    <3>1. PICK x \in DOMAIN message : Waiting(x, g) \/ Removing(x, g)
      BY <2>2
    <3>2. x \in DOMAIN message' /\ (Waiting(x, g)' \/ Removing(x, g)')
      BY <3>1 DEF Waiting, Removing
    <3> QED
      BY <3>2
  <2> QED
    BY <2>1, <2>2 DEF Owned, Somewhere
<1> QED
  BY <1>3, <1>4, <1>5, <1>6, <1>7 DEF Owned

\* The new message waits to list a new object.
LEMMA HeldNew ==
  ASSUME Owned, lists' = lists, freed' = freed, BeingQuit' = BeingQuit,
         NEW h, h \notin Objects, h /= 0, Objects' = Objects \cup {h}, \A g \in Objects : key'[g] = key[g],
         NEW m, m \notin DOMAIN message, DOMAIN message' = DOMAIN message \cup {m},
         \A x \in DOMAIN message : message'[x] = message[x],
         message'[m].what = "talk", message'[m].object = h, message'[m].makes,
         message'[m].at = "waiting"
  PROVE  Owned'
<1>1. \A g : Listed(g)' <=> Listed(g)
  BY DEF Listed
<1>2. ~Listed(h) /\ h \notin freed /\ h \notin BeingQuit /\ \A x \in DOMAIN message : message[x].object /= h
  BY DEF Owned, Made, Listed
<1>3. Made' /\ ListedOnce'
  BY DEF Owned, Made, ListedOnce
<1>4. Unseen'
  <2> SUFFICES ASSUME NEW x \in DOMAIN message', NEW g \in Objects', Waiting(x, g)'
               PROVE  /\ ~Listed(g) /\ g \notin freed /\ g \notin BeingQuit
                      /\ \A y \in DOMAIN message' : message'[y].object = g => y = x
    BY <1>1 DEF Unseen, Listed
  <2>1. CASE x = m
    BY <2>1, <1>2 DEF Waiting
  <2>2. CASE x /= m
    <3>1. x \in DOMAIN message /\ Waiting(x, g) /\ g /= h
      BY <2>2, <1>2 DEF Waiting
    <3>2. /\ ~Listed(g) /\ g \notin freed /\ g \notin BeingQuit
          /\ \A y \in DOMAIN message : message[y].object = g => y = x
      BY <3>1 DEF Owned, Unseen
    <3> QED
      BY <3>1, <3>2
  <2> QED
    BY <2>1, <2>2
<1>5. RemovedOnce'
  <2> SUFFICES ASSUME NEW x \in DOMAIN message', NEW g \in Objects' \ BeingQuit, Removing(x, g)'
               PROVE  /\ ~Listed(g) /\ g \notin freed
                      /\ \A y \in DOMAIN message' : Removing(y, g)' => y = x
    BY <1>1 DEF RemovedOnce, Listed
  <2>1. x \in DOMAIN message /\ Removing(x, g) /\ g \in Objects
    BY <1>2 DEF Removing
  <2>2. \A y \in DOMAIN message' : Removing(y, g)' => y \in DOMAIN message /\ Removing(y, g)
    BY DEF Removing
  <2> QED
    BY <2>1, <2>2 DEF Owned, RemovedOnce
<1>6. FreedGone'
  BY <1>1 DEF Owned, FreedGone
<1>7. Somewhere'
  <2> SUFFICES ASSUME NEW g \in Objects' \ BeingQuit
               PROVE  g \in freed \/ Listed(g) \/ \E x \in DOMAIN message' : Waiting(x, g)' \/ Removing(x, g)'
    BY <1>1 DEF Somewhere, Listed
  <2>0. CASE g = h
    <3>1. Waiting(m, g)'
      BY <2>0 DEF Waiting
    <3> QED
      BY <3>1
  <2>1. CASE g \in freed \/ Listed(g)
    BY <2>1
  <2>2. CASE \E x \in DOMAIN message : Waiting(x, g) \/ Removing(x, g)
    <3>1. PICK x \in DOMAIN message : Waiting(x, g) \/ Removing(x, g)
      BY <2>2
    <3>2. x \in DOMAIN message' /\ (Waiting(x, g)' \/ Removing(x, g)')
      BY <3>1 DEF Waiting, Removing
    <3> QED
      BY <3>2
  <2> QED
    BY <2>0, <2>1, <2>2 DEF Owned, Somewhere
<1> QED
  BY <1>3, <1>4, <1>5, <1>6, <1>7 DEF Owned

\* New objects are listed; the new messages tell of them.
LEMMA ListedNew ==
  ASSUME Owned, freed' = freed, BeingQuit' = BeingQuit,
         NEW New, New \cap Objects = {}, 0 \notin New, Objects' = Objects \cup New,
         \A g \in Objects : key'[g] = key[g],
         NEW kind \in Kinds, \A h \in New : Kind(key'[h]) = kind,
         \A other \in Kinds : other /= kind => lists'[other] = lists[other],
         Range(lists'[kind]) = Range(lists[kind]) \cup New, IsInjective(lists'[kind]),
         DOMAIN message \subseteq DOMAIN message',
         \A x \in DOMAIN message : message'[x] = message[x],
         \A x \in DOMAIN message' \ DOMAIN message :
           message'[x].what = "in" /\ message'[x].object \in New /\ ~message'[x].makes
  PROVE  Owned'
<1>1. \A g : g \notin New => (Listed(g)' <=> Listed(g))
  BY DEF Listed
<1>2. \A g \in New : Listed(g)' /\ g \notin freed /\ \A x \in DOMAIN message : message[x].object /= g
  BY DEF Owned, Made, Listed
<1>3. Made' /\ ListedOnce'
  <2>1. \A k \in Kinds : \A h \in Range(lists'[k]) : h \in Objects' /\ Kind(key'[h]) = k
    <3> SUFFICES ASSUME NEW k \in Kinds, NEW h \in Range(lists'[k])
                 PROVE  h \in Objects' /\ Kind(key'[h]) = k
      OBVIOUS
    <3>1. h \in Range(lists[k]) \/ (k = kind /\ h \in New)
      OBVIOUS
    <3>2. h \in Range(lists[k]) => h \in Objects /\ Kind(key[h]) = k
      BY DEF Owned, Made
    <3> QED
      BY <3>1, <3>2
  <2>2. \A m \in DOMAIN message' :
          /\ message'[m].object \in Objects' \cup {0}
          /\ message'[m].what = "talk" /\ message'[m].at /= "read" => message'[m].object /= 0
          /\ message'[m].makes => message'[m].what = "talk"
    BY DEF Owned, Made
  <2>3. freed' \subseteq Objects' /\ BeingQuit' \subseteq Objects'
    BY DEF Owned, Made
  <2> QED
    BY <2>1, <2>2, <2>3 DEF Owned, Made, ListedOnce
<1>4. Unseen'
  <2> SUFFICES ASSUME NEW x \in DOMAIN message', NEW g \in Objects', Waiting(x, g)'
               PROVE  /\ ~Listed(g)' /\ g \notin freed /\ g \notin BeingQuit
                      /\ \A y \in DOMAIN message' : message'[y].object = g => y = x
    BY DEF Unseen
  <2>1. x \in DOMAIN message /\ Waiting(x, g)
    BY DEF Waiting
  <2>2. g \in Objects /\ g \notin New
    BY <1>2, <2>1 DEF Waiting
  <2>3. /\ ~Listed(g) /\ g \notin freed /\ g \notin BeingQuit
        /\ \A y \in DOMAIN message : message[y].object = g => y = x
    BY <2>1, <2>2 DEF Owned, Unseen
  <2> QED
    BY <1>1, <2>2, <2>3
<1>5. RemovedOnce'
  <2> SUFFICES ASSUME NEW x \in DOMAIN message', NEW g \in Objects' \ BeingQuit, Removing(x, g)'
               PROVE  /\ ~Listed(g)' /\ g \notin freed
                      /\ \A y \in DOMAIN message' : Removing(y, g)' => y = x
    BY DEF RemovedOnce
  <2>1. x \in DOMAIN message /\ Removing(x, g)
    BY DEF Removing
  <2>2. g \in Objects /\ g \notin New
    BY <1>2, <2>1 DEF Removing
  <2>3. \A y \in DOMAIN message' : Removing(y, g)' => y \in DOMAIN message /\ Removing(y, g)
    BY DEF Removing
  <2> QED
    BY <1>1, <2>1, <2>2, <2>3 DEF Owned, RemovedOnce
<1>6. FreedGone'
  <2>1. \A g \in freed : g \notin New
    BY <1>2
  <2> QED
    BY <1>1, <2>1 DEF Owned, FreedGone
<1>7. Somewhere'
  <2> SUFFICES ASSUME NEW g \in Objects' \ BeingQuit
               PROVE  g \in freed \/ Listed(g)' \/ \E x \in DOMAIN message' : Waiting(x, g)' \/ Removing(x, g)'
    BY DEF Somewhere
  <2>0. CASE g \in New
    BY <2>0, <1>2
  <2>1. CASE g \notin New /\ (g \in freed \/ Listed(g))
    BY <2>1, <1>1
  <2>2. CASE \E x \in DOMAIN message : Waiting(x, g) \/ Removing(x, g)
    <3>1. PICK x \in DOMAIN message : Waiting(x, g) \/ Removing(x, g)
      BY <2>2
    <3>2. x \in DOMAIN message' /\ (Waiting(x, g)' \/ Removing(x, g)')
      BY <3>1 DEF Waiting, Removing
    <3> QED
      BY <3>2
  <2> QED
    BY <2>0, <2>1, <2>2 DEF Owned, Somewhere
<1> QED
  BY <1>3, <1>4, <1>5, <1>6, <1>7 DEF Owned
\* The list of every kind without an object.
LEMMA Unlisted ==
  ASSUME Shaped, ListedOnce, NEW h
  PROVE  /\ Removed(h) \in [Kinds -> Seq(Nat)]
         /\ \A kind \in Kinds : /\ Range(Removed(h)[kind]) = Range(lists[kind]) \ {h}
                                /\ IsInjective(Removed(h)[kind])
<1>1. ASSUME NEW kind \in Kinds
      PROVE  /\ RemoveFirst(lists[kind], h) \in Seq(Nat)
             /\ Range(RemoveFirst(lists[kind], h)) = Range(lists[kind]) \ {h}
             /\ IsInjective(RemoveFirst(lists[kind], h))
  <2>1. lists[kind] \in Seq(Nat) /\ IsInjective(lists[kind])
    BY DEF Shaped, ListedOnce
  <2> QED
    BY <2>1, Taken
<1>2. \A kind \in Kinds : Removed(h)[kind] = RemoveFirst(lists[kind], h)
  BY DEF Removed
<1>3. Removed(h) \in [Kinds -> Seq(Nat)]
  BY <1>1 DEF Removed
<1> QED
  BY <1>1, <1>2, <1>3

\* The new message takes an object from its list, or tells of none.
LEMMA HeldRemoved ==
  ASSUME Owned, key' = key, freed' = freed, BeingQuit' = BeingQuit,
         NEW h, h = 0 \/ Listed(h),
         \A kind \in Kinds : /\ Range(lists'[kind]) = Range(lists[kind]) \ {h}
                             /\ IsInjective(lists'[kind]),
         NEW m, m \notin DOMAIN message, DOMAIN message' = DOMAIN message \cup {m},
         \A x \in DOMAIN message : message'[x] = message[x],
         message'[m].what = "out", message'[m].object = h, ~message'[m].makes,
         message'[m].at = "listed"
  PROVE  Owned'
<1>1. \A g : Listed(g)' <=> Listed(g) /\ g /= h
  BY DEF Listed
<1>2. Objects' = Objects /\ h \in Objects \cup {0} /\ 0 \notin Objects
  BY DEF Owned, Made, Listed, Objects
<1>3. Made' /\ ListedOnce'
  BY <1>2 DEF Owned, Made, ListedOnce
<1>4. Unseen'
  <2> SUFFICES ASSUME NEW x \in DOMAIN message', NEW g \in Objects, Waiting(x, g)'
               PROVE  /\ ~Listed(g)' /\ g \notin freed /\ g \notin BeingQuit
                      /\ \A y \in DOMAIN message' : message'[y].object = g => y = x
    BY <1>2 DEF Unseen
  <2>1. x \in DOMAIN message /\ Waiting(x, g)
    BY DEF Waiting
  <2>2. /\ ~Listed(g) /\ g \notin freed /\ g \notin BeingQuit
        /\ \A y \in DOMAIN message : message[y].object = g => y = x
    BY <2>1 DEF Owned, Unseen
  <2> QED
    BY <1>1, <1>2, <2>2
<1>5. RemovedOnce'
  <2> SUFFICES ASSUME NEW x \in DOMAIN message', NEW g \in Objects \ BeingQuit, Removing(x, g)'
               PROVE  /\ ~Listed(g)' /\ g \notin freed
                      /\ \A y \in DOMAIN message' : Removing(y, g)' => y = x
    BY <1>2 DEF RemovedOnce
  <2>0. \A y \in DOMAIN message' : Removing(y, g)' => (y = m /\ g = h) \/ (y \in DOMAIN message /\ Removing(y, g))
    BY DEF Removing
  <2>1. CASE g = h
    <3>1. Listed(g)
      BY <2>1, <1>2
    <3>2. g \notin freed /\ \A y \in DOMAIN message : ~Removing(y, g)
      BY <3>1 DEF Owned, FreedGone, RemovedOnce
    <3> QED
      BY <2>0, <2>1, <3>2, <1>1
  <2>2. CASE g /= h
    <3>1. x \in DOMAIN message /\ Removing(x, g)
      BY <2>0, <2>2
    <3>2. ~Listed(g) /\ g \notin freed /\ \A y \in DOMAIN message : Removing(y, g) => y = x
      BY <3>1 DEF Owned, RemovedOnce
    <3> QED
      BY <2>0, <2>2, <3>2, <1>1
  <2> QED
    BY <2>1, <2>2
<1>6. FreedGone'
  BY <1>1 DEF Owned, FreedGone
<1>7. Somewhere'
  <2> SUFFICES ASSUME NEW g \in Objects \ BeingQuit
               PROVE  g \in freed \/ Listed(g)' \/ \E x \in DOMAIN message' : Waiting(x, g)' \/ Removing(x, g)'
    BY <1>2 DEF Somewhere
  <2>0. CASE g = h
    <3>1. Removing(m, g)'
      BY <2>0 DEF Removing
    <3> QED
      BY <3>1
  <2>1. CASE g /= h /\ (g \in freed \/ Listed(g))
    BY <2>1, <1>1
  <2>2. CASE \E x \in DOMAIN message : Waiting(x, g) \/ Removing(x, g)
    <3>1. PICK x \in DOMAIN message : Waiting(x, g) \/ Removing(x, g)
      BY <2>2
    <3>2. x \in DOMAIN message' /\ (Waiting(x, g)' \/ Removing(x, g)')
      BY <3>1 DEF Waiting, Removing
    <3> QED
      BY <3>2
  <2> QED
    BY <2>0, <2>1, <2>2 DEF Owned, Somewhere
<1> QED
  BY <1>3, <1>4, <1>5, <1>6, <1>7 DEF Owned

\* Who is listed in time stays in sight.
LEMMA StaysKept ==
  ASSUME Made, quits' = quits, \A h \in Objects : key'[h] = key[h], NEW k \in Keys,
         \A h \in Range(lists[Kind(k)]) : key[h] = k => h \in Range(lists'[Kind(k)])
  PROVE  Stays(k) => Stays(k)'
<1> SUFFICES ASSUME Stays(k) PROVE Stays(k)'
  OBVIOUS
<1>1. PICK h \in Range(lists[Kind(k)]) : key[h] = k /\ h \notin Left
  BY DEF Stays
<1>2. h \in Objects /\ Left' = Left
  BY <1>1, KindOf, LeftKept DEF Made
<1> QED
  BY <1>1, <1>2 DEF Stays

\* A new object has the next number and its key.
LEMMA MadeNew ==
  ASSUME Shaped, NEW k \in Keys, key' = Append(key, k)
  PROVE  /\ NewObject \in Nat /\ NewObject \notin Objects /\ NewObject /= 0
         /\ Objects' = Objects \cup {NewObject} /\ key' \in Seq(Keys)
         /\ \A h \in Objects : key'[h] = key[h]
         /\ key'[NewObject] = k
BY DEF Shaped, NewObject, Objects

LEMMA QuitMade == Made => Left \subseteq Objects
BY DEF Made, Left, BeingQuit
\* A message of a friend or a group, listed or not.
LEMMA MessageBindBuddyInv ==
  ASSUME IInv, news /= <<>>, news' = Tail(news), UNCHANGED <<contact, loads, quits>>,
         NEW n, n = Head(news), n.what \in {"talk", "picture"}, MessageBindBuddy(n)
  PROVE  IInv'
<1>1. /\ n.about \in Keys /\ Kind(n.about) \in Kinds
  BY HeadNews, KindOf DEF IInv
<1>2. /\ load' = load /\ snapshot' = snapshot /\ contact' = contact /\ quits' = quits
      /\ BeingQuit' = BeingQuit
  BY LeftKept DEF loads
<1>3. Shaped /\ Made /\ Owned /\ InboxReady /\ BackAgain /\ InSight /\ \A k \in contact : k \in Keys
  BY DEF IInv, Owned, Shaped
<1>4. RequestPicture(n) \in SUBSET Lookup /\ LookupsOf(Kind(n.about)) \in SUBSET Lookup
      /\ LookupsOf(Kind(n.about)) /= {}
  <2>1. RequestPicture(n) \in SUBSET Lookup
    BY DEF RequestPicture, Lookup
  <2>2. /\ LookupsOf("buddy") = {"info", "number"} /\ LookupsOf("qun") = {"number", "detail"}
        /\ LookupsOf("discu") = {"detail"}
    BY DEF LookupsOf
  <2>3. \A kind \in Kinds : LookupsOf(kind) \in SUBSET Lookup /\ LookupsOf(kind) /= {}
    BY <2>2 DEF Kinds, Lookup
  <2> QED
    BY <1>1, <2>1, <2>3
<1>0. PICK m : m = Len(message) + 1
  OBVIOUS
<1>5. /\ Owned' /\ InboxReady' /\ inbox' \in Seq(Nat) /\ message' \in Seq(Messages)
      /\ lists' = lists /\ key' \in Seq(Keys) /\ \A h \in Objects : key'[h] = key[h]
  <2>1. CASE Find(n.about) /= 0
    <3>1. PICK h : h = Find(n.about)
      OBVIOUS
    <3>2. h \in Range(lists[Kind(n.about)]) /\ UNCHANGED objects /\ Receive("talk", h, FALSE, RequestPicture(n))
      BY <2>1, <3>1, <1>1, <1>3, FindOne DEF MessageBindBuddy
    <3>3. Listed(h) /\ h \in Nat
      BY <1>1, <1>3, <3>2 DEF Listed, Made, Objects
    <3>4. /\ message' \in Seq(Messages) /\ DOMAIN message' = DOMAIN message \cup {m} /\ m \notin DOMAIN message
          /\ \A x \in DOMAIN message : message'[x] = message[x]
          /\ message'[m].what = "talk" /\ message'[m].object = h /\ message'[m].makes = FALSE
          /\ inbox' \in Seq(Nat) /\ InboxReady'
      <4> DEFINE new == [what |-> "talk", object |-> h, makes |-> FALSE, waits |-> RequestPicture(n),
                         at |-> IF RequestPicture(n) = {} THEN "listed" ELSE "waiting"]
      <4>1. /\ new \in Messages /\ new.what = "talk" /\ new.object = h /\ new.makes = FALSE
            /\ new.waits = RequestPicture(n) /\ new.at = IF RequestPicture(n) = {} THEN "listed" ELSE "waiting"
        BY <1>4, <1>3, <3>2, <3>3 DEF Messages
      <4>2. /\ message' = Append(message, new)
            /\ inbox' = IF RequestPicture(n) = {} THEN Append(inbox, m) ELSE inbox
        BY <1>3, <3>2, <3>3, <1>0 DEF Receive
      <4> HIDE DEF new
      <4>3. /\ message' \in Seq(Messages) /\ DOMAIN message' = DOMAIN message \cup {m}
            /\ m \notin DOMAIN message /\ \A x \in DOMAIN message : message'[x] = message[x]
            /\ message'[m] = new /\ inbox' \in Seq(Nat) /\ InboxReady'
        BY <1>3, <1>0, <4>1, <4>2, Received
      <4> QED
        BY <4>1, <4>3
    <3>5. Owned'
      BY <1>2, <1>3, <3>2, <3>3, <3>4, HeldListed
    <3> QED
      BY <1>3, <3>2, <3>4, <3>5 DEF objects, Shaped
  <2>2. CASE Find(n.about) = 0
    <3> DEFINE waits == RequestPicture(n) \cup LookupsOf(Kind(n.about))
    <3>1. PICK h : h = NewObject
      OBVIOUS
    <3>2. /\ Receive("talk", h, TRUE, waits) /\ key' = Append(key, n.about)
          /\ freed' = freed /\ lists' = lists
      BY <2>2, <3>1 DEF MessageBindBuddy
    <3>3. waits \in SUBSET Lookup /\ waits /= {}
      BY <1>4
    <3> HIDE DEF waits
    <3>4. /\ h \in Nat /\ h \notin Objects /\ h /= 0 /\ Objects' = Objects \cup {h} /\ key' \in Seq(Keys)
          /\ \A g \in Objects : key'[g] = key[g]
      BY <1>1, <1>3, <3>1, <3>2, MadeNew
    <3>5. /\ message' \in Seq(Messages) /\ DOMAIN message' = DOMAIN message \cup {m} /\ m \notin DOMAIN message
          /\ \A x \in DOMAIN message : message'[x] = message[x]
          /\ message'[m].what = "talk" /\ message'[m].object = h /\ message'[m].makes = TRUE
          /\ message'[m].at = "waiting"
          /\ inbox' \in Seq(Nat) /\ InboxReady'
      <4> DEFINE new == [what |-> "talk", object |-> h, makes |-> TRUE, waits |-> waits,
                         at |-> IF waits = {} THEN "listed" ELSE "waiting"]
      <4>1. /\ new \in Messages /\ new.what = "talk" /\ new.object = h /\ new.makes = TRUE
            /\ new.waits = waits /\ new.at = IF waits = {} THEN "listed" ELSE "waiting"
        BY <3>3, <1>3, <3>2, <3>4 DEF Messages
      <4>2. /\ message' = Append(message, new)
            /\ inbox' = IF waits = {} THEN Append(inbox, m) ELSE inbox
        BY <1>3, <3>2, <3>4, <1>0 DEF Receive
      <4> HIDE DEF new
      <4>3. /\ message' \in Seq(Messages) /\ DOMAIN message' = DOMAIN message \cup {m}
            /\ m \notin DOMAIN message /\ \A x \in DOMAIN message : message'[x] = message[x]
            /\ message'[m] = new /\ inbox' \in Seq(Nat) /\ InboxReady'
        BY <1>3, <1>0, <4>1, <4>2, Received
      <4> QED
        BY <4>1, <4>3, <3>3
    <3>6. Owned'
      BY <1>2, <1>3, <3>2, <3>4, <3>5, HeldNew
    <3> QED
      BY <3>2, <3>4, <3>5, <3>6
  <2> QED
    BY <2>1, <2>2
<1>6. \A k \in contact \ Discus : Stays(k) => Stays(k)'
  BY <1>2, <1>3, <1>5, StaysKept
<1>7. news' \in Seq([about : Keys, what : Stories]) /\ BackAgain' /\ InSight'
  BY <1>2, <1>3, <1>6, FirstNews
<1>8. Shaped'
  BY <1>2, <1>3, <1>5, <1>7 DEF Shaped
<1> QED
  BY <1>5, <1>7, <1>8 DEF IInv

\* A new friend or group is listed at once.
LEMMA CameIn ==
  ASSUME IInv, news /= <<>>, news' = Tail(news), UNCHANGED <<contact, loads, quits>>,
         NEW n, n = Head(news), n.what = "in", NEW kind \in Kinds, Kind(n.about) = kind,
         key' = Append(key, n.about), lists' = Inserted(kind, NewObject), UNCHANGED freed,
         NEW waits \in SUBSET Lookup, Receive("in", NewObject, FALSE, waits)
  PROVE  IInv'
<1>1. n.about \in Keys
  BY HeadNews DEF IInv
<1>2. /\ load' = load /\ snapshot' = snapshot /\ contact' = contact /\ quits' = quits
      /\ BeingQuit' = BeingQuit /\ Left' = Left
  BY LeftKept DEF loads
<1>3. Shaped /\ Made /\ Owned /\ InboxReady /\ BackAgain /\ InSight /\ \A k \in contact : k \in Keys
  BY DEF IInv, Owned, Shaped
<1>4. PICK h : h = NewObject
  OBVIOUS
<1>5. /\ h \in Nat /\ h \notin Objects /\ h /= 0 /\ Objects' = Objects \cup {h} /\ key' \in Seq(Keys)
      /\ \A g \in Objects : key'[g] = key[g]
      /\ key'[h] = n.about
  BY <1>1, <1>3, <1>4, MadeNew
<1>0. PICK m : m = Len(message) + 1
  OBVIOUS
<1>6. /\ message' \in Seq(Messages) /\ DOMAIN message' = DOMAIN message \cup {m} /\ m \notin DOMAIN message
      /\ \A x \in DOMAIN message : message'[x] = message[x]
      /\ message'[m].what = "in" /\ message'[m].object = h /\ message'[m].makes = FALSE
      /\ inbox' \in Seq(Nat) /\ InboxReady'
  <2> DEFINE new == [what |-> "in", object |-> h, makes |-> FALSE, waits |-> waits,
                     at |-> IF waits = {} THEN "listed" ELSE "waiting"]
  <2>1. /\ new \in Messages /\ new.what = "in" /\ new.object = h /\ new.makes = FALSE
        /\ new.waits = waits /\ new.at = IF waits = {} THEN "listed" ELSE "waiting"
    BY <1>3, <1>4, <1>5 DEF Messages
  <2>2. /\ message' = Append(message, new)
        /\ inbox' = IF waits = {} THEN Append(inbox, m) ELSE inbox
    BY <1>3, <1>4, <1>5, <1>0 DEF Receive
  <2> HIDE DEF new
  <2>3. /\ message' \in Seq(Messages) /\ DOMAIN message' = DOMAIN message \cup {m}
        /\ m \notin DOMAIN message /\ \A x \in DOMAIN message : message'[x] = message[x]
        /\ message'[m] = new /\ inbox' \in Seq(Nat) /\ InboxReady'
    BY <1>3, <1>0, <2>1, <2>2, Received
  <2> QED
    BY <2>1, <2>3
<1>7. /\ lists' = [lists EXCEPT ![kind] = <<h>> \o lists[kind]]
      /\ lists[kind] \in Seq(Nat) /\ lists \in [Kinds -> Seq(Nat)]
      /\ IsInjective(lists[kind]) /\ h \notin Range(lists[kind])
  BY <1>3, <1>4, <1>5 DEF Inserted, Shaped, Owned, Made, ListedOnce
<1>8. /\ <<h>> \o lists[kind] \in Seq(Nat) /\ IsInjective(<<h>> \o lists[kind])
      /\ Range(<<h>> \o lists[kind]) = Range(lists[kind]) \cup {h}
  BY <1>5, <1>7, InFront
<1> DEFINE t == <<h>> \o lists[kind]
<1> HIDE DEF t
<1>9. /\ lists' \in [Kinds -> Seq(Nat)] /\ IsInjective(lists'[kind])
      /\ Range(lists'[kind]) = Range(lists[kind]) \cup {h}
      /\ \A other \in Kinds : other /= kind => lists'[other] = lists[other]
  BY <1>7, <1>8 DEF t
<1>10. Owned'
  <2> DEFINE New == {h}
  <2>1. New \cap Objects = {} /\ 0 \notin New /\ Objects' = Objects \cup New
    BY <1>5
  <2>2. \A g \in New : Kind(key'[g]) = kind
    BY <1>5
  <2>3. Range(lists'[kind]) = Range(lists[kind]) \cup New
    BY <1>9
  <2>4. \A x \in DOMAIN message' \ DOMAIN message :
          message'[x].what = "in" /\ message'[x].object \in New /\ ~message'[x].makes
    BY <1>6
  <2>5. DOMAIN message \subseteq DOMAIN message'
    BY <1>6
  <2>6. Owned /\ freed' = freed /\ BeingQuit' = BeingQuit
    BY <1>2, <1>3
  <2>7. \A g \in Objects : key'[g] = key[g]
    BY <1>5
  <2>8. /\ IsInjective(lists'[kind])
        /\ \A other \in Kinds : other /= kind => lists'[other] = lists[other]
    BY <1>9
  <2>9. \A x \in DOMAIN message : message'[x] = message[x]
    BY <1>6
  <2> HIDE DEF New
  <2> QED
    BY <2>1, <2>2, <2>3, <2>4, <2>5, <2>6, <2>7, <2>8, <2>9, ListedNew
<1>11. \A k \in contact \ Discus : Stays(k) => Stays(k)'
  <2> SUFFICES ASSUME NEW k \in contact \ Discus PROVE Stays(k) => Stays(k)'
    OBVIOUS
  <2>1. Kind(k) \in Kinds /\ Range(lists[Kind(k)]) \subseteq Range(lists'[Kind(k)])
    BY <1>3, <1>9, KindOf
  <2> QED
    BY <2>1, <1>2, <1>3, <1>5, StaysKept
<1>12. Stays(n.about)'
  BY <1>2, <1>3, <1>5, <1>9, QuitMade DEF Stays
<1>13. news' \in Seq([about : Keys, what : Stories]) /\ BackAgain' /\ InSight'
  <2>1. \A k \in contact \ Discus :
          IF n.about = k /\ n.what = "in" THEN Stays(k)'
          ELSE Stays(k) /\ ~(n.about = k /\ n.what = "out") => Stays(k)'
    BY <1>11, <1>12
  <2> QED
    BY <2>1, <1>2, <1>3, FirstNews
<1>14. Shaped'
  BY <1>2, <1>3, <1>5, <1>6, <1>9, <1>13 DEF Shaped
<1> QED
  BY <1>6, <1>10, <1>13, <1>14 DEF IInv

\* A friend or group that has gone passes from its list to the message.
LEMMA WentOut ==
  ASSUME IInv, news /= <<>>, news' = Tail(news), UNCHANGED <<contact, loads, quits>>,
         NEW n, n = Head(news), n.what = "out", UNCHANGED <<key, freed>>,
         NEW h, h = Find(n.about), lists' = Removed(h), Receive("out", h, FALSE, {})
  PROVE  IInv'
<1>1. n.about \in Keys
  BY HeadNews DEF IInv
<1>2. /\ load' = load /\ snapshot' = snapshot /\ contact' = contact /\ quits' = quits
      /\ BeingQuit' = BeingQuit
  BY LeftKept DEF loads
<1>3. /\ Shaped /\ Made /\ Owned /\ InboxReady /\ BackAgain /\ InSight /\ ListedOnce
      /\ \A k \in contact : k \in Keys
  BY DEF IInv, Owned, Shaped
<1>4. h = 0 \/ (h \in Range(lists[Kind(n.about)]) /\ key[h] = n.about)
  BY <1>1, <1>3, FindOne
<1>5. (h = 0 \/ Listed(h)) /\ h \in Nat
  BY <1>1, <1>3, <1>4, KindOf DEF Listed, Made, Objects
<1>0. PICK m : m = Len(message) + 1
  OBVIOUS
<1>6. /\ message' \in Seq(Messages) /\ DOMAIN message' = DOMAIN message \cup {m} /\ m \notin DOMAIN message
      /\ \A x \in DOMAIN message : message'[x] = message[x]
      /\ message'[m].what = "out" /\ message'[m].object = h /\ message'[m].makes = FALSE
      /\ message'[m].at = "listed"
      /\ inbox' \in Seq(Nat) /\ InboxReady'
  <2> DEFINE new == [what |-> "out", object |-> h, makes |-> FALSE, waits |-> {},
                     at |-> IF {} = {} THEN "listed" ELSE "waiting"]
  <2>1. /\ new \in Messages /\ new.what = "out" /\ new.object = h /\ new.makes = FALSE
        /\ new.waits = {} /\ new.at = IF {} = {} THEN "listed" ELSE "waiting"
    BY <1>3, <1>5 DEF Messages
  <2>2. /\ message' = Append(message, new)
        /\ inbox' = IF {} = {} THEN Append(inbox, m) ELSE inbox
    BY <1>3, <1>5, <1>0 DEF Receive
  <2> HIDE DEF new
  <2>3. /\ message' \in Seq(Messages) /\ DOMAIN message' = DOMAIN message \cup {m}
        /\ m \notin DOMAIN message /\ \A x \in DOMAIN message : message'[x] = message[x]
        /\ message'[m] = new /\ inbox' \in Seq(Nat) /\ InboxReady'
    BY <1>3, <1>0, <2>1, <2>2, Received
  <2> QED
    BY <2>1, <2>3
<1>7. /\ lists' \in [Kinds -> Seq(Nat)]
      /\ \A kind \in Kinds : /\ Range(lists'[kind]) = Range(lists[kind]) \ {h}
                             /\ IsInjective(lists'[kind])
  BY <1>3, Unlisted
<1>8. Owned'
  BY <1>2, <1>3, <1>5, <1>6, <1>7, HeldRemoved
<1>9. \A k \in contact \ Discus : k /= n.about => (Stays(k) => Stays(k)')
  <2> SUFFICES ASSUME NEW k \in contact \ Discus, k /= n.about PROVE Stays(k) => Stays(k)'
    OBVIOUS
  <2>1. k \in Keys /\ Kind(k) \in Kinds
    BY <1>3, KindOf
  <2>2. ASSUME NEW g \in Range(lists[Kind(k)]), key[g] = k PROVE g \in Range(lists'[Kind(k)])
    <3>1. g /= h
      BY <2>1, <2>2, <1>3, <1>4 DEF Made, Objects
    <3> QED
      BY <3>1, <2>1, <1>7
  <2> QED
    BY <2>1, <2>2, <1>2, <1>3, StaysKept
<1>10. news' \in Seq([about : Keys, what : Stories]) /\ BackAgain' /\ InSight'
  <2>1. \A k \in contact \ Discus :
          IF n.about = k /\ n.what = "in" THEN Stays(k)'
          ELSE Stays(k) /\ ~(n.about = k /\ n.what = "out") => Stays(k)'
    BY <1>9
  <2> QED
    BY <2>1, <1>2, <1>3, FirstNews
<1>11. Shaped'
  BY <1>2, <1>3, <1>6, <1>7, <1>10 DEF Shaped
<1> QED
  BY <1>6, <1>8, <1>10, <1>11 DEF IInv

LEMMA PollBringsInv == IInv /\ PollBrings => IInv'
<1> SUFFICES ASSUME IInv, PollBrings PROVE IInv'
  OBVIOUS
<1>1. PICK n : n = Head(news)
  OBVIOUS
<1>2. news /= <<>> /\ news' = Tail(news) /\ UNCHANGED <<contact, loads, quits>>
  BY DEF PollBrings
<1>3. n.about \in Keys
  BY <1>1, <1>2, HeadNews DEF IInv
<1>4. CASE n.what \in {"talk", "picture"} /\ MessageBindBuddy(n)
  BY <1>1, <1>2, <1>4, MessageBindBuddyInv
<1>5. CASE Kind(n.about) = "buddy" /\ ParseBlistChange(n)
  <2>1. Find(n.about) = FindBuddyByUin(n.about)
    BY <1>3, <1>5, KindOf DEF Find
  <2>2. PICK h : h = FindBuddyByUin(n.about)
    OBVIOUS
  <2>3. CASE n.what = "in"
    BY <1>1, <1>2, <1>5, <2>3, CameIn DEF ParseBlistChange, Kinds, Lookup
  <2>4. CASE n.what = "out"
    BY <1>1, <1>2, <1>5, <2>1, <2>2, <2>4, WentOut DEF ParseBlistChange
  <2> QED
    BY <1>5, <2>3, <2>4 DEF ParseBlistChange
<1>6. CASE Kind(n.about) = "qun" /\ ParseSysGMsg(n)
  <2>1. Find(n.about) = FindGroupByGid(n.about)
    BY <1>3, <1>6, KindOf, ContactsAssumption DEF Find
  <2>2. PICK h : h = FindGroupByGid(n.about)
    OBVIOUS
  <2>3. CASE n.what = "in"
    BY <1>1, <1>2, <1>6, <2>3, CameIn DEF ParseSysGMsg, Kinds, Lookup
  <2>4. CASE n.what = "out"
    BY <1>1, <1>2, <1>6, <2>1, <2>2, <2>4, WentOut DEF ParseSysGMsg
  <2> QED
    BY <1>6, <2>3, <2>4 DEF ParseSysGMsg
<1> QED
  BY <1>1, <1>4, <1>5, <1>6 DEF PollBrings
------------------------------------------------------------------------------
(* Lookups and the reader. *)

\* The message that waited to list an object has listed it.
LEMMA NowListed ==
  ASSUME Owned, key' = key, freed' = freed, BeingQuit' = BeingQuit,
         NEW m \in DOMAIN message, NEW h \in Objects, Waiting(m, h),
         DOMAIN message' = DOMAIN message, message'[m].at = "listed",
         \A x \in DOMAIN message :
           /\ message'[x].what = message[x].what /\ message'[x].object = message[x].object
           /\ message'[x].makes = message[x].makes
           /\ x /= m => message'[x].at = message[x].at,
         NEW kind \in Kinds, Kind(key[h]) = kind,
         \A other \in Kinds : other /= kind => lists'[other] = lists[other],
         Range(lists'[kind]) = Range(lists[kind]) \cup {h}, IsInjective(lists'[kind])
  PROVE  Owned'
<1>1. \A g : Listed(g)' <=> Listed(g) \/ g = h
  BY DEF Listed
<1>2. /\ Objects' = Objects /\ ~Listed(h) /\ h \notin freed /\ h \notin BeingQuit
      /\ \A x \in DOMAIN message : message[x].object = h => x = m
  BY DEF Owned, Unseen, Objects
<1>3. message[m].what = "talk" /\ message[m].at = "waiting"
  BY DEF Owned, Made, Waiting
<1>4. Made' /\ ListedOnce'
  <2>1. \A k \in Kinds : \A g \in Range(lists'[k]) : g \in Objects /\ Kind(key[g]) = k
    <3> SUFFICES ASSUME NEW k \in Kinds, NEW g \in Range(lists'[k])
                 PROVE  g \in Objects /\ Kind(key[g]) = k
      OBVIOUS
    <3>1. g \in Range(lists[k]) \/ (k = kind /\ g = h)
      OBVIOUS
    <3> QED
      BY <3>1 DEF Owned, Made
  <2>2. \A x \in DOMAIN message' :
          /\ message'[x].object \in Objects \cup {0}
          /\ message'[x].what = "talk" /\ message'[x].at /= "read" => message'[x].object /= 0
          /\ message'[x].makes => message'[x].what = "talk"
    BY <1>3 DEF Owned, Made
  <2> QED
    BY <1>2, <2>1, <2>2 DEF Owned, Made, ListedOnce
<1>5. Unseen'
  <2> SUFFICES ASSUME NEW x \in DOMAIN message, NEW g \in Objects, Waiting(x, g)'
               PROVE  /\ ~Listed(g)' /\ g \notin freed /\ g \notin BeingQuit
                      /\ \A y \in DOMAIN message : message[y].object = g => y = x
    BY <1>2 DEF Unseen
  <2>1. x /= m /\ Waiting(x, g) /\ g /= h
    BY <1>2 DEF Waiting
  <2> QED
    BY <2>1, <1>1 DEF Owned, Unseen
<1>6. RemovedOnce'
  <2> SUFFICES ASSUME NEW x \in DOMAIN message, NEW g \in Objects \ BeingQuit, Removing(x, g)'
               PROVE  /\ ~Listed(g)' /\ g \notin freed
                      /\ \A y \in DOMAIN message : Removing(y, g)' => y = x
    BY <1>2 DEF RemovedOnce
  <2>1. x /= m /\ Removing(x, g) /\ g /= h
    BY <1>2, <1>3 DEF Removing
  <2>2. \A y \in DOMAIN message : Removing(y, g)' => Removing(y, g)
    BY <1>3 DEF Removing
  <2> QED
    BY <2>1, <2>2, <1>1 DEF Owned, RemovedOnce
<1>7. FreedGone'
  BY <1>1, <1>2 DEF Owned, FreedGone
<1>8. Somewhere'
  <2> SUFFICES ASSUME NEW g \in Objects \ BeingQuit
               PROVE  g \in freed \/ Listed(g)' \/ \E x \in DOMAIN message : Waiting(x, g)' \/ Removing(x, g)'
    BY <1>2 DEF Somewhere
  <2>1. CASE g = h \/ g \in freed \/ Listed(g)
    BY <2>1, <1>1
  <2>2. CASE g /= h /\ \E x \in DOMAIN message : Waiting(x, g) \/ Removing(x, g)
    <3>1. PICK x \in DOMAIN message : Waiting(x, g) \/ Removing(x, g)
      BY <2>2
    <3>2. x /= m
      BY <2>2, <3>1, <1>3 DEF Waiting, Removing
    <3>3. Waiting(x, g)' \/ Removing(x, g)'
      BY <3>1, <3>2 DEF Waiting, Removing
    <3> QED
      BY <3>3
  <2> QED
    BY <2>1, <2>2 DEF Owned, Somewhere
<1> QED
  BY <1>4, <1>5, <1>6, <1>7, <1>8 DEF Owned

\* One message changes.
LEMMA MessageMarked ==
  ASSUME Shaped, NEW m \in DOMAIN message, NEW r \in Messages, message' = [message EXCEPT ![m] = r]
  PROVE  /\ message' \in Seq(Messages) /\ DOMAIN message' = DOMAIN message
         /\ message'[m] = r /\ \A x \in DOMAIN message : x /= m => message'[x] = message[x]
BY DEF Shaped

\* A lookup ends that is not the last, or one that the reader does not wait for.
LEMMA LookupLeft ==
  ASSUME IInv, NEW m \in DOMAIN message, NEW w,
         message' = [message EXCEPT ![m].waits = @ \ {w}],
         UNCHANGED <<lists, inbox, server, loads, key, freed, quits>>
  PROVE  IInv'
<1> DEFINE r == [message[m] EXCEPT !.waits = @ \ {w}]
<1>1. message[m] \in Messages /\ Shaped
  BY DEF IInv, Shaped
<1>2. r \in Messages /\ r.what = message[m].what /\ r.object = message[m].object
      /\ r.makes = message[m].makes /\ r.at = message[m].at
  BY <1>1 DEF Messages
<1>3. message' = [message EXCEPT ![m] = r]
  OBVIOUS
<1> HIDE DEF r
<1>4. /\ message' \in Seq(Messages) /\ DOMAIN message' = DOMAIN message
      /\ \A x \in DOMAIN message :
           /\ message'[x].what = message[x].what /\ message'[x].object = message[x].object
           /\ message'[x].makes = message[x].makes /\ message'[x].at = message[x].at
  BY <1>1, <1>2, <1>3, MessageMarked
<1>5. /\ UNCHANGED objects /\ inbox' = inbox /\ quits' = quits /\ load' = load /\ snapshot' = snapshot
      /\ contact' = contact /\ news' = news /\ key' = key /\ lists' = lists
      /\ BeingQuit' = BeingQuit /\ Left' = Left
  BY LeftKept DEF objects, server, loads
<1>6. Owned'
  BY <1>4, <1>5, OwnersKept DEF IInv
<1>7. InboxReady'
  BY <1>4, <1>5 DEF IInv, InboxReady
<1>8. BackAgain' /\ InSight'
  <2>1. \A k \in contact \ Discus : Stays(k) => Stays(k)'
    BY <1>5 DEF Stays
  <2> QED
    BY <2>1, <1>5, SightKept DEF IInv
<1>9. Shaped'
  BY <1>1, <1>4, <1>5 DEF Shaped
<1> QED
  BY <1>6, <1>7, <1>8, <1>9 DEF IInv

\* The last lookup ends: the object is listed, and the message after it.
LEMMA LookupDone ==
  ASSUME IInv, NEW m \in DOMAIN message, NEW w, message[m].at = "waiting",
         message' = [message EXCEPT ![m].waits = @ \ {w}, ![m].at = "listed"],
         lists' = AddPasserby(m), inbox' \in PlacesFor(m),
         UNCHANGED <<server, loads, key, freed, quits>>
  PROVE  IInv'
<1> DEFINE r == [message[m] EXCEPT !.waits = @ \ {w}, !.at = "listed"]
<1>1. /\ message[m] \in Messages /\ m \in Nat /\ Shaped /\ Made /\ Owned /\ InboxReady /\ BackAgain /\ InSight
      /\ \A k \in contact : k \in Keys
  BY DEF IInv, Shaped, Owned
<1>2. r \in Messages /\ r.what = message[m].what /\ r.object = message[m].object
      /\ r.makes = message[m].makes /\ r.at = "listed"
  BY <1>1 DEF Messages
<1>3. message' = [message EXCEPT ![m] = r]
  BY <1>1 DEF Shaped
<1> HIDE DEF r
<1>4. /\ message' \in Seq(Messages) /\ DOMAIN message' = DOMAIN message /\ message'[m].at = "listed"
      /\ \A x \in DOMAIN message :
           /\ message'[x].what = message[x].what /\ message'[x].object = message[x].object
           /\ message'[x].makes = message[x].makes
           /\ x /= m => message'[x].at = message[x].at
  BY <1>1, <1>2, <1>3, MessageMarked
<1>5. /\ quits' = quits /\ load' = load /\ snapshot' = snapshot /\ freed' = freed
      /\ contact' = contact /\ news' = news /\ key' = key
      /\ BeingQuit' = BeingQuit /\ Left' = Left
  BY LeftKept DEF server, loads
<1>6. inbox' \in Seq(Nat) /\ InboxReady'
  <2>1. inbox \in Seq(Nat) /\ IsInjective(inbox) /\ m \in Nat \ Range(inbox)
    BY <1>1 DEF InboxReady, Range, Shaped
  <2>2. PICK p \in 1 .. Len(inbox) + 1 : inbox' = InsertAt(inbox, p, m)
    BY DEF PlacesFor
  <2>3. /\ inbox' \in Seq(Nat) /\ IsInjective(inbox')
        /\ \A j \in DOMAIN inbox' : inbox'[j] \in Range(inbox) \cup {m}
    BY <2>1, <2>2, PutIn
  <2>4. \A x \in Range(inbox) : x \in DOMAIN message /\ x /= m /\ message[x].at = "listed"
    BY <1>1 DEF InboxReady, Range
  <2>5. \A j \in DOMAIN inbox' : inbox'[j] \in DOMAIN message' /\ message'[inbox'[j]].at = "listed"
    BY <2>3, <2>4, <1>4
  <2> QED
    BY <2>3, <2>5 DEF InboxReady
<1>7. /\ Owned' /\ lists' \in [Kinds -> Seq(Nat)]
      /\ \A kind \in Kinds : Range(lists[kind]) \subseteq Range(lists'[kind])
  <2>1. CASE message[m].makes
    <3>1. PICK h : h = message[m].object
      OBVIOUS
    <3>2. h \in Objects /\ Waiting(m, h) /\ h \in Nat
      BY <2>1, <3>1, <1>1 DEF Made, Waiting, Objects
    <3>3. PICK kind \in Kinds : kind = Kind(key[h])
      BY <3>2, <1>1, KindOf DEF Shaped, Objects
    <3>4. h \notin Range(lists[kind]) /\ lists[kind] \in Seq(Nat) /\ IsInjective(lists[kind])
          /\ lists \in [Kinds -> Seq(Nat)]
      BY <3>2, <1>1 DEF Owned, Unseen, Listed, ListedOnce, Shaped
    <3>5. lists' = [lists EXCEPT ![kind] = <<h>> \o lists[kind]]
      BY <2>1, <3>1, <3>3 DEF AddPasserby, Inserted
    <3>6. /\ <<h>> \o lists[kind] \in Seq(Nat) /\ IsInjective(<<h>> \o lists[kind])
          /\ Range(<<h>> \o lists[kind]) = Range(lists[kind]) \cup {h}
      BY <3>2, <3>4, InFront
    <3> DEFINE t == <<h>> \o lists[kind]
    <3> HIDE DEF t
    <3>7. /\ lists' \in [Kinds -> Seq(Nat)] /\ IsInjective(lists'[kind])
          /\ Range(lists'[kind]) = Range(lists[kind]) \cup {h}
          /\ \A other \in Kinds : other /= kind => lists'[other] = lists[other]
      BY <3>4, <3>5, <3>6 DEF t
    <3>8. Owned'
      <4>1. Owned /\ key' = key /\ freed' = freed /\ BeingQuit' = BeingQuit
        BY <1>1, <1>5
      <4>2. Kind(key[h]) = kind
        BY <3>3
      <4>3. h \in Objects /\ Waiting(m, h)
        BY <3>2
      <4> QED
        BY <4>1, <4>2, <4>3, <1>4, <3>7, NowListed, ZenonT(40)
    <3> QED
      BY <3>7, <3>8
  <2>2. CASE ~message[m].makes
    <3>1. lists' = lists /\ UNCHANGED objects
      BY <2>2, <1>5 DEF AddPasserby, objects
    <3>2. \A x \in DOMAIN message :
            /\ message'[x].what = message[x].what /\ message'[x].object = message[x].object
            /\ message'[x].makes = message[x].makes
            /\ message[x].makes => message'[x].at = message[x].at
            /\ message'[x].at = "read" <=> message[x].at = "read"
      BY <2>2, <1>4
    <3>3. Owned'
      BY <1>1, <1>4, <1>5, <3>1, <3>2, OwnersKept
    <3> QED
      BY <1>1, <3>1, <3>3 DEF Shaped
  <2> QED
    BY <2>1, <2>2
<1>8. \A k \in contact \ Discus : Stays(k) => Stays(k)'
  <2> SUFFICES ASSUME NEW k \in contact \ Discus PROVE Stays(k) => Stays(k)'
    OBVIOUS
  <2>1. Kind(k) \in Kinds /\ Range(lists[Kind(k)]) \subseteq Range(lists'[Kind(k)])
    BY <1>1, <1>7, KindOf
  <2> QED
    BY <2>1, <1>1, <1>5, StaysKept
<1>9. BackAgain' /\ InSight'
  BY <1>1, <1>5, <1>8, SightKept
<1>10. Shaped'
  BY <1>1, <1>4, <1>5, <1>6, <1>7 DEF Shaped
<1> QED
  BY <1>6, <1>7, <1>9, <1>10 DEF IInv

LEMMA LookupEndsInv ==
  ASSUME IInv, NEW m \in DOMAIN message, NEW w \in Lookup, LookupEnds(m, w)
  PROVE  IInv'
<1>1. CASE message[m].at = "waiting" /\ LastAnswer(m, w)
  BY <1>1, LookupDone DEF LookupEnds
<1>2. CASE ~(message[m].at = "waiting" /\ LastAnswer(m, w))
  BY <1>2, LookupLeft DEF LookupEnds
<1> QED
  BY <1>1, <1>2

\* The reader frees what the message removed.
LEMMA ReadMessageInv == IInv /\ ReadMessage => IInv'
<1> SUFFICES ASSUME IInv, ReadMessage PROVE IInv'
  OBVIOUS
<1>1. /\ Shaped /\ Made /\ Owned /\ InboxReady /\ BackAgain /\ InSight
      /\ Unseen /\ RemovedOnce /\ FreedGone /\ Somewhere
  BY DEF IInv, Owned
<1>2. PICK m : m = Head(inbox)
  OBVIOUS
<1>3. /\ inbox /= <<>> /\ inbox' = Tail(inbox) /\ freed' = freed \cup FreedWith(m)
      /\ message' = [message EXCEPT ![m].at = "read", ![m].object = 0]
  BY <1>2 DEF ReadMessage
<1>4. /\ quits' = quits /\ load' = load /\ snapshot' = snapshot /\ lists' = lists
      /\ contact' = contact /\ news' = news /\ key' = key
      /\ BeingQuit' = BeingQuit /\ Left' = Left /\ Objects' = Objects /\ 0 \notin Objects
  BY LeftKept DEF ReadMessage, server, loads, Objects
<1>5. /\ inbox \in Seq(Nat) /\ DOMAIN inbox = 1 .. Len(inbox) /\ Len(inbox) \in Nat /\ 1 \in DOMAIN inbox
      /\ inbox' \in Seq(Nat) /\ DOMAIN inbox' = 1 .. Len(inbox) - 1 /\ m = inbox[1]
      /\ \A i \in DOMAIN inbox' : i + 1 \in DOMAIN inbox /\ inbox'[i] = inbox[i + 1]
  BY <1>1, <1>2, <1>3 DEF Shaped
<1>6. m \in DOMAIN message /\ message[m].at = "listed" /\ message[m] \in Messages
  <2>1. m \in DOMAIN message /\ message[m].at = "listed"
    BY <1>1, <1>5 DEF InboxReady
  <2> QED
    BY <2>1, <1>1 DEF Shaped
<1> DEFINE r == [message[m] EXCEPT !.at = "read", !.object = 0]
<1>7. r \in Messages /\ r.what = message[m].what /\ r.object = 0
      /\ r.makes = message[m].makes /\ r.at = "read"
  BY <1>6 DEF Messages
<1>8. message' = [message EXCEPT ![m] = r]
  BY <1>3, <1>6, <1>1 DEF Shaped
<1> HIDE DEF r
<1>9. /\ message' \in Seq(Messages) /\ DOMAIN message' = DOMAIN message
      /\ message'[m].at = "read" /\ message'[m].object = 0
      /\ message'[m].what = message[m].what /\ message'[m].makes = message[m].makes
      /\ \A x \in DOMAIN message : x /= m => message'[x] = message[x]
  BY <1>1, <1>6, <1>7, <1>8, MessageMarked
<1>10. InboxReady'
  <2>1. \A i \in DOMAIN inbox' : inbox'[i] /= m /\ inbox'[i] \in DOMAIN message /\ message[inbox'[i]].at = "listed"
    <3>1. TAKE i \in DOMAIN inbox'
    <3>2. i + 1 /= 1 /\ i + 1 \in DOMAIN inbox /\ inbox'[i] = inbox[i + 1]
      BY <1>5
    <3>3. inbox[i + 1] /= inbox[1]
      BY <1>1, <1>5, <3>2 DEF InboxReady, IsInjective
    <3> QED
      BY <1>1, <1>5, <3>2, <3>3 DEF InboxReady
  <2>2. IsInjective(inbox')
    <3> SUFFICES ASSUME NEW a \in DOMAIN inbox', NEW b \in DOMAIN inbox', inbox'[a] = inbox'[b]
                 PROVE  a = b
      BY DEF IsInjective
    <3>1. a + 1 = b + 1
      BY <1>1, <1>5 DEF InboxReady, IsInjective
    <3> QED
      BY <3>1, <1>5
  <2> QED
    BY <2>1, <2>2, <1>9 DEF InboxReady
<1>11. \A g : Listed(g)' <=> Listed(g)
  BY <1>4 DEF Listed
<1>12. FreedWith(m) = {g \in {message[m].object} : Removing(m, g) /\ g /= 0}
  BY <1>6 DEF FreedWith, Removing
<1>13. Made' /\ ListedOnce'
  <2>1. freed' \subseteq Objects
    BY <1>1, <1>3, <1>6, <1>12 DEF Made
  <2>2. \A x \in DOMAIN message' :
          /\ message'[x].object \in Objects \cup {0}
          /\ message'[x].what = "talk" /\ message'[x].at /= "read" => message'[x].object /= 0
          /\ message'[x].makes => message'[x].what = "talk"
    BY <1>1, <1>9 DEF Made
  <2> QED
    BY <2>1, <2>2, <1>1, <1>4 DEF Owned, Made, ListedOnce
<1>14. Unseen'
  <2> SUFFICES ASSUME NEW x \in DOMAIN message, NEW g \in Objects, Waiting(x, g)'
               PROVE  /\ ~Listed(g)' /\ g \notin freed' /\ g \notin BeingQuit
                      /\ \A y \in DOMAIN message : message'[y].object = g => y = x
    BY <1>4, <1>9 DEF Unseen
  <2>1. x /= m /\ Waiting(x, g)
    BY <1>9 DEF Waiting
  <2>2. /\ ~Listed(g) /\ g \notin freed /\ g \notin BeingQuit
        /\ \A y \in DOMAIN message : message[y].object = g => y = x
    BY <1>1, <2>1 DEF Unseen
  <2>3. g \notin FreedWith(m)
    BY <1>6, <1>12, <2>1, <2>2
  <2> QED
    BY <1>3, <1>4, <1>9, <1>11, <2>2, <2>3
<1>15. RemovedOnce'
  <2> SUFFICES ASSUME NEW x \in DOMAIN message, NEW g \in Objects \ BeingQuit, Removing(x, g)'
               PROVE  /\ ~Listed(g)' /\ g \notin freed'
                      /\ \A y \in DOMAIN message : Removing(y, g)' => y = x
    BY <1>4, <1>9 DEF RemovedOnce
  <2>1. x /= m /\ Removing(x, g)
    BY <1>9 DEF Removing
  <2>2. \A y \in DOMAIN message : Removing(y, g)' => Removing(y, g)
    BY <1>9 DEF Removing
  <2>3. /\ ~Listed(g) /\ g \notin freed
        /\ \A y \in DOMAIN message : Removing(y, g) => y = x
    BY <1>1, <2>1 DEF RemovedOnce
  <2>4. g \notin FreedWith(m)
    BY <1>6, <1>12, <2>1, <2>3
  <2> QED
    BY <1>3, <1>11, <2>2, <2>3, <2>4
<1>16. FreedGone'
  <2> SUFFICES ASSUME NEW g \in freed' \ BeingQuit PROVE ~Listed(g)
    BY <1>4, <1>11 DEF FreedGone
  <2>1. CASE g \in freed
    BY <2>1, <1>1 DEF FreedGone
  <2>2. CASE g \in FreedWith(m)
    <3>1. Removing(m, g) /\ g \in Objects
      BY <2>2, <1>1, <1>6, <1>12 DEF Made
    <3> QED
      BY <3>1, <1>1, <1>6 DEF RemovedOnce
  <2> QED
    BY <2>1, <2>2, <1>3
<1>17. Somewhere'
  <2> SUFFICES ASSUME NEW g \in Objects \ BeingQuit
               PROVE  g \in freed' \/ Listed(g)' \/ \E x \in DOMAIN message : Waiting(x, g)' \/ Removing(x, g)'
    BY <1>4, <1>9 DEF Somewhere
  <2>1. CASE g \in freed \/ Listed(g)
    BY <2>1, <1>3, <1>11
  <2>2. CASE \E x \in DOMAIN message : Waiting(x, g) \/ Removing(x, g)
    <3>1. PICK x \in DOMAIN message : Waiting(x, g) \/ Removing(x, g)
      BY <2>2
    <3>2. CASE x = m
      <4>1. Removing(m, g) /\ message[m].object = g
        BY <3>1, <3>2, <1>6 DEF Waiting, Removing
      <4>2. g \in FreedWith(m)
        BY <4>1, <1>4, <1>12
      <4> QED
        BY <4>2, <1>3
    <3>3. CASE x /= m
      <4>1. Waiting(x, g)' \/ Removing(x, g)'
        BY <3>1, <3>3, <1>9 DEF Waiting, Removing
      <4> QED
        BY <4>1
    <3> QED
      BY <3>2, <3>3
  <2> QED
    BY <2>1, <2>2, <1>1 DEF Somewhere
<1>18. BackAgain' /\ InSight'
  <2>1. \A k \in contact \ Discus : Stays(k) => Stays(k)'
    BY <1>4 DEF Stays
  <2> QED
    BY <2>1, <1>1, <1>4, SightKept
<1>19. Shaped'
  BY <1>1, <1>4, <1>5, <1>9 DEF Shaped
<1> QED
  BY <1>10, <1>13, <1>14, <1>15, <1>16, <1>17, <1>18, <1>19 DEF IInv, Owned
------------------------------------------------------------------------------
(* Loading the lists, and leaving groups. *)

LEMMA GetListInv ==
  ASSUME IInv, NEW kind \in Kinds, GetList(kind)
  PROVE  IInv'
<1>1. /\ load[kind] = "none" /\ load' = [load EXCEPT ![kind] = "sent"]
      /\ snapshot' = [snapshot EXCEPT ![kind] = contact \cap OfKind(kind)]
      /\ UNCHANGED objects /\ UNCHANGED messages /\ quits' = quits /\ contact' = contact /\ news' = news
  BY DEF GetList, server
<1>2. /\ key' = key /\ lists' = lists /\ message' = message /\ inbox' = inbox
      /\ BeingQuit' = BeingQuit /\ Left' = Left
  BY <1>1, LeftKept DEF objects, messages
<1>3. Owned'
  BY <1>1, <1>2, OwnersKept DEF IInv
<1>4. InboxReady'
  BY <1>1, MessagesKept DEF IInv
<1>5. /\ load' \in [Kinds -> {"none", "sent", "done"}] /\ load'[kind] = "sent"
      /\ snapshot' \in [Kinds -> SUBSET Keys] /\ snapshot'[kind] = contact \cap OfKind(kind)
      /\ \A other \in Kinds : other /= kind => load'[other] = load[other] /\ snapshot'[other] = snapshot[other]
      /\ \A other \in Kinds : snapshot'[other] \subseteq OfKind(other)
  BY <1>1 DEF IInv, Shaped
<1>6. BackAgain'
  BY <1>1 DEF IInv, BackAgain
<1>7. InSight'
  <2> SUFFICES ASSUME NEW k \in contact \ Discus, NoNews(k)
               PROVE  /\ load'[Kind(k)] = "done" => Stays(k)'
                      /\ load'[Kind(k)] = "sent" => k \in snapshot'[Kind(k)] \/ Stays(k)'
    BY <1>1 DEF InSight, NoNews
  <2>1. Kind(k) \in Kinds /\ k \in OfKind(Kind(k))
    BY KindOf DEF IInv, Shaped
  <2>2. Stays(k)' <=> Stays(k)
    BY <1>2 DEF Stays
  <2>3. CASE Kind(k) = kind
    BY <2>1, <2>3, <1>5
  <2>4. CASE Kind(k) /= kind
    BY <2>1, <2>2, <2>4, <1>5 DEF IInv, InSight
  <2> QED
    BY <2>3, <2>4
<1>8. Shaped'
  BY <1>1, <1>2, <1>5 DEF IInv, Shaped
<1> QED
  BY <1>3, <1>4, <1>6, <1>7, <1>8 DEF IInv

\* The list that came has a new object for everyone in the snapshot.
LEMMA Loaded ==
  ASSUME Shaped, Made, ListedOnce, NEW kind \in Kinds, ListAll(kind, snapshot[kind])
  PROVE  \E New :
           /\ New \cap Objects = {} /\ 0 \notin New /\ Objects' = Objects \cup New /\ key' \in Seq(Keys)
           /\ \A g \in Objects : key'[g] = key[g]
           /\ \A h \in New : key'[h] \in snapshot[kind]
           /\ \A k \in snapshot[kind] : \E h \in New : key'[h] = k
           /\ lists' \in [Kinds -> Seq(Nat)]
           /\ \A other \in Kinds : other /= kind => lists'[other] = lists[other]
           /\ Range(lists'[kind]) = Range(lists[kind]) \cup New /\ IsInjective(lists'[kind])
<1> DEFINE new == SetToSeq(snapshot[kind])
           n == Len(new)
           b == Len(key)
           front == [i \in 1 .. n |-> b + n + 1 - i]
           New == b + 1 .. b + n
<1>1. snapshot[kind] \subseteq Keys /\ IsFiniteSet(snapshot[kind])
  <2>1. snapshot[kind] \subseteq Keys
    BY DEF Shaped
  <2> QED
    BY <2>1, ContactsAssumption, FS_Subset DEF Keys
<1>2. /\ new \in Seq(Keys) /\ new \in Seq(snapshot[kind]) /\ Range(new) = snapshot[kind]
  <2>1. new \in Seq(snapshot[kind]) /\ Range(new) = snapshot[kind]
    BY <1>1, AsSequence
  <2> HIDE DEF new
  <2> QED
    BY <2>1, <1>1
<1>3. /\ key' = key \o new /\ lists' = [lists EXCEPT ![kind] = front \o lists[kind]]
  BY DEF ListAll
<1> HIDE DEF new
<1>4. /\ n \in Nat /\ b \in Nat /\ DOMAIN new = 1 .. n /\ key \in Seq(Keys) /\ Objects = 1 .. b
  BY <1>2 DEF Shaped, Objects
<1>5. /\ key' \in Seq(Keys) /\ Len(key') = b + n
      /\ \A j \in 1 .. b + n : key'[j] = IF j <= b THEN key[j] ELSE new[j - b]
  BY <1>2, <1>3, <1>4, ConcatProperties
<1> HIDE DEF n, b
<1>6. /\ Objects' = Objects \cup New /\ New \cap Objects = {} /\ 0 \notin New
  BY <1>4, <1>5 DEF Objects
<1>7. \A g \in Objects : key'[g] = key[g]
  BY <1>4, <1>5
<1>8. \A h \in New : h - b \in DOMAIN new /\ key'[h] = new[h - b]
  <2>1. TAKE h \in New
  <2>2. h \in 1 .. b + n /\ ~(h <= b) /\ h - b \in 1 .. n
    BY <1>4
  <2> QED
    BY <2>2, <1>4, <1>5
<1>9. \A h \in New : key'[h] \in snapshot[kind]
  BY <1>2, <1>8 DEF Range
<1>10. \A k \in snapshot[kind] : \E h \in New : key'[h] = k
  <2>1. TAKE k \in snapshot[kind]
  <2>2. PICK i \in 1 .. n : new[i] = k
    BY <1>2, <1>4 DEF Range
  <2>3. b + i \in New /\ (b + i) - b = i
    BY <1>4
  <2>4. key'[b + i] = k
    BY <2>2, <2>3, <1>8
  <2> QED
    BY <2>3, <2>4
<1>11. front \in Seq(Nat) /\ Range(front) = New /\ IsInjective(front)
  <2>1. \A i \in 1 .. n : b + n + 1 - i \in New /\ b + n + 1 - i \in Nat
    BY <1>4
  <2>2. /\ DOMAIN front = 1 .. n /\ front \in Seq(Nat)
        /\ \A i \in 1 .. n : front[i] = b + n + 1 - i
    BY <2>1, <1>4
  <2> HIDE DEF front
  <2>3. \A h \in New : \E i \in 1 .. n : front[i] = h
    <3>1. TAKE h \in New
    <3>2. b + n + 1 - h \in 1 .. n /\ b + n + 1 - (b + n + 1 - h) = h
      BY <1>4
    <3> QED
      BY <3>2, <2>2
  <2>4. Range(front) = New
    <3> HIDE DEF New
    <3> QED
      BY <2>1, <2>2, <2>3 DEF Range
  <2>5. \A i, j \in 1 .. n : front[i] = front[j] => i = j
    BY <2>2, <1>4
  <2> QED
    BY <2>2, <2>4, <2>5 DEF IsInjective
<1> HIDE DEF front
<1>12. /\ lists[kind] \in Seq(Nat) /\ lists \in [Kinds -> Seq(Nat)] /\ IsInjective(lists[kind])
       /\ Range(lists[kind]) \subseteq Objects
  BY DEF Shaped, Made, ListedOnce
<1> DEFINE t == front \o lists[kind]
<1>13. t \in Seq(Nat) /\ Range(t) = New \cup Range(lists[kind]) /\ IsInjective(t)
  <2> HIDE DEF New
  <2>1. Range(lists[kind]) \cap Range(front) = {}
    BY <1>6, <1>11, <1>12
  <2> QED
    BY <2>1, <1>11, <1>12, Joint
<1> HIDE DEF t, New
<1>14. /\ lists' \in [Kinds -> Seq(Nat)] /\ lists'[kind] = t
       /\ \A other \in Kinds : other /= kind => lists'[other] = lists[other]
  BY <1>3, <1>12, <1>13 DEF t
<1>15. Range(lists'[kind]) = Range(lists[kind]) \cup New /\ IsInjective(lists'[kind])
  BY <1>13, <1>14
<1> QED
  BY <1>5, <1>6, <1>7, <1>9, <1>10, <1>14, <1>15

\* The list came, or an error.
LEMMA ListBackInv ==
  ASSUME IInv, NEW kind \in Kinds, ListBack(kind)
  PROVE  IInv'
<1>1. /\ load[kind] = "sent" /\ snapshot' = [snapshot EXCEPT ![kind] = {}]
      /\ UNCHANGED messages /\ quits' = quits /\ contact' = contact /\ news' = news /\ freed' = freed
      /\ BeingQuit' = BeingQuit /\ Left' = Left
  BY LeftKept DEF ListBack, server
<1>2. /\ Shaped /\ Made /\ Owned /\ ListedOnce /\ InboxReady /\ BackAgain /\ InSight
      /\ \A k \in contact : k \in Keys
  BY DEF IInv, Owned, Shaped
<1>3. message' = message /\ inbox' = inbox /\ InboxReady'
  BY <1>1, <1>2, MessagesKept DEF messages
<1>4. /\ snapshot' \in [Kinds -> SUBSET Keys] /\ snapshot'[kind] = {}
      /\ \A other \in Kinds : other /= kind => snapshot'[other] = snapshot[other]
      /\ \A other \in Kinds : snapshot'[other] \subseteq OfKind(other)
  BY <1>1, <1>2 DEF Shaped
<1>5. BackAgain'
  BY <1>1, <1>2 DEF BackAgain
<1>6. CASE ListAll(kind, snapshot[kind]) /\ load' = [load EXCEPT ![kind] = "done"]
  <2>1. /\ load' \in [Kinds -> {"none", "sent", "done"}] /\ load'[kind] = "done"
        /\ \A other \in Kinds : other /= kind => load'[other] = load[other]
    BY <1>2, <1>6 DEF Shaped
  <2>2. PICK New :
           /\ New \cap Objects = {} /\ 0 \notin New /\ Objects' = Objects \cup New /\ key' \in Seq(Keys)
           /\ \A g \in Objects : key'[g] = key[g]
           /\ \A h \in New : key'[h] \in snapshot[kind]
           /\ \A k \in snapshot[kind] : \E h \in New : key'[h] = k
           /\ lists' \in [Kinds -> Seq(Nat)]
           /\ \A other \in Kinds : other /= kind => lists'[other] = lists[other]
           /\ Range(lists'[kind]) = Range(lists[kind]) \cup New /\ IsInjective(lists'[kind])
    BY <1>2, <1>6, Loaded
  <2>3. \A h \in New : Kind(key'[h]) = kind
    BY <1>2, <2>2 DEF Shaped, OfKind
  <2>4. Owned'
    <3>1. Owned /\ freed' = freed /\ BeingQuit' = BeingQuit
      BY <1>1, <1>2
    <3>2. /\ DOMAIN message \subseteq DOMAIN message'
          /\ \A x \in DOMAIN message : message'[x] = message[x]
          /\ \A x \in DOMAIN message' \ DOMAIN message :
               message'[x].what = "in" /\ message'[x].object \in New /\ ~message'[x].makes
      BY <1>3
    <3> QED
      BY <3>1, <3>2, <2>2, <2>3, ListedNew, ZenonT(40)
  <2>5. InSight'
    <3> SUFFICES ASSUME NEW k \in contact \ Discus, NoNews(k)
                 PROVE  /\ load'[Kind(k)] = "done" => Stays(k)'
                        /\ load'[Kind(k)] = "sent" => k \in snapshot'[Kind(k)] \/ Stays(k)'
      BY <1>1 DEF InSight, NoNews
    <3>1. Kind(k) \in Kinds /\ k \in Keys
      BY <1>2, KindOf
    <3>2. Stays(k) => Stays(k)'
      <4>1. Range(lists[Kind(k)]) \subseteq Range(lists'[Kind(k)])
        BY <3>1, <2>2
      <4> QED
        BY <4>1, <3>1, <1>1, <1>2, <2>2, StaysKept
    <3>3. CASE Kind(k) = kind
      <4>1. k \in snapshot[kind] \/ Stays(k)
        BY <3>3, <1>1, <1>2 DEF InSight
      <4>2. CASE k \in snapshot[kind]
        <5>1. PICK h \in New : key'[h] = k
          BY <4>2, <2>2
        <5>2. h \in Range(lists'[Kind(k)]) /\ h \notin Left'
          BY <5>1, <3>3, <2>2, <1>1, <1>2, QuitMade
        <5> QED
          BY <5>1, <5>2 DEF Stays
      <4> QED
        BY <4>1, <4>2, <3>2, <3>3, <2>1
    <3>4. CASE Kind(k) /= kind
      BY <3>1, <3>2, <3>4, <1>2, <1>4, <2>1 DEF InSight
    <3> QED
      BY <3>3, <3>4
  <2>6. Shaped'
    BY <1>1, <1>2, <1>3, <1>4, <2>1, <2>2 DEF Shaped
  <2> QED
    BY <1>3, <1>5, <2>4, <2>5, <2>6 DEF IInv
<1>7. CASE load' = [load EXCEPT ![kind] = "none"] /\ UNCHANGED <<key, lists>>
  <2>1. /\ load' \in [Kinds -> {"none", "sent", "done"}] /\ load'[kind] = "none"
        /\ \A other \in Kinds : other /= kind => load'[other] = load[other]
    BY <1>2, <1>7 DEF Shaped
  <2>2. UNCHANGED objects /\ key' = key /\ lists' = lists
    BY <1>1, <1>7 DEF objects
  <2>3. Owned'
    BY <1>1, <1>2, <1>3, <2>2, OwnersKept
  <2>4. InSight'
    <3> SUFFICES ASSUME NEW k \in contact \ Discus, NoNews(k)
                 PROVE  /\ load'[Kind(k)] = "done" => Stays(k)'
                        /\ load'[Kind(k)] = "sent" => k \in snapshot'[Kind(k)] \/ Stays(k)'
      BY <1>1 DEF InSight, NoNews
    <3>1. Kind(k) \in Kinds
      BY <1>2, KindOf
    <3>2. Stays(k)' <=> Stays(k)
      BY <1>1, <2>2 DEF Stays
    <3> QED
      BY <3>1, <3>2, <1>2, <1>4, <2>1 DEF InSight
  <2>5. Shaped'
    BY <1>1, <1>2, <1>3, <1>4, <2>1, <2>2 DEF Shaped
  <2> QED
    BY <1>3, <1>5, <2>3, <2>4, <2>5 DEF IInv
<1> QED
  BY <1>6, <1>7 DEF ListBack

\* More groups are being quit, and perhaps one more is freed: what is said of the
\* others stays.
LEMMA QuitsOwned ==
  ASSUME Owned, key' = key, message' = message, BeingQuit \subseteq BeingQuit',
         NEW h \in Objects, Listed(h) \/ h \in BeingQuit, h \in BeingQuit',
         BeingQuit' \subseteq BeingQuit \cup {h},
         freed' \subseteq freed \cup {h}, freed \subseteq freed',
         \A kind \in Kinds : /\ Range(lists'[kind]) \subseteq Range(lists[kind])
                             /\ Range(lists[kind]) \subseteq Range(lists'[kind]) \cup {h}
                             /\ IsInjective(lists'[kind])
  PROVE  Owned'
<1>1. \A g : /\ Listed(g)' => Listed(g)
             /\ g /= h => (Listed(g)' <=> Listed(g))
  BY DEF Listed
<1>2. Objects' = Objects
  BY DEF Objects
<1>3. Made' /\ ListedOnce'
  BY <1>2 DEF Owned, Made, ListedOnce
<1>4. Unseen'
  <2> SUFFICES ASSUME NEW x \in DOMAIN message, NEW g \in Objects, Waiting(x, g)
               PROVE  /\ ~Listed(g)' /\ g \notin freed' /\ g \notin BeingQuit'
                      /\ \A y \in DOMAIN message : message[y].object = g => y = x
    BY <1>2 DEF Unseen, Waiting
  <2>1. /\ ~Listed(g) /\ g \notin freed /\ g \notin BeingQuit
        /\ \A y \in DOMAIN message : message[y].object = g => y = x
    BY DEF Owned, Unseen
  <2> QED
    BY <2>1, <1>1
<1>5. RemovedOnce'
  <2> SUFFICES ASSUME NEW x \in DOMAIN message, NEW g \in Objects \ BeingQuit', Removing(x, g)
               PROVE  /\ ~Listed(g)' /\ g \notin freed'
                      /\ \A y \in DOMAIN message : Removing(y, g) => y = x
    BY <1>2 DEF RemovedOnce, Removing
  <2> QED
    BY <1>1 DEF Owned, RemovedOnce
<1>6. FreedGone'
  <2> SUFFICES ASSUME NEW g \in freed' \ BeingQuit' PROVE ~Listed(g)'
    BY DEF FreedGone
  <2> QED
    BY <1>1 DEF Owned, FreedGone
<1>7. Somewhere'
  <2> SUFFICES ASSUME NEW g \in Objects \ BeingQuit'
               PROVE  g \in freed' \/ Listed(g)' \/ \E x \in DOMAIN message : Waiting(x, g) \/ Removing(x, g)
    BY <1>2 DEF Somewhere, Waiting, Removing
  <2> QED
    BY <1>1 DEF Owned, Somewhere
<1> QED
  BY <1>3, <1>4, <1>5, <1>6, <1>7 DEF Owned

LEMMA DeleteGroupInv ==
  ASSUME IInv, NEW h \in Objects, DeleteGroup(h)
  PROVE  IInv'
<1> DEFINE new == [group |-> h, at |-> "server"]
           n == Len(quits) + 1
<1>1. /\ h \in Range(lists["qun"]) \cup Range(lists["discu"]) /\ quits' = Append(quits, new)
      /\ UNCHANGED loads /\ UNCHANGED messages /\ lists' = lists /\ freed' = freed /\ key' = key
      /\ contact' = contact /\ news' = news /\ message' = message /\ inbox' = inbox
      /\ load' = load /\ snapshot' = snapshot
  BY DEF DeleteGroup, server, loads, objects, messages
<1>2. /\ Shaped /\ Made /\ Owned /\ ListedOnce /\ InboxReady /\ BackAgain /\ InSight
  BY DEF IInv, Owned
<1>3. h \in Nat /\ Listed(h)
  BY <1>1 DEF Objects, Listed, Kinds
<1>4. new \in Quits /\ new.group = h /\ new.at = "server"
  BY <1>3 DEF Quits
<1> HIDE DEF new
<1>5. /\ quits' \in Seq(Quits) /\ DOMAIN quits' = DOMAIN quits \cup {n} /\ quits'[n] = new
      /\ \A q \in DOMAIN quits : quits'[q] = quits[q]
  BY <1>1, <1>2, <1>4 DEF Shaped
<1> HIDE DEF n
<1>6. BeingQuit' = BeingQuit \cup {h} /\ Left' = Left
  <2>1. BeingQuit' = BeingQuit \cup {h}
    BY <1>4, <1>5 DEF BeingQuit
  <2>2. {x \in DOMAIN quits' : quits'[x].at = "left"} = {x \in DOMAIN quits : quits[x].at = "left"}
    BY <1>4, <1>5
  <2> QED
    BY <2>1, <2>2, <1>5 DEF Left
<1>7. Owned'
  BY <1>1, <1>2, <1>3, <1>6, QuitsOwned DEF ListedOnce
<1>8. InboxReady'
  BY <1>1, <1>2, MessagesKept
<1>9. BackAgain' /\ InSight'
  <2>1. \A k \in contact \ Discus : Stays(k) => Stays(k)'
    BY <1>1, <1>6 DEF Stays
  <2> QED
    BY <2>1, <1>1, <1>2, SightKept
<1>10. Shaped'
  BY <1>1, <1>2, <1>5 DEF Shaped
<1> QED
  BY <1>7, <1>8, <1>9, <1>10 DEF IInv

\* One quit gets another mark.
LEMMA QuitMarked ==
  ASSUME Shaped, NEW q \in DOMAIN quits, NEW at \in {"server", "left", "failed", "answered"},
         quits' = [quits EXCEPT ![q].at = at]
  PROVE  /\ quits' \in Seq(Quits) /\ BeingQuit' = BeingQuit
         /\ Left' \subseteq Left \cup (IF at = "left" THEN {quits[q].group} ELSE {})
<1>1. quits \in Seq(Quits) /\ quits[q] \in Quits
  BY DEF Shaped
<1> DEFINE r == [quits[q] EXCEPT !.at = at]
<1>2. r \in Quits /\ r.group = quits[q].group /\ r.at = at
  BY <1>1 DEF Quits
<1>3. quits' = [quits EXCEPT ![q] = r]
  OBVIOUS
<1> HIDE DEF r
<1>4. /\ quits' \in Seq(Quits) /\ DOMAIN quits' = DOMAIN quits /\ quits'[q] = r
      /\ \A x \in DOMAIN quits : x /= q => quits'[x] = quits[x]
  BY <1>1, <1>2, <1>3
<1>5. \A x \in DOMAIN quits : quits'[x].group = quits[x].group
  BY <1>2, <1>4
<1>6. BeingQuit' = BeingQuit
  BY <1>4, <1>5 DEF BeingQuit
<1>7. Left' \subseteq Left \cup (IF at = "left" THEN {quits[q].group} ELSE {})
  <2> SUFFICES ASSUME NEW x \in DOMAIN quits, quits'[x].at = "left"
               PROVE  \/ quits[x].group \in Left
                      \/ at = "left" /\ quits[x].group = quits[q].group
    BY <1>4, <1>5 DEF Left
  <2>1. CASE x = q
    BY <2>1, <1>2, <1>4
  <2>2. CASE x /= q
    BY <2>2, <1>4 DEF Left
  <2> QED
    BY <2>1, <2>2
<1> QED
  BY <1>4, <1>6, <1>7

LEMMA QuitServedInv ==
  ASSUME IInv, NEW q \in DOMAIN quits, QuitServed(q)
  PROVE  IInv'
<1> DEFINE g == key[quits[q].group]
<1>1. /\ UNCHANGED objects /\ UNCHANGED messages /\ lists' = lists /\ key' = key
      /\ news' = news /\ message' = message /\ inbox' = inbox
      /\ load' = load /\ snapshot' = snapshot
  BY DEF QuitServed, loads, objects, messages
<1>2. /\ Shaped /\ Owned /\ InboxReady /\ BackAgain /\ InSight
  BY DEF IInv
<1>3. PICK at \in {"left", "failed"} :
        /\ quits' = [quits EXCEPT ![q].at = at]
        /\ \/ contact' = contact \ {g}
           \/ contact' = contact /\ at = "failed"
  BY DEF QuitServed
<1>4. /\ quits' \in Seq(Quits) /\ BeingQuit' = BeingQuit
      /\ Left' \subseteq Left \cup (IF at = "left" THEN {quits[q].group} ELSE {})
  BY <1>2, <1>3, QuitMarked
<1>5. Owned'
  BY <1>1, <1>2, <1>4, OwnersKept
<1>6. InboxReady'
  BY <1>1, <1>2, MessagesKept
<1>7. ASSUME NEW k \in contact', Stays(k)
      PROVE  k \in contact /\ Stays(k)'
  <2>1. PICK h \in Range(lists[Kind(k)]) : key[h] = k /\ h \notin Left
    BY <1>7 DEF Stays
  <2>2. h \notin Left'
    BY <1>3, <1>4, <2>1
  <2> QED
    BY <1>1, <1>3, <2>1, <2>2 DEF Stays
<1>8. contact' \subseteq contact
  BY <1>3
<1>9. BackAgain'
  BY <1>1, <1>2, <1>8 DEF BackAgain
<1>10. InSight'
  <2> SUFFICES ASSUME NEW k \in contact' \ Discus, NoNews(k)
               PROVE  /\ load[Kind(k)] = "done" => Stays(k)'
                      /\ load[Kind(k)] = "sent" => k \in snapshot[Kind(k)] \/ Stays(k)'
    BY <1>1 DEF InSight, NoNews
  <2> QED
    BY <1>2, <1>7, <1>8 DEF InSight
<1>11. Shaped'
  BY <1>1, <1>2, <1>4, <1>8 DEF Shaped
<1> QED
  BY <1>5, <1>6, <1>9, <1>10, <1>11 DEF IInv

\* The group that left the account is unlisted and freed; it was being quit.
LEMMA QuitBackInv ==
  ASSUME IInv, NEW q \in DOMAIN quits, QuitBack(q)
  PROVE  IInv'
<1>1. PICK h : h = quits[q].group
  OBVIOUS
<1>2. /\ quits' = [quits EXCEPT ![q].at = "answered"] /\ UNCHANGED messages /\ key' = key
      /\ contact' = contact /\ news' = news /\ message' = message /\ inbox' = inbox
      /\ load' = load /\ snapshot' = snapshot
      /\ quits[q].at \in {"left", "failed"} /\ DoDeleteGroup(q)
  BY DEF QuitBack, server, loads, messages
<1>3. /\ Shaped /\ Made /\ Owned /\ ListedOnce /\ InboxReady /\ BackAgain /\ InSight
      /\ \A k \in contact : k \in Keys
  BY DEF IInv, Owned, Shaped
<1>4. quits' \in Seq(Quits) /\ BeingQuit' = BeingQuit /\ Left' \subseteq Left
  BY <1>2, <1>3, QuitMarked
<1>5. h \in BeingQuit /\ h \in Objects
  BY <1>1, <1>3 DEF BeingQuit, Made
<1>6. InboxReady'
  BY <1>2, <1>3, MessagesKept
<1>7. /\ lists' \in [Kinds -> Seq(Nat)] /\ Owned'
      /\ \A kind \in Kinds : \A x \in Range(lists[kind]) : x \in Left \/ x \in Range(lists'[kind])
  <2>1. CASE quits[q].at = "left"
    <3>1. lists' = Removed(h) /\ freed' = freed \cup {h} /\ h \in Left
      BY <2>1, <1>1, <1>2 DEF DoDeleteGroup, Left
    <3>2. /\ lists' \in [Kinds -> Seq(Nat)]
          /\ \A kind \in Kinds : /\ Range(lists'[kind]) = Range(lists[kind]) \ {h}
                                 /\ IsInjective(lists'[kind])
      BY <3>1, <1>3, Unlisted
    <3>3. Owned'
      BY <1>2, <1>3, <1>4, <1>5, <3>1, <3>2, QuitsOwned
    <3> QED
      BY <3>1, <3>2, <3>3
  <2>2. CASE quits[q].at /= "left"
    <3>1. lists' = lists /\ freed' = freed
      BY <2>2, <1>2 DEF DoDeleteGroup
    <3>2. Owned'
      BY <1>2, <1>3, <1>4, <1>5, <3>1, QuitsOwned DEF ListedOnce
    <3> QED
      BY <3>1, <3>2, <1>3 DEF Shaped
  <2> QED
    BY <2>1, <2>2
<1>8. \A k \in contact \ Discus : Stays(k) => Stays(k)'
  <2> SUFFICES ASSUME NEW k \in contact \ Discus, Stays(k) PROVE Stays(k)'
    OBVIOUS
  <2>1. Kind(k) \in Kinds
    BY <1>3, KindOf
  <2>2. PICK x \in Range(lists[Kind(k)]) : key[x] = k /\ x \notin Left
    BY DEF Stays
  <2> QED
    BY <2>1, <2>2, <1>2, <1>4, <1>7 DEF Stays
<1>9. BackAgain' /\ InSight'
  BY <1>2, <1>3, <1>8, SightKept
<1>10. Shaped'
  BY <1>2, <1>3, <1>4, <1>7 DEF Shaped
<1> QED
  BY <1>6, <1>7, <1>9, <1>10 DEF IInv
------------------------------------------------------------------------------
LEMMA InitInv == Init => IInv
<1> SUFFICES ASSUME Init PROVE IInv
  OBVIOUS
<1> USE DEF Init
<1>1. Shaped
  BY DEF Shaped, Kinds
<1>2. /\ Objects = {} /\ BeingQuit = {} /\ DOMAIN message = {} /\ DOMAIN news = {}
      /\ \A kind \in Kinds : lists[kind] = <<>> /\ Range(lists[kind]) = {}
  BY DEF Objects, BeingQuit, Range
<1>3. ListedOnce
  BY <1>2 DEF ListedOnce, IsInjective
<1>4. Owned
  <2>1. Made
    BY <1>2 DEF Made
  <2>2. Unseen /\ RemovedOnce /\ FreedGone /\ Somewhere
    BY <1>2 DEF Unseen, RemovedOnce, FreedGone, Somewhere
  <2> QED
    BY <1>3, <2>1, <2>2 DEF Owned
<1>5. InboxReady
  BY DEF InboxReady, IsInjective
<1>6. BackAgain
  BY <1>2 DEF BackAgain
<1>7. InSight
  <2>1. ASSUME NEW k \in contact PROVE load[Kind(k)] = "none"
    BY <2>1, KindOf
  <2> QED
    BY <2>1 DEF InSight
<1> QED
  BY <1>1, <1>4, <1>5, <1>6, <1>7 DEF IInv

LEMMA StutterInv == IInv /\ UNCHANGED vars => IInv'
<1> SUFFICES ASSUME IInv, UNCHANGED vars PROVE IInv'
  OBVIOUS
<1>1. /\ UNCHANGED objects /\ UNCHANGED messages /\ quits' = quits /\ message' = message /\ inbox' = inbox
      /\ contact' = contact /\ news' = news /\ load' = load /\ snapshot' = snapshot
      /\ key' = key /\ lists' = lists /\ BeingQuit' = BeingQuit /\ Left' = Left
  BY LeftKept DEF vars, objects, messages
<1>2. Owned' /\ InboxReady'
  BY <1>1, OwnersKept, MessagesKept DEF IInv
<1>3. \A k \in contact \ Discus : Stays(k) => Stays(k)'
  BY <1>1 DEF Stays
<1>4. BackAgain' /\ InSight'
  BY <1>1, <1>3, SightKept DEF IInv
<1>5. Shaped'
  BY <1>1 DEF IInv, Shaped
<1> QED
  BY <1>2, <1>4, <1>5 DEF IInv

LEMMA StepInv == IInv /\ [Next]_vars => IInv'
<1> SUFFICES ASSUME IInv, [Next]_vars PROVE IInv'
  OBVIOUS
<1>1. CASE \E k \in Keys : ServerAdds(k) \/ ServerDrops(k) \/ SomebodyTalks(k)
  <2>1. ASSUME NEW k \in Keys, ServerDrops(k) PROVE IInv'
    BY <2>1, DropInv DEF ServerDrops
  <2> QED
    BY <1>1, <2>1, ServerAddsInv, SomebodyTalksInv
<1>2. CASE PollBrings \/ ReadMessage
  BY <1>2, PollBringsInv, ReadMessageInv
<1>3. CASE \E m \in DOMAIN message : \E w \in Lookup : LookupEnds(m, w)
  BY <1>3, LookupEndsInv
<1>4. CASE \E kind \in Kinds : GetList(kind) \/ ListBack(kind)
  BY <1>4, GetListInv, ListBackInv
<1>5. CASE \E h \in Objects : DeleteFriend(h) \/ DeleteGroup(h)
  BY <1>5, DeleteFriendInv, DeleteGroupInv
<1>6. CASE \E q \in DOMAIN quits : QuitServed(q) \/ QuitBack(q)
  BY <1>6, QuitServedInv, QuitBackInv
<1>7. CASE UNCHANGED vars
  BY <1>7, StutterInv
<1> QED
  BY <1>1, <1>2, <1>3, <1>4, <1>5, <1>6, <1>7 DEF Next

\* The friends and groups keep their owners, the message list its senders, and the
\* loaded lists everyone the server counts, whatever else goes on.
THEOREM ContactsInvariance == Spec => []IInv
<1>1. IInv /\ [Next]_vars => IInv'
  BY StepInv
<1> QED
  BY <1>1, InitInv, PTL DEF Spec

\* A list is asked for as often as the bound allows.
AskedInBound == asked \in 0 .. MaxLoads

LEMMA AskedBounded == Spec => []AskedInBound
<1>1. Init => AskedInBound
  BY ContactsAssumption DEF Init, AskedInBound
<1>2. AskedInBound /\ [Next]_vars => AskedInBound'
  <2> SUFFICES ASSUME AskedInBound, [Next]_vars
               PROVE  asked' = asked \/ (asked < MaxLoads /\ asked' = asked + 1)
    BY ContactsAssumption DEF AskedInBound
  <2>1. CASE \E k \in Keys : ServerAdds(k) \/ ServerDrops(k) \/ SomebodyTalks(k)
    BY <2>1 DEF ServerAdds, ServerDrops, SomebodyTalks, OnlyServer, loads
  <2>2. CASE PollBrings \/ ReadMessage
    BY <2>2 DEF PollBrings, ReadMessage, loads
  <2>3. CASE \E m \in DOMAIN message : \E w \in Lookup : LookupEnds(m, w)
    BY <2>3 DEF LookupEnds, loads
  <2>4. CASE \E kind \in Kinds : GetList(kind) \/ ListBack(kind)
    BY <2>4 DEF GetList, ListBack
  <2>5. CASE \E h \in Objects : DeleteFriend(h) \/ DeleteGroup(h)
    BY <2>5 DEF DeleteFriend, DeleteGroup, OnlyServer, loads
  <2>6. CASE \E q \in DOMAIN quits : QuitServed(q) \/ QuitBack(q)
    BY <2>6 DEF QuitServed, QuitBack, loads
  <2>7. CASE UNCHANGED vars
    BY <2>7 DEF vars
  <2> QED
    BY <2>1, <2>2, <2>3, <2>4, <2>5, <2>6, <2>7 DEF Next
<1> QED
  BY <1>1, <1>2, PTL DEF Spec

\* The lists name objects that were made, the message list and the quits name messages
\* and groups that there are (type.h:185-341, msg.c:50-60).
THEOREM TypeCorrect == Spec => []TypeOK
<1>1. IInv /\ AskedInBound => TypeOK
  <2> SUFFICES ASSUME IInv, AskedInBound PROVE TypeOK
    OBVIOUS
  <2>1. Shaped /\ Made /\ InboxReady
    BY DEF IInv, Owned
  <2>2. lists \in [Kinds -> Seq(Objects)]
    <3>1. ASSUME NEW kind \in Kinds PROVE lists[kind] \in Seq(Objects)
      <4> DEFINE s == lists[kind]
      <4>1. s \in Seq(Nat) /\ \A i \in DOMAIN s : s[i] \in Objects
        BY <2>1 DEF Shaped, Made, Range
      <4> HIDE DEF s
      <4>2. s \in Seq(Objects)
        BY <4>1
      <4> QED
        BY <4>2 DEF s
    <3> QED
      BY <2>1, <3>1 DEF Shaped
  <2>3. inbox \in Seq(1 .. Len(message))
    <3>1. inbox \in Seq(Nat) /\ DOMAIN message = 1 .. Len(message)
      BY <2>1 DEF Shaped
    <3>2. \A i \in DOMAIN inbox : inbox[i] \in 1 .. Len(message)
      BY <2>1, <3>1 DEF InboxReady
    <3> QED
      BY <3>1, <3>2
  <2>4. quits \in Seq([group : Objects, at : {"server", "left", "failed", "answered"}])
    <3> DEFINE Q == [group : Objects, at : {"server", "left", "failed", "answered"}]
    <3>1. quits \in Seq(Quits) /\ \A q \in DOMAIN quits : quits[q].group \in Objects
      BY <2>1 DEF Shaped, Made, BeingQuit
    <3>2. \A x \in Quits : x.group \in Objects => x \in Q
      BY DEF Quits
    <3> HIDE DEF Q
    <3>3. \A q \in DOMAIN quits : quits[q] \in Q
      BY <3>1, <3>2
    <3>4. quits \in Seq(Q)
      BY <3>1, <3>3
    <3> QED
      BY <3>4 DEF Q
  <2>5. news \in Seq([about : Keys, what : {"talk", "picture", "in", "out"}])
    BY <2>1 DEF Shaped, Stories
  <2>6. message \in Seq([what : {"talk", "in", "out"}, object : Nat, makes : BOOLEAN,
                         waits : SUBSET Lookup, at : {"waiting", "listed", "read"}])
    BY <2>1 DEF Shaped, Messages
  <2> QED
    BY <2>1, <2>2, <2>3, <2>4, <2>5, <2>6 DEF TypeOK, Shaped, Made, AskedInBound
<1> QED
  BY <1>1, ContactsInvariance, AskedBounded, PTL

------------------------------------------------------------------------------
(* What the runs check. *)

LEMMA OneOwnerHolds == IInv => OneOwner
<1> SUFFICES ASSUME IInv, NEW h \in Objects \ BeingQuit PROVE OwnedOnce(h)
  BY DEF OneOwner
<1>1. /\ Shaped /\ Made /\ ListedOnce /\ Unseen /\ RemovedOnce /\ FreedGone /\ Somewhere
  BY DEF IInv, Owned
<1>2. \A kind \in Kinds : \A i, j \in DOMAIN lists[kind] : lists[kind][i] = h /\ lists[kind][j] = h => i = j
  BY <1>1 DEF ListedOnce, IsInjective
<1> DEFINE Lists == {<<"list", kind>> : kind \in {x \in Kinds : h \in Range(lists[x])}}
           Lookups == {<<"lookup", m>> : m \in {x \in DOMAIN message : Waiting(x, h)}}
           Removals == {<<"removal", m>> : m \in {x \in DOMAIN message : Removing(x, h)}}
<1>3. Owners(h) = Lists \cup Lookups \cup Removals
  BY DEF Owners, Waiting, Removing
<1>4. CASE h \in freed
  <2>1. Lists = {}
    BY <1>1, <1>4 DEF FreedGone, Listed
  <2>2. Lookups = {} /\ Removals = {}
    BY <1>1, <1>4 DEF Unseen, RemovedOnce
  <2>3. Cardinality(Owners(h)) = 0
    BY <1>3, <2>1, <2>2, FS_EmptySet
  <2> QED
    BY <1>2, <1>4, <2>3 DEF OwnedOnce
<1>5. CASE h \notin freed /\ Listed(h)
  <2>1. PICK kind \in Kinds : h \in Range(lists[kind])
    BY <1>5 DEF Listed
  <2>2. \A x \in Kinds : h \in Range(lists[x]) => x = kind
    BY <1>1, <2>1 DEF Made
  <2>3. Lists = {<<"list", kind>>}
    BY <2>1, <2>2
  <2>4. Lookups = {} /\ Removals = {}
    BY <1>1, <1>5 DEF Unseen, RemovedOnce
  <2>5. Cardinality(Owners(h)) = 1
    BY <1>3, <2>3, <2>4, FS_Singleton
  <2> QED
    BY <1>2, <1>5, <2>5 DEF OwnedOnce
<1>6. CASE h \notin freed /\ ~Listed(h)
  <2>1. Lists = {}
    BY <1>6 DEF Listed
  <2>2. PICK m \in DOMAIN message : Waiting(m, h) \/ Removing(m, h)
    BY <1>1, <1>6 DEF Somewhere
  <2>3. CASE Waiting(m, h)
    <3>1. \A x \in DOMAIN message : Waiting(x, h) \/ Removing(x, h) => x = m
      BY <1>1, <2>3 DEF Unseen, Waiting, Removing
    <3>2. ~Removing(m, h)
      BY <1>1, <2>3 DEF Made, Waiting, Removing
    <3>3. Lookups = {<<"lookup", m>>} /\ Removals = {}
      BY <2>3, <3>1, <3>2
    <3> QED
      BY <1>2, <1>3, <1>6, <2>1, <3>3, FS_Singleton DEF OwnedOnce
  <2>4. CASE Removing(m, h)
    <3>1. \A x \in DOMAIN message : Removing(x, h) => x = m
      BY <1>1, <2>4 DEF RemovedOnce
    <3>2. \A x \in DOMAIN message : ~Waiting(x, h)
      <4> SUFFICES ASSUME NEW x \in DOMAIN message, Waiting(x, h) PROVE FALSE
        OBVIOUS
      <4>1. x = m
        BY <1>1, <2>4 DEF Unseen, Removing
      <4> QED
        BY <4>1, <1>1, <2>4 DEF Made, Waiting, Removing
    <3>3. Removals = {<<"removal", m>>} /\ Lookups = {}
      BY <2>4, <3>1, <3>2
    <3> QED
      BY <1>2, <1>3, <1>6, <2>1, <3>3, FS_Singleton DEF OwnedOnce
  <2> QED
    BY <2>2, <2>3, <2>4
<1> QED
  BY <1>4, <1>5, <1>6

\* A friend or group that no quit is about has one owner, or was freed: it is never in
\* two lists or messages, and in none only when it was freed (msg.c:1076, 1142, 359, 788).
THEOREM NeverTwoHands == Spec => []OneOwner
<1>1. IInv => OneOwner
  BY OneOwnerHolds
<1> QED
  BY <1>1, ContactsInvariance, PTL

LEMMA SenderListedHolds == IInv => SenderListed
<1> SUFFICES ASSUME IInv, NEW i \in DOMAIN inbox, message[inbox[i]].what = "talk"
             PROVE  LET m == message[inbox[i]]
                    IN  \/ m.object \in freed \cup BeingQuit
                        \/ \E kind \in Kinds : m.object \in Range(lists[kind])
                        \/ \E x \in DOMAIN message :
                             /\ message[x].what = "out" /\ message[x].object = m.object
                             /\ message[x].at /= "read"
  BY DEF SenderListed
<1>1. PICK h : h = message[inbox[i]].object
  OBVIOUS
<1>2. /\ inbox[i] \in DOMAIN message /\ message[inbox[i]].at = "listed"
      /\ Made /\ Unseen /\ Somewhere
  BY DEF IInv, Owned, InboxReady
<1>3. h \in Objects
  BY <1>1, <1>2 DEF Made
<1>4. \A x \in DOMAIN message : ~Waiting(x, h)
  <2> SUFFICES ASSUME NEW x \in DOMAIN message, Waiting(x, h) PROVE FALSE
    OBVIOUS
  <2>1. inbox[i] = x
    BY <1>1, <1>2, <1>3 DEF Unseen
  <2> QED
    BY <2>1, <1>2 DEF Waiting
<1>5. CASE h \in freed \cup BeingQuit
  BY <1>1, <1>5
<1>6. CASE Listed(h)
  BY <1>1, <1>6 DEF Listed
<1>7. CASE \E x \in DOMAIN message : Removing(x, h)
  BY <1>1, <1>7 DEF Removing
<1> QED
  BY <1>2, <1>3, <1>4, <1>5, <1>6, <1>7 DEF Somewhere

\* A message in the message list has a sender that is, or was, in its list: the
\* listeners of a set run add_passerby before the insertion (msg.c:1462, 1569).
THEOREM SenderKnown == Spec => []SenderListed
<1>1. IInv => SenderListed
  BY SenderListedHolds
<1> QED
  BY <1>1, ContactsInvariance, PTL

LEMMA EveryContactListedHolds == IInv => EveryContactListed
<1> SUFFICES ASSUME IInv, NEW k \in contact \ Discus, load[Kind(k)] = "done", NoNews(k)
             PROVE  Find(k) /= 0
  BY DEF EveryContactListed, NoNews
<1>1. Stays(k) /\ Shaped /\ Made /\ k \in Keys
  BY DEF IInv, Owned, InSight, Shaped
<1> QED
  BY <1>1, FindOne DEF Stays

\* A list that was loaded has every friend and group the server counts and has no news
\* of, however loads, lookups, removals and quits overlap (info.c:1083, 1350; msg.c:1076).
THEOREM NobodyMissing == Spec => []EveryContactListed
<1>1. IInv => EveryContactListed
  BY EveryContactListedHolds
<1> QED
  BY <1>1, ContactsInvariance, PTL

==============================================================================
