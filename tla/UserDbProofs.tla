---------------------------- MODULE UserDbProofs ----------------------------
(***************************************************************************)
(* Proofs about UserDb for any friends, groups, names and size of the      *)
(* cache: the types, the completeness of an open database, the statements  *)
(* of the cache, and that the database implements RowStore.                *)
(***************************************************************************)
EXTENDS UserDb, FiniteSetTheorems, SequenceTheorems, TLAPS

\* Outside a transaction the tables of the connection are those of the file.
DiskIsCurrent == ~batch => disk = rows

\* An insert is under way only in an open database, for an object with a number.
CallHasNumber == call # Nothing => mode = "open" /\ number[call] # Nothing

IInv == TypeOK /\ OpenIsComplete /\ StatementsKept /\ DiskIsCurrent /\ CallHasNumber

------------------------------------------------------------------------------
(* The operators of UserDb. *)

LEMMA AccountsExist == Nothing \notin Accounts
BY Distinct DEF Accounts

\* What is alone in a set is in it.
LEMMA OnlyOne ==
  ASSUME NEW S, Cardinality(S) = 1 PROVE (CHOOSE x \in S : TRUE) \in S
<1>1. Cardinality({}) = 0 BY FS_EmptySet
<1>2. S # {} BY <1>1
<1> QED BY <1>2

LEMMA CachedKeeps ==
  ASSUME NEW s \in Statements, cache \in Seq(Statements), StatementsKept
  PROVE  /\ Cached(s) \in Seq(Statements)
         /\ Len(Cached(s)) <= CacheLen
         /\ \A i, j \in DOMAIN Cached(s) : Cached(s)[i] = Cached(s)[j] => i = j
<1>1. CASE (\E i \in DOMAIN cache : cache[i] = s) \/ Len(cache) >= CacheLen
  BY <1>1 DEF Cached, StatementsKept
<1>2. CASE ~((\E i \in DOMAIN cache : cache[i] = s) \/ Len(cache) >= CacheLen)
  <2>1. Cached(s) = Append(cache, s) BY <1>2 DEF Cached
  <2>2. Len(cache) \in Nat /\ Len(cache) < CacheLen BY <1>2, Distinct
  <2>3. /\ Len(Append(cache, s)) = Len(cache) + 1
        /\ DOMAIN Append(cache, s) = 1 .. Len(cache) + 1
        /\ \A i \in 1 .. Len(cache) : Append(cache, s)[i] = cache[i]
        /\ Append(cache, s)[Len(cache) + 1] = s
    OBVIOUS
  <2>4. DOMAIN cache = 1 .. Len(cache) OBVIOUS
  <2>5. \A i \in DOMAIN cache : cache[i] # s BY <1>2
  <2>6. Append(cache, s) \in Seq(Statements) OBVIOUS
  <2>7. \A i, j \in 1 .. Len(cache) + 1 :
          Append(cache, s)[i] = Append(cache, s)[j] => i = j
    BY <2>2, <2>3, <2>4, <2>5 DEF StatementsKept
  <2> QED BY <2>1, <2>2, <2>3, <2>6, <2>7, Distinct
<1> QED BY <1>1, <1>2

LEMMA KindIsStatement ==
  ASSUME NEW a
  PROVE  /\ Kind(a, "insert_buddy", "insert_group") \in Statements
         /\ Kind(a, "update_buddy", "update_group") \in Statements
         /\ Kind(a, "query_buddy", "query_group") \in Statements
BY DEF Kind, Statements

LEMMA InsertedRowType ==
  ASSUME TypeOK, NEW a \in Accounts PROVE InsertedRow(a) \in Row
BY DEF InsertedRow, TypeOK, Infos, Row, Stamps

LEMMA UpdatedRowType ==
  ASSUME NEW k, NEW i \in Infos PROVE UpdatedRow(k, i) \in Rows
BY DEF UpdatedRow, Infos, Row, Rows, Stamps

\* A change keeps the types of the tables and what is said of transactions.
LEMMA ChangeKeeps ==
  ASSUME IInv, NEW new \in [Accounts -> Rows], Change(new)
  PROVE  /\ stage' = stage /\ mode' = mode /\ batch' = batch
         /\ disk' \in [Accounts -> Rows] /\ rows' \in [Accounts -> Rows]
         /\ DiskIsCurrent'
BY DEF IInv, TypeOK, DiskIsCurrent, Change

------------------------------------------------------------------------------
(* The invariant. *)

LEMMA InvInit == Init => IInv
<1> SUFFICES ASSUME Init PROVE IInv
  OBVIOUS
<1>1. TypeOK
  <2>1. cache \in Seq(Statements) BY DEF Init
  <2>2. disk \in [Accounts -> Rows] /\ rows \in [Accounts -> Rows] BY DEF Init, Rows
  <2>3. info \in [Accounts -> Infos]
    <3>1. [names : Names, data : {Nothing}] \subseteq Infos BY DEF Infos
    <3> QED BY <3>1 DEF Init
  <2> QED BY <2>1, <2>2, <2>3 DEF Init, TypeOK, Stages
<1>2. StatementsKept BY Distinct DEF Init, StatementsKept
<1> QED BY <1>1, <1>2 DEF Init, IInv, OpenIsComplete, DiskIsCurrent, CallHasNumber

LEMMA SessionEndsKeeps == ASSUME IInv, SessionEnds PROVE IInv'
<1>1. TypeOK BY DEF IInv
<1>2. info' \in [Accounts -> Infos]
  <2>1. [names : Names, data : {Nothing}] \subseteq Infos BY DEF Infos
  <2> QED BY <2>1 DEF SessionEnds
<1>3. cache' \in Seq(Statements) BY DEF SessionEnds
<1>4. TypeOK' BY <1>1, <1>2, <1>3 DEF TypeOK, SessionEnds, file
<1>5. StatementsKept' BY Distinct DEF StatementsKept, SessionEnds
<1> QED BY <1>4, <1>5 DEF IInv, SessionEnds, OpenIsComplete, DiskIsCurrent, CallHasNumber, file

LEMMA OpeningKeeps == ASSUME IInv, Opening PROVE IInv'
<1> USE DEF IInv, TypeOK, OpenIsComplete, StatementsKept, DiskIsCurrent, CallHasNumber, client
<1>1. ASSUME UserdbNew PROVE IInv'
  <2>1. CASE DbIsValid /\ Open /\ UNCHANGED stage
    BY <1>1, <2>1 DEF UserdbNew, DbIsValid, Open
  <2>2. CASE ~DbIsValid /\ mode' = "creating" /\ stage' = "absent"
    BY <1>1, <2>2 DEF UserdbNew, DbIsValid, Open, Stages, Rows
  <2> QED BY <1>1, <2>1, <2>2 DEF UserdbNew
<1>2. ASSUME CreateDb PROVE IInv'
  BY <1>2 DEF CreateDb, Stages
<1>3. ASSUME UserdbFree \/ Crash PROVE IInv'
  BY <1>3, SessionEndsKeeps DEF UserdbFree, Crash
<1>4. ASSUME Upgrade PROVE IInv'
  BY <1>4 DEF Upgrade, Stages
<1> QED BY <1>1, <1>2, <1>3, <1>4 DEF Opening

LEMMA UpdateWithKeeps ==
  ASSUME IInv, NEW a \in Accounts, NEW i \in Infos, number[a] # Nothing, UpdateWith(a, i)
  PROVE  /\ stage' = stage /\ mode' = mode /\ batch' = batch
         /\ disk' \in [Accounts -> Rows] /\ rows' \in [Accounts -> Rows]
         /\ DiskIsCurrent'
         /\ cache' \in Seq(Statements)
         /\ Len(cache') <= CacheLen
         /\ \A m, n \in DOMAIN cache' : cache'[m] = cache'[n] => m = n
<1>1. TypeOK /\ StatementsKept BY DEF IInv
<1>2. [rows EXCEPT ![number[a]] = UpdatedRow(number[a], i)] \in [Accounts -> Rows]
  BY <1>1, UpdatedRowType DEF TypeOK
<1>3. cache' = Cached(Kind(a, "update_buddy", "update_group")) BY DEF UpdateWith
<1> QED BY <1>1, <1>2, <1>3, ChangeKeeps, CachedKeeps, KindIsStatement
        DEF UpdateWith, TypeOK

LEMMA InsertKeeps == ASSUME IInv, NEW a \in Accounts, Insert(a) PROVE IInv'
<1> DEFINE s == Kind(a, "insert_buddy", "insert_group")
           k == number[a]
           new == IF Exists(k) THEN rows ELSE [rows EXCEPT ![k] = InsertedRow(a)]
<1>1. TypeOK /\ StatementsKept /\ s \in Statements BY KindIsStatement DEF IInv
<1>2. new \in [Accounts -> Rows] BY <1>1, InsertedRowType DEF TypeOK, Rows
<1>3. Change(new) BY DEF Insert
<1>4. cache' = Cached(s) /\ loose' \subseteq Statements
  BY <1>1 DEF Insert, TypeOK
<1>5. /\ cache' \in Seq(Statements) /\ Len(cache') <= CacheLen
      /\ \A m, n \in DOMAIN cache' : cache'[m] = cache'[n] => m = n
  BY <1>1, <1>4, CachedKeeps DEF TypeOK
<1>6. /\ stage' = stage /\ mode' = mode /\ batch' = batch
      /\ disk' \in [Accounts -> Rows] /\ rows' \in [Accounts -> Rows]
      /\ DiskIsCurrent'
  <2> HIDE DEF new
  <2> QED BY <1>2, <1>3, ChangeKeeps
<1>7. call' = a /\ mode = "open" /\ number[a] # Nothing /\ UNCHANGED client
  BY DEF Insert, Ready
<1> HIDE DEF s, k, new
<1> QED BY <1>1, <1>4, <1>5, <1>6, <1>7, AccountsExist
        DEF IInv, TypeOK, OpenIsComplete, StatementsKept, CallHasNumber, client

LEMMA InsertEndsKeeps == ASSUME IInv, InsertEnds PROVE IInv'
<1>1. /\ TypeOK /\ call \in Accounts /\ number[call] # Nothing
      /\ info[call] \in Infos
  BY DEF IInv, TypeOK, InsertEnds, CallHasNumber
<1>2. UpdateWith(call, info[call]) BY DEF InsertEnds
<1>3. /\ stage' = stage /\ mode' = mode /\ batch' = batch
      /\ disk' \in [Accounts -> Rows] /\ rows' \in [Accounts -> Rows]
      /\ DiskIsCurrent'
      /\ cache' \in Seq(Statements) /\ Len(cache') <= CacheLen
      /\ \A m, n \in DOMAIN cache' : cache'[m] = cache'[n] => m = n
  BY <1>1, <1>2, UpdateWithKeeps
<1>4. loose' = {} /\ call' = Nothing /\ UNCHANGED client
  BY DEF InsertEnds, LooseAfterCall
<1> QED BY <1>1, <1>3, <1>4
        DEF IInv, TypeOK, OpenIsComplete, StatementsKept, CallHasNumber, client

LEMMA UpdateKeeps == ASSUME IInv, NEW a \in Accounts, Update(a) PROVE IInv'
<1>1. TypeOK /\ number[a] # Nothing /\ info[a] \in Infos /\ call = Nothing
  BY DEF IInv, TypeOK, Update, Ready
<1>2. UpdateWith(a, info[a]) BY DEF Update
<1>3. /\ stage' = stage /\ mode' = mode /\ batch' = batch
      /\ disk' \in [Accounts -> Rows] /\ rows' \in [Accounts -> Rows]
      /\ DiskIsCurrent'
      /\ cache' \in Seq(Statements) /\ Len(cache') <= CacheLen
      /\ \A m, n \in DOMAIN cache' : cache'[m] = cache'[n] => m = n
  BY <1>1, <1>2, UpdateWithKeeps
<1>4. UNCHANGED <<loose, call, attached, info, number, told>> BY DEF Update, client
<1> QED BY <1>1, <1>3, <1>4
        DEF IInv, TypeOK, OpenIsComplete, StatementsKept, CallHasNumber

LEMMA QueryKeeps == ASSUME IInv, NEW a \in Accounts, Query(a) PROVE IInv'
<1>1. TypeOK /\ StatementsKept BY DEF IInv
<1>2. cache' = Cached(Kind(a, "query_buddy", "query_group")) BY DEF Query
<1>3. /\ cache' \in Seq(Statements) /\ Len(cache') <= CacheLen
      /\ \A m, n \in DOMAIN cache' : cache'[m] = cache'[n] => m = n
  BY <1>1, <1>2, CachedKeeps, KindIsStatement DEF TypeOK
<1>4. info' \in [Accounts -> Infos]
  <2>1. CASE Believed(number[a]) /\ rows[number[a]].data # Nothing
    <3>1. number[a] \in Accounts BY <1>1 DEF Query, TypeOK
    <3>2. rows[number[a]] \in Row BY <1>1, <2>1, <3>1 DEF Believed, Exists, TypeOK, Rows
    <3>3. rows[number[a]].data \in Data \cup {Nothing} BY <3>2 DEF Row
    <3>4. info' = [info EXCEPT ![a] = [info[a] EXCEPT !.data = rows[number[a]].data]]
      BY <2>1 DEF Query
    <3>5. [info[a] EXCEPT !.data = rows[number[a]].data] \in Infos
      BY <1>1, <3>3 DEF TypeOK, Infos
    <3> QED BY <1>1, <3>4, <3>5 DEF TypeOK
  <2>2. CASE ~(Believed(number[a]) /\ rows[number[a]].data # Nothing)
    BY <1>1, <2>2 DEF Query, TypeOK
  <2> QED BY <2>1, <2>2
<1>5. /\ UNCHANGED <<rows, disk, stage, batch, mode, loose, call, attached, number>>
      /\ told' \in BOOLEAN
  BY <1>1 DEF Query, TypeOK
<1> QED BY <1>3, <1>4, <1>5
        DEF IInv, TypeOK, OpenIsComplete, StatementsKept, CallHasNumber, DiskIsCurrent

LEMMA FlushKeeps == ASSUME IInv, NEW table \in SUBSET Accounts, Flush(table) PROVE IInv'
<1>1. TypeOK BY DEF IInv
<1>2. PICK s \in SUBSET Accounts :
        /\ s \subseteq {k \in table : Exists(k)}
        /\ Change([k \in Accounts |->
             IF k \in s THEN [rows[k] EXCEPT !.stamp = "zero"] ELSE rows[k]])
  BY DEF Flush, Oldest
<1> DEFINE new == [k \in Accounts |->
             IF k \in s THEN [rows[k] EXCEPT !.stamp = "zero"] ELSE rows[k]]
<1>3. new \in [Accounts -> Rows]
  <2> SUFFICES ASSUME NEW k \in Accounts PROVE new[k] \in Rows
    OBVIOUS
  <2>1. CASE k \in s
    <3>1. rows[k] \in Row BY <1>1, <1>2, <2>1 DEF Exists, TypeOK, Rows
    <3> QED BY <2>1, <3>1 DEF Row, Rows, Stamps
  <2>2. CASE k \notin s BY <1>1, <2>2 DEF TypeOK
  <2> QED BY <2>1, <2>2
<1> HIDE DEF new
<1>4. /\ stage' = stage /\ mode' = mode /\ batch' = batch
      /\ disk' \in [Accounts -> Rows] /\ rows' \in [Accounts -> Rows]
      /\ DiskIsCurrent'
  BY <1>2, <1>3, ChangeKeeps DEF new
<1>5. UNCHANGED <<cache, loose, call, attached, info, number, told>> BY DEF Flush, client
<1> QED BY <1>4, <1>5 DEF IInv, TypeOK, OpenIsComplete, StatementsKept, CallHasNumber

LEMMA BatchesKeep == ASSUME IInv, Batches PROVE IInv'
<1> USE DEF IInv, TypeOK, OpenIsComplete, StatementsKept, DiskIsCurrent, CallHasNumber, client
<1>1. ASSUME UserdbBegin PROVE IInv'
  BY <1>1 DEF UserdbBegin, Ready
<1>2. ASSUME UserdbCommit PROVE IInv'
  <2>1. cache' = << >> /\ CacheLen >= 0 BY <1>2, Distinct DEF UserdbCommit
  <2>2. cache' \in Seq(Statements) /\ Len(cache') <= CacheLen /\ DOMAIN cache' = {}
    BY <2>1, Distinct
  <2> QED BY <1>2, <2>2 DEF UserdbCommit, CommittedTables, Ready
<1> QED BY <1>1, <1>2, FlushKeeps DEF Batches, FlushBuddies, FlushGroups, Accounts

\* A new mark changes the names of one object and no data.
LEMMA MarkedInfo ==
  ASSUME TypeOK, NEW a \in Accounts, NEW mark \in Marks \cup {Nothing},
         info' = [info EXCEPT ![a].names.mark = mark]
  PROVE  /\ info'[a] \in Infos /\ info' \in [Accounts -> Infos]
         /\ \A h \in Accounts : info'[h].data = info[h].data
<1> DEFINE named == [info[a].names EXCEPT !.mark = mark]
<1>1. info \in [Accounts -> Infos] BY DEF TypeOK
<1>2. info' = [info EXCEPT ![a] = [info[a] EXCEPT !.names = named]] BY <1>1
<1>3. named \in Names BY <1>1 DEF Infos, Names
<1> HIDE DEF named
<1>4. /\ [info[a] EXCEPT !.names = named] \in Infos
      /\ [info[a] EXCEPT !.names = named].data = info[a].data
  BY <1>1, <1>3 DEF Infos
<1> QED BY <1>1, <1>2, <1>4

LEMMA ClientKeeps == ASSUME IInv, Client PROVE IInv'
<1> USE DEF IInv, TypeOK, OpenIsComplete, StatementsKept, DiskIsCurrent, CallHasNumber
<1>1. ASSUME QueryQqnumbers PROVE IInv'
  <2>1. number' \in [Accounts -> Accounts \cup {Nothing}]
    <3> DEFINE found(a) ==
          {k \in (IF a \in Buddies THEN Buddies ELSE Groups) : Matches(k, info[a])}
    <3>1. number' = [a \in Accounts |->
            IF Cardinality(found(a)) = 1 THEN CHOOSE k \in found(a) : TRUE ELSE number[a]]
      BY <1>1 DEF QueryQqnumbers
    <3>2. ASSUME NEW a \in Accounts, Cardinality(found(a)) = 1
          PROVE  (CHOOSE k \in found(a) : TRUE) \in Accounts
      <4>1. found(a) \subseteq Accounts BY DEF Accounts
      <4>2. (CHOOSE k \in found(a) : TRUE) \in found(a) BY <3>2, OnlyOne
      <4> HIDE DEF found
      <4> QED BY <4>1, <4>2
    <3> HIDE DEF found
    <3> QED BY <3>1, <3>2
  <2> QED BY <1>1, <2>1 DEF QueryQqnumbers, Ready
<1>2. ASSUME DbExtensionInit \/ DbExtensionRemove PROVE IInv'
  BY <1>2 DEF DbExtensionInit, DbExtensionRemove
<1>3. ASSUME NEW a \in Accounts, NumberAnswered(a) PROVE IInv'
  BY <1>3 DEF NumberAnswered
<1>4. ASSUME NEW a \in Accounts, NEW d \in Data, InfoChanged(a, d) PROVE IInv'
  <2>1. info' = [info EXCEPT ![a] = [info[a] EXCEPT !.data = d]]
    BY <1>4 DEF InfoChanged
  <2>2. info'[a] \in Infos /\ info' \in [Accounts -> Infos] BY <2>1 DEF Infos
  <2> QED BY <1>4, <2>2 DEF InfoChanged
<1>5. ASSUME NEW a \in Accounts, NEW mark \in Marks \cup {Nothing}, MarkChanged(a, mark)
      PROVE  IInv'
  <2>1. info' = [info EXCEPT ![a].names.mark = mark]
    BY <1>5 DEF MarkChanged
  <2>2. info'[a] \in Infos /\ info' \in [Accounts -> Infos]
    BY <2>1, MarkedInfo
  <2>3. UNCHANGED <<loose, call, attached, number, told>> /\ call = Nothing
    BY <1>5 DEF MarkChanged
  <2>4. CASE UNCHANGED <<stage, disk, rows, batch, mode, cache>>
    BY <2>2, <2>3, <2>4
  <2>5. CASE number[a] # Nothing /\ UpdateWith(a, info'[a])
    <3>1. /\ stage' = stage /\ mode' = mode /\ batch' = batch
          /\ disk' \in [Accounts -> Rows] /\ rows' \in [Accounts -> Rows]
          /\ DiskIsCurrent'
          /\ cache' \in Seq(Statements) /\ Len(cache') <= CacheLen
          /\ \A m, n \in DOMAIN cache' : cache'[m] = cache'[n] => m = n
      BY <2>2, <2>5, UpdateWithKeeps
    <3> QED BY <2>2, <2>3, <3>1
  <2> QED BY <1>5, <2>4, <2>5 DEF MarkChanged
<1> QED BY <1>1, <1>2, <1>3, <1>4, <1>5 DEF Client

LEMMA InvStep == ASSUME IInv, [Next]_vars PROVE IInv'
<1>1. ASSUME NEW b \in Buddies, BuddyCall(b) PROVE IInv'
  BY <1>1, InsertKeeps, UpdateKeeps, QueryKeeps
     DEF BuddyCall, InsertBuddyInfo, UpdateBuddyInfo, QueryBuddy, Accounts
<1>2. ASSUME NEW g \in Groups, GroupCall(g) PROVE IInv'
  BY <1>2, InsertKeeps, UpdateKeeps, QueryKeeps
     DEF GroupCall, InsertGroupInfo, UpdateGroupInfo, QueryGroup, Accounts
<1>3. ASSUME UNCHANGED vars PROVE IInv'
  BY <1>3 DEF vars, IInv, TypeOK, OpenIsComplete, StatementsKept, DiskIsCurrent, CallHasNumber
<1> QED BY <1>1, <1>2, <1>3, OpeningKeeps, BatchesKeep, ClientKeeps, InsertEndsKeeps DEF Next

LEMMA Invariance == Spec => []IInv
BY InvInit, InvStep, PTL DEF Spec

------------------------------------------------------------------------------
\* The variables have their types, for every number of friends and groups.
THEOREM TypeCorrect == Spec => []TypeOK
<1>1. IInv => TypeOK BY DEF IInv
<1> QED BY <1>1, Invariance, PTL

\* An open database is complete, wherever the process died before.
THEOREM OpensComplete == Spec => []OpenIsComplete
<1>1. IInv => OpenIsComplete BY DEF IInv
<1> QED BY <1>1, Invariance, PTL

\* Between calls every prepared statement is in the cache, once, for every size of it.
THEOREM KeepsStatements == Spec => []StatementsKept
<1>1. IInv => StatementsKept BY DEF IInv
<1> QED BY <1>1, Invariance, PTL

------------------------------------------------------------------------------
(* The database implements the map. *)

\* Writing one row changes what is known of one number.
LEMMA KnownUpdate ==
  ASSUME IInv, NEW k \in Accounts, NEW i \in Infos, Exists(k)
  PROVE  Known([rows EXCEPT ![k] = UpdatedRow(k, i)]) = [Known(rows) EXCEPT ![k] = i.data]
<1>1. UpdatedRow(k, i) # Nothing /\ UpdatedRow(k, i).stamp = "set"
      /\ UpdatedRow(k, i).data = i.data
  <2>1. UpdatedRow(k, i) = [names |-> i.names, data |-> i.data, stamp |-> "set"]
    BY DEF UpdatedRow
  <2>2. UpdatedRow(k, i) \in Row BY <2>1 DEF Infos, Row, Stamps
  <2> QED BY <2>1, <2>2, NothingIsNoRow
<1>2. rows \in [Accounts -> Rows] BY DEF IInv, TypeOK
<1> QED BY <1>1, <1>2 DEF Known

\* A new row is no entry yet.
LEMMA KnownInsert ==
  ASSUME IInv, NEW k \in Accounts, NEW a, ~Exists(k)
  PROVE  Known([rows EXCEPT ![k] = InsertedRow(a)]) = Known(rows)
BY DEF IInv, TypeOK, Known, Exists, InsertedRow

\* No row, no update.
LEMMA NoUpdate ==
  ASSUME IInv, NEW k \in Accounts, NEW i, ~Exists(k)
  PROVE  [rows EXCEPT ![k] = UpdatedRow(k, i)] = rows
BY DEF IInv, TypeOK, UpdatedRow, Exists

\* A flush takes entries away.
LEMMA KnownFlush ==
  ASSUME IInv, NEW s \in SUBSET Accounts, \A k \in s : Exists(k)
  PROVE  Known([k \in Accounts |->
                  IF k \in s THEN [rows[k] EXCEPT !.stamp = "zero"] ELSE rows[k]])
         = [k \in Accounts |-> IF k \in s THEN Nothing ELSE Known(rows)[k]]
<1>1. \A k \in s : rows[k] \in Row BY DEF IInv, TypeOK, Exists, Rows
<1>2. \A k \in s : [rows[k] EXCEPT !.stamp = "zero"].stamp = "zero" BY <1>1 DEF Row
<1> QED BY <1>2 DEF Known

\* A change of the tables is a change of the map.
LEMMA ChangeIsStore ==
  ASSUME IInv, NEW new, Change(new) PROVE Map!Store(Known(new))
BY DEF Change, Map!Store

\* Where nothing known changes the map forgets nothing.
LEMMA ChangeOfNothing ==
  ASSUME IInv, NEW new, Change(new), Known(new) = Known(rows), UNCHANGED <<info, told>>
  PROVE  Map!Forget({})
<1>1. Map!Store(Known(rows)) BY ChangeIsStore
<1>2. [k \in Accounts |-> IF k \in {} THEN Nothing ELSE Known(rows)[k]] = Known(rows)
  BY DEF Known
<1> QED BY <1>1, <1>2 DEF Map!Forget

LEMMA Unchanged ==
  ASSUME UNCHANGED <<disk, rows, batch, info, told>> PROVE UNCHANGED Map!vars
BY DEF Map!vars, Known

\* The update of a row is Put when there is a row: it brings what the object knows.
LEMMA UpdateMaps ==
  ASSUME IInv, NEW a \in Accounts, number[a] # Nothing,
         NEW i \in Infos, i.data = info[a].data, UpdateWith(a, i),
         [h \in Accounts |-> info[h].data]' = [h \in Accounts |-> info[h].data],
         told' = told
  PROVE  [Map!Next]_Map!vars
<1>1. number[a] \in Accounts BY DEF IInv, TypeOK
<1>2. PICK j \in Infos :
        /\ j.data = info[a].data
        /\ Change([rows EXCEPT ![number[a]] = UpdatedRow(number[a], j)])
  BY DEF UpdateWith
<1>3. CASE Exists(number[a])
  <2>1. Map!Store([Known(rows) EXCEPT ![number[a]] = info[a].data])
    BY <1>1, <1>2, <1>3, KnownUpdate, ChangeIsStore
  <2> QED BY <1>1, <2>1 DEF Map!Next, Map!Put
<1>4. CASE ~Exists(number[a])
  <2>1. Change(rows) BY <1>1, <1>2, <1>4, NoUpdate
  <2> QED BY <2>1 DEF IInv, DiskIsCurrent, Change, Map!vars, Known
<1> QED BY <1>3, <1>4

\* An update that leaves the objects alone.
LEMMA PlainUpdate ==
  ASSUME IInv, NEW a \in Accounts, number[a] # Nothing, UNCHANGED <<info, told>>,
         UpdateWith(a, info[a])
  PROVE  [Map!Next]_Map!vars
<1>1. info[a] \in Infos BY DEF IInv, TypeOK
<1>2. [h \in Accounts |-> info[h].data]' = [h \in Accounts |-> info[h].data] OBVIOUS
<1> QED BY <1>1, <1>2, UpdateMaps

LEMMA SessionEndsIsEnd == ASSUME SessionEnds PROVE Map!End
<1>1. [h \in Accounts |-> info[h].data]' = [h \in Accounts |-> Nothing]
  BY DEF SessionEnds
<1> QED BY <1>1 DEF SessionEnds, Map!End, file, Known

LEMMA OpeningMaps == ASSUME IInv, Opening PROVE [Map!Next]_Map!vars
<1>1. ASSUME UserdbNew PROVE [Map!Next]_Map!vars
  <2>1. CASE DbIsValid /\ Open /\ UNCHANGED stage
    BY <2>1, Unchanged DEF Open, client
  <2>2. CASE disk' = [a \in Accounts |-> Nothing] /\ rows' = disk' /\ UNCHANGED <<batch, info, told>>
    <3>1. Known(disk') = [k \in Accounts |-> Nothing] BY <2>2 DEF Known
    <3> QED BY <2>2, <3>1 DEF Map!Next, Map!Replace, Map!Empty, Known
  <2> QED BY <1>1, <2>1, <2>2 DEF UserdbNew, client
<1>2. ASSUME CreateDb \/ Upgrade PROVE [Map!Next]_Map!vars
  BY <1>2, Unchanged DEF CreateDb, Upgrade, client
<1>3. ASSUME UserdbFree \/ Crash PROVE [Map!Next]_Map!vars
  BY <1>3, SessionEndsIsEnd DEF UserdbFree, Crash, Map!Next
<1> QED BY <1>1, <1>2, <1>3 DEF Opening

LEMMA BatchesMap == ASSUME IInv, Batches PROVE [Map!Next]_Map!vars
<1>1. ASSUME UserdbBegin PROVE [Map!Next]_Map!vars
  BY <1>1 DEF UserdbBegin, client, Map!Next, Map!Begin, Known
<1>2. ASSUME UserdbCommit PROVE [Map!Next]_Map!vars
  BY <1>2 DEF UserdbCommit, CommittedTables, client, Map!Next, Map!Commit, Known
<1>3. ASSUME NEW table \in SUBSET Accounts, Flush(table) PROVE [Map!Next]_Map!vars
  <2>1. PICK s \in SUBSET Accounts :
          /\ \A k \in s : Exists(k)
          /\ Change([k \in Accounts |->
               IF k \in s THEN [rows[k] EXCEPT !.stamp = "zero"] ELSE rows[k]])
    BY <1>3 DEF Flush, Oldest
  <2>2. Map!Store([k \in Accounts |-> IF k \in s THEN Nothing ELSE Known(rows)[k]])
    BY <2>1, KnownFlush, ChangeIsStore
  <2>3. UNCHANGED <<info, told>> BY <1>3 DEF Flush, client
  <2> QED BY <2>2, <2>3 DEF Map!Next, Map!Forget
<1> QED BY <1>1, <1>2, <1>3 DEF Batches, FlushBuddies, FlushGroups, Accounts

LEMMA InsertMaps == ASSUME IInv, NEW a \in Accounts, Insert(a) PROVE [Map!Next]_Map!vars
<1> DEFINE k == number[a]
           new == IF Exists(k) THEN rows ELSE [rows EXCEPT ![k] = InsertedRow(a)]
<1>1. k \in Accounts BY DEF Insert, IInv, TypeOK
<1>2. Known(new) = Known(rows) BY <1>1, KnownInsert
<1>3. Change(new) /\ UNCHANGED <<info, told>> BY DEF Insert, client
<1> HIDE DEF new
<1>4. Map!Forget({}) BY <1>2, <1>3, ChangeOfNothing
<1> QED BY <1>4 DEF Map!Next

LEMMA QueryMaps == ASSUME IInv, NEW a \in Accounts, Query(a) PROVE [Map!Next]_Map!vars
<1>1. TypeOK /\ number[a] \in Accounts BY DEF IInv, TypeOK, Query
<1>2. UNCHANGED <<disk, rows, batch>> BY DEF Query
<1>3. CASE Believed(number[a]) /\ rows[number[a]].data # Nothing
  <2>1. Known(rows)[number[a]] = rows[number[a]].data
    BY <1>1, <1>3 DEF Known, Believed, Exists
  <2>2. info' = [info EXCEPT ![a].data = rows[number[a]].data] /\ told' = FALSE
    BY <1>3 DEF Query
  <2>3. [h \in Accounts |-> info[h].data]'
          = [[h \in Accounts |-> info[h].data] EXCEPT ![a] = rows[number[a]].data]
    BY <1>1, <2>2 DEF TypeOK, Infos
  <2> QED BY <1>1, <1>2, <1>3, <2>1, <2>2, <2>3 DEF Map!Next, Map!Read, Known
<1>4. CASE ~(Believed(number[a]) /\ rows[number[a]].data # Nothing)
  BY <1>2, <1>4, Unchanged DEF Query
<1> QED BY <1>3, <1>4

LEMMA ClientMaps == ASSUME IInv, Client PROVE [Map!Next]_Map!vars
<1>1. ASSUME QueryQqnumbers \/ DbExtensionInit \/ DbExtensionRemove PROVE UNCHANGED Map!vars
  BY <1>1, Unchanged DEF QueryQqnumbers, DbExtensionInit, DbExtensionRemove
<1>2. ASSUME NEW a \in Accounts, NumberAnswered(a) PROVE UNCHANGED Map!vars
  BY <1>2, Unchanged DEF NumberAnswered
<1>3. ASSUME NEW a \in Accounts, NEW d \in Data, InfoChanged(a, d)
      PROVE  [Map!Next]_Map!vars
  <2>1. info' = [info EXCEPT ![a].data = d] /\ told' = TRUE /\ UNCHANGED <<disk, rows, batch>>
    BY <1>3 DEF InfoChanged
  <2>2. [h \in Accounts |-> info[h].data]'
          = [[h \in Accounts |-> info[h].data] EXCEPT ![a] = d]
    BY <2>1 DEF IInv, TypeOK, Infos
  <2> QED BY <2>1, <2>2 DEF Map!Learn, Map!Next, Known
<1>4. ASSUME NEW a \in Accounts, NEW mark \in Marks \cup {Nothing}, MarkChanged(a, mark)
      PROVE  [Map!Next]_Map!vars
  <2>1. /\ info'[a] \in Infos
        /\ \A h \in Accounts : info'[h].data = info[h].data
        /\ told' = told
    BY <1>4, MarkedInfo DEF MarkChanged, IInv
  <2>2. [h \in Accounts |-> info[h].data]' = [h \in Accounts |-> info[h].data]
    BY <2>1
  <2>3. CASE UNCHANGED <<disk, rows, batch>>
    BY <2>1, <2>2, <2>3 DEF Map!vars, Known
  <2>4. CASE number[a] # Nothing /\ UpdateWith(a, info'[a])
    BY <2>1, <2>2, <2>4, UpdateMaps
  <2> QED BY <1>4, <2>3, <2>4 DEF MarkChanged
<1> QED BY <1>1, <1>2, <1>3, <1>4 DEF Client

LEMMA StepMaps == ASSUME IInv, [Next]_vars PROVE [Map!Next]_Map!vars
<1>1. ASSUME NEW a \in Accounts, Update(a) PROVE [Map!Next]_Map!vars
  BY <1>1, PlainUpdate DEF Update, client
<1>2. ASSUME InsertEnds PROVE [Map!Next]_Map!vars
  <2>1. call \in Accounts /\ number[call] # Nothing
    BY <1>2 DEF InsertEnds, IInv, TypeOK, CallHasNumber
  <2> QED BY <1>2, <2>1, PlainUpdate DEF InsertEnds, client
<1>3. ASSUME NEW b \in Buddies, BuddyCall(b) PROVE [Map!Next]_Map!vars
  BY <1>1, <1>3, InsertMaps, QueryMaps
     DEF BuddyCall, InsertBuddyInfo, UpdateBuddyInfo, QueryBuddy, Accounts
<1>4. ASSUME NEW g \in Groups, GroupCall(g) PROVE [Map!Next]_Map!vars
  BY <1>1, <1>4, InsertMaps, QueryMaps
     DEF GroupCall, InsertGroupInfo, UpdateGroupInfo, QueryGroup, Accounts
<1>5. ASSUME UNCHANGED vars PROVE [Map!Next]_Map!vars
  BY <1>5, Unchanged DEF vars
<1> QED BY <1>2, <1>3, <1>4, <1>5, OpeningMaps, BatchesMap, ClientMaps DEF Next

\* The user database is a map that keeps or loses a batch as a whole, wherever the
\* process dies, for every set of friends, groups, names and values.
THEOREM DbImplementsMap == Spec => ImplementsMap
<1>1. Init => Map!Init
  <2> SUFFICES ASSUME Init PROVE Map!Init
    OBVIOUS
  <2>1. Known(disk) = [k \in Accounts |-> Nothing] /\ rows = disk BY DEF Init, Known
  <2>2. [a \in Accounts |-> info[a].data] = [a \in Accounts |-> Nothing]
    BY DEF Init
  <2> QED BY <2>1, <2>2 DEF Map!Init, Map!Empty, Init
<1> QED BY <1>1, StepMaps, Invariance, PTL DEF Spec, ImplementsMap, Map!Spec
==============================================================================
