------------------------------- MODULE UserDb -------------------------------
(***************************************************************************)
(* The database of one account (lib/lwdb.c:153-1166, lib/swsqlite.c): its  *)
(* file is checked and created when it is opened, a row is inserted and    *)
(* then updated by two SQL statements, transactions collect changes, rows  *)
(* are flushed by giving them the time 0, prepared statements are cached,  *)
(* and the QQ numbers of the friends of a session are looked up by name.   *)
(* The process may die between any two SQL statements.                     *)
(*                                                                         *)
(* SQLite is external: a statement happens as a whole, outside a           *)
(* transaction it is durable at once, and what was not committed is gone   *)
(* after a crash.                                                          *)
(***************************************************************************)
EXTENDS Naturals, Sequences, FiniteSets, TLC

CONSTANTS
  Buddies, Groups,  \* the friends and groups, and the QQ numbers they own
  Nicks, Marks,     \* the names that friends and groups go by
  Data,             \* long_nick or memo; level and mask are left out
  CacheLen,         \* LWDB_CACHE_LEN
  Nothing           \* NULL, an empty column, or no row

ASSUME Distinct ==
  /\ Buddies \cap Groups = {}
  /\ Nothing \notin Nicks \cup Marks \cup Data \cup Buddies \cup Groups
  /\ CacheLen \in Nat

Accounts == Buddies \cup Groups
Names == [nick : Nicks, mark : Marks \cup {Nothing}]

VARIABLES
  stage,      \* how much of the file there is: see Stages
  disk,       \* [Accounts -> Rows], the tables that a crash leaves
  rows,       \* [Accounts -> Rows], the tables that the connection sees
  batch,      \* BOOLEAN, a transaction is open
  mode,       \* "closed", "creating" or "open": the LwdbUserDB
  attached,   \* BOOLEAN, the extension of the client is there
  cache,      \* Seq(Statements), db->cache
  loose,      \* SUBSET Statements, prepared, in no slot of the cache
  call,       \* the object whose insert is between its two statements
  info,       \* [Accounts -> Infos], the LwqqBuddy and LwqqGroup objects
  number,     \* [Accounts -> Accounts \cup {Nothing}], qqnumber or account
  told        \* history: the last change of an object came from the server

file == <<stage, disk>>
client == <<attached, info, number, told>>
vars ==
  <<stage, disk, rows, batch, mode, attached, cache, loose, call, info, number, told>>

\* The file is missing, has some tables, has all of them, has also the version, or
\* is of another version.
Stages == {"absent", "some", "tables", "complete", "outdated"}

\* last_modify: 0, or the time of the last update.
Stamps == {"zero", "set"}

Row == [names : Names \cup {Nothing}, data : Data \cup {Nothing}, stamp : Stamps]
Infos == [names : Names, data : Data \cup {Nothing}]

ASSUME NothingIsNoRow == Nothing \notin Row

Statements == {"insert_buddy", "update_buddy", "query_buddy",
               "insert_group", "update_group", "query_group"}

------------------------------------------------------------------------------
Init ==
  /\ stage \in {"absent", "outdated"}
  /\ disk = [a \in Accounts |-> Nothing]
  /\ rows = disk
  /\ batch = FALSE
  /\ mode = "closed"
  /\ attached = FALSE
  /\ cache = << >> /\ loose = {}
  /\ call = Nothing
  /\ info \in [Accounts -> [names : Names, data : {Nothing}]]
  /\ number = [a \in Accounts |-> Nothing]
  /\ told = FALSE

------------------------------------------------------------------------------
(* Opening, creating and closing. *)

\* Variant: the version is not asked for.
HasPairsTable == stage \in {"tables", "complete", "outdated"}

\* db_is_valid: there is a table "pairs" and it has the version of this library.
DbIsValid == stage = "complete"

Open ==
  /\ mode' = "open"
  /\ UNCHANGED <<disk, rows, batch, cache, loose, call>>
  /\ UNCHANGED client

\* lwdb_userdb_new; a file that is not valid is unlinked.
UserdbNew ==
  /\ mode = "closed"
  /\ \/ DbIsValid /\ Open /\ UNCHANGED stage
     \/ /\ ~DbIsValid
        /\ mode' = "creating"
        /\ stage' = "absent"
        /\ disk' = [a \in Accounts |-> Nothing]
        /\ rows' = disk'
        /\ UNCHANGED <<batch, cache, loose, call>>
        /\ UNCHANGED client

\* create_user_db_sql makes "pairs" last, and then init_user_db_sql writes the version.
CreateDb ==
  /\ mode = "creating"
  /\ \/ /\ stage = "absent" /\ stage' = "some" /\ UNCHANGED <<disk, mode>>
     \/ /\ stage = "some" /\ stage' = "tables" /\ UNCHANGED <<disk, mode>>
     \/ /\ stage = "tables" /\ stage' = "complete" /\ UNCHANGED disk /\ mode' = "open"
  /\ UNCHANGED <<rows, batch, cache, loose, call>>
  /\ UNCHANGED client

\* The session is over: the objects of the client are gone, and the next one
\* meets whatever names the server has by then.
SessionEnds ==
  /\ mode' = "closed"
  /\ rows' = disk
  /\ batch' = FALSE
  /\ cache' = << >> /\ loose' = {}
  /\ call' = Nothing
  /\ attached' = FALSE
  /\ info' \in [Accounts -> [names : Names, data : {Nothing}]]
  /\ number' = [a \in Accounts |-> Nothing]
  /\ told' = FALSE
  /\ UNCHANGED file

\* lwdb_userdb_free; the extension goes before the database that it points to.
UserdbFree ==
  /\ mode = "open" /\ call = Nothing /\ ~attached
  /\ loose = {}
  /\ SessionEnds

\* The process dies, at any SQL statement.
Crash == mode # "closed" /\ SessionEnds

\* Another version of the library made the file.
Upgrade ==
  /\ mode = "closed" /\ stage = "complete"
  /\ stage' = "outdated"
  /\ UNCHANGED <<disk, rows, batch, mode, cache, loose, call>>
  /\ UNCHANGED client

Ready == mode = "open" /\ call = Nothing

------------------------------------------------------------------------------
(* Statements. *)

\* The statements of the cache after s was asked for: enable_cache with get_cache
\* and set_cache.
Cached(s) ==
  IF (\E i \in DOMAIN cache : cache[i] = s) \/ Len(cache) >= CacheLen
    THEN cache ELSE Append(cache, s)

InCache(s) == \E i \in DOMAIN Cached(s) : Cached(s)[i] = s

\* A change of the tables is durable at once outside a transaction.
Change(new) ==
  /\ rows' = new
  /\ disk' = IF batch THEN disk ELSE new
  /\ UNCHANGED <<stage, batch, mode>>

Exists(k) == rows[k] # Nothing

\* UPDATE ... SET ..., last_modify=datetime('now') WHERE the number is k.
UpdatedRow(k, i) ==
  IF Exists(k) THEN [names |-> i.names, data |-> i.data, stamp |-> "set"] ELSE Nothing

\* The row that an INSERT leaves: of a group it has the names.
InsertedRow(a) ==
  [names |-> IF a \in Groups THEN info[a].names ELSE Nothing,
   data |-> Nothing, stamp |-> "zero"]

Kind(a, buddy, group) == IF a \in Buddies THEN buddy ELSE group

\* lwdb_userdb_insert_buddy_info and lwdb_userdb_insert_group_info up to the nested
\* update.  A row that is there already makes the INSERT fail, which is ignored.
Insert(a) ==
  LET s == Kind(a, "insert_buddy", "insert_group")
      k == number[a]
  IN  /\ Ready
      /\ k # Nothing
      /\ call' = a
      /\ cache' = Cached(s)
      /\ loose' = IF InCache(s) THEN loose ELSE loose \cup {s}
      /\ Change(IF Exists(k) THEN rows ELSE [rows EXCEPT ![k] = InsertedRow(a)])
      /\ UNCHANGED client

\* The UPDATE for object a with what it holds now, all in all.
UpdateWith(a, i) ==
  LET k == number[a]
  IN  /\ cache' = Cached(Kind(a, "update_buddy", "update_group"))
      /\ Change([rows EXCEPT ![k] = UpdatedRow(k, i)])

\* Variant: the insert statement is not ended when the cache was full.
KeepsLoose == loose

\* What sws_query_end leaves of the statements outside the cache.
LooseAfterCall == {}

InsertEnds ==
  /\ mode = "open" /\ call # Nothing
  /\ UpdateWith(call, info[call])
  /\ loose' = LooseAfterCall
  /\ call' = Nothing
  /\ UNCHANGED client

\* What lwdb_userdb_update_buddy_info and lwdb_userdb_update_group_info return.
UpdateReturns(a) == IF number[a] = Nothing THEN "error" ELSE "ok"

Update(a) ==
  /\ Ready
  /\ number[a] # Nothing
  /\ UpdateWith(a, info[a])
  /\ UNCHANGED <<loose, call>>
  /\ UNCHANGED client

InsertBuddyInfo(b) == b \in Buddies /\ Insert(b)
InsertGroupInfo(g) == g \in Groups /\ Insert(g)
UpdateBuddyInfo(b) == b \in Buddies /\ Update(b)
UpdateGroupInfo(g) == g \in Groups /\ Update(g)

\* Variant: the time of the row is not looked at.
TakesAny(k) == Exists(k)

\* WHERE ... and last_modify != 0.
Believed(k) == Exists(k) /\ rows[k].stamp # "zero"

\* lwdb_userdb_query_buddy and lwdb_userdb_query_group: no row or a NULL, no change.
Query(a) ==
  LET k == number[a]
  IN  /\ Ready /\ k # Nothing
      /\ cache' = Cached(Kind(a, "query_buddy", "query_group"))
      /\ IF Believed(k) /\ rows[k].data # Nothing
           THEN info' = [info EXCEPT ![a].data = rows[k].data] /\ told' = FALSE
           ELSE UNCHANGED <<info, told>>
      /\ UNCHANGED <<rows, disk, stage, batch, mode, loose, call, attached, number>>

QueryBuddy(b) == b \in Buddies /\ Query(b)
QueryGroup(g) == g \in Groups /\ Query(g)

------------------------------------------------------------------------------
(* Transactions and flushes. *)

\* A second BEGIN fails and is ignored.
UserdbBegin ==
  /\ Ready
  /\ batch' = TRUE
  /\ UNCHANGED <<stage, disk, rows, mode, cache, loose, call>>
  /\ UNCHANGED client

\* COMMIT outside a transaction fails and is ignored: disk = rows then.
CommittedTables == rows

UserdbCommit ==
  /\ Ready
  /\ disk' = CommittedTables
  /\ batch' = FALSE
  /\ cache' = << >>
  /\ UNCHANGED <<stage, rows, mode, loose, call>>
  /\ UNCHANGED client

\* The rows of a table that ORDER BY last_modify LIMIT last can give when those in
\* "due" are old enough: rows with the time 0 always are, and come first.
Oldest(table, due, last) ==
  LET zero == {k \in table : Exists(k) /\ rows[k].stamp = "zero"}
      all == zero \cup due
  IN  {s \in SUBSET all :
         /\ Cardinality(s) = IF Cardinality(all) < last THEN Cardinality(all) ELSE last
         /\ s \subseteq zero \/ zero \subseteq s}

Flush(table) ==
  /\ Ready
  /\ \E last \in 0 .. Cardinality(table), due \in SUBSET {k \in table : Exists(k)} :
       \E s \in Oldest(table, due, last) :
         Change([k \in Accounts |->
                   IF k \in s THEN [rows[k] EXCEPT !.stamp = "zero"] ELSE rows[k]])
  /\ UNCHANGED <<cache, loose, call>>
  /\ UNCHANGED client

FlushBuddies == Flush(Buddies)
FlushGroups == Flush(Groups)

------------------------------------------------------------------------------
(* The objects of the client. *)

\* The row goes by the names of the object; a friend without a mark is looked up by
\* the nick alone.
Matches(k, i) ==
  /\ Exists(k) /\ rows[k].names # Nothing
  /\ rows[k].names.nick = i.names.nick
  /\ i.names.mark # Nothing => rows[k].names.mark = i.names.mark

\* lwdb_userdb_query_qqnumbers: a number is taken when one row only has the names.
QueryQqnumbers ==
  /\ Ready
  /\ number' =
       [a \in Accounts |->
          LET found == {k \in (IF a \in Buddies THEN Buddies ELSE Groups) : Matches(k, info[a])}
          IN  IF Cardinality(found) = 1 THEN CHOOSE k \in found : TRUE ELSE number[a]]
  /\ UNCHANGED <<stage, disk, rows, batch, mode, cache, loose, call, attached, info,
                 told>>

\* The server tells the number of a friend or group.
NumberAnswered(a) ==
  /\ call # a
  /\ number' = [number EXCEPT ![a] = a]
  /\ UNCHANGED <<stage, disk, rows, batch, mode, cache, loose, call, attached, info,
                 told>>

\* lwqq_info_get_single_long_nick and lwqq_info_get_group_memo are answered; the
\* extension is not told.
InfoChanged(a, d) ==
  /\ call = Nothing
  /\ info' = [info EXCEPT ![a].data = d]
  /\ told' = TRUE
  /\ UNCHANGED <<stage, disk, rows, batch, mode, cache, loose, call, attached, number>>

\* do_change_markname; group_chg and friend_chg follow at once.
MarkChanged(a, mark) ==
  /\ call = Nothing
  /\ info' = [info EXCEPT ![a].names.mark = mark]
  /\ IF attached /\ number[a] # Nothing
       THEN UpdateWith(a, info'[a])
       ELSE UNCHANGED <<stage, disk, rows, batch, mode, cache>>
  /\ UNCHANGED <<loose, call, attached, number, told>>

\* db_extension_init and db_extension_remove.
DbExtensionInit ==
  /\ Ready /\ ~attached
  /\ attached' = TRUE
  /\ UNCHANGED <<stage, disk, rows, batch, mode, cache, loose, call, info, number, told>>

DbExtensionRemove ==
  /\ Ready /\ attached
  /\ attached' = FALSE
  /\ UNCHANGED <<stage, disk, rows, batch, mode, cache, loose, call, info, number, told>>

------------------------------------------------------------------------------
Opening == UserdbNew \/ CreateDb \/ UserdbFree \/ Crash \/ Upgrade
Batches == UserdbBegin \/ UserdbCommit \/ FlushBuddies \/ FlushGroups
BuddyCall(b) == InsertBuddyInfo(b) \/ UpdateBuddyInfo(b) \/ QueryBuddy(b)
GroupCall(g) == InsertGroupInfo(g) \/ UpdateGroupInfo(g) \/ QueryGroup(g)
Client ==
  \/ QueryQqnumbers \/ DbExtensionInit \/ DbExtensionRemove
  \/ \E a \in Accounts :
       \/ NumberAnswered(a)
       \/ \E d \in Data : InfoChanged(a, d)
       \/ \E mark \in Marks \cup {Nothing} : MarkChanged(a, mark)

Next ==
  \/ Opening \/ Batches \/ Client \/ InsertEnds
  \/ \E b \in Buddies : BuddyCall(b)
  \/ \E g \in Groups : GroupCall(g)

Spec == Init /\ [][Next]_vars

\* For TLC: what is kept for a friend or a group may be permuted.
Symmetry == Permutations(Data)

------------------------------------------------------------------------------
(* Properties. *)

Rows == Row \cup {Nothing}

TypeOK ==
  /\ stage \in Stages
  /\ disk \in [Accounts -> Rows] /\ rows \in [Accounts -> Rows]
  /\ batch \in BOOLEAN /\ attached \in BOOLEAN /\ told \in BOOLEAN
  /\ mode \in {"closed", "creating", "open"}
  /\ cache \in Seq(Statements)
  /\ loose \subseteq Statements
  /\ call \in Accounts \cup {Nothing}
  /\ info \in [Accounts -> Infos]
  /\ number \in [Accounts -> Accounts \cup {Nothing}]

\* A database that is open has all its tables and the version of this library,
\* wherever an earlier creation was cut off.
OpenIsComplete == mode = "open" => stage = "complete"

\* Between calls every prepared statement is in the cache, once, so that the cache
\* can end them all before sqlite3_close.
StatementsKept ==
  /\ Len(cache) <= CacheLen
  /\ \A i, j \in DOMAIN cache : cache[i] = cache[j] => i = j
  /\ call = Nothing => loose = {}

Known(tables) ==
  [k \in Accounts |->
     IF tables[k] # Nothing /\ tables[k].stamp # "zero" THEN tables[k].data ELSE Nothing]

\* The database is a map: a half-inserted or flushed row is no entry, a crash loses
\* the open transaction and nothing else, and a query brings what was last written.
Map ==
  INSTANCE RowStore WITH Keys <- Accounts, Holders <- Accounts,
    durable <- Known(disk), view <- Known(rows),
    held <- [a \in Accounts |-> info[a].data]

ImplementsMap == Map!Spec

\* What lwdb.h:86 says of an update: an error occurs if there is no row.
UpdateReports ==
  [][\A a \in Accounts : Update(a) /\ ~Exists(number[a]) => UpdateReturns(a) = "error"]_vars

\* What lwdb.c:891 says of a number found by name: it is the only one, the friend's.
NumberIsOwn == \A a \in Accounts : number[a] \in {a, Nothing}
==============================================================================
