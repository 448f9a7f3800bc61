# lwqq in TLA+

lwqq is a C library that speaks the WebQQ protocol: it logs in, polls for
messages over HTTP, sends messages, keeps lists of friends and groups, and
caches names in SQLite. It is asynchronous: one thread runs a libev loop in
which curl's multi handle completes requests and callbacks run; the application
submits requests from that thread or from its own. What is hard in it is not
the protocol but the bookkeeping: who may touch an event after it finished, what
a cancelled poll still does, when a set of requests is complete, which thread
sleeps on what, which algorithm of a table was tried, who frees a friend that
was removed while a message of his waits.

This directory models that bookkeeping. Line numbers below are those of `lib/`
and `src/` in the repository's root; `PROJECT.json` maps every definition to its
lines.

## The components

| Component | State | Operations | What is hard | Correct when | Module |
|---|---|---|---|---|---|
| Events and sets (`async.c:30-53, 118-253`) | an event's command list, result, set, chain; a set's `ref_count`, `err_count`, command | `event_new`, `evset_new`, `add_event_listener`, `add_event_chain`, `evset_add_event`, `evset_unref`, `event_finish` | completion on the loop thread between any two steps of the submitter; only `ref_count` and `err_count` are locked | the set's command runs once, after all events, with the right error count; nothing is used after its free; called events finish | AsyncEvset, JointCompletion |
| Loop thread (`async.c:91-116, 256-363`, `async_libev.c`) | `ev_thread_status`, `global_quit_lock`, watchers, the loop | `dispatch`, `dispatch_delay`, `io_watch`, `timer_watch`, `global_quit`, `ev_run_thread` | status and condition variable without a common lock | watchers run; quit returns; one thread; loop freed after it | EventLoop |
| HTTP queue (`http.c`) | `add_link`, `conn_link`, `conn_length`, curl's multi handle, `retry_`, `bits`, `ev.err` | `do_request_async`, `cancel`, `cleanup`, `delay_add_handle_cb`, `check_multi_info`, `async_complete` | retries, cancels and clean-ups at any moment; three-party handshake | the limit holds; every request is answered; a cancel is seen; nothing outlives its client | HttpQueue |
| Poll session (`msg.c:1689-1875`, `login.c:484-645`, `info.c:234, 1983`) | `stat`, `running`, `req`, session data | `msglist_poll`, `msglist_close`, the poll's callback, relink, log-out, `change_status2` | answers that arrive after a close, a relink or a log-out | one poll; polling ends by log-out and only so; messages are announced | PollSession |
| Received messages (`msg.c:50-60, 352-358, 531-607, 1520-1687, 2400`) | the list, `last_id`, a group's `last_seq` | insert in order, delayed insertion, `msglist_read`, `check_lost` | messages that wait for pictures or senders; one list, sorted by `msg_id`, for all senders | sorted, nothing lost but for another of its number, nothing twice | MessageList |
| Login (`login.c:46-482, 647-691`, `internal.c:11-48`) | `LoginStage`, `lc->stat`, `args->vf_image` | six stages, `code->cmd`; the image of a search | nesting in synchronous sections; the user's answer at any time | one strand, one end | LoginStages |
| Hash selection (`type.c:600-686`, `info.c:795-908, 1102-1212`) | `hash_entry`, `hash_idx`, `hash_beg`, `hash_next` | `hash_add_entry`, `hash_set_beg`, `hash_auto`, `hash_all_finished`, `hash_get_last`, the two loads | the loads share the state, and a load inherits what the one before left | every algorithm is tried before a load gives up | HashLoad |
| User database (`lwdb.c:153-1166`, `swsqlite.c`) | the file, an open transaction, cached statements, numbers found by name | new, free, insert, update, query, begin, commit, flush, `query_qqnumbers`, the extension | a row is made by two statements; the process may die between them; statements outlive their slot | the database is a map with transactions; an open one is complete; no statement is lost | UserDb, RowStore |
| Friends and groups, who is listed (`info.c`, `msg.c:894-1275, 1400-1600`, `type.c:368-576`) | `lc->friends`, `groups`, `discus`; the objects that messages hold | load a list, friends added and removed, a group joined, left or quit, a message of a stranger | a load, a removal, a quit and a lookup of one key overlap | each object has one owner until it is freed; who writes is listed | Contacts |
| Friends and groups, what is known (`info.c`) | the fields of `LwqqBuddy`, `LwqqGroup`, `LwqqClient` | the requests that ask for details or change them | requests about one field overlap, are refused, lost, or overtake each other; members are freed while something is asked about them | what the client keeps is what the server has | Details |
| Calls of several requests (`internal.c:11-48`, `info.c`, `msg.c:1913-2397, 2553-2692`) | the call's event and chain, the user's code, uploads, `upload_retry`, `gface_sig`, the group's `last_seq` | search and add with a code, make a discussion, add a member as friend, `lwqq_msg_send`, off-line files | a send waits for uploads that fail and are retried while the poll stops and other sends overlap | sent with its pictures settled; the caller always hears; numbers agree | Calls |
| Client (`type.c:115-276`) | magic, status, handlers | new, free | free while callbacks are under way | no callback meets a freed client | parts in PollSession, HttpQueue, Contacts |
| Command lists (`vplist.c`) | linked commands | link, unlink, do, cancel | a command run twice or not at all | each command runs once | parts in AsyncEvset |
| Console client (`src/cli.c`) | - | main, `received_msg`, `need_verify2` | two threads; handlers that answer at once | - | as the caller, in PollSession, LoginStages, Calls |

How they interact: every asynchronous function returns an event; the HTTP queue
finishes it on the loop thread, when the callback of its request has run. Poll,
login, loads, details and calls are all such functions. The poll makes messages;
a message whose sender is not listed waits on an event set for the lookups of the
new object, and is put into the message list after it. The login's last stage and
the application start the loads, which walk the hash table; the extension of the
user database hears what the loads and changes brought.

## The modules

In all modules `\* Variant:` marks an operator that the specification does not use:
it is the next operator changed by a plausible mistake, and each property is known
to fail with one.

**JointCompletion** is what a set of events promises: members join, finish with
or without an error, and one report with the exact count follows when all have
finished and the owner has let go.

**AsyncEvset** models events and one set as the code has them. `event_finish` is
split where other code can run in between: the command list one command at a
time (`RunListener`, `OnChain`, `OnChainReturn`, `CommandsDone`), the error count
(`CountError`), the reference (`Unref`), the set's command (`RunSetCommand`) and
the frees. The owner's `evset_unref` of a set that it holds since `evset_new` and
the submitter's calls interleave with all of these. Chained events finish inside
`on_chain`, and chaining again cancels the earlier chain (`Rechained`), as the
retries of `info.c` do. `ImplementsJoint` is the refinement. In `Spec` nobody adds a
command to an event whose submission has returned, which is the discipline of the
library's own code; `AnyThreadSpec` has no such discipline.

**HttpQueue** places each request in `add`, `conn`, `dispatch` or `answered` and
keeps what the code keeps beside: `addLink` in order, `inMulti` for curl's view,
`connLength`, the retries left, `err`. `CheckMultiInfo` takes a completed
transfer out and either answers it, or puts it back into `add_link` for a retry,
and always wakes the queue; `AsyncComplete` runs the callback, and `SubmitAgain`
is a callback that submits the same request, as the poll's does. The clean-up of
a client is split at every lock and condition variable of
`lwqq_http_cleanup`/`safe_remove_link`. curl is external: a running transfer ends
with any result, an abort only when the progress callback asks for it
(`CanAbort`), of its own accord or because the user's `progress_func` does
(`Watched`). A request whose client has gone is `leaked`. `MCHttpQueue` names the
requests for TLC.

**PollSession** models the long poll of one client: `running` and `req` of the
list, the requests in flight, those cancelled, the relinks, `stat`, and the
notices dispatched to the application. Each callback is one step (the default
build, without `USE_MSG_THREAD`). `Codes` abstracts the answers to what the
callback distinguishes. The HTTP queue appears as: a request in flight is
answered at any time, and a cancelled one never with success, which is
`HttpQueue!CancelIsSeen`. `Spec` has an application that closes the list while no
relink is pending and polls when no cancelled request is in flight;
`CarelessSpec` has any.

**EventLoop** models `ev_run_thread` and its callers with one step for each access
to `ev_thread_status` and `global_quit_lock`. libev is external: the loop returns
when nothing is watched or after the break that `loop_stop` asks for, and notices
a watcher that another thread starts. `missed` is a history variable: it marks
the cases in which a thread looks at the status in a gap where the answer does
not help it. Such a look is excused only where nobody runs the loop ever again
(`Abandoned`): the thread sleeps, or has gone and left `running` behind. As soon as
anybody wakes it, what waited must run.

**MessageList** models `list->head` as a sequence, insertion under the mutex as one
step, delayed insertion as one that comes later and in any order, and the reader
with `lwqq_msg_check_lost`. There is one list for all senders (`From`), sorted by
`msg_id`, which the server chooses (`Numberings`, any function: messages of two
senders, or of one, may have the same). The `seq` of a group's messages
(`GroupSeq`) is another number, which only the readers look at. `waiting` and `reads`
count the copies of a message whose event set has not fired, and that were read;
`copies` is how often the server sent it. **MCMessageList** has three messages of a group and one of a
friend, and three numberings: the friend's message between the group's, of one
number with one of them, and the group's in another order than their `seq`.

**LoginStages** models `do_login_stage` as the code has it: one function that
submits, is the listener of what it submitted, and looks at `s->ev` to learn what
happened. `nested` is `LWQQ_SYNC_ENABLED`: then the callback and the following
stage run before the call that submitted returns. `lc->args->vf_image` (`image`) has
two writers: `get_verify_image_cb`, and a search for a friend or a group
(`AskSearch`, `SearchAnswered`, `SearchTyped`), which shows an image of its own and
frees it without clearing the pointer; `do_login` takes what it finds there
(`TakeCode`), whoever left it. A login whose code is owed may be given up for another
one. `Spec` hands the user's code in when no callback is under way, `HastySpec` at any
time; there is one search at a time, and the code of a login that was given up is not
handed in.

**HashLoad** models the table of algorithms by places: `idx`, `beg` and `next` are
the three fields, `HashAuto` and `HashAllFinished` the two functions that move
them. A load sends the algorithm that `HashAuto` chooses; `BackAgain` is an answer
HASH_WRONG that sends the request once more, `BackEnds` and `BackBroken` the other
answers. Which algorithm the server accepts (`right`) is arbitrary, also none.
`start` and `tried` are history. `HashSpec` loads one list at a time, `TogetherSpec`
both.

**UserDb** models one account's file with one step for each SQL statement:
`InsertBuddyInfo` and `InsertEnds` are the two of an insert, `CreateDb` goes table by
table. `rows` is what the connection sees and `disk` what a crash leaves; they
differ only in a transaction. `cache` and `loose` are the prepared statements with
and without a slot. `told` is a history variable: it tells the change of an object
that a query made from one that the server made, so that the refinement cannot
explain a wrong answer of a query as news. **RowStore** is the abstract specification:
a map from numbers to data in which a call happened or did not, and a batch is
kept or lost as a whole. `ImplementsMap` maps a half-inserted or flushed row to no
entry. What is kept for an account is `long_nick` or `memo` (`Data`), changed by the
answers that bring them (`InfoChanged`); its names change by `MarkChanged`, of which the
extension hears. `level` and `mask` are left out: a query takes these columns one by
one (`lwdb.c:1025-1031, 1054-1058`).

**Contacts** models objects, each with the key it stands for: the three lists, the
messages that hold objects (`message`, with the lookups each waits for), the message
list as far as order of removal and reading goes (`inbox`), the loads and the quits.
The server has its own view (`contact`), changes it, and tells by `news`, which the
poll brings one at a time. Every handler is one action, as all run on the
dispatching thread. A removal takes one entry out of a list, as LIST_REMOVE does
(`Removed`): that no list has an object twice is proved and not built in. The module
assumes that the keys of the three lists differ and that there are finitely many
(`ContactsAssumption`): a load's answer is a finite list.

**Details** keeps for each field of each contact the number of the change that gave
it its value, at the server (`there`) and in the client (`here`); members are sets, and
a member has a signature (`LwqqSimpleBuddy.group_sig`). A
request is a record of what it sets at the server, what it reads and what its callback
keeps, so each function of `info.c` is one action that builds its record; `Serve`,
`Refuse` and `Back` are the life of any. Three callbacks take a result whatever
`retcode` says (`Heedless`), so that a refusal with one is an answer to them
(`Results`). The details of a group free its members (`MembersFreed`): what was known
of them is forgotten, and a request for a signature that is still under way writes into
memory that is free or somebody else's (`freed`, `Strays`). `clash` is a history
variable, the fields of which no client of this protocol could know the value: two
requests were served before the callback of one had run, and one of them changes what the
other reads or changes (`Overtaken`, `Joining`), an answer to a change was lost,
somebody else changed it without notice, or a stray write hit it. `MessageIn` is
`lwqq_msg_check_member_chg`.

**Calls** models functions that need several requests while the caller waits for one
event: the verify code (`RequestCaptchaBack`, `UserAnswers`), the permission
(`AddGroupMemberStage2`), and `Send` with `UploadBack`, `ProcessGfaceSig`,
`MsgSendContinue` and `RequestBack`, which is the life of a message. The commands of
a finishing event run in their order (`RunCommand`), because the callback that lists
a new discussion is one of them and so is the chain to the caller's event. `crashed`
is a call that wrote through NULL: after it nothing runs (`Alive`).

Each module stands for one object and assumes of its neighbours what their
modules check: MessageList, PollSession, Contacts and Calls that event sets fire
(`AsyncEvset!SetEventuallyFires`), PollSession what a cancel does
(`HttpQueue!CancelIsSeen`), HttpQueue that dispatched commands run
(`EventLoop!WatchRuns`), and HashLoad, Contacts, Details and Calls that requests are
answered (`HttpQueue!Answered`).

## The runs

| Run | Instance | States | Shows |
|---|---|---|---|
| `event_sets` | 3 events, 1 set | 217 000 | chains finish what they call, every event is finished, also one that a retry takes over, the set is not used after its free and fires; it implements JointCompletion |
| `http_queue` | 3 requests (one re-submitted and cancellable, one never retried), 2 clients of which one leaves, 2 slots, 1 retry | 88 000 | the queue is exact, the loop sees what runs, a cancel is seen and stops the request; every request gets its callback, unless its client has gone or clean-ups left no slot |
| `poll_session` | 2 polls, 2 relinks | 4 800 | one poll, announced messages, an end by log-out only |
| `event_loop` | 2 timers | 363 | the loop is there for its threads; dispatched commands run unless a quit comes first, quits return, both also after a missed look once anybody wakes the thread |
| `message_list` | 3 messages of a group, 1 of a friend, 3 numberings, 5 arrivals | 136 000 | a sorted list, one place for a message, none dies but for another of its number, no gap goes unreported, every message is read |
| `login` | 3 events, 1 search | 224 000 | no stage used after its free, one thing that moves a login on, an end |
| `hash_load` | tables of 2 to 4 algorithms, 3 loads | 128 000 | giving up means that all were refused; every load ends |
| `user_db` | a friend, a group, 1 nick, 2 data, cache of 1 | 407 000 (data permuted) | complete when open, no statement lost, implements RowStore |
| `contacts` | a friend, a group, a discussion, 2 messages of the server, 1 load, 1 quit | 375 000 | one owner, senders listed, nobody missing after a load, every message read |
| `details` | a friend, a group, a discussion, 1 person, 2 calls, 1 change by others | 284 000 | the client is in step, a discussion's members catch up |
| `calls` | 2 calls, 1 picture, 1 retry, 1 message of others | 394 000 | pictures settled, faces signed, discussions listed, numbers agree, every call ends |
| `user_db_number` | 2 friends, 1 nick, 1 mark | - | refutes `NumberIsOwn`, see the findings |

Why the bounds are enough. A set needs two events to interleave and a third to be
chained to one of them; a fourth adds no new kind of order, and the proofs need no
bound. The queue needs more requests than slots, one request of another client,
and one retry to have all positions; two polls in flight and two relinks are what a
repeated poll needs. Three messages of a group give every position of an insertion
(before, between, after) and a gap of one; a fourth, of a friend, is enough to take the
place of one of them, and five arrivals leave room for a repeat or a notice. A login has one request in
flight and one event that is not freed yet; with a hasty handler one more. A walk
of the hash table needs an algorithm before, at and after `hash_beg`, a load that
leaves its state to the next, and one that reads what that left. A cache of one slot
is full at once and has a statement to replace; a friend and a group need different
statements. (The code has 15 slots and 8 texts, so that its cache never fills: the
small one is harder on `StatementsKept`, which is proved for any.) The run has no marks,
so that a change of names writes the row and leaves the names; with a mark the same
properties were checked for a friend alone and for a group alone (7 760 and 7 152
states), and the proofs have any names. Data are interchangeable, hence `Symmetry`. An object of Contacts is contested by at most a load, a message and a
quit; with three messages (2 999 022 states, too many to repeat each time) the
properties hold as well. Details are about pairs of requests, so two calls and one
change from outside give every overlap. Two calls give every overlap of sends; one
call with two pictures, three retries and two messages of others was checked too.

Deadlock checking is off where the system may come to rest: an empty loop, all
requests answered, all events freed, and in `message_list`, `contacts`, `details` and
`calls` when the bounded arrivals and calls are used up (in `calls` also after a
crash). It is on in the others, which always have a next step.

Fairness. Steps of a thread are weakly fair: both threads are scheduled. Transfers
end because every request has a low-speed time-out and a bounded number of
retries. Timers expire. The user types a code that is asked for, or declines, an
assumption on the application; the application reads its messages. LoginStages needs
strong fairness for two things: a server that answers the last stage for ever with
retcode 0 and no result keeps the login going for ever, as nothing in the code counts
these repetitions; and a user who is asked for a code while log-outs and new logins come
again and again hands one in at last. HttpQueue needs it for the loop: a clean-up, or
a poll that is submitted again, takes the loop thread away from a request, but not for ever. Details needs it for `DiscuCatchesUp` only: requests are not
refused for ever, and people go on writing in a discussion, for it is their messages
that make the client look. Nobody is assumed to make a call, and in Calls and HashLoad
no request need succeed. UserDb has no fairness and no liveness property: each call
returns to its caller.

## What is proved

Every safety property of the passing runs and every action property is a theorem, and
so is the refinement of both abstract specifications. Everything here is proved for every
value of the constants under the named assumptions of each module (finite sets where the
code has finite lists, limits that are natural numbers, NULL values that are no objects).
Each theorem rests on an inductive invariant (`IInv`, or a name with the component's
prefix), which TLC has checked as well.

There is a proof module for each large component, and three for two components each
that work together: `NetworkProofs` (EventLoop, HttpQueue), `PollProofs` (PollSession,
MessageList) and `SessionProofs` (LoginStages, HashLoad). In such a pair one component's
common names have a prefix: `LoopSpec`, `ListSpec`, `HashSpec`.

`AsyncEvsetProofs`: for every finite set of events `Spec` implies the type
invariant, `SetOutlivesUse`, `OneFires`, `ReportIsExact`, and `ImplementsJoint` (the
abstract specification has no fairness, so this is all of it). The inductive
invariant says what `ref_count` counts: the owner's reference and one for each event
that is attached and has not passed `Unref`, so that the set can be freed, or its
command run, only when nobody is left (the type invariant alone allows a count that
is too small); and that `err_count` counts the attached events that failed and have
passed `CountError`. `ChainFinishesCalled` needs an invariant of its own (`Chains`): a
freed event has no command left (`CommandsRun`), the command that finishes a chained event
stands in the list of the event it was last chained to (`OnlyChained`), no two events wait for one caller
(`OneCalled`), and a chained event waits until its caller comes to that command
(`CallerKnown`) and is finished inside it with the caller's result (`CallerRuns`).

`NetworkProofs`, the loop thread: for any set of timers the type invariant,
`LoopIsThere` and `NoneMeansNone`. They are not inductive: the proof adds that a quit
frees the loop only after the join (`JoinedBeforeFree`), that a watcher's starter finds
its loop (`WatchedLoop`), and where a status that outlives its thread can come from
(`StatusMeansLoop`, `ForgottenStays`, `ParkingMisses`): only from a thread that missed
the quit.

`NetworkProofs`, the queue: for any requests, clients, limits and retries
`SlotsRespected`, `QueueIsExact`, `LoopSeesRunning` and `CancelIsSeen`. The loop's steps of
the clean-up make these fail in the middle of a handler, so the invariant says whom the
loop thread waits for (`LoopIsHeld`) and what curl has meanwhile (`HandlesAreConn`); a
running request has an attempt left (`AttemptLeft`), and a cancelled one never has the
result `ok` (`CancelStays`).

`PollProofs`, the poll: for any sets of request objects the type invariant,
`OnePoll`, `MessagesAnnounced` and `EndsOnlyByLogout`. `OnePoll` is not inductive by
itself: a relink that is answered after a close would start a second poll. The
strengthening `CloseIsQuiet` (while a cancelled poll is in flight no relink is
pending) holds because the careful application closes only then and a cancelled poll
sends none unless it ends; `EndsOnlyByLogout` follows from the invariant at the step
that empties `flying`.

`PollProofs`, the list: for any senders, messages, numberings and copies the type invariant,
`Sorted`, `OnePlace`, `OnlyDuplicatesDie` and `GapsReported`. The lemmas are about sequences: an insertion
moves what is behind it by one place (`InsertedAt`), `Copies` counts one more after it and
one less after a removal at the head (`CopiesInserted`, `CopiesBehind`), and the place that
`insert_recv_msg_with_order` finds keeps the order (`PlaceIsRight`, `InsertKeepsOrder`). A duplicate
is looked for at one place only, so that no number is listed twice rests on the order of
the list (`Sorted` says both), and every insertion has to keep it. The invariant adds that
a message of the number `last_id` is listed or was read (`LastKnown`), and that a group's
`last_seq` is that of a message which the check accepted (`ReaderKnows`). That the
destroyed message was a copy is not proved: it is refuted (`OnlyCopiesDie`, below).

`SessionProofs`, the login: for any set of events `StageOutlivesUse` and that one thing at
a time moves a login on (`OneMove`). The invariant (`OneCall`) says that there is one event
in flight, or a code that is owed, or no login, and for the event what its result and the
stage that follows have to do with each other. Nothing is claimed of the code that is sent.

`SessionProofs`, the hash algorithms: for tables of any size `GivesUpLast`, that no load
sends an algorithm twice (`NoneTwice`) and that `hash_get_last` names the accepted one
(`LastIsAccepted`). The invariant is that one load is under way (`OneLoad`) and that what
it tried is an arc of the table from where it started to `hash_idx` (`Walks`); the arc
grows by one entry with each answer, and the arc up to `hash_beg - 1` is the whole table.

`ContactsProofs`: for any keys and any number of messages, loads and quits the type
invariant, `OneOwner`, `SenderListed` and `EveryContactListed`. The invariant follows an object through its life:
one that waits to be listed is known to its message alone (`Unseen`), one that a message
took out is in no list and was taken out by no other (`RemovedOnce`), a freed one is gone
(`FreedGone`), and every other is somewhere (`Somewhere`). `EveryContactListed` is about
what the client was not told yet: a load's answer is as old as its request
(`snapshot`), so the invariant says that news of a removal is followed by news of the
return of whoever is a contact again (`BackAgain`), and that whoever has no news under way
is in the answer to come or in the list, as an object that no quit will take out
(`InSight`). Objects that a quit is about are excepted, as in the property (see
`ContactsQuit` below).

`DetailsProofs`: for any contacts and any number of requests `InStep` and the type
invariant (`Types`: whatever a request carries is a value of the field it is for). The invariant says
of each request that it keeps nothing but what it sets and asks for nothing that it sets
(`RequestsSound`, shown once for the record that each function of `info.c` builds); and of
each field that is not in `clash`, that a request which was served and not yet called back
has set it to what the server has, and that what any callback is about to write there, after
a success or a refusal, is what the server has or not known (`ServedIsThere`), that what a
served request sets without keeping is known already (`CarriedIsKnown`), and that the client
is in step but for such requests (`KnownButServed`).

`CallsProofs`: for any finite set of calls and any pictures, retries and messages
`PicturesSettled`, `FacesSigned`, `ListedWhenTold` and `NumbersAgree`. The invariant has a
part about each call alone: what a stage presupposes, how the retries left and the
attempts made add up, what is in the event set and why (`Good`); a part about the
commands left of the event that is finishing (`CommandsLeft`); and one that counts the
messages on their way between the two numbers of the group (`Numbered`).

`UserDbProofs`: `OpenIsComplete` and `StatementsKept` for a cache of any length, and
that every step of the database is a step of RowStore or a stutter (`DbImplementsMap`),
crashes included. The invariant adds that outside a transaction the connection sees
what the disk has (`DiskIsCurrent`), and that a half-done insert has a number
(`CallHasNumber`).

Only model-checked: liveness (`SetEventuallyFires`, `EventEventuallyFreed`, `Answered`,
`CancelStops`, `WatchRuns`, `QuitReturns`, `EveryMessageRead`, `LoginEnds`, `LoadEnds`, `DiscuCatchesUp`,
`CallEnds`), as the prover has neither fairness nor ENABLED; and that a finding is a
behaviour of the code, which a run shows and a theorem cannot.

Some invariants are stated in the modules and in no run, because the runs' properties
say more or a theorem covers them: `TypeOK` of every module, `OneFires`,
`ReportIsExact`, `NoneMeansNone`, `SlotsRespected`, `NoneTwice`,
`LastIsAccepted`. They can be added to the module's configuration, and hold.

## Findings

Each finding is in `PROJECT.json` with its line and the sentence of the repository that it
contradicts. All were found as counterexamples by TLC and can be seen again with
`tlc -config <configuration> <module>`.

| Configuration | Module | What happens |
|---|---|---|
| `UserDbNumbers` (run `user_db_number`) | UserDb | a friend whose row is missing gets the number of another friend with the same name, as that row is the only one |
| `UserDbReports` | UserDb | an update of a row that is not there reports success |
| `HashSkipped` | HashLoad | a load that inherits `hash_next` takes the next algorithm first and gives up without the ones before it |
| `HashShared` | HashLoad | two loads at once move one `hash_idx`; one of them skips algorithms |
| `HttpCanceled` | MCHttpQueue | the progress callback aborts the last attempt of a request, and the abort is reported as CANCELED, which the poll takes for the user's own cancel |
| `HttpCleanup` | MCHttpQueue | the clean-up of a client leaves its requests in `add_link` and its dispatched answers alive |
| `HttpHandshake` | MCHttpQueue | `ev_block_cond` can be signalled before the loop thread waits for it |
| `PollRepeat` | PollSession | `lwqq_msglist_close` followed by a poll or a relink's answer makes two polls |
| `PollRelink` | PollSession | the poll is restarted, with the old session, before the relink is answered |
| `MessageLost` (with `-continue`) | MCMessageList | a message is destroyed for one of another sender with the same `msg_id` (`OnlyCopiesDie`); a message that waited is reported as a duplicate (`DuplicateWasRead`) |
| `LoginHasty` | LoginStages | a need_verify handler that answers at once, like the console client's, makes the login use freed memory |
| `AsyncEvsetRace` | AsyncEvset | a listener added by another thread while the event finishes is never called |
| `ContactsGone` | Contacts | a removal that is read frees its friend while a message of his is still in the list |
| `Details` with the invariant `MemberOutlivesQuery` added | Details | the details of a group free the member whose signature was asked for; the callback writes to it |
| `DetailsOnce` | Details | a second request for details is sent while the first is under way, against `info.h:112` |
| `DetailsQun` | Details | the members of a group (not a discussion) are never asked for again, as its number is never set |
| `CallsNoCode` | Calls | no code from the user: the event of `lwqq_info_search_group_by_qq` never finishes |
| `CallsCrash` | Calls | a message whose poll stops while its pictures are uploaded chains to the event NULL |
| `CallsUpload` | Calls | an off-line picture whose requests all fail is sent without a path and without `upload_fail` |
| `CallsMember` | Calls | a member added as a friend is neither listed nor freed |
| `CallsRepeat` | Calls | a number is taken before the message is sent; the next message of somebody else may be called a duplicate |

Four more configurations refute what one would like to hold though no sentence of the
repository claims it, which is why the properties of the runs make an exception:
`ContactsQuit` (a quit that is answered after the server has removed the group frees it a
second time), `ContactsStale` (a friend that a load has listed already is listed twice by
the message that adds him, and removed once), `DetailsMasks` (of two requests to mask groups the
second carries the old mask of the first group), and `CallsImage` (an image that does not
come drops the call that asked for it). Two more properties that do not hold are stated in
their modules and can be added to the module's configuration: `LogoutStops` of PollSession
(a log-out that succeeds leaves `stat` OFFLINE, `login.c:495-498`, `info.c:246`, which
`lwqq_client_logined` takes for logged in, so the poll goes on), and `RightCode` of
LoginStages (`do_login` sends the code of a search, or of a login that was given up, or reads
and frees an image that is freed).

The lost notifications of the loop thread are not findings of a run but the exceptions
that `missed` makes in EventLoop: the gap between the end of `loop_run` and the wait
(`async.c:285-293`), and a thread that starts after it was told to quit.

## Not modelled

- Of the HTTP layer: headers, cookies, proxies, forms, decompression, `lwqq_http_do_request`
  (one blocking call, no state that another thread sees). They carry data and decide nothing that
  the queue depends on. Retries are put back by the loop thread without `add_lock`
  (`http.c:761`): what a half-inserted list entry does is undefined, and no property survives it,
  so insertion is one step.
- The texts: parsing of answers (`json.c`, the parse functions of `msg.c` and `info.c`), encoding
  (`url.c`, `encrypt.js`, `lwjs.c`), the hash functions, colours, faces and file names. The models
  take what an answer says as given.
- `lwqq_msg_accept_file` and `lwqq_msg_upload_file`: one request each, with a progress callback; they
  share no state with the rest.
- Of the user database the table of discussions and the key-value pairs (the same
  functions with other SQL), and the global database, which nothing calls.
- The order in which `lwqq_client_free` frees the parts of a client, and a client freed from a
  callback (`http.c:1178`), which the console client and the tests do not do.
- Two application threads in EventLoop (`async.c:307`); two threads that use events are in
  `AsyncEvsetRace`.
- What a repetition does at the server: the HTTP queue may post a request again that the server
  has already served (`http.c:716-768`), so that a message goes out twice; in Calls it is
  served once.
- Of a message that is sent: a custom face that has a name and no data goes out as a group's face
  (`msg.c:1941`) without its signature being asked for (`msg.c:2267`); the session message (SESS). Of a received one: a
  missing `msg_id` or `seq`, which is parsed as 0.
- Of the database's columns `level` and `mask`.
- `vp_do_repeat` and `vp_unlink`: the library changes no command list while it runs it.
- `async_libuv.c` (the other back end, same interface), `queue.h` and `json.c` (vendored),
  `smemory.c`, `utility.c`, `logger.c`, `win32.c` (helpers), the Python wrappers and the Xcode project.
- Compositions. PollSession with MessageList, and HttpQueue with PollSession, are connected by the
  assumptions named above and not by one module.
