------------------------------- MODULE HttpQueue -------------------------------
(***************************************************************************)
(* The queue of asynchronous http requests (lib/http.c): a request waits   *)
(* in add_link until one of cache_size slots is free, runs in the curl     *)
(* multi handle as a member of conn_link, goes back to add_link when an    *)
(* attempt fails and retries are left, and is answered by a callback that  *)
(* the loop thread runs later.  Any thread may cancel a request; the       *)
(* thread that frees a client stops the client's requests in a handshake   *)
(* with the loop thread.                                                   *)
(*                                                                         *)
(* Each handler of the loop thread is one step; the handshake is split at  *)
(* every unlock.  Curl itself is external: a transfer in the multi handle  *)
(* may end at any time with any result, and with "aborted" only when the   *)
(* progress callback asked for it.                                         *)
(***************************************************************************)
EXTENDS Naturals, Integers, Sequences, FiniteSets

CONSTANTS
  Requests,     \* the LwqqHttpRequest objects
  Clients,      \* the LwqqClient objects
  Leaving,      \* SUBSET Clients, those the application frees
  Owner,        \* [Requests -> Clients], LWQQ_HTTP_EV(req)->lc
  Cancelable,   \* SUBSET Requests, those with LWQQ_HTTP_CANCELABLE
  Limited,      \* SUBSET Requests, those with LWQQ_HTTP_MAXREDIRS
  Watched,      \* SUBSET Requests, those with a progress_func of the user's
  Reissued,     \* SUBSET Requests, those whose callback may submit them again
  MaxRetry,     \* request->retry
  CacheSize,    \* global.cache_size
  Nobody        \* no client

ASSUME QueueConstants ==
  /\ Owner \in [Requests -> Clients] /\ Leaving \subseteq Clients
  /\ Cancelable \subseteq Requests /\ Reissued \subseteq Requests
  /\ Limited \subseteq Requests \ Cancelable /\ Watched \subseteq Requests
  /\ MaxRetry \in Nat
  /\ CacheSize \in Nat \ {0}
  /\ Nobody \notin Clients
  /\ IsFiniteSet(Requests)

VARIABLES
  place,       \* [Requests -> Places], the list the request's D_ITEM is on
  addLink,     \* Seq(Requests), global.add_link
  inMulti,     \* SUBSET Requests, easy handles in the curl multi handle
  connLength,  \* global.conn_length
  retry,       \* [Requests -> Int], retry_
  forced,      \* [Requests -> BOOLEAN], HTTP_FORCE_CANCEL
  err,         \* [Requests -> Codes], ev.err
  pipe,        \* BOOLEAN, bytes wait in global.pipe_fd
  valid,       \* [Clients -> BOOLEAN], lc->magic = LWQQ_MAGIC
  cleaner,     \* the step of the thread in lwqq_http_cleanup
  cleaned,     \* the client that thread is freeing, or Nobody
  loop,        \* the loop thread: "run", in a poll's "callback", or in a step of
               \* safe_remove_link
  cancelled    \* [Requests -> BOOLEAN], lwqq_http_cancel was called

vars == <<place, addLink, inMulti, connLength, retry, forced, err, pipe,
          valid, cleaner, cleaned, loop, cancelled>>

requestVars == <<place, addLink, inMulti, connLength, retry, forced, err, cancelled>>
threadVars == <<valid, cleaner, cleaned, loop>>

\* "leaked": dropped with its event unfinished, because its client is not valid.
Places == {"idle", "add", "conn", "dispatch", "calling", "answered", "leaked"}
Codes == {"ok", "error", "canceled"}

\* What curl may report: success, a failure (a time-out among them), a body that
\* could not be stored, an unresolved host, too many redirects (where they are
\* limited), an abort by the progress callback.
Results == {"ok", "failed", "write", "unresolved", "redirects", "aborted"}

Conn == {r \in Requests : place[r] = "conn"}

------------------------------------------------------------------------------
Init ==
  /\ place = [r \in Requests |-> "idle"]
  /\ addLink = << >>
  /\ inMulti = {}
  /\ connLength = 0
  /\ retry = [r \in Requests |-> 0]
  /\ forced = [r \in Requests |-> FALSE]
  /\ err = [r \in Requests |-> "ok"]
  /\ pipe = FALSE
  /\ valid = [c \in Clients |-> TRUE]
  /\ cleaner = "idle"
  /\ cleaned = Nobody
  /\ loop = "run"
  /\ cancelled = [r \in Requests |-> FALSE]

\* delay_add_handle: bytes for the loop in the pipe.
WakeUp == pipe' = TRUE

\* Variant: http_reset forgets the error of an earlier submission.
EnqueueForgetsError(r) ==
  /\ place' = [place EXCEPT ![r] = "add"]
  /\ addLink' = Append(addLink, r)
  /\ retry' = [retry EXCEPT ![r] = MaxRetry]
  /\ forced' = [forced EXCEPT ![r] = FALSE]
  /\ err' = [err EXCEPT ![r] = "ok"]
  /\ WakeUp
  /\ UNCHANGED <<inMulti, connLength, cancelled>>

\* lwqq_http_do_request_async: http_reset and the new item at the tail of
\* add_link; ev.err keeps what an earlier submission, or a cancel, left in it.
Enqueue(r) ==
  /\ place' = [place EXCEPT ![r] = "add"]
  /\ addLink' = Append(addLink, r)
  /\ retry' = [retry EXCEPT ![r] = MaxRetry]
  /\ forced' = [forced EXCEPT ![r] = FALSE]
  /\ WakeUp
  /\ UNCHANGED <<inMulti, connLength, err, cancelled>>

\* A new request of a client.
Submit(r) ==
  /\ place[r] = "idle"
  /\ valid[Owner[r]]
  /\ Enqueue(r)
  /\ UNCHANGED threadVars

\* Variant: the cancel leaves ev.err alone.
CancelQuietly(r) ==
  /\ r \in Cancelable
  /\ place[r] \in {"add", "conn", "dispatch", "calling"}
  /\ retry' = [retry EXCEPT ![r] = 0]
  /\ forced' = [forced EXCEPT ![r] = TRUE]
  /\ cancelled' = [cancelled EXCEPT ![r] = TRUE]
  /\ UNCHANGED <<place, addLink, inMulti, connLength, err, pipe>>
  /\ UNCHANGED threadVars

\* lwqq_http_cancel, from any thread, while the request exists.
Cancel(r) ==
  /\ r \in Cancelable
  /\ place[r] \in {"add", "conn", "dispatch", "calling"}
  /\ retry' = [retry EXCEPT ![r] = 0]
  /\ forced' = [forced EXCEPT ![r] = TRUE]
  /\ err' = [err EXCEPT ![r] = "canceled"]
  /\ cancelled' = [cancelled EXCEPT ![r] = TRUE]
  /\ UNCHANGED <<place, addLink, inMulti, connLength, pipe>>
  /\ UNCHANGED threadVars

------------------------------------------------------------------------------
(* The loop thread. *)

\* How many waiting requests the free slots take.
FreeSlots ==
  IF connLength >= CacheSize THEN 0
  ELSE IF CacheSize - connLength < Len(addLink) THEN CacheSize - connLength
  ELSE Len(addLink)

\* delay_add_handle_cb: the bytes are read and the head of add_link is started.
DelayAddHandle ==
  /\ loop = "run" /\ pipe
  /\ pipe' = FALSE
  /\ LET started == {addLink[i] : i \in 1..FreeSlots} IN
       /\ place' = [r \in Requests |-> IF r \in started THEN "conn" ELSE place[r]]
       /\ inMulti' = inMulti \cup started
  /\ addLink' = SubSeq(addLink, FreeSlots + 1, Len(addLink))
  /\ connLength' = connLength + FreeSlots
  /\ UNCHANGED <<retry, forced, err, cancelled>>
  /\ UNCHANGED threadVars

\* The progress callback stops the transfer when no retry is left, on a cancel, or
\* when the user's progress_func says so.
CanAbort(r) ==
  \/ r \in Cancelable /\ (retry[r] = 0 \/ forced[r])
  \/ r \in Watched

\* Failures that no further attempt follows.
Hopeless(r, result) ==
  \/ result \in {"unresolved", "redirects"}
  \/ result = "aborted" /\ forced[r]

\* Variant: the attempt that was made is not counted.
RetryLeftUncounted(r, result) == IF Hopeless(r, result) THEN -1 ELSE retry[r]

\* set_error_code: the attempts left after this one.
RetryLeft(r, result) ==
  (IF Hopeless(r, result) THEN 0 ELSE retry[r]) - 1

\* errno_map, where too many redirects are no error.
CodeOf(result) ==
  CASE result \in {"aborted", "write"} -> "canceled"
    [] result = "redirects" -> "ok"
    [] OTHER -> "error"

\* Variant: the failed request is not put back on add_link.
RetryNever(r, result) ==
  /\ retry' = [retry EXCEPT ![r] = RetryLeft(r, result)]
  /\ forced' = [forced EXCEPT ![r] = FALSE]
  /\ place' = [place EXCEPT ![r] = "add"]
  /\ UNCHANGED <<addLink, err>>

\* check_multi_info, an attempt that will be repeated: to the tail of add_link.
\* http_clean clears the cancel bit, retry_ keeps a cancel's zero.
RetryLater(r, result) ==
  /\ retry' = [retry EXCEPT ![r] = RetryLeft(r, result)]
  /\ forced' = [forced EXCEPT ![r] = FALSE]
  /\ place' = [place EXCEPT ![r] = "add"]
  /\ addLink' = Append(addLink, r)
  /\ UNCHANGED err

\* check_multi_info, the request is over: its answer is dispatched to the loop,
\* or dropped if the client has gone.
Over(r, result) ==
  /\ place' = [place EXCEPT ![r] = IF valid[Owner[r]] THEN "dispatch" ELSE "leaked"]
  /\ IF result = "ok"
       THEN UNCHANGED <<retry, err>>
       ELSE /\ retry' = [retry EXCEPT ![r] = RetryLeft(r, result)]
            /\ err' = [err EXCEPT ![r] = CodeOf(result)]
  /\ UNCHANGED <<addLink, forced>>

CheckMultiInfo(r, result) ==
  /\ loop = "run" /\ r \in inMulti
  /\ result = "aborted" => CanAbort(r)
  /\ result = "redirects" => r \in Limited
  /\ inMulti' = inMulti \ {r}
  /\ connLength' = connLength - 1
  /\ WakeUp
  /\ IF result # "ok" /\ RetryLeft(r, result) >= 0
       THEN RetryLater(r, result)
       ELSE Over(r, result)
  /\ UNCHANGED cancelled
  /\ UNCHANGED threadVars

\* The callback frees the requests; only what the callback was told is kept here.
FreeRequests(freed) ==
  /\ place' = [r \in Requests |-> IF r \in freed THEN "answered" ELSE place[r]]
  /\ retry' = [r \in Requests |-> IF r \in freed THEN 0 ELSE retry[r]]
  /\ forced' = [r \in Requests |-> forced[r] /\ r \notin freed]

\* async_complete: the callback runs and the event is finished, unless the client
\* has gone.  A poll's callback reads ev.err and, when there is no error, handles
\* the answer before it submits its request again.
AsyncComplete(r) ==
  /\ loop = "run" /\ place[r] = "dispatch"
  /\ \/ /\ ~valid[Owner[r]]
        /\ place' = [place EXCEPT ![r] = "leaked"]
        /\ UNCHANGED <<retry, forced, loop>>
     \/ /\ valid[Owner[r]]
        /\ FreeRequests({r})
        /\ UNCHANGED loop
     \/ /\ valid[Owner[r]]
        /\ r \in Reissued /\ err[r] = "ok"
        /\ place' = [place EXCEPT ![r] = "calling"]
        /\ loop' = "callback"
        /\ UNCHANGED <<retry, forced>>
  /\ UNCHANGED <<addLink, inMulti, connLength, err, cancelled>>
  /\ UNCHANGED <<pipe, valid, cleaner, cleaned>>

\* receive_poll_message submits the request again.
SubmitAgain(r) ==
  /\ loop = "callback" /\ place[r] = "calling"
  /\ Enqueue(r)
  /\ loop' = "run"
  /\ UNCHANGED <<valid, cleaner, cleaned>>

------------------------------------------------------------------------------
(* lwqq_client_free and lwqq_http_cleanup, in a thread of their own. *)

\* The client is invalid from here on; safe_remove_link is dispatched and the
\* thread waits for async_cond.
CleanupBegin(c) ==
  /\ cleaner = "idle" /\ valid[c]
  /\ valid' = [valid EXCEPT ![c] = FALSE]
  /\ cleaner' = "waiting"
  /\ cleaned' = c
  /\ UNCHANGED <<requestVars, pipe, loop>>

\* Variant: the loop thread does not wait for the clean-up.
SafeRemoveLinkUnblocked ==
  /\ loop = "run" /\ cleaner = "waiting"
  /\ inMulti' = {r \in inMulti : Owner[r] # cleaned}
  /\ cleaner' = "woken"
  /\ UNCHANGED <<place, addLink, connLength, retry, forced, err, cancelled>>
  /\ UNCHANGED <<pipe, valid, cleaned, loop>>

\* safe_remove_link up to the unlock: the handles leave the multi handle and
\* async_cond is signalled.
SafeRemoveLink ==
  /\ loop = "run" /\ cleaner = "waiting"
  /\ inMulti' = {r \in inMulti : Owner[r] # cleaned}
  /\ loop' = "signalled"
  /\ cleaner' = "woken"
  /\ UNCHANGED <<place, addLink, connLength, retry, forced, err, cancelled>>
  /\ UNCHANGED <<pipe, valid, cleaned>>

\* safe_remove_link locks again and waits for ev_block_cond.
LoopBlocks ==
  /\ loop = "signalled"
  /\ loop' = "blocked"
  /\ UNCHANGED <<requestVars, pipe, valid, cleaner, cleaned>>

\* The requests of the client in conn_link are answered with CANCELED and their
\* events finished; conn_length is not touched, nor is add_link.
CleanupWalk ==
  /\ cleaner = "woken"
  /\ FreeRequests({r \in Conn : Owner[r] = cleaned})
  /\ err' = [r \in Requests |->
               IF r \in Conn /\ Owner[r] = cleaned THEN "canceled" ELSE err[r]]
  /\ cleaner' = "walked"
  /\ UNCHANGED <<addLink, inMulti, connLength, cancelled>>
  /\ UNCHANGED <<pipe, valid, cleaned, loop>>

\* ev_block_cond is signalled: it releases the loop thread only if it waits.
CleanupSignal ==
  /\ cleaner = "walked"
  /\ loop' = IF loop = "blocked" THEN "run" ELSE loop
  /\ cleaner' = "idle"
  /\ cleaned' = Nobody
  /\ UNCHANGED <<requestVars, pipe, valid>>

------------------------------------------------------------------------------
LoopStep ==
  \/ DelayAddHandle
  \/ SafeRemoveLink
  \/ LoopBlocks
  \/ \E r \in Requests, result \in Results : CheckMultiInfo(r, result)
  \/ \E r \in Requests : AsyncComplete(r) \/ SubmitAgain(r)

UserStep ==
  \/ \E r \in Requests : Submit(r) \/ Cancel(r)
  \/ \E c \in Leaving : CleanupBegin(c)

\* The handshake works when the loop thread has gone back to sleep before the
\* cleaning thread has walked the list.
TimelySignal == loop = "blocked" /\ CleanupSignal

Next == LoopStep \/ UserStep \/ CleanupWalk \/ TimelySignal

\* Whatever the loop owes one request: the end of its transfer, its callback.
Serve(r) == AsyncComplete(r) \/ \E result \in Results : CheckMultiInfo(r, result)

\* The loop runs, and serves each of its watchers in turn, so that a callback that
\* submits again and again does not keep it from the others (weak fairness is enough
\* for add_link: such a callback needs it itself); transfers end (every request has a
\* low-speed time-out); the cleaning thread is scheduled.
Fairness ==
  /\ WF_vars(DelayAddHandle) /\ SF_vars(SafeRemoveLink) /\ WF_vars(LoopBlocks)
  /\ \A r \in Requests : SF_vars(Serve(r)) /\ WF_vars(SubmitAgain(r))
  /\ WF_vars(CleanupWalk) /\ WF_vars(TimelySignal)

Spec == Init /\ [][Next]_vars /\ Fairness

\* Without the assumption on the handshake's timing.
AnyTimingSpec == Init /\ [][Next \/ CleanupSignal]_vars

------------------------------------------------------------------------------
(* Properties. *)

TypeOK ==
  /\ place \in [Requests -> Places]
  /\ addLink \in Seq(Requests)
  /\ inMulti \subseteq Requests
  /\ connLength \in Nat
  /\ retry \in [Requests -> -1..MaxRetry]
  /\ forced \in [Requests -> BOOLEAN]
  /\ err \in [Requests -> Codes]
  /\ pipe \in BOOLEAN
  /\ valid \in [Clients -> BOOLEAN]
  /\ cleaner \in {"idle", "waiting", "woken", "walked"}
  /\ cleaned \in Clients \cup {Nobody}
  /\ loop \in {"run", "callback", "signalled", "blocked"}
  /\ cancelled \in [Requests -> BOOLEAN]

\* "make sure there are only cache_size http request running" (http.c:54): the
\* slots in use never exceed the limit and every running request has one, through
\* retries, cancels and clean-ups.
SlotsRespected == Cardinality(Conn) <= connLength /\ connLength <= CacheSize

\* add_link holds exactly the waiting requests, each once: a retry moves a request
\* between the lists (http.c:757-764) and never leaves it on both or on none.
QueueIsExact ==
  /\ {addLink[i] : i \in DOMAIN addLink} = {r \in Requests : place[r] = "add"}
  /\ \A i, j \in DOMAIN addLink : addLink[i] = addLink[j] => i = j

\* The loop thread runs with every member of conn_link in the multi handle, so
\* each can still complete; it sees none whose handle a clean-up took away
\* (http.c:1095-1119, 1169-1206).
LoopSeesRunning == loop = "run" => Conn = inMulti

\* The callback of a request that was cancelled is never told that all is well:
\* ev.err is not cleared by http_reset, so even a cancel that comes while the
\* callback is about to submit the request again is seen by the next callback.
CancelIsSeen ==
  \A r \in Requests :
    cancelled[r] /\ place[r] \in {"dispatch", "answered"} => err[r] # "ok"

\* Slots a clean-up did not give back (http_cleanup leaves conn_length alone).
LostSlots == connLength - Cardinality(Conn)

\* Every submitted request gets its callback, however many attempts and waits for a
\* slot lie between; only the request of a client that has gone does not, and one
\* for which the clean-ups have left no slot.
Answered ==
  \A r \in Requests :
    place[r] = "add" ~>
      \/ place[r] \in {"calling", "answered"}
      \/ place[r] = "leaked" /\ ~valid[Owner[r]]
      \/ LostSlots >= CacheSize

\* A cancelled request is over in the end, whatever the moment of the cancel, and
\* although a poll would go on for ever by itself.
CancelStops ==
  \A r \in Requests :
    cancelled[r] ~> (place[r] \in {"answered", "leaked"} \/ LostSlots >= CacheSize)

\* "cancel by user, so no need notify user" (msg.c:1709): the answer CANCELED is
\* only given to a request that was cancelled.
CanceledByUser ==
  \A r \in Cancelable :
    place[r] = "dispatch" /\ err[r] = "canceled" => cancelled[r]

\* "important remove all http request" (type.c:206): when the client's clean-up
\* is over nothing of it is left to be started or answered.
CleanupStopsAll ==
  \A r \in Requests :
    ~valid[Owner[r]] /\ cleaned # Owner[r] => place[r] \notin {"add", "conn", "dispatch"}

\* "notify sub thread have done all curl clean job" (http.c:1201): when the
\* clean-up has returned the loop thread is not left waiting for it.
LoopReleased == cleaner = "idle" => loop # "blocked"
==============================================================================
