------------------------------- MODULE EventLoop -------------------------------
(***************************************************************************)
(* The thread that runs the event loop (lib/async.c:91-116, 256-363): it   *)
(* is created by the first watcher, parks when the loop has no watcher     *)
(* left, is woken by the next one, and is ended by lwqq_async_global_quit, *)
(* after which a new watcher creates it again.  ev_thread_status is read   *)
(* and written by both threads without a lock, and ev_thread_cond is       *)
(* signalled and waited for without one that they share, so every access   *)
(* is a step here.                                                         *)
(*                                                                         *)
(* libev is external: loop_run returns when nothing is watched or after    *)
(* ev_break, and it notices a watcher that another thread starts within    *)
(* its maximal blocking time.                                              *)
(***************************************************************************)
EXTENDS FiniteSets

CONSTANT Timers     \* the timers of dispatched commands

VARIABLES
  status,     \* ev_thread_status: "none", "waiting" or "running"
  quitLock,   \* global_quit_lock
  watchers,   \* SUBSET Timers, started in the loop and not yet run
  idle,       \* BOOLEAN, loop_stop's idle watcher is started
  loopMade,   \* BOOLEAN, ev_default is not NULL
  thread,     \* the next step of the loop thread, "none" when there is none
  caller,     \* the next step of the application's thread in watch or quit
  missed      \* history: a look at the status, or the signal that followed it,
              \* fell between two steps of the loop thread

loopVars == <<status, quitLock, watchers, idle, loopMade, thread, caller, missed>>

ThreadSteps == {"none", "start", "loop", "left", "retire", "settle", "parked", "woken", "ended"}
CallerSteps == {"idle", "watched", "stop", "forget", "join", "free"}

------------------------------------------------------------------------------
LoopInit ==
  /\ status = "none"
  /\ quitLock = FALSE
  /\ watchers = {}
  /\ idle = FALSE
  /\ loopMade = FALSE
  /\ thread = "none"
  /\ caller = "idle"
  /\ missed = FALSE

------------------------------------------------------------------------------
(* The application's thread. *)

\* lwqq_async_dispatch: loop_create and timer_start.
Watch(t) ==
  /\ caller = "idle" /\ ~quitLock
  /\ t \notin watchers
  /\ loopMade' = TRUE
  /\ watchers' = watchers \cup {t}
  /\ caller' = "watched"
  /\ UNCHANGED <<status, quitLock, idle, thread, missed>>

\* pthread_cond_signal wakes the loop thread only when it waits.
Signal == thread' = IF thread = "parked" THEN "woken" ELSE thread

\* Variant: a thread that waits is not signalled.
StartThreadUnsignalled ==
  /\ caller = "watched"
  /\ caller' = "idle"
  /\ IF status = "none"
       THEN status' = "running" /\ thread' = "start"
       ELSE UNCHANGED <<status, thread>>
  /\ missed' = (missed \/ thread \in {"left", "retire", "settle"})
  /\ UNCHANGED <<quitLock, watchers, idle, loopMade>>

\* The end of lwqq_async_timer_watch, and start_ev_thread.  The look comes too
\* early when the thread has left the loop and is not parked yet; a signal that
\* arrives makes up for it.
StartThread ==
  /\ caller = "watched"
  /\ caller' = "idle"
  /\ \/ /\ status = "running"
        /\ missed' = (missed \/ thread \in {"left", "retire"})
        /\ UNCHANGED <<status, thread>>
     \/ /\ status = "waiting"
        /\ Signal
        /\ missed' = (thread = "settle" \/ (missed /\ thread # "parked"))
        /\ UNCHANGED status
     \/ /\ status = "none"
        /\ status' = "running"
        /\ thread' = "start"
        /\ UNCHANGED missed
  /\ UNCHANGED <<quitLock, watchers, idle, loopMade>>

\* lwqq_async_global_quit, which returns at once when there is no thread.
Quit ==
  /\ caller = "idle" /\ status # "none"
  /\ quitLock' = TRUE
  /\ caller' = "stop"
  /\ UNCHANGED <<status, watchers, idle, loopMade, thread, missed>>

\* Variant: the thread that waits is left alone.
StopLoopRunningOnly ==
  /\ caller = "stop"
  /\ caller' = "forget"
  /\ idle' = (status = "running")
  /\ UNCHANGED <<status, quitLock, watchers, loopMade, thread, missed>>

\* The signal, or loop_stop; both are lost on a thread that has looked at the lock
\* for the last time before it parks.
StopLoop ==
  /\ caller = "stop"
  /\ caller' = "forget"
  /\ \/ status = "waiting" /\ Signal /\ UNCHANGED idle
     \/ status = "running" /\ idle' = TRUE /\ UNCHANGED thread
  /\ missed' = (missed \/ thread \in {"retire", "settle"})
  /\ UNCHANGED <<status, quitLock, watchers, loopMade>>

\* The status is reset before the thread has ended.
ForgetThread ==
  /\ caller = "forget"
  /\ status' = "none"
  /\ caller' = "join"
  /\ UNCHANGED <<quitLock, watchers, idle, loopMade, thread, missed>>

\* Variant: the loop is freed without a join.
JoinNot ==
  /\ caller = "join"
  /\ thread' = IF thread = "ended" THEN "none" ELSE thread
  /\ caller' = "free"
  /\ UNCHANGED <<status, quitLock, watchers, idle, loopMade, missed>>

Join ==
  /\ caller = "join" /\ thread = "ended"
  /\ thread' = "none"
  /\ caller' = "free"
  /\ UNCHANGED <<status, quitLock, watchers, idle, loopMade, missed>>

\* loop_free, with whatever is still watched.
LoopFree ==
  /\ caller = "free"
  /\ loopMade' = FALSE
  /\ watchers' = {} /\ idle' = FALSE
  /\ quitLock' = FALSE
  /\ caller' = "idle"
  /\ UNCHANGED <<status, thread, missed>>

------------------------------------------------------------------------------
(* ev_run_thread. *)

\* The thread says that it runs, also when a quit has just said that it is gone.
Start ==
  /\ thread = "start"
  /\ status' = "running"
  /\ thread' = "loop"
  /\ missed' = (missed \/ caller \in {"join", "free"})
  /\ UNCHANGED <<quitLock, watchers, idle, loopMade, caller>>

\* dispatch_wrap: the command runs and may dispatch others, which a quit ignores.
Fire(t) ==
  /\ thread = "loop" /\ t \in watchers
  /\ \/ watchers' = watchers \ {t}
     \/ \E u \in Timers \ watchers : ~quitLock /\ watchers' = (watchers \ {t}) \cup {u}
  /\ UNCHANGED <<status, quitLock, idle, loopMade, thread, caller, missed>>

\* loop_run returns: nothing is watched, or the idle watcher breaks the loop.
Leave ==
  /\ thread = "loop"
  /\ \/ watchers = {} /\ ~idle /\ UNCHANGED idle
     \/ idle /\ idle' = FALSE
  /\ thread' = "left"
  /\ UNCHANGED <<status, quitLock, watchers, loopMade, caller, missed>>

LookAtLock ==
  /\ thread \in {"left", "woken"}
  /\ thread' = IF quitLock THEN "ended" ELSE IF thread = "left" THEN "retire" ELSE "start"
  /\ UNCHANGED <<status, quitLock, watchers, idle, loopMade, caller, missed>>

Retire ==
  /\ thread = "retire"
  /\ status' = "waiting"
  /\ thread' = "settle"
  /\ UNCHANGED <<quitLock, watchers, idle, loopMade, caller, missed>>

Park ==
  /\ thread = "settle"
  /\ thread' = "parked"
  /\ UNCHANGED <<status, quitLock, watchers, idle, loopMade, caller, missed>>

------------------------------------------------------------------------------
CallerStep == StartThread \/ StopLoop \/ ForgetThread \/ Join \/ LoopFree
ThreadStep == Start \/ Leave \/ LookAtLock \/ Retire \/ Park

LoopNext ==
  \/ \E t \in Timers : Watch(t) \/ Fire(t)
  \/ Quit
  \/ CallerStep
  \/ ThreadStep

\* Both threads run and every timer expires.
LoopFairness ==
  /\ WF_loopVars(CallerStep) /\ WF_loopVars(ThreadStep)
  /\ \A t \in Timers : WF_loopVars(Fire(t))

LoopSpec == LoopInit /\ [][LoopNext]_loopVars /\ LoopFairness

------------------------------------------------------------------------------
(* Properties. *)

LoopTypeOK ==
  /\ status \in {"none", "waiting", "running"}
  /\ quitLock \in BOOLEAN
  /\ watchers \subseteq Timers
  /\ idle \in BOOLEAN
  /\ loopMade \in BOOLEAN
  /\ thread \in ThreadSteps
  /\ caller \in CallerSteps
  /\ quitLock <=> caller \in {"stop", "forget", "join", "free"}
  /\ missed \in BOOLEAN

\* The loop is freed only when no thread can run it.  Watchers start in a loop that
\* exists, except that a quit after one that found the thread not yet started uses
\* the stale status (async.c:283, 326).
LoopIsThere ==
  /\ thread \notin {"none", "ended"} => loopMade
  /\ watchers # {} \/ idle => loopMade \/ missed

\* A status that says that there is no thread is right whenever a watcher relies
\* on it to create one, so there are never two, whatever the timing of a quit.
NoneMeansNone == status = "none" /\ ~quitLock => thread = "none"

\* Nobody runs the loop, nor will: a look at the status was missed, and the thread
\* sleeps, or has gone and left "running" behind.
Abandoned == missed /\ thread \in {"parked", "none"}

\* A dispatched command runs unless a quit comes first, which throws away what the
\* loop still watches.  A command whose dispatch met the gap between the loop and
\* the wait (async.c:285-293) is only late: it runs as soon as any later one wakes
\* the thread, so that it is lost only if nobody wakes it ever again.
WatchRuns ==
  \A t \in Timers : t \in watchers ~> (t \notin watchers \/ quitLock \/ []Abandoned)

\* global_quit returns, unless its signal met that gap and the thread sleeps on.
QuitReturns == quitLock ~> (~quitLock \/ []Abandoned)
===============================================================================
