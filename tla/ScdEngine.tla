----------------------------- MODULE ScdEngine -----------------------------
(***************************************************************************)
(* The event engine of the ORCM scheduler framework                        *)
(* (src/orcm/mca/scd/base/scd_base_frame.c).                               *)
(*                                                                         *)
(* Two threads share the framework globals:                                *)
(*  - the caller, which runs orcm_scd_base_open and orcm_scd_base_close    *)
(*    (the framework open/close hooks, called one after the other);        *)
(*  - the progress thread, progress_thread_engine, which loops             *)
(*      while (orcm_scd_base.ev_active) opal_event_loop(ev_base, ONCE);    *)
(* and any other thread of the scheduler may post an event into ev_base.   *)
(*                                                                         *)
(* opal_event_loop is libevent's event_base_loop: on entry it clears the   *)
(* base's break request, then blocks in dispatch until an event is active  *)
(* or a break request wakes it.  opal_event_base_loopbreak sets the break  *)
(* request and wakes the base only if the loop is already running.  The   *)
(* one event registered by open, the read end of block_pipe, is never      *)
(* written by this code: it only keeps the loop from returning at once.   *)
(***************************************************************************)
EXTENDS Naturals, Sequences, Functions

CONSTANTS
  OpenFailures,  \* the failure paths of orcm_scd_base_open a run explores
  Events         \* the events other scheduler threads may activate in ev_base
                 \* (empty: no component posts)

\* The early returns of orcm_scd_base_open: the components fail to open,
\* pipe() or opal_fd_set_cloexec fails, or opal_thread_start fails.
OpenFailureKinds == {"components", "pipe", "thread"}

ASSUME OpenFailuresAssumption == OpenFailures \subseteq OpenFailureKinds

VARIABLES
  evActive,   \* orcm_scd_base.ev_active
  running,    \* progress_thread_running
  evBase,     \* the object orcm_scd_base.ev_base points to: "null", "live" or "freed"
  leaked,     \* some event base was abandoned without opal_event_base_free
  breakReq,   \* the break request of the event base (libevent's event_break)
  pending,    \* the base's active queue: events activated, not yet dispatched
  thread,     \* where the progress thread is
  caller      \* where the caller of open/close is

vars == <<evActive, running, evBase, leaked, breakReq, pending, thread, caller>>

(* The progress thread: "none" when no thread exists; "check" about to     *)
(* test ev_active; "enter" having read it true, about to enter the loop;   *)
(* "wait" inside the loop; "callback" running the callback of the event   *)
(* it dispatched; "exited" returned from progress_thread_engine.           *)
ThreadStates == {"none", "check", "enter", "wait", "callback", "exited"}

(* The caller: before any open; after an open that succeeded or failed;    *)
(* inside close, blocked in opal_thread_join; after close returned.        *)
CallerStates == {"init", "open", "failed", "joining", "closed"}

\* The thread is executing progress_thread_engine, in or around the loop.
InLoop == thread \in {"check", "enter", "wait", "callback"}

TypeOK ==
  /\ evActive \in BOOLEAN
  /\ running \in BOOLEAN
  /\ evBase \in {"null", "live", "freed"}
  /\ leaked \in BOOLEAN
  /\ breakReq \in BOOLEAN
  /\ pending \in Seq(Events)
  /\ IsInjective(pending)
  /\ thread \in ThreadStates
  /\ caller \in CallerStates

Init ==
  /\ evActive = FALSE
  /\ running = FALSE
  /\ evBase = "null"
  /\ leaked = FALSE
  /\ breakReq = FALSE
  /\ pending = <<>>
  /\ thread = "none"
  /\ caller = "init"

-----------------------------------------------------------------------------
(* orcm_scd_base_open.  It may be called before any open, after a close,  *)
(* or again after an open that returned an error.  The whole function is   *)
(* one step: the thread it starts only runs after opal_thread_start.       *)
(* opal_event_base_create overwrites ev_base, so a base still live at that *)
(* point is leaked.  A fresh base has no break request and no event.       *)
NewBase ==
  /\ evBase' = "live"
  /\ leaked' = (leaked \/ evBase = "live")
  /\ breakReq' = FALSE
  /\ pending' = <<>>

orcm_scd_base_open ==
  /\ caller \in {"init", "failed", "closed"}
  /\ \/ \* mca_base_framework_components_open fails: return before the base
        /\ "components" \in OpenFailures
        /\ evActive' = FALSE
        /\ caller' = "failed"
        /\ UNCHANGED <<running, evBase, leaked, breakReq, pending, thread>>
     \/ \* pipe() or opal_fd_set_cloexec fails after ev_active = true
        /\ "pipe" \in OpenFailures
        /\ evActive' = TRUE
        /\ NewBase
        /\ caller' = "failed"
        /\ UNCHANGED <<running, thread>>
     \/ \* opal_thread_start fails: progress_thread_running reset to false
        /\ "thread" \in OpenFailures
        /\ evActive' = TRUE
        /\ NewBase
        /\ running' = FALSE
        /\ caller' = "failed"
        /\ UNCHANGED thread
     \/ \* the progress thread is started
        /\ evActive' = TRUE
        /\ NewBase
        /\ running' = TRUE
        /\ thread' = "check"
        /\ caller' = "open"

\* Mutant: close frees the event base before it joins the thread.
CloseBreakFreeFirst ==
  /\ caller \in {"open", "failed", "closed"}
  /\ running
  /\ evActive' = FALSE
  /\ breakReq' = TRUE
  /\ evBase' = "freed"
  /\ caller' = "joining"
  /\ UNCHANGED <<running, leaked, pending, thread>>

\* Mutant: close without the progress_thread_running guard.
CloseBreakUnguarded ==
  /\ caller \in {"open", "failed", "closed"}
  /\ evActive' = FALSE
  /\ breakReq' = TRUE
  /\ caller' = "joining"
  /\ UNCHANGED <<running, evBase, leaked, pending, thread>>

(* orcm_scd_base_close, while the progress thread runs: clear ev_active    *)
(* and break the loop, then block in opal_thread_join.                     *)
CloseBreak ==
  /\ caller \in {"open", "failed", "closed"}
  /\ running
  /\ evActive' = FALSE
  /\ breakReq' = TRUE
  /\ caller' = "joining"
  /\ UNCHANGED <<running, evBase, leaked, pending, thread>>

\* Mutant: close returns from the join without waiting for the thread.
CloseJoinEarly ==
  /\ caller = "joining"
  /\ thread' = "none"
  /\ running' = FALSE
  /\ evBase' = "freed"
  /\ caller' = "closed"
  /\ UNCHANGED <<evActive, leaked, breakReq, pending>>

(* The join returns once the thread has exited; close then frees the base. *)
CloseJoin ==
  /\ caller = "joining"
  /\ thread = "exited"
  /\ thread' = "none"
  /\ running' = FALSE
  /\ evBase' = "freed"
  /\ caller' = "closed"
  /\ UNCHANGED <<evActive, leaked, breakReq, pending>>

(* orcm_scd_base_close when no progress thread runs: only the lists and   *)
(* the components are torn down, the event base is left as it is.         *)
CloseNoThread ==
  /\ caller \in {"open", "failed", "closed"}
  /\ ~running
  /\ caller' = "closed"
  /\ UNCHANGED <<evActive, running, evBase, leaked, breakReq, pending, thread>>

-----------------------------------------------------------------------------
\* Mutant: the loop test inverted, while (!orcm_scd_base.ev_active).
ProgressCheckInverted ==
  /\ thread = "check"
  /\ thread' = IF evActive THEN "exited" ELSE "enter"
  /\ UNCHANGED <<evActive, running, evBase, leaked, breakReq, pending, caller>>

(* progress_thread_engine: the test of while (orcm_scd_base.ev_active).   *)
ProgressCheck ==
  /\ thread = "check"
  /\ thread' = IF evActive THEN "enter" ELSE "exited"
  /\ UNCHANGED <<evActive, running, evBase, leaked, breakReq, pending, caller>>

(* opal_event_loop entered: the base's break request is cleared, so a     *)
(* loopbreak issued since the test of ev_active is forgotten.              *)
LoopEnter ==
  /\ thread = "enter"
  /\ breakReq' = FALSE
  /\ thread' = "wait"
  /\ UNCHANGED <<evActive, running, evBase, leaked, pending, caller>>

(* The loop wakes in dispatch: the first active event is taken off the    *)
(* active queue to run its callback, or a break request ends the loop.     *)
LoopDispatch ==
  /\ thread = "wait"
  /\ \/ /\ pending # <<>>
        /\ pending' = Tail(pending)
        /\ thread' = "callback"
     \/ /\ breakReq
        /\ thread' = "check"
        /\ UNCHANGED pending
  /\ UNCHANGED <<evActive, running, evBase, leaked, breakReq, caller>>

(* A callback returns.  The loop goes on with the next active event unless *)
(* a break was requested; when the queue is empty OPAL_EVLOOP_ONCE returns *)
(* to progress_thread_engine.                                              *)
CallbackReturn ==
  /\ thread = "callback"
  /\ IF pending # <<>> /\ ~breakReq
       THEN /\ pending' = Tail(pending)
            /\ UNCHANGED thread
       ELSE /\ thread' = "check"
            /\ UNCHANGED pending
  /\ UNCHANGED <<evActive, running, evBase, leaked, breakReq, caller>>

(* Another scheduler thread activates its event e in the live base (the   *)
(* post() of the scheduler's components; their code is not in this tree).  *)
(* An event already active is not queued twice.                            *)
Post(e) ==
  /\ evBase = "live"
  /\ ~\E i \in DOMAIN pending : pending[i] = e
  /\ pending' = Append(pending, e)
  /\ UNCHANGED <<evActive, running, evBase, leaked, breakReq, thread, caller>>

-----------------------------------------------------------------------------
Next ==
  \/ orcm_scd_base_open
  \/ CloseBreak
  \/ CloseJoin
  \/ CloseNoThread
  \/ ProgressCheck
  \/ LoopEnter
  \/ LoopDispatch
  \/ CallbackReturn
  \/ \E e \in Events : Post(e)

(* The progress thread and the caller are scheduled by the OS: neither     *)
(* stops forever while it can run.  Nothing obliges any thread to post.    *)
Fairness ==
  /\ WF_vars(ProgressCheck)
  /\ WF_vars(LoopEnter)
  /\ WF_vars(LoopDispatch)
  /\ WF_vars(CallbackReturn)
  /\ WF_vars(CloseJoin)

Spec == Init /\ [][Next]_vars /\ Fairness

-----------------------------------------------------------------------------
(* No use after free: while the progress thread runs progress_thread_     *)
(* engine it runs the loop on a live event base; close frees the base only *)
(* after opal_thread_join returned (scd_base_frame.c:77-80).               *)
NoUseAfterFree == InLoop => evBase = "live"

(* Close is idempotent: close only blocks in opal_thread_join on a thread  *)
(* that exists and has not been joined, however often open and close are   *)
(* called and whichever open failed (the progress_thread_running guard).   *)
JoinOnlyStartedThread == caller = "joining" => thread # "none"

(* While the progress thread runs and the engine is active, every event    *)
(* posted into the base is eventually dispatched by the progress loop.     *)
IsActive(e) == \E i \in DOMAIN pending : pending[i] = e

EventsDispatched ==
  \A e \in Events :
    (running /\ evActive /\ IsActive(e)) ~> (~IsActive(e) \/ ~evActive)

(* The spec (4.1): stop() breaks the loop and joins the thread, so a close *)
(* that started joining eventually returns.                                *)
CloseCompletes == caller = "joining" ~> caller = "closed"

(* The spec (4.1, 7): a failed start leaves nothing started, and close     *)
(* releases the loop resources: once close returned no event base is live  *)
(* and none was abandoned.                                                 *)
EventBaseReleased == caller = "closed" => (evBase # "live" /\ ~leaked)

-----------------------------------------------------------------------------
(* The engine as its users see it (ScdEngineAbstract): no thread means    *)
(* idle, a thread with ev_active set means running, one with ev_active    *)
(* cleared means stopping; a callback runs when the thread is in one.     *)
Abstract == INSTANCE ScdEngineAbstract WITH
  phase <- IF thread = "none" THEN "idle"
           ELSE IF evActive THEN "running" ELSE "stopping",
  alive <- evBase = "live",
  queue <- pending,
  busy <- thread = "callback"

(* open, close, the progress loop and posting together implement the      *)
(* abstract engine: callbacks run one at a time in activation order, only *)
(* between a successful open and the return of close, only on a live     *)
(* base, and close returns only once no callback runs.                    *)
EngineRefinesAbstract == Abstract!Spec
=============================================================================
