------------------------- MODULE ScdEngineAbstract -------------------------
(***************************************************************************)
(* What the scheduler's event engine promises its users (spec 4.1 and 5): *)
(* open creates an event base and, when it succeeds, starts one thread    *)
(* that runs the callbacks of the events posted into the base, one at a   *)
(* time and in the order they were activated; close stops the thread and  *)
(* releases the base, and returns only when no callback runs any more.    *)
(*                                                                         *)
(* ScdEngine implements this specification under the mapping of           *)
(* ScdEngine!Abstract.                                                     *)
(***************************************************************************)
EXTENDS Sequences

CONSTANT Events

VARIABLES
  phase,  \* "idle": no engine thread; "running"; "stopping": stop requested
  alive,  \* an event base exists that events can be posted into
  queue,  \* the events activated and not yet dispatched, oldest first
  busy    \* the engine thread is running a callback

avars == <<phase, alive, queue, busy>>

Init ==
  /\ phase = "idle"
  /\ alive = FALSE
  /\ queue = <<>>
  /\ busy = FALSE

(* An open that creates a fresh base but does not start the thread.       *)
Create ==
  /\ phase = "idle"
  /\ alive' = TRUE
  /\ queue' = <<>>
  /\ UNCHANGED <<phase, busy>>

(* An open that creates a fresh base and starts the engine thread.         *)
Start ==
  /\ phase = "idle"
  /\ phase' = "running"
  /\ alive' = TRUE
  /\ queue' = <<>>
  /\ UNCHANGED busy

(* An event not already active is activated in the live base.              *)
Post(e) ==
  /\ alive
  /\ \A i \in DOMAIN queue : queue[i] # e
  /\ queue' = Append(queue, e)
  /\ UNCHANGED <<phase, alive, busy>>

(* The engine thread takes the oldest active event and runs its callback, *)
(* on a live base only, possibly right after the previous callback.       *)
Dispatch ==
  /\ phase # "idle"
  /\ alive
  /\ queue # <<>>
  /\ queue' = Tail(queue)
  /\ busy' = TRUE
  /\ UNCHANGED <<phase, alive>>

(* A callback returns to the loop.                                         *)
Return ==
  /\ busy
  /\ busy' = FALSE
  /\ UNCHANGED <<phase, alive, queue>>

(* Close asks the running engine to stop.                                  *)
RequestStop ==
  /\ phase = "running"
  /\ phase' = "stopping"
  /\ UNCHANGED <<alive, queue, busy>>

(* Close returns: the thread is gone, no callback runs, the base is freed. *)
Stopped ==
  /\ phase = "stopping"
  /\ ~busy
  /\ phase' = "idle"
  /\ alive' = FALSE
  /\ UNCHANGED <<queue, busy>>

Next ==
  \/ Create
  \/ Start
  \/ \E e \in Events : Post(e)
  \/ Dispatch
  \/ Return
  \/ RequestStop
  \/ Stopped

Spec == Init /\ [][Next]_avars
=============================================================================
