---------------------------- MODULE MCScdEngine ----------------------------
(* Model-checking instance of ScdEngine.                                   *)
EXTENDS ScdEngine

CONSTANTS e1, e2

\* Two components, each with one event it may activate.
MCEvents == {e1, e2}

(* No component posts: the scheduler is opened and closed with nothing    *)
(* activated in its base, the case of a close that finds the loop idle.    *)
MCNoEvents == {}

\* Every failure path of open.
MCOpenFailures == {"components", "pipe", "thread"}

\* Only the success path of open: the runs about a clean start and stop.
MCOpenSucceeds == {}
=============================================================================
