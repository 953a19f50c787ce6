-------------------------- MODULE ScdEngineProofs --------------------------
(***************************************************************************)
(* Proofs about the scheduler's event engine (ScdEngine).                  *)
(*                                                                         *)
(* NoUseAfterFree is not inductive by itself: a step of close could free   *)
(* the base under a thread that is still in the loop unless we know that   *)
(* a thread exists exactly while progress_thread_running is set, that the  *)
(* flag is only set while the caller is open or joining, and that an       *)
(* exited but unjoined thread still has its base.  EngineInv adds these.   *)
(***************************************************************************)
EXTENDS ScdEngine, TLAPS

\* The progress thread exists (started, not yet joined).
ThreadExists == thread # "none"

EngineInv ==
  /\ TypeOK
  \* a thread exists exactly while progress_thread_running is set
  /\ running <=> ThreadExists
  \* the flag is only set between a successful open and the end of close
  /\ running => caller \in {"open", "joining"}
  /\ caller = "joining" => running
  \* the base of a thread that has not been joined is still live
  /\ ThreadExists => evBase = "live"

-----------------------------------------------------------------------------
(* Appending an event that is not active keeps the active queue            *)
(* injective, and so does removing its head.                               *)
LEMMA AppendInjective ==
  ASSUME NEW S, NEW s \in Seq(S), IsInjective(s), NEW x \in S,
         ~\E i \in DOMAIN s : s[i] = x
  PROVE  IsInjective(Append(s, x))
BY DEF IsInjective

LEMMA EmptyInjective == <<>> \in Seq(Events) /\ IsInjective(<<>>)
BY DEF IsInjective

LEMMA TailInjective ==
  ASSUME NEW S, NEW s \in Seq(S), IsInjective(s), s # <<>>
  PROVE  Tail(s) \in Seq(S) /\ IsInjective(Tail(s))
BY DEF IsInjective

-----------------------------------------------------------------------------
LEMMA InitEngineInv == Init => EngineInv
BY EmptyInjective DEF Init, EngineInv, TypeOK, ThreadExists, ThreadStates, CallerStates

LEMMA NextEngineInv == EngineInv /\ [Next]_vars => EngineInv'
<1> SUFFICES ASSUME EngineInv, [Next]_vars PROVE EngineInv'
  OBVIOUS
<1> USE DEF EngineInv, TypeOK, ThreadExists, ThreadStates, CallerStates
<1>1. CASE orcm_scd_base_open
  <2>1. ~running /\ thread = "none"
    BY <1>1 DEF orcm_scd_base_open
  <2>2. CASE /\ evActive' = FALSE
             /\ caller' = "failed"
             /\ UNCHANGED <<running, evBase, leaked, breakReq, pending, thread>>
    BY <2>1, <2>2
  <2>3. CASE /\ NewBase
             /\ evActive' = TRUE
             /\ caller' = "failed"
             /\ running' = FALSE
             /\ UNCHANGED thread
    BY <2>1, <2>3, EmptyInjective DEF NewBase
  <2>4. CASE /\ NewBase
             /\ evActive' = TRUE
             /\ running' = TRUE
             /\ thread' = "check"
             /\ caller' = "open"
    BY <2>4, EmptyInjective DEF NewBase
  <2>. QED  BY <1>1, <2>1, <2>2, <2>3, <2>4 DEF orcm_scd_base_open
<1>2. CASE CloseBreak
  BY <1>2 DEF CloseBreak
<1>3. CASE CloseJoin
  BY <1>3 DEF CloseJoin
<1>4. CASE CloseNoThread
  BY <1>4 DEF CloseNoThread
<1>5. CASE ProgressCheck
  BY <1>5 DEF ProgressCheck
<1>6. CASE LoopEnter
  BY <1>6 DEF LoopEnter
<1>7. CASE LoopDispatch
  <2>1. pending # <<>> => Tail(pending) \in Seq(Events) /\ IsInjective(Tail(pending))
    BY TailInjective
  <2>. QED  BY <1>7, <2>1 DEF LoopDispatch
<1>8. CASE CallbackReturn
  <2>1. pending # <<>> => Tail(pending) \in Seq(Events) /\ IsInjective(Tail(pending))
    BY TailInjective
  <2>. QED  BY <1>8, <2>1 DEF CallbackReturn
<1>9. ASSUME NEW e \in Events, Post(e) PROVE EngineInv'
  <2>1. IsInjective(Append(pending, e))
    BY <1>9, AppendInjective DEF Post
  <2>. QED  BY <1>9, <2>1 DEF Post
<1>10. CASE UNCHANGED vars
  BY <1>10 DEF vars
<1>. QED  BY <1>1, <1>2, <1>3, <1>4, <1>5, <1>6, <1>7, <1>8, <1>9, <1>10 DEF Next

-----------------------------------------------------------------------------
(* The type invariant of the engine.                                       *)
THEOREM TypeCorrect == Spec => []TypeOK
<1>1. EngineInv => TypeOK  BY DEF EngineInv
<1>. QED  BY InitEngineInv, NextEngineInv, <1>1, PTL DEF Spec

(* While the progress thread runs progress_thread_engine its event base is *)
(* live: orcm_scd_base_close frees ev_base only after the join returned.   *)
THEOREM NoUseAfterFreeThm == Spec => []NoUseAfterFree
<1>1. EngineInv => NoUseAfterFree  BY DEF EngineInv, NoUseAfterFree, InLoop, ThreadExists
<1>. QED  BY InitEngineInv, NextEngineInv, <1>1, PTL DEF Spec

(* Close only joins a thread that was started and not yet joined, however  *)
(* open failed and however often close is called.                          *)
THEOREM JoinOnlyStartedThreadThm == Spec => []JoinOnlyStartedThread
<1>1. EngineInv => JoinOnlyStartedThread
  BY DEF EngineInv, JoinOnlyStartedThread, ThreadExists
<1>. QED  BY InitEngineInv, NextEngineInv, <1>1, PTL DEF Spec
-----------------------------------------------------------------------------
(* The refinement of ScdEngineAbstract needs two more facts: the caller   *)
(* of a successful open leaves ev_active set until close clears it, and   *)
(* the thread only exits after it read ev_active false, which stays false *)
(* until the next open, since open starts no thread while one exists.     *)
RefineInv ==
  /\ EngineInv
  /\ caller = "open" => evActive
  /\ thread = "exited" => ~evActive

LEMMA InitRefineInv == Init => RefineInv
BY InitEngineInv DEF Init, RefineInv

LEMMA NextRefineInv == RefineInv /\ [Next]_vars => RefineInv'
<1> SUFFICES ASSUME RefineInv, [Next]_vars PROVE RefineInv'
  OBVIOUS
<1>1. EngineInv'
  BY NextEngineInv DEF RefineInv
<1>2. (caller = "open" => evActive)' /\ (thread = "exited" => ~evActive)'
  <2> USE DEF RefineInv, EngineInv, ThreadExists
  <2>1. CASE orcm_scd_base_open
    BY <2>1 DEF orcm_scd_base_open, NewBase
  <2>2. CASE CloseBreak
    BY <2>2 DEF CloseBreak
  <2>3. CASE CloseJoin
    BY <2>3 DEF CloseJoin
  <2>4. CASE CloseNoThread
    BY <2>4 DEF CloseNoThread
  <2>5. CASE ProgressCheck
    BY <2>5 DEF ProgressCheck
  <2>6. CASE LoopEnter
    BY <2>6 DEF LoopEnter
  <2>7. CASE LoopDispatch
    BY <2>7 DEF LoopDispatch
  <2>8. CASE CallbackReturn
    BY <2>8 DEF CallbackReturn
  <2>9. ASSUME NEW e \in Events, Post(e) PROVE (caller = "open" => evActive)' /\ (thread = "exited" => ~evActive)'
    BY <2>9 DEF Post
  <2>10. CASE UNCHANGED vars
    BY <2>10 DEF vars
  <2>. QED  BY <2>1, <2>2, <2>3, <2>4, <2>5, <2>6, <2>7, <2>8, <2>9, <2>10 DEF Next
<1>. QED  BY <1>1, <1>2 DEF RefineInv

-----------------------------------------------------------------------------
LEMMA InitRefines == Init => Abstract!Init
BY DEF Init, Abstract!Init

LEMMA NextRefines == RefineInv /\ [Next]_vars => [Abstract!Next]_Abstract!avars
<1> SUFFICES ASSUME RefineInv, [Next]_vars PROVE [Abstract!Next]_Abstract!avars
  OBVIOUS
<1> USE DEF RefineInv, EngineInv, TypeOK, ThreadExists, ThreadStates, CallerStates
<1>1. CASE orcm_scd_base_open
  <2>1. thread = "none" /\ caller \in {"init", "failed", "closed"}
    BY <1>1 DEF orcm_scd_base_open
  <2>2. CASE "components" \in OpenFailures /\ evActive' = FALSE /\ caller' = "failed"
             /\ UNCHANGED <<running, evBase, leaked, breakReq, pending, thread>>
    BY <2>1, <2>2 DEF Abstract!avars
  <2>3. CASE NewBase /\ evActive' = TRUE /\ caller' = "failed" /\ UNCHANGED thread
    BY <2>1, <2>3 DEF NewBase, Abstract!Next, Abstract!Create
  <2>4. CASE NewBase /\ evActive' = TRUE /\ running' = TRUE /\ thread' = "check"
             /\ caller' = "open"
    BY <2>1, <2>4 DEF NewBase, Abstract!Next, Abstract!Start
  <2>. QED  BY <1>1, <2>2, <2>3, <2>4 DEF orcm_scd_base_open
<1>2. CASE CloseBreak
  BY <1>2 DEF CloseBreak, Abstract!Next, Abstract!RequestStop
<1>3. CASE CloseJoin
  BY <1>3 DEF CloseJoin, Abstract!Next, Abstract!Stopped
<1>4. CASE CloseNoThread
  BY <1>4 DEF CloseNoThread, Abstract!avars
<1>5. CASE ProgressCheck
  BY <1>5 DEF ProgressCheck, Abstract!avars
<1>6. CASE LoopEnter
  BY <1>6 DEF LoopEnter, Abstract!avars
<1>7. CASE LoopDispatch
  BY <1>7 DEF LoopDispatch, Abstract!Next, Abstract!Dispatch, Abstract!avars
<1>8. CASE CallbackReturn
  BY <1>8 DEF CallbackReturn, Abstract!Next, Abstract!Dispatch, Abstract!Return
<1>9. ASSUME NEW e \in Events, Post(e) PROVE [Abstract!Next]_Abstract!avars
  BY <1>9 DEF Post, Abstract!Next, Abstract!Post
<1>10. CASE UNCHANGED vars
  BY <1>10 DEF vars, Abstract!avars
<1>. QED  BY <1>1, <1>2, <1>3, <1>4, <1>5, <1>6, <1>7, <1>8, <1>9, <1>10 DEF Next

(* open, close, the progress loop and posting implement the abstract      *)
(* engine of ScdEngineAbstract, for every set of events and failures.     *)
THEOREM RefinementThm == Spec => EngineRefinesAbstract
<1>1. Spec => []RefineInv
  BY InitRefineInv, NextRefineInv, PTL DEF Spec
<1>. QED  BY <1>1, InitRefines, NextRefines, PTL DEF Spec, EngineRefinesAbstract, Abstract!Spec
=============================================================================
