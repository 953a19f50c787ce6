--------------------------- MODULE ScdSessionProofs ---------------------------
(***************************************************************************)
(* Proofs about the scheduler's sessions and node registry (ScdSession).  *)
(*                                                                         *)
(* NoDoubleAllocation is not inductive by itself: a commit must know that *)
(* the nodes it takes are held by no live step.  The code gives that       *)
(* through the node states: a node a live step holds is ALLOC or           *)
(* EXCLUSIVE, and find_candidates only offers UNALLOC nodes.               *)
(***************************************************************************)
EXTENDS ScdSession, TLAPS

\* The nodes the registry marks as committed to some step.
Committed == {n \in NodeIds : nodeState[n] \in {"ALLOC", "EXCLUSIVE"}}

\* The types of the variables the allocation invariant is about.
SessTypes ==
  /\ used \in [Slots -> BOOLEAN]
  /\ state \in [Slots -> SessionStates]
  /\ stepLive \in [Slots -> BOOLEAN]
  /\ held \in [Slots -> SUBSET NodeIds]
  /\ allocRef \in [Slots -> Int]
  /\ nodeState \in [NodeIds -> NodeStates]
  /\ overReleased \in BOOLEAN

\* The nodes of every live step are committed in the registry.
HeldCommitted == \A s \in Slots : stepLive[s] => held[s] \subseteq Committed

AllocInv ==
  /\ SessTypes
  /\ HeldCommitted
  /\ NoDoubleAllocation

-----------------------------------------------------------------------------
LEMMA InitAllocInv == Init => AllocInv
<1> SUFFICES ASSUME Init PROVE AllocInv
  OBVIOUS
<1>1. SessTypes
  <2>1. used \in [Slots -> BOOLEAN] /\ stepLive \in [Slots -> BOOLEAN]
    BY DEF Init
  <2>2. state \in [Slots -> SessionStates]
    BY DEF Init, SessionStates
  <2>3. held \in [Slots -> SUBSET NodeIds]
    BY DEF Init
  <2>4. allocRef \in [Slots -> Int]
    BY DEF Init
  <2>5. nodeState \in [NodeIds -> NodeStates]
    BY DEF Init, NodeStates
  <2>6. overReleased \in BOOLEAN
    BY Zenon DEF Init
  <2>. QED  BY <2>1, <2>2, <2>3, <2>4, <2>5, <2>6 DEF SessTypes
<1>2. HeldCommitted
  BY DEF Init, HeldCommitted
<1>3. NoDoubleAllocation
  BY DEF Init, NoDoubleAllocation
<1>. QED  BY <1>1, <1>2, <1>3 DEF AllocInv

(* A commit keeps the variables typed. *)
LEMMA CommitSessTypes ==
  ASSUME SessTypes, NEW q, NEW s, CommitHead(q, s), UNCHANGED <<used, overReleased>>
  PROVE  SessTypes'
<1> DEFINE free == Candidates(req[s])
           chosen == FirstFit(free, TakeCount(req[s], free))
<1>1. chosen \subseteq {n \in NodeIds : nodeState[n] = "UNALLOC"}
  BY DEF FirstFit, Candidates
<1>2. /\ held' = [held EXCEPT ![s] = chosen]
      /\ stepLive' = [stepLive EXCEPT ![s] = TRUE]
      /\ allocRef' = [allocRef EXCEPT ![s] = @ + RetainOnCommit]
      /\ nodeState' = [n \in NodeIds |->
                         IF n \in chosen
                           THEN IF req[s].excl THEN "EXCLUSIVE" ELSE "ALLOC"
                           ELSE nodeState[n]]
      /\ state' = [state EXCEPT ![s] = "ALLOCD"]
  BY DEF CommitHead
<1>3. held' \in [Slots -> SUBSET NodeIds]
  BY <1>1, <1>2 DEF SessTypes
<1>4. stepLive' \in [Slots -> BOOLEAN]
  BY <1>2 DEF SessTypes
<1>5. allocRef' \in [Slots -> Int]
  <2>1. RetainOnCommit \in Int
    BY DEF RetainOnCommit
  <2>2. CASE s \in Slots
    BY <1>2, <2>1, <2>2 DEF SessTypes
  <2>3. CASE s \notin Slots
    BY <1>2, <2>3 DEF SessTypes
  <2>. QED  BY <2>2, <2>3
<1>6. nodeState' \in [NodeIds -> NodeStates]
  <2>1. \A n \in NodeIds : nodeState'[n] \in NodeStates
    BY <1>2 DEF SessTypes, NodeStates
  <2>. QED  BY <1>2, <2>1, Zenon
<1>7. state' \in [Slots -> SessionStates]
  BY <1>2 DEF SessTypes, SessionStates
<1>. QED  BY <1>3, <1>4, <1>5, <1>6, <1>7 DEF SessTypes

(* A commit takes nodes that are UNALLOC, so no live step holds them, and *)
(* marks them committed.                                                   *)
LEMMA CommitAllocInv ==
  ASSUME AllocInv, NEW q, NEW s, CommitHead(q, s), UNCHANGED <<used, overReleased>>
  PROVE  AllocInv'
<1> DEFINE free == Candidates(req[s])
           chosen == FirstFit(free, TakeCount(req[s], free))
<1>1. chosen \subseteq {n \in NodeIds : nodeState[n] = "UNALLOC"}
  BY DEF FirstFit, Candidates
<1>2. /\ held' = [held EXCEPT ![s] = chosen]
      /\ stepLive' = [stepLive EXCEPT ![s] = TRUE]
      /\ allocRef' = [allocRef EXCEPT ![s] = @ + RetainOnCommit]
      /\ nodeState' = [n \in NodeIds |->
                         IF n \in chosen
                           THEN IF req[s].excl THEN "EXCLUSIVE" ELSE "ALLOC"
                           ELSE nodeState[n]]
      /\ state' = [state EXCEPT ![s] = "ALLOCD"]
  BY DEF CommitHead
<1>3. Committed \cup chosen \subseteq Committed'
  BY <1>1, <1>2 DEF Committed, AllocInv, SessTypes
<1>4. SessTypes'
  BY CommitSessTypes DEF AllocInv
<1>5. HeldCommitted'
  BY <1>2, <1>3 DEF AllocInv, SessTypes, HeldCommitted
<1>6. NoDoubleAllocation'
  <2> SUFFICES ASSUME NEW t \in Slots, NEW u \in Slots, t # u,
                      stepLive'[t], stepLive'[u]
               PROVE  held'[t] \cap held'[u] = {}
    BY DEF NoDoubleAllocation
  <2>1. CASE t # s /\ u # s
    BY <1>2, <2>1 DEF AllocInv, SessTypes, NoDoubleAllocation
  <2>2. ASSUME NEW v \in Slots, v # s, stepLive'[v]
        PROVE  chosen \cap held'[v] = {}
    <3>1. stepLive[v] /\ held'[v] = held[v]
      BY <1>2, <2>2 DEF AllocInv, SessTypes
    <3>2. held[v] \subseteq Committed
      BY <3>1 DEF AllocInv, HeldCommitted
    <3>. QED  BY <1>1, <3>1, <3>2 DEF Committed
  <2>3. CASE t = s
    BY <1>2, <2>2, <2>3 DEF AllocInv, SessTypes
  <2>4. CASE u = s
    BY <1>2, <2>2, <2>4 DEF AllocInv, SessTypes
  <2>. QED  BY <2>1, <2>3, <2>4
<1>. QED  BY <1>4, <1>5, <1>6 DEF AllocInv

(* A step that leaves the steps, their nodes and the registry alone, and  *)
(* keeps the variables typed, keeps AllocInv.                              *)
LEMMA FrameAllocInv ==
  ASSUME AllocInv, SessTypes', UNCHANGED <<stepLive, held, nodeState>>
  PROVE  AllocInv'
BY DEF AllocInv, HeldCommitted, NoDoubleAllocation, Committed

LEMMA SubmitAllocInv ==
  ASSUME AllocInv, NEW q, NEW r, Submit(q, r)
  PROVE  AllocInv'
<1>1. PICK s \in Slots :
        /\ used' = [used EXCEPT ![s] = TRUE]
        /\ state' = [state EXCEPT ![s] = "INIT"]
        /\ allocRef' = [allocRef EXCEPT ![s] = 1]
        /\ UNCHANGED <<stepLive, held, nodeState, overReleased>>
  BY DEF Submit
<1>2. SessTypes'
  <2>1. used' \in [Slots -> BOOLEAN] /\ allocRef' \in [Slots -> Int]
    BY <1>1 DEF AllocInv, SessTypes
  <2>2. state' \in [Slots -> SessionStates]
    BY <1>1 DEF AllocInv, SessTypes, SessionStates
  <2>3. overReleased' \in BOOLEAN
    BY <1>1, Zenon DEF AllocInv, SessTypes
  <2>. QED  BY <1>1, <2>1, <2>2, <2>3 DEF AllocInv, SessTypes
<1>. QED  BY <1>1, <1>2, FrameAllocInv

(* A discovered node was UNKNOWN, so no step held it and the committed    *)
(* nodes stay the same.                                                    *)
LEMMA DiscoverAllocInv ==
  ASSUME AllocInv, NEW n \in NodeIds, NodeDiscovered(n)
  PROVE  AllocInv'
<1>1. Committed' = Committed
  BY DEF NodeDiscovered, Committed, AllocInv, SessTypes
<1>2. SessTypes'
  <2>1. nodeState' \in [NodeIds -> NodeStates]
    BY DEF NodeDiscovered, AllocInv, SessTypes, NodeStates
  <2>2. overReleased' \in BOOLEAN
    BY Zenon DEF NodeDiscovered, AllocInv, SessTypes
  <2>. QED  BY <2>1, <2>2 DEF NodeDiscovered, AllocInv, SessTypes
<1>. QED  BY <1>1, <1>2 DEF NodeDiscovered, AllocInv, HeldCommitted, NoDoubleAllocation

(* Termination drops the slot's step and nodes and changes no node state. *)
LEMMA TerminateAllocInv ==
  ASSUME AllocInv, NEW s \in Slots, TerminateSession(s)
  PROVE  AllocInv'
<1>1. /\ state' = [state EXCEPT ![s] = "TERMINATED"]
      /\ overReleased' = (overReleased \/ (stepLive[s] /\ allocRef[s] - 1 <= 0))
      /\ allocRef' = [allocRef EXCEPT ![s] = 0]
      /\ stepLive' = [stepLive EXCEPT ![s] = FALSE]
      /\ held' = [held EXCEPT ![s] = {}]
      /\ used' = [used EXCEPT ![s] = FALSE]
      /\ UNCHANGED nodeState
  BY DEF TerminateSession, ReleaseSession
<1>2. SessTypes'
  <2>1. /\ used' \in [Slots -> BOOLEAN] /\ stepLive' \in [Slots -> BOOLEAN]
        /\ allocRef' \in [Slots -> Int] /\ held' \in [Slots -> SUBSET NodeIds]
    BY <1>1 DEF AllocInv, SessTypes
  <2>2. state' \in [Slots -> SessionStates]
    BY <1>1 DEF AllocInv, SessTypes, SessionStates
  <2>3. overReleased' \in BOOLEAN
    BY <1>1, Zenon
  <2>. QED  BY <1>1, <2>1, <2>2, <2>3 DEF AllocInv, SessTypes
<1>3. Committed' = Committed
  BY <1>1 DEF Committed
<1>4. HeldCommitted'
  BY <1>1, <1>3 DEF AllocInv, SessTypes, HeldCommitted
<1>5. NoDoubleAllocation'
  BY <1>1 DEF AllocInv, SessTypes, NoDoubleAllocation
<1>. QED  BY <1>2, <1>4, <1>5 DEF AllocInv

(* One step of a pass either leaves the steps alone (an empty queue, an   *)
(* INIT head moved on or not, a SCHEDULE head no module claims) or        *)
(* commits the head.                                                       *)
LEMMA OfferAllocInv ==
  ASSUME AllocInv, Offer
  PROVE  AllocInv'
<1> DEFINE q == Head(pass)
<1>1. UNCHANGED <<used, overReleased>>
  BY DEF Offer
<1>2. CASE queue[q] = <<>>
  <2>1. UNCHANGED <<state, stepLive, held, allocRef, nodeState>>
    BY <1>2 DEF Offer
  <2>2. SessTypes'
    BY <1>1, <2>1 DEF AllocInv, SessTypes
  <2>. QED  BY <2>1, <2>2, FrameAllocInv
<1>3. CASE queue[q] # <<>> /\ OfferInit(q, Head(queue[q]))
  <2>1. UNCHANGED <<stepLive, held, allocRef, nodeState>>
    BY <1>3 DEF OfferInit
  <2>2. state' \in [Slots -> SessionStates]
    BY <1>3 DEF OfferInit, AllocInv, SessTypes, SessionStates
  <2>3. SessTypes'
    BY <1>1, <2>1, <2>2 DEF AllocInv, SessTypes
  <2>. QED  BY <2>1, <2>3, FrameAllocInv
<1>4. CASE queue[q] # <<>> /\ OfferSchedule(q, Head(queue[q]))
  <2>1. CASE CommitHead(q, Head(queue[q]))
    BY <1>1, <2>1, CommitAllocInv
  <2>2. CASE UNCHANGED <<state, stepLive, held, allocRef, queue, nodeState>>
    <3>1. SessTypes'
      BY <1>1, <2>2 DEF AllocInv, SessTypes
    <3>. QED  BY <2>2, <3>1, FrameAllocInv
  <2>. QED  BY <1>4, <2>1, <2>2 DEF OfferSchedule
<1>. QED  BY <1>2, <1>3, <1>4 DEF Offer

LEMMA NextAllocInv == AllocInv /\ [Next]_vars => AllocInv'
<1> SUFFICES ASSUME AllocInv, [Next]_vars PROVE AllocInv'
  OBVIOUS
<1>1. CASE \E q \in Queues, r \in Requests : Submit(q, r)
  BY <1>1, SubmitAllocInv
<1>2. CASE \E n \in NodeIds : NodeDiscovered(n)
  BY <1>2, DiscoverAllocInv
<1>3. CASE Wake
  <2>1. SessTypes'
    BY <1>3 DEF Wake, AllocInv, SessTypes
  <2>. QED  BY <1>3, <2>1, FrameAllocInv DEF Wake
<1>4. CASE Offer
  BY <1>4, OfferAllocInv
<1>5. CASE \E s \in Slots : TerminateSession(s)
  BY <1>5, TerminateAllocInv
<1>6. CASE UNCHANGED vars
  <2>1. SessTypes'
    BY <1>6 DEF vars, AllocInv, SessTypes
  <2>. QED  BY <1>6, <2>1, FrameAllocInv DEF vars
<1>. QED  BY <1>1, <1>2, <1>3, <1>4, <1>5, <1>6 DEF Next

(* However sessions of several queues are submitted, matched, committed   *)
(* and terminated, and nodes discovered, no node is held by the steps of  *)
(* two live sessions: the matcher's find_candidates only hands out        *)
(* UNALLOC nodes, and every node a live step holds is ALLOC or EXCLUSIVE. *)
THEOREM NoDoubleAllocationThm == Spec => []NoDoubleAllocation
<1>1. AllocInv => NoDoubleAllocation  BY DEF AllocInv
<1>. QED  BY InitAllocInv, NextAllocInv, <1>1, PTL DEF Spec
=============================================================================
