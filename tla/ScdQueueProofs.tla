--------------------------- MODULE ScdQueueProofs ---------------------------
(***************************************************************************)
(* Proofs about the scheduler's queues (ScdSession): SessionInOneQueue    *)
(* and the type invariant TypeOK.                                          *)
(*                                                                         *)
(* SessionInOneQueue counts the positions of a session in a queue, so it  *)
(* is not inductive as it stands.  QueueInv says it per queue: no queue   *)
(* holds a slot twice, no two queues share a slot, and a slot is linked   *)
(* into some queue exactly when it is a pending session.  Submission      *)
(* appends a free slot, which the last fact puts in no queue; a commit    *)
(* takes the head off its queue, and termination unlinks the one position *)
(* that holds the session.                                                 *)
(***************************************************************************)
EXTENDS ScdSessionProofs, SeqLemmas, FiniteSetTheorems

\* A session is pending: created and not yet allocated or terminated.
Pending(s) == used[s] /\ state[s] \in {"INIT", "SCHEDULE"}

QueueTypes ==
  /\ queue \in [Queues -> Seq(Slots)]
  /\ pass \in Seq(Queues)
  /\ used \in [Slots -> BOOLEAN]
  /\ state \in [Slots -> SessionStates]

QueueInv ==
  /\ QueueTypes
  /\ \A q \in Queues : IsInjective(queue[q])
  /\ \A q, p \in Queues : q # p => Range(queue[q]) \cap Range(queue[p]) = {}
  /\ \A s \in Slots : Queued(s) <=> Pending(s)

-----------------------------------------------------------------------------
\* The scheduling pass visits the queues of QueueOrder.
LEMMA QueueOrderType == QueueOrder \in Seq(Queues)
<1>1. QueueOrder \in Seq(STRING)
  BY SessionAssumption
<1>2. QueueOrder \in [1..Len(QueueOrder) -> Range(QueueOrder)]
  BY <1>1, LenProperties DEF Range
<1>. QED  BY <1>1, <1>2, LenProperties DEF Queues

LEMMA InitQueueInv == Init => QueueInv
<1> SUFFICES ASSUME Init PROVE QueueInv
  OBVIOUS
<1>1. queue \in [Queues -> Seq(Slots)] /\ pass \in Seq(Queues)
  BY DEF Init
<1>2. used \in [Slots -> BOOLEAN] /\ state \in [Slots -> SessionStates]
  BY DEF Init, SessionStates
<1>3. \A q \in Queues : IsInjective(queue[q]) /\ Range(queue[q]) = {}
  BY DEF Init, IsInjective, Range
<1>4. \A s \in Slots : ~Queued(s) /\ ~Pending(s)
  BY <1>3 DEF Init, Queued, InQueue, Pending
<1>. QED  BY <1>1, <1>2, <1>3, <1>4 DEF QueueInv, QueueTypes

\* A step that leaves the queues, the pass and the sessions alone.
LEMMA FrameQueueInv ==
  ASSUME QueueInv, UNCHANGED <<queue, pass, used, state>>
  PROVE  QueueInv'
BY DEF QueueInv, QueueTypes, Queued, InQueue, Pending

LEMMA WakeQueueInv ==
  ASSUME QueueInv, Wake
  PROVE  QueueInv'
BY QueueOrderType DEF Wake, QueueInv, QueueTypes, Queued, InQueue, Pending

(* Submission appends a free slot, which no queue holds, to one queue.    *)
LEMMA SubmitQueueInv ==
  ASSUME QueueInv, NEW q \in Queues, NEW r, Submit(q, r)
  PROVE  QueueInv'
<1>1. PICK s \in Slots :
        /\ ~used[s]
        /\ used' = [used EXCEPT ![s] = TRUE]
        /\ state' = [state EXCEPT ![s] = "INIT"]
        /\ queue' = [queue EXCEPT ![q] = Append(@, s)]
        /\ UNCHANGED pass
  BY DEF Submit
<1>2. \A p \in Queues : s \notin Range(queue[p])
  BY <1>1 DEF QueueInv, Queued, InQueue, Pending
<1>3. /\ Append(queue[q], s) \in Seq(Slots)
      /\ IsInjective(Append(queue[q], s))
      /\ Range(Append(queue[q], s)) = Range(queue[q]) \cup {s}
  BY <1>2, AppendProperties, AppendKeepsInjective, AppendRange DEF QueueInv, QueueTypes
<1>4. \A p \in Queues : Range(queue'[p]) = IF p = q THEN Range(queue[p]) \cup {s}
                                                   ELSE Range(queue[p])
  BY <1>1, <1>3 DEF QueueInv, QueueTypes
<1>5. QueueTypes'
  BY <1>1, <1>3 DEF QueueInv, QueueTypes, SessionStates
<1>6. \A p \in Queues : IsInjective(queue'[p])
  BY <1>1, <1>3 DEF QueueInv, QueueTypes
<1>7. \A p1, p2 \in Queues : p1 # p2 => Range(queue'[p1]) \cap Range(queue'[p2]) = {}
  BY <1>2, <1>4 DEF QueueInv
<1>8. \A t \in Slots : Queued(t)' <=> Pending(t)'
  <2>1. \A t \in Slots : Queued(t)' <=> (Queued(t) \/ t = s)
    BY <1>4 DEF Queued, InQueue
  <2>2. \A t \in Slots : Pending(t)' <=> (Pending(t) \/ t = s)
    BY <1>1 DEF QueueInv, QueueTypes, Pending
  <2>. QED  BY <2>1, <2>2 DEF QueueInv
<1>. QED  BY <1>5, <1>6, <1>7, <1>8 DEF QueueInv

(* A commit takes the head off its queue; no other queue holds it, and it *)
(* is ALLOCD, so it is neither queued nor pending afterwards.              *)
LEMMA CommitQueueInv ==
  ASSUME QueueInv, NEW q \in Queues, queue[q] # << >>,
         CommitHead(q, Head(queue[q])), pass' \in Seq(Queues), UNCHANGED used
  PROVE  QueueInv'
<1> DEFINE h == Head(queue[q])
<1>1. /\ queue' = [queue EXCEPT ![q] = Tail(queue[q])]
      /\ state' = [state EXCEPT ![h] = "ALLOCD"]
  BY DEF CommitHead
<1>2. /\ h \in Slots /\ h \in Range(queue[q])
      /\ Tail(queue[q]) \in Seq(Slots)
      /\ IsInjective(Tail(queue[q]))
      /\ Range(Tail(queue[q])) = Range(queue[q]) \ {h}
  <2>1. queue[q] \in Seq(Slots) /\ IsInjective(queue[q])
    BY DEF QueueInv, QueueTypes
  <2>2. h = queue[q][1] /\ 1 \in DOMAIN queue[q]
    BY <2>1, EmptySeq, LenProperties
  <2>3. h \in Range(queue[q])
    BY <2>2 DEF Range
  <2>. QED  BY <2>1, <2>3, HeadTailProperties, TailInjective
<1>3. \A p \in Queues : Range(queue'[p]) = IF p = q THEN Range(queue[p]) \ {h}
                                                   ELSE Range(queue[p])
  BY <1>1, <1>2 DEF QueueInv, QueueTypes
<1>4. \A p \in Queues : p # q => h \notin Range(queue[p])
  BY <1>2 DEF QueueInv
<1>5. QueueTypes'
  BY <1>1, <1>2 DEF QueueInv, QueueTypes, SessionStates
<1>6. \A p \in Queues : IsInjective(queue'[p])
  BY <1>1, <1>2 DEF QueueInv, QueueTypes
<1>7. \A p1, p2 \in Queues : p1 # p2 => Range(queue'[p1]) \cap Range(queue'[p2]) = {}
  BY <1>3 DEF QueueInv
<1>8. \A t \in Slots : Queued(t)' <=> Pending(t)'
  <2>1. \A t \in Slots : Queued(t)' <=> (Queued(t) /\ t # h)
    BY <1>3, <1>4 DEF Queued, InQueue
  <2>2. \A t \in Slots : Pending(t)' <=> (Pending(t) /\ t # h)
    BY <1>1, <1>2 DEF QueueInv, QueueTypes, Pending
  <2>. QED  BY <2>1, <2>2 DEF QueueInv
<1>. QED  BY <1>5, <1>6, <1>7, <1>8 DEF QueueInv

(* An INIT head that the chain moves to SCHEDULE stays pending.           *)
LEMMA OfferInitQueueInv ==
  ASSUME QueueInv, NEW q \in Queues, queue[q] # << >>,
         OfferInit(q, Head(queue[q])), pass' \in Seq(Queues), UNCHANGED used
  PROVE  QueueInv'
<1> DEFINE h == Head(queue[q])
<1>1. h \in Slots
  BY HeadTailProperties DEF QueueInv, QueueTypes
<1>2. /\ state[h] = "INIT" /\ UNCHANGED queue
      /\ state' = [state EXCEPT ![h] = "SCHEDULE"] \/ UNCHANGED state
  BY DEF OfferInit
<1>3. QueueTypes'
  BY <1>1, <1>2 DEF QueueInv, QueueTypes, SessionStates
<1>4. \A t \in Slots : Pending(t)' <=> Pending(t)
  BY <1>1, <1>2 DEF QueueInv, QueueTypes, Pending
<1>. QED  BY <1>2, <1>3, <1>4 DEF QueueInv, Queued, InQueue

LEMMA OfferQueueInv ==
  ASSUME QueueInv, Offer
  PROVE  QueueInv'
<1> DEFINE q == Head(pass)
<1>1. /\ q \in Queues /\ pass' \in Seq(Queues) /\ UNCHANGED used
  <2>1. pass \in Seq(Queues) /\ pass # << >>
    BY DEF Offer, QueueInv, QueueTypes
  <2>2. pass' = Tail(pass)
    BY DEF Offer
  <2>. QED  BY <2>1, <2>2, HeadTailProperties DEF Offer
<1>2. CASE queue[q] = << >>
  <2>1. UNCHANGED <<queue, state>>
    BY <1>2 DEF Offer
  <2>. QED  BY <1>1, <2>1 DEF QueueInv, QueueTypes, Queued, InQueue, Pending
<1>3. CASE queue[q] # << >> /\ OfferInit(q, Head(queue[q]))
  BY <1>1, <1>3, OfferInitQueueInv
<1>4. CASE queue[q] # << >> /\ OfferSchedule(q, Head(queue[q]))
  <2>1. CASE CommitHead(q, Head(queue[q]))
    BY <1>1, <1>4, <2>1, CommitQueueInv
  <2>2. CASE UNCHANGED <<state, stepLive, held, allocRef, queue, nodeState>>
    BY <1>1, <2>2 DEF QueueInv, QueueTypes, Queued, InQueue, Pending
  <2>. QED  BY <1>4, <2>1, <2>2 DEF OfferSchedule
<1>. QED  BY <1>2, <1>3, <1>4 DEF Offer

(* Termination unlinks the session's one position from every queue that  *)
(* holds it and makes it neither queued nor pending.                       *)
LEMMA TerminateQueueInv ==
  ASSUME QueueInv, NEW s \in Slots, TerminateSession(s)
  PROVE  QueueInv'
<1>1. /\ queue' = [p \in Queues |-> RemoveFirst(queue[p], s)]
      /\ state' = [state EXCEPT ![s] = "TERMINATED"]
      /\ used' = [used EXCEPT ![s] = FALSE]
      /\ UNCHANGED pass
  BY DEF TerminateSession, ReleaseSession
<1>2. \A p \in Queues :
        /\ RemoveFirst(queue[p], s) \in Seq(Slots)
        /\ IsInjective(RemoveFirst(queue[p], s))
        /\ Range(RemoveFirst(queue[p], s)) = Range(queue[p]) \ {s}
  BY RemoveFirstInjective DEF QueueInv, QueueTypes
<1>3. QueueTypes'
  BY <1>1, <1>2 DEF QueueInv, QueueTypes, SessionStates
<1>4. \A p1, p2 \in Queues : p1 # p2 => Range(queue'[p1]) \cap Range(queue'[p2]) = {}
  BY <1>1, <1>2 DEF QueueInv
<1>5. \A t \in Slots : Queued(t)' <=> Pending(t)'
  <2>1. \A t \in Slots : Queued(t)' <=> (Queued(t) /\ t # s)
    BY <1>1, <1>2 DEF Queued, InQueue
  <2>2. \A t \in Slots : Pending(t)' <=> (Pending(t) /\ t # s)
    BY <1>1 DEF QueueInv, QueueTypes, Pending
  <2>. QED  BY <2>1, <2>2 DEF QueueInv
<1>. QED  BY <1>1, <1>2, <1>3, <1>4, <1>5 DEF QueueInv

LEMMA NextQueueInv == QueueInv /\ [Next]_vars => QueueInv'
<1> SUFFICES ASSUME QueueInv, [Next]_vars PROVE QueueInv'
  OBVIOUS
<1>1. CASE \E q \in Queues, r \in Requests : Submit(q, r)
  BY <1>1, SubmitQueueInv
<1>2. CASE \E n \in NodeIds : NodeDiscovered(n)
  BY <1>2, FrameQueueInv DEF NodeDiscovered
<1>3. CASE Wake
  BY <1>3, WakeQueueInv
<1>4. CASE Offer
  BY <1>4, OfferQueueInv
<1>5. CASE \E s \in Slots : TerminateSession(s)
  BY <1>5, TerminateQueueInv
<1>6. CASE UNCHANGED vars
  BY <1>6, FrameQueueInv DEF vars
<1>. QED  BY <1>1, <1>2, <1>3, <1>4, <1>5, <1>6 DEF Next

\* In an injective sequence an element that occurs occurs at one position.
LEMMA OnePosition ==
  ASSUME NEW S, NEW s \in Seq(S), IsInjective(s), NEW x \in Range(s)
  PROVE  Cardinality({i \in DOMAIN s : s[i] = x}) = 1
<1>1. PICK i \in DOMAIN s : s[i] = x
  BY DEF Range
<1>2. {k \in DOMAIN s : s[k] = x} = {i}
  BY <1>1 DEF IsInjective
<1>. QED  BY <1>2, FS_Singleton

LEMMA QueueInvSessionInOneQueue == QueueInv => SessionInOneQueue
<1> SUFFICES ASSUME QueueInv, NEW s \in Slots
             PROVE  IF used[s] /\ state[s] \in {"INIT", "SCHEDULE"}
                      THEN \E q \in Queues :
                             /\ Cardinality({i \in DOMAIN queue[q] : queue[q][i] = s}) = 1
                             /\ \A p \in Queues \ {q} : ~InQueue(s, p)
                      ELSE ~Queued(s)
  BY DEF SessionInOneQueue
<1>1. CASE Pending(s)
  <2>1. PICK q \in Queues : s \in Range(queue[q])
    BY <1>1 DEF QueueInv, Queued, InQueue
  <2>2. Cardinality({i \in DOMAIN queue[q] : queue[q][i] = s}) = 1
    BY <2>1, OnePosition DEF QueueInv, QueueTypes
  <2>3. \A p \in Queues \ {q} : ~InQueue(s, p)
    BY <2>1 DEF QueueInv, InQueue
  <2>. QED  BY <1>1, <2>2, <2>3 DEF Pending
<1>2. CASE ~Pending(s)
  BY <1>2 DEF QueueInv, Pending
<1>. QED  BY <1>1, <1>2

(* However sessions are submitted to the queues, offered in passes,      *)
(* committed and terminated, a pending session is linked into exactly one *)
(* queue, exactly once, and an allocated or terminated session is in none: *)
(* the commit takes it off its queue's head, and termination unlinks its   *)
(* one list item.                                                          *)
THEOREM SessionInOneQueueThm == Spec => []SessionInOneQueue
<1>. QED  BY InitQueueInv, NextQueueInv, QueueInvSessionInOneQueue, PTL DEF Spec

-----------------------------------------------------------------------------
(* The id counter and the session ids stay in the IdBits-wide id space,   *)
(* each slot's request is one of Requests, and the over-release flag is   *)
(* Boolean.                                                                *)
IdInv ==
  /\ lastId \in IdSpace
  /\ sid \in [Slots -> IdSpace]
  /\ req \in [Slots -> Requests]
  /\ overReleased \in BOOLEAN

\* The counter's next value, taken modulo the positive 2^IdBits, is an id.
LEMMA NextSessionIdType ==
  ASSUME lastId \in IdSpace
  PROVE  NextSessionId \in IdSpace
<1>1. 2^IdBits \in Nat /\ 2^IdBits > 0
  BY SessionAssumption
<1>2. lastId \in Int
  BY <1>1 DEF IdSpace
<1>. QED  BY <1>1, <1>2 DEF NextSessionId, IdSpace

LEMMA InitIdInv == Init => IdInv
<1> SUFFICES ASSUME Init PROVE IdInv
  OBVIOUS
<1>1. 2^IdBits \in Nat /\ 2^IdBits > 0
  BY SessionAssumption
<1>2. lastId \in IdSpace /\ sid \in [Slots -> IdSpace]
  BY <1>1 DEF Init, IdSpace
<1>3. req \in [Slots -> Requests]
  BY SessionAssumption DEF Init
<1>4. overReleased \in BOOLEAN
  BY Zenon DEF Init
<1>. QED  BY <1>2, <1>3, <1>4 DEF IdInv

LEMMA NextIdInv == IdInv /\ [Next]_vars => IdInv'
<1> SUFFICES ASSUME IdInv, [Next]_vars PROVE IdInv'
  OBVIOUS
<1>1. CASE \E q \in Queues, r \in Requests : Submit(q, r)
  <2>1. PICK q \in Queues, r \in Requests : Submit(q, r)
    BY <1>1
  <2>2. PICK s \in Slots :
          /\ lastId' = NextSessionId
          /\ sid' = [sid EXCEPT ![s] = NextSessionId]
          /\ req' = [req EXCEPT ![s] = r]
          /\ UNCHANGED overReleased
    BY <2>1 DEF Submit
  <2>3. overReleased' \in BOOLEAN
    BY <2>2, Zenon DEF IdInv
  <2>. QED  BY <2>2, <2>3, NextSessionIdType DEF IdInv
<1>2. CASE \E s \in Slots : TerminateSession(s)
  <2>1. PICK s \in Slots : TerminateSession(s)
    BY <1>2
  <2>2. overReleased' \in BOOLEAN
    BY <2>1, Zenon DEF TerminateSession, ReleaseSession
  <2>. QED  BY <2>1, <2>2 DEF IdInv, TerminateSession
<1>3. CASE \/ \E n \in NodeIds : NodeDiscovered(n)
           \/ Wake \/ Offer \/ UNCHANGED vars
  <2>1. UNCHANGED <<lastId, sid, req, overReleased>>
    BY <1>3 DEF NodeDiscovered, Wake, Offer, vars
  <2>. QED  BY <2>1 DEF IdInv
<1>. QED  BY <1>1, <1>2, <1>3 DEF Next

LEMMA TypeOKFromInvs == AllocInv /\ QueueInv /\ IdInv => TypeOK
BY DEF AllocInv, SessTypes, QueueInv, QueueTypes, IdInv, TypeOK

(* Every reachable state is well typed: the id counter wraps within its   *)
(* IdBits-wide space, every queue is a list of slots and the pass a list  *)
(* of queues, node states stay among the registry's states and session    *)
(* states among the session states.  It rests on the allocation, queue    *)
(* and id invariants.                                                      *)
THEOREM TypeOKThm == Spec => []TypeOK
<1>1. Init => AllocInv /\ QueueInv /\ IdInv
  BY InitAllocInv, InitQueueInv, InitIdInv
<1>2. AllocInv /\ QueueInv /\ IdInv /\ [Next]_vars => (AllocInv /\ QueueInv /\ IdInv)'
  BY NextAllocInv, NextQueueInv, NextIdInv
<1>. QED  BY <1>1, <1>2, TypeOKFromInvs, PTL DEF Spec
=============================================================================
