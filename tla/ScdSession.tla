----------------------------- MODULE ScdSession -----------------------------
(***************************************************************************)
(* The scheduler's sessions, queues and node registry, as the dedicated   *)
(* progress thread of ScdEngine mutates them.                              *)
(*                                                                         *)
(* What of it is in the tree is src/orcm/mca/scd/base/scd_base_frame.c:    *)
(* orcm_scd_base_get_next_session_id, the defaults of alloc_con and        *)
(* queue_con, and the destructors sess_des, step_des and alloc_des that    *)
(* run when a session is released.  The session state machine, the queue  *)
(* pass and the first-fit node matching live in components that are not   *)
(* in the tree and are modelled from the spec (sections 3, 4.2-4.5).       *)
(*                                                                         *)
(* Every action is one callback on the single progress thread, so actions  *)
(* are atomic with respect to each other (spec section 5).                 *)
(***************************************************************************)
EXTENDS Naturals, Sequences, FiniteSets, Functions, SequencesExt

CONSTANTS
  NumNodes,         \* nodes of the registry, indexed 1..NumNodes
  QueueOrder,       \* the queues in visiting order (descending priority)
  Requests,         \* the allocations callers may submit
  MaxLive,          \* bound on sessions alive at once
  IdBits,           \* width of orcm_session_id_t
  StepRetainsAlloc  \* whether the code that builds a step (not in this tree)
                    \* retains the alloc

Queues == Range(QueueOrder)
NodeIds == 1..NumNodes
Slots == 1..MaxLive

ASSUME SessionAssumption ==
  /\ NumNodes \in Nat
  /\ QueueOrder \in Seq(STRING) /\ QueueOrder # <<>> /\ IsInjective(QueueOrder)
  /\ Requests \subseteq [min : Nat \ {0}, max : Nat, excl : BOOLEAN]
  /\ Requests # {}    \* a free slot's placeholder request is one of them
  /\ \A r \in Requests : r.min <= r.max
  /\ MaxLive \in Nat \ {0}
  /\ IdBits \in Nat \ {0}
  /\ 2^IdBits > 0     \* the modulus of the id counter, stated for the provers
  /\ StepRetainsAlloc \in BOOLEAN

VARIABLES
  lastId,        \* last_session_id
  used,          \* the slot holds a live session
  sid,           \* its session id
  state,         \* its lifecycle state
  req,           \* its allocation
  stepLive,      \* it has a step
  held,          \* the nodes of its step
  allocRef,      \* the reference count of its orcm_alloc_t
  queue,         \* the sessions linked into each queue, in order
  pass,          \* the queues the current scheduling pass has yet to visit
  nodeState,     \* the registry's state of each node
  overReleased   \* some OBJ_RELEASE hit an orcm_alloc_t already freed

vars == <<lastId, used, sid, state, req, stepLive, held, allocRef, queue, pass,
          nodeState, overReleased>>

IdSpace == 0..(2^IdBits - 1)
NodeStates == {"UNKNOWN", "UNALLOC", "ALLOC", "EXCLUSIVE"}
SessionStates == {"UNDEF", "INIT", "SCHEDULE", "ALLOCD", "TERMINATED"}

\* The slot is linked into queue q.
InQueue(s, q) == s \in Range(queue[q])
Queued(s) == \E q \in Queues : InQueue(s, q)

TypeOK ==
  /\ lastId \in IdSpace
  /\ used \in [Slots -> BOOLEAN]
  /\ sid \in [Slots -> IdSpace]
  /\ state \in [Slots -> SessionStates]
  /\ req \in [Slots -> Requests]
  /\ stepLive \in [Slots -> BOOLEAN]
  /\ held \in [Slots -> SUBSET NodeIds]
  /\ allocRef \in [Slots -> Int]
  /\ queue \in [Queues -> Seq(Slots)]
  /\ pass \in Seq(Queues)
  /\ nodeState \in [NodeIds -> NodeStates]
  /\ overReleased \in BOOLEAN

Init ==
  /\ lastId = 0
  /\ used = [s \in Slots |-> FALSE]
  /\ sid = [s \in Slots |-> 0]
  /\ state = [s \in Slots |-> "UNDEF"]
  /\ req = [s \in Slots |-> CHOOSE r \in Requests : TRUE]
  /\ stepLive = [s \in Slots |-> FALSE]
  /\ held = [s \in Slots |-> {}]
  /\ allocRef = [s \in Slots |-> 0]
  /\ queue = [q \in Queues |-> <<>>]
  /\ pass = <<>>
  /\ nodeState = [n \in NodeIds |-> "UNKNOWN"]
  /\ overReleased = FALSE

-----------------------------------------------------------------------------
(* orcm_scd_base_get_next_session_id: last_session_id++ and return it, in *)
(* an IdBits-wide counter.                                                 *)
NextSessionId == (lastId + 1) % 2^IdBits

(* A caller's allocation r is posted to queue q; on the progress thread a *)
(* session is made around it (refcount 1 on the alloc, owned by the        *)
(* session), given the next id, and appended to q in state INIT.           *)
Submit(q, r) ==
  \E s \in Slots :
    /\ ~used[s]
    /\ lastId' = NextSessionId
    /\ used' = [used EXCEPT ![s] = TRUE]
    /\ sid' = [sid EXCEPT ![s] = NextSessionId]
    /\ state' = [state EXCEPT ![s] = "INIT"]
    /\ req' = [req EXCEPT ![s] = r]
    /\ allocRef' = [allocRef EXCEPT ![s] = 1]
    /\ queue' = [queue EXCEPT ![q] = Append(@, s)]
    /\ UNCHANGED <<stepLive, held, pass, nodeState, overReleased>>

(* The telemetry side determines a node's state: UNKNOWN becomes UNALLOC. *)
NodeDiscovered(n) ==
  /\ nodeState[n] = "UNKNOWN"
  /\ nodeState' = [nodeState EXCEPT ![n] = "UNALLOC"]
  /\ UNCHANGED <<lastId, used, sid, state, req, stepLive, held, allocRef, queue,
                 pass, overReleased>>

(* A wake of the engine starts a scheduling pass over every queue.        *)
Wake ==
  /\ pass = <<>>
  /\ pass' = QueueOrder
  /\ UNCHANGED <<lastId, used, sid, state, req, stepLive, held, allocRef, queue,
                 nodeState, overReleased>>

-----------------------------------------------------------------------------
(* find_candidates (spec 4.5): the nodes free for an allocation.           *)
\* Mutant: the state filter dropped, every discovered node is a candidate.
CandidatesUnfiltered(r) == {n \in NodeIds : nodeState[n] # "UNKNOWN"}

Candidates(r) == {n \in NodeIds : nodeState[n] = "UNALLOC"}

\* The k lowest-indexed nodes of S (first fit by ascending node index).
FirstFit(S, k) == {n \in S : Cardinality({m \in S : m < n}) < k}

(* How many nodes a match takes: max_nodes when that many are free, else  *)
(* all that are free (at least min_nodes, or the match fails).             *)
TakeCount(r, free) == IF r.max <= Cardinality(free) THEN r.max ELSE Cardinality(free)

(* The references a step adds to its session's alloc when it is built.    *)
RetainOnCommit == IF StepRetainsAlloc THEN 1 ELSE 0

(* The head session of queue q, in INIT, is offered to the policy chain   *)
(* for SCHEDULE; the first module that claims it moves it on; if none     *)
(* does (all decline or fail) it stays for the next pass.                  *)
OfferInit(q, s) ==
  /\ state[s] = "INIT"
  /\ \/ state' = [state EXCEPT ![s] = "SCHEDULE"]
     \/ UNCHANGED state
  /\ UNCHANGED <<stepLive, held, allocRef, queue, nodeState>>

(* The head session, in SCHEDULE, is matched against the registry.  With  *)
(* at least min_nodes candidates a module claims it: a step is built that *)
(* holds the first-fit nodes, they are committed ALLOC (EXCLUSIVE for an  *)
(* exclusive allocation, alloc_con's default), the session is ALLOCD and   *)
(* leaves the queue.  Otherwise, or if no module claims, it stays.         *)
\* Mutant: the committed session left at the head of its queue.
CommitHeadKeepsQueue(q, s) ==
  LET free   == Candidates(req[s])
      chosen == FirstFit(free, TakeCount(req[s], free))
  IN  /\ Cardinality(free) >= req[s].min
      /\ held' = [held EXCEPT ![s] = chosen]
      /\ stepLive' = [stepLive EXCEPT ![s] = TRUE]
      /\ allocRef' = [allocRef EXCEPT ![s] = @ + RetainOnCommit]
      /\ nodeState' = [n \in NodeIds |->
                         IF n \in chosen
                           THEN IF req[s].excl THEN "EXCLUSIVE" ELSE "ALLOC"
                           ELSE nodeState[n]]
      /\ state' = [state EXCEPT ![s] = "ALLOCD"]
      /\ UNCHANGED queue

CommitHead(q, s) ==
  LET free   == Candidates(req[s])
      chosen == FirstFit(free, TakeCount(req[s], free))
  IN  /\ Cardinality(free) >= req[s].min
      /\ held' = [held EXCEPT ![s] = chosen]
      /\ stepLive' = [stepLive EXCEPT ![s] = TRUE]
      /\ allocRef' = [allocRef EXCEPT ![s] = @ + RetainOnCommit]
      /\ nodeState' = [n \in NodeIds |->
                         IF n \in chosen
                           THEN IF req[s].excl THEN "EXCLUSIVE" ELSE "ALLOC"
                           ELSE nodeState[n]]
      /\ state' = [state EXCEPT ![s] = "ALLOCD"]
      /\ queue' = [queue EXCEPT ![q] = Tail(@)]

OfferSchedule(q, s) ==
  /\ state[s] = "SCHEDULE"
  /\ \/ CommitHead(q, s)
     \/ UNCHANGED <<state, stepLive, held, allocRef, queue, nodeState>>

(* One step of the pass: the next queue in order offers its head, if any. *)
Offer ==
  /\ pass # <<>>
  /\ pass' = Tail(pass)
  /\ LET q == Head(pass) IN
       IF queue[q] = <<>>
         THEN UNCHANGED <<state, stepLive, held, allocRef, queue, nodeState>>
         ELSE OfferInit(q, Head(queue[q])) \/ OfferSchedule(q, Head(queue[q]))
  /\ UNCHANGED <<lastId, used, sid, req, overReleased>>

-----------------------------------------------------------------------------
(* A session is terminated (its job ended, or a cancellation was posted)  *)
(* and released: its list item is unlinked from its queue, if it is in     *)
(* one (opal_list_remove_item: the first and only position), and its       *)
(* last reference dropped, which runs sess_des: OBJ_RELEASE of the alloc,  *)
(* then OPAL_LIST_DESTRUCT of the steps, whose step_des releases the      *)
(* alloc again and walks its nodes with an empty loop body.  No node      *)
(* state changes.                                                          *)
ReleaseSession(s) ==
  /\ overReleased' = (overReleased \/ (stepLive[s] /\ allocRef[s] - 1 <= 0))
  /\ allocRef' = [allocRef EXCEPT ![s] = 0]
  /\ stepLive' = [stepLive EXCEPT ![s] = FALSE]
  /\ held' = [held EXCEPT ![s] = {}]
  /\ used' = [used EXCEPT ![s] = FALSE]
  /\ UNCHANGED nodeState

TerminateSession(s) ==
  /\ used[s]
  /\ state' = [state EXCEPT ![s] = "TERMINATED"]
  /\ queue' = [q \in Queues |-> RemoveFirst(queue[q], s)]
  /\ ReleaseSession(s)
  /\ UNCHANGED <<lastId, sid, req, pass>>

-----------------------------------------------------------------------------
Next ==
  \/ \E q \in Queues, r \in Requests : Submit(q, r)
  \/ \E n \in NodeIds : NodeDiscovered(n)
  \/ Wake
  \/ Offer
  \/ \E s \in Slots : TerminateSession(s)

Spec == Init /\ [][Next]_vars

-----------------------------------------------------------------------------
(* Spec 3 and 8: no node is held by two live steps, however sessions of  *)
(* several queues are matched, committed and terminated.                   *)
NoDoubleAllocation ==
  \A s, t \in Slots :
    s # t /\ stepLive[s] /\ stepLive[t] => held[s] \cap held[t] = {}

(* Spec 3: a node's state says whether a live step holds it; in          *)
(* particular the nodes of a released step are UNALLOC again.              *)
NodesReflectSteps ==
  \A n \in NodeIds :
    nodeState[n] \in {"ALLOC", "EXCLUSIVE"} <=> \E s \in Slots : stepLive[s] /\ n \in held[s]

(* Spec 3 and 4.3: a pending session is linked into exactly one queue,    *)
(* exactly once, and a session that is allocated or gone is in none.       *)
SessionInOneQueue ==
  \A s \in Slots :
    IF used[s] /\ state[s] \in {"INIT", "SCHEDULE"}
      THEN \E q \in Queues :
             /\ Cardinality({i \in DOMAIN queue[q] : queue[q][i] = s}) = 1
             /\ \A p \in Queues \ {q} : ~InQueue(s, p)
      ELSE ~Queued(s)

=============================================================================
