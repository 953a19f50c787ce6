---------------------------- MODULE SqliteCreate ----------------------------
(***************************************************************************)
(* The sqlite database component (src/orcm/mca/db/sqlite/                  *)
(* db_sqlite_component.c): component_register, component_avail and        *)
(* component_create, called in this order by the db framework.             *)
(*                                                                         *)
(* component_register registers num_worker_threads with                    *)
(* MCA_BASE_VAR_TYPE_STRING although the storage is an int: the variable   *)
(* system stores a char * there, so the int holds 0 when the parameter is *)
(* unset (the default NULL) and the low bits of a pointer when it is set. *)
(* The latter is undefined behaviour and is modelled as any value of the  *)
(* constant set PointerBits.                                               *)
(***************************************************************************)
EXTENDS Integers

CONSTANTS
  PointerBits,   \* what the int may read after a char * was stored in it
  PropThreads,   \* values a caller may pass as num_worker_threads in props
  ParamThreads   \* worker counts a user may give the parameter, as text

VARIABLES
  phase,            \* "none", "registered", "available", "unavailable", "created"
  numWorkerThreads, \* the static num_worker_threads
  threadSafe,       \* the static thread_safe, sqlite3_threadsafe() in 0..2
  propThreads,      \* num_worker_threads in the props of create (-1: none)
  result,           \* what create returned: a module (ok) with nthreads, or NULL
  paramSet,         \* the user set the num_worker_threads parameter
  paramValue        \* the count the user wrote there (0 when unset)

vars == <<phase, numWorkerThreads, threadSafe, propThreads, result, paramSet, paramValue>>

TypeOK ==
  /\ phase \in {"none", "registered", "available", "unavailable", "created"}
  /\ numWorkerThreads \in Int
  /\ threadSafe \in 0..2
  /\ propThreads \in PropThreads
  /\ result \in [ok : BOOLEAN, nthreads : Int]
  /\ paramSet \in BOOLEAN
  /\ paramValue \in {0} \cup ParamThreads

Init ==
  /\ phase = "none"
  /\ numWorkerThreads = -1
  /\ threadSafe = 0
  /\ propThreads = -1
  /\ result = [ok |-> FALSE, nthreads |-> -1]
  /\ paramSet = FALSE
  /\ paramValue = 0

(* component_register: num_worker_threads = -1 is overwritten by the      *)
(* registration with the value of the string parameter: NULL when the     *)
(* user left it unset, else a pointer to the text of the count the user   *)
(* wrote, of which the int keeps some bits whatever the count.            *)
component_register ==
  /\ phase = "none"
  /\ \/ /\ numWorkerThreads' = 0
        /\ UNCHANGED <<paramSet, paramValue>>
     \/ /\ paramSet' = TRUE
        /\ paramValue' \in ParamThreads
        /\ numWorkerThreads' \in PointerBits
  /\ phase' = "registered"
  /\ UNCHANGED <<threadSafe, propThreads, result>>

(* component_avail: sqlite3_initialize may fail; otherwise thread_safe is *)
(* what sqlite3_threadsafe() reports for the library's build.              *)
component_avail ==
  /\ phase = "registered"
  /\ \/ phase' = "unavailable" /\ UNCHANGED threadSafe
     \/ phase' = "available" /\ threadSafe' \in 0..2
  /\ UNCHANGED <<numWorkerThreads, propThreads, result, paramSet, paramValue>>

(* The thread count component_create settles on: mod->nthreads starts at  *)
(* -1, takes num_worker_threads from the props, and is then overwritten.   *)
NThreads(prop) ==
  IF threadSafe # 0 THEN 1
  ELSE IF prop < 0 /\ 0 < numWorkerThreads THEN numWorkerThreads ELSE 1

(* component_create with some props: it opts out (returns NULL) when       *)
(* neither the props nor the parameter name a database file, or when the  *)
(* module's init fails; otherwise it returns the module.                   *)
component_create ==
  /\ phase = "available"
  /\ \E prop \in PropThreads, haveFile, initOk \in BOOLEAN :
       /\ propThreads' = prop
       /\ result' = [ok |-> haveFile /\ initOk, nthreads |-> NThreads(prop)]
  /\ phase' = "created"
  /\ UNCHANGED <<numWorkerThreads, threadSafe, paramSet, paramValue>>

(* After create (or a failed avail) the framework is done with the        *)
(* component: the behaviour ends there.                                    *)
Next == component_register \/ component_avail \/ component_create

Spec == Init /\ [][Next]_vars

-----------------------------------------------------------------------------
\* The module created.
Created == phase = "created" /\ result.ok

(* The parameter's help text, "Number of worker threads to be used": a    *)
(* created module runs one thread, or the number of worker threads the    *)
(* user gave the parameter, never a count the user did not write.          *)
ThreadsAsConfigured == Created /\ paramSet => result.nthreads \in {1, paramValue}

(* The comments at lines 80 and 97: worker threads are used if sqlite3 is *)
(* thread-safe, and not otherwise.  A created module of a thread-safe     *)
(* build uses the worker count given in the props (or, without one, the   *)
(* parameter); one of a build that is not thread-safe uses one thread.     *)
NThreadsAsDocumented ==
  Created =>
    IF threadSafe = 0 THEN result.nthreads = 1
    ELSE propThreads > 0 =>
           result.nthreads = propThreads
=============================================================================
