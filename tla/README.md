# TLA+ models of the ORCM scheduler engine, IPMI sensor (with FRU reading) and sqlite component

This directory holds TLA+ specifications of the code under `src/`, the TLC
configurations that model-check them, and TLAPS proofs. `PROJECT.json`
lists every component, run, mutant, finding, hazard and theorem, and maps
each definition to the source lines it models.

## The system and its parts

`src/` holds six files of the ORCM resource manager.

| Part | Source | What it does |
|---|---|---|
| Scheduler event engine | `scd/base/scd_base_frame.c` 42-173 | `orcm_scd_base_open` creates an event base, a never-written `block_pipe` and a progress thread that runs `while (ev_active) opal_event_loop(ev_base, ONCE)`. `orcm_scd_base_close` clears `ev_active`, calls loopbreak, joins the thread and frees the base. |
| Scheduler objects | `scd_base_frame.c` 52-55, 226-378 | Session ids (`last_session_id++`) and the constructors and destructors of alloc, job, step, session, queue, caddy and resource. |
| Sessions, queues, policy chain, node registry | not in the tree | Described by `spec.md` 3 and 4.2-4.5. They run as callbacks on the engine's progress thread. |
| IPMI FRU reading | `sensor_ipmi.c` 306-562 | At init, `orcm_sensor_get_fru_inv` asks each FRU device for its area size and `orcm_sensor_get_fru_data` reads the largest 16 bytes at a time into `rdata`, retrying failures, then parses the board area that the header's byte 3 locates. |
| IPMI sensor | `sensor/ipmi/sensor_ipmi.c` | Every daemon samples its BMC. A compute daemon's first sample carries its BMC credentials on the heartbeat to the aggregator. The aggregator's `ipmi_log` adds the sender to `sensor_active_hosts`. The aggregator then samples every listed BMC over the LAN and stores the samples through `orcm_db.store`, whose callback `mycleanup` turns logging off when a store fails. |
| sqlite db component | `db/sqlite/db_sqlite_component.c` | Registers parameters, tests sqlite, creates a module with a database file and a thread count. |
| pvsn interface, analytics average, sensor nodepower | `pvsn.h` and two component files | Interface types and MCA boilerplate with no state. |

The parts interact as follows:
- The engine's progress thread is the only thread that runs the scheduler callbacks that `ScdSession` models (spec 5).
- `orcm_scd_base_close` destroys the queues, and with them their sessions, after the join.
- The IPMI sensor writes to the database through a db module such as the sqlite one.
- The IPMI component's own progress thread is OPAL's `opal_start_progress_thread`, not this engine.

## Modules

### `ScdEngine` (with `MCScdEngine` and `ScdEngineProofs`)

**State.**
- The globals `ev_active`, `progress_thread_running` and `ev_base` (`"null"`, `"live"` or `"freed"`).
- A flag for a base that was overwritten or abandoned without being freed.
- libevent's break request, `event_break`.
- The base's active queue, as a sequence of the events other threads posted.
- A program counter for each of the two threads.

**Actions.**
- `orcm_scd_base_open`, one disjunct per outcome:
  - the components fail to open (line 115);
  - `pipe()` or cloexec fails after the base was created (135-147);
  - `opal_thread_start` fails (155);
  - success.
- Close:
  - `CloseBreak` and `CloseJoin` model lines 72-81;
  - `CloseNoThread` is the path taken when `progress_thread_running` is false.
- The progress thread:
  - `ProgressCheck` is the `while` test;
  - `LoopEnter`: entering `opal_event_loop` clears the break request;
  - `LoopDispatch` wakes on an active event or a break;
  - `CallbackReturn`: libevent checks the break after each callback, and ONCE returns when the queue is empty.
- `Post(e)`: another thread activates an event. The posting code is not in the tree.

**Fairness.** Weak fairness holds on the progress thread's steps and on the join: the OS schedules a runnable thread. Nothing obliges any thread to post an event or to call open or close.

**Refinement.** `ScdEngineAbstract` states what the engine promises its users (spec 4.1 and 5):
- open creates a base and may start one thread;
- that thread runs the callbacks of posted events one at a time, oldest first, and only on a live base;
- close asks it to stop and returns only when no callback runs, the base released.

`ScdEngine!Abstract` maps the engine onto it:
- `phase` is `"idle"` without a thread, `"running"` while `ev_active` holds and `"stopping"` after close cleared it;
- `alive` is a live `ev_base`;
- `queue` is the active queue;
- `busy` is a thread inside a callback.

`engine_safety` checks `EngineRefinesAbstract` (the abstract `Spec`), and `RefinementThm` proves it. Each outcome of open maps to one abstract step:
- a successful open is `Start`;
- an open that created the base and then failed at `pipe()` or the thread start is `Create`;
- an open whose components failed is a stutter.

### `ScdSession` (with `MCScdSession`, `ScdSessionProofs` and `ScdQueueProofs`)

**State.**
- Session slots, each with:
  - id, state and request;
  - whether it has a step, and that step's nodes;
  - the alloc's reference count.
- The queues, as sequences of slots.
- The queues left to visit in the current scheduling pass.
- Each node's state.
- A flag for an `OBJ_RELEASE` of an alloc that was already freed.

**From the source.**
- `NextSessionId` is `last_session_id++` in an `IdBits`-wide counter. The id type's header is not in the tree.
- `ReleaseSession` models what `sess_des`, `step_des` and `alloc_des` do when a session's last reference goes:
  - the alloc is released twice;
  - the node loop is empty.

  Whether the second release hits a freed alloc depends on whether a step `OBJ_RETAIN`s the alloc it keeps in `step->alloc`. The code that builds steps is not in the tree: nothing under `src/` assigns `step->alloc` or calls `OBJ_RETAIN`. The model therefore takes this as the constant `StepRetainsAlloc` and records a release of a freed alloc in `overReleased`, but no run checks it. The runs set `StepRetainsAlloc = TRUE`.

**From the spec** (marked `spec_modelled` in the map).
- `Submit`.
- The pass: `Wake` visits the queues in priority order, and `Offer` handles one queue's head per step.
- Claims by the policy chain, abstracted to "some module claims or none does".
- First-fit matching of `min_nodes..max_nodes`, preferring max, and the commit of the matched nodes (`CommitHead`). The exclusivity flag comes from the request.
- `TerminateSession`, for cancellation or the end of a job. It unlinks the session's list item with `RemoveFirst` (from `SequencesExt`), which removes the first position holding the slot. That is what `opal_list_remove_item` does to an item linked at most once. The earlier model filtered the queue with `SelectSeq`; it gives the same states but cannot be reasoned about without induction.

**Constants.** `SessionAssumption` states two facts the proofs need:
- `Requests # {}`, because a free slot's placeholder request is one of them;
- `2^IdBits > 0`, the modulus of the id counter. It follows from `IdBits \in Nat \ {0}`, but the provers cannot derive it without induction.

TLC evaluates both on every run.

**Concurrency.** Each action is one callback on the single progress thread, so actions do not interleave inside one another (spec 5).

### `IpmiSensor` (with `MCIpmiSensor` and `IpmiSensorProofs`)

**Nodes.** One aggregator and a set of compute daemons, some of which are not root.

**State per daemon.**
- Whether the sampler is armed.
- `disable_ipmi`.
- The static `timeout` of `collect_sample`.
- `count_log`, which saturates at `MaxCountLog` because it is only compared with 0.
- Counters of stops and restarts.
- The FIFO of heartbeat samples in flight to the aggregator.

**State of the aggregator.** `sensor_active_hosts` as a sequence, `log_enabled`, and whether a store's callback is outstanding.

**Actions.**
- `collect_sample`, split into:
  - `SampleNotRoot`: `geteuid() != 0`;
  - `SampleCredentials`: the `count_log == 0 && timeout < 3` branch;
  - `SampleHosts`.
- `ipmi_log`, split into:
  - `LogDropped`: `log_enabled` false or `disable_ipmi` set;
  - `LogCredentials`: `host_count == 0`, with `orcm_sensor_ipmi_found` and `addhost`;
  - `LogMetrics`.
- `mycleanup`, `stop` and `start`.
- Restarts of a compute daemon and of the aggregator. A restart re-runs `init` and loses the heartbeats in flight.

**Data abstraction.** A sample is "cred" (it names its sender) or "metrics". BMC addresses and metric values are not modelled.

**Fairness.**
- The sampler timer re-arms itself after each sample (`perthread_ipmi_sample`).
- The aggregator's event loop delivers every heartbeat.
- The database calls back every store.

Each of these gets weak fairness. Stops, starts and restarts do not.

### `IpmiFru` (with `MCIpmiFru` and `IpmiFruProofs`)

FRU contents are abstracted to positions. The block read from device offset `o` holds FRU bytes `o..o+15`, so `blocks` (the device offset of each block copied into `rdata`) says which FRU byte every `rdata` position holds. Only header byte 3, the board-area start `fruByte3`, has a value.

**State.** `max_id`, `max_fru_area`, the loop index `i`, `ffail_count`, `idata[1]` and `idata[2]` (`lsb`, `msb`), `rdata_offset`, `blocks`, the `unsigned char fru_offset`, and the result.

**Actions.**
- `FruInventory`: the `GET_FRU_INV_AREA` responses of every device (a failed command leaves the zeroed buffer), `fru_area` with the access-type byte at `<< 16` (`FruAreaOf`), the strict-maximum scan (`LargestArea`), and the `malloc` of the area, which may fail.
- `ReadBlock`: a successful `READ_FRU_DATA` at offset `idata[2] * 256 + idata[1]`, the copy at `rdata_offset`, and the carry at 240 (`NextLsb`, `NextMsb`).
- `ReadFail`: `i--; ffail_count++`, or `ORCM_ERROR` once `ffail_count > 15`.
- `ReadDone`: the loop ends after `fru_area / 16` blocks.
- `ParseBoard`: `fru_offset = rdata[3] * 8` modulo 256. `rdata[3]` is header byte 3 if a block was read, and otherwise the 0 of `memset(rdata, 0, sizeof(rdata))` (line 390), which clears only the size of a pointer. `localtime` and the four field `malloc`s may fail.

The function ends after the parse, so deadlock is not checked.

### `SqliteCreate` (with `MCSqliteCreate`)

- `component_register`: the `num_worker_threads` string parameter is stored into an `int`. Storing a `char *` there is undefined behaviour. The model lets the int hold 0 when the parameter is unset. When the user sets it to a count (`ParamThreads`, kept in `paramValue`), the int holds any value of `PointerBits`, whatever the count.
- `component_avail`: `sqlite3_threadsafe()` returns 0..2.
- `component_create`: the model enumerates its props and outcomes. `NThreads` is the thread-count computation at lines 113-145.
- The behaviour stops after create, so deadlock is not checked.

## Runs

| Run | Checks | Shows |
|---|---|---|
| `engine_safety` (pass) | `NoUseAfterFree`, `JoinOnlyStartedThread`, `EventsDispatched`, `EngineRefinesAbstract` | Over every failure path of open, repeated opens and closes, and two posters: the loop never runs on a freed base, close never joins a thread that was never started, active events are dispatched, and every behaviour is one of `ScdEngineAbstract`. |
| `engine_close_hang` (violation) | `CloseCompletes` | Close can hang for ever in the join. It sets `ev_active = false` and breaks the loop after the thread's `while` test but before `opal_event_loop` has cleared the break, so the thread blocks on the silent pipe. The run has no posting component (`Events = {}`), so the trace ends with the thread waiting in dispatch, with no event and no break, while close waits in the join. Deadlock is not checked, because that blocked state is the hang. |
| `engine_leak` (violation) | `EventBaseReleased` | An open that fails after `opal_event_base_create` leaves the base live. Close then skips the free. |
| `ipmi_registry` (pass) | `TypeOK`, `NoDuplicateHosts` | With failing stores, stops and restarts, no host is listed twice. |
| `ipmi_liveness` (pass) | `ComputesRegistered` | Without store failures or aggregator restarts, every root compute daemon ends up registered, through its own restarts and stops. |
| `ipmi_self_registration` (violation) | `AggregatorRegistered` | `count_log` counts logs of every daemon's samples, so the aggregator can skip its own credentials. |
| `ipmi_aggregator_restart` (violation) | `ComputesRegistered` | After the aggregator restarts, compute daemons that have disabled themselves never register again. |
| `sqlite_threads` (violation) | `ThreadsAsConfigured` | A user sets the parameter to 4, and the module of a build that is not thread-safe runs with the pointer's low bits as its thread count (3 in the trace), not 4. |
| `sqlite_threads_documented` (violation) | `NThreadsAsDocumented` | The thread-safe test is the reverse of the comments at lines 80 and 97. |
| `session_safety` (pass) | `NoDoubleAllocation`, `SessionInOneQueue` | Across two queues, three nodes, two live sessions and every interleaving of submit, pass, commit and terminate, no node goes to two live steps, and each pending session is linked exactly once into exactly one queue. |
| `session_node_release` (violation) | `NodesReflectSteps` | The empty node loop of `step_des` leaves released nodes allocated. |
| `fru_board_offset` (violation) | `ParsedAtBoardArea` | A FRU read that returns success can parse the board area away from `8 * header[3]`. When no inventory command succeeds, `fru_area` is 0 and the parse reads bytes that were never read. When the board area starts at byte 256 or later, the `unsigned char fru_offset` wraps. |

Each property of a passing run has a mutant in `PROJECT.json`: a plausible bug in a mapped definition that TLC then catches. The type invariants of the engine and of the sessions are not run properties: no bug of the code can break them. They are proved instead (`TypeCorrect`, `ScdQueueProofs!TypeOKThm`).

## Bounds and why they are enough

- **Engine.** Two events and all three open-failure kinds. `engine_close_hang` has no events: it asks what close does when no component posts.
  - Every ordering of the two threads around the break is reached: the break before the test, between the test and the loop, or during wait or a callback.
  - Two events are enough for FIFO dispatch behind another event.
- **Sessions.** Three nodes, two queues and two live sessions.
  - The requests are 1..2 shared and 2..3 exclusive, so a match can take max, take fewer than max, or fail.
  - Two sessions can compete for the same nodes.
  - The id counter is 2 bits wide, so it wraps within the runs. No run checks that ids stay unique across a wrap, since a real wrap needs 2^w submissions.
- **IPMI.**
  - An aggregator and two compute daemons, one of them not root.
  - Two heartbeats in flight per daemon.
  - One stop per daemon and one restart per compute daemon; `ipmi_aggregator_restart` also allows one aggregator restart.
  - These bounds reach the orders that matter: a compute daemon's credentials logged before or after the aggregator's own, a restart between a send and its log, and a repeated credential sample.
- **FRU.** Two devices; areas of 0, 48 and 272 bytes; board areas at bytes 8 and 256.
  - The 272-byte area takes 17 blocks, so the read crosses the carry from `idata[1]` into `idata[2]`. It also gets through up to 16 failures before the 17th gives up.
  - A 0-byte area is what every failed inventory command leaves.
  - A board area at 256 makes the `fru_offset` wrap.
  - The wrap of the 16-bit offset at 65536 takes 4096 reads. It is left to `ReadAddressingThm`.
- **sqlite.** Pointer low bits are negative, zero, small or large. Prop counts are -1 (or absent), 0, 1 and 4. The parameter, when set, is 4.

## What is proved

`ScdEngineProofs` proves the following with TLAPS, for every set of events and open failures:
- `TypeCorrect`: `Spec => []TypeOK`.
- `NoUseAfterFreeThm`: `Spec => []NoUseAfterFree`.
- `JoinOnlyStartedThreadThm`: `Spec => []JoinOnlyStartedThread`.

None of these invariants is inductive by itself. The proofs rest on the inductive invariant `EngineInv`, which TLC also checks on `engine_safety`'s state space. It adds:
- a thread exists exactly while `progress_thread_running` is set;
- the flag is only set while the caller is open or joining;
- a joining caller implies the flag is set;
- a thread that has not been joined still has a live base.

Without these facts, a close step would appear able to free the base under a running thread.

`ScdEngineProofs` also holds lemmas about `Append` and `Tail` that keep the active queue injective. Each theorem follows from `InitEngineInv`, `NextEngineInv` (one case per action, and one per outcome of open) and `PTL`.

`RefinementThm` (`Spec => EngineRefinesAbstract`) rests on `RefineInv`. It strengthens `EngineInv` with two facts:
- the caller is open only while `ev_active` holds;
- an exited thread has seen `ev_active` false.

These two facts map a join to the abstract `Stopped` step and an exit to a stutter. The proof has three parts: `InitRefines` (initial states map to `Abstract!Init`), `NextRefines` (one case per action; every step maps to an abstract step or a stutter) and PTL.

`IpmiFruProofs` proves `ReadAddressingThm`: `FruSpec => []ReadAddressing` for every device count, area and sequence of failures. For each block `k` copied into `rdata`, the device offset it came from is `16 * (k - 1)` modulo 65536, and `rdata_offset = 16 * i`. The inductive invariant `AddrInv` adds two facts to `ReadAddressing`: the types of the loop variables, and that `idata[1]` is one of `0, 16, ..., 240`. The second fact is what makes the carry at 240 exact. The step that needs arithmetic is `ReadBlock`: the carry at 240 adds 16 to the offset modulo 65536. Its proof splits on the carry and on `idata[2] = 255` and cites `AppendProperties`. It shows two things: a retry moves neither offset, and blocks past 64KiB re-read the device from offset 0.

`ScdSessionProofs` proves a theorem for every number of nodes, every queue order, every set of requests and every number of session slots.

`NoDoubleAllocationThm` is `Spec => []NoDoubleAllocation`. `NoDoubleAllocation` is not inductive by itself: a commit must know that the nodes it takes are held by no live step. The inductive invariant `AllocInv` adds `HeldCommitted`: every node a live step holds is `ALLOC` or `EXCLUSIVE` in the registry. `find_candidates` only offers `UNALLOC` nodes, so the first-fit nodes of a commit are disjoint from every live step's nodes. There is one lemma per action:
- `CommitAllocInv` covers `CommitHead`;
- `DiscoverAllocInv` covers discovery, which only moves `UNKNOWN` nodes, so the committed set does not change;
- `TerminateAllocInv` covers termination, which drops the slot's step and changes no node state;
- `FrameAllocInv` covers the steps that leave steps and nodes alone.

TLC checked `AllocInv` as an invariant on `session_safety`'s instance before it was proved.

`IpmiSensorProofs` proves `TypeOKThm` (`Spec => []TypeOK`) and `NoDuplicateHostsThm` (`Spec => []NoDuplicateHosts`) for every set of daemons, every set of non-root daemons and every bound. The two are proved together through `IInv == TypeOK /\ NoDuplicateHosts`, the invariants of `ipmi_registry`. Each counter is bounded by the guard of the step that moves it:
- `timeout` moves only in the credential branch, which requires `timeout < 3`;
- `count_log` saturates;
- `stops` and `restarts` stay below their bounds.

`sensor_active_hosts` grows only by the found-or-add of `ipmi_log`. The lemma `AppendKeepsInjective` shows that appending a node that is not found keeps the list injective. An aggregator restart empties the list.

`ScdQueueProofs` proves two more theorems about the session model, for every value of its constants.
- `SessionInOneQueueThm`: `Spec => []SessionInOneQueue`.
- `TypeOKThm`: `Spec => []TypeOK`.

`SessionInOneQueue` is not inductive, because a count of positions says nothing about where a submit may link. The inductive invariant `QueueInv` states four things:
- the queue and pass types;
- each queue is injective;
- two queues share no slot;
- a slot is in some queue exactly when it is pending (in use, in `INIT` or `SCHEDULE`).

There is one lemma per action. Submit appends a free slot, which is in no queue because it is not pending. A commit takes the head off with `Tail`. Termination removes the slot with `RemoveFirst`. From `QueueInv`, injectivity makes the set of positions holding a pending slot a singleton (`FS_Singleton`).

`TypeOKThm` combines `AllocInv`, `QueueInv` and `IdInv`. `IdInv` types `lastId`, `sid`, `req` and `overReleased`; `NextSessionIdType` shows that `(lastId + 1) % 2^IdBits` stays in `0..2^IdBits - 1`.

TLC checked `QueueInv` as an invariant on `session_safety`'s instance before it was proved.

`SeqLemmas` holds the sequence lemmas these proofs and `IpmiSensorProofs` cite:
- `AppendKeepsInjective` and `AppendRange`;
- `TailInjective`;
- `RemoveAtProperties` and `RemoveFirstInjective`: removal keeps the type and injectivity, and removes exactly one element from the range.

**Only model-checked.** TLAPS cannot prove liveness under fairness, or anything about ENABLED, so the following are checked only by TLC:
- `EventsDispatched`;
- `CloseCompletes`;
- the IPMI registration properties.

## Not modelled

- The BMC I/O of the IPMI sensor (`get_bmc_cred`, `exec_call`, the `ipmi_cmd` calls of FRU reading) and the string fields of the FRU board area.
- The IPMI inventory comparison. It is planned.
- The test-vector modes.
- The parameter registration of the scheduler framework.
- `orcm_scd_state_to_str`.
- The pvsn interface.
- The two boilerplate components.

## Plan for later work

1. An `IpmiInventory` module for `ipmi_inventory_collect`, `ipmi_inventory_log` and `compare_ipmi_record`. It would check that the stored inventory of each host equals its last report.
2. A composition of the engine with sessions, so that teardown order at close is modelled.
3. A run on session-id reuse: `last_session_id++` wraps at the width of the id type (scd_base_frame.c:53), so a long-lived session can share its id with a new one.
