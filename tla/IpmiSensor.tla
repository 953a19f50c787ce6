----------------------------- MODULE IpmiSensor -----------------------------
(***************************************************************************)
(* The IPMI sensor component (src/orcm/mca/sensor/ipmi/sensor_ipmi.c): how *)
(* the aggregator learns which BMCs to sample.                             *)
(*                                                                         *)
(* Every ORCM daemon runs the component.  Its sampler fires collect_sample *)
(* periodically.  The first samples of a daemon carry its BMC credentials  *)
(* (host_count = 0); a compute daemon then disables the component, while  *)
(* the aggregator goes on to sample, over the LAN, every host of its list  *)
(* sensor_active_hosts.  The sample buffers travel on the daemon's        *)
(* heartbeat to the aggregator, whose ipmi_log adds the sender to          *)
(* sensor_active_hosts when it carries credentials, and stores every       *)
(* sample in the database; the store's callback mycleanup turns logging   *)
(* off when a store fails.                                                 *)
(*                                                                         *)
(* Data is abstracted to what the registry tells apart: a credential      *)
(* sample names its sender, a metrics sample is only "metrics".            *)
(***************************************************************************)
EXTENDS Naturals, Sequences, Functions

CONSTANTS
  Aggregator,      \* the daemon for which ORTE_PROC_IS_AGGREGATOR holds
  Computes,        \* the compute daemons
  NonRoot,         \* daemons whose geteuid() is not 0
  DbFails,         \* whether orcm_db.store may report a failure to mycleanup
  ChanBound,       \* bound on heartbeats in flight from one daemon
  MaxCountLog,     \* count_log saturates here (it is only compared with 0)
  MaxStops,        \* bound on stop() calls per daemon
  MaxRestarts,     \* bound on restarts of each compute daemon
  MaxAggRestarts   \* bound on restarts of the aggregator

Nodes == {Aggregator} \cup Computes

ASSUME IpmiAssumption ==
  /\ Aggregator \notin Computes
  /\ NonRoot \subseteq Nodes
  /\ DbFails \in BOOLEAN
  /\ ChanBound \in Nat \ {0}
  /\ MaxCountLog \in Nat \ {0}
  /\ {MaxStops, MaxRestarts, MaxAggRestarts} \subseteq Nat

VARIABLES
  sampling,      \* the daemon's sampler timer is armed (start ran, no stop since)
  disableIpmi,   \* disable_ipmi of each daemon
  timeout,       \* the static timeout of collect_sample: credential samples sent
  countLog,      \* count_log of each daemon
  stops,         \* stop() calls so far (bounded)
  restarts,      \* restarts so far of each daemon (bounded)
  chan,          \* heartbeats from each daemon to the aggregator, in order
  hosts,         \* the aggregator's sensor_active_hosts, in list order
  logEnabled,    \* the aggregator's log_enabled
  dbOutstanding  \* a store was issued whose mycleanup has not yet run

vars == <<sampling, disableIpmi, timeout, countLog, stops, restarts, chan,
          hosts, logEnabled, dbOutstanding>>

\* A sample buffer: BMC credentials (host_count = 0) or host metrics.
Samples == {"cred", "metrics"}

\* The node is in the aggregator's sensor_active_hosts.
Registered(n) == n \in Range(hosts)

Sat(k) == IF k < MaxCountLog THEN k + 1 ELSE k

TypeOK ==
  /\ sampling \in [Nodes -> BOOLEAN]
  /\ disableIpmi \in [Nodes -> BOOLEAN]
  /\ timeout \in [Nodes -> 0..3]
  /\ countLog \in [Nodes -> 0..MaxCountLog]
  /\ stops \in [Nodes -> 0..MaxStops]
  /\ restarts \in [Nodes -> Nat]
  /\ chan \in [Nodes -> Seq(Samples)]
  /\ hosts \in Seq(Nodes)
  /\ logEnabled \in BOOLEAN
  /\ dbOutstanding \in BOOLEAN

(* A daemon after init() succeeded and start() armed its sampler: static  *)
(* and file-scope variables have their initial values.                     *)
Init ==
  /\ sampling = [n \in Nodes |-> TRUE]
  /\ disableIpmi = [n \in Nodes |-> FALSE]
  /\ timeout = [n \in Nodes |-> 0]
  /\ countLog = [n \in Nodes |-> 0]
  /\ stops = [n \in Nodes |-> 0]
  /\ restarts = [n \in Nodes |-> 0]
  /\ chan = [n \in Nodes |-> <<>>]
  /\ hosts = <<>>
  /\ logEnabled = TRUE
  /\ dbOutstanding = FALSE

-----------------------------------------------------------------------------
(* collect_sample, credential branch (count_log == 0 && timeout < 3).     *)
(* A daemon that is not root gives up for good (timeout = 3).  Otherwise   *)
(* timeout is incremented, the credentials go into the bucket that the     *)
(* heartbeat carries, and a compute daemon sets disable_ipmi.              *)
SampleNotRoot(n) ==
  /\ n \in NonRoot
  /\ timeout' = [timeout EXCEPT ![n] = 3]
  /\ UNCHANGED <<disableIpmi, chan>>

SampleCredentials(n) ==
  /\ n \notin NonRoot
  /\ Len(chan[n]) < ChanBound
  /\ timeout' = [timeout EXCEPT ![n] = @ + 1]
  /\ chan' = [chan EXCEPT ![n] = Append(@, "cred")]
  /\ disableIpmi' = [disableIpmi EXCEPT ![n] = (n # Aggregator)]

(* collect_sample past the credential branch: the hosts of                *)
(* sensor_active_hosts are sampled and sent as one buffer; with no host    *)
(* the function returns without sending.  Only the aggregator's ipmi_log   *)
(* adds hosts, so only its list is ever non-empty.                         *)
SampleHosts(n) ==
  /\ IF n = Aggregator /\ hosts # <<>>
       THEN /\ Len(chan[n]) < ChanBound
            /\ chan' = [chan EXCEPT ![n] = Append(@, "metrics")]
       ELSE UNCHANGED chan
  /\ UNCHANGED <<disableIpmi, timeout>>

\* Mutant: the credential branch taken while timeout <= 3.
collect_sampleOffByOne(n) ==
  /\ sampling[n]
  /\ ~disableIpmi[n]
  /\ IF countLog[n] = 0 /\ timeout[n] <= 3
       THEN SampleNotRoot(n) \/ SampleCredentials(n)
       ELSE SampleHosts(n)
  /\ UNCHANGED <<sampling, countLog, stops, restarts, hosts, logEnabled, dbOutstanding>>

(* collect_sample as the sampler timer runs it (perthread_ipmi_sample),   *)
(* on a daemon whose component is not disabled.                            *)
collect_sample(n) ==
  /\ sampling[n]
  /\ ~disableIpmi[n]
  /\ IF countLog[n] = 0 /\ timeout[n] < 3
       THEN SampleNotRoot(n) \/ SampleCredentials(n)
       ELSE SampleHosts(n)
  /\ UNCHANGED <<sampling, countLog, stops, restarts, hosts, logEnabled, dbOutstanding>>

-----------------------------------------------------------------------------
(* ipmi_log on the aggregator for the next heartbeat of daemon n.  With   *)
(* log_enabled false or disable_ipmi set the sample is dropped unread.    *)
(* Otherwise count_log is incremented and the sample stored.  A           *)
(* credential sample adds its sender to sensor_active_hosts unless         *)
(* orcm_sensor_ipmi_found already finds it there.                          *)
LogDropped(n) ==
  /\ ~logEnabled \/ disableIpmi[Aggregator]
  /\ UNCHANGED <<countLog, hosts, dbOutstanding>>

\* Mutant: orcm_sensor_ipmi_addhost without the orcm_sensor_ipmi_found test.
LogCredentialsUnchecked(n) ==
  /\ logEnabled /\ ~disableIpmi[Aggregator]
  /\ Head(chan[n]) = "cred"
  /\ countLog' = [countLog EXCEPT ![Aggregator] = Sat(@)]
  /\ hosts' = Append(hosts, n)
  /\ dbOutstanding' = TRUE

\* Mutant: the found test inverted.
LogCredentialsInverted(n) ==
  /\ logEnabled /\ ~disableIpmi[Aggregator]
  /\ Head(chan[n]) = "cred"
  /\ countLog' = [countLog EXCEPT ![Aggregator] = Sat(@)]
  /\ hosts' = IF Registered(n) THEN Append(hosts, n) ELSE hosts
  /\ dbOutstanding' = TRUE

LogCredentials(n) ==
  /\ logEnabled /\ ~disableIpmi[Aggregator]
  /\ Head(chan[n]) = "cred"
  /\ countLog' = [countLog EXCEPT ![Aggregator] = Sat(@)]
  /\ hosts' = IF Registered(n) THEN hosts ELSE Append(hosts, n)
  /\ dbOutstanding' = TRUE

(* host_count > 0: one store per host sampled.                             *)
LogMetrics(n) ==
  /\ logEnabled /\ ~disableIpmi[Aggregator]
  /\ Head(chan[n]) = "metrics"
  /\ countLog' = [countLog EXCEPT ![Aggregator] = Sat(@)]
  /\ dbOutstanding' = TRUE
  /\ UNCHANGED hosts

ipmi_log(n) ==
  /\ chan[n] # <<>>
  /\ chan' = [chan EXCEPT ![n] = Tail(@)]
  /\ LogDropped(n) \/ LogCredentials(n) \/ LogMetrics(n)
  /\ UNCHANGED <<sampling, disableIpmi, timeout, stops, restarts, logEnabled>>

(* mycleanup, the callback of orcm_db.store: a failed store turns logging *)
(* off for good.                                                           *)
mycleanup ==
  /\ dbOutstanding
  /\ dbOutstanding' = FALSE
  /\ \/ UNCHANGED logEnabled
     \/ DbFails /\ logEnabled' = FALSE
  /\ UNCHANGED <<sampling, disableIpmi, timeout, countLog, stops, restarts, chan, hosts>>

-----------------------------------------------------------------------------
(* stop(): count_log is reset and the sampler thread stopped; disable_ipmi *)
(* and the static timeout keep their values.  start() arms the sampler     *)
(* again (the sensor base calls it after init or after stop).              *)
stop(n) ==
  /\ stops[n] < MaxStops
  /\ stops' = [stops EXCEPT ![n] = @ + 1]
  /\ countLog' = [countLog EXCEPT ![n] = 0]
  /\ sampling' = [sampling EXCEPT ![n] = FALSE]
  /\ UNCHANGED <<disableIpmi, timeout, restarts, chan, hosts, logEnabled, dbOutstanding>>

start(n) ==
  /\ ~sampling[n]
  /\ sampling' = [sampling EXCEPT ![n] = TRUE]
  /\ UNCHANGED <<disableIpmi, timeout, countLog, stops, restarts, chan, hosts,
                 logEnabled, dbOutstanding>>

(* A compute daemon is killed and started again (the case the comment in  *)
(* ipmi_log has in mind): heartbeats it had not yet delivered are lost,    *)
(* init() clears disable_ipmi and the process starts with fresh statics.   *)
ComputeRestart(n) ==
  /\ restarts[n] < MaxRestarts
  /\ restarts' = [restarts EXCEPT ![n] = @ + 1]
  /\ sampling' = [sampling EXCEPT ![n] = TRUE]
  /\ disableIpmi' = [disableIpmi EXCEPT ![n] = FALSE]
  /\ timeout' = [timeout EXCEPT ![n] = 0]
  /\ countLog' = [countLog EXCEPT ![n] = 0]
  /\ chan' = [chan EXCEPT ![n] = <<>>]
  /\ UNCHANGED <<stops, hosts, logEnabled, dbOutstanding>>

(* The aggregator is killed and started again: its sensor_active_hosts,   *)
(* log_enabled and statics start afresh and heartbeats in flight to it    *)
(* are lost.                                                               *)
AggregatorRestart ==
  /\ restarts[Aggregator] < MaxAggRestarts
  /\ restarts' = [restarts EXCEPT ![Aggregator] = @ + 1]
  /\ sampling' = [sampling EXCEPT ![Aggregator] = TRUE]
  /\ disableIpmi' = [disableIpmi EXCEPT ![Aggregator] = FALSE]
  /\ timeout' = [timeout EXCEPT ![Aggregator] = 0]
  /\ countLog' = [countLog EXCEPT ![Aggregator] = 0]
  /\ chan' = [n \in Nodes |-> <<>>]
  /\ hosts' = <<>>
  /\ logEnabled' = TRUE
  /\ dbOutstanding' = FALSE
  /\ UNCHANGED stops

-----------------------------------------------------------------------------
Next ==
  \/ \E n \in Nodes : collect_sample(n) \/ ipmi_log(n) \/ stop(n) \/ start(n)
  \/ mycleanup
  \/ \E n \in Computes : ComputeRestart(n)
  \/ AggregatorRestart

(* The sampler timer re-arms itself after every sample, the aggregator's  *)
(* event loop delivers every heartbeat and the database calls back every   *)
(* store.  stop, start and restarts happen or not.                        *)
Fairness ==
  /\ \A n \in Nodes : WF_vars(collect_sample(n)) /\ WF_vars(ipmi_log(n))
  /\ WF_vars(mycleanup)

Spec == Init /\ [][Next]_vars /\ Fairness

-----------------------------------------------------------------------------
(* The found-or-add of ipmi_log (lines 1468-1479): however often a daemon *)
(* sends its credentials (three samples on the aggregator before its own  *)
(* first log, again after a restart or a stop), sensor_active_hosts never *)
(* holds a node twice, so no BMC is sampled twice per round.               *)
NoDuplicateHosts == IsInjective(hosts)

(* A root compute daemon whose sampler keeps running is eventually in the *)
(* aggregator's sensor_active_hosts for good: its one credential sample   *)
(* reaches ipmi_log and is not lost with a restart.                        *)
ComputesRegistered ==
  \A n \in Computes \ NonRoot : <>[]sampling[n] => <>[]Registered(n)

(* The comment at line 943: the first sample of a daemon carries its LAN  *)
(* credentials.  So the root aggregator, sampling for good, eventually    *)
(* has itself in its own sensor_active_hosts.                              *)
AggregatorRegistered ==
  Aggregator \notin NonRoot =>
    (<>[]sampling[Aggregator] => <>[]Registered(Aggregator))

=============================================================================
