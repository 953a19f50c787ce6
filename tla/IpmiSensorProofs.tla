-------------------------- MODULE IpmiSensorProofs --------------------------
(***************************************************************************)
(* Proofs about the IPMI sensor component (IpmiSensor).                    *)
(*                                                                         *)
(* TypeOK is inductive: every counter the component keeps is bounded by   *)
(* the guard of the step that moves it (timeout < 3 in the credential     *)
(* branch, count_log saturated, stops and restarts below their bounds).   *)
(*                                                                         *)
(* NoDuplicateHosts is inductive given TypeOK: sensor_active_hosts only   *)
(* grows by the found-or-add of ipmi_log, which appends a node that it    *)
(* does not find, and only shrinks when the aggregator restarts with an   *)
(* empty list.                                                             *)
(***************************************************************************)
EXTENDS IpmiSensor, SeqLemmas

-----------------------------------------------------------------------------
LEMMA InitTypeOK == Init => TypeOK
<1> SUFFICES ASSUME Init PROVE TypeOK
  OBVIOUS
<1>1. /\ sampling \in [Nodes -> BOOLEAN] /\ disableIpmi \in [Nodes -> BOOLEAN]
      /\ timeout \in [Nodes -> 0..3] /\ countLog \in [Nodes -> 0..MaxCountLog]
      /\ stops \in [Nodes -> 0..MaxStops] /\ restarts \in [Nodes -> Nat]
  BY IpmiAssumption DEF Init
<1>2. chan \in [Nodes -> Seq(Samples)] /\ hosts \in Seq(Nodes)
  BY DEF Init
<1>3. logEnabled \in BOOLEAN /\ dbOutstanding \in BOOLEAN
  BY Zenon DEF Init
<1>. QED  BY <1>1, <1>2, <1>3 DEF TypeOK

\* The inductive invariant: the types, and no node twice in the host list.
IInv == TypeOK /\ NoDuplicateHosts

LEMMA InitIInv == Init => IInv
<1>1. Init => IsInjective(hosts)
  BY DEF Init, IsInjective
<1>. QED  BY InitTypeOK, <1>1 DEF IInv, NoDuplicateHosts

(* collect_sample moves timeout in the credential branch only while it is *)
(* below 3, and appends one sample to its own heartbeat channel.           *)
LEMMA CollectIInv ==
  ASSUME IInv, NEW n \in Nodes, collect_sample(n)
  PROVE  IInv'
<1>1. UNCHANGED <<sampling, countLog, stops, restarts, hosts, logEnabled, dbOutstanding>>
  BY DEF collect_sample
<1>2. CASE countLog[n] = 0 /\ timeout[n] < 3 /\ SampleNotRoot(n)
  <2>1. timeout' \in [Nodes -> 0..3] /\ UNCHANGED <<disableIpmi, chan>>
    BY <1>2 DEF SampleNotRoot, IInv, TypeOK
  <2>. QED  BY <1>1, <2>1 DEF IInv, TypeOK, NoDuplicateHosts
<1>3. CASE countLog[n] = 0 /\ timeout[n] < 3 /\ SampleCredentials(n)
  <2>1. timeout' \in [Nodes -> 0..3]
    <3>1. timeout \in [Nodes -> 0..3]
      BY DEF IInv, TypeOK
    <3>2. timeout[n] + 1 \in 0..3
      BY <1>3, <3>1
    <3>3. timeout' = [timeout EXCEPT ![n] = timeout[n] + 1]
      BY <1>3 DEF SampleCredentials
    <3>. QED  BY <3>1, <3>2, <3>3
  <2>2. disableIpmi' \in [Nodes -> BOOLEAN]
    BY <1>3 DEF SampleCredentials, IInv, TypeOK
  <2>3. Append(chan[n], "cred") \in Seq(Samples)
    BY AppendProperties DEF IInv, TypeOK, Samples
  <2>4. chan' \in [Nodes -> Seq(Samples)]
    BY <1>3, <2>3 DEF SampleCredentials, IInv, TypeOK
  <2>. QED  BY <1>1, <2>1, <2>2, <2>4 DEF IInv, TypeOK, NoDuplicateHosts
<1>4. CASE ~(countLog[n] = 0 /\ timeout[n] < 3) /\ SampleHosts(n)
  <2>1. UNCHANGED <<disableIpmi, timeout>>
    BY <1>4 DEF SampleHosts
  <2>2. Append(chan[n], "metrics") \in Seq(Samples)
    BY AppendProperties DEF IInv, TypeOK, Samples
  <2>3. chan' \in [Nodes -> Seq(Samples)]
    BY <1>4, <2>2 DEF SampleHosts, IInv, TypeOK
  <2>. QED  BY <1>1, <2>1, <2>3 DEF IInv, TypeOK, NoDuplicateHosts
<1>. QED  BY <1>2, <1>3, <1>4 DEF collect_sample

\* The saturated count_log increment stays within 0..MaxCountLog.
LEMMA SatType ==
  ASSUME NEW k \in 0..MaxCountLog
  PROVE  Sat(k) \in 0..MaxCountLog
BY IpmiAssumption DEF Sat

(* ipmi_log consumes the head of a heartbeat channel; a credential sample *)
(* appends its sender to sensor_active_hosts only when it is not found.   *)
LEMMA LogIInv ==
  ASSUME IInv, NEW n \in Nodes, ipmi_log(n)
  PROVE  IInv'
<1>1. /\ chan[n] \in Seq(Samples) /\ chan[n] # <<>>
      /\ hosts \in Seq(Nodes) /\ Aggregator \in Nodes
      /\ countLog[Aggregator] \in 0..MaxCountLog
  BY DEF ipmi_log, IInv, TypeOK, Nodes
<1>2. Tail(chan[n]) \in Seq(Samples)
  BY <1>1, HeadTailProperties
<1>3. chan' \in [Nodes -> Seq(Samples)]
  BY <1>2 DEF ipmi_log, IInv, TypeOK
<1>4. UNCHANGED <<sampling, disableIpmi, timeout, stops, restarts, logEnabled>>
  BY DEF ipmi_log
<1>5. Sat(countLog[Aggregator]) \in 0..MaxCountLog
  BY <1>1, SatType
<1>6. [countLog EXCEPT ![Aggregator] = Sat(@)] \in [Nodes -> 0..MaxCountLog]
  BY <1>5 DEF IInv, TypeOK
<1>7. CASE LogDropped(n)
  BY <1>3, <1>4, <1>7 DEF LogDropped, IInv, TypeOK, NoDuplicateHosts
<1>8. CASE LogCredentials(n)
  <2>1. countLog' \in [Nodes -> 0..MaxCountLog] /\ dbOutstanding' \in BOOLEAN
    BY <1>6, <1>8 DEF LogCredentials
  <2>2. CASE Registered(n)
    BY <1>3, <1>4, <1>8, <2>1, <2>2 DEF LogCredentials, IInv, TypeOK, NoDuplicateHosts
  <2>3. CASE ~Registered(n)
    <3>1. hosts' = Append(hosts, n)
      BY <1>8, <2>3 DEF LogCredentials
    <3>2. hosts' \in Seq(Nodes) /\ IsInjective(hosts')
      BY <1>1, <2>3, <3>1, AppendProperties, AppendKeepsInjective
         DEF Registered, IInv, NoDuplicateHosts
    <3>. QED  BY <1>3, <1>4, <2>1, <3>2 DEF IInv, TypeOK, NoDuplicateHosts
  <2>. QED  BY <2>2, <2>3
<1>9. CASE LogMetrics(n)
  <2>1. countLog' \in [Nodes -> 0..MaxCountLog] /\ dbOutstanding' \in BOOLEAN
    BY <1>6, <1>9 DEF LogMetrics
  <2>. QED  BY <1>3, <1>4, <1>9, <2>1 DEF LogMetrics, IInv, TypeOK, NoDuplicateHosts
<1>. QED  BY <1>7, <1>8, <1>9 DEF ipmi_log

LEMMA CleanupIInv ==
  ASSUME IInv, mycleanup
  PROVE  IInv'
<1>1. logEnabled' \in BOOLEAN /\ dbOutstanding' \in BOOLEAN
  BY Zenon DEF mycleanup, IInv, TypeOK
<1>. QED  BY <1>1 DEF mycleanup, IInv, TypeOK, NoDuplicateHosts

LEMMA StopStartIInv ==
  ASSUME IInv, NEW n \in Nodes, stop(n) \/ start(n)
  PROVE  IInv'
<1>1. CASE stop(n)
  <2>1. /\ stops \in [Nodes -> 0..MaxStops] /\ countLog \in [Nodes -> 0..MaxCountLog]
        /\ sampling \in [Nodes -> BOOLEAN]
    BY DEF IInv, TypeOK
  <2>2. stops[n] + 1 \in 0..MaxStops
    <3>1. stops[n] < MaxStops /\ stops[n] \in 0..MaxStops
      BY <1>1, <2>1 DEF stop
    <3>. QED  BY <3>1, IpmiAssumption
  <2>3. /\ stops' = [stops EXCEPT ![n] = stops[n] + 1]
        /\ countLog' = [countLog EXCEPT ![n] = 0]
        /\ sampling' = [sampling EXCEPT ![n] = FALSE]
    BY <1>1 DEF stop
  <2>4. 0 \in 0..MaxCountLog
    BY IpmiAssumption
  <2>5. /\ stops' \in [Nodes -> 0..MaxStops]
        /\ countLog' \in [Nodes -> 0..MaxCountLog]
        /\ sampling' \in [Nodes -> BOOLEAN]
    BY <2>1, <2>2, <2>3, <2>4
  <2>. QED  BY <1>1, <2>5 DEF stop, IInv, TypeOK, NoDuplicateHosts
<1>2. CASE start(n)
  BY <1>2 DEF start, IInv, TypeOK, NoDuplicateHosts
<1>. QED  BY <1>1, <1>2

(* A restarted compute daemon starts with fresh statics and an empty     *)
(* channel; the aggregator's host list is left alone.                      *)
LEMMA ComputeRestartIInv ==
  ASSUME IInv, NEW n \in Computes, ComputeRestart(n)
  PROVE  IInv'
<1>1. n \in Nodes
  BY DEF Nodes
<1>2. /\ restarts' \in [Nodes -> Nat] /\ sampling' \in [Nodes -> BOOLEAN]
      /\ disableIpmi' \in [Nodes -> BOOLEAN] /\ timeout' \in [Nodes -> 0..3]
      /\ countLog' \in [Nodes -> 0..MaxCountLog]
  <2>1. /\ restarts \in [Nodes -> Nat] /\ sampling \in [Nodes -> BOOLEAN]
        /\ disableIpmi \in [Nodes -> BOOLEAN] /\ timeout \in [Nodes -> 0..3]
        /\ countLog \in [Nodes -> 0..MaxCountLog]
    BY DEF IInv, TypeOK
  <2>2. /\ restarts' = [restarts EXCEPT ![n] = restarts[n] + 1]
        /\ sampling' = [sampling EXCEPT ![n] = TRUE]
        /\ disableIpmi' = [disableIpmi EXCEPT ![n] = FALSE]
        /\ timeout' = [timeout EXCEPT ![n] = 0]
        /\ countLog' = [countLog EXCEPT ![n] = 0]
    BY DEF ComputeRestart
  <2>3. restarts[n] + 1 \in Nat /\ 0 \in 0..MaxCountLog
    BY <1>1, <2>1, IpmiAssumption
  <2>. QED  BY <1>1, <2>1, <2>2, <2>3
<1>3. chan' \in [Nodes -> Seq(Samples)]
  BY <1>1 DEF ComputeRestart, IInv, TypeOK
<1>. QED  BY <1>2, <1>3 DEF ComputeRestart, IInv, TypeOK, NoDuplicateHosts

(* A restarted aggregator starts with an empty sensor_active_hosts.       *)
LEMMA AggregatorRestartIInv ==
  ASSUME IInv, AggregatorRestart
  PROVE  IInv'
<1>1. Aggregator \in Nodes
  BY DEF Nodes
<1>2. /\ restarts' \in [Nodes -> Nat] /\ sampling' \in [Nodes -> BOOLEAN]
      /\ disableIpmi' \in [Nodes -> BOOLEAN] /\ timeout' \in [Nodes -> 0..3]
      /\ countLog' \in [Nodes -> 0..MaxCountLog]
  <2>1. /\ restarts \in [Nodes -> Nat] /\ sampling \in [Nodes -> BOOLEAN]
        /\ disableIpmi \in [Nodes -> BOOLEAN] /\ timeout \in [Nodes -> 0..3]
        /\ countLog \in [Nodes -> 0..MaxCountLog]
    BY DEF IInv, TypeOK
  <2>2. /\ restarts' = [restarts EXCEPT ![Aggregator] = restarts[Aggregator] + 1]
        /\ sampling' = [sampling EXCEPT ![Aggregator] = TRUE]
        /\ disableIpmi' = [disableIpmi EXCEPT ![Aggregator] = FALSE]
        /\ timeout' = [timeout EXCEPT ![Aggregator] = 0]
        /\ countLog' = [countLog EXCEPT ![Aggregator] = 0]
    BY DEF AggregatorRestart
  <2>3. restarts[Aggregator] + 1 \in Nat /\ 0 \in 0..MaxCountLog
    BY <1>1, <2>1, IpmiAssumption
  <2>. QED  BY <1>1, <2>1, <2>2, <2>3
<1>3. chan' \in [Nodes -> Seq(Samples)] /\ hosts' \in Seq(Nodes)
  BY DEF AggregatorRestart
<1>4. logEnabled' \in BOOLEAN /\ dbOutstanding' \in BOOLEAN
  BY Zenon DEF AggregatorRestart
<1>5. IsInjective(hosts')
  BY DEF AggregatorRestart, IsInjective
<1>. QED  BY <1>2, <1>3, <1>4, <1>5 DEF AggregatorRestart, IInv, TypeOK, NoDuplicateHosts

LEMMA NextIInv == IInv /\ [Next]_vars => IInv'
<1> SUFFICES ASSUME IInv, [Next]_vars PROVE IInv'
  OBVIOUS
<1>1. CASE \E n \in Nodes : collect_sample(n) \/ ipmi_log(n) \/ stop(n) \/ start(n)
  BY <1>1, CollectIInv, LogIInv, StopStartIInv
<1>2. CASE mycleanup
  BY <1>2, CleanupIInv
<1>3. CASE \E n \in Computes : ComputeRestart(n)
  BY <1>3, ComputeRestartIInv
<1>4. CASE AggregatorRestart
  BY <1>4, AggregatorRestartIInv
<1>5. CASE UNCHANGED vars
  BY <1>5 DEF vars, IInv, TypeOK, NoDuplicateHosts
<1>. QED  BY <1>1, <1>2, <1>3, <1>4, <1>5 DEF Next

(* For any set of daemons, any of them not root, and any bounds, every   *)
(* counter and buffer of the component stays within its type.             *)
THEOREM TypeOKThm == Spec => []TypeOK
<1>1. IInv => TypeOK  BY DEF IInv
<1>. QED  BY InitIInv, NextIInv, <1>1, PTL DEF Spec

(* However often and in whatever order daemons send their credentials,   *)
(* restart or stop, the found-or-add of ipmi_log keeps every node at most *)
(* once in the aggregator's sensor_active_hosts.                           *)
THEOREM NoDuplicateHostsThm == Spec => []NoDuplicateHosts
<1>1. IInv => NoDuplicateHosts  BY DEF IInv
<1>. QED  BY InitIInv, NextIInv, <1>1, PTL DEF Spec
=============================================================================
