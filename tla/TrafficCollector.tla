-------------------------- MODULE TrafficCollector --------------------------
(***************************************************************************)
(* trafficlog.Collector (pkg/trafficlog/collector.go) turning the kernel's  *)
(* cumulative IPVS counters into Prometheus counters, which can only grow.  *)
(* The service half and the backend half of updateMetrics are the same      *)
(* algorithm; a key here is either a service or a backend of a service, and *)
(* each has one counter.                                                    *)
(*                                                                          *)
(* The kernel is external and modelled as updateMetrics' comment describes  *)
(* it: a removed destination keeps its counter for a while on a trash list  *)
(* and gets it back when it is added again.                                 *)
(***************************************************************************)
EXTENDS Integers

CONSTANTS
    Keys,
    Width,         \* the kernel's counter wraps to 0 at this value (2^32)
    MaxAbsentPolls,
    MaxTotal,      \* bound: traffic per key; a metric that exceeds it is cut
                   \* off at MaxTotal + 1
    Absent

ASSUME TrafficAssumptions ==
    /\ Width \in Nat \ {0} /\ MaxAbsentPolls \in Nat /\ MaxTotal \in Nat
    /\ Absent \notin Nat

VARIABLES
    live,      \* keys that GetServices and GetDestinations list
    count,     \* kernel counters, of the live keys and those in the trash
    services,  \* keys of buildServiceConfigMap(c.services)
    enabled,   \* c.trafficCfg.IsEnabled()
    pc, snap,  \* between gatherSnapshot and updateMetrics; the snapshot
    prev,      \* c.prevServices, c.prevBackends
    absentPolls,
    metric,    \* the Prometheus counters
    total,     \* history: the traffic there was
    evicted,   \* history: keys forgotten while the kernel still counted
    missed     \* history: keys of which the kernel or the configuration hid
               \* traffic from the polls

kernelVars == <<live, count>>
configVars == <<services, enabled>>
pollVars == <<pc, snap, prev, absentPolls, metric>>
vars == <<kernelVars, configVars, pollVars, total, evicted, missed>>

Nothing == [k \in Keys |-> Absent]

\* The zero value of a key that a Go map does not hold.
Value(v) == IF v = Absent THEN 0 ELSE v

\* The kernel is empty; NewCollector.
Init ==
    /\ live = {} /\ count = Nothing
    /\ services \in SUBSET Keys /\ enabled \in BOOLEAN
    /\ pc = "idle" /\ snap = Nothing
    /\ prev = Nothing /\ absentPolls = [k \in Keys |-> 0]
    /\ metric = [k \in Keys |-> 0] /\ total = [k \in Keys |-> 0]
    /\ evicted = {} /\ missed = {}

-----------------------------------------------------------------------------
(* The kernel. *)

AddDestination(k) ==
    /\ k \notin live
    /\ live' = live \cup {k}
    /\ count' = [count EXCEPT ![k] = Value(@)]
    /\ UNCHANGED <<configVars, pollVars, total, evicted, missed>>

DelDestination(k) ==
    /\ k \in live
    /\ live' = live \ {k}
    /\ UNCHANGED <<count, configVars, pollVars, total, evicted, missed>>

\* The destination leaves the trash: what was not polled is lost.
Destroy(k) ==
    /\ k \notin live /\ count[k] # Absent
    /\ count' = [count EXCEPT ![k] = Absent]
    /\ missed' = missed \cup {k}
    /\ UNCHANGED <<live, configVars, pollVars, total, evicted>>

\* Connections of a removed destination go on in the trash.
Traffic(k) ==
    LET wraps == count[k] + 1 = Width
    IN  /\ count[k] # Absent /\ total[k] < MaxTotal
        /\ count' = [count EXCEPT ![k] = IF wraps THEN 0 ELSE @ + 1]
        /\ total' = [total EXCEPT ![k] = @ + 1]
        /\ missed' = IF wraps THEN missed \cup {k} ELSE missed
        /\ UNCHANGED <<live, configVars, pollVars, evicted>>

-----------------------------------------------------------------------------
(* The collector. *)

UpdateConfig(svcs, on) ==
    /\ services' = svcs /\ enabled' = on
    /\ UNCHANGED <<kernelVars, pollVars, total, evicted, missed>>

\* A tick of run: gatherSnapshot. A provider that fails leaves an empty map.
Gather(ok) ==
    /\ pc = "idle" /\ enabled
    /\ pc' = "gathered"
    /\ snap' = [k \in Keys |-> IF ok /\ k \in live THEN count[k] ELSE Absent]
    /\ UNCHANGED <<kernelVars, configVars, prev, absentPolls, metric, total,
                   evicted, missed>>

\* A difference without the guard for a counter that went back.
deltaUint64_NoGuard(current, previous) == current - previous

\* A counter that went back was reset: all of it is new.
deltaUint64(current, previous) ==
    IF current < previous THEN current ELSE current - previous

\* A collector that takes the first sight of a key for its base line.
Counted_BaseLine(k) ==
    IF snap[k] = Absent \/ k \notin services \/ prev[k] = Absent THEN 0
    ELSE deltaUint64(snap[k], Value(prev[k]))

\* What SetServiceTraffic or SetBackendTraffic adds for k.
Counted(k) ==
    IF snap[k] = Absent \/ k \notin services THEN 0
    ELSE deltaUint64(snap[k], Value(prev[k]))

\* A vanished key is carried forward for MaxAbsentPolls polls.
Evicts(k) ==
    /\ snap[k] = Absent /\ prev[k] # Absent
    /\ absentPolls[k] + 1 > MaxAbsentPolls

\* updateMetrics without the carry-forward.
NewPrev_Dropped(k) == snap[k]

NewPrev(k) ==
    IF snap[k] # Absent THEN snap[k] ELSE
    IF Evicts(k) THEN Absent ELSE prev[k]

\* A collector that starts a new count of absences at each poll.
NewAbsentPolls_NotCarried(k) == 0

NewAbsentPolls(k) ==
    IF snap[k] = Absent /\ prev[k] # Absent /\ ~Evicts(k)
      THEN absentPolls[k] + 1 ELSE 0

\* The bound on the metric, above all values of total.
Saturate(n) == IF n > MaxTotal THEN MaxTotal + 1 ELSE n

UpdateMetrics ==
    /\ pc = "gathered"
    /\ pc' = "idle" /\ snap' = Nothing
    /\ metric' = [k \in Keys |-> Saturate(metric[k] + Counted(k))]
    /\ prev' = [k \in Keys |-> NewPrev(k)]
    /\ absentPolls' = [k \in Keys |-> NewAbsentPolls(k)]
    /\ evicted' = evicted \cup {k \in Keys : Evicts(k) /\ count[k] # Absent}
    /\ missed' = missed \cup {k \in Keys : snap[k] # Absent /\ k \notin services}
    /\ UNCHANGED <<kernelVars, configVars, total>>

\* The process is started again: the collector and the Prometheus counters
\* are new, the kernel is not.
Restart(svcs, on) ==
    /\ services' = svcs /\ enabled' = on
    /\ pc' = "idle" /\ snap' = Nothing
    /\ prev' = Nothing /\ absentPolls' = [k \in Keys |-> 0]
    /\ metric' = [k \in Keys |-> 0]
    /\ evicted' = {}
    /\ UNCHANGED <<kernelVars, total, missed>>

Kernel ==
    \E k \in Keys : AddDestination(k) \/ DelDestination(k) \/ Destroy(k) \/ Traffic(k)

Collect == (\E ok \in BOOLEAN : Gather(ok)) \/ UpdateMetrics

Operator ==
    \E svcs \in SUBSET Keys, on \in BOOLEAN : UpdateConfig(svcs, on) \/ Restart(svcs, on)

Next == Kernel \/ Collect \/ Operator

Spec == Init /\ [][Next]_vars

\* The ticker fires again and again, and run handles each tick.
FairSpec == Spec /\ WF_vars(Collect)

-----------------------------------------------------------------------------
(* The shape of the state. *)
TypeOK ==
    /\ live \in SUBSET Keys /\ services \in SUBSET Keys /\ enabled \in BOOLEAN
    /\ count \in [Keys -> 0..(Width - 1) \cup {Absent}]
    /\ \A k \in live : count[k] # Absent
    /\ pc \in {"idle", "gathered"}
    /\ snap \in [Keys -> 0..(Width - 1) \cup {Absent}]
    /\ prev \in [Keys -> 0..(Width - 1) \cup {Absent}]
    /\ absentPolls \in [Keys -> 0..MaxAbsentPolls]
    /\ metric \in [Keys -> 0..(MaxTotal + 1)] /\ total \in [Keys -> 0..MaxTotal]
    /\ evicted \in SUBSET Keys /\ missed \in SUBSET Keys

(* "Counter.Add() must only ever be given the amount observed since the last *)
(* call": no sequence of removals, revivals, resets, wraps, failing polls    *)
(* and reloads makes a counter exceed the traffic there was, except for a    *)
(* key that was evicted while the kernel kept its counter (updateMetrics).   *)
NeverOvercounts == \A k \in Keys \ evicted : metric[k] <= total[k]

(* Nothing slips between two polls: if the kernel never reset the counter    *)
(* and the key was configured whenever it was polled, then the metric lacks  *)
(* just what the next poll will add (deltaUint64, the carry-forward).        *)
NothingMissed ==
    \A k \in Keys \ (missed \cup evicted) :
        pc = "idle" /\ count[k] # Absent =>
            metric[k] + deltaUint64(count[k], Value(prev[k])) = total[k]

(* A key removed for good does not "leak memory forever": while collection   *)
(* is enabled it is forgotten after a bounded number of polls.               *)
GoneIsForgotten ==
    \A k \in Keys :
        (k \notin live) ~> (prev[k] = Absent \/ k \in live \/ ~enabled)
=============================================================================
