---------------------------- MODULE TrafficProofs ----------------------------
(***************************************************************************)
(* Proofs about TrafficCollector for any counter width, any number of       *)
(* retained polls and any amount of traffic. Both invariants follow the     *)
(* value on its way from the kernel through the snapshot to prev.           *)
(***************************************************************************)
EXTENDS TrafficCollector, TLAPS

Counter == 0..(Width - 1)

\* What a poll that sees c after p adds; nothing while the key is not listed.
Owed(c, p) == IF c = Absent THEN 0 ELSE deltaUint64(c, Value(p))

(* The kernel counts no more than there was.                                 *)
CountBounded == \A k \in Keys : Value(count[k]) <= total[k]

(* What the collector will still add, through the snapshot in hand and after *)
(* it, does not exceed the traffic it has not added.                         *)
OwedBounded ==
    \A k \in Keys \ evicted :
        IF snap[k] = Absent
          THEN metric[k] + Owed(count[k], prev[k]) <= total[k]
          ELSE metric[k] + deltaUint64(snap[k], Value(prev[k]))
                         + Owed(count[k], snap[k]) <= total[k]

(* A counter that never went back is the traffic, and what was polled of it  *)
(* is the metric.                                                            *)
Exact ==
    /\ \A k \in Keys \ missed : Value(count[k]) = total[k]
    /\ \A k \in Keys \ (missed \cup evicted) :
          /\ metric[k] = Value(prev[k]) /\ Value(prev[k]) <= total[k]
          /\ snap[k] # Absent => Value(prev[k]) <= snap[k] /\ snap[k] <= total[k]

SnapShape == pc = "idle" => \A k \in Keys : snap[k] = Absent

TrafficInv == TypeOK /\ SnapShape /\ CountBounded /\ OwedBounded /\ Exact

-----------------------------------------------------------------------------
(* Counters are numbers, and Absent is not. *)
LEMMA Numbers ==
    ASSUME NEW v \in Counter \cup {Absent}
    PROVE  /\ Value(v) \in Nat
           /\ v # Absent => v \in Nat /\ Value(v) = v
           /\ v = Absent => Value(v) = 0
BY TrafficAssumptions DEF Counter, Value

(* One more unit of traffic raises what is owed by at most one, wrapping or  *)
(* not (deltaUint64).                                                        *)
LEMMA OwedStep ==
    ASSUME NEW c \in Nat, NEW p \in Nat
    PROVE  /\ deltaUint64(c, p) \in Nat
           /\ deltaUint64(c + 1, p) <= deltaUint64(c, p) + 1
           /\ deltaUint64(0, p) = 0
           /\ deltaUint64(c, c) = 0
           /\ deltaUint64(c, 0) = c
           /\ deltaUint64(c, p) <= c
BY DEF deltaUint64

(* An empty kernel and a new collector. *)
LEMMA InitTraffic == Init => TrafficInv
BY TrafficAssumptions
   DEF Init, TrafficInv, TypeOK, SnapShape, CountBounded, OwedBounded, Exact,
       Owed, Value, Nothing, Counter

(* The kernel's steps change count and total of one key. *)
LEMMA KernelTraffic ==
    ASSUME TrafficInv, NEW k \in Keys,
           AddDestination(k) \/ DelDestination(k) \/ Destroy(k) \/ Traffic(k)
    PROVE  TrafficInv'
<1> USE TrafficAssumptions
<1>1. UNCHANGED <<services, enabled, pc, snap, prev, absentPolls, metric, evicted>>
  BY DEF AddDestination, DelDestination, Destroy, Traffic, configVars, pollVars
<1>2. /\ count \in [Keys -> Counter \cup {Absent}] /\ snap \in [Keys -> Counter \cup {Absent}]
      /\ prev \in [Keys -> Counter \cup {Absent}] /\ total \in [Keys -> 0..MaxTotal]
      /\ metric \in [Keys -> 0..(MaxTotal + 1)]
  BY DEF TrafficInv, TypeOK, Counter
<1>3. \/ count'[k] = Value(count[k]) /\ total'[k] = total[k] /\ missed' = missed
      \/ count'[k] = count[k] /\ total'[k] = total[k] /\ missed' = missed
      \/ /\ count'[k] = Absent /\ total'[k] = total[k] /\ missed' = missed \cup {k}
      \/ /\ count[k] # Absent /\ total[k] < MaxTotal /\ total'[k] = total[k] + 1
         /\ \/ count'[k] = 0 /\ missed' = missed \cup {k}
            \/ count'[k] = count[k] + 1 /\ count[k] + 1 < Width /\ missed' = missed
  BY <1>2 DEF AddDestination, DelDestination, Destroy, Traffic, Counter
<1>4. \A j \in Keys \ {k} : count'[j] = count[j] /\ total'[j] = total[j]
  BY <1>2 DEF AddDestination, DelDestination, Destroy, Traffic
<1>5. /\ count' \in [Keys -> Counter \cup {Absent}] /\ total' \in [Keys -> 0..MaxTotal]
      /\ missed' \in SUBSET Keys /\ live' \in SUBSET Keys
      /\ \A j \in live' : count'[j] # Absent
  <2>1. /\ count' = [j \in Keys |-> count'[j]] /\ total' = [j \in Keys |-> total'[j]]
    BY <1>2 DEF AddDestination, DelDestination, Destroy, Traffic
  <2>2. count'[k] \in Counter \cup {Absent} /\ total'[k] \in 0..MaxTotal
    BY <1>2, <1>3, Numbers DEF Counter, Value
  <2>3. live' \in SUBSET Keys /\ missed' \in SUBSET Keys
    BY DEF TrafficInv, TypeOK, AddDestination, DelDestination, Destroy, Traffic
  <2>4. \A j \in live' : count'[j] # Absent
    BY <1>2, <1>4 DEF TrafficInv, TypeOK, AddDestination, DelDestination, Destroy,
                     Traffic, Value, Counter
  <2> QED BY <2>1, <2>2, <2>3, <2>4, <1>2, <1>4
<1>6. TypeOK' /\ SnapShape'
  BY <1>1, <1>5 DEF TrafficInv, TypeOK, SnapShape, Counter
<1>7. CountBounded'
  <2>1. Value(count'[k]) <= total'[k]
    BY <1>2, <1>3 DEF TrafficInv, CountBounded, Value, Counter
  <2> QED BY <2>1, <1>4 DEF TrafficInv, CountBounded
<1>8. \A p \in Counter \cup {Absent} :
         /\ Owed(count[k], p) \in Nat
         /\ Owed(count'[k], p) <= Owed(count[k], p) + (total'[k] - total[k])
  BY <1>2, <1>3 DEF Owed, deltaUint64, Value, Counter
<1>9. OwedBounded'
  <2> SUFFICES ASSUME NEW j \in Keys \ evicted
               PROVE  IF snap[j] = Absent
                        THEN metric[j] + Owed(count'[j], prev[j]) <= total'[j]
                        ELSE metric[j] + deltaUint64(snap[j], Value(prev[j]))
                                       + Owed(count'[j], snap[j]) <= total'[j]
    BY <1>1 DEF OwedBounded
  <2>1. CASE j # k
    BY <2>1, <1>4 DEF TrafficInv, OwedBounded
  <2>2. CASE j = k
    <3>1. metric[k] \in Nat /\ total[k] \in Nat /\ total'[k] \in Nat
          /\ Owed(count'[k], prev[k]) \in Nat /\ Owed(count'[k], snap[k]) \in Nat
          /\ Owed(count[k], prev[k]) \in Nat /\ Owed(count[k], snap[k]) \in Nat
      BY <1>2, <1>5 DEF Owed, deltaUint64, Value, Counter
    <3>2. snap[k] # Absent => deltaUint64(snap[k], Value(prev[k])) \in Nat
      BY <1>2, Numbers DEF deltaUint64
    <3>3. Owed(count'[k], prev[k]) <= Owed(count[k], prev[k]) + (total'[k] - total[k])
          /\ Owed(count'[k], snap[k]) <= Owed(count[k], snap[k]) + (total'[k] - total[k])
      BY <1>2, <1>8
    <3>4. IF snap[k] = Absent
            THEN metric[k] + Owed(count[k], prev[k]) <= total[k]
            ELSE metric[k] + deltaUint64(snap[k], Value(prev[k]))
                           + Owed(count[k], snap[k]) <= total[k]
      BY <2>2 DEF TrafficInv, OwedBounded
    <3> HIDE DEF Owed, deltaUint64
    <3> QED BY <2>2, <3>1, <3>2, <3>3, <3>4
  <2> QED BY <2>1, <2>2
<1>10. Exact'
  <2>1. k \notin missed' => k \notin missed /\ total[k] <= total'[k]
                           /\ Value(count'[k]) = total'[k]
    BY <1>2, <1>3 DEF TrafficInv, Exact, Value, Counter
  <2>2. missed \subseteq missed'
    BY <1>3
  <2>3. \A j \in Keys \ missed' : Value(count'[j]) = total'[j]
    BY <2>1, <2>2, <1>4 DEF TrafficInv, Exact
  <2>4. \A j \in Keys \ (missed' \cup evicted) : total[j] <= total'[j]
    BY <2>1, <1>2, <1>4
  <2>5. \A j \in Keys : /\ Value(prev[j]) \in Nat /\ total[j] \in Nat /\ total'[j] \in Nat
                        /\ (snap[j] # Absent => snap[j] \in Nat)
    BY <1>2, <1>5, Numbers
  <2>6. \A j \in Keys \ (missed' \cup evicted) :
          /\ metric[j] = Value(prev[j]) /\ Value(prev[j]) <= total'[j]
          /\ snap[j] # Absent => Value(prev[j]) <= snap[j] /\ snap[j] <= total'[j]
    BY <2>2, <2>4, <2>5 DEF TrafficInv, Exact
  <2> QED BY <2>3, <2>6, <1>1 DEF Exact
<1> QED BY <1>6, <1>7, <1>9, <1>10 DEF TrafficInv

(* A poll reads the kernel: the snapshot takes over what was owed. *)
LEMMA GatherTraffic ==
    ASSUME TrafficInv, NEW ok \in BOOLEAN, Gather(ok)
    PROVE  TrafficInv'
<1> USE TrafficAssumptions
<1>1. /\ pc = "idle" /\ pc' = "gathered"
      /\ snap' = [k \in Keys |-> IF ok /\ k \in live THEN count[k] ELSE Absent]
      /\ UNCHANGED <<live, count, services, enabled, prev, absentPolls, metric,
                     total, evicted, missed>>
  BY DEF Gather, kernelVars, configVars
<1>2. /\ count \in [Keys -> Counter \cup {Absent}]
      /\ prev \in [Keys -> Counter \cup {Absent}] /\ total \in [Keys -> 0..MaxTotal]
      /\ metric \in [Keys -> 0..(MaxTotal + 1)]
  BY DEF TrafficInv, TypeOK, Counter
<1>3. \A k \in Keys : snap[k] = Absent /\ (snap'[k] = Absent \/ snap'[k] = count[k])
  BY <1>1 DEF TrafficInv, SnapShape
<1>4. TypeOK' /\ SnapShape' /\ CountBounded'
  BY <1>1 DEF TrafficInv, TypeOK, SnapShape, CountBounded
<1>5. OwedBounded'
  <2> SUFFICES ASSUME NEW k \in Keys \ evicted
               PROVE  IF snap'[k] = Absent
                        THEN metric[k] + Owed(count[k], prev[k]) <= total[k]
                        ELSE metric[k] + deltaUint64(snap'[k], Value(prev[k]))
                                       + Owed(count[k], snap'[k]) <= total[k]
    BY <1>1 DEF OwedBounded
  <2>1. metric[k] + Owed(count[k], prev[k]) <= total[k]
    BY <1>3 DEF TrafficInv, OwedBounded
  <2>2. CASE snap'[k] = Absent
    BY <2>1, <2>2
  <2>3. CASE snap'[k] # Absent
    <3>1. snap'[k] = count[k] /\ count[k] \in Nat /\ Value(count[k]) = count[k]
      BY <1>2, <1>3, <2>3, Numbers
    <3>2. Owed(count[k], count[k]) = 0
      BY <3>1, OwedStep DEF Owed
    <3>3. Owed(count[k], prev[k]) = deltaUint64(count[k], Value(prev[k]))
      BY <2>3, <3>1 DEF Owed
    <3>4. metric[k] \in Nat /\ deltaUint64(count[k], Value(prev[k])) \in Nat
      <4>1. metric[k] \in Nat
        BY <1>2
      <4>2. Value(prev[k]) \in Nat
        BY <1>2, Numbers
      <4> QED BY <3>1, <4>1, <4>2, OwedStep
    <3> HIDE DEF Owed, deltaUint64, Value
    <3>5. metric[k] + deltaUint64(snap'[k], Value(prev[k])) + Owed(count[k], snap'[k])
            = metric[k] + Owed(count[k], prev[k])
      BY <3>1, <3>2, <3>3, <3>4
    <3> QED BY <2>1, <2>3, <3>5
  <2> QED BY <2>2, <2>3
<1>6. Exact'
  <2>1. \A k \in Keys : snap'[k] # Absent => snap'[k] = Value(count[k])
    BY <1>2, <1>3, Numbers
  <2>2. \A k \in Keys \ (missed \cup evicted) :
            snap'[k] # Absent => Value(prev[k]) <= snap'[k] /\ snap'[k] <= total[k]
    BY <2>1, <1>2 DEF TrafficInv, Exact
  <2> QED BY <1>1, <2>2 DEF TrafficInv, Exact
<1> QED BY <1>4, <1>5, <1>6 DEF TrafficInv

(* updateMetrics: what the snapshot owed is now in the metric. *)
LEMMA UpdateTraffic ==
    ASSUME TrafficInv, UpdateMetrics
    PROVE  TrafficInv'
<1> USE TrafficAssumptions
<1>1. /\ pc = "gathered" /\ pc' = "idle" /\ snap' = Nothing
      /\ metric' = [k \in Keys |-> Saturate(metric[k] + Counted(k))]
      /\ prev' = [k \in Keys |-> NewPrev(k)]
      /\ absentPolls' = [k \in Keys |-> NewAbsentPolls(k)]
      /\ evicted' = evicted \cup {k \in Keys : Evicts(k) /\ count[k] # Absent}
      /\ missed' = missed \cup {k \in Keys : snap[k] # Absent /\ k \notin services}
      /\ UNCHANGED <<live, count, services, enabled, total>>
  BY DEF UpdateMetrics, kernelVars, configVars
<1>2. /\ count \in [Keys -> Counter \cup {Absent}] /\ snap \in [Keys -> Counter \cup {Absent}]
      /\ prev \in [Keys -> Counter \cup {Absent}] /\ total \in [Keys -> 0..MaxTotal]
      /\ metric \in [Keys -> 0..(MaxTotal + 1)] /\ absentPolls \in [Keys -> 0..MaxAbsentPolls]
  BY DEF TrafficInv, TypeOK, Counter
<1>3. \A k \in Keys : Counted(k) \in Nat
  BY <1>2, Numbers DEF Counted, deltaUint64
<1>4. TypeOK'
  <2>1. \A k \in Keys : Saturate(metric[k] + Counted(k)) \in 0..(MaxTotal + 1)
    <3>1. \A n \in Nat : Saturate(n) \in 0..(MaxTotal + 1)
      BY DEF Saturate
    <3>2. \A k \in Keys : metric[k] \in Nat
      BY <1>2
    <3>3. ASSUME NEW k \in Keys PROVE metric[k] + Counted(k) \in Nat
      <4>1. \A m, n \in Nat : m + n \in Nat
        OBVIOUS
      <4> QED BY <3>2, <1>3, <4>1, Zenon
    <3> QED BY <3>1, <3>3
  <2>2. \A k \in Keys : NewPrev(k) \in Counter \cup {Absent}
    BY <1>2 DEF NewPrev
  <2>3. \A k \in Keys : NewAbsentPolls(k) \in 0..MaxAbsentPolls
    <3> SUFFICES ASSUME NEW k \in Keys PROVE NewAbsentPolls(k) \in 0..MaxAbsentPolls
      OBVIOUS
    <3>1. absentPolls[k] \in 0..MaxAbsentPolls /\ MaxAbsentPolls \in Nat
      BY <1>2
    <3>2. CASE snap[k] = Absent /\ prev[k] # Absent /\ ~Evicts(k)
      <4>1. ~(absentPolls[k] + 1 > MaxAbsentPolls)
        BY <3>2 DEF Evicts
      <4> QED BY <3>1, <3>2, <4>1 DEF NewAbsentPolls
    <3>3. CASE ~(snap[k] = Absent /\ prev[k] # Absent /\ ~Evicts(k))
      BY <3>1, <3>3 DEF NewAbsentPolls
    <3> QED BY <3>2, <3>3
  <2>4. /\ metric' \in [Keys -> 0..(MaxTotal + 1)] /\ prev' \in [Keys -> Counter \cup {Absent}]
        /\ absentPolls' \in [Keys -> 0..MaxAbsentPolls]
    BY <1>1, <2>1, <2>2, <2>3
  <2>5. snap' \in [Keys -> Counter \cup {Absent}]
    BY <1>1 DEF Nothing
  <2> QED BY <1>1, <2>4, <2>5 DEF TrafficInv, TypeOK, Counter
<1>5. SnapShape' /\ CountBounded'
  BY <1>1 DEF TrafficInv, SnapShape, CountBounded, Nothing
<1>6. OwedBounded'
  <2> SUFFICES ASSUME NEW k \in Keys \ evicted'
               PROVE  metric'[k] + Owed(count[k], prev'[k]) <= total[k]
    BY <1>1 DEF OwedBounded, Nothing
  <2>1. k \notin evicted /\ (Evicts(k) => count[k] = Absent)
    BY <1>1
  <2>2. metric'[k] <= metric[k] + Counted(k) /\ metric'[k] \in Nat
        /\ metric[k] \in Nat /\ total[k] \in Nat
    BY <1>1, <1>2, <1>3 DEF Saturate
  <2>3. Owed(count[k], prev'[k]) \in Nat /\ Owed(count[k], snap[k]) \in Nat
        /\ Owed(count[k], prev[k]) \in Nat
    <3>1. prev'[k] \in Counter \cup {Absent}
      BY <1>4 DEF TypeOK, Counter
    <3> QED BY <3>1, <1>2 DEF Owed, deltaUint64, Value, Counter
  <2>4. CASE snap[k] # Absent
    <3>1. prev'[k] = snap[k]
      BY <2>4, <1>1 DEF NewPrev
    <3>2. metric[k] + deltaUint64(snap[k], Value(prev[k])) + Owed(count[k], snap[k]) <= total[k]
      BY <2>1, <2>4 DEF TrafficInv, OwedBounded
    <3>3. Counted(k) <= deltaUint64(snap[k], Value(prev[k]))
          /\ deltaUint64(snap[k], Value(prev[k])) \in Nat
      BY <2>4, <1>2, Numbers DEF Counted, deltaUint64
    <3> QED BY <3>1, <3>2, <3>3, <2>2, <2>3, <1>3
  <2>5. CASE snap[k] = Absent
    <3>1. Counted(k) = 0
      BY <2>5 DEF Counted
    <3>2. metric[k] + Owed(count[k], prev[k]) <= total[k]
      BY <2>1, <2>5 DEF TrafficInv, OwedBounded
    <3>3. Owed(count[k], prev'[k]) = Owed(count[k], prev[k])
      <4>1. CASE Evicts(k)
        BY <4>1, <2>1 DEF Owed
      <4>2. CASE ~Evicts(k)
        BY <4>2, <2>5, <1>1 DEF NewPrev
      <4> QED BY <4>1, <4>2
    <3> QED BY <3>1, <3>2, <3>3, <2>2, <2>3
  <2> QED BY <2>4, <2>5
<1>7. Exact'
  <2>1. \A k \in Keys \ missed' : Value(count[k]) = total[k]
    BY <1>1 DEF TrafficInv, Exact
  <2>2. ASSUME NEW k \in Keys \ (missed' \cup evicted')
        PROVE  metric'[k] = Value(prev'[k]) /\ Value(prev'[k]) <= total[k]
    <3>1. k \notin missed /\ k \notin evicted /\ (Evicts(k) => count[k] = Absent)
          /\ (snap[k] # Absent => k \in services)
      BY <1>1, <2>2
    <3>2. /\ metric[k] = Value(prev[k]) /\ Value(prev[k]) <= total[k]
          /\ snap[k] # Absent => Value(prev[k]) <= snap[k] /\ snap[k] <= total[k]
          /\ Value(count[k]) = total[k]
      BY <3>1 DEF TrafficInv, Exact
    <3>3. metric'[k] = Saturate(metric[k] + Counted(k)) /\ prev'[k] = NewPrev(k)
      BY <1>1
    <3>4. total[k] \in 0..MaxTotal /\ Value(prev[k]) \in Nat
      BY <1>2, Numbers
    <3>5. CASE snap[k] # Absent
      <4>1. snap[k] \in Nat /\ Value(snap[k]) = snap[k]
        BY <3>5, <1>2, Numbers
      <4>2. Counted(k) = snap[k] - Value(prev[k])
        BY <3>1, <3>2, <3>4, <3>5, <4>1 DEF Counted, deltaUint64
      <4>3. prev'[k] = snap[k]
        BY <3>3, <3>5 DEF NewPrev
      <4> QED BY <3>2, <3>3, <3>4, <3>5, <4>1, <4>2, <4>3 DEF Saturate
    <3>6. CASE snap[k] = Absent
      <4>1. Counted(k) = 0
        BY <3>6 DEF Counted
      <4>2. metric'[k] = Value(prev[k])
        BY <4>1, <3>2, <3>3, <3>4 DEF Saturate
      <4>3. Value(prev'[k]) = Value(prev[k])
        <5>1. CASE Evicts(k)
          <6>1. total[k] = 0
            BY <5>1, <3>1, <3>2 DEF Value
          <6>2. prev'[k] = Absent
            BY <5>1, <3>3, <3>6 DEF NewPrev
          <6> QED BY <6>1, <6>2, <3>2, <3>4 DEF Value
        <5>2. CASE ~Evicts(k)
          BY <5>2, <3>3, <3>6 DEF NewPrev
        <5> QED BY <5>1, <5>2
      <4> QED BY <4>2, <4>3, <3>2
    <3> QED BY <3>5, <3>6
  <2> QED BY <1>1, <2>1, <2>2 DEF Exact, Nothing
<1> QED BY <1>4, <1>5, <1>6, <1>7 DEF TrafficInv

(* A reload leaves the counters alone; a new process counts from zero. *)
LEMMA OperatorTraffic ==
    ASSUME TrafficInv, NEW svcs \in SUBSET Keys, NEW on \in BOOLEAN,
           UpdateConfig(svcs, on) \/ Restart(svcs, on)
    PROVE  TrafficInv'
<1> USE TrafficAssumptions
<1>1. CASE UpdateConfig(svcs, on)
  BY <1>1 DEF UpdateConfig, kernelVars, pollVars, TrafficInv, TypeOK, SnapShape,
              CountBounded, OwedBounded, Exact
<1>2. CASE Restart(svcs, on)
  <2>1. /\ services' = svcs /\ enabled' = on /\ pc' = "idle" /\ snap' = Nothing
        /\ prev' = Nothing /\ absentPolls' = [k \in Keys |-> 0]
        /\ metric' = [k \in Keys |-> 0] /\ evicted' = {}
        /\ UNCHANGED <<live, count, total, missed>>
    BY <1>2 DEF Restart, kernelVars
  <2>2. count \in [Keys -> Counter \cup {Absent}] /\ total \in [Keys -> 0..MaxTotal]
    BY DEF TrafficInv, TypeOK, Counter
  <2>3. TypeOK' /\ SnapShape' /\ CountBounded'
    BY <2>1 DEF TrafficInv, TypeOK, SnapShape, CountBounded, Nothing
  <2>4. OwedBounded'
    <3> SUFFICES ASSUME NEW k \in Keys
                 PROVE  0 + Owed(count[k], Absent) <= total[k]
      BY <2>1 DEF OwedBounded, Nothing
    <3> QED BY <2>2 DEF TrafficInv, CountBounded, Owed, deltaUint64, Value, Counter
  <2>5. Exact'
    BY <2>1, <2>2 DEF TrafficInv, Exact, Nothing, Value
  <2> QED BY <2>3, <2>4, <2>5 DEF TrafficInv
<1> QED BY <1>1, <1>2

(* The inductive invariant, through every interleaving of kernel, polls and  *)
(* reloads.                                                                  *)
THEOREM TrafficInvariant == Spec => []TrafficInv
<1>1. Init => TrafficInv
  BY InitTraffic
<1>2. TrafficInv /\ [Next]_vars => TrafficInv'
  <2> SUFFICES ASSUME TrafficInv, [Next]_vars PROVE TrafficInv'
    OBVIOUS
  <2>1. CASE Kernel
    BY <2>1, KernelTraffic DEF Kernel
  <2>2. CASE Collect
    BY <2>2, GatherTraffic, UpdateTraffic DEF Collect
  <2>3. CASE Operator
    BY <2>3, OperatorTraffic DEF Operator
  <2>4. CASE UNCHANGED vars
    BY <2>4 DEF vars, kernelVars, configVars, pollVars, TrafficInv, TypeOK,
                SnapShape, CountBounded, OwedBounded, Exact
  <2> QED BY <2>1, <2>2, <2>3, <2>4 DEF Next
<1> QED BY <1>1, <1>2, PTL DEF Spec

(* The collector keeps its shape.                                            *)
THEOREM TrafficTypeCorrect == Spec => []TypeOK
<1>1. TrafficInv => TypeOK
  BY DEF TrafficInv
<1> QED BY <1>1, TrafficInvariant, PTL

(* Counter.Add is never given more than there was, unless a key was evicted  *)
(* while the kernel kept counting it (collector.go:291-295, 333-344).        *)
THEOREM MetricsNeverOvercount == Spec => []NeverOvercounts
<1>1. TrafficInv => NeverOvercounts
  <2> SUFFICES ASSUME TrafficInv, NEW k \in Keys \ evicted
               PROVE  metric[k] <= total[k]
    BY DEF NeverOvercounts
  <2>1. /\ metric[k] \in Nat /\ total[k] \in Nat
        /\ Owed(count[k], prev[k]) \in Nat /\ Owed(count[k], snap[k]) \in Nat
        /\ snap[k] # Absent => deltaUint64(snap[k], Value(prev[k])) \in Nat
    BY TrafficAssumptions DEF TrafficInv, TypeOK, Owed, deltaUint64, Value
  <2> QED BY <2>1 DEF TrafficInv, OwedBounded
<1> QED BY <1>1, TrafficInvariant, PTL

(* While the kernel never resets a counter, the metric lacks exactly what    *)
(* the next poll adds (collector.go:346-370, 454-464).                       *)
THEOREM MetricsMissNothing == Spec => []NothingMissed
<1>1. TrafficInv => NothingMissed
  <2> SUFFICES ASSUME TrafficInv, NEW k \in Keys \ (missed \cup evicted), count[k] # Absent
               PROVE  metric[k] + deltaUint64(count[k], Value(prev[k])) = total[k]
    BY DEF NothingMissed
  <2>1. count[k] \in Nat /\ Value(count[k]) = count[k] /\ Value(prev[k]) \in Nat
    BY TrafficAssumptions, Numbers DEF TrafficInv, TypeOK, Counter
  <2>2. count[k] = total[k] /\ metric[k] = Value(prev[k]) /\ Value(prev[k]) <= total[k]
    BY <2>1 DEF TrafficInv, Exact
  <2> QED BY <2>1, <2>2 DEF deltaUint64
<1> QED BY <1>1, TrafficInvariant, PTL
==============================================================================
