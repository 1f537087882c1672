---------------------------- MODULE HealthProofs ----------------------------
(***************************************************************************)
(* Proofs about HealthCheck for any service lists, numbers of backends and  *)
(* goroutines, and thresholds: every status has one live goroutine, a       *)
(* verdict survives reloads, and a backend's own check, once it has         *)
(* succeeded, is not contradicted while the backend answers.                *)
(***************************************************************************)
EXTENDS HealthCheck, WellFoundedInduction, TLAPS

\* A free goroutine slot is at the start of its loop.
FreeIsInLoop == \A w \in Workers : check[w] = Absent => wpc[w] = "loop"

(* A tracked backend that is not suspect is alive and healthy, and its live  *)
(* goroutine is not about to report a failure.                               *)
NoFailureComing ==
    \A b \in Backends : Tracked(b) /\ b \notin suspect =>
        alive[b] /\ statuses[b].healthy /\ wpc[cancel[b]] # "fail"

HealthInv ==
    TypeOK /\ OneLiveCheck /\ FreeIsInLoop /\ NoFailureComing

-----------------------------------------------------------------------------
(* The first and the last place of a list where something holds exist.       *)
LEMMA LeastNumber ==
    ASSUME NEW T \in SUBSET Nat, T # {}
    PROVE  \E x \in T : \A y \in T : x <= y
<1>1. PICK x \in T : \A y \in T : ~(<<y, x>> \in OpToRel(<, Nat))
  BY WFMin, NatLessThanWellFounded
<1>2. \A y \in T : ~(y < x)
  BY <1>1 DEF OpToRel
<1> QED BY <1>2

LEMMA GreatestNumber ==
    ASSUME NEW n \in Nat, NEW T \in SUBSET (0..n), T # {}
    PROVE  \E x \in T : \A y \in T : x >= y
<1> DEFINE D == {n - i : i \in T}
<1>1. D \subseteq Nat /\ D # {}
  <2>1. \A i \in T : n - i \in Nat
    OBVIOUS
  <2>2. PICK i \in T : n - i \in D
    OBVIOUS
  <2> QED BY <2>1, <2>2
<1>2. PICK d \in D : \A e \in D : d <= e
  <2> HIDE DEF D
  <2> QED BY <1>1, LeastNumber
<1>3. PICK i \in T : d = n - i
  OBVIOUS
<1>4. \A j \in T : i >= j
  BY <1>2, <1>3
<1> QED BY <1>4

(* A validated list: its entries are services, and its thresholds fit.       *)
LEMMA ConfigEntries ==
    ASSUME NEW c \in Configs
    PROVE  /\ Len(c) \in Nat /\ DOMAIN c = 1..Len(c)
           /\ \A i \in DOMAIN c :
                 /\ c[i] \in ServiceConfig
                 /\ GetFailCount(c[i]) \in 1..MaxCount
                 /\ GetRiseCount(c[i]) \in 1..MaxCount
                 /\ GetType(c[i]) \in {"tcp", "http", "udp"}
<1>1. c \in Files /\ c \in Seq(ServiceConfig)
  BY HealthAssumptions DEF Configs
<1>2. \A i \in DOMAIN c : c[i] \in ServiceConfig
  BY <1>1
<1>3. \A i \in DOMAIN c : c[i].fail \in Int /\ c[i].rise \in Int
                          /\ c[i].type \in {"", "tcp", "http", "udp"}
  BY <1>2 DEF ServiceConfig
<1>4. \A i \in DOMAIN c : GetFailCount(c[i]) <= MaxCount /\ GetRiseCount(c[i]) <= MaxCount
  BY <1>1, HealthAssumptions
<1>5. MaxCount \in Nat
  BY HealthAssumptions
<1>6. \A i \in DOMAIN c : GetFailCount(c[i]) \in Nat \ {0} /\ GetRiseCount(c[i]) \in Nat \ {0}
  <2>1. \A n \in Int : (IF n <= 0 THEN 3 ELSE n) \in Nat \ {0}
                      /\ (IF n <= 0 THEN 2 ELSE n) \in Nat \ {0}
    OBVIOUS
  <2> QED BY <1>3, <2>1 DEF GetFailCount, GetRiseCount
<1>7. \A i \in DOMAIN c : GetType(c[i]) \in {"tcp", "http", "udp"}
  BY <1>3 DEF GetType
<1> QED BY <1>1, <1>2, <1>4, <1>5, <1>6, <1>7

(* The place where the loop of UpdateTargets deletes a status for the last   *)
(* time: none, or a service that lists the backend and was switched off.     *)
LEMMA DeletedAtIs ==
    ASSUME NEW c \in Configs, NEW b \in Backends
    PROVE  /\ DeletedAt(c, b) \in 0..Len(c)
           /\ DeletedAt(c, b) # 0 =>
                 SwitchesOff(c, DeletedAt(c, b)) /\ Lists(c, DeletedAt(c, b), b)
<1> DEFINE T == {0} \cup {i \in DOMAIN c : SwitchesOff(c, i) /\ Lists(c, i, b)}
<1>1. Len(c) \in Nat /\ T \subseteq 0..Len(c) /\ T # {}
  BY ConfigEntries
<1>2. DeletedAt(c, b) = Max(T)
  BY DEF DeletedAt
<1>3. Max(T) \in T
  <2> HIDE DEF T
  <2>1. \E x \in T : \A y \in T : x >= y
    BY <1>1, GreatestNumber
  <2> QED BY <2>1 DEF Max
<1> QED BY <1>1, <1>2, <1>3

(* The service whose check a new goroutine runs.                             *)
LEMMA NewCheckType ==
    ASSUME NEW c \in Configs, NEW b \in Backends, Starters(c, b) # {}
    PROVE  NewCheck(c, b) \in Check /\ NewCheck(c, b).backend = b
<1> DEFINE T == Starters(c, b)
<1>1. T \subseteq DOMAIN c /\ T \subseteq Nat
  BY ConfigEntries DEF Starters
<1>2. Min(T) \in T
  <2>1. \E x \in T : \A y \in T : x <= y
    BY <1>1, LeastNumber
  <2> QED BY <2>1 DEF Min
<1>3. Min(T) \in DOMAIN c
  BY <1>1, <1>2
<1> QED BY <1>3, ConfigEntries DEF NewCheck, Check

-----------------------------------------------------------------------------
(* NewManager: nothing is checked yet.                                       *)
LEMMA InitHealth == Init => HealthInv
<1> SUFFICES ASSUME Init PROVE HealthInv
  OBVIOUS
<1>1. TypeOK
  BY DEF Init, TypeOK
<1>2. OneLiveCheck /\ FreeIsInLoop /\ NoFailureComing
  BY DEF Init, OneLiveCheck, FreeIsInLoop, NoFailureComing, Tracked
<1> QED BY <1>1, <1>2 DEF HealthInv

(* UpdateTargets: what a backend's status, goroutine and suspicion become.   *)
LEMMA UpdateTargetsGives ==
    ASSUME HealthInv, SyncTargets
    PROVE  /\ mpc = "targets" /\ mpc' = "select" /\ arg \in Configs
           /\ UNCHANGED <<alive, current, arg, wpc>>
           /\ off' = {arg[i].name : i \in {j \in DOMAIN arg : SwitchesOff(arg, j)}}
           /\ services' \in [Names -> {"none", "on", "off"}]
           /\ statuses' \in [Backends -> Status \cup {Absent}]
           /\ cancel' \in [Backends -> Workers \cup {Absent}]
           /\ check' \in [Workers -> Check \cup {Absent}]
           /\ suspect' \subseteq Backends
           /\ \A w \in Workers : check[w] # Absent => check'[w] = check[w]
           /\ \A w \in Workers : check'[w] = Absent => check[w] = Absent
           /\ \A b \in Backends :
                 \/ /\ Keeps(arg, b) /\ statuses'[b] = statuses[b] /\ cancel'[b] = cancel[b]
                    /\ b \in suspect => b \in suspect'
                 \/ /\ Starts(arg, b) /\ statuses'[b] = Fresh
                    /\ cancel'[b] \in Workers
                    /\ check[cancel'[b]] = Absent
                    /\ check'[cancel'[b]] \in Check /\ check'[cancel'[b]].backend = b
                    /\ ~alive[b] => b \in suspect'
                 \/ /\ ~Keeps(arg, b) /\ ~Starts(arg, b)
                    /\ statuses'[b] = Absent /\ cancel'[b] = Absent
<1> DEFINE new == {b \in Backends : Starts(arg, b)}
           free == {w \in Workers : check[w] = Absent}
<1>1. arg \in Configs
  BY DEF HealthInv, TypeOK
<1>2. PICK spawn \in [new -> free] :
        /\ \A b1, b2 \in new : spawn[b1] = spawn[b2] => b1 = b2
        /\ statuses' = [b \in Backends |->
              IF Keeps(arg, b) THEN statuses[b] ELSE
              IF b \in new THEN Fresh ELSE Absent]
        /\ cancel' = [b \in Backends |-> CancelAfter(arg, b, spawn)]
        /\ check' = [w \in Workers |->
              IF \E b \in new : spawn[b] = w
                THEN NewCheck(arg, CHOOSE b \in new : spawn[b] = w)
                ELSE check[w]]
        /\ services' = [n \in Names |-> ServiceAfter(arg, n)]
        /\ off' = {arg[i].name : i \in {j \in DOMAIN arg : SwitchesOff(arg, j)}}
        /\ suspect' = {b \in suspect : Keeps(arg, b)} \cup {b \in new : ~alive[b]}
  BY DEF SyncTargets, UpdateTargets
<1>3. mpc = "targets" /\ mpc' = "select" /\ UNCHANGED <<alive, current, arg, wpc>>
  BY DEF SyncTargets
<1>4. services' \in [Names -> {"none", "on", "off"}]
  BY <1>2 DEF ServiceAfter
<1>5. \A b \in new : ~Keeps(arg, b) /\ NewCheck(arg, b) \in Check /\ NewCheck(arg, b).backend = b
  BY <1>1, NewCheckType DEF Starts
<1>6. Absent \notin Check
  BY HealthAssumptions
<1>7. Fresh \in Status
  BY HealthAssumptions DEF Fresh, Status
<1>8. \A b \in Backends :
        /\ Keeps(arg, b) => statuses'[b] = statuses[b] /\ cancel'[b] = cancel[b]
        /\ b \in new => statuses'[b] = Fresh /\ cancel'[b] = spawn[b]
        /\ ~Keeps(arg, b) /\ b \notin new => statuses'[b] = Absent /\ cancel'[b] = Absent
  BY <1>2, <1>5 DEF CancelAfter
<1> HIDE DEF new
<1>9. \A b \in new : check'[spawn[b]] = NewCheck(arg, b)
  <2> SUFFICES ASSUME NEW b \in new PROVE check'[spawn[b]] = NewCheck(arg, b)
    OBVIOUS
  <2>1. (CHOOSE a \in new : spawn[a] = spawn[b]) = b
    BY <1>2
  <2> QED BY <1>2, <2>1
<1>10. \A w \in Workers : check[w] # Absent => check'[w] = check[w]
  BY <1>2
<1>11. \A w \in Workers :
         \/ check'[w] = check[w]
         \/ \E b \in new : check'[w] = NewCheck(arg, b)
  BY <1>2, <1>9
<1>12. check' \in [Workers -> Check \cup {Absent}]
  <2>1. \A w \in Workers : check'[w] \in Check \cup {Absent}
    BY <1>5, <1>11 DEF HealthInv, TypeOK
  <2> QED BY <1>2, <2>1
<1>13. new \subseteq Backends
  BY DEF new
<1>14. statuses' \in [Backends -> Status \cup {Absent}]
  <2>1. \A b \in Backends : statuses'[b] \in Status \cup {Absent}
    BY <1>7, <1>8 DEF HealthInv, TypeOK
  <2> QED BY <1>2, <2>1
<1>15. cancel' \in [Backends -> Workers \cup {Absent}]
  <2>1. \A b \in Backends : cancel'[b] \in Workers \cup {Absent}
    BY <1>2, <1>8 DEF HealthInv, TypeOK
  <2> QED BY <1>2, <2>1
<1>16. suspect' \subseteq Backends
  BY <1>2, <1>13 DEF HealthInv, TypeOK
<1>17. \A w \in Workers : check'[w] = Absent => check[w] = Absent
  BY <1>10
<1>18. ASSUME NEW b \in Backends
       PROVE  \/ /\ Keeps(arg, b) /\ statuses'[b] = statuses[b] /\ cancel'[b] = cancel[b]
                 /\ b \in suspect => b \in suspect'
              \/ /\ Starts(arg, b) /\ statuses'[b] = Fresh
                 /\ cancel'[b] \in Workers
                 /\ check[cancel'[b]] = Absent
                 /\ check'[cancel'[b]] \in Check /\ check'[cancel'[b]].backend = b
                 /\ ~alive[b] => b \in suspect'
              \/ /\ ~Keeps(arg, b) /\ ~Starts(arg, b)
                 /\ statuses'[b] = Absent /\ cancel'[b] = Absent
  <2>1. CASE Keeps(arg, b)
    BY <2>1, <1>2, <1>8
  <2>2. CASE b \in new
    <3>1. Starts(arg, b)
      BY <2>2 DEF new
    <3>2. spawn[b] \in Workers /\ check[spawn[b]] = Absent
      BY <2>2, <1>2
    <3> QED BY <2>2, <3>1, <3>2, <1>2, <1>5, <1>8, <1>9
  <2>3. CASE ~Keeps(arg, b) /\ b \notin new
    <3>1. ~Starts(arg, b)
      BY <2>3 DEF new
    <3> QED BY <2>3, <3>1, <1>8
  <2> QED BY <2>1, <2>2, <2>3
<1> QED BY <1>1, <1>2, <1>3, <1>4, <1>10, <1>12, <1>14, <1>15, <1>16, <1>17, <1>18

(* UpdateTargets keeps the goroutines of what it keeps, and gives each       *)
(* backend that it starts to check a slot that was free.                     *)
LEMMA TargetsHealth ==
    ASSUME HealthInv, SyncTargets
    PROVE  HealthInv'
<1> USE UpdateTargetsGives
<1>1. Fresh \in Status /\ Fresh # Absent /\ Fresh.healthy
  <2>1. MaxCount \in Nat
    BY HealthAssumptions
  <2>2. Fresh \in Status /\ Fresh.healthy
    BY <2>1 DEF Fresh, Status
  <2> QED BY <2>2, HealthAssumptions
<1>2. Absent \notin Check /\ Absent \notin Workers
  BY HealthAssumptions
<1>3. \A b \in Backends : Keeps(arg, b) => Tracked(b) /\ b \in Listed(arg)
  BY DEF Keeps
<1>4. TypeOK'
  <2>1. off' \subseteq Names
    <3>1. \A i \in DOMAIN arg : arg[i].name \in Names
      BY ConfigEntries DEF ServiceConfig
    <3> QED BY <3>1
  <2> QED BY <2>1 DEF HealthInv, TypeOK
<1>5. OneLiveCheck'
  <2> SUFFICES ASSUME NEW b \in Backends
               PROVE  /\ statuses'[b] # Absent <=> cancel'[b] # Absent
                      /\ cancel'[b] # Absent =>
                            check'[cancel'[b]] # Absent /\ check'[cancel'[b]].backend = b
    BY DEF OneLiveCheck, Tracked
  <2>1. CASE Keeps(arg, b)
    <3>1. /\ statuses'[b] = statuses[b] /\ cancel'[b] = cancel[b]
          /\ cancel[b] \in Workers /\ check[cancel[b]] # Absent
          /\ check[cancel[b]].backend = b /\ statuses[b] # Absent
      BY <2>1, <1>3 DEF HealthInv, TypeOK, OneLiveCheck, Tracked, Starts
    <3> QED BY <3>1, <1>2
  <2>2. CASE ~Keeps(arg, b)
    BY <2>2, <1>1, <1>2
  <2> QED BY <2>1, <2>2
<1>6. FreeIsInLoop'
  BY DEF HealthInv, FreeIsInLoop
<1>7. NoFailureComing'
  <2> SUFFICES ASSUME NEW b \in Backends, statuses'[b] # Absent, b \notin suspect'
               PROVE  alive[b] /\ statuses'[b].healthy /\ wpc[cancel'[b]] # "fail"
    BY DEF NoFailureComing, Tracked
  <2>1. CASE Keeps(arg, b)
    BY <2>1, <1>3 DEF HealthInv, NoFailureComing, Starts
  <2>2. CASE Starts(arg, b) /\ ~Keeps(arg, b)
    BY <2>2, <1>1 DEF HealthInv, FreeIsInLoop
  <2> QED BY <2>1, <2>2
<1> QED BY <1>4, <1>5, <1>6, <1>7 DEF HealthInv

(* A result changes the status of its backend, and no other.                 *)
LEMMA ResultHealth ==
    ASSUME HealthInv, NEW w \in Workers, HandleResult(w)
    PROVE  HealthInv'
<1> DEFINE b == check[w].backend
           s == statuses[b]
           after == IF wpc[w] = "ok" THEN Succeeded(s, check[w]) ELSE Failed(s, check[w])
<1>1. wpc[w] \in {"ok", "fail"} /\ UNCHANGED <<alive, current, mpc, arg, services, cancel, off, check>>
  BY DEF HandleResult
<1>2. check[w] \in Check /\ b \in Backends
  BY <1>1 DEF HealthInv, TypeOK, FreeIsInLoop, Check
<1>3. CASE s = Absent
  <2>1. wpc' = [wpc EXCEPT ![w] = "loop"] /\ UNCHANGED <<statuses, suspect>>
    BY <1>3 DEF HandleResult
  <2> QED BY <1>1, <2>1
          DEF HealthInv, TypeOK, OneLiveCheck, FreeIsInLoop, NoFailureComing, Tracked
<1>4. CASE s # Absent
  <2>1. s \in Status
    BY <1>2, <1>4 DEF HealthInv, TypeOK
  <2>2. after \in Status /\ (wpc[w] = "ok" /\ s.healthy => after.healthy)
    <3>1. check[w].fail \in Nat /\ check[w].rise \in Nat /\ MaxCount \in Nat \ {0}
          /\ s.healthy \in BOOLEAN /\ s.fails \in 0..MaxCount /\ s.oks \in 0..MaxCount
      BY <1>2, <2>1, HealthAssumptions DEF Check, Status
    <3>2. Count(s.fails) \in 0..MaxCount /\ Count(s.oks) \in 0..MaxCount
      BY <3>1 DEF Count
    <3>3. Succeeded(s, check[w]) \in Status /\ (s.healthy => Succeeded(s, check[w]).healthy)
      BY <3>1, <3>2 DEF Succeeded, Status
    <3>4. Failed(s, check[w]) \in Status
      BY <3>1, <3>2 DEF Failed, Status
    <3> QED BY <3>3, <3>4
  <2>3. /\ statuses' = [statuses EXCEPT ![b] = after]
        /\ wpc' \in {[wpc EXCEPT ![w] = "changed"], [wpc EXCEPT ![w] = "loop"]}
        /\ suspect' =
              IF wpc[w] = "fail" /\ ~Live(w) THEN suspect \cup {b} ELSE
              IF wpc[w] = "ok" /\ Live(w) /\ alive[b] /\ after.healthy
                THEN suspect \ {b} ELSE suspect
    BY <1>4 DEF HandleResult
  <2> HIDE DEF after
  <2>4. after # Absent
    BY <2>2, HealthAssumptions
  <2>5. \A a \in Backends : statuses'[a] # Absent <=> statuses[a] # Absent
    BY <1>2, <1>4, <2>3, <2>4 DEF HealthInv, TypeOK
  <2>6. TypeOK'
    BY <1>1, <1>2, <2>2, <2>3 DEF HealthInv, TypeOK
  <2>7. OneLiveCheck'
    BY <1>1, <2>5 DEF HealthInv, OneLiveCheck, Tracked
  <2>8. FreeIsInLoop'
    BY <1>1, <1>2, <2>3, HealthAssumptions DEF HealthInv, TypeOK, FreeIsInLoop
  <2>9. NoFailureComing'
    <3> SUFFICES ASSUME NEW a \in Backends, statuses'[a] # Absent, a \notin suspect'
                 PROVE  alive[a] /\ statuses'[a].healthy /\ wpc'[cancel[a]] # "fail"
      BY <1>1 DEF NoFailureComing, Tracked
    <3>1. statuses[a] # Absent /\ cancel[a] \in Workers
      BY <2>5 DEF HealthInv, TypeOK, OneLiveCheck, Tracked
    <3>2. a \notin suspect => alive[a] /\ statuses[a].healthy /\ wpc[cancel[a]] # "fail"
      BY <3>1 DEF HealthInv, NoFailureComing, Tracked
    <3>3. wpc[cancel[a]] # "fail" => wpc'[cancel[a]] # "fail"
      BY <2>3, <3>1 DEF HealthInv, TypeOK
    <3>4. CASE a # b
      <4>1. a \notin suspect /\ statuses'[a] = statuses[a]
        BY <2>3, <3>4 DEF HealthInv, TypeOK
      <4> QED BY <3>2, <3>3, <4>1
    <3>5. CASE a = b /\ a \notin suspect
      <4>1. Live(w) \/ wpc[w] = "ok"
        BY <1>1, <2>3, <3>5
      <4>2. Live(w) => cancel[a] = w
        BY <3>5 DEF Live
      <4>3. wpc[w] = "ok"
        BY <1>1, <3>2, <3>5, <4>1, <4>2
      <4>4. statuses'[a] = after
        BY <2>3, <3>5 DEF HealthInv, TypeOK
      <4> QED BY <2>2, <3>2, <3>3, <3>5, <4>3, <4>4
    <3>6. CASE a = b /\ a \in suspect
      <4>1. wpc[w] = "ok" /\ Live(w) /\ alive[a] /\ after.healthy
        BY <2>3, <3>6
      <4>2. statuses'[a] = after /\ cancel[a] = w
        BY <2>3, <3>6, <4>1 DEF HealthInv, TypeOK, Live
      <4> QED BY <3>3, <4>1, <4>2
    <3> QED BY <3>4, <3>5, <3>6
  <2> QED BY <2>6, <2>7, <2>8, <2>9 DEF HealthInv
<1> QED BY <1>3, <1>4

(* The other steps of a check goroutine.                                     *)
LEMMA WorkerHealth ==
    ASSUME HealthInv, NEW w \in Workers, Probe(w) \/ CheckEnds(w) \/ CallbackReturns(w)
    PROVE  HealthInv'
<1>1. UNCHANGED <<alive, current, mpc, arg, services, statuses, cancel, off, suspect>>
  BY DEF Probe, CheckEnds, CallbackReturns, healthVars
<1>2. CASE Probe(w)
  <2>1. /\ check[w] # Absent /\ UNCHANGED check
        /\ wpc' = [wpc EXCEPT ![w] = IF CheckPasses(check[w]) THEN "ok" ELSE "fail"]
    BY <1>2 DEF Probe
  <2>2. TypeOK' /\ OneLiveCheck' /\ FreeIsInLoop'
    BY <1>1, <2>1 DEF HealthInv, TypeOK, OneLiveCheck, FreeIsInLoop, Tracked
  <2>3. NoFailureComing'
    <3> SUFFICES ASSUME NEW b \in Backends, Tracked(b), b \notin suspect
                 PROVE  alive[b] /\ statuses[b].healthy /\ wpc'[cancel[b]] # "fail"
      BY <1>1 DEF NoFailureComing, Tracked
    <3>1. alive[b] /\ statuses[b].healthy /\ wpc[cancel[b]] # "fail"
          /\ cancel[b] \in Workers /\ check[cancel[b]].backend = b
      BY DEF HealthInv, TypeOK, OneLiveCheck, NoFailureComing
    <3>2. cancel[b] = w => CheckPasses(check[w])
      BY <3>1 DEF CheckPasses
    <3> QED BY <2>1, <3>1, <3>2 DEF HealthInv, TypeOK
  <2> QED BY <2>2, <2>3 DEF HealthInv
<1>3. CASE CheckEnds(w)
  <2>1. check[w] # Absent /\ wpc[w] = "loop" /\ ~Live(w) /\ UNCHANGED wpc
        /\ check' = [check EXCEPT ![w] = Absent]
    BY <1>3 DEF CheckEnds
  <2>2. \A b \in Backends : cancel[b] # w
    BY <2>1, HealthAssumptions DEF Live, HealthInv, OneLiveCheck
  <2> QED BY <1>1, <2>1, <2>2
          DEF HealthInv, TypeOK, OneLiveCheck, FreeIsInLoop, NoFailureComing, Tracked
<1>4. CASE CallbackReturns(w)
  <2>1. wpc' = [wpc EXCEPT ![w] = "loop"] /\ UNCHANGED check
    BY <1>4 DEF CallbackReturns
  <2> QED BY <1>1, <2>1
          DEF HealthInv, TypeOK, OneLiveCheck, FreeIsInLoop, NoFailureComing, Tracked
<1> QED BY <1>2, <1>3, <1>4

(* Reloads, the event loop, the end, and backends that die and return.       *)
LEMMA MainHealth ==
    ASSUME HealthInv, FetchConfig \/ Environment
    PROVE  HealthInv'
<1>1. ASSUME NEW c \in Files, Reload(c) PROVE HealthInv'
  <2>1. current' \in Configs /\ UNCHANGED <<alive, mpc, arg, services, statuses, cancel, off,
                                            check, wpc, suspect>>
    BY <1>1 DEF Reload, Configs, healthVars
  <2> QED BY <2>1 DEF HealthInv, TypeOK, OneLiveCheck, FreeIsInLoop,
                      NoFailureComing, Tracked
<1>2. CASE FetchConfig
  BY <1>2 DEF FetchConfig, healthVars, HealthInv, TypeOK, OneLiveCheck, FreeIsInLoop,
              NoFailureComing, Tracked
<1>3. CASE Stop
  <2>1. /\ mpc' = "stopped" /\ off' = {} /\ services' = [n \in Names |-> "none"]
        /\ statuses' = [b \in Backends |-> Absent]
        /\ cancel' = [b \in Backends |-> Absent]
        /\ UNCHANGED <<alive, current, arg, check, wpc, suspect>>
    BY <1>3 DEF Stop
  <2>2. TypeOK'
    BY <2>1 DEF HealthInv, TypeOK
  <2> QED BY <2>1, <2>2 DEF HealthInv, OneLiveCheck, FreeIsInLoop,
                            NoFailureComing, Tracked
<1>4. ASSUME NEW b \in Flaky, BackendFlips(b) PROVE HealthInv'
  <2>1. /\ b \in Backends /\ alive' = [alive EXCEPT ![b] = ~@]
        /\ suspect' = IF alive[b] THEN suspect \cup {b} ELSE suspect
        /\ UNCHANGED <<current, mpc, arg, services, statuses, cancel, off, check, wpc>>
    BY <1>4, HealthAssumptions DEF BackendFlips, healthVars
  <2>2. alive' \in [Backends -> BOOLEAN] /\ suspect' \subseteq Backends
    BY <2>1 DEF HealthInv, TypeOK
  <2>3. TypeOK' /\ OneLiveCheck' /\ FreeIsInLoop'
    BY <2>1, <2>2 DEF HealthInv, TypeOK, OneLiveCheck, FreeIsInLoop,
                      Tracked
  <2>4. NoFailureComing'
    <3> SUFFICES ASSUME NEW a \in Backends, Tracked(a), a \notin suspect'
                 PROVE  alive'[a] /\ statuses[a].healthy /\ wpc[cancel[a]] # "fail"
      BY <2>1 DEF NoFailureComing, Tracked
    <3>1. a \notin suspect
      BY <2>1
    <3>2. alive[a] /\ statuses[a].healthy /\ wpc[cancel[a]] # "fail"
      BY <3>1 DEF HealthInv, NoFailureComing
    <3>3. a # b
      BY <2>1, <3>2
    <3>4. alive'[a] = alive[a]
      BY <2>1, <3>3 DEF HealthInv, TypeOK
    <3> QED BY <3>2, <3>4
  <2> QED BY <2>3, <2>4 DEF HealthInv
<1> QED BY <1>1, <1>2, <1>3, <1>4 DEF Environment

(* What DownSurvivesReload asks of one step.                                 *)
KeepsDown ==
    \A b \in Backends : ~IsHealthy(b) /\ IsHealthy(b)' =>
        \/ \E w \in Workers :
              wpc[w] = "ok" /\ check[w].backend = b /\ wpc'[w] # "ok"
        \/ /\ mpc = "targets" /\ mpc' = "select"
           /\ \/ b \notin Listed(arg)
              \/ \E i \in DOMAIN arg : Lists(arg, i, b) /\ arg[i].name \in off'
        \/ mpc' = "stopped"

(* UpdateTargets makes a backend healthy only where it drops its status.     *)
LEMMA TargetsKeepDown ==
    ASSUME HealthInv, SyncTargets
    PROVE  KeepsDown
<1> SUFFICES ASSUME NEW b \in Backends, ~IsHealthy(b), IsHealthy(b)'
             PROVE  \/ b \notin Listed(arg)
                    \/ \E i \in DOMAIN arg : Lists(arg, i, b) /\ arg[i].name \in off'
  BY UpdateTargetsGives DEF KeepsDown
<1>1. Tracked(b) /\ ~statuses[b].healthy
  BY DEF IsHealthy
<1>2. ~Keeps(arg, b)
  <2>1. Keeps(arg, b) => statuses'[b] = statuses[b]
    BY UpdateTargetsGives DEF Starts
  <2> QED BY <1>1, <2>1 DEF IsHealthy, Tracked
<1>3. CASE DeletedAt(arg, b) = 0
  BY <1>1, <1>2, <1>3 DEF Keeps
<1>4. CASE DeletedAt(arg, b) # 0
  <2> DEFINE d == DeletedAt(arg, b)
  <2>1. arg \in Configs /\ off' = {arg[i].name : i \in {j \in DOMAIN arg : SwitchesOff(arg, j)}}
    BY UpdateTargetsGives
  <2>2. d \in DOMAIN arg /\ SwitchesOff(arg, d) /\ Lists(arg, d, b)
    BY <1>4, <2>1, DeletedAtIs, ConfigEntries
  <2> QED BY <2>1, <2>2
<1> QED BY <1>3, <1>4

(* A failed check makes no backend healthy, and a result is of one backend.  *)
LEMMA ResultKeepsDown ==
    ASSUME HealthInv, NEW w \in Workers, HandleResult(w)
    PROVE  KeepsDown
<1> SUFFICES ASSUME NEW b \in Backends, ~IsHealthy(b), IsHealthy(b)'
             PROVE  wpc[w] = "ok" /\ check[w].backend = b /\ wpc'[w] # "ok"
  BY DEF KeepsDown
<1>1. wpc[w] \in {"ok", "fail"} /\ statuses[b] # Absent /\ ~statuses[b].healthy
  BY DEF HandleResult, IsHealthy, Tracked
<1>2. statuses'[b] # statuses[b]
  BY <1>1 DEF IsHealthy, Tracked
<1>3. /\ statuses[check[w].backend] # Absent
      /\ statuses' = [statuses EXCEPT ![check[w].backend] =
            IF wpc[w] = "ok" THEN Succeeded(statuses[check[w].backend], check[w])
                             ELSE Failed(statuses[check[w].backend], check[w])]
      /\ wpc' \in {[wpc EXCEPT ![w] = "changed"], [wpc EXCEPT ![w] = "loop"]}
  BY <1>2 DEF HandleResult
<1>4. b = check[w].backend
  BY <1>2, <1>3 DEF HealthInv, TypeOK
<1>5. wpc'[w] # "ok"
  BY <1>3 DEF HealthInv, TypeOK
<1>6. wpc[w] = "ok"
  <2>1. ~Failed(statuses[b], check[w]).healthy
    BY <1>1 DEF Failed
  <2>2. statuses'[b] = IF wpc[w] = "ok" THEN Succeeded(statuses[b], check[w])
                                        ELSE Failed(statuses[b], check[w])
    BY <1>3, <1>4 DEF HealthInv, TypeOK
  <2>3. statuses[b] \in Status /\ check[w] \in Check
    BY <1>1 DEF HealthInv, TypeOK, FreeIsInLoop
  <2>4. Failed(statuses[b], check[w]) # Absent
    <3>1. statuses[b].fails \in 0..MaxCount /\ check[w].fail \in Nat /\ MaxCount \in Nat \ {0}
      BY <2>3, HealthAssumptions DEF Status, Check
    <3>2. Count(statuses[b].fails) \in 0..MaxCount
      BY <3>1 DEF Count
    <3>3. Failed(statuses[b], check[w]) \in Status
      BY <1>1, <3>1, <3>2 DEF Failed, Status
    <3> QED BY <3>3, HealthAssumptions
  <2> QED BY <2>1, <2>2, <2>4 DEF IsHealthy, Tracked
<1> QED BY <1>4, <1>5, <1>6

LEMMA StepKeepsDown ==
    ASSUME HealthInv, [Next]_vars
    PROVE  KeepsDown
<1>1. CASE SyncTargets
  BY <1>1, TargetsKeepDown
<1>2. CASE \E w \in Workers : HandleResult(w)
  BY <1>2, ResultKeepsDown
<1>3. CASE Stop
  BY <1>3 DEF Stop, KeepsDown
<1>4. CASE UNCHANGED statuses
  BY <1>4 DEF KeepsDown, IsHealthy, Tracked
<1>5. SyncTargets \/ (\E w \in Workers : HandleResult(w)) \/ Stop \/ UNCHANGED statuses
  BY DEF Next, Main, Environment, Worker, FetchConfig, Reload, BackendFlips, Probe,
         CheckEnds, CallbackReturns, vars, healthVars
<1> QED BY <1>1, <1>2, <1>3, <1>4, <1>5

-----------------------------------------------------------------------------
(* The inductive invariant of healthcheck.Manager, through any reloads,      *)
(* results and lingering goroutines.                                         *)
THEOREM HealthInvariant == Spec => []HealthInv
<1>1. Init => HealthInv
  BY InitHealth
<1>2. HealthInv /\ [Next]_vars => HealthInv'
  <2> SUFFICES ASSUME HealthInv, [Next]_vars PROVE HealthInv'
    OBVIOUS
  <2>1. CASE Next
    BY <2>1, TargetsHealth, ResultHealth, WorkerHealth, MainHealth DEF Next, Main, Worker
  <2>2. CASE UNCHANGED vars
    <3>1. UNCHANGED <<alive, current, mpc, arg, services, statuses, cancel, off, check,
                      wpc, suspect>>
      BY <2>2 DEF vars, healthVars
    <3> QED BY <3>1 DEF HealthInv, TypeOK, OneLiveCheck, FreeIsInLoop,
                        NoFailureComing, Tracked
  <2> QED BY <2>1, <2>2
<1> QED BY <1>1, <1>2, PTL DEF Spec

(* The state of the manager keeps its shape: counts stay below MaxCount and  *)
(* goroutines run a check that some service asked for.                       *)
THEOREM HealthTypeCorrect == Spec => []TypeOK
<1>1. HealthInv => TypeOK
  BY DEF HealthInv
<1> QED BY <1>1, HealthInvariant, PTL

(* Every status has exactly one live goroutine, however services share       *)
(* backends (manager.go:67-181, UpdateTargets and stopServiceBackendsLocked).*)
THEOREM EveryStatusIsChecked == Spec => []OneLiveCheck
<1>1. HealthInv => OneLiveCheck
  BY DEF HealthInv
<1> QED BY <1>1, HealthInvariant, PTL

(* A verdict survives reloads: what a list's services, their order or their  *)
(* checks become, a backend found down stays down until a check of it        *)
(* succeeds, it leaves the list, or a service that lists it is switched off  *)
(* (manager.go:67-181, UpdateTargets; handleCheckResult; Stop).              *)
THEOREM DownIsKept == Spec => DownSurvivesReload
<1>1. HealthInv /\ [Next]_vars => KeepsDown
  BY StepKeepsDown
<1> QED BY <1>1, HealthInvariant, PTL DEF Spec, KeepsDown, DownSurvivesReload

(* The check of a backend, once it has reported a success that leaves the    *)
(* backend up, is not contradicted while the backend answers: other          *)
(* services' thresholds, reloads and goroutines of earlier lives of the      *)
(* address take it down only by a failure of a cancelled goroutine, and that *)
(* exception ends with its next success (manager.go:201-246).                *)
THEOREM AnsweringIsUp == Spec => []AliveStaysUp
<1>1. HealthInv => AliveStaysUp
  BY DEF HealthInv, NoFailureComing, AliveStaysUp, IsHealthy
<1> QED BY <1>1, HealthInvariant, PTL
=============================================================================
