----------------------------- MODULE SyncProofs -----------------------------
(***************************************************************************)
(* Reconciler implements KernelSync, for any keys, backends and lists with  *)
(* canonical listen addresses: each action maps to an action of KernelSync  *)
(* or to a stutter. That a successful pass has reached its goal is          *)
(* OkMeansInSync and CleanupRemovesOurs of the step's result (PassInv').    *)
(***************************************************************************)
EXTENDS ReconcilerProofs

(* The initial states map to initial states. *)
LEMMA InitRefines == Init => Sync!Init
BY DEF Init, Sync!Init, NoService, Sync!Empty, Goal, Busy

(* A step that leaves what KernelSync sees is a stutter. *)
LEMMA Stutters ==
    ASSUME UNCHANGED <<ipvs, want, ours, outcome, disturbed>>,
           Busy' = Busy, Goal' = Goal
    PROVE  UNCHANGED Sync!vars
BY DEF Sync!vars

(* The table and the goal are tables of KernelSync. *)
LEMMA TablesAgree ==
    ASSUME PassInv
    PROVE  ipvs \in Sync!Tables /\ Goal \in Sync!Tables
BY DEF PassInv, TypeOK, Sync!Tables, Sync!Service, Service, Goal, NoService

(* Passes that begin, and calls that are refused before they change a thing. *)
LEMMA BeginRefines ==
    ASSUME PassInv, PassInv',
           CleanupBegin \/ \E c \in Configs : ReconcileBegin(c)
    PROVE  Sync!Begin
<1>1. Goal' \in Sync!Tables
  BY DEF PassInv, TypeOK, Sync!Tables, Sync!Service, Service, Goal, NoService
<1>2. CASE CleanupBegin
  BY <1>1, <1>2 DEF CleanupBegin, Sync!Begin, Busy
<1>3. CASE \E c \in Configs : ReconcileBegin(c)
  BY <1>1, <1>3 DEF ReconcileBegin, Sync!Begin, Busy
<1> QED BY <1>2, <1>3

LEMMA RefuseRefines ==
    ASSUME PassInv, PassInv',
           CleanupAborts \/ \E c \in Configs : ReconcileAborts(c)
    PROVE  Sync!Refuse
<1>1. Goal' \in Sync!Tables
  BY DEF PassInv, TypeOK, Sync!Tables, Sync!Service, Service, Goal, NoService
<1>2. CASE CleanupAborts
  BY <1>1, <1>2 DEF CleanupAborts, Sync!Refuse, Busy, history
<1>3. CASE \E c \in Configs : ReconcileAborts(c)
  BY <1>1, <1>3 DEF ReconcileAborts, Sync!Refuse, Busy, history
<1> QED BY <1>2, <1>3

(* The calls that write: what changes is one key, and towards the goal. *)
LEMMA EnsureRefines ==
    ASSUME Canonical, PassInv, PassInv',
           NEW k \in Keys, NEW ok \in BOOLEAN, EnsureService(k, ok)
    PROVE  [Sync!Next]_(Sync!vars)
<1> DEFINE s == [sched |-> want[k].sched, dests |-> NoDests]
<1>1. /\ Canon[k] = k /\ pc = "services" /\ k \in todo
      /\ want[k] \in Service /\ Goal = want
  BY DEF EnsureService, Canonical, PassInv, TodoShape, Visiting, TypeOK, Goal
<1>2. /\ UNCHANGED <<want, outcome, disturbed>>
      /\ pc' \in {"services", "get_dests"}
  BY <1>1 DEF EnsureService
<1>3. Busy /\ Busy' /\ Goal' = Goal
  BY <1>1, <1>2 DEF Busy, Goal
<1>4. CASE ~Exists(k) /\ NewService(k, want[k]) /\ ours' = ours \cup {k}
  <2>1. ipvs' = [ipvs EXCEPT ![k] = s] /\ ipvs[k] = Absent
    BY <1>4 DEF NewService, Exists
  <2>2. /\ ipvs'[k] = s /\ ipvs' # ipvs
        /\ \A j \in Keys \ {k} : ipvs'[j] = ipvs[j]
    BY <2>1, <1>1, ReconcilerAssumptions DEF PassInv, TypeOK, Service, NoDests
  <2>3. Sync!Towards(ipvs[k], ipvs'[k], Goal[k])
    BY <2>1, <2>2, <1>1, ReconcilerAssumptions
       DEF Sync!Towards, Service, NoDests
  <2>4. ipvs' \in Sync!Tables
    BY DEF PassInv, TypeOK, Sync!Tables, Sync!Service, Service
  <2>5. Sync!Write(k)
    BY <1>2, <1>3, <1>4, <2>1, <2>2, <2>3, <2>4 DEF Sync!Write
  <2> QED BY <2>5 DEF Sync!Next
<1>5. CASE Exists(k) /\ UpdateService(k, want[k]) /\ ours' = ours
  <2>1. /\ ipvs[k] \in Service /\ ipvs' = [ipvs EXCEPT ![k].sched = want[k].sched]
    BY <1>5 DEF UpdateService, Exists, PassInv, TypeOK
  <2>2. /\ ipvs'[k] = [ipvs[k] EXCEPT !.sched = want[k].sched]
        /\ \A j \in Keys \ {k} : ipvs'[j] = ipvs[j]
    BY <2>1 DEF PassInv, TypeOK
  <2>3. ipvs'[k] \in Service /\ ipvs'[k].dests = ipvs[k].dests
        /\ ipvs'[k].sched = want[k].sched
    BY <2>1, <2>2, <1>1 DEF Service
  <2>4. Sync!Towards(ipvs[k], ipvs'[k], Goal[k])
    BY <2>1, <2>3, <1>1, ReconcilerAssumptions DEF Sync!Towards
  <2>5. ipvs' \in Sync!Tables
    BY DEF PassInv, TypeOK, Sync!Tables, Sync!Service, Service
  <2>6. CASE ipvs' = ipvs
    BY <2>6, <1>2, <1>3, <1>5, Stutters
  <2>7. CASE ipvs' # ipvs
    <3>1. Sync!Write(k)
      BY <2>7, <1>2, <1>3, <1>5, <2>1, <2>2, <2>3, <2>4, <2>5, ReconcilerAssumptions
         DEF Sync!Write
    <3> QED BY <3>1 DEF Sync!Next
  <2> QED BY <2>6, <2>7
<1>6. CASE UNCHANGED <<ipvs, ours>>
  BY <1>2, <1>3, <1>6, Stutters
<1> QED
  BY <1>1, <1>4, <1>5, <1>6 DEF EnsureService, CallFails

LEMMA DestinationRefines ==
    ASSUME Canonical, PassInv, PassInv',
           NEW b \in Backends, NEW ok \in BOOLEAN, ChangeDestination(b, ok)
    PROVE  [Sync!Next]_(Sync!vars)
<1>1. /\ pc = "dests" /\ cur \in Keys /\ Canon[cur] = cur
      /\ want[cur] \in Service /\ Goal = want
  BY DEF ChangeDestination, Canonical, PassInv, TypeOK, Goal
<1>2. /\ UNCHANGED <<want, outcome, disturbed, ours>>
      /\ pc' \in {"services", "dests"}
  BY <1>1 DEF ChangeDestination
<1>3. Busy /\ Busy' /\ Goal' = Goal
  BY <1>1, <1>2 DEF Busy, Goal
<1>4. CASE UNCHANGED ipvs
  BY <1>2, <1>3, <1>4, Stutters
<1>5. CASE ipvs' # ipvs /\ Exists(cur) /\ SetDestination(cur, b, want[cur].dests[b])
  <2>1. ipvs[cur] \in Service
    BY <1>1, <1>5 DEF Exists, PassInv, TypeOK
  <2>2. /\ ipvs'[cur] = [ipvs[cur] EXCEPT !.dests[b] = want[cur].dests[b]]
        /\ \A j \in Keys \ {cur} : ipvs'[j] = ipvs[j]
    BY <1>1, <1>5 DEF SetDestination, PassInv, TypeOK
  <2>3. /\ ipvs'[cur] \in Service /\ ipvs'[cur].sched = ipvs[cur].sched
        /\ \A x \in Backends : ipvs'[cur].dests[x] =
              IF x = b THEN want[cur].dests[b] ELSE ipvs[cur].dests[x]
    BY <1>1, <2>1, <2>2 DEF Service
  <2>4. Sync!Towards(ipvs[cur], ipvs'[cur], Goal[cur])
    BY <2>1, <2>3, <1>1, ReconcilerAssumptions DEF Sync!Towards
  <2>5. ipvs' \in Sync!Tables
    BY DEF PassInv, TypeOK, Sync!Tables, Sync!Service, Service
  <2>6. Sync!Write(cur)
    BY <1>2, <1>3, <1>5, <2>1, <2>2, <2>3, <2>4, <2>5, ReconcilerAssumptions
       DEF Sync!Write
  <2> QED BY <1>1, <2>6 DEF Sync!Next
<1> QED BY <1>1, <1>4, <1>5 DEF ChangeDestination, CallFails

LEMMA DeletionRefines ==
    ASSUME PassInv, PassInv',
           NEW k \in Keys, NEW ok \in BOOLEAN,
           DeleteService(k, ok) \/ CleanupKey(k, ok)
    PROVE  [Sync!Next]_(Sync!vars)
<1>1. /\ pc \in {"deletes", "cleanup"} /\ pc' = pc /\ k \in todo
      /\ UNCHANGED <<want, outcome, disturbed>>
  BY DEF DeleteService, CleanupKey
<1>2. Goal[k] = Absent
  BY <1>1 DEF Goal, NoService, PassInv, TodoShape
<1>3. Busy /\ Busy' /\ Goal' = Goal
  BY <1>1 DEF Busy, Goal
<1>4. CASE UNCHANGED <<ipvs, ours>>
  BY <1>1, <1>3, <1>4, Stutters
<1>5. CASE Exists(k) /\ DelService(k) /\ ours' = ours \ {k}
  <2>1. /\ ipvs[k] # Absent /\ ipvs'[k] = Absent
        /\ \A j \in Keys \ {k} : ipvs'[j] = ipvs[j]
    BY <1>5 DEF Exists, DelService, PassInv, TypeOK
  <2>2. Sync!Towards(ipvs[k], ipvs'[k], Goal[k])
    BY <1>2, <2>1 DEF Sync!Towards
  <2>3. ipvs' \in Sync!Tables
    BY DEF PassInv, TypeOK, Sync!Tables, Sync!Service, Service
  <2>4. Sync!Write(k)
    BY <1>1, <1>3, <1>5, <2>1, <2>2, <2>3 DEF Sync!Write
  <2> QED BY <2>4 DEF Sync!Next
<1> QED BY <1>4, <1>5, Zenon DEF DeleteService, CleanupKey, CallFails

(* A pass that returns: nil, undisturbed, means that the goal is reached.    *)
LEMMA FinishRefines ==
    ASSUME Canonical, PassInv, PassInv', FinishReconcile \/ CleanupEnd
    PROVE  Sync!Finish
<1>1. /\ pc \in {"deletes", "cleanup"} /\ pc' \in {"idle", "cleaned"}
      /\ outcome' \in {"ok", "error"}
      /\ UNCHANGED <<ipvs, want, ours, disturbed>>
      /\ pc = "deletes" <=> pc' = "idle"
  BY DEF FinishReconcile, CleanupEnd, history
<1>2. Busy /\ ~Busy' /\ Goal' = Goal
  BY <1>1 DEF Busy, Goal
<1>3. ASSUME outcome' = "ok", ~disturbed
      PROVE  Sync!InSync
  <2>1. CASE pc = "deletes"
    <3>1. Goal = want /\ pc' = "idle"
      BY <1>1, <2>1 DEF Goal
    <3>2. /\ \A k \in Keys : want[k] # Absent => ipvs[k] = want[k]
          /\ \A k \in ours : want[k] = Absent => ipvs[k] = Absent
      BY <1>1, <1>3, <3>1 DEF PassInv, OkMeansInSync, Canonical
    <3> QED BY <3>1, <3>2 DEF Sync!InSync
  <2>2. CASE pc = "cleanup"
    <3>1. pc' = "cleaned" /\ ours = {}
      BY <1>1, <1>3, <2>2 DEF PassInv, CleanupRemovesOurs
    <3> QED BY <2>2, <3>1 DEF Sync!InSync, Goal, NoService
  <2> QED BY <1>1, <2>1, <2>2
<1> QED BY <1>1, <1>2, <1>3 DEF Sync!Finish

LEMMA StopRefines ==
    ASSUME PassInv, Stop
    PROVE  Sync!Crash
BY DEF Stop, Sync!Crash, Busy, Goal, NoService, Sync!Empty

(* The administrator's steps are those of another tool.                      *)
LEMMA AdminRefines ==
    ASSUME PassInv, PassInv', NEW k \in Keys,
           AdminDelete(k) \/ \E s \in AdminServices : AdminAdd(k, s)
    PROVE  Sync!Interfere(k)
<1>1. UNCHANGED <<pc, want, outcome>> /\ disturbed' = TRUE
  BY DEF AdminAdd, AdminDelete, locals
<1>2. \A j \in Keys \ {k} : ipvs'[j] = ipvs[j]
  BY DEF AdminAdd, AdminDelete, PassInv, TypeOK
<1>3. ours' = {j \in ours : ipvs'[j] # Absent}
  <2>1. \A j \in ours : ipvs[j] # Absent /\ j \in Keys
    BY DEF PassInv, CleanupCoversOurs, TypeOK
  <2>2. CASE AdminDelete(k)
    BY <2>1, <2>2, <1>2 DEF AdminDelete, PassInv, TypeOK
  <2>3. CASE \E s \in AdminServices : AdminAdd(k, s)
    BY <2>1, <2>3, <1>2 DEF AdminAdd, Exists
  <2> QED BY <2>2, <2>3
<1>4. ipvs' \in Sync!Tables
  BY DEF PassInv, TypeOK, Sync!Tables, Sync!Service, Service
<1> QED BY <1>1, <1>2, <1>3, <1>4 DEF Sync!Interfere, Busy, Goal

(* Steps that KernelSync does not see.                                       *)
LEMMA QuietRefines ==
    ASSUME PassInv,
           \/ Start \/ BeginDeletes
           \/ \E ok \in BOOLEAN : GetDestinations(ok)
           \/ \E b \in Flaky : HealthFlip(b)
           \/ UNCHANGED vars
    PROVE  UNCHANGED Sync!vars
<1>1. /\ UNCHANGED <<ipvs, want, ours, outcome, disturbed>>
      /\ \/ pc' = pc
         \/ pc = "stopped" /\ pc' = "idle"
         \/ pc = "services" /\ pc' = "deletes"
         \/ pc = "get_dests" /\ pc' \in {"dests", "services"}
  BY DEF Start, BeginDeletes, GetDestinations, HealthFlip, CallFails, vars, locals,
     history
<1>2. Busy' = Busy /\ Goal' = Goal
  BY <1>1 DEF Busy, Goal
<1> QED BY <1>1, <1>2, Stutters

(* Every step of the reconciler is one of KernelSync, or none.               *)
LEMMA NextRefines ==
    ASSUME Canonical, PassInv, PassInv', [Next]_vars
    PROVE  [Sync!Next]_(Sync!vars)
<1>1. CASE \E k \in Keys, ok \in BOOLEAN : EnsureService(k, ok)
  BY <1>1, EnsureRefines
<1>2. CASE \E b \in Backends, ok \in BOOLEAN : ChangeDestination(b, ok)
  BY <1>2, DestinationRefines
<1>3. CASE \E k \in Keys, ok \in BOOLEAN : DeleteService(k, ok) \/ CleanupKey(k, ok)
  BY <1>3, DeletionRefines
<1>4. CASE CleanupBegin \/ \E c \in Configs : ReconcileBegin(c)
  BY <1>4, BeginRefines DEF Sync!Next
<1>5. CASE CleanupAborts \/ \E c \in Configs : ReconcileAborts(c)
  BY <1>5, RefuseRefines DEF Sync!Next
<1>6. CASE FinishReconcile \/ CleanupEnd
  BY <1>6, FinishRefines DEF Sync!Next
<1>7. CASE Stop
  BY <1>7, StopRefines DEF Sync!Next
<1>8. CASE \E k \in Keys : AdminDelete(k) \/ \E s \in AdminServices : AdminAdd(k, s)
  BY <1>8, AdminRefines DEF Sync!Next
<1>9. CASE \/ Start \/ BeginDeletes
           \/ \E ok \in BOOLEAN : GetDestinations(ok)
           \/ \E b \in Flaky : HealthFlip(b)
           \/ UNCHANGED vars
  BY <1>9, QuietRefines
<1> QED
  BY <1>1, <1>2, <1>3, <1>4, <1>5, <1>6, <1>7, <1>8, <1>9, ReconcilerAssumptions
  DEF Next, Reconcile, Cleanup, Environment

(* Reconcile and Cleanup implement KernelSync: each kernel call moves one    *)
(* service towards the goal, takes away nothing that is desired, and nil     *)
(* means that the goal is reached (reconciler.go:53-178).                    *)
THEOREM ReconcilerImplementsSync ==
    ASSUME Canonical
    PROVE  Spec => ImplementsKernelSync
<1>1. PassInv /\ PassInv' /\ [Next]_vars => [Sync!Next]_(Sync!vars)
  BY NextRefines
<1> QED BY <1>1, InitRefines, PassInvariant, PTL
        DEF Spec, ImplementsKernelSync, Sync!Spec
=============================================================================
