----------------------------- MODULE NatProofs -----------------------------
(***************************************************************************)
(* IPVS and SNAT agree after a pass, although reconcileSNAT walks the list  *)
(* and reads the health on its own: for any lists with canonical addresses. *)
(* NatInv says what both walks were made from as long as no health changed. *)
(***************************************************************************)
EXTENDS ReconcilerProofs

InPass == pc \in {"services", "get_dests", "dests", "deletes"}

NatInv ==
    ~flipped =>
        /\ InPass => want = buildDesiredState(cfg) /\ cfg \in Configs
        /\ pc = "idle" /\ outcome = "ok" =>
              /\ want = buildDesiredState(cfg) /\ cfg \in Configs
              /\ snat = DesiredSNAT(cfg)

(* A list entry that has the key. *)
LEMMA EntryOfIndex ==
    ASSUME NEW c \in Configs, NEW k \in Keys, HasEntry(c, k)
    PROVE  \E i \in DOMAIN c : c[i].key = k /\ EntryOf(c, k) = c[i]
<1> DEFINE T == {i \in DOMAIN c : c[i].key = k}
<1>1. c \in Seq(Entry)
  BY ReconcilerAssumptions
<1>2. Len(c) \in Nat /\ DOMAIN c = 1..Len(c)
  BY <1>1
<1>3. T \in SUBSET (1..Len(c)) /\ T # {}
  BY <1>2 DEF HasEntry
<1>4. \E i \in T : \A j \in T : j <= i
  <2> HIDE DEF T
  <2> QED BY <1>2, <1>3, LastExists
<1>5. \E i \in DOMAIN c : c[i].key = k /\ \A j \in DOMAIN c : c[j].key = k => j <= i
  BY <1>4
<1> QED BY <1>5 DEF EntryOf

(* A backend that some full_nat entry serves has a rule. *)
LEMMA ServedHasRule ==
    ASSUME NEW c \in Configs, NEW r \in RuleKeys, NatEntries(c, r) # {}
    PROVE  DesiredSNAT(c)[r] # Absent
<1> DEFINE T == NatEntries(c, r)
<1>1. c \in Seq(Entry)
  BY ReconcilerAssumptions
<1>2. Len(c) \in Nat /\ DOMAIN c = 1..Len(c)
  BY <1>1
<1>3. T \in SUBSET (1..Len(c)) /\ \A i \in T : c[i].nat # Absent
  BY <1>2 DEF NatEntries
<1>4. \E i \in T : \A j \in T : j <= i
  <2> HIDE DEF T
  <2>1. T # {}
    BY DEF T
  <2> QED BY <1>2, <1>3, <2>1, LastExists
<1>5. (CHOOSE i \in T : \A j \in T : j <= i) \in T
  BY <1>4
<1> QED BY <1>3, <1>5 DEF DesiredSNAT

(* In any state: a destination that buildDesiredState asks for belongs to an *)
(* entry that reconcileSNAT makes a rule from.                               *)
LEMMA WalksAgree ==
    ASSUME NEW c \in Configs, NEW k \in Keys, NEW b \in Backends,
           HasEntry(c, k), EntryOf(c, k).nat # Absent,
           buildDesiredState(c)[k].dests[b] # Absent
    PROVE  DesiredSNAT(c)[<<b, Proto[k]>>] # Absent
<1>1. PICK i \in DOMAIN c : c[i].key = k /\ EntryOf(c, k) = c[i]
  BY EntryOfIndex
<1>2. Serves(c[i], b)
  BY <1>1 DEF buildDesiredState, DesiredService
<1>3. <<b, Proto[k]>> \in RuleKeys
  BY ReconcilerAssumptions DEF RuleKeys
<1>4. i \in NatEntries(c, <<b, Proto[k]>>)
  BY <1>1, <1>2 DEF NatEntries
<1> QED BY <1>3, <1>4, ServedHasRule

(* What the two walks are made from does not change while the health does    *)
(* not.                                                                      *)
LEMMA WalksUnchanged ==
    ASSUME UNCHANGED <<cfg, health>>
    PROVE  /\ buildDesiredState(cfg)' = buildDesiredState(cfg)
           /\ DesiredSNAT(cfg)' = DesiredSNAT(cfg)
BY DEF buildDesiredState, DesiredService, EntryOf, HasEntry, DesiredSNAT,
       NatEntries, Serves

LEMMA NatStep ==
    ASSUME PassInv, NatInv, [Next]_vars
    PROVE  NatInv'
<1>1. CASE \E c \in Configs : ReconcileBegin(c)
  <2>1. PICK c \in Configs : ReconcileBegin(c)
    BY <1>1
  <2>2. cfg' = c /\ want' = buildDesiredState(c) /\ pc' = "services" /\ health' = health
    BY <2>1 DEF ReconcileBegin
  <2>3. buildDesiredState(cfg)' = buildDesiredState(c)
    BY <2>2 DEF buildDesiredState, DesiredService, EntryOf, HasEntry, Serves
  <2> QED BY <2>2, <2>3 DEF NatInv, InPass
<1>2. CASE FinishReconcile
  <2>1. /\ pc = "deletes" /\ pc' = "idle"
        /\ UNCHANGED <<cfg, want, health, flipped>>
        /\ outcome' = "ok" => snat' = DesiredSNAT(cfg)
    BY <1>2 DEF FinishReconcile, history
  <2> QED BY <2>1, WalksUnchanged DEF NatInv, InPass
<1>3. CASE \/ \E c \in Configs : ReconcileAborts(c)
           \/ Start \/ Stop \/ Cleanup
           \/ \E b \in Flaky : HealthFlip(b)
  <2>1. CASE \/ \E c \in Configs : ReconcileAborts(c)
             \/ Start \/ Stop
    BY <2>1 DEF ReconcileAborts, Start, Stop, NatInv, InPass, PassInv, TodoShape
  <2>2. CASE Cleanup
    BY <2>2 DEF Cleanup, CleanupAborts, CleanupBegin, CleanupEnd, CleanupKey, NatInv,
       InPass
  <2>3. CASE \E b \in Flaky : HealthFlip(b)
    BY <2>3 DEF HealthFlip, NatInv
  <2> QED BY <1>3, <2>1, <2>2, <2>3
<1>4. CASE \/ \E k \in Keys, ok \in BOOLEAN : EnsureService(k, ok) \/ DeleteService(k, ok)
           \/ \E ok \in BOOLEAN : GetDestinations(ok)
           \/ \E b \in Backends, ok \in BOOLEAN : ChangeDestination(b, ok)
           \/ BeginDeletes
  <2>1. /\ UNCHANGED <<cfg, want, health, flipped>> /\ InPass
        /\ pc' # "idle"
    BY <1>4 DEF EnsureService, DeleteService, GetDestinations, ChangeDestination,
       BeginDeletes, history, InPass
  <2> QED BY <2>1, WalksUnchanged DEF NatInv
<1>5. CASE \/ \E k \in AdminKeys : AdminDelete(k) \/ \E s \in AdminServices : AdminAdd(k, s)
           \/ UNCHANGED vars
  <2>1. UNCHANGED <<cfg, want, health, flipped, snat, pc, outcome>>
    BY <1>5 DEF AdminDelete, AdminAdd, locals, vars, history
  <2> QED BY <2>1, WalksUnchanged DEF NatInv, InPass
<1> QED BY <1>1, <1>2, <1>3, <1>4, <1>5 DEF Next, Reconcile, Environment

(* After a pass that succeeded, undisturbed and without a health change,     *)
(* every destination of a full_nat service has its SNAT rule, for any lists, *)
(* protocols and shared backends (reconciler.go:184-237, 241-281).           *)
THEOREM NatIsCovered ==
    ASSUME Canonical
    PROVE  Spec => []NatCoversIpvs
<1>1. Init => NatInv
  BY DEF Init, NatInv, InPass
<1>2. PassInv /\ NatInv => NatCoversIpvs
  <2> SUFFICES ASSUME PassInv, NatInv, pc = "idle", outcome = "ok", ~disturbed,
                      ~flipped, NEW k \in Keys, NEW b \in Backends,
                      HasEntry(cfg, k), EntryOf(cfg, k).nat # Absent,
                      ipvs[Canon[k]].dests[b] # Absent
               PROVE  snat[<<b, Proto[k]>>] # Absent
    BY DEF NatCoversIpvs
  <2>1. cfg \in Configs /\ want = buildDesiredState(cfg) /\ snat = DesiredSNAT(cfg)
    BY DEF NatInv
  <2>2. want[k] # Absent
    <3>1. EntryOf(cfg, k) \in Entry
      BY <2>1, EntryOfType
    <3>2. want[k] = DesiredService(EntryOf(cfg, k))
      BY <2>1 DEF buildDesiredState
    <3>3. DesiredService(EntryOf(cfg, k)) \in Service
      BY <3>1 DEF DesiredService, Service, Entry, Serves
    <3> QED BY <3>2, <3>3, ReconcilerAssumptions
  <2>3. ipvs[Canon[k]] = want[k]
    BY <2>2 DEF PassInv, OkMeansInSync
  <2> QED BY <2>1, <2>3, WalksAgree
<1>3. PassInv /\ NatInv /\ [Next]_vars => NatInv'
  BY NatStep
<1> QED BY <1>1, <1>2, <1>3, PassInvariant, PTL DEF Spec
=============================================================================
