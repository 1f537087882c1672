-------------------------- MODULE SnatChainProofs --------------------------
(* For any set of rule keys and targets: no rule leaks, and a pass without a *)
(* failing call brings in line what m.managed knows of. The two invariants   *)
(* are inductive together with what m.managed says about the chain.          *)
EXTENDS SnatChain, TLAPS

(* m.managed is true of the chain except for the spoiled keys. *)
ManagedIsInChain ==
    up => \A k \in RuleKeys \ half :
             managed[k] # Absent => <<k, managed[k]>> \in rules

(* After a pass without a failing call m.managed is the desired map. *)
CleanMeansManaged == up /\ clean => managed = want

ChainInv == TypeOK /\ NoOrphanRule /\ ManagedIsInChain /\ CleanMeansManaged

-----------------------------------------------------------------------------
(* What one key's entry of m.managed can become in a pass. *)
LEMMA ManagedAfterCases ==
    ASSUME NEW old, NEW new, NEW delOK, NEW addOK
    PROVE  /\ ManagedAfter(old, new, delOK, addOK) \in {old, new}
           /\ (AddsRule(old, new, delOK) /\ addOK)
                 => ManagedAfter(old, new, delOK, addOK) = new
BY DEF ManagedAfter, AddsRule

(* Before the first process the chain is empty, and so are the maps. *)
LEMMA InitChain == Init => ChainInv
BY DEF Init, ChainInv, TypeOK, NoOrphanRule, ManagedIsInChain,
       CleanMeansManaged, NoRules, RuleMap

(* A pass preserves the invariant, whichever of its calls fail. *)
LEMMA ReconcileChain ==
    ASSUME ChainInv, up,
           NEW desired \in RuleMap, NEW dels \in SUBSET RuleKeys,
           NEW adds \in SUBSET RuleKeys,
           Reconcile(desired, dels, adds)
    PROVE  ChainInv'
<1> USE DEF ChainInv, TypeOK, NoOrphanRule, ManagedIsInChain, CleanMeansManaged
<1> DEFINE d(k) == k \in dels
           a(k) == k \in adds /\ exists
           deletes(k) == DeletesRule(managed[k], desired[k])
           inserts(k) == AddsRule(managed[k], desired[k], d(k))
           removed(r) == r[2] = managed[r[1]] /\ deletes(r[1]) /\ d(r[1])
           added(r) == r[2] = desired[r[1]] /\ inserts(r[1]) /\ a(r[1])
<1>1. /\ rules' = {r \in Rules : (r \in rules /\ ~removed(r)) \/ added(r)}
      /\ managed' = [k \in RuleKeys |->
                        ManagedAfter(managed[k], desired[k], d(k), a(k))]
      /\ want' = desired
      /\ clean' = (\A k \in RuleKeys :
                      (deletes(k) => d(k)) /\ (inserts(k) => a(k)))
      /\ leftover' = {r \in leftover : r \in rules'}
      /\ half' = {k \in RuleKeys :
                     \/ deletes(k) /\ d(k) /\ inserts(k) /\ ~a(k)
                     \/ k \in half /\ ~(deletes(k) /\ d(k))}
      /\ UNCHANGED <<up, exists, jump>>
  BY DEF Reconcile
<1>2. \A k \in RuleKeys : managed[k] \in Targets \cup {Absent}
                          /\ desired[k] \in Targets \cup {Absent}
  BY DEF RuleMap
<1>3. \A k \in RuleKeys : managed'[k] = ManagedAfter(managed[k], desired[k], d(k), a(k))
  BY <1>1
<1> HIDE DEF d, a
<1>4. TypeOK'
  <2>1. \A k \in RuleKeys : managed'[k] \in Targets \cup {Absent}
    BY <1>2, <1>3, ManagedAfterCases
  <2>2. managed' \in RuleMap
    BY <2>1, <1>1 DEF RuleMap
  <2> QED BY <2>2, <1>1
<1>5. NoOrphanRule'
  <2> SUFFICES ASSUME NEW r \in rules', r \notin leftover'
               PROVE  managed'[r[1]] = r[2]
    BY <1>1
  <2>1. r \in Rules /\ r[1] \in RuleKeys /\ r[2] \in Targets
    BY <1>1 DEF Rules
  <2>2. CASE added(r)
    BY <2>1, <2>2, <1>3, ManagedAfterCases
  <2>3. CASE r \in rules /\ ~removed(r) /\ ~added(r)
    <3>1. r \notin leftover
      BY <1>1
    <3>2. managed[r[1]] = r[2]
      BY <3>1, <2>3
    <3>3. ~(deletes(r[1]) /\ d(r[1]))
      BY <3>2, <2>3
    <3> QED BY <3>2, <3>3, <1>3, <2>1, AbsentAssumption
            DEF ManagedAfter, AddsRule, DeletesRule
  <2> QED BY <2>2, <2>3, <1>1
<1>6. ManagedIsInChain'
  <2> SUFFICES ASSUME NEW k \in RuleKeys, k \notin half', managed'[k] # Absent
               PROVE  <<k, managed'[k]>> \in rules'
    BY <1>1
  <2> DEFINE r == <<k, managed'[k]>>
  <2>1. r \in Rules
    BY <1>4, AbsentAssumption DEF Rules, RuleMap
  <2>2. CASE inserts(k) /\ a(k)
    <3>1. managed'[k] = desired[k]
      BY <2>2, <1>3 DEF ManagedAfter
    <3> QED BY <3>1, <2>1, <2>2, <1>1
  <2>3. CASE ~(inserts(k) /\ a(k))
    <3>1. managed'[k] = managed[k] /\ ~(desired[k] = Absent /\ d(k))
      BY <2>3, <1>3 DEF ManagedAfter
    <3>2. ~(deletes(k) /\ d(k))
      BY <3>1, <2>3, <1>1 DEF AddsRule, DeletesRule
    <3>3. k \notin half
      BY <3>2, <1>1
    <3>4. r \in rules
      BY <3>1, <3>3
    <3> QED BY <3>2, <3>4, <2>1, <1>1
  <2> QED BY <2>2, <2>3
<1>7. CleanMeansManaged'
  <2> SUFFICES ASSUME clean' PROVE managed' = want'
    OBVIOUS
  <2>1. ASSUME NEW k \in RuleKeys PROVE managed'[k] = desired[k]
    <3>1. (deletes(k) => d(k)) /\ (inserts(k) => a(k))
      BY <1>1
    <3> QED BY <3>1, <1>3 DEF ManagedAfter, AddsRule, DeletesRule
  <2> QED BY <2>1, <1>1, <1>4 DEF RuleMap
<1> QED BY <1>4, <1>5, <1>6, <1>7

(* Every step preserves it: the others empty m.managed and end the claims. *)
LEMMA NextChain == ChainInv /\ [Next]_vars => ChainInv'
<1> SUFFICES ASSUME ChainInv, [Next]_vars PROVE ChainInv'
  OBVIOUS
<1> USE DEF ChainInv, TypeOK, NoOrphanRule, ManagedIsInChain, CleanMeansManaged
<1>1. ASSUME NEW ok \in SUBSET {"chain", "jump"}, NewManager(ok) PROVE ChainInv'
  BY <1>1 DEF NewManager, EnsureChain, NoRules, RuleMap
<1>2. ASSUME NEW desired \in RuleMap, NEW dels \in SUBSET RuleKeys,
             NEW adds \in SUBSET RuleKeys, up, Reconcile(desired, dels, adds)
      PROVE  ChainInv'
  BY <1>2, ReconcileChain
<1>3. ASSUME NEW ok \in SUBSET {"clear", "jump", "delete"}, up, Cleanup(ok)
      PROVE  ChainInv'
  BY <1>3 DEF Cleanup, NoRules, RuleMap
<1>4. CASE up /\ Exit
  BY <1>4 DEF Exit, NoRules, RuleMap
<1>5. CASE UNCHANGED vars
  BY <1>5 DEF vars
<1> QED BY <1>1, <1>2, <1>3, <1>4, <1>5 DEF Next

(* The inductive invariant: beside NoOrphanRule and the types, that m.managed *)
(* never holds a rule the chain lacks but for a half-failed replacement, and *)
(* that after a clean pass it is the desired map.                            *)
THEOREM ChainInvariant == Spec => []ChainInv
<1>1. Init => ChainInv
  BY InitChain
<1>2. ChainInv /\ [Next]_vars => ChainInv'
  BY NextChain
<1> QED BY <1>1, <1>2, PTL DEF Spec

(* The manager and the chain keep their shape.                               *)
THEOREM SnatTypeCorrect == Spec => []TypeOK
<1>1. ChainInv => TypeOK
  BY DEF ChainInv
<1> QED BY <1>1, ChainInvariant, PTL

(* No iptables rule leaks, for any keys, targets and failing calls: each     *)
(* rule that this process added is the one m.managed holds for its key.      *)
THEOREM NoRuleLeaks == Spec => []NoOrphanRule
<1>1. ChainInv => NoOrphanRule
  BY DEF ChainInv
<1> QED BY <1>1, ChainInvariant, PTL

(* A pass without a failing call brings in line what m.managed knows of: it  *)
(* removes every other rule that this process added, and adds every desired  *)
(* one but those of half-failed replacements.                                *)
THEOREM CleanPassesConverge == Spec => []OwnRulesConverge
<1>1. ChainInv => OwnRulesConverge
  <2> SUFFICES ASSUME ChainInv, up, clean
               PROVE  /\ \A r \in rules \ leftover : want[r[1]] = r[2]
                      /\ \A k \in RuleKeys \ half :
                            want[k] # Absent => <<k, want[k]>> \in rules
    BY DEF OwnRulesConverge
  <2>1. managed = want
    BY DEF ChainInv, CleanMeansManaged
  <2>2. \A r \in rules \ leftover : want[r[1]] = r[2]
    BY <2>1 DEF ChainInv, NoOrphanRule
  <2>3. \A k \in RuleKeys \ half : want[k] # Absent => <<k, want[k]>> \in rules
    BY <2>1 DEF ChainInv, ManagedIsInChain
  <2> QED BY <2>2, <2>3
<1> QED BY <1>1, ChainInvariant, PTL
============================================================================
