----------------------------- MODULE SnatChain -----------------------------
(***************************************************************************)
(* One iptables chain kept by snat.linuxManager (pkg/snat/manager_linux.go):*)
(* EZLB-SNAT in the nat table, whose rules translate to one of several      *)
(* source addresses, or EZLB-FORWARD in the filter table, whose rules only  *)
(* ACCEPT. Reconcile and ReconcileForward are the same algorithm; for the   *)
(* second, Targets has one element, so a rule never changes its target.     *)
(*                                                                          *)
(* The manager never reads the chain back: it diffs the desired rules with  *)
(* its own map m.managed, which starts empty in each process, while the     *)
(* chain survives the process. The constant conntrack rule of EZLB-FORWARD  *)
(* is left out.                                                             *)
(***************************************************************************)
CONSTANTS
    RuleKeys,  \* SNATRule.Key(): backendIP:port/protocol
    Targets,   \* what the rule jumps to: a snat_ip, MASQUERADE, or ACCEPT
    Absent     \* "no entry" of a Go map

ASSUME AbsentAssumption == Absent \notin Targets

VARIABLES
    up,        \* a process holds a linuxManager for the chain
    exists,    \* the custom chain exists
    jump,      \* POSTROUTING (FORWARD) jumps to it
    rules,     \* its rules: a set of <<key, target>>
    managed,   \* m.managed (m.managedForward)
    want,      \* history: the desired map of the latest pass
    clean,     \* history: no iptables call of the latest pass failed
    leftover,  \* history: rules of the chain that m.managed never held or has
               \* forgotten: found at start, or not cleared by a Cleanup
    half       \* history: keys whose replacement deleted the old rule and
               \* then failed to add the new one, and were not repaired since

vars == <<up, exists, jump, rules, managed, want, clean, leftover, half>>

Rules == RuleKeys \X Targets
RuleMap == [RuleKeys -> Targets \cup {Absent}]

\* A map that is declared and never made.
NoRules_Nil == [k \in {} |-> Absent]

\* make(map[string]SNATRule)
NoRules == [k \in RuleKeys |-> Absent]

Init ==
    /\ up = FALSE /\ exists = FALSE /\ jump = FALSE
    /\ rules = {} /\ leftover = {} /\ half = {}
    /\ managed = NoRules /\ want = NoRules /\ clean = FALSE

(***************************************************************************)
(* NewManager: ensureChain creates the chain if it is missing, then adds    *)
(* the jump rule (AppendUnique, or Exists and Insert). Rules that an        *)
(* earlier process left in the chain stay; m.managed is a new map. ok is    *)
(* the set of the calls that succeed: the first failure ends NewManager     *)
(* with an error, and the process with it.                                  *)
(***************************************************************************)
EnsureChain(ok) ==
    /\ exists' = (exists \/ "chain" \in ok)
    /\ jump' = (jump \/ {"chain", "jump"} \subseteq ok)
    /\ up' = ({"chain", "jump"} \subseteq ok)
    /\ managed' = NoRules /\ want' = NoRules /\ clean' = FALSE
    /\ leftover' = rules /\ half' = {}
    /\ UNCHANGED rules

NewManager(ok) == ~up /\ EnsureChain(ok)

(***************************************************************************)
(* The pass over one key. deleteRule is called for a managed rule that is   *)
(* not desired, or desired with another target; addRule for a desired rule  *)
(* that is not managed with this target, unless the deletion before it      *)
(* failed.                                                                  *)
(***************************************************************************)
DeletesRule(old, new) == old # Absent /\ new # old

\* A pass that takes any managed rule of the key for the desired one.
AddsRule_KeyOnly(old, new, delOK) == new # Absent /\ old = Absent

AddsRule(old, new, delOK) ==
    new # Absent /\ new # old /\ (old = Absent \/ delOK)

\* A pass that drops the entry of an undesired key before it deletes the rule.
ManagedAfter_DropFirst(old, new, delOK, addOK) ==
    IF AddsRule(old, new, delOK) /\ addOK THEN new
    ELSE IF new = Absent THEN Absent ELSE old

\* m.managed[key] after the pass: it is set when the add succeeds and dropped
\* when the rule of an undesired key is deleted. It keeps the old rule when
\* the old rule was deleted and adding the new one failed.
ManagedAfter(old, new, delOK, addOK) ==
    IF AddsRule(old, new, delOK) /\ addOK THEN new
    ELSE IF new = Absent /\ delOK THEN Absent ELSE old

(***************************************************************************)
(* Reconcile / ReconcileForward. Every iptables call can fail on its own;   *)
(* dels and adds are the keys whose call succeeds if it is made. Adding to  *)
(* a chain that does not exist fails; DeleteIfExists of a rule that is not  *)
(* there succeeds. The keys' rules are different rules, so the order in     *)
(* which the Go map is walked does not matter. The result is always nil.    *)
(***************************************************************************)
Reconcile(desired, dels, adds) ==
    LET d(k) == k \in dels
        a(k) == k \in adds /\ exists
        deletes(k) == DeletesRule(managed[k], desired[k])
        inserts(k) == AddsRule(managed[k], desired[k], d(k))
        removed(r) == r[2] = managed[r[1]] /\ deletes(r[1]) /\ d(r[1])
        added(r) == r[2] = desired[r[1]] /\ inserts(r[1]) /\ a(r[1])
    IN  /\ rules' = {r \in Rules : (r \in rules /\ ~removed(r)) \/ added(r)}
        /\ managed' = [k \in RuleKeys |->
                          ManagedAfter(managed[k], desired[k], d(k), a(k))]
        /\ want' = desired
        /\ clean' = (\A k \in RuleKeys :
                        (deletes(k) => d(k)) /\ (inserts(k) => a(k)))
        /\ leftover' = {r \in leftover : r \in rules'}
        /\ half' = {k \in RuleKeys :
                       \/ deletes(k) /\ d(k) /\ inserts(k) /\ ~a(k)
                       \/ k \in half /\ ~(deletes(k) /\ d(k))}
        /\ UNCHANGED <<up, exists, jump>>

(***************************************************************************)
(* Cleanup: clear the chain, remove the jump, delete the chain; a failing   *)
(* call is only logged, and the map is emptied in any case. iptables        *)
(* refuses to delete a chain that has rules or is jumped to.                *)
(***************************************************************************)
Cleanup(ok) ==
    /\ rules' = IF "clear" \in ok THEN {} ELSE rules
    /\ jump' = (jump /\ "jump" \notin ok)
    /\ exists' = (exists /\ ~("delete" \in ok /\ rules' = {} /\ ~jump'))
    /\ managed' = NoRules /\ want' = NoRules /\ clean' = FALSE
    /\ leftover' = rules' /\ half' = {}
    /\ UNCHANGED up

\* The process ends or is killed: the map is lost, the chain is not.
Exit ==
    /\ up' = FALSE
    /\ managed' = NoRules /\ want' = NoRules /\ clean' = FALSE
    /\ UNCHANGED <<exists, jump, rules, leftover, half>>

Next ==
    \/ \E ok \in SUBSET {"chain", "jump"} : NewManager(ok)
    \/ \E desired \in RuleMap, dels, adds \in SUBSET RuleKeys :
          up /\ Reconcile(desired, dels, adds)
    \/ \E ok \in SUBSET {"clear", "jump", "delete"} : up /\ Cleanup(ok)
    \/ up /\ Exit

Spec == Init /\ [][Next]_vars

-----------------------------------------------------------------------------
(* The shape of the state. *)
TypeOK ==
    /\ up \in BOOLEAN /\ exists \in BOOLEAN /\ jump \in BOOLEAN
    /\ clean \in BOOLEAN
    /\ rules \in SUBSET Rules /\ leftover \in SUBSET rules
    /\ managed \in RuleMap /\ want \in RuleMap
    /\ half \in SUBSET RuleKeys

(* No rule leaks: whatever calls failed in whatever passes, each rule that   *)
(* this process put in the chain, and no Cleanup failed to clear, is the one *)
(* m.managed holds for its key (linuxManager.Reconcile), so a later pass can *)
(* still remove it. In particular a backend is never translated by two rules *)
(* of this process.                                                          *)
NoOrphanRule ==
    up => \A r \in rules \ leftover : managed[r[1]] = r[2]

(* "Rules not in the desired set are removed": no rule of the chain is       *)
(* another one than the latest pass was asked for.                           *)
StaleRulesAreRemoved == \A r \in rules : want[r[1]] = r[2]

(* "missing rules are added": what the latest pass was asked for is there.   *)
MissingRulesAreAdded == \A k \in RuleKeys : want[k] # Absent => <<k, want[k]>> \in rules

(* snat.Manager: "Rules not in the desired set are removed; missing rules    *)
(* are added." After a pass without a failing call this implies that at      *)
(* least one half of the sentence is true of the chain; a state that         *)
(* violates it refutes both halves (linuxManager.Reconcile).                 *)
CleanPassReconciles ==
    up /\ clean => StaleRulesAreRemoved \/ MissingRulesAreAdded

(* What is true instead: a pass without a failing call brings in line all    *)
(* that m.managed knows of. The rules that stay although they are not        *)
(* desired are those it never held or has forgotten, and the desired rules   *)
(* that are missing are those of keys whose replacement failed half way.     *)
OwnRulesConverge ==
    up /\ clean =>
        /\ \A r \in rules \ leftover : want[r[1]] = r[2]
        /\ \A k \in RuleKeys \ half : want[k] # Absent => <<k, want[k]>> \in rules
============================================================================
