------------------------- MODULE ReconcilerProofs -------------------------
(***************************************************************************)
(* Proofs about Reconciler for any keys, backends and service lists, with   *)
(* listen addresses spelled as the kernel prints them (Canonical): the pass *)
(* is a loop whose invariant says how much of the diff is done, as long as  *)
(* nobody else has changed the table since the pass began.                  *)
(***************************************************************************)
EXTENDS Reconciler, WellFoundedInduction, TLAPS

\* Every configured key is spelled as net.IP.String() does.
Canonical == \A k \in Keys : Canon[k] = k

Visiting == pc \in {"services", "get_dests", "dests"}

\* What a GetServices that lists key k would say of it.
Found(k) == IF ipvs[k] # Absent THEN ipvs[k].sched ELSE Absent

(* What the loops have still to visit. *)
TodoShape ==
    /\ Visiting => /\ \A k \in todo : want[k] # Absent
                   /\ \A k \in Keys :
                         actual[k] # Absent /\ want[k] = Absent => k \in managed
    /\ pc = "deletes" => \A k \in todo : want[k] = Absent
    /\ pc \in {"get_dests", "dests"} => cur \notin todo
    /\ pc \notin {"get_dests", "dests"} => cur = Absent
    /\ pc = "stopped" => outcome = "none"

(* The snapshots are still true of what has not been visited. *)
SnapshotFresh ==
    ~disturbed =>
        /\ Visiting =>
              /\ \A k \in todo : actual[k] = Found(k)
              /\ \A k \in managed : want[k] = Absent => actual[k] = Found(k)
        /\ pc = "deletes" => \A k \in todo : ipvs[k] # Absent
        /\ pc = "cleanup" => \A k \in todo : actual[k] = Found(k)

(* The service whose destinations are being diffed. *)
CurrentService ==
    ~disturbed =>
        /\ pc \in {"get_dests", "dests"} =>
              ipvs[cur] # Absent /\ ipvs[cur].sched = want[cur].sched
        /\ pc = "dests" => \A b \in dtodo : have[b] = ipvs[cur].dests[b]
        /\ pc = "dests" /\ ~failed =>
              \A b \in Backends \ dtodo : ipvs[cur].dests[b] = want[cur].dests[b]

(* What has been visited without an error is in sync. *)
VisitedInSync ==
    ~disturbed /\ ~failed =>
        /\ Visiting =>
              \A k \in Keys : want[k] # Absent /\ k \notin todo /\ k # cur =>
                  ipvs[k] = want[k]
        /\ pc = "deletes" =>
              /\ \A k \in Keys : want[k] # Absent => ipvs[k] = want[k]
              /\ \A k \in managed :
                    want[k] = Absent /\ ipvs[k] # Absent => k \in todo

(* Cleanup has every service of this process before it. *)
CleanupCoversOurs ==
    /\ \A k \in ours : ipvs[k] # Absent
    /\ pc = "cleanup" => \A k \in ours : actual[k] # Absent
    /\ pc = "cleanup" /\ ~failed => ours \subseteq todo

(* Only keys of this process's configurations are ever written. *)
WritesConfigured ==
    /\ managed \subseteq configured
    /\ pc \in {"services", "get_dests", "dests", "deletes"} =>
          \A k \in Keys : want[k] # Absent => k \in configured
    /\ pc \in {"deletes", "cleanup"} => todo \subseteq configured

PassInv ==
    /\ TypeOK /\ TodoShape /\ SnapshotFresh /\ CurrentService /\ VisitedInSync
    /\ CleanupCoversOurs /\ WritesConfigured
    /\ OursIsManaged /\ OkMeansInSync /\ NoSelfInflictedError /\ CleanupRemovesOurs

-----------------------------------------------------------------------------
(* The last entry of a key exists, so buildDesiredState has its type. *)
LEMMA LastExists ==
    ASSUME NEW n \in Nat, NEW T \in SUBSET (1..n), T # {}
    PROVE  \E i \in T : \A j \in T : j <= i
<1> DEFINE D == {n - i : i \in T}
<1>1. D \subseteq Nat /\ D # {}
  <2>1. \A i \in T : n - i \in Nat
    OBVIOUS
  <2>2. PICK i \in T : TRUE
    OBVIOUS
  <2>3. n - i \in D
    OBVIOUS
  <2> QED BY <2>1, <2>3
<1>2. PICK x \in D : \A y \in D : ~(<<y, x>> \in OpToRel(<, Nat))
  <2> HIDE DEF D
  <2> QED BY <1>1, WFMin, NatLessThanWellFounded
<1>3. \A y \in D : ~(y < x)
  <2> HIDE DEF D
  <2> QED BY <1>1, <1>2 DEF OpToRel
<1>4. PICK i \in T : x = n - i
  OBVIOUS
<1>5. \A j \in T : j <= i
  BY <1>3, <1>4
<1> QED BY <1>5

(* So EntryOf is an element of the list. *)
LEMMA EntryOfType ==
    ASSUME NEW c \in Configs, NEW k \in Keys, HasEntry(c, k)
    PROVE  EntryOf(c, k) \in Entry
<1> DEFINE T == {i \in DOMAIN c : c[i].key = k}
<1>1. c \in Seq(Entry)
  BY ReconcilerAssumptions
<1>2. Len(c) \in Nat /\ DOMAIN c = 1..Len(c)
  BY <1>1
<1>3. T \in SUBSET (1..Len(c)) /\ T # {}
  BY <1>2 DEF HasEntry
<1>4. \E i \in T : \A j \in T : j <= i
  <2> HIDE DEF T
  <2> QED BY <1>2, <1>3, LastExists
<1>5. \E i \in DOMAIN c : c[i].key = k /\ \A j \in DOMAIN c : c[j].key = k => j <= i
  BY <1>4
<1>6. (CHOOSE i \in DOMAIN c : c[i].key = k
                               /\ \A j \in DOMAIN c : c[j].key = k => j <= i) \in DOMAIN c
  BY <1>5
<1> QED BY <1>1, <1>2, <1>6 DEF EntryOf

(* buildDesiredState maps every key to a service or to Absent. *)
LEMMA DesiredType ==
    ASSUME NEW c \in Configs
    PROVE  buildDesiredState(c) \in [Keys -> Service \cup {Absent}]
<1>1. ASSUME NEW e \in Entry PROVE DesiredService(e) \in Service
  BY DEF DesiredService, Service, Entry, Serves
<1> QED BY <1>1, EntryOfType DEF buildDesiredState

(* DesiredSNAT maps every rule key to a target or to Absent. *)
LEMMA SnatType ==
    ASSUME NEW c \in Configs \cup {<<>>}
    PROVE  DesiredSNAT(c) \in [RuleKeys -> Targets \cup {Absent}]
<1>1. c \in Seq(Entry)
  <2>1. CASE c \in Configs
    BY <2>1, ReconcilerAssumptions
  <2>2. CASE c = <<>>
    BY <2>2
  <2> QED BY <2>1, <2>2
<1>2. Len(c) \in Nat /\ DOMAIN c = 1..Len(c)
  BY <1>1
<1>3. ASSUME NEW r \in RuleKeys, NatEntries(c, r) # {}
      PROVE  c[CHOOSE i \in NatEntries(c, r) :
                  \A j \in NatEntries(c, r) : j <= i].nat \in Targets \cup {Absent}
  <2> DEFINE T == NatEntries(c, r)
  <2>1. T \in SUBSET (1..Len(c))
    BY <1>2 DEF NatEntries
  <2>2. \E i \in T : \A j \in T : j <= i
    <3> HIDE DEF T
    <3>1. T # {}
      BY <1>3 DEF T
    <3> QED BY <1>2, <2>1, <3>1, LastExists
  <2>3. (CHOOSE i \in T : \A j \in T : j <= i) \in T
    BY <2>2
  <2>4. \A i \in 1..Len(c) : c[i] \in Entry
    BY <1>1
  <2>5. \A i \in T : c[i].nat \in Targets \cup {Absent}
    BY <2>1, <2>4 DEF Entry
  <2> HIDE DEF T
  <2>6. c[CHOOSE i \in T : \A j \in T : j <= i].nat \in Targets \cup {Absent}
    BY <2>3, <2>5
  <2> QED BY <2>6 DEF T
<1> QED BY <1>3 DEF DesiredSNAT

-----------------------------------------------------------------------------
(* One lemma per action that writes the table or the pass. *)

(* Nothing is known and nothing is programmed before the first process. *)
LEMMA InitPass == Init => PassInv
BY ReconcilerAssumptions
   DEF Init, PassInv, TypeOK, TodoShape, SnapshotFresh, CurrentService,
       VisitedInSync, CleanupCoversOurs, WritesConfigured, OursIsManaged,
       OkMeansInSync, NoSelfInflictedError, CleanupRemovesOurs, Visiting,
       NoService, NoDests

(* ReconcileBegin: the snapshots are taken, every desired key is due. *)
LEMMA BeginPass ==
    ASSUME Canonical, PassInv, NEW c \in Configs, ReconcileBegin(c)
    PROVE  PassInv'
<1>1. /\ want' \in [Keys -> Service \cup {Absent}]
      /\ actual' = [k \in Keys |->
                      IF k \in Visible(want') THEN ipvs[k].sched ELSE Absent]
      /\ todo' = {k \in Keys : want'[k] # Absent}
      /\ configured' = configured \cup {k \in Keys : want'[k] # Absent}
      /\ pc' = "services" /\ pc = "idle" /\ cfg' = c
      /\ failed' = FALSE /\ faulted' = FALSE
      /\ disturbed' = FALSE /\ flipped' = FALSE
      /\ UNCHANGED <<ipvs, snat, health, managed, cur, have, dtodo, outcome, ours>>
  BY DesiredType DEF ReconcileBegin
<1>2. TypeOK'
  BY <1>1 DEF PassInv, TypeOK, Visible, Exists, Service
<1>3. TodoShape'
  BY <1>1 DEF PassInv, TypeOK, TodoShape, Visiting, Visible
<1>4. SnapshotFresh' /\ VisitedInSync' /\ CurrentService'
  BY <1>1 DEF PassInv, TypeOK, SnapshotFresh, VisitedInSync, CurrentService,
              Visiting, Visible, Found, Exists
<1>5. CleanupCoversOurs' /\ WritesConfigured'
  BY <1>1 DEF PassInv, CleanupCoversOurs, WritesConfigured
<1>6. OursIsManaged' /\ OkMeansInSync' /\ NoSelfInflictedError' /\ CleanupRemovesOurs'
  BY <1>1 DEF PassInv, OursIsManaged, OkMeansInSync, NoSelfInflictedError,
              CleanupRemovesOurs
<1> QED BY <1>2, <1>3, <1>4, <1>5, <1>6 DEF PassInv

(* EnsureService: the call succeeds or fails, and only then is r.managed set. *)
LEMMA EnsurePass ==
    ASSUME Canonical, PassInv, NEW k \in Keys, NEW ok \in BOOLEAN,
           EnsureService(k, ok)
    PROVE  PassInv'
<1> DEFINE creates == actual[k] = Absent
           updates == ~creates /\ actual[k] # want[k].sched
           done == \/ creates /\ ok /\ ~Exists(k)
                   \/ updates /\ ok /\ Exists(k)
                   \/ ~creates /\ ~updates
<1>1. /\ pc = "services" /\ k \in todo
      /\ todo' = todo \ {k}
      /\ managed' = MarkManaged(k, done)
      /\ \/ ~done /\ CallFails(ok) /\ UNCHANGED <<pc, cur>>
         \/ /\ done /\ CallSucceeds
            /\ pc' = "get_dests" /\ cur' = k
            /\ \/ creates /\ NewService(k, want[k])
               \/ updates /\ UpdateService(k, want[k])
               \/ ~creates /\ ~updates /\ UNCHANGED ipvs
      /\ ours' = IF done /\ creates THEN ours \cup {k} ELSE ours
      /\ UNCHANGED <<snat, health, cfg, want, actual, have, dtodo, outcome,
                     configured, disturbed, flipped>>
  BY Zenon DEF EnsureService, Canonical
<1>2. want[k] \in Service /\ want[k] # Absent /\ actual[k] \in Scheds \cup {Absent}
  BY <1>1 DEF PassInv, TypeOK, TodoShape, Visiting
<1>3. ipvs' \in [Keys -> Service \cup {Absent}]
  BY <1>1, <1>2
     DEF PassInv, TypeOK, CallFails, NewService, UpdateService, NoDests, Service, Exists
<1>4. \A j \in Keys \ {k} : ipvs'[j] = ipvs[j]
  BY <1>1 DEF PassInv, TypeOK, CallFails, NewService, UpdateService
<1>5. managed \subseteq managed' /\ managed' \subseteq managed \cup {k}
      /\ (done => k \in managed') /\ (~creates => k \in managed')
  BY <1>1 DEF MarkManaged
<1>6. ~disturbed => actual[k] = Found(k)
  BY <1>1 DEF PassInv, SnapshotFresh, Visiting
<1>7. ~disturbed => (done <=> ok \/ (~creates /\ ~updates))
  BY <1>6, <1>2, ReconcilerAssumptions DEF Found, Exists, PassInv, TypeOK, Service
<1>8. /\ ipvs[k] # Absent => ipvs'[k] # Absent
      /\ done /\ creates => ipvs'[k] # Absent
      /\ done /\ ~disturbed => ipvs'[k] # Absent /\ ipvs'[k].sched = want[k].sched
  <2> ipvs \in [Keys -> Service \cup {Absent}] /\ Absent \notin Service
    BY ReconcilerAssumptions DEF PassInv, TypeOK
  <2>1. CASE ~done
    BY <2>1, <1>1 DEF CallFails
  <2>2. CASE done /\ creates
    <3>1. ipvs' = [ipvs EXCEPT ![k] = [sched |-> want[k].sched, dests |-> NoDests]]
      BY <2>2, <1>1 DEF NewService
    <3>2. ipvs'[k] = [sched |-> want[k].sched, dests |-> NoDests]
      BY <3>1
    <3>3. ipvs'[k] \in Service
      BY <3>2, <1>2 DEF Service, NoDests
    <3> QED BY <3>2, <3>3
  <2>3. CASE done /\ updates
    <3>1. ipvs' = [ipvs EXCEPT ![k].sched = want[k].sched] /\ ipvs[k] \in Service
      BY <2>3, <1>1 DEF UpdateService, Exists
    <3>2. ipvs'[k] = [ipvs[k] EXCEPT !.sched = want[k].sched]
      BY <3>1
    <3>3. ipvs'[k] \in Service /\ ipvs'[k].sched = want[k].sched
      BY <3>1, <3>2, <1>2 DEF Service
    <3> QED BY <3>3, <2>3
  <2>4. CASE done /\ ~creates /\ ~updates
    BY <2>4, <1>1, <1>6 DEF Found
  <2> QED BY <2>1, <2>2, <2>3, <2>4
<1>9. \/ /\ done /\ pc' = "get_dests" /\ cur' = k
         /\ UNCHANGED <<failed, faulted>>
      \/ /\ ~done /\ pc' = "services" /\ cur' = cur
         /\ failed' = TRUE /\ faulted' = (faulted \/ ~ok)
  BY <1>1 DEF CallFails, CallSucceeds
<1>10. ours' \subseteq ours \cup {k} /\ (k \in ours' => k \in ours \/ (done /\ creates))
  BY <1>1
<1>11. /\ pc = "services" /\ k \in todo /\ todo' = todo \ {k}
       /\ UNCHANGED <<snat, health, cfg, want, actual, have, dtodo, outcome,
                      configured, disturbed, flipped>>
  BY <1>1
<1> HIDE DEF creates, updates, done
<1>12. TypeOK'
  <2>1. pc' \in {"get_dests", "dests"} => cur' \in Keys /\ want'[cur'] # Absent
    BY <1>2, <1>9, <1>11
  <2>2. managed' \subseteq Keys /\ ours' \subseteq Keys /\ todo' \subseteq Keys
    BY <1>5, <1>10, <1>11 DEF PassInv, TypeOK
  <2>3. failed' \in BOOLEAN /\ faulted' \in BOOLEAN
    BY <1>9, Zenon DEF PassInv, TypeOK
  <2>4. pc' \in {"stopped", "idle", "services", "get_dests", "dests", "deletes",
                 "cleanup", "cleaned"}
    BY <1>9
  <2> QED BY <1>3, <1>11, <2>1, <2>2, <2>3, <2>4 DEF PassInv, TypeOK
<1>13. TodoShape'
  BY <1>5, <1>9, <1>11 DEF PassInv, TypeOK, TodoShape, Visiting
<1>14. SnapshotFresh'
  BY <1>2, <1>4, <1>5, <1>9, <1>11
     DEF PassInv, TypeOK, TodoShape, SnapshotFresh, Visiting, Found
<1>15. CurrentService'
  BY <1>8, <1>9, <1>11 DEF CurrentService
<1>16. VisitedInSync'
  <2> SUFFICES ASSUME ~disturbed, ~failed', NEW j \in Keys, want[j] # Absent,
                      j \notin todo', j # cur'
               PROVE  ipvs'[j] = want[j]
    BY <1>9, <1>11 DEF VisitedInSync, Visiting
  <2>1. j # k /\ j \notin todo /\ ~failed /\ j # cur
    BY <1>9, <1>11, ReconcilerAssumptions DEF PassInv, TodoShape, TypeOK
  <2> QED BY <2>1, <1>4, <1>11 DEF PassInv, VisitedInSync, Visiting
<1>17. CleanupCoversOurs'
  BY <1>4, <1>8, <1>9, <1>10, <1>11 DEF PassInv, TypeOK, CleanupCoversOurs
<1>18. WritesConfigured'
  BY <1>2, <1>5, <1>9, <1>11 DEF PassInv, TypeOK, WritesConfigured
<1>19. OursIsManaged'
  BY <1>5, <1>10 DEF PassInv, OursIsManaged
<1>20. NoSelfInflictedError'
  <2>1. ~disturbed /\ ~done => ~ok
    BY <1>7
  <2> QED BY <1>9, <1>11, <2>1, Zenon DEF PassInv, NoSelfInflictedError
<1>21. OkMeansInSync' /\ CleanupRemovesOurs'
  BY <1>9 DEF OkMeansInSync, CleanupRemovesOurs
<1> QED BY <1>12, <1>13, <1>14, <1>15, <1>16, <1>17, <1>18, <1>19, <1>20, <1>21
        DEF PassInv

(* GetDestinations: the diff lists just the destinations that differ. *)
LEMMA GetDestinationsPass ==
    ASSUME Canonical, PassInv, NEW ok \in BOOLEAN, GetDestinations(ok)
    PROVE  PassInv'
<1> DEFINE got == ok /\ Exists(cur)
           due == Due(ipvs[cur].dests, want[cur].dests)
<1>1. /\ pc = "get_dests" /\ cur \in Keys /\ want[cur] \in Service /\ Canon[cur] = cur
  BY DEF GetDestinations, PassInv, TypeOK, Canonical
<1>2. /\ IF got THEN CallSucceeds /\ UNCHANGED ipvs ELSE CallFails(ok)
      /\ IF got /\ due # {}
           THEN /\ pc' = "dests" /\ have' = ipvs[cur].dests /\ dtodo' = due
                /\ UNCHANGED cur
           ELSE /\ pc' = "services" /\ cur' = Absent
                /\ UNCHANGED <<have, dtodo>>
      /\ UNCHANGED <<snat, health, managed, cfg, want, actual, todo, outcome,
                     ours, configured, disturbed, flipped>>
  BY <1>1, Zenon DEF GetDestinations
<1>3. UNCHANGED ipvs
  BY <1>2 DEF CallFails
<1>4. ~disturbed => ipvs[cur] # Absent /\ ipvs[cur].sched = want[cur].sched
  BY <1>1 DEF PassInv, CurrentService
<1>5. got => ipvs[cur] \in Service
  BY <1>1 DEF PassInv, TypeOK, Exists
<1>6. TypeOK'
  BY <1>1, <1>2, <1>3, <1>5
     DEF PassInv, TypeOK, CallFails, CallSucceeds, Due, Service
<1>7. TodoShape' /\ SnapshotFresh'
  BY <1>1, <1>2, <1>3 DEF PassInv, TypeOK, TodoShape, SnapshotFresh, Visiting, Found
<1>8. CurrentService'
  BY <1>1, <1>2, <1>3, <1>4, <1>5
     DEF PassInv, CurrentService, Due, CallFails, CallSucceeds, Service
<1>9. VisitedInSync'
  <2> SUFFICES ASSUME ~disturbed, ~failed',
                      NEW k \in Keys, want[k] # Absent, k \notin todo, k # cur'
               PROVE  ipvs[k] = want[k]
    BY <1>2, <1>3 DEF VisitedInSync, Visiting
  <2>1. CASE k # cur
    BY <2>1, <1>1, <1>2 DEF PassInv, VisitedInSync, Visiting, CallFails, CallSucceeds
  <2>2. CASE k = cur
    <3>1. got /\ due = {}
      BY <2>2, <1>2 DEF CallFails
    <3>2. ipvs[cur] \in Service /\ want[cur] \in Service
      BY <3>1, <1>1, <1>5
    <3>3. \A b \in Backends : ipvs[cur].dests[b] = want[cur].dests[b]
      BY <3>1 DEF Due
    <3>4. ipvs[cur].dests = want[cur].dests
      BY <3>2, <3>3 DEF Service
    <3> QED BY <3>2, <3>4, <1>4, <2>2 DEF Service
  <2> QED BY <2>1, <2>2
<1>10. CleanupCoversOurs' /\ WritesConfigured' /\ OursIsManaged'
  BY <1>1, <1>2, <1>3 DEF PassInv, CleanupCoversOurs, WritesConfigured, OursIsManaged
<1>11. NoSelfInflictedError'
  BY <1>2, <1>4 DEF PassInv, NoSelfInflictedError, CallFails, CallSucceeds, Exists
<1>12. OkMeansInSync' /\ CleanupRemovesOurs'
  BY <1>2 DEF OkMeansInSync, CleanupRemovesOurs
<1> QED BY <1>6, <1>7, <1>8, <1>9, <1>10, <1>11, <1>12 DEF PassInv

(* ChangeDestination: a call that succeeds settles its destination. *)
LEMMA ChangeDestinationPass ==
    ASSUME Canonical, PassInv, NEW b \in Backends, NEW ok \in BOOLEAN,
           ChangeDestination(b, ok)
    PROVE  PassInv'
<1> DEFINE w == want[cur].dests[b]
           creates == have[b] = Absent
           accepted == Exists(cur) /\ ((ipvs[cur].dests[b] = Absent) <=> creates)
           done == ok /\ accepted
<1>1. pc = "dests" /\ cur \in Keys /\ want[cur] \in Service /\ Canon[cur] = cur
      /\ b \in dtodo /\ cur \notin todo /\ cur # Absent
  BY ReconcilerAssumptions
     DEF ChangeDestination, PassInv, TypeOK, TodoShape, Canonical
<1>2. /\ IF done THEN SetDestination(cur, b, w) /\ CallSucceeds ELSE CallFails(ok)
      /\ dtodo' = dtodo \ {b}
      /\ IF dtodo' = {}
           THEN pc' = "services" /\ cur' = Absent /\ have' = NoDests
           ELSE UNCHANGED <<pc, cur, have>>
      /\ UNCHANGED <<snat, health, managed, cfg, want, actual, todo, outcome,
                     ours, configured, disturbed, flipped>>
  BY <1>1, Zenon DEF ChangeDestination
<1>3. ipvs \in [Keys -> Service \cup {Absent}] /\ Absent \notin Service
  BY ReconcilerAssumptions DEF PassInv, TypeOK
<1>4. \/ /\ done /\ ipvs[cur] \in Service
         /\ ipvs' = [ipvs EXCEPT ![cur].dests[b] = w]
         /\ UNCHANGED <<failed, faulted>>
      \/ /\ ~done /\ UNCHANGED ipvs
         /\ failed' = TRUE /\ faulted' = (faulted \/ ~ok)
  BY <1>1, <1>2, <1>3 DEF SetDestination, CallSucceeds, CallFails, Exists
<1>5. /\ ipvs' \in [Keys -> Service \cup {Absent}]
      /\ \A k \in Keys \ {cur} : ipvs'[k] = ipvs[k]
      /\ ipvs[cur] # Absent => /\ ipvs'[cur] \in Service
                               /\ ipvs'[cur].sched = ipvs[cur].sched
                               /\ \A x \in Backends \ {b} :
                                     ipvs'[cur].dests[x] = ipvs[cur].dests[x]
      /\ done => ipvs'[cur].dests[b] = w
  <2>1. CASE ~done
    BY <2>1, <1>1, <1>3, <1>4
  <2>2. CASE done
    <3>1. ipvs' = [ipvs EXCEPT ![cur].dests[b] = w] /\ ipvs[cur] \in Service
      BY <2>2, <1>4
    <3>2. ipvs'[cur] = [ipvs[cur] EXCEPT !.dests[b] = w]
      BY <3>1, <1>1, <1>3
    <3>3. w \in Weights \cup {Absent}
      BY <1>1 DEF Service
    <3>4. ipvs'[cur] \in Service
      BY <3>1, <3>2, <3>3 DEF Service
    <3>5. /\ ipvs'[cur].sched = ipvs[cur].sched
          /\ \A x \in Backends \ {b} : ipvs'[cur].dests[x] = ipvs[cur].dests[x]
          /\ ipvs'[cur].dests[b] = w
      BY <3>1, <3>2 DEF Service
    <3>6. \A k \in Keys \ {cur} : ipvs'[k] = ipvs[k]
      BY <3>1, <1>3
    <3>7. ipvs' \in [Keys -> Service \cup {Absent}]
      BY <3>1, <3>4, <3>6, <1>1, <1>3
    <3> QED BY <3>4, <3>5, <3>6, <3>7
  <2> QED BY <2>1, <2>2
<1>6. ~disturbed => ipvs[cur] # Absent /\ ipvs[cur].sched = want[cur].sched
                    /\ accepted
  BY <1>1 DEF PassInv, CurrentService, Exists
<1>7. \/ pc' = "services" /\ cur' = Absent /\ have' = NoDests /\ dtodo' = {}
      \/ pc' = "dests" /\ cur' = cur /\ have' = have
  BY <1>1, <1>2
<1>8. ~failed' => done /\ ~failed
  BY <1>4
<1>9. \A k \in Keys : ipvs'[k] = Absent <=> ipvs[k] = Absent
  BY <1>3, <1>4, <1>5, <1>1
<1>10. \A k \in Keys \ {cur} : Found(k)' = Found(k)
  BY <1>5 DEF Found
<1>11. /\ dtodo' = dtodo \ {b}
       /\ UNCHANGED <<snat, health, managed, cfg, want, actual, todo, outcome,
                      ours, configured, disturbed, flipped>>
  BY <1>2
<1> HIDE DEF accepted, done, creates
<1>12. TypeOK'
  <2>1. failed' \in BOOLEAN /\ faulted' \in BOOLEAN
    BY <1>4, Zenon DEF PassInv, TypeOK
  <2>2. have' \in [Backends -> Weights \cup {Absent}] /\ dtodo' \subseteq Backends
    BY <1>7, <1>11 DEF PassInv, TypeOK, NoDests
  <2> QED BY <1>1, <1>5, <1>7, <1>11, <2>1, <2>2 DEF PassInv, TypeOK
<1>13. TodoShape'
  BY <1>1, <1>7, <1>11 DEF PassInv, TypeOK, TodoShape, Visiting
<1>14. SnapshotFresh'
  BY <1>1, <1>3, <1>7, <1>10, <1>11 DEF PassInv, TypeOK, SnapshotFresh, Visiting
<1>15. CurrentService'
  <2> SUFFICES ASSUME ~disturbed, pc' = "dests", cur' = cur, have' = have
               PROVE  CurrentService'
    BY <1>7, <1>11 DEF CurrentService
  <2>1. ipvs'[cur] # Absent /\ ipvs'[cur].sched = want'[cur].sched
    BY <1>6, <1>9, <1>5, <1>11, <1>1
  <2>2. \A x \in dtodo' : have[x] = ipvs'[cur].dests[x]
    BY <1>1, <1>5, <1>6, <1>11 DEF PassInv, TypeOK, CurrentService
  <2>3. ~failed' => \A x \in Backends \ dtodo' : ipvs'[cur].dests[x] = want[cur].dests[x]
    BY <1>1, <1>5, <1>6, <1>8, <1>11 DEF PassInv, CurrentService
  <2> QED BY <2>1, <2>2, <2>3, <1>11 DEF CurrentService
<1>16. VisitedInSync'
  <2> SUFFICES ASSUME ~disturbed, ~failed', NEW k \in Keys, want[k] # Absent,
                      k \notin todo, k # cur'
               PROVE  ipvs'[k] = want[k]
    BY <1>7, <1>11 DEF VisitedInSync, Visiting
  <2>1. CASE k # cur
    BY <2>1, <1>1, <1>5, <1>8 DEF PassInv, VisitedInSync, Visiting
  <2>2. CASE k = cur
    <3>1. dtodo \ {b} = {} /\ done /\ ~failed
      BY <2>2, <1>7, <1>8, <1>11
    <3>2. \A x \in Backends : ipvs'[cur].dests[x] = want[cur].dests[x]
      BY <3>1, <1>1, <1>5, <1>6 DEF PassInv, CurrentService
    <3>3. ipvs'[cur] \in Service /\ ipvs'[cur].sched = want[cur].sched
      BY <1>5, <1>6
    <3>4. ipvs'[cur].dests = want[cur].dests
      BY <3>2, <3>3, <1>1 DEF Service
    <3> QED BY <3>3, <3>4, <1>1, <2>2 DEF Service
  <2> QED BY <2>1, <2>2
<1>17. CleanupCoversOurs' /\ WritesConfigured' /\ OursIsManaged'
  BY <1>1, <1>7, <1>9, <1>11
     DEF PassInv, TypeOK, CleanupCoversOurs, WritesConfigured, OursIsManaged
<1>18. NoSelfInflictedError'
  <2>1. ~disturbed /\ ~done => ~ok
    BY <1>6 DEF done
  <2> QED BY <1>4, <1>11, <2>1, Zenon DEF PassInv, NoSelfInflictedError
<1>19. OkMeansInSync' /\ CleanupRemovesOurs'
  BY <1>7 DEF OkMeansInSync, CleanupRemovesOurs
<1> QED BY <1>12, <1>13, <1>14, <1>15, <1>16, <1>17, <1>18, <1>19 DEF PassInv

(* BeginDeletes: all desired services are in sync or an error is noted. *)
LEMMA BeginDeletesPass ==
    ASSUME PassInv, BeginDeletes
    PROVE  PassInv'
<1> USE DEF BeginDeletes, history
<1>1. pc = "services" /\ todo = {} /\ pc' = "deletes"
      /\ todo' = {k \in Keys : actual[k] # Absent /\ want[k] = Absent}
      /\ UNCHANGED <<ipvs, snat, health, managed, cfg, want, actual, cur, have,
                     dtodo, failed, outcome, ours, configured, disturbed,
                     faulted, flipped>>
  OBVIOUS
<1> USE <1>1
<1> HIDE DEF BeginDeletes, history
<1>2. TypeOK' /\ TodoShape'
  BY DEF PassInv, TypeOK, TodoShape, Visiting
<1>3. SnapshotFresh' /\ CurrentService'
  BY DEF PassInv, TypeOK, TodoShape, SnapshotFresh, CurrentService, Visiting, Found
<1>4. VisitedInSync'
  <2>1. \A k \in Keys : k # cur
    BY ReconcilerAssumptions DEF PassInv, TodoShape
  <2>2. \A s \in Service : s.sched # Absent
    BY ReconcilerAssumptions DEF Service
  <2>3. \A k \in managed : ~disturbed /\ want[k] = Absent /\ ipvs[k] # Absent
                            => k \in todo'
    BY <2>2 DEF PassInv, TypeOK, SnapshotFresh, Visiting, Found
  <2> QED BY <2>1, <2>3 DEF PassInv, TypeOK, VisitedInSync, Visiting
<1>5. CleanupCoversOurs' /\ WritesConfigured' /\ OursIsManaged'
  BY DEF PassInv, TodoShape, Visiting, CleanupCoversOurs, WritesConfigured, OursIsManaged
<1>6. OkMeansInSync' /\ CleanupRemovesOurs' /\ NoSelfInflictedError'
  BY DEF PassInv, OkMeansInSync, CleanupRemovesOurs, NoSelfInflictedError
<1> QED BY <1>2, <1>3, <1>4, <1>5, <1>6 DEF PassInv

(* DeleteService: a service is unmanaged only when it is gone. *)
LEMMA DeleteServicePass ==
    ASSUME PassInv, NEW k \in Keys, NEW ok \in BOOLEAN, DeleteService(k, ok)
    PROVE  PassInv'
<1> DEFINE done == ok /\ Exists(k)
<1>1. /\ pc = "deletes" /\ k \in todo /\ todo' = todo \ {k}
      /\ UNCHANGED <<snat, health, pc, cfg, want, actual, cur, have, dtodo,
                     outcome, configured, disturbed, flipped>>
  BY DEF DeleteService
<1>2. \/ /\ done /\ managed' = managed \ {k} /\ ours' = ours \ {k}
         /\ ipvs' = [ipvs EXCEPT ![k] = Absent] /\ UNCHANGED <<failed, faulted>>
      \/ /\ ~done /\ UNCHANGED <<ipvs, managed, ours>>
         /\ failed' = TRUE /\ faulted' = (faulted \/ ~ok)
  BY Zenon DEF DeleteService, Unmanage, DelService, CallSucceeds, CallFails
<1>3. ~disturbed => Exists(k)
  BY <1>1 DEF PassInv, SnapshotFresh, Exists
<1>4. want[k] = Absent
  BY <1>1 DEF PassInv, TodoShape
<1>5. /\ ipvs' \in [Keys -> Service \cup {Absent}]
      /\ \A j \in Keys \ {k} : ipvs'[j] = ipvs[j]
      /\ done => ipvs'[k] = Absent
  BY <1>2 DEF PassInv, TypeOK
<1> HIDE DEF done
<1>6. TypeOK'
  <2>1. failed' \in BOOLEAN /\ faulted' \in BOOLEAN
    BY <1>2, Zenon DEF PassInv, TypeOK
  <2> QED BY <1>1, <1>2, <1>5, <2>1 DEF PassInv, TypeOK
<1>7. TodoShape' /\ SnapshotFresh' /\ CurrentService'
  BY <1>1, <1>5 DEF PassInv, TypeOK, TodoShape, SnapshotFresh, CurrentService, Visiting
<1>8. VisitedInSync'
  BY <1>1, <1>2, <1>4, <1>5 DEF PassInv, TypeOK, VisitedInSync, Visiting
<1>9. CleanupCoversOurs' /\ WritesConfigured' /\ OursIsManaged'
  BY <1>1, <1>2, <1>5
     DEF PassInv, TypeOK, CleanupCoversOurs, WritesConfigured, OursIsManaged
<1>10. NoSelfInflictedError'
  <2>1. ~disturbed /\ ~done => ~ok
    BY <1>3 DEF done
  <2> QED BY <1>1, <1>2, <2>1, Zenon DEF PassInv, NoSelfInflictedError
<1>11. OkMeansInSync' /\ CleanupRemovesOurs'
  BY <1>1 DEF OkMeansInSync, CleanupRemovesOurs
<1> QED BY <1>6, <1>7, <1>8, <1>9, <1>10, <1>11 DEF PassInv

(* FinishReconcile: nil is returned only if nothing failed on the way. *)
LEMMA FinishPass ==
    ASSUME Canonical, PassInv, FinishReconcile
    PROVE  PassInv'
<1>1. /\ pc = "deletes" /\ todo = {} /\ pc' = "idle"
      /\ snat' = IF SnatFails(cfg) THEN snat ELSE DesiredSNAT(cfg)
      /\ outcome' \in {"ok", "error"} /\ (outcome' = "ok" => ~failed)
      /\ actual' = NoService
      /\ UNCHANGED <<ipvs, health, managed, cfg, want, todo, cur, have, dtodo,
                     failed, ours, configured, disturbed, faulted, flipped>>
  BY DEF FinishReconcile, history
<1>2. snat' \in [RuleKeys -> Targets \cup {Absent}]
  BY <1>1, SnatType DEF PassInv, TypeOK
<1>3. TypeOK'
  BY <1>1, <1>2 DEF PassInv, TypeOK, NoService
<1>4. TodoShape' /\ SnapshotFresh' /\ CurrentService' /\ VisitedInSync'
  BY <1>1 DEF PassInv, TypeOK, TodoShape, SnapshotFresh, CurrentService,
              VisitedInSync, Visiting
<1>5. CleanupCoversOurs' /\ WritesConfigured' /\ OursIsManaged'
      /\ CleanupRemovesOurs' /\ NoSelfInflictedError'
  BY <1>1 DEF PassInv, CleanupCoversOurs, WritesConfigured, OursIsManaged,
              CleanupRemovesOurs, NoSelfInflictedError
<1>6. OkMeansInSync'
  BY <1>1 DEF PassInv, TypeOK, VisitedInSync, OkMeansInSync, OursIsManaged, Canonical
<1> QED BY <1>3, <1>4, <1>5, <1>6 DEF PassInv

(* CleanupBegin: what this process created is managed, so it is due. *)
LEMMA CleanupBeginPass ==
    ASSUME PassInv, CleanupBegin
    PROVE  PassInv'
<1>1. /\ pc = "idle" /\ pc' = "cleanup" /\ todo' = managed
      /\ actual' = [k \in Keys |-> Found(k)]
      /\ failed' = FALSE /\ faulted' = FALSE
      /\ disturbed' = FALSE /\ flipped' = FALSE
      /\ UNCHANGED <<ipvs, snat, health, managed, cfg, want, cur, have, dtodo,
                     outcome, ours, configured>>
  BY DEF CleanupBegin, Found, Exists
<1>2. \A k \in Keys : Found(k) \in Scheds \cup {Absent}
                      /\ (Found(k) = Absent <=> ipvs[k] = Absent)
  <2>1. \A s \in Service : s.sched \in Scheds /\ s.sched # Absent
    BY ReconcilerAssumptions DEF Service
  <2> QED BY <2>1 DEF PassInv, TypeOK, Found
<1>3. TypeOK'
  BY <1>1, <1>2 DEF PassInv, TypeOK
<1>4. TodoShape' /\ CurrentService' /\ VisitedInSync'
  BY <1>1 DEF PassInv, TodoShape, CurrentService, VisitedInSync, Visiting
<1>5. SnapshotFresh'
  BY <1>1 DEF PassInv, TypeOK, SnapshotFresh, Visiting, Found
<1>6. CleanupCoversOurs' /\ WritesConfigured' /\ OursIsManaged'
  BY <1>1, <1>2
     DEF PassInv, TypeOK, CleanupCoversOurs, WritesConfigured, OursIsManaged
<1>7. OkMeansInSync' /\ NoSelfInflictedError' /\ CleanupRemovesOurs'
  BY <1>1 DEF OkMeansInSync, NoSelfInflictedError, CleanupRemovesOurs
<1> QED BY <1>3, <1>4, <1>5, <1>6, <1>7 DEF PassInv

(* CleanupKey: a key is dropped when its service is gone. *)
LEMMA CleanupKeyPass ==
    ASSUME PassInv, NEW k \in Keys, NEW ok \in BOOLEAN, CleanupKey(k, ok)
    PROVE  PassInv'
<1> DEFINE listed == actual[k] # Absent
           done == listed /\ ok /\ Exists(k)
<1>1. /\ pc = "cleanup" /\ k \in todo /\ todo' = todo \ {k}
      /\ UNCHANGED <<snat, health, pc, cfg, want, actual, cur, have, dtodo,
                     outcome, configured, disturbed, flipped>>
  BY DEF CleanupKey
<1>2. \/ /\ done /\ managed' = managed \ {k} /\ ours' = ours \ {k}
         /\ ipvs' = [ipvs EXCEPT ![k] = Absent] /\ UNCHANGED <<failed, faulted>>
      \/ /\ listed /\ ~done /\ UNCHANGED <<ipvs, managed, ours>>
         /\ failed' = TRUE /\ faulted' = (faulted \/ ~ok)
      \/ /\ ~listed /\ managed' = managed \ {k}
         /\ UNCHANGED <<ipvs, ours, failed, faulted>>
  BY Zenon DEF CleanupKey, DelService, CallSucceeds, CallFails
<1>3. ~disturbed /\ listed => Exists(k)
  BY <1>1 DEF PassInv, SnapshotFresh, Found, Exists
<1>4. ~listed => k \notin ours
  BY <1>1 DEF PassInv, CleanupCoversOurs
<1>5. /\ ipvs' \in [Keys -> Service \cup {Absent}]
      /\ \A j \in Keys \ {k} : ipvs'[j] = ipvs[j] /\ Found(j)' = Found(j)
  BY <1>2 DEF PassInv, TypeOK, Found
<1>6. ~disturbed /\ listed /\ ~done => ~ok
  BY <1>3
<1> HIDE DEF done, listed
<1>7. TypeOK'
  <2>1. failed' \in BOOLEAN /\ faulted' \in BOOLEAN
    BY <1>2, Zenon DEF PassInv, TypeOK
  <2> QED BY <1>1, <1>2, <1>5, <2>1 DEF PassInv, TypeOK
<1>8. TodoShape' /\ SnapshotFresh' /\ CurrentService' /\ VisitedInSync'
  BY <1>1, <1>5
     DEF PassInv, TypeOK, TodoShape, SnapshotFresh, CurrentService, VisitedInSync, Visiting
<1>9. CleanupCoversOurs' /\ WritesConfigured' /\ OursIsManaged'
  BY <1>1, <1>2, <1>4, <1>5
     DEF PassInv, TypeOK, CleanupCoversOurs, WritesConfigured, OursIsManaged
<1>10. NoSelfInflictedError'
  BY <1>1, <1>2, <1>6, Zenon DEF PassInv, NoSelfInflictedError
<1>11. OkMeansInSync' /\ CleanupRemovesOurs'
  BY <1>1 DEF OkMeansInSync, CleanupRemovesOurs
<1> QED BY <1>7, <1>8, <1>9, <1>10, <1>11 DEF PassInv

(* CleanupEnd: nil is returned only if nothing is left. *)
LEMMA CleanupEndPass ==
    ASSUME PassInv, CleanupEnd
    PROVE  PassInv'
<1>1. /\ pc = "cleanup" /\ todo = {} /\ pc' = "cleaned" /\ actual' = NoService
      /\ outcome' \in {"ok", "error"} /\ (outcome' = "ok" => ~failed)
      /\ UNCHANGED <<ipvs, snat, health, managed, cfg, want, todo, cur, have,
                     dtodo, failed, ours, configured, disturbed, faulted, flipped>>
  BY DEF CleanupEnd, history
<1>2. TypeOK'
  BY <1>1 DEF PassInv, TypeOK, NoService
<1>3. TodoShape' /\ SnapshotFresh' /\ CurrentService' /\ VisitedInSync'
  BY <1>1 DEF PassInv, TodoShape, SnapshotFresh, CurrentService, VisitedInSync, Visiting
<1>4. CleanupCoversOurs' /\ WritesConfigured' /\ OursIsManaged'
      /\ OkMeansInSync' /\ NoSelfInflictedError' /\ CleanupRemovesOurs'
  BY <1>1 DEF PassInv, CleanupCoversOurs, WritesConfigured, OursIsManaged,
              OkMeansInSync, NoSelfInflictedError, CleanupRemovesOurs
<1> QED BY <1>2, <1>3, <1>4 DEF PassInv

(* A call that gives up before it changes anything, and a new process. *)
LEMMA ControlPass ==
    ASSUME PassInv,
           \/ \E c \in Configs : ReconcileAborts(c)
           \/ CleanupAborts
           \/ Start
    PROVE  PassInv'
<1>1. \/ pc = "idle" /\ outcome' \in {"error", "rejected"} /\ pc' \in {"idle", "cleaned"}
      \/ pc = "stopped" /\ outcome' = outcome /\ pc' = "idle"
  BY DEF ReconcileAborts, CleanupAborts, Start
<1>2. UNCHANGED <<ipvs, snat, health, managed, cfg, want, actual, todo, cur,
                  have, dtodo, failed, ours, configured, disturbed, faulted, flipped>>
  BY DEF ReconcileAborts, CleanupAborts, Start, locals, history
<1>3. TypeOK' /\ TodoShape'
  BY <1>1, <1>2 DEF PassInv, TypeOK, TodoShape, Visiting
<1>4. SnapshotFresh' /\ CurrentService' /\ VisitedInSync'
  BY <1>1, <1>2 DEF PassInv, SnapshotFresh, CurrentService, VisitedInSync, Visiting
<1>5. CleanupCoversOurs' /\ WritesConfigured' /\ OursIsManaged'
      /\ NoSelfInflictedError' /\ CleanupRemovesOurs'
  BY <1>1, <1>2 DEF PassInv, TodoShape, CleanupCoversOurs, WritesConfigured,
                    OursIsManaged, NoSelfInflictedError, CleanupRemovesOurs
<1>6. OkMeansInSync'
  BY <1>1, <1>2 DEF PassInv, TodoShape, OkMeansInSync
<1> QED BY <1>3, <1>4, <1>5, <1>6 DEF PassInv

(* Stop: a new process claims nothing. *)
LEMMA StopPass ==
    ASSUME PassInv, Stop
    PROVE  PassInv'
BY DEF Stop, PassInv, TypeOK, TodoShape, SnapshotFresh, CurrentService,
       VisitedInSync, CleanupCoversOurs, WritesConfigured, OursIsManaged,
       OkMeansInSync, NoSelfInflictedError, CleanupRemovesOurs, Visiting,
       NoService, NoDests

(* The administrator and the health checks end the claims they break. *)
LEMMA EnvironmentPass ==
    ASSUME PassInv, Environment
    PROVE  PassInv'
<1>1. CASE \E b \in Flaky : HealthFlip(b)
  <2>1. PICK b \in Flaky : HealthFlip(b)
    BY <1>1
  <2>2. UNCHANGED <<ipvs, snat, managed, pc, cfg, want, actual, todo, cur, have,
                    dtodo, failed, outcome, ours, configured, disturbed, faulted>>
    BY <2>1 DEF HealthFlip, locals
  <2>3. health' \in [Backends -> BOOLEAN] /\ flipped' = TRUE
    BY <2>1 DEF HealthFlip, PassInv, TypeOK
  <2>4. TypeOK'
    BY <2>2, <2>3 DEF PassInv, TypeOK
  <2> QED BY <2>2, <2>4
          DEF PassInv, TodoShape, SnapshotFresh, CurrentService, VisitedInSync,
              CleanupCoversOurs, WritesConfigured, OursIsManaged, OkMeansInSync,
              NoSelfInflictedError, CleanupRemovesOurs, Visiting, Found
<1>2. ASSUME NEW k \in Keys,
             AdminDelete(k) \/ \E s \in AdminServices : AdminAdd(k, s)
      PROVE  PassInv'
  <2>1. /\ disturbed' = TRUE
        /\ UNCHANGED <<snat, health, managed, pc, cfg, want, actual, todo, cur,
                       have, dtodo, failed, outcome, configured, faulted, flipped>>
    BY <1>2 DEF AdminAdd, AdminDelete, locals
  <2>2. /\ ipvs' \in [Keys -> Service \cup {Absent}] /\ ours' \subseteq ours
        /\ \A j \in Keys \ {k} : ipvs'[j] = ipvs[j]
        /\ k \in ours' => ipvs'[k] # Absent
    BY <1>2, ReconcilerAssumptions DEF AdminAdd, AdminDelete, PassInv, TypeOK
  <2>3. TypeOK'
    BY <2>1, <2>2 DEF PassInv, TypeOK
  <2>4. CleanupCoversOurs'
    BY <2>1, <2>2 DEF PassInv, TypeOK, CleanupCoversOurs
  <2> QED BY <2>1, <2>2, <2>3, <2>4
          DEF PassInv, TodoShape, SnapshotFresh, CurrentService, VisitedInSync,
              WritesConfigured, OursIsManaged, OkMeansInSync,
              NoSelfInflictedError, CleanupRemovesOurs, Visiting
<1> QED BY <1>1, <1>2, ReconcilerAssumptions DEF Environment

(* Every step preserves the invariant. *)
LEMMA NextPass ==
    ASSUME Canonical, PassInv, [Next]_vars
    PROVE  PassInv'
<1>1. CASE Reconcile
  <2>1. CASE \E c \in Configs : ReconcileAborts(c)
    BY <2>1, ControlPass
  <2>2. CASE \E c \in Configs : ReconcileBegin(c)
    BY <2>2, BeginPass
  <2>3. CASE \E k \in Keys, ok \in BOOLEAN : EnsureService(k, ok)
    BY <2>3, EnsurePass
  <2>4. CASE \E k \in Keys, ok \in BOOLEAN : DeleteService(k, ok)
    BY <2>4, DeleteServicePass
  <2>5. CASE \E ok \in BOOLEAN : GetDestinations(ok)
    BY <2>5, GetDestinationsPass
  <2>6. CASE \E b \in Backends, ok \in BOOLEAN : ChangeDestination(b, ok)
    BY <2>6, ChangeDestinationPass
  <2>7. CASE BeginDeletes \/ FinishReconcile
    BY <2>7, BeginDeletesPass, FinishPass
  <2> QED BY <1>1, <2>1, <2>2, <2>3, <2>4, <2>5, <2>6, <2>7 DEF Reconcile
<1>2. CASE Cleanup
  BY <1>2, ControlPass, CleanupBeginPass, CleanupEndPass, CleanupKeyPass DEF Cleanup
<1>3. CASE Start \/ Stop \/ Environment
  BY <1>3, ControlPass, StopPass, EnvironmentPass
<1>4. CASE UNCHANGED vars
  <2>1. UNCHANGED <<ipvs, snat, health, managed, pc, cfg, want, actual, todo, cur,
                    have, dtodo, failed, outcome, ours, configured, disturbed,
                    faulted, flipped>>
    BY <1>4 DEF vars, locals, history
  <2> QED BY <2>1
          DEF PassInv, TypeOK, TodoShape, SnapshotFresh, CurrentService,
              VisitedInSync, CleanupCoversOurs, WritesConfigured, OursIsManaged,
              OkMeansInSync, NoSelfInflictedError, CleanupRemovesOurs, Visiting, Found
<1> QED BY <1>1, <1>2, <1>3, <1>4 DEF Next

(* A step of the reconciler writes only keys this process was configured     *)
(* with: PassInv says so of want, of managed and of what is to be deleted.   *)
LEMMA WritesOnlyConfigured ==
    ASSUME Canonical, PassInv, Reconcile \/ Cleanup,
           NEW k \in Keys, ipvs'[k] # ipvs[k]
    PROVE  k \in configured
<1>1. CASE \E j \in Keys, ok \in BOOLEAN : EnsureService(j, ok)
  <2>1. PICK j \in Keys, ok \in BOOLEAN : EnsureService(j, ok)
    BY <1>1
  <2>2. pc = "services" /\ j \in todo /\ Canon[j] = j
    BY <2>1 DEF EnsureService, Canonical
  <2>3. \/ UNCHANGED ipvs \/ NewService(j, want[j]) \/ UpdateService(j, want[j])
    BY <2>1, <2>2, Zenon DEF EnsureService, CallFails
  <2>4. k = j
    BY <2>3 DEF NewService, UpdateService, PassInv, TypeOK
  <2> QED BY <2>2, <2>4 DEF PassInv, TodoShape, Visiting, WritesConfigured
<1>2. CASE \E b \in Backends, ok \in BOOLEAN : ChangeDestination(b, ok)
  <2>1. PICK b \in Backends, ok \in BOOLEAN : ChangeDestination(b, ok)
    BY <1>2
  <2>2. pc = "dests" /\ cur \in Keys /\ Canon[cur] = cur /\ want[cur] # Absent
    BY <2>1 DEF ChangeDestination, Canonical, PassInv, TypeOK
  <2>3. UNCHANGED ipvs \/ SetDestination(cur, b, want[cur].dests[b])
    BY <2>1, <2>2, Zenon DEF ChangeDestination, CallFails
  <2>4. k = cur
    BY <2>3 DEF SetDestination, PassInv, TypeOK
  <2> QED BY <2>2, <2>4 DEF PassInv, WritesConfigured
<1>3. CASE \E j \in Keys, ok \in BOOLEAN : DeleteService(j, ok) \/ CleanupKey(j, ok)
  <2>1. PICK j \in Keys, ok \in BOOLEAN : DeleteService(j, ok) \/ CleanupKey(j, ok)
    BY <1>3
  <2>2. pc \in {"deletes", "cleanup"} /\ j \in todo
    BY <2>1 DEF DeleteService, CleanupKey
  <2>3. UNCHANGED ipvs \/ DelService(j)
    BY <2>1, Zenon DEF DeleteService, CleanupKey, CallFails
  <2>4. k = j
    BY <2>3 DEF DelService, PassInv, TypeOK
  <2> QED BY <2>2, <2>4 DEF PassInv, WritesConfigured
<1>4. CASE \/ \E c \in Configs : ReconcileAborts(c) \/ ReconcileBegin(c)
           \/ \E ok \in BOOLEAN : GetDestinations(ok)
           \/ BeginDeletes \/ FinishReconcile
           \/ CleanupAborts \/ CleanupBegin \/ CleanupEnd
  <2>1. UNCHANGED ipvs
    BY <1>4 DEF ReconcileAborts, ReconcileBegin, GetDestinations, CallFails,
       BeginDeletes, FinishReconcile, CleanupAborts, CleanupBegin, CleanupEnd
  <2> QED BY <2>1
<1> QED BY <1>1, <1>2, <1>3, <1>4 DEF Reconcile, Cleanup

-----------------------------------------------------------------------------
(* The inductive invariant: what is still to be visited, what has been, and  *)
(* how the snapshots of reconciler.go:60-81 relate to the kernel meanwhile.  *)
THEOREM PassInvariant ==
    ASSUME Canonical
    PROVE  Spec => []PassInv
<1>1. Init => PassInv
  BY InitPass
<1>2. PassInv /\ [Next]_vars => PassInv'
  BY NextPass
<1> QED BY <1>1, <1>2, PTL DEF Spec

(* The state of the reconciler and of the kernel keeps its shape.            *)
THEOREM TypeCorrect ==
    ASSUME Canonical
    PROVE  Spec => []TypeOK
<1>1. PassInv => TypeOK
  BY DEF PassInv
<1> QED BY <1>1, PassInvariant, PTL

(* A service the process created never drops out of r.managed while it is in *)
(* the kernel, whatever calls fail (reconciler.go:95, 98, 119).              *)
THEOREM NothingForgotten ==
    ASSUME Canonical
    PROVE  Spec => []OursIsManaged
<1>1. PassInv => OursIsManaged
  BY DEF PassInv
<1> QED BY <1>1, PassInvariant, PTL

(* A Reconcile that returns nil, undisturbed, has brought the kernel in sync *)
(* with the service list, for any lists, backends, weights and health.       *)
THEOREM OkIsInSync ==
    ASSUME Canonical
    PROVE  Spec => []OkMeansInSync
<1>1. PassInv => OkMeansInSync
  BY DEF PassInv
<1> QED BY <1>1, PassInvariant, PTL

(* An undisturbed Reconcile or Cleanup fails only if the kernel fails a call *)
(* that was valid: the diff never asks for a duplicate or a missing object.  *)
THEOREM ErrorsAreTheKernels ==
    ASSUME Canonical
    PROVE  Spec => []NoSelfInflictedError
<1>1. PassInv => NoSelfInflictedError
  BY DEF PassInv
<1> QED BY <1>1, PassInvariant, PTL

(* A Cleanup that returns nil left no service this process created.          *)
THEOREM CleanupIsComplete ==
    ASSUME Canonical
    PROVE  Spec => []CleanupRemovesOurs
<1>1. PassInv => CleanupRemovesOurs
  BY DEF PassInv
<1> QED BY <1>1, PassInvariant, PTL

(* No step of Reconcile or Cleanup changes a service whose key this process  *)
(* was never configured with.                                                *)
THEOREM ForeignServicesUntouched ==
    ASSUME Canonical
    PROVE  Spec => OthersUntouched
<1>1. PassInv /\ [Next]_vars =>
         [Reconcile \/ Cleanup =>
             \A k \in Keys : ipvs'[k] # ipvs[k] =>
                 \E c \in configured : Canon[c] = k]_vars
  BY WritesOnlyConfigured DEF Canonical
<1> QED BY <1>1, PassInvariant, PTL DEF Spec, OthersUntouched
===========================================================================
