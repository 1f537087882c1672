----------------------------- MODULE Reconciler -----------------------------
(***************************************************************************)
(* lvs.Reconciler (pkg/lvs/reconciler.go) working on the kernel's IPVS      *)
(* table through lvs.Manager and an IPVSHandle. Each call on the handle is  *)
(* a step of its own and can fail on its own; between two calls an          *)
(* administrator can add and delete services with other tools, backends can *)
(* change health, and the process can be killed. r.mu serialises Reconcile  *)
(* and Cleanup, so there is one pass at a time and its locals are variables *)
(* of the module.                                                           *)
(*                                                                          *)
(* A ServiceKey made from the configuration holds the host as it is spelled *)
(* there; one made from the kernel holds net.IP.String(). Canon maps the    *)
(* first to the second. The kernel is indexed by canonical keys only.       *)
(***************************************************************************)
EXTENDS Naturals, Sequences

CONSTANTS
    Keys,          \* ServiceKeys: host, port, protocol
    Canon,         \* [Keys -> Keys]: ParseIP and String of the host
    Proto,         \* [Keys -> protocols]
    Protos,
    Backends,      \* backend addresses, canonical in IPVS and in SNAT
    BadBackends,   \* those whose port strconv.Atoi rejects; Validate does not
    Scheds, Weights, Targets,
    Configs,       \* the service lists Reconcile may be called with
    Flaky,         \* bound: the backends whose health may change
    AdminServices, \* what the administrator may install,
    AdminKeys,     \* bound: and under which keys
    Absent

Service == [sched : Scheds, dests : [Backends -> Weights \cup {Absent}]]
RuleKeys == Backends \X Protos

\* An element of Config.Services. valid is false when the port is no number.
Entry == [key : Keys, sched : Scheds, hc : BOOLEAN, valid : BOOLEAN,
          nat : Targets \cup {Absent},
          weight : [Backends -> Weights \cup {Absent}]]

ASSUME ReconcilerAssumptions ==
    /\ Canon \in [Keys -> Keys]
    /\ \A k \in Keys : Canon[Canon[k]] = Canon[k]
    /\ Proto \in [Keys -> Protos]
    /\ BadBackends \subseteq Backends /\ Flaky \subseteq Backends
    /\ Absent \notin Keys \cup Scheds \cup Weights \cup Targets \cup Service
    /\ Configs \subseteq Seq(Entry)
    /\ AdminServices \subseteq Service /\ AdminKeys \subseteq Keys

VARIABLES
    ipvs,       \* the kernel: [Keys -> Service or Absent]
    snat,       \* the rules last handed to snat.Manager: [RuleKeys -> target]
    health,     \* HealthChecker.IsHealthy
    managed,    \* r.managed
    pc,         \* where the pass is
    cfg,        \* desiredConfigs
    want,       \* desiredMap
    actual,     \* actualMap: the scheduler of each service found
    todo,       \* keys the current loop has still to visit
    cur, have, dtodo,  \* reconcileDestinations: service, actualDestMap, calls due
    failed,     \* reconcileErrors is not empty
    outcome,    \* what the latest Reconcile or Cleanup returned
    ours,       \* history: services of the kernel that this process created
    configured, \* history: keys of all configurations this process was given
    disturbed,  \* history: the administrator acted since the pass began
    faulted,    \* history: a call of the pass failed although it was valid
    flipped     \* history: a backend changed health since the pass began

locals == <<cfg, want, actual, todo, cur, have, dtodo>>
history == <<ours, configured, disturbed, faulted, flipped>>
vars == <<ipvs, snat, health, managed, pc, locals, failed, outcome, history>>

NoService == [k \in Keys |-> Absent]
NoDests == [b \in Backends |-> Absent]

Init ==
    /\ ipvs = NoService /\ snat = [r \in RuleKeys |-> Absent]
    /\ health = [b \in Backends |-> TRUE]
    /\ managed = {} /\ pc = "stopped"
    /\ cfg = <<>> /\ want = NoService /\ actual = NoService /\ todo = {}
    /\ cur = Absent /\ have = NoDests /\ dtodo = {}
    /\ failed = FALSE /\ outcome = "none"
    /\ ours = {} /\ configured = {}
    /\ disturbed = FALSE /\ faulted = FALSE /\ flipped = FALSE

-----------------------------------------------------------------------------
(* The desired state. *)

\* The health filter: only services with a health check look at the health.
Serves_AlwaysFilter(e, b) == e.weight[b] # Absent /\ health[b]

Serves(e, b) == e.weight[b] # Absent /\ (e.hc => health[b])

\* buildDesiredState returns an error for a service or a served backend that
\* does not convert, whatever the rest of the list is.
BuildFails(c) ==
    \E i \in DOMAIN c : ~c[i].valid \/ \E b \in BadBackends : Serves(c[i], b)

\* The last entry of a key wins: result[key] is assigned in list order.
EntryOf(c, k) ==
    c[CHOOSE i \in DOMAIN c : /\ c[i].key = k
                              /\ \A j \in DOMAIN c : c[j].key = k => j <= i]

HasEntry(c, k) == \E i \in DOMAIN c : c[i].key = k

\* A pass that keeps an unhealthy backend with weight 0.
DesiredService_Drain(e) ==
    [sched |-> e.sched,
     dests |-> [b \in Backends |-> IF Serves(e, b) THEN e.weight[b] ELSE 0]]

DesiredService(e) ==
    [sched |-> e.sched,
     dests |-> [b \in Backends |-> IF Serves(e, b) THEN e.weight[b] ELSE Absent]]

buildDesiredState(c) ==
    [k \in Keys |->
        IF HasEntry(c, k) THEN DesiredService(EntryOf(c, k)) ELSE Absent]

\* reconcileSNAT reads the health again. Rules with the same key overwrite
\* each other in list order (desiredMap of snat.Manager.Reconcile).
NatEntries_AlwaysFilter(c, r) ==
    {i \in DOMAIN c : /\ c[i].nat # Absent
                      /\ Proto[c[i].key] = r[2]
                      /\ Serves_AlwaysFilter(c[i], r[1])}

NatEntries(c, r) ==
    {i \in DOMAIN c : /\ c[i].nat # Absent
                      /\ Proto[c[i].key] = r[2]
                      /\ Serves(c[i], r[1])}

SnatFails(c) ==
    \E i \in DOMAIN c : c[i].nat # Absent
                        /\ \E b \in BadBackends : Serves(c[i], b)

DesiredSNAT(c) ==
    [r \in RuleKeys |->
        IF NatEntries(c, r) = {} THEN Absent
        ELSE c[CHOOSE i \in NatEntries(c, r) :
                  \A j \in NatEntries(c, r) : j <= i].nat]

-----------------------------------------------------------------------------
(* Calls on the handle. The kernel refuses to create what exists and to      *)
(* change or delete what does not; DelService deletes the destinations too.  *)
(* ok = FALSE is a failure of the call itself.                               *)

Exists(k) == ipvs[k] # Absent

NewService(k, s) ==
    ipvs' = [ipvs EXCEPT ![k] = [sched |-> s.sched, dests |-> NoDests]]

\* An update that replaces the service and so drops its destinations.
UpdateService_Recreate(k, s) ==
    ipvs' = [ipvs EXCEPT ![k] = [sched |-> s.sched, dests |-> NoDests]]

UpdateService(k, s) == ipvs' = [ipvs EXCEPT ![k].sched = s.sched]

DelService(k) == ipvs' = [ipvs EXCEPT ![k] = Absent]

\* NewDestination, UpdateDestination, and DelDestination with w = Absent.
SetDestination(k, b, w) == ipvs' = [ipvs EXCEPT ![k].dests[b] = w]

\* A call that did not take effect: an error joins reconcileErrors.
CallFails(ok) ==
    /\ failed' = TRUE
    /\ faulted' = (faulted \/ ~ok)
    /\ UNCHANGED ipvs

CallSucceeds == UNCHANGED <<failed, faulted>>

-----------------------------------------------------------------------------
(* Reconcile *)

\* buildDesiredState or GetServices returns an error: nothing is changed, for
\* any service.
ReconcileAborts(c) ==
    /\ pc = "idle"
    /\ outcome' = IF BuildFails(c) THEN "rejected" ELSE "error"
    /\ UNCHANGED <<ipvs, snat, health, managed, pc, locals, failed, history>>

\* A pass that only knows its own services, and one that takes every service
\* of the kernel for its own.
Visible_ManagedOnly(d) == {k \in Keys : Exists(k) /\ k \in managed}
Visible_All(d) == {k \in Keys : Exists(k)}

\* Services of the kernel that a pass looks at: those that are managed, and
\* those that are desired, so that a restarted process adopts its own.
Visible(d) == {k \in Keys : Exists(k) /\ (k \in managed \/ d[k] # Absent)}

\* Phases 1 and 2: desiredMap and actualMap.
ReconcileBegin(c) ==
    /\ pc = "idle" /\ ~BuildFails(c)
    /\ cfg' = c
    /\ want' = buildDesiredState(c)
    /\ actual' = [k \in Keys |->
                     IF k \in Visible(want') THEN ipvs[k].sched ELSE Absent]
    /\ todo' = {k \in Keys : want'[k] # Absent}
    /\ pc' = "services"
    /\ failed' = FALSE /\ faulted' = FALSE
    /\ disturbed' = FALSE /\ flipped' = FALSE
    /\ configured' = configured \cup {k \in Keys : want'[k] # Absent}
    /\ UNCHANGED <<ipvs, snat, health, managed, cur, have, dtodo, outcome, ours>>

\* A pass that does not note the services it creates.
MarkManaged_ExistingOnly(k, done) ==
    IF actual[k] # Absent THEN managed \cup {k} ELSE managed

\* r.managed[key] = true: after a successful CreateService, and at once for a
\* service that was found, whether or not UpdateService succeeds.
MarkManaged(k, done) ==
    IF actual[k] # Absent \/ done THEN managed \cup {k} ELSE managed

\* Phase 3 for one desired key; on success phase 4 follows.
EnsureService(k, ok) ==
    LET ck == Canon[k]
        creates == actual[k] = Absent
        updates == ~creates /\ actual[k] # want[k].sched
        done == \/ creates /\ ok /\ ~Exists(ck)
                \/ updates /\ ok /\ Exists(ck)
                \/ ~creates /\ ~updates
    IN  /\ pc = "services" /\ k \in todo
        /\ creates \/ updates \/ ok
        /\ todo' = todo \ {k}
        /\ managed' = MarkManaged(k, done)
        /\ \/ ~done /\ CallFails(ok) /\ UNCHANGED <<pc, cur>>
           \/ /\ done /\ CallSucceeds
              /\ pc' = "get_dests" /\ cur' = k
              /\ \/ creates /\ NewService(ck, want[k])
                 \/ updates /\ UpdateService(ck, want[k])
                 \/ ~creates /\ ~updates /\ UNCHANGED ipvs
        /\ ours' = IF done /\ creates THEN ours \cup {ck} ELSE ours
        /\ UNCHANGED <<snat, health, cfg, want, actual, have, dtodo, outcome,
                       configured, disturbed, flipped>>

\* A diff that forgets the weights.
Due_PresenceOnly(found, wanted) ==
    {b \in Backends : (found[b] = Absent) # (wanted[b] = Absent)}

\* The destinations for which the diff of actualDestMap and desiredDestMap
\* asks for a call.
Due(found, wanted) == {b \in Backends : found[b] # wanted[b]}

\* reconcileDestinations: GetDestinations and the diff.
GetDestinations(ok) ==
    LET ck == Canon[cur]
        got == ok /\ Exists(ck)
        due == Due(ipvs[ck].dests, want[cur].dests)
    IN  /\ pc = "get_dests"
        /\ IF got THEN CallSucceeds /\ UNCHANGED ipvs ELSE CallFails(ok)
        /\ IF got /\ due # {}
             THEN /\ pc' = "dests" /\ have' = ipvs[ck].dests /\ dtodo' = due
                  /\ UNCHANGED cur
             ELSE /\ pc' = "services" /\ cur' = Absent
                  /\ UNCHANGED <<have, dtodo>>
        /\ UNCHANGED <<snat, health, managed, cfg, want, actual, todo, outcome,
                       ours, configured, disturbed, flipped>>

\* One CreateDestination, UpdateDestination or DeleteDestination. Deletions
\* come after the others; an error does not stop the loop.
ChangeDestination(b, ok) ==
    LET ck == Canon[cur]
        w == want[cur].dests[b]
        creates == have[b] = Absent
        accepted == Exists(ck) /\ ((ipvs[ck].dests[b] = Absent) <=> creates)
    IN  /\ pc = "dests" /\ b \in dtodo
        /\ w = Absent => \A x \in dtodo : want[cur].dests[x] = Absent
        /\ IF ok /\ accepted THEN SetDestination(ck, b, w) /\ CallSucceeds
                             ELSE CallFails(ok)
        /\ dtodo' = dtodo \ {b}
        /\ IF dtodo' = {}
             THEN pc' = "services" /\ cur' = Absent /\ have' = NoDests
             ELSE UNCHANGED <<pc, cur, have>>
        /\ UNCHANGED <<snat, health, managed, cfg, want, actual, todo, outcome,
                       ours, configured, disturbed, flipped>>

\* All desired services are visited: the services found and no longer desired
\* are next.
BeginDeletes ==
    /\ pc = "services" /\ todo = {}
    /\ pc' = "deletes"
    /\ todo' = {k \in Keys : actual[k] # Absent /\ want[k] = Absent}
    /\ UNCHANGED <<ipvs, snat, health, managed, cfg, want, actual, cur, have,
                   dtodo, failed, outcome, history>>

\* A deletion that forgets the service even if the kernel refused.
Unmanage_Always(k, done) == managed \ {k}

\* delete(r.managed, key), only when DeleteService succeeded.
Unmanage(k, done) == IF done THEN managed \ {k} ELSE managed

DeleteService(k, ok) ==
    LET done == ok /\ Exists(k)
    IN  /\ pc = "deletes" /\ k \in todo
        /\ todo' = todo \ {k}
        /\ managed' = Unmanage(k, done)
        /\ IF done THEN DelService(k) /\ ours' = ours \ {k} /\ CallSucceeds
                   ELSE UNCHANGED ours /\ CallFails(ok)
        /\ UNCHANGED <<snat, health, pc, cfg, want, actual, cur, have, dtodo,
                       outcome, configured, disturbed, flipped>>

\* Phase 5 and the result. The SNAT manager is handed the desired rules unless
\* one does not convert; it reports no failures of its own.
FinishReconcile ==
    /\ pc = "deletes" /\ todo = {}
    /\ pc' = "idle"
    /\ snat' = IF SnatFails(cfg) THEN snat ELSE DesiredSNAT(cfg)
    /\ outcome' = IF failed \/ SnatFails(cfg) THEN "error" ELSE "ok"
    /\ actual' = NoService
    /\ UNCHANGED <<ipvs, health, managed, cfg, want, todo, cur, have, dtodo,
                   failed, history>>

-----------------------------------------------------------------------------
(* Cleanup, at exit. *)

CleanupAborts ==
    /\ pc = "idle"
    /\ pc' = "cleaned" /\ outcome' = "error"
    /\ UNCHANGED <<ipvs, snat, health, managed, locals, failed, history>>

CleanupBegin ==
    /\ pc = "idle"
    /\ pc' = "cleanup"
    /\ actual' = [k \in Keys |-> IF Exists(k) THEN ipvs[k].sched ELSE Absent]
    /\ todo' = managed
    /\ failed' = FALSE /\ faulted' = FALSE
    /\ disturbed' = FALSE /\ flipped' = FALSE
    /\ UNCHANGED <<ipvs, snat, health, managed, cfg, want, cur, have, dtodo,
                   outcome, ours, configured>>

\* A managed key that the kernel does not list is just dropped.
CleanupKey(k, ok) ==
    LET listed == actual[k] # Absent
        done == listed /\ ok /\ Exists(k)
    IN  /\ pc = "cleanup" /\ k \in todo
        /\ listed \/ ok
        /\ todo' = todo \ {k}
        /\ managed' = IF done \/ ~listed THEN managed \ {k} ELSE managed
        /\ IF done THEN DelService(k) /\ ours' = ours \ {k} /\ CallSucceeds
           ELSE IF listed THEN UNCHANGED ours /\ CallFails(ok)
           ELSE UNCHANGED <<ipvs, ours>> /\ CallSucceeds
        /\ UNCHANGED <<snat, health, pc, cfg, want, actual, cur, have, dtodo,
                       outcome, configured, disturbed, flipped>>

CleanupEnd ==
    /\ pc = "cleanup" /\ todo = {}
    /\ pc' = "cleaned"
    /\ outcome' = IF failed THEN "error" ELSE "ok"
    /\ actual' = NoService
    /\ UNCHANGED <<ipvs, snat, health, managed, cfg, want, todo, cur, have,
                   dtodo, failed, history>>

-----------------------------------------------------------------------------
(* The process and its environment. *)

\* NewReconciler: nothing is known of the services of an earlier process.
Start ==
    /\ pc = "stopped"
    /\ pc' = "idle"
    /\ UNCHANGED <<ipvs, snat, health, managed, locals, failed, outcome, history>>

\* The process ends or is killed, in whatever step it is.
Stop ==
    /\ pc # "stopped"
    /\ pc' = "stopped"
    /\ managed' = {} /\ ours' = {} /\ configured' = {}
    /\ cfg' = <<>> /\ want' = NoService /\ actual' = NoService /\ todo' = {}
    /\ cur' = Absent /\ have' = NoDests /\ dtodo' = {}
    /\ failed' = FALSE /\ outcome' = "none"
    /\ disturbed' = FALSE /\ faulted' = FALSE /\ flipped' = FALSE
    /\ UNCHANGED <<ipvs, snat, health>>

HealthFlip(b) ==
    /\ health' = [health EXCEPT ![b] = ~@]
    /\ flipped' = TRUE
    /\ UNCHANGED <<ipvs, snat, managed, pc, locals, failed, outcome, ours,
                   configured, disturbed, faulted>>

\* ipvsadm -A and -D.
AdminAdd(k, s) ==
    /\ k = Canon[k] /\ ~Exists(k)
    /\ ipvs' = [ipvs EXCEPT ![k] = s]
    /\ disturbed' = TRUE
    /\ UNCHANGED <<snat, health, managed, pc, locals, failed, outcome, ours,
                   configured, faulted, flipped>>

AdminDelete(k) ==
    /\ Exists(k)
    /\ ipvs' = [ipvs EXCEPT ![k] = Absent]
    /\ ours' = ours \ {k}
    /\ disturbed' = TRUE
    /\ UNCHANGED <<snat, health, managed, pc, locals, failed, outcome,
                   configured, faulted, flipped>>

Reconcile ==
    \/ \E c \in Configs : ReconcileAborts(c) \/ ReconcileBegin(c)
    \/ \E k \in Keys, ok \in BOOLEAN : EnsureService(k, ok) \/ DeleteService(k, ok)
    \/ \E ok \in BOOLEAN : GetDestinations(ok)
    \/ \E b \in Backends, ok \in BOOLEAN : ChangeDestination(b, ok)
    \/ BeginDeletes \/ FinishReconcile

Cleanup ==
    \/ CleanupAborts \/ CleanupBegin \/ CleanupEnd
    \/ \E k \in Keys, ok \in BOOLEAN : CleanupKey(k, ok)

Environment ==
    \/ \E b \in Flaky : HealthFlip(b)
    \/ \E k \in AdminKeys : AdminDelete(k) \/ \E s \in AdminServices : AdminAdd(k, s)

Next == Reconcile \/ Cleanup \/ Start \/ Stop \/ Environment

Spec == Init /\ [][Next]_vars

-----------------------------------------------------------------------------
(* The shape of the state. *)
TypeOK ==
    /\ ipvs \in [Keys -> Service \cup {Absent}]
    /\ want \in [Keys -> Service \cup {Absent}]
    /\ actual \in [Keys -> Scheds \cup {Absent}]
    /\ snat \in [RuleKeys -> Targets \cup {Absent}]
    /\ health \in [Backends -> BOOLEAN]
    /\ have \in [Backends -> Weights \cup {Absent}]
    /\ managed \subseteq Keys /\ todo \subseteq Keys
    /\ ours \subseteq Keys /\ configured \subseteq Keys
    /\ dtodo \subseteq Backends
    /\ cfg \in Configs \cup {<<>>}
    /\ pc \in {"stopped", "idle", "services", "get_dests", "dests", "deletes",
               "cleanup", "cleaned"}
    /\ pc \in {"get_dests", "dests"} => cur \in Keys /\ want[cur] # Absent
    /\ outcome \in {"none", "ok", "error", "rejected"}
    /\ failed \in BOOLEAN /\ disturbed \in BOOLEAN
    /\ faulted \in BOOLEAN /\ flipped \in BOOLEAN

(* Nothing the process created is forgotten: whatever calls fail and         *)
(* whatever the administrator does, a service of the kernel that Reconcile   *)
(* created is in r.managed, so that a later pass or Cleanup removes it.      *)
OursIsManaged == ours \subseteq managed

(* Reconcile returning nil means "the kernel is in sync": every desired      *)
(* service has its scheduler and exactly the desired destinations, and every *)
(* other service that FastVIP manages is gone. (Unless the administrator     *)
(* acted since the pass began.)                                              *)
OkMeansInSync ==
    pc = "idle" /\ outcome = "ok" /\ ~disturbed =>
        /\ \A k \in Keys : want[k] # Absent => ipvs[Canon[k]] = want[k]
        /\ \A k \in managed \cup ours : want[k] = Absent => ipvs[k] = Absent

(* Reconcile never trips over its own work, or over what an earlier process  *)
(* left: without interference it fails only if the kernel fails a valid call.*)
NoSelfInflictedError == failed /\ ~disturbed => faulted

(* A Cleanup that reports success left nothing behind that this process      *)
(* created ("Cleanup removes all IPVS services currently managed").          *)
CleanupRemovesOurs == pc = "cleaned" /\ outcome = "ok" => ours = {}

(* "leaving other IPVS rules untouched": a step of the reconciler changes a  *)
(* service of the kernel only if this process was configured with its key.   *)
OthersUntouched ==
    [][Reconcile \/ Cleanup =>
          \A k \in Keys : ipvs'[k] # ipvs[k] =>
              \E c \in configured : Canon[c] = k]_vars

(* Full NAT never forwards a backend's traffic without translating it: after *)
(* a pass during which no health changed, each destination programmed for a  *)
(* full_nat service has a SNAT rule, although IPVS and SNAT are derived by   *)
(* two walks over the list with their own reads of the health.               *)
NatCoversIpvs ==
    pc = "idle" /\ outcome = "ok" /\ ~disturbed /\ ~flipped =>
        \A k \in Keys, b \in Backends :
            /\ HasEntry(cfg, k) /\ EntryOf(cfg, k).nat # Absent
            /\ ipvs[Canon[k]].dests[b] # Absent
            => snat[<<b, Proto[k]>>] # Absent

-----------------------------------------------------------------------------
(* What KernelSync calls the goal, and when it calls the reconciler busy. *)
Goal == IF pc \in {"cleanup", "cleaned"} THEN NoService ELSE want

Busy == pc \in {"services", "get_dests", "dests", "deletes", "cleanup"}

Sync == INSTANCE KernelSync WITH
            table <- ipvs, goal <- Goal, busy <- Busy, owned <- ours,
            result <- IF outcome = "rejected" THEN "error" ELSE outcome

(* Reconcile and Cleanup do what KernelSync promises: each kernel call moves *)
(* one service towards the desired state and takes away nothing that is      *)
(* desired (no service is deleted and created again, no wanted destination   *)
(* dropped), and nil means that the goal is reached.                         *)
ImplementsKernelSync == Sync!Spec
=============================================================================
