------------------------------- MODULE Server -------------------------------
(***************************************************************************)
(* The goroutines of a fastVIP daemon (pkg/server/server.go) and what they  *)
(* share: the configuration of config.Manager with its one-element onChange *)
(* channel, the statuses of healthcheck.Manager, and the kernel rules       *)
(* behind the mutex of lvs.Reconciler.                                      *)
(*                                                                          *)
(*   Reloaders  the fsnotify watcher and POST /reload handlers: Reload      *)
(*   "main"     Server.Run: startup, the event loop, shutdown               *)
(*   Workers    runCheck goroutines; a status change calls triggerReconcile *)
(*                                                                          *)
(* A configuration is the set of backends of one health-checked full_nat    *)
(* service. Reconcile is reduced to what this module is about: it is        *)
(* serialised by r.mu, it was given its configuration before it got the     *)
(* mutex, it reads each backend's health on its own, once for IPVS and once *)
(* for SNAT, and then programs what it saw; module Reconciler has the diff. *)
(***************************************************************************)
EXTENDS Naturals

CONSTANTS
    Backends,
    Configs,    \* the valid configurations: sets of backends
    BadFile,    \* a configuration file that Load rejects
    Reloaders, Watcher, Workers,
    KernelFails, \* whether the kernel calls of a pass may fail
    MaxEdits,    \* bound: how often the file is edited
    Nobody

Threads == {"main"} \cup Workers

ASSUME ServerAssumptions ==
    /\ Configs \subseteq SUBSET Backends
    /\ {} \notin Configs /\ Configs # {}
    /\ BadFile \notin Configs
    /\ Watcher \in Reloaders
    /\ Nobody \notin Threads \cup Backends
    /\ "main" \notin Workers
    /\ KernelFails \in BOOLEAN /\ MaxEdits \in Nat

VARIABLES
    file, edits, fsEvent,    \* the file and how often it was edited; a pending
                             \* fsnotify event
    missed,                  \* history: an edit that no watcher saw and no
                             \* Load read
    current, signal,         \* m.current; the onChange channel is not empty
    rpc, rcfg,               \* Reload: where it is, what Load returned
    mpc, watching,           \* Run: where it is; WatchConfig was called
    status,                  \* m.statuses: "none", "up" or "down"
    checks, owner,           \* worker -> backend; backend -> its live worker
    wpc,                     \* runCheck: where the worker is
    arg,                     \* thread -> configuration it calls Reconcile with
    lock, phase, unread, seen, \* r.mu and the locals of the pass under it
    kernel, nat              \* IPVS [cfg, up, ok] and the SNAT rules

configVars == <<file, edits, fsEvent, missed, current, signal, rpc, rcfg>>
healthVars == <<status, checks, owner>>
passVars == <<lock, phase, unread, seen>>
vars == <<configVars, mpc, watching, healthVars, wpc, arg, passVars, kernel, nat>>

\* A local variable that holds no configuration.
NoConfig == {}

NoKernel == [cfg |-> NoConfig, up |-> {}, ok |-> TRUE]

\* After a pass that failed nothing is known of the kernel until one succeeds.
UnknownKernel == [cfg |-> NoConfig, up |-> {}, ok |-> FALSE]

\* NewServer: the configuration is loaded; Run has not started.
Init ==
    /\ file \in Configs /\ edits = 0 /\ fsEvent = FALSE /\ missed = FALSE
    /\ current = file /\ signal = FALSE
    /\ rpc = [r \in Reloaders |-> "idle"] /\ rcfg = [r \in Reloaders |-> NoConfig]
    /\ mpc = "fetch" /\ watching = FALSE
    /\ status = [b \in Backends |-> "none"]
    /\ checks = [w \in Workers |-> Nobody] /\ owner = [b \in Backends |-> Nobody]
    /\ wpc = [w \in Workers |-> "loop"]
    /\ arg = [t \in Threads |-> NoConfig]
    /\ lock = Nobody /\ phase = "ipvs" /\ unread = {} /\ seen = {}
    /\ kernel = NoKernel /\ nat = {}

Running == mpc # "exited"

\* initAdminServer follows the first GetConfig; shutdown stops it first.
AdminServes ==
    /\ mpc \notin {"cleanup", "cleanup_snat", "closing", "exited"}
    /\ mpc = "fetch" => watching

\* What makes a reloader call Reload: an event, or a POST request at any time.
Asked(r) == IF r = Watcher THEN fsEvent ELSE AdminServes

-----------------------------------------------------------------------------
(* config.Manager *)

\* The operator edits the file; an event is only raised once the watcher runs.
EditFile(f) ==
    /\ Running /\ f # file /\ edits < MaxEdits
    /\ file' = f /\ edits' = edits + 1
    /\ fsEvent' = watching
    /\ missed' = (missed \/ ~watching)
    /\ UNCHANGED <<current, signal, rpc, rcfg, mpc, watching, healthVars, wpc,
                   arg, passVars, kernel, nat>>

\* A Load that skips Validate.
ReloadLoad_NoValidate(r) ==
    /\ Running /\ rpc[r] = "idle"
    /\ Asked(r)
    /\ fsEvent' = (fsEvent /\ r # Watcher)
    /\ rpc' = [rpc EXCEPT ![r] = "loaded"]
    /\ rcfg' = [rcfg EXCEPT ![r] = file]
    /\ missed' = FALSE
    /\ UNCHANGED <<file, edits, current, signal, mpc, watching, healthVars, wpc, arg,
                   passVars, kernel, nat>>

\* Reload, first part: Load, outside the mutex. A rejected file ends it. The
\* watcher runs on an event, a handler whenever a request comes while the
\* admin server is up.
ReloadLoad(r) ==
    /\ Running /\ rpc[r] = "idle"
    /\ Asked(r)
    /\ fsEvent' = (fsEvent /\ r # Watcher)
    /\ IF file \in Configs
         THEN /\ rpc' = [rpc EXCEPT ![r] = "loaded"]
              /\ rcfg' = [rcfg EXCEPT ![r] = file]
              /\ missed' = FALSE
         ELSE UNCHANGED <<rpc, rcfg, missed>>
    /\ UNCHANGED <<file, edits, current, signal, mpc, watching, healthVars, wpc, arg,
                   passVars, kernel, nat>>

\* A Reload that leaves it at a change that is already signalled.
ReloadStore_SkipIfSignalled(r) ==
    /\ Running /\ rpc[r] = "loaded"
    /\ current' = IF signal THEN current ELSE rcfg[r]
    /\ rpc' = [rpc EXCEPT ![r] = "stored"]
    /\ rcfg' = [rcfg EXCEPT ![r] = NoConfig]
    /\ UNCHANGED <<file, edits, fsEvent, missed, signal, mpc, watching, healthVars,
                   wpc, arg, passVars, kernel, nat>>

\* m.current = cfg under the mutex.
ReloadStore(r) ==
    /\ Running /\ rpc[r] = "loaded"
    /\ current' = rcfg[r]
    /\ rpc' = [rpc EXCEPT ![r] = "stored"]
    /\ rcfg' = [rcfg EXCEPT ![r] = NoConfig]
    /\ UNCHANGED <<file, edits, fsEvent, missed, signal, mpc, watching, healthVars,
                   wpc, arg, passVars, kernel, nat>>

\* The send on a channel without a buffer: it is lost unless main receives.
ReloadNotify_Unbuffered(r) ==
    /\ Running /\ rpc[r] = "stored"
    /\ signal' = (signal \/ mpc = "select")
    /\ rpc' = [rpc EXCEPT ![r] = "idle"]
    /\ UNCHANGED <<file, edits, fsEvent, missed, current, rcfg, mpc, watching,
                   healthVars, wpc, arg, passVars, kernel, nat>>

\* The non-blocking send: a signal that is already there stands for this one.
ReloadNotify(r) ==
    /\ Running /\ rpc[r] = "stored"
    /\ signal' = TRUE
    /\ rpc' = [rpc EXCEPT ![r] = "idle"]
    /\ UNCHANGED <<file, edits, fsEvent, missed, current, rcfg, mpc, watching,
                   healthVars, wpc, arg, passVars, kernel, nat>>

-----------------------------------------------------------------------------
(* healthcheck.Manager *)

IsHealthy(b) == status[b] # "down"

\* A cancelled goroutine keeps its worker until it notices; the others are free.
FreeWorkers == {w \in Workers : checks[w] = Nobody}

\* The goroutine that checks b, once the configuration is c.
NewOwner(c, b, spawn) ==
    IF b \notin c THEN Nobody ELSE
    IF b \in DOMAIN spawn THEN spawn[b] ELSE owner[b]

\* UpdateTargets, all services having a health check: backends that are gone
\* lose their status and their goroutine is cancelled; new ones start healthy
\* in a goroutine of their own (spawn gives the worker of each; one free
\* worker is as good as another).
UpdateTargets(c) ==
    LET new == {b \in c : status[b] = "none"}
        Spawns == {f \in [new -> FreeWorkers] :
                      \A b1, b2 \in new : f[b1] = f[b2] => b1 = b2}
        spawn == CHOOSE f \in Spawns : TRUE
    IN  /\ Spawns # {}
        /\ status' = [b \in Backends |->
              IF b \notin c THEN "none" ELSE
              IF b \in new THEN "up" ELSE status[b]]
        /\ owner' = [b \in Backends |-> NewOwner(c, b, spawn)]
        /\ checks' = [w \in Workers |->
              IF \E b \in new : spawn[b] = w
                THEN CHOOSE b \in new : spawn[b] = w ELSE checks[w]]

\* handleCheckResult when the result changes the status. The status is looked
\* up by address, so a cancelled goroutine whose backend is tracked again
\* counts. The goroutine then runs the callback.
StatusChange(w) ==
    LET b == checks[w]
    IN  /\ Running /\ b # Nobody /\ wpc[w] = "loop" /\ status[b] # "none"
        /\ status' = [status EXCEPT ![b] = IF @ = "up" THEN "down" ELSE "up"]
        /\ wpc' = [wpc EXCEPT ![w] = "changed"]
        /\ UNCHANGED <<configVars, mpc, watching, checks, owner, arg, passVars,
                       kernel, nat>>

\* runCheck sees ctx.Done.
WorkerEnds(w) ==
    /\ Running /\ checks[w] # Nobody /\ wpc[w] = "loop"
    /\ owner[checks[w]] # w
    /\ checks' = [checks EXCEPT ![w] = Nobody]
    /\ UNCHANGED <<configVars, mpc, watching, status, owner, wpc, arg, passVars,
                   kernel, nat>>

\* A callback that relies on the pass that is already running.
CallbackFetch_SkipIfBusy(w) ==
    /\ Running /\ wpc[w] = "changed"
    /\ arg' = [arg EXCEPT ![w] = IF lock = Nobody THEN current ELSE NoConfig]
    /\ wpc' = [wpc EXCEPT ![w] = IF lock = Nobody THEN "wait" ELSE "loop"]
    /\ UNCHANGED <<configVars, mpc, watching, healthVars, passVars, kernel, nat>>

\* triggerReconcile: GetConfig, then Reconcile, which waits for r.mu.
CallbackFetch(w) ==
    /\ Running /\ wpc[w] = "changed"
    /\ arg' = [arg EXCEPT ![w] = current]
    /\ wpc' = [wpc EXCEPT ![w] = "wait"]
    /\ UNCHANGED <<configVars, mpc, watching, healthVars, passVars, kernel, nat>>

-----------------------------------------------------------------------------
(* lvs.Reconciler.Reconcile *)

Waiting(t) == IF t = "main" THEN mpc = "wait" ELSE wpc[t] = "wait"

Acquire(t) ==
    /\ Running /\ Waiting(t) /\ lock = Nobody
    /\ lock' = t /\ phase' = "ipvs" /\ unread' = arg[t] /\ seen' = {}
    /\ UNCHANGED <<configVars, mpc, watching, healthVars, wpc, arg, kernel, nat>>

\* One IsHealthy of buildDesiredState or reconcileSNAT.
ReadHealth(b) ==
    /\ Running /\ lock # Nobody /\ b \in unread
    /\ unread' = unread \ {b}
    /\ seen' = IF IsHealthy(b) THEN seen \cup {b} ELSE seen
    /\ UNCHANGED <<configVars, mpc, watching, healthVars, wpc, arg, lock, phase,
                   kernel, nat>>

\* The caller of Reconcile goes on: main to its loop (the first time it starts
\* the watcher), a worker back to runCheck.
Return(t) ==
    IF t = "main"
      THEN mpc' = "select" /\ watching' = TRUE /\ UNCHANGED <<wpc, arg>>
      ELSE /\ wpc' = [wpc EXCEPT ![t] = "loop"]
           /\ arg' = [arg EXCEPT ![t] = NoConfig]
           /\ UNCHANGED <<mpc, watching>>

\* buildDesiredState or GetServices fails: Reconcile returns before it has
\* called the kernel or the SNAT manager, and nothing retries it.
AbortPass ==
    /\ Running /\ lock # Nobody /\ phase = "ipvs" /\ KernelFails
    /\ kernel' = UnknownKernel
    /\ lock' = Nobody /\ unread' = {} /\ seen' = {}
    /\ Return(lock)
    /\ UNCHANGED <<configVars, healthVars, phase, nat>>

\* Phases 3 and 4. A failing call ends nothing: the SNAT phase follows all the
\* same, and nothing retries the pass.
ProgramIpvs(ok) ==
    /\ Running /\ lock # Nobody /\ phase = "ipvs" /\ unread = {}
    /\ ok \/ KernelFails
    /\ kernel' = IF ok THEN [cfg |-> arg[lock], up |-> seen, ok |-> TRUE]
                       ELSE UnknownKernel
    /\ phase' = "snat" /\ unread' = arg[lock] /\ seen' = {}
    /\ UNCHANGED <<configVars, mpc, watching, healthVars, wpc, arg, lock, nat>>

\* Phase 5, and the mutex is released. Once CleanupSnat has deleted the chain
\* no rule can be added to it.
ProgramSnat ==
    /\ Running /\ lock # Nobody /\ phase = "snat" /\ unread = {}
    /\ nat' = IF mpc = "closing" THEN nat ELSE seen
    /\ lock' = Nobody /\ phase' = "ipvs" /\ seen' = {}
    /\ Return(lock)
    /\ UNCHANGED <<configVars, healthVars, unread, kernel>>

-----------------------------------------------------------------------------
(* Server.Run *)

\* case <-OnChange()
ReceiveSignal ==
    /\ mpc = "select" /\ signal
    /\ signal' = FALSE
    /\ mpc' = "fetch"
    /\ UNCHANGED <<file, edits, fsEvent, missed, current, rpc, rcfg, watching,
                   healthVars, wpc, arg, passVars, kernel, nat>>

\* GetConfig, at startup and after a signal.
FetchConfig ==
    /\ mpc = "fetch"
    /\ arg' = [arg EXCEPT !["main"] = current]
    /\ mpc' = "targets"
    /\ UNCHANGED <<configVars, watching, healthVars, wpc, passVars, kernel, nat>>

SyncTargets ==
    /\ mpc = "targets"
    /\ UpdateTargets(arg["main"])
    /\ mpc' = "wait"
    /\ UNCHANGED <<configVars, watching, wpc, arg, passVars, kernel, nat>>

\* case <-ctx.Done(): shutdown stops the health manager, which cancels the
\* goroutines and forgets the statuses but does not wait for a callback.
BeginShutdown ==
    /\ mpc = "select"
    /\ mpc' = "cleanup"
    /\ status' = [b \in Backends |-> "none"]
    /\ owner' = [b \in Backends |-> Nobody]
    /\ UNCHANGED <<configVars, watching, checks, wpc, arg, passVars, kernel, nat>>

\* cleanup_on_exit has its default, true: Reconciler.Cleanup under r.mu; an
\* error is only logged.
CleanupRules(ok) ==
    /\ mpc = "cleanup" /\ lock = Nobody
    /\ ok \/ KernelFails
    /\ kernel' = IF ok THEN NoKernel ELSE UnknownKernel
    /\ mpc' = "cleanup_snat"
    /\ UNCHANGED <<configVars, watching, healthVars, wpc, arg, passVars, nat>>

\* snatMgr.Cleanup, under the SNAT manager's own mutex and not under r.mu.
CleanupSnat ==
    /\ mpc = "cleanup_snat"
    /\ nat' = {}
    /\ mpc' = "closing"
    /\ UNCHANGED <<configVars, watching, healthVars, wpc, arg, passVars, kernel>>

\* lvsMgr.Close and the end of the process, with every goroutine in it.
ProcessExit ==
    /\ mpc = "closing"
    /\ mpc' = "exited"
    /\ UNCHANGED <<configVars, watching, healthVars, wpc, arg, passVars, kernel, nat>>

-----------------------------------------------------------------------------
Reload == \E r \in Reloaders : ReloadLoad(r) \/ ReloadStore(r) \/ ReloadNotify(r)

Reconcile ==
    \/ \E t \in Threads : Acquire(t)
    \/ \E b \in Backends : ReadHealth(b)
    \/ \E ok \in BOOLEAN : ProgramIpvs(ok)
    \/ AbortPass \/ ProgramSnat

Main == ReceiveSignal \/ FetchConfig \/ SyncTargets
        \/ (\E ok \in BOOLEAN : CleanupRules(ok)) \/ CleanupSnat \/ ProcessExit

Worker == \E w \in Workers : WorkerEnds(w) \/ CallbackFetch(w)

Environment ==
    \/ \E f \in Configs \cup {BadFile} : EditFile(f)
    \/ \E w \in Workers : StatusChange(w)
    \/ BeginShutdown

Next == Reload \/ Reconcile \/ Main \/ Worker \/ Environment

Spec == Init /\ [][Next]_vars

\* The Go scheduler runs every goroutine that can run; sync.Mutex in starvation
\* mode hands r.mu to a goroutine that has waited for it; a ticker and ctx.Done
\* are both seen by runCheck's select. Edits, requests, status changes, kernel
\* failures and the end of the process are not required to happen, and the
\* kernel's calls return.
Fairness ==
    /\ \A r \in Reloaders :
          WF_vars((r = Watcher /\ ReloadLoad(r)) \/ ReloadStore(r) \/ ReloadNotify(r))
    /\ SF_vars(Main \/ Acquire("main"))
    /\ \A w \in Workers : SF_vars(WorkerEnds(w)) /\ SF_vars(CallbackFetch(w) \/ Acquire(w))
    /\ WF_vars((\E b \in Backends : ReadHealth(b)) \/ ProgramIpvs(TRUE) \/ ProgramSnat)

FairSpec == Spec /\ Fairness

-----------------------------------------------------------------------------
(* The shape of the state. *)
TypeOK ==
    /\ file \in Configs \cup {BadFile} /\ edits \in 0..MaxEdits
    /\ {fsEvent, missed, signal, watching} \subseteq BOOLEAN
    /\ current \in Configs
    /\ rpc \in [Reloaders -> {"idle", "loaded", "stored"}]
    /\ rcfg \in [Reloaders -> Configs \cup {NoConfig}]
    /\ mpc \in {"fetch", "targets", "wait", "select", "cleanup", "cleanup_snat",
               "closing", "exited"}
    /\ status \in [Backends -> {"none", "up", "down"}]
    /\ checks \in [Workers -> Backends \cup {Nobody}]
    /\ owner \in [Backends -> Workers \cup {Nobody}]
    /\ wpc \in [Workers -> {"loop", "changed", "wait"}]
    /\ arg \in [Threads -> Configs \cup {NoConfig}]
    /\ lock \in Threads \cup {Nobody}
    /\ phase \in {"ipvs", "snat"}
    /\ unread \subseteq Backends /\ seen \subseteq Backends
    /\ kernel \in [cfg : Configs \cup {NoConfig}, up : SUBSET Backends, ok : BOOLEAN]
    /\ nat \subseteq Backends

\* Nobody is about to reconcile because of a status change or a signal.
Settled ==
    /\ mpc = "select"
    /\ \A w \in Workers : wpc[w] = "loop"

\* Nothing is under way in the configuration manager either.
Quiet ==
    /\ Settled /\ ~signal /\ ~fsEvent
    /\ \A r \in Reloaders : rpc[r] = "idle"

(* No status change is lost: once every callback has run, the destinations   *)
(* and the SNAT rules are exactly the healthy backends of the configuration  *)
(* last programmed, whatever changed while passes were reading the health    *)
(* (Reconcile, triggerReconcile, UpdateTargets). It is about a last pass     *)
(* that succeeded: nothing retries one that failed.                          *)
KernelFollowsHealth ==
    Settled /\ kernel.ok =>
        /\ kernel.up = {b \in kernel.cfg : IsHealthy(b)}
        /\ nat = kernel.up

(* The one-element channel loses no configuration: when main waits, the      *)
(* channel is empty and no Reload is between its store and its send, main's  *)
(* last pass was given the current configuration (Reload, Run).              *)
NoConfigLost ==
    mpc = "select" /\ ~signal /\ (\A r \in Reloaders : rpc[r] # "stored") =>
        arg["main"] = current

(* README: "File changes automatically trigger reconciliation without        *)
(* restart". The current configuration is the file's once nothing is under   *)
(* way, unless the edit was made before the watcher started (WatchConfig,    *)
(* Reload).                                                                  *)
CurrentIsFile == Quiet /\ ~missed /\ file \in Configs => current = file

(* reconciler.go: Reconcile "bring[s] the kernel in sync". When nothing is   *)
(* under way the kernel has the current configuration.                       *)
KernelHasCurrent == Quiet /\ kernel.ok => kernel.cfg = current

(* cleanup_on_exit: "Remove managed IPVS services and FastVIP-SNAT iptables  *)
(* chain on exit". Nothing is left when the process has exited.              *)
ExitLeavesNothing == mpc = "exited" => kernel = NoKernel /\ nat = {}

(* A backend found down is taken out of the kernel, unless it recovers, the  *)
(* daemon stops or the latest pass has failed (handleCheckResult,            *)
(* triggerReconcile). A failed pass is not retried; as soon as another one   *)
(* succeeds the claim starts again.                                          *)
DownLeavesKernel ==
    \A b \in Backends :
        (status[b] = "down") ~>
            \/ status[b] # "down" \/ ~kernel.ok
            \/ b \notin kernel.up /\ b \notin nat

(* A valid file that stays is reconciled: the event loop has completed a     *)
(* pass with it (failed or not), if it was written after the watcher started *)
(* and the daemon is not stopped (WatchConfig, Reload, Run).                 *)
EditIsReconciled ==
    \A c \in Configs :
        (file = c /\ watching) ~>
            \/ file # c \/ missed
            \/ mpc = "select" /\ arg["main"] = c
            \/ mpc \in {"cleanup", "cleanup_snat", "closing", "exited"}
=============================================================================
