----------------------------- MODULE HealthCheck -----------------------------
(***************************************************************************)
(* healthcheck.Manager (pkg/healthcheck/manager.go) with its thresholds,    *)
(* for several services that share backends.                                *)
(*                                                                          *)
(*   main      Server.Run, which calls UpdateTargets and Stop               *)
(*   Workers   runCheck goroutines: probe, handleCheckResult, and on a      *)
(*             change the callback                                          *)
(*                                                                          *)
(* The statuses are keyed by address, across services and across            *)
(* incarnations of a check; a goroutine keeps the checker and thresholds it *)
(* was started with. What Reconcile does with the verdicts is in module     *)
(* Reconciler.                                                              *)
(***************************************************************************)
EXTENDS Integers, SequencesExt

CONSTANTS
    Backends, Names,
    Files,      \* the service lists that the file may hold
    Flaky,      \* bound: the backends that may die
    Workers,    \* bound: goroutines at a time, cancelled ones included
    MaxCount,   \* consecutive results are counted up to here
    Absent

\* A service as UpdateTargets reads it; enabled may be left out of the file.
ServiceConfig ==
    [name : Names, enabled : {"unset", "on", "off"},
     type : {"", "tcp", "http", "udp"}, fail : Int, rise : Int,
     backends : Seq(Backends)]

IsEnabled(s) == s.enabled # "off"

GetType(s) == IF s.type = "" THEN "tcp" ELSE s.type

GetFailCount(s) == IF s.fail <= 0 THEN 3 ELSE s.fail
GetRiseCount(s) == IF s.rise <= 0 THEN 2 ELSE s.rise

\* Validate, what of it the checks rely on.
Validate(c) ==
    /\ c # <<>>
    /\ \A i, j \in DOMAIN c : c[i].name = c[j].name => i = j
    /\ \A i \in DOMAIN c :
          c[i].backends # <<>> /\ IsInjective(c[i].backends)

Configs == {c \in Files : Validate(c)}

\* What a goroutine was started with, and a backendStatus.
Check ==
    [backend : Backends, type : {"tcp", "http", "udp"},
     fail : 1..MaxCount, rise : 1..MaxCount]
Status == [healthy : BOOLEAN, fails : 0..MaxCount, oks : 0..MaxCount]

ASSUME HealthAssumptions ==
    /\ Files \subseteq Seq(ServiceConfig)
    /\ MaxCount \in Nat \ {0} /\ Flaky \subseteq Backends
    /\ \A c \in Files : \A i \in DOMAIN c :
          GetFailCount(c[i]) <= MaxCount /\ GetRiseCount(c[i]) <= MaxCount
    /\ Absent \notin Backends \cup Workers
    /\ Absent \notin Check /\ Absent \notin Status

VARIABLES
    alive,      \* whether a probe of the backend succeeds now
    current,    \* config.Manager: m.current
    mpc, arg,   \* Run: where it is, the configuration it works with
    services,   \* m.services: name -> "none", "on" or "off"
    statuses,   \* m.statuses: address -> its backendStatus or Absent
    cancel,     \* address -> the goroutine that its status can cancel
    check,      \* goroutine -> its address, checker and thresholds, or Absent
    wpc,        \* runCheck: where the goroutine is
    off,        \* history: services that the latest UpdateTargets switched off
    suspect     \* history: addresses that were dead, or to which a cancelled
                \* goroutine's failure was credited, since their check began
                \* or its goroutine last reported a success that left them up

healthVars == <<services, statuses, cancel, off>>
vars == <<alive, current, mpc, arg, healthVars, check, wpc, suspect>>

Fresh == [healthy |-> TRUE, fails |-> 0, oks |-> 0]

\* NewManager; Run has fetched the configuration.
Init ==
    /\ alive = [b \in Backends |-> TRUE]
    /\ current \in Configs /\ mpc = "targets" /\ arg = current
    /\ services = [n \in Names |-> "none"]
    /\ statuses = [b \in Backends |-> Absent]
    /\ cancel = [b \in Backends |-> Absent]
    /\ check = [w \in Workers |-> Absent] /\ wpc = [w \in Workers |-> "loop"]
    /\ off = {} /\ suspect = {}

Tracked(b) == statuses[b] # Absent

\* IsHealthy: an address without a status is healthy.
IsHealthy(b) == Tracked(b) => statuses[b].healthy

Live(w) == check[w] # Absent /\ cancel[check[w].backend] = w

-----------------------------------------------------------------------------
(* UpdateTargets. Its loop visits the services in list order. *)

Lists(c, i, b) == b \in Range(c[i].backends)

Listed(c) == {b \in Backends : \E i \in DOMAIN c : Lists(c, i, b)}

\* stopServiceBackendsLocked is called for the service: its check is turned off.
SwitchesOff(c, i) == ~IsEnabled(c[i]) /\ services[c[i].name] = "on"

\* The last place of the list where the loop deletes the status of b, or 0.
DeletedAt(c, b) ==
    Max({0} \cup {i \in DOMAIN c : SwitchesOff(c, i) /\ Lists(c, i, b)})

\* The services that start a check of b if the loop finds it without a status.
Starters(c, b) ==
    {i \in DOMAIN c : i > DeletedAt(c, b) /\ IsEnabled(c[i]) /\ Lists(c, i, b)}

\* startBackendCheckLocked. (A goroutine that is started and cancelled by a
\* later service in the same loop only ends; it is left out.)
NewCheck(c, b) ==
    LET s == c[Min(Starters(c, b))]
    IN  [backend |-> b, type |-> GetType(s), fail |-> GetFailCount(s),
         rise |-> GetRiseCount(s)]

\* An UpdateTargets that restarts a check whose settings have changed.
Keeps_SameCheck(c, b) ==
    /\ Tracked(b) /\ DeletedAt(c, b) = 0 /\ b \in Listed(c)
    /\ Starters(c, b) # {} => check[cancel[b]] = NewCheck(c, b)

\* b keeps its status and its goroutine. Services with the check off count too.
Keeps(c, b) == Tracked(b) /\ DeletedAt(c, b) = 0 /\ b \in Listed(c)

Starts(c, b) == ~Keeps(c, b) /\ Starters(c, b) # {}

\* A deletion that forgets to call cancel.
CancelAfter_Leaks(c, b, spawn) ==
    IF b \in DOMAIN spawn THEN spawn[b] ELSE cancel[b]

CancelAfter(c, b, spawn) ==
    IF Keeps(c, b) THEN cancel[b] ELSE
    IF b \in DOMAIN spawn THEN spawn[b] ELSE Absent

ServiceAfter(c, n) ==
    IF \E i \in DOMAIN c : c[i].name = n /\ IsEnabled(c[i]) THEN "on" ELSE
    IF \E i \in DOMAIN c : c[i].name = n THEN "off" ELSE "none"

UpdateTargets(c) ==
    LET new == {b \in Backends : Starts(c, b)}
    IN  \E spawn \in [new -> {w \in Workers : check[w] = Absent}] :
            /\ \A b1, b2 \in new : spawn[b1] = spawn[b2] => b1 = b2
            /\ statuses' = [b \in Backends |->
                  IF Keeps(c, b) THEN statuses[b] ELSE
                  IF b \in new THEN Fresh ELSE Absent]
            /\ cancel' = [b \in Backends |-> CancelAfter(c, b, spawn)]
            /\ check' = [w \in Workers |->
                  IF \E b \in new : spawn[b] = w
                    THEN NewCheck(c, CHOOSE b \in new : spawn[b] = w)
                    ELSE check[w]]
            /\ services' = [n \in Names |-> ServiceAfter(c, n)]
            /\ off' = {c[i].name : i \in {j \in DOMAIN c : SwitchesOff(c, j)}}
            /\ suspect' = {b \in suspect : Keeps(c, b)}
                          \cup {b \in new : ~alive[b]}

-----------------------------------------------------------------------------
(* runCheck *)

\* Checker.Check. A UDP check sends and does not wait for an answer: it cannot
\* tell a dead backend.
CheckPasses(k) == k.type = "udp" \/ alive[k.backend]

\* The ticker fires and the checker probes. A cancelled goroutine may still
\* find the ticker first.
Probe(w) ==
    /\ check[w] # Absent /\ wpc[w] = "loop"
    /\ wpc' = [wpc EXCEPT ![w] = IF CheckPasses(check[w]) THEN "ok" ELSE "fail"]
    /\ UNCHANGED <<alive, current, mpc, arg, healthVars, check, suspect>>

Count(n) == IF n < MaxCount THEN n + 1 ELSE n

\* A failure that does not add to the ones before.
Failed_Restarts(s, k) ==
    [healthy |-> s.healthy /\ 1 < k.fail, fails |-> 1, oks |-> 0]

\* The status after a failed check.
Failed(s, k) ==
    LET n == Count(s.fails)
    IN  [healthy |-> s.healthy /\ n < k.fail, fails |-> n, oks |-> 0]

\* A success that takes a healthy backend down until it has risen.
Succeeded_Demotes(s, k) ==
    LET n == Count(s.oks)
    IN  [healthy |-> n >= k.rise, fails |-> 0, oks |-> n]

\* The status after a successful check.
Succeeded(s, k) ==
    LET n == Count(s.oks)
    IN  [healthy |-> s.healthy \/ n >= k.rise, fails |-> 0, oks |-> n]

\* handleCheckResult. The status is found by address: a cancelled goroutine's
\* result counts for the check that replaced it.
HandleResult(w) ==
    LET b == check[w].backend
        s == statuses[b]
        after == IF wpc[w] = "ok" THEN Succeeded(s, check[w]) ELSE Failed(s, check[w])
    IN  /\ wpc[w] \in {"ok", "fail"}
        /\ IF s = Absent
             THEN wpc' = [wpc EXCEPT ![w] = "loop"] /\ UNCHANGED <<statuses, suspect>>
             ELSE /\ statuses' = [statuses EXCEPT ![b] = after]
                  /\ wpc' = [wpc EXCEPT ![w] =
                        IF after.healthy # s.healthy THEN "changed" ELSE "loop"]
                  /\ suspect' =
                        IF wpc[w] = "fail" /\ ~Live(w) THEN suspect \cup {b} ELSE
                        IF wpc[w] = "ok" /\ Live(w) /\ alive[b] /\ after.healthy
                          THEN suspect \ {b} ELSE suspect
        /\ UNCHANGED <<alive, current, mpc, arg, services, cancel, off, check>>

\* case <-ctx.Done()
CheckEnds(w) ==
    /\ check[w] # Absent /\ wpc[w] = "loop" /\ ~Live(w)
    /\ check' = [check EXCEPT ![w] = Absent]
    /\ UNCHANGED <<alive, current, mpc, arg, healthVars, wpc, suspect>>

\* The callback, triggerReconcile and updateHealthMetrics, has returned.
CallbackReturns(w) ==
    /\ wpc[w] = "changed"
    /\ wpc' = [wpc EXCEPT ![w] = "loop"]
    /\ UNCHANGED <<alive, current, mpc, arg, healthVars, check, suspect>>

-----------------------------------------------------------------------------
(* Server.Run and the environment *)

\* A Reload that skips Validate.
Reload_Unchecked(c) ==
    /\ c # current
    /\ current' = c
    /\ UNCHANGED <<alive, mpc, arg, healthVars, check, wpc, suspect>>

\* Reload: a list that Validate accepts is stored.
Reload(c) ==
    /\ c # current /\ Validate(c)
    /\ current' = c
    /\ UNCHANGED <<alive, mpc, arg, healthVars, check, wpc, suspect>>

\* case <-OnChange(): GetConfig. (A Reload of an unchanged file signals too.)
FetchConfig ==
    /\ mpc = "select"
    /\ mpc' = "targets" /\ arg' = current
    /\ UNCHANGED <<alive, current, healthVars, check, wpc, suspect>>

SyncTargets ==
    /\ mpc = "targets"
    /\ UpdateTargets(arg)
    /\ mpc' = "select"
    /\ UNCHANGED <<alive, current, arg, wpc>>

\* shutdown: Stop cancels all checks and forgets everything.
Stop ==
    /\ mpc = "select"
    /\ mpc' = "stopped"
    /\ services' = [n \in Names |-> "none"] /\ off' = {}
    /\ statuses' = [b \in Backends |-> Absent]
    /\ cancel' = [b \in Backends |-> Absent]
    /\ UNCHANGED <<alive, current, arg, check, wpc, suspect>>

\* A backend dies or comes back.
BackendFlips(b) ==
    /\ alive' = [alive EXCEPT ![b] = ~@]
    /\ suspect' = IF alive[b] THEN suspect \cup {b} ELSE suspect
    /\ UNCHANGED <<current, mpc, arg, healthVars, check, wpc>>

Main == FetchConfig \/ SyncTargets

Worker(w) == Probe(w) \/ HandleResult(w) \/ CheckEnds(w) \/ CallbackReturns(w)

Environment == (\E c \in Files : Reload(c)) \/ Stop \/ \E b \in Flaky : BackendFlips(b)

Next == Main \/ Environment \/ \E w \in Workers : Worker(w)

Spec == Init /\ [][Next]_vars

\* Every goroutine that can run does; the ticker of a live check fires, and a
\* cancelled goroutine, whose select finds both channels ready at worst, ends.
Fairness ==
    /\ WF_vars(SyncTargets)
    /\ \A w \in Workers :
          /\ WF_vars(HandleResult(w) \/ CallbackReturns(w)) /\ WF_vars(Live(w) /\ Probe(w))
          /\ SF_vars(CheckEnds(w))

FairSpec == Spec /\ Fairness

-----------------------------------------------------------------------------
(* The shape of the state. *)
TypeOK ==
    /\ alive \in [Backends -> BOOLEAN]
    /\ current \in Configs /\ arg \in Configs
    /\ mpc \in {"select", "targets", "stopped"}
    /\ services \in [Names -> {"none", "on", "off"}]
    /\ statuses \in [Backends -> Status \cup {Absent}]
    /\ cancel \in [Backends -> Workers \cup {Absent}]
    /\ check \in [Workers -> Check \cup {Absent}]
    /\ wpc \in [Workers -> {"loop", "ok", "fail", "changed"}]
    /\ off \subseteq Names /\ suspect \subseteq Backends

(* Every status has its own live goroutine, found by its address, however    *)
(* services share backends and however many cancelled goroutines linger      *)
(* (UpdateTargets, stopServiceBackendsLocked, Stop).                         *)
OneLiveCheck ==
    \A b \in Backends :
        /\ Tracked(b) <=> cancel[b] # Absent
        /\ cancel[b] # Absent => check[cancel[b]] # Absent /\ check[cancel[b]].backend = b

\* A service with its check on lists b.
Asked(b) == \E i \in DOMAIN arg : IsEnabled(arg[i]) /\ Lists(arg, i, b)

\* "Backends belonging to services with health check disabled always return true."
DisabledIsHealthy == \A b \in Listed(arg) : ~Asked(b) => IsHealthy(b)

\* "It starts checks for new backends": what is to be checked is.
AskedIsTracked == \A b \in Backends : Asked(b) => Tracked(b)

(* UpdateTargets "synchronizes the health check targets with the current     *)
(* configuration. It starts checks for new backends, stops checks for        *)
(* removed backends, and handles enable/disable transitions for each         *)
(* service", and IsHealthy "always" returns true for a disabled service's    *)
(* backends. Once the event loop has called it, at least one of the two      *)
(* sides of this is true; a state that violates it refutes both.             *)
TargetsInSync == mpc = "select" => DisabledIsHealthy \/ AskedIsTracked

(* No reload makes a backend healthy that was found down, whatever it        *)
(* changes of the list, its order and the checks: only a check that          *)
(* succeeded does, unless the backend left the list or a service that lists  *)
(* it was just switched off (UpdateTargets, handleCheckResult, Stop).        *)
DownSurvivesReload ==
    [][\A b \in Backends : ~IsHealthy(b) /\ IsHealthy(b)' =>
          \/ \E w \in Workers :
                wpc[w] = "ok" /\ check[w].backend = b /\ wpc'[w] # "ok"
          \/ /\ mpc = "targets" /\ mpc' = "select"
             /\ \/ b \notin Listed(arg)
                \/ \E i \in DOMAIN arg : Lists(arg, i, b) /\ arg[i].name \in off'
          \/ mpc' = "stopped"]_vars

(* A backend that answers is not reported down: neither the thresholds of    *)
(* services that share it, nor reloads, nor an earlier life of its address   *)
(* take it down once its own check has succeeded, as long as no failure of a *)
(* cancelled goroutine is credited to it (handleCheckResult).                *)
AliveStaysUp == \A b \in Backends : b \notin suspect => IsHealthy(b)

\* A live goroutine checks b in a way that can fail.
Probed(b) == Tracked(b) /\ check[cancel[b]].type # "udp"

(* Once reloads end, a backend that stays dead and whose check can tell is   *)
(* reported down for good, whatever results of cancelled goroutines come     *)
(* late, and one that stays alive is not (runCheck, handleCheckResult).      *)
VerdictSettles ==
    \A b \in Flaky, up \in BOOLEAN :
        <>[](mpc = "select" /\ Probed(b) /\ alive[b] = up)
            => <>[](IsHealthy(b) = up)
=============================================================================
