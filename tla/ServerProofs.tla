---------------------------- MODULE ServerProofs ----------------------------
(***************************************************************************)
(* Proofs about Server for any numbers of reloaders, workers, backends and  *)
(* configurations: the one-element channel loses no configuration, the      *)
(* watcher keeps up with the file, and no status change is lost.            *)
(***************************************************************************)
EXTENDS Server, TLAPS

(* Main's pass is under way, or done, with the current configuration, unless *)
(* a signal is there or on its way.                                          *)
MainIsInformed ==
    mpc \in {"targets", "wait", "select"} /\ ~signal
        /\ (\A r \in Reloaders : rpc[r] # "stored")
    => arg["main"] = current

(* Who holds r.mu is in the middle of its Reconcile, with a configuration.   *)
HolderIsWaiting == lock # Nobody => Waiting(lock)

(* A thread that reconciles was given a configuration, not an empty local.   *)
LoadedHasConfig ==
    /\ \A r \in Reloaders : rpc[r] = "loaded" => rcfg[r] \in Configs
    /\ mpc \in {"targets", "wait", "select"} => arg["main"] \in Configs

ServerInv ==
    TypeOK /\ LoadedHasConfig /\ HolderIsWaiting /\ MainIsInformed

-----------------------------------------------------------------------------
(* NewServer has loaded a configuration and checks nothing yet.              *)
LEMMA InitServer == Init => ServerInv
<1> SUFFICES ASSUME Init PROVE ServerInv
  OBVIOUS
<1>1. kernel \in [cfg : Configs \cup {NoConfig}, up : SUBSET Backends, ok : BOOLEAN]
  BY DEF Init, NoKernel
<1>2. file \in Configs /\ current \in Configs /\ edits \in 0..MaxEdits
  BY ServerAssumptions DEF Init
<1>3. rpc \in [Reloaders -> {"idle", "loaded", "stored"}]
      /\ rcfg \in [Reloaders -> Configs \cup {NoConfig}]
      /\ status \in [Backends -> {"none", "up", "down"}]
      /\ checks \in [Workers -> Backends \cup {Nobody}]
      /\ owner \in [Backends -> Workers \cup {Nobody}]
      /\ wpc \in [Workers -> {"loop", "changed", "wait"}]
      /\ arg \in [Threads -> Configs \cup {NoConfig}]
  BY DEF Init
<1>4. TypeOK
  BY <1>1, <1>2, <1>3 DEF Init, TypeOK
<1>5. LoadedHasConfig /\ HolderIsWaiting /\ MainIsInformed
  BY DEF Init, LoadedHasConfig, HolderIsWaiting, MainIsInformed
<1> QED BY <1>4, <1>5 DEF ServerInv

(* Reload and edits: config.Manager changes, and nothing else does.          *)
LEMMA ReloadServer ==
    ASSUME ServerInv, Reload \/ \E f \in Configs \cup {BadFile} : EditFile(f)
    PROVE  ServerInv'
<1>1. UNCHANGED <<mpc, watching, status, checks, owner, wpc, arg, lock, phase,
                  unread, seen, kernel, nat>>
  BY DEF Reload, EditFile, ReloadLoad, ReloadStore, ReloadNotify, healthVars, passVars
<1>2. HolderIsWaiting'
  BY <1>1 DEF ServerInv, HolderIsWaiting, Waiting
<1>3. CASE \E f \in Configs \cup {BadFile} : EditFile(f)
  <2>1. PICK f \in Configs \cup {BadFile} : EditFile(f)
    BY <1>3
  <2>2. UNCHANGED <<current, signal, rpc, rcfg>> /\ file' = f
        /\ edits' \in 0..MaxEdits /\ {fsEvent', missed'} \subseteq BOOLEAN
    BY <2>1, ServerAssumptions DEF EditFile, ServerInv, TypeOK
  <2> QED BY <1>1, <1>2, <2>2
          DEF ServerInv, TypeOK, LoadedHasConfig, MainIsInformed
<1>4. ASSUME NEW r \in Reloaders, ReloadLoad(r)
      PROVE  ServerInv'
  <2>1. /\ UNCHANGED <<file, edits, current, signal>>
        /\ {fsEvent', missed'} \subseteq BOOLEAN
        /\ \/ UNCHANGED <<rpc, rcfg>>
           \/ /\ file \in Configs /\ rpc' = [rpc EXCEPT ![r] = "loaded"]
              /\ rcfg' = [rcfg EXCEPT ![r] = file]
    BY <1>4 DEF ReloadLoad, ServerInv, TypeOK
  <2>2. TypeOK' /\ LoadedHasConfig'
    BY <1>1, <2>1 DEF ServerInv, TypeOK, LoadedHasConfig
  <2>3. (\A x \in Reloaders : rpc'[x] # "stored") => \A x \in Reloaders : rpc[x] # "stored"
    BY <1>4, <2>1 DEF ServerInv, TypeOK, ReloadLoad
  <2> QED BY <1>1, <1>2, <2>1, <2>2, <2>3 DEF ServerInv, MainIsInformed
<1>5. ASSUME NEW r \in Reloaders, ReloadStore(r)
      PROVE  ServerInv'
  BY <1>1, <1>2, <1>5 DEF ReloadStore, ServerInv, TypeOK, LoadedHasConfig, MainIsInformed
<1>6. ASSUME NEW r \in Reloaders, ReloadNotify(r)
      PROVE  ServerInv'
  BY <1>1, <1>2, <1>6 DEF ReloadNotify, ServerInv, TypeOK, LoadedHasConfig, MainIsInformed
<1> QED BY <1>3, <1>4, <1>5, <1>6 DEF Reload

(* A pass: only its holder's place and the rules change.                     *)
LEMMA ReconcileServer ==
    ASSUME ServerInv, Reconcile
    PROVE  ServerInv'
<1> Nobody \notin Threads /\ "main" \notin Workers /\ Threads = {"main"} \cup Workers
  BY ServerAssumptions DEF Threads
<1>1. UNCHANGED <<file, edits, fsEvent, missed, current, signal, rpc, rcfg,
                  status, checks, owner>>
  BY DEF Reconcile, Acquire, ReadHealth, ProgramIpvs, AbortPass, ProgramSnat, configVars,
         healthVars
<1>2. UnknownKernel \in [cfg : Configs \cup {NoConfig}, up : SUBSET Backends, ok : BOOLEAN]
  BY DEF UnknownKernel
<1>3. ASSUME NEW t \in Threads, Acquire(t)
      PROVE  ServerInv'
  <2>1. /\ Waiting(t) /\ lock' = t /\ phase' = "ipvs" /\ unread' = arg[t] /\ seen' = {}
        /\ UNCHANGED <<mpc, watching, wpc, arg, kernel, nat>>
    BY <1>3 DEF Acquire
  <2>2. arg[t] \subseteq Backends
    BY ServerAssumptions DEF ServerInv, TypeOK, NoConfig
  <2> QED BY <1>1, <2>1, <2>2
          DEF ServerInv, TypeOK, LoadedHasConfig, HolderIsWaiting, MainIsInformed, Waiting
<1>4. ASSUME NEW b \in Backends, ReadHealth(b)
      PROVE  ServerInv'
  BY <1>1, <1>4
     DEF ReadHealth, ServerInv, TypeOK, LoadedHasConfig, HolderIsWaiting,
         MainIsInformed, Waiting
<1>5. ASSUME NEW ok \in BOOLEAN, ProgramIpvs(ok)
      PROVE  ServerInv'
  <2>1. arg[lock] \subseteq Backends /\ arg[lock] \in Configs \cup {NoConfig}
    BY <1>5, ServerAssumptions DEF ProgramIpvs, ServerInv, TypeOK, NoConfig
  <2>2. kernel' \in [cfg : Configs \cup {NoConfig}, up : SUBSET Backends, ok : BOOLEAN]
    BY <1>2, <1>5, <2>1 DEF ProgramIpvs, ServerInv, TypeOK
  <2>3. /\ phase' = "snat" /\ unread' = arg[lock] /\ seen' = {}
        /\ UNCHANGED <<mpc, watching, wpc, arg, lock, nat>>
    BY <1>5 DEF ProgramIpvs
  <2> QED BY <1>1, <2>1, <2>2, <2>3
          DEF ServerInv, TypeOK, LoadedHasConfig, HolderIsWaiting, MainIsInformed, Waiting
<1>6. ASSUME AbortPass \/ ProgramSnat
      PROVE  ServerInv'
  <2>1. /\ lock \in Threads /\ Waiting(lock) /\ nat' \in {nat, seen} /\ lock' = Nobody
        /\ phase' = "ipvs" /\ unread' = {} /\ seen' = {}
        /\ kernel' \in {kernel, UnknownKernel}
    BY <1>6 DEF AbortPass, ProgramSnat, ServerInv, TypeOK, HolderIsWaiting
  <2>2. \/ /\ mpc = "wait" /\ mpc' = "select" /\ watching' = TRUE
           /\ UNCHANGED <<wpc, arg>>
        \/ /\ lock \in Workers /\ wpc' = [wpc EXCEPT ![lock] = "loop"]
           /\ arg' = [arg EXCEPT ![lock] = NoConfig]
           /\ UNCHANGED <<mpc, watching>>
    BY <1>6, <2>1 DEF AbortPass, ProgramSnat, Return, Waiting
  <2>3. arg'["main"] = arg["main"] /\ arg' \in [Threads -> Configs \cup {NoConfig}]
    BY <2>1, <2>2 DEF ServerInv, TypeOK
  <2>4. HolderIsWaiting'
    BY <2>1 DEF HolderIsWaiting
  <2>5. TypeOK'
    BY <1>1, <1>2, <2>1, <2>2, <2>3 DEF ServerInv, TypeOK
  <2>6. LoadedHasConfig' /\ MainIsInformed'
    BY <1>1, <2>2, <2>3 DEF ServerInv, LoadedHasConfig, MainIsInformed
  <2> QED BY <2>4, <2>5, <2>6 DEF ServerInv
<1> QED BY <1>3, <1>4, <1>5, <1>6 DEF Reconcile

(* UpdateTargets: main has its configuration and goes on to reconcile it.    *)
LEMMA TargetsServer ==
    ASSUME ServerInv, SyncTargets
    PROVE  ServerInv'
<1> DEFINE c == arg["main"]
           new == {b \in c : status[b] = "none"}
           Spawns == {f \in [new -> FreeWorkers] :
                         \A b1, b2 \in new : f[b1] = f[b2] => b1 = b2}
           spawn == CHOOSE f \in Spawns : TRUE
<1>1. /\ mpc = "targets" /\ mpc' = "wait"
      /\ UNCHANGED <<file, edits, fsEvent, missed, current, signal, rpc, rcfg,
                     watching, wpc, arg, lock, phase, unread, seen, kernel, nat>>
  BY DEF SyncTargets, configVars, passVars
<1>2. c \subseteq Backends
  BY <1>1, ServerAssumptions DEF ServerInv, LoadedHasConfig
<1>3. /\ spawn \in [new -> FreeWorkers]
      /\ status' = [b \in Backends |->
            IF b \notin c THEN "none" ELSE
            IF b \in new THEN "up" ELSE status[b]]
      /\ owner' = [b \in Backends |-> NewOwner(c, b, spawn)]
      /\ checks' = [w \in Workers |->
            IF \E b \in new : spawn[b] = w
              THEN CHOOSE b \in new : spawn[b] = w ELSE checks[w]]
  BY DEF SyncTargets, UpdateTargets
<1> HIDE DEF spawn, new
<1>4. TypeOK'
  <2>1. status' \in [Backends -> {"none", "up", "down"}]
    BY <1>3 DEF ServerInv, TypeOK
  <2>2. \A b \in Backends : owner'[b] \in Workers \cup {Nobody}
    BY <1>3 DEF NewOwner, FreeWorkers, ServerInv, TypeOK
  <2>3. owner' \in [Backends -> Workers \cup {Nobody}]
    BY <1>3, <2>2
  <2>4. new \subseteq Backends
    BY <1>2 DEF new
  <2>5. \A w \in Workers : checks'[w] \in Backends \cup {Nobody}
    BY <1>3, <2>4 DEF ServerInv, TypeOK
  <2>6. checks' \in [Workers -> Backends \cup {Nobody}]
    BY <1>3, <2>5
  <2> QED BY <1>1, <2>1, <2>3, <2>6 DEF ServerInv, TypeOK
<1>5. LoadedHasConfig' /\ HolderIsWaiting' /\ MainIsInformed'
  BY <1>1 DEF ServerInv, LoadedHasConfig, HolderIsWaiting, MainIsInformed, Waiting
<1> QED BY <1>4, <1>5 DEF ServerInv

(* The other steps of Run.                                                   *)
LEMMA MainServer ==
    ASSUME ServerInv,
           \/ ReceiveSignal \/ FetchConfig \/ CleanupSnat \/ ProcessExit
           \/ BeginShutdown \/ \E ok \in BOOLEAN : CleanupRules(ok)
    PROVE  ServerInv'
<1> Nobody \notin Threads /\ "main" \notin Workers /\ Threads = {"main"} \cup Workers
  BY ServerAssumptions DEF Threads
<1>1. CASE ReceiveSignal
  BY <1>1 DEF ReceiveSignal, ServerInv, TypeOK, LoadedHasConfig, HolderIsWaiting,
              MainIsInformed, Waiting, healthVars, passVars
<1>2. CASE FetchConfig
  <2>1. /\ mpc = "fetch" /\ mpc' = "targets"
        /\ arg' = [arg EXCEPT !["main"] = current]
        /\ UNCHANGED <<file, edits, fsEvent, missed, current, signal, rpc, rcfg,
                       watching, status, checks, owner, wpc, lock, phase, unread,
                       seen, kernel, nat>>
    BY <1>2 DEF FetchConfig, configVars, healthVars, passVars
  <2>2. arg' \in [Threads -> Configs \cup {NoConfig}] /\ arg'["main"] = current
    BY <2>1 DEF ServerInv, TypeOK
  <2>3. TypeOK'
    BY <2>1, <2>2 DEF ServerInv, TypeOK
  <2>4. LoadedHasConfig' /\ HolderIsWaiting' /\ MainIsInformed'
    BY <2>1, <2>2 DEF ServerInv, TypeOK, LoadedHasConfig, HolderIsWaiting,
                      MainIsInformed, Waiting
  <2> QED BY <2>3, <2>4 DEF ServerInv
<1>3. CASE CleanupSnat \/ ProcessExit \/ \E ok \in BOOLEAN : CleanupRules(ok)
  <2>1. /\ mpc \in {"cleanup", "cleanup_snat", "closing"}
        /\ mpc' \in {"cleanup_snat", "closing", "exited"}
        /\ UNCHANGED <<file, edits, fsEvent, missed, current, signal, rpc, rcfg,
                       watching, status, checks, owner, wpc, arg, lock, phase,
                       unread, seen>>
        /\ nat' \in {nat, {}}
        /\ kernel' \in {kernel, NoKernel, UnknownKernel}
    BY <1>3 DEF CleanupRules, CleanupSnat, ProcessExit, configVars, healthVars, passVars
  <2>2. TypeOK'
    <3> DEFINE K == [cfg : Configs \cup {NoConfig}, up : SUBSET Backends, ok : BOOLEAN]
    <3>1. kernel \in K /\ nat \subseteq Backends
      BY DEF ServerInv, TypeOK
    <3>2. NoKernel \in K /\ UnknownKernel \in K
      BY DEF NoKernel, UnknownKernel
    <3>3. kernel' \in K /\ nat' \subseteq Backends
      BY <2>1, <3>1, <3>2
    <3> QED BY <2>1, <3>3 DEF ServerInv, TypeOK
  <2>3. LoadedHasConfig' /\ HolderIsWaiting' /\ MainIsInformed'
    BY <2>1 DEF ServerInv, LoadedHasConfig, HolderIsWaiting, MainIsInformed, Waiting
  <2> QED BY <2>2, <2>3 DEF ServerInv
<1>4. CASE BeginShutdown
  <2>1. /\ mpc = "select" /\ mpc' = "cleanup"
        /\ status' = [b \in Backends |-> "none"]
        /\ owner' = [b \in Backends |-> Nobody]
        /\ UNCHANGED <<file, edits, fsEvent, missed, current, signal, rpc, rcfg,
                       watching, checks, wpc, arg, lock, phase, unread, seen,
                       kernel, nat>>
    BY <1>4 DEF BeginShutdown, configVars, passVars
  <2>2. TypeOK'
    BY <2>1 DEF ServerInv, TypeOK
  <2>3. LoadedHasConfig' /\ HolderIsWaiting' /\ MainIsInformed'
    BY <2>1 DEF ServerInv, LoadedHasConfig, HolderIsWaiting, MainIsInformed, Waiting
  <2> QED BY <2>2, <2>3 DEF ServerInv
<1> QED BY <1>1, <1>2, <1>3, <1>4

(* The goroutines of healthcheck.Manager and their callbacks.                *)
LEMMA WorkerServer ==
    ASSUME ServerInv, Worker \/ \E w \in Workers : StatusChange(w)
    PROVE  ServerInv'
<1> Nobody \notin Threads /\ Nobody \notin Backends /\ "main" \notin Workers
    /\ Threads = {"main"} \cup Workers
  BY ServerAssumptions DEF Threads
<1>1. /\ UNCHANGED <<file, edits, fsEvent, missed, current, signal, rpc, rcfg, mpc,
                     watching, owner, lock, phase, unread, seen, kernel, nat>>
  BY DEF Worker, StatusChange, WorkerEnds, CallbackFetch, configVars, healthVars, passVars
<1>2. ASSUME NEW w \in Workers, StatusChange(w)
      PROVE  ServerInv'
  <2> DEFINE b == checks[w]
  <2>1. /\ b \in Backends /\ status[b] # "none" /\ wpc[w] = "loop"
        /\ status' = [status EXCEPT ![b] = IF @ = "up" THEN "down" ELSE "up"]
        /\ wpc' = [wpc EXCEPT ![w] = "changed"] /\ UNCHANGED <<checks, arg>>
    BY <1>2 DEF StatusChange, ServerInv, TypeOK
  <2>2. TypeOK'
    BY <1>1, <2>1 DEF ServerInv, TypeOK
  <2>3. LoadedHasConfig' /\ HolderIsWaiting' /\ MainIsInformed'
    BY <1>1, <2>1 DEF ServerInv, TypeOK, LoadedHasConfig, HolderIsWaiting,
                      MainIsInformed, Waiting
  <2> QED BY <2>2, <2>3 DEF ServerInv
<1>3. ASSUME NEW w \in Workers, WorkerEnds(w)
      PROVE  ServerInv'
  <2>1. /\ checks[w] \in Backends /\ owner[checks[w]] # w
        /\ checks' = [checks EXCEPT ![w] = Nobody]
        /\ UNCHANGED <<status, wpc, arg>>
    BY <1>3 DEF WorkerEnds, ServerInv, TypeOK
  <2>2. TypeOK' /\ LoadedHasConfig' /\ HolderIsWaiting' /\ MainIsInformed'
    BY <1>1, <2>1 DEF ServerInv, TypeOK, LoadedHasConfig, HolderIsWaiting,
                      MainIsInformed, Waiting
  <2> QED BY <2>2 DEF ServerInv
<1>4. ASSUME NEW w \in Workers, CallbackFetch(w)
      PROVE  ServerInv'
  <2>1. /\ wpc[w] = "changed" /\ wpc' = [wpc EXCEPT ![w] = "wait"]
        /\ arg' = [arg EXCEPT ![w] = current] /\ UNCHANGED <<status, checks>>
    BY <1>4 DEF CallbackFetch, healthVars
  <2>2. arg' \in [Threads -> Configs \cup {NoConfig}] /\ arg'["main"] = arg["main"]
    BY <2>1 DEF ServerInv, TypeOK
  <2>3. TypeOK'
    BY <1>1, <2>1, <2>2 DEF ServerInv, TypeOK
  <2>4. LoadedHasConfig' /\ HolderIsWaiting' /\ MainIsInformed'
    BY <1>1, <2>1, <2>2 DEF ServerInv, TypeOK, LoadedHasConfig, HolderIsWaiting,
                            MainIsInformed, Waiting
  <2> QED BY <2>3, <2>4 DEF ServerInv
<1> QED BY <1>2, <1>3, <1>4 DEF Worker

(* The inductive invariant holds whatever the goroutines' interleaving is.   *)
THEOREM ServerInvariant == Spec => []ServerInv
<1>1. Init => ServerInv
  BY InitServer
<1>2. ServerInv /\ [Next]_vars => ServerInv'
  <2> SUFFICES ASSUME ServerInv, [Next]_vars PROVE ServerInv'
    OBVIOUS
  <2>1. CASE Next
    BY <2>1, ReloadServer, ReconcileServer, TargetsServer, MainServer, WorkerServer
       DEF Next, Main, Environment
  <2>2. CASE UNCHANGED vars
    <3>1. UNCHANGED <<file, edits, fsEvent, missed, current, signal, rpc, rcfg,
                      mpc, watching, status, checks, owner, wpc, arg, lock, phase,
                      unread, seen, kernel, nat>>
      BY <2>2 DEF vars, configVars, healthVars, passVars
    <3> QED BY <3>1
            DEF ServerInv, TypeOK, LoadedHasConfig, HolderIsWaiting,
                MainIsInformed, Waiting
  <2> QED BY <2>1, <2>2
<1> QED BY <1>1, <1>2, PTL DEF Spec

(* The state of the daemon keeps its shape.                                  *)
THEOREM ServerTypeCorrect == Spec => []TypeOK
<1>1. ServerInv => TypeOK
  BY DEF ServerInv
<1> QED BY <1>1, ServerInvariant, PTL

(* The one-element onChange channel never costs main a configuration, for    *)
(* any number of concurrent reloads (config.go:502-512, server.go:127-140).  *)
THEOREM ChannelLosesNothing == Spec => []NoConfigLost
<1>1. ServerInv => NoConfigLost
  BY DEF ServerInv, MainIsInformed, NoConfigLost
<1> QED BY <1>1, ServerInvariant, PTL

-----------------------------------------------------------------------------
(* What the watcher read last is the file, unless an event is waiting for it *)
(* or the edit was made before it ran.                                       *)
FileInv ==
    ~fsEvent /\ ~missed /\ file \in Configs =>
        current = file \/ (rpc[Watcher] = "loaded" /\ rcfg[Watcher] = file)

\* With one reloader nobody can store an older file over a newer one.
FileOrder ==
    rpc[Watcher] = "loaded" /\ ~fsEvent /\ ~missed /\ file \in Configs
        => rcfg[Watcher] = file

(* A watcher that nobody competes with leaves the current configuration on   *)
(* the file: no interleaving of edits, rejected files and status changes     *)
(* costs the last edit (config.go:492-515). With POST /reload it does not    *)
(* hold: run server_reload.                                                  *)
THEOREM WatcherKeepsUp ==
    ASSUME Reloaders = {Watcher}
    PROVE  Spec => []CurrentIsFile
<1> DEFINE Inv == FileInv /\ FileOrder
<1>1. Init => Inv
  BY DEF Init, FileInv, FileOrder
<1>2. ServerInv /\ Inv /\ [Next]_vars => Inv'
  <2> SUFFICES ASSUME ServerInv, Inv, [Next]_vars PROVE Inv'
    OBVIOUS
  <2>1. CASE \E f \in Configs \cup {BadFile} : EditFile(f)
    <3>1. fsEvent' = watching /\ missed' = (missed \/ ~watching)
      BY <2>1 DEF EditFile
    <3>2. watching \in BOOLEAN /\ missed \in BOOLEAN
      BY DEF ServerInv, TypeOK
    <3>3. fsEvent' \/ missed'
      <4>1. CASE watching = TRUE
        BY <3>1, <4>1
      <4>2. CASE watching = FALSE
        BY <3>1, <4>2
      <4> QED BY <3>2, <4>1, <4>2
    <3> QED BY <3>3, Zenon DEF FileInv, FileOrder
  <2>2. CASE ReloadLoad(Watcher)
    BY <2>2 DEF ReloadLoad, FileInv, FileOrder, ServerInv, TypeOK
  <2>3. CASE ReloadStore(Watcher)
    BY <2>3 DEF ReloadStore, FileInv, FileOrder, ServerInv, TypeOK
  <2>4. CASE ReloadNotify(Watcher)
    BY <2>4 DEF ReloadNotify, FileInv, FileOrder, ServerInv, TypeOK
  <2>5. CASE UNCHANGED <<file, fsEvent, missed, current, rpc, rcfg>>
    BY <2>5 DEF FileInv, FileOrder
  <2>6. \/ \E f \in Configs \cup {BadFile} : EditFile(f)
        \/ ReloadLoad(Watcher) \/ ReloadStore(Watcher) \/ ReloadNotify(Watcher)
        \/ UNCHANGED <<file, fsEvent, missed, current, rpc, rcfg>>
    BY DEF Next, Reload, Reconcile, Main, Worker, Environment, Acquire, ReadHealth,
           ProgramIpvs, AbortPass, ProgramSnat, ReceiveSignal, FetchConfig, SyncTargets,
           CleanupRules, CleanupSnat, ProcessExit, WorkerEnds, CallbackFetch,
           StatusChange, BeginShutdown, vars, configVars
  <2> QED BY <2>1, <2>2, <2>3, <2>4, <2>5, <2>6
<1>3. ServerInv /\ Inv => CurrentIsFile
  BY DEF FileInv, CurrentIsFile, Quiet
<1> QED BY <1>1, <1>2, <1>3, ServerInvariant, PTL DEF Spec

-----------------------------------------------------------------------------
\* The process has not begun to shut down.
Serving == mpc \in {"fetch", "targets", "wait", "select"}

\* A thread other than the holder of r.mu that has yet to reconcile.
Due(t) ==
    /\ t # lock
    /\ IF t = "main" THEN mpc \in {"fetch", "targets", "wait"}
                     ELSE wpc[t] \in {"changed", "wait"}

Pending == \E t \in Threads : Due(t)

Healthy(c) == {b \in c : IsHealthy(b)}

(* Either another pass will follow, or what the pass under way has read so   *)
(* far is the health, and what it or the last pass programmed is too.        *)
RulesFollow ==
    Serving =>
        /\ lock # Nobody => unread \subseteq arg[lock]
        /\ lock # Nobody /\ ~Pending => seen = Healthy(arg[lock] \ unread)
        /\ lock # Nobody /\ phase = "snat" /\ kernel.ok =>
              /\ kernel.cfg = arg[lock]
              /\ Pending \/ kernel.up = Healthy(kernel.cfg)
        /\ lock = Nobody /\ ~Pending /\ kernel.ok =>
              /\ kernel.up = Healthy(kernel.cfg)
              /\ nat = kernel.up

(* Steps that leave the health, the rules and the threads' places alone.     *)
LEMMA FollowUnchanged ==
    ASSUME RulesFollow,
           UNCHANGED <<mpc, status, wpc, arg, lock, phase, unread, seen, kernel, nat>>
    PROVE  RulesFollow'
BY DEF RulesFollow, Serving, Pending, Due, Healthy, IsHealthy

(* A step after which another pass is due, and that leaves the pass under    *)
(* way alone.                                                                *)
LEMMA FollowPending ==
    ASSUME ServerInv, RulesFollow, Pending', Serving,
           UNCHANGED <<lock, phase, unread, seen, kernel, nat>>,
           lock # Nobody => arg'[lock] = arg[lock]
    PROVE  RulesFollow'
<1> HIDE DEF Pending
<1>1. lock # Nobody => unread' \subseteq arg'[lock']
  BY DEF RulesFollow
<1>2. lock' # Nobody /\ phase' = "snat" /\ kernel'.ok => kernel'.cfg = arg'[lock']
  BY DEF RulesFollow
<1> QED BY <1>1, <1>2 DEF RulesFollow

(* Acquire, the health reads and the two writes of a pass.                   *)
LEMMA FollowReconcile ==
    ASSUME ServerInv, RulesFollow, Reconcile
    PROVE  RulesFollow'
<1> Nobody \notin Threads /\ "main" \notin Workers /\ Threads = {"main"} \cup Workers
  BY ServerAssumptions DEF Threads
<1>1. ASSUME NEW t \in Threads, Acquire(t) PROVE RulesFollow'
  <2>1. /\ lock' = t /\ phase' = "ipvs" /\ unread' = arg[t] /\ seen' = {} /\ arg' = arg
    BY <1>1 DEF Acquire
  <2>2. t # Nobody /\ Healthy(arg[t] \ arg[t])' = {}
    BY DEF Healthy
  <2> QED BY <2>1, <2>2 DEF RulesFollow, Healthy
<1>2. ASSUME NEW b \in Backends, ReadHealth(b) PROVE RulesFollow'
  <2>1. /\ lock # Nobody /\ b \in unread /\ unread' = unread \ {b}
        /\ seen' = IF IsHealthy(b) THEN seen \cup {b} ELSE seen
        /\ UNCHANGED <<mpc, status, wpc, arg, lock, phase, kernel, nat>>
    BY <1>2 DEF ReadHealth, healthVars
  <2>2. (Pending' <=> Pending) /\ (Serving' <=> Serving)
    BY <2>1 DEF Pending, Due, Serving
  <2>3. \A c : Healthy(c)' = Healthy(c)
    BY <2>1 DEF Healthy, IsHealthy
  <2>4. Serving => unread \subseteq arg[lock]
    BY <2>1 DEF RulesFollow
  <2>5. Serving /\ seen = Healthy(arg[lock] \ unread)
            => seen' = Healthy(arg[lock] \ unread')
    BY <2>1, <2>4 DEF Healthy, IsHealthy
  <2> QED BY <2>1, <2>2, <2>3, <2>4, <2>5 DEF RulesFollow
<1>3. ASSUME NEW ok \in BOOLEAN, ProgramIpvs(ok) PROVE RulesFollow'
  <2>1. /\ lock # Nobody /\ unread = {} /\ unread' = arg[lock] /\ seen' = {}
        /\ kernel' = IF ok THEN [cfg |-> arg[lock], up |-> seen, ok |-> TRUE]
                           ELSE UnknownKernel
        /\ UNCHANGED <<mpc, status, wpc, arg, lock, nat>>
    BY <1>3 DEF ProgramIpvs, healthVars
  <2>2. (Pending' <=> Pending) /\ (Serving' <=> Serving)
    BY <2>1 DEF Pending, Due, Serving
  <2>3. Healthy(arg[lock] \ arg[lock])' = {} /\ \A c : Healthy(c)' = Healthy(c)
    BY <2>1 DEF Healthy, IsHealthy
  <2>4. kernel'.ok => kernel'.cfg = arg[lock] /\ kernel'.up = seen
    BY <2>1 DEF UnknownKernel
  <2>5. arg[lock] \ {} = arg[lock]
    OBVIOUS
  <2>6. Serving /\ ~Pending => seen = Healthy(arg[lock])
    BY <2>1, <2>5 DEF RulesFollow
  <2> QED BY <2>1, <2>2, <2>3, <2>4, <2>6 DEF RulesFollow
<1>4. CASE AbortPass
  <2>1. lock' = Nobody /\ ~kernel'.ok
    BY <1>4 DEF AbortPass, UnknownKernel
  <2> QED BY <2>1 DEF RulesFollow
<1>5. ASSUME ProgramSnat PROVE RulesFollow'
  <2>1. /\ lock \in Threads /\ Waiting(lock) /\ phase = "snat" /\ unread = {}
        /\ Serving => nat' = seen
        /\ lock' = Nobody /\ UNCHANGED <<status, kernel>>
    BY <1>5 DEF ProgramSnat, healthVars, ServerInv, TypeOK, HolderIsWaiting, Serving
  <2>2. \/ /\ lock = "main" /\ mpc = "wait" /\ mpc' = "select" /\ UNCHANGED <<wpc, arg>>
        \/ /\ lock \in Workers /\ wpc' = [wpc EXCEPT ![lock] = "loop"]
           /\ UNCHANGED mpc
    BY <1>5, <2>1 DEF ProgramSnat, Return, Waiting
  <2>3. Serving' => Serving
    BY <2>2 DEF Serving
  <2>4. Pending => Pending'
    <3> SUFFICES ASSUME NEW t \in Threads, Due(t) PROVE Due(t)'
      BY DEF Pending
    <3> QED BY <2>1, <2>2 DEF Due, ServerInv, TypeOK
  <2>5. \A c : Healthy(c)' = Healthy(c)
    BY <2>1 DEF Healthy, IsHealthy
  <2>6. arg[lock] \ {} = arg[lock]
    OBVIOUS
  <2>7. Serving /\ ~Pending => seen = Healthy(arg[lock])
    BY <2>1, <2>6 DEF RulesFollow
  <2> QED BY <2>1, <2>3, <2>4, <2>5, <2>7 DEF RulesFollow
<1> QED BY <1>1, <1>2, <1>3, <1>4, <1>5 DEF Reconcile

(* Steps that change the health, or a thread's place, leave a thread that    *)
(* has yet to reconcile.                                                     *)
LEMMA FollowThreads ==
    ASSUME ServerInv, RulesFollow, Serving,
           \/ ReceiveSignal \/ FetchConfig \/ SyncTargets
           \/ \E w \in Workers : StatusChange(w) \/ CallbackFetch(w)
    PROVE  RulesFollow'
<1> Nobody \notin Threads /\ "main" \notin Workers /\ Threads = {"main"} \cup Workers
  BY ServerAssumptions DEF Threads
<1>1. UNCHANGED <<lock, phase, unread, seen, kernel, nat>>
  BY DEF ReceiveSignal, FetchConfig, SyncTargets, StatusChange, CallbackFetch, passVars
<1>2. CASE ReceiveSignal \/ FetchConfig \/ SyncTargets
  <2>1. mpc # "wait" /\ mpc' \in {"fetch", "targets", "wait"}
    BY <1>2 DEF ReceiveSignal, FetchConfig, SyncTargets
  <2>2. lock # "main"
    BY <2>1 DEF ServerInv, HolderIsWaiting, Waiting
  <2>3. Pending'
    BY <1>1, <2>1, <2>2 DEF Pending, Due
  <2>4. lock # Nobody => arg'[lock] = arg[lock]
    BY <1>2, <2>2 DEF ReceiveSignal, FetchConfig, SyncTargets, ServerInv, TypeOK
  <2> QED BY <1>1, <2>3, <2>4, FollowPending
<1>3. ASSUME NEW w \in Workers, StatusChange(w) \/ CallbackFetch(w) PROVE RulesFollow'
  <2>1. wpc[w] # "wait" /\ wpc'[w] \in {"changed", "wait"}
    BY <1>3 DEF StatusChange, CallbackFetch, ServerInv, TypeOK
  <2>2. lock # w
    BY <2>1 DEF ServerInv, HolderIsWaiting, Waiting
  <2>3. Pending'
    BY <1>1, <2>1, <2>2 DEF Pending, Due
  <2>4. lock # Nobody => arg'[lock] = arg[lock]
    BY <1>3, <2>2 DEF StatusChange, CallbackFetch, ServerInv, TypeOK
  <2> QED BY <1>1, <2>3, <2>4, FollowPending
<1> QED BY <1>2, <1>3

(* No status change is lost, for any number of backends, callbacks and       *)
(* configurations: passes read the health piecemeal while it changes, but    *)
(* whoever changes it reconciles afterwards (server.go:107-140, 166-183).    *)
THEOREM NoStatusLost == Spec => []KernelFollowsHealth
<1>1. Init => RulesFollow
  <2>1. Init => Pending
    BY ServerAssumptions DEF Init, Pending, Due, Threads
  <2> QED BY <2>1 DEF Init, RulesFollow
<1>2. ServerInv /\ RulesFollow /\ [Next]_vars => RulesFollow'
  <2> SUFFICES ASSUME ServerInv, RulesFollow, [Next]_vars PROVE RulesFollow'
    OBVIOUS
  <2>1. CASE Reconcile
    BY <2>1, FollowReconcile
  <2>2. CASE /\ Serving
             /\ \/ ReceiveSignal \/ FetchConfig \/ SyncTargets
                \/ \E w \in Workers : StatusChange(w) \/ CallbackFetch(w)
    BY <2>2, FollowThreads
  <2>3. CASE Reload \/ (\E f \in Configs \cup {BadFile} : EditFile(f))
             \/ (\E w \in Workers : WorkerEnds(w)) \/ UNCHANGED vars
    <3>1. UNCHANGED <<mpc, status, wpc, arg, lock, phase, unread, seen, kernel, nat>>
      BY <2>3 DEF Reload, ReloadLoad, ReloadStore, ReloadNotify, EditFile, WorkerEnds,
                  vars, healthVars, passVars
    <3> QED BY <3>1, FollowUnchanged
  <2>4. CASE ~Serving'
    BY <2>4 DEF RulesFollow
  <2>5. ~Serving /\ mpc' = mpc => ~Serving'
    BY DEF Serving
  <2>6. BeginShutdown \/ CleanupSnat \/ ProcessExit \/ (\E ok \in BOOLEAN : CleanupRules(ok))
            => ~Serving'
    BY DEF BeginShutdown, CleanupSnat, ProcessExit, CleanupRules, Serving
  <2>7. (ReceiveSignal \/ FetchConfig \/ SyncTargets) => Serving
    BY DEF ReceiveSignal, FetchConfig, SyncTargets, Serving
  <2>8. \A w \in Workers : StatusChange(w) \/ CallbackFetch(w) => mpc' = mpc
    BY DEF StatusChange, CallbackFetch
  <2> QED BY <2>1, <2>2, <2>3, <2>4, <2>5, <2>6, <2>7, <2>8
          DEF Next, Main, Worker, Environment
<1>3. ServerInv /\ RulesFollow => KernelFollowsHealth
  <2> SUFFICES ASSUME ServerInv, RulesFollow, Settled, kernel.ok
               PROVE  kernel.up = {b \in kernel.cfg : IsHealthy(b)} /\ nat = kernel.up
    BY DEF KernelFollowsHealth
  <2>1. Serving /\ ~Pending /\ lock = Nobody
    BY ServerAssumptions
       DEF Settled, Serving, Pending, Due, Threads, ServerInv, HolderIsWaiting, TypeOK, Waiting
  <2> QED BY <2>1 DEF RulesFollow, Healthy
<1> QED BY <1>1, <1>2, <1>3, ServerInvariant, PTL DEF Spec
=============================================================================
