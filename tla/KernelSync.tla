----------------------------- MODULE KernelSync -----------------------------
(***************************************************************************)
(* What lvs.Reconciler promises of the kernel's IPVS table, whatever the    *)
(* order of its calls: it "compares desired state (from config + health     *)
(* check) with the actual IPVS state and applies the necessary changes to   *)
(* bring the kernel in sync" (reconciler.go:51-52). A pass has a goal.      *)
(* While it runs, others may change the table too; each of its own steps    *)
(* changes one service, and only towards the goal: what already is as       *)
(* desired is never taken away. A pass that reports success, undisturbed,   *)
(* has reached the goal and left nothing else that this process created.    *)
(* Cleanup is a pass whose goal is the empty table.                         *)
(***************************************************************************)
CONSTANTS Keys, Backends, Scheds, Weights, Absent

VARIABLES
    table,     \* the kernel's services
    goal,      \* the services desired by the latest pass
    busy,      \* a pass is running
    result,    \* what the latest pass returned
    owned,     \* services of the table that this process created
    disturbed  \* others changed the table since the pass began

vars == <<table, goal, busy, result, owned, disturbed>>

Service == [sched : Scheds, dests : [Backends -> Weights \cup {Absent}]]
Tables == [Keys -> Service \cup {Absent}]
Empty == [k \in Keys |-> Absent]

Init ==
    /\ table = Empty /\ goal = Empty /\ owned = {}
    /\ busy = FALSE /\ result = "none" /\ disturbed = FALSE

Begin ==
    /\ ~busy /\ busy' = TRUE
    /\ goal' \in Tables /\ disturbed' = FALSE
    /\ UNCHANGED <<table, result, owned>>

\* A call that is refused before it changes anything.
Refuse ==
    /\ ~busy /\ result' = "error" /\ goal' \in Tables
    /\ UNCHANGED <<table, busy, owned, disturbed>>

\* A service that a step of the pass finds as s and leaves as t, g being
\* desired: it loses nothing that is desired and gains nothing else.
Towards(s, t, g) ==
    IF g = Absent THEN t = Absent ELSE
    /\ t # Absent
    /\ t.sched = g.sched \/ (s # Absent /\ t.sched = s.sched)
    /\ \A b \in Backends :
          \/ t.dests[b] = g.dests[b]
          \/ t.dests[b] = IF s = Absent THEN Absent ELSE s.dests[b]

Write(k) ==
    /\ busy
    /\ table' \in Tables /\ table' # table
    /\ \A j \in Keys \ {k} : table'[j] = table[j]
    /\ Towards(table[k], table'[k], goal[k])
    /\ owned' = IF table[k] = Absent THEN owned \cup {k} ELSE
                IF table'[k] = Absent THEN owned \ {k} ELSE owned
    /\ UNCHANGED <<goal, busy, result, disturbed>>

InSync ==
    /\ \A k \in Keys : goal[k] # Absent => table[k] = goal[k]
    /\ \A k \in owned : goal[k] = Absent => table[k] = Absent

\* The pass returns.
Finish ==
    /\ busy /\ busy' = FALSE
    /\ result' \in {"ok", "error"}
    /\ result' = "ok" /\ ~disturbed => InSync
    /\ UNCHANGED <<table, goal, owned, disturbed>>

\* Another tool changes one service.
Interfere(k) ==
    /\ table' \in Tables
    /\ \A j \in Keys \ {k} : table'[j] = table[j]
    /\ owned' = {j \in owned : table'[j] # Absent}
    /\ disturbed' = TRUE
    /\ UNCHANGED <<goal, busy, result>>

\* The process ends, in whatever step it is; the table stays.
Crash ==
    /\ busy' = FALSE /\ goal' = Empty /\ result' = "none"
    /\ owned' = {} /\ disturbed' = FALSE
    /\ UNCHANGED table

Next ==
    \/ Begin \/ Refuse \/ Finish \/ Crash
    \/ \E k \in Keys : Write(k) \/ Interfere(k)

Spec == Init /\ [][Next]_vars
=============================================================================
