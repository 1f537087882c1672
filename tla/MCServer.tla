------------------------------ MODULE MCServer ------------------------------
(* Small instances of Server: a service with one or with both of two         *)
(* backends, or with one and then the other, and two goroutine slots.        *)
EXTENDS Server

CONSTANTS b1, b2, w1, w2, watcher, admin

MCBackends == {b1, b2}
MCConfigs == {{b1}, {b1, b2}}
MCDisjoint == {{b1}, {b2}}
=============================================================================
