---------------------------- MODULE MCSnatChain ----------------------------
(* Model values for SnatChain: the nat chain with two backends and two       *)
(* source addresses.                                                         *)
EXTENDS SnatChain

CONSTANTS k1, k2, ip1, ip2

MCRuleKeys == {k1, k2}
MCTargets == {ip1, ip2}
============================================================================
