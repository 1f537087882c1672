---------------------------- MODULE MCReconciler ----------------------------
(* Small instances of Reconciler: two services on two backends, with and     *)
(* without full NAT, under an administrator's hand; and a listen address     *)
(* that is spelled in another way than the kernel prints it.                 *)
EXTENDS Reconciler

CONSTANTS v1, v2, alias, b1, b2, rr, wrr, ip1, ip2

MCKeys == {v1, v2}
MCBackends == {b1, b2}
MCFlaky == {b1}
MCTargets == {ip1, ip2}
MCScheds == {rr, wrr}
MCIdentity == [k \in MCKeys |-> k]

\* An entry that listens on k and balances with s over the backends of w.
E(k, s, h, w) ==
    [key |-> k, sched |-> s, hc |-> h, valid |-> TRUE, nat |-> Absent,
     weight |-> [b \in MCBackends |-> IF b \in DOMAIN w THEN w[b] ELSE Absent]]

Both == [b \in MCBackends |-> 1]
First == [b \in {b1} |-> 2]

N(k, t, h, w) == [E(k, rr, h, w) EXCEPT !.nat = t]

\* The service lists: a checked full_nat service; the same key without NAT,
\* with another scheduler, weight and backend set, beside an unchecked
\* full_nat service that shares its backend over another protocol; one that
\* does not convert.
MCConfigs ==
    {<<N(v1, ip1, TRUE, Both)>>,
     <<E(v1, wrr, TRUE, First), N(v2, ip2, FALSE, First)>>,
     <<E(v2, rr, FALSE, First), [E(v1, rr, TRUE, Both) EXCEPT !.valid = FALSE]>>}
MCAdminKeys == {v2}
MCProto == [k \in MCKeys |-> IF k = v1 THEN "tcp" ELSE "udp"]

MCAdminServices ==
    {[sched |-> rr, dests |-> [b \in MCBackends |-> IF b = b2 THEN 1 ELSE Absent]]}

\* Two spellings: the configuration says alias, the kernel v1.
MCSpellings == {v1, alias}
MCSpelling == [k \in MCSpellings |-> v1]
MCSpellingTcp == [k \in MCSpellings |-> "tcp"]
MCSpellingConfigs == {<<E(alias, rr, TRUE, Both)>>, <<E(alias, rr, TRUE, First)>>}
=============================================================================
