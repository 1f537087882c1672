---------------------------- MODULE MCHealthCheck ----------------------------
(* A small instance of HealthCheck: two services that share a backend and    *)
(* are switched on and off, reordered and removed.                           *)
EXTENDS HealthCheck

CONSTANTS b1, b2, s1, s2, s3, w1, w2

S(n, e, t, f, bs) ==
    [name |-> n, enabled |-> e, type |-> t, fail |-> f, rise |-> 0, backends |-> bs]

MCFiles ==
    {<<S(s1, "unset", "", 2, <<b1>>), S(s2, "on", "http", 1, <<b1, b2>>)>>,
     <<S(s1, "on", "tcp", 2, <<b1>>), S(s2, "off", "tcp", 1, <<b1, b2>>)>>,
     <<S(s2, "off", "tcp", 1, <<b1, b2>>), S(s1, "on", "udp", 1, <<b1>>)>>,
     <<S(s2, "off", "tcp", 1, <<b1>>)>>,
     <<S(s1, "on", "tcp", 2, <<b1>>), S(s1, "off", "tcp", 1, <<b1>>)>>}

\* b1 is shared with a service that is then switched off; b2 moves from that
\* service to another one whose check is off.
MCMoved ==
    {<<S(s1, "on", "tcp", 1, <<b1>>), S(s2, "on", "tcp", 1, <<b1, b2>>)>>,
     <<S(s1, "on", "tcp", 1, <<b1>>), S(s2, "off", "tcp", 1, <<b1>>),
       S(s3, "off", "tcp", 1, <<b2>>)>>}

MCFlaky == {b1}
MCBackends == {b1, b2}
MCNames == {s1, s2}
==============================================================================
