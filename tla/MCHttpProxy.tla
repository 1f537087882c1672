----------------------------- MODULE MCHttpProxy -----------------------------
(* One service with one backend, two requests at a time. *)
EXTENDS HttpProxy

CONSTANTS b1, r1, r2, c1, c2

MCBackends == <<b1>>

MCShapes ==
    {[body |-> TRUE, close |-> FALSE], [body |-> FALSE, close |-> TRUE]}
=============================================================================
