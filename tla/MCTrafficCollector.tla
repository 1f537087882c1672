------------------------- MODULE MCTrafficCollector -------------------------
(* One counter: what happens to a key does not depend on the other keys. The *)
(* kernel's counter wraps twice and a key is forgotten after two absent      *)
(* polls.                                                                    *)
EXTENDS TrafficCollector

CONSTANTS k1

MCKeys == {k1}
=============================================================================
