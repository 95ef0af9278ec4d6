------------------------------ MODULE MCHashMap ------------------------------
(* TLC instances of HashMap: three keys and a hash that makes them    *)
(* collide, over a table much smaller than the sixteen slots of the code.   *)
EXTENDS HashMap

CONSTANTS k1, k2, k3, v1

\* Over two slots, k1, k2 and k3 share slot 1 and slot 0 stays empty.  When the
\* table doubles, k1 stays in slot 1 while k2 and k3 move to slot 3.
MCHash == [k \in Keys |-> IF k = k1 THEN 1 ELSE 3]
MCValues == {Null, v1}
MCKeys == {k1, k2, k3}
=============================================================================
