-------------------------- MODULE MCSeckillRequest --------------------------
(* Instances of SeckillRequest for TLC.                                    *)
EXTENDS SeckillRequest

CONSTANTS c1, c2, r1, r2

\* c1 and c2 form the same id (two calls of a user in one clock reading).
Colliding == [c \in {c1, c2} |-> r1]

\* Two independent requests.
Distinct == [c \in {c1, c2} |-> IF c = c1 THEN r1 ELSE r2]

=============================================================================
