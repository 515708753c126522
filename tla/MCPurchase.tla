----------------------------- MODULE MCPurchase -----------------------------
(* Instances of Purchase for TLC.                                          *)
EXTENDS Purchase

CONSTANTS c1, c2, r1, s2, u1

\* c1 and c2 form the same id (two calls of a user in one clock reading).
Colliding == [c \in {c1, c2} |-> r1]

\* The rival is another purchase of the same user.
SameBuyer == [s \in {r1, s2} |-> u1]

=============================================================================
