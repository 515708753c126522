------------------------------ MODULE MCCache -------------------------------
(* Three readers on two replicas, two updates.                             *)
EXTENDS Cache

CONSTANTS r1, r2, r3, p1, p2

TwoReplicas == [r \in Readers |-> IF r = r3 THEN p2 ELSE p1]

=============================================================================
