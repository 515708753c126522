---------------------------- MODULE MCSeckillSaga ---------------------------
(* Instances of SeckillSaga for TLC.                                       *)
EXTENDS SeckillSaga

CONSTANTS s1, s2, s3, u1, u2

\* Three purchases of two users: u1 buys twice.
Purchases == [s \in {s1, s2, s3} |-> IF s = s3 THEN u2 ELSE u1]

\* One purchase each.
OneEach == [s \in {s1, s2} |-> IF s = s1 THEN u1 ELSE u2]

=============================================================================
