---------------------------- MODULE MCLifecycle ----------------------------
(* An instance of Lifecycle for TLC.                                       *)
EXTENDS Lifecycle

\* No value, the name of the default queue, and another.
SomeNames == {"", "default", "flash"}

\* Values on both sides of the default's condition.
SomeWorkers == {-1, 0, 1}

=============================================================================
