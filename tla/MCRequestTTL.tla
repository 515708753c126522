---------------------------- MODULE MCRequestTTL ----------------------------
(* An instance of RequestTTL for TLC.                                      *)
EXTENDS RequestTTL

\* A maxWait of 2 seconds.
TwoSecondsAndAnHour == 3602000

\* Lapses that leave any fraction of a second, and two that leave a new record
\* with half a second, where the rounding turns, and with a millisecond less.
Around == {600333, 1200499, 1801501, 3601500, 3601501}

=============================================================================
