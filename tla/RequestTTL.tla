----------------------------- MODULE RequestTTL -----------------------------
(***************************************************************************)
(* How long the Redis record of a seckill request lives.  It is created    *)
(* with a TTL of maxWait plus an hour; every UpdateSeckillRequest runs a   *)
(* script that reads the TTL in seconds and sets the record again with it. *)
(* Redis rounds a TTL to the nearest second, and the script replaces a TTL *)
(* of 0 by an hour.  Times are in milliseconds.                            *)
(***************************************************************************)
EXTENDS Integers

CONSTANTS
  Lifetime,    \* the ttl of EnqueueSeckill: maxWait plus an hour
  Lapses,      \* lapses of time between two steps
  MaxUpdates   \* bound: updates of the record

ASSUME TTLAssumption ==
  /\ Lifetime \in Nat /\ Lifetime >= 3600000
  /\ Lapses \subseteq Nat \ {0}
  /\ MaxUpdates \in Nat

VARIABLES
  left,     \* time until Redis drops the record; 0 once it is gone
  due,      \* time until the lifetime given at creation is over
  updates   \* updates of the record so far

vars == <<left, due, updates>>

TypeOK == left \in Nat /\ due \in Int /\ updates \in 0..MaxUpdates

Init == left = Lifetime /\ due = Lifetime /\ updates = 0

\* The TTL command.
TTL(ms) == (ms + 500) \div 1000

\* Mutants of EX: a TTL of 0 is not replaced; a second less, a second more.
EXWithoutFallback(ttl) == 1000 * ttl

EXWithLoss(ttl) == 1000 * (ttl - 1)

EXWithMargin(ttl) == 1000 * (ttl + 1)

\* The expiry the script gives to SET, for the TTL it has read.
EX(ttl) == 1000 * (IF ttl <= 0 THEN 3600 ELSE ttl)

\* The script; on a record that is gone it does nothing.
UpdateSeckillRequest ==
  /\ left > 0 /\ updates < MaxUpdates
  /\ left' = EX(TTL(left))
  /\ updates' = updates + 1
  /\ UNCHANGED due

Elapse(ms) ==
  /\ left > 0
  /\ left' = IF ms < left THEN left - ms ELSE 0
  /\ due' = due - ms
  /\ UNCHANGED updates

Next == UpdateSeckillRequest \/ \E ms \in Lapses : Elapse(ms)

Spec == Init /\ [][Next]_vars

-----------------------------------------------------------------------------
\* A record outlives its lifetime but for half a second per update: the retries
\* of a job, two updates an attempt, do not make a pending request "not found".
NotDroppedEarly == left >= due - 500 * updates

\* However late the updates come, a record is never given more to live than a
\* new one, but for the rounding.
NeverOutlivesANewRecord == left <= Lifetime + 500

\* An update never drops the record: SET with an expiry of 0 would fail.
UpdateKeepsTheRecord == [][updates' > updates => left' > 0]_vars

=============================================================================
