-------------------------- MODULE RequestTTL_proofs --------------------------
(* Theorems about RequestTTL, for any lifetime of an hour or more, any     *)
(* lapses of time and any number of updates.                               *)
EXTENDS RequestTTL, TLAPS

\* What one update does to the time left: it moves it by half a second at most,
\* or gives a record in its last half second a new hour.
LEMMA ExpiryOfUpdate ==
  ASSUME NEW ms \in Nat
  PROVE  /\ EX(TTL(ms)) \in Nat \ {0}
         /\ EX(TTL(ms)) >= ms - 500
         /\ EX(TTL(ms)) <= ms + 500 \/ EX(TTL(ms)) = 3600000
<1>1. /\ TTL(ms) \in Nat
      /\ 1000 * TTL(ms) <= ms + 500
      /\ ms + 500 < 1000 * TTL(ms) + 1000
  BY DEF TTL
<1> QED
  BY <1>1 DEF EX

\* A new record is well typed.
LEMMA TypeInit == Init => TypeOK
  BY TTLAssumption DEF Init, TypeOK

\* An update or a lapse of time keeps the types.
LEMMA TypeStep == TypeOK /\ [Next]_vars => TypeOK'
<1> SUFFICES ASSUME TypeOK, [Next]_vars PROVE TypeOK'
  OBVIOUS
<1> USE TTLAssumption DEF TypeOK
<1>1. CASE UpdateSeckillRequest
  BY <1>1, ExpiryOfUpdate DEF UpdateSeckillRequest
<1>2. ASSUME NEW ms \in Lapses, Elapse(ms) PROVE TypeOK'
  BY <1>2 DEF Elapse
<1>3. CASE UNCHANGED vars
  BY <1>3 DEF vars
<1> QED
  BY <1>1, <1>2, <1>3 DEF Next

\* The time left is a natural number: no update computes an expiry below zero.
THEOREM Typing == Spec => []TypeOK
  BY TypeInit, TypeStep, PTL DEF Spec

\* A record outlives its lifetime but for half a second per update.
THEOREM RecordLivesOn == Spec => []NotDroppedEarly
<1>1. Init => NotDroppedEarly
  BY TTLAssumption DEF Init, NotDroppedEarly
<1>2. TypeOK /\ NotDroppedEarly /\ [Next]_vars => NotDroppedEarly'
  <2> SUFFICES ASSUME TypeOK, NotDroppedEarly, [Next]_vars
               PROVE  NotDroppedEarly'
    OBVIOUS
  <2> USE TTLAssumption DEF TypeOK, NotDroppedEarly
  <2>1. CASE UpdateSeckillRequest
    BY <2>1, ExpiryOfUpdate DEF UpdateSeckillRequest
  <2>2. ASSUME NEW ms \in Lapses, Elapse(ms) PROVE NotDroppedEarly'
    BY <2>2 DEF Elapse
  <2>3. CASE UNCHANGED vars
    BY <2>3 DEF vars
  <2> QED
    BY <2>1, <2>2, <2>3 DEF Next
<1> QED
  BY <1>1, <1>2, TypeInit, TypeStep, PTL DEF Spec

\* No update drops the record.
THEOREM UpdateKeeps == Spec => UpdateKeepsTheRecord
<1> DEFINE A == updates' > updates => left' > 0
<1>1. TypeOK /\ [Next]_vars => [A]_vars
  <2> SUFFICES ASSUME TypeOK, [Next]_vars PROVE A \/ UNCHANGED vars
    OBVIOUS
  <2>1. CASE UpdateSeckillRequest
    BY <2>1, ExpiryOfUpdate DEF UpdateSeckillRequest, TypeOK
  <2>2. ASSUME NEW ms \in Lapses, Elapse(ms) PROVE A
    BY <2>2 DEF Elapse, TypeOK
  <2> QED
    BY <2>1, <2>2 DEF Next
<1> QED
  BY <1>1, TypeInit, TypeStep, PTL DEF Spec, UpdateKeepsTheRecord

\* No number of updates, however late, lets a record live longer than a new one.
\* Inductive with the exact bound: the lifetime, rounded up or not.
THEOREM RecordEnds == Spec => []NeverOutlivesANewRecord
<1> DEFINE Bound == left <= Lifetime \/ left <= 1000 * TTL(Lifetime)
<1>0. Lifetime >= 3600000 /\ Lifetime \in Nat
  BY TTLAssumption
<1>1. Init => Bound
  BY <1>0 DEF Init
<1>2. TypeOK /\ Bound /\ [Next]_vars => Bound'
  <2> SUFFICES ASSUME TypeOK, Bound, [Next]_vars PROVE Bound'
    OBVIOUS
  <2>1. CASE UpdateSeckillRequest
    <3>1. 1000 * TTL(left) <= 1000 * TTL(Lifetime)
      BY <1>0 DEF TTL, TypeOK
    <3> QED
      BY <1>0, <2>1, <3>1 DEF UpdateSeckillRequest, EX, TTL, TypeOK
  <2>2. ASSUME NEW ms \in Lapses, Elapse(ms) PROVE Bound'
    BY <1>0, <2>2, TTLAssumption DEF Elapse, TTL, TypeOK
  <2>3. CASE UNCHANGED vars
    BY <2>3 DEF vars
  <2> QED
    BY <2>1, <2>2, <2>3 DEF Next
<1>3. TypeOK /\ Bound => NeverOutlivesANewRecord
  BY <1>0 DEF NeverOutlivesANewRecord, TTL, TypeOK
<1> QED
  BY <1>1, <1>2, <1>3, TypeInit, TypeStep, PTL DEF Spec

=============================================================================
