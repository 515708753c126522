---------------------------- MODULE Cache_proofs ----------------------------
(***************************************************************************)
(* Proofs about Cache, for any number of readers, replicas and updates.    *)
(***************************************************************************)
EXTENDS Cache, TLAPS

USE DEF Absent

-----------------------------------------------------------------------------
(* Types, and the versions that copies of the row can have.                *)

\* No copy is ahead of the row, and the entry is not ahead of newest.
Copies ==
  /\ newest <= row
  /\ cache <= newest
  /\ \A r \in Readers : got[r] <= row

TypeInv == TypeOK /\ Copies

\* At first there is no copy of the row.
LEMMA TypeInit == Init => TypeInv
  BY CacheAssumption
  DEF Init, TypeInv, TypeOK, Copies, Running, Leading, Section, Over

\* Every step keeps the types, and takes its copies from the row or the entry.
LEMMA TypeStep == TypeInv /\ [Next]_vars => TypeInv'
<1> SUFFICES ASSUME TypeInv, [Next]_vars PROVE TypeInv'
  OBVIOUS
<1> USE CacheAssumption
    DEF TypeInv, TypeOK, Copies, Running, Leading, Section, Over,
        table, entry, reading, Goto
<1>1. ASSUME NEW r \in Readers, GetCache(r) PROVE TypeInv'
  BY <1>1 DEF GetCache
<1>2. ASSUME NEW r \in Readers, Do(r) PROVE TypeInv'
  BY <1>2 DEF Do
<1>3. ASSUME NEW r \in Readers, Lock(r) PROVE TypeInv'
  BY <1>3 DEF Lock
<1>4. ASSUME NEW r \in Readers, LoseLock(r) PROVE TypeInv'
  BY <1>4 DEF LoseLock
<1>5. ASSUME NEW r \in Readers, ReadAgain(r) PROVE TypeInv'
  BY <1>5 DEF ReadAgain, Land
<1>6. ASSUME NEW r \in Readers, DoubleCheck(r) PROVE TypeInv'
  BY <1>6 DEF DoubleCheck
<1>7. ASSUME NEW r \in Readers, Query(r) PROVE TypeInv'
  BY <1>7 DEF Query
<1>8. ASSUME NEW r \in Readers, Fill(r) PROVE TypeInv'
  BY <1>8 DEF Fill
<1>9. ASSUME NEW r \in Readers, Unlock(r) PROVE TypeInv'
  BY <1>9 DEF Unlock, Land
<1>10. ASSUME NEW r \in Readers, Stop(r) PROVE TypeInv'
  BY <1>10 DEF Stop
<1>11. CASE UpdateRow
  BY <1>11 DEF UpdateRow
<1>12. ASSUME NEW v \in dels, Del(v) PROVE TypeInv'
  <2>1. cache' \in {cache, Absent} /\ rowThen' \in {rowThen, Absent}
    BY <1>12 DEF Del, Drop
  <2>2. /\ dels' = dels \ {v} /\ kept' \in {kept, kept \cup {v}}
        /\ UNCHANGED <<row, newest, lock, pc, got, blind>>
    BY <1>12 DEF Del
  <2>3. dels' \subseteq Nat /\ kept' \subseteq Nat
    BY <2>2
  <2> QED
    BY <2>1, <2>2, <2>3
<1>13. CASE ExpireLock \/ ExpireEntry \/ RedisRestart
  <2>1. cache' \in {cache, Absent} /\ rowThen' \in {rowThen, Absent}
    BY <1>13 DEF ExpireLock, ExpireEntry, RedisRestart, Drop
  <2>2. /\ lock' \in {lock, Free}
        /\ UNCHANGED <<row, dels, kept, newest, pc, got, blind>>
    BY <1>13 DEF ExpireLock, ExpireEntry, RedisRestart
  <2> QED
    BY <2>1, <2>2
<1>14. CASE UNCHANGED vars
  BY <1>14 DEF vars
<1> QED
  BY <1>1, <1>2, <1>3, <1>4, <1>5, <1>6, <1>7, <1>8, <1>9, <1>10, <1>11,
     <1>12, <1>13, <1>14 DEF Next, FindByID

\* The state of the cache is well typed, and no error is put into the cache.
THEOREM Typing == Spec => []TypeOK
<1>1. TypeInv => TypeOK
  BY DEF TypeInv
<1> QED
  BY <1>1, TypeInit, TypeStep, PTL DEF Spec

\* The typing and the bounds of the copies hold in every reachable state.
LEMMA TypeAlways == Spec => []TypeInv
  BY TypeInit, TypeStep, PTL DEF Spec

-----------------------------------------------------------------------------
(* A fresh entry and the Del of the writers.                               *)

\* Every step keeps the property: a new version brings the writer that has yet
\* to delete the entry, and only a Del or a fill with the row ends that.
LEMMA DroppedStep ==
  ASSUME TypeInv, CurrentEntryIsDropped, [Next]_vars
  PROVE  CurrentEntryIsDropped'
<1> USE DEF TypeInv, TypeOK, Copies, CurrentEntryIsDropped, table, entry, reading
<1>1. ASSUME NEW r \in Readers, Fill(r) PROVE CurrentEntryIsDropped'
  BY <1>1 DEF Fill
<1>2. CASE UpdateRow
  BY <1>2 DEF UpdateRow
<1>3. ASSUME NEW v \in dels, Del(v) PROVE CurrentEntryIsDropped'
  BY <1>3 DEF Del, Drop
<1>4. CASE ExpireLock \/ ExpireEntry \/ RedisRestart
  BY <1>4 DEF ExpireLock, ExpireEntry, RedisRestart, Drop
<1>5. CASE UNCHANGED <<table, entry>>
  BY <1>5
<1> QED
  BY <1>1, <1>2, <1>3, <1>4, <1>5
  DEF Next, FindByID, GetCache, Do, Lock, LoseLock, ReadAgain, DoubleCheck,
      Query, Unlock, Stop, vars

\* An entry that was current is stale only beside a writer yet to delete it, or
\* that failed to; whether or not the locks hold.
THEOREM EntryIsDropped == Spec => []CurrentEntryIsDropped
<1>1. Init => CurrentEntryIsDropped
  BY DEF Init, CurrentEntryIsDropped
<1> QED
  BY <1>1, TypeAlways, DroppedStep, PTL DEF Spec

-----------------------------------------------------------------------------
(* The flights of a replica.                                               *)

\* A flight ends for all who are on it, and a replica stops as a whole: nobody is
\* left waiting, and nobody leads beside a leader.
LEMMA FlightStep ==
  ASSUME TypeInv, OneFlightPerReplica, [Next]_vars
  PROVE  OneFlightPerReplica'
<1> USE CacheAssumption
    DEF TypeInv, TypeOK, OneFlightPerReplica, Leader, Leading, Section, Running, Over,
        table, entry, reading
<1>1. ASSUME NEW r \in Readers, GetCache(r) PROVE OneFlightPerReplica'
  BY <1>1 DEF GetCache, Goto
<1>2. ASSUME NEW r \in Readers, Do(r) PROVE OneFlightPerReplica'
  BY <1>2 DEF Do, Goto
<1>3. ASSUME NEW r \in Readers, pc[r] \in Leading, pc'[r] \in Leading,
             \A q \in Readers : q # r => pc'[q] = pc[q]
      PROVE  OneFlightPerReplica'
  BY <1>3
<1>4. ASSUME NEW r \in Readers, pc[r] \in Leading, NEW end \in Over, Land(r, end)
      PROVE  OneFlightPerReplica'
  BY <1>4 DEF Land
<1>5. ASSUME NEW r \in Readers, Stop(r) PROVE OneFlightPerReplica'
  BY <1>5 DEF Stop
<1>6. CASE UNCHANGED pc
  BY <1>6
<1>7. ASSUME NEW r \in Readers,
             Lock(r) \/ LoseLock(r) \/ DoubleCheck(r) \/ Query(r) \/ Fill(r)
      PROVE  OneFlightPerReplica'
  <2>1. /\ pc[r] \in Leading
        /\ \E step \in Leading : pc' = [pc EXCEPT ![r] = step]
    BY <1>7 DEF Lock, LoseLock, DoubleCheck, Query, Fill, Goto
  <2> QED
    BY <1>3, <2>1
<1>8. ASSUME NEW r \in Readers, ReadAgain(r) \/ Unlock(r)
      PROVE  OneFlightPerReplica'
  <2>1. pc[r] \in Leading /\ \E end \in Over : Land(r, end)
    BY <1>8 DEF ReadAgain, Unlock
  <2> QED
    BY <1>4, <2>1
<1> QED
  BY <1>1, <1>2, <1>5, <1>6, <1>7, <1>8
  DEF Next, FindByID, UpdateRow, Del, ExpireLock, ExpireEntry, RedisRestart, vars

\* On a replica one reader at most goes to the database, whether or not the locks
\* hold, and those who wait for it do not wait in vain.
THEOREM OneFlight == Spec => []OneFlightPerReplica
<1>1. Init => OneFlightPerReplica
  BY CacheAssumption DEF Init, OneFlightPerReplica, Leading, Section
<1>2. TypeInv /\ OneFlightPerReplica /\ [Next]_vars => OneFlightPerReplica'
  BY FlightStep
<1> QED
  BY <1>1, <1>2, TypeAlways, PTL DEF Spec

-----------------------------------------------------------------------------
(* The section under the lock.                                             *)

\* Inside the section a reader holds the lock, and past the query it has nothing
\* older than what the cache has held.
SectionInv ==
  \A r \in Readers :
    /\ pc[r] \in Section => lock = Token(r)
    /\ pc[r] = "fill" => got[r] >= newest
    /\ pc[r] \in {"query", "fill"} /\ r \notin blind => cache = Absent

\* Nobody is in the section at first.
LEMMA SectionInit == Init => SectionInv
  BY DEF Init, SectionInv, Section

\* A token is nobody else's.
LEMMA TokenIsOwn ==
  ASSUME NEW r, NEW q
  PROVE  /\ Token(r) # Free /\ Token(r) # Orphan
         /\ Token(r) = Token(q) => r = q
<1>1. Token(r).token # Free.token /\ Token(r).token # Orphan.token
  BY DEF Token, Free, Orphan
<1>2. Token(r).of = r /\ Token(q).of = q
  BY DEF Token
<1> QED
  BY <1>1, <1>2

\* As long as locks hold, every step keeps the section to one reader, whose fill
\* is the only one.
LEMMA SectionStep ==
  ASSUME LocksHold, TypeInv, SectionInv, [Next]_vars
  PROVE  SectionInv'
<1> USE CacheAssumption, TokenIsOwn
    DEF TypeInv, TypeOK, Copies, SectionInv, Section, Running, Leading,
        table, entry, reading, Goto
<1>1. ASSUME NEW r \in Readers, GetCache(r) PROVE SectionInv'
  BY <1>1 DEF GetCache
<1>2. ASSUME NEW r \in Readers, Do(r) PROVE SectionInv'
  BY <1>2 DEF Do
<1>3. ASSUME NEW r \in Readers, Lock(r) PROVE SectionInv'
  BY <1>3 DEF Lock
<1>4. ASSUME NEW r \in Readers, LoseLock(r) PROVE SectionInv'
  BY <1>4 DEF LoseLock
<1>5. ASSUME NEW r \in Readers, ReadAgain(r) PROVE SectionInv'
  BY <1>5 DEF ReadAgain, Land
<1>6. ASSUME NEW r \in Readers, DoubleCheck(r) PROVE SectionInv'
  BY <1>6 DEF DoubleCheck
<1>7. ASSUME NEW r \in Readers, Query(r) PROVE SectionInv'
  BY <1>7 DEF Query
<1>8. ASSUME NEW r \in Readers, Fill(r) PROVE SectionInv'
  BY <1>8 DEF Fill
<1>9. ASSUME NEW r \in Readers, Unlock(r) PROVE SectionInv'
  BY <1>9 DEF Unlock, Land
<1>10. ASSUME NEW r \in Readers, Stop(r) PROVE SectionInv'
  BY <1>10 DEF Stop
<1>11. CASE UpdateRow
  BY <1>11 DEF UpdateRow
<1>12. ASSUME NEW v \in dels, Del(v) PROVE SectionInv'
  BY <1>12 DEF Del, Drop
<1>13. CASE ExpireLock \/ ExpireEntry \/ RedisRestart
  BY <1>13 DEF ExpireLock, ExpireEntry, RedisRestart, Drop, LockMayGo
<1>14. CASE UNCHANGED vars
  BY <1>14 DEF vars
<1> QED
  BY <1>1, <1>2, <1>3, <1>4, <1>5, <1>6, <1>7, <1>8, <1>9, <1>10, <1>11,
     <1>12, <1>13, <1>14 DEF Next, FindByID

\* SectionInv holds in every reachable state, as long as locks hold.
LEMMA SectionAlways == ASSUME LocksHold PROVE Spec => []SectionInv
<1>1. TypeInv /\ SectionInv /\ [Next]_vars => SectionInv'
  BY SectionStep
<1> QED
  BY <1>1, SectionInit, TypeAlways, PTL DEF Spec

\* One reader at most is between LockContext and Unlock.
THEOREM Exclusion == ASSUME LocksHold PROVE Spec => []OneFiller
<1>1. SectionInv => OneFiller
  BY TokenIsOwn DEF SectionInv, OneFiller
<1> QED
  BY <1>1, SectionAlways, PTL

\* An entry costs one query, however many readers miss it.
THEOREM OneQuery == ASSUME LocksHold PROVE Spec => []OneQueryPerMiss
<1>1. SectionInv => OneQueryPerMiss
  BY DEF SectionInv, OneQueryPerMiss
<1> QED
  BY <1>1, SectionAlways, PTL

\* No fill takes the cache back to a version older than it has held.
THEOREM FillsGoForward == ASSUME LocksHold PROVE Spec => FillsNeverGoBack
<1> DEFINE A == cache' \notin {cache, Absent} => cache' >= newest
<1>1. ASSUME SectionInv, [Next]_vars PROVE A
  <2>1. CASE UNCHANGED cache
    BY <2>1
  <2>2. CASE Drop
    BY <2>2 DEF Drop
  <2>3. ASSUME NEW r \in Readers, Fill(r) PROVE A
    BY <1>1, <2>3 DEF SectionInv, Fill, entry
  <2> QED
    BY <1>1, <2>1, <2>2, <2>3
    DEF Next, FindByID, GetCache, Do, Lock, LoseLock, ReadAgain, DoubleCheck,
        Query, Unlock, Stop, UpdateRow, Del, ExpireLock, ExpireEntry,
        RedisRestart, vars, entry
<1>2. SectionInv /\ [Next]_vars => [A]_vars
  BY <1>1
<1> QED
  BY <1>2, SectionAlways, PTL DEF Spec, FillsNeverGoBack

=============================================================================
