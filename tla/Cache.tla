------------------------------- MODULE Cache --------------------------------
(***************************************************************************)
(* FindByID of the two services: a cache in Redis before a row of          *)
(* Postgres. A reader that misses joins the flight of its replica          *)
(* (singleflight), or leads a new one: it takes a lock in Redis, looks at  *)
(* the cache once more, reads the row and fills the cache. A writer (a     *)
(* deduction or a restoration) updates the row and deletes the entry.      *)
(* The two services have the same code, each with keys of its own; this    *)
(* is one key. A row is abstracted to the number of updates it has seen.   *)
(*                                                                         *)
(* A read of Redis may fail, a write may be lost with or without effect,   *)
(* and a replica may stop with all its readers. A writer that stops before *)
(* its Del is one whose Del failed.                                        *)
(***************************************************************************)
EXTENDS Integers

CONSTANTS
  Readers,     \* calls of FindByID
  Replica,     \* Replica[r]: the process that serves reader r
  LocksHold,   \* does a lock outlast the section it protects?
  MaxUpdates   \* bound: deductions and restorations of the row

ASSUME CacheAssumption ==
  /\ DOMAIN Replica = Readers
  /\ LocksHold \in BOOLEAN
  /\ MaxUpdates \in Nat

VARIABLES
  row,       \* version of the row in Postgres
  dels,      \* versions whose writer has yet to delete the entry
  cache,     \* version in the Redis entry, or Absent
  lock,      \* holder of the redsync lock, Free, or Orphan
  pc,        \* pc[r]: where reader r stands
  got,       \* got[r]: the version that r, leading a flight, has read, or Absent
  kept,      \* history: versions whose writer failed to delete the entry
  rowThen,   \* history: the version of the row when the entry was written
  newest,    \* history: the newest version the cache has held
  blind      \* history: readers whose second look missed an entry, for an error

table   == <<row, dels, kept>>
entry   == <<cache, newest, rowThen>>
reading == <<pc, got, blind>>
vars    == <<table, entry, lock, reading>>

-----------------------------------------------------------------------------
Absent == -1

Free   == [token |-> "none"]
Orphan == [token |-> "orphan"]    \* set, and its holder was told it is not
Token(r) == [token |-> "reader", of |-> r]

\* The steps under the lock, of a flight, and of a call.
Section == {"check", "query", "fill", "unlock"}
Leading == Section \cup {"lock", "lost"}
Running == Leading \cup {"do", "joined"}
Over    == {"returned", "failed", "stopped"}

TypeOK ==
  /\ row \in Nat
  /\ cache \in Nat \cup {Absent}
  /\ lock \in {Free, Orphan} \cup {Token(r) : r \in Readers}
  /\ pc \in [Readers -> Running \cup Over \cup {"idle"}]
  /\ got \in [Readers -> Nat \cup {Absent}]
  /\ \A r \in Readers : pc[r] = "fill" => got[r] # Absent
  /\ dels \subseteq Nat /\ kept \subseteq Nat
  /\ rowThen \in Nat \cup {Absent}
  /\ newest \in Nat \cup {Absent}
  /\ blind \subseteq Readers

Init ==
  /\ row = 0
  /\ cache = Absent
  /\ lock = Free
  /\ pc = [r \in Readers |-> "idle"]
  /\ got = [r \in Readers |-> Absent]
  /\ dels = {} /\ kept = {}
  /\ rowThen = Absent
  /\ newest = Absent
  /\ blind = {}

-----------------------------------------------------------------------------
(* Readers.                                                                *)

Goto(r, step) == pc' = [pc EXCEPT ![r] = step]

\* The call begins. An error of Redis is only logged: it counts as a miss.
GetCache(r) ==
  /\ pc[r] = "idle"
  /\ \/ cache # Absent /\ Goto(r, "returned")
     \/ Goto(r, "do")
  /\ UNCHANGED <<table, entry, lock, got, blind>>

Leader(r) == \E q \in Readers : Replica[q] = Replica[r] /\ pc[q] \in Leading

\* Mutant of Do: every reader that misses goes for itself.
DoAlone(r) ==
  /\ pc[r] = "do"
  /\ Goto(r, "lock")
  /\ UNCHANGED <<table, entry, lock, got, blind>>

Do(r) ==
  /\ pc[r] = "do"
  /\ Goto(r, IF Leader(r) THEN "joined" ELSE "lock")
  /\ UNCHANGED <<table, entry, lock, got, blind>>

\* The flight of leader r ends: those who joined it get what r gets, an error
\* included.
Land(r, end) ==
  pc' = [q \in Readers |->
           IF q = r \/ (Replica[q] = Replica[r] /\ pc[q] = "joined")
             THEN end ELSE pc[q]]

\* Mutant of Lock: SET in the place of SETNX.
LockAnyway(r) ==
  /\ pc[r] = "lock"
  /\ lock' = Token(r)
  /\ Goto(r, "check")
  /\ UNCHANGED <<table, entry, got, blind>>

\* LockContext: SETNX, tried again while the lock is taken.
Lock(r) ==
  /\ pc[r] = "lock"
  /\ lock = Free
  /\ lock' = Token(r)
  /\ Goto(r, "check")
  /\ UNCHANGED <<table, entry, got, blind>>

\* Mutant of LoseLock: only an error of Redis ends LockContext, not its tries.
LoseLockOnErrorOnly(r) ==
  /\ pc[r] = "lock"
  /\ lock = Free /\ lock' = Orphan
  /\ Goto(r, "lost")
  /\ UNCHANGED <<table, entry, got, blind>>

\* LockContext gives up: its tries or its time are over, or Redis fails, maybe
\* after the lock was set.
LoseLock(r) ==
  /\ pc[r] = "lock"
  /\ UNCHANGED lock \/ (lock = Free /\ lock' = Orphan)
  /\ Goto(r, "lost")
  /\ UNCHANGED <<table, entry, got, blind>>

\* After a tenth of a second, a last look at the cache; a miss is an error.
ReadAgain(r) ==
  /\ pc[r] = "lost"
  /\ \/ cache # Absent /\ Land(r, "returned")
     \/ Land(r, "failed")
  /\ UNCHANGED <<table, entry, lock, got, blind>>

\* Mutant of DoubleCheck: no second look.
NoDoubleCheck(r) ==
  /\ pc[r] = "check"
  /\ Goto(r, "query")
  /\ UNCHANGED <<table, entry, lock, got, blind>>

DoubleCheck(r) ==
  /\ pc[r] = "check"
  /\ \/ /\ cache # Absent
        /\ got' = [got EXCEPT ![r] = cache]
        /\ Goto(r, "unlock")
        /\ UNCHANGED blind
     \/ /\ blind' = IF cache = Absent THEN blind ELSE blind \cup {r}
        /\ Goto(r, "query")
        /\ UNCHANGED got
  /\ UNCHANGED <<table, entry, lock>>

\* Mutant of Query: the error of the query is not looked at.
QueryUnchecked(r) ==
  /\ pc[r] = "query"
  /\ \E v \in {row, Absent} : got' = [got EXCEPT ![r] = v]
  /\ Goto(r, "fill")
  /\ UNCHANGED <<table, entry, lock, blind>>

Query(r) ==
  /\ pc[r] = "query"
  /\ \/ got' = [got EXCEPT ![r] = row] /\ Goto(r, "fill")
     \/ Goto(r, "unlock") /\ UNCHANGED got
  /\ UNCHANGED <<table, entry, lock, blind>>

\* setCache; its error is not looked at.
Fill(r) ==
  /\ pc[r] = "fill"
  /\ \/ /\ cache' = got[r]
        /\ rowThen' = row
        /\ newest' = IF got[r] > newest THEN got[r] ELSE newest
     \/ UNCHANGED entry
  /\ Goto(r, "unlock")
  /\ UNCHANGED <<table, lock, got, blind>>

\* Unlock deletes the lock if it still is r's own; that call may fail.
Unlock(r) ==
  /\ pc[r] = "unlock"
  /\ UNCHANGED lock \/ (lock = Token(r) /\ lock' = Free)
  /\ Land(r, IF got[r] = Absent THEN "failed" ELSE "returned")
  /\ got' = [got EXCEPT ![r] = Absent]
  /\ blind' = blind \ {r}
  /\ UNCHANGED <<table, entry>>

\* A replica stops: its readers are gone, and whatever lock they held stays.
Stop(r) ==
  /\ pc[r] \in Running
  /\ pc' = [q \in Readers |-> IF Replica[q] = Replica[r] /\ pc[q] \in Running
                                THEN "stopped" ELSE pc[q]]
  /\ UNCHANGED <<table, entry, lock, got, blind>>

-----------------------------------------------------------------------------
(* Writers.                                                                *)

Drop == cache' = Absent /\ rowThen' = Absent

\* Mutant of UpdateRow: the entry is deleted before the row is updated.
UpdateRowAfterDel ==
  /\ row < MaxUpdates
  /\ row' = row + 1
  /\ UNCHANGED <<dels, kept, entry, lock, reading>>

UpdateRow ==
  /\ row < MaxUpdates
  /\ row' = row + 1
  /\ dels' = dels \cup {row + 1}
  /\ UNCHANGED <<kept, entry, lock, reading>>

\* An error of Del is only logged.
Del(v) ==
  /\ v \in dels
  /\ dels' = dels \ {v}
  /\ \/ Drop /\ UNCHANGED kept
     \/ kept' = kept \cup {v} /\ UNCHANGED <<cache, rowThen>>
  /\ UNCHANGED <<row, newest, lock, reading>>

-----------------------------------------------------------------------------
(* Redis. The lock lives for five seconds, a call for three: only a pause  *)
(* of the process, or the loss of Redis, takes the lock from a section.    *)

LockMayGo ==
  LocksHold => \A r \in Readers : lock = Token(r) => pc[r] \notin Section

ExpireLock ==
  /\ lock # Free /\ LockMayGo
  /\ lock' = Free
  /\ UNCHANGED <<table, entry, reading>>

ExpireEntry ==
  /\ cache # Absent
  /\ Drop
  /\ UNCHANGED <<table, newest, lock, reading>>

RedisRestart ==
  /\ LockMayGo
  /\ Drop /\ lock' = Free
  /\ UNCHANGED <<table, newest, reading>>

-----------------------------------------------------------------------------
FindByID(r) ==
  \/ Do(r) \/ Lock(r) \/ LoseLock(r) \/ ReadAgain(r)
  \/ DoubleCheck(r) \/ Query(r) \/ Fill(r) \/ Unlock(r)

Next ==
  \/ \E r \in Readers : GetCache(r) \/ FindByID(r) \/ Stop(r)
  \/ UpdateRow \/ \E v \in dels : Del(v)
  \/ ExpireLock \/ ExpireEntry \/ RedisRestart

Spec == Init /\ [][Next]_vars

\* A reader's goroutine runs, and each of its calls has a time limit.
FairSpec == Spec /\ \A r \in Readers : WF_vars(FindByID(r))

-----------------------------------------------------------------------------
(* Properties.                                                             *)

\* Of all readers on all replicas one at most is between LockContext and Unlock,
\* as long as locks hold.
OneFiller ==
  \A r, q \in Readers : pc[r] \in Section /\ pc[q] \in Section => r = q

\* Whatever becomes of the lock, the readers of a replica go to the database one at
\* a time; and one that waits for another's result waits for somebody at work.
OneFlightPerReplica ==
  /\ \A r, q \in Readers :
       Replica[r] = Replica[q] /\ pc[r] \in Leading /\ pc[q] \in Leading => r = q
  /\ \A r \in Readers : pc[r] = "joined" => Leader(r)

\* The second look at the cache does its work: a reader goes to the database only
\* while there is no entry, so an entry costs one query, however many miss it.
OneQueryPerMiss ==
  \A r \in Readers : pc[r] \in {"query", "fill"} /\ r \notin blind => cache = Absent

\* No fill puts an older version into the cache than it has held before, even
\* when deductions go on between the query and the fill.
FillsNeverGoBack ==
  [][cache' \notin {cache, Absent} => cache' >= newest]_vars

\* An entry that was the row when it was written is older than the row only
\* beside a writer that has yet to delete it, or failed to: an update is never
\* overtaken by its own Del.
CurrentEntryIsDropped ==
  cache # Absent /\ cache = rowThen /\ cache < row =>
    \E v \in dels \cup kept : v > cache

\* Every FindByID comes to an end: those who joined a flight do not wait for
\* ever, nor do replicas whose lock was left behind by one that stopped.
ReaderReturns == \A r \in Readers : pc[r] \in Running ~> pc[r] \in Over

=============================================================================
