------------------------ MODULE SeckillRequest_proofs ------------------------
(* Theorems about SeckillRequest, for any number of calls, requests,       *)
(* attempts and workers, with or without the loss of Redis.                *)
EXTENDS SeckillRequest, TLAPS

-----------------------------------------------------------------------------
(* What a step does to a record. Every property of the records is proved   *)
(* from this lemma and not from the actions.                               *)

\* HandleSeckill has three statuses for the error of a submit.
LEMMA FailureStatusType ==
  ASSUME NEW e
  PROVE  FailureStatus(e) \in {"SOLD_OUT", "BALANCE_INSUFFICIENT", "FAILED"}
  BY DEF FailureStatus

\* The update of an existing record by the step of handler, or of the enqueue.
UpdatedBy(i, status) ==
  \/ status = "FAILED"
  \/ status = "DEGRADED"   /\ handler[i] = "degrade"
  \/ status = "PROCESSING" /\ handler[i] = "processing"
  \/ status = "SUCCESS"    /\ handler[i] = "success"
  \/ status \in {"SOLD_OUT", "BALANCE_INSUFFICIENT"} /\ handler[i] = "fail"

\* The script writes at most the one record it is called for, if it exists.
LEMMA UpdateRecord ==
  ASSUME NEW i \in RequestIDs, NEW status \in Status, NEW ok \in BOOLEAN,
         TypeOK, Update(i, status, ok), UpdatedBy(i, status)
  PROVE  /\ record' \in [RequestIDs -> Status \cup {"absent"}]
         /\ \A j \in RequestIDs : record'[j] # record[j]
              => record[j] # "absent" /\ UpdatedBy(j, record'[j])
  BY DEF TypeOK, Update

\* A record appears as WAITING while a call on it is in flight, disappears, or is
\* updated.
LEMMA RecordStep ==
  ASSUME TypeOK, [Next]_vars
  PROVE  /\ record' \in [RequestIDs -> Status \cup {"absent"}]
         /\ \A j \in RequestIDs : record'[j] # record[j] =>
              \/ record[j] = "absent" /\ record'[j] = "WAITING" /\ ~RpcOver(j)
              \/ record'[j] = "absent"
              \/ record[j] # "absent" /\ UpdatedBy(j, record'[j])
<1> DEFINE Goal == /\ record' \in [RequestIDs -> Status \cup {"absent"}]
                   /\ \A j \in RequestIDs : record'[j] # record[j] =>
                        \/ record[j] = "absent" /\ record'[j] = "WAITING" /\ ~RpcOver(j)
                        \/ record'[j] = "absent"
                        \/ record[j] # "absent" /\ UpdatedBy(j, record'[j])
<1>0. ASSUME UNCHANGED record PROVE Goal
  BY <1>0 DEF TypeOK
<1>1. ASSUME NEW c \in Calls, Rpc(c) PROVE Goal
  <2>0. MintedID[c] \in RequestIDs
    BY RequestAssumption
  <2>1. CASE CreateSeckillRequest(c)
    BY <2>0, <2>1 DEF CreateSeckillRequest, SetNX, TypeOK, Status, RpcOver, InFlight
  <2>2. CASE MarkEnqueueFailed(c)
    BY <2>0, <2>2, UpdateRecord DEF MarkEnqueueFailed, UpdatedBy, Status
  <2>3. CASE BeginSeckill(c) \/ InsertSeckillJob(c) \/ CrashCall(c)
    BY <2>3, <1>0 DEF BeginSeckill, InsertSeckillJob, CrashCall
  <2> QED
    BY <1>1, <2>1, <2>2, <2>3 DEF Rpc
<1>2. ASSUME NEW i \in RequestIDs, HandleSeckill(i) PROVE Goal
  <2>1. CASE MarkDegraded(i)
    <3>1. /\ handler[i] = "degrade"
          /\ \E ok \in BOOLEAN : Update(i, "DEGRADED", ok)
      BY <2>1, Zenon DEF MarkDegraded
    <3> QED
      BY <3>1, UpdateRecord DEF UpdatedBy, Status
  <2>2. CASE MarkProcessing(i)
    <3>1. /\ handler[i] = "processing"
          /\ \E ok \in BOOLEAN : Update(i, "PROCESSING", ok)
      BY <2>2, Zenon DEF MarkProcessing
    <3> QED
      BY <3>1, UpdateRecord DEF UpdatedBy, Status
  <2>3. CASE MarkSuccess(i)
    <3>1. /\ handler[i] = "success"
          /\ \E ok \in BOOLEAN : Update(i, "SUCCESS", ok)
      BY <2>3, Zenon DEF MarkSuccess
    <3> QED
      BY <3>1, UpdateRecord DEF UpdatedBy, Status
  <2>4. CASE MarkFailure(i)
    BY <2>4, UpdateRecord, FailureStatusType DEF MarkFailure, UpdatedBy, Status
  <2>5. CASE CheckAge(i) \/ ExecuteSeckillSaga(i) \/ InsertMessagingJob(i)
    BY <2>5, <1>0 DEF CheckAge, ExecuteSeckillSaga, InsertMessagingJob
  <2> QED
    BY <1>2, <2>1, <2>2, <2>3, <2>4, <2>5 DEF HandleSeckill
<1>3. ASSUME NEW i \in RequestIDs, River(i) PROVE Goal
  BY <1>3, <1>0 DEF River, Work, FinishJob, CrashHandler, RescueJob
<1>4. ASSUME NEW i \in RequestIDs, Environment(i) PROVE Goal
  BY <1>4 DEF Environment, MaxWaitElapses, RecordExpires, TypeOK
<1>5. CASE RedisRestart
  BY <1>5 DEF RedisRestart, TypeOK
<1>6. CASE UNCHANGED vars
  BY <1>6, <1>0 DEF vars
<1> QED
  BY <1>1, <1>2, <1>3, <1>4, <1>5, <1>6 DEF Next

-----------------------------------------------------------------------------
(* Types. The bounds of attempt and messages hold because an attempt is    *)
(* counted before its handler starts, and inserts one message at most.     *)

Bounded ==
  \A i \in RequestIDs :
    /\ job[i] = "none" => attempt[i] = 0
    /\ job[i] = "available" => attempt[i] < MaxAttempts
    /\ messages[i] <= attempt[i]
    /\ handler[i] \in {"checkAge", "degrade", "processing", "submit", "message"}
         => messages[i] < attempt[i]

TypeInv == TypeOK /\ Bounded

\* The initial state is well typed and within the bounds.
LEMMA TypeInit == Init => TypeInv
  BY RequestAssumption
  DEF Init, TypeInv, TypeOK, Bounded, CallState, JobState, HandlerState, Errors

\* Every step keeps the types and the bounds.
LEMMA TypeStep == TypeInv /\ [Next]_vars => TypeInv'
<1> SUFFICES ASSUME TypeInv, [Next]_vars PROVE TypeInv'
  OBVIOUS
<1> USE RequestAssumption
    DEF TypeInv, TypeOK, Bounded, CallState, JobState, HandlerState, Errors, workVars
<1>0. record' \in [RequestIDs -> Status \cup {"absent"}]
  BY RecordStep
<1>1. ASSUME NEW c \in Calls, Rpc(c) PROVE TypeInv'
  BY <1>0, <1>1 DEF Rpc, BeginSeckill, CreateSeckillRequest, InsertSeckillJob,
                    MarkEnqueueFailed, CrashCall
<1>2. ASSUME NEW i \in RequestIDs, HandleSeckill(i) PROVE TypeInv'
  <2> USE DEF Goto, Return
  <2>1. CASE CheckAge(i)
    BY <1>0, <2>1 DEF CheckAge
  <2>2. CASE MarkDegraded(i)
    BY <1>0, <2>2 DEF MarkDegraded
  <2>3. CASE MarkProcessing(i)
    BY <1>0, <2>3 DEF MarkProcessing
  <2>4. CASE ExecuteSeckillSaga(i)
    BY <1>0, <2>4 DEF ExecuteSeckillSaga, Gid
  <2>5. CASE InsertMessagingJob(i)
    BY <1>0, <2>5 DEF InsertMessagingJob
  <2>6. CASE MarkSuccess(i)
    BY <1>0, <2>6 DEF MarkSuccess
  <2>7. CASE MarkFailure(i)
    BY <1>0, <2>7 DEF MarkFailure
  <2> QED
    BY <1>2, <2>1, <2>2, <2>3, <2>4, <2>5, <2>6, <2>7 DEF HandleSeckill
<1>3. ASSUME NEW i \in RequestIDs, River(i) PROVE TypeInv'
  <2> USE DEF Goto
  <2>1. CASE Work(i)
    BY <1>0, <2>1 DEF Work
  <2>2. CASE FinishJob(i)
    BY <1>0, <2>2 DEF FinishJob, Retry
  <2>3. CASE CrashHandler(i)
    BY <1>0, <2>3 DEF CrashHandler
  <2>4. CASE RescueJob(i)
    BY <1>0, <2>4 DEF RescueJob, Retry
  <2> QED
    BY <1>3, <2>1, <2>2, <2>3, <2>4 DEF River
<1>4. ASSUME NEW i \in RequestIDs, Environment(i) PROVE TypeInv'
  <2>1. CASE MaxWaitElapses(i)
    BY <1>0, <2>1 DEF MaxWaitElapses
  <2>2. CASE RecordExpires(i)
    BY <1>0, <2>2 DEF RecordExpires
  <2> QED
    BY <1>4, <2>1, <2>2 DEF Environment
<1>5. CASE RedisRestart
  BY <1>0, <1>5 DEF RedisRestart
<1>6. CASE UNCHANGED vars
  BY <1>6 DEF vars
<1> QED
  BY <1>1, <1>2, <1>3, <1>4, <1>5, <1>6 DEF Next

\* Every variable keeps its type: above all, no job is attempted more than
\* MaxAttempts times, and no more messages are inserted for it.
THEOREM Typing == Spec => []TypeOK
<1>1. TypeInv => TypeOK
  BY DEF TypeInv
<1> QED
  BY <1>1, TypeInit, TypeStep, PTL DEF Spec

-----------------------------------------------------------------------------
(* What a step does to the handlers, the sagas and the messages.           *)

\* A handler follows the order of HandleSeckill.
Follows(i) ==
  \/ handler'[i] = handler[i]
  \/ handler'[i] \in {"idle", "returned", "checkAge"}
  \/ handler[i] = "checkAge" /\ overdue[i] /\ handler'[i] = "degrade"
  \/ handler[i] = "checkAge" /\ ~overdue[i] /\ handler'[i] = "processing"
  \/ handler[i] = "processing" /\ handler'[i] = "submit"
  \/ handler[i] = "submit" /\ handler'[i] = "fail"
  \/ handler[i] = "submit" /\ handler'[i] = "message" /\ Backed(i)'
  \/ handler[i] = "message" /\ handler'[i] = "success"

Progress ==
  /\ \A i \in RequestIDs :
       /\ Follows(i)
       /\ messages'[i] # messages[i] => handler[i] = "message"
       /\ overdue[i] => overdue'[i]
  /\ sagas \subseteq sagas'
  /\ \A s \in sagas' \ sagas : s.gid = s.request

\* The RPC and the environment leave handlers, sagas and messages alone.
LEMMA Frame ==
  ASSUME UNCHANGED <<handler, messages, overdue, sagas>>
  PROVE  Progress
  BY DEF Progress, Follows

\* Every step moves a handler along HandleSeckill, leaves it or ends it.
LEMMA ProgressStep ==
  ASSUME TypeOK, [Next]_vars
  PROVE  Progress
<1> USE DEF TypeOK, HandlerState
<1>1. ASSUME NEW c \in Calls, Rpc(c) PROVE Progress
  BY <1>1, Frame DEF Rpc, BeginSeckill, CreateSeckillRequest, InsertSeckillJob,
                     MarkEnqueueFailed, CrashCall, workVars
<1>2. ASSUME NEW i \in RequestIDs, HandleSeckill(i) PROVE Progress
  <2> USE DEF Goto, Return, Progress, Follows
  <2>1. CASE CheckAge(i)
    BY <2>1 DEF CheckAge
  <2>2. CASE MarkDegraded(i)
    BY <2>2 DEF MarkDegraded
  <2>3. CASE MarkProcessing(i)
    BY <2>3 DEF MarkProcessing
  <2>4. CASE ExecuteSeckillSaga(i)
    <3> DEFINE new == [gid |-> i, request |-> i]
    <3>1. PICK accepted \in BOOLEAN, e \in SubmitErrors \cup {"nil"} :
            /\ e = "nil" => accepted
            /\ sagas' = IF accepted THEN sagas \cup {new} ELSE sagas
            /\ Goto(i, IF e = "nil" THEN "message" ELSE "fail")
      BY <2>4, Zenon DEF ExecuteSeckillSaga, Gid
    <3>2. /\ handler[i] = "submit"
          /\ UNCHANGED <<overdue, messages>>
      BY <2>4 DEF ExecuteSeckillSaga
    <3>3. sagas \subseteq sagas' /\ \A s \in sagas' \ sagas : s.gid = s.request
      BY <3>1
    <3>4. ASSUME e = "nil" PROVE Backed(i)'
      <4>1. new \in sagas'
        BY <3>1, <3>4
      <4>2. new.request = i
        OBVIOUS
      <4> QED
        BY <4>1, <4>2, Zenon DEF Backed
    <3>5. handler' = [handler EXCEPT ![i] = IF e = "nil" THEN "message" ELSE "fail"]
      BY <3>1
    <3> QED
      BY <3>2, <3>3, <3>4, <3>5
  <2>5. CASE InsertMessagingJob(i)
    BY <2>5 DEF InsertMessagingJob
  <2>6. CASE MarkSuccess(i)
    BY <2>6 DEF MarkSuccess
  <2>7. CASE MarkFailure(i)
    BY <2>7 DEF MarkFailure
  <2> QED
    BY <1>2, <2>1, <2>2, <2>3, <2>4, <2>5, <2>6, <2>7 DEF HandleSeckill
<1>3. ASSUME NEW i \in RequestIDs, River(i) PROVE Progress
  <2> USE DEF Goto, Progress, Follows
  <2>1. CASE Work(i)
    BY <2>1 DEF Work
  <2>2. CASE FinishJob(i) \/ CrashHandler(i)
    BY <2>2 DEF FinishJob, CrashHandler
  <2>3. CASE RescueJob(i)
    BY <2>3, Frame DEF RescueJob
  <2> QED
    BY <1>3, <2>1, <2>2, <2>3 DEF River
<1>4. ASSUME NEW i \in RequestIDs, Environment(i) PROVE Progress
  <2>1. CASE MaxWaitElapses(i)
    BY <2>1 DEF MaxWaitElapses, workVars, Progress, Follows
  <2>2. CASE RecordExpires(i)
    BY <2>2, Frame DEF RecordExpires, workVars
  <2> QED
    BY <1>4, <2>1, <2>2 DEF Environment
<1>5. CASE RedisRestart
  BY <1>5, Frame DEF RedisRestart, workVars
<1>6. CASE UNCHANGED vars
  BY <1>6, Frame DEF vars
<1> QED
  BY <1>1, <1>2, <1>3, <1>4, <1>5, <1>6 DEF Next

-----------------------------------------------------------------------------
(* The records are backed by what the rest of the system has done.         *)

\* SuccessIsBacked is not inductive: it needs that a handler past its submit
\* is backed.
BackedInv ==
  /\ SuccessIsBacked
  /\ \A i \in RequestIDs : handler[i] \in {"message", "success"} => Backed(i)

\* Past the submit a handler has its saga, and only then writes SUCCESS.
LEMMA BackedStep ==
  ASSUME TypeInv, BackedInv, [Next]_vars
  PROVE  BackedInv'
<1>1. /\ Progress
      /\ \A j \in RequestIDs : record'[j] # record[j] =>
           \/ record[j] = "absent" /\ record'[j] = "WAITING" /\ ~RpcOver(j)
           \/ record'[j] = "absent"
           \/ record[j] # "absent" /\ UpdatedBy(j, record'[j])
  BY ProgressStep, RecordStep DEF TypeInv
<1>2. ASSUME NEW i \in RequestIDs, Backed(i) PROVE Backed(i)'
  BY <1>1, <1>2 DEF Backed, Progress
<1>3. ASSUME NEW i \in RequestIDs, handler'[i] \in {"message", "success"}
      PROVE  Backed(i)'
  BY <1>1, <1>2, <1>3 DEF BackedInv, Progress, Follows
<1>4. ASSUME NEW i \in RequestIDs, record'[i] = "SUCCESS"
      PROVE  Backed(i)'
  BY <1>1, <1>2, <1>4 DEF BackedInv, SuccessIsBacked, UpdatedBy
<1>5. ASSUME NEW i \in RequestIDs, messages'[i] > 0
      PROVE  Backed(i)'
  BY <1>1, <1>2, <1>5 DEF BackedInv, SuccessIsBacked, Progress
<1> QED
  BY <1>3, <1>4, <1>5 DEF BackedInv, SuccessIsBacked

\* A request that reads SUCCESS, or has a messaging job, has a saga at DTM.
THEOREM SuccessBacked == Spec => []SuccessIsBacked
<1>1. Init => BackedInv
  BY DEF Init, BackedInv, SuccessIsBacked
<1>2. BackedInv => SuccessIsBacked
  BY DEF BackedInv
<1> QED
  BY <1>1, <1>2, TypeInit, TypeStep, BackedStep, PTL DEF Spec

\* However often a job is attempted, DTM holds one saga at most for a request:
\* every gid is the request's own.
THEOREM OnePurchase == Spec => []OnePurchasePerRequest
<1> DEFINE OwnGid == \A s \in sagas : s.gid = s.request
<1>1. Init => OwnGid
  BY DEF Init
<1>2. TypeInv /\ OwnGid /\ [Next]_vars => OwnGid'
  BY ProgressStep DEF Progress, TypeInv
<1>3. TypeInv /\ OwnGid => OnePurchasePerRequest
  BY DEF TypeInv, TypeOK, OnePurchasePerRequest
<1> QED
  BY <1>1, <1>2, <1>3, TypeInit, TypeStep, PTL DEF Spec

\* A client that was told QUEUED has a job for good.
THEOREM QueuedHasJob == Spec => []QueuedIsNeverLost
<1>1. Init => QueuedIsNeverLost
  BY DEF Init, QueuedIsNeverLost
<1>2. ASSUME TypeInv, QueuedIsNeverLost, [Next]_vars PROVE QueuedIsNeverLost'
  <2> USE RequestAssumption DEF TypeInv, TypeOK, QueuedIsNeverLost
  <2>1. CASE UNCHANGED <<call, job>>
    BY <1>2, <2>1
  <2>2. ASSUME NEW c \in Calls, InsertSeckillJob(c) PROVE QueuedIsNeverLost'
    <3> DEFINE i == MintedID[c]
    <3>1. PICK applied \in BOOLEAN, ok \in BOOLEAN :
            /\ ok => applied
            /\ job' = IF applied /\ job[i] = "none"
                        THEN [job EXCEPT ![i] = "available"] ELSE job
            /\ call' = [call EXCEPT ![c] = IF ok THEN "queued" ELSE "markFailed"]
      BY <2>2, Zenon DEF InsertSeckillJob
    <3>2. \A j \in RequestIDs : job[j] # "none" => job'[j] # "none"
      BY <1>2, <3>1
    <3>3. ok => job'[i] # "none"
      BY <1>2, <3>1
    <3> QED
      BY <1>2, <3>1, <3>2, <3>3
  <2>3. ASSUME NEW c \in Calls, Rpc(c), ~InsertSeckillJob(c)
        PROVE  QueuedIsNeverLost'
    BY <1>2, <2>3 DEF Rpc, BeginSeckill, CreateSeckillRequest, MarkEnqueueFailed,
                CrashCall, workVars
  <2>4. ASSUME NEW i \in RequestIDs, River(i) PROVE QueuedIsNeverLost'
    BY <1>2, <2>4 DEF River, Work, FinishJob, CrashHandler, RescueJob, Retry
  <2>5. ASSUME NEW i \in RequestIDs, HandleSeckill(i) \/ Environment(i)
        PROVE  UNCHANGED <<call, job>>
    BY <2>5 DEF HandleSeckill, CheckAge, MarkDegraded, MarkProcessing,
                ExecuteSeckillSaga, InsertMessagingJob, MarkSuccess, MarkFailure,
                Environment, MaxWaitElapses, RecordExpires, workVars
  <2>6. RedisRestart \/ UNCHANGED vars => UNCHANGED <<call, job>>
    BY DEF RedisRestart, workVars, vars
  <2> QED
    BY <1>2, <2>1, <2>2, <2>3, <2>4, <2>5, <2>6 DEF Next
<1> QED
  BY <1>1, <1>2, TypeInit, TypeStep, PTL DEF Spec

-----------------------------------------------------------------------------
(* What no step does to a status.                                          *)

\* A handler that met maxWait does nothing but degrade; a record is DEGRADED
\* only once no handler can be past that check.
DegradedInv ==
  \A i \in RequestIDs :
    /\ handler[i] = "degrade" => overdue[i]
    /\ record[i] = "DEGRADED" =>
         overdue[i] /\ handler[i] \in {"idle", "checkAge", "degrade", "returned"}

\* The handler that marks DEGRADED returns; later attempts degrade again.
LEMMA DegradedStep ==
  ASSUME TypeInv, DegradedInv, [Next]_vars
  PROVE  DegradedInv'
  BY ProgressStep, RecordStep
  DEF TypeInv, DegradedInv, Progress, Follows, UpdatedBy

\* No request is DEGRADED at first.
LEMMA DegradedInit == Init => DegradedInv
  BY DEF Init, DegradedInv

\* A request once reported DEGRADED is not processed any more.
THEOREM DegradedStays == Spec => DegradedIsNotProcessed
<1> DEFINE A == \A i \in RequestIDs : record[i] = "DEGRADED"
                  => record'[i] \in {"DEGRADED", "FAILED", "absent"}
<1>1. TypeInv /\ DegradedInv /\ [Next]_vars => [A]_vars
  BY RecordStep DEF TypeInv, DegradedInv, UpdatedBy
<1> QED
  BY <1>1, TypeInit, TypeStep, DegradedInit, DegradedStep, PTL
  DEF Spec, DegradedIsNotProcessed

\* No request that has left WAITING returns to it.
THEOREM WaitingIsLeftForGood == Spec => NeverBackToWaiting
<1> DEFINE A == \A i \in RequestIDs : record[i] \notin {"absent", "WAITING"}
                  => record'[i] # "WAITING"
<1>1. TypeInv /\ [Next]_vars => [A]_vars
  BY RecordStep DEF TypeInv, UpdatedBy
<1> QED
  BY <1>1, TypeInit, TypeStep, PTL DEF Spec, NeverBackToWaiting

=============================================================================
