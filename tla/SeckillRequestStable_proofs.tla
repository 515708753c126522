--------------------- MODULE SeckillRequestStable_proofs ---------------------
(* Theorems about SeckillRequest that rest on a Redis that keeps its keys  *)
(* until they expire.                                                      *)
EXTENDS SeckillRequest_proofs

\* Request i is past maxWait, and so are the calls that formed its id.
Over(i) == overdue[i] /\ RpcOver(i)

\* The calls whose SETNX was answered with success.
Admitted(c) == call[c] \in {"insert", "markFailed", "queued"}

\* Without the loss of Redis a record that was created is there until Over: this
\* is what makes SETNX admit one call. Kept is inductive.
Kept ==
  /\ \A c \in Calls : Admitted(c) => record[MintedID[c]] # "absent" \/ Over(MintedID[c])
  /\ \A i \in RequestIDs : job[i] # "none" => record[i] # "absent" \/ Over(i)

\* A handler belongs to a job that River counts as running.
Running == \A i \in RequestIDs : handler[i] # "idle" => job[i] = "running"

\* Work starts the handler with the job; FinishJob and a stop end it first.
LEMMA RunningStep ==
  ASSUME TypeOK, Running, [Next]_vars
  PROVE  Running'
<1> USE RequestAssumption DEF TypeOK, Running, HandlerState, JobState, workVars
<1>1. ASSUME NEW c \in Calls, Rpc(c) PROVE Running'
  BY <1>1 DEF Rpc, BeginSeckill, CreateSeckillRequest, InsertSeckillJob,
              MarkEnqueueFailed, CrashCall
<1>2. ASSUME NEW i \in RequestIDs, HandleSeckill(i)
      PROVE  /\ UNCHANGED job
             /\ handler[i] # "idle"
             /\ \A j \in RequestIDs : j # i => handler'[j] = handler[j]
  BY <1>2 DEF HandleSeckill, CheckAge, MarkDegraded, MarkProcessing,
              ExecuteSeckillSaga, InsertMessagingJob, MarkSuccess, MarkFailure,
              Goto, Return
<1>3. ASSUME NEW i \in RequestIDs, River(i) PROVE Running'
  <2>1. CASE Work(i)
    BY <2>1 DEF Work, Goto
  <2>2. CASE FinishJob(i)
    BY <2>2 DEF FinishJob, Goto
  <2>3. CASE CrashHandler(i)
    BY <2>3 DEF CrashHandler, Goto
  <2>4. CASE RescueJob(i)
    BY <2>4 DEF RescueJob
  <2> QED
    BY <1>3, <2>1, <2>2, <2>3, <2>4 DEF River
<1>4. ASSUME NEW i \in RequestIDs, Environment(i) PROVE UNCHANGED <<job, handler>>
  BY <1>4 DEF Environment, MaxWaitElapses, RecordExpires
<1>5. RedisRestart \/ UNCHANGED vars => UNCHANGED <<job, handler>>
  BY DEF RedisRestart, vars
<1> QED
  BY <1>1, <1>2, <1>3, <1>4, <1>5 DEF Next

\* Once a request is Over no call on its id begins again.
LEMMA OverStep ==
  ASSUME TypeOK, [Next]_vars, NEW i \in RequestIDs, Over(i)
  PROVE  Over(i)'
<1> USE RequestAssumption DEF TypeOK, Over, RpcOver, InFlight, CallState
<1>1. overdue'[i]
  BY ProgressStep DEF Progress
<1>2. ASSUME NEW c \in Calls, Rpc(c) PROVE RpcOver(i)'
  <2>1. CASE BeginSeckill(c)
    BY <2>1 DEF BeginSeckill
  <2>2. CASE CreateSeckillRequest(c)
    BY <2>2 DEF CreateSeckillRequest
  <2>3. CASE InsertSeckillJob(c)
    BY <2>3 DEF InsertSeckillJob
  <2>4. CASE MarkEnqueueFailed(c) \/ CrashCall(c)
    BY <2>4 DEF MarkEnqueueFailed, CrashCall
  <2> QED
    BY <1>2, <2>1, <2>2, <2>3, <2>4 DEF Rpc
<1>3. CASE UNCHANGED call
  BY <1>1, <1>3
<1>4. ASSUME NEW j \in RequestIDs, HandleSeckill(j) \/ River(j) \/ Environment(j)
      PROVE  UNCHANGED call
  BY <1>4 DEF HandleSeckill, CheckAge, MarkDegraded, MarkProcessing,
              ExecuteSeckillSaga, InsertMessagingJob, MarkSuccess, MarkFailure,
              River, Work, FinishJob, CrashHandler, RescueJob,
              Environment, MaxWaitElapses, RecordExpires
<1>5. RedisRestart \/ UNCHANGED vars => UNCHANGED call
  BY DEF RedisRestart, vars
<1> QED
  BY <1>1, <1>2, <1>3, <1>4, <1>5 DEF Next

\* A record disappears only once its request is Over.
LEMMA RecordKept ==
  ASSUME ~RedisVolatile, TypeOK, [Next]_vars, NEW i \in RequestIDs,
         record[i] # "absent"
  PROVE  record'[i] # "absent" \/ Over(i)'
<1>1. ASSUME RedisRestart PROVE FALSE
  BY <1>1 DEF RedisRestart
<1>2. ASSUME NEW c \in Calls, Rpc(c) PROVE record'[i] # "absent"
  BY <1>2, RequestAssumption
  DEF Rpc, BeginSeckill, CreateSeckillRequest, InsertSeckillJob, MarkEnqueueFailed,
      CrashCall, SetNX, Update, TypeOK
<1>3. ASSUME NEW j \in RequestIDs, HandleSeckill(j) PROVE record'[i] # "absent"
  <2>1. \/ UNCHANGED record
        \/ \E status \in Status, ok \in BOOLEAN : Update(j, status, ok)
    <3>1. CASE MarkDegraded(j)
      BY <3>1, Zenon DEF MarkDegraded, Status
    <3>2. CASE MarkProcessing(j)
      BY <3>2, Zenon DEF MarkProcessing, Status
    <3>3. CASE MarkSuccess(j)
      BY <3>3, Zenon DEF MarkSuccess, Status
    <3>4. CASE MarkFailure(j)
      BY <3>4, FailureStatusType DEF MarkFailure, Status
    <3> QED
      BY <1>3, <3>1, <3>2, <3>3, <3>4
      DEF HandleSeckill, CheckAge, ExecuteSeckillSaga, InsertMessagingJob
  <2> QED
    BY <2>1 DEF Update, TypeOK, Status
<1>4. ASSUME NEW j \in RequestIDs, River(j) PROVE record'[i] # "absent"
  BY <1>4 DEF River, Work, FinishJob, CrashHandler, RescueJob
<1>5. ASSUME NEW j \in RequestIDs, Environment(j)
      PROVE  record'[i] # "absent" \/ Over(i)'
  BY <1>5, OverStep
  DEF Environment, MaxWaitElapses, RecordExpires, TypeOK, Over
<1> QED
  BY <1>1, <1>2, <1>3, <1>4, <1>5 DEF Next, vars

\* A job appears only under a call that was admitted; a call is admitted only
\* when it created the record.
LEMMA AdmissionStep ==
  ASSUME TypeOK, Running, [Next]_vars
  PROVE  /\ \A i \in RequestIDs : job[i] = "none" /\ job'[i] # "none"
              => \E c \in Calls : /\ MintedID[c] = i
                                  /\ call[c] = "insert" /\ call'[c] # "insert"
         /\ \A c \in Calls : Admitted(c)' /\ ~Admitted(c)
              => record[MintedID[c]] = "absent" /\ record'[MintedID[c]] # "absent"
                 /\ call[c] = "create"
                 /\ \A d \in Calls : d # c => call'[d] = call[d]
         /\ \A c \in Calls : call'[c] = "insert" /\ Admitted(c) => call[c] = "insert"
<1> DEFINE Goal ==
      /\ \A i \in RequestIDs : job[i] = "none" /\ job'[i] # "none"
           => \E c \in Calls : /\ MintedID[c] = i
                               /\ call[c] = "insert" /\ call'[c] # "insert"
      /\ \A c \in Calls : Admitted(c)' /\ ~Admitted(c)
           => record[MintedID[c]] = "absent" /\ record'[MintedID[c]] # "absent"
              /\ call[c] = "create"
              /\ \A d \in Calls : d # c => call'[d] = call[d]
      /\ \A c \in Calls : call'[c] = "insert" /\ Admitted(c) => call[c] = "insert"
<1> USE RequestAssumption DEF TypeOK, Admitted, CallState, workVars
<1>1. ASSUME NEW c \in Calls, Rpc(c) PROVE Goal
  <2>1. CASE BeginSeckill(c)
    BY <2>1 DEF BeginSeckill
  <2>2. CASE CreateSeckillRequest(c)
    <3>1. PICK ok \in BOOLEAN :
            /\ SetNX(MintedID[c], ok)
            /\ call' = [call EXCEPT ![c] = IF ok THEN "insert" ELSE "failure"]
      BY <2>2, Zenon DEF CreateSeckillRequest
    <3>2. /\ call[c] = "create"
          /\ UNCHANGED job
      BY <2>2 DEF CreateSeckillRequest
    <3>3. ok => record[MintedID[c]] = "absent" /\ record'[MintedID[c]] # "absent"
      BY <3>1 DEF SetNX
    <3> QED
      BY <3>1, <3>2, <3>3
  <2>3. CASE InsertSeckillJob(c)
    BY <2>3 DEF InsertSeckillJob
  <2>4. CASE MarkEnqueueFailed(c) \/ CrashCall(c)
    BY <2>4 DEF MarkEnqueueFailed, CrashCall
  <2> QED
    BY <1>1, <2>1, <2>2, <2>3, <2>4 DEF Rpc
<1>2. ASSUME NEW i \in RequestIDs, River(i) PROVE Goal
  <2>1. CASE Work(i)
    BY <2>1 DEF Work
  <2>2. CASE FinishJob(i)
    BY <2>2 DEF FinishJob, Retry, Running
  <2>3. CASE CrashHandler(i)
    BY <2>3 DEF CrashHandler
  <2>4. CASE RescueJob(i)
    BY <2>4 DEF RescueJob, Retry
  <2> QED
    BY <1>2, <2>1, <2>2, <2>3, <2>4 DEF River
<1>3. CASE UNCHANGED <<call, job>>
  BY <1>3
<1>4. ASSUME NEW i \in RequestIDs, HandleSeckill(i) \/ Environment(i)
      PROVE  UNCHANGED <<call, job>>
  BY <1>4 DEF HandleSeckill, CheckAge, MarkDegraded, MarkProcessing,
              ExecuteSeckillSaga, InsertMessagingJob, MarkSuccess, MarkFailure,
              Environment, MaxWaitElapses, RecordExpires
<1>5. RedisRestart \/ UNCHANGED vars => UNCHANGED <<call, job>>
  BY DEF RedisRestart, vars
<1> QED
  BY <1>1, <1>2, <1>3, <1>4, <1>5 DEF Next

-----------------------------------------------------------------------------
(* One admission per record.                                               *)

StableInv ==
  /\ Running
  /\ Kept
  /\ \A c, d \in Calls :
       Admitted(c) /\ Admitted(d) /\ MintedID[c] = MintedID[d] => c = d

\* Before the first call no record, job or handler exists.
LEMMA StableInit == Init => StableInv
  BY RequestAssumption DEF Init, StableInv, Running, Kept, Admitted

\* Every step keeps the admitted calls apart, while Redis keeps its keys.
LEMMA StableStep ==
  ASSUME ~RedisVolatile, TypeInv, StableInv, [Next]_vars
  PROVE  StableInv'
<1> USE RequestAssumption DEF StableInv
<1>0. TypeOK
  BY DEF TypeInv
<1>1. Running'
  BY <1>0, RunningStep
<1>2. ASSUME NEW i \in RequestIDs, record[i] # "absent" \/ Over(i)
      PROVE  record'[i] # "absent" \/ Over(i)'
  BY <1>0, <1>2, OverStep, RecordKept
<1>3. ASSUME NEW c \in Calls, Admitted(c)'
      PROVE  record'[MintedID[c]] # "absent" \/ Over(MintedID[c])'
  BY <1>0, <1>2, <1>3, AdmissionStep DEF Kept
<1>4. ASSUME NEW i \in RequestIDs, job'[i] # "none"
      PROVE  record'[i] # "absent" \/ Over(i)'
  BY <1>0, <1>2, <1>4, AdmissionStep DEF Kept, Admitted
<1>5. ASSUME NEW c \in Calls, NEW d \in Calls, MintedID[c] = MintedID[d],
             ~Admitted(c), Admitted(c)', Admitted(d)', c # d
      PROVE  FALSE
  <2>1. /\ record[MintedID[c]] = "absent" /\ call[c] = "create"
        /\ call'[d] = call[d]
    BY <1>0, <1>5, AdmissionStep
  <2>2. Admitted(d)
    BY <1>5, <2>1 DEF Admitted
  <2>3. ~RpcOver(MintedID[c])
    BY <2>1 DEF RpcOver, InFlight
  <2> QED
    BY <1>5, <2>1, <2>2, <2>3 DEF Kept, Over
<1>6. ASSUME NEW c \in Calls, NEW d \in Calls, MintedID[c] = MintedID[d],
             Admitted(c)', Admitted(d)'
      PROVE  c = d
  BY <1>5, <1>6
<1> QED
  BY <1>1, <1>3, <1>4, <1>6 DEF Kept

\* Of the calls that form the same id, one at most is told QUEUED.
THEOREM OneQueuedCall == ASSUME ~RedisVolatile PROVE Spec => []OneQueuedCallPerRequest
<1>1. StableInv => OneQueuedCallPerRequest
  BY DEF StableInv, Admitted, OneQueuedCallPerRequest
<1>2. TypeInv /\ StableInv /\ [Next]_vars => StableInv'
  BY StableStep
<1> QED
  BY <1>1, <1>2, TypeInit, TypeStep, StableInit, PTL DEF Spec

-----------------------------------------------------------------------------
(* A completed job has settled its request.                                *)

\* From the first write on, an attempt that can end the job without an error
\* has a record that has left WAITING.
Settled(i) ==
  \/ handler[i] \in {"submit", "message", "success", "fail"}
  \/ handler[i] = "returned" /\ err[i] = "nil"
  \/ job[i] = "completed"

SettledInv == \A i \in RequestIDs : Settled(i) => record[i] # "WAITING"

\* A step that settles a request leaves its record out of WAITING.
LEMMA SettleStep ==
  ASSUME TypeOK, Running, [Next]_vars, NEW i \in RequestIDs,
         Settled(i)', ~Settled(i)
  PROVE  record'[i] # "WAITING"
<1> USE DEF TypeOK, Settled, HandlerState, JobState, workVars
<1>1. ASSUME NEW c \in Calls, Rpc(c) PROVE FALSE
  BY <1>1, RequestAssumption
  DEF Rpc, BeginSeckill, CreateSeckillRequest, InsertSeckillJob,
      MarkEnqueueFailed, CrashCall
<1>2. ASSUME NEW j \in RequestIDs, HandleSeckill(j) PROVE record'[i] # "WAITING"
  <2> USE DEF Goto, Return, Update
  <2>1. CASE MarkDegraded(j)
    <3>1. PICK ok \in BOOLEAN : Update(j, "DEGRADED", ok)
                              /\ Return(j, IF ok THEN "nil" ELSE "CacheError")
      BY <2>1, Zenon DEF MarkDegraded
    <3>2. UNCHANGED job
      BY <2>1 DEF MarkDegraded
    <3>3. CASE ok
      BY <3>1, <3>2, <3>3
    <3>4. CASE ~ok
      BY <3>1, <3>2, <3>4
    <3> QED
      BY <3>3, <3>4
  <2>2. CASE MarkProcessing(j)
    BY <2>2 DEF MarkProcessing
  <2>3. CASE MarkSuccess(j)
    BY <2>3 DEF MarkSuccess
  <2>4. CASE CheckAge(j)
    BY <2>4 DEF CheckAge
  <2>5. CASE ExecuteSeckillSaga(j) \/ InsertMessagingJob(j)
    BY <2>5 DEF ExecuteSeckillSaga, InsertMessagingJob
  <2>6. CASE MarkFailure(j)
    BY <2>6 DEF MarkFailure
  <2> QED
    BY <1>2, <2>1, <2>2, <2>3, <2>4, <2>5, <2>6 DEF HandleSeckill
<1>3. ASSUME NEW j \in RequestIDs, River(j) PROVE FALSE
  <2> USE DEF Goto, Retry
  <2>1. CASE Work(j)
    BY <2>1 DEF Work
  <2>2. CASE FinishJob(j)
    BY <2>2 DEF FinishJob
  <2>3. CASE CrashHandler(j) \/ RescueJob(j)
    BY <2>3 DEF CrashHandler, RescueJob
  <2> QED
    BY <1>3, <2>1, <2>2, <2>3 DEF River
<1>4. ASSUME NEW j \in RequestIDs, Environment(j) PROVE FALSE
  BY <1>4 DEF Environment, MaxWaitElapses, RecordExpires
<1>5. ~(RedisRestart \/ UNCHANGED vars)
  BY DEF RedisRestart, vars
<1> QED
  BY <1>1, <1>2, <1>3, <1>4, <1>5 DEF Next

\* A job that River has completed does not leave its request WAITING.
THEOREM CompletedNotWaiting ==
  ASSUME ~RedisVolatile PROVE Spec => []CompletedIsNotWaiting
<1>1. Init => SettledInv
  BY DEF Init, SettledInv, Settled
<1>2. ASSUME TypeInv, StableInv, SettledInv, [Next]_vars PROVE SettledInv'
  <2> SUFFICES ASSUME NEW i \in RequestIDs, Settled(i)', record'[i] = "WAITING"
               PROVE  FALSE
    BY DEF SettledInv
  <2>1. Settled(i)
    BY <1>2, SettleStep DEF TypeInv, StableInv
  <2>2. record[i] = "absent" /\ ~RpcOver(i)
    BY <1>2, <2>1, RecordStep DEF TypeInv, SettledInv, UpdatedBy
  <2>3. job[i] # "none"
    BY <1>2, <2>1 DEF Settled, StableInv, Running
  <2> QED
    BY <1>2, <2>2, <2>3 DEF StableInv, Kept, Over
<1>3. SettledInv => CompletedIsNotWaiting
  BY DEF SettledInv, Settled, CompletedIsNotWaiting
<1>4. TypeInv /\ StableInv /\ [Next]_vars => StableInv'
  BY StableStep
<1> QED
  BY <1>1, <1>2, <1>3, <1>4, TypeInit, TypeStep, StableInit, PTL DEF Spec

-----------------------------------------------------------------------------
(* The refinement. What a client sees of calls, jobs, sagas and records    *)
(* does what Storefront allows.                                            *)

\* A call about to insert a job finds none under its id: Admit issues a ticket.
Behind == \A c \in Calls : call[c] = "insert" => job[MintedID[c]] = "none"

\* Of the calls on an id only the one that was admitted inserts its job, and that
\* call then goes on.
LEMMA BehindStep ==
  ASSUME TypeOK, StableInv, Behind, [Next]_vars
  PROVE  Behind'
<1> USE RequestAssumption DEF StableInv, Behind
<1> SUFFICES ASSUME NEW c \in Calls, call'[c] = "insert", job'[MintedID[c]] # "none"
             PROVE  FALSE
  OBVIOUS
<1> DEFINE i == MintedID[c]
<1>1. CASE call[c] = "insert"
  <2>1. PICK d \in Calls : MintedID[d] = i /\ call[d] = "insert" /\ call'[d] # "insert"
    BY <1>1, AdmissionStep
  <2> QED
    BY <1>1, <2>1 DEF Admitted
<1>2. CASE call[c] # "insert"
  <2>1. record[i] = "absent" /\ call[c] = "create"
    BY <1>2, AdmissionStep DEF Admitted
  <2>2. ~Over(i)
    BY <2>1 DEF Over, RpcOver, InFlight
  <2>3. job[i] = "none" /\ \A d \in Calls : MintedID[d] = i => ~Admitted(d)
    BY <2>1, <2>2 DEF Kept
  <2> QED
    BY <2>3, AdmissionStep DEF Admitted
<1> QED
  BY <1>1, <1>2

\* What each step of the refinement needs: a handler has an open ticket, it is past
\* its submit with a saga and past its check with a request in time, and, without
\* the loss of Redis, the order of record, job and answer.
ShopInv ==
  /\ TypeInv /\ Running /\ BackedInv /\ DegradedInv
  /\ ~RedisVolatile => StableInv /\ Behind

\* It holds at first,
LEMMA ShopInit == Init => ShopInv
<1>1. Init => Behind
  BY RequestAssumption DEF Init, Behind
<1>2. Init => BackedInv
  BY DEF Init, BackedInv, SuccessIsBacked
<1> QED
  BY <1>1, <1>2, TypeInit, StableInit, DegradedInit DEF ShopInv, StableInv

\* and every step keeps it.
LEMMA ShopInvStep == ShopInv /\ [Next]_vars => ShopInv'
<1> SUFFICES ASSUME ShopInv, [Next]_vars PROVE ShopInv'
  OBVIOUS
<1>1. TypeInv' /\ Running' /\ BackedInv' /\ DegradedInv'
  BY TypeStep, RunningStep, BackedStep, DegradedStep DEF ShopInv, TypeInv
<1>2. ~RedisVolatile => StableInv' /\ Behind'
  BY StableStep, BehindStep DEF ShopInv, TypeInv
<1> QED
  BY <1>1, <1>2 DEF ShopInv

\* The requests start as a shop that nobody has entered.
LEMMA ShopStart == Init => Shop!Init
<1> SUFFICES ASSUME Init PROVE Shop!Init
  OBVIOUS
<1>1. Told = {} /\ Late = {} /\ Ordered = {}
  BY DEF Init, Told, Late, Ordered, Backed
<1>2. Tickets = [i \in RequestIDs |-> "none"]
  BY DEF Init, Tickets, Ticket
<1> QED
  BY <1>1, <1>2 DEF Init, Shop!Init

\* A client sees of a step only what the step changes.
LEMMA SameView ==
  /\ UNCHANGED call    => Told' = Told
  /\ UNCHANGED job     => Tickets' = Tickets
  /\ UNCHANGED overdue => Late' = Late
  /\ UNCHANGED sagas   => Ordered' = Ordered
  BY DEF Told, Tickets, Ticket, Late, Ordered, Backed

\* An update tells the client of the new status, or, failing, nothing.
LEMMA UpdateTells ==
  ASSUME NEW i \in RequestIDs, NEW status, NEW ok,
         Update(i, status, ok), UNCHANGED <<Told, Tickets, Late, Ordered>>
  PROVE  UNCHANGED Shop!vars \/ (record[i] # "absent" /\ Shop!Tell(i, status))
  BY DEF Update, Shop!vars, Shop!Tell

\* An insert issues the ticket, and tells the client if its answer comes back.
LEMMA ShopOfInsert ==
  ASSUME ShopInv, NEW c \in Calls, InsertSeckillJob(c)
  PROVE  [Shop!Next]_(Shop!vars)
<1> USE RequestAssumption DEF ShopInv, TypeInv, TypeOK
<1> DEFINE i == MintedID[c]
<1>1. PICK applied \in BOOLEAN, ok \in BOOLEAN :
        /\ ok => applied
        /\ job' = IF applied /\ job[i] = "none"
                    THEN [job EXCEPT ![i] = "available"] ELSE job
        /\ call' = [call EXCEPT ![c] = IF ok THEN "queued" ELSE "markFailed"]
  BY Zenon DEF InsertSeckillJob
<1>2. call[c] = "insert" /\ UNCHANGED <<record, overdue, sagas>>
  BY DEF InsertSeckillJob
<1>3. UNCHANGED <<Late, Ordered, record>>
  BY <1>2, SameView
<1>4. i \in RequestIDs /\ Tickets \in [RequestIDs -> {"none", "open", "closed"}]
  BY DEF Tickets, Ticket
<1>5. Tickets[i] = "none" <=> job[i] = "none"
  BY <1>4 DEF Tickets, Ticket
<1>6. RedisVolatile \/ (Tickets[i] = "none" /\ record[i] # "absent")
  <2> SUFFICES ASSUME ~RedisVolatile PROVE Tickets[i] = "none" /\ record[i] # "absent"
    OBVIOUS
  <2>1. ~Over(i) /\ Admitted(c)
    BY <1>2 DEF Over, RpcOver, InFlight, Admitted
  <2> QED
    BY <1>2, <1>5, <2>1 DEF StableInv, Kept, Behind
<1>7. Tickets' = IF applied /\ job[i] = "none"
                   THEN [Tickets EXCEPT ![i] = "open"] ELSE Tickets
  <2>1. CASE applied /\ job[i] = "none"
    BY <1>1, <1>4, <2>1 DEF Tickets, Ticket
  <2>2. CASE ~(applied /\ job[i] = "none")
    BY <1>1, <2>2, SameView
  <2> QED
    BY <2>1, <2>2
<1>8. CASE ok
  <2>1. Told' = Told \cup {c} /\ c \notin Told
    BY <1>1, <1>2, <1>8 DEF Told
  <2>2. Tickets' = IF Tickets[i] = "none" THEN [Tickets EXCEPT ![i] = "open"] ELSE Tickets
    BY <1>1, <1>5, <1>7, <1>8
  <2>3. Shop!Admit(c)
    BY <1>3, <1>6, <2>1, <2>2 DEF Shop!Admit
  <2> QED
    BY <2>3 DEF Shop!Next
<1>9. CASE ~ok
  <2>1. Told' = Told
    BY <1>1, <1>2, <1>9 DEF Told
  <2>2. CASE applied /\ job[i] = "none"
    <3>1. Shop!Issue(i)
      BY <1>3, <1>5, <1>6, <1>7, <2>1, <2>2 DEF Shop!Issue
    <3> QED
      BY <1>4, <3>1 DEF Shop!Next
  <2>3. CASE ~(applied /\ job[i] = "none")
    BY <1>3, <1>7, <2>1, <2>3 DEF Shop!vars
  <2> QED
    BY <2>2, <2>3
<1> QED
  BY <1>8, <1>9

\* A call creates the record, inserts the job or gives up, or is not seen.
LEMMA ShopOfCall ==
  ASSUME ShopInv, NEW c \in Calls, Rpc(c)
  PROVE  [Shop!Next]_(Shop!vars)
<1> USE RequestAssumption DEF ShopInv, TypeInv, TypeOK
<1> DEFINE i == MintedID[c]
<1>0. i \in RequestIDs
  OBVIOUS
<1>1. CASE BeginSeckill(c) \/ CrashCall(c)
  <2>1. Told' = Told
    BY <1>1 DEF BeginSeckill, CrashCall, InFlight, Told
  <2>2. UNCHANGED <<record, job, overdue, sagas>>
    BY <1>1 DEF BeginSeckill, CrashCall, workVars
  <2> QED
    BY <2>1, <2>2, SameView DEF Shop!vars
<1>2. CASE CreateSeckillRequest(c)
  <2>1. Told' = Told
    BY <1>2 DEF CreateSeckillRequest, Told
  <2>2. UNCHANGED <<Told, Tickets, Late, Ordered>>
    BY <1>2, <2>1, SameView DEF CreateSeckillRequest, workVars
  <2>3. \/ UNCHANGED record
        \/ record[i] = "absent" /\ record' = [record EXCEPT ![i] = "WAITING"]
    BY <1>2 DEF CreateSeckillRequest, SetNX
  <2>4. record[i] = "absent" => RedisVolatile \/ Tickets[i] = "none"
    <3>1. ~RpcOver(i)
      BY <1>2 DEF CreateSeckillRequest, RpcOver, InFlight
    <3> QED
      BY <1>0, <3>1 DEF StableInv, Kept, Over, Tickets, Ticket
  <2>5. CASE UNCHANGED record
    BY <2>2, <2>5 DEF Shop!vars
  <2>6. CASE record[i] = "absent" /\ record' = [record EXCEPT ![i] = "WAITING"]
    <3>1. Shop!Post(i)
      BY <2>2, <2>4, <2>6 DEF Shop!Post, Shop!Tell
    <3> QED
      BY <1>0, <3>1 DEF Shop!Next
  <2> QED
    BY <2>3, <2>5, <2>6
<1>3. CASE InsertSeckillJob(c)
  BY <1>3, ShopOfInsert
<1>4. CASE MarkEnqueueFailed(c)
  <2>1. Told' = Told /\ c \notin Told
    BY <1>4 DEF MarkEnqueueFailed, Told
  <2>2. UNCHANGED <<Told, Tickets, Late, Ordered>>
    BY <1>4, <2>1, SameView DEF MarkEnqueueFailed, workVars
  <2>3. UNCHANGED Shop!vars \/ (record[i] # "absent" /\ Shop!Tell(i, "FAILED"))
    BY <1>0, <1>4, <2>2, UpdateTells DEF MarkEnqueueFailed
  <2>4. UNCHANGED Shop!vars \/ Shop!Withdraw(c)
    BY <2>1, <2>3 DEF Shop!Withdraw
  <2> QED
    BY <2>4 DEF Shop!Next
<1> QED
  BY <1>1, <1>2, <1>3, <1>4 DEF Rpc

\* A live handler has an open ticket: it orders the purchase or tells the status.
LEMMA ShopOfHandler ==
  ASSUME ShopInv, NEW i \in RequestIDs, HandleSeckill(i)
  PROVE  [Shop!Next]_(Shop!vars)
<1> USE DEF ShopInv, TypeInv, TypeOK
<1>1. UNCHANGED <<Told, Tickets, Late>>
  <2>1. UNCHANGED <<call, job, overdue>>
    BY DEF HandleSeckill, CheckAge, MarkDegraded, MarkProcessing,
           ExecuteSeckillSaga, InsertMessagingJob, MarkSuccess, MarkFailure
  <2> QED
    BY <2>1, SameView
<1>2. handler[i] # "idle" /\ Tickets[i] = "open"
  <2>1. handler[i] # "idle"
    BY DEF HandleSeckill, CheckAge, MarkDegraded, MarkProcessing,
           ExecuteSeckillSaga, InsertMessagingJob, MarkSuccess, MarkFailure
  <2> QED
    BY <2>1 DEF Running, Tickets, Ticket
<1>3. handler[i] \in {"processing", "submit", "message", "success", "fail"}
        => record[i] # "DEGRADED"
  BY DEF DegradedInv
<1>4. ASSUME NEW status, NEW ok, Update(i, status, ok), UNCHANGED sagas
      PROVE  UNCHANGED Shop!vars \/ (record[i] # "absent" /\ Shop!Tell(i, status))
  BY <1>1, <1>4, UpdateTells, SameView
<1>5. CASE CheckAge(i) \/ InsertMessagingJob(i)
  <2>1. UNCHANGED <<record, sagas>>
    BY <1>5 DEF CheckAge, InsertMessagingJob
  <2> QED
    BY <1>1, <2>1, SameView DEF Shop!vars
<1>6. CASE MarkDegraded(i)
  <2>1. handler[i] = "degrade" /\ UNCHANGED sagas
    BY <1>6 DEF MarkDegraded
  <2>2. UNCHANGED Shop!vars \/ (record[i] # "absent" /\ Shop!Tell(i, "DEGRADED"))
    BY <1>4, <1>6, <2>1 DEF MarkDegraded
  <2>3. i \in Late
    BY <2>1 DEF DegradedInv, Late
  <2>4. UNCHANGED Shop!vars \/ Shop!Degrade(i)
    BY <1>2, <2>2, <2>3 DEF Shop!Degrade
  <2> QED
    BY <2>4 DEF Shop!Next
<1>7. CASE MarkProcessing(i)
  <2>1. handler[i] = "processing" /\ UNCHANGED sagas
    BY <1>7 DEF MarkProcessing
  <2>2. UNCHANGED Shop!vars \/ (record[i] # "absent" /\ Shop!Tell(i, "PROCESSING"))
    BY <1>4, <1>7, <2>1 DEF MarkProcessing
  <2>3. UNCHANGED Shop!vars \/ Shop!Process(i)
    BY <1>2, <1>3, <2>1, <2>2 DEF Shop!Process, Shop!InHand
  <2> QED
    BY <2>3 DEF Shop!Next
<1>8. CASE ExecuteSeckillSaga(i)
  <2>1. sagas' = sagas \/ sagas' = sagas \cup {[gid |-> i, request |-> i]}
    BY <1>8 DEF ExecuteSeckillSaga, Gid
  <2>2. UNCHANGED record
    BY <1>8 DEF ExecuteSeckillSaga
  <2>3. CASE sagas' = sagas
    BY <1>1, <2>2, <2>3, SameView DEF Shop!vars
  <2>4. CASE sagas' = sagas \cup {[gid |-> i, request |-> i]}
    <3>1. \A j \in RequestIDs : Backed(j)' <=> Backed(j) \/ j = i
      <4> DEFINE new == [gid |-> i, request |-> i]
      <4>1. \A t : t \in sagas' <=> t \in sagas \/ t = new
        BY <2>4
      <4>2. new.request = i
        OBVIOUS
      <4> HIDE DEF new
      <4> QED
        BY ONLY <4>1, <4>2, Zenon DEF Backed
    <3>2. Ordered' = Ordered \cup {i}
      BY <3>1 DEF Ordered
    <3>3. Shop!Buy(i)
      BY <1>1, <1>2, <2>2, <3>2 DEF Shop!Buy
    <3> QED
      BY <3>3 DEF Shop!Next
  <2> QED
    BY <2>1, <2>3, <2>4
<1>9. CASE MarkSuccess(i)
  <2>1. handler[i] = "success" /\ UNCHANGED sagas
    BY <1>9 DEF MarkSuccess
  <2>2. UNCHANGED Shop!vars \/ (record[i] # "absent" /\ Shop!Tell(i, "SUCCESS"))
    BY <1>4, <1>9, <2>1 DEF MarkSuccess
  <2>3. i \in Ordered
    BY <2>1 DEF BackedInv, Ordered
  <2>4. UNCHANGED Shop!vars \/ Shop!Succeed(i)
    BY <1>2, <1>3, <2>1, <2>2, <2>3 DEF Shop!Succeed, Shop!InHand
  <2> QED
    BY <2>4 DEF Shop!Next
<1>10. CASE MarkFailure(i)
  <2>1. handler[i] = "fail" /\ UNCHANGED sagas
    BY <1>10 DEF MarkFailure
  <2>2. PICK status \in {"SOLD_OUT", "BALANCE_INSUFFICIENT", "FAILED"} :
          UNCHANGED Shop!vars \/ (record[i] # "absent" /\ Shop!Tell(i, status))
    BY <1>4, <1>10, <2>1, FailureStatusType DEF MarkFailure
  <2>3. UNCHANGED Shop!vars \/ Shop!Refuse(i)
    BY <1>2, <1>3, <2>1, <2>2 DEF Shop!Refuse, Shop!InHand
  <2> QED
    BY <2>3 DEF Shop!Next
<1> QED
  BY <1>5, <1>6, <1>7, <1>8, <1>9, <1>10 DEF HandleSeckill

\* River closes tickets, and opens none again.
LEMMA ShopOfRiver ==
  ASSUME ShopInv, NEW i \in RequestIDs, River(i)
  PROVE  [Shop!Next]_(Shop!vars)
<1> USE DEF ShopInv, TypeInv, TypeOK
<1>1. UNCHANGED <<record, Told, Late, Ordered>>
  <2>1. UNCHANGED <<call, record, overdue, sagas>>
    BY DEF River, Work, FinishJob, CrashHandler, RescueJob
  <2> QED
    BY <2>1, SameView
<1>2. \/ UNCHANGED job
      \/ /\ job[i] \in {"available", "running"}
         /\ \E to \in {"available", "running", "completed", "discarded"} :
              job' = [job EXCEPT ![i] = to]
  BY DEF River, Work, FinishJob, CrashHandler, RescueJob, Retry, Running
<1>3. CASE UNCHANGED job
  BY <1>1, <1>3, SameView DEF Shop!vars
<1>4. ASSUME job[i] \in {"available", "running"},
             NEW to \in {"available", "running"}, job' = [job EXCEPT ![i] = to]
      PROVE  UNCHANGED Shop!vars
  <2>1. \A j \in RequestIDs : Ticket(j)' = Ticket(j)
    BY <1>4 DEF Ticket
  <2> QED
    BY <1>1, <2>1 DEF Tickets, Shop!vars
<1>5. ASSUME job[i] \in {"available", "running"},
             NEW to \in {"completed", "discarded"}, job' = [job EXCEPT ![i] = to]
      PROVE  Shop!Next
  <2>1. Ticket(i) = "open" /\ Ticket(i)' = "closed"
    BY <1>5 DEF Ticket
  <2>2. \A j \in RequestIDs : j # i => Ticket(j)' = Ticket(j)
    BY <1>5 DEF Ticket
  <2>3. Tickets[i] = "open" /\ Tickets' = [Tickets EXCEPT ![i] = "closed"]
    BY <2>1, <2>2 DEF Tickets
  <2>4. Shop!Close(i)
    BY <1>1, <2>3 DEF Shop!Close
  <2> QED
    BY <2>4 DEF Shop!Next
<1> QED
  BY <1>2, <1>3, <1>4, <1>5

\* Redis forgets, all at once if it may, and else what is overdue.
LEMMA ShopForgets ==
  ASSUME TypeOK, NEW S \in SUBSET RequestIDs, RedisVolatile \/ S \subseteq Late,
         record' = [i \in RequestIDs |-> IF i \in S THEN "absent" ELSE record[i]],
         UNCHANGED <<call, job, overdue, sagas>>
  PROVE  Shop!Next
<1>1. UNCHANGED <<Told, Tickets, Late, Ordered>>
  BY SameView
<1>2. Shop!Forget(S)
  BY <1>1 DEF Shop!Forget
<1> QED
  BY <1>2 DEF Shop!Next

\* Time makes requests late.
LEMMA ShopOfEnvironment ==
  ASSUME ShopInv, NEW i \in RequestIDs, Environment(i)
  PROVE  [Shop!Next]_(Shop!vars)
<1> USE DEF ShopInv, TypeInv, TypeOK
<1>1. CASE MaxWaitElapses(i)
  <2>1. UNCHANGED <<record, Told, Tickets, Ordered>>
    <3>1. UNCHANGED <<record, call, job, sagas>>
      BY <1>1 DEF MaxWaitElapses, workVars
    <3> QED
      BY <3>1, SameView
  <2>2. i \notin Late /\ Late' = Late \cup {i}
    BY <1>1 DEF MaxWaitElapses, Late
  <2>3. Shop!Age(i)
    BY <2>1, <2>2 DEF Shop!Age
  <2> QED
    BY <2>3 DEF Shop!Next
<1>2. CASE RecordExpires(i)
  <2>1. {i} \in SUBSET RequestIDs /\ {i} \subseteq Late
    BY <1>2 DEF RecordExpires, Late
  <2>2. record' = [j \in RequestIDs |-> IF j \in {i} THEN "absent" ELSE record[j]]
    BY <1>2 DEF RecordExpires
  <2>3. UNCHANGED <<call, job, overdue, sagas>>
    BY <1>2 DEF RecordExpires, workVars
  <2> QED
    BY <2>1, <2>2, <2>3, ShopForgets
<1> QED
  BY <1>1, <1>2 DEF Environment

\* Every step of the requests is one the shop allows, or is not seen.
LEMMA ShopStep == ShopInv /\ [Next]_vars => [Shop!Next]_(Shop!vars)
<1> SUFFICES ASSUME ShopInv, [Next]_vars PROVE [Shop!Next]_(Shop!vars)
  OBVIOUS
<1>1. CASE RedisRestart
  <2>1. UNCHANGED <<call, job, overdue, sagas>> /\ RedisVolatile
    BY <1>1 DEF RedisRestart, workVars
  <2>2. record' = [i \in RequestIDs |-> IF i \in RequestIDs THEN "absent" ELSE record[i]]
    BY <1>1 DEF RedisRestart
  <2> QED
    BY <2>1, <2>2, ShopForgets DEF ShopInv, TypeInv
<1>2. CASE UNCHANGED vars
  BY <1>2, SameView DEF vars, Shop!vars
<1> QED
  BY <1>1, <1>2, ShopOfCall, ShopOfHandler, ShopOfRiver, ShopOfEnvironment DEF Next

\* With or without the loss of Redis, and with any crashes, lost replies and
\* attempts, requests do what the shop promises.
THEOREM KeepsPromise == Spec => PromiseKept
  BY ShopStart, ShopInit, ShopInvStep, ShopStep, PTL DEF Spec, PromiseKept, Shop!Spec

=============================================================================
