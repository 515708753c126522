--------------------------- MODULE SeckillRequest ---------------------------
(***************************************************************************)
(* The life of a seckill request in the product service: the Seckill RPC   *)
(* writes a WAITING record to Redis and inserts a River job in Postgres;   *)
(* a River worker later runs HandleSeckill, which submits the purchase to  *)
(* the DTM coordinator as a saga and keeps the record's status up to date. *)
(*                                                                         *)
(* Redis, River and DTM are outside the repository. Every call to them     *)
(* may be lost before it takes effect, or take effect and lose its reply;  *)
(* a process may stop between any two calls; River runs a job again after  *)
(* an error or a stop, up to MaxAttempts times.                            *)
(*                                                                         *)
(* Time is abstracted to one bit per request: overdue[i] says that more    *)
(* than maxWait has passed since EnqueuedAt.  The code compares the clock  *)
(* of the replica that enqueues with that of the one that runs the job:    *)
(* one bit for all of them assumes that these clocks agree.                *)
(***************************************************************************)
EXTENDS Integers, FiniteSets

CONSTANTS
  Calls,          \* invocations of the Seckill RPC
  RequestIDs,     \* request ids, each formed from a user id and a clock reading
  MintedID,       \* MintedID[c]: the id that call c forms; two may coincide
  MaxAttempts,    \* River's limit on the attempts of a job
  QueueWorkers,   \* jobs that River runs at the same time (queue_workers)
  SubmitErrors,   \* errors that submitting a saga can return
  RedisVolatile   \* may Redis lose its keys? (docker-compose.yml: no volume)

ASSUME RequestAssumption ==
  /\ MintedID \in [Calls -> RequestIDs]
  /\ MaxAttempts \in Nat \ {0}
  /\ QueueWorkers \in Nat \ {0}
  /\ SubmitErrors \subseteq {"SoldOut", "LowBalance", "Other"}
  /\ RedisVolatile \in BOOLEAN

VARIABLES
  call,      \* call[c]: where the Seckill RPC c stands
  record,    \* record[i]: status of the Redis key of request i, or "absent"
  job,       \* job[i]: River's state of the job of request i
  attempt,   \* attempt[i]: attempts of that job so far
  overdue,   \* overdue[i]: has request i waited longer than maxWait?
  handler,   \* handler[i]: the next step of the live HandleSeckill of i
  err,       \* err[i]: the error that handler holds
  sagas,     \* sagas DTM has accepted: gid and the request it buys for
  messages   \* messages[i]: messaging jobs inserted for request i

workVars == <<job, attempt, handler, err>>
vars     == <<call, record, job, attempt, overdue, handler, err, sagas, messages>>

-----------------------------------------------------------------------------
(* Types. *)

Status == {"WAITING", "PROCESSING", "SUCCESS", "SOLD_OUT",
           "BALANCE_INSUFFICIENT", "DEGRADED", "FAILED"}

CallState == {"idle", "create", "insert", "markFailed",
              "queued", "failure", "crashed"}

JobState == {"none", "available", "running", "completed", "discarded"}

HandlerState == {"idle", "checkAge", "degrade", "processing", "submit",
                 "message", "success", "fail", "returned"}

Errors == SubmitErrors \cup {"nil", "CacheError"}

\* Mutant of Gid: a gid per attempt.
GidPerAttempt(i, n) == <<i, n>>

\* The gid names the request alone: the attempt that submits does not enter.
Gid(i, n) == i

TypeOK ==
  /\ call     \in [Calls -> CallState]
  /\ record   \in [RequestIDs -> Status \cup {"absent"}]
  /\ job      \in [RequestIDs -> JobState]
  /\ attempt  \in [RequestIDs -> 0..MaxAttempts]
  /\ overdue  \in [RequestIDs -> BOOLEAN]
  /\ handler  \in [RequestIDs -> HandlerState]
  /\ err      \in [RequestIDs -> Errors]
  /\ sagas    \subseteq [gid : RequestIDs, request : RequestIDs]
  /\ messages \in [RequestIDs -> 0..MaxAttempts]

Init ==
  /\ call     = [c \in Calls |-> "idle"]
  /\ record   = [i \in RequestIDs |-> "absent"]
  /\ job      = [i \in RequestIDs |-> "none"]
  /\ attempt  = [i \in RequestIDs |-> 0]
  /\ overdue  = [i \in RequestIDs |-> FALSE]
  /\ handler  = [i \in RequestIDs |-> "idle"]
  /\ err      = [i \in RequestIDs |-> "nil"]
  /\ sagas    = {}
  /\ messages = [i \in RequestIDs |-> 0]

-----------------------------------------------------------------------------
(* The two Redis writes. ok says whether the caller sees a nil error.      *)

\* Mutant of SetNX: a plain SET.
PlainSet(i, ok) ==
  \/ record' = [record EXCEPT ![i] = "WAITING"] /\ ok \in BOOLEAN
  \/ ok = FALSE /\ UNCHANGED record

\* SETNX of a new record; it fails when the key exists, when Redis is not
\* reached, or when the reply is lost after the key was set.
SetNX(i, ok) ==
  \/ /\ record[i] = "absent"
     /\ record' = [record EXCEPT ![i] = "WAITING"]
     /\ ok \in BOOLEAN
  \/ ok = FALSE /\ UNCHANGED record

\* The script behind UpdateSeckillRequest: it overwrites the status of an
\* existing record, whatever that status is, and fails on a missing one.
Update(i, status, ok) ==
  \/ /\ record[i] # "absent"
     /\ record' = [record EXCEPT ![i] = status]
     /\ ok \in BOOLEAN
  \/ ok = FALSE /\ UNCHANGED record

-----------------------------------------------------------------------------
(* The Seckill RPC: EnqueueSeckill.                                        *)

InFlight(c) == call[c] \in {"create", "insert", "markFailed"}

\* The RPC deadline (3s) is far shorter than the hour that a record outlives
\* maxWait, so no call on i is still in flight when the record of i expires.
RpcOver(i) == \A c \in Calls : MintedID[c] = i => ~InFlight(c)

\* The id carries the current time: an id that is overdue is never formed again.
BeginSeckill(c) ==
  /\ call[c] = "idle"
  /\ ~overdue[MintedID[c]]
  /\ call' = [call EXCEPT ![c] = "create"]
  /\ UNCHANGED <<record, overdue, sagas, messages, workVars>>

CreateSeckillRequest(c) ==
  /\ call[c] = "create"
  /\ \E ok \in BOOLEAN :
       /\ SetNX(MintedID[c], ok)
       /\ call' = [call EXCEPT ![c] = IF ok THEN "insert" ELSE "failure"]
  /\ UNCHANGED <<overdue, sagas, messages, workVars>>

\* Mutant of InsertSeckillJob: the insert's error is dropped.
InsertSeckillJobUnchecked(c) ==
  /\ call[c] = "insert"
  /\ \E applied \in BOOLEAN :
       job' = IF applied THEN [job EXCEPT ![MintedID[c]] = "available"] ELSE job
  /\ call' = [call EXCEPT ![c] = "queued"]
  /\ UNCHANGED <<record, attempt, overdue, handler, err, sagas, messages>>

\* Jobs are unique by request id: a second insert adds nothing and succeeds.
\* (River forgets a discarded job, days after any RPC on its id is over.)
InsertSeckillJob(c) ==
  LET i == MintedID[c] IN
  /\ call[c] = "insert"
  /\ \E applied, ok \in BOOLEAN :
       /\ ok => applied
       /\ job' = IF applied /\ job[i] = "none"
                   THEN [job EXCEPT ![i] = "available"] ELSE job
       /\ call' = [call EXCEPT ![c] = IF ok THEN "queued" ELSE "markFailed"]
  /\ UNCHANGED <<record, attempt, overdue, handler, err, sagas, messages>>

\* The result of this update is dropped and the insert's error returned.
MarkEnqueueFailed(c) ==
  /\ call[c] = "markFailed"
  /\ \E ok \in BOOLEAN : Update(MintedID[c], "FAILED", ok)
  /\ call' = [call EXCEPT ![c] = "failure"]
  /\ UNCHANGED <<overdue, sagas, messages, workVars>>

CrashCall(c) ==
  /\ InFlight(c)
  /\ call' = [call EXCEPT ![c] = "crashed"]
  /\ UNCHANGED <<record, overdue, sagas, messages, workVars>>

-----------------------------------------------------------------------------
(* The worker: HandleSeckill.                                              *)

Goto(i, step) == handler' = [handler EXCEPT ![i] = step]

Return(i, e) ==
  /\ Goto(i, "returned")
  /\ err' = [err EXCEPT ![i] = e]

\* waited > maxWait, read once at the start of the attempt.
CheckAge(i) ==
  /\ handler[i] = "checkAge"
  /\ Goto(i, IF overdue[i] THEN "degrade" ELSE "processing")
  /\ UNCHANGED <<call, record, job, attempt, overdue, err, sagas, messages>>

\* Mutant of MarkDegraded: the early return is missing.
MarkDegradedAndGoOn(i) ==
  /\ handler[i] = "degrade"
  /\ \E ok \in BOOLEAN : Update(i, "DEGRADED", ok)
  /\ Goto(i, "processing")
  /\ UNCHANGED <<call, job, attempt, overdue, err, sagas, messages>>

MarkDegraded(i) ==
  /\ handler[i] = "degrade"
  /\ \E ok \in BOOLEAN :
       /\ Update(i, "DEGRADED", ok)
       /\ Return(i, IF ok THEN "nil" ELSE "CacheError")
  /\ UNCHANGED <<call, job, attempt, overdue, sagas, messages>>

\* Mutants of MarkProcessing: the update's error is only logged; the update is
\* repeated in place until it succeeds.
MarkProcessingUnchecked(i) ==
  /\ handler[i] = "processing"
  /\ \E ok \in BOOLEAN : Update(i, "PROCESSING", ok)
  /\ Goto(i, "submit")
  /\ UNCHANGED <<call, job, attempt, overdue, err, sagas, messages>>

MarkProcessingInALoop(i) ==
  /\ handler[i] = "processing"
  /\ \E ok \in BOOLEAN :
       /\ Update(i, "PROCESSING", ok)
       /\ Goto(i, IF ok THEN "submit" ELSE "processing")
  /\ UNCHANGED <<call, job, attempt, overdue, err, sagas, messages>>

MarkProcessing(i) ==
  /\ handler[i] = "processing"
  /\ \E ok \in BOOLEAN :
       /\ Update(i, "PROCESSING", ok)
       /\ IF ok THEN Goto(i, "submit") /\ UNCHANGED err
                ELSE Return(i, "CacheError")
  /\ UNCHANGED <<call, job, attempt, overdue, sagas, messages>>

\* Mutant of ExecuteSeckillSaga: the submit's error is only logged.
ExecuteSeckillSagaUnchecked(i) ==
  /\ handler[i] = "submit"
  /\ \/ sagas' = sagas \cup {[gid |-> Gid(i, attempt[i]), request |-> i]}
     \/ UNCHANGED sagas
  /\ Goto(i, "message")
  /\ UNCHANGED <<call, record, job, attempt, overdue, err, messages>>

\* DTM keeps one saga per gid, whatever the number of submissions; an error
\* says nothing about whether the saga was accepted.
ExecuteSeckillSaga(i) ==
  /\ handler[i] = "submit"
  /\ \E accepted \in BOOLEAN, e \in SubmitErrors \cup {"nil"} :
       /\ e = "nil" => accepted
       /\ sagas' = IF accepted
                     THEN sagas \cup {[gid |-> Gid(i, attempt[i]), request |-> i]}
                     ELSE sagas
       /\ err' = [err EXCEPT ![i] = e]
       /\ Goto(i, IF e = "nil" THEN "message" ELSE "fail")
  /\ UNCHANGED <<call, record, job, attempt, overdue, messages>>

\* Mutant of InsertMessagingJob: the insert is repeated after a lost reply.
InsertMessagingJobTwice(i) ==
  /\ handler[i] = "message"
  /\ messages' = [messages EXCEPT ![i] = @ + 2]
  /\ Goto(i, "success")
  /\ UNCHANGED <<call, record, job, attempt, overdue, err, sagas>>

\* An error of the insert is only logged.
InsertMessagingJob(i) ==
  /\ handler[i] = "message"
  /\ \/ messages' = [messages EXCEPT ![i] = @ + 1]
     \/ UNCHANGED messages
  /\ Goto(i, "success")
  /\ UNCHANGED <<call, record, job, attempt, overdue, err, sagas>>

\* Mutant of MarkSuccess: the age is looked at once more, after the purchase.
MarkSuccessByAge(i) ==
  /\ handler[i] = "success"
  /\ \E ok \in BOOLEAN :
       /\ Update(i, IF overdue[i] THEN "DEGRADED" ELSE "SUCCESS", ok)
       /\ Return(i, IF ok THEN "nil" ELSE "CacheError")
  /\ UNCHANGED <<call, job, attempt, overdue, sagas, messages>>

MarkSuccess(i) ==
  /\ handler[i] = "success"
  /\ \E ok \in BOOLEAN :
       /\ Update(i, "SUCCESS", ok)
       /\ Return(i, IF ok THEN "nil" ELSE "CacheError")
  /\ UNCHANGED <<call, job, attempt, overdue, sagas, messages>>

FailureStatus(e) ==
  CASE e = "SoldOut"    -> "SOLD_OUT"
    [] e = "LowBalance" -> "BALANCE_INSUFFICIENT"
    [] OTHER            -> "FAILED"

\* The update's own error is only logged: the job ends either way.
MarkFailure(i) ==
  /\ handler[i] = "fail"
  /\ \E ok \in BOOLEAN : Update(i, FailureStatus(err[i]), ok)
  /\ Return(i, "nil")
  /\ UNCHANGED <<call, job, attempt, overdue, sagas, messages>>

HandleSeckill(i) ==
  \/ CheckAge(i) \/ MarkDegraded(i) \/ MarkProcessing(i)
  \/ ExecuteSeckillSaga(i) \/ InsertMessagingJob(i)
  \/ MarkSuccess(i) \/ MarkFailure(i)

-----------------------------------------------------------------------------
(* River.                                                                  *)

Retry(i) == IF attempt[i] < MaxAttempts THEN "available" ELSE "discarded"

Work(i) ==
  /\ job[i] = "available"
  /\ Cardinality({j \in RequestIDs : handler[j] # "idle"}) < QueueWorkers
  /\ job' = [job EXCEPT ![i] = "running"]
  /\ attempt' = [attempt EXCEPT ![i] = @ + 1]
  /\ Goto(i, "checkAge")
  /\ UNCHANGED <<call, record, overdue, err, sagas, messages>>

FinishJob(i) ==
  /\ handler[i] = "returned"
  /\ job' = [job EXCEPT ![i] = IF err[i] = "nil" THEN "completed" ELSE Retry(i)]
  /\ Goto(i, "idle")
  /\ UNCHANGED <<call, record, attempt, overdue, err, sagas, messages>>

\* The process stops, or is stopped, at any point of an attempt.
CrashHandler(i) ==
  /\ handler[i] # "idle"
  /\ Goto(i, "idle")
  /\ UNCHANGED <<call, record, job, attempt, overdue, err, sagas, messages>>

\* River cancels an attempt after a minute and rescues its job after an hour, so
\* the handler is gone by then (unless Submit, which has no deadline, hangs on).
RescueJob(i) ==
  /\ job[i] = "running" /\ handler[i] = "idle"
  /\ job' = [job EXCEPT ![i] = Retry(i)]
  /\ UNCHANGED <<call, record, attempt, overdue, handler, err, sagas, messages>>

-----------------------------------------------------------------------------
(* Time and Redis.                                                         *)

\* maxWait elapses; it is measured from EnqueuedAt, so some call on i has
\* already created the record, or tried to.
MaxWaitElapses(i) ==
  /\ ~overdue[i]
  /\ \E c \in Calls : MintedID[c] = i /\ call[c] \notin {"idle", "create"}
  /\ overdue' = [overdue EXCEPT ![i] = TRUE]
  /\ UNCHANGED <<call, record, sagas, messages, workVars>>

\* The record's TTL is maxWait plus an hour.
RecordExpires(i) ==
  /\ record[i] # "absent"
  /\ overdue[i] /\ RpcOver(i)
  /\ record' = [record EXCEPT ![i] = "absent"]
  /\ UNCHANGED <<call, overdue, sagas, messages, workVars>>

RedisRestart ==
  /\ RedisVolatile
  /\ record' = [i \in RequestIDs |-> "absent"]
  /\ UNCHANGED <<call, overdue, sagas, messages, workVars>>

-----------------------------------------------------------------------------
Rpc(c) ==
  \/ BeginSeckill(c) \/ CreateSeckillRequest(c) \/ InsertSeckillJob(c)
  \/ MarkEnqueueFailed(c) \/ CrashCall(c)

River(i) == Work(i) \/ FinishJob(i) \/ CrashHandler(i) \/ RescueJob(i)

Environment(i) == MaxWaitElapses(i) \/ RecordExpires(i)

Next ==
  \/ \E c \in Calls : Rpc(c)
  \/ \E i \in RequestIDs : HandleSeckill(i) \/ River(i) \/ Environment(i)
  \/ RedisRestart

Spec == Init /\ [][Next]_vars

\* River picks jobs oldest first, so a job that is available again and again
\* is worked; a live handler runs on and a stuck job is rescued.
Fairness ==
  \A i \in RequestIDs :
    /\ SF_vars(Work(i))
    /\ WF_vars(HandleSeckill(i))
    /\ WF_vars(FinishJob(i))
    /\ WF_vars(RescueJob(i))

FairSpec == Spec /\ Fairness

-----------------------------------------------------------------------------
(* What a client sees.                                                     *)

\* The SeckillStatus enum of the API.
MapSeckillStatus(status) ==
  CASE status = "WAITING"              -> 0
    [] status = "PROCESSING"           -> 1
    [] status = "SUCCESS"              -> 2
    [] status = "SOLD_OUT"             -> 3
    [] status = "BALANCE_INSUFFICIENT" -> 6
    [] status = "DEGRADED"             -> 4
    [] OTHER                           -> 5

\* GetSeckillStatus: a missing record is REQUEST_NOT_FOUND, written -1 here.
GetSeckillStatus(rec) == IF rec = "absent" THEN -1 ELSE MapSeckillStatus(rec)

-----------------------------------------------------------------------------
(* Properties.                                                             *)

Backed(i) == \E s \in sagas : s.request = i

\* A request reads SUCCESS, and its messaging job exists, only if DTM holds a
\* saga for it (HandleSeckill writes both after Submit returned nil).
SuccessIsBacked ==
  \A i \in RequestIDs : record[i] = "SUCCESS" \/ messages[i] > 0 => Backed(i)

\* However often River repeats a job, and whatever Submit reported, a request
\* buys at most once: DTM never holds two sagas for it.
OnePurchasePerRequest ==
  \A s, t \in sagas : s.request = t.request => s = t

\* A client that was told QUEUED has a job, through every later crash, retry
\* and loss of Redis.
QueuedIsNeverLost ==
  \A c \in Calls : call[c] = "queued" => job[MintedID[c]] # "none"

\* Two calls that form the same id are not both told QUEUED: SETNX admits one
\* of them, as long as Redis keeps its keys.
OneQueuedCallPerRequest ==
  \A c, d \in Calls :
    call[c] = "queued" /\ call[d] = "queued" /\ MintedID[c] = MintedID[d] => c = d

\* A job that River has completed does not leave its request WAITING.
CompletedIsNotWaiting ==
  \A i \in RequestIDs : job[i] = "completed" => record[i] # "WAITING"

\* A request once reported DEGRADED is not taken up again, by no replica whose clock
\* agrees: only an enqueue that failed late may still overwrite it, with FAILED.
DegradedIsNotProcessed ==
  [][\A i \in RequestIDs : record[i] = "DEGRADED"
       => record'[i] \in {"DEGRADED", "FAILED", "absent"}]_vars

\* No step takes an existing request back to WAITING, a second enqueue of the
\* same id included.
NeverBackToWaiting ==
  [][\A i \in RequestIDs : record[i] \notin {"absent", "WAITING"}
       => record'[i] # "WAITING"]_vars

\* Every request told QUEUED has its job run to an end (completed, or discarded
\* after MaxAttempts), whatever crashes and lost replies it meets.
QueuedJobFinishes ==
  \A c \in Calls :
    call[c] = "queued" ~> job[MintedID[c]] \in {"completed", "discarded"}

\* "EnqueueSeckill atomically creates a seckill request and inserts the job"
\* (biz/product.go): once the call is over, a WAITING request has a job.
EnqueueIsAtomic ==
  \A i \in RequestIDs : RpcOver(i) /\ record[i] = "WAITING" => job[i] # "none"

\* The load test (deploy/k6/seckill-degrade.js) polls a QUEUED request until its
\* status is neither WAITING nor PROCESSING and counts that status as the outcome:
\* such a status does not change while the record exists.
Queued(i) == \E c \in Calls : MintedID[c] = i /\ call[c] = "queued"

FinalStatusIsFinal ==
  [][\A i \in RequestIDs :
       LET now == GetSeckillStatus(record[i])
           new == GetSeckillStatus(record'[i])
       IN  Queued(i) /\ now \notin {-1, 0, 1} /\ new # -1 => new = now]_vars

-----------------------------------------------------------------------------
(* The requests as a client of the shop sees them: River's job is the      *)
(* ticket, and a purchase is ordered when DTM holds a saga for it.         *)

Ticket(i) ==
  CASE job[i] = "none"                     -> "none"
    [] job[i] \in {"available", "running"} -> "open"
    [] OTHER                               -> "closed"

Told == {c \in Calls : call[c] = "queued"}

Tickets == [i \in RequestIDs |-> Ticket(i)]

Late == {i \in RequestIDs : overdue[i]}

Ordered == {i \in RequestIDs : Backed(i)}

Shop == INSTANCE Storefront
  WITH Clients <- Calls, Requests <- RequestIDs, Asks <- MintedID,
       Forgetful <- RedisVolatile, queued <- Told, ticket <- Tickets,
       late <- Late, bought <- Ordered, status <- record

\* Through lost replies, crashes and attempts the requests do only what the shop
\* promises: while a request's job is not at its end its status goes on, from a
\* purchase to SUCCESS, from its age to DEGRADED; then nothing but a call that was
\* not told QUEUED changes it; and without the loss of Redis a record is created
\* before its job, and a job before one caller at most is told QUEUED.
PromiseKept == Shop!Spec

=============================================================================
