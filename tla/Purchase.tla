------------------------------ MODULE Purchase ------------------------------
(***************************************************************************)
(* Requests and sagas together. HandleSeckill submits a saga whose gid is  *)
(* made of the request id; from then on DTM carries it out, whatever       *)
(* becomes of the job. Submit does not wait for the saga: its errors are   *)
(* those of the call itself, never SOLD_OUT or LOW_BALANCE, and the status *)
(* SUCCESS says that DTM has taken the saga.                               *)
(*                                                                         *)
(* The two parts share nothing but that step; everything else they do in   *)
(* any interleaving. The sagas of Rivals are purchases in the same sale    *)
(* whose requests are not followed: they start at any time.                *)
(***************************************************************************)
EXTENDS Integers, FiniteSets

CONSTANTS
  Calls, RequestIDs, MintedID, MaxAttempts, QueueWorkers, SubmitErrors,
  RedisVolatile,                \* see SeckillRequest
  Rivals,                       \* sagas of requests that are not followed
  Users, Buyer, Amount, InitialStock, InitialUsers, InitialBalance,
  RollbackCodes, MaxTimeouts    \* see SeckillSaga

VARIABLES
  call, record, job, attempt, overdue, handler, err, sagas, messages,
  stock, registered, balance, at, stray, timeouts, done

reqVars  == <<call, record, job, attempt, overdue, handler, err, sagas, messages>>
sagaVars == <<stock, registered, balance, at, stray, timeouts, done>>
vars     == <<reqVars, sagaVars>>

Req  == INSTANCE SeckillRequest
Saga == INSTANCE SeckillSaga WITH Sagas <- RequestIDs \cup Rivals

ASSUME PurchaseAssumption ==
  /\ Req!RequestAssumption
  /\ Saga!SagaAssumption
  /\ Rivals \cap RequestIDs = {}

Init == Req!Init /\ Saga!Init

-----------------------------------------------------------------------------
\* Mutant of Submit: a gid submitted again starts its saga again.
SubmitStartsOver(i) ==
  /\ Req!ExecuteSeckillSaga(i)
  /\ \/ at' = [at EXCEPT ![i] = "DeductBalance"]
     \/ sagas' = sagas /\ UNCHANGED at
  /\ UNCHANGED <<stock, registered, balance, stray, timeouts, done>>

\* The saga starts with the submission that DTM accepts first.
Submit(i) ==
  /\ Req!ExecuteSeckillSaga(i)
  /\ \/ sagas' # sagas /\ Saga!ExecuteSeckillSaga(i)
     \/ sagas' = sagas /\ UNCHANGED sagaVars

\* What HandleSeckill does besides.
Handle(i) ==
  \/ Req!CheckAge(i) \/ Req!MarkDegraded(i) \/ Req!MarkProcessing(i)
  \/ Req!InsertMessagingJob(i) \/ Req!MarkSuccess(i) \/ Req!MarkFailure(i)

RequestStep ==
  /\ \/ \E c \in Calls : Req!Rpc(c)
     \/ \E i \in RequestIDs : Handle(i) \/ Req!River(i) \/ Req!Environment(i)
     \/ Req!RedisRestart
  /\ UNCHANGED sagaVars

SagaStep ==
  /\ \/ \E s \in RequestIDs \cup Rivals : Saga!Answer(s) \/ Saga!TimeOut(s)
     \/ \E s \in RequestIDs \cup Rivals, op \in Saga!Ops : Saga!LateExecution(s, op)
     \/ \E s \in Rivals : Saga!ExecuteSeckillSaga(s)
     \/ \E u \in Users : Saga!Register(u)
  /\ UNCHANGED reqVars

Next ==
  \/ RequestStep
  \/ SagaStep
  \/ \E i \in RequestIDs : Submit(i)

Spec == Init /\ [][Next]_vars

\* What River and DTM each go on with, as in the two parts.
Fairness == Req!Fairness /\ Saga!Fairness

FairSpec == Spec /\ Fairness

-----------------------------------------------------------------------------
(* Properties.                                                             *)

\* The composition does what both of its parts are specified to do, and as long
\* as no call of DTM is lost it is a sale without repeats: however often River
\* repeats a job and submits its saga, every purchase that DTM has accepted is
\* paid once and handed over once, unless money or goods run out.
SoldAsPromised == Saga!Sale!FairSpec

\* A request that reads SUCCESS is sold in the end, unless the buyer or the shop
\* has not got what it takes: the client is told before anything is deducted.
Short(i) ==
  \/ Buyer[i] \notin registered \/ balance[Buyer[i]] < Amount
  \/ stock < Amount

SuccessIsSold ==
  \A i \in RequestIDs :
    record[i] = "SUCCESS" ~> done[i]["DeductStock"] > 0 \/ Short(i)

\* A request whose first attempt reported DEGRADED buys nothing. (A later attempt
\* may report it of a request that an earlier one has submitted.)
DegradedAtFirst ==
  \A i \in RequestIDs :
    record[i] = "DEGRADED" /\ attempt[i] = 1 => at[i] = "none"

\* A request that reads SUCCESS, or whose messaging job says what was deducted, is
\* under way or bought, with nothing given back; and nothing is deducted twice for
\* it, however often River repeats the job, unless one of DTM's calls was lost.
SuccessIsKept ==
  \A i \in RequestIDs : record[i] = "SUCCESS" \/ messages[i] > 0 =>
    /\ at[i] \in {"DeductBalance", "DeductStock", "succeeded"}
    /\ done[i]["RestoreBalance"] = 0 /\ done[i]["RestoreStock"] = 0
    /\ timeouts[i] = 0 =>
         done[i]["DeductBalance"] <= 1 /\ done[i]["DeductStock"] <= 1

\* What the requests promise by themselves they promise in the composition, however
\* the sagas go: they do what the shop promises, so that one call per id is told
\* QUEUED,
PromiseKept == Req!PromiseKept

\* a completed job has taken its request out of WAITING,
CompletedIsNotWaiting == Req!CompletedIsNotWaiting

\* and a queued job ends.
QueuedJobFinishes == Req!QueuedJobFinishes

=============================================================================
