--------------------------- MODULE Purchase_proofs ---------------------------
(* Theorems about Purchase, for any requests, rivals, users and bounds.    *)
(* What is proved of the parts is proved of the composition: ReqP and      *)
(* SaleP are the parts with their theorems.                                *)
EXTENDS Purchase, TLAPS

ReqP  == INSTANCE SeckillRequestStable_proofs
SaleP == INSTANCE SeckillSagaSale_proofs WITH Sagas <- RequestIDs \cup Rivals

\* Every step is one of the requests, or leaves them alone.
LEMMA RequestStepOf == [Next]_vars => [Req!Next]_(Req!vars)
<1> SUFFICES ASSUME [Next]_vars PROVE [Req!Next]_(Req!vars)
  OBVIOUS
<1>1. CASE RequestStep
  BY <1>1 DEF RequestStep, Handle, Req!Next, Req!HandleSeckill
<1>2. CASE SagaStep
  BY <1>2 DEF SagaStep, reqVars, Req!vars
<1>3. ASSUME NEW i \in RequestIDs, Submit(i) PROVE Req!Next
  BY <1>3 DEF Submit, Req!Next, Req!HandleSeckill
<1>4. CASE UNCHANGED vars
  BY <1>4 DEF vars, reqVars, Req!vars
<1> QED
  BY <1>1, <1>2, <1>3, <1>4 DEF Next

\* The composition does only what SeckillRequest allows.
THEOREM RequestPart == Spec => Req!Spec
<1>1. Init => Req!Init
  BY DEF Init
<1> QED
  BY <1>1, RequestStepOf, PTL DEF Spec, Req!Spec

\* The composition does only what SeckillSaga allows.
THEOREM SagaPart == Spec => Saga!Spec
<1>1. Init => Saga!Init
  BY DEF Init
<1>2. [Next]_vars => [Saga!Next]_(Saga!vars)
  <2> SUFFICES ASSUME [Next]_vars PROVE [Saga!Next]_(Saga!vars)
    OBVIOUS
  <2>1. CASE RequestStep
    BY <2>1 DEF RequestStep, sagaVars, Saga!vars
  <2>2. CASE SagaStep
    BY <2>2 DEF SagaStep, Saga!Next
  <2>3. ASSUME NEW i \in RequestIDs, Submit(i) PROVE [Saga!Next]_(Saga!vars)
    BY <2>3 DEF Submit, Saga!Next, sagaVars, Saga!vars
  <2>4. CASE UNCHANGED vars
    BY <2>4 DEF vars, sagaVars, Saga!vars
  <2> QED
    BY <2>1, <2>2, <2>3, <2>4 DEF Next
<1> QED
  BY <1>1, <1>2, PTL DEF Spec, Saga!Spec

-----------------------------------------------------------------------------
(* The parts and the parts with their theorems are the same.               *)

\* The sagas of SaleP are those of the composition.
LEMMA SameSaga == Saga!Spec => SaleP!Spec
  BY PTL DEF
    Saga!Spec, Saga!Init, Saga!Next, Saga!vars, Saga!tables, Saga!Ops,
    Saga!Codes, Saga!ExecuteSeckillSaga, Saga!Answer, Saga!TimeOut,
    Saga!LateExecution, Saga!Register, Saga!Execute, Saga!NextStep, Saga!After,
    Saga!Compensation, Saga!DeductBalance, Saga!DeductStock,
    Saga!RestoreStock, Saga!RestoreBalance, Saga!ChangeStock, Saga!ChangeBalance,
    Saga!LOW_BALANCE, Saga!USER_NOT_FOUND, Saga!SOLD_OUT, Saga!Count,
    SaleP!Spec, SaleP!Init, SaleP!Next, SaleP!vars, SaleP!tables, SaleP!Ops,
    SaleP!Codes, SaleP!ExecuteSeckillSaga, SaleP!Answer, SaleP!TimeOut,
    SaleP!LateExecution, SaleP!Register, SaleP!Execute, SaleP!NextStep, SaleP!After,
    SaleP!Compensation, SaleP!DeductBalance, SaleP!DeductStock,
    SaleP!RestoreStock, SaleP!RestoreBalance, SaleP!ChangeStock, SaleP!ChangeBalance,
    SaleP!LOW_BALANCE, SaleP!USER_NOT_FOUND, SaleP!SOLD_OUT, SaleP!Count

\* The requests of ReqP are those of the composition.
LEMMA SameRequestStep == [Req!Next]_(Req!vars) <=> [ReqP!Next]_(ReqP!vars)
  BY DEF
    Req!Next, Req!vars, Req!workVars, Req!Gid, Req!SetNX,
    Req!Update, Req!InFlight, Req!RpcOver, Req!BeginSeckill,
    Req!CreateSeckillRequest, Req!InsertSeckillJob, Req!MarkEnqueueFailed,
    Req!CrashCall, Req!Goto, Req!Return, Req!CheckAge, Req!MarkDegraded,
    Req!MarkProcessing, Req!ExecuteSeckillSaga, Req!InsertMessagingJob,
    Req!MarkSuccess, Req!FailureStatus, Req!MarkFailure, Req!HandleSeckill,
    Req!Retry, Req!Work, Req!FinishJob, Req!CrashHandler, Req!RescueJob,
    Req!MaxWaitElapses, Req!RecordExpires, Req!RedisRestart, Req!Rpc, Req!River,
    Req!Environment, Req!Cardinality,
    ReqP!Next, ReqP!vars, ReqP!workVars, ReqP!Gid, ReqP!SetNX,
    ReqP!Update, ReqP!InFlight, ReqP!RpcOver, ReqP!BeginSeckill,
    ReqP!CreateSeckillRequest, ReqP!InsertSeckillJob, ReqP!MarkEnqueueFailed,
    ReqP!CrashCall, ReqP!Goto, ReqP!Return, ReqP!CheckAge, ReqP!MarkDegraded,
    ReqP!MarkProcessing, ReqP!ExecuteSeckillSaga, ReqP!InsertMessagingJob,
    ReqP!MarkSuccess, ReqP!FailureStatus, ReqP!MarkFailure, ReqP!HandleSeckill,
    ReqP!Retry, ReqP!Work, ReqP!FinishJob, ReqP!CrashHandler, ReqP!RescueJob,
    ReqP!MaxWaitElapses, ReqP!RecordExpires, ReqP!RedisRestart, ReqP!Rpc, ReqP!River,
    ReqP!Environment, ReqP!Cardinality

\* So do their specifications.
LEMMA SameRequest == Req!Spec => ReqP!Spec
<1>1. Req!Init => ReqP!Init
  BY DEF Req!Init, ReqP!Init
<1> QED
  BY <1>1, SameRequestStep, PTL DEF Req!Spec, ReqP!Spec

\* So are their assumptions.
LEMMA Assumptions == ReqP!RequestAssumption /\ SaleP!SagaAssumption
  BY PurchaseAssumption
  DEF PurchaseAssumption, Req!RequestAssumption, ReqP!RequestAssumption,
      Saga!SagaAssumption, SaleP!SagaAssumption, Saga!IsFiniteSet, SaleP!IsFiniteSet

-----------------------------------------------------------------------------
(* What the parts promise.                                                 *)

\* The requests do what the shop promises, whatever becomes of the purchases.
THEOREM Promised == Spec => PromiseKept
<1>1. ReqP!Spec => ReqP!PromiseKept
  BY Assumptions, ReqP!KeepsPromise
<1> QED
  BY <1>1, RequestPart, SameRequest, PTL
  DEF PromiseKept,
      Req!PromiseKept, Req!Told, Req!Tickets, Req!Ticket, Req!Late, Req!Ordered,
      Req!Backed, Req!Shop!Spec, Req!Shop!Init, Req!Shop!Next, Req!Shop!vars,
      Req!Shop!Issue, Req!Shop!Admit, Req!Shop!Close, Req!Shop!Age, Req!Shop!Buy,
      Req!Shop!Tell, Req!Shop!Post, Req!Shop!InHand, Req!Shop!Process,
      Req!Shop!Succeed, Req!Shop!Refuse, Req!Shop!Degrade, Req!Shop!Withdraw,
      Req!Shop!Forget,
      ReqP!PromiseKept, ReqP!Told, ReqP!Tickets, ReqP!Ticket, ReqP!Late, ReqP!Ordered,
      ReqP!Backed, ReqP!Shop!Spec, ReqP!Shop!Init, ReqP!Shop!Next, ReqP!Shop!vars,
      ReqP!Shop!Issue, ReqP!Shop!Admit, ReqP!Shop!Close, ReqP!Shop!Age, ReqP!Shop!Buy,
      ReqP!Shop!Tell, ReqP!Shop!Post, ReqP!Shop!InHand, ReqP!Shop!Process,
      ReqP!Shop!Succeed, ReqP!Shop!Refuse, ReqP!Shop!Degrade, ReqP!Shop!Withdraw,
      ReqP!Shop!Forget

\* If Redis keeps its keys, a completed job leaves no request WAITING.
THEOREM CompletedNotWaiting ==
  ASSUME ~RedisVolatile PROVE Spec => []CompletedIsNotWaiting
<1>1. ReqP!Spec => []ReqP!CompletedIsNotWaiting
  BY Assumptions, ReqP!CompletedNotWaiting
<1> QED
  BY <1>1, RequestPart, SameRequest, PTL
  DEF CompletedIsNotWaiting, Req!CompletedIsNotWaiting, ReqP!CompletedIsNotWaiting

\* As the services answer, the purchases of all requests, however often their jobs
\* are repeated, and those of all rivals are a sale.
THEOREM Sold ==
  ASSUME RollbackCodes \subseteq {409} PROVE Spec => Saga!SaleAsPromised
<1>1. SaleP!Spec => SaleP!SaleAsPromised
  BY Assumptions, SaleP!Implements
<1> QED
  BY <1>1, SagaPart, SameSaga, PTL
  DEF Saga!SaleAsPromised, Saga!Stages, Saga!Stage, Saga!Sale!Spec, Saga!Sale!Init,
      Saga!Sale!Next, Saga!Sale!vars, Saga!Sale!Accept, Saga!Sale!Pay,
      Saga!Sale!Take, Saga!Sale!PayAgain, Saga!Sale!TakeAgain, Saga!Sale!Join,
      Saga!Sale!Move, Saga!Sale!Charge, Saga!Sale!Deliver,
      SaleP!SaleAsPromised, SaleP!Stages, SaleP!Stage, SaleP!Sale!Spec,
      SaleP!Sale!Init, SaleP!Sale!Next, SaleP!Sale!vars, SaleP!Sale!Accept,
      SaleP!Sale!Pay, SaleP!Sale!Take, SaleP!Sale!PayAgain, SaleP!Sale!TakeAgain,
      SaleP!Sale!Join, SaleP!Sale!Move, SaleP!Sale!Charge, SaleP!Sale!Deliver

-----------------------------------------------------------------------------
(* The first attempt.                                                      *)

\* Where a handler goes within an attempt.
Moves ==
  {<<"checkAge", "degrade">>, <<"checkAge", "processing">>,
   <<"degrade", "returned">>, <<"processing", "submit">>,
   <<"processing", "returned">>, <<"submit", "message">>, <<"submit", "fail">>,
   <<"message", "success">>, <<"success", "returned">>, <<"fail", "returned">>}

Moved(i) ==
  \/ handler'[i] = handler[i] /\ attempt'[i] = attempt[i]
  \/ handler'[i] = "idle" /\ attempt'[i] = attempt[i]
  \/ handler'[i] = "checkAge" /\ attempt'[i] = attempt[i] + 1
  \/ <<handler[i], handler'[i]>> \in Moves /\ attempt'[i] = attempt[i]

\* Every step of the requests moves a handler along HandleSeckill, ends it, or
\* starts a new attempt.
LEMMA HandlerStep ==
  ASSUME ReqP!TypeOK, [ReqP!Next]_(ReqP!vars), NEW j \in RequestIDs
  PROVE  Moved(j)
<1> USE DEF ReqP!TypeOK, Moved
<1>0. ASSUME UNCHANGED <<handler, attempt>> PROVE Moved(j)
  BY <1>0
<1>1. ASSUME NEW c \in Calls, ReqP!Rpc(c) PROVE Moved(j)
  BY <1>0, <1>1 DEF ReqP!Rpc, ReqP!BeginSeckill, ReqP!CreateSeckillRequest,
    ReqP!InsertSeckillJob, ReqP!MarkEnqueueFailed, ReqP!CrashCall, ReqP!workVars
<1>2. ASSUME NEW i \in RequestIDs, ReqP!HandleSeckill(i) PROVE Moved(j)
  <2>1. /\ attempt' = attempt
        /\ \E to \in ReqP!HandlerState :
             /\ handler' = [handler EXCEPT ![i] = to]
             /\ <<handler[i], to>> \in Moves
    <3> USE DEF ReqP!Goto, ReqP!Return, ReqP!HandlerState, Moves
    <3>1. CASE ReqP!CheckAge(i)
      BY <3>1 DEF ReqP!CheckAge
    <3>2. CASE ReqP!MarkDegraded(i)
      BY <3>2 DEF ReqP!MarkDegraded
    <3>3. CASE ReqP!MarkProcessing(i)
      BY <3>3 DEF ReqP!MarkProcessing
    <3>4. CASE ReqP!ExecuteSeckillSaga(i)
      BY <3>4 DEF ReqP!ExecuteSeckillSaga
    <3>5. CASE ReqP!InsertMessagingJob(i)
      BY <3>5 DEF ReqP!InsertMessagingJob
    <3>6. CASE ReqP!MarkSuccess(i)
      BY <3>6 DEF ReqP!MarkSuccess
    <3>7. CASE ReqP!MarkFailure(i)
      BY <3>7 DEF ReqP!MarkFailure
    <3> QED
      BY <1>2, <3>1, <3>2, <3>3, <3>4, <3>5, <3>6, <3>7 DEF ReqP!HandleSeckill
  <2> QED
    BY <2>1
<1>3. ASSUME NEW i \in RequestIDs, ReqP!River(i) PROVE Moved(j)
  BY <1>3 DEF ReqP!River, ReqP!Work, ReqP!FinishJob, ReqP!CrashHandler,
    ReqP!RescueJob, ReqP!Goto
<1>4. ASSUME NEW i \in RequestIDs, ReqP!Environment(i) PROVE Moved(j)
  BY <1>0, <1>4 DEF ReqP!Environment, ReqP!MaxWaitElapses, ReqP!RecordExpires,
    ReqP!workVars
<1>5. CASE ReqP!RedisRestart
  BY <1>0, <1>5 DEF ReqP!RedisRestart, ReqP!workVars
<1>6. CASE UNCHANGED ReqP!vars
  BY <1>0, <1>6 DEF ReqP!vars
<1> QED
  BY <1>1, <1>2, <1>3, <1>4, <1>5, <1>6 DEF ReqP!Next

\* A saga starts only with a submission of its request.
LEMMA AtStep ==
  ASSUME ReqP!TypeOK, SaleP!TypeOK, [Next]_vars, NEW j \in RequestIDs,
         at'[j] # at[j], at[j] = "none"
  PROVE  handler[j] = "submit" /\ handler'[j] \in {"message", "fail"}
<1> USE DEF ReqP!TypeOK, SaleP!TypeOK
<1>0. at' # at
  OBVIOUS
<1>1. CASE RequestStep
  BY <1>0, <1>1 DEF RequestStep, sagaVars
<1>2. CASE SagaStep
  <2>1. ASSUME NEW s \in RequestIDs \cup Rivals, Saga!Answer(s) PROVE FALSE
    BY <2>1 DEF Saga!Answer, Saga!Ops
  <2>2. ASSUME NEW s \in Rivals, Saga!ExecuteSeckillSaga(s) PROVE FALSE
    BY <2>2, PurchaseAssumption DEF PurchaseAssumption, Saga!ExecuteSeckillSaga
  <2> QED
    BY <1>0, <1>2, <2>1, <2>2
    DEF SagaStep, Saga!TimeOut, Saga!LateExecution, Saga!Register
<1>3. ASSUME NEW i \in RequestIDs, Submit(i)
      PROVE  handler[j] = "submit" /\ handler'[j] \in {"message", "fail"}
  <2>1. i = j
    BY <1>0, <1>3 DEF Submit, Saga!ExecuteSeckillSaga, sagaVars
  <2> QED
    BY <1>3, <2>1 DEF Submit, Req!ExecuteSeckillSaga, Req!Goto
<1>4. CASE UNCHANGED vars
  BY <1>0, <1>4 DEF vars, sagaVars
<1> QED
  BY <1>1, <1>2, <1>3, <1>4 DEF Next

\* DegradedAtFirst is not inductive: in its first attempt a request is reported
\* DEGRADED only from the step "degrade", which the submit does not follow.
FirstAttempt(i) ==
  /\ attempt[i] = 0 =>
       handler[i] = "idle" /\ record[i] # "DEGRADED" /\ at[i] = "none"
  /\ attempt[i] = 1 /\ handler[i] \in {"checkAge", "processing", "submit"} =>
       record[i] # "DEGRADED" /\ at[i] = "none"
  /\ attempt[i] = 1 /\ handler[i] = "degrade" => at[i] = "none"
  /\ attempt[i] = 1 /\ record[i] = "DEGRADED" =>
       handler[i] \in {"degrade", "returned", "idle"} /\ at[i] = "none"

FirstInv == \A i \in RequestIDs : FirstAttempt(i)

\* Every step keeps FirstInv.
LEMMA FirstStep ==
  ASSUME ReqP!TypeOK, SaleP!TypeOK, FirstInv, [Next]_vars
  PROVE  FirstInv'
<1>0. [ReqP!Next]_(ReqP!vars)
  BY RequestStepOf, SameRequestStep
<1> SUFFICES ASSUME NEW j \in RequestIDs PROVE FirstAttempt(j)'
  BY DEF FirstInv
<1>1. Moved(j)
  BY <1>0, HandlerStep
<1>2. record'[j] = "DEGRADED" => record[j] = "DEGRADED" \/ handler[j] = "degrade"
  BY <1>0, Assumptions, ReqP!RecordStep DEF ReqP!UpdatedBy
<1>3. at[j] = "none" =>
        \/ at'[j] = "none"
        \/ handler[j] = "submit" /\ handler'[j] \in {"message", "fail"}
  BY AtStep
<1>4. attempt[j] \in Nat
  BY Assumptions DEF ReqP!TypeOK, ReqP!RequestAssumption
<1>5. FirstAttempt(j)
  BY DEF FirstInv
<1> QED
  BY <1>1, <1>2, <1>3, <1>4, <1>5 DEF FirstAttempt, Moved, Moves

\* A request that its first attempt found overdue has bought nothing, and buys
\* nothing before a second attempt.
THEOREM FirstDegraded == Spec => []DegradedAtFirst
<1>1. Init => FirstInv
  BY DEF Init, Req!Init, Saga!Init, FirstInv, FirstAttempt
<1>2. FirstInv => DegradedAtFirst
  BY DEF FirstInv, FirstAttempt, DegradedAtFirst
<1>3. ReqP!Spec => []ReqP!TypeOK
  BY Assumptions, ReqP!Typing
<1>4. SaleP!Spec => []SaleP!TypeOK
  BY Assumptions, SaleP!Typing
<1>5. ReqP!TypeOK /\ SaleP!TypeOK /\ FirstInv /\ [Next]_vars => FirstInv'
  BY FirstStep
<1> QED
  BY <1>1, <1>2, <1>3, <1>4, <1>5, RequestPart, SagaPart, SameRequest, SameSaga,
     PTL DEF Spec

-----------------------------------------------------------------------------
(* A request and its saga.                                                 *)

\* DTM carries out a saga exactly if it was submitted for its request.
AcceptedInv == \A i \in RequestIDs : at[i] # "none" <=> ReqP!Backed(i)

\* DTM does not start the saga of a request by itself, nor forget it.
LEMMA SagaGoesOn ==
  ASSUME SaleP!TypeOK, SagaStep, NEW i \in RequestIDs
  PROVE  at'[i] # "none" <=> at[i] # "none"
<1> USE DEF SaleP!TypeOK
<1>1. ASSUME NEW s \in RequestIDs \cup Rivals, Saga!Answer(s)
      PROVE  at'[i] # "none" <=> at[i] # "none"
  <2>1. PICK code \in Saga!Codes : at' = [at EXCEPT ![s] = Saga!NextStep(at[s], code)]
    BY <1>1 DEF Saga!Answer
  <2>2. at[s] \in Saga!Ops
    BY <1>1 DEF Saga!Answer
  <2>3. at[s] # "none" /\ Saga!NextStep(at[s], code) # "none"
    BY <2>2 DEF Saga!NextStep, Saga!After, Saga!Compensation, Saga!Ops
  <2> QED
    BY <2>1, <2>3
<1>2. ASSUME NEW s \in Rivals, Saga!ExecuteSeckillSaga(s)
      PROVE  at'[i] # "none" <=> at[i] # "none"
  BY <1>2, PurchaseAssumption DEF PurchaseAssumption, Saga!ExecuteSeckillSaga
<1>3. CASE UNCHANGED at
  BY <1>3
<1> QED
  BY <1>1, <1>2, <1>3
  DEF SagaStep, Saga!TimeOut, Saga!LateExecution, Saga!Register

\* The submission that DTM accepts first starts the saga, and no other step does.
LEMMA AcceptedStep ==
  ASSUME SaleP!TypeOK, AcceptedInv, [Next]_vars
  PROVE  AcceptedInv'
<1> USE DEF AcceptedInv, ReqP!Backed
<1>1. CASE RequestStep
  <2>1. UNCHANGED <<at, sagas>>
    BY <1>1 DEF RequestStep, Handle, sagaVars, Req!Rpc, Req!BeginSeckill,
      Req!CreateSeckillRequest, Req!InsertSeckillJob, Req!MarkEnqueueFailed,
      Req!CrashCall, Req!CheckAge, Req!MarkDegraded, Req!MarkProcessing,
      Req!InsertMessagingJob, Req!MarkSuccess, Req!MarkFailure, Req!River, Req!Work,
      Req!FinishJob, Req!CrashHandler, Req!RescueJob, Req!Environment,
      Req!MaxWaitElapses, Req!RecordExpires, Req!RedisRestart
  <2> QED
    BY <2>1
<1>2. CASE SagaStep
  <2>1. UNCHANGED sagas
    BY <1>2 DEF SagaStep, reqVars
  <2> QED
    BY <1>2, <2>1, SagaGoesOn
<1>3. ASSUME NEW i \in RequestIDs, Submit(i) PROVE AcceptedInv'
  <2>1. CASE sagas' = sagas /\ UNCHANGED sagaVars
    BY <2>1 DEF sagaVars
  <2>2. CASE sagas' # sagas /\ Saga!ExecuteSeckillSaga(i)
    <3> DEFINE new == [gid |-> i, request |-> i]
    <3>1. sagas' = sagas \cup {new}
      BY <1>3, <2>2 DEF Submit, Req!ExecuteSeckillSaga, Req!Gid
    <3>2. new.request = i
      OBVIOUS
    <3>3. at[i] = "none" /\ at' = [at EXCEPT ![i] = "DeductBalance"]
      BY <2>2 DEF Saga!ExecuteSeckillSaga
    <3> HIDE DEF new
    <3>4. \A j \in RequestIDs : ReqP!Backed(j)' <=> ReqP!Backed(j) \/ j = i
      BY <3>1, <3>2
    <3>5. \A j \in RequestIDs : at'[j] # "none" <=> at[j] # "none" \/ j = i
      BY <3>3 DEF SaleP!TypeOK
    <3> QED
      BY ONLY <3>4, <3>5, AcceptedInv DEF AcceptedInv
  <2> QED
    BY <1>3, <2>1, <2>2 DEF Submit
<1>4. CASE UNCHANGED vars
  BY <1>4 DEF vars, reqVars, sagaVars
<1> QED
  BY <1>1, <1>2, <1>3, <1>4 DEF Next

\* In every reachable state the sagas under way are those that were submitted.
LEMMA AcceptedAlways == Spec => []AcceptedInv
<1>1. Init => AcceptedInv
  BY DEF Init, Req!Init, Saga!Init, AcceptedInv, ReqP!Backed
<1>2. SaleP!Spec => []SaleP!TypeOK
  BY Assumptions, SaleP!Typing
<1>3. SaleP!TypeOK /\ AcceptedInv /\ [Next]_vars => AcceptedInv'
  BY AcceptedStep
<1> QED
  BY <1>1, <1>2, <1>3, SagaPart, SameSaga, PTL DEF Spec

\* As the services answer, SUCCESS stands for a purchase that is under way or done,
\* that is not given back and, if no call is lost, not charged or delivered twice.
THEOREM SuccessKept ==
  ASSUME RollbackCodes \subseteq {409} PROVE Spec => []SuccessIsKept
<1>1. ReqP!Spec => []ReqP!SuccessIsBacked
  BY Assumptions, ReqP!SuccessBacked
<1>2. SaleP!Spec => []SaleP!OnlyForward
  BY Assumptions, SaleP!NeverUndone
<1>3. SaleP!Spec => []SaleP!NoTimeoutNoRepeat
  BY Assumptions, SaleP!NoRepeat
<1>4. ASSUME ReqP!SuccessIsBacked, AcceptedInv, SaleP!OnlyForward,
             SaleP!NoTimeoutNoRepeat
      PROVE  SuccessIsKept
  BY <1>4 DEF ReqP!SuccessIsBacked, AcceptedInv, SaleP!OnlyForward, SaleP!Forward,
              SaleP!NoTimeoutNoRepeat, SuccessIsKept
<1> QED
  BY <1>1, <1>2, <1>3, <1>4, AcceptedAlways, RequestPart, SagaPart, SameRequest,
     SameSaga, PTL

\* As the services answer, and as long as no call of DTM is lost, the two databases
\* account for the purchases in DTM's log, those of requests that were retried included.
THEOREM TablesAgree ==
  ASSUME RollbackCodes \subseteq {409} PROVE Spec => []Saga!TablesMatchLog
<1>1. SaleP!Spec => []SaleP!TablesMatchLog
  BY Assumptions, SaleP!Ledger
<1> QED
  BY <1>1, SagaPart, SameSaga, PTL
  DEF Saga!TablesMatchLog, Saga!Succeeded, Saga!Charged, Saga!Cardinality,
      SaleP!TablesMatchLog, SaleP!Succeeded, SaleP!Charged, SaleP!Cardinality

=============================================================================
