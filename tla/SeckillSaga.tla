---------------------------- MODULE SeckillSaga ----------------------------
(***************************************************************************)
(* The purchase itself.  ExecuteSeckillSaga hands DTM a saga of two        *)
(* branches: DeductBalance at the user service, undone by RestoreBalance,  *)
(* then DeductStockSaga at the product service, undone by RestoreStock.    *)
(* This module models the four handlers on the two tables, and DTM as the  *)
(* caller of these handlers.                                               *)
(*                                                                         *)
(* DTM calls the current operation of a saga until it has an answer it can *)
(* act on: success moves the saga on, a code of RollbackCodes turns it     *)
(* round, and after any other error, or none in time, the operation is     *)
(* called again.  A call that DTM gave up on may still be executed later.  *)
(*                                                                         *)
(* The services answer LOW_BALANCE with 400, USER_NOT_FOUND and SOLD_OUT   *)
(* with 404; DTM takes only Aborted (409) for a failure.  So the services  *)
(* as they stand are RollbackCodes = {409}; {400, 404} is what their       *)
(* compensations are written for.                                          *)
(***************************************************************************)
EXTENDS Integers, FiniteSets

CONSTANTS
  Sagas,           \* gids
  Users,           \* user ids, registered or not
  Buyer,           \* Buyer[s]: the user who pays for saga s
  Amount,          \* units a saga buys; the balance pays one per unit
  InitialStock,    \* stock of the product on sale
  InitialUsers,    \* users that are registered when the sale opens
  InitialBalance,  \* balance of a user at registration
  RollbackCodes,   \* codes on which DTM rolls a saga back
  MaxTimeouts      \* bound: calls of one saga that DTM gives up on

ASSUME SagaAssumption ==
  /\ IsFiniteSet(Sagas)
  /\ Buyer \in [Sagas -> Users]
  /\ Amount \in Nat \ {0}
  /\ InitialStock \in Nat
  /\ InitialUsers \subseteq Users
  /\ InitialBalance \in Nat
  /\ RollbackCodes \subseteq {400, 404, 409}
  /\ MaxTimeouts \in Nat

VARIABLES
  stock,       \* products.stock of the product on sale
  registered,  \* users with a row in the users table
  balance,     \* users.balance
  at,          \* at[s]: the operation DTM calls for s, or how s ended
  stray,       \* stray[s][op]: calls given up on that may still be executed
  timeouts,    \* timeouts[s]: calls of s given up on so far
  done         \* history. done[s][op]: times op changed a row for s

tables == <<stock, registered, balance>>
vars   == <<stock, registered, balance, at, stray, timeouts, done>>

-----------------------------------------------------------------------------
Ops == {"DeductBalance", "DeductStock", "RestoreStock", "RestoreBalance"}

End == {"succeeded", "failed"}

Codes == {200, 400, 404, 409, 500}

\* Mutant of After: the balance has no compensation.
AfterWithoutRefund ==
  [DeductBalance |-> "DeductStock", DeductStock    |-> "succeeded",
   RestoreStock  |-> "failed",      RestoreBalance |-> "failed"]

\* What follows an operation that succeeded: the branches in the order of the
\* Add calls, the compensations in the reverse order.
After == [DeductBalance |-> "DeductStock",  DeductStock    |-> "succeeded",
          RestoreStock  |-> "RestoreBalance", RestoreBalance |-> "failed"]

\* Mutant of Compensation: the two compensations are swapped.
CompensationSwapped ==
  [DeductBalance |-> "RestoreStock", DeductStock |-> "RestoreBalance"]

\* What undoes a branch. DTM undoes a refused branch too, for it cannot know
\* that none of its calls took effect.
Compensation == [DeductBalance |-> "RestoreBalance", DeductStock |-> "RestoreStock"]

TypeOK ==
  /\ stock \in Nat
  /\ registered \subseteq Users
  /\ balance \in [Users -> Nat]
  /\ at \in [Sagas -> Ops \cup End \cup {"none"}]
  /\ stray \in [Sagas -> [Ops -> 0..MaxTimeouts]]
  /\ timeouts \in [Sagas -> 0..MaxTimeouts]
  /\ done \in [Sagas -> [Ops -> Nat]]

Init ==
  /\ stock = InitialStock
  /\ registered = InitialUsers
  /\ balance = [u \in Users |-> IF u \in InitialUsers THEN InitialBalance ELSE 0]
  /\ at = [s \in Sagas |-> "none"]
  /\ stray = [s \in Sagas |-> [op \in Ops |-> 0]]
  /\ timeouts = [s \in Sagas |-> 0]
  /\ done = [s \in Sagas |-> [op \in Ops |-> 0]]

-----------------------------------------------------------------------------
(* The handlers. Each is one UPDATE, atomic in Postgres; the read that     *)
(* tells LOW_BALANCE from USER_NOT_FOUND and the cache's Del change no row *)
(* and, failing, no answer DTM acts on.  That read is a second statement:  *)
(* a user who registers in between is told LOW_BALANCE, with a full        *)
(* balance.                                                                *)

Count(s, op) == done' = [done EXCEPT ![s][op] = @ + 1]

\* The UPDATEs of the two tables, and the codes of an UPDATE that found no row.
ChangeStock(s, op, n) ==
  /\ stock' = stock + n
  /\ Count(s, op)
  /\ UNCHANGED <<registered, balance>>

ChangeBalance(s, op, n) ==
  /\ balance' = [balance EXCEPT ![Buyer[s]] = @ + n]
  /\ Count(s, op)
  /\ UNCHANGED <<stock, registered>>

LOW_BALANCE    == 400
USER_NOT_FOUND == 404
SOLD_OUT       == 404

\* Mutants of DeductBalance: no rows affected is not looked at; the error of the
\* cache's Del after the UPDATE is returned.
DeductBalanceUnchecked(s, code) ==
  /\ code = 200
  /\ IF Buyer[s] \in registered /\ balance[Buyer[s]] >= Amount
       THEN ChangeBalance(s, "DeductBalance", -Amount)
       ELSE UNCHANGED <<tables, done>>

DeductBalanceReportsDel(s, code) ==
  IF Buyer[s] \in registered /\ balance[Buyer[s]] >= Amount
    THEN ChangeBalance(s, "DeductBalance", -Amount) /\ code \in {200, 500}
    ELSE code = LOW_BALANCE /\ UNCHANGED <<tables, done>>

DeductBalance(s, code) ==
  \/ /\ Buyer[s] \in registered /\ balance[Buyer[s]] >= Amount
     /\ ChangeBalance(s, "DeductBalance", -Amount)
     /\ code = 200
  \/ /\ Buyer[s] \in registered /\ balance[Buyer[s]] < Amount
     /\ code = LOW_BALANCE
     /\ UNCHANGED <<tables, done>>
  \/ /\ Buyer[s] \notin registered
     /\ code \in {USER_NOT_FOUND, LOW_BALANCE}
     /\ UNCHANGED <<tables, done>>

\* Mutants of DeductStock: the UPDATE has no condition on the stock; no rows
\* affected is not looked at, or reported as a DB_ERROR; the error of the cache's
\* Del after the UPDATE is returned.
DeductStockUnconditionally(s, code) ==
  ChangeStock(s, "DeductStock", -Amount) /\ code = 200

DeductStockUnchecked(s, code) ==
  /\ code = 200
  /\ IF stock >= Amount
       THEN ChangeStock(s, "DeductStock", -Amount)
       ELSE UNCHANGED <<tables, done>>

DeductStockSoldOutIsDbError(s, code) ==
  \/ stock >= Amount /\ ChangeStock(s, "DeductStock", -Amount) /\ code = 200
  \/ stock < Amount /\ code = 500 /\ UNCHANGED <<tables, done>>

DeductStockReportsDel(s, code) ==
  \/ stock >= Amount /\ ChangeStock(s, "DeductStock", -Amount) /\ code \in {200, 500}
  \/ stock < Amount /\ code = SOLD_OUT /\ UNCHANGED <<tables, done>>

DeductStock(s, code) ==
  \/ stock >= Amount /\ ChangeStock(s, "DeductStock", -Amount) /\ code = 200
  \/ stock < Amount /\ code = SOLD_OUT /\ UNCHANGED <<tables, done>>

RestoreStock(s, code) ==
  ChangeStock(s, "RestoreStock", Amount) /\ code = 200

\* No row for the buyer is a warning in the log, not an error.
RestoreBalance(s, code) ==
  /\ code = 200
  /\ \/ Buyer[s] \in registered /\ ChangeBalance(s, "RestoreBalance", Amount)
     \/ Buyer[s] \notin registered /\ UNCHANGED <<tables, done>>

Execute(s, op, code) ==
  \/ op = "DeductBalance"  /\ DeductBalance(s, code)
  \/ op = "DeductStock"    /\ DeductStock(s, code)
  \/ op = "RestoreStock"   /\ RestoreStock(s, code)
  \/ op = "RestoreBalance" /\ RestoreBalance(s, code)

\* A new row of the users table.
Register(u) ==
  /\ u \notin registered
  /\ registered' = registered \cup {u}
  /\ balance' = [balance EXCEPT ![u] = InitialBalance]
  /\ UNCHANGED <<stock, at, stray, timeouts, done>>

-----------------------------------------------------------------------------
(* DTM.                                                                    *)

\* Submitting a gid again changes nothing.
ExecuteSeckillSaga(s) ==
  /\ at[s] = "none"
  /\ at' = [at EXCEPT ![s] = "DeductBalance"]
  /\ UNCHANGED <<tables, stray, timeouts, done>>

NextStep(op, code) ==
  CASE code = 200 -> After[op]
    [] code \in RollbackCodes /\ op \in DOMAIN Compensation -> Compensation[op]
    [] OTHER -> op

\* The current operation is called and answers in time.
Answer(s) ==
  /\ at[s] \in Ops
  /\ \E code \in Codes :
       /\ Execute(s, at[s], code)
       /\ at' = [at EXCEPT ![s] = NextStep(at[s], code)]
  /\ UNCHANGED <<stray, timeouts>>

\* The call, its answer, or what DTM notes of it is lost, or comes too late. A
\* DB_ERROR (500) looks the same to DTM.
TimeOut(s) ==
  /\ at[s] \in Ops
  /\ timeouts[s] < MaxTimeouts
  /\ timeouts' = [timeouts EXCEPT ![s] = @ + 1]
  /\ stray' = [stray EXCEPT ![s][at[s]] = @ + 1]
  /\ UNCHANGED <<tables, at, done>>

\* A call that DTM gave up on is executed after all; nobody reads the answer.
LateExecution(s, op) ==
  /\ stray[s][op] > 0
  /\ stray' = [stray EXCEPT ![s][op] = @ - 1]
  /\ \E code \in Codes : Execute(s, op, code)
  /\ UNCHANGED <<at, timeouts>>

Next ==
  \/ \E s \in Sagas : ExecuteSeckillSaga(s) \/ Answer(s) \/ TimeOut(s)
  \/ \E s \in Sagas, op \in Ops : LateExecution(s, op)
  \/ \E u \in Users : Register(u)

Spec == Init /\ [][Next]_vars

\* DTM goes on with every saga it has accepted.
Fairness == \A s \in Sagas : WF_vars(Answer(s))

FairSpec == Spec /\ Fairness

-----------------------------------------------------------------------------
(* Properties.                                                             *)

\* The sagas that succeeded have bought no more than has left the stock, and so
\* no more than there was, with every repeated, late and concurrent deduction.
Succeeded == {s \in Sagas : at[s] = "succeeded"}

NoOversell == Amount * Cardinality(Succeeded) <= InitialStock - stock

\* Goods leave the stock only for a saga whose buyer has been charged.
PaidBeforeDelivered ==
  \A s \in Sagas : done[s]["DeductStock"] > 0 => done[s]["DeductBalance"] > 0

\* A saga reads succeeded only after both of its deductions took effect, and no
\* compensation, late or not, then undoes them.
SucceededIsComplete ==
  \A s \in Sagas : at[s] = "succeeded" =>
    /\ done[s]["DeductBalance"] > 0 /\ done[s]["DeductStock"] > 0
    /\ done[s]["RestoreBalance"] = 0 /\ done[s]["RestoreStock"] = 0

\* A saga that failed has charged its buyer no more often than it has paid back, but
\* for one charge at most per call that DTM gave up on: executed late, beside its
\* repetition or after the end, it is not paid back. If the buyer was registered
\* from the start, the call of the refund that ended the saga has paid.
FailedIsRefunded ==
  \A s \in Sagas : at[s] = "failed" =>
    /\ done[s]["DeductBalance"] <= done[s]["RestoreBalance"] + timeouts[s]
    /\ Buyer[s] \in InitialUsers => done[s]["RestoreBalance"] > 0

\* The stock goes back before the money does: a saga that refunds its buyer has
\* no delivery left to undo that it knows of.
RefundIsLast ==
  [][\A s \in Sagas : done'[s]["RestoreBalance"] > done[s]["RestoreBalance"]
       => \/ done[s]["DeductStock"] = 0
          \/ done[s]["RestoreStock"] > 0]_vars

\* A saga that DTM has accepted ends: completed, or compensated by RestoreStock
\* and RestoreBalance, which biz/product.go calls "the SAGA compensation action".
SagaFinishes == \A s \in Sagas : at[s] \in Ops ~> at[s] \in End

\* The messaging worker logs of a purchase that its "product stock has deducted by"
\* the amount (worker.go:42): by one deduction's.
DeductedOnce == \A s \in Sagas : done[s]["DeductStock"] <= 1

\* A saga none of whose calls was given up on deducts each amount once.
NoTimeoutNoRepeat ==
  \A s \in Sagas : timeouts[s] = 0 =>
    done[s]["DeductBalance"] <= 1 /\ done[s]["DeductStock"] <= 1

\* The sagas whose buyer is u and, as far as DTM knows, has been charged.
Charged(u) ==
  {s \in Sagas : Buyer[s] = u /\ at[s] \in {"DeductStock", "succeeded"}}

\* The tables of the two services agree with DTM's log: what is missing from the
\* stock went to the sagas that succeeded, and what is missing from a balance to the
\* user's sagas past their charge. (Not so once a call was given up on: it may have
\* been executed, or may yet be.)
TablesMatchLog ==
  /\ (\A s \in Sagas : timeouts[s] = 0) =>
       stock + Amount * Cardinality(Succeeded) = InitialStock
  /\ \A u \in registered :
       (\A s \in Sagas : Buyer[s] = u => timeouts[s] = 0) =>
         balance[u] + Amount * Cardinality(Charged(u)) = InitialBalance

-----------------------------------------------------------------------------
(* The sagas as purchases of a flash sale: how far a purchase has got is   *)
(* what its handlers have done for it, not what DTM knows of them.         *)

Stage(s) ==
  IF done[s]["DeductStock"] > 0 THEN "bought"
  ELSE IF done[s]["DeductBalance"] > 0 THEN "paid"
  ELSE IF at[s] # "none" THEN "accepted"
  ELSE "open"

Stages == [s \in Sagas |-> Stage(s)]

Sale == INSTANCE FlashSale
  WITH Purchases <- Sagas, Repeats <- MaxTimeouts > 0,
       shelf <- stock, members <- registered, purse <- balance, stage <- Stages

\* As the services answer, with lost, repeated and late calls, the two tables
\* move as in a sale: a purchase is paid from money that is there, before
\* it is handed over from stock that is there, and nothing else moves them.
SaleAsPromised == Sale!Spec

=============================================================================
