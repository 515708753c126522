------------------------- MODULE SeckillSaga_proofs -------------------------
(* Theorems about SeckillSaga, for any sagas, users, stock and balances,   *)
(* and any number of calls given up on and executed late.                  *)
EXTENDS SeckillSaga, FiniteSetTheorems, TLAPS

\* What follows an operation is an operation or an end.
LEMMA NextStepType ==
  ASSUME NEW op \in Ops, NEW code \in Codes
  PROVE  NextStep(op, code) \in Ops \cup End
  BY DEF NextStep, After, Compensation, Ops, End

\* Whatever handler is executed, stock and balances stay natural numbers: no
\* UPDATE takes what is not there.
LEMMA ExecuteType ==
  ASSUME TypeOK, NEW s \in Sagas, NEW op \in Ops, NEW code, Execute(s, op, code)
  PROVE  /\ stock' \in Nat
         /\ registered' = registered
         /\ balance' \in [Users -> Nat]
         /\ done' \in [Sagas -> [Ops -> Nat]]
<1> USE SagaAssumption DEF TypeOK, Count, tables
<1>1. Buyer[s] \in Users
  OBVIOUS
<1>2. ASSUME NEW o \in Ops, Count(s, o) PROVE done' \in [Sagas -> [Ops -> Nat]]
  BY <1>2
<1>3. {"DeductBalance", "DeductStock", "RestoreStock", "RestoreBalance"} \subseteq Ops
  BY DEF Ops
<1> HIDE DEF Count
<1>4. CASE DeductBalance(s, code)
  <2> DEFINE u == Buyer[s]
  <2>1. CASE /\ u \in registered /\ balance[u] >= Amount
             /\ balance' = [balance EXCEPT ![u] = @ - Amount]
             /\ Count(s, "DeductBalance")
             /\ UNCHANGED <<stock, registered>>
    <3>1. balance[u] - Amount \in Nat
      BY <1>1, <2>1
    <3> QED
      BY <1>1, <1>2, <1>3, <2>1, <3>1
  <2>2. CASE UNCHANGED <<tables, done>>
    BY <2>2
  <2> QED
    BY <1>4, <2>1, <2>2 DEF DeductBalance, ChangeBalance, LOW_BALANCE, USER_NOT_FOUND
<1>5. CASE DeductStock(s, code)
  BY <1>2, <1>3, <1>5 DEF DeductStock, ChangeStock, SOLD_OUT
<1>6. CASE RestoreStock(s, code)
  BY <1>2, <1>3, <1>6 DEF RestoreStock, ChangeStock
<1>7. CASE RestoreBalance(s, code)
  BY <1>1, <1>2, <1>3, <1>7 DEF RestoreBalance, ChangeBalance
<1> QED
  BY <1>4, <1>5, <1>6, <1>7 DEF Execute

\* The calls of a saga still to be executed were given up on, each once.
StrayBounded == \A s \in Sagas, op \in Ops : stray[s][op] <= timeouts[s]

TypeInv == TypeOK /\ StrayBounded

\* The tables and the sagas are well typed when the sale opens.
LEMMA TypeInit == Init => TypeInv
  BY SagaAssumption DEF Init, TypeInv, TypeOK, StrayBounded

\* Every step keeps the types and the bound on stray calls.
LEMMA TypeStep == TypeInv /\ [Next]_vars => TypeInv'
<1> SUFFICES ASSUME TypeInv, [Next]_vars PROVE TypeInv'
  OBVIOUS
<1> USE SagaAssumption DEF TypeInv, StrayBounded
<1>1. ASSUME NEW s \in Sagas, ExecuteSeckillSaga(s) PROVE TypeInv'
  BY <1>1 DEF ExecuteSeckillSaga, tables, TypeOK, Ops
<1>2. ASSUME NEW s \in Sagas, Answer(s) PROVE TypeInv'
  <2>1. PICK code \in Codes : /\ Execute(s, at[s], code)
                              /\ at' = [at EXCEPT ![s] = NextStep(at[s], code)]
    BY <1>2 DEF Answer
  <2>2. at[s] \in Ops /\ UNCHANGED <<stray, timeouts>>
    BY <1>2 DEF Answer
  <2>3. NextStep(at[s], code) \in Ops \cup End
    BY <2>2, NextStepType
  <2> QED
    BY <2>1, <2>2, <2>3, ExecuteType DEF TypeOK
<1>3. ASSUME NEW s \in Sagas, TimeOut(s) PROVE TypeInv'
  <2> USE DEF TypeOK
  <2>1. /\ at[s] \in Ops /\ timeouts[s] < MaxTimeouts
        /\ timeouts' = [timeouts EXCEPT ![s] = @ + 1]
        /\ stray' = [stray EXCEPT ![s][at[s]] = @ + 1]
        /\ UNCHANGED <<stock, registered, balance, at, done>>
    BY <1>3 DEF TimeOut, tables
  <2>2. timeouts' \in [Sagas -> 0..MaxTimeouts]
    BY <2>1
  <2>3. \A t \in Sagas, op \in Ops :
          stray'[t][op] \in 0..MaxTimeouts /\ stray'[t][op] <= timeouts'[t]
    BY <2>1
  <2>4. stray' \in [Sagas -> [Ops -> 0..MaxTimeouts]]
    BY <2>1, <2>3
  <2> QED
    BY <2>1, <2>2, <2>3, <2>4
<1>4. ASSUME NEW s \in Sagas, NEW op \in Ops, LateExecution(s, op) PROVE TypeInv'
  BY <1>4, ExecuteType DEF LateExecution, TypeOK
<1>5. ASSUME NEW u \in Users, Register(u) PROVE TypeInv'
  BY <1>5 DEF Register, TypeOK
<1>6. CASE UNCHANGED vars
  BY <1>6 DEF vars, tables, TypeOK
<1> QED
  BY <1>1, <1>2, <1>3, <1>4, <1>5, <1>6 DEF Next

\* Every variable keeps its type: above all, neither the stock nor a balance ever
\* goes below zero, and no saga has more stray calls than were given up on.
THEOREM Typing == Spec => []TypeOK
<1>1. TypeInv => TypeOK
  BY DEF TypeInv
<1> QED
  BY <1>1, TypeInit, TypeStep, PTL DEF Spec

-----------------------------------------------------------------------------
(* Goods and money.                                                        *)

\* An execution counts for its own saga and operation only, and a deduction
\* answers 200 if and only if it took effect.
LEMMA ExecuteEffect ==
  ASSUME TypeOK, NEW s \in Sagas, NEW op \in Ops, NEW code, Execute(s, op, code)
  PROVE  /\ \A t \in Sagas, o \in Ops :
              /\ done'[t][o] >= done[t][o]
              /\ done'[t][o] # done[t][o] => t = s /\ o = op
         /\ code = 200 /\ op \in {"DeductBalance", "DeductStock"}
              => done'[s][op] = done[s][op] + 1
         /\ code # 200 => done' = done
<1> USE DEF TypeOK, tables
<1>1. ASSUME NEW o \in Ops, Count(s, o)
      PROVE  /\ done'[s][o] = done[s][o] + 1
             /\ \A t \in Sagas, p \in Ops :
                  /\ done'[t][p] >= done[t][p]
                  /\ done'[t][p] # done[t][p] => t = s /\ p = o
  BY <1>1 DEF Count
<1>2. CASE op = "DeductBalance" /\ DeductBalance(s, code)
  BY <1>1, <1>2 DEF DeductBalance, ChangeBalance, LOW_BALANCE, USER_NOT_FOUND
<1>3. CASE op = "DeductStock" /\ DeductStock(s, code)
  BY <1>1, <1>3 DEF DeductStock, ChangeStock, SOLD_OUT
<1>4. CASE op = "RestoreStock" /\ RestoreStock(s, code)
  BY <1>1, <1>4 DEF RestoreStock, ChangeStock
<1>5. CASE op = "RestoreBalance" /\ RestoreBalance(s, code)
  BY <1>1, <1>5 DEF RestoreBalance, ChangeBalance
<1> QED
  BY <1>2, <1>3, <1>4, <1>5 DEF Execute

\* The saga's way: forward through the deductions, or back.
Forward == {"none", "DeductBalance", "DeductStock", "succeeded"}

\* DTM gets to an operation from the one before it, and never back to Forward.
LEMMA NextStepWay ==
  ASSUME NEW op \in Ops, NEW code
  PROVE  /\ NextStep(op, code) = "DeductStock"
              => op = "DeductStock" \/ (op = "DeductBalance" /\ code = 200)
         /\ NextStep(op, code) = "succeeded" => op = "DeductStock" /\ code = 200
         /\ NextStep(op, code) \in Forward => op \in Forward
<1> USE DEF NextStep, After, Compensation, Forward
<1>1. CASE op = "DeductBalance"
  BY <1>1
<1>2. CASE op = "DeductStock"
  BY <1>2
<1>3. CASE op \in {"RestoreStock", "RestoreBalance"}
  BY <1>3
<1> QED
  BY <1>1, <1>2, <1>3 DEF Ops

\* PaidBeforeDelivered is not inductive: a late DeductStock has to be covered
\* before it is executed, and a saga on its way forward has nothing undone, nor
\* any call under way that would undo it.
Covered(s) ==
  /\ \/ at[s] \in {"DeductStock", "succeeded"}
     \/ done[s]["DeductStock"] > 0
     \/ stray[s]["DeductStock"] > 0
     => done[s]["DeductBalance"] > 0
  /\ at[s] = "succeeded" => done[s]["DeductStock"] > 0
  /\ at[s] \in Forward =>
       \A op \in {"RestoreStock", "RestoreBalance"} :
         done[s][op] = 0 /\ stray[s][op] = 0

PaidInv == \A s \in Sagas : Covered(s)

\* Nothing is delivered at first.
LEMMA PaidInit == Init => PaidInv
  BY DEF Init, PaidInv, Covered, Ops

\* Every step, late executions included, keeps every saga Covered.
LEMMA PaidStep ==
  ASSUME TypeInv, PaidInv, [Next]_vars
  PROVE  PaidInv'
<1> USE DEF TypeInv, TypeOK, PaidInv, Covered
<1>0. Ops = {"DeductBalance", "DeductStock", "RestoreStock", "RestoreBalance"}
  BY DEF Ops
<1>1. ASSUME NEW s \in Sagas, ExecuteSeckillSaga(s) PROVE PaidInv'
  BY <1>0, <1>1 DEF ExecuteSeckillSaga, Forward
<1>2. ASSUME NEW s \in Sagas, Answer(s) PROVE PaidInv'
  <2>1. PICK code \in Codes : /\ Execute(s, at[s], code)
                              /\ at' = [at EXCEPT ![s] = NextStep(at[s], code)]
    BY <1>2 DEF Answer
  <2>2. at[s] \in Ops /\ UNCHANGED <<stray, timeouts>>
    BY <1>2 DEF Answer
  <2>3. \A t \in Sagas, o \in Ops :
          /\ done'[t][o] >= done[t][o]
          /\ done'[t][o] # done[t][o] => t = s /\ o = at[s]
    BY <2>1, <2>2, ExecuteEffect
  <2>4. code = 200 /\ at[s] \in {"DeductBalance", "DeductStock"}
          => done'[s][at[s]] = done[s][at[s]] + 1
    BY <2>1, <2>2, ExecuteEffect
  <2>5. done' \in [Sagas -> [Ops -> Nat]]
    BY <2>1, <2>2, ExecuteType
  <2>6. at'[s] = NextStep(at[s], code) /\ \A t \in Sagas : t # s => at'[t] = at[t]
    BY <2>1
  <2> SUFFICES ASSUME NEW t \in Sagas PROVE Covered(t)'
    BY Zenon DEF PaidInv
  <2>7. CASE t # s
    BY <1>0, <2>2, <2>3, <2>5, <2>6, <2>7
  <2>8. CASE t = s
    <3>1. at'[s] \in Forward => at[s] \in {"DeductBalance", "DeductStock"}
      BY <1>0, <2>2, <2>6, NextStepWay DEF Forward
    <3> QED
      BY <1>0, <2>2, <2>3, <2>4, <2>5, <2>6, <2>8, <3>1, NextStepWay
  <2> QED
    BY <2>7, <2>8
<1>3. ASSUME NEW s \in Sagas, TimeOut(s) PROVE PaidInv'
  BY <1>0, <1>3 DEF TimeOut, tables, Forward
<1>4. ASSUME NEW s \in Sagas, NEW op \in Ops, LateExecution(s, op) PROVE PaidInv'
  <2>1. /\ stray[s][op] > 0
        /\ stray' = [stray EXCEPT ![s][op] = @ - 1]
        /\ UNCHANGED <<at, timeouts>>
    BY <1>4 DEF LateExecution
  <2>2. \A t \in Sagas, o \in Ops :
          /\ done'[t][o] >= done[t][o]
          /\ done'[t][o] # done[t][o] => t = s /\ o = op
    BY <1>4, ExecuteEffect DEF LateExecution
  <2>3. done' \in [Sagas -> [Ops -> Nat]]
    BY <1>4, ExecuteType DEF LateExecution
  <2> SUFFICES ASSUME NEW t \in Sagas PROVE Covered(t)'
    BY Zenon DEF PaidInv
  <2>4. CASE t # s
    BY <1>0, <2>1, <2>2, <2>3, <2>4
  <2>5. CASE t = s
    <3>1. \A o \in Ops : stray'[s][o] <= stray[s][o] /\ stray'[s][o] \in Nat
      BY <2>1
    <3>2. at[s] \in Forward => op \notin {"RestoreStock", "RestoreBalance"}
      BY <2>1
    <3> QED
      <4>1. /\ done[s] \in [Ops -> Nat] /\ done'[s] \in [Ops -> Nat]
            /\ stray[s] \in [Ops -> Nat]
        BY <2>3
      <4>2. \A o \in Ops : done'[s][o] >= done[s][o]
                          /\ (o # op => done'[s][o] = done[s][o])
        BY <2>2
      <4>3. op = "DeductStock" => stray[s]["DeductStock"] > 0
        BY <2>1
      <4>4. at'[s] = at[s]
        BY <2>1
      <4>5. done'[s]["DeductBalance"] > 0 \/ done[s]["DeductBalance"] = 0
        BY <1>0, <4>1, <4>2
      <4>6. \/ at[s] \in {"DeductStock", "succeeded"}
            \/ done'[s]["DeductStock"] > 0
            \/ stray'[s]["DeductStock"] > 0
            => done'[s]["DeductBalance"] > 0
        BY <1>0, <3>1, <4>1, <4>2, <4>3, <4>5
      <4>7. at[s] = "succeeded" => done'[s]["DeductStock"] > 0
        BY <1>0, <4>1, <4>2
      <4>8. at[s] \in Forward =>
              \A o \in {"RestoreStock", "RestoreBalance"} :
                done'[s][o] = 0 /\ stray'[s][o] = 0
        BY <1>0, <3>1, <3>2, <4>1, <4>2
      <4> QED
        BY <2>5, <4>4, <4>6, <4>7, <4>8
  <2> QED
    BY <2>4, <2>5
<1>5. ASSUME NEW u \in Users, Register(u) PROVE PaidInv'
  BY <1>5 DEF Register
<1>6. CASE UNCHANGED vars
  BY <1>6 DEF vars
<1> QED
  BY <1>1, <1>2, <1>3, <1>4, <1>5, <1>6 DEF Next

\* No goods leave the stock for a saga whose buyer was not charged, whatever is
\* repeated or executed late, and whether or not DTM rolls sagas back.
THEOREM PaidFirst == Spec => []PaidBeforeDelivered
<1>1. PaidInv => PaidBeforeDelivered
  BY DEF PaidInv, Covered, PaidBeforeDelivered
<1>2. TypeInv /\ PaidInv /\ [Next]_vars => PaidInv'
  BY PaidStep
<1> QED
  BY <1>1, <1>2, TypeInit, TypeStep, PaidInit, PTL DEF Spec

\* A saga that succeeded has charged and delivered, and stays so.
THEOREM SuccessIsComplete == Spec => []SucceededIsComplete
<1>1. TypeInv /\ PaidInv => SucceededIsComplete
  BY DEF TypeInv, TypeOK, PaidInv, Covered, SucceededIsComplete, Forward
<1>2. TypeInv /\ PaidInv /\ [Next]_vars => PaidInv'
  BY PaidStep
<1> QED
  BY <1>1, <1>2, TypeInit, TypeStep, PaidInit, PTL DEF Spec

-----------------------------------------------------------------------------
(* No oversell. As the services answer, DTM rolls nothing back: no answer  *)
(* of theirs is a 409.                                                     *)

\* What an execution takes from the stock.
LEMMA ExecuteStock ==
  ASSUME TypeOK, NEW s \in Sagas, NEW op \in {"DeductBalance", "DeductStock"},
         NEW code, Execute(s, op, code)
  PROVE  /\ code \in {200, 400, 404}
         /\ stock' <= stock
         /\ op = "DeductStock" /\ code = 200 => stock' = stock - Amount
  BY SagaAssumption
  DEF Execute, DeductBalance, DeductStock, RestoreStock, RestoreBalance, ChangeBalance,
      ChangeStock, LOW_BALANCE, USER_NOT_FOUND, SOLD_OUT, TypeOK, tables

\* The cardinality of a finite set with one element more.
LEMMA OneMore ==
  ASSUME NEW S, IsFiniteSet(S), NEW x, x \notin S
  PROVE  Cardinality(S \cup {x}) = Cardinality(S) + 1
<1>1. Cardinality(S \cup {x}) =
        IF x \in S THEN Cardinality(S) ELSE Cardinality(S) + 1
  BY FS_AddElement, Zenon
<1> QED
  BY <1>1

SoldInv ==
  /\ \A s \in Sagas : at[s] \in Forward
  /\ NoOversell

\* Nothing is sold when the sale opens.
LEMMA SoldInit == Init => SoldInv
<1> SUFFICES ASSUME Init PROVE SoldInv
  OBVIOUS
<1>1. Succeeded = {}
  BY DEF Init, Succeeded
<1>2. Cardinality(Succeeded) = 0
  BY <1>1, FS_EmptySet
<1> QED
  BY <1>2, SagaAssumption DEF Init, SoldInv, NoOversell, Forward

\* A saga gets to succeeded with its own deduction, so SoldInv is kept.
LEMMA SoldStep ==
  ASSUME RollbackCodes \subseteq {409}, TypeInv, PaidInv, SoldInv, [Next]_vars
  PROVE  SoldInv'
<1> USE SagaAssumption DEF TypeInv, TypeOK, SoldInv
<1>0. /\ IsFiniteSet(Succeeded)
      /\ Cardinality(Succeeded) \in Nat
  <2>1. Succeeded \subseteq Sagas
    BY DEF Succeeded
  <2> QED
    BY <2>1, FS_Subset, FS_CardinalityType
<1>1. ASSUME Succeeded' = Succeeded, stock' <= stock, stock' \in Nat
      PROVE  NoOversell'
  BY <1>0, <1>1 DEF NoOversell
<1>2. ASSUME NEW s \in Sagas, ExecuteSeckillSaga(s) PROVE SoldInv'
  BY <1>1, <1>2 DEF ExecuteSeckillSaga, tables, Succeeded, Forward
<1>3. ASSUME NEW s \in Sagas, Answer(s) PROVE SoldInv'
  <2>1. PICK code \in Codes : /\ Execute(s, at[s], code)
                              /\ at' = [at EXCEPT ![s] = NextStep(at[s], code)]
    BY <1>3 DEF Answer
  <2>2. at[s] \in {"DeductBalance", "DeductStock"}
    BY <1>3 DEF Answer, Forward, Ops
  <2>3. /\ code \in {200, 400, 404}
        /\ stock' <= stock
        /\ at[s] = "DeductStock" /\ code = 200 => stock' = stock - Amount
    BY <2>1, <2>2, ExecuteStock
  <2>4. stock' \in Nat
    BY <2>1, <2>2, ExecuteType DEF Ops
  <2>5. CASE at[s] = "DeductStock" /\ code = 200
    <3>1. at' = [at EXCEPT ![s] = "succeeded"]
      <4>1. NextStep(at[s], code) = "succeeded"
        BY <2>5 DEF NextStep, After
      <4> QED
        BY <2>1, <4>1
    <3>2. Succeeded' = Succeeded \cup {s} /\ s \notin Succeeded
      BY <2>5, <3>1 DEF Succeeded
    <3>3. Cardinality(Succeeded') = Cardinality(Succeeded) + 1
      <4>1. Cardinality(Succeeded \cup {s}) = Cardinality(Succeeded) + 1
        BY <1>0, <3>2, OneMore
      <4> QED
        BY <3>2, <4>1
    <3>4. Amount * (Cardinality(Succeeded) + 1) = Amount * Cardinality(Succeeded) + Amount
      BY <1>0
    <3>5. NoOversell'
      BY <1>0, <2>3, <2>5, <3>3, <3>4 DEF NoOversell
    <3> QED
      BY <3>1, <3>5 DEF Forward
  <2>6. CASE ~(at[s] = "DeductStock" /\ code = 200)
    <3>1. NextStep(at[s], code) \in {"DeductBalance", "DeductStock"}
      <4>1. CASE at[s] = "DeductBalance"
        BY <2>3, <4>1 DEF NextStep, After
      <4>2. CASE at[s] = "DeductStock"
        BY <2>3, <2>6, <4>2 DEF NextStep, After
      <4> QED
        BY <2>2, <4>1, <4>2
    <3>2. Succeeded' = Succeeded
      BY <2>1, <2>2, <3>1 DEF Succeeded
    <3> QED
      BY <1>1, <2>1, <2>3, <2>4, <3>1, <3>2 DEF Forward
  <2> QED
    BY <2>5, <2>6
<1>4. ASSUME NEW s \in Sagas, TimeOut(s) PROVE SoldInv'
  BY <1>1, <1>4 DEF TimeOut, tables, Succeeded
<1>5. ASSUME NEW s \in Sagas, NEW op \in Ops, LateExecution(s, op) PROVE SoldInv'
  <2>1. op \in {"DeductBalance", "DeductStock"}
    BY <1>5 DEF LateExecution, PaidInv, Covered, Ops
  <2>2. stock' <= stock /\ stock' \in Nat
    BY <1>5, <2>1, ExecuteStock, ExecuteType DEF LateExecution
  <2> QED
    BY <1>1, <1>5, <2>2 DEF LateExecution, Succeeded
<1>6. ASSUME NEW u \in Users, Register(u) PROVE SoldInv'
  BY <1>1, <1>6 DEF Register, Succeeded
<1>7. CASE UNCHANGED vars
  BY <1>1, <1>7 DEF vars, tables, Succeeded
<1> QED
  BY <1>2, <1>3, <1>4, <1>5, <1>6, <1>7 DEF Next

\* The sagas that succeeded have bought no more than has left the stock, which
\* never goes below zero: no more than there was.
THEOREM NothingOversold ==
  ASSUME RollbackCodes \subseteq {409} PROVE Spec => []NoOversell
<1>1. SoldInv => NoOversell
  BY DEF SoldInv
<1>2. TypeInv /\ PaidInv /\ [Next]_vars => PaidInv'
  BY PaidStep
<1>3. TypeInv /\ PaidInv /\ SoldInv /\ [Next]_vars => SoldInv'
  BY SoldStep
<1> QED
  BY <1>1, <1>2, <1>3, TypeInit, TypeStep, PaidInit, SoldInit, PTL DEF Spec

-----------------------------------------------------------------------------
(* The compensations, under any codes that roll a saga back.               *)

\* A restoration takes effect whenever it answers: that of a balance, if its
\* buyer is registered.
LEMMA RestoreEffect ==
  ASSUME TypeOK, NEW s \in Sagas, NEW op \in {"RestoreStock", "RestoreBalance"},
         NEW code, Execute(s, op, code),
         op = "RestoreStock" \/ Buyer[s] \in registered
  PROVE  done'[s][op] > 0
<1> USE DEF TypeOK
<1>1. Count(s, op)
  BY DEF Execute, DeductBalance, DeductStock, RestoreStock, RestoreBalance, ChangeBalance,
         ChangeStock, LOW_BALANCE, USER_NOT_FOUND, SOLD_OUT
<1> QED
  BY <1>1 DEF Count, Ops

\* RefundIsLast and FailedIsRefunded need to know where the saga came from: no
\* call of DeductStock before its turn, no refund before the stock is dealt with,
\* and the end only through a refund.
Undone(s) ==
  /\ at[s] \in {"none", "DeductBalance"} =>
       done[s]["DeductStock"] = 0 /\ stray[s]["DeductStock"] = 0
  /\ at[s] \notin {"RestoreBalance", "failed"} => stray[s]["RestoreBalance"] = 0
  /\ at[s] \in {"RestoreBalance", "failed"} =>
       \/ done[s]["DeductStock"] = 0 /\ stray[s]["DeductStock"] = 0
       \/ done[s]["RestoreStock"] > 0
  /\ at[s] = "failed" /\ Buyer[s] \in InitialUsers => done[s]["RestoreBalance"] > 0

UndoneInv ==
  /\ InitialUsers \subseteq registered
  /\ \A s \in Sagas : Undone(s)

\* Nothing is to be undone at first.
LEMMA UndoneInit == Init => UndoneInv
  BY DEF Init, UndoneInv, Undone, Ops

\* Every step keeps every saga Undone.
LEMMA UndoneStep ==
  ASSUME TypeInv, UndoneInv, [Next]_vars
  PROVE  UndoneInv'
<1> USE DEF TypeInv, TypeOK, UndoneInv, Undone
<1>0. Ops = {"DeductBalance", "DeductStock", "RestoreStock", "RestoreBalance"}
  BY DEF Ops
<1>1. ASSUME NEW s \in Sagas, ExecuteSeckillSaga(s) PROVE UndoneInv'
  BY <1>1 DEF ExecuteSeckillSaga, tables
<1>2. ASSUME NEW s \in Sagas, Answer(s) PROVE UndoneInv'
  <2>1. PICK code \in Codes : /\ Execute(s, at[s], code)
                              /\ at' = [at EXCEPT ![s] = NextStep(at[s], code)]
    BY <1>2 DEF Answer
  <2>2. at[s] \in Ops /\ UNCHANGED <<stray, timeouts>>
    BY <1>2 DEF Answer
  <2>3. \A t \in Sagas, o \in Ops :
          /\ done'[t][o] >= done[t][o]
          /\ done'[t][o] # done[t][o] => t = s /\ o = at[s]
    BY <2>1, <2>2, ExecuteEffect
  <2>4. done' \in [Sagas -> [Ops -> Nat]] /\ registered' = registered
    BY <2>1, <2>2, ExecuteType
  <2>5. at'[s] = NextStep(at[s], code) /\ \A t \in Sagas : t # s => at'[t] = at[t]
    BY <2>1
  <2> SUFFICES ASSUME NEW t \in Sagas PROVE Undone(t)'
    BY <2>4, Zenon DEF UndoneInv
  <2>6. CASE t # s
    BY <1>0, <2>2, <2>3, <2>4, <2>5, <2>6
  <2>7. CASE t = s
    <3>1. CASE at[s] = "DeductBalance"
      <4>1. at'[s] \in {"DeductBalance", "DeductStock", "RestoreBalance"}
        BY <2>5, <3>1 DEF NextStep, After, Compensation
      <4> QED
        BY <1>0, <2>2, <2>3, <2>4, <2>7, <3>1, <4>1
    <3>2. CASE at[s] = "DeductStock"
      <4>1. at'[s] \in {"DeductStock", "succeeded", "RestoreStock"}
        BY <2>5, <3>2 DEF NextStep, After, Compensation
      <4> QED
        BY <1>0, <2>2, <2>3, <2>4, <2>7, <3>2, <4>1
    <3>3. CASE at[s] = "RestoreStock"
      <4>1. at'[s] \in {"RestoreStock", "RestoreBalance"}
        BY <2>5, <3>3 DEF NextStep, After, Compensation
      <4>2. done'[s]["RestoreStock"] > 0
        BY <2>1, <3>3, RestoreEffect
      <4> QED
        BY <1>0, <2>2, <2>3, <2>4, <2>7, <3>3, <4>1, <4>2
    <3>4. CASE at[s] = "RestoreBalance"
      <4>1. at'[s] \in {"RestoreBalance", "failed"}
        BY <2>5, <3>4 DEF NextStep, After, Compensation
      <4>2. Buyer[s] \in InitialUsers => done'[s]["RestoreBalance"] > 0
        BY <2>1, <3>4, RestoreEffect
      <4> QED
        BY <1>0, <2>2, <2>3, <2>4, <2>7, <3>4, <4>1, <4>2
    <3> QED
      BY <1>0, <2>2, <3>1, <3>2, <3>3, <3>4
  <2> QED
    BY <2>6, <2>7
<1>3. ASSUME NEW s \in Sagas, TimeOut(s) PROVE UndoneInv'
  BY <1>0, <1>3 DEF TimeOut, tables
<1>4. ASSUME NEW s \in Sagas, NEW op \in Ops, LateExecution(s, op) PROVE UndoneInv'
  <2>1. /\ stray[s][op] > 0
        /\ stray' = [stray EXCEPT ![s][op] = @ - 1]
        /\ UNCHANGED <<at, timeouts>>
    BY <1>4 DEF LateExecution
  <2>2. \A t \in Sagas, o \in Ops :
          /\ done'[t][o] >= done[t][o]
          /\ done'[t][o] # done[t][o] => t = s /\ o = op
    BY <1>4, ExecuteEffect DEF LateExecution
  <2>3. done' \in [Sagas -> [Ops -> Nat]] /\ registered' = registered
    BY <1>4, ExecuteType DEF LateExecution
  <2>4. \A t \in Sagas, o \in Ops :
          stray'[t][o] <= stray[t][o] /\ stray'[t][o] \in Nat /\ stray[t][o] \in Nat
    BY <2>1
  <2>5. \A t \in Sagas, o \in Ops :
             stray[t][o] = 0 => stray'[t][o] = 0 /\ done'[t][o] = done[t][o]
    BY <2>1, <2>2, <2>4
  <2>6. \A t \in Sagas, o \in Ops : done[t][o] > 0 => done'[t][o] > 0
    BY <2>2, <2>3
  <2> SUFFICES ASSUME NEW t \in Sagas PROVE Undone(t)'
    BY <2>3, Zenon DEF UndoneInv
  <2> QED
    BY <1>0, <2>1, <2>5, <2>6
<1>5. ASSUME NEW u \in Users, Register(u) PROVE UndoneInv'
  BY <1>5 DEF Register
<1>6. CASE UNCHANGED vars
  BY <1>6 DEF vars
<1> QED
  BY <1>1, <1>2, <1>3, <1>4, <1>5, <1>6 DEF Next

\* An execution counts once at most.
LEMMA ExecuteOnce ==
  ASSUME TypeOK, NEW s \in Sagas, NEW op \in Ops, NEW code, Execute(s, op, code)
  PROVE  done'[s][op] <= done[s][op] + 1
<1> USE DEF TypeOK, tables
<1>1. done[s][op] \in Nat
  OBVIOUS
<1>2. done' = done \/ Count(s, op)
  BY DEF Execute, DeductBalance, DeductStock, RestoreStock, RestoreBalance, ChangeBalance,
         ChangeStock
<1> QED
  BY <1>1, <1>2 DEF Count

\* A charge that is executed finds its buyer registered.
LEMMA ChargeEffect ==
  ASSUME TypeOK, NEW s \in Sagas, NEW code, Execute(s, "DeductBalance", code), code = 200
  PROVE  Buyer[s] \in registered
  BY DEF Execute, DeductBalance, LOW_BALANCE, USER_NOT_FOUND

\* The charges of a saga, executed or yet to be, are those given up on and one that
\* was answered. That one found the buyer, so the refund finds him too.
Charges(s) == done[s]["DeductBalance"] + stray[s]["DeductBalance"]

Repaid(s) ==
  /\ \/ Charges(s) <= timeouts[s]
     \/ /\ at[s] \notin {"none", "DeductBalance"} /\ Buyer[s] \in registered
        /\ Charges(s) <= timeouts[s] + 1
  /\ at[s] = "failed" => Charges(s) <= done[s]["RestoreBalance"] + timeouts[s]

RefundInv == \A s \in Sagas : Repaid(s)

\* Nobody is charged at first.
LEMMA RefundInit == Init => RefundInv
  BY DEF Init, RefundInv, Repaid, Charges, Ops

\* Every step keeps every saga Repaid.
LEMMA RefundInvStep ==
  ASSUME TypeInv, RefundInv, [Next]_vars
  PROVE  RefundInv'
<1> USE DEF TypeInv, TypeOK
<1>0. {"DeductBalance", "RestoreBalance"} \subseteq Ops
  BY DEF Ops
<1>1. \A s \in Sagas : /\ done[s]["DeductBalance"] \in Nat /\ done[s]["RestoreBalance"] \in Nat
                        /\ stray[s]["DeductBalance"] \in Nat /\ timeouts[s] \in Nat
  BY <1>0
<1>2. ASSUME NEW s \in Sagas, ExecuteSeckillSaga(s) PROVE RefundInv'
  BY <1>1, <1>2 DEF ExecuteSeckillSaga, tables, RefundInv, Repaid, Charges
<1>3. ASSUME NEW s \in Sagas, Answer(s) PROVE RefundInv'
  <2>1. PICK code \in Codes : /\ Execute(s, at[s], code)
                              /\ at' = [at EXCEPT ![s] = NextStep(at[s], code)]
    BY <1>3 DEF Answer
  <2>2. at[s] \in Ops /\ UNCHANGED <<stray, timeouts>>
    BY <1>3 DEF Answer
  <2>3. \A t \in Sagas, o \in Ops :
          /\ done'[t][o] >= done[t][o]
          /\ done'[t][o] # done[t][o] => t = s /\ o = at[s]
    BY <2>1, <2>2, ExecuteEffect
  <2>4. done' \in [Sagas -> [Ops -> Nat]] /\ registered' = registered
    BY <2>1, <2>2, ExecuteType
  <2>5. at'[s] = NextStep(at[s], code) /\ \A t \in Sagas : t # s => at'[t] = at[t]
    BY <2>1
  <2>6. ASSUME NEW t \in Sagas, t # s PROVE Repaid(t)'
    <3>1. Charges(t)' = Charges(t) /\ done'[t]["RestoreBalance"] = done[t]["RestoreBalance"]
      BY <1>0, <2>2, <2>3, <2>6 DEF Charges
    <3> QED
      BY <2>2, <2>4, <2>5, <2>6, <3>1 DEF RefundInv, Repaid
  <2>7. Repaid(s)'
    <3> USE <1>0, <1>1, <2>2, <2>4, <2>5
    <3>1. CASE at[s] = "DeductBalance" /\ code = 200
      <4>1. at'[s] \in {"DeductStock", "RestoreBalance"}
        <5>1. NextStep(at[s], code) \in {"DeductStock", "RestoreBalance"}
          BY ONLY <3>1 DEF NextStep, After, Compensation
        <5> QED
          BY <5>1
      <4>2. Buyer[s] \in registered /\ done'[s]["DeductBalance"] = done[s]["DeductBalance"] + 1
        BY <2>1, <3>1, ChargeEffect, ExecuteEffect
      <4> QED
        BY <3>1, <4>1, <4>2 DEF RefundInv, Repaid, Charges
    <3>2. CASE at[s] = "DeductBalance" /\ code # 200
      <4>1. at'[s] \in {"DeductBalance", "RestoreBalance"}
        BY <3>2 DEF NextStep, Compensation
      <4>2. done' = done
        BY <2>1, <3>2, ExecuteEffect
      <4> QED
        BY <3>2, <4>1, <4>2 DEF RefundInv, Repaid, Charges
    <3>3. CASE at[s] \in {"DeductStock", "RestoreStock"}
      <4>1. at'[s] \in {"DeductStock", "succeeded", "RestoreStock", "RestoreBalance"}
        BY <3>3 DEF NextStep, After, Compensation
      <4>2. Charges(s)' = Charges(s)
        BY <2>3, <3>3 DEF Charges
      <4> QED
        BY <3>3, <4>1, <4>2 DEF RefundInv, Repaid
    <3>4. CASE at[s] = "RestoreBalance"
      <4>1. at'[s] \in {"RestoreBalance", "failed"}
        BY <3>4 DEF NextStep, After, Compensation
      <4>2. Charges(s)' = Charges(s) /\ Charges(s) \in Nat
        BY <2>3, <3>4 DEF Charges
      <4>3. Buyer[s] \in registered => done'[s]["RestoreBalance"] > 0
        BY <2>1, <3>4, RestoreEffect
      <4>4. Charges(s) <= done'[s]["RestoreBalance"] + timeouts[s]
        <5>1. done'[s]["RestoreBalance"] \in Nat
          OBVIOUS
        <5> QED
          BY <3>4, <4>2, <4>3, <5>1 DEF RefundInv, Repaid
      <4> QED
        BY <3>4, <4>1, <4>2, <4>4 DEF RefundInv, Repaid
    <3> QED
      BY <3>1, <3>2, <3>3, <3>4 DEF Ops
  <2> QED
    BY <2>6, <2>7 DEF RefundInv
<1>4. ASSUME NEW s \in Sagas, TimeOut(s) PROVE RefundInv'
  <2>1. /\ at[s] \in Ops
        /\ timeouts' = [timeouts EXCEPT ![s] = @ + 1]
        /\ stray' = [stray EXCEPT ![s][at[s]] = @ + 1]
        /\ UNCHANGED <<registered, at, done>>
    BY <1>4 DEF TimeOut, tables
  <2>2. /\ timeouts'[s] = timeouts[s] + 1
        /\ Charges(s)' <= Charges(s) + 1 /\ Charges(s)' \in Nat
        /\ at[s] # "DeductBalance" => Charges(s)' = Charges(s)
    BY <1>0, <1>1, <2>1 DEF Charges
  <2>3. \A t \in Sagas : t # s => timeouts'[t] = timeouts[t] /\ Charges(t)' = Charges(t)
    BY <1>0, <2>1 DEF Charges
  <2>4. \A t \in Sagas : Charges(t) \in Nat
    BY <1>1 DEF Charges
  <2> QED
    BY <1>1, <2>1, <2>2, <2>3, <2>4 DEF RefundInv, Repaid, Ops
<1>5. ASSUME NEW s \in Sagas, NEW op \in Ops, LateExecution(s, op) PROVE RefundInv'
  <2>1. /\ stray[s][op] > 0
        /\ stray' = [stray EXCEPT ![s][op] = @ - 1]
        /\ UNCHANGED <<at, timeouts>>
    BY <1>5 DEF LateExecution
  <2>2. \A t \in Sagas, o \in Ops :
          /\ done'[t][o] >= done[t][o]
          /\ done'[t][o] # done[t][o] => t = s /\ o = op
    BY <1>5, ExecuteEffect DEF LateExecution
  <2>3. done' \in [Sagas -> [Ops -> Nat]] /\ registered' = registered
    BY <1>5, ExecuteType DEF LateExecution
  <2>4. done'[s][op] <= done[s][op] + 1
    BY <1>5, ExecuteOnce DEF LateExecution
  <2>5. ASSUME NEW t \in Sagas
        PROVE  Charges(t)' <= Charges(t) /\ Charges(t)' \in Nat /\ Charges(t) \in Nat
    <3>1. /\ done[t]["DeductBalance"] \in Nat /\ done'[t]["DeductBalance"] \in Nat
          /\ stray[t]["DeductBalance"] \in Nat
      BY <1>0, <1>1, <2>3
    <3>2. CASE t = s /\ op = "DeductBalance"
      <4>1. stray'[t]["DeductBalance"] = stray[t]["DeductBalance"] - 1
        BY <1>0, <2>1, <3>2
      <4> QED
        BY <2>1, <2>4, <3>1, <3>2, <4>1 DEF Charges
    <3>3. CASE ~(t = s /\ op = "DeductBalance")
      <4>1. stray'[t]["DeductBalance"] = stray[t]["DeductBalance"]
        BY <1>0, <2>1, <3>3
      <4>2. done'[t]["DeductBalance"] = done[t]["DeductBalance"]
        BY <1>0, <2>2, <3>3
      <4> QED
        BY <3>1, <4>1, <4>2 DEF Charges
    <3> QED
      BY <3>2, <3>3
  <2>6. \A t \in Sagas : done'[t]["RestoreBalance"] >= done[t]["RestoreBalance"]
    BY <1>0, <2>2
  <2>7. \A t \in Sagas : done'[t]["RestoreBalance"] \in Nat
    BY <1>0, <2>3
  <2> QED
    BY <1>1, <2>1, <2>3, <2>5, <2>6, <2>7 DEF RefundInv, Repaid
<1>6. ASSUME NEW u \in Users, Register(u) PROVE RefundInv'
  BY <1>6 DEF Register, RefundInv, Repaid, Charges
<1>7. CASE UNCHANGED vars
  BY <1>7 DEF vars, tables, RefundInv, Repaid, Charges
<1> QED
  BY <1>2, <1>3, <1>4, <1>5, <1>6, <1>7 DEF Next

\* A saga that failed has paid back what it charged, but for charges that DTM gave
\* up on; and if its buyer was registered all along, it has paid.
THEOREM Refunded == Spec => []FailedIsRefunded
<1>1. TypeInv /\ UndoneInv /\ RefundInv => FailedIsRefunded
  <2> SUFFICES ASSUME TypeInv, UndoneInv, RefundInv, NEW s \in Sagas, at[s] = "failed"
               PROVE  /\ done[s]["DeductBalance"] <= done[s]["RestoreBalance"] + timeouts[s]
                      /\ Buyer[s] \in InitialUsers => done[s]["RestoreBalance"] > 0
    BY DEF FailedIsRefunded
  <2>1. /\ done[s]["DeductBalance"] \in Nat /\ done[s]["RestoreBalance"] \in Nat
        /\ stray[s]["DeductBalance"] \in Nat /\ timeouts[s] \in Nat
    BY DEF TypeInv, TypeOK, Ops
  <2> QED
    BY <2>1 DEF UndoneInv, Undone, RefundInv, Repaid, Charges
<1>2. TypeInv /\ UndoneInv /\ [Next]_vars => UndoneInv'
  BY UndoneStep
<1>3. TypeInv /\ RefundInv /\ [Next]_vars => RefundInv'
  BY RefundInvStep
<1> QED
  BY <1>1, <1>2, <1>3, TypeInit, TypeStep, UndoneInit, RefundInit, PTL DEF Spec

\* A refund is executed, in time or late, only when its saga has nothing
\* delivered or has put it back.
LEMMA RefundStep ==
  ASSUME TypeInv, UndoneInv, [Next]_vars, NEW s \in Sagas,
         done'[s]["RestoreBalance"] > done[s]["RestoreBalance"]
  PROVE  done[s]["DeductStock"] = 0 \/ done[s]["RestoreStock"] > 0
<1> USE DEF TypeInv, TypeOK
<1>0. "RestoreBalance" \in Ops /\ done[s]["RestoreBalance"] \in Nat
  BY DEF Ops
<1>1. CASE done' = done
  BY <1>0, <1>1
<1>2. ASSUME NEW t \in Sagas, NEW op \in Ops, NEW code, Execute(t, op, code)
      PROVE  t = s /\ op = "RestoreBalance"
  BY <1>0, <1>2, ExecuteEffect
<1>3. ASSUME NEW t \in Sagas, Answer(t) PROVE at[s] = "RestoreBalance"
  BY <1>2, <1>3 DEF Answer
<1>4. ASSUME NEW t \in Sagas, NEW op \in Ops, LateExecution(t, op)
      PROVE  stray[s]["RestoreBalance"] > 0
  BY <1>2, <1>4 DEF LateExecution
<1>5. done' = done \/ at[s] = "RestoreBalance" \/ stray[s]["RestoreBalance"] > 0
  BY <1>3, <1>4 DEF Next, ExecuteSeckillSaga, TimeOut, Register, vars
<1> QED
  BY <1>0, <1>1, <1>5 DEF UndoneInv, Undone

\* The stock goes back before the money does, in every order of late calls.
THEOREM StockGoesBackFirst == Spec => RefundIsLast
<1>1. TypeInv /\ UndoneInv /\ [Next]_vars => UndoneInv'
  BY UndoneStep
<1>2. TypeInv /\ UndoneInv /\ [Next]_vars =>
        [\A s \in Sagas : done'[s]["RestoreBalance"] > done[s]["RestoreBalance"]
           => \/ done[s]["DeductStock"] = 0
              \/ done[s]["RestoreStock"] > 0]_vars
  BY RefundStep
<1> QED
  BY <1>1, <1>2, TypeInit, TypeStep, UndoneInit, PTL DEF Spec, RefundIsLast

=============================================================================
