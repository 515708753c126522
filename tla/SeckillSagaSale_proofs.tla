----------------------- MODULE SeckillSagaSale_proofs -----------------------
(* SeckillSaga, as the services answer, implements FlashSale: for any      *)
(* sagas, users, stock and balances, and any number of lost, repeated and  *)
(* late calls.                                                             *)
EXTENDS SeckillSaga_proofs

\* As long as no call of a saga was given up on, what DTM knows of it is what was
\* done for it. A saga not yet accepted has no calls.
Known(s) ==
  /\ at[s] = "none" => timeouts[s] = 0
  /\ timeouts[s] = 0 =>
       /\ done[s]["DeductBalance"] <= 1 /\ done[s]["DeductStock"] <= 1
       /\ at[s] \in {"none", "DeductBalance"} => done[s]["DeductBalance"] = 0
       /\ at[s] \in {"none", "DeductBalance", "DeductStock"} => done[s]["DeductStock"] = 0

KnownInv == \A s \in Sagas : Known(s)

\* Nothing is done or known at first.
LEMMA KnownInit == Init => KnownInv
  BY DEF Init, KnownInv, Known, Ops

\* A step gives up on a call, or answers one, whose effect DTM then knows.
LEMMA KnownStep ==
  ASSUME TypeInv, KnownInv, [Next]_vars
  PROVE  KnownInv'
<1> USE DEF TypeInv, TypeOK, StrayBounded, KnownInv, Known
<1>0. Ops = {"DeductBalance", "DeductStock", "RestoreStock", "RestoreBalance"}
  BY DEF Ops
<1>1. ASSUME NEW s \in Sagas, ExecuteSeckillSaga(s) PROVE KnownInv'
  BY <1>1 DEF ExecuteSeckillSaga
<1>2. ASSUME NEW s \in Sagas, Answer(s) PROVE KnownInv'
  <2>1. PICK code \in Codes : /\ Execute(s, at[s], code)
                              /\ at' = [at EXCEPT ![s] = NextStep(at[s], code)]
    BY <1>2 DEF Answer
  <2>2. at[s] \in Ops /\ UNCHANGED <<stray, timeouts>>
    BY <1>2 DEF Answer
  <2>3. /\ \A t \in Sagas, o \in Ops :
             done'[t][o] # done[t][o] => t = s /\ o = at[s]
        /\ code = 200 /\ at[s] \in {"DeductBalance", "DeductStock"}
             => done'[s][at[s]] = done[s][at[s]] + 1
        /\ code # 200 => done' = done
    BY <2>1, <2>2, ExecuteEffect
  <2>4. done' \in [Sagas -> [Ops -> Nat]]
    BY <2>1, <2>2, ExecuteType
  <2>5. at'[s] = NextStep(at[s], code) /\ \A t \in Sagas : t # s => at'[t] = at[t]
    BY <2>1
  <2> SUFFICES ASSUME NEW t \in Sagas PROVE Known(t)'
    BY Zenon DEF KnownInv
  <2>6. CASE t # s
    BY <1>0, <2>2, <2>3, <2>4, <2>5, <2>6
  <2>7. CASE t = s
    <3>1. CASE at[s] = "DeductBalance"
      <4>1. at'[s] \in {"DeductBalance", "DeductStock", "RestoreBalance"}
        BY <2>5, <3>1 DEF NextStep, After, Compensation
      <4>2. at'[s] = "DeductBalance" => code # 200
        BY <2>5, <3>1 DEF NextStep, After, Compensation
      <4> QED
        BY <1>0, <2>2, <2>3, <2>4, <2>7, <3>1, <4>1, <4>2
    <3>2. CASE at[s] = "DeductStock"
      <4>1. at'[s] \in {"DeductStock", "succeeded", "RestoreStock"}
        BY <2>5, <3>2 DEF NextStep, After, Compensation
      <4>2. at'[s] = "DeductStock" => code # 200
        BY <2>5, <3>2 DEF NextStep, After, Compensation
      <4> QED
        BY <1>0, <2>2, <2>3, <2>4, <2>7, <3>2, <4>1, <4>2
    <3>3. CASE at[s] \in {"RestoreStock", "RestoreBalance"}
      <4>1. at'[s] \in {"RestoreStock", "RestoreBalance", "failed"}
        BY <2>5, <3>3 DEF NextStep, After, Compensation
      <4> QED
        BY <1>0, <2>2, <2>3, <2>4, <2>7, <3>3, <4>1
    <3> QED
      BY <1>0, <2>2, <3>1, <3>2, <3>3
  <2> QED
    BY <2>6, <2>7
<1>3. ASSUME NEW s \in Sagas, TimeOut(s) PROVE KnownInv'
  <2>1. /\ at[s] \in Ops
        /\ timeouts' = [timeouts EXCEPT ![s] = @ + 1]
        /\ UNCHANGED <<at, done>>
    BY <1>3 DEF TimeOut
  <2>2. timeouts'[s] # 0 /\ at[s] # "none"
    BY <1>0, <2>1
  <2> QED
    BY <2>1, <2>2
<1>4. ASSUME NEW s \in Sagas, NEW op \in Ops, LateExecution(s, op) PROVE KnownInv'
  <2>1. stray[s][op] > 0 /\ UNCHANGED <<at, timeouts>>
    BY <1>4 DEF LateExecution
  <2>2. timeouts[s] # 0
    BY <2>1, SagaAssumption
  <2>3. \A t \in Sagas, o \in Ops : done'[t][o] # done[t][o] => t = s
    BY <1>4, ExecuteEffect DEF LateExecution
  <2> QED
    BY <1>0, <2>1, <2>2, <2>3
<1>5. ASSUME NEW u \in Users, Register(u) PROVE KnownInv'
  BY <1>5 DEF Register
<1>6. CASE UNCHANGED vars
  BY <1>6 DEF vars
<1> QED
  BY <1>1, <1>2, <1>3, <1>4, <1>5, <1>6 DEF Next

\* However the other sagas fare, a saga that met no timeout has charged once at
\* most and delivered once at most.
THEOREM NoRepeat == Spec => []NoTimeoutNoRepeat
<1>1. KnownInv => NoTimeoutNoRepeat
  BY DEF KnownInv, Known, NoTimeoutNoRepeat
<1>2. TypeInv /\ KnownInv /\ [Next]_vars => KnownInv'
  BY KnownStep
<1> QED
  BY <1>1, <1>2, TypeInit, TypeStep, KnownInit, PTL DEF Spec

-----------------------------------------------------------------------------
(* The tables and DTM's log.                                               *)

\* What a deduction, in time or late, does to the tables.
LEMMA ExecuteTables ==
  ASSUME TypeOK, NEW s \in Sagas, NEW op \in {"DeductBalance", "DeductStock"},
         NEW code, Execute(s, op, code)
  PROVE  /\ code \in {200, 400, 404}
         /\ registered' = registered
         /\ \A u \in Users : u # Buyer[s] => balance'[u] = balance[u]
         /\ code # 200 => stock' = stock /\ balance' = balance
         /\ op = "DeductStock" /\ code = 200 =>
              stock' = stock - Amount /\ balance' = balance
         /\ op = "DeductBalance" /\ code = 200 =>
              /\ stock' = stock
              /\ Buyer[s] \in registered
              /\ balance'[Buyer[s]] = balance[Buyer[s]] - Amount
  BY SagaAssumption
  DEF Execute, DeductBalance, DeductStock, ChangeBalance, ChangeStock,
      LOW_BALANCE, USER_NOT_FOUND, SOLD_OUT, TypeOK, tables

\* TablesMatchLog is not inductive: a user who registers has not been charged before.
LedgerInv ==
  /\ TablesMatchLog
  /\ \A s \in Sagas : at[s] \in {"DeductStock", "succeeded"} => Buyer[s] \in registered

\* The sagas that are counted are finitely many.
LEMMA FiniteLog ==
  /\ IsFiniteSet(Succeeded) /\ Cardinality(Succeeded) \in Nat
  /\ \A u : IsFiniteSet(Charged(u)) /\ Cardinality(Charged(u)) \in Nat
<1>1. IsFiniteSet(Sagas)
  BY SagaAssumption
<1>2. Succeeded \subseteq Sagas /\ \A u : Charged(u) \subseteq Sagas
  BY DEF Succeeded, Charged
<1>3. \A S \in SUBSET Sagas : IsFiniteSet(S) /\ Cardinality(S) \in Nat
  BY <1>1, FS_Subset, FS_CardinalityType
<1> QED
  BY <1>2, <1>3

\* At first nothing is missing and nobody is charged.
LEMMA LedgerInit == Init => LedgerInv
<1> SUFFICES ASSUME Init PROVE LedgerInv
  OBVIOUS
<1>1. Succeeded = {} /\ \A u : Charged(u) = {}
  BY DEF Init, Succeeded, Charged
<1>2. Cardinality(Succeeded) = 0 /\ \A u : Cardinality(Charged(u)) = 0
  BY <1>1, FS_EmptySet
<1>3. Amount * 0 = 0 /\ InitialStock \in Nat /\ InitialBalance \in Nat
  BY SagaAssumption
<1>4. stock + Amount * Cardinality(Succeeded) = InitialStock
  BY <1>2, <1>3 DEF Init
<1>5. \A u \in registered : balance[u] + Amount * Cardinality(Charged(u)) = InitialBalance
  BY <1>2, <1>3, SagaAssumption DEF Init
<1> QED
  BY <1>4, <1>5, Zenon DEF Init, LedgerInv, TablesMatchLog

\* An answer moves a saga in the log together with the table it has changed.
LEMMA LedgerAnswer ==
  ASSUME RollbackCodes \subseteq {409}, TypeInv, SoldInv, LedgerInv,
         NEW s \in Sagas, Answer(s)
  PROVE  LedgerInv'
<1> USE SagaAssumption DEF TypeInv, TypeOK
<1> DEFINE b == Buyer[s]
<1>1. PICK code \in Codes : /\ Execute(s, at[s], code)
                            /\ at' = [at EXCEPT ![s] = NextStep(at[s], code)]
  BY DEF Answer
<1>2. at[s] \in {"DeductBalance", "DeductStock"} /\ timeouts' = timeouts
  BY DEF Answer, SoldInv, Forward, Ops
<1>3. /\ code \in {200, 400, 404}
      /\ registered' = registered
      /\ \A u \in Users : u # b => balance'[u] = balance[u]
      /\ code # 200 => stock' = stock /\ balance' = balance
      /\ at[s] = "DeductStock" /\ code = 200 =>
           stock' = stock - Amount /\ balance' = balance
      /\ at[s] = "DeductBalance" /\ code = 200 =>
           /\ stock' = stock
           /\ b \in registered
           /\ balance'[b] = balance[b] - Amount
  <2>1. TypeOK /\ Execute(s, at[s], code)
    BY <1>1
  <2> QED
    BY ONLY <1>2, <2>1, s \in Sagas, ExecuteTables
<1>4. CASE code # 200
  <2>1. at' = at
    <3>1. NextStep(at[s], code) = at[s]
      BY <1>3, <1>4 DEF NextStep
    <3> QED
      BY <1>1, <3>1
  <2>2. Succeeded' = Succeeded /\ \A u : Charged(u)' = Charged(u)
    BY <2>1 DEF Succeeded, Charged
  <2>3. TablesMatchLog'
    BY <1>2, <1>3, <1>4, <2>2 DEF LedgerInv, TablesMatchLog
  <2> QED
    BY <1>3, <2>1, <2>3 DEF LedgerInv
<1>5. CASE at[s] = "DeductBalance" /\ code = 200
  <2>1. at' = [at EXCEPT ![s] = "DeductStock"]
    <3>1. NextStep(at[s], code) = "DeductStock"
      BY <1>5 DEF NextStep, After
    <3> QED
      BY <1>1, <3>1
  <2>2. /\ Succeeded' = Succeeded
        /\ \A u : u # b => Charged(u)' = Charged(u)
        /\ Charged(b)' = Charged(b) \cup {s} /\ s \notin Charged(b)
    BY <1>5, <2>1 DEF Succeeded, Charged
  <2>3. Cardinality(Charged(b)') = Cardinality(Charged(b)) + 1
    BY <2>2, FiniteLog, OneMore
  <2>4. Amount * (Cardinality(Charged(b)) + 1) = Amount * Cardinality(Charged(b)) + Amount
    BY FiniteLog
  <2>5. ASSUME b \in registered, \A t \in Sagas : Buyer[t] = b => timeouts[t] = 0
        PROVE  balance'[b] + Amount * Cardinality(Charged(b)') = InitialBalance
    BY <1>3, <1>5, <2>3, <2>4, <2>5, FiniteLog DEF LedgerInv, TablesMatchLog
  <2>6. ASSUME NEW u \in registered, u # b, \A t \in Sagas : Buyer[t] = u => timeouts[t] = 0
        PROVE  balance'[u] + Amount * Cardinality(Charged(u)') = InitialBalance
    <3>1. balance'[u] = balance[u] /\ Charged(u)' = Charged(u)
      BY <1>3, <2>2, <2>6
    <3>2. balance[u] + Amount * Cardinality(Charged(u)) = InitialBalance
      BY <2>6 DEF LedgerInv, TablesMatchLog
    <3> QED
      BY <3>1, <3>2
  <2>7. (\A t \in Sagas : timeouts[t] = 0) =>
          stock' + Amount * Cardinality(Succeeded') = InitialStock
    BY <1>3, <1>5, <2>2, Zenon DEF LedgerInv, TablesMatchLog
  <2>8. TablesMatchLog'
    <3>1. \A u \in registered : (\A t \in Sagas : Buyer[t] = u => timeouts[t] = 0) =>
            balance'[u] + Amount * Cardinality(Charged(u)') = InitialBalance
      <4> SUFFICES ASSUME NEW u \in registered,
                          \A t \in Sagas : Buyer[t] = u => timeouts[t] = 0
                   PROVE  balance'[u] + Amount * Cardinality(Charged(u)') = InitialBalance
        OBVIOUS
      <4>1. CASE u = b
        BY <2>5, <4>1
      <4>2. CASE u # b
        BY <2>6, <4>2
      <4> QED
        BY <4>1, <4>2
    <3>2. registered' = registered /\ timeouts' = timeouts
      BY <1>2, <1>3
    <3> QED
      BY ONLY <2>7, <3>1, <3>2 DEF TablesMatchLog
  <2> QED
    BY <1>3, <1>5, <2>1, <2>8 DEF LedgerInv
<1>6. CASE at[s] = "DeductStock" /\ code = 200
  <2>1. at' = [at EXCEPT ![s] = "succeeded"]
    <3>1. NextStep(at[s], code) = "succeeded"
      BY <1>6 DEF NextStep, After
    <3> QED
      BY <1>1, <3>1
  <2>2. /\ Succeeded' = Succeeded \cup {s} /\ s \notin Succeeded
        /\ \A u : Charged(u)' = Charged(u)
    BY <1>6, <2>1 DEF Succeeded, Charged
  <2>3. Cardinality(Succeeded') = Cardinality(Succeeded) + 1
    BY <2>2, FiniteLog, OneMore
  <2>4. Amount * (Cardinality(Succeeded) + 1) = Amount * Cardinality(Succeeded) + Amount
    BY FiniteLog
  <2>5. (\A t \in Sagas : timeouts[t] = 0) =>
          stock' + Amount * Cardinality(Succeeded') = InitialStock
    BY <1>3, <1>6, <2>3, <2>4, FiniteLog DEF LedgerInv, TablesMatchLog
  <2>6. TablesMatchLog'
    BY <1>2, <1>3, <1>6, <2>2, <2>5 DEF LedgerInv, TablesMatchLog
  <2> QED
    BY <1>3, <1>6, <2>1, <2>6 DEF LedgerInv
<1> QED
  BY <1>2, <1>4, <1>5, <1>6

\* Every other step leaves tables and log alone, or what the ledger says of them.
LEMMA LedgerStep ==
  ASSUME RollbackCodes \subseteq {409}, TypeInv, PaidInv, SoldInv, LedgerInv, [Next]_vars
  PROVE  LedgerInv'
<1> USE SagaAssumption DEF TypeInv, TypeOK
<1>1. ASSUME UNCHANGED at
      PROVE  Succeeded' = Succeeded /\ \A u : Charged(u)' = Charged(u)
  BY <1>1 DEF Succeeded, Charged
<1>2. ASSUME NEW s \in Sagas, ExecuteSeckillSaga(s) PROVE LedgerInv'
  <2>1. /\ at[s] = "none" /\ at' = [at EXCEPT ![s] = "DeductBalance"]
        /\ UNCHANGED <<stock, registered, balance, timeouts>>
    BY <1>2 DEF ExecuteSeckillSaga, tables
  <2>2. Succeeded' = Succeeded /\ \A u : Charged(u)' = Charged(u)
    BY <2>1 DEF Succeeded, Charged
  <2> QED
    BY <2>1, <2>2 DEF LedgerInv, TablesMatchLog
<1>3. ASSUME NEW s \in Sagas, Answer(s) PROVE LedgerInv'
  BY <1>3, LedgerAnswer
<1>4. ASSUME NEW s \in Sagas, TimeOut(s) PROVE LedgerInv'
  <2>1. /\ timeouts' = [timeouts EXCEPT ![s] = @ + 1]
        /\ UNCHANGED <<stock, registered, balance, at>>
    BY <1>4 DEF TimeOut, tables
  <2>2. \A t \in Sagas : timeouts'[t] = 0 => timeouts[t] = 0
    BY <2>1
  <2> QED
    BY <1>1, <2>1, <2>2 DEF LedgerInv, TablesMatchLog
<1>5. ASSUME NEW s \in Sagas, NEW op \in Ops, LateExecution(s, op) PROVE LedgerInv'
  <2>1. op \in {"DeductBalance", "DeductStock"}
    BY <1>5 DEF LateExecution, SoldInv, PaidInv, Covered, Ops
  <2>2. stray[s][op] > 0 /\ UNCHANGED <<at, timeouts>>
    BY <1>5 DEF LateExecution
  <2>3. timeouts[s] # 0
    BY <2>2 DEF StrayBounded
  <2>4. registered' = registered /\ \A u \in Users : u # Buyer[s] => balance'[u] = balance[u]
    BY <1>5, <2>1, ExecuteTables DEF LateExecution
  <2> QED
    BY <1>1, <2>2, <2>3, <2>4 DEF LedgerInv, TablesMatchLog
<1>6. ASSUME NEW u \in Users, Register(u) PROVE LedgerInv'
  <2>1. /\ u \notin registered /\ registered' = registered \cup {u}
        /\ balance' = [balance EXCEPT ![u] = InitialBalance]
        /\ UNCHANGED <<stock, at, timeouts>>
    BY <1>6 DEF Register
  <2>2. Charged(u) = {}
    BY <2>1 DEF Charged, LedgerInv
  <2>3. Amount * Cardinality(Charged(u)) = 0
    BY <2>2, FS_EmptySet
  <2> QED
    BY <1>1, <2>1, <2>3 DEF LedgerInv, TablesMatchLog
<1>7. CASE UNCHANGED vars
  BY <1>1, <1>7 DEF vars, tables, LedgerInv, TablesMatchLog
<1> QED
  BY <1>2, <1>3, <1>4, <1>5, <1>6, <1>7 DEF Next

\* As the services answer, and as long as no call is lost, the databases of the two
\* services account for every purchase in DTM's log, and for nothing else.
THEOREM Ledger ==
  ASSUME RollbackCodes \subseteq {409} PROVE Spec => []TablesMatchLog
<1>1. LedgerInv => TablesMatchLog
  BY DEF LedgerInv
<1>2. TypeInv /\ PaidInv /\ [Next]_vars => PaidInv'
  BY PaidStep
<1>3. TypeInv /\ PaidInv /\ SoldInv /\ [Next]_vars => SoldInv'
  BY SoldStep
<1>4. TypeInv /\ PaidInv /\ SoldInv /\ LedgerInv /\ [Next]_vars => LedgerInv'
  BY LedgerStep
<1> QED
  BY <1>1, <1>2, <1>3, <1>4, TypeInit, TypeStep, PaidInit, SoldInit, LedgerInit, PTL
  DEF Spec

\* Every saga goes forward, and nothing that was done for it is given back.
OnlyForward ==
  \A s \in Sagas :
    at[s] \in Forward /\ done[s]["RestoreStock"] = 0 /\ done[s]["RestoreBalance"] = 0

\* As the services answer, no compensation is ever executed: a saga that DTM has
\* accepted is under way or has succeeded.
THEOREM NeverUndone ==
  ASSUME RollbackCodes \subseteq {409} PROVE Spec => []OnlyForward
<1>1. PaidInv /\ SoldInv => OnlyForward
  BY DEF PaidInv, Covered, SoldInv, OnlyForward
<1>2. TypeInv /\ PaidInv /\ [Next]_vars => PaidInv'
  BY PaidStep
<1>3. TypeInv /\ PaidInv /\ SoldInv /\ [Next]_vars => SoldInv'
  BY SoldStep
<1> QED
  BY <1>1, <1>2, <1>3, TypeInit, TypeStep, PaidInit, SoldInit, PTL DEF Spec

-----------------------------------------------------------------------------
(* The refinement. The stage of a purchase is a matter of history: what    *)
(* DTM does changes it only by starting the saga.                          *)

\* The sagas start as purchases nobody has made.
LEMMA SaleInit == Init => Sale!Init
<1> SUFFICES ASSUME Init PROVE Sale!Init
  OBVIOUS
<1>1. \A s \in Sagas : Stage(s) = "open"
  BY DEF Init, Stage, Ops
<1>2. Stages = [s \in Sagas |-> "open"]
  BY <1>1 DEF Stages
<1> QED
  BY <1>2 DEF Init, Sale!Init

\* A step that starts no saga and executes nothing for one moves no stage.
LEMMA StagesKept ==
  ASSUME done' = done, \A s \in Sagas : (at'[s] = "none") = (at[s] = "none")
  PROVE  Stages' = Stages
<1>1. \A s \in Sagas : Stage(s)' = Stage(s)
  BY DEF Stage
<1> QED
  BY <1>1 DEF Stages

\* A step for one saga moves at most its own stage.
LEMMA StagesMoved ==
  ASSUME NEW s \in Sagas,
         \A t \in Sagas : t # s => done'[t] = done[t] /\ at'[t] = at[t]
  PROVE  Stages' = [Stages EXCEPT ![s] = Stage(s)']
<1>1. \A t \in Sagas : t # s => Stage(t)' = Stage(t)
  BY DEF Stage
<1> QED
  BY <1>1 DEF Stages

\* Accepting a saga accepts the purchase.
LEMMA AcceptStep ==
  ASSUME TypeInv, KnownInv, NEW s \in Sagas, ExecuteSeckillSaga(s)
  PROVE  Sale!Next
<1> USE DEF TypeInv, TypeOK
<1>1. at[s] = "none" /\ at'[s] = "DeductBalance"
     /\ UNCHANGED <<stock, registered, balance, done>>
  BY DEF ExecuteSeckillSaga, tables
<1>2. Stages' = [Stages EXCEPT ![s] = Stage(s)']
  <2>1. \A t \in Sagas : t # s => done'[t] = done[t] /\ at'[t] = at[t]
    BY DEF ExecuteSeckillSaga
  <2> QED
    BY <2>1, StagesMoved
<1>3. done[s]["DeductBalance"] = 0 /\ done[s]["DeductStock"] = 0
  BY <1>1 DEF KnownInv, Known
<1>4. Stage(s) = "open" /\ Stage(s)' = "accepted"
  BY <1>1, <1>3 DEF Stage
<1>5. Sale!Accept(s)
  BY <1>1, <1>2, <1>4 DEF Sale!Accept, Sale!Move, Stages
<1> QED
  BY <1>5 DEF Sale!Next

\* An execution of DeductBalance that takes effect is a payment: the first one,
\* or one repeated because a call was given up on.
LEMMA PayStep ==
  ASSUME TypeInv, KnownInv, NEW s \in Sagas,
         at[s] # "none", at'[s] # "none",
         \A t \in Sagas : t # s => at'[t] = at[t],
         at[s] = "DeductBalance" \/ timeouts[s] > 0,
         Buyer[s] \in registered, balance[Buyer[s]] >= Amount,
         balance' = [balance EXCEPT ![Buyer[s]] = @ - Amount],
         Count(s, "DeductBalance"),
         UNCHANGED <<stock, registered>>
  PROVE  Sale!Next
<1> USE DEF TypeInv, TypeOK
<1>1. /\ \A t \in Sagas : t # s => done'[t] = done[t]
      /\ done'[s]["DeductBalance"] = done[s]["DeductBalance"] + 1
      /\ done'[s]["DeductStock"] = done[s]["DeductStock"]
  BY DEF Count, Ops
<1>2. Stages' = [Stages EXCEPT ![s] = Stage(s)']
  BY <1>1, StagesMoved
<1>3. Sale!Charge(s)
  BY DEF Sale!Charge
<1>4. done[s]["DeductBalance"] \in Nat /\ done[s]["DeductStock"] \in Nat
  BY DEF Ops
<1>5. CASE Stage(s) = "accepted"
  <2>1. Stage(s)' = "paid"
    BY <1>1, <1>4, <1>5 DEF Stage
  <2>2. Sale!Pay(s)
    BY <1>2, <1>3, <1>5, <2>1 DEF Sale!Pay, Sale!Move, Stages
  <2> QED
    BY <2>2 DEF Sale!Next
<1>6. CASE Stage(s) \in {"paid", "bought"}
  <2>1. Stage(s)' = Stage(s)
    BY <1>1, <1>4, <1>6 DEF Stage
  <2>2. Stages' = Stages
    BY <1>2, <2>1 DEF Stages
  <2>3. MaxTimeouts > 0
    <3>1. done[s]["DeductBalance"] > 0 \/ done[s]["DeductStock"] > 0
      BY <1>6 DEF Stage
    <3>2. timeouts[s] # 0
      BY <1>4, <3>1 DEF KnownInv, Known
    <3> QED
      BY <3>2, SagaAssumption
  <2>4. Sale!PayAgain(s)
    BY <1>3, <1>6, <2>2, <2>3 DEF Sale!PayAgain, Stages
  <2> QED
    BY <2>4 DEF Sale!Next
<1> QED
  BY <1>5, <1>6 DEF Stage

\* An execution of DeductStock that takes effect is a delivery, of a purchase
\* that is paid.
LEMMA TakeStep ==
  ASSUME TypeInv, KnownInv, NEW s \in Sagas,
         done[s]["DeductBalance"] > 0,
         at[s] # "none", at'[s] # "none",
         \A t \in Sagas : t # s => at'[t] = at[t],
         at[s] = "DeductStock" \/ timeouts[s] > 0,
         stock >= Amount, stock' = stock - Amount,
         Count(s, "DeductStock"),
         UNCHANGED <<registered, balance>>
  PROVE  Sale!Next
<1> USE DEF TypeInv, TypeOK
<1>1. /\ \A t \in Sagas : t # s => done'[t] = done[t]
      /\ done'[s]["DeductStock"] = done[s]["DeductStock"] + 1
  BY DEF Count, Ops
<1>2. Stages' = [Stages EXCEPT ![s] = Stage(s)']
  BY <1>1, StagesMoved
<1>3. Sale!Deliver
  BY DEF Sale!Deliver
<1>4. done[s]["DeductBalance"] \in Nat /\ done[s]["DeductStock"] \in Nat
  BY DEF Ops
<1>5. Stage(s)' = "bought"
  BY <1>1, <1>4 DEF Stage
<1>6. CASE Stage(s) = "paid"
  <2>1. Sale!Take(s)
    BY <1>2, <1>3, <1>5, <1>6 DEF Sale!Take, Sale!Move, Stages
  <2> QED
    BY <2>1 DEF Sale!Next
<1>7. CASE Stage(s) = "bought"
  <2>1. Stages' = Stages
    BY <1>2, <1>5, <1>7 DEF Stages
  <2>2. MaxTimeouts > 0
    <3>1. done[s]["DeductStock"] > 0
      BY <1>7 DEF Stage
    <3>2. timeouts[s] # 0
      BY <1>4, <3>1 DEF KnownInv, Known
    <3> QED
      BY <3>2, SagaAssumption
  <2>3. Sale!TakeAgain(s)
    BY <1>3, <1>7, <2>1, <2>2 DEF Sale!TakeAgain, Stages
  <2> QED
    BY <2>3 DEF Sale!Next
<1> QED
  BY <1>6, <1>7 DEF Stage

\* Any execution of a deduction, in time or late, is a payment, a delivery, or
\* leaves the sale as it is.
LEMMA ExecuteStep ==
  ASSUME TypeInv, PaidInv, KnownInv, NEW s \in Sagas,
         NEW op \in {"DeductBalance", "DeductStock"}, NEW code, Execute(s, op, code),
         at[s] = op \/ stray[s][op] > 0,
         at'[s] = "none" <=> at[s] = "none",
         \A t \in Sagas : t # s => at'[t] = at[t]
  PROVE  Sale!Next \/ UNCHANGED Sale!vars
<1> USE DEF TypeInv, TypeOK
<1>1. CASE UNCHANGED <<tables, done>>
  <2>1. Stages' = Stages
    BY <1>1, StagesKept
  <2> QED
    BY <1>1, <2>1 DEF Sale!vars, tables
<1>2. at[s] = op \/ timeouts[s] > 0
  BY SagaAssumption DEF StrayBounded, Ops
<1>3. at[s] # "none"
  BY <1>2 DEF KnownInv, Known
<1>4. CASE op = "DeductBalance"
  <2>1. DeductBalance(s, code)
    BY <1>4 DEF Execute
  <2>2. \/ UNCHANGED <<tables, done>>
        \/ /\ Buyer[s] \in registered /\ balance[Buyer[s]] >= Amount
           /\ balance' = [balance EXCEPT ![Buyer[s]] = @ - Amount]
           /\ Count(s, "DeductBalance")
           /\ UNCHANGED <<stock, registered>>
    BY <2>1 DEF DeductBalance, ChangeBalance, LOW_BALANCE, USER_NOT_FOUND
  <2> QED
    BY <1>1, <1>2, <1>3, <1>4, <2>2, PayStep
<1>5. CASE op = "DeductStock"
  <2>1. DeductStock(s, code)
    BY <1>5 DEF Execute
  <2>2. \/ UNCHANGED <<tables, done>>
        \/ /\ stock >= Amount /\ stock' = stock - Amount
           /\ Count(s, "DeductStock")
           /\ UNCHANGED <<registered, balance>>
    BY <2>1 DEF DeductStock, ChangeStock, SOLD_OUT
  <2>3. done[s]["DeductBalance"] > 0
    BY <1>5 DEF PaidInv, Covered
  <2> QED
    BY <1>1, <1>2, <1>3, <1>5, <2>2, <2>3, TakeStep
<1> QED
  BY <1>4, <1>5

\* Without rollbacks every step of the sagas is a step of the sale or none.
LEMMA SaleStep ==
  ASSUME TypeInv, PaidInv, SoldInv, KnownInv, [Next]_vars
  PROVE  [Sale!Next]_(Sale!vars)
<1> USE DEF TypeInv, TypeOK
<1>1. ASSUME NEW s \in Sagas, ExecuteSeckillSaga(s) PROVE Sale!Next
  BY <1>1, AcceptStep
<1>2. ASSUME NEW s \in Sagas, Answer(s) PROVE Sale!Next \/ UNCHANGED Sale!vars
  <2>1. PICK code \in Codes : /\ Execute(s, at[s], code)
                              /\ at' = [at EXCEPT ![s] = NextStep(at[s], code)]
    BY <1>2 DEF Answer
  <2>2. at[s] \in {"DeductBalance", "DeductStock"}
    BY <1>2 DEF Answer, SoldInv, Forward, Ops
  <2>3. at'[s] # "none" /\ \A t \in Sagas : t # s => at'[t] = at[t]
    <3>1. NextStep(at[s], code) # "none"
      <4>1. NextStep(at[s], code) \in Ops \cup End
        BY <2>1, <2>2, NextStepType DEF Ops
      <4> QED
        BY <4>1 DEF Ops, End
    <3> QED
      BY <2>1, <3>1
  <2> QED
    BY <2>1, <2>2, <2>3, ExecuteStep
<1>3. ASSUME NEW s \in Sagas, TimeOut(s) PROVE UNCHANGED Sale!vars
  <2>1. Stages' = Stages
    BY <1>3, StagesKept DEF TimeOut
  <2> QED
    BY <1>3, <2>1 DEF TimeOut, tables, Sale!vars
<1>4. ASSUME NEW s \in Sagas, NEW op \in Ops, LateExecution(s, op)
      PROVE  Sale!Next \/ UNCHANGED Sale!vars
  <2>1. op \in {"DeductBalance", "DeductStock"}
    BY <1>4 DEF LateExecution, SoldInv, PaidInv, Covered, Ops
  <2>2. PICK code \in Codes : Execute(s, op, code)
    BY <1>4 DEF LateExecution
  <2>3. stray[s][op] > 0 /\ UNCHANGED at
    BY <1>4 DEF LateExecution
  <2> QED
    BY <2>1, <2>2, <2>3, ExecuteStep
<1>5. ASSUME NEW u \in Users, Register(u) PROVE Sale!Next
  <2>1. Stages' = Stages
    BY <1>5, StagesKept DEF Register
  <2>2. Sale!Join(u)
    BY <1>5, <2>1 DEF Register, Sale!Join
  <2> QED
    BY <2>2 DEF Sale!Next
<1>6. CASE UNCHANGED vars
  <2>1. Stages' = Stages
    BY <1>6, StagesKept DEF vars
  <2> QED
    BY <1>6, <2>1 DEF vars, Sale!vars
<1> QED
  BY <1>1, <1>2, <1>3, <1>4, <1>5, <1>6 DEF Next

\* As the services answer today, the four handlers under DTM implement the sale:
\* whatever is lost, repeated or late, and without repeats if nothing is.
THEOREM Implements ==
  ASSUME RollbackCodes \subseteq {409} PROVE Spec => SaleAsPromised
<1>1. TypeInv /\ PaidInv /\ [Next]_vars => PaidInv'
  BY PaidStep
<1>2. TypeInv /\ PaidInv /\ SoldInv /\ [Next]_vars => SoldInv'
  BY SoldStep
<1>3. TypeInv /\ KnownInv /\ [Next]_vars => KnownInv'
  BY KnownStep
<1>4. TypeInv /\ PaidInv /\ SoldInv /\ KnownInv /\ [Next]_vars
        => [Sale!Next]_(Sale!vars)
  BY SaleStep
<1> QED
  BY <1>1, <1>2, <1>3, <1>4, TypeInit, TypeStep, PaidInit, SoldInit, KnownInit,
     SaleInit, PTL DEF Spec, SaleAsPromised, Sale!Spec

=============================================================================
