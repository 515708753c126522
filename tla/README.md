# A TLA+ verification of simple-seckill

simple-seckill sells a scarce product to many buyers at once. A request is
queued, worked off by a pool of workers, and turned into a distributed
transaction that charges the buyer at one service and takes the goods from the
stock of another. This directory specifies that program in TLA+, checks the
specifications with TLC on small instances and proves theorems about them, for
every value of their constants, with TLAPS. Paths are relative to `src/`.

## 1. The system

Two Go services (kratos, gRPC and HTTP), `app/product` and `app/user`, on one
Postgres, one Redis, etcd and the transaction coordinator DTM. River, a job
queue in the same Postgres, runs inside the product service.

| Part | State | Operations | Code |
|---|---|---|---|
| Seckill requests | `seckill:request:<id>` in Redis: status, reason, TTL; a River job per request | `Seckill` (EnqueueSeckill), `GetSeckillStatus`, `HandleSeckill` | `app/product/internal/{service,biz,data}/product.go`, `worker/worker.go` |
| Lifetime of a request | the TTL of its key | creation with maxWait + 1 h, the update script | `data/product.go:155-210`, `biz/product.go:185` |
| Purchase saga | `products.stock`, `users.balance`, DTM's log of the saga | `ExecuteSeckillSaga`, `DeductBalance`, `DeductStockSaga`, `RestoreStock`, `RestoreBalance`, `Register` | `data/saga.go`, both `service`, `biz` and `data` layers |
| Messaging job | a River job per attempt that passed the submit | `InsertMessagingJob`; its worker logs a line | `worker/worker.go:31-44`, `data/product.go:235` |
| Cache-aside reads | `product:<id>`, `user:<id>` in Redis; singleflight group; redsync lock | `FindByID`, and the `Del` of the four branch operations | both `data` packages |
| Lifecycle | River client with its queues and workers, tracer, pool, Redis client, servers | InitTracer, wireApp, start, stop, cleanup | `server/server.go`, both `data/data.go`, `main.go` and `wire_gen.go` |
| Middleware, logs, generated code | none of the program's own | | `server/*.go`, `pkg/`, `conf/`, `api/` |

### How the parts interact

1. `Seckill` forms an id from the user id and the clock in nanoseconds, writes a
   WAITING record with SETNX (Redis) and inserts a job, unique by that id
   (Postgres). If the insert fails it tries to mark the record FAILED. It answers
   QUEUED and the client polls `GetSeckillStatus`.
2. River gives the job to a worker of the product service, on any replica.
   `HandleSeckill` reads the clock: a request older than maxWait is marked
   DEGRADED and the job is over. Otherwise it writes PROCESSING, submits a saga to
   DTM under a gid made of the request id, inserts a messaging job and writes
   SUCCESS; a refused submit is written as SOLD_OUT, BALANCE_INSUFFICIENT or
   FAILED. An error that is returned makes River try again, up to its limit.
3. DTM, which has answered the submit at once, calls `DeductBalance` at the user
   service and `DeductStockSaga` at the product service. Each is one conditional
   UPDATE. What DTM does about a refusal depends on the error code.
4. Requests and sagas meet in the submit alone: DTM carries a saga out whatever becomes
   of the job, and nothing that happens to the saga changes the status of the request.
5. Reads of users and products go through a cache that the deductions delete from.

### What is hard about it

*Two stores, no transaction.* A request is in Redis and Postgres, and a purchase
in two tables and DTM; each call to any of them may be lost, or take effect and
lose its reply. *Retries of retries.* River repeats attempts, DTM repeats calls;
neither knows what the previous one did. *Stops.* A worker may stop between any
two calls, and River hands its job out again an hour later. *Volatile records.*
Redis has no volume in `docker-compose.yml` or `k8s`. *Time.* maxWait is looked
at once per attempt, and the record's expiry is moved by the script that updates
it. *Late calls.* A call DTM has given up on may be executed after the next ones.
*Concurrent shutdown.* The servers, River among them, are started and stopped by
goroutines of kratos, and the clients they share are closed by `main`.
The full list, at the lines where each one bites, is `hazards` in `PROJECT.json`.

### What makes each part correct

- *Requests*: SUCCESS only for a purchase that DTM has; one purchase a request; a
  queued request has a job and the job ends; a request reported DEGRADED is not
  processed; a status never goes back to WAITING.
- *Lifetime*: a record is not dropped while it is awaited, nor kept for ever.
- *Saga*: no overselling, no balance below zero, payment before delivery, a
  failed saga pays back, every saga ends.
- *Cache*: one reader at a time fills an entry, an entry costs one query, fills do not
  go back in time, an update is followed by the end of the entry, every read returns.
- *Requests and sagas together*: what a status tells the buyer is what becomes of
  the money and the goods.
- *Lifecycle*: nothing uses a client that is closed or not yet open, every job that is
  inserted has a queue and a worker, and a process told to stop exits.

## 2. The modules

| Module | Models |
|---|---|
| `SeckillRequest` | the RPC, the record, the job, HandleSeckill, River |
| `SeckillSaga` | the two tables, the four branch operations, DTM |
| `RequestTTL` | the arithmetic of the record's expiry |
| `Cache` | the reads of both services through Redis, and the writers' `Del` |
| `FlashSale` | an abstract sale: what SeckillSaga is shown to implement |
| `Storefront` | an abstract shop: what SeckillRequest is shown to implement |
| `Purchase` | SeckillRequest and SeckillSaga composed |
| `Lifecycle` | a process of either service from `main()` to its exit |
| `MCSeckillRequest`, `MCSeckillSaga`, `MCRequestTTL`, `MCCache`, `MCPurchase`, `MCLifecycle` | the small instances for TLC |
| `SeckillRequest_proofs`, `SeckillRequestStable_proofs`, `SeckillSaga_proofs`, `SeckillSagaSale_proofs`, `RequestTTL_proofs`, `Cache_proofs`, `Purchase_proofs`, `Lifecycle_proofs` | theorems and proofs |

### SeckillRequest

| Variable or action | Code |
|---|---|
| `call[c]` | the program counter of EnqueueSeckill (`biz/product.go:176`) and its answer |
| `record[i]` | `SeckillRequest.Status` in Redis, `"absent"` without the key |
| `job[i]`, `attempt[i]` | River's row for the job |
| `handler[i]`, `err[i]` | the program counter and the error of HandleSeckill (`:138`) |
| `overdue[i]` | `waited > maxWait`: time, in the one bit the code looks at |
| `sagas`, `messages` | what DTM and River hold on behalf of the request |
| `SetNX`, `Update` | `CreateSeckillRequest`, `UpdateSeckillRequest` (`data/product.go:155, 200`) |
| `CreateSeckillRequest`, `InsertSeckillJob`, `MarkEnqueueFailed` | the three calls of EnqueueSeckill |
| `CheckAge` ... `MarkFailure` | the calls of HandleSeckill and executeSeckill, one action per remote call |
| `CrashCall`, `CrashHandler` | a stop of the process between two calls |
| `Work`, `FinishJob`, `RescueJob` | River: at most `queue_workers` at once, retry, rescue |
| `MaxWaitElapses`, `RecordExpires`, `RedisRestart` | time, the TTL, the loss of Redis |

Every remote call has four outcomes: done or not, reported or not (a call that
was reported as done was done). A process stops between calls only, because a
stop inside one is a call whose reply nobody reads. Attempts of one job do not
overlap: River cancels an attempt after a minute and rescues its job after an
hour. (`Submit` takes no context, so an attempt could hang for that hour: see
section 5.) An id is made of nanoseconds: two calls
share one only if they read the same clock value, on two replicas for instance,
and a later call never forms the id of an earlier one; `BeginSeckill` says so.

The gid is a function of the request alone. `Gid` has the attempt as a parameter
so that this can be broken: see *Mutants*.

### Storefront, and how SeckillRequest implements it

`Storefront` is what a buyer may rely on, without calls, jobs, attempts and lost replies. A client
that is told QUEUED holds a ticket. While the ticket is open the request may be bought, and its status
goes on: to SUCCESS only once it was bought, to DEGRADED only when it is late, after which it
is not taken up again. Besides, at any time, a client that was not told QUEUED may have its request fail, and the store may
lose a status; nothing else moves the status of a request whose ticket is closed. If the store keeps what it is given (`~Forgetful`), a status is opened
before its ticket and only then, and one client per request is told QUEUED.

| Storefront | SeckillRequest!Shop |
|---|---|
| `queued` | `Told`: the calls that returned QUEUED |
| `ticket[i]` | `Ticket(i)`: none without a job, open while the job is available or running, closed when it was completed or discarded |
| `late`, `bought` | `Late`: `overdue`; `Ordered`: the requests that have a saga at DTM |
| `status` | `record` as it is |
| `Forgetful` | `RedisVolatile` |

### SeckillSaga

`stock` and `balance` are the columns of the two tables, `at[s]` the call that
DTM makes next, `stray[s][op]` the calls it has given up on and that are still
under way, `done[s][op]` a history of the changes each saga made. The handlers
`DeductBalance`, `DeductStock`, `RestoreStock` and `RestoreBalance` are the SQL
statements with the codes their callers get: 400 LOW_BALANCE, 404 USER_NOT_FOUND
and SOLD_OUT, 200 for everything else, the restorations that matched no row
included. A DB_ERROR is a call without an answer DTM acts on, like a lost reply.

`RollbackCodes` is the set of codes on which DTM turns a saga round. Over gRPC
that is Aborted, and kratos translates only 409 to Aborted: the system as it
stands is `{409}`, which no service answers. The compensations are never called
then, so they are examined with the codes that the services do answer, `{400, 404}`:
these runs say what the compensations are worth once DTM is told of a refusal.

### FlashSale, and how SeckillSaga implements it

In `FlashSale` a purchase is accepted, paid and bought, each in one step, from money
and goods that are there; with `Repeats`, a payment or a delivery that was made may be
made again. `SeckillSaga!Sale` maps the two tables to it as they are, and the *stage* of a
purchase to what the handlers have done for it (`done`), not to what DTM knows of
it (`at`): a charge whose answer was lost is a payment all the same, and so is one that is
executed late. `Repeats` is `MaxTimeouts > 0`. The mapping holds for `{409}`, the system as it
stands; `FlashSale` knows no refunds.

### Purchase

`Purchase` holds the variables of both parts. `Submit(i)` is the step they share:
`SeckillRequest!ExecuteSeckillSaga` with, if DTM takes the gid for the first time,
`SeckillSaga!ExecuteSeckillSaga` of the saga of that name. Every other step is one of either
part and leaves the other alone. `Rivals` are sagas of requests that are not followed:
they compete for the stock and for the same buyer's balance.

`Submit` returns when DTM has stored the saga, so a refused deduction is never its error:
SOLD_OUT and BALANCE_INSUFFICIENT, which HandleSeckill maps from such errors
(`biz/product.go:150-155`), are reached by no request. `SubmitErrors` is therefore `{"Other"}` here,
while `volatile` keeps all the errors that the code handles.

### Lifecycle

| Variable or action | Code |
|---|---|
| `service`, `config` | which of the two binaries; `queue_name` and `queue_workers` of its configuration |
| `main` | the next step of `main()`: `InitTracer`, the configuration, the providers of `wireApp` in order, `app.Run`, the three closes of `cleanup`, the flush of the traces |
| `client`, `queues`, `workers` | the tracer, the pool, the Redis client; what the River client was made with |
| `srv[s]`, `ended`, `cancelled` | kratos' App: the servers, the stops that have returned, the context |
| `calls[s]`, `jobs` | the live load |
| `InitTracer`, `LoadConfig`, `NewPgxPool`, `NewRiverClient`, `NewData`, `NewEtcdClient`, `RegisterRiverWorkers` | the steps of `main()` and `wireApp` that can fail or that matter here, each with its failure |
| `Start`, `Stop`, `StopReturns`, `Drained` | the goroutines of `Run` and the servers |
| `Register`, `Signal`, `RunReturns` | the other steps of `Run` |
| `StopRiver`, `CloseRedis`, `ClosePool` | the cleanup (`data/data.go:79-82`; the user service has no River) |
| `Flush` | `defer cleanupTrace()` (`main.go:62`), which runs last, and after a panic too |

A panic before `defer cleanup()` flushes the traces and leaves the other clients to the
exit of the process; one in `InitTracer` comes before anything is deferred. `deserted`
is a history: `Run` returned from a failed registration and left its servers running.
`UsecaseQueue` and `ClientQueue` are the same default written twice in the code, so they are
two definitions.

### RequestTTL

The script reads the TTL in seconds, which Redis rounds, and writes the record
with that expiry; a TTL of 0 becomes an hour. `left` is what Redis has left of the
record, `due` what is left of the lifetime given at creation, in milliseconds.

### Cache

`FindByID` is the same code in both services, so one key stands for any product or
user, and the row for the number of updates it has seen.

| Variable or action | Code |
|---|---|
| `row`, `dels` | the row, and the updates whose `Del` is still to come |
| `cache`, `lock` | the two keys in Redis: the entry, and redsync's lock with the token of its holder |
| `pc[r]`, `got[r]` | where a call of FindByID stands; what the leader of a flight has read |
| `GetCache`, `Do` | the first look, `sg.Do`: lead a flight or join the one of the replica |
| `Lock`, `LoseLock`, `ReadAgain` | `LockContext`, and what follows its error |
| `DoubleCheck`, `Query`, `Fill`, `Unlock` | the section under the lock; with `Unlock` the flight ends |
| `UpdateRow`, `Del` | the four branch operations, as far as the cache sees them |
| `Stop`, `ExpireLock`, `ExpireEntry`, `RedisRestart` | a replica that stops; the expiries; the loss of Redis |

`LocksHold` says that a lock outlasts the section it protects. The lock lives for
five seconds and a call for three (`timeout: 3s` in both `configs`), and each call of
the section takes the context of the request; only a pause of the process, or a
restart of Redis in the middle of a section, takes the lock away. A lock whose reply
was lost (`Orphan`) stays until it expires. `rowThen`, `newest`, `blind` and `kept`
are history.

### Outside the repository

Redis, River, DTM and Postgres are not under `src/`. They are modelled from how
the code uses them and marked external in `PROJECT.json`: River runs a job at
least once, oldest first, up to its attempts, and keeps one job per `request_id`;
DTM keeps one saga per gid, calls an operation until it has an answer it can act on and
compensates the refused branch along with the completed ones; SETNX, the script and
an UPDATE are atomic. kratos' `App.Run` starts and stops its servers in goroutines of their
own and returns when all of them have, or at once if the registration fails; River's `Stop`
waits for live jobs, does nothing before `Start`, and River refuses to start without workers.

## 3. What TLC checks

| Run | Instance | What it shows |
|---|---|---|
| `volatile` | 2 calls, 1 id, 3 attempts, every error, Redis may lose its keys | `TypeOK`, `SuccessIsBacked`, `OnePurchasePerRequest`, `QueuedIsNeverLost`, `DegradedIsNotProcessed`, `NeverBackToWaiting`: what a request promises in spite of everything |
| `purchase` | 2 calls on 1 id, 2 attempts, a rival saga of the same buyer, goods for one of them, `{409}`, no lost call of DTM, Redis keeps its keys | `SuccessIsKept`, `CompletedIsNotWaiting`, `DegradedAtFirst`: what statuses say, SUCCESS that the saga is under way or done, not undone and not repeated; `SuccessIsSold`: goods follow a SUCCESS unless money or stock is short; `QueuedJobFinishes`; `SoldAsPromised`: the composition implements `FlashSale` with its fairness; `PromiseKept`: its requests implement `Storefront`, so that of the two calls one at most is told QUEUED |
| `pool` | 2 calls, 2 ids, one worker, 1 attempt | `QueuedJobFinishes` when requests compete for the worker, one of them stopped and rescued, or failing |
| `sale` | 3 sagas, 2 buyers, one not registered at first, stock and balance short, 2 given-up calls each, `{409}` | `TypeOK`, `NoOversell`, `PaidBeforeDelivered`; `TablesMatchLog`: stock and balances account for the sagas in DTM's log; `NoTimeoutNoRepeat`: an amount is deducted twice only after a lost call; `SaleAsPromised`: SeckillSaga implements `FlashSale` |
| `rollback` | the same with 1 given-up call each, `{400, 404}` | `SucceededIsComplete`, `FailedIsRefunded`, `RefundIsLast`, `SagaFinishes`: the compensations. A saga that failed has charged no more often than it has paid back, but for charges DTM gave up on: one that is executed late, beside its repetition, is refunded by nobody |
| `reads` | 3 readers on 2 replicas, 2 updates of the row, `LocksHold` | `TypeOK`, `OneFiller`, `OneFlightPerReplica`, `OneQueryPerMiss`, `CurrentEntryIsDropped`, `FillsNeverGoBack`, `ReaderReturns` |
| `life` | 3 updates of one record at and around its last seconds | `TypeOK`, `NotDroppedEarly`, `NeverOutlivesANewRecord`, `UpdateKeepsTheRecord` |
| `lifecycle` | both services, 3 names and 3 sizes of the queue, up to 2 calls of each server and 2 jobs, any step of the wiring, server or registration may fail, one signal | `TypeOK`, `JobsUseOpenClients`, `CallsUseOpenClients`, `JobsAreServed`; `ShutdownEnds`: a process told to stop exits |

Four runs end in a counterexample. Each refutes what the repository says of
itself; `findings` in `PROJECT.json` quotes the words.

| Run | Refuted | Counterexample |
|---|---|---|
| `atomic` | `EnqueueIsAtomic` | SETNX takes effect and its reply is lost, or the process stops before the insert: a WAITING record that no job will settle |
| `final` | `FinalStatusIsFinal` | an attempt that River repeats or rescues writes PROCESSING over SUCCESS or FAILED |
| `stuck` | `SagaFinishes` | a refused deduction answers 400 or 404; DTM repeats it for ever, and the buyer charged before stays charged |
| `repeated` | `DeductedOnce` | DTM repeats a deduction whose answer was late; both executions take from the stock |

### Bounds, and why they are enough

- Two calls are what a collision of ids needs, and a third would repeat the part of
  the second: SETNX and the unique insert see one competitor at a time. Requests
  with different ids share nothing but the workers and the sale, so all runs but `pool` have
  one id, and in `purchase` the others are `Rivals`.
- `MaxAttempts = 3` gives a first attempt, one between others and a last one.
  River's own limit is 25. `pool` has one attempt each: its question is the
  competition for the worker. (With two attempts it has 1.9 million states, too many for its liveness property.) `purchase` has two, the first and the last: what it asks of
  attempts is whether an earlier one has submitted the saga.
- Stock and balances are short by less than one purchase, so that every saga can be the one
  that is refused, for either reason; late executions can exhaust both.
- `MaxTimeouts` bounds the calls of a saga DTM gives up on. With two of them two late
  calls, of the same or of different operations, overtake each other.
- Three readers on two replicas are a leader with a follower and a rival. Two updates fall
  before, between and after the query and the fill, and let the `Del` of the first come last.
- In `purchase` the stock is enough for one of two purchases and the balance for both, so the
  request may be sold, or come too late; the buyer who cannot pay is in `sale`.
- `MaxLive = 2` lets a call or a job end while another lives on when the servers stop. Queue sizes
  are on both sides of `<= 0`; the names are none, that of River's own queue, and another.
- `MaxUpdates = 3` in `life`, and lapses around the whole and half seconds at the end of a record,
  where rounding and the fallback act.
- `CHECK_DEADLOCK FALSE` throughout: when all calls, jobs and sagas are over, nothing is
  left to do. The liveness properties say that they do get there.

Symmetry is not used: instances are small, and some runs check liveness.

### Fairness

`QueuedJobFinishes` assumes that River works a job that is available again and
again (strong fairness of `Work`: it picks jobs oldest first), that a live handler
makes its next call and River notes its return (weak fairness: the worker goroutine
runs, and every call to Redis, DTM and Postgres has a timeout or ends with its
connection), and that it rescues stuck jobs (its maintenance service). Nothing
is assumed of crashes, lost replies or Redis: an unlucky job ends as discarded.
`ReaderReturns` assumes that a reader's goroutine makes its next step, `LockContext`
among them, which ends after 32 tries or with the deadline of the call. It does not
assume that a lock left behind ever expires.
`SagaFinishes` assumes that DTM goes on calling (its cron takes up every unfinished saga) and,
with `MaxTimeouts`, that a saga does not lose its answers for ever. Nothing makes late calls
arrive, or users register. `SuccessIsSold` and the fairness of `FlashSale` rest on the
two, with no lost calls.
`ShutdownEnds` assumes that the goroutines of `Run` and `main` go on, that calls end (both
servers have a deadline) and that jobs end: River's Stop in the cleanup waits for them
without a deadline. Nothing makes a signal arrive, a client open or a job be fetched.

### Mutants

Next to some definitions stands a form of them with a plausible bug in it (a gid
per attempt, a plain SET, an error that is dropped, an UPDATE without its
condition, compensations swapped). It is used nowhere. `mutants` in `PROJECT.json`
says for every property of a passing run which of them, put in the place of the original,
makes TLC find that property violated: the property does say something about the code.

## 4. What is proved

TLAPS checks these for every number of calls, requests, attempts, workers, sagas,
users, readers, replicas, configurations and loads, under the modules' own assumptions on their constants.

| Theorem | Assuming besides | Says |
|---|---|---|
| `SeckillRequest_proofs!Typing` | | `TypeOK`: with it, attempts and messages are bounded by `MaxAttempts` |
| `SuccessBacked`, `OnePurchase`, `QueuedHasJob` | | the three invariants of `volatile` |
| `DegradedStays`, `WaitingIsLeftForGood` | | its two action properties |
| `SeckillRequestStable_proofs!OneQueuedCall`, `CompletedNotWaiting` | `~RedisVolatile` | `OneQueuedCallPerRequest`, `CompletedIsNotWaiting` of requests by themselves |
| `KeepsPromise` | | `PromiseKept`: every step of the requests is one of `Storefront`, or none, with or without the loss of Redis |
| `SeckillSaga_proofs!Typing` | | `TypeOK`: no stock or balance below zero, whatever is repeated or late |
| `PaidFirst`, `SuccessIsComplete` | | `PaidBeforeDelivered`, `SucceededIsComplete`, with or without rollbacks |
| `NothingOversold` | `RollbackCodes \subseteq {409}` | `NoOversell` for the system as it stands |
| `Refunded` | | `FailedIsRefunded`: charges against refunds, whatever is repeated or late |
| `StockGoesBackFirst` | | `RefundIsLast`, with or without rollbacks |
| `SeckillSagaSale_proofs!NoRepeat` | | `NoTimeoutNoRepeat` |
| `Implements` | `RollbackCodes \subseteq {409}` | `SaleAsPromised`: every step of the sagas is one of `FlashSale`, or none |
| `Ledger` | `RollbackCodes \subseteq {409}` | `TablesMatchLog` |
| `NeverUndone` | `RollbackCodes \subseteq {409}` | `OnlyForward`: no compensation is ever executed, no accepted saga fails |
| `Purchase_proofs!RequestPart`, `SagaPart` | | the composition satisfies both of its parts' specifications |
| `Promised` | | `PromiseKept` of the composition |
| `CompletedNotWaiting` | `~RedisVolatile` | the theorem on requests, of the composition |
| `Sold` | `RollbackCodes \subseteq {409}` | the composition implements `FlashSale`, fairness apart |
| `FirstDegraded` | | `DegradedAtFirst` |
| `SuccessKept` | `RollbackCodes \subseteq {409}` | `SuccessIsKept`: what SUCCESS is worth, from the status in Redis to the tables |
| `TablesAgree` | `RollbackCodes \subseteq {409}` | `TablesMatchLog`, of the composition with its retried requests |
| `Lifecycle_proofs!Typing`, `JobsKeepClients`, `CallsKeepClients`, `JobsHaveWorkers` | | the invariants of `lifecycle` |
| `Cache_proofs!Typing`, `EntryIsDropped` | | `TypeOK`, `CurrentEntryIsDropped`, with or without `LocksHold` |
| `OneFlight` | | `OneFlightPerReplica`, with or without `LocksHold` |
| `Exclusion`, `OneQuery`, `FillsGoForward` | `LocksHold` | the other safety properties of `reads` |
| `RequestTTL_proofs!Typing`, `RecordLivesOn`, `RecordEnds`, `UpdateKeeps` | | the properties of `life` |

Of the invariants `OneFlightPerReplica` alone is inductive as it stands, given `TypeOK`. What is added to the others, and why:

- `Bounded`: an attempt is counted when its handler starts and inserts at most one message;
  without it `messages[i] <= MaxAttempts` has nothing to rest on.
- `BackedInv`: past the submit (`"message"`, `"success"`) a handler has its saga. A record
  reads SUCCESS only through that step.
- One purchase a request follows from `s.gid = s.request` for all sagas.
- `DegradedInv`: a record is DEGRADED only when its request is overdue and no handler
  is past the check of its age. As overdue is never undone, none gets past it later.
- `Running`, `Kept` (`StableInv`): while Redis keeps its keys, the record of an admitted call or of a job is
  there until the request is overdue and all calls on its id are over. So SETNX
  admits no second call while one could still be told QUEUED.
- `SettledInv`: from PROCESSING on, no record is WAITING; a new one would need SETNX on a
  missing record, which `Kept` excludes.
- `Behind`, `ShopInv`: for `Storefront` that a call about to insert finds no job while Redis keeps its keys, so
  that the one who is told QUEUED is the one whose insert opened the ticket; and the invariants above, which put
  each write of a status between the opening and the closing of the ticket.
- `StrayBounded`: a call under way late has been given up on, each once.
- `Covered` (`PaidInv`): a saga at, past, or with a late call of `DeductStock` has been charged; a
  saga on its way forward has no compensation done or under way.
- `SoldInv`: without rollbacks sagas only go forward, every saga that gets to succeeded
  brings its own deduction, and the rest of the deductions only make the stock smaller.
- `LedgerInv`: with `TablesMatchLog`, that a saga past its charge has a registered buyer. Each deduction that takes
  effect and is answered moves its saga into the count; a late one belongs to a saga that lost a call (`StrayBounded`).
- `OnlyForward`: without rollbacks no saga turns round, so nothing is under way that could give anything back.
- `UndoneInv`: a saga gets to `RestoreBalance` only past `RestoreStock` or without a delivery,
  done or under way, and to failed only past a refund.
- `RefundInv`: the charges of a saga, executed or under way, are at most those DTM gave up on and the one
  that was answered. That one found its buyer registered, and users stay registered, so the refund finds him too.
- `KnownInv`: as long as no call of a saga was given up on, what DTM knows of it (`at`) is
  what was done for it.
- `FirstInv`: up to the submit of its first attempt a request has no saga, and it is
  reported DEGRADED there only from a step that the submit does not follow.
- `AcceptedInv`: a request has a saga under way or over (`at`) if and only if DTM has its gid (`sagas`). It ties the two
  halves of the composition together: SUCCESS is about `sagas`, the tables about `at`.
- `Shape` (`IInv` of Lifecycle): which clients each step of `main` has open (`Opened`), that only
  started servers have work (`LoadIsServed`), and that none is started once `Run` has returned, unless
  it deserted them (`Returned`): so what the cleanup finds stopped stays stopped.
- `Copies`: no copy of the row, in the cache or in a reader's hands, is ahead of the row.
- `SectionInv`: inside its section a reader holds the lock; between the query and the fill
  nobody else can have filled the cache, so what it has is no older than `newest`, and
  a miss it has seen is still one.

The proofs do not repeat the actions for each property: `RecordStep` says what any
step may do to a record and `ProgressStep` what it may do to handlers and sagas,
one step per action; `ExecuteType`, `ExecuteEffect` and `ExecuteStock` say what any execution
of a handler does to the tables. The invariants follow from these.

*The refinements.* An execution of `DeductBalance` that takes effect is `Pay`, or `PayAgain` if the
purchase was paid before (`PaidInv` and `KnownInv` say when that can be); one of `DeductStock` is `Take` or
`TakeAgain`, for `PaidInv` has every delivery, late ones included, paid first. An
accepted saga is `Accept`, a registration `Join`, and everything else changes neither the tables
nor a stage. For the shop, `CreateSeckillRequest` is `Post` or nothing, `InsertSeckillJob` is `Issue` or nothing if its reply is lost and `Admit`
if it is not, `MarkEnqueueFailed` is `Withdraw` or nothing, `FinishJob` and `RescueJob` are `Close` or nothing, and the calls of a handler are `Process`,
`Buy`, `Succeed`, `Refuse` or `Degrade` if they take effect. `UpdateTells` and `SameView` say it once for all writes of a
record and for all steps that show nothing. *The composition.* Each step of `Purchase` is one of a part or leaves
its variables alone, so both specifications follow, and with them every theorem about the parts:
`ReqP` and `SaleP` are the proof modules, instantiated.

Only model-checked: `QueuedJobFinishes`, `SagaFinishes`, `ReaderReturns`, `SuccessIsSold`, `ShutdownEnds` and the
fairness part of `SoldAsPromised` (liveness is out of TLAPS's reach), and the four refutations.

## 5. What is not modelled

- *Stale entries*: a fill that overlapped an update leaves an old row in the cache until it
  expires, and a reader that loses the lock may end with an error although the row exists.
  `Cache` allows both, as the code does; no document of the repository rules them out.
- *A lock that expires under its holder*: `reads` has `LocksHold`. `OneFlight`, `EntryIsDropped` and `Typing` are proved
  without it; `OneFiller`, `OneQueryPerMiss` and `FillsNeverGoBack` are not true without it, across replicas.
- *Clocks that disagree*: the age of a job is measured on two clocks, of the replica that enqueued it and of the one
  that runs it (`biz/product.go:139`). `overdue` is one bit that never goes back, so `DegradedIsNotProcessed` and
  its theorem assume that they agree; with a slower clock a later attempt may take up a DEGRADED request again.
- *Other callers of the branches*: the four operations are served to anyone (`DeductStockSaga` over HTTP too,
  `api/product/v1/product.proto:24-29`). `SeckillSaga` has DTM as their only caller, as nothing else in the repository calls them.
- *The narrowing* of an amount from int64 to int32 at `app/user/internal/service/user.go:41`: the product
  service sends an int32 widened to int64, and nothing else in the repository calls the method.
- *Two live attempts of one job*: an attempt that hangs in `Submit` (which takes no context) for the hour after
  which River rescues its job. Its context is cancelled by then, so it writes no status late; what its return does to
  the row of the job is River's affair. The gid, and with it `OnePurchasePerRequest`, does not depend on it.
- *Lost calls in `purchase`*: a charge that took the last of a balance, repeated after a lost answer, is refused
  for ever, and the goods are not handed over. `SaleAsPromised` allows that, `SuccessIsSold` would not.
- *A deserted `Run`*: when the registration fails the cleanup runs beside live servers. `Lifecycle` has the step, and
  its two properties on clients exclude what follows.
- *The expiry of a record to the second*: the update script preserves the TTL up to rounding, and gives a record in its
  last half second another hour; `NotDroppedEarly` and `NeverOutlivesANewRecord` say what remains true.
- *Prices*: the code charges one unit of balance per unit of stock; so does the model.
- *Middleware, logs, the content of traces, deployment*: no state of the program's own. The rate limiter in front of `Seckill`
  refuses calls before they begin. `NewUserClient` and `NewDiscovery` are called by nobody.
- *Generated code*: 3917 of the 6032 lines of Go are protobuf messages, gRPC and HTTP stubs and error helpers, and
  more are interfaces, constructors and imports. The codes of the errors and the SQL are
  modelled; the rest has no behaviour of the program's own to specify, so the modules
  map most of the hand-written code that changes state, and still a small share of all lines.

## 6. Plan

Done: the request and its purchase, which the program is for (`SeckillRequest`, `SeckillSaga`,
`RequestTTL`), then `Cache`, then the abstract sale and its refinement, the composition, the life of a process, and the
abstract shop and its refinement, each with its proofs. Left:

1. Attempts that overlap, in SeckillRequest, once the behaviour of River's completer towards an attempt it has
   given up on can be pinned down.
2. `FlashSale` with refunds, for the day DTM is told of refusals; the compensations of a refused branch
   then need a guard that the code does not have.

Runs stay one per question: as the composition answers what a run of a part asked, that run is dropped.
