----------------------------- MODULE Lifecycle -----------------------------
(***************************************************************************)
(* A process of the product or the user service from main() to its exit:   *)
(* wireApp opens the clients one by one, app.Run starts the servers        *)
(* concurrently and stops them concurrently, and the deferred cleanup      *)
(* closes the clients that calls and jobs use.                             *)
(*                                                                         *)
(* kratos' App, its two RPC servers and the River client are outside the   *)
(* repository.  Run starts each server in a goroutine of its own and lets  *)
(* another one stop it once its context is cancelled: by a signal, or by a *)
(* server that fails to start.  It returns when all of these are done; but *)
(* a registration that fails makes it return at once, servers running.     *)
(* An RPC server stops when its calls have ended, which their deadline     *)
(* (3s) sees to; the River client when its jobs have, or Stop times out.   *)
(***************************************************************************)
EXTENDS Integers, FiniteSets

CONSTANTS
  QueueNames,     \* values of queue_name in a configuration
  QueueWorkers,   \* values of queue_workers in a configuration
  MaxLive         \* bound: calls of one server, and jobs, live at a time

ASSUME LifecycleAssumption ==
  /\ QueueNames \subseteq STRING
  /\ QueueWorkers \subseteq Int
  /\ MaxLive \in Nat

VARIABLES
  service,    \* "product" or "user"
  config,     \* the values of its configuration file
  main,       \* the next step of main()
  client,     \* the state of the tracer, the pool and the Redis client
  queues,     \* the queues of the River client, and the MaxWorkers of each
  workers,    \* the kinds of jobs in the Workers container
  srv,        \* srv[s]: the state of server s
  cancelled,  \* is Run's context cancelled?
  ended,      \* servers whose Stop, called by Run, has returned
  calls,      \* calls[s]: live calls of RPC server s
  jobs,       \* live jobs
  deserted    \* did Run return from a failed registration?

vars == <<service, config, main, client, queues, workers, srv, cancelled, ended,
          calls, jobs, deserted>>

wiring == <<service, config, client, queues, workers>>
load   == <<calls, jobs>>

-----------------------------------------------------------------------------
RpcServers == {"grpc", "http"}

\* The user service has no River server.
Servers == IF service = "product" THEN RpcServers \cup {"river"} ELSE RpcServers

Kinds == {"seckill.request", "order.messaging"}

Clients == {"tracer", "pool", "redis"}

Steps == {"tracer", "config", "pool", "river", "redis", "etcd", "workers", "run",
          "announce", "wait", "stopRiver", "closeRedis", "closePool", "flush",
          "panicked", "exited"}

\* Mutant of Workers: queue_workers as it stands.
WorkersAsConfigured(n) == n

\* The MaxWorkers of the seckill queue.
Workers(n) == IF n <= 0 THEN 10 ELSE n

\* The queue that NewRiverClient serves.
ClientQueue(name) == IF name = "" THEN "seckill" ELSE name

\* Mutant of UsecaseQueue: no default.
QueueAsConfigured(name) == name

\* The queue that EnqueueSeckill inserts into: NewProductUsecase has a default of
\* its own.
UsecaseQueue(name) == IF name = "" THEN "seckill" ELSE name

TypeOK ==
  /\ service \in {"product", "user"}
  /\ config \in [queue_name : QueueNames, queue_workers : QueueWorkers]
  /\ main \in Steps
  /\ client \in [Clients -> {"none", "open", "closed"}]
  /\ DOMAIN queues \subseteq QueueNames \cup {"default", "seckill"}
  /\ \A q \in DOMAIN queues : queues[q] \in Nat \ {0}
  /\ workers \subseteq Kinds
  /\ srv \in [RpcServers \cup {"river"} -> {"off", "up", "draining", "down"}]
  /\ cancelled \in BOOLEAN
  /\ ended \subseteq Servers
  /\ calls \in [RpcServers -> 0..MaxLive]
  /\ jobs \in 0..MaxLive
  /\ deserted \in BOOLEAN

Init ==
  /\ service \in {"product", "user"}
  /\ config \in [queue_name : QueueNames, queue_workers : QueueWorkers]
  /\ main = "tracer"
  /\ client = [c \in Clients |-> "none"]
  /\ queues = [q \in {} |-> 0]
  /\ workers = {}
  /\ srv = [s \in RpcServers \cup {"river"} |-> "off"]
  /\ cancelled = FALSE
  /\ ended = {}
  /\ calls = [s \in RpcServers |-> 0]
  /\ jobs = 0
  /\ deserted = FALSE

-----------------------------------------------------------------------------
(* main() up to Run. An error ends it in a panic, which runs what has been *)
(* deferred: the flush of the traces, but not the cleanup of wireApp yet.  *)

InitTracer ==
  /\ main = "tracer"
  /\ \/ client' = [client EXCEPT !.tracer = "open"] /\ main' = "config"
     \/ main' = "exited" /\ UNCHANGED client
  /\ UNCHANGED <<service, config, queues, workers, srv, cancelled, ended, load, deserted>>

\* The configuration is read and scanned.
LoadConfig ==
  /\ main = "config"
  /\ main' \in {"pool", "panicked"}
  /\ UNCHANGED <<wiring, srv, cancelled, ended, load, deserted>>

NewPgxPool ==
  /\ main = "pool"
  /\ \/ /\ client' = [client EXCEPT !.pool = "open"]
        /\ main' = IF service = "product" THEN "river" ELSE "redis"
     \/ /\ client' = [client EXCEPT !.pool = "closed"]
        /\ main' = "panicked"
  /\ UNCHANGED <<service, config, queues, workers, srv, cancelled, ended, load, deserted>>

\* The migration of River's tables, then the client, which River may refuse. The two
\* entries of the literal of its queues are one if queue_name is "default": the later
\* one holds.
NewRiverClient ==
  /\ main = "river"
  /\ \/ LET name == ClientQueue(config.queue_name) IN
        /\ queues' = [q \in {"default", name} |->
                        IF q = name THEN Workers(config.queue_workers) ELSE 10]
        /\ main' = "redis"
        /\ UNCHANGED client
     \/ /\ client' = [client EXCEPT !.pool = "closed"]
        /\ main' = "panicked"
        /\ UNCHANGED queues
  /\ UNCHANGED <<service, config, workers, srv, cancelled, ended, load, deserted>>

\* The user service closes its pool when Redis does not answer, the product
\* service leaves it to the exit of the process.
NewData ==
  /\ main = "redis"
  /\ \/ /\ client' = [client EXCEPT !.redis = "open"]
        /\ main' = "etcd"
     \/ /\ client' = [client EXCEPT !.redis = "closed",
                        !.pool = IF service = "product" THEN @ ELSE "closed"]
        /\ main' = "panicked"
  /\ UNCHANGED <<service, config, queues, workers, srv, cancelled, ended, load, deserted>>

NewEtcdClient ==
  /\ main = "etcd"
  /\ main' \in {"panicked", IF service = "product" THEN "workers" ELSE "run"}
  /\ UNCHANGED <<wiring, srv, cancelled, ended, load, deserted>>

\* Mutant of RegisterRiverWorkers: one worker is forgotten.
RegisterSeckillWorker ==
  /\ main = "workers"
  /\ workers' = {"seckill.request"}
  /\ main' = "run"
  /\ UNCHANGED <<service, config, client, queues, srv, cancelled, ended, load, deserted>>

RegisterRiverWorkers ==
  /\ main = "workers"
  /\ workers' = Kinds
  /\ main' = "run"
  /\ UNCHANGED <<service, config, client, queues, srv, cancelled, ended, load, deserted>>

-----------------------------------------------------------------------------
(* app.Run.                                                                *)

Run ==
  /\ main = "run"
  /\ main' = "announce"
  /\ UNCHANGED <<wiring, srv, cancelled, ended, load, deserted>>

\* The process is past Run's first lines and has not exited.
Running ==
  main \in {"announce", "wait", "stopRiver", "closeRedis", "closePool", "flush"}

Goto(s, state) == srv' = [srv EXCEPT ![s] = state]

\* The goroutine that starts s. An RPC server that was stopped before is down at
\* once; River takes no notice of a Stop that came before its Start.
Start(s) ==
  /\ Running /\ srv[s] = "off"
  /\ \/ s \in RpcServers /\ s \in ended /\ Goto(s, "down") /\ UNCHANGED cancelled
     \/ s \in RpcServers /\ s \notin ended /\ Goto(s, "up") /\ UNCHANGED cancelled
     \/ s = "river" /\ workers # {} /\ Goto(s, "up") /\ UNCHANGED cancelled
     \/ Goto(s, "down") /\ cancelled' = TRUE
  /\ UNCHANGED <<wiring, main, ended, load, deserted>>

\* The instance is registered with etcd.
Register ==
  /\ main = "announce"
  /\ \/ main' = "wait" /\ UNCHANGED deserted
     \/ main' = "stopRiver" /\ deserted' = TRUE
  /\ UNCHANGED <<wiring, srv, cancelled, ended, load>>

\* SIGTERM, SIGINT or SIGQUIT.
Signal ==
  /\ main = "wait" /\ ~cancelled
  /\ cancelled' = TRUE
  /\ UNCHANGED <<wiring, main, srv, ended, load, deserted>>

\* The goroutine that stops s: it takes no more work,
Stop(s) ==
  /\ Running /\ cancelled /\ s \notin ended
  /\ srv[s] = "up"
  /\ Goto(s, "draining")
  /\ UNCHANGED <<wiring, main, cancelled, ended, load, deserted>>

\* and returns when the server is down, or had not been started, or, of River,
\* when Stop times out.
StopReturns(s) ==
  /\ Running /\ cancelled /\ s \notin ended
  /\ srv[s] \in {"off", "down"} \/ (s = "river" /\ srv[s] = "draining")
  /\ ended' = ended \cup {s}
  /\ UNCHANGED <<wiring, main, srv, cancelled, load, deserted>>

Drained(s) ==
  /\ Running /\ srv[s] = "draining"
  /\ IF s = "river" THEN jobs = 0 ELSE calls[s] = 0
  /\ Goto(s, "down")
  /\ UNCHANGED <<wiring, main, cancelled, ended, load, deserted>>

\* Every goroutine of Run has returned: the Start of an RPC server when it is
\* down, that of River at once.
RunReturns ==
  /\ main = "wait"
  /\ ended = Servers
  /\ \A s \in Servers : srv[s] # "off"
  /\ \A s \in RpcServers : srv[s] = "down"
  /\ main' = "stopRiver"
  /\ UNCHANGED <<wiring, srv, cancelled, ended, load, deserted>>

-----------------------------------------------------------------------------
(* The deferred cleanup, whether Run returned an error or not.             *)

\* Mutants of StopRiver: the clients are closed at once; River is waited for, not
\* stopped.
StopRiverNot ==
  /\ main = "stopRiver"
  /\ main' = "closeRedis"
  /\ UNCHANGED <<wiring, srv, cancelled, ended, load, deserted>>

StopRiverAwaited ==
  /\ main = "stopRiver"
  /\ srv["river"] \in {"off", "down"}
  /\ main' = "closeRedis"
  /\ UNCHANGED <<wiring, srv, cancelled, ended, load, deserted>>

\* riverClient.Stop, which has no deadline here.
StopRiver ==
  /\ main = "stopRiver"
  /\ \/ srv["river"] = "up" /\ Goto("river", "draining") /\ UNCHANGED main
     \/ srv["river"] \in {"off", "down"} /\ main' = "closeRedis" /\ UNCHANGED srv
  /\ UNCHANGED <<wiring, cancelled, ended, load, deserted>>

\* Mutant of CloseRedis: it does not wait for Run, as a hook of the signal would.
CloseRedisOnSignal ==
  /\ (main = "wait" /\ cancelled) \/ main = "stopRiver"
  /\ client' = [client EXCEPT !.redis = "closed"]
  /\ main' = "closePool"
  /\ UNCHANGED <<service, config, queues, workers, srv, cancelled, ended, load, deserted>>

CloseRedis ==
  /\ main = "closeRedis"
  /\ client' = [client EXCEPT !.redis = "closed"]
  /\ main' = "closePool"
  /\ UNCHANGED <<service, config, queues, workers, srv, cancelled, ended, load, deserted>>

ClosePool ==
  /\ main = "closePool"
  /\ client' = [client EXCEPT !.pool = "closed"]
  /\ main' = "flush"
  /\ UNCHANGED <<service, config, queues, workers, srv, cancelled, ended, load, deserted>>

\* The tracer was deferred first and is shut down last.
Flush ==
  /\ main \in {"flush", "panicked"}
  /\ client' = [client EXCEPT !.tracer = "closed"]
  /\ main' = "exited"
  /\ UNCHANGED <<service, config, queues, workers, srv, cancelled, ended, load, deserted>>

-----------------------------------------------------------------------------
(* The load.                                                               *)

BeginCall(s) ==
  /\ Running /\ srv[s] = "up" /\ calls[s] < MaxLive
  /\ calls' = [calls EXCEPT ![s] = @ + 1]
  /\ UNCHANGED <<wiring, main, srv, cancelled, ended, jobs, deserted>>

EndCall(s) ==
  /\ Running /\ calls[s] > 0
  /\ calls' = [calls EXCEPT ![s] = @ - 1]
  /\ UNCHANGED <<wiring, main, srv, cancelled, ended, jobs, deserted>>

\* River fetches a job from the pool.
BeginJob ==
  /\ Running /\ srv["river"] = "up" /\ client.pool = "open" /\ jobs < MaxLive
  /\ jobs' = jobs + 1
  /\ UNCHANGED <<wiring, main, srv, cancelled, ended, calls, deserted>>

EndJob ==
  /\ Running /\ jobs > 0
  /\ jobs' = jobs - 1
  /\ UNCHANGED <<wiring, main, srv, cancelled, ended, calls, deserted>>

-----------------------------------------------------------------------------
Wire ==
  \/ InitTracer \/ LoadConfig
  \/ NewPgxPool \/ NewRiverClient \/ NewData \/ NewEtcdClient \/ RegisterRiverWorkers

Main ==
  \/ Run \/ Register \/ RunReturns
  \/ StopRiver \/ CloseRedis \/ ClosePool \/ Flush

Goroutine(s) == Start(s) \/ Stop(s) \/ StopReturns(s) \/ Drained(s)

Next ==
  \/ Wire \/ Main \/ Signal
  \/ \E s \in Servers : Goroutine(s)
  \/ \E s \in RpcServers : BeginCall(s) \/ EndCall(s)
  \/ BeginJob \/ EndJob

Spec == Init /\ [][Next]_vars

\* Goroutines run; calls end with their deadline, and jobs end.
Fairness ==
  /\ WF_vars(Main)
  /\ \A s \in RpcServers \cup {"river"} : WF_vars(s \in Servers /\ Goroutine(s))
  /\ \A s \in RpcServers : WF_vars(EndCall(s))
  /\ WF_vars(EndJob)

FairSpec == Spec /\ Fairness

-----------------------------------------------------------------------------
(* Properties.                                                             *)

Open == client = [c \in Clients |-> "open"]

\* No client is closed under a live job: River's Stop in the cleanup waits for the
\* jobs that outlived the first one, or came after it, before anything is closed.
\* (Not so if Run deserts its servers: River may start when the cleanup has
\* stopped it.)
JobsUseOpenClients == jobs > 0 /\ ~deserted => Open

\* No client is closed under a live call, or not yet open.
CallsUseOpenClients ==
  \A s \in RpcServers : calls[s] > 0 /\ ~deserted => Open

\* A request that is admitted is served: its job goes into a queue of the River
\* client, and so does the messaging job, and the client knows how to work both.
JobsAreServed ==
  service = "product" /\ (\E s \in RpcServers : calls[s] > 0) =>
    /\ {UsecaseQueue(config.queue_name), "default"} \subseteq DOMAIN queues
    /\ workers = Kinds

\* A process told to stop exits, unless a job never ends.
ShutdownEnds == cancelled ~> main = "exited"

=============================================================================
