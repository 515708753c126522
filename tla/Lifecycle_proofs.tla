--------------------------- MODULE Lifecycle_proofs ---------------------------
(***************************************************************************)
(* Theorems of Lifecycle: for any configuration and any load, no call and  *)
(* no job of a process uses a client that is closed or not yet open, and   *)
(* every job that a call inserts has a queue and a worker in the process.  *)
(***************************************************************************)
EXTENDS Lifecycle, TLAPS

\* Before Run, or without it, every server is off.
Quiet ==
  main \in {"tracer", "config", "pool", "river", "redis", "etcd", "workers", "run",
            "panicked"} =>
    \A s \in RpcServers \cup {"river"} : srv[s] = "off"

\* Only a server that was started and is not down yet has work.
LoadIsServed ==
  /\ \A s \in RpcServers : calls[s] > 0 => srv[s] \in {"up", "draining"}
  /\ jobs > 0 => srv["river"] \in {"up", "draining"}

\* The clients that main() has opened, and not closed, at each of its steps.
Opened ==
  /\ main \notin {"tracer", "exited"} => client.tracer = "open"
  /\ main \in {"river", "redis", "closePool"} => client.pool = "open"
  /\ main \in {"etcd", "workers", "run", "announce", "wait", "stopRiver", "closeRedis"}
       => Open

\* What Run leaves behind, unless it deserts its servers: each of them was started,
\* and all are down, but for River until the cleanup has stopped it.
Returned ==
  ~deserted =>
    /\ main \in {"stopRiver", "closeRedis", "closePool", "flush"} =>
         /\ \A s \in RpcServers : srv[s] = "down"
         /\ service = "product" => srv["river"] # "off"
    /\ main \in {"closeRedis", "closePool", "flush", "exited"} =>
         \A s \in RpcServers \cup {"river"} : srv[s] \in {"off", "down"}

\* The user service runs no River.
NoRiver == service = "user" => srv["river"] = "off"

\* The queues and the workers of a product service, once they are there.
Ran == Running \/ \E s \in RpcServers \cup {"river"} : srv[s] # "off"

Wired ==
  service = "product" =>
    /\ main \in {"redis", "etcd", "workers", "run"} \/ Ran =>
         {ClientQueue(config.queue_name), "default"} \subseteq DOMAIN queues
    /\ main = "run" \/ Ran => workers = Kinds

Shape == Quiet /\ LoadIsServed /\ Opened /\ Returned /\ NoRiver /\ Wired

\* The inductive invariant.
IInv == TypeOK /\ Shape

-----------------------------------------------------------------------------
(* Types.                                                                  *)

\* A process starts in a state of the right type.
LEMMA InitTyped == Init => TypeOK
<1> SUFFICES ASSUME Init PROVE TypeOK
  OBVIOUS
<1>1. DOMAIN queues = {}
  BY DEF Init
<1>2. calls \in [RpcServers -> 0..MaxLive] /\ jobs \in 0..MaxLive
  BY LifecycleAssumption DEF Init
<1>3. client \in [Clients -> {"none", "open", "closed"}]
  BY DEF Init
<1>4. srv \in [RpcServers \cup {"river"} -> {"off", "up", "draining", "down"}]
  BY DEF Init
<1> QED
  BY <1>1, <1>2, <1>3, <1>4 DEF Init, TypeOK, Steps

\* A seckill queue has at least one worker, whatever the configuration says.
LEMMA SomeWorker == ASSUME NEW n \in Int PROVE Workers(n) \in Nat \ {0}
BY DEF Workers

\* wireApp keeps the types.
LEMMA WireTyped == TypeOK /\ Wire => TypeOK'
<1> SUFFICES ASSUME TypeOK, Wire PROVE TypeOK'
  OBVIOUS
<1> USE DEF TypeOK, Steps, RpcServers, Servers, Clients, load
<1>0. CASE InitTracer
  BY <1>0 DEF InitTracer
<1>a. CASE LoadConfig
  BY <1>a DEF LoadConfig, wiring
<1>1. CASE NewPgxPool
  BY <1>1 DEF NewPgxPool
<1>2. CASE NewRiverClient
  <2>1. CASE UNCHANGED queues
    BY <1>2, <2>1 DEF NewRiverClient
  <2>2. CASE main' = "redis"
    <3> DEFINE name == ClientQueue(config.queue_name)
    <3>1. queues' = [q \in {"default", name} |->
                       IF q = name THEN Workers(config.queue_workers) ELSE 10]
      BY <1>2, <2>2 DEF NewRiverClient
    <3>2. name \in QueueNames \cup {"seckill"}
      BY DEF ClientQueue
    <3>3. Workers(config.queue_workers) \in Nat \ {0}
      BY SomeWorker, LifecycleAssumption
    <3>4. DOMAIN queues' \subseteq QueueNames \cup {"default", "seckill"}
      BY <3>1, <3>2
    <3>5. \A q \in DOMAIN queues' : queues'[q] \in Nat \ {0}
      BY <3>1, <3>3
    <3> QED
      BY <1>2, <2>2, <3>4, <3>5 DEF NewRiverClient
  <2> QED
    BY <1>2, <2>1, <2>2 DEF NewRiverClient
<1>3. CASE NewData
  BY <1>3 DEF NewData
<1>4. CASE NewEtcdClient
  BY <1>4 DEF NewEtcdClient, wiring
<1>5. CASE RegisterRiverWorkers
  BY <1>5 DEF RegisterRiverWorkers, Kinds
<1> QED
  BY <1>0, <1>a, <1>1, <1>2, <1>3, <1>4, <1>5 DEF Wire

\* main() keeps the types from Run to its exit.
LEMMA MainTyped == TypeOK /\ Main => TypeOK'
<1> SUFFICES ASSUME TypeOK, Main PROVE TypeOK'
  OBVIOUS
<1> USE DEF TypeOK, Steps, RpcServers, Servers, Clients, load, wiring
<1>1. CASE Run
  BY <1>1 DEF Run
<1>2. CASE Register
  BY <1>2 DEF Register
<1>3. CASE RunReturns
  BY <1>3 DEF RunReturns
<1>4. CASE StopRiver
  BY <1>4 DEF StopRiver, Goto
<1>5. CASE CloseRedis
  BY <1>5 DEF CloseRedis
<1>6. CASE ClosePool
  BY <1>6 DEF ClosePool
<1>7. CASE Flush
  BY <1>7 DEF Flush
<1> QED
  BY <1>1, <1>2, <1>3, <1>4, <1>5, <1>6, <1>7 DEF Main

\* The goroutines of Run keep the types.
LEMMA GoroutineTyped ==
  ASSUME NEW s \in Servers, TypeOK, Goroutine(s) PROVE TypeOK'
<1> USE DEF TypeOK, RpcServers, Servers, load, wiring, Goto
<1>1. CASE Start(s)
  BY <1>1 DEF Start
<1>2. CASE Stop(s)
  BY <1>2 DEF Stop
<1>3. CASE StopReturns(s)
  BY <1>3 DEF StopReturns
<1>4. CASE Drained(s)
  BY <1>4 DEF Drained
<1> QED
  BY <1>1, <1>2, <1>3, <1>4 DEF Goroutine

\* Signals and the load keep the types.
LEMMA LoadTyped ==
  ASSUME TypeOK,
         Signal \/ (\E s \in RpcServers : BeginCall(s) \/ EndCall(s)) \/ BeginJob \/ EndJob
  PROVE  TypeOK'
<1> USE LifecycleAssumption DEF TypeOK, RpcServers, Servers, wiring
<1>1. CASE Signal
  BY <1>1 DEF Signal, load
<1>2. ASSUME NEW s \in RpcServers, BeginCall(s) PROVE TypeOK'
  BY <1>2 DEF BeginCall
<1>3. ASSUME NEW s \in RpcServers, EndCall(s) PROVE TypeOK'
  BY <1>3 DEF EndCall
<1>4. CASE BeginJob
  BY <1>4 DEF BeginJob
<1>5. CASE EndJob
  BY <1>5 DEF EndJob
<1> QED
  BY <1>1, <1>2, <1>3, <1>4, <1>5

\* Every step keeps the types.
LEMMA StepTyped == TypeOK /\ [Next]_vars => TypeOK'
<1> SUFFICES ASSUME TypeOK, [Next]_vars PROVE TypeOK'
  OBVIOUS
<1>1. CASE UNCHANGED vars
  BY <1>1 DEF vars, TypeOK, Servers
<1> QED
  BY <1>1, WireTyped, MainTyped, GoroutineTyped, LoadTyped DEF Next

\* Every variable of a process has its type, and so each queue of its River client
\* has at least one worker.
THEOREM Typing == Spec => []TypeOK
BY InitTyped, StepTyped, PTL DEF Spec

-----------------------------------------------------------------------------
(* Clients, queues and workers.                                            *)

\* A process starts with no server, no load and nothing wired.
LEMMA InitShape == Init => Shape
<1> SUFFICES ASSUME Init PROVE Shape
  OBVIOUS
<1> USE DEF Init
<1>1. Quiet /\ LoadIsServed
  BY DEF Quiet, LoadIsServed
<1> QED
  BY <1>1 DEF Shape, Opened, Returned, NoRiver, Wired, Ran, Running

\* wireApp opens the clients before it returns.
LEMMA WireShape == IInv /\ Wire => Shape'
<1> SUFFICES ASSUME IInv, Wire PROVE Shape'
  OBVIOUS
<1> USE DEF IInv, Shape, load, wiring
<1>0. /\ srv' = srv /\ calls' = calls /\ jobs' = jobs /\ service' = service
      /\ main \in {"tracer", "config", "pool", "river", "redis", "etcd", "workers"}
      /\ main' \in {"config", "pool", "river", "redis", "etcd", "workers", "run", "panicked",
                    "exited"}
  BY DEF Wire, InitTracer, LoadConfig, NewPgxPool, NewRiverClient, NewData, NewEtcdClient,
         RegisterRiverWorkers
<1>1. \A s \in RpcServers \cup {"river"} : srv[s] = "off"
  BY <1>0 DEF Quiet
<1>2. Quiet' /\ LoadIsServed' /\ Returned' /\ NoRiver'
  BY <1>0, <1>1 DEF Quiet, LoadIsServed, Returned, NoRiver
<1>3. Opened' /\ Wired'
  <2>0. ~Ran'
    BY <1>0, <1>1 DEF Ran, Running
  <2> USE DEF Opened, Open, Wired
  <2> client \in [Clients -> {"none", "open", "closed"}]
    BY DEF TypeOK
  <2> Clients = {"tracer", "pool", "redis"}
    BY DEF Clients
  <2>b. CASE InitTracer
    BY <2>0, <2>b DEF InitTracer
  <2>a. CASE LoadConfig
    BY <2>0, <2>a DEF LoadConfig
  <2>1. CASE NewPgxPool
    BY <2>0, <2>1 DEF NewPgxPool
  <2>2. CASE NewRiverClient
    <3>1. main' = "redis" => DOMAIN queues' = {"default", ClientQueue(config.queue_name)}
      BY <2>0, <2>2 DEF NewRiverClient
    <3> QED
      BY <2>0, <2>2, <3>1 DEF NewRiverClient
  <2>3. CASE NewData
    BY <2>0, <2>3 DEF NewData
  <2>4. CASE NewEtcdClient
    BY <2>0, <2>4 DEF NewEtcdClient
  <2>5. CASE RegisterRiverWorkers
    BY <2>0, <2>5 DEF RegisterRiverWorkers
  <2> QED
    BY <2>b, <2>a, <2>1, <2>2, <2>3, <2>4, <2>5 DEF Wire
<1> QED
  BY <1>2, <1>3

\* The cleanup closes the clients when the servers are down.
LEMMA MainShape == IInv /\ Main => Shape'
<1> SUFFICES ASSUME IInv, Main PROVE Shape'
  OBVIOUS
<1> USE DEF IInv, Shape, load, wiring, Quiet, LoadIsServed, Opened, Open, Returned,
        NoRiver, Wired, Ran, Running
<1>0. /\ client \in [Clients -> {"none", "open", "closed"}]
      /\ srv \in [RpcServers \cup {"river"} -> {"off", "up", "draining", "down"}]
      /\ service \in {"product", "user"}
      /\ Clients = {"tracer", "pool", "redis"}
  BY DEF TypeOK, Clients
<1>1. CASE Run
  BY <1>1 DEF Run
<1>2. CASE Register
  BY <1>2 DEF Register
<1>3. CASE RunReturns
  BY <1>3 DEF RunReturns, Servers
<1>4. CASE StopRiver
  BY <1>0, <1>4 DEF StopRiver, Goto, RpcServers
<1>5. CASE CloseRedis
  BY <1>0, <1>5 DEF CloseRedis
<1>6. CASE ClosePool
  BY <1>0, <1>6 DEF ClosePool
<1>7. CASE Flush
  BY <1>0, <1>7 DEF Flush
<1> QED
  BY <1>1, <1>2, <1>3, <1>4, <1>5, <1>6, <1>7 DEF Main

\* A server that has been left running has work, and none starts late.
LEMMA GoroutineShape ==
  ASSUME IInv, NEW s \in Servers, Goroutine(s) PROVE Shape'
<1> USE DEF IInv, Shape, load, wiring, Goto
<1>0. /\ srv \in [RpcServers \cup {"river"} -> {"off", "up", "draining", "down"}]
      /\ calls \in [RpcServers -> 0..MaxLive] /\ jobs \in 0..MaxLive
      /\ service \in {"product", "user"}
      /\ s \in RpcServers \cup {"river"}
      /\ s = "river" => service = "product"
  BY DEF TypeOK, Servers, RpcServers
<1>1. Opened' /\ Wired'
  <2> Running
    BY DEF Goroutine, Start, Stop, StopReturns, Drained
  <2> main' = main /\ client' = client /\ UNCHANGED wiring
    BY DEF Goroutine, Start, Stop, StopReturns, Drained
  <2>1. Ran
    BY DEF Ran
  <2> QED
    BY <2>1 DEF Opened, Open, Wired
<1>2. Quiet' /\ NoRiver'
  BY <1>0 DEF Goroutine, Start, Stop, StopReturns, Drained, Quiet, NoRiver, Running,
              RpcServers
<1>3. LoadIsServed'
  <2> USE <1>0 DEF LoadIsServed, RpcServers
  <2>1. CASE Start(s)
    BY <2>1 DEF Start
  <2>2. CASE Stop(s)
    BY <2>2 DEF Stop
  <2>3. CASE StopReturns(s)
    BY <2>3 DEF StopReturns
  <2>4. CASE Drained(s)
    BY <2>4 DEF Drained
  <2> QED
    BY <2>1, <2>2, <2>3, <2>4 DEF Goroutine
<1>4. Returned'
  <2> USE <1>0 DEF Returned, RpcServers, Running
  <2>1. CASE Start(s)
    BY <2>1 DEF Start
  <2>2. CASE Stop(s)
    BY <2>2 DEF Stop
  <2>3. CASE StopReturns(s)
    BY <2>3 DEF StopReturns
  <2>4. CASE Drained(s)
    BY <2>4 DEF Drained
  <2> QED
    BY <2>1, <2>2, <2>3, <2>4 DEF Goroutine
<1> QED
  BY <1>1, <1>2, <1>3, <1>4

\* Work begins only at a server that is up.
LEMMA LoadShape ==
  ASSUME IInv,
         Signal \/ (\E s \in RpcServers : BeginCall(s) \/ EndCall(s)) \/ BeginJob \/ EndJob
  PROVE  Shape'
<1> USE DEF IInv, Shape, wiring
<1>0. calls \in [RpcServers -> 0..MaxLive] /\ jobs \in 0..MaxLive
  BY DEF TypeOK
<1>1. Quiet' /\ Opened' /\ Returned' /\ NoRiver' /\ Wired'
  BY DEF Signal, BeginCall, EndCall, BeginJob, EndJob, Quiet, Opened, Open, Returned,
         NoRiver, Wired, Ran, Running
<1>2. LoadIsServed'
  <2> USE <1>0, LifecycleAssumption DEF LoadIsServed, load
  <2>1. CASE Signal
    BY <2>1 DEF Signal
  <2>2. ASSUME NEW s \in RpcServers, BeginCall(s) PROVE LoadIsServed'
    BY <2>2 DEF BeginCall
  <2>3. ASSUME NEW s \in RpcServers, EndCall(s) PROVE LoadIsServed'
    BY <2>3 DEF EndCall
  <2>4. CASE BeginJob
    BY <2>4 DEF BeginJob
  <2>5. CASE EndJob
    BY <2>5 DEF EndJob
  <2> QED
    BY <2>1, <2>2, <2>3, <2>4, <2>5
<1> QED
  BY <1>1, <1>2

\* Every step keeps the shape.
LEMMA StepShape == IInv /\ [Next]_vars => Shape'
<1> SUFFICES ASSUME IInv, [Next]_vars PROVE Shape'
  OBVIOUS
<1>1. CASE UNCHANGED vars
  BY <1>1 DEF vars, IInv, Shape, Quiet, LoadIsServed, Opened, Open, Returned, NoRiver,
              Wired, Ran, Running
<1> QED
  BY <1>1, WireShape, MainShape, GoroutineShape, LoadShape DEF Next

\* The invariant holds at every state of a process.
LEMMA Inductive == Spec => []IInv
<1>1. Init => IInv
  BY InitTyped, InitShape DEF IInv
<1>2. IInv /\ [Next]_vars => IInv'
  BY StepTyped, StepShape DEF IInv
<1> QED
  BY <1>1, <1>2, PTL DEF Spec

\* The cleanup closes no client under a live job, whatever outlived the first Stop
\* of River, or came after it.
THEOREM JobsKeepClients == Spec => []JobsUseOpenClients
<1>1. IInv => JobsUseOpenClients
  BY DEF IInv, TypeOK, Shape, Steps, Quiet, LoadIsServed, Opened, Returned,
         JobsUseOpenClients
<1> QED
  BY <1>1, Inductive, PTL

\* No call finds a client closed, or not yet open.
THEOREM CallsKeepClients == Spec => []CallsUseOpenClients
<1>1. IInv => CallsUseOpenClients
  BY DEF IInv, TypeOK, Shape, Steps, Quiet, LoadIsServed, Opened, Returned,
         CallsUseOpenClients
<1> QED
  BY <1>1, Inductive, PTL

\* The two defaults of the queue's name agree, and workers are registered before
\* the first call, whatever the configuration says.
THEOREM JobsHaveWorkers == Spec => []JobsAreServed
<1>1. IInv => JobsAreServed
  <2> SUFFICES ASSUME IInv, service = "product", NEW s \in RpcServers, calls[s] > 0
               PROVE  /\ {UsecaseQueue(config.queue_name), "default"} \subseteq DOMAIN queues
                      /\ workers = Kinds
    BY DEF JobsAreServed
  <2>1. Ran
    BY DEF IInv, Shape, LoadIsServed, Ran
  <2> QED
    BY <2>1 DEF IInv, Shape, Wired, UsecaseQueue, ClientQueue
<1> QED
  BY <1>1, Inductive, PTL

=============================================================================
