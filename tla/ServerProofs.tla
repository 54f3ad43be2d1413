---------------------------- MODULE ServerProofs ----------------------------
(***************************************************************************)
(* Proofs about ServerLifecycle, for any number of IO workers.             *)
(***************************************************************************)
EXTENDS ServerLifecycle, TLAPS

\* The steps of init by their numbers.
LEMMA OrderIs ==
    /\ Len(Order) = 6
    /\ \A i \in 1..6 :
           /\ Order[i] = "logger" <=> i = 1
           /\ Order[i] = "router" <=> i = 2
           /\ Order[i] = "accessor" <=> i = 3
           /\ Order[i] = "ioworker" <=> i = 4
           /\ Order[i] = "socket" <=> i = 5
           /\ Order[i] = "listenworker" <=> i = 6
BY DEF Order

\* A constructed Server satisfies the inductive invariant.
LEMMA InitInvariant == Init => IInv
<1> SUFFICES ASSUME Init PROVE IInv
    OBVIOUS
<1>1. Given = [router |-> FALSE, accessor |-> FALSE, io |-> 0]
    BY DEF Init, Given
<1>2. TypeOK
  <2>1. handler \in [Id -> [router : BOOLEAN, accessor : BOOLEAN, io : 0..N]]
      BY <1>1, ServerAssumption DEF Init
  <2>2. k \in 0..Len(Order) + N + 1 /\ created \in 0..N /\ closes \in Nat
      BY ServerAssumption, OrderIs DEF Init
  <2>3. flag \in [Id -> BOOLEAN]
      BY Zenon DEF Init
  <2> QED BY <2>1, <2>2, <2>3 DEF Init, TypeOK
<1>3. 0 \in Id /\ ~Started /\ object[0] = "none"
    BY ServerAssumption DEF Init, Started, Id
<1> QED BY <1>2, <1>3 DEF Init, IInv, InitProgress, Prepared, LoopRange,
           SocketOwned, ListenerWithin, HalfCleaned, CleanPC

-----------------------------------------------------------------------------
(* The steps of init *)

\* A step of init that returns an error leaves what the destructor undoes.
LEMMA FailedStep ==
    ASSUME IInv, pc = "init", Failed,
           UNCHANGED <<running, router, accessor, created, handler, flag, thread,
                       object, registered, closes>>,
           listenFD' \in BOOLEAN, socket' \in {"none", "open", "closed"}
    PROVE  IInv'
BY ServerAssumption DEF Failed, IInv, TypeOK, InitProgress, Prepared, LoopRange,
       SocketOwned, ListenerWithin, HalfCleaned, CleanPC, Started, Complete, Id

\* initLogger and initRouter leave the workers and the socket alone.
LEMMA EarlyStep ==
    ASSUME IInv, initLogger \/ initRouter
    PROVE  IInv'
<1>1. CASE initLogger /\ Failed
    BY <1>1, FailedStep DEF initLogger, At, resources, workers, sockets, IInv, TypeOK
<1>2. CASE initLogger /\ Done
  <2>1. k = 1 /\ pc = "init"
      BY <1>2, OrderIs DEF initLogger, At, IInv, InitProgress
  <2>2. pc' = "init" /\ k' = 2
      BY <1>2, <2>1, OrderIs DEF Done
  <2>3. UNCHANGED <<running, resources, workers, sockets>>
      BY <1>2 DEF initLogger
  <2>4. TypeOK'
      BY <2>1, <2>2, <2>3, OrderIs, ServerAssumption
      DEF resources, workers, sockets, IInv, TypeOK
  <2> QED BY <2>1, <2>2, <2>3, <2>4, OrderIs DEF resources, workers, sockets, IInv,
       InitProgress, Prepared, LoopRange, SocketOwned, ListenerWithin, HalfCleaned,
       CleanPC, Started, Complete
<1>3. CASE initRouter
  <2>1. k = 2 /\ pc = "init"
      BY <1>3, OrderIs DEF initRouter, At, IInv, InitProgress
  <2>2. pc' = "init" /\ k' = 3
      BY <1>3, <2>1, OrderIs DEF initRouter, Done
  <2>3. /\ router' = TRUE
        /\ UNCHANGED <<running, accessor, created, handler, workers, sockets>>
      BY <1>3 DEF initRouter
  <2> QED BY <2>1, <2>2, <2>3, OrderIs, ServerAssumption DEF workers, sockets,
       IInv, TypeOK, InitProgress, Prepared, LoopRange,
       SocketOwned, ListenerWithin, HalfCleaned, CleanPC, Started, Complete, Id
<1> QED BY <1>1, <1>2, <1>3 DEF initLogger

\* initResourceAccessor comes after initRouter: both are there when the first
\* worker is made.
LEMMA AccessorStep ==
    ASSUME IInv, initResourceAccessor
    PROVE  IInv'
<1>1. CASE Failed /\ UNCHANGED accessor
    BY <1>1, FailedStep DEF initResourceAccessor, At, workers, sockets, IInv, TypeOK
<1>2. CASE Done /\ accessor' = TRUE
  <2>1. k = 3 /\ pc = "init"
      BY <1>2, OrderIs DEF initResourceAccessor, At, IInv, InitProgress
  <2>2. pc' = "init" /\ k' = 4
      BY <1>2, <2>1, OrderIs DEF Done
  <2>3. UNCHANGED <<running, router, created, handler, workers, sockets>>
      BY <1>2 DEF initResourceAccessor
  <2> QED BY <1>2, <2>1, <2>2, <2>3, OrderIs, ServerAssumption DEF workers, sockets,
       IInv, TypeOK, InitProgress, Prepared, LoopRange,
       SocketOwned, ListenerWithin, HalfCleaned, CleanPC, Started, Complete, Id
<1> QED BY <1>1, <1>2 DEF initResourceAccessor

\* initIOWorker: the next worker is complete, and no other changes.
LEMMA IOWorkerStep ==
    ASSUME IInv, initIOWorker
    PROVE  IInv'
<1>0. k = 4 /\ pc = "init" /\ router /\ accessor /\ created \in 0..N
    BY OrderIs DEF initIOWorker, At, IInv, InitProgress, TypeOK
<1>1. CASE created < N /\ Failed /\ UNCHANGED <<created, handler, workers>>
    BY <1>0, <1>1, FailedStep DEF initIOWorker, workers, sockets, IInv, TypeOK
<1>2. CASE created = N /\ Done /\ UNCHANGED <<created, handler, workers>>
  <2>1. pc' = "init" /\ k' = 5
      BY <1>0, <1>2, OrderIs DEF Done
  <2>2. UNCHANGED <<running, router, accessor, sockets>>
      BY <1>2 DEF initIOWorker
  <2> QED BY <1>0, <1>2, <2>1, <2>2, OrderIs, ServerAssumption DEF workers, sockets,
       IInv, TypeOK, InitProgress, Prepared, LoopRange,
       SocketOwned, ListenerWithin, HalfCleaned, CleanPC, Started, Complete, Id
<1>3. CASE /\ created < N /\ Construct(created + 1)
           /\ created' = created + 1 /\ UNCHANGED <<pc, k>>
  <2> DEFINE w == created + 1
  <2>1. w \in Id /\ w # 0 /\ w \in 1..N
      BY <1>0, <1>3, ServerAssumption DEF Id
  <2>2. /\ Given = [router |-> router, accessor |-> accessor, io |-> created]
        /\ Given \in [router : BOOLEAN, accessor : BOOLEAN, io : 0..N]
        /\ Given.router /\ Given.accessor
      BY <1>0 DEF Given, IInv, TypeOK
  <2>3. /\ object' = [object EXCEPT ![w] = "alive"]
        /\ flag' = [flag EXCEPT ![w] = FALSE]
        /\ handler' = [handler EXCEPT ![w] = Given]
        /\ UNCHANGED <<pc, k, thread, running, router, accessor, sockets>>
      BY <1>3 DEF Construct, initIOWorker
  <2> HIDE DEF w
  <2>4. TypeOK'
    <3>1. flag' \in [Id -> BOOLEAN]
        BY <2>3, Zenon DEF IInv, TypeOK
    <3>2. handler' \in [Id -> [router : BOOLEAN, accessor : BOOLEAN, io : 0..N]]
        BY <2>2, <2>3 DEF IInv, TypeOK
    <3>3. created' \in 0..N
        BY <1>0, <1>3, ServerAssumption
    <3> QED BY <2>3, <3>1, <3>2, <3>3 DEF IInv, TypeOK, sockets
  <2>5. \A v \in 1..created' : Complete(v)' /\ object'[v] = "alive"
    <3> SUFFICES ASSUME NEW v \in 1..created'
                 PROVE  Complete(v)' /\ object'[v] = "alive"
        OBVIOUS
    <3>1. v \in Id /\ v # 0 /\ (v = w \/ v \in 1..created)
        BY <1>0, <1>3, ServerAssumption DEF Id, w
    <3>2. CASE v = w
        BY <2>1, <2>2, <2>3, <3>1, <3>2 DEF Complete, IInv, TypeOK
    <3>3. CASE v # w
        BY <1>0, <2>3, <3>1, <3>3 DEF Complete, IInv, TypeOK, InitProgress
    <3> QED BY <3>2, <3>3
  <2>6. InitProgress'
      BY <1>0, <1>3, <2>3, <2>5 DEF IInv, InitProgress, sockets
  <2>7. object'[0] = "none"
      BY <1>0, <2>1, <2>3 DEF IInv, TypeOK, InitProgress
  <2> QED BY <1>0, <2>3, <2>4, <2>6, <2>7 DEF IInv, Prepared, LoopRange, SocketOwned,
             ListenerWithin, HalfCleaned, CleanPC, Started, sockets
<1> QED BY <1>1, <1>2, <1>3 DEF initIOWorker

\* initListenSocket: nothing owns the socket yet.
LEMMA ListenSocketStep ==
    ASSUME IInv, initListenSocket
    PROVE  IInv'
<1>0. k = 5 /\ pc = "init"
    BY OrderIs DEF initListenSocket, At, IInv, InitProgress
<1>1. /\ UNCHANGED <<running, resources, workers, registered, closes>>
      /\ listenFD' \in BOOLEAN /\ socket' \in {"none", "open", "closed"}
    BY DEF initListenSocket, IInv, TypeOK
<1>2. CASE Failed
    BY <1>0, <1>1, <1>2, FailedStep DEF resources, workers
<1>3. CASE Done
  <2>1. pc' = "init" /\ k' = 6
      BY <1>0, <1>3, OrderIs DEF Done
  <2> QED BY <1>0, <1>1, <2>1, OrderIs, ServerAssumption DEF resources, workers,
       IInv, TypeOK, InitProgress, Prepared, LoopRange,
       SocketOwned, ListenerWithin, HalfCleaned, CleanPC, Started, Complete, Id
<1> QED BY <1>2, <1>3 DEF initListenSocket

\* initListenWorker: the last worker is made and every handler is complete; the
\* Event owns the socket or has closed it.
LEMMA ListenWorkerStep ==
    ASSUME IInv, initListenWorker
    PROVE  IInv'
<1>0. /\ k = 6 /\ pc = "init" /\ router /\ accessor /\ created = N
      /\ ~registered /\ closes = 0 /\ ~Started
    BY OrderIs DEF initListenWorker, At, IInv, InitProgress, Prepared
<1>1. /\ Given = [router |-> router, accessor |-> accessor, io |-> N]
      /\ Given \in [router : BOOLEAN, accessor : BOOLEAN, io : 0..N]
      /\ Given.router /\ Given.accessor /\ Given.io = N
    BY <1>0, ServerAssumption DEF Given, IInv, TypeOK
<1>2. /\ object' = [object EXCEPT ![0] = "alive"]
      /\ flag' = [flag EXCEPT ![0] = FALSE]
      /\ handler' = [handler EXCEPT ![0] = Given]
      /\ UNCHANGED <<thread, running, router, accessor, created, listenFD>>
    BY DEF initListenWorker, Construct
<1>3. 0 \in Id
    BY ServerAssumption DEF Id
<1>4. \A w \in Id : Complete(w)' /\ object'[w] = "alive"
  <2> SUFFICES ASSUME NEW w \in Id PROVE Complete(w)' /\ object'[w] = "alive"
      OBVIOUS
  <2>1. CASE w = 0
      BY <1>1, <1>2, <1>3, <2>1 DEF Complete, IInv, TypeOK
  <2>2. CASE w # 0
    <3>1. w \in 1..created
        BY <1>0, <2>2, ServerAssumption DEF Id
    <3> QED BY <1>0, <1>2, <2>2, <3>1 DEF Complete, IInv, TypeOK, InitProgress
  <2> QED BY <2>1, <2>2
<1>5. ~Started'
    BY <1>0, <1>2 DEF Started
<1>6. CASE Done /\ registered' = TRUE /\ UNCHANGED <<socket, closes>>
  <2>1. pc' = "run" /\ k' = 1
      BY <1>0, <1>6, OrderIs DEF Done
  <2> QED BY <1>0, <1>1, <1>2, <1>3, <1>4, <1>5, <1>6, <2>1, OrderIs, ServerAssumption
          DEF IInv, TypeOK, InitProgress, Prepared, LoopRange, SocketOwned,
              ListenerWithin, HalfCleaned, CleanPC
<1>7. CASE /\ Failed /\ UNCHANGED registered
           /\ CloseSocket \/ UNCHANGED <<socket, closes>>
    BY <1>0, <1>1, <1>2, <1>3, <1>4, <1>5, <1>7, OrderIs, ServerAssumption
    DEF IInv, TypeOK, InitProgress, Prepared, LoopRange, SocketOwned, ListenerWithin,
        HalfCleaned, CleanPC, Failed, CloseSocket
<1> QED BY <1>6, <1>7 DEF initListenWorker

-----------------------------------------------------------------------------
(* start, stop, clean and the loops of the main thread *)

\* ~Worker touches only workers that are alive.
LEMMA DestroyStep ==
    ASSUME IInv, NEW ws \in SUBSET Id, Destroy(ws)
    PROVE  /\ object' \in [Id -> {"none", "alive", "destroyed"}]
           /\ flag' \in [Id -> BOOLEAN]
           /\ \A w \in Id : /\ w \in ws => object'[w] # "alive"
                            /\ w \notin ws => object'[w] = object[w]
                            /\ object[w] = "alive" /\ w \in ws => object'[w] = "destroyed"
                            /\ object[w] # "alive" => object'[w] = object[w]
           /\ UNCHANGED <<handler, thread>>
BY DEF Destroy, IInv, TypeOK

\* The first step of clean is the listen worker's, the second the IO workers'.
LEMMA CleanIs ==
    ASSUME IInv, pc \in CleanPC
    PROVE  /\ Len(CleanOrder) = 2
           /\ Cleans("listenworker") => k = 1
           /\ Cleans("ioworkers") => k = 2
           /\ Return[pc] \in {"init", "dtorStop", "done"}
           /\ Return[pc] = "init" <=> pc = "initClean"
<1>1. k \in 1..2 /\ Len(CleanOrder) = 2
    BY DEF IInv, LoopRange, CleanOrder
<1>2. k = 1 => CleanOrder[k] = "listenworker"
    BY DEF CleanOrder
<1>3. k = 2 => CleanOrder[k] = "ioworkers"
    BY DEF CleanOrder
<1>4. /\ Return[pc] \in {"init", "dtorStop", "done"}
      /\ Return[pc] = "init" <=> pc = "initClean"
    BY DEF Return, CleanPC
<1> QED BY <1>1, <1>2, <1>3, <1>4 DEF Cleans

\* clean closes the socket with the listen worker if it was not closed before,
\* or leaves it to the thread that has the Event in hand.
LEMMA CleanListenStep ==
    ASSUME IInv, cleanListenWorker
    PROVE  IInv'
<1>0. 0 \in Id /\ N \in Nat /\ {0} \in SUBSET Id
    BY ServerAssumption DEF Id
<1>1. /\ pc \in CleanPC /\ Cleans("listenworker") /\ Destroy({0})
      /\ router' = FALSE /\ accessor' = FALSE /\ registered' = FALSE /\ Cleaned
      /\ UNCHANGED <<running, created, listenFD>>
    BY DEF cleanListenWorker, Cleans
<1>2. k = 1 /\ k' = 2 /\ pc' = pc
    BY <1>1, CleanIs DEF Cleaned
<1>3. /\ object' \in [Id -> {"none", "alive", "destroyed"}]
      /\ flag' \in [Id -> BOOLEAN]
      /\ object'[0] # "alive"
      /\ object[0] = "alive" => object'[0] = "destroyed"
      /\ object[0] # "alive" => object'[0] = object[0]
      /\ UNCHANGED <<handler, thread>>
    BY <1>0, <1>1, DestroyStep
<1>4. /\ closes' \in Nat /\ closes' <= 1 /\ socket' \in {"none", "open", "closed"}
      /\ ~registered => closes' = closes
      /\ object[0] = "alive" /\ registered /\ thread[0] # "handle" => closes' = 1
      /\ closes = 1 => closes' = 1
  <2>1. /\ closes \in Nat /\ closes + (IF registered THEN 1 ELSE 0) <= 1
        /\ socket \in {"none", "open", "closed"}
      BY DEF IInv, TypeOK, SocketOwned
  <2>2. CASE ListenWorkerCloses
      BY <2>1, <2>2 DEF cleanListenWorker, CloseSocket, ListenWorkerCloses
  <2>3. CASE ~ListenWorkerCloses
      BY <2>1, <2>3 DEF cleanListenWorker, ListenWorkerCloses
  <2> QED BY <2>2, <2>3
<1>5. TypeOK'
  <2>1. k' \in 0..Len(Order) + N + 1
      BY <1>0, <1>2, OrderIs
  <2>2. router' \in BOOLEAN /\ accessor' \in BOOLEAN /\ registered' \in BOOLEAN
      BY <1>1
  <2> QED BY <1>1, <1>2, <1>3, <1>4, <2>1, <2>2 DEF IInv, TypeOK
<1>6. (Started' <=> Started) /\ \A w \in Id : Complete(w) => Complete(w)'
    BY <1>3 DEF Started, Complete
<1>7. SocketOwned'
  <2>1. Started' => \/ closes' = 1
                    \/ thread'[0] = "handle" /\ object'[0] = "destroyed"
    <3>1. Started => \/ registered /\ object[0] = "alive"
                     \/ closes = 1
                     \/ thread[0] = "handle" /\ object[0] = "destroyed"
        BY DEF IInv, SocketOwned
    <3>2. thread' = thread
        BY <1>3
    <3>3. object[0] = "destroyed" => object[0] # "alive"
        OBVIOUS
    <3> QED BY <1>3, <1>4, <1>6, <3>1, <3>2, <3>3, Zenon
  <2>2. closes' + (IF registered' THEN 1 ELSE 0) <= 1
    <3>1. (IF registered' THEN 1 ELSE 0) = 0
        BY <1>1, Zenon
    <3>2. \A c \in Nat : c <= 1 => c + 0 <= 1
        OBVIOUS
    <3> QED BY <1>4, <3>1, <3>2, Zenon
  <2> QED BY <1>1, <2>1, <2>2 DEF SocketOwned
<1>8. InitProgress'
    BY <1>1, <1>2, <1>3, <1>4 DEF IInv, InitProgress, CleanPC
<1>9. Prepared' /\ LoopRange'
    BY <1>1, <1>2, <1>6 DEF IInv, Prepared, LoopRange, CleanPC
<1> QED BY <1>3, <1>5, <1>7, <1>8, <1>9 DEF IInv, ListenerWithin

\* The IO workers go when the listen worker has gone.
LEMMA CleanIOStep ==
    ASSUME IInv, cleanIOWorkers
    PROVE  IInv'
<1>0. 0 \in Id /\ N \in Nat /\ 1..N \in SUBSET Id /\ 0 \notin 1..N
    BY ServerAssumption DEF Id
<1>1. /\ pc \in CleanPC /\ Cleans("ioworkers") /\ Destroy(1..N)
      /\ created' = 0 /\ Cleaned
      /\ UNCHANGED <<running, router, accessor, sockets>>
    BY DEF cleanIOWorkers, Cleans
<1>2. /\ k = 2 /\ k' = 1 /\ pc' \in {"init", "dtorStop", "done"}
      /\ pc' = "init" <=> pc = "initClean"
  <2>1. k = 2 /\ Len(CleanOrder) = 2
      BY <1>1, CleanIs, Zenon
  <2>2. k' = 1 /\ pc' = Return[pc]
      BY <1>1, <2>1 DEF Cleaned
  <2> QED BY <1>1, <2>1, <2>2, CleanIs
<1>3. /\ object' \in [Id -> {"none", "alive", "destroyed"}]
      /\ flag' \in [Id -> BOOLEAN]
      /\ object'[0] = object[0]
      /\ UNCHANGED <<handler, thread>>
    BY <1>0, <1>1, DestroyStep
<1>4. object[0] # "alive" /\ ~registered
    BY <1>1, <1>2 DEF IInv, ListenerWithin, SocketOwned, HalfCleaned
<1>5. TypeOK'
  <2>1. k' \in 0..Len(Order) + N + 1 /\ created' \in 0..N
      BY <1>0, <1>1, <1>2, OrderIs
  <2> QED BY <1>1, <1>2, <1>3, <2>1 DEF IInv, TypeOK, sockets
<1>6. (Started' <=> Started) /\ \A w \in Id : Complete(w) => Complete(w)'
    BY <1>3 DEF Started, Complete
<1>7. SocketOwned'
    BY <1>1, <1>3, <1>4, <1>6 DEF IInv, SocketOwned, sockets
<1>8. InitProgress'
    BY <1>1, <1>2, <1>3, OrderIs DEF IInv, InitProgress, sockets
<1>9. Prepared' /\ LoopRange'
    BY <1>2, <1>6 DEF IInv, Prepared, LoopRange, CleanPC
<1> QED BY <1>3, <1>4, <1>5, <1>7, <1>8, <1>9 DEF IInv, ListenerWithin

\* start, up to the clean that init begins with
LEMMA StartStep ==
    ASSUME IInv, start
    PROVE  IInv'
<1>1. /\ pc = "start" /\ pc' = "initClean" /\ k' = 1
      /\ UNCHANGED <<running, resources, workers, sockets>>
    BY DEF start
<1>2. TypeOK'
    BY <1>1, OrderIs, ServerAssumption
    DEF IInv, TypeOK, resources, workers, sockets, CleanPC
<1> QED BY <1>1, <1>2 DEF resources, workers, sockets, IInv, InitProgress, Prepared,
       LoopRange, SocketOwned, ListenerWithin, HalfCleaned, CleanPC, Started, Complete

\* stop, at the end of a failed start and in the destructor
LEMMA StoppingStep ==
    ASSUME IInv, stopping
    PROVE  IInv'
<1>1. /\ pc \in {"startStop", "dtorStop"} /\ pc' \in {"startClean", "dtorClean"}
      /\ flag' = [w \in Id |-> FALSE] /\ running' = FALSE /\ k' = 1
      /\ UNCHANGED <<resources, object, thread, sockets>>
    BY DEF stopping, stop
<1>2. TypeOK'
  <2>1. k' \in 0..Len(Order) + N + 1
      BY <1>1, OrderIs, ServerAssumption
  <2>2. running' \in BOOLEAN /\ flag' \in [Id -> BOOLEAN]
      BY <1>1, Zenon
  <2> QED BY <1>1, <2>1, <2>2 DEF resources, sockets, IInv, TypeOK, CleanPC
<1> QED BY <1>1, <1>2 DEF resources, sockets, IInv, InitProgress, Prepared, LoopRange,
       SocketOwned, ListenerWithin, HalfCleaned, CleanPC, Started, Complete

\* Worker::run starts the thread of a worker that init has completed.
LEMMA RunStep ==
    ASSUME IInv, runWorker
    PROVE  IInv'
<1>1. Current \in Id
    BY ServerAssumption DEF Current, Id, IInv, TypeOK
<1>2. /\ pc = "run" /\ pc' = "ran"
      /\ flag' = [flag EXCEPT ![Current] = TRUE]
      /\ thread' = [thread EXCEPT ![Current] = "check"]
      /\ UNCHANGED <<k, running, resources, object, sockets>>
    BY DEF runWorker
<1> QED BY <1>1, <1>2, ServerAssumption DEF resources, sockets,
        IInv, TypeOK, InitProgress, Prepared, LoopRange,
       SocketOwned, ListenerWithin, HalfCleaned, CleanPC, Started, Complete, Id

\* The checks of start and of statusChecking only read.
LEMMA CheckStep ==
    ASSUME IInv, workerRan \/ statusChecking
    PROVE  IInv'
<1>0. k \in 0..N+1 /\ UNCHANGED <<resources, workers, sockets>> /\ N \in Nat
    BY ServerAssumption DEF workerRan, statusChecking, IInv, LoopRange
<1>1. /\ pc \in {"ran", "status"}
      /\ pc' \in {"run", "status", "startStop", "dtorStop"}
      /\ pc' = "run" => k' \in 1..N+1
      /\ pc' = "status" => k' \in 0..N
      /\ k' \in 0..N+1
      /\ running' \in BOOLEAN
  <2>1. CASE workerRan
    <3>1. pc = "ran" /\ k \in 1..N+1 /\ running \in BOOLEAN
        BY <2>1 DEF workerRan, IInv, LoopRange, TypeOK
    <3>2. \/ pc' = "startStop" /\ UNCHANGED <<k, running>>
          \/ pc' = "status" /\ k' = 0 /\ running' = TRUE
          \/ k # N + 1 /\ pc' = "run" /\ k' = k + 1 /\ UNCHANGED running
        BY <2>1 DEF workerRan
    <3>3. running' \in BOOLEAN
        BY <3>1, <3>2, Zenon
    <3> QED BY <1>0, <3>1, <3>2, <3>3
  <2>2. CASE statusChecking
    <3>1. pc = "status" /\ k \in 0..N /\ running \in BOOLEAN
        BY <2>2 DEF statusChecking, IInv, LoopRange, TypeOK
    <3>2. /\ pc' \in {"status", "dtorStop"} /\ UNCHANGED running
          /\ k' = IF k = N THEN 0 ELSE k + 1
        BY <2>2 DEF statusChecking
    <3> QED BY <1>0, <3>1, <3>2
  <2> QED BY <2>1, <2>2
<1>2. TypeOK'
    BY <1>0, <1>1, OrderIs DEF IInv, TypeOK, resources, workers, sockets
<1> QED BY <1>0, <1>1, <1>2 DEF resources, workers, sockets, IInv, InitProgress,
        Prepared, LoopRange, SocketOwned, ListenerWithin, HalfCleaned, CleanPC,
        Started, Complete

-----------------------------------------------------------------------------
(* The threads *)

\* A thread that steps was started, and its Worker is alive.
LEMMA ThreadStep ==
    ASSUME IInv, NEW w \in Id, Thread(w)
    PROVE  IInv'
<1>1. /\ thread[w] # "none" /\ object[w] = "alive"
      /\ \E to \in {"check", "wait", "handle", "exit", "ended"} :
             thread' = [thread EXCEPT ![w] = to]
      /\ UNCHANGED <<pc, k, running, resources, object, sockets>>
    BY DEF Thread, ThreadCheck, ThreadWoken, ThreadWaitFails, ThreadHandled,
           ThreadExit, Steps
<1>2. /\ flag' \in [Id -> BOOLEAN]
      /\ \A v \in Id : flag'[v] => flag[v]
    BY DEF Thread, ThreadCheck, ThreadWoken, ThreadWaitFails, ThreadHandled,
           ThreadExit, IInv, TypeOK
<1>3. Started /\ \A v \in Id \ {w} : thread'[v] = thread[v]
    BY <1>1 DEF Started, IInv, TypeOK
<1>4. TypeOK'
  <2>1. thread' \in [Id -> {"none", "check", "wait", "handle", "exit", "ended"}]
      BY <1>1 DEF IInv, TypeOK
  <2> QED BY <1>1, <1>2, <2>1 DEF IInv, TypeOK, resources, sockets
<1>5. SocketOwned'
    BY <1>1, <1>3, ServerAssumption DEF IInv, SocketOwned, HalfCleaned, TypeOK,
       Id, sockets
<1>6. Prepared' /\ InitProgress'
    BY <1>1, <1>3 DEF IInv, Prepared, InitProgress, Complete, resources, sockets
<1> QED BY <1>1, <1>2, <1>4, <1>5, <1>6 DEF IInv, LoopRange, ListenerWithin,
       HalfCleaned

\* The inductive invariant of the server holds in every reachable state.
THEOREM Inductive == Spec => []IInv
<1>1. IInv /\ [Next]_vars => IInv'
  <2> SUFFICES ASSUME IInv, [Next]_vars PROVE IInv'
      OBVIOUS
  <2>1. CASE Main
      BY <2>1, StartStep, EarlyStep, AccessorStep, IOWorkerStep, ListenSocketStep,
         ListenWorkerStep, RunStep, CheckStep, StoppingStep, CleanListenStep,
         CleanIOStep DEF Main
  <2>2. CASE \E w \in Id : Thread(w)
      BY <2>2, ThreadStep
  <2>3. CASE UNCHANGED vars
      BY <2>3 DEF vars, resources, workers, sockets,
       IInv, TypeOK, InitProgress, Prepared, LoopRange,
       SocketOwned, ListenerWithin, HalfCleaned, CleanPC, Started, Complete, Id
  <2> QED BY <2>1, <2>2, <2>3 DEF Next
<1> QED BY <1>1, InitInvariant, PTL DEF Spec

\* Every variable keeps its type: no loop of start, stop or statusChecking
\* leaves the vector of workers.
THEOREM TypeCorrect == Spec => []TypeOK
<1>1. IInv => TypeOK
    BY DEF IInv
<1> QED BY <1>1, Inductive, PTL

\* init makes router, accessor and workers in an order in which no handler is
\* called with something missing, for any number of workers.
THEOREM HandlersAreComplete == Spec => []HandlersComplete
<1>1. IInv => HandlersComplete
    BY DEF IInv, Prepared, Started, Complete, HandlersComplete
<1> QED BY <1>1, Inductive, PTL

\* On no path through start and the destructor is the listening socket closed
\* twice, and once a worker was run it is closed or in a thread's hand.
THEOREM SocketClosedOnce == Spec => []ClosedOnce
<1>1. IInv => ClosedOnce
    BY DEF IInv, TypeOK, SocketOwned, Started, ClosedOnce
<1> QED BY <1>1, Inductive, PTL

\* Whatever the listener's thread is doing when the server is taken down, as
\* long as its Worker exists the workers it hands connections to exist, for any
\* number of them.
THEOREM WorkersOutliveListener == Spec => []ListenerFindsWorkers
<1>1. IInv => ListenerFindsWorkers
  <2> SUFFICES ASSUME IInv, thread[0] = "handle", object[0] = "alive"
               PROVE  \A w \in 1..handler[0].io : object[w] = "alive"
      BY DEF ListenerFindsWorkers
  <2>1. 0 \in Id
      BY ServerAssumption DEF Id
  <2>2. handler[0].io = N
      BY <2>1 DEF IInv, Prepared, Started, Complete
  <2> QED BY <2>2 DEF IInv, ListenerWithin
<1> QED BY <1>1, Inductive, PTL
=============================================================================
