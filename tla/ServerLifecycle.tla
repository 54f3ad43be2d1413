--------------------------- MODULE ServerLifecycle ---------------------------
(***************************************************************************)
(* How the server comes up and goes down: main and Server in the main      *)
(* thread, and the detached thread of every Worker.                        *)
(*                                                                         *)
(* Sources: Server.cc, main.cc, the thread control of Worker.cc, and the   *)
(* constructors and destructors of Worker and Epoll.  What a thread does   *)
(* inside handleEvent is module Reactor's matter.                          *)
(*                                                                         *)
(* Worker 0 is the listen worker, 1..N are the IO workers.  A thread takes *)
(* no step after its Worker object is destroyed: what the code then does   *)
(* is undefined.                                                           *)
(***************************************************************************)
EXTENDS Integers, Sequences

CONSTANT N  \* ServerConfig::__workerNum

ASSUME ServerAssumption == N \in Nat

VARIABLES
    pc,         \* the main thread: in main, Server::start or ~Server
    k,          \* its loop index
    running,    \* Server::__running
    router,     \* __router and __resourceAccessor are not null
    accessor,
    created,    \* the number of workers in __ioWorkers
    object,     \* the Worker objects: "none", "alive" or "destroyed"
    handler,    \* what the handler was constructed with
    flag,       \* Worker::__running
    thread,     \* the threads, in the lambda of Worker::run
    listenFD,   \* __listenFD is not -1
    socket,     \* the listening socket: "none", "open" or "closed"
    registered, \* an Event in the listen worker's Epoll owns the socket
    closes      \* history: how often the socket was closed

resources == <<router, accessor, created, handler>>
workers   == <<object, flag, thread>>
sockets   == <<listenFD, socket, registered, closes>>
vars == <<pc, k, running, resources, workers, sockets>>

Id == 0..N

-----------------------------------------------------------------------------
(* Server::init *)

\* The IO workers are made before the accessor they are given.
OrderWorkersEarly ==
    <<"logger", "router", "ioworker", "accessor", "socket", "listenworker">>

\* "Cannot change the order of initialization."
Order ==
    <<"logger", "router", "accessor", "ioworker", "socket", "listenworker">>

At(step) == pc = "init" /\ Order[k] = step
Done == IF k < Len(Order) THEN pc' = "init" /\ k' = k + 1
        ELSE pc' = "run" /\ k' = 1
\* start returns the error of init: main returns -1
Failed == pc' = "dtorStop" /\ UNCHANGED k

\* initLogger, unless the logger is stopped or its file cannot be opened
initLogger ==
    /\ At("logger")
    /\ Done \/ Failed
    /\ UNCHANGED <<running, resources, workers, sockets>>

initRouter ==
    /\ At("router")
    /\ router' = TRUE
    /\ Done
    /\ UNCHANGED <<running, accessor, created, handler, workers, sockets>>

\* A connection to Redis that cannot be set up ends it.
initResourceAccessor ==
    /\ At("accessor")
    /\ \/ Done /\ accessor' = TRUE
       \/ Failed /\ UNCHANGED accessor
    /\ UNCHANGED <<running, router, created, handler, workers, sockets>>

\* What a handler constructed now is given: IOEventHandler copies the pointers,
\* ListenEventHandler the list of workers.
Given == [router |-> router, accessor |-> accessor, io |-> created]
Construct(w) ==
    /\ object' = [object EXCEPT ![w] = "alive"]
    /\ flag' = [flag EXCEPT ![w] = FALSE]
    /\ handler' = [handler EXCEPT ![w] = Given]
    /\ UNCHANGED thread

\* The loop makes one worker too many.
initIOWorkerOffByOne ==
    /\ At("ioworker")
    /\ \/ /\ created <= N
          /\ Construct(created + 1)
          /\ created' = created + 1
          /\ UNCHANGED <<pc, k>>
       \/ created > N /\ Done /\ UNCHANGED <<created, handler, workers>>
    /\ UNCHANGED <<running, router, accessor, sockets>>

\* One turn of the loop of initIOWorker; a Worker whose Epoll is not valid is
\* dropped again.
initIOWorker ==
    /\ At("ioworker")
    /\ \/ /\ created < N
          /\ Construct(created + 1)
          /\ created' = created + 1
          /\ UNCHANGED <<pc, k>>
       \/ created < N /\ Failed /\ UNCHANGED <<created, handler, workers>>
       \/ created = N /\ Done /\ UNCHANGED <<created, handler, workers>>
    /\ UNCHANGED <<running, router, accessor, sockets>>

\* socket may fail; so may fcntl, bind and listen once there is a socket
initListenSocket ==
    /\ At("socket")
    /\ \/ Failed /\ UNCHANGED <<listenFD, socket>>
       \/ (Done \/ Failed) /\ listenFD' = TRUE /\ socket' = "open"
    /\ UNCHANGED <<running, resources, workers, registered, closes>>

CloseSocket == socket' = "closed" /\ closes' = closes + 1

\* The Epoll may be invalid; addEvent may fail, and the temporary Event then
\* closes the socket.
initListenWorker ==
    /\ At("listenworker")
    /\ Construct(0)
    /\ \/ Done /\ registered' = TRUE /\ UNCHANGED <<socket, closes>>
       \/ Failed /\ UNCHANGED <<registered, socket, closes>>
       \/ Failed /\ CloseSocket /\ UNCHANGED registered
    /\ UNCHANGED <<running, router, accessor, created, listenFD>>

-----------------------------------------------------------------------------
(* Server::start, stop, clean and statusChecking; ~Server *)

\* Server::stop
stop ==
    /\ flag' = [w \in Id |-> FALSE]
    /\ running' = FALSE

\* Destroying the listen worker destroys its Epoll and the Event that owns the
\* socket, unless the worker's thread has that Event in hand.
ListenWorkerCloses == object[0] = "alive" /\ registered /\ thread[0] # "handle"

\* ~Worker, of those of ws that there are
Destroy(ws) ==
    /\ object' = [w \in Id |-> IF w \in ws /\ object[w] = "alive"
                              THEN "destroyed" ELSE object[w]]
    /\ flag' = [w \in Id |-> flag[w] /\ ~(w \in ws /\ object[w] = "alive")]
    /\ UNCHANGED <<handler, thread>>

\* The listen worker outlives those it hands connections to.
CleanOrderSwapped == <<"ioworkers", "listenworker">>

\* clean destroys the workers in this order; the threads go on meanwhile.
CleanOrder == <<"listenworker", "ioworkers">>

\* It is called by init, by a start that fails and by ~Server.
CleanPC == {"initClean", "startClean", "dtorClean"}
Return == [initClean |-> "init", startClean |-> "dtorStop", dtorClean |-> "done"]

Cleans(part) == pc \in CleanPC /\ CleanOrder[k] = part
Cleaned == IF k < Len(CleanOrder) THEN k' = k + 1 /\ UNCHANGED pc
           ELSE k' = 1 /\ pc' = Return[pc]

\* The condition of clean the other way round.
cleanListenWorkerClosesFD ==
    /\ Cleans("listenworker")
    /\ Destroy({0})
    /\ router' = FALSE /\ accessor' = FALSE
    /\ registered' = FALSE
    /\ socket' = IF listenFD \/ ListenWorkerCloses THEN "closed" ELSE socket
    /\ closes' = closes + (IF listenFD THEN 1 ELSE 0)
                        + (IF ListenWorkerCloses THEN 1 ELSE 0)
    /\ Cleaned
    /\ UNCHANGED <<running, created, listenFD>>

\* Server::clean up to __listenWorker.reset().  if (-1 == __listenFD)
\* close(__listenFD); closes nothing.
cleanListenWorker ==
    /\ Cleans("listenworker")
    /\ Destroy({0})
    /\ router' = FALSE /\ accessor' = FALSE
    /\ registered' = FALSE
    /\ IF ListenWorkerCloses THEN CloseSocket ELSE UNCHANGED <<socket, closes>>
    /\ Cleaned
    /\ UNCHANGED <<running, created, listenFD>>

\* __ioWorkers.clear()
cleanIOWorkers ==
    /\ Cleans("ioworkers")
    /\ Destroy(1..N)
    /\ created' = 0
    /\ Cleaned
    /\ UNCHANGED <<running, router, accessor, sockets>>

\* start is called once, by main; init begins with clean.
start ==
    /\ pc = "start" /\ ~running
    /\ pc' = "initClean" /\ k' = 1
    /\ UNCHANGED <<running, resources, workers, sockets>>

\* The workers are run in the order 1..N, 0.
Current == k % (N + 1)

\* Worker::run up to detach
runWorker ==
    /\ pc = "run"
    /\ flag' = [flag EXCEPT ![Current] = TRUE]
    /\ thread' = [thread EXCEPT ![Current] = "check"]
    /\ pc' = "ran"
    /\ UNCHANGED <<k, running, resources, object, sockets>>

\* if (!isRunning()) return WORKER_START_FAILED; and start goes to stop
workerRan ==
    /\ pc = "ran"
    /\ IF ~flag[Current] THEN pc' = "startStop" /\ UNCHANGED <<k, running>>
       ELSE IF k = N + 1 THEN pc' = "status" /\ k' = 0 /\ running' = TRUE
       ELSE pc' = "run" /\ k' = k + 1 /\ UNCHANGED running
    /\ UNCHANGED <<resources, workers, sockets>>

stopping ==
    /\ pc \in {"startStop", "dtorStop"}
    /\ stop
    /\ pc' = IF pc = "startStop" THEN "startClean" ELSE "dtorClean"
    /\ k' = 1
    /\ UNCHANGED <<resources, object, thread, sockets>>

\* Only the listen worker is looked at.
statusCheckingListener ==
    /\ pc = "status"
    /\ k' = 0
    /\ pc' = IF flag[0] THEN "status" ELSE "dtorStop"
    /\ UNCHANGED <<running, resources, workers, sockets>>

\* main's loop: statusChecking looks at worker 0, then at 1..N; main returns
\* when one of them is not running and sleeps otherwise.
statusChecking ==
    /\ pc = "status"
    /\ k' = IF k = N THEN 0 ELSE k + 1
    /\ pc' = IF flag[k] THEN "status" ELSE "dtorStop"
    /\ UNCHANGED <<running, resources, workers, sockets>>

Main ==
    \/ start \/ initLogger \/ initRouter \/ initResourceAccessor
    \/ initIOWorker \/ initListenSocket \/ initListenWorker
    \/ runWorker \/ workerRan \/ statusChecking \/ stopping
    \/ cleanListenWorker \/ cleanIOWorkers

-----------------------------------------------------------------------------
(* The thread of worker w, in the lambda of Worker::run *)

Steps(w, from, to) ==
    /\ thread[w] = from /\ object[w] = "alive"
    /\ thread' = [thread EXCEPT ![w] = to]
    /\ UNCHANGED <<pc, k, running, resources, object, sockets>>

ThreadCheck(w) ==
    Steps(w, "check", IF flag[w] THEN "wait" ELSE "exit") /\ UNCHANGED flag

\* epoll_wait(-1): something arrives ...
ThreadWoken(w) == Steps(w, "wait", "handle") /\ UNCHANGED flag

\* ... or it fails and the loop ends
ThreadWaitFails(w) == Steps(w, "wait", "exit") /\ UNCHANGED flag

ThreadHandled(w) == Steps(w, "handle", "check") /\ UNCHANGED flag

\* __running = false;
ThreadExit(w) ==
    Steps(w, "exit", "ended") /\ flag' = [flag EXCEPT ![w] = FALSE]

Thread(w) ==
    \/ ThreadCheck(w) \/ ThreadWoken(w) \/ ThreadWaitFails(w)
    \/ ThreadHandled(w) \/ ThreadExit(w)

-----------------------------------------------------------------------------
Init ==
    /\ pc = "start" /\ k = 0 /\ running = FALSE
    /\ router = FALSE /\ accessor = FALSE /\ created = 0
    /\ object = [w \in Id |-> "none"]
    /\ handler = [w \in Id |-> Given]
    /\ flag = [w \in Id |-> FALSE]
    /\ thread = [w \in Id |-> "none"]
    /\ listenFD = FALSE /\ socket = "none" /\ registered = FALSE
    /\ closes = 0

Next == Main \/ \E w \in Id : Thread(w)

Spec == Init /\ [][Next]_vars

\* The main thread is scheduled and its sleep ends; a thread that has left its
\* loop runs to its end.
FairSpec == Spec /\ WF_vars(Main) /\ \A w \in Id : WF_vars(ThreadExit(w))

-----------------------------------------------------------------------------
(* Properties *)

\* Every variable keeps its type.
TypeOK ==
    /\ pc \in {"start", "init", "run", "ran", "status", "startStop",
               "dtorStop", "done"} \cup CleanPC
    /\ k \in 0..Len(Order) + N + 1
    /\ created \in 0..N
    /\ running \in BOOLEAN /\ router \in BOOLEAN /\ accessor \in BOOLEAN
    /\ listenFD \in BOOLEAN /\ registered \in BOOLEAN
    /\ object \in [Id -> {"none", "alive", "destroyed"}]
    /\ handler \in [Id -> [router : BOOLEAN, accessor : BOOLEAN, io : 0..N]]
    /\ flag \in [Id -> BOOLEAN]
    /\ thread \in [Id -> {"none", "check", "wait", "handle", "exit", "ended"}]
    /\ socket \in {"none", "open", "closed"} /\ closes \in Nat

\* A handler at work has been given all it uses: an IO handler its router and
\* accessor, the listen handler every IO worker.  init creates them in the one
\* order that makes this true.
HandlersComplete ==
    \A w \in Id : thread[w] = "handle" =>
        /\ handler[w].router /\ handler[w].accessor
        /\ w = 0 => handler[w].io = N

\* The listening socket has two possible owners, __listenFD and the Event given
\* to the listen worker: it is never closed twice, on any path, and once a worker
\* was started it is closed in the end, unless the listen worker's thread still has the
\* Event in hand.  (If init fails after socket() and before addEvent nobody closes it:
\* clean closes __listenFD only if it is -1.)
ClosedOnce ==
    /\ closes <= 1
    /\ (pc = "done" /\ thread[0] # "handle" /\ \E w \in Id : thread[w] # "none")
         => closes = 1

\* As long as the listen worker is there every IO worker on its handler's list
\* is too: the list holds weak pointers, and handle uses what lock() returns
\* untested.  clean destroys the listen worker first, while threads may be in
\* handle: the destructor waits for none of them.
ListenerFindsWorkers ==
    thread[0] = "handle" /\ object[0] = "alive" =>
        \A w \in 1..handler[0].io : object[w] = "alive"

\* A worker that dies is noticed by main, which then ends: also one that dies
\* while start is still running the others, which start does not look at.
DeathNoticed == \A w \in Id : thread[w] = "exit" ~> pc = "done"

-----------------------------------------------------------------------------
(* The inductive invariant *)

Complete(w) ==
    /\ handler[w].router /\ handler[w].accessor
    /\ w = 0 => handler[w].io = N

\* Some worker was run.
Started == \E w \in Id : thread[w] # "none"

\* The steps of init taken so far have left what the later ones need.
InitProgress ==
    /\ pc \in {"start", "initClean", "init"} =>
           ~registered /\ closes = 0 /\ object[0] = "none"
    /\ pc = "init" =>
           /\ k \in 1..Len(Order)
           /\ k > 2 => router
           /\ k > 3 => accessor
           /\ k < 4 => created = 0
           /\ k > 4 => created = N
           /\ \A w \in 1..created : Complete(w) /\ object[w] = "alive"

\* Workers are run and looked at only when init has made them all.
Prepared ==
    /\ pc \in {"run", "ran", "status"} =>
           /\ registered
           /\ \A w \in Id : Complete(w) /\ object[w] = "alive"
    /\ Started => /\ pc \notin {"start", "initClean", "init"}
                  /\ \A w \in Id : Complete(w)

\* The main thread's loops look at workers there are.
LoopRange ==
    /\ pc \in {"run", "ran"} => k \in 1..N+1
    /\ pc = "status" => k \in 0..N
    /\ pc \in CleanPC => k \in 1..2

\* clean is between its two steps.
HalfCleaned == pc \in CleanPC /\ k = 2

\* The Event registered with the listen worker is the only one that closes the
\* socket; once a worker was run it has done so, can still do so, or is in the
\* hand of a thread whose Worker is gone.
SocketOwned ==
    /\ closes + (IF registered THEN 1 ELSE 0) <= 1
    /\ HalfCleaned \/ pc = "done" => ~registered
    /\ Started => \/ registered /\ object[0] = "alive"
                  \/ closes = 1
                  \/ thread[0] = "handle" /\ object[0] = "destroyed"

\* The listen worker is the last to be made and the first to be destroyed.
ListenerWithin ==
    /\ object[0] = "alive" => \A w \in 1..N : object[w] = "alive"
    /\ HalfCleaned => object[0] # "alive"

IInv == TypeOK /\ InitProgress /\ Prepared /\ LoopRange /\ SocketOwned
        /\ ListenerWithin
=============================================================================
