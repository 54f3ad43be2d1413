------------------------------- MODULE Reactor -------------------------------
(***************************************************************************)
(* The concurrency core of the web server: the listening Worker that       *)
(* accepts connections and hands each one to an IO Worker, and the IO      *)
(* Workers that wait on their Epoll object, read and answer what has       *)
(* arrived, and drop the connection.                                       *)
(*                                                                         *)
(* Sources: Epoll.cc, Event.cc, Worker.cc, ListenEventHandler.cc and the   *)
(* control of IOEventHandler.cc.  The kernel (descriptor table, listen     *)
(* backlog, edge-triggered epoll instances) is external and modelled from  *)
(* the way the code uses it.                                               *)
(*                                                                         *)
(* An Event object is named by the connection it was created for: accept   *)
(* returns each connection once and exactly one Event is made for it.      *)
(***************************************************************************)
EXTENDS Integers, Sequences, FiniteSets, SequencesExt

CONSTANTS
    Client,      \* the connections clients may open
    Worker,      \* the IO workers (Server::__ioWorkers)
    FD,          \* descriptor numbers the process may use besides the fixed ones
    MaxFDS,      \* Epoll::__maxFDS of every IO worker
    MaxReq,      \* bound: the number of requests each client sends
    CallMayFail, \* accept, fcntl and epoll_ctl(EPOLL_CTL_ADD) may fail
    ThreadMayEnd,\* epoll_wait may fail and Worker::stop may be called
    None         \* null pointer, empty slot, no descriptor

Listener == "listener"  \* the thread of the listen worker

ASSUME ReactorAssumption ==
    /\ IsFiniteSet(Worker) /\ IsFiniteSet(FD)
    /\ MaxFDS \in Nat \ {0} /\ MaxReq \in [Client -> Nat]
    /\ CallMayFail \in BOOLEAN /\ ThreadMayEnd \in BOOLEAN
    /\ None \notin Client \cup Worker \cup FD
    /\ Client \cap Worker = {}
    /\ Listener \notin Worker \cup {None}

VARIABLES
    \* kernel
    fdtab,     \* what each descriptor number refers to: a connection, the
               \* resource file a worker has open, or None (free)
    conn,      \* "idle", "backlog", "open" or "closed"
    left,      \* requests the client has yet to send
    unread,    \* requests received by the kernel and not read yet
    fin,       \* the client has shut down its side
    interest,  \* descriptors registered with the epoll instance of a worker
    ready,     \* its ready list (edge-triggered: emptied by epoll_wait)
    lready,    \* the listening socket is on the listen worker's ready list
    \* shared objects
    events,    \* Epoll::__events of each worker: descriptor -> Event or None
    lock,      \* owner of Epoll::__eventsMapLock
    evFD,      \* Event::__fd
    evWorker,  \* Event::__worker
    running,   \* Worker::__running of every worker
    \* the thread of the listen worker, in Worker::run and ListenEventHandler::handle
    lpc, lconn, lfd, idx,
    order,     \* ListenEventHandler::__ioWorkers
    \* the threads of the IO workers, inside the lambda of Worker::run
    pc,
    accepted,  \* Epoll::__acceptedEvents between epoll_wait and the map lookup
    batch,     \* the vector `events` of Worker::run
    todo,      \* its elements that have not been handled
    cur,       \* the event being handled
    wfile,     \* descriptor of the resource file of `res`, the last response
    wnew,      \* descriptor of the file of the response being made
    \* history
    strayClose,\* some close() hit a descriptor that was somebody else's
    assigned,  \* connections handed to each worker
    skipped,   \* the listener has passed over some worker
    missed     \* accept has failed while connections were waiting, and the
               \* listener has not come back to it since

kernel   == <<fdtab, conn, left, unread, fin, interest, ready, lready>>
shared   == <<events, lock, evFD, evWorker, running>>
listener == <<lpc, lconn, lfd, idx, order>>
threads  == <<pc, accepted, batch, todo, cur, wfile, wnew>>
history  == <<strayClose, assigned, skipped, missed>>
vars     == <<kernel, shared, listener, threads, history>>

Thread == Worker \cup {Listener}

-----------------------------------------------------------------------------
(* The kernel, as the code sees it *)

FreeFD == {fd \in FD : fdtab[fd] = None}

\* A read on the connection would return something: data or end of file.
Readable(c) == unread[c] > 0 \/ fin[c]

\* Arrival on connection c puts its descriptor on the ready list of the epoll
\* instance it is registered with (EPOLLIN|EPOLLET).
RaiseEdge(c) ==
    ready' = [w \in Worker |->
                ready[w] \cup {fd \in interest[w] : fdtab[fd] = c}]

\* close(fd) by a caller that believes fd to be its own object `owner`.  The
\* last reference to an open file also leaves the epoll instances.
Close(fd, owner) ==
    /\ fdtab' = [fdtab EXCEPT ![fd] = None]
    /\ conn' = IF fdtab[fd] \in Client
               THEN [conn EXCEPT ![fdtab[fd]] = "closed"] ELSE conn
    /\ interest' = [w \in Worker |-> interest[w] \ {fd}]
    /\ ready' = [w \in Worker |-> ready[w] \ {fd}]
    /\ strayClose' = (strayClose \/ fdtab[fd] \notin {owner, None})

NoClose == UNCHANGED <<fdtab, conn, interest, ready, strayClose>>

Connect(c) ==
    /\ conn[c] = "idle"
    /\ conn' = [conn EXCEPT ![c] = "backlog"]
    /\ lready' = TRUE
    /\ UNCHANGED <<fdtab, left, unread, fin, interest, ready,
                   shared, listener, threads, history>>

Send(c) ==
    /\ conn[c] \in {"backlog", "open"}
    /\ left[c] > 0 /\ ~fin[c]
    /\ left' = [left EXCEPT ![c] = @ - 1]
    /\ unread' = [unread EXCEPT ![c] = @ + 1]
    /\ RaiseEdge(c)
    /\ UNCHANGED <<fdtab, conn, fin, interest, lready,
                   shared, listener, threads, history>>

Shutdown(c) ==
    /\ conn[c] \in {"backlog", "open"}
    /\ ~fin[c]
    /\ fin' = [fin EXCEPT ![c] = TRUE]
    /\ RaiseEdge(c)
    /\ UNCHANGED <<fdtab, conn, left, unread, interest, lready,
                   shared, listener, threads, history>>

-----------------------------------------------------------------------------
(* Event, Epoll and Worker *)

\* Epoll::activeFDS
activeFDS(w) == Cardinality({fd \in FD : events[w][fd] # None})

HasRoomOffByOne(w) == activeFDS(w) <= MaxFDS

\* The test both ListenEventHandler::handle and Epoll::epollAddEvent make.
HasRoom(w) == activeFDS(w) < MaxFDS

\* The listener's shared_ptr to the Event it has just made.
ListenerHolds(c) ==
    lconn = c /\ lpc \in {"addRoom", "ctl", "insert", "release", "failed"}

InMap(c) == \E w \in Worker, fd \in FD : events[w][fd] = c

\* Event::~Event, run by whoever drops the last shared_ptr.
DestroyEvent(c) ==
    /\ Close(evFD[c], c)
    /\ evWorker' = [evWorker EXCEPT ![c] = None]

KeepEvent == NoClose /\ UNCHANGED evWorker

-----------------------------------------------------------------------------
(* Worker::run and ListenEventHandler::handle, in the thread of the listen worker *)

\* while (isRunning())
LCheck ==
    /\ lpc = "check"
    /\ lpc' = IF running[Listener] THEN "wait" ELSE "exit"
    /\ UNCHANGED <<kernel, shared, lconn, lfd, idx, order, threads, history>>

\* epoll_wait on the listening socket; nobody else uses this Epoll object.
LWake ==
    /\ lpc = "wait" /\ lready
    /\ lready' = FALSE
    /\ missed' = FALSE
    /\ lpc' = "accept"
    /\ UNCHANGED <<fdtab, conn, left, unread, fin, interest, ready,
                   shared, lconn, lfd, idx, order, threads,
                   strayClose, assigned, skipped>>

\* EPOLL_WAIT_FAILED: break
LWaitFails ==
    /\ ThreadMayEnd
    /\ lpc = "wait"
    /\ lpc' = "exit"
    /\ UNCHANGED <<kernel, shared, lconn, lfd, idx, order, threads, history>>

\* __running = false; the thread function returns
LExit ==
    /\ lpc = "exit"
    /\ running' = [running EXCEPT ![Listener] = FALSE]
    /\ lpc' = "done"
    /\ UNCHANGED <<kernel, events, lock, evFD, evWorker, lconn, lfd, idx, order,
                   threads, history>>

LAccept ==
    /\ lpc = "accept"
    /\ \E c \in Client, fd \in FreeFD :
         /\ conn[c] = "backlog"
         /\ conn' = [conn EXCEPT ![c] = "open"]
         /\ fdtab' = [fdtab EXCEPT ![fd] = c]
         /\ lconn' = c
         /\ lfd' = fd
    /\ lpc' = "fcntl"
    /\ UNCHANGED <<left, unread, fin, interest, ready, lready,
                   shared, idx, order, threads, history>>

\* accept returns -1: nothing is pending (EAGAIN), no descriptor is free (EMFILE),
\* or it fails for another reason (ECONNABORTED, ENOBUFS, ...).  The loop ends in all
\* cases, whatever is left in the backlog.
LAcceptFails ==
    LET backlog == {c \in Client : conn[c] = "backlog"} IN
    /\ lpc = "accept"
    /\ CallMayFail \/ FreeFD = {} \/ backlog = {}
    /\ missed' = (backlog # {})
    /\ lpc' = "check"
    /\ UNCHANGED <<kernel, shared, lconn, lfd, idx, order, threads,
                   strayClose, assigned, skipped>>

\* fcntl(F_GETFL) returns -1: close(clientFD); continue;
LFcntlFails ==
    /\ CallMayFail
    /\ lpc = "fcntl"
    /\ Close(lfd, lconn)
    /\ lpc' = "accept"
    /\ UNCHANGED <<left, unread, fin, lready, shared, lconn, lfd, idx, order,
                   threads, assigned, skipped, missed>>

\* F_SETFL, whose result the code does not look at, only changes O_NONBLOCK of a
\* socket: it does not fail on a descriptor for which F_GETFL has just succeeded.
LSetNonblock ==
    /\ lpc = "fcntl"
    /\ lpc' = "running"
    /\ idx' = 1
    /\ UNCHANGED <<kernel, shared, lconn, lfd, order, threads, history>>

\* for (i=0; ...): cur->isRunning() && cur->activeFDS()<cur->maxFDS()
LNextWorker ==
    /\ idx' = idx + 1
    /\ skipped' = TRUE
    /\ lpc' = "running"

LPickRunning ==
    /\ lpc = "running" /\ idx <= Len(order)
    /\ IF running[order[idx]]
       THEN lpc' = "room" /\ UNCHANGED <<idx, skipped>>
       ELSE LNextWorker
    /\ UNCHANGED <<kernel, shared, lconn, lfd, order, threads,
                   strayClose, assigned, missed>>

LPickRoom ==
    /\ lpc = "room" /\ lock[order[idx]] = None
    /\ IF HasRoom(order[idx])
       THEN lpc' = "event" /\ UNCHANGED <<idx, skipped>>
       ELSE LNextWorker
    /\ UNCHANGED <<kernel, shared, lconn, lfd, order, threads,
                   strayClose, assigned, missed>>

LNoWorkerLeak ==
    /\ lpc = "running" /\ idx > Len(order)
    /\ lpc' = "accept"
    /\ UNCHANGED <<kernel, shared, lconn, lfd, idx, order, threads, history>>

\* i==__ioWorkers.size(): close(clientFD); continue;
LNoWorker ==
    /\ lpc = "running" /\ idx > Len(order)
    /\ Close(lfd, lconn)
    /\ lpc' = "accept"
    /\ UNCHANGED <<left, unread, fin, lready, shared, lconn, lfd, idx, order,
                   threads, assigned, skipped, missed>>

LMakeEventNoWorker ==
    /\ lpc = "event"
    /\ evFD' = [evFD EXCEPT ![lconn] = lfd]
    /\ lpc' = "addRoom"
    /\ UNCHANGED <<kernel, events, lock, evWorker, running, lconn, lfd, idx,
                   order, threads, history>>

\* make_shared<Event>(clientFD, ...) and, in Worker::addEvent, setWorker(this)
LMakeEvent ==
    /\ lpc = "event"
    /\ evFD' = [evFD EXCEPT ![lconn] = lfd]
    /\ evWorker' = [evWorker EXCEPT ![lconn] = order[idx]]
    /\ lpc' = "addRoom"
    /\ UNCHANGED <<kernel, events, lock, running, lconn, lfd, idx, order,
                   threads, history>>

\* Epoll::epollAddEvent, the test before the lock: MAX_EVENT_NUM
LAddRoom ==
    /\ lpc = "addRoom" /\ lock[order[idx]] = None
    /\ lpc' = IF HasRoom(order[idx]) THEN "ctl" ELSE "failed"
    /\ UNCHANGED <<kernel, shared, lconn, lfd, idx, order, threads, history>>

\* The descriptor is registered before the lock is taken.
LCtlAddUnlocked ==
    LET w == order[idx] IN
    /\ lpc = "ctl"
    /\ interest' = [interest EXCEPT ![w] = @ \cup {lfd}]
    /\ ready' = [ready EXCEPT ![w] =
                   IF Readable(lconn) THEN @ \cup {lfd} ELSE @]
    /\ lpc' = "insert"
    /\ UNCHANGED <<fdtab, conn, left, unread, fin, lready, shared,
                   lconn, lfd, idx, order, threads, history>>

\* epoll_ctl(EPOLL_CTL_ADD) under the lock: from here epoll_wait may report
\* the descriptor although __events does not hold it yet.
LCtlAdd ==
    LET w == order[idx] IN
    /\ lpc = "ctl" /\ lock[w] = None
    /\ lock' = [lock EXCEPT ![w] = Listener]
    /\ interest' = [interest EXCEPT ![w] = @ \cup {lfd}]
    /\ ready' = [ready EXCEPT ![w] =
                   IF Readable(lconn) THEN @ \cup {lfd} ELSE @]
    /\ lpc' = "insert"
    /\ UNCHANGED <<fdtab, conn, left, unread, fin, lready, events, evFD,
                   evWorker, running, lconn, lfd, idx, order, threads, history>>

\* EPOLL_EVENT_ADD_FAILED: the lock is taken and released, nothing changes.
LCtlAddFails ==
    /\ CallMayFail
    /\ lpc = "ctl" /\ lock[order[idx]] = None
    /\ lpc' = "failed"
    /\ UNCHANGED <<kernel, shared, lconn, lfd, idx, order, threads, history>>

\* __events[fd] = _event; unlock
LInsert ==
    LET w == order[idx] IN
    /\ lpc = "insert"
    /\ events' = [events EXCEPT ![w][lfd] = lconn]
    /\ lock' = [lock EXCEPT ![w] = None]
    /\ assigned' = [assigned EXCEPT ![w] = @ + 1]
    /\ lpc' = "release"
    /\ UNCHANGED <<kernel, evFD, evWorker, running, lconn, lfd, idx, order,
                   threads, strayClose, skipped, missed>>

NotRotated(s, i) == s

\* The worker is pushed to the tail without being erased from its place.
RotatedNotErased(s, i) == Append(s, s[i])

\* __ioWorkers.erase(begin()+i); push_back(cur)
Rotated(s, i) == Append(RemoveAt(s, i), s[i])

\* One connection is accepted for each wake-up.
LReleaseWaits ==
    /\ lpc = "release"
    /\ IF InMap(lconn) \/ \E w \in Worker : lconn \in batch[w]
       THEN KeepEvent ELSE DestroyEvent(lconn)
    /\ order' = Rotated(order, idx)
    /\ lpc' = "check"
    /\ UNCHANGED <<left, unread, fin, lready, events, lock, evFD, running,
                   lconn, lfd, idx, threads, assigned, skipped, missed>>

\* addEvent returns SERVER_OK: the listener's shared_ptr goes away, which
\* destroys the Event if its worker has already finished with it, and the
\* worker moves to the tail of the list.
LRelease ==
    /\ lpc = "release"
    /\ IF InMap(lconn) \/ \E w \in Worker : lconn \in batch[w]
       THEN KeepEvent ELSE DestroyEvent(lconn)
    /\ order' = Rotated(order, idx)
    /\ lpc' = "accept"
    /\ UNCHANGED <<left, unread, fin, lready, events, lock, evFD, running,
                   lconn, lfd, idx, threads, assigned, skipped, missed>>

\* addEvent returns an error: setWorker(nullptr), then ~Event closes the
\* descriptor when the temporary shared_ptr is destroyed ...
LAddFailed ==
    /\ lpc = "failed"
    /\ DestroyEvent(lconn)
    /\ lpc' = "close"
    /\ UNCHANGED <<left, unread, fin, lready, events, lock, evFD, running,
                   lconn, lfd, idx, order, threads, assigned, skipped, missed>>

\* ... and the handler closes clientFD itself.
LCloseClient ==
    /\ lpc = "close"
    /\ Close(lfd, lconn)
    /\ lpc' = "accept"
    /\ UNCHANGED <<left, unread, fin, lready, shared, lconn, lfd, idx, order,
                   threads, assigned, skipped, missed>>

ListenStep ==
    \/ LCheck \/ LWake \/ LExit \/ LAccept \/ LAcceptFails \/ LFcntlFails \/ LSetNonblock
    \/ LPickRunning \/ LPickRoom \/ LNoWorker
    \/ LMakeEvent \/ LAddRoom \/ LCtlAdd \/ LCtlAddFails \/ LInsert \/ LRelease
    \/ LAddFailed \/ LCloseClient

-----------------------------------------------------------------------------
(* Worker::run, in the thread of IO worker w *)

Goto(w, label) == pc' = [pc EXCEPT ![w] = label]

WCheck(w) ==
    /\ pc[w] = "check"
    /\ Goto(w, IF running[w] THEN "wait" ELSE "exit")
    /\ UNCHANGED <<kernel, shared, listener, accepted, batch, todo, cur, wfile, wnew,
                   history>>

\* Epoll::epollWait up to the lock.  The ready list never exceeds maxFDS().
WWait(w) ==
    /\ pc[w] = "wait" /\ ready[w] # {}
    /\ accepted' = [accepted EXCEPT ![w] = ready[w]]
    /\ ready' = [ready EXCEPT ![w] = {}]
    /\ Goto(w, "collect")
    /\ UNCHANGED <<fdtab, conn, left, unread, fin, interest, lready,
                   shared, listener, batch, todo, cur, wfile, wnew, history>>

\* EPOLL_WAIT_FAILED (for example EINTR): break
WWaitFails(w) ==
    /\ ThreadMayEnd
    /\ pc[w] = "wait"
    /\ Goto(w, "exit")
    /\ UNCHANGED <<kernel, shared, listener, accepted, batch, todo, cur, wfile, wnew,
                   history>>

\* The locked part of epollWait: descriptors not in __events are skipped.
Found(w) == {events[w][fd] : fd \in accepted[w]} \ {None}

WCollect(w) ==
    /\ pc[w] = "collect" /\ lock[w] = None
    /\ batch' = [batch EXCEPT ![w] = Found(w)]
    /\ todo' = [todo EXCEPT ![w] = Found(w)]
    /\ accepted' = [accepted EXCEPT ![w] = {}]
    /\ Goto(w, "handle")
    /\ UNCHANGED <<kernel, shared, listener, cur, wfile, wnew, history>>

WHandle(w) ==
    /\ pc[w] = "handle" /\ todo[w] # {}
    /\ \E c \in todo[w] :
         /\ cur' = [cur EXCEPT ![w] = c]
         /\ todo' = [todo EXCEPT ![w] = @ \ {c}]
    /\ Goto(w, "recv")
    /\ UNCHANGED <<kernel, shared, listener, accepted, batch, wfile, wnew, history>>

WHandled(w) ==
    /\ pc[w] = "handle" /\ todo[w] = {}
    /\ cur' = [cur EXCEPT ![w] = None]
    /\ Goto(w, "clear")
    /\ UNCHANGED <<kernel, shared, listener, accepted, batch, todo, wfile, wnew,
                   history>>

\* IOEventHandler::handle: the connection behind the descriptor number.
Peer(c) == fdtab[evFD[c]]

\* getOneHttpRequest takes a request off the stream; one it cannot make sense
\* of is logged and dropped; one whose body did not come with its header keeps
\* parseBody spinning for ever (module Connection) ...
WRecv(w) ==
    LET x == Peer(cur[w]) IN
    /\ pc[w] = "recv"
    /\ x \in Client /\ unread[x] > 0
    /\ unread' = [unread EXCEPT ![x] = @ - 1]
    /\ \E next \in {"open", "recv", "spin"} : Goto(w, next)
    /\ UNCHANGED <<fdtab, conn, left, fin, interest, ready, lready,
                   shared, listener, accepted, batch, todo, cur, wfile, wnew, history>>

\* The loop ends although there is more to read.
WEofUnread(w) ==
    /\ pc[w] = "recv"
    /\ Goto(w, "delctl")
    /\ UNCHANGED <<kernel, shared, listener, accepted, batch, todo, cur, wfile, wnew,
                   history>>

\* ... or recv returns 0 or -1, the stream is at eof and the loop ends.
WEof(w) ==
    LET x == Peer(cur[w]) IN
    /\ pc[w] = "recv"
    /\ x \in Client => unread[x] = 0
    /\ Goto(w, "delctl")
    /\ UNCHANGED <<kernel, shared, listener, accepted, batch, todo, cur, wfile, wnew,
                   history>>

\* getResponseFromRequest opens the resource file, unless the body comes from
\* elsewhere or no descriptor is free.
WOpen(w) ==
    /\ pc[w] = "open"
    /\ \/ \E fd \in FreeFD :
            /\ fdtab' = [fdtab EXCEPT ![fd] = w]
            /\ wnew' = [wnew EXCEPT ![w] = fd]
       \/ UNCHANGED <<fdtab, wnew>>
    /\ Goto(w, "reply")
    /\ UNCHANGED <<conn, left, unread, fin, interest, ready, lready, shared,
                   listener, accepted, batch, todo, cur, wfile, history>>

\* The last reference to the response in `res` goes away, and its file with it.
DropResponse(w) == IF wfile[w] = None THEN NoClose ELSE Close(wfile[w], w)

\* res = ...: the previous response is dropped; the new one is written and keeps
\* its file.
WReply(w) ==
    /\ pc[w] = "reply"
    /\ DropResponse(w)
    /\ wfile' = [wfile EXCEPT ![w] = wnew[w]]
    /\ wnew' = [wnew EXCEPT ![w] = None]
    /\ Goto(w, "recv")
    /\ UNCHANGED <<left, unread, fin, lready, shared, listener,
                   accepted, batch, todo, cur, assigned, skipped, missed>>

\* _event->getWorker()->delEvent(_event): Epoll::epollDelEvent
WDelCtl(w) ==
    LET v == evWorker[cur[w]]
        fd == evFD[cur[w]] IN
    /\ pc[w] = "delctl"
    /\ v # None /\ lock[v] = None
    /\ IF fd \in interest[v]
       THEN /\ lock' = [lock EXCEPT ![v] = w]
            /\ interest' = [interest EXCEPT ![v] = @ \ {fd}]
            /\ ready' = [ready EXCEPT ![v] = @ \ {fd}]
            /\ Goto(w, "delerase")
       ELSE /\ Goto(w, "return")         \* EPOLL_EVENT_DEL_FAILED
            /\ UNCHANGED <<lock, interest, ready>>
    /\ UNCHANGED <<fdtab, conn, left, unread, fin, lready, events, evFD,
                   evWorker, running, listener, accepted, batch, todo, cur,
                   wfile, wnew, history>>

\* delEvent forgets to erase the map entry.
WDelEraseNot(w) ==
    LET v == evWorker[cur[w]] IN
    /\ pc[w] = "delerase"
    /\ lock' = [lock EXCEPT ![v] = None]
    /\ Goto(w, "return")
    /\ UNCHANGED <<kernel, events, evFD, evWorker, running, listener, accepted,
                   batch, todo, cur, wfile, wnew, history>>

\* The handler also closes the descriptor, which ~Event does again.
WDelEraseCloses(w) ==
    LET v == evWorker[cur[w]]
        fd == evFD[cur[w]] IN
    /\ pc[w] = "delerase"
    /\ events' = [events EXCEPT ![v][fd] = None]
    /\ lock' = [lock EXCEPT ![v] = None]
    /\ Close(fd, cur[w])
    /\ Goto(w, "return")
    /\ UNCHANGED <<left, unread, fin, lready, evFD, evWorker, running, listener,
                   accepted, batch, todo, cur, wfile, wnew, assigned, skipped, missed>>

WDelErase(w) ==
    LET v == evWorker[cur[w]]
        fd == evFD[cur[w]] IN
    /\ pc[w] = "delerase"
    /\ events' = [events EXCEPT ![v][fd] = None]
    /\ lock' = [lock EXCEPT ![v] = None]
    /\ Goto(w, "return")
    /\ UNCHANGED <<kernel, evFD, evWorker, running, listener, accepted, batch,
                   todo, cur, wfile, wnew, history>>

\* handle returns, and `res` goes away with its other variables.
WReturn(w) ==
    /\ pc[w] = "return"
    /\ DropResponse(w)
    /\ wfile' = [wfile EXCEPT ![w] = None]
    /\ Goto(w, "handle")
    /\ UNCHANGED <<left, unread, fin, lready, shared, listener, accepted, batch,
                   todo, cur, wnew, assigned, skipped, missed>>

\* events.clear(), one shared_ptr at a time
WClear(w) ==
    /\ pc[w] = "clear" /\ batch[w] # {}
    /\ \E c \in batch[w] :
         /\ batch' = [batch EXCEPT ![w] = @ \ {c}]
         /\ IF ListenerHolds(c) \/ InMap(c) THEN KeepEvent ELSE DestroyEvent(c)
    /\ UNCHANGED <<left, unread, fin, lready, events, lock, evFD, running,
                   listener, pc, accepted, todo, cur, wfile, wnew, assigned, skipped, missed>>

WCleared(w) ==
    /\ pc[w] = "clear" /\ batch[w] = {}
    /\ Goto(w, "check")
    /\ UNCHANGED <<kernel, shared, listener, accepted, batch, todo, cur, wfile, wnew,
                   history>>

\* __running = false; the thread function returns
WExit(w) ==
    /\ pc[w] = "exit"
    /\ running' = [running EXCEPT ![w] = FALSE]
    /\ Goto(w, "done")
    /\ UNCHANGED <<kernel, events, lock, evFD, evWorker, listener, accepted,
                   batch, todo, cur, wfile, wnew, history>>

\* Worker::stop, called by Server::stop in the main thread when a worker was found that
\* does not run (statusChecking, or run in Server::start): the IO workers are stopped
\* before the listen worker.
Stop(t) ==
    /\ ThreadMayEnd
    /\ running[t] /\ \E u \in Thread : ~running[u]
    /\ t = Listener => \A w \in Worker : ~running[w]
    /\ running' = [running EXCEPT ![t] = FALSE]
    /\ UNCHANGED <<kernel, events, lock, evFD, evWorker, listener, threads,
                   history>>

WorkerStep(w) ==
    \/ WCheck(w) \/ WWait(w) \/ WCollect(w)
    \/ WHandle(w) \/ WHandled(w) \/ WRecv(w) \/ WEof(w) \/ WOpen(w) \/ WReply(w)
    \/ WDelCtl(w) \/ WDelErase(w) \/ WReturn(w)
    \/ WClear(w) \/ WCleared(w) \/ WExit(w)

-----------------------------------------------------------------------------
Init ==
    /\ fdtab = [fd \in FD |-> None]
    /\ conn = [c \in Client |-> "idle"]
    /\ left = MaxReq
    /\ unread = [c \in Client |-> 0]
    /\ fin = [c \in Client |-> FALSE]
    /\ interest = [w \in Worker |-> {}]
    /\ ready = [w \in Worker |-> {}]
    /\ lready = FALSE
    /\ events = [w \in Worker |-> [fd \in FD |-> None]]
    /\ lock = [w \in Worker |-> None]
    /\ evFD = [c \in Client |-> None]
    /\ evWorker = [c \in Client |-> None]
    /\ running = [t \in Thread |-> TRUE]
    /\ lpc = "check" /\ lconn = None /\ lfd = None /\ idx = 1
    /\ order \in {o \in [1..Cardinality(Worker) -> Worker] : IsInjective(o)}
    /\ pc = [w \in Worker |-> "check"]
    /\ accepted = [w \in Worker |-> {}]
    /\ batch = [w \in Worker |-> {}]
    /\ todo = [w \in Worker |-> {}]
    /\ cur = [w \in Worker |-> None]
    /\ wfile = [w \in Worker |-> None]
    /\ wnew = [w \in Worker |-> None]
    /\ strayClose = FALSE
    /\ assigned = [w \in Worker |-> 0]
    /\ skipped = FALSE /\ missed = FALSE

Environment == \E c \in Client : Connect(c) \/ Send(c) \/ Shutdown(c)

Next ==
    \/ Environment
    \/ ListenStep \/ LWaitFails
    \/ \E w \in Worker : WorkerStep(w) \/ WWaitFails(w)
    \/ \E t \in Thread : Stop(t)

Spec == Init /\ [][Next]_vars

\* Threads the operating system schedules: a thread that can go on does.  The
\* clients owe nothing, nor does an epoll_wait that may fail.
FairSpec ==
    /\ Spec
    /\ WF_vars(ListenStep)
    /\ \A w \in Worker : WF_vars(WorkerStep(w))

-----------------------------------------------------------------------------
(* Properties *)

\* The listener has no connection in hand.
Free == {"check", "wait", "accept", "exit", "done"}
LPC == Free \cup {"fcntl", "running", "room", "event", "addRoom",
                  "ctl", "insert", "release", "failed", "close"}
Handling == {"recv", "spin", "open", "reply", "delctl", "delerase"}
WPC == {"check", "wait", "collect", "handle", "return", "clear", "exit", "done"}
       \cup Handling

\* Every variable keeps its type: descriptors, events and owners never mix.
TypeOK ==
    /\ fdtab \in [FD -> Client \cup Worker \cup {None}]
    /\ conn \in [Client -> {"idle", "backlog", "open", "closed"}]
    /\ left \in [Client -> Nat] /\ unread \in [Client -> Nat]
    /\ fin \in [Client -> BOOLEAN]
    /\ interest \in [Worker -> SUBSET FD] /\ ready \in [Worker -> SUBSET FD]
    /\ lready \in BOOLEAN
    /\ events \in [Worker -> [FD -> Client \cup {None}]]
    /\ lock \in [Worker -> Thread \cup {None}]
    /\ evFD \in [Client -> FD \cup {None}]
    /\ evWorker \in [Client -> Worker \cup {None}]
    /\ running \in [Thread -> BOOLEAN]
    /\ lpc \in LPC /\ lconn \in Client \cup {None} /\ lfd \in FD \cup {None}
    /\ idx \in 1..Cardinality(Worker)+1
    /\ order \in [1..Cardinality(Worker) -> Worker]
    /\ pc \in [Worker -> WPC]
    /\ accepted \in [Worker -> SUBSET FD]
    /\ batch \in [Worker -> SUBSET Client] /\ todo \in [Worker -> SUBSET Client]
    /\ cur \in [Worker -> Client \cup {None}]
    /\ wfile \in [Worker -> FD \cup {None}] /\ wnew \in [Worker -> FD \cup {None}]
    /\ strayClose \in BOOLEAN /\ skipped \in BOOLEAN /\ missed \in BOOLEAN
    /\ assigned \in [Worker -> Nat]

\* An Event in the hands of a handler carries the worker that handles it: the
\* assertion before delEvent in IOEventHandler::handle cannot fail, whatever
\* the interleaving of addEvent with the worker's own loop.
HandledEventHasWorker ==
    \A w \in Worker : pc[w] \in Handling => evWorker[cur[w]] = w

\* The test of activeFDS() is made outside the lock under which the event is
\* added, twice; the map still never outgrows maxFDS().
WithinCapacity == \A w \in Worker : activeFDS(w) <= MaxFDS

\* Outside the critical sections __events holds exactly the descriptors the
\* kernel watches for that worker: activeFDS() counts real registrations and
\* the slot of a finished connection is always given back.  (A stray close takes a
\* descriptor out of the interest set behind the program's back: see NoStrayClose.)
MapMatchesKernel ==
    ~strayClose => \A w \in Worker : lock[w] = None =>
        {fd \in FD : events[w][fd] # None} = interest[w]

\* An edge is never lost: a watched connection with something to read is on
\* the ready list, has been reported and not yet looked up, or is in the batch
\* its worker is working through.
EdgeKept ==
    \A w \in Worker : \A fd \in interest[w] :
        Readable(fdtab[fd]) =>
            \/ fd \in ready[w] \cup accepted[w]
            \/ fdtab[fd] \in todo[w]
            \/ pc[w] \in Handling /\ cur[w] = fdtab[fd]

\* No descriptor leaks and none is used after it was closed: an open
\* connection is held by the listener or by a live Event with its number, and
\* every live Event has its own connection behind its number, until a stray close
\* breaks that.
LiveEvent(c) == ListenerHolds(c) \/ InMap(c) \/ \E w \in Worker : c \in batch[w]

DescriptorsOwned ==
    ~strayClose =>
      /\ \A fd \in FD : fdtab[fd] \in Client =>
            \/ lpc \in {"fcntl", "running", "room", "event"} /\ lfd = fd
            \/ LiveEvent(fdtab[fd]) /\ evFD[fdtab[fd]] = fd
      /\ \A c \in Client : LiveEvent(c) => Peer(c) = c

\* No close() hits a descriptor that somebody else owns by now: numbers are
\* reused, so a second close of the same number would do that sooner or later.
NoStrayClose == ~strayClose

\* Workers that are always available receive connections in turn.
RoundRobin ==
    ~skipped => \A v, w \in Worker : assigned[v] <= assigned[w] + 1

-----------------------------------------------------------------------------
(* The inductive invariant *)

\* A client has sent what it has not left to send.
Budget == \A c \in Client : left[c] + unread[c] <= MaxReq[c]

Accepted(c) == conn[c] \in {"open", "closed"}

\* The listener has accepted lconn and made no Event for it yet; it has made
\* one; nobody else can know of the connection.
Raw   == {"fcntl", "running", "room", "event"}
Made  == {"addRoom", "ctl", "insert", "release", "failed"}
Alone == Raw \cup (Made \ {"release"}) \cup {"close"}

ListenerState ==
    /\ lpc \notin Free =>
           lconn \in Client /\ lfd \in FD /\ Accepted(lconn)
    /\ lpc \in {"room", "event"} \cup Made => idx <= Cardinality(Worker)
    /\ lpc \in Made => evFD[lconn] = lfd /\ evWorker[lconn] = order[idx]
    /\ lpc \in Alone => ~InMap(lconn) /\ \A w \in Worker : lconn \notin batch[w]
    /\ lpc \in {"failed", "close"} => CallMayFail

\* An Event in a map or in a batch belongs to that worker.
EventState ==
    \A w \in Worker :
        /\ \A fd \in FD : events[w][fd] # None =>
              /\ evFD[events[w][fd]] = fd /\ evWorker[events[w][fd]] = w
              /\ Accepted(events[w][fd])
        /\ \A c \in batch[w] : evFD[c] \in FD /\ evWorker[c] = w /\ Accepted(c)

\* What a thread has in hand at each point of its loop.
ThreadState ==
    \A w \in Worker :
        /\ todo[w] \subseteq batch[w]
        /\ pc[w] \in Handling => cur[w] \in batch[w]
        /\ pc[w] \notin {"handle", "return", "clear"} \cup Handling => batch[w] = {}
        /\ pc[w] \notin {"handle", "return"} \cup Handling => todo[w] = {}
        /\ pc[w] # "collect" => accepted[w] = {}

\* A lock is held only inside epollAddEvent by the listener or inside
\* epollDelEvent by the worker itself.
LockState ==
    \A w \in Worker :
        /\ lock[w] \in {None, Listener, w}
        /\ lock[w] = Listener <=> lpc = "insert" /\ order[idx] = w
        /\ lock[w] = w <=> pc[w] = "delerase"

\* Only the listener adds: the room it has seen is still there.
RoomKept ==
    /\ WithinCapacity
    /\ lpc \in {"event", "addRoom", "ctl", "insert"} => HasRoom(order[idx])

\* How the map and the kernel's interest set differ inside a critical section.
Registered(w) == {fd \in FD : events[w][fd] # None}
MapState ==
    \A w \in Worker :
        interest[w] = CASE lock[w] = None     -> Registered(w)
                        [] lock[w] = Listener -> Registered(w) \cup {lfd}
                        [] OTHER              -> Registered(w) \ {evFD[cur[w]]}

\* The files of the old and of the new response are two files of the worker.
FilesOwned ==
    \A w \in Worker :
        /\ \A fd \in {wfile[w], wnew[w]} \ {None} : fdtab[fd] = w
        /\ wfile[w] = wnew[w] => wfile[w] = None

\* Every descriptor has one owner, and the owner's number leads to it.
Ownership ==
    /\ \A fd \in FD : fdtab[fd] \in Client =>
          \/ lpc \in Raw /\ lfd = fd
          \/ LiveEvent(fdtab[fd]) /\ evFD[fdtab[fd]] = fd
    /\ \A c \in Client : LiveEvent(c) => Peer(c) = c
    /\ lpc \in Raw => fdtab[lfd] = lconn
    /\ FilesOwned

\* The list of workers stays a permutation, and as long as nobody was passed over
\* its head has had the fewest connections and its tail at most one more.
Turn(i) == assigned[order[i]] - (IF lpc = "release" /\ i = idx THEN 1 ELSE 0)
Turns ==
    /\ IsInjective(order)
    /\ ~skipped =>
         /\ lpc \notin Free \cup {"fcntl"} => idx = 1
         /\ \A i, j \in 1..Cardinality(Worker) :
               i <= j => Turn(i) <= Turn(j) /\ Turn(j) <= Turn(i) + 1

\* The part that holds whatever the descriptors are.
Core ==
    /\ TypeOK /\ Budget /\ ListenerState /\ EventState /\ ThreadState
    /\ LockState /\ RoomKept

\* What links the program's objects to the kernel's.
Linked == MapState /\ Ownership /\ EdgeKept

IInv == Core /\ Turns /\ (strayClose \/ Linked) /\ (strayClose => CallMayFail)

-----------------------------------------------------------------------------
(* The abstract specification and how this one implements it *)

\* A worker that is in delEvent for c; somebody who still has a shared_ptr to an
\* Event that was in a map and is so no longer.
InDelEvent(c) ==
    \E w \in Worker : pc[w] \in {"delctl", "delerase"} /\ cur[w] = c
StillHeld(c) ==
    (\E w \in Worker : c \in batch[w]) \/ (lpc = "release" /\ lconn = c)

\* How far a connection has come is in the kernel's state until it is accepted and
\* after it is closed, and in between in who can reach its Event.
StageOf(c) ==
    CASE conn[c] # "open"                   -> conn[c]
      [] conn[c] = "open" /\ InMap(c)       -> IF InDelEvent(c) THEN "ending" ELSE "serving"
      [] conn[c] = "open" /\ ~InMap(c)      -> IF StillHeld(c) THEN "finished" ELSE "accepted"

Given == {"serving", "ending", "finished"}
ServerOf(c) == IF StageOf(c) \in Given THEN evWorker[c] ELSE None
HandOf(w) == IF pc[w] \in Handling THEN cur[w] ELSE None

Stages  == [c \in Client |-> StageOf(c)]
Servers == [c \in Client |-> ServerOf(c)]
Hands   == [w \in Worker |-> HandOf(w)]

Service == INSTANCE ConnectionService WITH
    stage <- Stages, server <- Servers, pending <- unread, hand <- Hands,
    broken <- strayClose

\* The listener, the IO workers and the Events they share keep the promise of
\* ConnectionService to every connection, up to the first stray close.
ImplementsService == Service!Spec

-----------------------------------------------------------------------------
(* Progress *)

\* A connection in the backlog is eventually accepted, unless the listen worker's thread
\* ends.  If accept fails while connections are waiting they wait for the next one
\* to arrive, because the listening socket is edge-triggered, and for ever only if
\* accept is never called again.
BacklogDrained ==
    \A c \in Client :
        conn[c] = "backlog" ~>
            conn[c] # "backlog" \/ ~running[Listener] \/ []missed

\* Worker w has connection c in its map and has not met the end of its input.
Serving(w, c) == StageOf(c) = "serving" /\ ServerOf(c) = w

\* Worker w takes no more input: its thread was stopped or has ended, or spins in
\* parseBody, or a stray close took a descriptor away.
Lost(w) == ~running[w] \/ pc[w] = "spin" \/ strayClose

\* What arrives on a connection that a worker serves, the end of the input included, is
\* read by that worker, and the connection is closed after that, however many calls fail
\* around it, unless the worker is lost.  (What arrives after the worker has met EAGAIN is
\* dropped: the connection is no longer served.)
InputServed ==
    \A w \in Worker, c \in Client :
        Serving(w, c) /\ Readable(c) ~>
            Lost(w) \/ (unread[c] = 0 /\ <>(conn[c] = "closed" \/ Lost(w)))

-----------------------------------------------------------------------------
(* The inductive invariant behind the refinement *)

\* What the refinement needs besides IInv.  The kernel: a connection is open as
\* long as one descriptor refers to it, and only one ever does.
OneDescriptor ==
    /\ \A fd \in FD : fdtab[fd] \in Client => conn[fdtab[fd]] = "open"
    /\ \A fd, g \in FD : fdtab[fd] \in Client /\ fdtab[g] = fdtab[fd] => fd = g
    /\ \A c \in Client : conn[c] = "open" => \E fd \in FD : fdtab[fd] = c

\* What a worker has yet to handle, or is handling, is in its map: delEvent
\* finds it there.
InHand ==
    \A w \in Worker :
        /\ \A c \in todo[w] : events[w][evFD[c]] = c
        /\ pc[w] \in Handling => cur[w] \notin todo[w] /\ events[w][evFD[cur[w]]] = cur[w]
=============================================================================
