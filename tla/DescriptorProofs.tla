-------------------------- MODULE DescriptorProofs --------------------------
(***************************************************************************)
(* Proofs about Reactor, continued: what links the program's objects to    *)
(* the kernel's descriptors, interest sets and ready lists as long as no   *)
(* close() has hit a descriptor of somebody else.                          *)
(***************************************************************************)
EXTENDS ReactorProofs

USE DEF Listener

-----------------------------------------------------------------------------
(* What each part of the link depends on *)

\* The map and the interest set differ only inside the critical sections.
LEMMA MapStateKept ==
    ASSUME MapState, UNCHANGED <<interest, lock, events, lfd, evFD, cur>>
    PROVE  MapState'
BY DEF MapState, Registered

\* Who owns a descriptor depends on the table and on who holds the Events.
LEMMA OwnershipKept ==
    ASSUME Ownership, UNCHANGED <<fdtab, lpc, lconn, lfd, events, batch, evFD,
                                  wfile, wnew>>
    PROVE  Ownership'
BY DEF Ownership, FilesOwned, LiveEvent, ListenerHolds, InMap, Peer

\* More generally, it depends on which Events are live.
LEMMA OwnershipMoved ==
    ASSUME Ownership, UNCHANGED <<fdtab, lconn, lfd, evFD, wfile, wnew>>,
           \A c \in Client : LiveEvent(c)' <=> LiveEvent(c),
           lpc \in Raw <=> lpc' \in Raw
    PROVE  Ownership'
BY DEF Ownership, FilesOwned, Peer

\* An edge is kept while the thread that handles it goes on handling it.
LEMMA EdgeMoved ==
    ASSUME EdgeKept, UNCHANGED <<interest, unread, fin, fdtab, ready, accepted, todo, cur>>,
           \A w \in Worker : pc[w] \in Handling => pc'[w] \in Handling
    PROVE  EdgeKept'
BY DEF EdgeKept, Readable

\* A step that leaves all of this alone keeps the link.
LEMMA LinkedKept ==
    ASSUME Linked, UNCHANGED <<fdtab, interest, ready, unread, fin, events, lock, evFD,
                               lpc, lconn, lfd, pc, accepted, batch, todo, cur, wfile, wnew>>
    PROVE  Linked'
BY MapStateKept, OwnershipKept, EdgeMoved DEF Linked

-----------------------------------------------------------------------------
(* What follows from the link *)

\* A live Event has a descriptor number, and its connection is behind it.
LEMMA LiveNumber ==
    ASSUME Core, Linked, NEW c \in Client, LiveEvent(c)
    PROVE  evFD[c] \in FD /\ fdtab[evFD[c]] = c
<1>1. fdtab[evFD[c]] = c
    BY DEF Linked, Ownership, Peer
<1>2. CASE ListenerHolds(c)
    BY <1>1, <1>2 DEF ListenerHolds, Core, ListenerState, Made, Free
<1>3. CASE InMap(c)
  <2>1. PICK w \in Worker, fd \in FD : events[w][fd] = c
      BY <1>3 DEF InMap
  <2>2. evFD[c] = fd
      BY <2>1, ReactorAssumption DEF Core, EventState
  <2> QED BY <1>1, <2>2
<1>4. CASE \E w \in Worker : c \in batch[w]
    BY <1>1, <1>4 DEF Core, EventState
<1> QED BY <1>2, <1>3, <1>4 DEF LiveEvent

\* A descriptor the kernel watches for w is that of an Event of w, which is in
\* w's map or about to be put there.
LEMMA Watched ==
    ASSUME Core, Linked, NEW w \in Worker, NEW fd \in interest[w]
    PROVE  /\ fd \in FD /\ fdtab[fd] \in Client /\ evFD[fdtab[fd]] = fd
           /\ LiveEvent(fdtab[fd])
           /\ \/ events[w][fd] = fdtab[fd]
              \/ lock[w] = Listener /\ lpc = "insert" /\ fd = lfd /\ fdtab[fd] = lconn
<1>1. fd \in FD
    BY DEF Core, TypeOK
<1>2. CASE events[w][fd] # None
  <2>1. PICK c \in Client : c = events[w][fd]
      BY <1>1, <1>2 DEF Core, TypeOK
  <2>2. evFD[c] = fd /\ LiveEvent(c)
      BY <1>1, <1>2, <2>1 DEF Core, EventState, LiveEvent, InMap
  <2>3. fdtab[fd] = c
      BY <2>2, LiveNumber
  <2> QED BY <1>1, <2>1, <2>2, <2>3
<1>3. CASE events[w][fd] = None
  <2>1. fd \notin Registered(w)
      BY <1>3 DEF Registered
  <2>2. lock[w] = Listener /\ fd = lfd
    <3>1. CASE lock[w] = None
        BY <2>1, <3>1 DEF Linked, MapState
    <3>2. CASE lock[w] = Listener
        BY <2>1, <3>2, ReactorAssumption DEF Linked, MapState
    <3>3. CASE lock[w] # None /\ lock[w] # Listener
        BY <2>1, <3>3 DEF Linked, MapState
    <3> QED BY <3>1, <3>2, <3>3
  <2>3. lpc = "insert"
      BY <2>2 DEF Core, LockState
  <2>4. lconn \in Client /\ evFD[lconn] = lfd /\ LiveEvent(lconn)
      BY <2>3 DEF Core, ListenerState, Made, Free, LiveEvent, ListenerHolds
  <2>5. fdtab[fd] = lconn
      BY <2>2, <2>4, LiveNumber
  <2> QED BY <1>1, <2>2, <2>3, <2>4, <2>5
<1> QED BY <1>2, <1>3

-----------------------------------------------------------------------------
(* What a close does *)

\* A close of one's own descriptor, once nobody can find it in a map, takes
\* nothing out of an interest set and loses no edge.
LEMMA CloseLinked ==
    ASSUME Core, Linked, NEW fd \in FD, NEW owner, Close(fd, owner),
           fdtab[fd] \in {owner, None},
           owner \in Client => ~InMap(owner) /\ ~(lpc = "insert" /\ lconn = owner),
           UNCHANGED <<lock, events, lfd, evFD, cur, unread, fin, accepted, todo>>,
           \A w \in Worker : pc[w] \in Handling => pc'[w] \in Handling
    PROVE  MapState' /\ EdgeKept'
<1>1. ASSUME NEW w \in Worker PROVE fd \notin interest[w]
  <2> SUFFICES ASSUME fd \in interest[w] PROVE FALSE
      OBVIOUS
  <2>1. fdtab[fd] \in Client
      BY Watched
  <2>2. fdtab[fd] = owner
      BY <2>1, ReactorAssumption
  <2>3. \/ events[w][fd] = owner
        \/ lpc = "insert" /\ lconn = owner
      BY <2>2, Watched
  <2> QED BY <2>1, <2>2, <2>3 DEF InMap
<1>2. interest' = interest
  <2>1. \A w \in Worker : interest[w] \ {fd} = interest[w]
      BY <1>1
  <2> QED BY <2>1 DEF Close, Core, TypeOK
<1>3. MapState'
    BY <1>2, MapStateKept DEF Linked
<1>4. EdgeKept'
  <2> SUFFICES ASSUME NEW w \in Worker, NEW f \in interest[w],
                      unread'[fdtab'[f]] > 0 \/ fin'[fdtab'[f]]
               PROVE  \/ f \in ready'[w] \cup accepted'[w]
                      \/ fdtab'[f] \in todo'[w]
                      \/ pc'[w] \in Handling /\ cur'[w] = fdtab'[f]
      BY <1>2 DEF EdgeKept, Readable
  <2>1. f \in FD /\ f # fd /\ fdtab'[f] = fdtab[f]
      BY <1>1, Watched DEF Close, Core, TypeOK
  <2>2. f \in ready'[w] <=> f \in ready[w]
      BY <2>1 DEF Close
  <2>3. Readable(fdtab[f])
      BY <2>1 DEF Readable
  <2> QED BY <2>1, <2>2, <2>3 DEF Linked, EdgeKept
<1> QED BY <1>3, <1>4

\* The files of the workers are theirs as long as other descriptors change hands.
LEMMA TableFiles ==
    ASSUME Core, Linked, NEW fd \in FD, fdtab[fd] \notin Worker,
           \A f \in FD \ {fd} : fdtab'[f] = fdtab[f], UNCHANGED <<wfile, wnew>>
    PROVE  FilesOwned'
<1>1. ASSUME NEW w \in Worker, NEW f \in {wfile[w], wnew[w]} \ {None}
      PROVE  fdtab'[f] = w
  <2>1. f \in FD /\ fdtab[f] = w
      BY DEF Core, TypeOK, Linked, Ownership, FilesOwned
  <2> QED BY <2>1
<1> QED BY <1>1 DEF Linked, Ownership, FilesOwned

\* Such a close leaves every other object with its own descriptor.
LEMMA CloseOwned ==
    ASSUME Core, Linked, NEW fd \in FD, NEW owner, Close(fd, owner),
           fdtab[fd] \in {owner, None},
           owner \in Client => (LiveEvent(owner) => evFD[owner] = fd),
           \A c \in Client : LiveEvent(c)' <=> (LiveEvent(c) /\ c # owner),
           lpc' \in Raw => (lpc \in Raw /\ lconn # owner),
           lpc \in Raw => (lpc' \in Raw \/ lfd = fd),
           FilesOwned',
           UNCHANGED <<evFD, lfd, lconn>>
    PROVE  Ownership'
<1>1. \A f \in FD : fdtab'[f] = IF f = fd THEN None ELSE fdtab[f]
    BY DEF Close, Core, TypeOK
<1>2. ASSUME NEW f \in FD, fdtab'[f] \in Client
      PROVE  \/ lpc' \in Raw /\ lfd' = f
             \/ \E c \in Client : c = fdtab'[f] /\ LiveEvent(c)' /\ evFD'[c] = f
  <2>1. f # fd /\ fdtab'[f] = fdtab[f]
      BY <1>1, <1>2, ReactorAssumption
  <2>2. PICK c \in Client : c = fdtab[f]
      BY <1>2, <2>1
  <2>3. CASE lpc \in Raw /\ lfd = f
      BY <2>1, <2>3
  <2>4. CASE LiveEvent(c) /\ evFD[c] = f
    <3>1. c # owner
        BY <2>1, <2>4
    <3>2. LiveEvent(c)'
        BY <2>4, <3>1
    <3> QED BY <2>1, <2>2, <2>4, <3>2
  <2> QED BY <2>1, <2>2, <2>3, <2>4 DEF Linked, Ownership
<1>3. ASSUME NEW c \in Client, LiveEvent(c)'
      PROVE  fdtab'[evFD'[c]] = c
  <2>1. evFD[c] \in FD /\ fdtab[evFD[c]] = c /\ c # owner
      BY <1>3, LiveNumber
  <2>2. evFD[c] # fd
      BY <2>1, ReactorAssumption
  <2> QED BY <1>1, <2>1, <2>2
<1>4. lpc' \in Raw => fdtab'[lfd'] = lconn'
  <2> SUFFICES ASSUME lpc' \in Raw PROVE fdtab'[lfd] = lconn
      OBVIOUS
  <2>1. lfd \in FD /\ lconn \in Client /\ fdtab[lfd] = lconn /\ lconn # owner
      BY DEF Core, ListenerState, Raw, Free, Linked, Ownership
  <2> QED BY <1>1, <2>1, ReactorAssumption
<1>5. \A f \in FD : fdtab'[f] \in Client =>
         \/ lpc' \in Raw /\ lfd' = f
         \/ LiveEvent(fdtab[f])' /\ evFD'[fdtab'[f]] = f
    BY <1>2 DEF LiveEvent, ListenerHolds, InMap
<1> QED BY <1>3, <1>4, <1>5 DEF Ownership, Peer

-----------------------------------------------------------------------------
(* Steps of the clients and of the listener *)

\* A new connection in the backlog has no descriptor yet.
LEMMA ConnectLinked ==
    ASSUME Linked, NEW c \in Client, Connect(c)
    PROVE  Linked' /\ UNCHANGED strayClose
BY LinkedKept DEF Connect, shared, listener, threads, history

\* Whatever arrives on a watched connection raises its edge.
LEMMA ArriveLinked ==
    ASSUME Core, Linked, NEW c \in Client, Send(c) \/ Shutdown(c)
    PROVE  Linked' /\ UNCHANGED strayClose
<1>1. /\ RaiseEdge(c)
      /\ UNCHANGED <<fdtab, interest, shared, listener, threads, history>>
      /\ \A d \in Client \ {c} : unread'[d] = unread[d] /\ fin'[d] = fin[d]
    BY DEF Send, Shutdown, Core, TypeOK
<1>2. MapState' /\ Ownership'
    BY <1>1, MapStateKept, OwnershipKept DEF Linked, shared, listener, threads
<1>3. EdgeKept'
  <2> SUFFICES ASSUME NEW w \in Worker, NEW fd \in interest[w],
                      unread'[fdtab[fd]] > 0 \/ fin'[fdtab[fd]]
               PROVE  \/ fd \in ready'[w] \cup accepted[w]
                      \/ fdtab[fd] \in todo[w]
                      \/ pc[w] \in Handling /\ cur[w] = fdtab[fd]
      BY <1>1 DEF EdgeKept, Readable, threads
  <2>1. fdtab[fd] \in Client
      BY Watched
  <2>2. CASE fdtab[fd] = c
      BY <1>1, <2>2 DEF RaiseEdge
  <2>3. CASE fdtab[fd] # c
    <3>1. Readable(fdtab[fd])
        BY <1>1, <2>1, <2>3 DEF Readable
    <3>2. ready[w] \subseteq ready'[w]
        BY <1>1 DEF RaiseEdge
    <3> QED BY <3>1, <3>2 DEF Linked, EdgeKept
  <2> QED BY <2>2, <2>3
<1> QED BY <1>1, <1>2, <1>3 DEF Linked, history

\* The listener's control moves nothing.
LEMMA LControlLinked ==
    ASSUME Core, Linked, LControl
    PROVE  Linked' /\ UNCHANGED strayClose
<1>1. /\ UNCHANGED <<fdtab, unread, fin, interest, ready, events, lock, evFD, lconn, lfd,
                     threads, strayClose>>
      /\ lpc \in Raw <=> lpc' \in Raw
      /\ lpc \in Made <=> lpc' \in Made
    BY LControlSteps
<1>2. MapState' /\ EdgeKept'
    BY <1>1, MapStateKept, EdgeMoved DEF Linked, shared, threads
<1>3. \A c \in Client : LiveEvent(c)' <=> LiveEvent(c)
    BY <1>1 DEF LiveEvent, ListenerHolds, InMap, Made, shared, threads
<1>4. Ownership'
    BY <1>1, <1>3, OwnershipMoved DEF Linked, shared, threads
<1> QED BY <1>1, <1>2, <1>4 DEF Linked

\* A descriptor that was free is taken by a connection or by a file.
LEMMA TakeLinked ==
    ASSUME Core, Linked, NEW fd \in FreeFD, NEW x, fdtab' = [fdtab EXCEPT ![fd] = x],
           UNCHANGED <<interest, ready, unread, fin, accepted, todo, cur>>,
           \A w \in Worker : pc[w] \in Handling => pc'[w] \in Handling
    PROVE  EdgeKept'
<1>1. ASSUME NEW w \in Worker, NEW f \in interest[w]
      PROVE  fdtab'[f] = fdtab[f]
  <2>1. f \in FD /\ f # fd
      BY Watched, ReactorAssumption DEF FreeFD
  <2> QED BY <2>1 DEF Core, TypeOK
<1> QED BY <1>1 DEF Linked, EdgeKept, Readable

\* accept returns a free number for a connection nobody has an Event of.
LEMMA AcceptLinked ==
    ASSUME Core, Linked, LAccept
    PROVE  Linked' /\ UNCHANGED strayClose
<1>1. PICK c \in Client, fd \in FreeFD :
         /\ fdtab' = [fdtab EXCEPT ![fd] = c] /\ lconn' = c /\ lfd' = fd
    BY DEF LAccept
<1>2. /\ lpc = "accept" /\ lpc' = "fcntl"
      /\ UNCHANGED <<unread, fin, interest, ready, shared, threads, history>>
    BY DEF LAccept
<1>3. fd \in FD /\ fdtab[fd] = None /\ \A f \in FD : fdtab'[f] = IF f = fd THEN c ELSE fdtab[f]
    BY <1>1 DEF FreeFD, Core, TypeOK
<1>4. EdgeKept'
    BY <1>1, <1>2, TakeLinked DEF threads
<1>5. MapState'
  <2>1. \A w \in Worker : lock[w] # Listener
      BY <1>2 DEF Core, LockState
  <2> QED BY <1>2, <2>1 DEF Linked, MapState, Registered, shared, threads
<1>6. \A d \in Client : LiveEvent(d)' <=> LiveEvent(d)
    BY <1>2 DEF LiveEvent, ListenerHolds, InMap, shared, threads
<1>7. Ownership'
  <2>1. ASSUME NEW f \in FD, fdtab'[f] \in Client, f # fd
        PROVE  \E d \in Client : d = fdtab'[f] /\ LiveEvent(d)' /\ evFD'[d] = f
    <3>1. fdtab'[f] = fdtab[f] /\ lpc \notin Raw
        BY <1>2, <1>3, <2>1 DEF Raw
    <3>2. LiveEvent(fdtab[f]) /\ evFD[fdtab[f]] = f
        BY <2>1, <3>1 DEF Linked, Ownership
    <3> QED BY <1>2, <1>6, <2>1, <3>1, <3>2 DEF shared
  <2>2. \A f \in FD : fdtab'[f] \in Client =>
           \/ lpc' \in Raw /\ lfd' = f
           \/ LiveEvent(fdtab[f])' /\ evFD'[fdtab'[f]] = f
      BY <1>1, <1>2, <2>1 DEF LiveEvent, ListenerHolds, InMap, Raw
  <2>3. ASSUME NEW d \in Client, LiveEvent(d)'
        PROVE  fdtab'[evFD'[d]] = d
    <3>1. evFD[d] \in FD /\ fdtab[evFD[d]] = d
        BY <1>6, <2>3, LiveNumber
    <3> QED BY <1>2, <1>3, <3>1, ReactorAssumption DEF shared
  <2>4. fdtab'[lfd'] = lconn'
      BY <1>1, <1>3
  <2>5. FilesOwned'
      BY <1>2, <1>3, TableFiles, ReactorAssumption DEF threads
  <2> QED BY <2>2, <2>3, <2>4, <2>5 DEF Ownership, Peer
<1> QED BY <1>2, <1>4, <1>5, <1>7 DEF Linked, history

\* A connection without an Event is closed by the listener that owns it.
LEMMA OwnClose ==
    ASSUME Core, Linked, ~strayClose, LFcntlFails \/ LNoWorker
    PROVE  ~strayClose'
<1>1. lpc \in {"fcntl", "running"} /\ Close(lfd, lconn)
    BY DEF LFcntlFails, LNoWorker
<1>2. fdtab[lfd] = lconn
    BY <1>1 DEF Linked, Ownership, Raw
<1> QED BY <1>1, <1>2 DEF Close

\* The listener closes its connection, and possibly, after a failed addEvent,
\* the number of somebody else.
LEMMA GiveUpLinked ==
    ASSUME Core, Linked, ~strayClose, LFcntlFails \/ LNoWorker \/ LCloseClient
    PROVE  (strayClose' => CallMayFail) /\ (~strayClose' => Linked')
<1>1. /\ lpc \in {"fcntl", "running", "close"} /\ lpc' = "accept"
      /\ Close(lfd, lconn)
      /\ UNCHANGED <<left, unread, fin, shared, lconn, lfd, threads>>
    BY DEF LFcntlFails, LNoWorker, LCloseClient
<1>2. /\ lfd \in FD /\ lconn \in Client /\ ~InMap(lconn)
      /\ \A w \in Worker : lconn \notin batch[w]
    BY <1>1 DEF Core, ListenerState, Alone, Raw, Free
<1>3. strayClose' => CallMayFail
    BY OwnClose DEF LCloseClient, Core, ListenerState
<1>4. ASSUME ~strayClose' PROVE Linked'
  <2>1. fdtab[lfd] \in {lconn, None}
      BY <1>1, <1>4 DEF Close
  <2>2. ~LiveEvent(lconn)
      BY <1>1, <1>2 DEF LiveEvent, ListenerHolds
  <2>3. \A c \in Client : LiveEvent(c)' <=> (LiveEvent(c) /\ c # lconn)
    <3>1. \A c \in Client : LiveEvent(c)' <=> LiveEvent(c)
        BY <1>1 DEF LiveEvent, ListenerHolds, InMap, shared, threads
    <3> QED BY <2>2, <3>1
  <2>4. MapState' /\ EdgeKept'
      BY <1>1, <1>2, <2>1, CloseLinked DEF shared, threads
  <2>5. FilesOwned'
    <3>1. lconn \notin Worker /\ \A f \in FD \ {lfd} : fdtab'[f] = fdtab[f]
        BY <1>1, <1>2, ReactorAssumption DEF Close, Core, TypeOK
    <3> QED BY <1>1, <1>2, <2>1, <3>1, TableFiles, ReactorAssumption DEF threads
  <2>6. UNCHANGED <<evFD, lfd, lconn>> /\ lpc' \notin Raw
      BY <1>1 DEF shared, Raw
  <2>7. Ownership'
      BY <1>1, <1>2, <2>1, <2>2, <2>3, <2>5, <2>6, CloseOwned
  <2> QED BY <2>4, <2>7 DEF Linked
<1> QED BY <1>3, <1>4

\* The new Event takes the connection over from the listener.
LEMMA MakeEventLinked ==
    ASSUME Core, Linked, LMakeEvent
    PROVE  Linked' /\ UNCHANGED strayClose
<1>1. /\ lpc = "event" /\ lpc' = "addRoom"
      /\ evFD' = [evFD EXCEPT ![lconn] = lfd]
      /\ UNCHANGED <<kernel, events, lock, lconn, lfd, threads, history>>
    BY DEF LMakeEvent
<1>2. /\ lconn \in Client /\ lfd \in FD /\ ~InMap(lconn)
      /\ \A w \in Worker : lconn \notin batch[w]
      /\ fdtab[lfd] = lconn
    BY <1>1 DEF Core, ListenerState, Alone, Raw, Free, Linked, Ownership
<1>3. \A c \in Client : evFD'[c] = IF c = lconn THEN lfd ELSE evFD[c]
    BY <1>1 DEF Core, TypeOK
<1>4. EdgeKept'
    BY <1>1, EdgeMoved DEF Linked, kernel, threads
<1>5. MapState'
  <2> SUFFICES ASSUME NEW w \in Worker
               PROVE  interest[w] = CASE lock[w] = None     -> Registered(w)
                                      [] lock[w] = Listener -> Registered(w) \cup {lfd}
                                      [] OTHER              -> Registered(w) \ {evFD'[cur[w]]}
      BY <1>1 DEF MapState, Registered, kernel, threads
  <2>1. CASE lock[w] \in {None, Listener}
      BY <2>1, ReactorAssumption DEF Linked, MapState
  <2>2. CASE lock[w] \notin {None, Listener}
    <3>1. pc[w] = "delerase"
        BY <2>2 DEF Core, LockState
    <3>2. cur[w] \in Client /\ cur[w] # lconn
        BY <1>2, <3>1, CurrentEvent DEF Handling
    <3>3. evFD'[cur[w]] = evFD[cur[w]]
        BY <1>3, <3>2
    <3> QED BY <2>2, <3>3 DEF Linked, MapState
  <2> QED BY <2>1, <2>2
<1>6. \A c \in Client : LiveEvent(c)' <=> (LiveEvent(c) \/ c = lconn)
    BY <1>1 DEF LiveEvent, ListenerHolds, InMap, threads
<1>7. ~LiveEvent(lconn)
    BY <1>1, <1>2 DEF LiveEvent, ListenerHolds
<1>8. Ownership'
  <2>1. ASSUME NEW f \in FD, fdtab'[f] \in Client
        PROVE  \E c \in Client : c = fdtab'[f] /\ LiveEvent(c)' /\ evFD'[c] = f
    <3>1. PICK c \in Client : c = fdtab[f] /\ fdtab'[f] = fdtab[f]
        BY <1>1, <2>1 DEF kernel
    <3>2. CASE lfd = f
        BY <1>2, <1>3, <1>6, <3>1, <3>2
    <3>3. CASE LiveEvent(c) /\ evFD[c] = f
        BY <1>3, <1>6, <1>7, <3>1, <3>3
    <3> QED BY <3>1, <3>2, <3>3 DEF Linked, Ownership
  <2>2. \A f \in FD : fdtab'[f] \in Client =>
           LiveEvent(fdtab[f])' /\ evFD'[fdtab'[f]] = f
      BY <2>1 DEF LiveEvent, ListenerHolds, InMap
  <2>3. ASSUME NEW c \in Client, LiveEvent(c)'
        PROVE  fdtab'[evFD'[c]] = c
    <3>1. CASE c = lconn
        BY <1>1, <1>2, <1>3, <3>1 DEF kernel
    <3>2. CASE c # lconn
        BY <1>1, <1>3, <1>6, <2>3, <3>2, LiveNumber DEF kernel
    <3> QED BY <3>1, <3>2
  <2>4. FilesOwned'
      BY <1>1 DEF Linked, Ownership, FilesOwned, kernel, threads
  <2>5. lpc' \notin Raw
      BY <1>1 DEF Raw
  <2> QED BY <2>2, <2>3, <2>4, <2>5 DEF Ownership, Peer
<1> QED BY <1>1, <1>4, <1>5, <1>8 DEF Linked, history

\* The descriptor is watched from here on; an edge of before is reported.
LEMMA CtlAddLinked ==
    ASSUME Core, Linked, LCtlAdd
    PROVE  Linked' /\ UNCHANGED strayClose
<1>1. PICK v \in Worker : v = order[idx]
    BY CurrentWorker DEF LCtlAdd, Core, Made
<1>2. /\ lpc = "ctl" /\ lock[v] = None /\ lpc' = "insert"
      /\ lock' = [lock EXCEPT ![v] = Listener]
      /\ interest' = [interest EXCEPT ![v] = @ \cup {lfd}]
      /\ ready' = [ready EXCEPT ![v] = IF Readable(lconn) THEN @ \cup {lfd} ELSE @]
      /\ UNCHANGED <<fdtab, unread, fin, events, evFD, lconn, lfd, threads, history>>
    BY <1>1 DEF LCtlAdd
<1>3. /\ interest'[v] = interest[v] \cup {lfd} /\ lock'[v] = Listener
      /\ ready'[v] = IF Readable(lconn) THEN ready[v] \cup {lfd} ELSE ready[v]
      /\ \A w \in Worker \ {v} :
            interest'[w] = interest[w] /\ lock'[w] = lock[w] /\ ready'[w] = ready[w]
    BY <1>2 DEF Core, TypeOK
<1>4. MapState'
  <2> SUFFICES ASSUME NEW w \in Worker
               PROVE  interest'[w] = CASE lock'[w] = None     -> Registered(w)
                                       [] lock'[w] = Listener -> Registered(w) \cup {lfd}
                                       [] OTHER               -> Registered(w) \ {evFD[cur[w]]}
      BY <1>2 DEF MapState, Registered, threads
  <2>1. CASE w = v
    <3>1. interest[v] = Registered(v)
        BY <1>2, ReactorAssumption DEF Linked, MapState
    <3> QED BY <1>3, <2>1, <3>1, ReactorAssumption
  <2>2. CASE w # v
      BY <1>3, <2>2 DEF Linked, MapState
  <2> QED BY <2>1, <2>2
<1>5. \A c \in Client : LiveEvent(c)' <=> LiveEvent(c)
    BY <1>2 DEF LiveEvent, ListenerHolds, InMap, threads
<1>6. Ownership'
    BY <1>2, <1>5, OwnershipMoved DEF Linked, Raw, threads
<1>7. fdtab[lfd] = lconn
  <2>1. lconn \in Client /\ LiveEvent(lconn) /\ evFD[lconn] = lfd
      BY <1>2 DEF Core, ListenerState, Made, Free, LiveEvent, ListenerHolds
  <2> QED BY <2>1, LiveNumber
<1>8. EdgeKept'
  <2> SUFFICES ASSUME NEW w \in Worker, NEW fd \in interest'[w], Readable(fdtab[fd])
               PROVE  \/ fd \in ready'[w] \cup accepted[w]
                      \/ fdtab[fd] \in todo[w]
                      \/ pc[w] \in Handling /\ cur[w] = fdtab[fd]
      BY <1>2 DEF EdgeKept, Readable, threads
  <2>1. CASE w = v /\ fd = lfd
      BY <1>3, <1>7, <2>1
  <2>2. CASE ~(w = v /\ fd = lfd)
    <3>1. fd \in interest[w] /\ ready[w] \subseteq ready'[w]
        BY <1>3, <2>2
    <3> QED BY <3>1 DEF Linked, EdgeKept
  <2> QED BY <2>1, <2>2
<1> QED BY <1>2, <1>4, <1>6, <1>8 DEF Linked, history

\* The map catches up with the interest set.
LEMMA InsertLinked ==
    ASSUME Core, Linked, LInsert
    PROVE  Linked' /\ UNCHANGED strayClose
<1>1. PICK v \in Worker : v = order[idx]
    BY CurrentWorker DEF LInsert, Core, Made
<1>2. /\ lpc = "insert" /\ lpc' = "release"
      /\ events' = [events EXCEPT ![v][lfd] = lconn]
      /\ lock' = [lock EXCEPT ![v] = None]
      /\ UNCHANGED <<kernel, evFD, lconn, lfd, threads, strayClose>>
    BY <1>1 DEF LInsert
<1>3. /\ lconn \in Client /\ lfd \in FD /\ evFD[lconn] = lfd /\ ~InMap(lconn)
      /\ LiveEvent(lconn) /\ lock[v] = Listener
    BY <1>1, <1>2 DEF Core, ListenerState, LockState, Made, Alone, Free, LiveEvent,
           ListenerHolds
<1>4. /\ \A w \in Worker, fd \in FD :
            events'[w][fd] = IF w = v /\ fd = lfd THEN lconn ELSE events[w][fd]
      /\ \A w \in Worker : lock'[w] = IF w = v THEN None ELSE lock[w]
    BY <1>2, <1>3 DEF Core, TypeOK
<1>5. EdgeKept'
    BY <1>2, EdgeMoved DEF Linked, kernel, threads
<1>6. MapState'
  <2> SUFFICES ASSUME NEW w \in Worker
               PROVE  interest[w] = CASE lock'[w] = None     -> Registered(w)'
                                      [] lock'[w] = Listener -> Registered(w)' \cup {lfd}
                                      [] OTHER               -> Registered(w)' \ {evFD[cur[w]]}
      BY <1>2 DEF MapState, kernel, threads
  <2>1. CASE w = v
    <3>1. interest[v] = Registered(v) \cup {lfd}
        BY <1>3, ReactorAssumption DEF Linked, MapState
    <3>2. Registered(v)' = Registered(v) \cup {lfd}
        BY <1>3, <1>4, ReactorAssumption DEF Registered
    <3> QED BY <1>4, <2>1, <3>1, <3>2
  <2>2. CASE w # v
    <3>1. Registered(w)' = Registered(w) /\ lock'[w] = lock[w]
        BY <1>4, <2>2 DEF Registered
    <3> QED BY <3>1 DEF Linked, MapState
  <2> QED BY <2>1, <2>2
<1>7. events[v][lfd] = None
  <2> SUFFICES ASSUME events[v][lfd] # None PROVE FALSE
      OBVIOUS
  <2>1. PICK c \in Client : c = events[v][lfd]
      BY <1>3 DEF Core, TypeOK
  <2>2. LiveEvent(c) /\ evFD[c] = lfd
      BY <1>3, <2>1 DEF Core, EventState, LiveEvent, InMap
  <2>3. c = lconn
      BY <1>3, <2>2, LiveNumber
  <2> QED BY <1>3, <2>1, <2>3 DEF InMap
<1>8. \A c \in Client : LiveEvent(c)' <=> LiveEvent(c)
  <2> SUFFICES ASSUME NEW c \in Client PROVE LiveEvent(c)' <=> LiveEvent(c)
      OBVIOUS
  <2>1. ListenerHolds(c)' <=> ListenerHolds(c)
      BY <1>2 DEF ListenerHolds
  <2>2. InMap(c) => InMap(c)'
      BY <1>4, <1>7, ReactorAssumption DEF InMap
  <2>3. InMap(c)' => InMap(c) \/ c = lconn
      BY <1>4 DEF InMap
  <2>4. c = lconn => LiveEvent(c)' /\ LiveEvent(c)
      BY <1>2, <1>3 DEF LiveEvent, ListenerHolds
  <2>5. (\E w \in Worker : c \in batch'[w]) <=> \E w \in Worker : c \in batch[w]
      BY <1>2 DEF threads
  <2> QED BY <2>1, <2>2, <2>3, <2>4, <2>5 DEF LiveEvent
<1>9. Ownership'
    BY <1>2, <1>8, OwnershipMoved DEF Linked, Raw, kernel, threads
<1> QED BY <1>2, <1>5, <1>6, <1>9 DEF Linked

\* Destroying an Event that only its last holder knows of closes its own
\* connection and nothing else.
LEMMA DestroyLinked ==
    ASSUME Core, Linked, ~strayClose, NEW c \in Client, LiveEvent(c), DestroyEvent(c),
           ~InMap(c), ~(lpc = "insert" /\ lconn = c),
           lpc \notin Raw, lpc' \notin Raw,
           \A d \in Client : LiveEvent(d)' <=> (LiveEvent(d) /\ d # c),
           UNCHANGED <<lock, events, lfd, lconn, evFD, cur, unread, fin, accepted, todo,
                       pc, wfile, wnew>>
    PROVE  Linked' /\ ~strayClose'
<1>1. evFD[c] \in FD /\ fdtab[evFD[c]] = c /\ Close(evFD[c], c)
    BY LiveNumber DEF DestroyEvent
<1>2. ~strayClose'
    BY <1>1 DEF Close
<1>3. MapState' /\ EdgeKept'
    BY <1>1, CloseLinked
<1>4. FilesOwned'
  <2>1. c \notin Worker /\ \A f \in FD \ {evFD[c]} : fdtab'[f] = fdtab[f]
      BY <1>1, ReactorAssumption DEF Close, Core, TypeOK
  <2> QED BY <1>1, <2>1, TableFiles
<1>5. Ownership'
    BY <1>1, <1>4, CloseOwned
<1> QED BY <1>2, <1>3, <1>5 DEF Linked

\* The listener's reference goes, perhaps as the last one.
LEMMA ReleaseLinked ==
    ASSUME Core, Linked, ~strayClose, LRelease
    PROVE  Linked' /\ ~strayClose'
<1>1. /\ lpc = "release" /\ lpc' = "accept" /\ lpc \notin Raw /\ lpc' \notin Raw
      /\ UNCHANGED <<unread, fin, events, lock, evFD, lconn, lfd, threads>>
    BY DEF LRelease, Raw
<1>2. PICK c \in Client : c = lconn /\ LiveEvent(c)
    BY <1>1 DEF Core, ListenerState, Free, LiveEvent, ListenerHolds
<1>3. \A d \in Client : d # c => (LiveEvent(d)' <=> LiveEvent(d))
    BY <1>1, <1>2 DEF LiveEvent, ListenerHolds, InMap, threads
<1>4. CASE InMap(c) \/ \E w \in Worker : c \in batch[w]
  <2>1. UNCHANGED <<fdtab, interest, ready, strayClose>>
      BY <1>2, <1>4 DEF LRelease, KeepEvent, NoClose
  <2>2. LiveEvent(c)'
      BY <1>1, <1>4 DEF LiveEvent, InMap, threads
  <2>3. \A d \in Client : LiveEvent(d)' <=> LiveEvent(d)
      BY <1>2, <1>3, <2>2
  <2> QED BY <1>1, <2>1, <2>3, MapStateKept, OwnershipMoved, EdgeMoved DEF Linked, threads
<1>5. CASE ~(InMap(c) \/ \E w \in Worker : c \in batch[w])
  <2>1. DestroyEvent(c)
      BY <1>2, <1>5 DEF LRelease
  <2>2. ~LiveEvent(c)'
      BY <1>1, <1>5 DEF LiveEvent, ListenerHolds, InMap, threads
  <2>3. \A d \in Client : LiveEvent(d)' <=> (LiveEvent(d) /\ d # c)
      BY <1>2, <1>3, <2>2
  <2> QED BY <1>1, <1>2, <1>5, <2>1, <2>3, DestroyLinked DEF threads
<1> QED BY <1>4, <1>5

\* addEvent failed: ~Event closes the connection.
LEMMA AddFailedLinked ==
    ASSUME Core, Linked, ~strayClose, LAddFailed
    PROVE  Linked' /\ ~strayClose'
<1>1. /\ lpc = "failed" /\ lpc' = "close" /\ lpc \notin Raw /\ lpc' \notin Raw
      /\ DestroyEvent(lconn)
      /\ UNCHANGED <<unread, fin, events, lock, evFD, lconn, lfd, threads>>
    BY DEF LAddFailed, Raw
<1>2. /\ lconn \in Client /\ LiveEvent(lconn) /\ ~InMap(lconn)
      /\ \A w \in Worker : lconn \notin batch[w]
    BY <1>1 DEF Core, ListenerState, LiveEvent, ListenerHolds, Alone, Made, Free
<1>3. \A d \in Client : LiveEvent(d)' <=> (LiveEvent(d) /\ d # lconn)
    BY <1>1, <1>2 DEF LiveEvent, ListenerHolds, InMap, threads
<1> QED BY <1>1, <1>2, <1>3, DestroyLinked DEF threads

-----------------------------------------------------------------------------
(* Steps of the workers *)

\* Worker::stop moves nothing.
LEMMA StopLinked ==
    ASSUME Linked, NEW t \in Thread, Stop(t)
    PROVE  Linked' /\ UNCHANGED strayClose
BY LinkedKept DEF Stop, kernel, listener, threads, history

\* The steps of the loop that touch only its control.
LEMMA LoopLinked ==
    ASSUME Core, Linked, NEW w \in Worker,
           \/ WCheck(w) \/ WWaitFails(w) \/ WEof(w) \/ WCleared(w) \/ WExit(w)
    PROVE  Linked' /\ UNCHANGED strayClose
<1>1. UNCHANGED <<kernel, events, lock, evFD, listener, accepted, batch, todo, cur, wfile,
                  wnew, history>>
    BY DEF WCheck, WWaitFails, WEof, WCleared, WExit, shared
<1>2. \A v \in Worker : pc[v] \in Handling => pc'[v] \in Handling
    BY DEF WCheck, WWaitFails, WEof, WCleared, WExit, Goto, Handling, Core, TypeOK
<1> QED BY <1>1, <1>2, MapStateKept, OwnershipKept, EdgeMoved
        DEF Linked, kernel, listener, history

\* epoll_wait moves the edges from the ready list to the accepted events.
LEMMA WaitLinked ==
    ASSUME Core, Linked, NEW w \in Worker, WWait(w)
    PROVE  Linked' /\ UNCHANGED strayClose
<1>1. /\ pc[w] = "wait" /\ Goto(w, "collect")
      /\ accepted' = [accepted EXCEPT ![w] = ready[w]]
      /\ ready' = [ready EXCEPT ![w] = {}]
      /\ UNCHANGED <<fdtab, unread, fin, interest, shared, listener, batch, todo, cur,
                     wfile, wnew, history>>
    BY DEF WWait
<1>2. /\ \A v \in Worker \ {w} :
            accepted'[v] = accepted[v] /\ ready'[v] = ready[v] /\ pc'[v] = pc[v]
      /\ accepted'[w] = ready[w] /\ accepted[w] = {} /\ pc[w] \notin Handling
    BY <1>1 DEF Goto, Core, TypeOK, ThreadState, Handling
<1>3. EdgeKept'
  <2> SUFFICES ASSUME NEW v \in Worker, NEW fd \in interest[v], Readable(fdtab[fd])
               PROVE  \/ fd \in ready'[v] \cup accepted'[v]
                      \/ fdtab[fd] \in todo[v]
                      \/ pc'[v] \in Handling /\ cur[v] = fdtab[fd]
      BY <1>1 DEF EdgeKept, Readable
  <2>1. \/ fd \in ready[v] \cup accepted[v]
        \/ fdtab[fd] \in todo[v]
        \/ pc[v] \in Handling /\ cur[v] = fdtab[fd]
      BY DEF Linked, EdgeKept
  <2> QED BY <1>2, <2>1
<1> QED BY <1>1, <1>3, MapStateKept, OwnershipKept DEF Linked, shared, listener, history

\* Every accepted edge finds its Event in the map.
LEMMA CollectLinked ==
    ASSUME Core, Linked, NEW w \in Worker, WCollect(w)
    PROVE  Linked' /\ UNCHANGED strayClose
<1>1. /\ pc[w] = "collect" /\ lock[w] = None /\ Goto(w, "handle")
      /\ batch' = [batch EXCEPT ![w] = Found(w)]
      /\ todo' = [todo EXCEPT ![w] = Found(w)]
      /\ accepted' = [accepted EXCEPT ![w] = {}]
      /\ UNCHANGED <<kernel, shared, listener, cur, wfile, wnew, history>>
    BY DEF WCollect
<1>2. /\ \A v \in Worker \ {w} : /\ accepted'[v] = accepted[v] /\ todo'[v] = todo[v]
                                 /\ pc'[v] = pc[v] /\ batch'[v] = batch[v]
      /\ todo'[w] = Found(w) /\ batch'[w] = Found(w)
      /\ todo[w] = {} /\ batch[w] = {} /\ pc[w] \notin Handling
    BY <1>1 DEF Goto, Core, TypeOK, ThreadState, Handling
<1>3. EdgeKept'
  <2> SUFFICES ASSUME NEW v \in Worker, NEW fd \in interest[v], Readable(fdtab[fd])
               PROVE  \/ fd \in ready[v] \cup accepted'[v]
                      \/ fdtab[fd] \in todo'[v]
                      \/ pc'[v] \in Handling /\ cur[v] = fdtab[fd]
      BY <1>1 DEF EdgeKept, Readable, kernel
  <2>1. \/ fd \in ready[v] \cup accepted[v]
        \/ fdtab[fd] \in todo[v]
        \/ pc[v] \in Handling /\ cur[v] = fdtab[fd]
      BY DEF Linked, EdgeKept
  <2>2. CASE v = w /\ fd \in accepted[w]
    <3>1. events[w][fd] = fdtab[fd] /\ fdtab[fd] # None
        BY <1>1, <2>2, Watched, ReactorAssumption
    <3>2. fdtab[fd] \in Found(w)
        BY <2>2, <3>1 DEF Found
    <3> QED BY <1>2, <2>2, <3>2
  <2>3. CASE ~(v = w /\ fd \in accepted[w])
      BY <1>2, <2>1, <2>3
  <2> QED BY <2>2, <2>3
<1>4. \A c \in Client : LiveEvent(c)' <=> LiveEvent(c)
  <2> SUFFICES ASSUME NEW c \in Client PROVE LiveEvent(c)' <=> LiveEvent(c)
      OBVIOUS
  <2>1. (ListenerHolds(c)' <=> ListenerHolds(c)) /\ (InMap(c)' <=> InMap(c))
      BY <1>1 DEF ListenerHolds, InMap, listener, shared
  <2>2. c \in Found(w) => InMap(c)
      BY DEF Found, InMap, Core, TypeOK
  <2> QED BY <1>2, <2>1, <2>2 DEF LiveEvent
<1>5. MapState' /\ Ownership'
    BY <1>1, <1>4, MapStateKept, OwnershipMoved DEF Linked, kernel, shared, listener
<1> QED BY <1>1, <1>3, <1>5 DEF Linked, history

\* The event taken from the batch is the one being handled.
LEMMA HandleLinked ==
    ASSUME Core, Linked, NEW w \in Worker, WHandle(w) \/ WHandled(w)
    PROVE  Linked' /\ UNCHANGED strayClose
<1>1. PICK c : /\ cur' = [cur EXCEPT ![w] = c]
               /\ c \in todo[w] => pc' = [pc EXCEPT ![w] = "recv"]
               /\ \A d \in todo[w] \ {c} : d \in todo'[w]
               /\ \A v \in Worker \ {w} : todo'[v] = todo[v]
    BY DEF WHandle, WHandled, Goto, Core, TypeOK
<1>2. /\ pc[w] = "handle" /\ \A v \in Worker \ {w} : pc'[v] = pc[v]
      /\ UNCHANGED <<kernel, shared, listener, accepted, batch, wfile, wnew, history>>
    BY DEF WHandle, WHandled, Goto, Core, TypeOK
<1>3. /\ \A v \in Worker \ {w} : cur'[v] = cur[v]
      /\ cur'[w] = c /\ pc[w] \notin Handling
      /\ c \in todo[w] => pc'[w] \in Handling
    BY <1>1, <1>2 DEF Core, TypeOK, Handling
<1>4. EdgeKept'
  <2> SUFFICES ASSUME NEW v \in Worker, NEW fd \in interest[v], Readable(fdtab[fd])
               PROVE  \/ fd \in ready[v] \cup accepted[v]
                      \/ fdtab[fd] \in todo'[v]
                      \/ pc'[v] \in Handling /\ cur'[v] = fdtab[fd]
      BY <1>2 DEF EdgeKept, Readable, kernel
  <2>1. \/ fd \in ready[v] \cup accepted[v]
        \/ fdtab[fd] \in todo[v]
        \/ pc[v] \in Handling /\ cur[v] = fdtab[fd]
      BY DEF Linked, EdgeKept
  <2>2. CASE v = w
      BY <1>1, <1>3, <2>1, <2>2
  <2>3. CASE v # w
      BY <1>1, <1>2, <1>3, <2>1, <2>3
  <2> QED BY <2>2, <2>3
<1>5. MapState'
  <2> SUFFICES ASSUME NEW v \in Worker
               PROVE  interest[v] = CASE lock[v] = None     -> Registered(v)
                                      [] lock[v] = Listener -> Registered(v) \cup {lfd}
                                      [] OTHER              -> Registered(v) \ {evFD[cur'[v]]}
      BY <1>2 DEF MapState, Registered, kernel, shared, listener
  <2>1. CASE v = w
    <3>1. lock[w] \in {None, Listener}
        BY <1>2 DEF Core, LockState
    <3> QED BY <2>1, <3>1, ReactorAssumption DEF Linked, MapState
  <2>2. CASE v # w
      BY <1>3, <2>2 DEF Linked, MapState
  <2> QED BY <2>1, <2>2
<1>6. Ownership'
    BY <1>2, OwnershipKept DEF Linked, kernel, shared, listener
<1> QED BY <1>2, <1>4, <1>5, <1>6 DEF Linked, history

\* Reading leaves less to read.
LEMMA RecvLinked ==
    ASSUME Core, Linked, NEW w \in Worker, WRecv(w)
    PROVE  Linked' /\ UNCHANGED strayClose
<1>1. PICK x \in Client, next \in {"open", "recv", "spin"} :
         /\ pc[w] = "recv" /\ Goto(w, next)
         /\ unread[x] > 0 /\ unread' = [unread EXCEPT ![x] = @ - 1]
         /\ UNCHANGED <<fdtab, fin, interest, ready, shared,
                        listener, accepted, batch, todo, cur, wfile, wnew, history>>
    BY DEF WRecv
<1>2. \A v \in Worker : pc[v] \in Handling => pc'[v] \in Handling
    BY <1>1 DEF Goto, Handling, Core, TypeOK
<1>3. \A c \in Client : unread'[c] > 0 => unread[c] > 0
    BY <1>1 DEF Core, TypeOK
<1>4. EdgeKept'
  <2> SUFFICES ASSUME NEW v \in Worker, NEW fd \in interest[v],
                      unread'[fdtab[fd]] > 0 \/ fin[fdtab[fd]]
               PROVE  \/ fd \in ready[v] \cup accepted[v]
                      \/ fdtab[fd] \in todo[v]
                      \/ pc'[v] \in Handling /\ cur[v] = fdtab[fd]
      BY <1>1 DEF EdgeKept, Readable
  <2>1. Readable(fdtab[fd])
      BY <1>3, Watched DEF Readable
  <2> QED BY <1>2, <2>1 DEF Linked, EdgeKept
<1> QED BY <1>1, <1>4, MapStateKept, OwnershipKept DEF Linked, shared, listener, history

\* The resource file takes a free descriptor.
LEMMA OpenLinked ==
    ASSUME Core, Linked, NEW w \in Worker, WOpen(w)
    PROVE  Linked' /\ UNCHANGED strayClose
<1>1. /\ pc[w] = "open" /\ Goto(w, "reply")
      /\ UNCHANGED <<unread, fin, interest, ready, shared, listener, accepted, batch,
                     todo, cur, wfile, history>>
    BY DEF WOpen
<1>2. \A v \in Worker : pc[v] \in Handling => pc'[v] \in Handling
    BY <1>1 DEF Goto, Handling, Core, TypeOK
<1>3. MapState'
    BY <1>1, MapStateKept DEF Linked, shared, listener
<1>4. CASE UNCHANGED <<fdtab, wnew>>
    BY <1>1, <1>2, <1>3, <1>4, OwnershipKept, EdgeMoved DEF Linked, shared, listener, history
<1>5. ASSUME NEW fd \in FreeFD, fdtab' = [fdtab EXCEPT ![fd] = w],
             wnew' = [wnew EXCEPT ![w] = fd]
      PROVE  Linked'
  <2>1. EdgeKept'
      BY <1>1, <1>2, <1>5, TakeLinked
  <2>2. /\ fd \in FD /\ fdtab[fd] = None
        /\ \A f \in FD : fdtab'[f] = IF f = fd THEN w ELSE fdtab[f]
        /\ \A v \in Worker : wnew'[v] = IF v = w THEN fd ELSE wnew[v]
      BY <1>5 DEF FreeFD, Core, TypeOK
  <2>3. \A c \in Client : LiveEvent(c)' <=> LiveEvent(c)
      BY <1>1 DEF LiveEvent, ListenerHolds, InMap, listener, shared
  <2>4. ASSUME NEW f \in FD, fdtab'[f] \in Client
        PROVE  \/ lpc' \in Raw /\ lfd' = f
               \/ \E c \in Client : c = fdtab'[f] /\ LiveEvent(c)' /\ evFD'[c] = f
    <3>1. fdtab'[f] = fdtab[f]
        BY <2>2, <2>4, ReactorAssumption
    <3>2. \/ lpc \in Raw /\ lfd = f
          \/ LiveEvent(fdtab[f]) /\ evFD[fdtab[f]] = f
        BY <2>4, <3>1 DEF Linked, Ownership
    <3> QED BY <1>1, <2>3, <2>4, <3>1, <3>2 DEF listener, shared
  <2>5. \A f \in FD : fdtab'[f] \in Client =>
           \/ lpc' \in Raw /\ lfd' = f
           \/ LiveEvent(fdtab[f])' /\ evFD'[fdtab'[f]] = f
      BY <2>4 DEF LiveEvent, ListenerHolds, InMap
  <2>6. ASSUME NEW c \in Client, LiveEvent(c)'
        PROVE  fdtab'[evFD'[c]] = c
    <3>1. evFD[c] \in FD /\ fdtab[evFD[c]] = c
        BY <2>3, <2>6, LiveNumber
    <3> QED BY <1>1, <2>2, <3>1, ReactorAssumption DEF shared
  <2>7. lpc' \in Raw => fdtab'[lfd'] = lconn'
    <3> SUFFICES ASSUME lpc \in Raw PROVE fdtab'[lfd] = lconn
        BY <1>1 DEF listener
    <3>1. lfd \in FD /\ lconn \in Client /\ fdtab[lfd] = lconn
        BY DEF Core, ListenerState, Raw, Free, Linked, Ownership
    <3> QED BY <2>2, <3>1, ReactorAssumption
  <2>8. FilesOwned'
    <3>1. ASSUME NEW v \in Worker, NEW f \in {wfile[v], wnew[v]} \ {None}
          PROVE  f \in FD /\ f # fd /\ fdtab'[f] = v
      <4>1. f \in FD /\ fdtab[f] = v /\ v # None
          BY ReactorAssumption DEF Core, TypeOK, Linked, Ownership, FilesOwned
      <4> QED BY <2>2, <4>1
    <3>2. ASSUME NEW v \in Worker
          PROVE  /\ \A f \in {wfile'[v], wnew'[v]} \ {None} : fdtab'[f] = v
                 /\ wfile'[v] = wnew'[v] => wfile'[v] = None
      <4>1. CASE v = w
        <5>1. wfile'[v] = wfile[v] /\ wnew'[v] = fd /\ fdtab'[fd] = v
            BY <1>1, <2>2, <4>1
        <5>2. wfile[v] # fd
            BY <2>2, <3>1, ReactorAssumption
        <5> QED BY <3>1, <5>1, <5>2
      <4>2. CASE v # w
        <5>1. wfile'[v] = wfile[v] /\ wnew'[v] = wnew[v]
            BY <1>1, <2>2, <4>2
        <5> QED BY <3>1, <5>1 DEF Linked, Ownership, FilesOwned
      <4> QED BY <4>1, <4>2
    <3> QED BY <3>2 DEF FilesOwned
  <2>9. Ownership'
      BY <2>5, <2>6, <2>7, <2>8 DEF Ownership, Peer
  <2> QED BY <1>3, <2>1, <2>9 DEF Linked
<1> QED BY <1>1, <1>4, <1>5 DEF WOpen, history

\* The worker drops its last response, for the new one or when handle returns.
LEMMA ReplyLinked ==
    ASSUME Core, Linked, ~strayClose, NEW w \in Worker, WReply(w) \/ WReturn(w)
    PROVE  Linked' /\ ~strayClose'
<1>1. /\ DropResponse(w)
      /\ UNCHANGED <<unread, fin, shared, listener, accepted, batch, todo, cur>>
    BY DEF WReply, WReturn
<1>2. \A v \in Worker : pc[v] \in Handling => pc'[v] \in Handling
    BY DEF WReply, WReturn, Goto, Handling, Core, TypeOK
<1>3. /\ \A v \in Worker \ {w} : wfile'[v] = wfile[v] /\ wnew'[v] = wnew[v]
      /\ \/ wfile'[w] = wnew[w] /\ wnew'[w] = None
         \/ wfile'[w] = None /\ wnew'[w] = wnew[w]
    BY DEF WReply, WReturn, Core, TypeOK
<1>4. ASSUME \A v \in Worker : \A f \in {wfile[v], wnew[v]} \ {wfile[w], None} :
                fdtab'[f] = v
      PROVE  FilesOwned'
  <2> SUFFICES ASSUME NEW v \in Worker
               PROVE  /\ \A f \in {wfile'[v], wnew'[v]} \ {None} : fdtab'[f] = v
                      /\ wfile'[v] = wnew'[v] => wfile'[v] = None
      BY DEF FilesOwned
  <2>1. CASE v = w
    <3>1. wnew[w] # None => wnew[w] # wfile[w]
        BY DEF Linked, Ownership, FilesOwned
    <3> QED BY <1>3, <1>4, <2>1, <3>1
  <2>2. CASE v # w
    <3>1. \A f \in {wfile[v], wnew[v]} \ {None} : f # wfile[w]
        BY <2>2 DEF Linked, Ownership, FilesOwned
    <3>2. wfile[v] = wnew[v] => wfile[v] = None
        BY DEF Linked, Ownership, FilesOwned
    <3> QED BY <1>3, <1>4, <2>2, <3>1, <3>2
  <2> QED BY <2>1, <2>2
<1>5. CASE wfile[w] = None
  <2>1. UNCHANGED <<fdtab, interest, ready, strayClose>>
      BY <1>1, <1>5 DEF DropResponse, NoClose
  <2>2. FilesOwned'
      BY <1>4, <2>1 DEF Linked, Ownership, FilesOwned
  <2>3. Ownership'
      BY <1>1, <2>1, <2>2 DEF Linked, Ownership, LiveEvent, ListenerHolds, InMap, Peer,
         shared, listener
  <2> QED BY <1>1, <1>2, <2>1, <2>3, MapStateKept, EdgeMoved DEF Linked, shared, listener
<1>6. CASE wfile[w] # None
  <2>1. PICK fd \in FD : fd = wfile[w] /\ fdtab[fd] = w /\ Close(fd, w)
      BY <1>1, <1>6 DEF DropResponse, Core, TypeOK, Linked, Ownership, FilesOwned
  <2>2. ~strayClose'
      BY <2>1 DEF Close
  <2>3. w \notin Client
      BY ReactorAssumption
  <2>4. MapState' /\ EdgeKept'
      BY <1>1, <1>2, <2>1, <2>3, CloseLinked DEF shared, listener
  <2>5. \A c \in Client : LiveEvent(c)' <=> (LiveEvent(c) /\ c # w)
      BY <1>1, <2>3 DEF LiveEvent, ListenerHolds, InMap, shared, listener
  <2>6. FilesOwned'
    <3>1. ASSUME NEW v \in Worker, NEW f \in {wfile[v], wnew[v]} \ {wfile[w], None}
          PROVE  fdtab'[f] = v
      <4>1. f \in FD /\ f # fd /\ fdtab[f] = v
          BY <2>1 DEF Core, TypeOK, Linked, Ownership, FilesOwned
      <4> QED BY <2>1, <4>1 DEF Close, Core, TypeOK
    <3> QED BY <1>4, <3>1
  <2>7. UNCHANGED <<evFD, lfd, lconn, lpc>> /\ (lpc' \in Raw => lconn # w)
      BY <1>1, <2>3 DEF shared, listener, Core, ListenerState, Raw, Free
  <2>8. Ownership'
      BY <2>1, <2>3, <2>5, <2>6, <2>7, CloseOwned
  <2> QED BY <2>2, <2>4, <2>8 DEF Linked
<1> QED BY <1>5, <1>6

\* The descriptor leaves the interest set; the event being handled was its
\* last chance to be reported.
LEMMA DelCtlLinked ==
    ASSUME Core, Linked, NEW w \in Worker, WDelCtl(w)
    PROVE  Linked' /\ UNCHANGED strayClose
<1>1. pc[w] = "delctl" /\ pc[w] \in Handling
    BY DEF WDelCtl, Handling
<1>2. PICK fd \in FD : fd = evFD[cur[w]] /\ evWorker[cur[w]] = w
    BY <1>1, CurrentEvent
<1>3. /\ lock[w] = None
      /\ UNCHANGED <<fdtab, unread, fin, events, evFD, listener, accepted, batch, todo,
                     cur, wfile, wnew, history>>
    BY <1>2 DEF WDelCtl
<1>4. Ownership'
    BY <1>3, OwnershipKept DEF Linked, listener
<1>5. interest[w] = Registered(w) /\ w # None /\ w # Listener
    BY <1>3, ReactorAssumption DEF Linked, MapState
<1>6. CASE fd \in interest[w]
  <2>1. /\ lock' = [lock EXCEPT ![w] = w]
        /\ interest' = [interest EXCEPT ![w] = @ \ {fd}]
        /\ ready' = [ready EXCEPT ![w] = @ \ {fd}]
        /\ pc' = [pc EXCEPT ![w] = "delerase"]
      BY <1>2, <1>6 DEF WDelCtl, Goto
  <2>2. /\ lock'[w] = w /\ interest'[w] = interest[w] \ {fd} /\ ready'[w] = ready[w] \ {fd}
        /\ \A v \in Worker \ {w} :
              lock'[v] = lock[v] /\ interest'[v] = interest[v] /\ ready'[v] = ready[v]
        /\ \A v \in Worker : pc[v] \in Handling => pc'[v] \in Handling
      BY <2>1 DEF Core, TypeOK, Handling
  <2>3. MapState'
    <3> SUFFICES ASSUME NEW v \in Worker
                 PROVE  interest'[v] =
                           CASE lock'[v] = None     -> Registered(v)
                             [] lock'[v] = Listener -> Registered(v) \cup {lfd}
                             [] OTHER               -> Registered(v) \ {evFD[cur[v]]}
        BY <1>3 DEF MapState, Registered, listener
    <3>1. CASE v = w
        BY <1>2, <1>5, <2>2, <3>1
    <3>2. CASE v # w
        BY <2>2, <3>2 DEF Linked, MapState
    <3> QED BY <3>1, <3>2
  <2>4. EdgeKept'
    <3> SUFFICES ASSUME NEW v \in Worker, NEW f \in interest'[v], Readable(fdtab[f])
                 PROVE  \/ f \in ready'[v] \cup accepted[v]
                        \/ fdtab[f] \in todo[v]
                        \/ pc'[v] \in Handling /\ cur[v] = fdtab[f]
        BY <1>3 DEF EdgeKept, Readable
    <3>1. f \in interest[v] /\ (f \in ready[v] => f \in ready'[v])
        BY <2>2
    <3> QED BY <2>2, <3>1 DEF Linked, EdgeKept
  <2> QED BY <1>3, <1>4, <2>3, <2>4 DEF Linked, history
<1>7. CASE fd \notin interest[w]
  <2>1. UNCHANGED <<lock, interest, ready>> /\ \A v \in Worker \ {w} : pc'[v] = pc[v]
      BY <1>2, <1>7 DEF WDelCtl, Goto, Core, TypeOK
  <2>2. EdgeKept'
    <3> SUFFICES ASSUME NEW v \in Worker, NEW f \in interest[v], Readable(fdtab[f])
                 PROVE  \/ f \in ready[v] \cup accepted[v]
                        \/ fdtab[f] \in todo[v]
                        \/ pc'[v] \in Handling /\ cur[v] = fdtab[f]
        BY <1>3, <2>1 DEF EdgeKept, Readable
    <3>1. v = w => cur[w] # fdtab[f]
        BY <1>2, <1>7, Watched
    <3> QED BY <2>1, <3>1 DEF Linked, EdgeKept
  <2> QED BY <1>3, <1>4, <2>1, <2>2, MapStateKept DEF Linked, history, listener
<1> QED BY <1>6, <1>7

\* The map catches up; the batch still holds the Event.
LEMMA DelEraseLinked ==
    ASSUME Core, Linked, NEW w \in Worker, WDelErase(w)
    PROVE  Linked' /\ UNCHANGED strayClose
<1>1. pc[w] = "delerase" /\ pc[w] \in Handling
    BY DEF WDelErase, Handling
<1>2. PICK c \in Client, fd \in FD :
         c = cur[w] /\ c \in batch[w] /\ fd = evFD[c] /\ evWorker[c] = w
    BY <1>1, CurrentEvent
<1>3. /\ events' = [events EXCEPT ![w][fd] = None]
      /\ lock' = [lock EXCEPT ![w] = None]
      /\ pc' = [pc EXCEPT ![w] = "return"]
      /\ UNCHANGED <<kernel, evFD, listener, accepted, batch, todo, cur, wfile, wnew, history>>
    BY <1>2 DEF WDelErase, Goto
<1>4. /\ \A v \in Worker, f \in FD :
            events'[v][f] = IF v = w /\ f = fd THEN None ELSE events[v][f]
      /\ \A v \in Worker : lock'[v] = IF v = w THEN None ELSE lock[v]
      /\ \A v \in Worker \ {w} : pc'[v] = pc[v]
    BY <1>3 DEF Core, TypeOK
<1>5. interest[w] = Registered(w) \ {fd}
  <2>1. lock[w] = w /\ w # None /\ w # Listener
      BY <1>1, ReactorAssumption DEF Core, LockState
  <2> QED BY <1>2, <2>1 DEF Linked, MapState
<1>6. MapState'
  <2> SUFFICES ASSUME NEW v \in Worker
               PROVE  interest[v] = CASE lock'[v] = None     -> Registered(v)'
                                      [] lock'[v] = Listener -> Registered(v)' \cup {lfd}
                                      [] OTHER               -> Registered(v)' \ {evFD[cur[v]]}
      BY <1>3 DEF MapState, kernel, listener
  <2>1. CASE v = w
    <3>1. Registered(w)' = Registered(w) \ {fd}
        BY <1>4 DEF Registered
    <3> QED BY <1>4, <1>5, <2>1, <3>1, ReactorAssumption
  <2>2. CASE v # w
    <3>1. Registered(v)' = Registered(v) /\ lock'[v] = lock[v]
        BY <1>4, <2>2 DEF Registered
    <3> QED BY <3>1 DEF Linked, MapState
  <2> QED BY <2>1, <2>2
<1>7. EdgeKept'
  <2> SUFFICES ASSUME NEW v \in Worker, NEW f \in interest[v], Readable(fdtab[f])
               PROVE  \/ f \in ready[v] \cup accepted[v]
                      \/ fdtab[f] \in todo[v]
                      \/ pc'[v] \in Handling /\ cur[v] = fdtab[f]
      BY <1>3 DEF EdgeKept, Readable, kernel
  <2>1. v = w => cur[w] # fdtab[f]
      BY <1>2, <1>5, Watched
  <2> QED BY <1>4, <2>1 DEF Linked, EdgeKept
<1>8. \A d \in Client : LiveEvent(d)' <=> LiveEvent(d)
  <2> SUFFICES ASSUME NEW d \in Client PROVE LiveEvent(d)' <=> LiveEvent(d)
      OBVIOUS
  <2>1. ListenerHolds(d)' <=> ListenerHolds(d)
      BY <1>3 DEF ListenerHolds, listener
  <2>2. InMap(d)' => InMap(d)
      BY <1>4, ReactorAssumption DEF InMap
  <2>3. ASSUME InMap(d) PROVE InMap(d)' \/ d \in batch[w]
    <3>1. PICK v \in Worker, f \in FD : events[v][f] = d
        BY <2>3 DEF InMap
    <3>2. CASE v = w /\ f = fd
      <4>1. evFD[d] = fd /\ LiveEvent(d) /\ LiveEvent(c)
          BY <1>2, <2>3, <3>1, <3>2, ReactorAssumption DEF Core, EventState, LiveEvent
      <4>2. d = c
          BY <1>2, <4>1, LiveNumber
      <4> QED BY <1>2, <4>2
    <3>3. CASE ~(v = w /\ f = fd)
        BY <1>4, <3>1, <3>3 DEF InMap
    <3> QED BY <3>2, <3>3
  <2> QED BY <1>3, <2>1, <2>2, <2>3 DEF LiveEvent
<1>9. Ownership'
    BY <1>3, <1>8, OwnershipMoved DEF Linked, kernel, listener
<1> QED BY <1>3, <1>6, <1>7, <1>9 DEF Linked, history

\* The batch's reference goes, perhaps as the last one.
LEMMA ClearLinked ==
    ASSUME Core, Linked, ~strayClose, NEW w \in Worker, WClear(w)
    PROVE  Linked' /\ ~strayClose'
<1>1. PICK c \in batch[w] :
         /\ batch' = [batch EXCEPT ![w] = @ \ {c}]
         /\ IF ListenerHolds(c) \/ InMap(c) THEN KeepEvent ELSE DestroyEvent(c)
    BY DEF WClear
<1>2. UNCHANGED <<unread, fin, events, lock, evFD, listener, pc, accepted, todo, cur, wfile,
                  wnew>>
    BY DEF WClear
<1>3. c \in Client /\ evWorker[c] = w /\ LiveEvent(c)
    BY DEF Core, TypeOK, EventState, LiveEvent
<1>4. \A v \in Worker : batch'[v] = IF v = w THEN batch[w] \ {c} ELSE batch[v]
    BY <1>1 DEF Core, TypeOK
<1>5. \A v \in Worker : c \notin batch'[v]
    BY <1>3, <1>4 DEF Core, EventState
<1>6. \A d \in Client : /\ ListenerHolds(d)' <=> ListenerHolds(d)
                        /\ InMap(d)' <=> InMap(d)
    BY <1>2 DEF ListenerHolds, InMap, listener
<1>7. \A d \in Client : d # c => (LiveEvent(d)' <=> LiveEvent(d))
    BY <1>4, <1>6 DEF LiveEvent
<1>8. LiveEvent(c)' <=> (ListenerHolds(c) \/ InMap(c))
    BY <1>3, <1>5, <1>6 DEF LiveEvent
<1>9. CASE ListenerHolds(c) \/ InMap(c)
  <2>1. UNCHANGED <<fdtab, interest, ready, strayClose>>
      BY <1>1, <1>9 DEF KeepEvent, NoClose
  <2>2. \A d \in Client : LiveEvent(d)' <=> LiveEvent(d)
      BY <1>3, <1>7, <1>8, <1>9
  <2> QED BY <1>2, <2>1, <2>2, MapStateKept, OwnershipMoved, EdgeMoved DEF Linked, listener
<1>10. CASE ~(ListenerHolds(c) \/ InMap(c))
  <2>1. DestroyEvent(c)
      BY <1>1, <1>10
  <2>2. \A d \in Client : LiveEvent(d)' <=> (LiveEvent(d) /\ d # c)
      BY <1>3, <1>7, <1>8, <1>10
  <2>3. ~(lpc = "insert" /\ lconn = c) /\ ~InMap(c)
      BY <1>10 DEF ListenerHolds
  <2>4. MapState' /\ EdgeKept' /\ ~strayClose'
    <3>1. evFD[c] \in FD /\ fdtab[evFD[c]] = c /\ Close(evFD[c], c)
        BY <1>3, <2>1, LiveNumber DEF DestroyEvent
    <3>2. ~strayClose'
        BY <3>1 DEF Close
    <3> QED BY <1>2, <1>3, <2>3, <3>1, <3>2, CloseLinked DEF listener
  <2>5. Ownership'
    <3>1. evFD[c] \in FD /\ fdtab[evFD[c]] = c /\ Close(evFD[c], c)
        BY <1>3, <2>1, LiveNumber DEF DestroyEvent
    <3>2. FilesOwned'
      <4>1. c \notin Worker /\ \A f \in FD \ {evFD[c]} : fdtab'[f] = fdtab[f]
          BY <1>3, <3>1, ReactorAssumption DEF Close, Core, TypeOK
      <4> QED BY <1>2, <3>1, <4>1, TableFiles
    <3>3. UNCHANGED <<evFD, lfd, lconn, lpc>>
        BY <1>2 DEF listener
    <3>4. lpc \in Raw => lconn # c
        BY DEF Core, ListenerState, Alone
    <3> QED BY <1>3, <2>2, <3>1, <3>2, <3>3, <3>4, CloseOwned
  <2> QED BY <2>4, <2>5 DEF Linked
<1> QED BY <1>9, <1>10

-----------------------------------------------------------------------------
(* The link holds until a close goes astray *)

\* A close goes astray only where the model lets calls fail.
Descriptors == (strayClose \/ Linked) /\ (strayClose => CallMayFail)

\* At the beginning there is nothing to link.
LEMMA InitLinked == Init => Descriptors
<1> SUFFICES ASSUME Init PROVE Descriptors
    OBVIOUS
<1>1. MapState
    BY ReactorAssumption DEF Init, MapState, Registered
<1>2. Ownership
    BY ReactorAssumption DEF Init, Ownership, FilesOwned, LiveEvent, ListenerHolds, InMap, Raw
<1>3. EdgeKept
    BY DEF Init, EdgeKept
<1>4. ~strayClose
    BY DEF Init
<1> QED BY <1>1, <1>2, <1>3, <1>4 DEF Descriptors, Linked

\* A stray close is never forgotten.
LEMMA StrayForEver ==
    ASSUME strayClose, [Next]_vars
    PROVE  strayClose'
<1>1. CASE Environment
    BY <1>1 DEF Environment, Connect, Send, Shutdown, history
<1>2. CASE ListenStep \/ LWaitFails
    BY <1>2 DEF ListenStep, LCheck, LWake, LWaitFails, LExit, LAccept, LAcceptFails, LFcntlFails, LSetNonblock,
       LPickRunning, LPickRoom, LNoWorker, LMakeEvent, LAddRoom, LCtlAdd, LCtlAddFails,
       LInsert, LRelease, LAddFailed, LCloseClient, DestroyEvent, KeepEvent, NoClose,
       Close, history
<1>3. ASSUME NEW w \in Worker, WorkerStep(w) \/ WWaitFails(w) PROVE strayClose'
    BY <1>3 DEF WorkerStep, WCheck, WWait, WCollect, WHandle, WHandled, WRecv, WEof,
       WOpen, WReply, WReturn, WDelCtl, WDelErase, WClear, WCleared, WExit, WWaitFails,
       DropResponse, DestroyEvent, KeepEvent, NoClose, Close, history
<1>4. ASSUME NEW t \in Thread, Stop(t) PROVE strayClose'
    BY <1>4 DEF Stop, history
<1>5. CASE UNCHANGED vars
    BY <1>5 DEF vars, history
<1> QED BY <1>1, <1>2, <1>3, <1>4, <1>5 DEF Next

\* Every step keeps the link or is the stray close.
LEMMA DescriptorStep == Core /\ Descriptors /\ [Next]_vars => Descriptors'
<1> SUFFICES ASSUME Core, Descriptors, [Next]_vars PROVE Descriptors'
    OBVIOUS
<1>1. CASE strayClose
    BY <1>1, StrayForEver DEF Descriptors
<1>2. CASE ~strayClose
  <2> SUFFICES (strayClose' => CallMayFail) /\ (~strayClose' => Linked')
      BY DEF Descriptors
  <2>1. Linked
      BY <1>2 DEF Descriptors
  <2>2. CASE Environment
      BY <1>2, <2>1, <2>2, ConnectLinked, ArriveLinked DEF Environment
  <2>3. CASE ListenStep \/ LWaitFails
      BY <1>2, <2>1, <2>3, LControlLinked, AcceptLinked, GiveUpLinked, MakeEventLinked,
         CtlAddLinked, InsertLinked, ReleaseLinked, AddFailedLinked DEF ListenStep, LControl
  <2>4. ASSUME NEW w \in Worker, WorkerStep(w) \/ WWaitFails(w)
        PROVE  (strayClose' => CallMayFail) /\ (~strayClose' => Linked')
      BY <1>2, <2>1, <2>4, LoopLinked, WaitLinked, CollectLinked, HandleLinked, RecvLinked,
         OpenLinked, ReplyLinked, DelCtlLinked, DelEraseLinked, ClearLinked DEF WorkerStep
  <2>5. ASSUME NEW t \in Thread, Stop(t)
        PROVE  (strayClose' => CallMayFail) /\ (~strayClose' => Linked')
      BY <1>2, <2>1, <2>5, StopLinked
  <2>6. CASE UNCHANGED vars
      BY <1>2, <2>1, <2>6, LinkedKept DEF vars, kernel, shared, listener, threads, history
  <2> QED BY <2>2, <2>3, <2>4, <2>5, <2>6 DEF Next
<1> QED BY <1>1, <1>2

\* The link between the program's objects and the kernel's holds throughout.
THEOREM DescriptorInvariant == Spec => []Descriptors
BY InitLinked, DescriptorStep, CoreInvariant, PTL DEF Spec

\* The inductive invariant that TLC checks on the small instances holds.
THEOREM Inductive == Spec => []IInv
<1>1. Spec => []Turns
    BY InitTurns, TurnsStep, CoreInvariant, PTL DEF Spec
<1>2. Core /\ Turns /\ Descriptors => IInv
    BY DEF IInv, Descriptors
<1> QED BY <1>1, <1>2, CoreInvariant, DescriptorInvariant, PTL

\* Outside the critical sections the map of a worker holds exactly the
\* descriptors the kernel watches for it, unless a close has gone astray.
THEOREM MapIsRight == Spec => []MapMatchesKernel
<1>1. Descriptors => MapMatchesKernel
    BY ReactorAssumption DEF Descriptors, Linked, MapState, MapMatchesKernel, Registered
<1> QED BY <1>1, DescriptorInvariant, PTL

\* No descriptor leaks and none is used after it was closed, unless a close has
\* gone astray.
THEOREM DescriptorsAreOwned == Spec => []DescriptorsOwned
<1>1. Descriptors => DescriptorsOwned
    BY DEF Descriptors, Linked, Ownership, DescriptorsOwned, Raw
<1> QED BY <1>1, DescriptorInvariant, PTL

\* Where accept, fcntl and epoll_ctl(EPOLL_CTL_ADD) do not fail, no close() ever hits a
\* descriptor that somebody else owns by now.
THEOREM ClosesHitTheirOwn ==
    ASSUME ~CallMayFail
    PROVE  Spec => []NoStrayClose
<1>1. Descriptors => NoStrayClose
    BY DEF Descriptors, NoStrayClose
<1> QED BY <1>1, DescriptorInvariant, PTL

\* Where those calls do not fail, no edge is lost between epoll_wait, the map and
\* the batch, although the listener registers descriptors concurrently.
THEOREM EdgesAreKept ==
    ASSUME ~CallMayFail
    PROVE  Spec => []EdgeKept
<1>1. Descriptors => EdgeKept
    BY DEF Descriptors, Linked
<1> QED BY <1>1, DescriptorInvariant, PTL

\* A close goes astray only in one place: where ListenEventHandler::handle closes
\* clientFD itself after a failed addEvent, whose Event has closed it already.
THEOREM OnlyTheSecondCloseStrays ==
    Spec => [][strayClose' => strayClose \/ LCloseClient]_vars
<1>1. Core /\ Descriptors /\ [Next]_vars =>
         [strayClose' => strayClose \/ LCloseClient]_vars
  <2> SUFFICES ASSUME Core, Descriptors, Next, ~strayClose, strayClose'
               PROVE  LCloseClient
      BY DEF Descriptors
  <2>1. Linked
      BY DEF Descriptors
  <2>2. CASE Environment
      BY <2>1, <2>2, ConnectLinked, ArriveLinked DEF Environment
  <2>3. CASE ListenStep \/ LWaitFails
      BY <2>1, <2>3, LControlLinked, AcceptLinked, OwnClose, MakeEventLinked, CtlAddLinked,
         InsertLinked, ReleaseLinked, AddFailedLinked DEF ListenStep, LControl
  <2>4. ASSUME NEW w \in Worker, WorkerStep(w) \/ WWaitFails(w)
        PROVE  FALSE
      BY <2>1, <2>4, LoopLinked, WaitLinked, CollectLinked, HandleLinked, RecvLinked,
         OpenLinked, ReplyLinked, DelCtlLinked, DelEraseLinked, ClearLinked DEF WorkerStep
  <2>5. ASSUME NEW t \in Thread, Stop(t)
        PROVE  FALSE
      BY <2>1, <2>5, StopLinked
  <2> QED BY <2>2, <2>3, <2>4, <2>5 DEF Next
<1> QED BY <1>1, CoreInvariant, DescriptorInvariant, PTL DEF Spec
=============================================================================
