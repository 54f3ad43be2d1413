---------------------------- MODULE ServiceProofs ----------------------------
(***************************************************************************)
(* Proofs about Reactor, concluded: Reactor implements ConnectionService,  *)
(* for any numbers of clients, requests, workers and descriptors and any   *)
(* capacity.                                                               *)
(***************************************************************************)
EXTENDS DescriptorProofs

USE DEF Listener

-----------------------------------------------------------------------------
(* A connection is open as long as one descriptor refers to it *)

\* This is about the descriptor table and the connections only.
LEMMA OneKept ==
    ASSUME OneDescriptor, UNCHANGED <<fdtab, conn>>
    PROVE  OneDescriptor'
BY DEF OneDescriptor

\* A close takes the descriptor away and with it the connection, whoever calls it.
LEMMA CloseOne ==
    ASSUME TypeOK, OneDescriptor, NEW fd \in FD, NEW owner, Close(fd, owner)
    PROVE  OneDescriptor'
<1>1. \A f \in FD : fdtab'[f] = IF f = fd THEN None ELSE fdtab[f]
    BY DEF Close, TypeOK
<1>2. \A c \in Client : conn'[c] = IF fdtab[fd] = c THEN "closed" ELSE conn[c]
    BY DEF Close, TypeOK
<1>3. None \notin Client
    BY ReactorAssumption
<1>4. ASSUME NEW f \in FD, fdtab'[f] \in Client PROVE conn'[fdtab'[f]] = "open"
    BY <1>1, <1>2, <1>3, <1>4 DEF OneDescriptor
<1>5. ASSUME NEW f \in FD, NEW g \in FD, fdtab'[f] \in Client, fdtab'[g] = fdtab'[f]
      PROVE  f = g
    BY <1>1, <1>3, <1>5 DEF OneDescriptor
<1>6. ASSUME NEW c \in Client, conn'[c] = "open" PROVE \E f \in FD : fdtab'[f] = c
  <2>1. conn[c] = "open" /\ fdtab[fd] # c
      BY <1>2, <1>6
  <2> QED BY <1>1, <2>1 DEF OneDescriptor
<1> QED BY <1>4, <1>5, <1>6 DEF OneDescriptor

\* accept opens a connection that was in the backlog, behind a free number.
LEMMA AcceptOne ==
    ASSUME TypeOK, OneDescriptor, LAccept
    PROVE  OneDescriptor'
<1>1. PICK c \in Client, fd \in FreeFD :
         /\ conn[c] = "backlog"
         /\ conn' = [conn EXCEPT ![c] = "open"]
         /\ fdtab' = [fdtab EXCEPT ![fd] = c]
    BY DEF LAccept
<1>2. fd \in FD /\ fdtab[fd] = None /\ None \notin Client
    BY ReactorAssumption DEF FreeFD
<1>3. /\ \A f \in FD : fdtab'[f] = IF f = fd THEN c ELSE fdtab[f]
      /\ \A d \in Client : conn'[d] = IF d = c THEN "open" ELSE conn[d]
    BY <1>1, <1>2 DEF TypeOK
<1>4. \A f \in FD : fdtab[f] # c
    BY <1>1 DEF OneDescriptor
<1>5. ASSUME NEW f \in FD, fdtab'[f] \in Client PROVE conn'[fdtab'[f]] = "open"
    BY <1>3, <1>5 DEF OneDescriptor
<1>6. ASSUME NEW f \in FD, NEW g \in FD, fdtab'[f] \in Client, fdtab'[g] = fdtab'[f]
      PROVE  f = g
    BY <1>3, <1>4, <1>6 DEF OneDescriptor
<1>7. ASSUME NEW d \in Client, conn'[d] = "open" PROVE \E f \in FD : fdtab'[f] = d
  <2>1. CASE d = c
      BY <1>2, <1>3, <2>1
  <2>2. CASE d # c
    <3>1. PICK f \in FD : fdtab[f] = d
        BY <1>3, <1>7, <2>2 DEF OneDescriptor
    <3>2. f # fd
        BY <1>2, <3>1
    <3> QED BY <1>3, <3>1, <3>2
  <2> QED BY <2>1, <2>2
<1> QED BY <1>5, <1>6, <1>7 DEF OneDescriptor

\* A client that connects has no descriptor here yet.
LEMMA ConnectOne ==
    ASSUME TypeOK, OneDescriptor, NEW c \in Client, Connect(c)
    PROVE  OneDescriptor'
<1>1. /\ \A d \in Client : conn'[d] = IF d = c THEN "backlog" ELSE conn[d]
      /\ conn[c] = "idle" /\ fdtab' = fdtab
    BY DEF Connect, TypeOK
<1>2. \A f \in FD : fdtab[f] # c
    BY <1>1 DEF OneDescriptor
<1> QED BY <1>1, <1>2 DEF OneDescriptor

\* A resource file takes a free number.
LEMMA OpenOne ==
    ASSUME TypeOK, OneDescriptor, NEW w \in Worker, WOpen(w)
    PROVE  OneDescriptor'
<1>1. conn' = conn
    BY DEF WOpen
<1>2. CASE fdtab' = fdtab
    BY <1>1, <1>2, OneKept
<1>3. CASE \E fd \in FreeFD : fdtab' = [fdtab EXCEPT ![fd] = w]
  <2>1. PICK fd \in FreeFD : fdtab' = [fdtab EXCEPT ![fd] = w]
      BY <1>3
  <2>2. fd \in FD /\ fdtab[fd] = None /\ None \notin Client /\ w \notin Client
      BY ReactorAssumption DEF FreeFD
  <2>3. \A f \in FD : fdtab'[f] = IF f = fd THEN w ELSE fdtab[f]
      BY <2>1, <2>2 DEF TypeOK
  <2>4. ASSUME NEW c \in Client, conn'[c] = "open" PROVE \E f \in FD : fdtab'[f] = c
    <3>1. PICK f \in FD : fdtab[f] = c
        BY <1>1, <2>4 DEF OneDescriptor
    <3>2. f # fd
        BY <2>2, <3>1
    <3> QED BY <2>3, <3>1, <3>2
  <2>5. ASSUME NEW f \in FD, fdtab'[f] \in Client
        PROVE  fdtab'[f] = fdtab[f]
      BY <2>2, <2>3, <2>5
  <2>6. ASSUME NEW f \in FD, fdtab'[f] \in Client PROVE conn'[fdtab'[f]] = "open"
      BY <1>1, <2>5, <2>6 DEF OneDescriptor
  <2>7. ASSUME NEW f \in FD, NEW g \in FD, fdtab'[f] \in Client, fdtab'[g] = fdtab'[f]
        PROVE  f = g
      BY <2>5, <2>7 DEF OneDescriptor
  <2> QED BY <2>4, <2>6, <2>7 DEF OneDescriptor
<1> QED BY <1>2, <1>3 DEF WOpen

\* An Event that is destroyed closes its descriptor; one that is kept, nothing.
LEMMA DropOne ==
    ASSUME Core, OneDescriptor, NEW c \in Client, evFD[c] \in FD,
           KeepEvent \/ DestroyEvent(c)
    PROVE  OneDescriptor'
<1>1. CASE KeepEvent
    BY <1>1, OneKept DEF KeepEvent, NoClose
<1>2. CASE DestroyEvent(c)
    BY <1>2, CloseOne DEF DestroyEvent, Core
<1> QED BY <1>1, <1>2

\* Every step of the system keeps this, stray closes included.
LEMMA OneStep == Core /\ OneDescriptor /\ [Next]_vars => OneDescriptor'
<1> SUFFICES ASSUME Core, OneDescriptor, [Next]_vars PROVE OneDescriptor'
    OBVIOUS
<1>0. TypeOK
    BY DEF Core
<1>1. CASE Environment
  <2>1. ASSUME NEW c \in Client, Send(c) \/ Shutdown(c) PROVE UNCHANGED <<fdtab, conn>>
      BY <2>1 DEF Send, Shutdown
  <2> QED BY <1>0, <1>1, <2>1, ConnectOne, OneKept DEF Environment
<1>2. CASE ListenStep \/ LWaitFails
  <2>1. CASE LControl
      BY <2>1, LControlSteps, OneKept
  <2>2. CASE LMakeEvent \/ LCtlAdd \/ LInsert
      BY <2>2, OneKept DEF LMakeEvent, LCtlAdd, LInsert, kernel
  <2>3. CASE LFcntlFails \/ LNoWorker \/ LCloseClient
    <3>1. lpc \in {"fcntl", "running", "close"} /\ Close(lfd, lconn)
        BY <2>3 DEF LFcntlFails, LNoWorker, LCloseClient
    <3>2. lfd \in FD
        BY <3>1 DEF Core, ListenerState, Free
    <3> QED BY <1>0, <3>1, <3>2, CloseOne
  <2>4. CASE LRelease \/ LAddFailed
    <3>1. lpc \in {"release", "failed"} /\ (KeepEvent \/ DestroyEvent(lconn))
        BY <2>4 DEF LRelease, LAddFailed
    <3>2. lconn \in Client /\ evFD[lconn] \in FD
        BY <3>1 DEF Core, ListenerState, Made, Free
    <3> QED BY <3>1, <3>2, DropOne
  <2> QED BY <1>0, <1>2, <2>1, <2>2, <2>3, <2>4, AcceptOne DEF ListenStep, LControl
<1>3. ASSUME NEW w \in Worker, WorkerStep(w) \/ WWaitFails(w)
      PROVE  OneDescriptor'
  <2>1. CASE WClear(w)
    <3>1. PICK c \in batch[w] : KeepEvent \/ DestroyEvent(c)
        BY <2>1 DEF WClear
    <3>2. c \in Client /\ evFD[c] \in FD
        BY DEF Core, TypeOK, EventState
    <3> QED BY <3>1, <3>2, DropOne
  <2>2. CASE WReply(w) \/ WReturn(w)
    <3>0. DropResponse(w)
        BY <2>2 DEF WReply, WReturn
    <3>1. CASE wfile[w] = None
        BY <3>0, <3>1, OneKept DEF DropResponse, NoClose
    <3>2. CASE wfile[w] # None
      <4>1. wfile[w] \in FD /\ Close(wfile[w], w)
          BY <1>0, <3>0, <3>2 DEF DropResponse, TypeOK
      <4> QED BY <1>0, <4>1, CloseOne
    <3> QED BY <3>1, <3>2
  <2>3. CASE ~(WClear(w) \/ WReply(w) \/ WReturn(w) \/ WOpen(w))
    <3>1. UNCHANGED <<fdtab, conn>>
        BY <1>3, <2>3 DEF WorkerStep, WCheck, WWait, WCollect, WHandle, WHandled, WRecv, WEof,
           WDelCtl, WDelErase, WCleared, WExit, WWaitFails, kernel
    <3> QED BY <3>1, OneKept
  <2> QED BY <1>0, <2>1, <2>2, <2>3, OpenOne
<1>4. ASSUME NEW t \in Thread, Stop(t) PROVE OneDescriptor'
    BY <1>4, OneKept DEF Stop, kernel
<1>5. CASE UNCHANGED vars
    BY <1>5, OneKept DEF vars, kernel
<1> QED BY <1>1, <1>2, <1>3, <1>4, <1>5 DEF Next

-----------------------------------------------------------------------------
(* What a worker has yet to handle is in its map *)

\* A thread that does not begin to handle an event knows no more than before.
LEMMA InHandKept ==
    ASSUME InHand, UNCHANGED <<events, evFD, todo, cur>>,
           \A w \in Worker : pc'[w] \in Handling => pc[w] \in Handling
    PROVE  InHand'
BY DEF InHand

\* The events a worker has in hand are Events it is allowed to use.
LEMMA HandFacts ==
    ASSUME Core, NEW w \in Worker, NEW c \in Client,
           c \in todo[w] \/ (pc[w] \in Handling /\ cur[w] = c)
    PROVE  c \in batch[w] /\ evFD[c] \in FD /\ evWorker[c] = w
BY DEF Core, TypeOK, ThreadState, EventState

\* The slot of the new Event is empty.
LEMMA SlotFree ==
    ASSUME Core, Linked, NEW v \in Worker, lpc = "insert"
    PROVE  events[v][lfd] = None
<1>1. /\ lconn \in Client /\ lfd \in FD /\ evFD[lconn] = lfd /\ ~InMap(lconn)
      /\ LiveEvent(lconn)
    BY DEF Core, ListenerState, Made, Alone, Free, LiveEvent, ListenerHolds
<1> SUFFICES ASSUME events[v][lfd] # None PROVE FALSE
    OBVIOUS
<1>2. PICK c \in Client : c = events[v][lfd]
    BY <1>1 DEF Core, TypeOK
<1>3. LiveEvent(c) /\ evFD[c] = lfd
    BY <1>1, <1>2 DEF Core, EventState, LiveEvent, InMap
<1>4. c = lconn
    BY <1>1, <1>3, LiveNumber
<1> QED BY <1>1, <1>2, <1>4 DEF InMap

\* The listener gives a number to an Event nobody has in hand, and fills a slot
\* nobody's event is in.
LEMMA ListenInHand ==
    ASSUME Core, Linked, InHand, LMakeEvent \/ LInsert
    PROVE  InHand'
<1>1. PICK v \in Worker : v = order[idx]
    BY CurrentWorker DEF LMakeEvent, LInsert, Core, Made
<1>2. /\ lconn \in Client /\ lfd \in FD /\ \A w \in Worker : lconn \notin batch[w]
      /\ UNCHANGED <<todo, cur, pc>>
    BY DEF LMakeEvent, LInsert, Core, ListenerState, Alone, Raw, Made, Free, threads
<1>3. ASSUME NEW w \in Worker, NEW c \in Client, events[w][evFD[c]] = c,
             c \in batch[w], evFD[c] \in FD
      PROVE  events'[w][evFD'[c]] = c
  <2>1. CASE LMakeEvent
    <3>1. evFD'[c] = evFD[c]
        BY <1>2, <1>3, <2>1 DEF LMakeEvent, Core, TypeOK
    <3> QED BY <1>3, <2>1, <3>1 DEF LMakeEvent
  <2>2. CASE LInsert
    <3>1. evFD[c] # lfd \/ w # v
      <4>1. events[v][lfd] = None
          BY <2>2, SlotFree DEF LInsert
      <4> QED BY <1>3, <4>1, ReactorAssumption
    <3>2. events' = [events EXCEPT ![v][lfd] = lconn] /\ evFD' = evFD
        BY <1>1, <2>2 DEF LInsert
    <3> QED BY <1>2, <1>3, <3>1, <3>2 DEF Core, TypeOK
  <2> QED BY <2>1, <2>2
<1> SUFFICES ASSUME NEW w \in Worker
             PROVE  /\ \A c \in todo[w] : events'[w][evFD'[c]] = c
                    /\ pc[w] \in Handling => /\ cur[w] \notin todo[w]
                                             /\ events'[w][evFD'[cur[w]]] = cur[w]
    BY <1>2 DEF InHand
<1>4. ASSUME NEW c \in todo[w] PROVE events'[w][evFD'[c]] = c
  <2>1. c \in Client /\ events[w][evFD[c]] = c
      BY DEF Core, TypeOK, InHand
  <2> QED BY <1>3, <2>1, HandFacts
<1>5. ASSUME pc[w] \in Handling
      PROVE  cur[w] \notin todo[w] /\ events'[w][evFD'[cur[w]]] = cur[w]
  <2>1. PICK c \in Client : c = cur[w]
      BY <1>5, CurrentEvent
  <2>2. c \notin todo[w] /\ events[w][evFD[c]] = c
      BY <1>5, <2>1 DEF InHand
  <2>3. c \in batch[w] /\ evFD[c] \in FD
      BY <1>5, <2>1, CurrentEvent
  <2>4. events'[w][evFD'[c]] = c
      BY <1>3, <2>2, <2>3
  <2> QED BY <2>1, <2>2, <2>4
<1> QED BY <1>4, <1>5

\* What epollWait finds in the map is in the map.
LEMMA CollectInHand ==
    ASSUME Core, InHand, NEW w \in Worker, WCollect(w)
    PROVE  InHand'
<1>1. /\ pc[w] = "collect" /\ pc' = [pc EXCEPT ![w] = "handle"]
      /\ todo' = [todo EXCEPT ![w] = Found(w)]
      /\ UNCHANGED <<events, evFD, cur>>
    BY DEF WCollect, Goto, shared
<1>2. ASSUME NEW c \in Found(w) PROVE events[w][evFD[c]] = c
  <2>1. PICK fd \in accepted[w] : c = events[w][fd] /\ c # None
      BY DEF Found
  <2>2. fd \in FD
      BY DEF Core, TypeOK
  <2> QED BY <2>1, <2>2 DEF Core, EventState
<1>3. /\ todo'[w] = Found(w) /\ pc'[w] = "handle"
      /\ \A v \in Worker \ {w} : todo'[v] = todo[v] /\ pc'[v] = pc[v]
    BY <1>1 DEF Core, TypeOK
<1> SUFFICES ASSUME NEW v \in Worker
             PROVE  /\ \A c \in todo'[v] : events[v][evFD[c]] = c
                    /\ pc'[v] \in Handling => /\ cur[v] \notin todo'[v]
                                              /\ events[v][evFD[cur[v]]] = cur[v]
    BY <1>1 DEF InHand
<1>4. CASE v = w
    BY <1>2, <1>3, <1>4 DEF Handling
<1>5. CASE v # w
    BY <1>3, <1>5 DEF InHand
<1> QED BY <1>4, <1>5

\* The next event of the batch is taken from those to do.
LEMMA HandleInHand ==
    ASSUME Core, InHand, NEW w \in Worker, WHandle(w)
    PROVE  InHand'
<1>1. PICK c \in todo[w] : /\ cur' = [cur EXCEPT ![w] = c]
                           /\ todo' = [todo EXCEPT ![w] = @ \ {c}]
    BY DEF WHandle
<1>2. UNCHANGED <<events, evFD>> /\ \A v \in Worker \ {w} : pc'[v] = pc[v]
    BY DEF WHandle, Goto, shared, Core, TypeOK
<1>3. /\ todo'[w] = todo[w] \ {c} /\ cur'[w] = c
      /\ \A v \in Worker \ {w} : todo'[v] = todo[v] /\ cur'[v] = cur[v]
    BY <1>1 DEF Core, TypeOK
<1> SUFFICES ASSUME NEW v \in Worker
             PROVE  /\ \A d \in todo'[v] : events[v][evFD[d]] = d
                    /\ pc'[v] \in Handling => /\ cur'[v] \notin todo'[v]
                                              /\ events[v][evFD[cur'[v]]] = cur'[v]
    BY <1>2 DEF InHand
<1>4. CASE v = w
    BY <1>3, <1>4 DEF InHand
<1>5. CASE v # w
    BY <1>2, <1>3, <1>5 DEF InHand
<1> QED BY <1>4, <1>5

\* Outside the batch nothing is in hand.
LEMMA HandledInHand ==
    ASSUME Core, InHand, NEW w \in Worker, WHandled(w)
    PROVE  InHand'
<1>1. /\ pc'[w] = "clear"
      /\ \A v \in Worker \ {w} : cur'[v] = cur[v] /\ pc'[v] = pc[v]
      /\ UNCHANGED <<events, evFD, todo>>
    BY DEF WHandled, Goto, shared, Core, TypeOK
<1> SUFFICES ASSUME NEW v \in Worker
             PROVE  /\ \A d \in todo[v] : events[v][evFD[d]] = d
                    /\ pc'[v] \in Handling => /\ cur'[v] \notin todo[v]
                                              /\ events[v][evFD[cur'[v]]] = cur'[v]
    BY <1>1 DEF InHand
<1>2. CASE v = w
    BY <1>1, <1>2 DEF InHand, Handling
<1>3. CASE v # w
    BY <1>1, <1>3 DEF InHand
<1> QED BY <1>2, <1>3

\* What WDelErase does, in the terms of the worker's own event.
LEMMA DelEraseFacts ==
    ASSUME Core, NEW w \in Worker, WDelErase(w)
    PROVE  /\ pc[w] = "delerase" /\ pc[w] \in Handling
           /\ \A v \in Worker, f \in FD :
                events'[v][f] = IF v = w /\ f = evFD[cur[w]] THEN None ELSE events[v][f]
           /\ pc'[w] = "return" /\ \A v \in Worker \ {w} : pc'[v] = pc[v]
           /\ UNCHANGED <<kernel, evFD, evWorker, listener, batch, todo, cur, history>>
<1>1. pc[w] = "delerase" /\ pc[w] \in Handling
    BY DEF WDelErase, Handling
<1>2. PICK fd \in FD : fd = evFD[cur[w]] /\ evWorker[cur[w]] = w
    BY <1>1, CurrentEvent
<1>3. /\ events' = [events EXCEPT ![w][fd] = None]
      /\ pc' = [pc EXCEPT ![w] = "return"]
      /\ UNCHANGED <<kernel, evFD, evWorker, listener, batch, todo, cur, history>>
    BY <1>2 DEF WDelErase, Goto
<1>4. /\ \A v \in Worker, f \in FD :
            events'[v][f] = IF v = w /\ f = fd THEN None ELSE events[v][f]
      /\ pc'[w] = "return" /\ \A v \in Worker \ {w} : pc'[v] = pc[v]
    BY <1>3 DEF Core, TypeOK
<1> QED BY <1>1, <1>2, <1>3, <1>4

\* delEvent empties the slot of the event in hand and of no other.
LEMMA DelEraseInHand ==
    ASSUME Core, InHand, NEW w \in Worker, WDelErase(w)
    PROVE  InHand'
<1>1. PICK c \in Client : c = cur[w]
    BY CurrentEvent, DelEraseFacts
<1>2. /\ \A v \in Worker, f \in FD :
            events'[v][f] = IF v = w /\ f = evFD[c] THEN None ELSE events[v][f]
      /\ pc[w] \in Handling
      /\ pc'[w] = "return" /\ \A v \in Worker \ {w} : pc'[v] = pc[v]
      /\ UNCHANGED <<evFD, todo, cur>>
    BY <1>1, DelEraseFacts
<1>3. events[w][evFD[c]] = c /\ c \notin todo[w]
    BY <1>1, <1>2 DEF InHand
<1> SUFFICES ASSUME NEW v \in Worker
             PROVE  /\ \A d \in todo[v] : events'[v][evFD[d]] = d
                    /\ pc'[v] \in Handling => /\ cur[v] \notin todo[v]
                                              /\ events'[v][evFD[cur[v]]] = cur[v]
    BY <1>2 DEF InHand
<1>4. ASSUME NEW d \in todo[v] PROVE events'[v][evFD[d]] = d
  <2>1. d \in Client /\ events[v][evFD[d]] = d
      BY DEF Core, TypeOK, InHand
  <2>2. evFD[d] \in FD
      BY <2>1, HandFacts
  <2>3. ~(v = w /\ evFD[d] = evFD[c])
      BY <1>3, <2>1
  <2> QED BY <1>2, <2>1, <2>2, <2>3
<1>5. ASSUME pc'[v] \in Handling
      PROVE  cur[v] \notin todo[v] /\ events'[v][evFD[cur[v]]] = cur[v]
  <2>1. v # w /\ pc[v] \in Handling
      BY <1>2, <1>5 DEF Handling
  <2>2. evFD[cur[v]] \in FD
      BY <2>1, CurrentEvent
  <2>3. cur[v] \notin todo[v] /\ events[v][evFD[cur[v]]] = cur[v]
      BY <2>1 DEF InHand
  <2> QED BY <1>2, <2>1, <2>2, <2>3
<1> QED BY <1>4, <1>5

\* Every step keeps it as long as the descriptors lead where they should.
LEMMA InHandStep ==
    ASSUME Core, Linked, InHand, [Next]_vars
    PROVE  InHand'
<1>1. CASE Environment
    BY <1>1, InHandKept DEF Environment, Connect, Send, Shutdown, shared, threads
<1>2. CASE ListenStep \/ LWaitFails
  <2>1. CASE LControl
      BY <2>1, LControlSteps, InHandKept DEF shared, threads
  <2>2. CASE ~(LControl \/ LMakeEvent \/ LInsert)
    <3>1. UNCHANGED <<events, evFD, threads>>
        BY <1>2, <2>2 DEF ListenStep, LControl, LAccept, LFcntlFails, LNoWorker, LCtlAdd,
           LRelease, LAddFailed, LCloseClient, shared
    <3> QED BY <3>1, InHandKept DEF threads
  <2> QED BY <2>1, <2>2, ListenInHand
<1>3. ASSUME NEW w \in Worker, WorkerStep(w) \/ WWaitFails(w)
      PROVE  InHand'
  <2>1. CASE WCheck(w) \/ WWait(w) \/ WWaitFails(w) \/ WRecv(w) \/ WEof(w) \/ WOpen(w)
             \/ WReply(w) \/ WReturn(w) \/ WDelCtl(w) \/ WClear(w) \/ WCleared(w)
             \/ WExit(w)
    <3>1. UNCHANGED <<events, evFD, todo, cur>>
        BY <2>1 DEF WCheck, WWait, WWaitFails, WRecv, WEof, WOpen, WReply, WReturn,
           WDelCtl, WClear, WCleared, WExit, shared
    <3>2. ASSUME NEW v \in Worker, pc'[v] \in Handling PROVE pc[v] \in Handling
      <4>0. pc \in [Worker -> WPC]
          BY DEF Core, TypeOK
      <4>1. CASE v # w
        <5>1. pc'[v] = pc[v]
            BY <2>1, <4>0, <4>1 DEF WCheck, WWait, WWaitFails, WRecv, WEof, WOpen,
               WReply, WReturn, WDelCtl, WClear, WCleared, WExit, Goto
        <5> QED BY <3>2, <5>1
      <4>2. CASE v = w
        <5>1. CASE WCheck(w) \/ WWait(w) \/ WWaitFails(w) \/ WCleared(w) \/ WExit(w)
                   \/ WReturn(w)
            BY <3>2, <4>0, <4>2, <5>1 DEF WCheck, WWait, WWaitFails, WCleared, WExit, WReturn,
               Goto, Handling
        <5>2. CASE WRecv(w) \/ WEof(w) \/ WOpen(w) \/ WReply(w) \/ WDelCtl(w)
            BY <4>2, <5>2 DEF WRecv, WEof, WOpen, WReply, WDelCtl, Handling
        <5>3. CASE WClear(w)
            BY <3>2, <5>3 DEF WClear
        <5> QED BY <2>1, <5>1, <5>2, <5>3
      <4> QED BY <4>1, <4>2
    <3> QED BY <3>1, <3>2, InHandKept
  <2> QED BY <1>3, <2>1, CollectInHand, HandleInHand, HandledInHand, DelEraseInHand
          DEF WorkerStep
<1>4. ASSUME NEW t \in Thread, Stop(t) PROVE InHand'
    BY <1>4, InHandKept DEF Stop, threads
<1>5. CASE UNCHANGED vars
    BY <1>5, InHandKept DEF vars, shared, threads
<1> QED BY <1>1, <1>2, <1>3, <1>4, <1>5 DEF Next

\* The additional invariant of the refinement.
Handy == OneDescriptor /\ (strayClose \/ InHand)

\* At the beginning no connection is open and nobody has anything in hand.
LEMMA InitHandy == Init => Handy
BY ReactorAssumption DEF Init, Handy, OneDescriptor, InHand, Handling

\* Every step keeps the additional invariant.
LEMMA HandyStep == Core /\ Descriptors /\ Handy /\ [Next]_vars => Handy'
<1> SUFFICES ASSUME Core, Descriptors, Handy, [Next]_vars PROVE Handy'
    OBVIOUS
<1>1. OneDescriptor'
    BY OneStep DEF Handy
<1>2. strayClose' \/ InHand'
    BY StrayForEver, InHandStep DEF Handy, Descriptors
<1> QED BY <1>1, <1>2 DEF Handy

\* The additional invariant holds throughout.
THEOREM HandyInvariant == Spec => []Handy
BY InitHandy, HandyStep, CoreInvariant, DescriptorInvariant, PTL DEF Spec

\* delEvent does not fail: epoll_ctl(EPOLL_CTL_DEL) finds the descriptor of the
\* event a worker has done with, unless a close has gone astray.  So the slot of a
\* finished connection is always given back, and the error that
\* IOEventHandler::handle would only log does not occur.
THEOREM DeletionSucceeds ==
    Spec => [](~strayClose => \A w \in Worker :
                  pc[w] = "delctl" => evFD[cur[w]] \in interest[w])
<1>1. Core /\ Descriptors /\ Handy =>
         (~strayClose => \A w \in Worker : pc[w] = "delctl" => evFD[cur[w]] \in interest[w])
  <2> SUFFICES ASSUME Core, Linked, InHand, NEW w \in Worker, pc[w] = "delctl"
               PROVE  evFD[cur[w]] \in interest[w]
      BY DEF Descriptors, Handy
  <2>1. pc[w] \in Handling
      BY DEF Handling
  <2>2. /\ cur[w] \in Client /\ evFD[cur[w]] \in FD
        /\ events[w][evFD[cur[w]]] = cur[w]
      BY <2>1, CurrentEvent DEF InHand
  <2>3. evFD[cur[w]] \in Registered(w)
      BY <2>2, ReactorAssumption DEF Registered
  <2>4. lock[w] \in {None, Listener} /\ None # Listener
      BY ReactorAssumption DEF Core, LockState
  <2>5. interest[w] = Registered(w) \/ interest[w] = Registered(w) \cup {lfd}
      BY <2>4 DEF Linked, MapState
  <2> QED BY <2>3, <2>5
<1> QED BY <1>1, CoreInvariant, DescriptorInvariant, HandyInvariant, PTL

-----------------------------------------------------------------------------
(* Stages *)

\* The stages of an open connection.
LEMMA StageCases ==
    ASSUME NEW c \in Client
    PROVE  /\ conn[c] # "open" => StageOf(c) = conn[c]
           /\ conn[c] = "open" /\ InMap(c) /\ InDelEvent(c) => StageOf(c) = "ending"
           /\ conn[c] = "open" /\ InMap(c) /\ ~InDelEvent(c) => StageOf(c) = "serving"
           /\ conn[c] = "open" /\ ~InMap(c) /\ StillHeld(c) => StageOf(c) = "finished"
           /\ conn[c] = "open" /\ ~InMap(c) /\ ~StillHeld(c) => StageOf(c) = "accepted"
BY DEF StageOf

\* What the stage of a connection depends on.
LEMMA StageKept ==
    ASSUME NEW c \in Client, conn'[c] = conn[c], InMap(c)' <=> InMap(c),
           InMap(c) => (InDelEvent(c)' <=> InDelEvent(c)),
           ~InMap(c) => (StillHeld(c)' <=> StillHeld(c))
    PROVE  StageOf(c)' = StageOf(c)
BY DEF StageOf

\* A connection that has no Event yet, or none any more, has no worker.
LEMMA ServerKept ==
    ASSUME NEW c \in Client, StageOf(c)' = StageOf(c),
           StageOf(c) \in Given => evWorker'[c] = evWorker[c]
    PROVE  ServerOf(c)' = ServerOf(c)
BY DEF ServerOf

\* A step that moves no connection, changes no worker and takes or gives no
\* request is a stuttering step of the service.
LEMMA ServiceStutters ==
    ASSUME \A c \in Client : StageOf(c)' = StageOf(c) /\ ServerOf(c)' = ServerOf(c),
           \A w \in Worker : HandOf(w)' = HandOf(w),
           UNCHANGED <<unread, strayClose>>
    PROVE  UNCHANGED Service!service
BY DEF Service!service, Stages, Servers, Hands

\* A step that moves connection c only.
LEMMA StagesMoved ==
    ASSUME NEW c \in Client, NEW to, StageOf(c)' = to,
           \A d \in Client : d # c => StageOf(d)' = StageOf(d)
    PROVE  Stages' = [Stages EXCEPT ![c] = to]
BY DEF Stages

\* A step that changes the worker of connection c only.
LEMMA ServersMoved ==
    ASSUME NEW c \in Client, NEW w, ServerOf(c)' = w,
           \A d \in Client : d # c => ServerOf(d)' = ServerOf(d)
    PROVE  Servers' = [Servers EXCEPT ![c] = w]
BY DEF Servers

\* A step that changes what worker w has in hand only.
LEMMA HandsMoved ==
    ASSUME NEW w \in Worker, NEW c, HandOf(w)' = c,
           \A v \in Worker : v # w => HandOf(v)' = HandOf(v)
    PROVE  Hands' = [Hands EXCEPT ![w] = c]
BY DEF Hands

\* Nothing moves.
LEMMA AllKept ==
    /\ (\A c \in Client : StageOf(c)' = StageOf(c)) => UNCHANGED Stages
    /\ (\A c \in Client : ServerOf(c)' = ServerOf(c)) => UNCHANGED Servers
    /\ (\A w \in Worker : HandOf(w)' = HandOf(w)) => UNCHANGED Hands
BY DEF Stages, Servers, Hands

\* The state in which a step begins whose effect on the service is at issue.
Sound == Core /\ Linked /\ OneDescriptor /\ InHand /\ ~strayClose

\* A connection with a live Event is open.
LEMMA LiveIsOpen ==
    ASSUME Sound, NEW c \in Client, LiveEvent(c)
    PROVE  conn[c] = "open"
<1>1. evFD[c] \in FD /\ fdtab[evFD[c]] = c
    BY LiveNumber DEF Sound
<1> QED BY <1>1 DEF Sound, OneDescriptor

\* A worker in delEvent for c is the worker of c.
LEMMA DelEventOf ==
    ASSUME Core, NEW c \in Client, NEW w \in Worker, evWorker[c] = w
    PROVE  InDelEvent(c) <=> pc[w] \in {"delctl", "delerase"} /\ cur[w] = c
<1>1. ASSUME NEW v \in Worker, pc[v] \in {"delctl", "delerase"}, cur[v] = c
      PROVE  v = w
    BY <1>1, CurrentEvent DEF Handling
<1> QED BY <1>1 DEF InDelEvent

\* The event a worker has in hand is that of an open connection in its map, which
\* is being served until its worker is in delEvent.
LEMMA HandStage ==
    ASSUME Sound, NEW w \in Worker, NEW c \in Client,
           c \in todo[w] \/ (pc[w] \in Handling /\ cur[w] = c)
    PROVE  /\ InMap(c) /\ conn[c] = "open" /\ evWorker[c] = w /\ c \in batch[w]
           /\ fdtab[evFD[c]] = c /\ evFD[c] \in FD /\ events[w][evFD[c]] = c
           /\ StageOf(c) = IF pc[w] \in {"delctl", "delerase"} /\ cur[w] = c
                           THEN "ending" ELSE "serving"
           /\ ServerOf(c) = w
<1>1. c \in batch[w] /\ evFD[c] \in FD /\ evWorker[c] = w
    BY HandFacts DEF Sound
<1>2. events[w][evFD[c]] = c
    BY DEF Sound, InHand
<1>3. InMap(c) /\ LiveEvent(c)
    BY <1>1, <1>2 DEF InMap, LiveEvent
<1>4. conn[c] = "open" /\ fdtab[evFD[c]] = c
    BY <1>3, LiveIsOpen, LiveNumber DEF Sound
<1>5. InDelEvent(c) <=> pc[w] \in {"delctl", "delerase"} /\ cur[w] = c
    BY <1>1, DelEventOf DEF Sound
<1>6. StageOf(c) = IF pc[w] \in {"delctl", "delerase"} /\ cur[w] = c
                   THEN "ending" ELSE "serving"
    BY <1>3, <1>4, <1>5, StageCases
<1>7. StageOf(c) \in Given
    BY <1>6 DEF Given
<1> QED BY <1>1, <1>2, <1>3, <1>4, <1>6, <1>7 DEF ServerOf

\* The connection the listener has in hand without a registered Event is accepted.
LEMMA AloneStage ==
    ASSUME Core, lpc \in Alone
    PROVE  /\ lconn \in Client /\ lfd \in FD /\ ~InMap(lconn) /\ ~StillHeld(lconn)
           /\ ~InDelEvent(lconn)
           /\ StageOf(lconn) \notin Given
           /\ conn[lconn] = "open" => StageOf(lconn) = "accepted"
<1>1. /\ lconn \in Client /\ lfd \in FD /\ ~InMap(lconn) /\ Accepted(lconn)
      /\ \A w \in Worker : lconn \notin batch[w]
      /\ lpc # "release"
    BY DEF Core, ListenerState, Alone, Raw, Made, Free
<1>2. ~StillHeld(lconn)
    BY <1>1 DEF StillHeld
<1>3. ~InDelEvent(lconn)
    BY <1>1, CurrentEvent DEF InDelEvent, Handling
<1>4. StageOf(lconn) \in {"accepted", "closed"} /\ (conn[lconn] = "open" => StageOf(lconn) = "accepted")
    BY <1>1, <1>2, StageCases DEF Accepted
<1> QED BY <1>1, <1>2, <1>3, <1>4 DEF Given

-----------------------------------------------------------------------------
(* Every step of the system is a step of the service, or none *)

\* What has to be shown of every step.
Simulated == UNCHANGED Service!service \/ (Service!Step /\ UNCHANGED strayClose)

\* A thread that stays where it is, as far as the service can see.
LEMMA ThreadsKept ==
    ASSUME UNCHANGED cur,
           \A w \in Worker : /\ pc[w] \in Handling <=> pc'[w] \in Handling
                             /\ pc[w] \in {"delctl", "delerase"} <=> pc'[w] \in {"delctl", "delerase"}
    PROVE  /\ \A w \in Worker : HandOf(w)' = HandOf(w)
           /\ \A c \in Client : InDelEvent(c)' <=> InDelEvent(c)
BY DEF HandOf, InDelEvent

\* The map, the batches and the listener's reference as the service sees them.
LEMMA HoldersKept ==
    /\ UNCHANGED events => \A c \in Client : InMap(c)' <=> InMap(c)
    /\ UNCHANGED <<batch, lconn>> /\ lpc # "release" /\ lpc' # "release" =>
          \A c \in Client : StillHeld(c)' <=> StillHeld(c)
    /\ UNCHANGED <<batch, lconn, lpc>> => \A c \in Client : StillHeld(c)' <=> StillHeld(c)
BY DEF InMap, StillHeld

\* A step of which the service sees nothing.
LEMMA NothingSeen ==
    ASSUME UNCHANGED <<conn, events, evWorker, batch, unread, strayClose, lconn, cur>>,
           lpc' = lpc \/ (lpc # "release" /\ lpc' # "release"),
           \A w \in Worker : /\ pc[w] \in Handling <=> pc'[w] \in Handling
                             /\ pc[w] \in {"delctl", "delerase"} <=> pc'[w] \in {"delctl", "delerase"}
    PROVE  Simulated
<1>1. \A c \in Client : StageOf(c)' = StageOf(c)
  <2> SUFFICES ASSUME NEW c \in Client PROVE StageOf(c)' = StageOf(c)
      OBVIOUS
  <2>1. (InMap(c)' <=> InMap(c)) /\ (StillHeld(c)' <=> StillHeld(c))
      BY HoldersKept
  <2>2. InDelEvent(c)' <=> InDelEvent(c)
      BY ThreadsKept
  <2> QED BY <2>1, <2>2, StageKept
<1>2. \A c \in Client : ServerOf(c)' = ServerOf(c)
    BY <1>1, ServerKept
<1>3. \A w \in Worker : HandOf(w)' = HandOf(w)
    BY ThreadsKept
<1> QED BY <1>1, <1>2, <1>3, ServiceStutters DEF Simulated

\* A client connects.
LEMMA ConnectService ==
    ASSUME Sound, NEW c \in Client, Connect(c)
    PROVE  Simulated
<1>1. /\ conn[c] = "idle" /\ \A d \in Client : conn'[d] = IF d = c THEN "backlog" ELSE conn[d]
      /\ UNCHANGED <<unread, shared, listener, threads, history>>
    BY DEF Connect, Sound, Core, TypeOK
<1>2. /\ \A d \in Client : InMap(d)' <=> InMap(d)
      /\ \A d \in Client : StillHeld(d)' <=> StillHeld(d)
      /\ \A d \in Client : InDelEvent(d)' <=> InDelEvent(d)
      /\ \A w \in Worker : HandOf(w)' = HandOf(w)
    BY <1>1, HoldersKept, ThreadsKept DEF shared, listener, threads
<1>3. \A d \in Client : d # c => StageOf(d)' = StageOf(d)
    BY <1>1, <1>2, StageKept
<1>4. StageOf(c) = "idle" /\ StageOf(c)' = "backlog"
    BY <1>1 DEF StageOf
<1>5. Stages' = [Stages EXCEPT ![c] = "backlog"] /\ Stages[c] = "idle"
    BY <1>3, <1>4, StagesMoved DEF Stages
<1>6. \A d \in Client : ServerOf(d)' = ServerOf(d)
  <2>1. ServerOf(c)' = ServerOf(c)
      BY <1>4 DEF ServerOf, Given
  <2> QED BY <1>1, <1>3, <2>1, ServerKept DEF shared
<1>7. Service!Connect(c)
    BY <1>1, <1>2, <1>5, <1>6, AllKept DEF Service!Connect, Service!Move
<1> QED BY <1>1, <1>7 DEF Simulated, Service!Step, history

\* A client sends a request, or shuts down its side.
LEMMA ArriveService ==
    ASSUME Sound, NEW c \in Client, Send(c) \/ Shutdown(c)
    PROVE  Simulated
<1>1. UNCHANGED <<conn, shared, listener, threads, history>> /\ conn[c] \in {"backlog", "open"}
    BY DEF Send, Shutdown
<1>2. /\ \A d \in Client : StageOf(d)' = StageOf(d)
      /\ \A w \in Worker : HandOf(w)' = HandOf(w)
    BY <1>1, HoldersKept, ThreadsKept, StageKept DEF shared, listener, threads
<1>3. \A d \in Client : ServerOf(d)' = ServerOf(d)
    BY <1>1, <1>2, ServerKept DEF shared
<1>4. CASE Shutdown(c)
    BY <1>1, <1>2, <1>3, <1>4, ServiceStutters DEF Shutdown, Simulated, history
<1>5. CASE Send(c)
  <2>1. unread' = [unread EXCEPT ![c] = @ + 1]
      BY <1>5 DEF Send
  <2>2. StageOf(c) \notin {"idle", "closed"}
      BY <1>1, StageCases
  <2>3. Service!Send(c)
      BY <1>2, <1>3, <2>1, <2>2, AllKept DEF Service!Send, Stages
  <2> QED BY <1>1, <2>3 DEF Simulated, Service!Step, history
<1> QED BY <1>4, <1>5

\* Steps of the listener's control, the making of the Event and its registration.
LEMMA ListenerUnseen ==
    ASSUME Sound, LControl \/ LMakeEvent \/ LCtlAdd
    PROVE  Simulated
<1>1. CASE LControl
    BY <1>1, LControlSteps, NothingSeen DEF Sound, shared, threads
<1>2. CASE LCtlAdd
    BY <1>2, NothingSeen DEF LCtlAdd, threads, history
<1>3. CASE LMakeEvent
  <2>1. /\ lpc = "event" /\ lpc' = "addRoom"
        /\ evWorker' = [evWorker EXCEPT ![lconn] = order[idx]]
        /\ UNCHANGED <<kernel, events, lconn, threads, history>>
      BY <1>3 DEF LMakeEvent
  <2>2. \A c \in Client : StageOf(c)' = StageOf(c)
      BY <2>1, HoldersKept, ThreadsKept, StageKept DEF kernel, threads
  <2>3. lconn \in Client /\ StageOf(lconn) \notin Given
      BY <2>1, AloneStage DEF Sound, Alone, Raw
  <2>4. \A c \in Client : c # lconn => evWorker'[c] = evWorker[c]
      BY <2>1, <2>3 DEF Sound, Core, TypeOK
  <2>5. \A c \in Client : ServerOf(c)' = ServerOf(c)
      BY <2>2, <2>3, <2>4, ServerKept
  <2>6. \A w \in Worker : HandOf(w)' = HandOf(w)
      BY <2>1, ThreadsKept DEF threads
  <2> QED BY <2>1, <2>2, <2>5, <2>6, ServiceStutters DEF Simulated, kernel, history
<1> QED BY <1>1, <1>2, <1>3

\* accept takes a connection from the backlog, and the listener has no other.
LEMMA AcceptService ==
    ASSUME Sound, LAccept
    PROVE  Simulated
<1>1. PICK c \in Client : conn[c] = "backlog" /\ conn' = [conn EXCEPT ![c] = "open"]
    BY DEF LAccept
<1>2. /\ lpc = "accept" /\ lpc' = "fcntl"
      /\ UNCHANGED <<unread, shared, threads, history>>
    BY DEF LAccept
<1>3. \A d \in Client : conn'[d] = IF d = c THEN "open" ELSE conn[d]
    BY <1>1 DEF Sound, Core, TypeOK
<1>4. \A d \in Client : /\ InMap(d)' <=> InMap(d)
                        /\ InDelEvent(d)' <=> InDelEvent(d)
                        /\ StillHeld(d)' <=> StillHeld(d)
  <2>1. \A d \in Client : StillHeld(d)' <=> StillHeld(d)
      BY <1>2 DEF StillHeld, threads
  <2> QED BY <1>2, <2>1, HoldersKept, ThreadsKept DEF shared, threads
<1>5. ~InMap(c) /\ ~StillHeld(c)
  <2>1. ~Accepted(c)
      BY <1>1 DEF Accepted
  <2>2. ~InMap(c)
      BY <2>1, ReactorAssumption DEF InMap, Sound, Core, EventState
  <2>3. ~StillHeld(c)
      BY <1>2, <2>1 DEF StillHeld, Sound, Core, EventState
  <2> QED BY <2>2, <2>3
<1>6. \A d \in Client : d # c => StageOf(d)' = StageOf(d)
    BY <1>3, <1>4, StageKept
<1>7. StageOf(c) = "backlog" /\ StageOf(c)' = "accepted"
    BY <1>1, <1>3, <1>4, <1>5 DEF StageOf
<1>8. ASSUME NEW d \in Client PROVE StageOf(d) # "accepted"
  <2> SUFFICES ASSUME StageOf(d) = "accepted" PROVE FALSE
      OBVIOUS
  <2>1. conn[d] = "open" /\ ~InMap(d) /\ ~StillHeld(d)
    <3>1. conn[d] \in {"idle", "backlog", "open", "closed"}
        BY DEF Sound, Core, TypeOK
    <3> QED BY <3>1, StageCases
  <2>2. PICK fd \in FD : fdtab[fd] = d
      BY <2>1 DEF Sound, OneDescriptor
  <2>3. LiveEvent(d)
      BY <1>2, <2>2 DEF Sound, Linked, Ownership, Raw
  <2> QED BY <1>2, <2>1, <2>3 DEF LiveEvent, ListenerHolds, StillHeld
<1>9. \A d \in Client : ServerOf(d)' = ServerOf(d)
  <2>1. ServerOf(c)' = ServerOf(c)
      BY <1>7 DEF ServerOf, Given
  <2> QED BY <1>2, <1>6, <2>1, ServerKept DEF shared
<1>10. \A w \in Worker : HandOf(w)' = HandOf(w)
    BY <1>2, ThreadsKept DEF threads
<1>11. Stages' = [Stages EXCEPT ![c] = "accepted"]
    BY <1>6, <1>7, StagesMoved
<1>12. Stages[c] = "backlog" /\ \A d \in Client : Stages[d] # "accepted"
    BY <1>7, <1>8 DEF Stages
<1>13. Service!Accept(c)
    BY <1>2, <1>9, <1>10, <1>11, <1>12, AllKept DEF Service!Accept, Service!Move
<1> QED BY <1>2, <1>13 DEF Simulated, Service!Step, history

\* What a close of a connection's own descriptor does to the stages.
LEMMA CloseStages ==
    ASSUME Sound, NEW fd \in FD, NEW c \in Client, Close(fd, c), fdtab[fd] = c,
           \A d \in Client : d # c => /\ InMap(d)' <=> InMap(d)
                                      /\ InMap(d) => (InDelEvent(d)' <=> InDelEvent(d))
                                      /\ ~InMap(d) => (StillHeld(d)' <=> StillHeld(d))
    PROVE  /\ conn[c] = "open" /\ Stages' = [Stages EXCEPT ![c] = "closed"]
           /\ StageOf(c)' = "closed" /\ ServerOf(c)' = None
           /\ \A d \in Client : d # c => StageOf(d)' = StageOf(d)
           /\ UNCHANGED strayClose
<1>1. conn[c] = "open" /\ UNCHANGED strayClose
    BY DEF Close, Sound, Core, TypeOK, OneDescriptor
<1>2. \A d \in Client : conn'[d] = IF d = c THEN "closed" ELSE conn[d]
    BY DEF Close, Sound, Core, TypeOK
<1>3. \A d \in Client : d # c => StageOf(d)' = StageOf(d)
    BY <1>2, StageKept
<1>4. StageOf(c)' = "closed"
    BY <1>2 DEF StageOf
<1>5. ServerOf(c)' = None
    BY <1>4 DEF ServerOf, Given
<1> QED BY <1>1, <1>3, <1>4, <1>5, StagesMoved

\* The listener refuses the connection it has in hand.
LEMMA RefuseService ==
    ASSUME Sound, lpc \in Alone, lpc' # "release", Close(lfd, lconn), fdtab[lfd] = lconn,
           \A d \in Client : d # lconn => evWorker'[d] = evWorker[d],
           UNCHANGED <<unread, events, lconn, threads>>
    PROVE  Simulated
<1>1. /\ lconn \in Client /\ lfd \in FD /\ lpc # "release"
      /\ StageOf(lconn) \notin Given /\ (conn[lconn] = "open" => StageOf(lconn) = "accepted")
    BY AloneStage DEF Sound, Alone, Raw, Made
<1>2. /\ \A d \in Client : /\ InMap(d)' <=> InMap(d)
                           /\ InDelEvent(d)' <=> InDelEvent(d)
                           /\ StillHeld(d)' <=> StillHeld(d)
      /\ \A w \in Worker : HandOf(w)' = HandOf(w)
    BY <1>1, HoldersKept, ThreadsKept DEF threads
<1>3. /\ conn[lconn] = "open" /\ Stages' = [Stages EXCEPT ![lconn] = "closed"]
      /\ ServerOf(lconn)' = None
      /\ \A d \in Client : d # lconn => StageOf(d)' = StageOf(d)
      /\ UNCHANGED strayClose
    BY <1>1, <1>2, CloseStages
<1>4. ServerOf(lconn) = None /\ Stages[lconn] = "accepted"
    BY <1>1, <1>3 DEF ServerOf, Stages
<1>5. \A d \in Client : ServerOf(d)' = ServerOf(d)
    BY <1>3, <1>4, ServerKept
<1>6. Service!Refuse(lconn)
    BY <1>2, <1>3, <1>4, <1>5, AllKept DEF Service!Refuse, Service!Move
<1> QED BY <1>1, <1>3, <1>6 DEF Simulated, Service!Step

\* The listener closes the connection it has in hand: before there is an Event,
\* through the Event that could not be added, or once more after that.
LEMMA GiveUpService ==
    ASSUME Sound, ~strayClose', LFcntlFails \/ LNoWorker \/ LAddFailed \/ LCloseClient
    PROVE  Simulated
<1>1. /\ lpc \in {"fcntl", "running", "failed", "close"} /\ lpc' \in {"accept", "close"}
      /\ UNCHANGED <<unread, events, lconn, threads>>
    BY DEF LFcntlFails, LNoWorker, LAddFailed, LCloseClient, shared
<1>2. lpc \in Alone /\ lpc # "release" /\ lpc' # "release"
    BY <1>1 DEF Alone, Raw, Made
<1>3. lconn \in Client /\ lfd \in FD /\ (lpc = "failed" => evFD[lconn] = lfd)
    BY <1>1 DEF Sound, Core, ListenerState, Made, Free
<1>4. Close(lfd, lconn)
    BY <1>3 DEF LFcntlFails, LNoWorker, LAddFailed, LCloseClient, DestroyEvent
<1>5. \A d \in Client : d # lconn => evWorker'[d] = evWorker[d]
  <2>1. UNCHANGED evWorker \/ evWorker' = [evWorker EXCEPT ![lconn] = None]
      BY DEF LFcntlFails, LNoWorker, LAddFailed, LCloseClient, DestroyEvent, shared
  <2> QED BY <1>3, <2>1 DEF Sound, Core, TypeOK
<1>6. fdtab[lfd] \in {lconn, None}
    BY <1>4 DEF Close
<1>7. CASE fdtab[lfd] = lconn
    BY <1>1, <1>2, <1>4, <1>5, <1>7, RefuseService
<1>8. CASE fdtab[lfd] = None
  <2>1. lpc = "close"
    <3>1. lpc # "failed"
      <4>1. lpc = "failed" => LiveEvent(lconn)
          BY DEF LiveEvent, ListenerHolds
      <4> QED BY <1>3, <1>8, <4>1, LiveNumber, ReactorAssumption DEF Sound
    <3>2. lpc \notin Raw
        BY <1>3, <1>8, ReactorAssumption DEF Sound, Linked, Ownership
    <3> QED BY <1>1, <3>1, <3>2 DEF Raw
  <2>2. UNCHANGED <<conn, strayClose, evWorker>>
    <3>1. UNCHANGED <<conn, strayClose>>
        BY <1>4, <1>8, ReactorAssumption DEF Close, Sound, Core, TypeOK
    <3>2. UNCHANGED evWorker
        BY <2>1 DEF LFcntlFails, LNoWorker, LAddFailed, LCloseClient, shared
    <3> QED BY <3>1, <3>2
  <2> QED BY <1>1, <1>2, <2>2, NothingSeen DEF threads
<1> QED BY <1>6, <1>7, <1>8

\* The cardinality the instance of ConnectionService uses is the usual one.
LEMMA SameCardinality ==
    ASSUME NEW S
    PROVE  Service!Cardinality(S) = Cardinality(S)
BY DEF Cardinality, Service!Cardinality

\* The connections a worker serves are not more than the entries of its map.
LEMMA RoomService ==
    ASSUME Sound, NEW v \in Worker, HasRoom(v)
    PROVE  Service!Cardinality(Service!Watched(v)) < MaxFDS
<1> DEFINE W == Service!Watched(v)
           f == [c \in W |-> evFD[c]]
<1>1. ASSUME NEW c \in W
      PROVE  c \in Client /\ evFD[c] \in Registered(v) /\ events[v][evFD[c]] = c
  <2>1. c \in Client /\ StageOf(c) \in {"serving", "ending"} /\ ServerOf(c) = v
      BY DEF Service!Watched, Stages, Servers
  <2>2. InMap(c) /\ evWorker[c] = v
    <3>1. conn[c] \in {"idle", "backlog", "open", "closed"}
        BY <2>1 DEF Sound, Core, TypeOK
    <3>2. InMap(c)
        BY <2>1, <3>1, StageCases
    <3>3. evWorker[c] = v
        BY <2>1 DEF ServerOf, Given
    <3> QED BY <3>2, <3>3
  <2>3. PICK u \in Worker, fd \in FD : events[u][fd] = c
      BY <2>2 DEF InMap
  <2>4. u = v /\ evFD[c] = fd
      BY <2>1, <2>2, <2>3, ReactorAssumption DEF Sound, Core, EventState
  <2>5. c # None
      BY <2>1, ReactorAssumption
  <2> QED BY <2>1, <2>3, <2>4, <2>5 DEF Registered
<1>2. f \in Injection(W, Registered(v))
  <2>1. f \in [W -> Registered(v)]
      BY <1>1
  <2>2. \A a, b \in W : f[a] = f[b] => a = b
      BY <1>1
  <2> QED BY <2>1, <2>2 DEF Injection, IsInjective
<1>3. IsFiniteSet(Registered(v)) /\ activeFDS(v) = Cardinality(Registered(v))
    BY RegisteredFinite DEF Sound, Core
<1>4. IsFiniteSet(W) /\ Cardinality(W) <= Cardinality(Registered(v))
    BY <1>2, <1>3, FS_Injection
<1>5. Cardinality(W) \in Nat /\ Cardinality(Registered(v)) \in Nat /\ MaxFDS \in Nat
    BY <1>3, <1>4, FS_CardinalityType, ReactorAssumption
<1>6. Cardinality(Registered(v)) < MaxFDS
    BY <1>3 DEF HasRoom
<1>7. Service!Cardinality(W) = Cardinality(W)
    BY SameCardinality
<1> QED BY <1>4, <1>5, <1>6, <1>7

\* The Event enters the map of a worker that has room: the connection is its.
LEMMA InsertService ==
    ASSUME Sound, LInsert
    PROVE  Simulated
<1>1. PICK v \in Worker : v = order[idx]
    BY CurrentWorker DEF LInsert, Sound, Core, Made
<1>2. /\ lpc = "insert" /\ lpc' = "release"
      /\ events' = [events EXCEPT ![v][lfd] = lconn]
      /\ UNCHANGED <<kernel, evWorker, lconn, threads, strayClose>>
    BY <1>1 DEF LInsert
<1>3. PICK c \in Client : c = lconn
    BY <1>2 DEF Sound, Core, ListenerState, Free
<1>4. /\ lfd \in FD /\ ~InMap(c) /\ ~InDelEvent(c) /\ LiveEvent(c)
      /\ evWorker[c] = v
    BY <1>1, <1>2, <1>3, AloneStage DEF Sound, Core, ListenerState, Made, Alone, Free, LiveEvent,
       ListenerHolds
<1>5. conn[c] = "open" /\ StageOf(c) = "accepted"
    BY <1>2, <1>3, <1>4, LiveIsOpen, AloneStage DEF Sound, Alone, Made
<1>6. \A w \in Worker, fd \in FD :
         events'[w][fd] = IF w = v /\ fd = lfd THEN c ELSE events[w][fd]
    BY <1>2, <1>3, <1>4 DEF Sound, Core, TypeOK
<1>7. events[v][lfd] = None
    BY <1>2, SlotFree DEF Sound
<1>8. \A d \in Client : InDelEvent(d)' <=> InDelEvent(d)
    BY <1>2, ThreadsKept DEF threads
<1>9. ASSUME NEW d \in Client, d # c PROVE StageOf(d)' = StageOf(d)
  <2>1. InMap(d)' <=> InMap(d)
      BY <1>6, <1>7, <1>9, ReactorAssumption DEF InMap
  <2>2. StillHeld(d)' <=> StillHeld(d)
      BY <1>2, <1>3, <1>9 DEF StillHeld, threads
  <2> QED BY <1>2, <1>8, <2>1, <2>2, StageKept DEF kernel
<1>10. StageOf(c)' = "serving"
  <2>1. InMap(c)'
      BY <1>4, <1>6 DEF InMap
  <2> QED BY <1>2, <1>4, <1>5, <1>8, <2>1 DEF StageOf, kernel
<1>11. ServerOf(c)' = v
    BY <1>2, <1>4, <1>10 DEF ServerOf, Given
<1>12. \A d \in Client : d # c => ServerOf(d)' = ServerOf(d)
    BY <1>2, <1>9, ServerKept
<1>13. \A w \in Worker : HandOf(w)' = HandOf(w)
    BY <1>2, ThreadsKept DEF threads
<1>14. Service!Cardinality(Service!Watched(v)) < MaxFDS
    BY <1>1, <1>2, RoomService DEF Sound, Core, RoomKept
<1>15. Stages' = [Stages EXCEPT ![c] = "serving"] /\ Stages[c] = "accepted"
    BY <1>5, <1>9, <1>10, StagesMoved DEF Stages
<1>16. Servers' = [Servers EXCEPT ![c] = v]
    BY <1>11, <1>12, ServersMoved
<1>17. UNCHANGED <<unread, Hands>>
    BY <1>2, <1>13, AllKept DEF kernel
<1>18. Service!Assign(c, v)
    BY ONLY <1>14, <1>15, <1>16, <1>17 DEF Service!Assign, Service!Move
<1> QED BY <1>2, <1>18 DEF Simulated, Service!Step

\* The last reference to the Event of a finished connection goes.
LEMMA CloseService ==
    ASSUME Sound, NEW c \in Client, LiveEvent(c), DestroyEvent(c), ~InMap(c), StillHeld(c),
           \A d \in Client : d # c => /\ InMap(d)' <=> InMap(d)
                                      /\ StillHeld(d)' <=> StillHeld(d),
           UNCHANGED <<unread, pc, cur>>
    PROVE  Simulated
<1>1. evFD[c] \in FD /\ fdtab[evFD[c]] = c /\ Close(evFD[c], c)
    BY LiveNumber DEF DestroyEvent, Sound
<1>2. /\ \A w \in Worker : HandOf(w)' = HandOf(w)
      /\ \A d \in Client : InDelEvent(d)' <=> InDelEvent(d)
    BY ThreadsKept
<1>3. PICK fd \in FD : fd = evFD[c]
    BY <1>1
<1>4. Close(fd, c) /\ fdtab[fd] = c
    BY <1>1, <1>3
<1>5. /\ conn[c] = "open" /\ Stages' = [Stages EXCEPT ![c] = "closed"]
      /\ ServerOf(c)' = None
      /\ \A d \in Client : d # c => StageOf(d)' = StageOf(d)
      /\ UNCHANGED strayClose
    BY <1>2, <1>4, CloseStages
<1>6. Stages[c] = "finished"
    BY <1>5, StageCases DEF Stages
<1>7. \A d \in Client : d # c => evWorker'[d] = evWorker[d]
    BY DEF DestroyEvent, Sound, Core, TypeOK
<1>8. \A d \in Client : d # c => ServerOf(d)' = ServerOf(d)
    BY <1>5, <1>7, ServerKept
<1>9. Servers' = [Servers EXCEPT ![c] = None]
    BY <1>5, <1>8, ServersMoved
<1>10. Service!Close(c)
    BY <1>2, <1>5, <1>6, <1>9, AllKept DEF Service!Close, Service!Move
<1> QED BY <1>5, <1>10 DEF Simulated, Service!Step

\* The listener's reference goes: nobody sees it unless it was the last one.
LEMMA ReleaseService ==
    ASSUME Sound, LRelease
    PROVE  Simulated
<1>1. /\ lpc = "release" /\ lpc' = "accept"
      /\ UNCHANGED <<unread, events, lconn, threads>>
    BY DEF LRelease
<1>2. PICK c \in Client : c = lconn
    BY <1>1 DEF Sound, Core, ListenerState, Free
<1>3. LiveEvent(c) /\ StillHeld(c)
    BY <1>1, <1>2 DEF LiveEvent, ListenerHolds, StillHeld
<1>4. /\ \A d \in Client : InMap(d)' <=> InMap(d)
      /\ \A d \in Client : d # c => (StillHeld(d)' <=> StillHeld(d))
    BY <1>1, <1>2 DEF InMap, StillHeld, threads
<1>5. CASE InMap(c) \/ \E w \in Worker : c \in batch[w]
  <2>1. UNCHANGED <<conn, strayClose, evWorker>>
      BY <1>2, <1>5 DEF LRelease, KeepEvent, NoClose
  <2>2. ~InMap(c) => StillHeld(c)'
      BY <1>1, <1>5 DEF StillHeld, threads
  <2>3. /\ \A w \in Worker : HandOf(w)' = HandOf(w)
        /\ \A d \in Client : InDelEvent(d)' <=> InDelEvent(d)
      BY <1>1, ThreadsKept DEF threads
  <2>4. \A d \in Client : StageOf(d)' = StageOf(d)
      BY <1>3, <1>4, <2>1, <2>2, <2>3, StageKept
  <2>5. \A d \in Client : ServerOf(d)' = ServerOf(d)
      BY <2>1, <2>4, ServerKept
  <2> QED BY <1>1, <2>1, <2>3, <2>4, <2>5, ServiceStutters DEF Simulated
<1>6. CASE ~(InMap(c) \/ \E w \in Worker : c \in batch[w])
  <2>1. DestroyEvent(c)
      BY <1>2, <1>6 DEF LRelease
  <2> QED BY <1>1, <1>3, <1>4, <1>6, <2>1, CloseService DEF threads
<1> QED BY <1>5, <1>6

\* A step of a worker's control, of which the service sees nothing.
LEMMA WorkerUnseen ==
    ASSUME Sound, NEW w \in Worker,
           WCheck(w) \/ WWait(w) \/ WWaitFails(w) \/ WOpen(w) \/ WCleared(w) \/ WExit(w)
    PROVE  Simulated
<1>1. /\ UNCHANGED <<conn, events, evWorker, batch, unread, strayClose, listener, cur>>
      /\ pc \in [Worker -> WPC]
    BY DEF WCheck, WWait, WWaitFails, WOpen, WCleared, WExit, kernel, shared, history, Sound,
       Core, TypeOK
<1>2. ASSUME NEW v \in Worker
      PROVE  /\ pc[v] \in Handling <=> pc'[v] \in Handling
             /\ pc[v] \in {"delctl", "delerase"} <=> pc'[v] \in {"delctl", "delerase"}
    BY <1>1 DEF WCheck, WWait, WWaitFails, WOpen, WCleared, WExit, Goto, Handling
<1> QED BY <1>1, <1>2, NothingSeen DEF listener

\* Worker::stop, which the service does not see either.
LEMMA StopUnseen ==
    ASSUME NEW t \in Thread, Stop(t)
    PROVE  Simulated
BY NothingSeen DEF Stop, kernel, listener, threads, history

\* The last response is dropped; a file is closed, never a connection.
LEMMA ReplyService ==
    ASSUME Sound, NEW w \in Worker, WReply(w) \/ WReturn(w)
    PROVE  Simulated
<1>1. /\ \/ pc[w] = "reply" /\ pc' = [pc EXCEPT ![w] = "recv"]
         \/ pc[w] = "return" /\ pc' = [pc EXCEPT ![w] = "handle"]
      /\ DropResponse(w)
      /\ UNCHANGED <<unread, shared, listener, batch, cur>>
    BY DEF WReply, WReturn, Goto
<1>2. UNCHANGED <<conn, strayClose>>
  <2>1. CASE wfile[w] = None
      BY <1>1, <2>1 DEF DropResponse, NoClose
  <2>2. CASE wfile[w] # None
    <3>1. fdtab[wfile[w]] = w /\ w \notin Client
        BY <2>2, ReactorAssumption DEF Sound, Linked, Ownership, FilesOwned
    <3>2. Close(wfile[w], w)
        BY <1>1, <2>2 DEF DropResponse
    <3> QED BY <3>1, <3>2 DEF Close, Sound, Core, TypeOK
  <2> QED BY <2>1, <2>2
<1>3. ASSUME NEW v \in Worker
      PROVE  /\ pc[v] \in Handling <=> pc'[v] \in Handling
             /\ pc[v] \in {"delctl", "delerase"} <=> pc'[v] \in {"delctl", "delerase"}
    BY <1>1 DEF Handling, Sound, Core, TypeOK
<1> QED BY <1>1, <1>2, <1>3, NothingSeen DEF shared, listener

\* The events found in the map are still in the map.
LEMMA CollectService ==
    ASSUME Sound, NEW w \in Worker, WCollect(w)
    PROVE  Simulated
<1>1. /\ pc[w] = "collect" /\ pc' = [pc EXCEPT ![w] = "handle"]
      /\ batch' = [batch EXCEPT ![w] = Found(w)]
      /\ UNCHANGED <<kernel, shared, listener, cur, history>>
    BY DEF WCollect, Goto
<1>2. batch[w] = {} /\ \A v \in Worker : batch'[v] = IF v = w THEN Found(w) ELSE batch[v]
    BY <1>1 DEF Sound, Core, TypeOK, ThreadState, Handling
<1>3. ASSUME NEW v \in Worker
      PROVE  /\ pc[v] \in Handling <=> pc'[v] \in Handling
             /\ pc[v] \in {"delctl", "delerase"} <=> pc'[v] \in {"delctl", "delerase"}
    BY <1>1 DEF Handling, Sound, Core, TypeOK
<1>4. /\ \A v \in Worker : HandOf(v)' = HandOf(v)
      /\ \A c \in Client : InDelEvent(c)' <=> InDelEvent(c)
    BY <1>1, <1>3, ThreadsKept
<1>5. \A c \in Client : InMap(c)' <=> InMap(c)
    BY <1>1, HoldersKept DEF shared
<1>6. ASSUME NEW c \in Client, ~InMap(c) PROVE StillHeld(c)' <=> StillHeld(c)
  <2>1. c \notin Found(w)
    <3>1. accepted[w] \subseteq FD
        BY DEF Sound, Core, TypeOK
    <3> QED BY <1>6, <3>1 DEF Found, InMap
  <2> QED BY <1>1, <1>2, <2>1 DEF StillHeld, listener
<1>7. \A c \in Client : StageOf(c)' = StageOf(c)
    BY <1>1, <1>4, <1>5, <1>6, StageKept DEF kernel
<1>8. \A c \in Client : ServerOf(c)' = ServerOf(c)
    BY <1>1, <1>7, ServerKept DEF shared
<1> QED BY <1>1, <1>4, <1>7, <1>8, ServiceStutters DEF Simulated, kernel, history

\* A worker takes up one of its connections.
LEMMA HandleService ==
    ASSUME Sound, NEW w \in Worker, WHandle(w)
    PROVE  Simulated
<1>1. PICK c \in todo[w] : cur' = [cur EXCEPT ![w] = c]
    BY DEF WHandle
<1>2. /\ pc[w] = "handle" /\ pc' = [pc EXCEPT ![w] = "recv"]
      /\ UNCHANGED <<kernel, shared, listener, batch, history>>
    BY DEF WHandle, Goto
<1>3. /\ pc'[w] = "recv" /\ cur'[w] = c /\ c \in Client
      /\ \A v \in Worker : v # w => pc'[v] = pc[v] /\ cur'[v] = cur[v]
    BY <1>1, <1>2 DEF Sound, Core, TypeOK
<1>4. \A d \in Client : InDelEvent(d)' <=> InDelEvent(d)
    BY <1>2, <1>3 DEF InDelEvent
<1>5. \A d \in Client : StageOf(d)' = StageOf(d)
    BY <1>2, <1>4, HoldersKept, StageKept DEF kernel, shared, listener
<1>6. \A d \in Client : ServerOf(d)' = ServerOf(d)
    BY <1>2, <1>5, ServerKept DEF shared
<1>7. Stages[c] = "serving" /\ Servers[c] = w
    BY <1>2, <1>3, HandStage DEF Stages, Servers
<1>8. HandOf(w) = None /\ HandOf(w)' = c /\ \A v \in Worker : v # w => HandOf(v)' = HandOf(v)
    BY <1>2, <1>3 DEF HandOf, Handling
<1>9. Hands[w] = None /\ Hands' = [Hands EXCEPT ![w] = c]
    BY <1>8, HandsMoved DEF Hands
<1>10. UNCHANGED <<Stages, Servers, unread, strayClose>>
    BY <1>2, <1>5, <1>6, AllKept DEF kernel, history
<1>11. Service!Handle(w, c)
    BY ONLY <1>7, <1>9, <1>10 DEF Service!Handle
<1> QED BY <1>3, <1>10, <1>11 DEF Simulated, Service!Step

\* The batch has been worked through.
LEMMA HandledService ==
    ASSUME Sound, NEW w \in Worker, WHandled(w)
    PROVE  Simulated
<1>1. /\ pc[w] = "handle" /\ pc'[w] = "clear"
      /\ \A v \in Worker : v # w => pc'[v] = pc[v] /\ cur'[v] = cur[v]
      /\ UNCHANGED <<kernel, shared, listener, batch, history>>
    BY DEF WHandled, Goto, Sound, Core, TypeOK
<1>2. /\ \A d \in Client : InDelEvent(d)' <=> InDelEvent(d)
      /\ \A v \in Worker : HandOf(v)' = HandOf(v)
    BY <1>1 DEF InDelEvent, HandOf, Handling
<1>3. \A d \in Client : StageOf(d)' = StageOf(d)
    BY <1>1, <1>2, HoldersKept, StageKept DEF kernel, shared, listener
<1>4. \A d \in Client : ServerOf(d)' = ServerOf(d)
    BY <1>1, <1>3, ServerKept DEF shared
<1> QED BY <1>1, <1>2, <1>3, <1>4, ServiceStutters DEF Simulated, kernel, history

\* A request is taken from the connection in hand and from no other.
LEMMA RecvService ==
    ASSUME Sound, NEW w \in Worker, WRecv(w)
    PROVE  Simulated
<1>1. pc[w] = "recv" /\ pc[w] \in Handling
    BY DEF WRecv, Handling
<1>2. PICK c \in Client : c = cur[w]
    BY <1>1, CurrentEvent DEF Sound
<1>3. fdtab[evFD[c]] = c /\ StageOf(c) = "serving" /\ ServerOf(c) = w
    BY <1>1, <1>2, HandStage
<1>4. /\ unread[c] > 0 /\ unread' = [unread EXCEPT ![c] = @ - 1]
      /\ UNCHANGED <<conn, shared, listener, batch, cur, history>>
    BY <1>2, <1>3 DEF WRecv, Peer
<1>5. PICK next \in {"open", "recv", "spin"} : pc' = [pc EXCEPT ![w] = next]
    BY DEF WRecv, Goto
<1>6. ASSUME NEW v \in Worker
      PROVE  /\ pc[v] \in Handling <=> pc'[v] \in Handling
             /\ pc[v] \in {"delctl", "delerase"} <=> pc'[v] \in {"delctl", "delerase"}
    BY <1>1, <1>5 DEF Handling, Sound, Core, TypeOK
<1>7. /\ \A v \in Worker : HandOf(v)' = HandOf(v)
      /\ \A d \in Client : InDelEvent(d)' <=> InDelEvent(d)
    BY <1>4, <1>6, ThreadsKept
<1>8. \A d \in Client : StageOf(d)' = StageOf(d)
    BY <1>4, <1>7, HoldersKept, StageKept DEF shared, listener
<1>9. \A d \in Client : ServerOf(d)' = ServerOf(d)
    BY <1>4, <1>8, ServerKept DEF shared
<1>10. Stages[c] = "serving" /\ Servers[c] = w /\ Hands[w] = c
    BY <1>1, <1>2, <1>3 DEF Stages, Servers, Hands, HandOf
<1>11. UNCHANGED <<Stages, Servers, Hands, strayClose>>
    BY <1>4, <1>7, <1>8, <1>9, AllKept DEF history
<1>12. Service!Take(w, c)
    BY ONLY <1>4, <1>10, <1>11 DEF Service!Take
<1> QED BY <1>11, <1>12 DEF Simulated, Service!Step

\* The loop of the handler ends when there is nothing more to read.
LEMMA EofService ==
    ASSUME Sound, NEW w \in Worker, WEof(w)
    PROVE  Simulated
<1>1. pc[w] = "recv" /\ pc[w] \in Handling
    BY DEF WEof, Handling
<1>2. PICK c \in Client : c = cur[w]
    BY <1>1, CurrentEvent DEF Sound
<1>3. /\ fdtab[evFD[c]] = c /\ StageOf(c) = "serving" /\ ServerOf(c) = w
      /\ InMap(c) /\ conn[c] = "open" /\ evWorker[c] = w
    BY <1>1, <1>2, HandStage
<1>4. /\ unread[c] = 0 /\ pc' = [pc EXCEPT ![w] = "delctl"]
      /\ UNCHANGED <<kernel, shared, listener, batch, cur, history>>
    BY <1>2, <1>3 DEF WEof, Goto, Peer
<1>5. pc'[w] = "delctl" /\ \A v \in Worker : v # w => pc'[v] = pc[v]
    BY <1>4 DEF Sound, Core, TypeOK
<1>6. \A v \in Worker : HandOf(v)' = HandOf(v)
    BY <1>1, <1>4, <1>5 DEF HandOf, Handling
<1>7. /\ InDelEvent(c)'
      /\ \A d \in Client : d # c => (InDelEvent(d)' <=> InDelEvent(d))
    BY <1>2, <1>4, <1>5 DEF InDelEvent
<1>8. \A d \in Client : (InMap(d)' <=> InMap(d)) /\ (StillHeld(d)' <=> StillHeld(d))
    BY <1>4, HoldersKept DEF shared, listener
<1>9. StageOf(c)' = "ending"
  <2>1. InMap(c)' /\ conn'[c] = "open"
      BY <1>3, <1>4, <1>8 DEF kernel
  <2> QED BY <1>7, <2>1 DEF StageOf
<1>10. \A d \in Client : d # c => StageOf(d)' = StageOf(d)
    BY <1>4, <1>7, <1>8, StageKept DEF kernel
<1>11. \A d \in Client : ServerOf(d)' = ServerOf(d)
  <2>1. ServerOf(c)' = ServerOf(c)
      BY <1>3, <1>4, <1>9 DEF ServerOf, Given, shared
  <2> QED BY <1>4, <1>10, <2>1, ServerKept DEF shared
<1>12. Stages' = [Stages EXCEPT ![c] = "ending"]
    BY <1>9, <1>10, StagesMoved
<1>13. Stages[c] = "serving" /\ Servers[c] = w /\ Hands[w] = c
    BY <1>1, <1>2, <1>3 DEF Stages, Servers, Hands, HandOf
<1>14. UNCHANGED <<Servers, Hands, unread, strayClose>>
    BY <1>4, <1>6, <1>11, AllKept DEF kernel, history
<1>15. Service!Drain(w, c)
    BY ONLY <1>4, <1>12, <1>13, <1>14 DEF Service!Drain, Service!Move
<1> QED BY <1>14, <1>15 DEF Simulated, Service!Step

\* epoll_ctl(EPOLL_CTL_DEL) succeeds, which the service does not see.
LEMMA DelCtlService ==
    ASSUME Sound, NEW w \in Worker, WDelCtl(w)
    PROVE  Simulated
<1>1. pc[w] = "delctl" /\ pc[w] \in Handling
    BY DEF WDelCtl, Handling
<1>2. PICK c \in Client : c = cur[w]
    BY <1>1, CurrentEvent DEF Sound
<1>3. evFD[c] \in FD /\ events[w][evFD[c]] = c /\ evWorker[c] = w
    BY <1>1, <1>2, HandStage
<1>4. evFD[c] \in Registered(w)
    BY <1>3, ReactorAssumption DEF Registered
<1>5. lock[w] = None
    BY <1>2, <1>3 DEF WDelCtl
<1>6. interest[w] = Registered(w)
    BY <1>5, ReactorAssumption DEF Sound, Linked, MapState
<1>7. /\ pc' = [pc EXCEPT ![w] = "delerase"]
      /\ UNCHANGED <<conn, unread, events, evWorker, listener, batch, cur, history>>
    BY <1>2, <1>3, <1>4, <1>6 DEF WDelCtl, Goto
<1>8. ASSUME NEW v \in Worker
      PROVE  /\ pc[v] \in Handling <=> pc'[v] \in Handling
             /\ pc[v] \in {"delctl", "delerase"} <=> pc'[v] \in {"delctl", "delerase"}
    BY <1>1, <1>7 DEF Handling, Sound, Core, TypeOK
<1> QED BY <1>7, <1>8, NothingSeen DEF listener, history

\* The map entry goes: the worker has given the connection up.
LEMMA DelEraseService ==
    ASSUME Sound, NEW w \in Worker, WDelErase(w)
    PROVE  Simulated
<1>1. pc[w] = "delerase" /\ pc[w] \in Handling
    BY DEF WDelErase, Handling
<1>2. PICK c \in Client : c = cur[w]
    BY <1>1, CurrentEvent DEF Sound
<1>3. /\ StageOf(c) = "ending" /\ ServerOf(c) = w /\ evFD[c] \in FD
      /\ events[w][evFD[c]] = c /\ conn[c] = "open" /\ evWorker[c] = w /\ c \in batch[w]
    BY <1>1, <1>2, HandStage
<1>4. /\ \A v \in Worker, f \in FD :
            events'[v][f] = IF v = w /\ f = evFD[c] THEN None ELSE events[v][f]
      /\ pc'[w] = "return" /\ \A v \in Worker : v # w => pc'[v] = pc[v]
      /\ UNCHANGED <<kernel, evWorker, listener, batch, cur, history>>
    BY <1>2, DelEraseFacts DEF Sound
<1>5. /\ HandOf(w)' = None /\ \A v \in Worker : v # w => HandOf(v)' = HandOf(v)
      /\ \A d \in Client : d # c => (InDelEvent(d)' <=> InDelEvent(d))
    BY <1>1, <1>2, <1>4 DEF HandOf, InDelEvent, Handling
<1>6. \A d \in Client : StillHeld(d)' <=> StillHeld(d)
    BY <1>4, HoldersKept DEF listener
<1>7. ASSUME NEW d \in Client, d # c PROVE InMap(d)' <=> InMap(d)
    BY <1>3, <1>4, <1>7, ReactorAssumption DEF InMap
<1>8. ~InMap(c)'
  <2>1. ASSUME NEW v \in Worker, NEW f \in FD, events[v][f] = c
        PROVE  v = w /\ f = evFD[c]
      BY <1>3, <2>1, ReactorAssumption DEF Sound, Core, EventState
  <2> QED BY <1>4, <2>1, ReactorAssumption DEF InMap
<1>9. StageOf(c)' = "finished"
  <2>1. StillHeld(c)' /\ conn'[c] = "open"
      BY <1>3, <1>4, <1>6 DEF StillHeld, kernel
  <2> QED BY <1>8, <2>1 DEF StageOf
<1>10. \A d \in Client : d # c => StageOf(d)' = StageOf(d)
    BY <1>4, <1>5, <1>6, <1>7, StageKept DEF kernel
<1>11. \A d \in Client : ServerOf(d)' = ServerOf(d)
  <2>1. ServerOf(c)' = ServerOf(c)
      BY <1>3, <1>4, <1>9 DEF ServerOf, Given
  <2> QED BY <1>4, <1>10, <2>1, ServerKept
<1>12. Stages' = [Stages EXCEPT ![c] = "finished"]
    BY <1>9, <1>10, StagesMoved
<1>13. Hands' = [Hands EXCEPT ![w] = None]
    BY <1>5, HandsMoved
<1>14. Stages[c] = "ending" /\ Servers[c] = w /\ Hands[w] = c
    BY <1>1, <1>2, <1>3 DEF Stages, Servers, Hands, HandOf
<1>15. UNCHANGED <<Servers, unread, strayClose>>
    BY <1>4, <1>11, AllKept DEF kernel, history
<1>16. Service!GiveUp(w, c)
    BY ONLY <1>12, <1>13, <1>14, <1>15 DEF Service!GiveUp, Service!Move
<1> QED BY <1>15, <1>16 DEF Simulated, Service!Step

\* The batch's reference goes: nobody sees it unless it was the last one.
LEMMA ClearService ==
    ASSUME Sound, NEW w \in Worker, WClear(w)
    PROVE  Simulated
<1>1. PICK c \in batch[w] :
         /\ batch' = [batch EXCEPT ![w] = @ \ {c}]
         /\ IF ListenerHolds(c) \/ InMap(c) THEN KeepEvent ELSE DestroyEvent(c)
    BY DEF WClear
<1>2. UNCHANGED <<unread, events, listener, pc, cur>>
    BY DEF WClear
<1>3. c \in Client /\ evWorker[c] = w /\ LiveEvent(c) /\ StillHeld(c)
    BY DEF Sound, Core, TypeOK, EventState, LiveEvent, StillHeld
<1>4. \A v \in Worker : batch'[v] = IF v = w THEN batch[w] \ {c} ELSE batch[v]
    BY <1>1 DEF Sound, Core, TypeOK
<1>5. /\ \A d \in Client : InMap(d)' <=> InMap(d)
      /\ \A d \in Client : d # c => (StillHeld(d)' <=> StillHeld(d))
    BY <1>2, <1>4 DEF InMap, StillHeld, listener
<1>6. CASE ListenerHolds(c) \/ InMap(c)
  <2>1. UNCHANGED <<conn, strayClose, evWorker>>
      BY <1>1, <1>6 DEF KeepEvent, NoClose
  <2>2. ASSUME ~InMap(c) PROVE StillHeld(c)'
    <3>1. lconn = c /\ lpc \in Made
        BY <1>6, <2>2 DEF ListenerHolds, Made
    <3>2. lpc \notin Alone
        BY <1>3, <3>1 DEF Sound, Core, ListenerState
    <3>3. lpc = "release"
        BY <3>1, <3>2 DEF Alone, Made
    <3> QED BY <1>2, <3>1, <3>3 DEF StillHeld, listener
  <2>3. /\ \A v \in Worker : HandOf(v)' = HandOf(v)
        /\ \A d \in Client : InDelEvent(d)' <=> InDelEvent(d)
      BY <1>2, ThreadsKept
  <2>4. \A d \in Client : StageOf(d)' = StageOf(d)
      BY <1>3, <1>5, <2>1, <2>2, <2>3, StageKept
  <2>5. \A d \in Client : ServerOf(d)' = ServerOf(d)
      BY <2>1, <2>4, ServerKept
  <2> QED BY <1>2, <2>1, <2>3, <2>4, <2>5, ServiceStutters DEF Simulated
<1>7. CASE ~(ListenerHolds(c) \/ InMap(c))
  <2>1. DestroyEvent(c) /\ ~InMap(c)
      BY <1>1, <1>7
  <2> QED BY <1>2, <1>3, <1>5, <2>1, CloseService
<1> QED BY <1>6, <1>7

-----------------------------------------------------------------------------
(* The refinement *)

\* At the beginning all connections are idle and nobody has anything in hand.
LEMMA InitService == Init => Service!Init
<1> SUFFICES ASSUME Init PROVE Service!Init
    OBVIOUS
<1>1. \A c \in Client : StageOf(c) = "idle"
    BY DEF Init, StageOf
<1>2. \A c \in Client : ServerOf(c) = None
    BY <1>1 DEF ServerOf, Given
<1>3. \A w \in Worker : HandOf(w) = None
    BY DEF Init, HandOf, Handling
<1> QED BY <1>1, <1>2, <1>3 DEF Init, Service!Init, Stages, Servers, Hands

\* Until a close goes astray every step is a step of the service or is not seen.
LEMMA ServiceStep ==
    ASSUME Sound, [Next]_vars, ~strayClose'
    PROVE  Simulated
<1>1. CASE Environment
    BY <1>1, ConnectService, ArriveService DEF Environment
<1>2. CASE ListenStep \/ LWaitFails
    BY <1>2, ListenerUnseen, AcceptService, GiveUpService, InsertService, ReleaseService
       DEF ListenStep, LControl
<1>3. ASSUME NEW w \in Worker, WorkerStep(w) \/ WWaitFails(w)
      PROVE  Simulated
    BY <1>3, WorkerUnseen, ReplyService, CollectService, HandleService, HandledService,
       RecvService, EofService, DelCtlService, DelEraseService, ClearService DEF WorkerStep
<1>4. ASSUME NEW t \in Thread, Stop(t) PROVE Simulated
    BY <1>4, StopUnseen
<1>5. CASE UNCHANGED vars
    BY <1>5, NothingSeen DEF vars, kernel, shared, listener, threads, history
<1> QED BY <1>1, <1>2, <1>3, <1>4, <1>5 DEF Next

\* Reactor implements ConnectionService: every connection is accepted once, given to
\* one worker with room for it or refused, read by that worker alone, given up only
\* after it was found with nothing more to read, and closed once, whatever the
\* interleaving of the listener's addEvent with the worker's epoll_wait, delEvent and
\* the destruction of shared Events, up to the first close of a foreign descriptor.
THEOREM Refinement == Spec => ImplementsService
<1>1. Core /\ Descriptors /\ Handy /\ [Next]_vars => [Service!Next]_(Service!service)
  <2> SUFFICES ASSUME Core, Descriptors, Handy, [Next]_vars
               PROVE  Service!Next \/ UNCHANGED Service!service
      OBVIOUS
  <2>1. CASE strayClose'
    <3>1. strayClose' = TRUE
      <4>1. strayClose' \in BOOLEAN
          BY CoreStep DEF Core, TypeOK
      <4> QED BY <2>1, <4>1
    <3> QED BY <3>1 DEF Service!Next
  <2>2. CASE ~strayClose'
    <3>1. ~strayClose
        BY <2>2, StrayForEver
    <3>2. Sound
        BY <3>1 DEF Sound, Descriptors, Handy
    <3>3. Simulated
        BY <2>2, <3>2, ServiceStep
    <3> QED BY <3>1, <3>3 DEF Simulated, Service!Next
  <2> QED BY <2>1, <2>2
<1> QED BY <1>1, InitService, CoreInvariant, DescriptorInvariant, HandyInvariant, PTL
        DEF Spec, ImplementsService, Service!Spec

\* Where accept, fcntl and epoll_ctl(EPOLL_CTL_ADD) do not fail the promise never ends: every
\* step is one the service allows while it is not broken.
THEOREM PromiseIsKept ==
    ASSUME ~CallMayFail
    PROVE  Spec => [][Service!Step]_(Service!service)
<1>1. Core /\ Descriptors /\ Handy /\ Core' /\ Descriptors' /\ [Next]_vars
         => [Service!Step]_(Service!service)
  <2> SUFFICES ASSUME Core, Descriptors, Handy, Descriptors', [Next]_vars
               PROVE  Service!Step \/ UNCHANGED Service!service
      OBVIOUS
  <2>1. ~strayClose /\ ~strayClose'
      BY DEF Descriptors
  <2>2. Sound
      BY <2>1 DEF Sound, Descriptors, Handy
  <2> QED BY <2>1, <2>2, ServiceStep DEF Simulated
<1> QED BY <1>1, CoreInvariant, DescriptorInvariant, HandyInvariant, PTL DEF Spec
=============================================================================
