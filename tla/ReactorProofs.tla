---------------------------- MODULE ReactorProofs ----------------------------
(***************************************************************************)
(* Proofs about Reactor, for any numbers of clients, requests, workers and *)
(* descriptors and any capacity.                                           *)
(***************************************************************************)
EXTENDS Reactor, FiniteSetTheorems, SequenceTheorems, TLAPS

USE DEF Listener

-----------------------------------------------------------------------------
(* The list of workers *)

\* The number of workers.
LEMMA WorkerCount == Cardinality(Worker) \in Nat
BY ReactorAssumption, FS_CardinalityType

\* The list has one place for each worker.
LEMMA OrderProperties ==
    ASSUME NEW o \in [1..Cardinality(Worker) -> Worker]
    PROVE  o \in Seq(Worker) /\ Len(o) = Cardinality(Worker)
<1>1. o \in Seq(Worker)
    BY WorkerCount, IsASeq
<1> QED BY <1>1, WorkerCount, LenProperties

\* What erase and push_back do to the list.
LEMMA RotatedProperties ==
    ASSUME NEW s \in [1..Cardinality(Worker) -> Worker],
           NEW i \in 1..Cardinality(Worker)
    PROVE  /\ Rotated(s, i) \in [1..Cardinality(Worker) -> Worker]
           /\ \A j \in 1..Cardinality(Worker) :
                 Rotated(s, i)[j] = IF j < i THEN s[j]
                                    ELSE IF j < Cardinality(Worker) THEN s[j + 1]
                                    ELSE s[i]
<1> DEFINE n == Cardinality(Worker)
           a == SubSeq(s, 1, i - 1)
           b == SubSeq(s, i + 1, Len(s))
           r == a \o b
           t == Append(r, s[i])
<1>1. /\ n \in Nat /\ s \in Seq(Worker) /\ Len(s) = n /\ i \in 1..n
      /\ \A j \in 1..n : s[j] \in Worker
    BY WorkerCount, OrderProperties
<1> HIDE DEF n
<1>2. /\ a \in Seq(Worker) /\ Len(a) = i - 1
      /\ \A j \in 1..i - 1 : a[j] = s[j]
  <2>1. \A j \in 1..i - 1 : s[j] \in Worker
      BY <1>1
  <2> QED BY <1>1, <2>1, SubSeqProperties
<1>3. /\ b \in Seq(Worker) /\ Len(b) = n - i
      /\ \A j \in 1..n - i : b[j] = s[i + j]
  <2>1. \A j \in i + 1..n : s[j] \in Worker
      BY <1>1
  <2> QED BY <1>1, <2>1, SubSeqProperties
<1> HIDE DEF a, b
<1>4. /\ r \in Seq(Worker) /\ Len(r) = n - 1
      /\ \A j \in 1..n - 1 : r[j] = IF j < i THEN s[j] ELSE s[j + 1]
  <2>1. /\ r \in Seq(Worker) /\ Len(r) = Len(a) + Len(b)
        /\ \A j \in 1..Len(a) + Len(b) :
              r[j] = IF j <= Len(a) THEN a[j] ELSE b[j - Len(a)]
      BY <1>2, <1>3, ConcatProperties
  <2>2. ASSUME NEW j \in 1..n - 1
        PROVE  r[j] = IF j < i THEN s[j] ELSE s[j + 1]
    <3>1. CASE j < i
        BY <1>1, <1>2, <1>3, <2>1, <3>1
    <3>2. CASE ~(j < i)
      <4>1. r[j] = b[j - (i - 1)] /\ j - (i - 1) \in 1..n - i
          BY <1>1, <1>2, <1>3, <2>1, <3>2
      <4>2. b[j - (i - 1)] = s[i + (j - (i - 1))] /\ i + (j - (i - 1)) = j + 1
          BY <1>1, <1>3, <4>1
      <4> QED BY <1>1, <3>2, <4>1, <4>2
    <3> QED BY <3>1, <3>2
  <2> QED BY <1>1, <1>2, <1>3, <2>1, <2>2
<1> HIDE DEF r
<1>5. /\ t \in Seq(Worker) /\ Len(t) = n
      /\ \A j \in 1..n - 1 : t[j] = r[j]
      /\ t[n] = s[i]
    BY <1>1, <1>4, AppendProperties
<1>6. Rotated(s, i) = t
    BY DEF Rotated, RemoveAt, r, a, b
<1> HIDE DEF t
<1>7. t \in [1..n -> Worker]
    BY <1>5, LenProperties
<1>8. \A j \in 1..n : t[j] = IF j < i THEN s[j] ELSE IF j < n THEN s[j + 1] ELSE s[i]
  <2> SUFFICES ASSUME NEW j \in 1..n
               PROVE  t[j] = IF j < i THEN s[j] ELSE IF j < n THEN s[j + 1] ELSE s[i]
      OBVIOUS
  <2>1. CASE j = n
      BY <1>1, <1>5, <2>1
  <2>2. CASE j # n
      BY <1>1, <1>4, <1>5, <2>2
  <2> QED BY <2>1, <2>2
<1> QED BY <1>6, <1>7, <1>8 DEF n

\* The current worker of the listener.
LEMMA CurrentWorker ==
    ASSUME TypeOK, ListenerState, lpc \in {"room", "event"} \cup Made
    PROVE  idx \in 1..Cardinality(Worker) /\ order[idx] \in Worker
<1>1. idx \in 1..Cardinality(Worker)
    BY WorkerCount DEF TypeOK, ListenerState
<1> QED BY <1>1 DEF TypeOK

-----------------------------------------------------------------------------
(* What each part of the invariant depends on *)

\* A connection that has been accepted stays so.
StillAccepted == \A c \in Client : Accepted(c) => Accepted(c)'

\* The bound on requests is about the requests only.
LEMMA BudgetKept ==
    ASSUME Budget, UNCHANGED <<left, unread>>
    PROVE  Budget'
BY DEF Budget

\* The state of the listener depends on the Event it holds.
LEMMA ListenerStateKept ==
    ASSUME TypeOK, ListenerState, StillAccepted,
           UNCHANGED <<lpc, lconn, lfd, idx, order, evFD, evWorker, events, batch>>
    PROVE  ListenerState'
<1>1. /\ lpc' \notin Free =>
             lconn' \in Client /\ lfd' \in FD /\ Accepted(lconn)'
      /\ lpc' \in {"room", "event"} \cup Made => idx' <= Cardinality(Worker)
      /\ lpc' \in {"failed", "close"} => CallMayFail
    BY DEF ListenerState, StillAccepted, Accepted
<1>2. lpc' \in Made => evFD'[lconn'] = lfd' /\ evWorker'[lconn'] = order'[idx']
    BY DEF ListenerState
<1>3. lpc' \in Alone => ~InMap(lconn)' /\ \A w \in Worker : lconn' \notin batch'[w]
    BY DEF ListenerState, InMap
<1> QED BY <1>1, <1>2, <1>3 DEF ListenerState

\* The state of the Events depends on who holds them.
LEMMA EventStateKept ==
    ASSUME TypeOK, EventState, StillAccepted, UNCHANGED <<events, evFD, evWorker, batch>>
    PROVE  EventState'
BY DEF TypeOK, EventState, StillAccepted, Accepted

\* The state of a thread is its own.
LEMMA ThreadStateKept ==
    ASSUME ThreadState, UNCHANGED <<pc, accepted, batch, todo, cur>>
    PROVE  ThreadState'
BY DEF ThreadState

\* The state of the locks follows the control of the threads.
LEMMA LockStateKept ==
    ASSUME LockState, UNCHANGED <<lock, lpc, order, idx, pc>>
    PROVE  LockState'
BY DEF LockState

\* The room of a worker depends on its map.
LEMMA RoomKeptKept ==
    ASSUME RoomKept, UNCHANGED <<events, lpc, order, idx>>
    PROVE  RoomKept'
BY DEF RoomKept, WithinCapacity, HasRoom, activeFDS

-----------------------------------------------------------------------------
(* The core of the invariant *)

\* Initially nothing is open, watched or held.
LEMMA InitCore == Init => Core
<1> SUFFICES ASSUME Init PROVE Core
    OBVIOUS
<1> USE DEF Init
<1>1. TypeOK
  <2>1. /\ fdtab \in [FD -> Client \cup Worker \cup {None}]
        /\ conn \in [Client -> {"idle", "backlog", "open", "closed"}]
        /\ interest \in [Worker -> SUBSET FD] /\ ready \in [Worker -> SUBSET FD]
        /\ events \in [Worker -> [FD -> Client \cup {None}]]
        /\ lock \in [Worker -> Thread \cup {None}]
        /\ evFD \in [Client -> FD \cup {None}]
        /\ evWorker \in [Client -> Worker \cup {None}]
      OBVIOUS
  <2>2. /\ left \in [Client -> Nat] /\ unread \in [Client -> Nat]
        /\ idx \in 1..Cardinality(Worker)+1
        /\ assigned \in [Worker -> Nat]
        /\ order \in [1..Cardinality(Worker) -> Worker]
      BY ReactorAssumption, WorkerCount
  <2>3. fin \in [Client -> BOOLEAN] /\ running \in [Thread -> BOOLEAN]
      BY Zenon
  <2>4. /\ lpc \in LPC /\ lconn \in Client \cup {None} /\ lfd \in FD \cup {None}
        /\ lready \in BOOLEAN /\ strayClose \in BOOLEAN /\ skipped \in BOOLEAN
        /\ missed \in BOOLEAN
      BY DEF LPC, Free
  <2>5. /\ pc \in [Worker -> WPC] /\ accepted \in [Worker -> SUBSET FD]
        /\ batch \in [Worker -> SUBSET Client] /\ todo \in [Worker -> SUBSET Client]
        /\ cur \in [Worker -> Client \cup {None}]
        /\ wfile \in [Worker -> FD \cup {None}] /\ wnew \in [Worker -> FD \cup {None}]
      BY DEF WPC
  <2> QED BY <2>1, <2>2, <2>3, <2>4, <2>5 DEF TypeOK
<1>2. Budget
    BY ReactorAssumption DEF Budget
<1>3. ListenerState
    BY DEF ListenerState, Made, Raw, Alone, Free
<1>4. EventState
    BY DEF EventState
<1>5. ThreadState
    BY DEF ThreadState, Handling
<1>6. LockState
    BY ReactorAssumption DEF LockState
<1>7. RoomKept
  <2>1. ASSUME NEW w \in Worker PROVE activeFDS(w) <= MaxFDS
    <3>1. {fd \in FD : events[w][fd] # None} = {}
        OBVIOUS
    <3>2. activeFDS(w) = 0
        BY <3>1, FS_EmptySet, Zenon DEF activeFDS
    <3> QED BY <3>2, ReactorAssumption
  <2> QED BY <2>1 DEF RoomKept, WithinCapacity
<1> QED BY <1>1, <1>2, <1>3, <1>4, <1>5, <1>6, <1>7 DEF Core

\* A new connection in the backlog.
LEMMA ConnectCore ==
    ASSUME Core, NEW c \in Client, Connect(c)
    PROVE  Core'
<1>1. /\ conn[c] = "idle" /\ conn' = [conn EXCEPT ![c] = "backlog"] /\ lready' = TRUE
      /\ UNCHANGED <<fdtab, left, unread, fin, interest, ready,
                     shared, listener, threads, history>>
    BY DEF Connect
<1>2. TypeOK'
    BY <1>1 DEF Core, TypeOK, shared, listener, threads, history
<1>3. StillAccepted
    BY <1>1 DEF StillAccepted, Accepted, Core, TypeOK
<1> QED BY <1>1, <1>2, <1>3, BudgetKept, ListenerStateKept, EventStateKept,
           ThreadStateKept, LockStateKept, RoomKeptKept
        DEF Core, shared, listener, threads, history

\* Something arrives on a connection.
LEMMA ArriveCore ==
    ASSUME Core, NEW c \in Client, Send(c) \/ Shutdown(c)
    PROVE  Core'
<1>1. /\ RaiseEdge(c)
      /\ UNCHANGED <<fdtab, conn, interest, lready, shared, listener, threads, history>>
    BY DEF Send, Shutdown
<1>2. /\ left' \in [Client -> Nat] /\ unread' \in [Client -> Nat]
      /\ Budget' /\ fin' \in [Client -> BOOLEAN]
  <2>1. CASE Send(c)
    <3>1. /\ left[c] > 0 /\ left' = [left EXCEPT ![c] = @ - 1]
          /\ unread' = [unread EXCEPT ![c] = @ + 1] /\ UNCHANGED fin
        BY <2>1 DEF Send
    <3>2. left[c] \in Nat \ {0} /\ unread[c] \in Nat
        BY <3>1 DEF Core, TypeOK
    <3>3. left' \in [Client -> Nat] /\ unread' \in [Client -> Nat]
        BY <3>1, <3>2 DEF Core, TypeOK
    <3>4. ASSUME NEW d \in Client PROVE left'[d] + unread'[d] = left[d] + unread[d]
        BY <3>1, <3>2 DEF Core, TypeOK
    <3> QED BY <3>1, <3>3, <3>4 DEF Core, TypeOK, Budget
  <2>2. CASE Shutdown(c)
    <3>1. fin' = [fin EXCEPT ![c] = TRUE] /\ UNCHANGED <<left, unread>>
        BY <2>2 DEF Shutdown
    <3>2. fin' \in [Client -> BOOLEAN]
        BY <3>1, Zenon DEF Core, TypeOK
    <3> QED BY <3>1, <3>2, BudgetKept DEF Core, TypeOK
  <2> QED BY <2>1, <2>2
<1>3. ready' \in [Worker -> SUBSET FD]
  <2>1. \A w \in Worker : ready[w] \cup {fd \in interest[w] : fdtab[fd] = c} \in SUBSET FD
      BY DEF Core, TypeOK
  <2> QED BY <1>1, <2>1 DEF RaiseEdge
<1>4. TypeOK'
    BY <1>1, <1>2, <1>3 DEF Core, TypeOK, shared, listener, threads, history
<1>5. StillAccepted
    BY <1>1 DEF StillAccepted, Accepted
<1> QED BY <1>1, <1>2, <1>4, <1>5, ListenerStateKept, EventStateKept,
           ThreadStateKept, LockStateKept, RoomKeptKept
        DEF Core, shared, listener, threads, history

\* The listener moves on without touching anything but its own control.
LEMMA ListenControlCore ==
    ASSUME Core, NEW next \in LPC, NEW i \in 1..Cardinality(Worker) + 1,
           lpc' = next, idx' = i,
           UNCHANGED <<fdtab, conn, left, unread, fin, interest, ready, events, lock,
                       evFD, evWorker, lconn, lfd, order, threads, strayClose, assigned>>,
           running' \in [Thread -> BOOLEAN],
           lready' \in BOOLEAN, skipped' \in BOOLEAN, missed' \in BOOLEAN,
           lpc \in Free <=> next \in Free,
           lpc \in Raw <=> next \in Raw, lpc \in Made <=> next \in Made,
           lpc \notin {"insert", "release"} /\ next \notin {"insert", "release"},
           lpc \in Made => i = idx,
           next \in {"room", "event"} => i <= Cardinality(Worker),
           next \in {"event", "addRoom", "ctl"} => HasRoom(order[i]),
           next \in {"failed", "close"} => CallMayFail
    PROVE  Core'
<1>1. TypeOK'
    BY DEF Core, TypeOK, shared, threads
<1>2. ListenerState'
  <2>1. /\ next \notin Free =>
               lconn' \in Client /\ lfd' \in FD /\ Accepted(lconn)'
        /\ next \in {"room", "event"} \cup Made => i <= Cardinality(Worker)
      BY DEF Core, ListenerState, Accepted
  <2>2. next \in Made => evFD'[lconn'] = lfd' /\ evWorker'[lconn'] = order'[i]
      BY DEF Core, ListenerState, shared
  <2>3. next \in Alone => ~InMap(lconn)' /\ \A w \in Worker : lconn' \notin batch'[w]
    <3>1. next \in Alone => lpc \in Alone
        BY DEF Alone, Raw, Made, LPC, Free, Core, TypeOK
    <3> QED BY <3>1 DEF Core, ListenerState, InMap, shared, threads
  <2> QED BY <2>1, <2>2, <2>3 DEF ListenerState
<1>3. LockState'
  <2>1. \A w \in Worker : lock[w] # Listener
      BY DEF Core, LockState
  <2> QED BY <2>1 DEF Core, LockState, shared, threads
<1>4. RoomKept'
  <2>1. UNCHANGED events
      BY DEF shared
  <2> QED BY <2>1 DEF Core, RoomKept, WithinCapacity, HasRoom, activeFDS
<1>5. StillAccepted
    BY DEF StillAccepted, Accepted
<1> QED BY <1>1, <1>2, <1>3, <1>4, <1>5, BudgetKept, EventStateKept, ThreadStateKept
        DEF Core, shared, threads

\* accept returns a connection nobody knows of.
LEMMA AcceptCore ==
    ASSUME Core, LAccept
    PROVE  Core'
<1>1. PICK c \in Client, fd \in FreeFD :
         /\ conn[c] = "backlog"
         /\ conn' = [conn EXCEPT ![c] = "open"]
         /\ fdtab' = [fdtab EXCEPT ![fd] = c]
         /\ lconn' = c
         /\ lfd' = fd
    BY DEF LAccept
<1>2. /\ lpc = "accept" /\ lpc' = "fcntl"
      /\ UNCHANGED <<left, unread, fin, interest, ready, lready,
                     shared, idx, order, threads, history>>
    BY DEF LAccept
<1>3. TypeOK'
  <2>1. fd \in FD
      BY DEF FreeFD
  <2>2. lpc' \in LPC
      BY <1>2 DEF LPC, Free
  <2> QED BY <1>1, <1>2, <2>1, <2>2 DEF Core, TypeOK, shared, threads, history
<1>4. StillAccepted
    BY <1>1 DEF StillAccepted, Accepted, Core, TypeOK
<1>5. ~InMap(c) /\ \A w \in Worker : c \notin batch[w]
  <2>1. c # None /\ ~Accepted(c)
      BY <1>1, ReactorAssumption DEF Accepted
  <2> QED BY <2>1 DEF Core, EventState, InMap
<1>6. ListenerState'
  <2>1. lconn' \in Client /\ lfd' \in FD /\ Accepted(lconn)'
      BY <1>1 DEF FreeFD, Accepted, Core, TypeOK
  <2>2. ~InMap(lconn)' /\ \A w \in Worker : lconn' \notin batch'[w]
      BY <1>1, <1>2, <1>5 DEF InMap, shared, threads
  <2> QED BY <1>2, <2>1, <2>2 DEF ListenerState, Made
<1>7. LockState'
    BY <1>2 DEF Core, LockState, shared, threads
<1>8. RoomKept'
    BY <1>2 DEF Core, RoomKept, WithinCapacity, HasRoom, activeFDS, shared
<1> QED BY <1>2, <1>3, <1>4, <1>6, <1>7, <1>8, BudgetKept, EventStateKept, ThreadStateKept
        DEF Core, shared, threads

\* close() keeps the types and makes no connection unaccepted.
LEMMA CloseKeeps ==
    ASSUME TypeOK, NEW fd \in FD, NEW owner, Close(fd, owner)
    PROVE  /\ fdtab' \in [FD -> Client \cup Worker \cup {None}]
           /\ conn' \in [Client -> {"idle", "backlog", "open", "closed"}]
           /\ interest' \in [Worker -> SUBSET FD] /\ ready' \in [Worker -> SUBSET FD]
           /\ strayClose' \in BOOLEAN
           /\ StillAccepted
<1>1. fdtab' \in [FD -> Client \cup Worker \cup {None}]
    BY DEF Close, TypeOK
<1>2. conn' \in [Client -> {"idle", "backlog", "open", "closed"}] /\ StillAccepted
    BY DEF Close, TypeOK, StillAccepted, Accepted
<1>3. interest' \in [Worker -> SUBSET FD] /\ ready' \in [Worker -> SUBSET FD]
    BY DEF Close, TypeOK
<1>4. strayClose' \in BOOLEAN
    BY DEF Close
<1> QED BY <1>1, <1>2, <1>3, <1>4

\* The listener gives a connection up: fcntl failed, no worker has room, or
\* addEvent failed.
LEMMA GiveUpCore ==
    ASSUME Core, LFcntlFails \/ LNoWorker \/ LCloseClient
    PROVE  Core'
<1>1. /\ lpc \in {"fcntl", "running", "close"} /\ lpc' = "accept"
      /\ Close(lfd, lconn)
      /\ UNCHANGED <<left, unread, fin, lready, shared, lconn, lfd, idx, order,
                     threads, assigned, skipped, missed>>
    BY DEF LFcntlFails, LNoWorker, LCloseClient
<1>2. lfd \in FD
    BY <1>1 DEF Core, ListenerState, Free
<1>3. /\ fdtab' \in [FD -> Client \cup Worker \cup {None}]
      /\ conn' \in [Client -> {"idle", "backlog", "open", "closed"}]
      /\ interest' \in [Worker -> SUBSET FD] /\ ready' \in [Worker -> SUBSET FD]
      /\ strayClose' \in BOOLEAN
      /\ StillAccepted
    BY <1>1, <1>2, CloseKeeps DEF Core
<1>4. TypeOK'
  <2>1. lpc' \in LPC
      BY <1>1 DEF LPC, Free
  <2> QED BY <1>1, <1>3, <2>1 DEF Core, TypeOK, shared, threads
<1>5. ListenerState'
    BY <1>1 DEF ListenerState, Made, Alone, Raw, Free
<1>6. LockState'
    BY <1>1 DEF Core, LockState, shared, threads
<1>7. RoomKept'
    BY <1>1 DEF Core, RoomKept, WithinCapacity, HasRoom, activeFDS, shared
<1> QED BY <1>1, <1>3, <1>4, <1>5, <1>6, <1>7, BudgetKept, EventStateKept, ThreadStateKept
        DEF Core, shared, threads

\* The Event of a connection nobody else knows of.
LEMMA MakeEventCore ==
    ASSUME Core, LMakeEvent
    PROVE  Core'
<1>1. /\ lpc = "event" /\ lpc' = "addRoom"
      /\ evFD' = [evFD EXCEPT ![lconn] = lfd]
      /\ evWorker' = [evWorker EXCEPT ![lconn] = order[idx]]
      /\ UNCHANGED <<kernel, events, lock, running, lconn, lfd, idx, order,
                     threads, history>>
    BY DEF LMakeEvent
<1>2. /\ idx \in 1..Cardinality(Worker) /\ order[idx] \in Worker
      /\ lconn \in Client /\ lfd \in FD
    BY <1>1, CurrentWorker DEF Core, ListenerState, Free
<1>3. TypeOK'
  <2>1. lpc' \in LPC
      BY <1>1 DEF LPC, Free
  <2>2. evFD' \in [Client -> FD \cup {None}] /\ evWorker' \in [Client -> Worker \cup {None}]
      BY <1>1, <1>2 DEF Core, TypeOK
  <2> QED BY <1>1, <2>1, <2>2 DEF Core, TypeOK, kernel, threads, history
<1>4. ~InMap(lconn) /\ \A w \in Worker : lconn \notin batch[w]
    BY <1>1 DEF Core, ListenerState, Alone, Raw
<1>5. ListenerState'
  <2>1. /\ lconn' \in Client /\ lfd' \in FD /\ Accepted(lconn)'
        /\ idx' <= Cardinality(Worker)
      BY <1>1, <1>2 DEF Core, ListenerState, Accepted, Free, kernel
  <2>2. evFD'[lconn'] = lfd' /\ evWorker'[lconn'] = order'[idx']
      BY <1>1, <1>2 DEF Core, TypeOK
  <2>3. ~InMap(lconn)' /\ \A w \in Worker : lconn' \notin batch'[w]
      BY <1>1, <1>4 DEF InMap, threads
  <2> QED BY <1>1, <2>1, <2>2, <2>3 DEF ListenerState
<1>6. EventState'
  <2>1. \A c \in Client : Accepted(c)' <=> Accepted(c)
      BY <1>1 DEF Accepted, kernel
  <2>2. \A w \in Worker, fd \in FD : events[w][fd] # None =>
           events[w][fd] \in Client \ {lconn}
      BY <1>4 DEF InMap, Core, TypeOK
  <2>3. \A c \in Client \ {lconn} : evFD'[c] = evFD[c] /\ evWorker'[c] = evWorker[c]
      BY <1>1 DEF Core, TypeOK
  <2>4. \A w \in Worker : batch[w] \subseteq Client \ {lconn}
      BY <1>4 DEF Core, TypeOK
  <2> QED BY <1>1, <2>1, <2>2, <2>3, <2>4 DEF Core, EventState, threads
<1>7. LockState'
    BY <1>1 DEF Core, LockState, threads
<1>8. RoomKept'
    BY <1>1 DEF Core, RoomKept, WithinCapacity, HasRoom, activeFDS
<1> QED BY <1>1, <1>3, <1>5, <1>6, <1>7, <1>8, BudgetKept, ThreadStateKept
        DEF Core, kernel, threads

\* The listener registers the descriptor and holds the lock.
LEMMA CtlAddCore ==
    ASSUME Core, LCtlAdd
    PROVE  Core'
<1>1. idx \in 1..Cardinality(Worker) /\ order[idx] \in Worker
      /\ lpc = "ctl"
    BY CurrentWorker DEF LCtlAdd, Core, Made
<1>2. PICK v \in Worker : v = order[idx]
    BY <1>1
<1>3. /\ lpc = "ctl" /\ lock[v] = None /\ lpc' = "insert"
      /\ lock' = [lock EXCEPT ![v] = Listener]
      /\ interest' = [interest EXCEPT ![v] = @ \cup {lfd}]
      /\ ready' = [ready EXCEPT ![v] = IF Readable(lconn) THEN @ \cup {lfd} ELSE @]
      /\ UNCHANGED <<fdtab, conn, left, unread, fin, lready, events, evFD,
                     evWorker, running, lconn, lfd, idx, order, threads, history>>
    BY <1>2 DEF LCtlAdd
<1>4. TypeOK'
  <2>1. lpc' \in LPC /\ lfd \in FD
      BY <1>3 DEF LPC, Free, Core, ListenerState
  <2>2. interest' \in [Worker -> SUBSET FD] /\ ready' \in [Worker -> SUBSET FD]
      BY <1>3, <2>1 DEF Core, TypeOK
  <2>3. lock' \in [Worker -> Thread \cup {None}]
      BY <1>3 DEF Core, TypeOK, Thread
  <2> QED BY <1>3, <2>1, <2>2, <2>3 DEF Core, TypeOK, threads, history
<1>5. ListenerState'
    BY <1>3 DEF Core, ListenerState, InMap, Accepted, Made, Alone, Free, threads
<1>6. LockState'
  <2>1. \A w \in Worker : lock[w] # Listener
      BY <1>3 DEF Core, LockState
  <2>2. pc[v] # "delerase" /\ v # Listener
      BY <1>3, ReactorAssumption DEF Core, LockState
  <2> QED BY <1>2, <1>3, <2>1, <2>2 DEF Core, TypeOK, LockState, threads
<1>7. RoomKept'
    BY <1>3 DEF Core, RoomKept, WithinCapacity, HasRoom, activeFDS
<1>8. StillAccepted
    BY <1>3 DEF StillAccepted, Accepted
<1> QED BY <1>3, <1>4, <1>5, <1>6, <1>7, <1>8, BudgetKept, EventStateKept, ThreadStateKept
        DEF Core, threads

\* The registered descriptors of a worker are finitely many.
LEMMA RegisteredFinite ==
    ASSUME TypeOK, NEW w \in Worker
    PROVE  IsFiniteSet(Registered(w)) /\ activeFDS(w) = Cardinality(Registered(w))
           /\ activeFDS(w) \in Nat
<1>1. Registered(w) \in SUBSET FD /\ IsFiniteSet(FD)
    BY ReactorAssumption DEF Registered
<1>2. IsFiniteSet(Registered(w))
    BY <1>1, FS_Subset
<1> QED BY <1>2, FS_CardinalityType DEF Registered, activeFDS

\* The Event enters the map: there is still the room the listener has seen.
LEMMA InsertCore ==
    ASSUME Core, LInsert
    PROVE  Core'
<1>1. idx \in 1..Cardinality(Worker) /\ order[idx] \in Worker
    BY CurrentWorker DEF LInsert, Core, Made
<1>2. PICK v \in Worker : v = order[idx]
    BY <1>1
<1>3. /\ lpc = "insert" /\ lpc' = "release"
      /\ events' = [events EXCEPT ![v][lfd] = lconn]
      /\ lock' = [lock EXCEPT ![v] = None]
      /\ assigned' = [assigned EXCEPT ![v] = @ + 1]
      /\ UNCHANGED <<kernel, evFD, evWorker, running, lconn, lfd, idx, order,
                     threads, strayClose, skipped, missed>>
    BY <1>2 DEF LInsert
<1>4. /\ lconn \in Client /\ lfd \in FD /\ Accepted(lconn)
      /\ evFD[lconn] = lfd /\ evWorker[lconn] = v
    BY <1>2, <1>3 DEF Core, ListenerState, Made, Free
<1>5. /\ events' \in [Worker -> [FD -> Client \cup {None}]]
      /\ \A w \in Worker, fd \in FD :
            events'[w][fd] = IF w = v /\ fd = lfd THEN lconn ELSE events[w][fd]
    BY <1>3, <1>4 DEF Core, TypeOK
<1>6. TypeOK'
  <2>1. lpc' \in LPC
      BY <1>3 DEF LPC, Free
  <2>2. lock' \in [Worker -> Thread \cup {None}] /\ assigned' \in [Worker -> Nat]
      BY <1>3 DEF Core, TypeOK
  <2> QED BY <1>3, <1>5, <2>1, <2>2 DEF Core, TypeOK, kernel, threads
<1>7. ListenerState'
    BY <1>3 DEF Core, ListenerState, Accepted, Made, Alone, Raw, Free, kernel
<1>8. EventState'
  <2>1. \A c \in Client : Accepted(c)' <=> Accepted(c)
      BY <1>3 DEF Accepted, kernel
  <2>2. ASSUME NEW w \in Worker, NEW fd \in FD, events'[w][fd] # None
        PROVE  /\ evFD'[events'[w][fd]] = fd /\ evWorker'[events'[w][fd]] = w
               /\ events'[w][fd] \in Client /\ Accepted(events'[w][fd])
    <3>1. CASE w = v /\ fd = lfd
        BY <1>3, <1>4, <1>5, <3>1
    <3>2. CASE ~(w = v /\ fd = lfd)
        BY <1>3, <1>5, <2>2, <3>2 DEF Core, EventState, TypeOK
    <3> QED BY <3>1, <3>2
  <2>3. ASSUME NEW w \in Worker, NEW c \in batch'[w]
        PROVE  evFD'[c] \in FD /\ evWorker'[c] = w /\ c \in Client /\ Accepted(c)
      BY <1>3 DEF Core, EventState, TypeOK, threads
  <2> QED BY <1>3, <2>1, <2>2, <2>3 DEF EventState, Accepted, kernel
<1>9. LockState'
  <2>1. v # Listener /\ None # Listener /\ pc[v] # "delerase"
      BY <1>2, <1>3, ReactorAssumption DEF Core, LockState
  <2>2. \A w \in Worker \ {v} : lock[w] # Listener /\ lock'[w] = lock[w]
      BY <1>2, <1>3 DEF Core, TypeOK, LockState
  <2>3. lock'[v] = None /\ None # v
      BY <1>3, ReactorAssumption DEF Core, TypeOK
  <2> QED BY <1>2, <1>3, <2>1, <2>2, <2>3 DEF Core, LockState, threads
<1>10. RoomKept'
  <2>1. ASSUME NEW w \in Worker PROVE activeFDS(w)' <= MaxFDS
    <3>1. CASE w = v
      <4>1. Registered(v)' = Registered(v) \cup {lfd}
          BY <1>4, <1>5, ReactorAssumption DEF Registered
      <4>2. Cardinality(Registered(v)') <= Cardinality(Registered(v)) + 1
        <5>1. IsFiniteSet(Registered(v)) /\ Cardinality(Registered(v)) \in Nat
            BY RegisteredFinite DEF Core
        <5>2. Cardinality(Registered(v) \cup {lfd}) =
                 IF lfd \in Registered(v) THEN Cardinality(Registered(v))
                 ELSE Cardinality(Registered(v)) + 1
            BY <5>1, FS_AddElement
        <5> QED BY <4>1, <5>1, <5>2
      <4>3. activeFDS(v) < MaxFDS
          BY <1>2, <1>3 DEF Core, RoomKept, HasRoom
      <4>4. activeFDS(v) = Cardinality(Registered(v)) /\ activeFDS(v) \in Nat
          BY RegisteredFinite DEF Core
      <4>5. activeFDS(v)' = Cardinality(Registered(v)') /\ activeFDS(v)' \in Nat
        <5>1. IsFiniteSet(Registered(v)')
            BY <4>1, RegisteredFinite, FS_AddElement DEF Core
        <5> QED BY <5>1, FS_CardinalityType DEF activeFDS, Registered
      <4> QED BY <3>1, <4>2, <4>3, <4>4, <4>5, ReactorAssumption
    <3>2. CASE w # v
      <4>1. Registered(w)' = Registered(w)
          BY <1>5, <3>2 DEF Registered
      <4> QED BY <4>1 DEF Core, RoomKept, WithinCapacity, activeFDS, Registered
    <3> QED BY <3>1, <3>2
  <2> QED BY <1>3, <2>1 DEF RoomKept, WithinCapacity
<1> QED BY <1>3, <1>6, <1>7, <1>8, <1>9, <1>10, BudgetKept, ThreadStateKept
        DEF Core, kernel, threads

\* Destroying the Event of c disturbs nobody when nobody holds it.
LEMMA DestroyKeeps ==
    ASSUME Core, NEW c \in Client, evFD[c] \in FD, KeepEvent \/ DestroyEvent(c)
    PROVE  /\ fdtab' \in [FD -> Client \cup Worker \cup {None}]
           /\ conn' \in [Client -> {"idle", "backlog", "open", "closed"}]
           /\ interest' \in [Worker -> SUBSET FD] /\ ready' \in [Worker -> SUBSET FD]
           /\ strayClose' \in BOOLEAN
           /\ StillAccepted
           /\ evWorker' \in [Client -> Worker \cup {None}]
           /\ \A d \in Client \ {c} : evWorker'[d] = evWorker[d]
<1>1. CASE KeepEvent
    BY <1>1 DEF KeepEvent, NoClose, Core, TypeOK, StillAccepted, Accepted
<1>2. CASE DestroyEvent(c)
  <2>1. Close(evFD[c], c) /\ evWorker' = [evWorker EXCEPT ![c] = None]
      BY <1>2 DEF DestroyEvent
  <2>2. /\ evWorker' \in [Client -> Worker \cup {None}]
        /\ \A d \in Client \ {c} : evWorker'[d] = evWorker[d]
      BY <2>1 DEF Core, TypeOK
  <2> QED BY <2>1, <2>2, CloseKeeps DEF Core
<1> QED BY <1>1, <1>2

\* The listener drops its reference and puts the worker at the tail.
LEMMA ReleaseCore ==
    ASSUME Core, LRelease
    PROVE  Core'
<1>1. /\ lpc = "release" /\ lpc' = "accept"
      /\ order' = Rotated(order, idx)
      /\ UNCHANGED <<left, unread, fin, lready, events, lock, evFD, running,
                     lconn, lfd, idx, threads, assigned, skipped, missed>>
    BY DEF LRelease
<1>2. /\ idx \in 1..Cardinality(Worker) /\ order[idx] \in Worker
      /\ lconn \in Client /\ lfd \in FD /\ evFD[lconn] = lfd
    BY <1>1, CurrentWorker DEF Core, ListenerState, Made, Free
<1>3. \/ KeepEvent
      \/ DestroyEvent(lconn) /\ ~InMap(lconn) /\ \A w \in Worker : lconn \notin batch[w]
    BY DEF LRelease
<1>4. /\ fdtab' \in [FD -> Client \cup Worker \cup {None}]
      /\ conn' \in [Client -> {"idle", "backlog", "open", "closed"}]
      /\ interest' \in [Worker -> SUBSET FD] /\ ready' \in [Worker -> SUBSET FD]
      /\ strayClose' \in BOOLEAN
      /\ StillAccepted
      /\ evWorker' \in [Client -> Worker \cup {None}]
      /\ \A d \in Client \ {lconn} : evWorker'[d] = evWorker[d]
    BY <1>2, <1>3, DestroyKeeps
<1>5. TypeOK'
  <2>1. lpc' \in LPC
      BY <1>1 DEF LPC, Free
  <2>2. order' \in [1..Cardinality(Worker) -> Worker]
      BY <1>1, <1>2, RotatedProperties DEF Core, TypeOK
  <2> QED BY <1>1, <1>4, <2>1, <2>2 DEF Core, TypeOK, threads
<1>6. ListenerState'
    BY <1>1 DEF ListenerState, Made, Alone, Raw, Free
<1>7. EventState'
  <2>1. CASE KeepEvent
      BY <1>1, <1>4, <2>1, EventStateKept DEF KeepEvent, Core, threads
  <2>2. CASE ~InMap(lconn) /\ \A w \in Worker : lconn \notin batch[w]
    <3>1. \A w \in Worker, fd \in FD : events[w][fd] # None =>
             events[w][fd] \in Client \ {lconn}
        BY <2>2 DEF InMap, Core, TypeOK
    <3>2. \A w \in Worker : batch[w] \subseteq Client \ {lconn}
        BY <2>2 DEF Core, TypeOK
    <3> QED BY <1>1, <1>4, <3>1, <3>2 DEF Core, EventState, StillAccepted, Accepted, threads
  <2> QED BY <1>3, <2>1, <2>2
<1>8. LockState'
    BY <1>1 DEF Core, LockState, threads
<1>9. RoomKept'
    BY <1>1 DEF Core, RoomKept, WithinCapacity, activeFDS
<1> QED BY <1>1, <1>5, <1>6, <1>7, <1>8, <1>9, BudgetKept, ThreadStateKept
        DEF Core, threads

\* addEvent failed: the Event nobody else holds is destroyed.
LEMMA AddFailedCore ==
    ASSUME Core, LAddFailed
    PROVE  Core'
<1>1. /\ lpc = "failed" /\ lpc' = "close" /\ DestroyEvent(lconn)
      /\ UNCHANGED <<left, unread, fin, lready, events, lock, evFD, running,
                     lconn, lfd, idx, order, threads, assigned, skipped, missed>>
    BY DEF LAddFailed
<1>2. /\ lconn \in Client /\ lfd \in FD /\ evFD[lconn] = lfd /\ Accepted(lconn)
      /\ ~InMap(lconn) /\ \A w \in Worker : lconn \notin batch[w]
      /\ CallMayFail
    BY <1>1 DEF Core, ListenerState, Made, Alone, Free
<1>3. /\ fdtab' \in [FD -> Client \cup Worker \cup {None}]
      /\ conn' \in [Client -> {"idle", "backlog", "open", "closed"}]
      /\ interest' \in [Worker -> SUBSET FD] /\ ready' \in [Worker -> SUBSET FD]
      /\ strayClose' \in BOOLEAN
      /\ StillAccepted
      /\ evWorker' \in [Client -> Worker \cup {None}]
      /\ \A d \in Client \ {lconn} : evWorker'[d] = evWorker[d]
    BY <1>1, <1>2, DestroyKeeps
<1>4. TypeOK'
  <2>1. lpc' \in LPC
      BY <1>1 DEF LPC, Free
  <2> QED BY <1>1, <1>3, <2>1 DEF Core, TypeOK, threads
<1>5. ListenerState'
  <2>1. Accepted(lconn)'
      BY <1>1, <1>2, <1>3 DEF StillAccepted, Accepted
  <2>2. ~InMap(lconn)' /\ \A w \in Worker : lconn' \notin batch'[w]
      BY <1>1, <1>2 DEF InMap, threads
  <2> QED BY <1>1, <1>2, <2>1, <2>2 DEF ListenerState, Made
<1>6. EventState'
  <2>1. \A w \in Worker, fd \in FD : events[w][fd] # None =>
           events[w][fd] \in Client \ {lconn}
      BY <1>2 DEF InMap, Core, TypeOK
  <2>2. \A w \in Worker : batch[w] \subseteq Client \ {lconn}
      BY <1>2 DEF Core, TypeOK
  <2> QED BY <1>1, <1>3, <2>1, <2>2 DEF Core, EventState, StillAccepted, Accepted, threads
<1>7. LockState'
    BY <1>1 DEF Core, LockState, threads
<1>8. RoomKept'
    BY <1>1 DEF Core, RoomKept, WithinCapacity, activeFDS
<1> QED BY <1>1, <1>4, <1>5, <1>6, <1>7, <1>8, BudgetKept, ThreadStateKept
        DEF Core, threads

\* A worker's thread moves on and hands nothing over.
LEMMA MoveCore ==
    ASSUME Core, NEW w \in Worker, NEW next \in WPC, Goto(w, next),
           pc[w] # "delerase" /\ next # "delerase",
           UNCHANGED <<listener, events, evFD, evWorker, lock, batch>>,
           TypeOK', Budget', StillAccepted, ThreadState'
    PROVE  Core'
<1>1. LockState'
  <2>1. \A v \in Worker : pc'[v] = "delerase" <=> pc[v] = "delerase"
      BY DEF Goto, Core, TypeOK
  <2> QED BY <2>1 DEF Core, LockState, listener
<1> QED BY <1>1, ListenerStateKept, EventStateKept, RoomKeptKept DEF Core, listener

\* What a thread has in hand stays in order when it moves on.
LEMMA ThreadMoves ==
    ASSUME TypeOK, ThreadState, NEW w \in Worker, NEW next \in WPC, Goto(w, next),
           UNCHANGED batch,
           \A v \in Worker \ {w} : /\ accepted'[v] = accepted[v] /\ todo'[v] = todo[v]
                                   /\ cur'[v] = cur[v],
           todo'[w] \subseteq batch[w],
           next \in Handling => cur'[w] \in batch[w],
           next \notin {"handle", "return", "clear"} \cup Handling => batch[w] = {},
           next \notin {"handle", "return"} \cup Handling => todo'[w] = {},
           next # "collect" => accepted'[w] = {}
    PROVE  ThreadState'
<1>1. pc'[w] = next /\ \A v \in Worker \ {w} : pc'[v] = pc[v]
    BY DEF Goto, TypeOK
<1> SUFFICES ASSUME NEW v \in Worker
             PROVE  /\ todo'[v] \subseteq batch'[v]
                    /\ pc'[v] \in Handling => cur'[v] \in batch'[v]
                    /\ pc'[v] \notin {"handle", "return", "clear"} \cup Handling => batch'[v] = {}
                    /\ pc'[v] \notin {"handle", "return"} \cup Handling => todo'[v] = {}
                    /\ pc'[v] # "collect" => accepted'[v] = {}
    BY DEF ThreadState
<1>2. CASE v = w
    BY <1>1, <1>2
<1>3. CASE v # w
    BY <1>1, <1>3 DEF ThreadState
<1> QED BY <1>2, <1>3

\* The steps of the loop of Worker::run that touch only its control.
LEMMA LoopCore ==
    ASSUME Core, NEW w \in Worker,
           WCheck(w) \/ WWaitFails(w) \/ WEof(w) \/ WCleared(w) \/ WExit(w)
    PROVE  Core'
<1>1. PICK next \in {"wait", "exit", "delctl", "check", "done"} :
         /\ Goto(w, next)
         /\ next = "delctl" => pc[w] = "recv"
         /\ next # "delctl" => pc[w] \in {"check", "wait", "clear", "exit"}
         /\ pc[w] = "clear" => batch[w] = {}
    BY DEF WCheck, WWaitFails, WEof, WCleared, WExit
<1>2. /\ UNCHANGED <<kernel, events, lock, evFD, evWorker, listener, accepted, batch,
                     todo, cur, wfile, wnew, history>>
      /\ running' = running \/ running' = [running EXCEPT ![w] = FALSE]
    BY DEF WCheck, WWaitFails, WEof, WCleared, WExit, shared
<1>3. next \in WPC /\ next # "delerase" /\ pc[w] # "delerase"
    BY <1>1 DEF WPC, Handling
<1>4. TypeOK'
  <2>1. pc' \in [Worker -> WPC]
      BY <1>1, <1>3 DEF Goto, Core, TypeOK
  <2>2. running' \in [Thread -> BOOLEAN]
      BY <1>2, Zenon DEF Core, TypeOK, Thread
  <2> QED BY <1>2, <2>1, <2>2 DEF Core, TypeOK, kernel, listener, history
<1>5. ThreadState'
  <2>1. /\ todo[w] \subseteq batch[w] /\ accepted[w] = {}
        /\ next = "delctl" => cur[w] \in batch[w]
        /\ next # "delctl" => batch[w] = {} /\ todo[w] = {}
      BY <1>1 DEF Core, ThreadState, Handling
  <2> QED BY <1>1, <1>2, <1>3, <2>1, ThreadMoves DEF Core, Handling
<1>6. StillAccepted
    BY <1>2 DEF StillAccepted, Accepted, kernel
<1>7. Budget'
    BY <1>2, BudgetKept DEF Core, kernel
<1> QED BY <1>1, <1>2, <1>3, <1>4, <1>5, <1>6, <1>7, MoveCore

\* Worker::stop changes nothing but the flag.
LEMMA StopCore ==
    ASSUME Core, NEW t \in Thread, Stop(t)
    PROVE  Core'
<1>1. /\ running' = [running EXCEPT ![t] = FALSE]
      /\ UNCHANGED <<kernel, events, lock, evFD, evWorker, listener, threads, history>>
    BY DEF Stop
<1>2. TypeOK'
  <2>1. running' \in [Thread -> BOOLEAN]
      BY <1>1, Zenon DEF Core, TypeOK
  <2> QED BY <1>1, <2>1 DEF Core, TypeOK, kernel, listener, threads, history
<1>3. StillAccepted
    BY <1>1 DEF StillAccepted, Accepted, kernel
<1> QED BY <1>1, <1>2, <1>3, BudgetKept, ListenerStateKept, EventStateKept,
           ThreadStateKept, LockStateKept, RoomKeptKept
        DEF Core, kernel, listener, threads

\* epoll_wait returns what is ready.
LEMMA WaitCore ==
    ASSUME Core, NEW w \in Worker, WWait(w)
    PROVE  Core'
<1>1. /\ pc[w] = "wait" /\ Goto(w, "collect")
      /\ accepted' = [accepted EXCEPT ![w] = ready[w]]
      /\ ready' = [ready EXCEPT ![w] = {}]
      /\ UNCHANGED <<fdtab, conn, left, unread, fin, interest, lready,
                     shared, listener, batch, todo, cur, wfile, wnew, history>>
    BY DEF WWait
<1>2. "collect" \in WPC
    BY DEF WPC
<1>3. TypeOK'
  <2>1. pc' \in [Worker -> WPC]
      BY <1>1, <1>2 DEF Goto, Core, TypeOK
  <2>2. accepted' \in [Worker -> SUBSET FD] /\ ready' \in [Worker -> SUBSET FD]
      BY <1>1 DEF Core, TypeOK
  <2> QED BY <1>1, <2>1, <2>2 DEF Core, TypeOK, shared, listener, history
<1>4. ThreadState'
  <2>1. batch[w] = {} /\ todo[w] = {}
      BY <1>1 DEF Core, ThreadState, Handling
  <2>2. \A v \in Worker \ {w} : accepted'[v] = accepted[v]
      BY <1>1 DEF Core, TypeOK
  <2>3. "collect" \notin Handling
      BY DEF Handling
  <2> QED BY <1>1, <1>2, <2>1, <2>2, <2>3, ThreadMoves DEF Core
<1>5. StillAccepted /\ Budget'
    BY <1>1, BudgetKept DEF StillAccepted, Accepted, Core
<1> QED BY <1>1, <1>2, <1>3, <1>4, <1>5, MoveCore DEF shared

\* The thread takes the next event of its batch, or has no more.
LEMMA HandleCore ==
    ASSUME Core, NEW w \in Worker, WHandle(w) \/ WHandled(w)
    PROVE  Core'
<1>1. PICK next \in {"recv", "clear"}, c \in Client \cup {None} :
         /\ Goto(w, next) /\ pc[w] = "handle"
         /\ cur' = [cur EXCEPT ![w] = c]
         /\ todo' = [todo EXCEPT ![w] = @ \ {c}]
         /\ next = "recv" => c \in todo[w]
         /\ next = "clear" => todo[w] = {}
         /\ UNCHANGED <<kernel, shared, listener, accepted, batch, wfile, wnew, history>>
  <2>1. CASE WHandle(w)
    <3>1. PICK c \in todo[w] : /\ cur' = [cur EXCEPT ![w] = c]
                               /\ todo' = [todo EXCEPT ![w] = @ \ {c}]
        BY <2>1 DEF WHandle
    <3>2. c \in Client
        BY DEF Core, TypeOK
    <3> QED BY <2>1, <3>1, <3>2 DEF WHandle
  <2>2. CASE WHandled(w)
    <3>1. todo[w] = {} /\ todo' = todo /\ cur' = [cur EXCEPT ![w] = None]
        BY <2>2 DEF WHandled
    <3>2. todo' = [todo EXCEPT ![w] = @ \ {None}]
        BY <3>1 DEF Core, TypeOK
    <3> QED BY <2>2, <3>1, <3>2 DEF WHandled
  <2> QED BY <2>1, <2>2
<1>2. next \in WPC /\ next # "delerase"
    BY DEF WPC, Handling
<1>3. TypeOK'
  <2>1. pc' \in [Worker -> WPC]
      BY <1>1, <1>2 DEF Goto, Core, TypeOK
  <2>2. todo' \in [Worker -> SUBSET Client] /\ cur' \in [Worker -> Client \cup {None}]
      BY <1>1 DEF Core, TypeOK
  <2> QED BY <1>1, <2>1, <2>2 DEF Core, TypeOK, kernel, shared, listener, history
<1>4. ThreadState'
  <2>1. todo[w] \subseteq batch[w] /\ accepted[w] = {}
      BY <1>1 DEF Core, ThreadState
  <2>2. /\ todo'[w] = todo[w] \ {c} /\ cur'[w] = c
        /\ \A v \in Worker \ {w} : todo'[v] = todo[v] /\ cur'[v] = cur[v]
      BY <1>1 DEF Core, TypeOK
  <2> QED BY <1>1, <1>2, <2>1, <2>2, ThreadMoves DEF Core, Handling
<1>5. StillAccepted /\ Budget'
    BY <1>1, BudgetKept DEF StillAccepted, Accepted, Core, kernel
<1> QED BY <1>1, <1>2, <1>3, <1>4, <1>5, MoveCore DEF shared

\* A request is read.
LEMMA RecvCore ==
    ASSUME Core, NEW w \in Worker, WRecv(w)
    PROVE  Core'
<1>1. PICK x \in Client, next \in {"open", "recv", "spin"} :
         /\ pc[w] = "recv" /\ Goto(w, next)
         /\ x = Peer(cur[w]) /\ unread[x] > 0
         /\ unread' = [unread EXCEPT ![x] = @ - 1]
         /\ UNCHANGED <<fdtab, conn, left, fin, interest, ready, lready, shared,
                        listener, accepted, batch, todo, cur, wfile, wnew, history>>
    BY DEF WRecv
<1>2. next \in WPC /\ next # "delerase" /\ next \in Handling
    BY DEF WPC, Handling
<1>3. unread' \in [Client -> Nat] /\ Budget'
  <2>1. unread[x] \in Nat \ {0}
      BY <1>1 DEF Core, TypeOK
  <2>2. unread' \in [Client -> Nat]
      BY <1>1, <2>1 DEF Core, TypeOK
  <2>3. ASSUME NEW d \in Client PROVE left'[d] + unread'[d] <= MaxReq[d]
    <3>1. left[d] \in Nat /\ unread[d] \in Nat /\ MaxReq[d] \in Nat
        BY ReactorAssumption DEF Core, TypeOK
    <3>2. left[d] + unread[d] <= MaxReq[d]
        BY DEF Core, Budget
    <3>3. left'[d] = left[d] /\ unread'[d] = IF d = x THEN unread[d] - 1 ELSE unread[d]
        BY <1>1 DEF Core, TypeOK
    <3> QED BY <3>1, <3>2, <3>3
  <2> QED BY <2>2, <2>3 DEF Budget
<1>4. TypeOK'
  <2>1. pc' \in [Worker -> WPC]
      BY <1>1, <1>2 DEF Goto, Core, TypeOK
  <2> QED BY <1>1, <1>3, <2>1 DEF Core, TypeOK, shared, listener, history
<1>5. ThreadState'
  <2>1. todo[w] \subseteq batch[w] /\ accepted[w] = {} /\ cur[w] \in batch[w]
      BY <1>1 DEF Core, ThreadState, Handling
  <2> QED BY <1>1, <1>2, <2>1, ThreadMoves DEF Core
<1>6. StillAccepted
    BY <1>1 DEF StillAccepted, Accepted
<1> QED BY <1>1, <1>2, <1>3, <1>4, <1>5, <1>6, MoveCore DEF shared

\* The resource file is opened, or there is none to open.
LEMMA OpenCore ==
    ASSUME Core, NEW w \in Worker, WOpen(w)
    PROVE  Core'
<1>1. /\ pc[w] = "open" /\ Goto(w, "reply")
      /\ UNCHANGED <<conn, left, unread, fin, interest, ready, lready,
                     shared, listener, accepted, batch, todo, cur, wfile, history>>
    BY DEF WOpen
<1>2. "reply" \in WPC /\ "reply" \in Handling
    BY DEF WPC, Handling
<1>3. /\ fdtab' \in [FD -> Client \cup Worker \cup {None}]
      /\ wnew' \in [Worker -> FD \cup {None}]
  <2>1. CASE UNCHANGED <<fdtab, wnew>>
      BY <2>1 DEF Core, TypeOK
  <2>2. CASE ~UNCHANGED <<fdtab, wnew>>
    <3>1. PICK fd \in FreeFD : /\ fdtab' = [fdtab EXCEPT ![fd] = w]
                               /\ wnew' = [wnew EXCEPT ![w] = fd]
        BY <2>2 DEF WOpen
    <3> QED BY <3>1 DEF FreeFD, Core, TypeOK
  <2> QED BY <2>1, <2>2
<1>4. TypeOK'
  <2>1. pc' \in [Worker -> WPC]
      BY <1>1, <1>2 DEF Goto, Core, TypeOK
  <2> QED BY <1>1, <1>3, <2>1 DEF Core, TypeOK, shared, listener, history
<1>5. ThreadState'
  <2>1. todo[w] \subseteq batch[w] /\ accepted[w] = {} /\ cur[w] \in batch[w]
      BY <1>1 DEF Core, ThreadState, Handling
  <2> QED BY <1>1, <1>2, <2>1, ThreadMoves DEF Core
<1>6. StillAccepted /\ Budget'
    BY <1>1, BudgetKept DEF StillAccepted, Accepted, Core
<1> QED BY <1>1, <1>2, <1>4, <1>5, <1>6, MoveCore DEF shared

\* Dropping a response keeps the types and makes no connection unaccepted.
LEMMA DropKeeps ==
    ASSUME TypeOK, NEW w \in Worker, DropResponse(w)
    PROVE  /\ fdtab' \in [FD -> Client \cup Worker \cup {None}]
           /\ conn' \in [Client -> {"idle", "backlog", "open", "closed"}]
           /\ interest' \in [Worker -> SUBSET FD] /\ ready' \in [Worker -> SUBSET FD]
           /\ strayClose' \in BOOLEAN
           /\ StillAccepted
<1>1. CASE wfile[w] = None
    BY <1>1 DEF DropResponse, NoClose, TypeOK, StillAccepted, Accepted
<1>2. CASE wfile[w] # None
  <2>1. wfile[w] \in FD /\ Close(wfile[w], w)
      BY <1>2 DEF DropResponse, TypeOK
  <2> QED BY <2>1, CloseKeeps
<1> QED BY <1>1, <1>2

\* The previous response is dropped, in favour of the new one or when handle returns.
LEMMA ReplyCore ==
    ASSUME Core, NEW w \in Worker, WReply(w) \/ WReturn(w)
    PROVE  Core'
<1>1. PICK next \in {"recv", "handle"} :
         /\ Goto(w, next)
         /\ next = "recv" => pc[w] = "reply"
         /\ next = "handle" => pc[w] = "return"
    BY DEF WReply, WReturn
<1>2. /\ wfile' = [wfile EXCEPT ![w] = wnew[w]] \/ wfile' = [wfile EXCEPT ![w] = None]
      /\ wnew' = [wnew EXCEPT ![w] = None] \/ wnew' = wnew
      /\ DropResponse(w)
      /\ UNCHANGED <<left, unread, fin, lready, shared, listener,
                     accepted, batch, todo, cur, assigned, skipped, missed>>
    BY DEF WReply, WReturn
<1>3. next \in WPC /\ next # "delerase" /\ pc[w] # "delerase"
    BY <1>1 DEF WPC, Handling
<1>4. TypeOK'
  <2>1. pc' \in [Worker -> WPC]
      BY <1>1, <1>3 DEF Goto, Core, TypeOK
  <2>2. wfile' \in [Worker -> FD \cup {None}] /\ wnew' \in [Worker -> FD \cup {None}]
    <3>1. wnew[w] \in FD \cup {None} /\ None \in FD \cup {None}
        BY DEF Core, TypeOK
    <3>2. wfile' \in [Worker -> FD \cup {None}]
        BY <1>2, <3>1 DEF Core, TypeOK
    <3>3. wnew' \in [Worker -> FD \cup {None}]
        BY <1>2, <3>1 DEF Core, TypeOK
    <3> QED BY <3>2, <3>3
  <2> QED BY <1>2, <2>1, <2>2, DropKeeps DEF Core, TypeOK, shared, listener
<1>5. ThreadState'
  <2>1. /\ todo[w] \subseteq batch[w] /\ accepted[w] = {}
        /\ next = "recv" => cur[w] \in batch[w]
      BY <1>1 DEF Core, ThreadState, Handling
  <2> QED BY <1>1, <1>2, <1>3, <2>1, ThreadMoves DEF Core, Handling
<1>6. StillAccepted /\ Budget'
    BY <1>2, BudgetKept, DropKeeps DEF Core
<1> QED BY <1>1, <1>2, <1>3, <1>4, <1>5, <1>6, MoveCore DEF shared

\* What epollWait finds in the map becomes the batch.
LEMMA CollectCore ==
    ASSUME Core, NEW w \in Worker, WCollect(w)
    PROVE  Core'
<1>1. /\ pc[w] = "collect" /\ Goto(w, "handle")
      /\ batch' = [batch EXCEPT ![w] = Found(w)]
      /\ todo' = [todo EXCEPT ![w] = Found(w)]
      /\ accepted' = [accepted EXCEPT ![w] = {}]
      /\ UNCHANGED <<kernel, shared, listener, cur, wfile, wnew, history>>
    BY DEF WCollect
<1>2. /\ pc' \in [Worker -> WPC] /\ pc'[w] = "handle"
      /\ \A v \in Worker \ {w} : pc'[v] = pc[v]
    BY <1>1 DEF Goto, Core, TypeOK, WPC
<1>3. ASSUME NEW c \in Found(w)
      PROVE  c \in Client /\ evFD[c] \in FD /\ evWorker[c] = w /\ Accepted(c) /\ InMap(c)
  <2>1. PICK fd \in accepted[w] : c = events[w][fd]
      BY DEF Found
  <2>2. fd \in FD /\ events[w][fd] # None
      BY <2>1 DEF Found, Core, TypeOK
  <2> QED BY <2>1, <2>2 DEF Core, TypeOK, EventState, InMap
<1>4. /\ batch' \in [Worker -> SUBSET Client] /\ todo' \in [Worker -> SUBSET Client]
      /\ accepted' \in [Worker -> SUBSET FD]
      /\ batch'[w] = Found(w) /\ todo'[w] = Found(w) /\ accepted'[w] = {}
      /\ \A v \in Worker \ {w} :
            batch'[v] = batch[v] /\ todo'[v] = todo[v] /\ accepted'[v] = accepted[v]
  <2>1. Found(w) \in SUBSET Client
      BY <1>3
  <2> QED BY <1>1, <2>1 DEF Core, TypeOK
<1>5. TypeOK'
    BY <1>1, <1>2, <1>4 DEF Core, TypeOK, kernel, shared, listener, history
<1>6. ListenerState'
  <2>1. lpc \in Alone => \A v \in Worker : lconn \notin batch'[v]
    <3>1. lpc \in Alone => lconn \notin Found(w)
        BY <1>3 DEF Core, ListenerState
    <3> QED BY <1>4, <3>1 DEF Core, ListenerState
  <2>2. UNCHANGED <<lpc, lconn, lfd, idx, order, conn, evFD, evWorker, events>>
      BY <1>1 DEF kernel, shared, listener
  <2> QED BY <2>1, <2>2 DEF Core, ListenerState, InMap, Accepted
<1>7. EventState'
  <2>1. UNCHANGED <<conn, events, evFD, evWorker>>
      BY <1>1 DEF kernel, shared
  <2>2. ASSUME NEW v \in Worker, NEW c \in batch'[v]
        PROVE  evFD[c] \in FD /\ evWorker[c] = v /\ Accepted(c)
      BY <1>3, <1>4, <2>2 DEF Core, EventState
  <2> QED BY <2>1, <2>2 DEF Core, EventState, Accepted
<1>8. ThreadState'
  <2> SUFFICES ASSUME NEW v \in Worker
               PROVE  /\ todo'[v] \subseteq batch'[v]
                      /\ pc'[v] \in Handling => cur'[v] \in batch'[v]
                      /\ pc'[v] \notin {"handle", "return", "clear"} \cup Handling => batch'[v] = {}
                      /\ pc'[v] \notin {"handle", "return"} \cup Handling => todo'[v] = {}
                      /\ pc'[v] # "collect" => accepted'[v] = {}
      BY DEF ThreadState
  <2>1. CASE v = w
      BY <1>2, <1>4, <2>1 DEF Handling
  <2>2. CASE v # w
      BY <1>1, <1>2, <1>4, <2>2 DEF Core, ThreadState
  <2> QED BY <2>1, <2>2
<1>9. LockState'
  <2>1. \A v \in Worker : pc'[v] = "delerase" <=> pc[v] = "delerase"
      BY <1>1, <1>2
  <2> QED BY <1>1, <2>1 DEF Core, LockState, shared, listener
<1> QED BY <1>1, <1>5, <1>6, <1>7, <1>8, <1>9, BudgetKept, RoomKeptKept
        DEF Core, kernel, shared, listener

\* The event a thread handles is its own.
LEMMA CurrentEvent ==
    ASSUME Core, NEW w \in Worker, pc[w] \in Handling
    PROVE  /\ cur[w] \in batch[w] /\ cur[w] \in Client
           /\ evWorker[cur[w]] = w /\ evFD[cur[w]] \in FD
BY DEF Core, TypeOK, ThreadState, EventState

\* epoll_ctl(EPOLL_CTL_DEL), under the worker's own lock.
LEMMA DelCtlCore ==
    ASSUME Core, NEW w \in Worker, WDelCtl(w)
    PROVE  Core'
<1>1. pc[w] = "delctl" /\ pc[w] \in Handling
    BY DEF WDelCtl, Handling
<1>2. PICK fd \in FD : fd = evFD[cur[w]] /\ evWorker[cur[w]] = w
    BY <1>1, CurrentEvent
<1>3. /\ lock[w] = None
      /\ UNCHANGED <<fdtab, conn, left, unread, fin, lready, events, evFD, evWorker,
                     running, listener, accepted, batch, todo, cur, wfile, wnew, history>>
      /\ \/ /\ lock' = [lock EXCEPT ![w] = w]
            /\ interest' = [interest EXCEPT ![w] = @ \ {fd}]
            /\ ready' = [ready EXCEPT ![w] = @ \ {fd}]
            /\ Goto(w, "delerase")
         \/ Goto(w, "return") /\ UNCHANGED <<lock, interest, ready>>
    BY <1>2 DEF WDelCtl
<1>4. PICK next \in {"delerase", "return"} :
         /\ Goto(w, next)
         /\ next = "delerase" => lock' = [lock EXCEPT ![w] = w]
         /\ next = "return" => lock' = lock
    BY <1>3
<1>5. next \in WPC
    BY DEF WPC, Handling
<1>6. TypeOK'
  <2>1. interest' \in [Worker -> SUBSET FD] /\ ready' \in [Worker -> SUBSET FD]
    <3>1. CASE UNCHANGED <<interest, ready>>
        BY <3>1 DEF Core, TypeOK
    <3>2. CASE /\ interest' = [interest EXCEPT ![w] = @ \ {fd}]
               /\ ready' = [ready EXCEPT ![w] = @ \ {fd}]
        BY <3>2 DEF Core, TypeOK
    <3> QED BY <1>3, <3>1, <3>2
  <2>2. lock' \in [Worker -> Thread \cup {None}]
      BY <1>4 DEF Core, TypeOK, Thread
  <2>3. pc' \in [Worker -> WPC]
      BY <1>4, <1>5 DEF Goto, Core, TypeOK
  <2> QED BY <1>3, <2>1, <2>2, <2>3 DEF Core, TypeOK, listener, history
<1>7. ThreadState'
  <2>1. todo[w] \subseteq batch[w] /\ accepted[w] = {} /\ cur[w] \in batch[w]
      BY <1>1 DEF Core, ThreadState, Handling
  <2>2. next \in {"handle", "return"} \cup Handling
      BY DEF Handling
  <2> QED BY <1>3, <1>4, <1>5, <2>1, <2>2, ThreadMoves DEF Core
<1>8. LockState'
  <2>1. w # Listener /\ w # None /\ None # Listener
      BY ReactorAssumption
  <2>2. /\ pc'[w] = next /\ \A v \in Worker \ {w} : pc'[v] = pc[v] /\ lock'[v] = lock[v]
        /\ lock'[w] = IF next = "delerase" THEN w ELSE None
      BY <1>3, <1>4 DEF Goto, Core, TypeOK
  <2>3. ~(lpc = "insert" /\ order[idx] = w)
      BY <1>3, <2>1 DEF Core, LockState
  <2> QED BY <1>3, <2>1, <2>2, <2>3 DEF Core, LockState, listener
<1>9. StillAccepted
    BY <1>3 DEF StillAccepted, Accepted
<1> QED BY <1>3, <1>6, <1>7, <1>8, <1>9, BudgetKept, ListenerStateKept, EventStateKept,
           RoomKeptKept DEF Core, listener

\* The map entry goes and the lock is released.
LEMMA DelEraseCore ==
    ASSUME Core, NEW w \in Worker, WDelErase(w)
    PROVE  Core'
<1>1. pc[w] = "delerase" /\ pc[w] \in Handling
    BY DEF WDelErase, Handling
<1>2. PICK fd \in FD : fd = evFD[cur[w]] /\ evWorker[cur[w]] = w
    BY <1>1, CurrentEvent
<1>3. /\ events' = [events EXCEPT ![w][fd] = None]
      /\ lock' = [lock EXCEPT ![w] = None]
      /\ Goto(w, "return")
      /\ UNCHANGED <<kernel, evFD, evWorker, running, listener, accepted, batch,
                     todo, cur, wfile, wnew, history>>
    BY <1>2 DEF WDelErase
<1>4. /\ events' \in [Worker -> [FD -> Client \cup {None}]]
      /\ \A v \in Worker, f \in FD :
            events'[v][f] = IF v = w /\ f = fd THEN None ELSE events[v][f]
    BY <1>3 DEF Core, TypeOK
<1>5. "return" \in WPC
    BY DEF WPC
<1>6. TypeOK'
  <2>1. lock' \in [Worker -> Thread \cup {None}]
      BY <1>3 DEF Core, TypeOK
  <2>2. pc' \in [Worker -> WPC]
      BY <1>3, <1>5 DEF Goto, Core, TypeOK
  <2> QED BY <1>3, <1>4, <2>1, <2>2 DEF Core, TypeOK, kernel, listener, history
<1>7. ListenerState'
  <2>1. UNCHANGED <<lpc, lconn, lfd, idx, order, conn, evFD, evWorker, batch>>
      BY <1>3 DEF kernel, listener
  <2>2. lpc \in Alone => ~InMap(lconn)'
    <3>1. lpc \in Alone => lconn # None /\ ~InMap(lconn)
        BY ReactorAssumption DEF Core, ListenerState, Alone, Raw, Made, Free
    <3> QED BY <1>4, <2>1, <3>1 DEF InMap
  <2> QED BY <2>1, <2>2 DEF Core, ListenerState, Accepted
<1>8. EventState'
  <2>1. UNCHANGED <<conn, evFD, evWorker, batch>>
      BY <1>3 DEF kernel
  <2> QED BY <1>4, <2>1 DEF Core, EventState, Accepted
<1>9. ThreadState'
  <2>1. todo[w] \subseteq batch[w] /\ accepted[w] = {}
      BY <1>1 DEF Core, ThreadState
  <2>2. "return" \notin Handling
      BY DEF Handling
  <2> QED BY <1>3, <1>5, <2>1, <2>2, ThreadMoves DEF Core
<1>10. LockState'
  <2>1. w # Listener /\ w # None /\ None # Listener /\ lock[w] = w
      BY <1>1, ReactorAssumption DEF Core, LockState
  <2>2. /\ pc'[w] = "return" /\ lock'[w] = None
        /\ \A v \in Worker \ {w} : pc'[v] = pc[v] /\ lock'[v] = lock[v]
      BY <1>3 DEF Goto, Core, TypeOK
  <2>3. ~(lpc = "insert" /\ order[idx] = w)
      BY <2>1 DEF Core, LockState
  <2> QED BY <1>3, <2>1, <2>2, <2>3 DEF Core, LockState, listener
<1>11. RoomKept'
  <2>1. ASSUME NEW v \in Worker
        PROVE  activeFDS(v)' \in Nat /\ activeFDS(v)' <= activeFDS(v)
    <3>1. Registered(v)' \in SUBSET Registered(v) /\ IsFiniteSet(Registered(v))
        BY <1>4, RegisteredFinite DEF Core, Registered
    <3>2. /\ IsFiniteSet(Registered(v)')
          /\ Cardinality(Registered(v)') <= Cardinality(Registered(v))
        BY <3>1, FS_Subset
    <3> QED BY <3>2, FS_CardinalityType DEF activeFDS, Registered
  <2>2. \A v \in Worker : activeFDS(v) \in Nat
      BY RegisteredFinite DEF Core
  <2>3. \A v \in Worker : activeFDS(v)' <= MaxFDS
      BY <2>1, <2>2, ReactorAssumption DEF Core, RoomKept, WithinCapacity
  <2>4. lpc' \in {"event", "addRoom", "ctl", "insert"} => HasRoom(order[idx])'
    <3> SUFFICES ASSUME lpc \in {"event", "addRoom", "ctl", "insert"}
                 PROVE  HasRoom(order[idx])'
        BY <1>3 DEF listener
    <3>1. PICK v \in Worker : v = order[idx]
        BY CurrentWorker DEF Core, Made
    <3>2. activeFDS(v) < MaxFDS
        BY <3>1 DEF Core, RoomKept, HasRoom
    <3>3. activeFDS(v)' < MaxFDS
        BY <2>1, <2>2, <3>2, ReactorAssumption
    <3>4. v = order'[idx']
        BY <1>3, <3>1 DEF listener
    <3> QED BY <3>3, <3>4 DEF HasRoom, activeFDS
  <2> QED BY <2>3, <2>4 DEF RoomKept, WithinCapacity
<1> QED BY <1>3, <1>6, <1>7, <1>8, <1>9, <1>10, <1>11, BudgetKept DEF Core, kernel

\* A reference of the batch goes, and the Event with it if it was the last.
LEMMA ClearCore ==
    ASSUME Core, NEW w \in Worker, WClear(w)
    PROVE  Core'
<1>1. PICK c \in batch[w] :
         /\ batch' = [batch EXCEPT ![w] = @ \ {c}]
         /\ IF ListenerHolds(c) \/ InMap(c) THEN KeepEvent ELSE DestroyEvent(c)
    BY DEF WClear
<1>2. /\ pc[w] = "clear"
      /\ UNCHANGED <<left, unread, fin, lready, events, lock, evFD, running,
                     listener, pc, accepted, todo, cur, wfile, wnew, assigned, skipped,
                     missed>>
    BY DEF WClear
<1>3. c \in Client /\ evFD[c] \in FD /\ evWorker[c] = w
    BY DEF Core, TypeOK, EventState
<1>4. KeepEvent \/ (DestroyEvent(c) /\ ~ListenerHolds(c) /\ ~InMap(c))
    BY <1>1
<1>5. /\ fdtab' \in [FD -> Client \cup Worker \cup {None}]
      /\ conn' \in [Client -> {"idle", "backlog", "open", "closed"}]
      /\ interest' \in [Worker -> SUBSET FD] /\ ready' \in [Worker -> SUBSET FD]
      /\ strayClose' \in BOOLEAN
      /\ StillAccepted
      /\ evWorker' \in [Client -> Worker \cup {None}]
      /\ \A d \in Client \ {c} : evWorker'[d] = evWorker[d]
    BY <1>3, <1>4, DestroyKeeps
<1>6. /\ batch' \in [Worker -> SUBSET Client]
      /\ batch'[w] = batch[w] \ {c} /\ \A v \in Worker \ {w} : batch'[v] = batch[v]
    BY <1>1 DEF Core, TypeOK
<1>7. TypeOK'
    BY <1>2, <1>5, <1>6 DEF Core, TypeOK, listener
<1>8. \A v \in Worker : c \notin batch'[v]
    BY <1>3, <1>6 DEF Core, EventState
<1>9. ListenerState'
  <2>1. UNCHANGED <<lpc, lconn, lfd, idx, order, evFD, events>>
      BY <1>2 DEF listener
  <2>2. lpc \in Made => evWorker'[lconn] = evWorker[lconn]
    <3>1. CASE KeepEvent
        BY <3>1 DEF KeepEvent
    <3>2. CASE ~ListenerHolds(c)
        BY <1>5, <3>2 DEF ListenerHolds, Made, Free, Core, ListenerState
    <3> QED BY <1>4, <3>1, <3>2
  <2>3. lpc \in Alone => \A v \in Worker : lconn \notin batch'[v]
      BY <1>6 DEF Core, ListenerState
  <2>4. lpc \notin Free => Accepted(lconn)'
      BY <1>5, <2>1 DEF Core, ListenerState, StillAccepted, Accepted
  <2> QED BY <2>1, <2>2, <2>3, <2>4 DEF Core, ListenerState, InMap
<1>10. EventState'
  <2>1. ASSUME NEW v \in Worker, NEW fd \in FD, events'[v][fd] # None
        PROVE  /\ evFD'[events'[v][fd]] = fd /\ evWorker'[events'[v][fd]] = v
               /\ Accepted(events[v][fd])'
    <3>1. PICK d \in Client : d = events[v][fd]
        BY <1>2, <2>1 DEF Core, TypeOK
    <3>2. evFD[d] = fd /\ evWorker[d] = v /\ Accepted(d)
        BY <1>2, <2>1, <3>1 DEF Core, EventState
    <3>3. evWorker'[d] = evWorker[d]
      <4>1. CASE KeepEvent
          BY <4>1 DEF KeepEvent
      <4>2. CASE ~InMap(c)
          BY <1>5, <3>1, <4>2 DEF InMap
      <4> QED BY <1>4, <4>1, <4>2
    <3>4. Accepted(d)'
        BY <1>5, <3>2 DEF StillAccepted
    <3> QED BY <1>2, <3>1, <3>2, <3>3, <3>4 DEF Accepted
  <2>2. ASSUME NEW v \in Worker, NEW d \in batch'[v]
        PROVE  evFD'[d] \in FD /\ evWorker'[d] = v /\ Accepted(d)'
    <3>1. d \in batch[v] /\ d # c /\ d \in Client
        BY <1>6, <1>8 DEF Core, TypeOK
    <3> QED BY <1>2, <1>5, <3>1 DEF Core, EventState, StillAccepted
  <2> QED BY <2>1, <2>2 DEF EventState, Accepted
<1>11. ThreadState'
  <2>1. todo[w] = {}
      BY <1>2 DEF Core, ThreadState, Handling
  <2>2. "clear" \notin Handling
      BY DEF Handling
  <2> QED BY <1>2, <1>6, <2>1, <2>2 DEF Core, ThreadState
<1> QED BY <1>2, <1>7, <1>9, <1>10, <1>11, BudgetKept, LockStateKept, RoomKeptKept
        DEF Core, listener

-----------------------------------------------------------------------------
(* Every step keeps the core *)

\* Which of the listener's steps touch nothing but its control.
LControl == \/ LCheck \/ LWake \/ LWaitFails \/ LExit \/ LAcceptFails \/ LSetNonblock
            \/ LPickRunning \/ LPickRoom \/ LAddRoom \/ LCtlAddFails

\* Where such a step leads: the hypotheses of ListenControlCore.
LEMMA LControlSteps ==
    ASSUME Core, LControl
    PROVE  /\ lpc' \in LPC /\ idx' \in 1..Cardinality(Worker) + 1
           /\ UNCHANGED <<fdtab, conn, left, unread, fin, interest, ready, events, lock,
                          evFD, evWorker, lconn, lfd, order, threads, strayClose, assigned>>
           /\ running' \in [Thread -> BOOLEAN]
           /\ lready' \in BOOLEAN /\ skipped' \in BOOLEAN /\ missed' \in BOOLEAN
           /\ lpc \in Free <=> lpc' \in Free
           /\ lpc \in Raw <=> lpc' \in Raw
           /\ lpc \in Made <=> lpc' \in Made
           /\ lpc \notin {"insert", "release"} /\ lpc' \notin {"insert", "release"}
           /\ lpc \in Made => idx' = idx
           /\ lpc' \in {"room", "event"} => idx' <= Cardinality(Worker)
           /\ lpc' \in {"event", "addRoom", "ctl"} => HasRoom(order[idx'])
           /\ lpc' \in {"failed", "close"} => CallMayFail
           /\ ~skipped' => ~skipped
                /\ (lpc' \notin Free => idx' = 1 \/ (idx' = idx /\ lpc # "fcntl"))
<1> USE DEF LPC, Free, Raw, Made, shared
<1>1. /\ lready \in BOOLEAN /\ skipped \in BOOLEAN /\ missed \in BOOLEAN
      /\ running \in [Thread -> BOOLEAN] /\ Cardinality(Worker) \in Nat
      /\ idx \in 1..Cardinality(Worker) + 1 /\ Len(order) = Cardinality(Worker)
    BY WorkerCount, OrderProperties DEF Core, TypeOK
<1>2. CASE LWake
    BY <1>1, <1>2 DEF LWake, history
<1>3. CASE LAcceptFails
    BY <1>1, <1>3 DEF LAcceptFails, kernel, history
<1>4. CASE LSetNonblock
    BY <1>1, <1>4 DEF LSetNonblock, kernel, history
<1>5. CASE LPickRunning
  <2>1. \/ lpc' = "room" /\ idx' = idx /\ skipped' = skipped
        \/ lpc' = "running" /\ idx' = idx + 1 /\ skipped' = TRUE
      BY <1>5 DEF LPickRunning, LNextWorker
  <2>2. /\ lpc = "running" /\ idx <= Cardinality(Worker)
        /\ UNCHANGED <<kernel, shared, lconn, lfd, order, threads, strayClose, assigned, missed>>
      BY <1>1, <1>5 DEF LPickRunning
  <2>3. CASE lpc' = "room" /\ idx' = idx /\ skipped' = skipped
      BY <1>1, <2>2, <2>3 DEF kernel
  <2>4. CASE lpc' = "running" /\ idx' = idx + 1 /\ skipped' = TRUE
      BY <1>1, <2>2, <2>4 DEF kernel
  <2> QED BY <2>1, <2>3, <2>4
<1>6. CASE LPickRoom
  <2>1. \/ lpc' = "event" /\ idx' = idx /\ skipped' = skipped /\ HasRoom(order[idx])
        \/ lpc' = "running" /\ idx' = idx + 1 /\ skipped' = TRUE
      BY <1>6 DEF LPickRoom, LNextWorker
  <2>2. /\ lpc = "room" /\ idx <= Cardinality(Worker)
        /\ UNCHANGED <<kernel, shared, lconn, lfd, order, threads, strayClose, assigned, missed>>
      BY <1>6 DEF LPickRoom, Core, ListenerState
  <2>3. CASE lpc' = "event" /\ idx' = idx /\ skipped' = skipped /\ HasRoom(order[idx])
      BY <1>1, <2>2, <2>3 DEF kernel
  <2>4. CASE lpc' = "running" /\ idx' = idx + 1 /\ skipped' = TRUE
      BY <1>1, <2>2, <2>4 DEF kernel
  <2> QED BY <2>1, <2>3, <2>4
<1>7. CASE LAddRoom
  <2>1. lpc = "addRoom" /\ HasRoom(order[idx]) /\ lpc' = "ctl"
      BY <1>7 DEF LAddRoom, Core, RoomKept
  <2> QED BY <1>1, <1>7, <2>1 DEF LAddRoom, kernel, history
<1>8. CASE LCtlAddFails
  <2>1. lpc = "ctl" /\ HasRoom(order[idx])
      BY <1>8 DEF LCtlAddFails, Core, RoomKept
  <2> QED BY <1>1, <1>8, <2>1 DEF LCtlAddFails, kernel, history
<1>9. CASE LCheck \/ LWaitFails
    BY <1>1, <1>9 DEF LCheck, LWaitFails, kernel, history
<1>10. CASE LExit
  <2>1. running' \in [Thread -> BOOLEAN]
      BY <1>1, <1>10, Zenon DEF LExit
  <2> QED BY <1>1, <1>10, <2>1 DEF LExit, kernel, history
<1> QED BY <1>2, <1>3, <1>4, <1>5, <1>6, <1>7, <1>8, <1>9, <1>10 DEF LControl

\* A step that changes nothing keeps the core.
LEMMA StutterCore ==
    ASSUME Core, UNCHANGED vars
    PROVE  Core'
<1>1. UNCHANGED <<kernel, shared, listener, threads, history>>
    BY DEF vars
<1>2. TypeOK'
    BY <1>1 DEF Core, TypeOK, kernel, shared, listener, threads, history
<1>3. StillAccepted
    BY <1>1 DEF StillAccepted, Accepted, kernel
<1> QED BY <1>1, <1>2, <1>3, BudgetKept, ListenerStateKept, EventStateKept,
           ThreadStateKept, LockStateKept, RoomKeptKept
        DEF Core, kernel, shared, listener, threads

\* Every step of the system keeps the core of the invariant.
LEMMA CoreStep == Core /\ [Next]_vars => Core'
<1> SUFFICES ASSUME Core, [Next]_vars PROVE Core'
    OBVIOUS
<1>1. CASE Environment
    BY <1>1, ConnectCore, ArriveCore DEF Environment
<1>2. CASE ListenStep \/ LWaitFails
  <2>1. CASE LControl
      BY <2>1, LControlSteps, ListenControlCore
  <2> QED BY <1>2, <2>1, AcceptCore, GiveUpCore, MakeEventCore, CtlAddCore, InsertCore,
             ReleaseCore, AddFailedCore DEF ListenStep, LControl
<1>3. ASSUME NEW w \in Worker, WorkerStep(w) \/ WWaitFails(w) PROVE Core'
    BY <1>3, LoopCore, WaitCore, HandleCore, RecvCore, OpenCore, ReplyCore,
       CollectCore, DelCtlCore, DelEraseCore, ClearCore DEF WorkerStep
<1>4. ASSUME NEW t \in Thread, Stop(t) PROVE Core'
    BY <1>4, StopCore
<1>5. CASE UNCHANGED vars
    BY <1>5, StutterCore
<1> QED BY <1>1, <1>2, <1>3, <1>4, <1>5 DEF Next

\* The core of the invariant holds throughout.
THEOREM CoreInvariant == Spec => []Core
BY InitCore, CoreStep, PTL DEF Spec

\* Every variable keeps its type.
THEOREM TypeCorrect == Spec => []TypeOK
<1>1. Core => TypeOK
    BY DEF Core
<1> QED BY <1>1, CoreInvariant, PTL

\* The assertion before delEvent in IOEventHandler::handle cannot fail, for any
\* numbers of connections and workers and whatever calls fail.
THEOREM AssertionHolds == Spec => []HandledEventHasWorker
<1>1. Core => HandledEventHasWorker
    BY CurrentEvent DEF HandledEventHasWorker
<1> QED BY <1>1, CoreInvariant, PTL

\* The map of a worker never outgrows maxFDS().
THEOREM CapacityKept == Spec => []WithinCapacity
<1>1. Core => WithinCapacity
    BY DEF Core, RoomKept
<1> QED BY <1>1, CoreInvariant, PTL

-----------------------------------------------------------------------------
(* The turns of the workers *)

\* The turns depend on the list, the listener's control and what was assigned.
LEMMA TurnsKept ==
    ASSUME Turns, UNCHANGED <<order, skipped, lpc, idx, assigned>>
    PROVE  Turns'
BY DEF Turns, Turn

\* The count of each place in the list is a number.
LEMMA TurnType ==
    ASSUME TypeOK
    PROVE  \A i \in 1..Cardinality(Worker) :
              /\ order[i] \in Worker /\ assigned[order[i]] \in Nat
              /\ Turn(i) \in Int
              /\ Turn(i) = IF lpc = "release" /\ i = idx THEN assigned[order[i]] - 1
                           ELSE assigned[order[i]]
<1> SUFFICES ASSUME NEW i \in 1..Cardinality(Worker)
             PROVE  /\ order[i] \in Worker /\ assigned[order[i]] \in Nat
                    /\ Turn(i) \in Int
                    /\ Turn(i) = IF lpc = "release" /\ i = idx THEN assigned[order[i]] - 1
                                 ELSE assigned[order[i]]
    OBVIOUS
<1>1. order[i] \in Worker
    BY DEF TypeOK
<1>2. assigned[order[i]] \in Nat
    BY <1>1 DEF TypeOK
<1> QED BY <1>1, <1>2 DEF Turn

\* A step of the listener that neither assigns nor rotates keeps the turns.
LEMMA SameTurns ==
    ASSUME Core, Turns, UNCHANGED <<order, assigned>>,
           lpc # "release" /\ lpc' # "release",
           ~skipped' => ~skipped
             /\ (lpc' \notin Free \cup {"fcntl"} => idx' = 1)
    PROVE  Turns'
<1>1. IsInjective(order)'
    BY DEF Turns
<1>2. \A i : Turn(i)' = Turn(i)
    BY DEF Turn
<1> QED BY <1>1, <1>2 DEF Turns

\* erase and push_back make a permutation of a permutation.
LEMMA RotatedInjective ==
    ASSUME NEW s \in [1..Cardinality(Worker) -> Worker], IsInjective(s),
           NEW i \in 1..Cardinality(Worker)
    PROVE  IsInjective(Rotated(s, i))
<1> DEFINE n == Cardinality(Worker)
           r == Rotated(s, i)
           from == [j \in 1..n |-> IF j < i THEN j ELSE IF j < n THEN j + 1 ELSE i]
<1>1. n \in Nat /\ i \in 1..n /\ \A a, b \in 1..n : s[a] = s[b] => a = b
    BY WorkerCount DEF IsInjective
<1>2. DOMAIN r = 1..n /\ \A j \in 1..n : r[j] = s[from[j]]
    BY RotatedProperties
<1> HIDE DEF n, r
<1>3. ASSUME NEW a \in 1..n, NEW b \in 1..n, r[a] = r[b]
      PROVE  a = b
  <2>1. from[a] \in 1..n /\ from[b] \in 1..n
      BY <1>1
  <2>2. s[from[a]] = s[from[b]]
      BY <1>2, <1>3
  <2>3. from[a] = from[b]
      BY <1>1, <2>1, <2>2
  <2> QED BY <1>1, <2>3
<1>4. IsInjective(r)
    BY <1>2, <1>3 DEF IsInjective
<1> QED BY <1>4 DEF r

\* The worker that is handed the connection counts as before until it rotates.
LEMMA InsertTurns ==
    ASSUME Core, Turns, LInsert
    PROVE  Turns'
<1>1. /\ lpc = "insert" /\ lpc' = "release" /\ UNCHANGED <<order, idx, skipped>>
      /\ assigned' = [assigned EXCEPT ![order[idx]] = @ + 1]
    BY DEF LInsert
<1>2. idx \in 1..Cardinality(Worker) /\ order[idx] \in Worker
    BY <1>1, CurrentWorker DEF Core, Made
<1>3. ASSUME NEW i \in 1..Cardinality(Worker) PROVE Turn(i)' = Turn(i)
  <2>1. order[i] \in Worker /\ assigned[order[i]] \in Nat
      BY DEF Core, TypeOK
  <2>2. CASE i = idx
      BY <1>1, <1>2, <2>1, <2>2 DEF Turn, Core, TypeOK
  <2>3. CASE i # idx
    <3>1. order[i] # order[idx]
        BY <1>2, <2>3 DEF Turns, IsInjective, Core, TypeOK
    <3> QED BY <1>1, <1>2, <2>1, <2>3, <3>1 DEF Turn, Core, TypeOK
  <2> QED BY <2>2, <2>3
<1>4. ~skipped => idx = 1
    BY <1>1 DEF Turns, Free
<1> QED BY <1>1, <1>3, <1>4 DEF Turns, Free

\* The head goes to the tail with one connection more.
LEMMA ReleaseTurns ==
    ASSUME Core, Turns, LRelease
    PROVE  Turns'
<1> DEFINE n == Cardinality(Worker)
<1>1. /\ lpc = "release" /\ lpc' = "accept" /\ UNCHANGED <<assigned, skipped, idx>>
      /\ order' = Rotated(order, idx)
    BY DEF LRelease
<1>2. idx \in 1..n /\ order \in [1..n -> Worker] /\ n \in Nat
    BY <1>1, CurrentWorker, WorkerCount DEF Core, TypeOK, Made
<1>3. IsInjective(order)'
    BY <1>1, <1>2, RotatedInjective DEF Turns
<1>4. ASSUME ~skipped, NEW i \in 1..n, NEW j \in 1..n, i <= j
      PROVE  Turn(i)' <= Turn(j)' /\ Turn(j)' <= Turn(i)' + 1
  <2>1. idx = 1
      BY <1>1, <1>4 DEF Turns, Free
  <2>2. \A k \in 1..n : Turn(k) \in Int
      BY TurnType DEF Core
  <2>3. \A k \in 1..n : order'[k] = IF k < n THEN order[k + 1] ELSE order[1]
      BY <1>1, <1>2, <2>1, RotatedProperties
  <2>4. \A k \in 1..n : Turn(k)' = assigned[order'[k]]
    <3>1. \A k \in 1..n : order'[k] \in Worker
        BY <1>1, <1>2, RotatedProperties
    <3>2. \A k \in 1..n : assigned[order'[k]] \in Nat
        BY <3>1 DEF Core, TypeOK
    <3> QED BY <1>1, <3>2 DEF Turn
  <2>5. \A k \in 1..n : Turn(k) = assigned[order[k]] - (IF k = 1 THEN 1 ELSE 0)
      BY <1>1, <2>1 DEF Turn
  <2>6. \A k \in 1..n : Turn(k)' = IF k < n THEN Turn(k + 1) ELSE Turn(1) + 1
    <3> SUFFICES ASSUME NEW k \in 1..n
                 PROVE  Turn(k)' = IF k < n THEN Turn(k + 1) ELSE Turn(1) + 1
        OBVIOUS
    <3>1. assigned[order[1]] \in Nat /\ 1 \in 1..n
        BY <1>2, <2>1 DEF Core, TypeOK
    <3>2. CASE k < n
      <4>1. k + 1 \in 1..n /\ k + 1 # 1
          BY <1>2, <3>2
      <4>2. assigned[order[k + 1]] \in Nat
          BY <4>1, TurnType DEF Core
      <4> QED BY <2>3, <2>4, <2>5, <3>2, <4>1, <4>2
    <3>3. CASE ~(k < n)
        BY <2>3, <2>4, <2>5, <3>1, <3>3
    <3> QED BY <3>2, <3>3
  <2>7. \A a, b \in 1..n : a <= b => Turn(a) <= Turn(b) /\ Turn(b) <= Turn(a) + 1
      BY <1>4 DEF Turns
  <2> HIDE DEF n
  <2>8. CASE j < n
    <3>1. i + 1 \in 1..n /\ j + 1 \in 1..n /\ i + 1 <= j + 1 /\ i < n
        BY <1>2, <1>4, <2>8
    <3> QED BY <2>6, <2>7, <2>8, <3>1
  <2>9. CASE j = n /\ i < n
    <3>1. i + 1 \in 1..n /\ 1 \in 1..n /\ 1 <= i + 1
        BY <1>2, <2>9
    <3>2. Turn(1) <= Turn(i + 1) /\ Turn(i + 1) <= Turn(1) + 1
        BY <2>7, <3>1
    <3>3. Turn(i)' = Turn(i + 1) /\ Turn(j)' = Turn(1) + 1
        BY <2>6, <2>9
    <3> QED BY <2>2, <3>1, <3>2, <3>3
  <2>10. CASE j = n /\ i = n
    <3>1. Turn(n)' = Turn(1) + 1 /\ Turn(1) \in Int
        BY <1>2, <2>2, <2>6, <2>10
    <3> QED BY <2>10, <3>1
  <2> QED BY <1>2, <1>4, <2>8, <2>9, <2>10
<1> QED BY <1>1, <1>3, <1>4 DEF Turns, Free

\* Every step keeps the turns.
LEMMA TurnsStep == Core /\ Turns /\ [Next]_vars => Turns'
<1> SUFFICES ASSUME Core, Turns, [Next]_vars PROVE Turns'
    OBVIOUS
<1>1. CASE LControl
  <2>1. ~skipped' => ~skipped
           /\ (lpc' \notin Free \cup {"fcntl"} => idx' = 1)
      BY <1>1, LControlSteps DEF Turns
  <2> QED BY <1>1, <2>1, LControlSteps, SameTurns
<1>2. CASE LAccept \/ LFcntlFails \/ LNoWorker \/ LCloseClient
    BY <1>2, SameTurns
    DEF LAccept, LFcntlFails, LNoWorker, LCloseClient, history, Free
<1>3. CASE LMakeEvent \/ LCtlAdd \/ LAddFailed
  <2>1. /\ lpc \in {"event", "ctl", "failed"} /\ lpc' \in {"addRoom", "insert", "close"}
        /\ UNCHANGED <<order, idx, assigned, skipped, missed>>
      BY <1>3 DEF LMakeEvent, LCtlAdd, LAddFailed, history
  <2>2. ~skipped => idx = 1
      BY <2>1 DEF Turns, Free
  <2> QED BY <2>1, <2>2, SameTurns
<1>4. CASE ListenStep \/ LWaitFails
    BY <1>1, <1>2, <1>3, <1>4, InsertTurns, ReleaseTurns DEF ListenStep, LControl
<1>5. CASE Environment
    BY <1>5, TurnsKept DEF Environment, Connect, Send, Shutdown, listener, history
<1>6. ASSUME NEW w \in Worker, WorkerStep(w) \/ WWaitFails(w) PROVE Turns'
  <2>1. UNCHANGED <<listener, assigned, skipped, missed>>
      BY <1>6 DEF WorkerStep, WCheck, WWait, WCollect, WHandle, WHandled, WRecv, WEof,
         WOpen, WReply, WReturn, WDelCtl, WDelErase, WClear, WCleared, WExit, WWaitFails,
         history
  <2> QED BY <2>1, TurnsKept DEF listener
<1>7. ASSUME NEW t \in Thread, Stop(t) PROVE Turns'
    BY <1>7, TurnsKept DEF Stop, listener, history
<1>8. CASE UNCHANGED vars
    BY <1>8, TurnsKept DEF vars, listener, history
<1> QED BY <1>4, <1>5, <1>6, <1>7, <1>8 DEF Next

\* At the beginning nobody has had a turn.
LEMMA InitTurns == Init => Turns
<1> SUFFICES ASSUME Init PROVE Turns
    OBVIOUS
<1>1. IsInjective(order) /\ lpc = "check"
    BY DEF Init
<1>2. ASSUME NEW i \in 1..Cardinality(Worker) PROVE Turn(i) = 0
  <2>1. order[i] \in Worker
      BY DEF Init
  <2>2. assigned[order[i]] = 0
      BY <2>1 DEF Init
  <2> QED BY <1>1, <2>2 DEF Turn
<1> QED BY <1>1, <1>2 DEF Turns, Free

\* Every worker has a place in the list.
LEMMA EveryWorkerListed ==
    ASSUME TypeOK, IsInjective(order), NEW w \in Worker
    PROVE  \E i \in 1..Cardinality(Worker) : order[i] = w
<1> DEFINE n == Cardinality(Worker)
<1>1. n \in Nat /\ IsFiniteSet(Worker) /\ order \in [1..n -> Worker]
    BY WorkerCount, ReactorAssumption DEF TypeOK
<1>2. Cardinality(1..n) = n
    BY <1>1, FS_Interval
<1>3. order \in Injection(1..n, Worker)
    BY <1>1 DEF Injection, IsInjective
<1>4. order \in Surjection(1..n, Worker)
    BY <1>1, <1>2, <1>3, FS_Injection
<1> QED BY <1>4 DEF Surjection

\* Workers that are never passed over receive connections in turn: no worker is
\* ever more than one connection ahead of another, for any number of workers.
THEOREM TurnsAreFair == Spec => []RoundRobin
<1>1. Spec => []Turns
    BY InitTurns, TurnsStep, CoreInvariant, PTL DEF Spec
<1>2. Core /\ Turns => RoundRobin
  <2> SUFFICES ASSUME Core, Turns, ~skipped, NEW v \in Worker, NEW w \in Worker
               PROVE  assigned[v] <= assigned[w] + 1
      BY DEF RoundRobin
  <2>1. PICK i \in 1..Cardinality(Worker) : order[i] = v
      BY EveryWorkerListed DEF Core, Turns
  <2>2. PICK j \in 1..Cardinality(Worker) : order[j] = w
      BY EveryWorkerListed DEF Core, Turns
  <2>3. /\ i \in Int /\ j \in Int /\ Turn(i) \in Int /\ Turn(j) \in Int
        /\ assigned[v] \in Nat /\ assigned[w] \in Nat
        /\ Turn(i) = IF lpc = "release" /\ i = idx THEN assigned[v] - 1 ELSE assigned[v]
        /\ Turn(j) = IF lpc = "release" /\ j = idx THEN assigned[w] - 1 ELSE assigned[w]
      BY <2>1, <2>2, TurnType DEF Core
  <2>4. Turn(i) <= Turn(j) + 1 /\ (i <= j => Turn(i) <= Turn(j))
    <3>1. CASE i <= j
        BY <2>3, <3>1 DEF Turns
    <3>2. CASE j <= i /\ i # j
        BY <2>3, <3>2 DEF Turns
    <3> QED BY <2>3, <3>1, <3>2
  <2>5. CASE lpc = "release" /\ i = idx
    <3>1. i = 1 /\ i <= j
        BY <2>5 DEF Turns, Free
    <3> QED BY <2>3, <2>4, <2>5, <3>1
  <2>6. CASE ~(lpc = "release" /\ i = idx)
      BY <2>3, <2>4, <2>6
  <2> QED BY <2>5, <2>6
<1> QED BY <1>1, <1>2, CoreInvariant, PTL
=============================================================================
