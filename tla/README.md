# A TLA+ verification project for CXXWebServer

CXXWebServer is a static web server in C++: one listening thread hands
connections to a few worker threads, each with its own epoll instance; a worker
reads requests, answers them from files or from a Redis cache, and closes the
connection; all threads log through one asynchronous logger.  This directory
holds TLA+ modules that model its concurrent parts, TLC configurations that
check them, and TLAPS proofs about them.  Paths below are relative to the
repository root (`src/Epoll.cc` is the file `Epoll.cc` of the server).

## 1. Inventory

| Component | State | Operations | Talks to |
|---|---|---|---|
| `Server` | configuration, listening socket, workers, `__running` | `init`, `start`, `stop`, `clean`, `statusChecking` | creates everything else; called by `main` |
| `Worker` | `__running`, an `Epoll`, an `IEventHandler`, a detached thread | `run`, `stop`, `addEvent`, `delEvent` | its `Epoll` and handler |
| `Epoll` | epoll descriptor, `__events` (descriptor → Event) under `__eventsMapLock`, `__acceptedEvents` | `epollAddEvent`, `epollDelEvent`, `epollWait`, `activeFDS` | kernel |
| `Event` | descriptor, masks, worker pointer; owned through `shared_ptr` | destructor closes the descriptor | |
| `ListenEventHandler` | list of IO workers | `handle`: accept, choose a worker, hand over | `addEvent` of *another* worker, from the listening thread |
| `IOEventHandler` | router, resource accessor | `handle`: read and answer until end of file, then `delEvent` | HTTP classes, logger |
| `SocketStream` | a buffer for each direction of a connection, the state bits of the streams | `underflow`, `overflow`, `sync`, `flush` | socket |
| `HttpRequest` | the request being built | `getOneHttpRequest`: line, head, body | the input stream |
| `HttpResponse` | the answer | choose, build, send | router, accessor, the output stream |
| `Router`, `Resource`, `HttpConfig` | constant tables | look-ups | |
| `ResourceAccessor` | optional cache | `access` | `RedisCache`, files |
| `RedisCache`, `RedisConnectionPool`, `RedisConnection` | reference counts under a mutex; a timed mutex and a hiredis context per connection | `get`, `put`; borrow, return, push, clear; `getKey`, `putKey`, `contextInit` | called by all workers; Redis |
| `AsyncLogger`, `LogStream`, `Buffer` | `__current`, `__alternate`, `__loggerLocal`, the log file, `__running` | `append`, `run` (detached thread), `setLogFile`, `setOverflowSize`, destructor | called by all threads; file system |

What is hard here:

* `addEvent` runs in the listening thread while the worker's own thread waits on
  the same epoll instance, handles the same Event and deletes it.  The
  developers' diary (`log.txt`, 2022.2.26 to 2.28) records three crashes of this
  kind.  Edge-triggered readiness is reported once.
* Descriptor numbers are reused at once: a double close closes somebody else's
  file.
* System calls fail: `accept` and `open` for want of descriptors, `epoll_ctl`,
  `epoll_wait`, writes to the log, Redis exchanges.
* Every thread is detached; flags tell it to stop, nobody waits for it.
* The logger uses a condition variable whose notifications are lost while its
  thread is busy, a timeout that makes up for that, two mutexes, and a destructor
  that runs while the thread is alive.
* A Redis connection is shared by several threads and pairs replies with
  requests only by order, while exchanges may time out.
* Every call in `Server::init` may fail, and what exists by then must be undone;
  the listening socket has two possible owners.
* All workers send bodies through one static buffer, from files that may be edited
  or become unreadable while they are sent.
* Sockets do not block: a request arrives cut at any byte, and "nothing there yet" looks
  to the parser like the end of the input; `send` takes a part of the buffer or nothing.

`PROJECT.json` lists the hazards at their lines, with the properties that would
catch each going wrong.

## 2. Modules

| Module | Models | Lines of code |
|---|---|---|
| `ConnectionService` | abstract: what listener and workers promise every connection | |
| `Reactor` | listening thread, IO workers, Epoll, Event, control of `IOEventHandler`, refining `ConnectionService` | `Epoll.cc`, `Event.cc`, `Worker.cc`, `ListenEventHandler.cc`, `IOEventHandler.cc` |
| `LogChannel` | abstract: what the logger promises | |
| `AsyncLogger` | the logger, refining `LogChannel` | `Log/AsyncLogger.cc`, `Log/LogStream.cc`, `Log/Buffer.hpp` |
| `AsyncLoggerProofs` | theorems about `AsyncLogger` | |
| `RedisPool` | pool, connections, cache operations | `Cache/RedisCache.cc` |
| `ServerLifecycle` | `main`, `Server`, the threads of the workers | `Server.cc`, `main.cc`, `Worker.cc` |
| `Responder` | from a parsed request to the last byte of its answer | `HttpUtils/HttpResponse.cc`, `HttpUtils/ResourceAccessor.cc`, `HttpUtils/Router.cc` |
| `SocketStream` | the two stream buffers of a connection | `HttpUtils/SocketStream.cc`, `HttpUtils/SocketStream.hpp` |
| `Connection` | one call of `IOEventHandler::handle`: parser and answers, over `SocketStream` | `IOEventHandler.cc`, `HttpUtils/HttpRequest.cc`, `HttpUtils/HttpConfig.cc` |
| `ReactorProofs`, `DescriptorProofs`, `ServiceProofs`, `RedisPoolProofs`, `ServerProofs`, `ResponderProofs`, `ConnectionProofs` | theorems about these modules | |
| `MCReactor`, `MCAsyncLogger`, `MCRedisPool`, `MCServerLifecycle`, `MCResponder`, `MCConnection` | instances for TLC (symmetry, the requests of a client) | |

The modules meet at narrow places.  `ServerLifecycle` starts the threads whose work
is `Reactor`; `Reactor`'s `WOpen` and `WReply` stand for what `Responder` spells out;
`Connection` spells out the bytes of what `Reactor` calls `WRecv` to `WDelCtl`, and takes
the answer from `Responder` as a number of bytes; `Responder`'s `get` and `put` are the operations of `RedisPool`, seen by their
outcome only; every thread may call `append` of `AsyncLogger`, which calls nobody.

Definitions named like a definition that follows them with a suffix
(`HasRoomOffByOne`, `LCtlAddUnlocked`, ...) are not part of the specification:
each is a version of the code with a plausible mistake, and substituting it must
violate the property `PROJECT.json` names for it.

### Reactor

The kernel is explicit, because the hazards live there: `fdtab` says what each
descriptor number refers to (a connection, a worker's resource file, nothing),
`interest` and `ready` are the epoll instances, `lready` the readiness of the
listening socket.  `ready` is emptied by `epoll_wait` and filled only by
arrivals (`RaiseEdge`) and by registration, which is what `EPOLLET` means.

An Event is named after the connection it was made for; `evFD` and `evWorker`
are its fields.  Who owns it is derived: the map (`InMap`), the listener's
temporary (`ListenerHolds`), the vector `events` in `Worker::run` (`batch`).
Whoever drops the last reference runs `DestroyEvent`.

One action stands for a stretch of code no other thread can observe inside:
everything between two accesses to shared state.  The locked section of
`epollAddEvent` is two actions (`LCtlAdd`, `LInsert`) because `epoll_wait` does
not take the lock and may return in between; likewise `WDelCtl`/`WDelErase`.
`activeFDS` takes the lock, so its callers wait for it.  The listening worker's
thread has the same loop in `Worker::run` as the others (`LCheck`, `LWake`, `LWaitFails`,
`LExit`); its own epoll instance holds one descriptor for ever, of which only the readiness
`lready` is left.  `accept` fails for want of a descriptor, of a connection, or for any
reason (`LAcceptFails`), and the loop of `handle` ends in all cases; the history variable
`missed` records that connections were waiting then.  `fcntl(F_SETFL)`, whose result the
code ignores, is not made to fail: it sets a flag of a descriptor for which `F_GETFL` has
just succeeded.  `Stop` is called by the main thread, which stops the workers when it has
found one that does not run.

Requests are counted, not read: `unread` is what `recv` would return.  A
malformed request (`WRecv` back to `"recv"`) and a well-formed one (`WOpen`,
`WReply`) differ in whether a resource file is opened, which matters because it
takes a descriptor number.  The file belongs to the response in the variable `res` of
`handle`: it is closed when the next response is assigned, by which time that one's file is
open too (`wnew`), or when `handle` returns, after `delEvent` (`WReturn`).  A worker whose
request has no body in the buffer stays in `"spin"`, as `Connection` explains.  A request
that makes the parser throw ends the process and with it the model's subject; that too is
`Connection`'s.

`ConnectionService` says what all this is for: a connection is accepted once, refused or
given to one worker with room for it, taken in hand by that worker alone, read until
nothing is left, given up, and closed once.  It knows neither descriptors nor epoll nor
Events.  `Reactor` maps to it by derived values: `StageOf` reads from who can reach the Event
how far the connection has come, `ServerOf` is the worker in the Event, `HandOf` what
`Worker::run` is handling, `pending` is `unread`.  The abstract `broken` is `strayClose`: after a
close has hit somebody else's descriptor nothing is promised any more.

### AsyncLogger

A vector of Buffers is the sequence of messages in it; of the Buffer boundaries
only the two numbers the code tests are kept (`nbufs`, `back`).  Each mutex
protects one block and the block is one action; the gap between releasing
`__lockBuff` and taking `__lockLogFile` is the program point `"flush"`.
`LWoken` and `LTimeout` are the two results of `wait_for`.  `DStop` and `DFlush`
are the destructor of the static object.  A failed write runs
`setLogFile(getLogFile())` (`Reopened`); as in the code, `logFile` is never
assigned.  `appended`, `flushed` and `written` are history.

### RedisPool

`get` and `put` have the same control and are one operation per thread.  The
hiredis context is `"null"`, `"ok"` or `"broken"`; `wire` holds the requests
whose replies were not read yet.  hiredis and Redis are external: replies come in
order, and a context that has failed once answers nothing more.  Reference counts
are unsigned of modulus `RefMod`.  `Timed` is the set of connections with a lock
timeout (`try_lock_for`); the others wait.  `cleared` records that the pool was
cleared, which happens at most once: `RefCounts` promises exact counts until then, and
always counts that are never too high.

### ServerLifecycle

`pc` and `k` follow the main thread through `main`, `Server::start` (with `init`
along `Order`), `statusChecking` and `~Server`; every call of `init` that can fail
has a failing alternative.  `handler[w]` records what a handler was constructed
with, because handlers copy pointers and lists.  The threads are the loop in
`Worker::run`; `epoll_wait(-1)` returns, fails, or never returns.  The listening
socket is `socket`, its owners are `listenFD` and `registered`, and `closes` counts
how often it was closed.  `clean` destroys Workers whose threads may be running: first the
listen worker (`cleanListenWorker`), then the IO workers (`cleanIOWorkers`), along
`CleanOrder`, and the threads go on in between.  What a thread does after its Worker is
destroyed is undefined, and in the model it takes no further step.

### Responder

A resource is a sequence of blocks; a block remembers its page, the version of
the file and its position, which is what the properties tell apart.  `Edit` changes
a file in place at any moment.  `getResponseFromRequest` chooses the code and the
page, `get`/`openFile`/`readFile`/`put` are `CachedResourceAccessor::access` with
`FileAccessor::access`, and `genResponseHead` to `writeBody` are
`HttpResponsor::response`.  `buff` is the static buffer: a block is read into it in
one step and written from it in another, as in the code, without a lock.  `MaxVal` is
the size limit of the cache in blocks; `MaxVal = 0` is a server without cache.  A file
that becomes shorter while it is read makes `readsome` return 0 without an error and
the loop spins: no action is enabled for that worker until the file is edited or
reading fails.

### SocketStream and Connection

`SocketStream` has the state of both `SocketStreamBuffer`s.  For the reader: what the
kernel has received (`arrived`), the buffer between `gptr()` and `egptr()` (`gbuf`) and
the stream's `eofbit`, which the first `recv` that returns 0 or -1 sets for good.  For
the writer: the buffer from `pbase()` to `pptr()` (`pbuf`), `badbit`, and the call of
`flush` that is going on (`caller`, `rest`); every turn of its loop is a step, `send`,
`sendFails` or `flushed`.  `send` takes bytes from the beginning of the buffer at every
turn, as the code does.  After a failure `pptr()` points behind what is left.

`Connection` is `IOEventHandler::handle` on these streams.  `pc` follows the analyser:
the three words of the request line, `skipTerminateCH`, the header lines, the body.  Words
and lines are read character by character, because the input may end at each of them; a
word of the request line is one symbol of `Char`, keys and values are sequences of symbols
of any length, and `stoul` knows the two values that announce a body of one or two bytes.
`ScriptAssumption` says that what the client sends is well formed: words without blanks,
keys without colon and without a double, values that do not begin with a blank, no line break inside.  `HeaderLine` does what `parseHead`
does with one line: it takes the last character off whatever it is, takes a line of
length 1 for the blank line, and lets `substr` throw if the colon was the last
character.  Nobody catches the exception in the worker's thread, so the process ends
(`"terminated"`).  `parseBody` takes what is buffered; `readsome` never calls
`underflow`, so with an empty buffer there is no step any more (`Spinning`).  The i-th
answer is a number of bytes `<<i, 1>>, <<i, 2>>, ...` given to the ostream one by one.
`ostream::flush` on a stream that has failed calls `sync` in older versions of libstdc++
and does not in newer ones; both are allowed.

## 3. Runs

Passing runs:

| Run | Instance | Distinct states |
|---|---|---|
| `reactor_safety` | 3 clients, 2 workers of capacity 1, 3 descriptors, 1 request per client | 1,421,448 |
| `reactor_faults` | 2 clients with 1 and 2 requests, 1 worker of capacity 1, 2 descriptors, calls fail, both threads may end, fair | 485,280 |
| `logger` | 2 threads, 2 messages each, Buffers of size 2, the disk fails, spurious wake-ups, destructor, fair | 120,312 |
| `redis` | 2 connections (one with a lock timeout), 3 threads, 1 operation each, `MaxRef` 2, the pool is cleared at any time, fair | 322,936 |
| `server` | 3 IO workers, every call of `init` may fail, fair | 6,054 |
| `responder` | 2 workers, 1 page and 2 error pages of up to 2 blocks, 1 edit | 1,587,489 |
| `connection` | 7 clients with 1 to 3 requests, cut anywhere; buffers of 3 bytes, answers of 3 or 4, sends fail, fair | 156,989 |

What they show, in the words of the properties:

* *Reactor.*  A handler never meets an Event without its worker
  (`HandledEventHasWorker`); the capacity test made outside the lock is enough
  (`WithinCapacity`: there is only one thread that adds); map and kernel agree
  outside critical sections (`MapMatchesKernel`); no edge is lost (`EdgeKept`);
  no descriptor leaks or is used after close (`DescriptorsOwned`,
  `NoStrayClose`); connections go round (`RoundRobin`); each connection is accepted, served by
  one worker to its end and closed, once and in this order (`ImplementsService`).  Under
  fairness a connection in the backlog is accepted (`BacklogDrained`) unless the listener's
  thread ends, or an `accept` failed while it was waiting and nobody connects afterwards;
  what arrives on a connection that a worker serves is read by it, and the connection is
  then closed (`InputServed`), unless the worker is lost: its thread was stopped, it spins in
  `parseBody`, or a stray close took a descriptor away.  `InputServed` does not say that the
  request is answered (it may be malformed), nor anything about a connection the
  listener refuses or about data that arrives after the worker has met EAGAIN: the code drops it
  with the connection.  In `reactor_faults` workers do open files, so the stray close of the
  finding below happens; `MapMatchesKernel`, `ImplementsService` and `InputServed` speak of the
  behaviours without it, and `reactor_safety` shows (`NoStrayClose`) that without failing
  calls there is none.
* *Logger.*  Nothing is lost, doubled or reordered on the way (`Conserved`,
  `PerThreadOrder`, `ImplementsChannel`), nothing is cut off
  (`NothingCutOff`), the destructor is complete (`CompleteAtExit`), `__current`
  is bounded (`CurrentBounded`), every message is flushed in the end
  (`EventuallyFlushed`).
* *Redis.*  Counts are exact, or at least never too high when the pool is cleared
  under its users (`RefCounts`), and bounded (`WithinMaxRef`); the mutex is released on every path (`LockInside`,
  `OperationsEnd`); a thread reads the reply to its own request (`ReplyIsOwn`);
  a connection that is free is lent (`NullOnlyIfBusy`).
* *Server.*  Handlers at work have all they use (`HandlersComplete`: this is the
  reason for the comment on the order of initialization); the socket is never closed
  twice, and once a worker was started it is closed in the end (`ClosedOnce`); a listener that is
  in `handle` while the server goes down finds every worker on its list, whose
  `weak_ptr` it locks without a test, as long as its own Worker exists
  (`ListenerFindsWorkers`: the order of the last two lines of `clean`); a worker that dies,
  even while `start` is running the others, is noticed and the program ends
  (`DeathNoticed`).
* *Responder.*  The cache holds whole pages under their own names
  (`CacheIntact`); the answer fits its code (`AnswerFits`); as many bytes follow
  as were announced (`LengthKept`).
* *Connection.*  Wherever the bytes are cut, the i-th request taken is the i-th request
  sent (`TakenWasSent`), with one exception that the property spells out: one byte of a
  header line passes for the blank line, and the last request is answered without the
  rest of its header.  The bytes sent are a beginning of the answers, in order, whichever
  sends fail (`SentIsPrefix`, with sends that take all or nothing); the output buffer is
  not overrun after a failed flush (`TypeOK`); the handler ends or is `Spinning`
  (`HandlerEnds`).

*Bounds.*  Capacity 1 and 3 clients make both workers full with a client left
over; 3 descriptors allow two connections and a file, so that every number is
reused.  With one request for each client a worker has one file open at a time there; in
`reactor_faults` one client sends two, the second of which may come before or after the worker has
met EAGAIN, and two descriptors are few enough that `accept` and `open` run out of them.  A
connection, a file and its successor at once would take three: that case is left to the
proofs.  Two messages per thread fill two Buffers,
overflow into `__alternate` and leave something in `__current`.  `RefMod` 4 with `MaxRef` 2 keeps the wrap of `__maxRef + 1` out of
reach, as the default of 2 does in the program.  Three threads and two connections
of two references each fill one connection and share it; each thread's one operation
meets every state the others leave.  Three IO workers give the loops of `init`,
`start` and `statusChecking` a first, a middle and a last one.  Files of two blocks
have a boundary inside, an edit makes them cacheable (shorter than `MaxVal` = 2), and
two workers are enough to disturb each other.  Bytes arrive one by one and are received
in up to three, so that every alignment of a request with the buffer happens; answers of
3 and 4 bytes end at the edge of the output buffer and behind it; the last of several
requests is cut after others were answered.

Deadlock is not checked: clients may stop sending, threads may have logged all they
will, a destroyed logger does nothing, the server ends, and a reader may spin on a
file that has become shorter or on a body that is not buffered.

*Fairness.*  Threads are scheduled: weak fairness for the steps of the listening
thread and of each worker (a failing `epoll_wait` and `Stop` are not forced), of a thread inside `get` or `put`, of the logger thread and
of a destructor that has begun; of the main thread (its sleep ends), and of a
worker's thread that has left its loop (`ThreadExit`).  The timeout of `wait_for` fires (`SF` on
`LTimeout`): a wait that is entered again and again is not ended by a notification or
spuriously every time.  The handler of a connection goes on as long as it can.  Clients, failures and calls from outside owe
nothing.

Runs that end in a violation (findings):

* `reactor_double_close`: the error path of `addEvent` closes the descriptor
  twice (`ListenEventHandler.cc:34-35` and `Event.cc:7`), and a worker's file
  opened in between is closed under its feet.
* `logger_reopen`: after a failed write the file name that is reopened is empty.
* `responder_mixed`: two workers use the static buffer of `HttpResponse.cc` at once,
  and a client gets a block of another client's answer.
* `connection_cut`: what has arrived of a request ends behind the colon of a header line;
  `substr` throws (`HttpRequest.cc:121`) and the server ends.
* `partial_send`: after a send that took a part of the buffer, `flush` sends its beginning
  again (`SocketStream.cc:18`), and the client gets a wrong answer.

Observations without a run of their own.  `clean` closes the listening socket only when
there is none (`Server.cc:194`), so an `init` that fails at `bind` leaves it open: without
the premise that a worker was started `ClosedOnce` fails.  A request whose body does not
come in the same segment as the end of its header makes its worker spin
(`HttpRequest.cc:135`): without `Spinning` `HandlerEnds` fails.  When `accept` fails with connections in the backlog they stay there, the socket being
edge-triggered, until another one arrives: without `missed` `BacklogDrained` fails.  `Worker::stop`
does not end a thread that is in `epoll_wait(-1)`, although the comment above it speaks of
destroying the running thread.

## 4. Proofs

Each theorem below holds for every value of the constants that the named
assumptions of its module allow: any number of threads, clients, descriptors,
connections, pages and messages, any capacity and length, whatever calls fail.  The
bounds that only keep TLC's state graph finite (`MaxMsg`, `MaxReq`, `MaxEdits`, `MaxLen`)
are arbitrary natural numbers there.

Every module keeps its inductive invariant in a section of its own at the end; `IInv`
collects it, and TLC was run on it before it was proved.  Every proof module has one
lemma per action (what the action does to each conjunct), a lemma or theorem that puts
the actions together, and then the properties.

### AsyncLoggerProofs (from `LoggerAssumption`)

| Theorem | Statement |
|---|---|
| `TypeCorrect` | `Spec => []TypeOK` |
| `MessagesConserved` | `Spec => []Conserved` |
| `NoMessageCutOff` | `Spec => []NothingCutOff` |
| `OrderIsKept` | `Spec => []PerThreadOrder` |
| `ExitIsComplete` | `Spec => []CompleteAtExit` |
| `CurrentStaysBounded` | `Spec => CurrentBounded` |
| `Refinement` | `Spec => ImplementsChannel` |

The parts of `IInv` beyond the properties themselves are there for these reasons:

* `LocalEmptyOutsideFlush`: without it the swap in `run` could put an old batch
  back behind newer messages, and `Conserved` would not survive `LWoken`;
* a working disk has an open file, no failure and `written = flushed`: that is
  what turns "the destructor has flushed everything" into the second half of
  `CompleteAtExit`;
* a destroyed logger holds nothing: `Conserved` then says `flushed = appended`;
* a thread at the lock has a message left to send: `appended` stays typed.

The argument goes from facts about concatenation (`JoinLast`, `StartNew`,
`TakePrefix`, ...: how a message joins the end and how a batch leaves the front of
`local \o alternate \o current`), through one lemma per action, to `NextStep`,
which says for each step at once that `IInv` is kept and what the step means in
`LogChannel`.  `PerThreadOrder` needs a second invariant, `OrderInv`: the order holds of
the file *followed by what is pending*, and no message there is newer than what its thread
has logged.  A message that is appended is then the newest of its thread (`NewestLast`),
and a flush of which only a part reaches the file takes a piece out of the middle, which
keeps the order of the rest (`DropMiddle`).

### ReactorProofs and DescriptorProofs (from `ReactorAssumption`)

| Theorem | Statement |
|---|---|
| `TypeCorrect` | `Spec => []TypeOK` |
| `AssertionHolds` | `Spec => []HandledEventHasWorker` |
| `CapacityKept` | `Spec => []WithinCapacity` |
| `TurnsAreFair` | `Spec => []RoundRobin` |
| `Inductive` | `Spec => []IInv` |
| `MapIsRight` | `Spec => []MapMatchesKernel` |
| `DescriptorsAreOwned` | `Spec => []DescriptorsOwned` |
| `ClosesHitTheirOwn` | `ASSUME ~CallMayFail PROVE Spec => []NoStrayClose` |
| `EdgesAreKept` | `ASSUME ~CallMayFail PROVE Spec => []EdgeKept` |
| `OnlyTheSecondCloseStrays` | `Spec => [][strayClose' => strayClose \/ LCloseClient]_vars` |

The invariant has three layers, because the finding `reactor_double_close` is real: once
a close has hit somebody else's descriptor, what links the program's objects to
the kernel's is gone.

* `Core` holds whatever happens to descriptors: what the listener (`ListenerState`) and
  each worker (`ThreadState`) have in hand at every point of their code, whom an Event
  belongs to (`EventState`), who may hold a lock (`LockState`), and that the room the
  listener has seen is still there when it inserts (`RoomKept`: only the listener adds).
  Type, assertion and capacity follow.
* `Turns` is about the rotation of the list of workers: it stays a permutation, and along it
  the numbers of connections never fall and differ by at most one.  `RoundRobin` says
  this of every two workers; a permutation reaches them all.
* `Linked` holds until a close has gone astray: the exact difference between a map and
  the interest set inside each critical section (`MapState`), one owner for every
  descriptor whose number leads back to it (`Ownership`, with `FilesOwned` for the files of the
  responses), and `EdgeKept`.  The
  delicate steps are the destruction of an Event by its last owner and the reuse of its
  number: `Ownership` says that nobody else's number is the one that is freed.

`OnlyTheSecondCloseStrays` turns the finding round: of all steps of the program only the
listener's `close(clientFD)` after a failed `addEvent` (`LCloseClient`) can hit a foreign
descriptor, so removing that line removes the hazard.  The hypothesis `~CallMayFail`
(`fcntl` and `epoll_ctl` succeed, and `accept` fails only for want of a connection or a
descriptor) is the one the run `reactor_safety` has; with failing
calls the two properties do not hold, as the finding shows.

### ServiceProofs (from `ReactorAssumption`)

| Theorem | Statement |
|---|---|
| `HandyInvariant` | `Spec => []Handy` |
| `DeletionSucceeds` | until a stray close, `delEvent` finds the descriptor in the interest set |
| `Refinement` | `Spec => ImplementsService` |
| `PromiseIsKept` | `ASSUME ~CallMayFail PROVE Spec => [][Service!Step]_(Service!service)` |

The refinement needs two facts that the invariant of `ReactorProofs` and `DescriptorProofs` does
not give, and `Handy` adds them, again until the first stray close.  `OneDescriptor`: a connection
is open as long as exactly one descriptor refers to it; with it the close in `DestroyEvent` is
the abstract `Close`, once.  `InHand`: what a worker has yet to handle or is handling
is in its map; with it `WDelErase` is the abstract `GiveUp` of a connection that the worker
was serving, and `DeletionSucceeds` follows, so the code may ignore what `delEvent` returns.
Then one lemma per action says which abstract step it is: `LInsert` is `Assign`, the last
`WRecv` is `Drain`, dropping the last reference is `Close` or, for an Event that was never in a
map, `Refuse`; most other steps change nothing the service can see.  `Refinement` allows the
promise to end (`broken`); `PromiseIsKept` says that as long as `fcntl` and `epoll_ctl` succeed
(and `accept` fails for the two usual reasons only) it never does.

### RedisPoolProofs (from `PoolAssumption`)

| Theorem | Statement |
|---|---|
| `TypeCorrect` | `Spec => []TypeOK` |
| `CountsAreRight` | `Spec => []RefCounts` |
| `NeverOverLent` | `Spec => []WithinMaxRef` |
| `LockReleased` | `Spec => []LockInside` |
| `RepliesMatch` | `Spec => []ReplyIsOwn` |
| `NullMeansBusy` | `ASSUME MaxRef + 1 < RefMod PROVE Spec => NullOnlyIfBusy` |

`RefCounts` speaks of the number of threads between `getOneConnection` and
`returnConnection`; `CurHeld` ties that set to what the threads have in hand, `LockHeld` the
mutexes to program points, `WireMatches` the unread requests on a connection to the one
thread that holds its mutex (or to a broken context), and `NullEntry` says that a thread
without a connection has none in its hand.  That no count wraps needs no bound on the
number of threads: a count is at most `__maxRef`, whatever their number.  Only
`NullMeansBusy` needs `__maxRef + 1` not to wrap in the comparison of `getOneConnection`; with the
largest `__maxRef` the pool would lend nothing at all.

### ServerProofs (from the assumptions of `ServerLifecycle`)

| Theorem | Statement |
|---|---|
| `TypeCorrect` | `Spec => []TypeOK` |
| `HandlersAreComplete` | `Spec => []HandlersComplete` |
| `SocketClosedOnce` | `Spec => []ClosedOnce` |
| `WorkersOutliveListener` | `Spec => []ListenerFindsWorkers` |

`InitProgress` says how far `init` has come at each value of `pc` and `k`, `Prepared` what
is therefore there when `start` begins to run workers, `LoopRange` where the loops are, and
`SocketOwned` which of the two possible owners has the listening socket and how often it
was closed.  `ListenerWithin` says that the listen worker is made when all others are there and
is gone before the first of them goes; that gives `ListenerFindsWorkers`.

### ResponderProofs (from `ResponderAssumption` and `NullAssumption`)

| Theorem | Statement |
|---|---|
| `TypeCorrect` | `Spec => []TypeOK` |
| `CacheStaysIntact` | `Spec => []CacheIntact` |
| `AnswersFit` | `Spec => []AnswerFits` |
| `LengthIsKept` | `Spec => []LengthKept` |

`Reading` says that the blocks read so far are the first ones of the page, so that what `put`
stores when nothing is left is whole; `Accessing` that the page being accessed is the one
the code calls for; `Sending` that what was sent and what is left make up the announced
length; `BodyThere` that a body without text has its file.  `NullAssumption` only says that
`Null` is none of the values it is told apart from.

### ConnectionProofs (from `StreamAssumption`, `AnswerAssumption` and `ScriptAssumption`)

| Theorem | Statement |
|---|---|
| `Inductive` | `Spec => []IInv` |
| `OutputStaysInBuffer` | `Spec => []OutputFits` |
| `AnswersInOrder` | `ASSUME ~PartialSend PROVE Spec => []SentIsPrefix` |
| `ParserOnTrack` | `Spec => []Reader` |
| `TypeCorrect` | `Spec => []TypeOK` |
| `RequestsAreKept` | `Spec => []TakenWasSent` |

The first three are about the writer, the others about the reader.

`SentIsPrefix` does not concatenate the answers, it says that each byte is the one
`After` the last; an answer has at least its response line (`AnswerAssumption`), so there
always is such a byte.  The invariant follows `Out`, what was sent and what will be by the
flush that is going on or by the next one: `send`, `sendFails` and `flushed` move bytes without
changing it, `Write` appends to it, and as long as the stream is good it ends where the
answer being written does (`Progress`).  Once the stream is bad nothing is appended any
more, and `sync` or the destructor may still send what is in the buffer.  `~PartialSend` is
the hypothesis of the run `connection`; without it the property does not hold, as the finding
`partial_send` shows.

The reader's invariant, `Reader`, does not speak of segments at all.  `Left` is everything
the parser has yet to read, whether it is buffered, arrived or unsent; `Arrive` and `Receive` leave
it as it is, so wherever the bytes are cut, it is the text of the requests after the last one
taken (`Ahead`) without what was read of the next.  `OnTrack` says at each `pc` how much that is:
a word of the line, its end, `j` whole header fields and a beginning of the next line (`AtHead`),
a part of the body (`AtBody`); and that the request being built is the beginning `Begun(r, j, b)`
of the one the client means.  A complete header line is a field of that request or its blank
line, which is where well-formedness is used.  The exception is the code's own: the first byte of a header
line, cut off by the end of the input, passes for the blank line.  `TakenSoFar` says that what
is taken then is the beginning of a request, and that no further request is taken.

The texts are concatenations (`FlattenSeq`), so these are inductions over sequences of any
length.  The proof makes them from the principle of the least element (`Least`, from the
library's well-founded relations, which takes a set and not an operator): `FlattenFunction`
shows that the recursive function inside `FlattenSeq` exists, `FlattenCons` that the
concatenation can be taken apart at its head, and one step of the parser then needs only the
head.

### Only model-checked

What depends on fairness: `BacklogDrained`, `InputServed`, `EventuallyFlushed`, `OperationsEnd`,
`DeathNoticed`, `HandlerEnds`.  Liveness and ENABLED are beyond this prover.  Every safety property
of the passing runs is stated by a theorem.

No module declares a RECURSIVE operator.

## 5. What is not modelled

* Requests that are not well formed: the parser drops most of them with an error, and reads
  on in the middle if the input has not ended; a `Content-Length` that is not a number, or out
  of range, makes `std::stoul` throw (`HttpRequest.cc:82`), which nobody catches, and the
  process ends.  The bytes of a body, which are only logged; that
  all parsers share one static buffer therefore shows in the log alone.  A byte 0xFF,
  which `underflow` would take for the end of the input.
* `HttpConfig` from enumerations to text, `Error`: constant tables.  `Router::loadFrom`,
  `HttpRequest::delHeader`, `Epoll::epollModEvent`, `Worker::modEvent`: no caller.
* Formatting of log lines and headers, keys and bytes of cached values, real time,
  signals (`main` installs an empty handler for
  `SIGPIPE`, so a send to a client that is gone just fails).

## 6. Plan

Done: `ConnectionService` and `Reactor`, `LogChannel` and `AsyncLogger`, `RedisPool`,
`ServerLifecycle`, `Responder`, `SocketStream`, `Connection`, and the proofs of every safety property the
passing runs check.  Worth adding: requests that are not well formed (a client that
sends any bytes, and what the parser takes them for), and a composition of `Connection`
with `Responder` in which the bytes of an answer are those of its page.
