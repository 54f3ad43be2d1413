------------------------------ MODULE RedisPool ------------------------------
(***************************************************************************)
(* The Redis cache as the worker threads use it: a pool that lends each    *)
(* connection to at most __maxRef threads at a time, the timed mutex of a  *)
(* connection, and the request/reply exchange over it.                     *)
(*                                                                         *)
(* Source: Cache/RedisCache.cc.  RedisCache::get and RedisCache::put have  *)
(* the same control (borrow, getKey or putKey, give back) and are one      *)
(* operation here; keys and values do not matter to it.  hiredis and the   *)
(* Redis server are external: requests on a connection are answered in     *)
(* order, and a context whose exchange has failed answers nothing more.    *)
(***************************************************************************)
EXTENDS Integers, Sequences, FiniteSets

CONSTANTS
    Conn,      \* the RedisConnection objects
    Thread,    \* the threads that call RedisCache::get and put
    MaxConn,   \* RedisConnectionPool::__maxConn
    MaxRef,    \* RedisConnectionPool::__maxRef
    RefMod,    \* the modulus of ref_count_t (unsigned)
    Timed,     \* the connections whose __lockTimeout is not 0
    MaxOps,    \* bound: operations per thread
    Null       \* nullptr

ASSUME PoolAssumption ==
    /\ IsFiniteSet(Thread) /\ IsFiniteSet(Conn)
    /\ MaxConn \in Nat /\ MaxOps \in Nat
    /\ RefMod \in Nat \ {0} /\ MaxRef \in 0..RefMod-1
    /\ Timed \subseteq Conn
    /\ Null \notin Conn /\ Null \notin Thread

VARIABLES
    pool,   \* the keys of RedisConnectionPool::__conns
    ref,    \* its values
    ctx,    \* RedisConnection::__context: "null", "ok" or "broken"
    lock,   \* owner of RedisConnection::__lock
    wire,   \* requests sent on a connection whose replies were not read
    pc,     \* the threads, in RedisCache::get or put
    cur,    \* the local variable conn
    ops,    \* operations each thread has begun
    reply,  \* the request whose reply the thread has read, or Null
    cleared \* history: the pool has been cleared

vars == <<pool, ref, ctx, lock, wire, pc, cur, ops, reply, cleared>>

Goto(t, label) == pc' = [pc EXCEPT ![t] = label]

\* The request thread t is making.
request(t) == <<t, ops[t]>>

-----------------------------------------------------------------------------
(* Setting up, in Server::initResourceAccessor *)

\* connect, AUTH and redisSetTimeout, one of which may fail
contextInit(c) ==
    /\ ctx[c] = "null"
    /\ \E result \in {"null", "ok", "broken"} : ctx' = [ctx EXCEPT ![c] = result]
    /\ UNCHANGED <<pool, ref, lock, wire, pc, cur, ops, reply, cleared>>

\* The count of an earlier stay in the pool is kept.
pushConnectionKeepsCount(c) ==
    /\ Cardinality(pool) < MaxConn
    /\ c \notin pool
    /\ pool' = pool \cup {c}
    /\ UNCHANGED <<ref, ctx, lock, wire, pc, cur, ops, reply, cleared>>

pushConnection(c) ==
    /\ Cardinality(pool) < MaxConn
    /\ c \notin pool
    /\ pool' = pool \cup {c}
    /\ ref' = [ref EXCEPT ![c] = 0]
    /\ UNCHANGED <<ctx, lock, wire, pc, cur, ops, reply, cleared>>

\* bound: once
clear ==
    /\ ~cleared /\ pool # {}
    /\ pool' = {} /\ cleared' = TRUE
    /\ UNCHANGED <<ref, ctx, lock, wire, pc, cur, ops, reply>>

-----------------------------------------------------------------------------
(* RedisConnectionPool *)

\* What the loop of getOneConnection leaves in minref, starting from
\* __maxRef + 1 in unsigned arithmetic, and the values it may leave in ret.
start == (MaxRef + 1) % RefMod
Below == {c \in pool : ref[c] < start}
Least == IF Below = {} THEN {Null}
         ELSE {c \in Below : \A d \in Below : ref[c] <= ref[d]}
minref == IF Below = {} THEN start ELSE ref[CHOOSE c \in Least : TRUE]

fullOffByOne == minref > MaxRef

fullTooEarly == minref + 1 >= MaxRef

\* if (minref >= __maxRef) return nullptr;
full == minref >= MaxRef

\* ++__conns[ret] makes an entry for the null pointer if ret is null.
getOneConnection(t) ==
    /\ pc[t] = "idle" /\ ops[t] < MaxOps
    /\ ops' = [ops EXCEPT ![t] = @ + 1]
    /\ reply' = [reply EXCEPT ![t] = Null]
    /\ \/ full /\ UNCHANGED <<pool, ref, pc, cur>>
       \/ /\ ~full
          /\ \E ret \in Least :
               /\ pool' = pool \cup {ret}
               /\ ref' = [ref EXCEPT ![ret] = (@ + 1) % RefMod]
               /\ cur' = [cur EXCEPT ![t] = ret]
               /\ Goto(t, IF ret = Null THEN "idle" ELSE "getkey")
    /\ UNCHANGED <<ctx, lock, wire, cleared>>

\* The count is decremented without a look at it.
returnConnectionUnchecked(t) ==
    /\ pc[t] = "return"
    /\ ref' = IF cur[t] \in pool THEN [ref EXCEPT ![cur[t]] = @ - 1] ELSE ref
    /\ cur' = [cur EXCEPT ![t] = Null]
    /\ Goto(t, "idle")
    /\ UNCHANGED <<pool, ctx, lock, wire, ops, reply, cleared>>

returnConnection(t) ==
    /\ pc[t] = "return"
    /\ ref' = IF cur[t] \in pool /\ ref[cur[t]] > 0
              THEN [ref EXCEPT ![cur[t]] = @ - 1] ELSE ref
    /\ cur' = [cur EXCEPT ![t] = Null]
    /\ Goto(t, "idle")
    /\ UNCHANGED <<pool, ctx, lock, wire, ops, reply, cleared>>

-----------------------------------------------------------------------------
(* RedisConnection::getKey and putKey *)

\* if (__context == nullptr) return false;
checkContext(t) ==
    /\ pc[t] = "getkey"
    /\ Goto(t, IF ctx[cur[t]] = "null" THEN "return" ELSE "lock")
    /\ UNCHANGED <<pool, ref, ctx, lock, wire, cur, ops, reply, cleared>>

acquire(t) ==
    /\ pc[t] = "lock" /\ lock[cur[t]] = Null
    /\ lock' = [lock EXCEPT ![cur[t]] = t]
    /\ Goto(t, "send")
    /\ UNCHANGED <<pool, ref, ctx, wire, cur, ops, reply, cleared>>

\* A thread that gives up does not give the connection back.
acquireTimeoutKeeps(t) ==
    /\ cur[t] \in Timed
    /\ pc[t] = "lock" /\ lock[cur[t]] # Null
    /\ cur' = [cur EXCEPT ![t] = Null]
    /\ Goto(t, "idle")
    /\ UNCHANGED <<pool, ref, ctx, lock, wire, ops, reply, cleared>>

\* try_lock_for returns false
acquireTimeout(t) ==
    /\ cur[t] \in Timed
    /\ pc[t] = "lock" /\ lock[cur[t]] # Null
    /\ Goto(t, "return")
    /\ UNCHANGED <<pool, ref, ctx, lock, wire, cur, ops, reply, cleared>>

\* redisCommand, first half: a broken context sends nothing, and a failure to
\* send breaks it.  The reply is null in both cases: goto out.
send(t) ==
    /\ pc[t] = "send"
    /\ \/ /\ ctx[cur[t]] = "ok"
          /\ wire' = [wire EXCEPT ![cur[t]] = Append(@, request(t))]
          /\ Goto(t, "recv")
          /\ UNCHANGED ctx
       \/ /\ ctx' = [ctx EXCEPT ![cur[t]] = "broken"]
          /\ Goto(t, "out")
          /\ UNCHANGED wire
    /\ UNCHANGED <<pool, ref, lock, cur, ops, reply, cleared>>

\* redisCommand, second half: the next reply on the connection ...
receive(t) ==
    /\ pc[t] = "recv" /\ wire[cur[t]] # <<>>
    /\ reply' = [reply EXCEPT ![t] = Head(wire[cur[t]])]
    /\ wire' = [wire EXCEPT ![cur[t]] = Tail(@)]
    /\ Goto(t, "out")
    /\ UNCHANGED <<pool, ref, ctx, lock, cur, ops, cleared>>

\* The exchange is given up and the context kept in use.
receiveTimeoutForgotten(t) ==
    /\ pc[t] = "recv"
    /\ Goto(t, "out")
    /\ UNCHANGED <<pool, ref, ctx, lock, wire, cur, ops, reply, cleared>>

\* ... or the timeout set by redisSetTimeout: a null reply
receiveTimeout(t) ==
    /\ pc[t] = "recv"
    /\ ctx' = [ctx EXCEPT ![cur[t]] = "broken"]
    /\ Goto(t, "out")
    /\ UNCHANGED <<pool, ref, lock, wire, cur, ops, reply, cleared>>

\* A null reply returns at once, as it did before 2022.3.9.
outNullReturns(t) ==
    /\ pc[t] = "out"
    /\ lock' = IF reply[t] = Null THEN lock ELSE [lock EXCEPT ![cur[t]] = Null]
    /\ Goto(t, "return")
    /\ UNCHANGED <<pool, ref, ctx, wire, cur, ops, reply, cleared>>

\* out: freeReplyObject; __lock.unlock();
out(t) ==
    /\ pc[t] = "out"
    /\ lock' = [lock EXCEPT ![cur[t]] = Null]
    /\ Goto(t, "return")
    /\ UNCHANGED <<pool, ref, ctx, wire, cur, ops, reply, cleared>>

-----------------------------------------------------------------------------
Init ==
    /\ pool = {}
    /\ ref = [c \in Conn \cup {Null} |-> 0]
    /\ ctx = [c \in Conn |-> "null"]
    /\ lock = [c \in Conn |-> Null]
    /\ wire = [c \in Conn |-> <<>>]
    /\ pc = [t \in Thread |-> "idle"]
    /\ cur = [t \in Thread |-> Null]
    /\ ops = [t \in Thread |-> 0]
    /\ reply = [t \in Thread |-> Null]
    /\ cleared = FALSE

\* What a thread does once it has borrowed a connection.
Going(t) ==
    \/ checkContext(t) \/ acquire(t) \/ acquireTimeout(t)
    \/ send(t) \/ receive(t) \/ receiveTimeout(t) \/ out(t)
    \/ returnConnection(t)

Next ==
    \/ \E c \in Conn : contextInit(c) \/ pushConnection(c)
    \/ clear
    \/ \E t \in Thread : getOneConnection(t) \/ Going(t)

Spec == Init /\ [][Next]_vars

\* A thread that has begun an operation is scheduled until it is done.  (The
\* reply timeout of hiredis bounds every exchange.)
FairSpec == Spec /\ \A t \in Thread : WF_vars(Going(t))

-----------------------------------------------------------------------------
(* Properties *)

Borrowers(c) == {t \in Thread : cur[t] = c}
Inside == {"send", "recv", "out"}

\* Every variable keeps its type; the counts stay within unsigned range.
TypeOK ==
    /\ pool \subseteq Conn \cup {Null}
    /\ ref \in [Conn \cup {Null} -> 0..RefMod-1]
    /\ ctx \in [Conn -> {"null", "ok", "broken"}]
    /\ lock \in [Conn -> Thread \cup {Null}]
    /\ wire \in [Conn -> Seq(Thread \X (0..MaxOps))]
    /\ pc \in [Thread -> {"idle", "getkey", "lock", "return"} \cup Inside]
    /\ cur \in [Thread -> Conn \cup {Null}]
    /\ ops \in [Thread -> 0..MaxOps]
    /\ cleared \in BOOLEAN
    /\ reply \in [Thread -> (Thread \X (0..MaxOps)) \cup {Null}]

\* The count of a connection is the number of threads that hold it, on every path
\* through get and put: no borrow is forgotten, none is returned twice.  When the pool
\* has been cleared and filled again under the threads' feet it may be lower (the new
\* entry does not know the old borrowers), but never higher.
RefCounts ==
    \A c \in Conn :
        /\ ~cleared => ref[c] = Cardinality(Borrowers(c))
        /\ c \in pool => ref[c] <= Cardinality(Borrowers(c))

\* A connection is never lent to more than __maxRef threads.
WithinMaxRef == ~cleared =>
    \A c \in Conn : Cardinality(Borrowers(c)) <= MaxRef

\* The mutex of a connection is held only by a thread inside getKey or putKey
\* on it: no return path keeps it (the slow-down of 2022.3.9).
LockInside ==
    \A c \in Conn : lock[c] # Null => cur[lock[c]] = c /\ pc[lock[c]] \in Inside

\* The reply a thread reads answers the thread's own current request: neither
\* another thread's nor one that an earlier, timed out exchange left behind.
ReplyIsOwn == \A t \in Thread : reply[t] \in {Null, request(t)}

\* getOneConnection returns nullptr only if every connection is fully lent.
NullOnlyIfBusy ==
    [][\A t \in Thread :
         ops'[t] # ops[t] /\ cur'[t] = Null => \A c \in pool : ref[c] >= MaxRef]_vars

\* Every get and put comes to an end and gives its connection back, whatever
\* Redis does.
OperationsEnd == \A t \in Thread : pc[t] # "idle" ~> pc[t] = "idle"

-----------------------------------------------------------------------------
(* The inductive invariant *)

\* A thread has a connection exactly while it is in get or put, and until the
\* pool is cleared the connection is one of the pool's.
CurHeld ==
    /\ \A t \in Thread : pc[t] = "idle" <=> cur[t] = Null
    /\ ~cleared => \A t \in Thread : cur[t] # Null => cur[t] \in pool

\* The threads inside getKey or putKey hold the mutex: at most one per connection.
LockHeld == \A t \in Thread : pc[t] \in Inside => lock[cur[t]] = t

\* A thread that waits for a reply has made the only request on the connection,
\* and an idle connection that still works has nothing on its way.
WireMatches ==
    /\ \A t \in Thread : pc[t] = "recv" => wire[cur[t]] = <<request(t)>>
    /\ \A c \in Conn :
           ctx[c] # "broken" /\ (\A t \in Borrowers(c) : pc[t] # "recv")
             => wire[c] = <<>>

\* The entry for the null pointer is made only if __maxRef + 1 wraps to 0.
NullEntry == Null \in pool => start = 0

IInv == /\ TypeOK /\ RefCounts /\ WithinMaxRef /\ LockInside /\ ReplyIsOwn
        /\ CurHeld /\ LockHeld /\ WireMatches /\ NullEntry
=============================================================================
