--------------------------- MODULE RedisPoolProofs ---------------------------
(***************************************************************************)
(* Proofs about RedisPool, for any numbers of connections, threads and     *)
(* operations and any limits.                                              *)
(***************************************************************************)
EXTENDS RedisPool, FiniteSetTheorems, WellFoundedInduction, TLAPS

-----------------------------------------------------------------------------
(* Counting borrowers *)

\* A connection has finitely many borrowers.
LEMMA BorrowersFinite ==
    ASSUME NEW c
    PROVE  IsFiniteSet(Borrowers(c)) /\ Cardinality(Borrowers(c)) \in Nat
<1>1. Borrowers(c) \subseteq Thread
    BY DEF Borrowers
<1>2. IsFiniteSet(Borrowers(c))
    BY <1>1, FS_Subset, PoolAssumption
<1> QED BY <1>2, FS_CardinalityType

\* No borrowers are counted as none.
LEMMA NotBorrowed ==
    ASSUME NEW c, \A t \in Thread : cur[t] # c
    PROVE  Cardinality(Borrowers(c)) = 0
<1>1. Borrowers(c) = {}
    BY DEF Borrowers
<1> QED BY <1>1, FS_EmptySet

\* A thread that had no connection borrows c.
LEMMA Borrow ==
    ASSUME NEW t \in Thread, NEW c \in Conn, cur \in [Thread -> Conn \cup {Null}],
           cur[t] = Null, cur' = [cur EXCEPT ![t] = c]
    PROVE  /\ Cardinality(Borrowers(c))' = Cardinality(Borrowers(c)) + 1
           /\ \A d \in Conn \ {c} : Borrowers(d)' = Borrowers(d)
<1>1. c # Null
    BY PoolAssumption
<1>2. Borrowers(c)' = Borrowers(c) \cup {t} /\ t \notin Borrowers(c)
    BY <1>1 DEF Borrowers
<1>3. \A d \in Conn \ {c} : Borrowers(d)' = Borrowers(d)
    BY PoolAssumption DEF Borrowers
<1> QED BY <1>2, <1>3, BorrowersFinite, FS_AddElement

\* A thread gives back the connection it had.
LEMMA GiveBack ==
    ASSUME NEW t \in Thread, NEW c \in Conn, cur \in [Thread -> Conn \cup {Null}],
           cur[t] = c, cur' = [cur EXCEPT ![t] = Null]
    PROVE  /\ Cardinality(Borrowers(c)) \in Nat \ {0}
           /\ Cardinality(Borrowers(c))' = Cardinality(Borrowers(c)) - 1
           /\ \A d \in Conn \ {c} : Borrowers(d)' = Borrowers(d)
<1>1. c # Null
    BY PoolAssumption
<1>2. Borrowers(c)' = Borrowers(c) \ {t} /\ t \in Borrowers(c)
    BY <1>1 DEF Borrowers
<1>3. \A d \in Conn \ {c} : Borrowers(d)' = Borrowers(d)
    BY PoolAssumption DEF Borrowers
<1>4. Cardinality(Borrowers(c))' = Cardinality(Borrowers(c)) - 1
    BY <1>2, BorrowersFinite, FS_RemoveElement
<1>5. Cardinality(Borrowers(c)) # 0
    BY <1>2, BorrowersFinite, FS_EmptySet
<1> QED BY <1>3, <1>4, <1>5, BorrowersFinite

-----------------------------------------------------------------------------
(* getOneConnection's loop *)

\* The loop finds a least count: no empty pool, no least element.
LEMMA LeastExists ==
    ASSUME TypeOK, Below # {}
    PROVE  Least # {}
<1> DEFINE R == OpToRel(<, Nat)
           T == {ref[c] : c \in Below}
<1>1. T \subseteq Nat /\ T # {}
  <2>1. \A c \in Below : ref[c] \in Nat
      BY PoolAssumption DEF TypeOK, Below
  <2> QED BY <2>1
<1>2. \E x \in T : \A y \in T : ~ (<<y, x>> \in R)
  <2> HIDE DEF T, R
  <2>1. IsWellFoundedOn(R, Nat)
      BY NatLessThanWellFounded DEF R
  <2> QED BY <1>1, <2>1, WFMin
<1>3. PICK c \in Below : \A y \in T : ~ (<<y, ref[c]>> \in R)
    BY <1>2
<1>4. \A d \in Below : ref[c] <= ref[d]
  <2> SUFFICES ASSUME NEW d \in Below PROVE ref[c] <= ref[d]
      OBVIOUS
  <2>1. ref[c] \in Nat /\ ref[d] \in Nat
      BY <1>1
  <2>2. ~ (<<ref[d], ref[c]>> \in R)
      BY <1>3
  <2> QED BY <2>1, <2>2 DEF OpToRel
<1> QED BY <1>3, <1>4 DEF Least

\* What the loop and the test after it decide: a connection that is lent has fewer
\* borrowers than __maxRef, and without one there is none to lend, unless
\* __maxRef + 1 wraps.
LEMMA LoopResult ==
    ASSUME TypeOK, NullEntry
    PROVE  /\ start \in 0..RefMod-1
           /\ \A ret \in Least : ret = Null \/ (ret \in pool /\ ret \in Conn)
           /\ \A ret \in Least : ~full /\ ret # Null => ref[ret] < MaxRef
           /\ ~full /\ Null \in Least => start = 0
           /\ full /\ start # 0 => \A c \in pool : ref[c] >= MaxRef
<1>0. /\ start \in 0..RefMod-1 /\ MaxRef \in Nat
      /\ start # 0 => start = MaxRef + 1
      /\ ref \in [Conn \cup {Null} -> 0..RefMod-1]
      /\ pool \subseteq Conn \cup {Null}
  <2>1. RefMod \in Nat \ {0} /\ MaxRef \in 0..RefMod-1
      BY PoolAssumption
  <2>2. MaxRef + 1 < RefMod => (MaxRef + 1) % RefMod = MaxRef + 1
      BY <2>1
  <2>3. MaxRef + 1 = RefMod => (MaxRef + 1) % RefMod = 0
      BY <2>1
  <2> QED BY <2>1, <2>2, <2>3 DEF start, TypeOK
<1> HIDE DEF start
<1>1. /\ Below \subseteq pool /\ \A c \in Below : ref[c] < start
      /\ \A c \in pool \ Below : ref[c] >= start
    BY <1>0 DEF Below
<1>2. CASE Below = {}
  <2>1. Least = {Null} /\ minref = start
      BY <1>2 DEF Least, minref
  <2> QED BY <1>0, <1>1, <1>2, <2>1 DEF full
<1>3. CASE Below # {}
  <2>1. Least = {c \in Below : \A d \in Below : ref[c] <= ref[d]}
      BY <1>3 DEF Least
  <2>2. PICK m \in Least : minref = ref[m]
      BY <1>3, LeastExists DEF minref
  <2>3. \A c \in Below : ref[m] <= ref[c]
      BY <2>1, <2>2
  <2>4. start # 0
      BY <1>0, <1>1, <1>3
  <2>5. Null \notin pool
      BY <2>4 DEF NullEntry
  <2>6. \A ret \in Least : ret \in pool /\ ret \in Conn
      BY <1>0, <1>1, <2>1, <2>5
  <2>7. \A ret \in Least : ~full => ref[ret] < MaxRef
    <3> SUFFICES ASSUME NEW ret \in Least, ~full PROVE ref[ret] < MaxRef
        OBVIOUS
    <3>1. ref[ret] <= ref[m] /\ ref[ret] \in Nat /\ ref[m] \in Nat
        BY <1>0, <1>1, <2>1, <2>2, <2>6
    <3>2. ~ (ref[m] >= MaxRef)
        BY <2>2 DEF full
    <3> QED BY <1>0, <3>1, <3>2
  <2>8. full => \A c \in pool : ref[c] >= MaxRef
    <3> SUFFICES ASSUME full, NEW c \in pool PROVE ref[c] >= MaxRef
        OBVIOUS
    <3>1. ref[m] >= MaxRef /\ ref[c] \in Nat /\ ref[m] \in Nat
        BY <1>0, <1>1, <2>2, <2>6 DEF full
    <3> QED BY <1>0, <1>1, <2>3, <2>4, <3>1
  <2>9. Null \notin Least
      BY <2>5, <2>6
  <2> QED BY <1>0, <2>6, <2>7, <2>8, <2>9
<1> QED BY <1>2, <1>3

-----------------------------------------------------------------------------
(* The initial state and the steps of the set-up *)

\* An empty pool satisfies the inductive invariant.
LEMMA InitInvariant == Init => IInv
<1> SUFFICES ASSUME Init PROVE IInv
    OBVIOUS
<1>1. TypeOK
  <2>1. <<>> \in Seq(Thread \X (0..MaxOps))
      OBVIOUS
  <2>2. 0 \in 0..MaxOps /\ 0 \in 0..RefMod-1
      BY PoolAssumption
  <2>3. cleared \in BOOLEAN
      BY DEF Init
  <2> QED BY <2>1, <2>2, <2>3 DEF Init, TypeOK
<1>2. \A c \in Conn : Cardinality(Borrowers(c)) = 0
  <2> SUFFICES ASSUME NEW c \in Conn PROVE Cardinality(Borrowers(c)) = 0
      OBVIOUS
  <2>1. \A t \in Thread : cur[t] # c
      BY PoolAssumption DEF Init
  <2> QED BY <2>1, NotBorrowed
<1>3. RefCounts /\ WithinMaxRef
    BY <1>2, PoolAssumption DEF Init, RefCounts, WithinMaxRef
<1> QED BY <1>1, <1>3 DEF Init, IInv, LockInside, ReplyIsOwn, CurHeld, LockHeld,
           WireMatches, NullEntry, Inside

\* Setting up a context that has carried nothing
LEMMA ContextStep ==
    ASSUME IInv, NEW c \in Conn, contextInit(c)
    PROVE  IInv'
<1>1. /\ ctx[c] = "null" /\ ctx' \in [Conn -> {"null", "ok", "broken"}]
      /\ \A d \in Conn \ {c} : ctx'[d] = ctx[d]
      /\ UNCHANGED <<pool, ref, lock, wire, pc, cur, ops, reply, cleared>>
    BY DEF contextInit, IInv, TypeOK
<1>2. TypeOK'
    BY <1>1 DEF IInv, TypeOK
<1>3. WireMatches'
    BY <1>1 DEF IInv, WireMatches, Borrowers, request
<1> QED BY <1>1, <1>2, <1>3 DEF IInv, RefCounts, WithinMaxRef, LockInside, ReplyIsOwn,
           CurHeld, LockHeld, NullEntry, Borrowers, request

\* A connection that enters the pool has no borrowers, unless the pool was cleared
\* under them.
LEMMA PushStep ==
    ASSUME IInv, NEW c \in Conn, pushConnection(c)
    PROVE  IInv'
<1>1. /\ c \notin pool /\ pool' = pool \cup {c} /\ ref' = [ref EXCEPT ![c] = 0]
      /\ UNCHANGED <<ctx, lock, wire, pc, cur, ops, reply, cleared>>
    BY DEF pushConnection
<1>2. TypeOK'
    BY <1>1, PoolAssumption DEF IInv, TypeOK
<1>3. RefCounts'
  <2> SUFFICES ASSUME NEW d \in Conn
               PROVE  /\ ~cleared' => ref'[d] = Cardinality(Borrowers(d))'
                      /\ d \in pool' => ref'[d] <= Cardinality(Borrowers(d))'
      BY DEF RefCounts
  <2>1. Borrowers(d)' = Borrowers(d) /\ Cardinality(Borrowers(d)) \in Nat
      BY <1>1, BorrowersFinite DEF Borrowers
  <2>2. CASE d = c
    <3>1. ref'[d] = 0
        BY <1>1, <2>2 DEF IInv, TypeOK
    <3>2. ~cleared => Cardinality(Borrowers(d)) = 0
        BY <1>1, <2>2, NotBorrowed, PoolAssumption DEF IInv, CurHeld
    <3> QED BY <1>1, <2>1, <3>1, <3>2
  <2>3. CASE d # c
    <3>1. ref'[d] = ref[d] /\ (d \in pool' <=> d \in pool)
        BY <1>1, <2>3 DEF IInv, TypeOK
    <3> QED BY <1>1, <2>1, <3>1 DEF IInv, RefCounts
  <2> QED BY <2>2, <2>3
<1>4. CurHeld' /\ NullEntry'
    BY <1>1, PoolAssumption DEF IInv, CurHeld, NullEntry
<1> QED BY <1>1, <1>2, <1>3, <1>4 DEF IInv, WithinMaxRef, LockInside, ReplyIsOwn,
           LockHeld, WireMatches, Borrowers, request

\* After a clear nothing is said about the counts of the old entries.
LEMMA ClearStep ==
    ASSUME IInv, clear
    PROVE  IInv'
<1>1. /\ pool' = {} /\ cleared' = TRUE
      /\ UNCHANGED <<ref, ctx, lock, wire, pc, cur, ops, reply>>
    BY DEF clear
<1>2. TypeOK'
    BY <1>1 DEF IInv, TypeOK
<1> QED BY <1>1, <1>2 DEF IInv, RefCounts, WithinMaxRef, LockInside, ReplyIsOwn,
           CurHeld, LockHeld, WireMatches, NullEntry, Borrowers, request

-----------------------------------------------------------------------------
(* Borrowing and giving back *)

\* getOneConnection found every connection busy.
LEMMA GetNothingStep ==
    ASSUME IInv, NEW t \in Thread, pc[t] = "idle", ops[t] < MaxOps,
           ops' = [ops EXCEPT ![t] = @ + 1], reply' = [reply EXCEPT ![t] = Null],
           UNCHANGED <<ctx, lock, wire, cleared, pc, cur>>,
           pool' = pool \/ (start = 0 /\ pool' = pool \cup {Null}),
           ref' \in [Conn \cup {Null} -> 0..RefMod-1],
           \A c \in Conn : ref'[c] = ref[c]
    PROVE  IInv'
<1>1. TypeOK'
    BY PoolAssumption DEF IInv, TypeOK
<1>2. RefCounts' /\ WithinMaxRef' /\ CurHeld' /\ NullEntry'
    BY PoolAssumption DEF IInv, RefCounts, WithinMaxRef, CurHeld, NullEntry, Borrowers,
       start
<1>3. LockInside' /\ LockHeld'
    BY DEF IInv, LockInside, LockHeld
<1>4. ReplyIsOwn' /\ WireMatches'
    BY DEF IInv, TypeOK, ReplyIsOwn, WireMatches, request, Borrowers
<1> QED BY <1>1, <1>2, <1>3, <1>4 DEF IInv

\* getOneConnection lends connection c.
LEMMA GetStep ==
    ASSUME IInv, NEW t \in Thread, pc[t] = "idle", ops[t] < MaxOps,
           ops' = [ops EXCEPT ![t] = @ + 1], reply' = [reply EXCEPT ![t] = Null],
           UNCHANGED <<ctx, lock, wire, cleared, pool>>,
           NEW c \in Conn, c \in pool, ref[c] < MaxRef,
           ref' = [ref EXCEPT ![c] = (@ + 1) % RefMod],
           cur' = [cur EXCEPT ![t] = c], pc' = [pc EXCEPT ![t] = "getkey"]
    PROVE  IInv'
<1>0. c # Null /\ cur[t] = Null /\ cur \in [Thread -> Conn \cup {Null}]
    BY PoolAssumption DEF IInv, CurHeld, TypeOK
<1>1. /\ ref[c] + 1 \in 0..RefMod-1 /\ ref'[c] = ref[c] + 1
      /\ \A d \in Conn \ {c} : ref'[d] = ref[d]
      /\ ref' \in [Conn \cup {Null} -> 0..RefMod-1]
  <2>1. /\ ref[c] \in Nat /\ MaxRef \in 0..RefMod-1 /\ RefMod \in Nat
        /\ ref \in [Conn \cup {Null} -> 0..RefMod-1]
      BY PoolAssumption DEF IInv, TypeOK
  <2>2. ref[c] + 1 \in 0..RefMod-1
      BY <2>1
  <2>3. (ref[c] + 1) % RefMod = ref[c] + 1
      BY <2>1, <2>2
  <2> QED BY <2>1, <2>2, <2>3
<1>2. TypeOK'
  <2>1. ops' \in [Thread -> 0..MaxOps]
      BY PoolAssumption DEF IInv, TypeOK
  <2>2. pc' \in [Thread -> {"idle", "getkey", "lock", "return"} \cup Inside]
      BY DEF IInv, TypeOK
  <2>3. cur' \in [Thread -> Conn \cup {Null}]
      BY DEF IInv, TypeOK
  <2>4. reply' \in [Thread -> (Thread \X (0..MaxOps)) \cup {Null}]
      BY DEF IInv, TypeOK
  <2> QED BY <1>1, <2>1, <2>2, <2>3, <2>4 DEF IInv, TypeOK
<1>3. RefCounts' /\ WithinMaxRef'
  <2>1. /\ Cardinality(Borrowers(c))' = Cardinality(Borrowers(c)) + 1
        /\ \A d \in Conn \ {c} : Borrowers(d)' = Borrowers(d)
      BY <1>0, Borrow
  <2>2. Cardinality(Borrowers(c)) \in Nat /\ MaxRef \in Nat /\ ref[c] \in Nat
      BY BorrowersFinite, PoolAssumption DEF IInv, TypeOK
  <2>3. /\ ~cleared => ref[c] = Cardinality(Borrowers(c))
        /\ ref[c] <= Cardinality(Borrowers(c))
      BY DEF IInv, RefCounts
  <2>4. /\ ~cleared' => ref'[c] = Cardinality(Borrowers(c))'
        /\ ref'[c] <= Cardinality(Borrowers(c))'
        /\ ~cleared' => Cardinality(Borrowers(c))' <= MaxRef
      BY <1>1, <2>1, <2>2, <2>3
  <2>5. \A d \in Conn \ {c} :
           /\ Cardinality(Borrowers(d))' = Cardinality(Borrowers(d))
           /\ ref'[d] = ref[d]
      BY <1>1, <2>1
  <2> QED BY <2>4, <2>5 DEF IInv, RefCounts, WithinMaxRef
<1>4. CurHeld' /\ NullEntry'
    BY <1>0 DEF IInv, TypeOK, CurHeld, NullEntry, start
<1>5. LockInside' /\ LockHeld'
    BY <1>0 DEF IInv, TypeOK, LockInside, LockHeld, Inside
<1>6. ReplyIsOwn'
    BY DEF IInv, TypeOK, ReplyIsOwn, request
<1>7. WireMatches'
    BY <1>0 DEF IInv, TypeOK, WireMatches, request, Borrowers
<1> QED BY <1>2, <1>3, <1>4, <1>5, <1>6, <1>7 DEF IInv

\* getOneConnection
LEMMA BorrowStep ==
    ASSUME IInv, NEW t \in Thread, getOneConnection(t)
    PROVE  IInv'
<1>1. /\ pc[t] = "idle" /\ ops[t] < MaxOps
      /\ ops' = [ops EXCEPT ![t] = @ + 1] /\ reply' = [reply EXCEPT ![t] = Null]
      /\ UNCHANGED <<ctx, lock, wire, cleared>>
    BY DEF getOneConnection
<1>2. CASE full /\ UNCHANGED <<pool, ref, pc, cur>>
    BY <1>1, <1>2, GetNothingStep DEF IInv, TypeOK
<1>3. ASSUME ~full, NEW ret \in Least,
             pool' = pool \cup {ret}, ref' = [ref EXCEPT ![ret] = (@ + 1) % RefMod],
             cur' = [cur EXCEPT ![t] = ret],
             Goto(t, IF ret = Null THEN "idle" ELSE "getkey")
      PROVE  IInv'
  <2>1. CASE ret = Null
    <3>1. start = 0
        BY <1>3, <2>1, LoopResult DEF IInv
    <3>2. pc' = pc /\ cur' = cur
        BY <1>1, <1>3, <2>1 DEF Goto, IInv, TypeOK, CurHeld
    <3>3. ref' \in [Conn \cup {Null} -> 0..RefMod-1]
      <4>1. (ref[Null] + 1) % RefMod \in 0..RefMod-1
          BY PoolAssumption DEF IInv, TypeOK
      <4> QED BY <1>3, <2>1, <4>1 DEF IInv, TypeOK
    <3>4. \A c \in Conn : ref'[c] = ref[c]
        BY <1>3, <2>1, PoolAssumption DEF IInv, TypeOK
    <3> QED BY <1>1, <1>3, <2>1, <3>1, <3>2, <3>3, <3>4, GetNothingStep
  <2>2. CASE ret # Null
    <3>1. ret \in Conn /\ ret \in pool /\ ref[ret] < MaxRef
        BY <1>3, <2>2, LoopResult DEF IInv
    <3>2. UNCHANGED pool /\ pc' = [pc EXCEPT ![t] = "getkey"]
        BY <1>3, <2>2, <3>1 DEF Goto
    <3> QED BY <1>1, <1>3, <3>1, <3>2, GetStep
  <2> QED BY <2>1, <2>2
<1> QED BY <1>2, <1>3 DEF getOneConnection

\* returnConnection takes back what this thread had borrowed.
LEMMA ReturnStep ==
    ASSUME IInv, NEW t \in Thread, returnConnection(t)
    PROVE  IInv'
<1>1. PICK c \in Conn : c = cur[t]
    BY DEF returnConnection, IInv, CurHeld, TypeOK
<1>2. /\ pc[t] = "return" /\ c # Null
      /\ cur' = [cur EXCEPT ![t] = Null] /\ pc' = [pc EXCEPT ![t] = "idle"]
      /\ UNCHANGED <<pool, ctx, lock, wire, ops, reply, cleared>>
    BY <1>1, PoolAssumption DEF returnConnection, Goto
<1>3. ref' = IF c \in pool /\ ref[c] > 0 THEN [ref EXCEPT ![c] = @ - 1] ELSE ref
    BY <1>1 DEF returnConnection
<1>4. /\ ref[c] \in 0..RefMod-1 /\ ref'[c] \in 0..RefMod-1
      /\ ref'[c] = IF c \in pool /\ ref[c] > 0 THEN ref[c] - 1 ELSE ref[c]
      /\ \A d \in Conn \ {c} : ref'[d] = ref[d]
      /\ ref' \in [Conn \cup {Null} -> 0..RefMod-1]
  <2>1. ref \in [Conn \cup {Null} -> 0..RefMod-1] /\ ref[c] \in 0..RefMod-1
      BY DEF IInv, TypeOK
  <2>2. ref[c] > 0 => ref[c] - 1 \in 0..RefMod-1
      BY <2>1, PoolAssumption
  <2> QED BY <1>3, <2>1, <2>2
<1>5. TypeOK'
    BY <1>2, <1>4 DEF IInv, TypeOK
<1>6. RefCounts' /\ WithinMaxRef'
  <2>1. /\ Cardinality(Borrowers(c)) \in Nat \ {0}
        /\ Cardinality(Borrowers(c))' = Cardinality(Borrowers(c)) - 1
        /\ \A d \in Conn \ {c} : Borrowers(d)' = Borrowers(d)
      BY <1>1, <1>2, GiveBack DEF IInv, TypeOK
  <2>2. /\ ~cleared => ref[c] = Cardinality(Borrowers(c)) /\ c \in pool
        /\ c \in pool => ref[c] <= Cardinality(Borrowers(c))
        /\ ~cleared => Cardinality(Borrowers(c)) <= MaxRef
      BY <1>1, <1>2 DEF IInv, RefCounts, CurHeld, WithinMaxRef
  <2>3. /\ ~cleared' => ref'[c] = Cardinality(Borrowers(c))'
        /\ c \in pool' => ref'[c] <= Cardinality(Borrowers(c))'
        /\ ~cleared' => Cardinality(Borrowers(c))' <= MaxRef
      BY <1>2, <1>4, <2>1, <2>2, PoolAssumption
  <2>4. \A d \in Conn \ {c} :
           /\ Cardinality(Borrowers(d))' = Cardinality(Borrowers(d))
           /\ ref'[d] = ref[d]
      BY <1>4, <2>1
  <2> QED BY <1>2, <2>3, <2>4 DEF IInv, RefCounts, WithinMaxRef
<1>7. CurHeld' /\ NullEntry'
    BY <1>2 DEF IInv, TypeOK, CurHeld, NullEntry, start
<1>8. LockInside' /\ LockHeld'
    BY <1>2 DEF IInv, TypeOK, LockInside, LockHeld, Inside
<1>9. ReplyIsOwn'
    BY <1>2 DEF IInv, TypeOK, ReplyIsOwn, request
<1>10. WireMatches'
    BY <1>2, PoolAssumption DEF IInv, TypeOK, WireMatches, request, Borrowers
<1> QED BY <1>5, <1>6, <1>7, <1>8, <1>9, <1>10 DEF IInv

-----------------------------------------------------------------------------
(* The exchange *)

\* A step of the exchange changes neither who has which connection nor the
\* counts.
LEMMA LendingKept ==
    ASSUME IInv, NEW t \in Thread, NEW label, pc[t] # "idle", label # "idle",
           label \in {"lock", "return"} \cup Inside,
           pc' = [pc EXCEPT ![t] = label],
           UNCHANGED <<pool, ref, cur, ops, cleared>>
    PROVE  /\ RefCounts' /\ WithinMaxRef' /\ CurHeld' /\ NullEntry'
           /\ pc' \in [Thread -> {"idle", "getkey", "lock", "return"} \cup Inside]
           /\ cur[t] \in Conn
<1>1. RefCounts' /\ WithinMaxRef' /\ NullEntry'
    BY DEF IInv, RefCounts, WithinMaxRef, NullEntry, Borrowers, start
<1>2. CurHeld' /\ cur[t] \in Conn
    BY DEF IInv, TypeOK, CurHeld
<1> QED BY <1>1, <1>2 DEF IInv, TypeOK

\* getKey's look at the context, and a lock that is not got in time
LEMMA OutsideStep ==
    ASSUME IInv, NEW t \in Thread, checkContext(t) \/ acquireTimeout(t)
    PROVE  IInv'
<1>1. PICK label \in {"lock", "return"} :
         /\ pc[t] \in {"getkey", "lock"} /\ pc' = [pc EXCEPT ![t] = label]
         /\ UNCHANGED <<pool, ref, ctx, lock, wire, cur, ops, reply, cleared>>
    BY DEF checkContext, acquireTimeout, Goto
<1>2. /\ RefCounts' /\ WithinMaxRef' /\ CurHeld' /\ NullEntry'
      /\ pc' \in [Thread -> {"idle", "getkey", "lock", "return"} \cup Inside]
    BY <1>1, LendingKept
<1>3. TypeOK'
    BY <1>1, <1>2 DEF IInv, TypeOK
<1>4. LockInside' /\ LockHeld'
    BY <1>1 DEF IInv, TypeOK, LockInside, LockHeld, Inside
<1>5. ReplyIsOwn' /\ WireMatches'
    BY <1>1 DEF IInv, TypeOK, ReplyIsOwn, WireMatches, request, Borrowers
<1> QED BY <1>2, <1>3, <1>4, <1>5 DEF IInv

\* A free mutex is taken.
LEMMA AcquireStep ==
    ASSUME IInv, NEW t \in Thread, acquire(t)
    PROVE  IInv'
<1>1. /\ pc[t] = "lock" /\ pc' = [pc EXCEPT ![t] = "send"] /\ lock[cur[t]] = Null
      /\ lock' = [lock EXCEPT ![cur[t]] = t]
      /\ UNCHANGED <<pool, ref, ctx, wire, cur, ops, reply, cleared>>
    BY DEF acquire, Goto
<1>2. /\ RefCounts' /\ WithinMaxRef' /\ CurHeld' /\ NullEntry'
      /\ pc' \in [Thread -> {"idle", "getkey", "lock", "return"} \cup Inside]
      /\ cur[t] \in Conn
    BY <1>1, LendingKept DEF Inside
<1>3. TypeOK'
    BY <1>1, <1>2 DEF IInv, TypeOK
<1>4. LockInside'
    BY <1>1, <1>2, PoolAssumption DEF IInv, TypeOK, LockInside, Inside
<1>5. LockHeld'
  <2> SUFFICES ASSUME NEW u \in Thread, pc'[u] \in Inside PROVE lock'[cur'[u]] = u
      BY DEF LockHeld
  <2>1. CASE u = t
      BY <1>1, <1>2, <2>1 DEF IInv, TypeOK
  <2>2. CASE u # t
    <3>1. lock[cur[u]] = u /\ u # Null
        BY <1>1, <2>2, PoolAssumption DEF IInv, TypeOK, LockHeld
    <3>2. cur[u] # cur[t]
        BY <1>1, <3>1
    <3> QED BY <1>1, <3>1, <3>2 DEF IInv, TypeOK
  <2> QED BY <2>1, <2>2
<1>6. ReplyIsOwn' /\ WireMatches'
    BY <1>1 DEF IInv, TypeOK, ReplyIsOwn, WireMatches, request, Borrowers
<1> QED BY <1>2, <1>3, <1>4, <1>5, <1>6 DEF IInv

\* The mutex lets one thread at a time into the exchange on a connection.
LEMMA Alone ==
    ASSUME IInv, NEW t \in Thread, NEW u \in Thread, pc[t] \in Inside,
           pc[u] \in Inside, cur[t] = cur[u]
    PROVE  t = u
BY DEF IInv, LockHeld

\* The connection carries nothing else when a request is sent on it.
LEMMA SendStep ==
    ASSUME IInv, NEW t \in Thread, send(t)
    PROVE  IInv'
<1> DEFINE c == cur[t]
           r == request(t)
<1>1. /\ pc[t] = "send" /\ UNCHANGED <<pool, ref, lock, cur, ops, reply, cleared>>
      /\ \/ /\ ctx[c] = "ok" /\ wire' = [wire EXCEPT ![c] = Append(@, r)]
            /\ pc' = [pc EXCEPT ![t] = "recv"] /\ UNCHANGED ctx
         \/ /\ ctx' = [ctx EXCEPT ![c] = "broken"]
            /\ pc' = [pc EXCEPT ![t] = "out"] /\ UNCHANGED wire
    BY DEF send, Goto
<1>2. /\ RefCounts' /\ WithinMaxRef' /\ CurHeld' /\ NullEntry'
      /\ pc' \in [Thread -> {"idle", "getkey", "lock", "return"} \cup Inside]
      /\ c \in Conn
    BY <1>1, LendingKept DEF Inside
<1>3. LockInside' /\ LockHeld'
  <2>1. /\ pc[t] = "send" /\ lock' = lock /\ cur' = cur
        /\ \E label \in {"recv", "out"} : pc' = [pc EXCEPT ![t] = label]
      BY <1>1
  <2> QED BY <2>1 DEF IInv, TypeOK, LockInside, LockHeld, Inside
<1>4. ReplyIsOwn'
    BY <1>1 DEF IInv, ReplyIsOwn, request
<1>5. \A u \in Thread \ {t} : cur[u] = c => pc[u] # "recv"
    BY <1>1, Alone DEF Inside
<1>6. CASE /\ ctx[c] = "ok" /\ wire' = [wire EXCEPT ![c] = Append(@, r)]
           /\ pc' = [pc EXCEPT ![t] = "recv"] /\ UNCHANGED ctx
  <2>1. wire[c] = <<>>
      BY <1>1, <1>2, <1>5, <1>6 DEF IInv, WireMatches, Borrowers
  <2>2. r \in Thread \X (0..MaxOps) /\ r = <<t, ops[t]>>
      BY DEF IInv, TypeOK, request
  <2> HIDE DEF r
  <2>3. Append(wire[c], r) = <<r>> /\ <<r>> \in Seq(Thread \X (0..MaxOps))
      BY <2>1, <2>2
  <2>4. /\ wire' \in [Conn -> Seq(Thread \X (0..MaxOps))]
        /\ wire'[c] = <<r>> /\ \A d \in Conn \ {c} : wire'[d] = wire[d]
      BY <1>2, <1>6, <2>3 DEF IInv, TypeOK
  <2>5. TypeOK'
      BY <1>1, <1>2, <1>6, <2>4 DEF IInv, TypeOK
  <2>6. \A u \in Thread : pc'[u] = "recv" => wire'[cur'[u]] = <<request(u)>>'
    <3> SUFFICES ASSUME NEW u \in Thread, pc'[u] = "recv"
                 PROVE  wire'[cur'[u]] = <<request(u)>>'
        OBVIOUS
    <3>1. <<request(u)>>' = <<request(u)>> /\ cur'[u] = cur[u]
        BY <1>1 DEF request
    <3>2. CASE u = t
        BY <2>4, <3>1, <3>2 DEF r
    <3>3. CASE u # t
      <4>1. pc[u] = "recv" /\ cur[u] # c /\ cur[u] \in Conn
          BY <1>5, <1>6, <3>3 DEF IInv, TypeOK, CurHeld
      <4> QED BY <2>4, <3>1, <4>1 DEF IInv, WireMatches
    <3> QED BY <3>2, <3>3
  <2>7. \A d \in Conn :
           ctx'[d] # "broken" /\ (\A u \in Borrowers(d)' : pc'[u] # "recv")
             => wire'[d] = <<>>
    <3> SUFFICES ASSUME NEW d \in Conn, ctx'[d] # "broken",
                        \A u \in Borrowers(d)' : pc'[u] # "recv"
                 PROVE  wire'[d] = <<>>
        OBVIOUS
    <3>1. d # c
        BY <1>1, <1>6 DEF Borrowers, IInv, TypeOK
    <3>2. \A u \in Borrowers(d) : pc[u] # "recv"
        BY <1>1, <1>6, <3>1 DEF Borrowers, IInv, TypeOK
    <3> QED BY <1>6, <2>4, <3>1, <3>2 DEF IInv, WireMatches
  <2>8. WireMatches'
      BY <2>6, <2>7 DEF WireMatches
  <2> QED BY <1>2, <1>3, <1>4, <2>5, <2>8 DEF IInv
<1>7. CASE /\ ctx' = [ctx EXCEPT ![c] = "broken"]
           /\ pc' = [pc EXCEPT ![t] = "out"] /\ UNCHANGED wire
  <2>1. TypeOK'
      BY <1>1, <1>2, <1>7 DEF IInv, TypeOK
  <2>2. WireMatches'
      BY <1>1, <1>2, <1>7 DEF IInv, TypeOK, WireMatches, request, Borrowers
  <2> QED BY <1>2, <1>3, <1>4, <2>1, <2>2 DEF IInv
<1> QED BY <1>1, <1>6, <1>7

\* The reply a thread reads is the one to its own request, the only one there.
LEMMA ReceiveStep ==
    ASSUME IInv, NEW t \in Thread, receive(t)
    PROVE  IInv'
<1> DEFINE c == cur[t]
           r == request(t)
<1>1. /\ pc[t] = "recv" /\ UNCHANGED <<pool, ref, ctx, lock, cur, ops, cleared>>
      /\ reply' = [reply EXCEPT ![t] = Head(wire[c])]
      /\ wire' = [wire EXCEPT ![c] = Tail(@)] /\ pc' = [pc EXCEPT ![t] = "out"]
    BY DEF receive, Goto
<1>2. /\ RefCounts' /\ WithinMaxRef' /\ CurHeld' /\ NullEntry'
      /\ pc' \in [Thread -> {"idle", "getkey", "lock", "return"} \cup Inside]
      /\ c \in Conn
    BY <1>1, LendingKept DEF Inside
<1>3. LockInside' /\ LockHeld'
  <2>1. /\ pc[t] = "recv" /\ pc' = [pc EXCEPT ![t] = "out"]
        /\ lock' = lock /\ cur' = cur
      BY <1>1
  <2> QED BY <2>1 DEF IInv, TypeOK, LockInside, LockHeld, Inside
<1>4. r \in Thread \X (0..MaxOps) /\ wire[c] = <<r>>
    BY <1>1 DEF IInv, TypeOK, WireMatches, request
<1>5. \A u \in Thread \ {t} : cur[u] = c => pc[u] # "recv"
    BY <1>1, Alone DEF Inside
<1>6. Head(wire[c]) = r /\ Tail(wire[c]) = <<>>
  <2> HIDE DEF r, c
  <2> QED BY <1>4
<1>7. /\ reply' \in [Thread -> (Thread \X (0..MaxOps)) \cup {Null}]
      /\ reply'[t] = r /\ \A u \in Thread \ {t} : reply'[u] = reply[u]
  <2> HIDE DEF r, c
  <2> QED BY <1>1, <1>4, <1>6 DEF IInv, TypeOK
<1>8. /\ wire' \in [Conn -> Seq(Thread \X (0..MaxOps))]
      /\ wire'[c] = <<>> /\ \A d \in Conn \ {c} : wire'[d] = wire[d]
  <2>1. <<>> \in Seq(Thread \X (0..MaxOps))
      OBVIOUS
  <2> HIDE DEF c
  <2> QED BY <1>1, <1>2, <1>6, <2>1 DEF IInv, TypeOK
<1>9. TypeOK'
    BY <1>1, <1>2, <1>7, <1>8 DEF IInv, TypeOK
<1>10. ReplyIsOwn'
  <2>1. \A u \in Thread : request(u)' = request(u)
      BY <1>1 DEF request
  <2> QED BY <1>7, <2>1 DEF IInv, ReplyIsOwn
<1>11. WireMatches'
  <2>1. \A u \in Thread : pc'[u] = "recv" => wire'[cur'[u]] = <<request(u)>>'
    <3> SUFFICES ASSUME NEW u \in Thread, pc'[u] = "recv"
                 PROVE  wire'[cur'[u]] = <<request(u)>>'
        OBVIOUS
    <3>1. <<request(u)>>' = <<request(u)>> /\ cur'[u] = cur[u]
        BY <1>1 DEF request
    <3>2. pc[u] = "recv" /\ cur[u] # c /\ cur[u] \in Conn
        BY <1>1, <1>5 DEF IInv, TypeOK, CurHeld
    <3> QED BY <1>8, <3>1, <3>2 DEF IInv, WireMatches
  <2>2. \A d \in Conn :
           ctx'[d] # "broken" /\ (\A u \in Borrowers(d)' : pc'[u] # "recv")
             => wire'[d] = <<>>
    <3> SUFFICES ASSUME NEW d \in Conn, d # c, ctx'[d] # "broken",
                        \A u \in Borrowers(d)' : pc'[u] # "recv"
                 PROVE  wire'[d] = <<>>
        BY <1>8
    <3>1. \A u \in Borrowers(d) : pc[u] # "recv"
        BY <1>1 DEF Borrowers, IInv, TypeOK
    <3> QED BY <1>1, <1>8, <3>1 DEF IInv, WireMatches
  <2> QED BY <2>1, <2>2 DEF WireMatches
<1> QED BY <1>2, <1>3, <1>9, <1>10, <1>11 DEF IInv

\* An exchange that is given up leaves its reply on the way, but the context is
\* not used again.
LEMMA ReceiveTimeoutStep ==
    ASSUME IInv, NEW t \in Thread, receiveTimeout(t)
    PROVE  IInv'
<1>1. /\ pc[t] = "recv" /\ ctx' = [ctx EXCEPT ![cur[t]] = "broken"]
      /\ pc' = [pc EXCEPT ![t] = "out"]
      /\ UNCHANGED <<pool, ref, lock, wire, cur, ops, reply, cleared>>
    BY DEF receiveTimeout, Goto
<1>2. /\ RefCounts' /\ WithinMaxRef' /\ CurHeld' /\ NullEntry'
      /\ pc' \in [Thread -> {"idle", "getkey", "lock", "return"} \cup Inside]
      /\ cur[t] \in Conn
    BY <1>1, LendingKept DEF Inside
<1>3. TypeOK'
    BY <1>1, <1>2 DEF IInv, TypeOK
<1>4. LockInside' /\ LockHeld'
    BY <1>1 DEF IInv, TypeOK, LockInside, LockHeld, Inside
<1>5. ReplyIsOwn' /\ WireMatches'
    BY <1>1, <1>2 DEF IInv, TypeOK, ReplyIsOwn, WireMatches, request, Borrowers
<1> QED BY <1>2, <1>3, <1>4, <1>5 DEF IInv

\* Every way out of the exchange unlocks.
LEMMA OutStep ==
    ASSUME IInv, NEW t \in Thread, out(t)
    PROVE  IInv'
<1>1. /\ pc[t] = "out" /\ lock' = [lock EXCEPT ![cur[t]] = Null]
      /\ pc' = [pc EXCEPT ![t] = "return"]
      /\ UNCHANGED <<pool, ref, ctx, wire, cur, ops, reply, cleared>>
    BY DEF out, Goto
<1>2. /\ RefCounts' /\ WithinMaxRef' /\ CurHeld' /\ NullEntry'
      /\ pc' \in [Thread -> {"idle", "getkey", "lock", "return"} \cup Inside]
      /\ cur[t] \in Conn
    BY <1>1, LendingKept
<1>3. TypeOK'
    BY <1>1, <1>2 DEF IInv, TypeOK
<1>4. LockInside'
    BY <1>1, <1>2 DEF IInv, TypeOK, LockInside, LockHeld, Inside
<1>5. LockHeld'
  <2> SUFFICES ASSUME NEW u \in Thread, pc'[u] \in Inside PROVE lock'[cur'[u]] = u
      BY DEF LockHeld
  <2>1. u # t /\ pc[u] \in Inside
      BY <1>1 DEF IInv, TypeOK, Inside
  <2>2. cur[u] # cur[t]
      BY <1>1, <2>1, Alone DEF Inside
  <2> QED BY <1>1, <2>1, <2>2 DEF IInv, TypeOK, LockHeld, CurHeld, Inside
<1>6. ReplyIsOwn' /\ WireMatches'
    BY <1>1 DEF IInv, TypeOK, ReplyIsOwn, WireMatches, request, Borrowers
<1> QED BY <1>2, <1>3, <1>4, <1>5, <1>6 DEF IInv

-----------------------------------------------------------------------------
\* Every step keeps the inductive invariant.
LEMMA NextStep ==
    ASSUME IInv, [Next]_vars
    PROVE  IInv'
<1>1. ASSUME NEW c \in Conn, contextInit(c) \/ pushConnection(c)
      PROVE  IInv'
    BY <1>1, ContextStep, PushStep
<1>2. ASSUME NEW t \in Thread, getOneConnection(t) \/ Going(t)
      PROVE  IInv'
    BY <1>2, BorrowStep, OutsideStep, AcquireStep, SendStep, ReceiveStep,
       ReceiveTimeoutStep, OutStep, ReturnStep DEF Going
<1>3. CASE UNCHANGED vars
    BY <1>3 DEF vars, IInv, TypeOK, RefCounts, WithinMaxRef, LockInside, ReplyIsOwn,
       CurHeld, LockHeld, WireMatches, NullEntry, Borrowers, request, start
<1> QED BY <1>1, <1>2, <1>3, ClearStep DEF Next

\* The inductive invariant of the pool holds in every reachable state.
THEOREM Inductive == Spec => []IInv
<1>1. IInv /\ [Next]_vars => IInv'
    BY NextStep
<1> QED BY <1>1, InitInvariant, PTL DEF Spec

\* Every variable keeps its type; no count leaves the range of ref_count_t.
THEOREM TypeCorrect == Spec => []TypeOK
<1>1. IInv => TypeOK
    BY DEF IInv
<1> QED BY <1>1, Inductive, PTL

\* The count of a connection in __conns is the number of threads between
\* getOneConnection and returnConnection, and never more after a clear.
THEOREM CountsAreRight == Spec => []RefCounts
<1>1. IInv => RefCounts
    BY DEF IInv
<1> QED BY <1>1, Inductive, PTL

\* getOneConnection lends no connection to more than __maxRef threads.
THEOREM NeverOverLent == Spec => []WithinMaxRef
<1>1. IInv => WithinMaxRef
    BY DEF IInv
<1> QED BY <1>1, Inductive, PTL

\* Only a thread inside getKey or putKey holds a connection's mutex.
THEOREM LockReleased == Spec => []LockInside
<1>1. IInv => LockInside
    BY DEF IInv
<1> QED BY <1>1, Inductive, PTL

\* What getKey and putKey read answers the caller's own request, whatever times
\* out before it.
THEOREM RepliesMatch == Spec => []ReplyIsOwn
<1>1. IInv => ReplyIsOwn
    BY DEF IInv
<1> QED BY <1>1, Inductive, PTL

\* getOneConnection returns nullptr only if all connections are fully lent, provided
\* that __maxRef is not the largest value of its type.
THEOREM NullMeansBusy ==
    ASSUME MaxRef + 1 < RefMod
    PROVE  Spec => NullOnlyIfBusy
<1>1. ASSUME IInv, Next, NEW t \in Thread, ops'[t] # ops[t], cur'[t] = Null
      PROVE  \A c \in pool : ref[c] >= MaxRef
  <2>1. getOneConnection(t)
    <3>1. ASSUME NEW u \in Thread, getOneConnection(u)
          PROVE  u = t
        BY <1>1, <3>1 DEF getOneConnection, IInv, TypeOK
    <3>2. \E u \in Thread : getOneConnection(u)
        BY <1>1 DEF Next, Going, contextInit, pushConnection, clear, checkContext,
           acquire, acquireTimeout, send, receive, receiveTimeout, out,
           returnConnection
    <3> QED BY <3>1, <3>2
  <2>2. start # 0
      BY PoolAssumption DEF start
  <2>3. CASE full
      BY <1>1, <2>2, <2>3, LoopResult DEF IInv
  <2>4. CASE ~full
    <3>1. PICK ret \in Least : cur' = [cur EXCEPT ![t] = ret]
        BY <2>1, <2>4 DEF getOneConnection
    <3>2. cur'[t] = ret
        BY <1>1, <3>1 DEF IInv, TypeOK
    <3> QED BY <1>1, <2>2, <2>4, <3>1, <3>2, LoopResult DEF IInv
  <2> QED BY <2>3, <2>4
<1>2. IInv /\ [Next]_vars
        => [\A t \in Thread : ops'[t] # ops[t] /\ cur'[t] = Null
                                => \A c \in pool : ref[c] >= MaxRef]_vars
    BY <1>1
<1> QED BY <1>2, Inductive, PTL DEF Spec, NullOnlyIfBusy
=============================================================================
