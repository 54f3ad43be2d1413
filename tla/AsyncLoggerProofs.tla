-------------------------- MODULE AsyncLoggerProofs --------------------------
(***************************************************************************)
(* Proofs about AsyncLogger, for any number of threads and messages, any   *)
(* Buffer capacity and any overflow size.                                  *)
(***************************************************************************)
EXTENDS AsyncLogger, SequenceTheorems, TLAPS

\* Splitting a concatenation at the end of its first part.
LEMMA TakePrefix ==
    ASSUME NEW S, NEW s \in Seq(S), NEW t \in Seq(S), NEW k \in 0..Len(s)
    PROVE  /\ SubSeq(s \o t, 1, k) = SubSeq(s, 1, k)
           /\ SubSeq(s \o t, Len(s) + 1, Len(s \o t)) = t
<1> DEFINE u == s \o t
           p == SubSeq(u, 1, k)
           q == SubSeq(s, 1, k)
           r == SubSeq(u, Len(s) + 1, Len(u))
<1>1. /\ u \in Seq(S)
      /\ Len(s) \in Nat /\ Len(t) \in Nat /\ Len(u) = Len(s) + Len(t)
      /\ \A i \in 1..Len(u) : u[i] \in S
      /\ \A i \in 1..Len(s) : s[i] \in S
    BY ConcatProperties, LenProperties, ElementOfSeq
<1>2. \A i \in 1..Len(u) : u[i] = IF i <= Len(s) THEN s[i] ELSE t[i - Len(s)]
    BY <1>1, ConcatProperties
<1>3. p = q
  <2>1. /\ p \in Seq(S) /\ Len(p) = k
        /\ \A i \in 1..k : p[i] = u[i]
      BY <1>1, SubSeqProperties
  <2>2. /\ q \in Seq(S) /\ Len(q) = k
        /\ \A i \in 1..k : q[i] = s[i]
      BY <1>1, SubSeqProperties
  <2>3. \A i \in 1..k : p[i] = q[i]
      BY <1>1, <1>2, <2>1, <2>2
  <2> QED BY <2>1, <2>2, <2>3, SeqEqual
<1>4. r = t
  <2>1. /\ r \in Seq(S) /\ Len(r) = Len(t)
        /\ \A i \in 1..Len(t) : r[i] = u[Len(s) + i]
      BY <1>1, SubSeqProperties
  <2>2. \A i \in 1..Len(t) : r[i] = t[i]
      BY <1>1, <1>2, <2>1
  <2> QED BY <2>1, <2>2, SeqEqual
<1> QED BY <1>3, <1>4

\* A message joins the last part ...
LEMMA JoinLast ==
    ASSUME NEW S, NEW a \in Seq(S), NEW b \in Seq(S), NEW c \in Seq(S),
           NEW m \in S
    PROVE  a \o b \o Append(c, m) = Append(a \o b \o c, m)
<1>1. a \o b \in Seq(S) /\ <<m>> \in Seq(S)
    BY ConcatProperties
<1>2. a \o b \o c \in Seq(S)
    BY <1>1, ConcatProperties
<1>3. Append(c, m) = c \o <<m>>
    BY AppendIsConcat
<1>4. Append(a \o b \o c, m) = a \o b \o c \o <<m>>
    BY <1>2, AppendIsConcat
<1>5. a \o b \o (c \o <<m>>) = a \o b \o c \o <<m>>
    BY <1>1, ConcatAssociative
<1> QED BY <1>3, <1>4, <1>5

\* ... or the last part joins the one before and the message starts a new one.
LEMMA StartNew ==
    ASSUME NEW S, NEW a \in Seq(S), NEW b \in Seq(S), NEW c \in Seq(S),
           NEW m \in S, NEW single, single = <<m>>
    PROVE  a \o (b \o c) \o single = Append(a \o b \o c, m)
<1>1. a \o b \in Seq(S)
    BY ConcatProperties
<1>2. a \o b \o c \in Seq(S)
    BY <1>1, ConcatProperties
<1>3. Append(a \o b \o c, m) = a \o b \o c \o <<m>>
    BY <1>2, AppendIsConcat
<1>4. a \o (b \o c) = a \o b \o c
    BY ConcatAssociative
<1> QED BY <1>3, <1>4

\* A message joins the end of a split sequence.
LEMMA JoinEnd ==
    ASSUME NEW S, NEW a \in Seq(S), NEW b \in Seq(S), NEW m \in S
    PROVE  a \o Append(b, m) = Append(a \o b, m)
<1>1. <<m>> \in Seq(S) /\ a \o b \in Seq(S)
    BY ConcatProperties
<1>2. Append(b, m) = b \o <<m>> /\ Append(a \o b, m) = a \o b \o <<m>>
    BY <1>1, AppendIsConcat
<1>3. a \o (b \o <<m>>) = a \o b \o <<m>>
    BY <1>1, ConcatAssociative
<1> QED BY <1>2, <1>3

\* What the vectors hold is a sequence of messages.
LEMMA PendingType ==
    ASSUME local \in Seq(Message), alternate \in Seq(Message),
           current \in Seq(Message)
    PROVE  pending \in Seq(Message)
<1>1. local \o alternate \in Seq(Message)
    BY ConcatProperties
<1> QED BY <1>1, ConcatProperties DEF pending

\* The constructor's state: everything is empty and, if the disk works, the file
\* is open.
LEMMA InitInvariant == Init => IInv
<1> SUFFICES ASSUME Init PROVE IInv
    OBVIOUS
<1> USE DEF Init
<1>1. <<>> \in Seq(Message) /\ <<>> \o (<<>> \o <<>> \o <<>>) = <<>>
    OBVIOUS
<1>2. running \in BOOLEAN /\ notified \in BOOLEAN /\ failed \in BOOLEAN
    BY Zenon
<1>3. /\ wpc \in [Writer -> {"idle", "lock"}]
      /\ sent \in [Writer -> 0..MaxMsg]
    BY LoggerAssumption
<1>4. out \in Path \cup {NoPath} /\ logFile \in Path \cup {NoPath}
    OBVIOUS
<1>5. TypeOK
    BY <1>1, <1>2, <1>3, <1>4 DEF TypeOK
<1> QED BY <1>1, <1>5, LoggerAssumption
        DEF IInv, Conserved, pending, NothingCutOff, LocalEmptyOutsideFlush

\* flush2LogFile hands the batch over; the file grows by a prefix of it, by all
\* of it when the disk works.
LEMMA FlushStep ==
    ASSUME IInv, dpc # "done", NEW batch \in Seq(Message), flush2LogFile(batch)
    PROVE  /\ flushed' = flushed \o batch /\ flushed' \in Seq(Message)
           /\ \E k \in 0..Len(batch) :
                /\ written' = written \o SubSeq(batch, 1, k)
                /\ ~FileMayFail => k = Len(batch)
           /\ written' \in Seq(Message)
           /\ logFile' = logFile
           /\ failed' \in BOOLEAN
           /\ ~FileMayFail => ~failed' /\ written' = flushed'
<1>0. /\ flushed \in Seq(Message) /\ written \in Seq(Message)
      /\ failed \in BOOLEAN
      /\ ~FileMayFail => out # NoPath /\ ~failed /\ written = flushed
    BY DEF IInv, TypeOK
<1>1. Len(batch) \in Nat /\ SubSeq(batch, 1, Len(batch)) = batch
      /\ SubSeq(batch, 1, 0) = <<>>
    BY LenProperties, SubSeqFull, SubSeqEmpty
<1>2. \A k \in 0..Len(batch) : SubSeq(batch, 1, k) \in Seq(Message)
    BY <1>1, ElementOfSeq, SubSeqProperties
<1>3. flushed' = flushed \o batch /\ flushed' \in Seq(Message)
    BY <1>0, ConcatProperties DEF flush2LogFile
<1>4. logFile' = logFile
    BY DEF flush2LogFile
<1>5. CASE /\ out = NoPath
           /\ UNCHANGED <<written, failed>>
  <2>1. FileMayFail
      BY <1>0, <1>5
  <2>2. written' = written \o SubSeq(batch, 1, 0)
      BY <1>0, <1>1, <1>5, ConcatEmptySeq
  <2>3. \E k \in 0..Len(batch) :
          /\ written' = written \o SubSeq(batch, 1, k)
          /\ ~FileMayFail => k = Len(batch)
      BY <1>1, <2>1, <2>2
  <2>4. failed' \in BOOLEAN
      BY <1>0, <1>5, Zenon
  <2>5. written' \in Seq(Message)
      BY <1>0, <1>5
  <2> QED BY <1>3, <1>4, <2>1, <2>3, <2>4, <2>5
<1>6. CASE /\ out # NoPath
           /\ written' = written \o batch
           /\ UNCHANGED failed
  <2>1. written' = written \o SubSeq(batch, 1, Len(batch))
      BY <1>1, <1>6
  <2>2. written' \in Seq(Message)
      BY <1>0, <1>6, ConcatProperties
  <2>3. \E k \in 0..Len(batch) :
          /\ written' = written \o SubSeq(batch, 1, k)
          /\ ~FileMayFail => k = Len(batch)
    <3>1. Len(batch) \in 0..Len(batch)
        BY <1>1
    <3> QED BY <2>1, <3>1
  <2>4. failed' \in BOOLEAN
      BY <1>0, <1>6, Zenon
  <2>5. ~FileMayFail => written' = flushed'
      BY <1>0, <1>3, <1>6
  <2>6. ~FileMayFail => ~failed'
      BY <1>0, <1>6
  <2> QED BY <1>3, <1>4, <2>2, <2>3, <2>4, <2>5, <2>6
<1>7. CASE /\ out # NoPath /\ FileMayFail
           /\ \E k \in 0..Len(batch)-1 :
                 written' = written \o SubSeq(batch, 1, k)
           /\ failed' = TRUE
  <2>1. PICK k \in 0..Len(batch)-1 : written' = written \o SubSeq(batch, 1, k)
      BY <1>7
  <2>2. k \in 0..Len(batch)
      BY <1>1
  <2>3. written' \in Seq(Message)
      BY <1>0, <1>2, <2>1, <2>2, ConcatProperties
  <2>4. failed' \in BOOLEAN
      BY <1>7, Zenon
  <2> QED BY <1>3, <1>4, <1>7, <2>1, <2>2, <2>3, <2>4
<1> QED BY <1>5, <1>6, <1>7 DEF flush2LogFile

\* append: the message joins the end of __current, after the old contents went
\* to the end of __alternate if there was no room.
LEMMA AppendStep ==
    ASSUME IInv, NEW w \in Writer, NEW len \in 1..BufSize, append(w, len)
    PROVE  /\ IInv'
           /\ <<w, sent[w] + 1>> \in Message
           /\ pending' = Append(pending, <<w, sent[w] + 1>>)
           /\ nbufs' > nbufs => nbufs' <= overflow
<1> DEFINE m == <<w, sent[w] + 1>>
           single == <<m>>
<1>0. /\ local \in Seq(Message) /\ alternate \in Seq(Message)
      /\ current \in Seq(Message) /\ appended \in Seq(Message)
      /\ flushed \in Seq(Message)
      /\ nbufs \in Nat /\ back \in Nat /\ back <= BufSize
      /\ overflow \in Nat \ {0}
      /\ wpc \in [Writer -> {"idle", "lock"}]
      /\ sent \in [Writer -> 0..MaxMsg]
      /\ \A v \in Writer : wpc[v] = "lock" => sent[v] < MaxMsg
      /\ MaxMsg \in Nat /\ BufSize \in Nat
    BY LoggerAssumption DEF IInv, TypeOK, NothingCutOff
<1>1. m \in Message /\ sent[w] + 1 \in 0..MaxMsg
  <2>1. sent[w] \in 0..MaxMsg /\ sent[w] < MaxMsg
      BY <1>0 DEF append
  <2>2. sent[w] + 1 \in 1..MaxMsg
      BY <1>0, <2>1
  <2> QED BY <2>2 DEF Message
<1>2. /\ local' = local /\ flushed' = flushed
      /\ appended' = Append(appended, m) /\ appended' \in Seq(Message)
  <2>1. appended' = Append(appended, m) /\ local' = local /\ flushed' = flushed
      BY DEF append
  <2> QED BY <1>0, <1>1, <2>1, AppendProperties
<1>3. \/ /\ ~(nbufs < overflow) /\ BufSize - back < len
         /\ alternate' = alternate \o current /\ current' = single
         /\ nbufs' = 1 /\ back' = len
      \/ /\ alternate' = alternate /\ current' = Append(current, m)
         /\ \/ nbufs' = nbufs /\ back' = back + len /\ ~(BufSize - back < len)
            \/ /\ nbufs' = nbufs + 1 /\ back' = len
               /\ nbufs = 0 \/ BufSize - back < len
               /\ nbufs < overflow \/ BufSize - back >= len
  <2>1. CASE currentAvailable4(len)
      BY <1>0, <2>1 DEF append, append2Current, currentAvailable4, rest
  <2>2. CASE ~currentAvailable4(len)
      BY <1>0, <2>2 DEF append, append2Current, currentAvailable4, rest
  <2> QED BY <2>1, <2>2
<1>4. single = <<m>> /\ single \in Seq(Message)
    BY <1>1
<1>5. /\ local \in Seq(Message) /\ alternate \in Seq(Message)
      /\ current \in Seq(Message)
    BY <1>0
<1>6. m \in Message
    BY <1>1
<1> HIDE DEF m, single
<1>7. current' \in Seq(Message) /\ alternate' \in Seq(Message)
  <2>2. alternate \o current \in Seq(Message)
      BY <1>0, ConcatProperties
  <2>3. Append(current, m) \in Seq(Message)
      BY <1>0, <1>1, AppendProperties
  <2> QED BY <1>0, <1>3, <1>4, <2>2, <2>3
<1>8. /\ nbufs' \in Nat /\ back' \in Nat /\ back' <= BufSize
      /\ nbufs' > nbufs => nbufs' <= overflow
    BY <1>0, <1>3
<1>9. /\ wpc' \in [Writer -> {"idle", "lock"}]
      /\ sent' \in [Writer -> 0..MaxMsg]
      /\ \A v \in Writer : wpc'[v] = "lock" => sent'[v] < MaxMsg
    BY <1>0, <1>1 DEF append
<1>10. notified' \in BOOLEAN
    BY Zenon DEF append, IInv, TypeOK
<1>11. /\ UNCHANGED <<out, logFile, written, failed, running, overflow, lpc, dpc>>
       /\ dpc # "done"
    BY DEF append, file, Alive
<1>12. TypeOK'
    BY <1>2, <1>7, <1>8, <1>9, <1>10, <1>11 DEF TypeOK, IInv
<1>13. pending' = Append(pending, m)
  <2>1. local \o (alternate \o current) \o single
           = Append(local \o alternate \o current, m)
      BY ONLY <1>5, <1>6, <1>4, StartNew, SMTT(30)
  <2>2. local \o alternate \o Append(current, m)
           = Append(local \o alternate \o current, m)
      BY ONLY <1>5, <1>6, JoinLast
  <2> QED BY <1>2, <1>3, <2>1, <2>2 DEF pending
<1>14. Conserved'
  <2>1. flushed \in Seq(Message) /\ pending \in Seq(Message)
      BY <1>0, PendingType
  <2>2. flushed \o Append(pending, m) = Append(flushed \o pending, m)
      BY ONLY <1>6, <2>1, JoinEnd
  <2>3. flushed \o pending = appended
      BY DEF IInv, Conserved
  <2> QED BY <1>2, <1>13, <2>2, <2>3 DEF Conserved
<1>15. LocalEmptyOutsideFlush' /\ NothingCutOff'
    BY <1>2, <1>8, <1>11 DEF LocalEmptyOutsideFlush, NothingCutOff, IInv
<1>16. IInv'
    BY <1>2, <1>9, <1>11, <1>12, <1>14, <1>15 DEF IInv
<1> QED BY <1>1, <1>8, <1>13, <1>16 DEF m

\* Leaving out empty parts.
LEMMA NoEmpty ==
    ASSUME NEW S, NEW a \in Seq(S), NEW b \in Seq(S), NEW c \in Seq(S),
           NEW e, e = <<>>
    PROVE  /\ a \o e \o b = a \o b /\ a \o e = a /\ e \o a = a
           /\ a \o b \o e \o c = a \o b \o c /\ e \o a \o b = a \o b
<1>1. a \o b \in Seq(S)
    BY ConcatProperties
<1>2. a \o e = a /\ e \o a = a
    BY ConcatEmptySeq
<1>3. a \o b \o e = a \o b
    BY <1>1, ConcatEmptySeq
<1> QED BY <1>2, <1>3

\* What the wake-up of the logger thread takes: local is empty by then, so the
\* swap gives it all of __alternate and leaves __alternate empty.
LEMMA SwapTakesAll ==
    ASSUME IInv, lpc = "waiting"
    PROVE  local = <<>> /\ Swapped = alternate /\ Leftover = <<>>
BY DEF IInv, LocalEmptyOutsideFlush, Swapped, Leftover

\* A notified logger thread moves __alternate to __loggerLocal.
LEMMA WokenStep ==
    ASSUME IInv, LWoken
    PROVE  IInv' /\ pending' = pending
<1>0. /\ alternate \in Seq(Message) /\ current \in Seq(Message)
      /\ flushed \in Seq(Message)
    BY DEF IInv, TypeOK
<1>1. /\ local = <<>> /\ local' = alternate /\ alternate' = <<>>
      /\ UNCHANGED <<current, flushed, appended>>
    BY SwapTakesAll DEF LWoken
<1>2. TypeOK'
    BY <1>0, <1>1 DEF IInv, TypeOK, LWoken, file, control
<1>3. local' \o alternate' \o current' = alternate \o current
    BY <1>0, <1>1, NoEmpty
<1>4. local \o alternate \o current = alternate \o current
    BY <1>0, <1>1, NoEmpty
<1>5. pending' = pending
    BY <1>3, <1>4 DEF pending
<1>6. IInv'
    BY <1>1, <1>2, <1>5 DEF IInv, Conserved, NothingCutOff,
       LocalEmptyOutsideFlush, LWoken, file, control, Alive
<1> QED BY <1>5, <1>6

\* After a timeout it takes __current as well, behind __alternate.
LEMMA TimeoutStep ==
    ASSUME IInv, LTimeout
    PROVE  IInv' /\ pending' = pending
<1>0. /\ alternate \in Seq(Message) /\ current \in Seq(Message)
      /\ flushed \in Seq(Message) /\ <<>> \in Seq(Message)
    BY DEF IInv, TypeOK
<1>1. /\ local = <<>> /\ local' = alternate \o current /\ alternate' = <<>>
      /\ current' = <<>>
      /\ UNCHANGED <<flushed, appended>>
    BY SwapTakesAll DEF LTimeout
<1>2. alternate \o current \in Seq(Message)
    BY <1>0, ConcatProperties
<1>3. TypeOK'
    BY <1>0, <1>1, <1>2 DEF IInv, TypeOK, LTimeout, file, control
<1>4. local' \o alternate' \o current' = alternate \o current
    BY <1>0, <1>1, <1>2, NoEmpty
<1>5. local \o alternate \o current = alternate \o current
    BY <1>0, <1>1, NoEmpty
<1>6. pending' = pending
    BY <1>4, <1>5 DEF pending
<1>7. IInv'
    BY <1>1, <1>3, <1>6, LoggerAssumption
    DEF IInv, Conserved, NothingCutOff, LocalEmptyOutsideFlush, LTimeout, file,
        control, Alive
<1> QED BY <1>6, <1>7

\* A batch is the front part of what is pending: the file takes a prefix of it.
LEMMA TakeStep ==
    ASSUME NEW S, NEW batch \in Seq(S), NEW tail \in Seq(S),
           NEW file0 \in Seq(S), NEW file1, NEW k \in 0..Len(batch),
           file1 = file0 \o SubSeq(batch, 1, k)
    PROVE  /\ Len(batch) \in 0..Len(batch \o tail)
           /\ k \in 0..Len(batch)
           /\ file1 = file0 \o SubSeq(batch \o tail, 1, k)
           /\ tail = SubSeq(batch \o tail, Len(batch) + 1, Len(batch \o tail))
<1>1. Len(batch) \in Nat /\ Len(tail) \in Nat
      /\ Len(batch \o tail) = Len(batch) + Len(tail)
    BY LenProperties, ConcatProperties
<1>2. Len(batch) \in 0..Len(batch \o tail)
    BY ONLY <1>1
<1>3. /\ SubSeq(batch \o tail, 1, k) = SubSeq(batch, 1, k)
      /\ SubSeq(batch \o tail, Len(batch) + 1, Len(batch \o tail)) = tail
    BY ONLY TakePrefix
<1> QED BY <1>2, <1>3

\* The logger thread's flush takes __loggerLocal off the front.
LEMMA LFlushStep ==
    ASSUME IInv, LFlush
    PROVE  /\ IInv'
           /\ \E n \in 0..Len(pending) :
              \E k \in 0..n : Channel!Take(n, k)
<1> DEFINE tail == alternate \o current
<1>0. /\ alternate \in Seq(Message) /\ current \in Seq(Message)
      /\ local \in Seq(Message) /\ flushed \in Seq(Message)
      /\ written \in Seq(Message) /\ <<>> \in Seq(Message)
    BY DEF IInv, TypeOK
<1>1. /\ local' = <<>> /\ flush2LogFile(local) /\ Reopened /\ lpc' = "check"
      /\ dpc' = dpc /\ dpc # "done"
      /\ UNCHANGED <<alternate, current, nbufs, back, running, overflow,
                     notified, wpc, sent, appended>>
    BY DEF LFlush, control, Alive
<1>2. /\ flushed' = flushed \o local /\ flushed' \in Seq(Message)
      /\ \E k \in 0..Len(local) :
            /\ written' = written \o SubSeq(local, 1, k)
            /\ ~FileMayFail => k = Len(local)
      /\ written' \in Seq(Message)
      /\ logFile' = logFile
      /\ failed' \in BOOLEAN
      /\ ~FileMayFail => ~failed' /\ written' = flushed'
    BY <1>0, <1>1, FlushStep
<1>3. /\ out' \in Path \cup {NoPath}
      /\ ~FileMayFail => out' # NoPath
    BY <1>1, <1>2 DEF Reopened, IInv, TypeOK
<1>4. TypeOK'
    BY <1>0, <1>1, <1>2, <1>3 DEF IInv, TypeOK
<1>5. /\ alternate \in Seq(Message) /\ current \in Seq(Message)
      /\ local \in Seq(Message) /\ flushed \in Seq(Message)
    BY <1>0
<1>6. tail \in Seq(Message) /\ pending = local \o tail
  <2>1. tail \in Seq(Message)
      BY ONLY <1>5, ConcatProperties DEF tail
  <2>2. pending = local \o tail
      BY ONLY <1>5, ConcatAssociative DEF pending, tail
  <2> QED BY <2>1, <2>2
<1>7. pending' = tail
  <2>1. <<>> \o alternate = alternate
      BY <1>0, ConcatEmptySeq
  <2> QED BY <1>1, <2>1 DEF pending, tail
<1> HIDE DEF tail
<1>8. Conserved'
  <2>1. /\ flushed \in Seq(Message) /\ local \in Seq(Message)
        /\ tail \in Seq(Message)
      BY <1>5, <1>6
  <2>2. flushed \o local \o tail = flushed \o (local \o tail)
      BY ONLY <2>1, ConcatAssociative
  <2> QED BY <1>1, <1>2, <1>6, <1>7, <2>2 DEF Conserved, IInv
<1>9. IInv'
    BY <1>1, <1>2, <1>3, <1>4, <1>8
    DEF IInv, NothingCutOff, LocalEmptyOutsideFlush
<1>10. PICK k \in 0..Len(local) : /\ written' = written \o SubSeq(local, 1, k)
                                  /\ ~FileMayFail => k = Len(local)
    BY <1>2
<1>11. /\ Len(local) \in 0..Len(local \o tail)
       /\ written' = written \o SubSeq(local \o tail, 1, k)
       /\ tail = SubSeq(local \o tail, Len(local) + 1, Len(local \o tail))
  <2>1. /\ local \in Seq(Message) /\ tail \in Seq(Message)
        /\ written \in Seq(Message)
        /\ written' = written \o SubSeq(local, 1, k)
      BY <1>0, <1>6, <1>10
  <2> QED BY ONLY <1>10, <2>1, TakeStep
<1>12. Channel!Take(Len(local), k)
    BY <1>6, <1>7, <1>10, <1>11 DEF Channel!Take
<1> QED BY <1>9, <1>6, <1>11, <1>12

\* The destructor's flush takes everything.
LEMMA DFlushStep ==
    ASSUME IInv, DFlush
    PROVE  /\ IInv'
           /\ \E n \in 0..Len(pending) :
              \E k \in 0..n : Channel!Take(n, k)
<1>0. /\ alternate \in Seq(Message) /\ current \in Seq(Message)
      /\ local \in Seq(Message) /\ flushed \in Seq(Message)
      /\ written \in Seq(Message) /\ <<>> \in Seq(Message)
    BY DEF IInv, TypeOK
<1>1. /\ local' = <<>> /\ alternate' = <<>> /\ current' = <<>>
      /\ nbufs' = 0 /\ back' = 0 /\ dpc' = "done"
      /\ flush2LogFile(pending) /\ out' = NoPath /\ dpc # "done"
      /\ UNCHANGED <<running, overflow, notified, lpc, wpc, sent, appended>>
    BY DEF DFlush, control, pending
<1>2. pending \in Seq(Message)
    BY <1>0, PendingType
<1>3. /\ flushed' = flushed \o pending /\ flushed' \in Seq(Message)
      /\ \E k \in 0..Len(pending) :
            /\ written' = written \o SubSeq(pending, 1, k)
            /\ ~FileMayFail => k = Len(pending)
      /\ written' \in Seq(Message)
      /\ logFile' = logFile
      /\ failed' \in BOOLEAN
      /\ ~FileMayFail => ~failed' /\ written' = flushed'
    BY <1>1, <1>2, FlushStep
<1>4. TypeOK'
    BY <1>0, <1>1, <1>3 DEF IInv, TypeOK
<1>5. pending' = <<>>
  <2>1. <<>> \o <<>> = <<>>
      BY <1>0, ConcatEmptySeq
  <2> QED BY <1>1, <2>1 DEF pending
<1>6. Conserved'
  <2>1. flushed' \o <<>> = flushed'
      BY <1>3, ConcatEmptySeq
  <2> QED BY <1>1, <1>3, <1>5, <2>1 DEF Conserved, IInv
<1>7. IInv'
    BY <1>1, <1>3, <1>4, <1>6, LoggerAssumption
    DEF IInv, NothingCutOff, LocalEmptyOutsideFlush
<1>8. PICK k \in 0..Len(pending) : /\ written' = written \o SubSeq(pending, 1, k)
                                   /\ ~FileMayFail => k = Len(pending)
    BY <1>3
<1>9. Len(pending) \in Nat
    BY <1>2, LenProperties
<1>10. SubSeq(pending, Len(pending) + 1, Len(pending)) = <<>>
    BY ONLY <1>9, SubSeqEmpty
<1>11. Channel!Take(Len(pending), k)
  <2>1. pending' = SubSeq(pending, Len(pending) + 1, Len(pending))
      BY <1>5, <1>10, Zenon
  <2> QED BY <1>8, <2>1, Zenon DEF Channel!Take
<1>12. Len(pending) \in 0..Len(pending)
    BY <1>9
<1> QED BY <1>7, <1>11, <1>12

\* Every other step leaves the messages where they are.
LEMMA OtherStep ==
    ASSUME IInv,
           \/ \E w \in Writer : appendCheck(w)
           \/ LCheck \/ LWait \/ DStop
           \/ \E p \in Path : setLogFile(p)
           \/ \E n \in Overflows : setOverflowSize(n)
           \/ UNCHANGED vars
    PROVE  /\ IInv' /\ UNCHANGED <<local, alternate, current, nbufs, written>>
<1>0. /\ wpc \in [Writer -> {"idle", "lock"}]
      /\ sent \in [Writer -> 0..MaxMsg]
      /\ \A v \in Writer : wpc[v] = "lock" => sent[v] < MaxMsg
      /\ MaxMsg \in Nat
      /\ running \in BOOLEAN /\ notified \in BOOLEAN
      /\ overflow \in Nat \ {0}
    BY LoggerAssumption DEF IInv, TypeOK
<1>1. ASSUME NEW w \in Writer, appendCheck(w)
      PROVE  IInv' /\ UNCHANGED <<local, alternate, current, nbufs, written>>
  <2>1. /\ wpc' \in [Writer -> {"idle", "lock"}]
        /\ sent' \in [Writer -> 0..MaxMsg]
        /\ \A v \in Writer : wpc'[v] = "lock" => sent'[v] < MaxMsg
      BY <1>0, <1>1 DEF appendCheck
  <2>2. UNCHANGED <<buffers, file, control, lpc, dpc, appended, flushed>>
      BY <1>1 DEF appendCheck
  <2> QED BY <2>1, <2>2 DEF IInv, TypeOK, Conserved, pending, NothingCutOff,
             LocalEmptyOutsideFlush, buffers, file, control
<1>2. ASSUME LCheck \/ LWait
      PROVE  IInv' /\ UNCHANGED <<local, alternate, current, nbufs, written>>
  <2>1. /\ UNCHANGED <<buffers, file, running, overflow, wpc, dpc, sent,
                       appended, flushed>>
        /\ lpc # "flush" /\ lpc' \in {"enter", "stopped", "waiting"}
      BY <1>2 DEF LCheck, LWait, control
  <2>2. notified' \in BOOLEAN
      BY <1>0, <1>2, Zenon DEF LCheck, LWait, control
  <2> QED BY <2>1, <2>2 DEF IInv, TypeOK, Conserved, pending, NothingCutOff,
             LocalEmptyOutsideFlush, buffers, file
<1>3. ASSUME DStop
      PROVE  IInv' /\ UNCHANGED <<local, alternate, current, nbufs, written>>
  <2>1. /\ UNCHANGED <<buffers, file, overflow, lpc, wpc, sent, appended,
                       flushed>>
        /\ dpc = "none" /\ dpc' = "flush"
      BY <1>3 DEF DStop
  <2>2. running' \in BOOLEAN /\ notified' \in BOOLEAN
      BY <1>0, <1>3, Zenon DEF DStop
  <2> QED BY <2>1, <2>2 DEF IInv, TypeOK, Conserved, pending, NothingCutOff,
             LocalEmptyOutsideFlush, buffers, file
<1>4. ASSUME NEW p \in Path, setLogFile(p)
      PROVE  IInv' /\ UNCHANGED <<local, alternate, current, nbufs, written>>
  <2>1. /\ UNCHANGED <<buffers, logFile, written, control, pcs, sent, appended,
                       flushed>>
        /\ out' \in Path \cup {NoPath}
        /\ ~FileMayFail => out' # NoPath
      BY <1>4, LoggerAssumption DEF setLogFile
  <2>2. failed' \in BOOLEAN /\ ~failed'
      BY <1>4, Zenon DEF setLogFile
  <2> QED BY <2>1, <2>2 DEF IInv, TypeOK, Conserved, pending, NothingCutOff,
             LocalEmptyOutsideFlush, buffers, control, pcs
<1>5. ASSUME NEW n \in Overflows, setOverflowSize(n)
      PROVE  IInv' /\ UNCHANGED <<local, alternate, current, nbufs, written>>
  <2>1. /\ UNCHANGED <<buffers, file, running, notified, pcs, sent, appended,
                       flushed>>
        /\ overflow' \in Nat \ {0}
      BY <1>5, LoggerAssumption DEF setOverflowSize
  <2> QED BY <2>1 DEF IInv, TypeOK, Conserved, pending, NothingCutOff,
             LocalEmptyOutsideFlush, buffers, file, pcs
<1>6. ASSUME UNCHANGED vars
      PROVE  IInv' /\ UNCHANGED <<local, alternate, current, nbufs, written>>
    BY <1>6 DEF vars, IInv, TypeOK, Conserved, pending, NothingCutOff,
       LocalEmptyOutsideFlush, buffers, file, control, pcs
<1> QED BY <1>1, <1>2, <1>3, <1>4, <1>5, <1>6

-----------------------------------------------------------------------------
\* Every step keeps the inductive invariant, and is a step of the channel: it
\* puts one message in, takes a batch from the front, or leaves it alone.
LEMMA NextStep ==
    ASSUME IInv, [Next]_vars
    PROVE  /\ IInv'
           /\ [Channel!Next]_<<pending, written>>
           /\ nbufs' > nbufs => nbufs' <= overflow
<1> DEFINE Goal == /\ IInv'
                   /\ [Channel!Next]_<<pending, written>>
                   /\ nbufs' > nbufs => nbufs' <= overflow
<1>0. nbufs \in Nat /\ overflow \in Nat \ {0}
    BY DEF IInv, TypeOK
<1>1. ASSUME NEW w \in Writer, NEW len \in 1..BufSize, append(w, len)
      PROVE  Goal
  <2>1. UNCHANGED written
      BY <1>1 DEF append, file
  <2> QED BY <1>1, <2>1, AppendStep DEF Channel!Next, Channel!Put
<1>2. ASSUME LWoken
      PROVE  Goal
  <2>1. UNCHANGED <<written, nbufs>>
      BY <1>2 DEF LWoken, file
  <2>2. IInv' /\ UNCHANGED pending
      BY <1>2, WokenStep
  <2> QED BY <1>0, <2>1, <2>2
<1>3. ASSUME LTimeout
      PROVE  Goal
  <2>1. UNCHANGED written /\ nbufs' = 0
      BY <1>3 DEF LTimeout, file
  <2>2. IInv' /\ UNCHANGED pending
      BY <1>3, TimeoutStep
  <2> QED BY <1>0, <2>1, <2>2
<1>4. ASSUME LFlush
      PROVE  Goal
  <2>1. nbufs' = nbufs
      BY <1>4 DEF LFlush
  <2> QED BY <1>0, <1>4, <2>1, LFlushStep DEF Channel!Next
<1>5. ASSUME DFlush
      PROVE  Goal
  <2>1. nbufs' = 0
      BY <1>5 DEF DFlush
  <2> QED BY <1>0, <1>5, <2>1, DFlushStep DEF Channel!Next
<1>6. ASSUME \/ \E w \in Writer : appendCheck(w)
             \/ LCheck \/ LWait \/ DStop
             \/ \E p \in Path : setLogFile(p)
             \/ \E n \in Overflows : setOverflowSize(n)
             \/ UNCHANGED vars
      PROVE  Goal
  <2>1. IInv' /\ UNCHANGED <<local, alternate, current, nbufs, written>>
      BY <1>6, OtherStep
  <2> QED BY <1>0, <2>1 DEF pending
<1> HIDE DEF Goal
<1>7. Goal
    BY <1>1, <1>2, <1>3, <1>4, <1>5, <1>6 DEF Next, Logging, LoggerStep
<1> QED BY <1>7 DEF Goal

\* The inductive invariant of AsyncLogger holds in every reachable state: what
\* append, run and the destructor rely on when they take each other's locks.
THEOREM Inductive == Spec => []IInv
<1>1. IInv /\ [Next]_vars => IInv'
    BY NextStep
<1> QED BY <1>1, InitInvariant, PTL DEF Spec

\* Every variable keeps its type; __overflow is never 0, so currentAvailable4
\* and append2Current never call back() on an empty vector.
THEOREM TypeCorrect == Spec => []TypeOK
<1>1. IInv => TypeOK
    BY DEF IInv
<1> QED BY <1>1, Inductive, PTL

\* No message is lost, repeated or reordered by the moves between the vectors of
\* AsyncLogger.
THEOREM MessagesConserved == Spec => []Conserved
<1>1. IInv => Conserved
    BY DEF IInv
<1> QED BY <1>1, Inductive, PTL

\* append2Current never gives a Buffer more than it has room for.
THEOREM NoMessageCutOff == Spec => []NothingCutOff
<1>1. IInv => NothingCutOff
    BY DEF IInv
<1> QED BY <1>1, Inductive, PTL

\* The destructor gives every accepted message to the file; with a working disk it is
\* there.
THEOREM ExitIsComplete == Spec => []CompleteAtExit
<1>1. IInv => CompleteAtExit
  <2> SUFFICES ASSUME IInv, dpc = "done"
               PROVE  flushed = appended /\ (~FileMayFail => written = appended)
      BY DEF CompleteAtExit
  <2>1. /\ local = <<>> /\ alternate = <<>> /\ current = <<>>
        /\ ~FileMayFail => written = flushed
      BY DEF IInv
  <2>2. flushed \in Seq(Message)
      BY DEF IInv, TypeOK
  <2>3. flushed \o <<>> = flushed
      BY <2>2, ConcatEmptySeq
  <2>4. flushed \o pending = flushed
      BY <2>1, <2>3 DEF pending
  <2> QED BY <2>1, <2>4 DEF IInv, Conserved
<1> QED BY <1>1, Inductive, PTL

\* append grows __current to at most __overflow Buffers.
THEOREM CurrentStaysBounded == Spec => CurrentBounded
<1>1. IInv /\ [Next]_vars => [nbufs' > nbufs => nbufs' <= overflow]_vars
    BY NextStep
<1> QED BY <1>1, Inductive, PTL DEF Spec, CurrentBounded

-----------------------------------------------------------------------------
(* The order of one thread's messages in the file *)

\* A message newer than all of its thread's others joins the end.
LEMMA NewestLast ==
    ASSUME NEW s \in Seq(Message), NEW w \in Writer, NEW n \in 1..MaxMsg,
           InOrder(s),
           \A i \in DOMAIN s : s[i][1] = w => s[i][2] < n
    PROVE  LET t == Append(s, <<w, n>>) IN
           /\ InOrder(t)
           /\ \A i \in DOMAIN t : \/ i \in DOMAIN s /\ t[i] = s[i]
                                \/ t[i] = <<w, n>>
<1> DEFINE m == <<w, n>>
           t == Append(s, m)
<1>1. m \in Message /\ m[1] = w /\ m[2] = n
    BY DEF Message
<1> HIDE DEF m
<1>2. /\ t \in Seq(Message) /\ Len(s) \in Nat /\ Len(t) = Len(s) + 1
      /\ DOMAIN s = 1..Len(s) /\ DOMAIN t = 1..(Len(s) + 1)
      /\ \A i \in 1..Len(s) : t[i] = s[i]
      /\ t[Len(s) + 1] = m
    BY <1>1, AppendProperties, LenProperties
<1> HIDE DEF t
<1>3. \A i \in DOMAIN t : (i \in DOMAIN s /\ t[i] = s[i]) \/ t[i] = m
    BY <1>2
<1>4. InOrder(t)
  <2> SUFFICES ASSUME NEW i \in DOMAIN t, NEW j \in DOMAIN t,
                      i < j, t[i][1] = t[j][1]
               PROVE  t[i][2] < t[j][2]
      BY DEF InOrder
  <2>1. i \in DOMAIN s /\ t[i] = s[i]
      BY <1>2
  <2>2. CASE j \in DOMAIN s
      BY <1>2, <2>1, <2>2 DEF InOrder
  <2>3. CASE j = Len(s) + 1
      BY <1>1, <1>2, <2>1, <2>3
  <2> QED BY <1>2, <2>2, <2>3
<1> QED BY <1>3, <1>4 DEF t, m

\* The file a takes the first k of n pending messages, the others of the n are lost.
Kept(a, p, n, k) == (a \o SubSeq(p, 1, k)) \o SubSeq(p, n + 1, Len(p))

\* Each message that is left was there before, and any two keep their order.
LEMMA DropMiddle ==
    ASSUME NEW S, NEW a \in Seq(S), NEW p \in Seq(S),
           NEW n \in 0..Len(p), NEW k \in 0..n,
           InOrder(a \o p)
    PROVE  /\ InOrder(Kept(a, p, n, k))
           /\ \A i \in DOMAIN Kept(a, p, n, k) :
              \E j \in DOMAIN (a \o p) : Kept(a, p, n, k)[i] = (a \o p)[j]
<1>1. PICK b, c, u, s, t :
         /\ s = a \o p
         /\ b = SubSeq(p, 1, k) /\ c = SubSeq(p, n + 1, Len(p))
         /\ u = a \o b
         /\ t = u \o c /\ t = Kept(a, p, n, k)
    BY DEF Kept
<1>2. /\ Len(a) \in Nat /\ Len(p) \in Nat
      /\ n \in Nat /\ k \in Nat /\ k <= n /\ n <= Len(p)
      /\ \A i \in 1..Len(p) : p[i] \in S
    BY LenProperties, ElementOfSeq
<1>3. /\ s \in Seq(S) /\ Len(s) = Len(a) + Len(p) /\ DOMAIN s = 1..Len(s)
      /\ \A i \in 1..Len(s) : s[i] = IF i <= Len(a) THEN a[i] ELSE p[i - Len(a)]
    BY <1>1, ConcatProperties, LenProperties
<1>4. /\ b \in Seq(S) /\ Len(b) = k
      /\ \A i \in 1..k : b[i] = p[i]
    BY <1>1, <1>2, SubSeqProperties
<1>5. /\ c \in Seq(S) /\ Len(c) = Len(p) - n
      /\ \A i \in 1..(Len(p) - n) : c[i] = p[n + i]
    BY <1>1, <1>2, SubSeqProperties
<1>6. /\ u \in Seq(S) /\ Len(u) = Len(a) + k
      /\ \A i \in 1..Len(u) : u[i] = IF i <= Len(a) THEN a[i] ELSE b[i - Len(a)]
  <2>1. u = a \o b /\ b \in Seq(S)
      BY <1>1, <1>4
  <2>2. /\ u \in Seq(S) /\ Len(u) = Len(a) + Len(b)
        /\ \A i \in 1..Len(a) + Len(b) :
              u[i] = IF i <= Len(a) THEN a[i] ELSE b[i - Len(a)]
      BY ONLY <2>1, a \in Seq(S), ConcatProperties
  <2> QED BY ONLY <1>4, <2>2
<1>7. /\ t \in Seq(S) /\ Len(t) = Len(u) + Len(c) /\ DOMAIN t = 1..Len(t)
      /\ \A i \in 1..Len(t) : t[i] = IF i <= Len(u) THEN u[i] ELSE c[i - Len(u)]
  <2>1. t = u \o c /\ u \in Seq(S) /\ c \in Seq(S)
      BY <1>1, <1>5, <1>6
  <2>2. /\ t \in Seq(S) /\ Len(t) = Len(u) + Len(c)
        /\ \A i \in 1..Len(u) + Len(c) :
              t[i] = IF i <= Len(u) THEN u[i] ELSE c[i - Len(u)]
      BY ONLY <2>1, ConcatProperties
  <2>3. DOMAIN t = 1..Len(t)
      BY <2>2, LenProperties
  <2> QED BY ONLY <2>2, <2>3
<1>8. Len(t) = Len(s) - (n - k)
    BY ONLY <1>2, <1>3, <1>5, <1>6, <1>7
<1>9. ASSUME NEW i \in 1..Len(t)
      PROVE  t[i] = IF i <= Len(a) + k THEN s[i] ELSE s[i + (n - k)]
  <2>1. CASE i <= Len(a)
      BY ONLY <1>2, <1>3, <1>6, <1>7, <1>8, <2>1
  <2>2. CASE Len(a) < i /\ i <= Len(a) + k
    <3>1. t[i] = b[i - Len(a)] /\ i - Len(a) \in 1..k
        BY ONLY <1>2, <1>6, <1>7, <2>2
    <3>2. s[i] = p[i - Len(a)]
        BY ONLY <1>2, <1>3, <1>8, <2>2
    <3> QED BY ONLY <1>4, <2>2, <3>1, <3>2
  <2>3. CASE Len(a) + k < i
    <3>1. t[i] = c[i - (Len(a) + k)] /\ i - (Len(a) + k) \in 1..(Len(p) - n)
        BY ONLY <1>2, <1>5, <1>6, <1>7, <2>3
    <3>2. i + (n - k) \in 1..Len(s) /\ i + (n - k) - Len(a) = n + (i - (Len(a) + k))
        BY ONLY <1>2, <1>3, <1>8, <2>3
    <3>3. s[i + (n - k)] = p[i + (n - k) - Len(a)]
      <4>1. ~(i + (n - k) <= Len(a))
          BY ONLY <1>2, <2>3
      <4> QED BY ONLY <1>3, <3>2, <4>1
    <3>4. c[i - (Len(a) + k)] = p[n + (i - (Len(a) + k))]
        BY ONLY <1>5, <3>1
    <3>5. ~(i <= Len(a) + k)
        BY ONLY <1>2, <2>3
    <3> QED BY ONLY <3>1, <3>2, <3>3, <3>4, <3>5
  <2> QED BY ONLY <1>2, <2>1, <2>2, <2>3
<1> DEFINE from(i) == IF i <= Len(a) + k THEN i ELSE i + (n - k)
<1>10. \A i \in DOMAIN t : from(i) \in DOMAIN s /\ t[i] = s[from(i)]
    BY ONLY <1>2, <1>3, <1>7, <1>8, <1>9
<1>11. \A i, j \in DOMAIN t : i < j => from(i) < from(j)
    BY ONLY <1>2, <1>7, <1>8
<1> HIDE DEF from
<1>12. InOrder(s)
    BY <1>1
<1>13. InOrder(t)
    BY ONLY <1>10, <1>11, <1>12 DEF InOrder
<1>14. \A i \in DOMAIN t : \E j \in DOMAIN s : t[i] = s[j]
    BY ONLY <1>10
<1>15. t = Kept(a, p, n, k) /\ s = a \o p
    BY <1>1
<1> QED BY ONLY <1>13, <1>14, <1>15, Zenon

\* append keeps the order: its message is the newest one of its thread.
LEMMA AppendOrder ==
    ASSUME IInv, OrderInv, NEW w \in Writer, NEW len \in 1..BufSize,
           append(w, len)
    PROVE  OrderInv'
<1> DEFINE s == written \o pending
           n == sent[w] + 1
           t == Append(s, <<w, n>>)
<1>1. <<w, n>> \in Message /\ pending' = Append(pending, <<w, n>>)
    BY AppendStep
<1>2. /\ written' = written /\ sent' = [sent EXCEPT ![w] = n]
      /\ sent \in [Writer -> 0..MaxMsg]
    BY DEF append, file, IInv, TypeOK
<1>3. /\ written \in Seq(Message) /\ pending \in Seq(Message)
      /\ s \in Seq(Message) /\ DOMAIN s = 1..Len(s)
    BY PendingType, ConcatProperties, LenProperties DEF IInv, TypeOK
<1>4. /\ n \in 1..MaxMsg /\ sent[w] < n /\ sent[w] \in Nat
    BY <1>1, <1>2, LoggerAssumption DEF Message
<1>5. InOrder(s) /\ \A i \in DOMAIN s : s[i][2] <= sent[s[i][1]]
    BY DEF OrderInv
<1>6. \A i \in DOMAIN s : s[i] \in Message
    BY <1>3, ElementOfSeq
<1>7. \A i \in DOMAIN s : s[i][1] \in Writer /\ s[i][2] \in Nat
    BY <1>6 DEF Message
<1>8. written' \o pending' = t
  <2>1. written \o Append(pending, <<w, n>>) = Append(written \o pending, <<w, n>>)
      BY <1>1, <1>3, JoinEnd
  <2> QED BY <1>1, <1>2, <2>1
<1> HIDE DEF s, n
<1>9. \A i \in DOMAIN s : s[i][1] = w => s[i][2] < n
    BY <1>4, <1>5, <1>7
<1>10. /\ InOrder(t)
       /\ \A i \in DOMAIN t : \/ i \in DOMAIN s /\ t[i] = s[i]
                            \/ t[i] = <<w, n>>
    BY <1>3, <1>4, <1>5, <1>9, NewestLast
<1> HIDE DEF t
<1>11. \A v \in Writer : sent[v] \in Nat /\ sent[v] <= sent'[v] /\ sent'[w] = n
    BY <1>2, <1>4
<1>12. ASSUME NEW i \in DOMAIN t
       PROVE  t[i][2] <= sent'[t[i][1]]
  <2>1. CASE i \in DOMAIN s /\ t[i] = s[i]
    <3>1. s[i][2] <= sent[s[i][1]] /\ s[i][1] \in Writer /\ s[i][2] \in Nat
        BY <1>5, <1>7, <2>1
    <3>2. sent[s[i][1]] <= sent'[s[i][1]] /\ sent'[s[i][1]] \in Nat
        BY <1>2, <1>4, <1>11, <3>1
    <3>3. sent[s[i][1]] \in Nat
        BY <1>11, <3>1
    <3> QED BY <2>1, <3>1, <3>2, <3>3
  <2>2. CASE t[i] = <<w, n>>
      BY <1>4, <1>11, <2>2
  <2> QED BY <1>10, <2>1, <2>2
<1> QED BY <1>8, <1>10, <1>12 DEF OrderInv

\* A flush keeps the order, whatever part of its batch gets into the file.
LEMMA TakeOrder ==
    ASSUME IInv, OrderInv, sent' = sent,
           NEW n \in 0..Len(pending), NEW k \in 0..n, Channel!Take(n, k)
    PROVE  OrderInv'
<1>1. written \in Seq(Message) /\ pending \in Seq(Message)
      /\ Len(pending) \in Nat
    BY PendingType, LenProperties DEF IInv, TypeOK
<1>2. InOrder(written \o pending)
    BY DEF OrderInv
<1>3. PICK s, t : s = written \o pending /\ t = Kept(written, pending, n, k)
    OBVIOUS
<1>4. InOrder(t) /\ \A i \in DOMAIN t : \E j \in DOMAIN s : t[i] = s[j]
  <2>1. /\ InOrder(Kept(written, pending, n, k))
        /\ \A i \in DOMAIN Kept(written, pending, n, k) :
           \E j \in DOMAIN (written \o pending) :
              Kept(written, pending, n, k)[i] = (written \o pending)[j]
    <3>1. written \in Seq(Message)
        BY <1>1
    <3>2. pending \in Seq(Message)
        BY <1>1
    <3>3. n \in 0..Len(pending)
        OBVIOUS
    <3>4. k \in 0..n
        OBVIOUS
    <3> QED BY ONLY <3>1, <3>2, <3>3, <3>4, <1>2, DropMiddle
  <2> QED BY <1>3, <2>1, Zenon
<1>5. \A j \in DOMAIN s : s[j][2] <= sent[s[j][1]]
    BY <1>3 DEF OrderInv
<1>6. \A i \in DOMAIN t : t[i][2] <= sent[t[i][1]]
    BY <1>4, <1>5
<1>7. written' \o pending' = t
    BY <1>3 DEF Channel!Take, Kept
<1> QED BY <1>4, <1>6, <1>7 DEF OrderInv

\* Every step of the logger keeps the order.
LEMMA OrderStep ==
    ASSUME IInv, OrderInv, [Next]_vars
    PROVE  OrderInv'
<1>1. ASSUME NEW w \in Writer, NEW len \in 1..BufSize, append(w, len)
      PROVE  OrderInv'
    BY <1>1, AppendOrder
<1>2. ASSUME NEW w \in Writer, appendCheck(w)
      PROVE  OrderInv'
  <2>1. /\ UNCHANGED <<written, pending>>
        /\ sent \in [Writer -> 0..MaxMsg]
        /\ sent' = sent \/ sent' = [sent EXCEPT ![w] = @ + 1]
      BY <1>2 DEF appendCheck, buffers, file, pending, IInv, TypeOK
  <2> DEFINE s == written \o pending
  <2>2. written \in Seq(Message) /\ pending \in Seq(Message)
      BY PendingType DEF IInv, TypeOK
  <2>3. s \in Seq(Message) /\ DOMAIN s = 1..Len(s)
      BY <2>2, ConcatProperties, LenProperties
  <2>4. \A i \in DOMAIN s : s[i] \in Message
      BY <2>3, ElementOfSeq
  <2>5. /\ InOrder(s) /\ \A i \in DOMAIN s : s[i][2] <= sent[s[i][1]]
        /\ written' \o pending' = s
      BY <2>1 DEF OrderInv
  <2> HIDE DEF s
  <2>6. \A v \in Writer : /\ sent[v] \in Nat /\ sent'[v] \in Nat
                          /\ sent[v] <= sent'[v]
      BY <2>1, LoggerAssumption
  <2>7. ASSUME NEW i \in DOMAIN s
        PROVE  s[i][2] <= sent'[s[i][1]]
    <3>1. s[i][1] \in Writer /\ s[i][2] \in Nat
        BY <2>4 DEF Message
    <3>2. s[i][2] <= sent[s[i][1]]
        BY <2>5
    <3> QED BY <2>6, <3>1, <3>2
  <2> QED BY <2>5, <2>7 DEF OrderInv
<1>3. ASSUME LWoken \/ LTimeout
      PROVE  OrderInv'
  <2>1. UNCHANGED <<written, sent>>
      BY <1>3 DEF LWoken, LTimeout, file
  <2>2. pending' = pending
      BY <1>3, WokenStep, TimeoutStep
  <2> QED BY <2>1, <2>2 DEF OrderInv
<1>4. ASSUME LFlush \/ DFlush
      PROVE  OrderInv'
  <2>1. sent' = sent
      BY <1>4 DEF LFlush, DFlush
  <2>2. PICK n \in 0..Len(pending) : \E k \in 0..n : Channel!Take(n, k)
      BY <1>4, LFlushStep, DFlushStep
  <2>3. PICK k \in 0..n : Channel!Take(n, k)
      BY <2>2
  <2> QED BY <2>1, <2>3, TakeOrder
<1>5. ASSUME \/ LCheck \/ LWait \/ DStop
             \/ \E p \in Path : setLogFile(p)
             \/ \E n \in Overflows : setOverflowSize(n)
             \/ UNCHANGED vars
      PROVE  OrderInv'
  <2>1. UNCHANGED sent
      BY <1>5 DEF LCheck, LWait, DStop, setLogFile, setOverflowSize, vars
  <2>2. UNCHANGED <<local, alternate, current, nbufs, written>>
      BY <1>5, OtherStep
  <2> QED BY <2>1, <2>2 DEF OrderInv, pending
<1> QED BY <1>1, <1>2, <1>3, <1>4, <1>5 DEF Next, Logging, LoggerStep

\* The log file keeps the messages of each thread in the order of the thread's
\* calls of append, and none twice, through failed writes and new files.
THEOREM OrderIsKept == Spec => []PerThreadOrder
<1>1. Init => OrderInv
  <2>1. <<>> \o (<<>> \o <<>> \o <<>>) = <<>> /\ DOMAIN <<>> = {}
      OBVIOUS
  <2>2. ASSUME Init PROVE written \o pending = <<>>
      BY <2>1, <2>2 DEF Init, pending
  <2> QED BY <2>1, <2>2 DEF OrderInv, InOrder
<1>2. IInv /\ OrderInv /\ [Next]_vars => OrderInv'
    BY OrderStep
<1>3. IInv /\ OrderInv => PerThreadOrder
  <2> SUFFICES ASSUME IInv, OrderInv PROVE InOrder(written)
      BY DEF PerThreadOrder
  <2> DEFINE s == written \o pending
  <2>1. written \in Seq(Message) /\ pending \in Seq(Message)
      BY PendingType DEF IInv, TypeOK
  <2>2. /\ DOMAIN written \subseteq DOMAIN s
        /\ \A i \in DOMAIN written : s[i] = written[i]
      BY <2>1, ConcatProperties, LenProperties
  <2>3. InOrder(s)
      BY DEF OrderInv
  <2> HIDE DEF s
  <2> QED BY <2>2, <2>3 DEF InOrder
<1> QED BY <1>1, <1>2, <1>3, Inductive, PTL DEF Spec

\* The logger implements a FIFO channel.
THEOREM Refinement == Spec => ImplementsChannel
<1>1. Init => Channel!Init
  <2>1. <<>> \o <<>> \o <<>> = <<>>
      OBVIOUS
  <2> QED BY <2>1 DEF Init, Channel!Init, pending
<1>2. IInv /\ [Next]_vars
        => [Channel!Next]_<<pending, written>>
    BY NextStep
<1> QED BY <1>1, <1>2, Inductive, PTL DEF Spec, ImplementsChannel, Channel!Spec
=============================================================================
