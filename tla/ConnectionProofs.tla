-------------------------- MODULE ConnectionProofs --------------------------
(***************************************************************************)
(* Proofs about Connection and SocketStream, for buffers, answers and      *)
(* scripts of any size: first of the writer (what is sent), then of the    *)
(* reader (what is taken for a request).                                   *)
(***************************************************************************)
EXTENDS Connection, SequenceTheorems, WellFoundedInduction, TLAPS

\* A sequence of whatever it holds
IsSeq(s) == \E S : s \in Seq(S)

-----------------------------------------------------------------------------
(* Sequences *)

\* One more element, of any kind
LEMMA GrowSeq ==
    ASSUME NEW s, IsSeq(s), NEW x
    PROVE  LET t == Append(s, x) IN
           /\ IsSeq(t) /\ Len(s) \in Nat /\ Len(t) = Len(s) + 1
           /\ DOMAIN s = 1..Len(s) /\ DOMAIN t = 1..Len(s) + 1 /\ t # <<>>
           /\ t[Len(s) + 1] = x /\ \A i \in 1..Len(s) : t[i] = s[i]
<1>1. PICK S : s \in Seq(S)
    BY DEF IsSeq
<1> DEFINE T == S \cup {x}
<1>2. /\ Len(s) \in Nat /\ DOMAIN s = 1..Len(s)
      /\ \A i \in 1..Len(s) : s[i] \in T
    BY <1>1, LenProperties, ElementOfSeq
<1>3. s \in Seq(T)
  <2>1. s = [i \in 1..Len(s) |-> s[i]]
      BY <1>1
  <2> QED BY <1>2, <2>1, IsASeq
<1>4. x \in T
    OBVIOUS
<1> HIDE DEF T
<1>5. /\ Append(s, x) \in Seq(T) /\ Len(Append(s, x)) = Len(s) + 1
      /\ \A i \in 1..Len(s) : Append(s, x)[i] = s[i]
      /\ Append(s, x)[Len(s) + 1] = x
      /\ Append(s, x) # <<>>
    BY <1>3, <1>4, AppendProperties
<1>6. DOMAIN Append(s, x) = 1..Len(s) + 1
    BY <1>5, LenProperties
<1> QED BY <1>2, <1>5, <1>6 DEF IsSeq

-----------------------------------------------------------------------------
(* The bytes on their way out *)

Byte == Nat \X Nat

\* What is on its way is a sequence of bytes.
LEMMA OutType ==
    ASSUME Writer
    PROVE  /\ Out \in Seq(Byte) /\ sent \in Seq(Byte) /\ pbuf \in Seq(Byte)
           /\ Len(pbuf) \in Nat /\ Len(Out) \in Nat
           /\ DOMAIN Out = 1..Len(Out)
<1>1. sent \in Seq(Byte) /\ pbuf \in Seq(Byte)
    BY DEF Writer, Byte
<1>2. sent \o pbuf \in Seq(Byte)
    BY <1>1, ConcatProperties
<1>3. Out \in Seq(Byte)
    BY <1>1, <1>2 DEF Out
<1> QED BY <1>1, <1>3, LenProperties

\* A call of sync or a turn of flush moves bytes from the buffer to the socket and
\* changes nothing of what is on its way; a failed send leaves the stream bad.
LEMMA FlushKeepsOut ==
    ASSUME Writer, Sending \/ (\E who \in {"sync", "destructor"} : sync(who))
    PROVE  /\ Writer'
           /\ bad => bad'
           /\ ~PartialSend /\ (caller # "none" => rest \in {0, Len(pbuf)})
                => (caller' # "none" => rest' \in {0, Len(pbuf')}) /\ Out' = Out
<1>0. /\ sent \in Seq(Byte) /\ pbuf \in Seq(Byte) /\ Len(pbuf) \in Nat
      /\ Len(pbuf) <= BFSIZE /\ rest \in 0..Len(pbuf) /\ BFSIZE \in Nat \ {0}
      /\ caller = "none" => rest = 0
    BY OutType, StreamAssumption DEF Writer, OutputFits
<1>1. SubSeq(pbuf, 1, Len(pbuf)) = pbuf /\ sent \o <<>> = sent
      /\ <<>> \in Seq(Byte) /\ Len(<<>>) = 0
    BY <1>0, SubSeqFull, ConcatEmptySeq
<1>2. \A n \in 0..Len(pbuf) : /\ SubSeq(pbuf, 1, n) \in Seq(Byte)
                             /\ Len(SubSeq(pbuf, 1, n)) = n
    BY <1>0, SubSeqProperties, ElementOfSeq
<1>3. pbuf = <<>> <=> Len(pbuf) = 0
    BY <1>0, EmptySeq
<1>4. ASSUME NEW who \in {"sync", "destructor"}, sync(who)
      PROVE  /\ Writer' /\ (bad => bad')
             /\ (caller' # "none" => rest' \in {0, Len(pbuf')}) /\ Out' = Out
  <2>1. /\ caller = "none" /\ caller' = who /\ who # "none" /\ rest' = Len(pbuf)
        /\ pbuf' = pbuf /\ bad' = bad /\ sent' = sent
      BY <1>4 DEF sync, flush
  <2>2. Writer'
      BY <1>0, <2>1 DEF Writer, OutputFits
  <2>3. Out' = Out
    <3>1. CASE Len(pbuf) = 0
      <4>1. Out = sent \o <<>> /\ Out' = sent
          BY <1>3, <2>1, <3>1 DEF Out
      <4> QED BY <1>1, <4>1
    <3>2. CASE Len(pbuf) # 0
        BY <2>1, <3>2 DEF Out
    <3> QED BY <3>1, <3>2
  <2> QED BY <2>1, <2>2, <2>3
<1>5. ASSUME send
      PROVE  /\ Writer' /\ (bad => bad')
             /\ ~PartialSend /\ (caller # "none" => rest \in {0, Len(pbuf)})
                => (caller' # "none" => rest' \in {0, Len(pbuf')}) /\ Out' = Out
  <2>1. PICK n \in IF PartialSend THEN 1..rest ELSE {rest} :
           sent' = sent \o SubSeq(pbuf, 1, n) /\ rest' = rest - n
      BY <1>5 DEF send
  <2>2. /\ caller # "none" /\ rest > 0
        /\ pbuf' = pbuf /\ bad' = bad /\ caller' = caller
      BY <1>5 DEF send
  <2>3. n \in 1..rest /\ (~PartialSend => n = rest)
      BY <1>0, <2>1, <2>2
  <2>4. sent' \in Seq(Byte)
      BY <1>0, <1>2, <2>1, <2>3, ConcatProperties
  <2>5. Writer'
    <3>1. Len(pbuf) \in Nat /\ rest \in 0..Len(pbuf)
        BY <1>0
    <3>2. rest - n \in 0..Len(pbuf)
        BY ONLY <2>3, <3>1
    <3> QED BY <1>0, <2>1, <2>2, <2>4, <3>2 DEF Writer, OutputFits, Byte
  <2>6. ASSUME ~PartialSend, rest = Len(pbuf)
        PROVE  rest' = 0 /\ Out' = Out
    <3>1. n = Len(pbuf) /\ rest' = 0 /\ rest # 0
        BY <1>0, <2>1, <2>2, <2>3, <2>6
    <3>2. sent' = sent \o pbuf
        BY <1>1, <2>1, <3>1
    <3> QED BY <2>2, <3>1, <3>2 DEF Out
  <2>7. ASSUME ~PartialSend, caller # "none" => rest \in {0, Len(pbuf)}
        PROVE  rest = Len(pbuf)
      BY <1>0, <2>2, <2>7
  <2> QED BY <2>2, <2>5, <2>6, <2>7
<1>6. ASSUME sendFails
      PROVE  /\ Writer' /\ (bad => bad')
             /\ ~PartialSend /\ (caller # "none" => rest \in {0, Len(pbuf)})
                => (caller' # "none" => rest' \in {0, Len(pbuf')}) /\ Out' = Out
  <2>1. /\ caller # "none" /\ rest > 0 /\ pbuf' = SubSeq(pbuf, 1, rest)
        /\ bad' = TRUE /\ caller' = "none" /\ rest' = 0 /\ sent' = sent
      BY <1>6 DEF sendFails
  <2>2. pbuf' \in Seq(Byte) /\ Len(pbuf') = rest
      BY <1>0, <1>2, <2>1
  <2>3. Writer'
      BY <1>0, <2>1, <2>2 DEF Writer, OutputFits, Byte
  <2>4. ASSUME rest \in {0, Len(pbuf)} PROVE Out' = Out
    <3>1. rest = Len(pbuf)
        BY <1>0, <2>1, <2>4
    <3>2. pbuf' = pbuf
        BY <1>1, <2>1, <3>1
    <3>3. rest # 0
        BY <1>0, <2>1
    <3> QED BY <2>1, <3>2, <3>3 DEF Out
  <2> QED BY <2>1, <2>3, <2>4
<1>7. ASSUME flushed
      PROVE  /\ Writer' /\ (bad => bad')
             /\ (caller' # "none" => rest' \in {0, Len(pbuf')}) /\ Out' = Out
  <2>1. /\ caller # "none" /\ rest = 0 /\ pbuf' = <<>> /\ caller' = "none"
        /\ bad' = bad /\ rest' = rest /\ sent' = sent
      BY <1>7 DEF flushed
  <2>2. Writer'
      BY <1>0, <1>1, <2>1 DEF Writer, OutputFits, Byte
  <2>3. Out = sent /\ Out' = sent \o <<>>
      BY <2>1 DEF Out
  <2> QED BY <1>1, <2>1, <2>2, <2>3
<1> QED BY <1>4, <1>5, <1>6, <1>7 DEF Sending

\* One character more: it is the last one on its way.
LEMMA PutCharExtendsOut ==
    ASSUME Writer, NEW c \in Byte, PutChar(c)
    PROVE  /\ Writer' /\ ~bad /\ bad' = bad
           /\ caller' # "none" => rest' \in {0, Len(pbuf')}
           /\ Out' = Append(Out, c)
<1>0. /\ sent \in Seq(Byte) /\ pbuf \in Seq(Byte) /\ Len(pbuf) \in Nat
      /\ BFSIZE \in Nat \ {0} /\ caller = "none" /\ ~bad /\ rest = 0
      /\ Len(pbuf) < BFSIZE
    BY OutType, StreamAssumption DEF Writer, OutputFits, PutChar
<1>1. /\ pbuf' = Append(pbuf, c) /\ bad' = bad /\ sent' = sent
      /\ \/ Len(pbuf) < BFSIZE - 1 /\ caller' = caller /\ rest' = rest
         \/ /\ ~(Len(pbuf) < BFSIZE - 1)
            /\ caller' = "overflow" /\ rest' = Len(pbuf) + 1
    BY DEF PutChar, Room, flush
<1>2. pbuf' \in Seq(Byte) /\ Len(pbuf') = Len(pbuf) + 1
    BY <1>0, <1>1, AppendProperties
<1>3. Writer'
    BY <1>0, <1>1, <1>2 DEF Writer, OutputFits, Byte
<1>4. Out = sent \o pbuf /\ Out' = sent \o Append(pbuf, c)
  <2>1. caller' = "none" \/ rest' # 0
      BY <1>0, <1>1
  <2> QED BY <1>0, <1>1, <2>1 DEF Out
<1>5. sent \o Append(pbuf, c) = Append(sent \o pbuf, c)
  <2>1. <<c>> \in Seq(Byte) /\ sent \o pbuf \in Seq(Byte)
      BY <1>0, ConcatProperties
  <2>2. Append(pbuf, c) = pbuf \o <<c>>
      BY <1>0, AppendIsConcat
  <2>3. Append(sent \o pbuf, c) = sent \o pbuf \o <<c>>
      BY <2>1, AppendIsConcat
  <2>4. sent \o (pbuf \o <<c>>) = sent \o pbuf \o <<c>>
      BY <1>0, <2>1, ConcatAssociative
  <2> QED BY <2>2, <2>3, <2>4
<1>6. caller' # "none" => rest' \in {0, Len(pbuf')}
    BY <1>0, <1>1, <1>2
<1> QED BY <1>0, <1>1, <1>3, <1>4, <1>5, <1>6

\* A beginning of a beginning of the answers is one.
LEMMA PrefixInSequence ==
    ASSUME NEW s \in Seq(Byte), NEW t \in Seq(Byte), InSequence(s \o t)
    PROVE  InSequence(s)
<1>1. PICK u : u = s \o t
    OBVIOUS
<1>2. /\ u \in Seq(Byte) /\ Len(s) \in Nat /\ Len(t) \in Nat
      /\ Len(u) = Len(s) + Len(t)
      /\ DOMAIN s = 1..Len(s) /\ DOMAIN u = 1..Len(u)
      /\ \A i \in 1..Len(s) : u[i] = s[i]
      /\ s # <<>> => Len(s) >= 1
    BY <1>1, ConcatProperties, LenProperties, EmptySeq
<1>3. InSequence(u)
    BY <1>1
<1>4. \A i \in DOMAIN s :
         s[i][1] \in DOMAIN taken /\ s[i][2] \in 1..taken[s[i][1]].len
    BY <1>2, <1>3 DEF InSequence
<1>5. ASSUME s # <<>> PROVE s[1] = <<1, 1>>
  <2>1. u[1] = s[1] /\ Len(u) >= 1
      BY <1>2, <1>5
  <2>2. u # <<>>
      BY <1>2, <2>1, EmptySeq
  <2> QED BY <1>3, <2>1, <2>2 DEF InSequence
<1>6. ASSUME NEW i \in 1..Len(s) - 1
      PROVE  s[i + 1] = After(s[i])
  <2>1. i \in 1..Len(u) - 1 /\ u[i] = s[i] /\ u[i + 1] = s[i + 1]
      BY <1>2
  <2> QED BY <1>3, <2>1 DEF InSequence
<1> QED BY <1>4, <1>5, <1>6 DEF InSequence

\* The byte after the last one continues a beginning of the answers.
LEMMA ExtendSequence ==
    ASSUME NEW s \in Seq(Byte), InSequence(s), NEW c \in Byte,
           c[1] \in DOMAIN taken, c[2] \in 1..taken[c[1]].len,
           IF s = <<>> THEN c = <<1, 1>> ELSE c = After(s[Len(s)])
    PROVE  InSequence(Append(s, c))
<1>1. PICK t : t = Append(s, c)
    OBVIOUS
<1>2. /\ t \in Seq(Byte) /\ Len(s) \in Nat /\ Len(t) = Len(s) + 1
      /\ DOMAIN s = 1..Len(s) /\ DOMAIN t = 1..Len(s) + 1
      /\ \A i \in 1..Len(s) : t[i] = s[i]
      /\ t[Len(s) + 1] = c
      /\ s = <<>> <=> Len(s) = 0
    BY <1>1, AppendProperties, LenProperties, EmptySeq
<1>3. ASSUME NEW i \in DOMAIN t
      PROVE  t[i][1] \in DOMAIN taken /\ t[i][2] \in 1..taken[t[i][1]].len
  <2>1. CASE i \in DOMAIN s
      BY <1>2, <2>1 DEF InSequence
  <2>2. CASE i = Len(s) + 1
      BY <1>2, <2>2
  <2> QED BY <1>2, <2>1, <2>2
<1>4. t[1] = <<1, 1>>
  <2>1. CASE s = <<>>
      BY <1>2, <2>1
  <2>2. CASE s # <<>>
      BY <1>2, <2>2 DEF InSequence
  <2> QED BY <2>1, <2>2
<1>5. ASSUME NEW i \in 1..Len(t) - 1
      PROVE  t[i + 1] = After(t[i])
  <2>1. CASE i = Len(s)
      BY <1>2, <2>1
  <2>2. CASE i # Len(s)
    <3>1. i \in 1..Len(s) - 1 /\ t[i] = s[i] /\ t[i + 1] = s[i + 1]
        BY <1>2, <2>2
    <3> QED BY <3>1 DEF InSequence
  <2> QED BY <2>1, <2>2
<1> QED BY <1>1, <1>3, <1>4, <1>5 DEF InSequence

-----------------------------------------------------------------------------
(* The steps *)

\* The whole invariant: taken is a sequence as well.
Inv == IsSeq(taken) /\ IInv

\* Steps of the client and of the parser, and the ends of response and handle, leave the
\* writer alone and neither begin nor end an answer.
LEMMA QuietStep ==
    ASSUME Inv, UNCHANGED <<output, taken>>,
           \/ pc' = pc /\ put' = put
           \/ pc # "write" /\ pc' # "write"
    PROVE  Inv'
<1>1. UNCHANGED <<pbuf, bad, caller, rest, sent, taken>>
    BY DEF output
<1>2. Writer' /\ IsSeq(taken)'
    BY <1>1 DEF Inv, IInv, Writer, OutputFits, IsSeq
<1>3. Writing'
    BY <1>1 DEF Inv, IInv, Writing
<1>4. Out' = Out
    BY <1>1 DEF Out
<1>5. ~PartialSend => Progress'
    BY <1>1, <1>4 DEF Inv, IInv, Progress, InSequence, After, EndsWith
<1> QED BY <1>2, <1>3, <1>5 DEF Inv, IInv

\* The next request is accepted: the answers so far stay what they are, and what is on
\* its way ends with the last of them.
LEMMA AcceptStep ==
    ASSUME Inv, pc = "body", Accept(req), UNCHANGED output
    PROVE  Inv'
<1>1. PICK n \in AnswerLens : taken' = Append(taken, [request |-> req, len |-> n])
    BY DEF Accept
<1>2. pc' = "write" /\ put' = 0 /\ n \in Nat \ {0}
      /\ UNCHANGED <<pbuf, bad, caller, rest, sent>>
    BY AnswerAssumption DEF Accept, output
<1>3. /\ IsSeq(taken') /\ Len(taken) \in Nat /\ Len(taken') = Len(taken) + 1
      /\ DOMAIN taken = 1..Len(taken) /\ DOMAIN taken' = 1..Len(taken) + 1
      /\ taken' # <<>>
      /\ taken'[Len(taken) + 1] = [request |-> req, len |-> n]
      /\ \A i \in 1..Len(taken) : taken'[i] = taken[i]
    BY <1>1, GrowSeq DEF Inv
<1>4. Writer'
    BY <1>2 DEF Inv, IInv, Writer, OutputFits
<1>5. \A i \in DOMAIN taken : taken[i].len \in Nat \ {0}
    BY DEF Inv, IInv, Writing
<1>6. Writing'
    BY <1>2, <1>3, <1>5 DEF Writing
<1>7. ASSUME ~PartialSend PROVE Progress'
  <2>1. PICK o : o = Out
      OBVIOUS
  <2>2. Out' = o
      BY <1>2, <2>1 DEF Out
  <2>3. InSequence(o) /\ (caller # "none" => rest \in {0, Len(pbuf)})
        /\ (~bad => EndsWith(o, Len(taken)))
      BY <1>7, <2>1 DEF Inv, IInv, Progress
  <2>4. \A i \in DOMAIN o : o[i][1] \in 1..Len(taken) /\ o[i][2] \in 1..taken[o[i][1]].len
      BY <1>3, <2>3 DEF InSequence
  <2>5. o \in Seq(Byte) /\ DOMAIN o = 1..Len(o) /\ Len(o) \in Nat
      BY <2>1, OutType DEF Inv, IInv
  <2>6. InSequence(o)'
    <3>1. \A i \in DOMAIN o :
             o[i][1] \in DOMAIN taken' /\ o[i][2] \in 1..taken'[o[i][1]].len
        BY <1>3, <2>4
    <3>2. ASSUME NEW i \in 1..Len(o) - 1
          PROVE  o[i + 1] = After(o[i])'
      <4>1. o[i + 1] = After(o[i]) /\ o[i][1] \in 1..Len(taken)
        <5>1. o[i + 1] = After(o[i])
            BY <2>3 DEF InSequence
        <5>2. i \in DOMAIN o
            BY <2>5
        <5> QED BY <2>4, <5>1, <5>2
      <4>2. taken'[o[i][1]] = taken[o[i][1]]
          BY <1>3, <4>1
      <4> QED BY <4>1, <4>2 DEF After
    <3>3. o # <<>> => o[1] = <<1, 1>>
        BY <2>3 DEF InSequence
    <3> QED BY <3>1, <3>2, <3>3 DEF InSequence
  <2>7. PICK m \in Nat : m = Len(taken)
      BY <1>3
  <2>8. ~bad => EndsWith(o, m)'
      BY <1>3, <2>3, <2>7 DEF EndsWith
  <2>9. Len(taken') - 1 = m
      BY <1>3, <2>7
  <2>10. ASSUME ~bad'
         PROVE  EndsWith(Out, Len(taken) - 1)'
      BY <1>2, <2>2, <2>8, <2>9, <2>10 DEF EndsWith
  <2>11. InSequence(Out)'
      BY <2>2, <2>6 DEF InSequence
  <2> QED BY <1>2, <2>3, <2>10, <2>11 DEF Progress
<1> QED BY <1>3, <1>4, <1>6, <1>7 DEF Inv, IInv

\* A character of the answer is given to the ostream: it is the one after the last.
LEMMA WriteStep ==
    ASSUME Inv, Write
    PROVE  Inv'
<1>1. PICK m, c : m = Len(taken) /\ c = <<Len(taken), put + 1>>
    OBVIOUS
<1>2. /\ IsSeq(taken) /\ Writer /\ taken # <<>>
      /\ \A i \in DOMAIN taken : taken[i].len \in Nat \ {0}
      /\ pc = "write" /\ put \in 0..taken[m].len /\ put < taken[m].len
      /\ PutChar(c) /\ put' = put + 1
      /\ taken' = taken /\ pc' = pc
    BY <1>1 DEF Inv, IInv, Writing, Write, Answered, Last, parser
<1>3. m \in Nat /\ m # 0 /\ DOMAIN taken = 1..m
  <2>1. PICK S : taken \in Seq(S)
      BY <1>2 DEF IsSeq
  <2> QED BY <1>1, <1>2, <2>1, LenProperties, EmptySeq
<1>4. taken[m].len \in Nat /\ put \in Nat /\ put + 1 \in 1..taken[m].len
    BY <1>2, <1>3
<1>5. c \in Byte /\ c[1] = m /\ c[2] = put + 1
    BY <1>1, <1>3, <1>4 DEF Byte
<1>6. /\ Writer' /\ ~bad /\ bad' = bad
      /\ caller' # "none" => rest' \in {0, Len(pbuf')}
      /\ Out' = Append(Out, c)
    BY <1>2, <1>5, PutCharExtendsOut
<1>7. Writing'
    BY <1>1, <1>2, <1>4 DEF Writing
<1>8. ASSUME ~PartialSend PROVE Progress'
  <2>1. PICK o : o = Out
      OBVIOUS
  <2>2. o \in Seq(Byte) /\ Len(o) \in Nat
      BY <1>2, <2>1, OutType
  <2>3. InSequence(o)
      BY <1>8, <2>1 DEF Inv, IInv, Progress
  <2>4. IF o = <<>> THEN c = <<1, 1>> ELSE c = After(o[Len(o)])
    <3>1. CASE put > 0
      <4>1. o # <<>> /\ o[Len(o)] = <<m, put>>
          BY <1>1, <1>2, <1>6, <1>8, <2>1, <3>1 DEF Inv, IInv, Progress
      <4> QED BY <1>1, <1>2, <4>1 DEF After
    <3>2. CASE put = 0
      <4>1. EndsWith(o, m - 1)
          BY <1>1, <1>2, <1>6, <1>8, <2>1, <3>2 DEF Inv, IInv, Progress
      <4>2. CASE m = 1
          BY <1>1, <3>2, <4>1, <4>2 DEF EndsWith
      <4>3. CASE m # 1
        <5>1. o # <<>> /\ o[Len(o)] = <<m - 1, taken[m - 1].len>>
            BY <1>3, <4>1, <4>3 DEF EndsWith
        <5>2. taken[m - 1].len \in Nat
            BY <1>2, <1>3, <4>3
        <5> QED BY <1>1, <1>3, <3>2, <5>1, <5>2 DEF After
      <4> QED BY <4>2, <4>3
    <3> QED BY <1>4, <3>1, <3>2
  <2>5. InSequence(Append(o, c))
      BY <1>3, <1>4, <1>5, <2>2, <2>3, <2>4, ExtendSequence
  <2>6. InSequence(Append(o, c))'
      BY <1>2, <2>5 DEF InSequence, After
  <2>7. InSequence(Out)'
      BY <1>6, <2>1, <2>6 DEF InSequence
  <2>8. Out' # <<>> /\ Out'[Len(Out')] = <<Len(taken'), put'>>
    <3>1. Append(o, c) # <<>> /\ Append(o, c)[Len(Append(o, c))] = c
        BY <1>5, <2>2, AppendProperties
    <3> QED BY <1>1, <1>2, <1>6, <2>1, <3>1
  <2>9. put' > 0 /\ pc' = "write"
      BY <1>2, <1>4
  <2> QED BY <1>6, <2>7, <2>8, <2>9 DEF Progress
<1>9. IsSeq(taken')
    BY <1>2
<1> QED BY <1>6, <1>7, <1>8, <1>9 DEF Inv, IInv

\* flush() goes on, in whoever's call, or sync begins; neither touches the answers.  The
\* end of an answer is the end of what is on its way, if the stream is good.
LEMMA FlushStep ==
    ASSUME Inv, Sending \/ (\E who \in {"sync", "destructor"} : sync(who)),
           taken' = taken,
           \/ pc' = pc /\ put' = put
           \/ pc # "write" /\ pc' # "write"
           \/ pc = "write" /\ pc' # "write" /\ (bad \/ put = Answered.len)
    PROVE  Inv'
<1>1. /\ Writer' /\ (bad => bad')
      /\ ~PartialSend /\ (caller # "none" => rest \in {0, Len(pbuf)})
            => (caller' # "none" => rest' \in {0, Len(pbuf')}) /\ Out' = Out
    BY FlushKeepsOut DEF Inv, IInv
<1>2. Writing' /\ IsSeq(taken')
    BY DEF Inv, IInv, Writing
<1>3. ASSUME ~PartialSend PROVE Progress'
  <2>1. Progress
      BY <1>3 DEF Inv, IInv
  <2>2. (caller' # "none" => rest' \in {0, Len(pbuf')}) /\ Out' = Out
      BY <1>1, <1>3, <2>1 DEF Progress
  <2>3. InSequence(Out)'
      BY <2>1, <2>2 DEF Progress, InSequence, After
  <2>4. CASE pc' = pc /\ put' = put
      BY <1>1, <2>1, <2>2, <2>3, <2>4 DEF Progress, EndsWith
  <2>5. CASE pc # "write" /\ pc' # "write"
      BY <1>1, <2>1, <2>2, <2>3, <2>5 DEF Progress, EndsWith
  <2>6. CASE pc = "write" /\ pc' # "write" /\ (bad \/ put = Answered.len)
    <3>1. ASSUME ~bad'
          PROVE  EndsWith(Out, Len(taken))'
      <4>1. ~bad /\ put = taken[Len(taken)].len
          BY <1>1, <2>6, <3>1 DEF Answered, Last
      <4>2. /\ Len(taken) \in Nat \ {0} /\ taken[Len(taken)].len \in Nat \ {0}
        <5>1. PICK S : taken \in Seq(S) /\ taken # <<>>
            BY <2>6 DEF Inv, IInv, IsSeq, Writing
        <5>2. Len(taken) \in Nat \ {0} /\ DOMAIN taken = 1..Len(taken)
            BY <5>1, LenProperties, EmptySeq
        <5> QED BY <5>2 DEF Inv, IInv, Writing
      <4>3. Out # <<>> /\ Out[Len(Out)] = <<Len(taken), put>>
          BY <2>1, <2>6, <4>1, <4>2 DEF Progress
      <4> QED BY <2>2, <4>1, <4>2, <4>3 DEF EndsWith
    <3> QED BY <2>2, <2>3, <2>6, <3>1 DEF Progress
  <2> QED BY <2>4, <2>5, <2>6
<1> QED BY <1>1, <1>2, <1>3 DEF Inv, IInv

\* Every step of the connection keeps the invariant.
LEMMA NextStep ==
    ASSUME Inv, [Next]_vars
    PROVE  Inv'
<1>1. CASE Arrive \/ handle \/ Receive \/ ReadWord \/ parseLine \/ handled
    BY <1>1, QuietStep
    DEF Arrive, handle, Receive, ReadWord, parseLine, handled, parser
<1>2. CASE InputEnds \/ skipTerminateCH \/ ReadLine \/ response
    BY <1>2, QuietStep
    DEF InputEnds, skipTerminateCH, ReadLine, response, Error, Again, parser
<1>3. CASE parseHead
  <2>1. UNCHANGED <<output, taken>> /\ pc = "head" /\ HeaderLine(cur) /\ put' = put
      BY <1>3 DEF parseHead
  <2>2. pc' # "write"
      BY <2>1 DEF HeaderLine, Error, Again
  <2> QED BY <2>1, <2>2, QuietStep
<1>4. CASE parseBody
  <2>1. UNCHANGED output /\ pc = "body"
      BY <1>4 DEF parseBody
  <2>2. \/ Accept(req)
        \/ taken' = taken /\ pc' = pc /\ put' = put
        \/ taken' = taken /\ Error
      BY <1>4 DEF parseBody
  <2>3. Error => pc' # "write"
      BY DEF Error, Again
  <2> QED BY <2>1, <2>2, <2>3, AcceptStep, QuietStep
<1>5. CASE Write
    BY <1>5, WriteStep
<1>6. CASE responseFlush
  <2>1. /\ pc = "write" /\ pc' = "sync" /\ (bad \/ put = Answered.len)
        /\ taken' = taken
        /\ sync("sync") \/ (bad /\ UNCHANGED output)
      BY <1>6 DEF responseFlush, parser
  <2>2. CASE sync("sync")
      BY <2>1, <2>2, FlushStep
  <2>3. CASE bad /\ UNCHANGED output
    <3>1. UNCHANGED <<pbuf, bad, caller, rest, sent>> /\ bad'
        BY <2>3 DEF output
    <3>2. Out' = Out
        BY <3>1 DEF Out
    <3>3. Writer' /\ Writing' /\ IsSeq(taken')
        BY <2>1, <3>1 DEF Inv, IInv, Writer, OutputFits, Writing
    <3>4. ~PartialSend => Progress'
        BY <2>1, <3>1, <3>2 DEF Inv, IInv, Progress, InSequence, After
    <3> QED BY <3>3, <3>4 DEF Inv, IInv
  <2> QED BY <2>1, <2>2, <2>3
<1>7. CASE Transmit
    BY <1>7, FlushStep DEF Transmit, parser
<1>8. CASE delEvent
    BY <1>8, FlushStep DEF delEvent, parser
<1>9. CASE UNCHANGED vars
    BY <1>9, QuietStep DEF vars, parser
<1> QED BY <1>1, <1>2, <1>3, <1>4, <1>5, <1>6, <1>7, <1>8, <1>9 DEF Next, Handler

\* Before the connection is reported nothing was read, taken or written.
LEMMA InitInvariant == Init => Inv
<1> SUFFICES ASSUME Init PROVE Inv
    OBVIOUS
<1>1. /\ pbuf = <<>> /\ sent = <<>> /\ taken = <<>> /\ caller = "none" /\ rest = 0
      /\ bad = FALSE /\ pc = "idle"
    BY DEF Init
<1>2. <<>> \in Seq(Byte) /\ Len(<<>>) = 0 /\ <<>> \o <<>> = <<>> /\ DOMAIN <<>> = {}
    OBVIOUS
<1>3. Out = <<>>
    BY <1>1, <1>2 DEF Out
<1>4. Writer
    BY <1>1, <1>2, StreamAssumption DEF Writer, OutputFits, Byte
<1>5. Writing /\ IsSeq(taken)
    BY <1>1, <1>2 DEF Writing, IsSeq
<1>6. Progress
    BY <1>1, <1>2, <1>3 DEF Progress, InSequence, EndsWith
<1> QED BY <1>4, <1>5, <1>6 DEF Inv, IInv

-----------------------------------------------------------------------------
\* The invariant of the writer holds in every reachable state.
THEOREM Inductive == Spec => []IInv
<1>1. Inv /\ [Next]_vars => Inv'
    BY NextStep
<1>2. Inv => IInv
    BY DEF Inv
<1> QED BY <1>1, <1>2, InitInvariant, PTL DEF Spec

\* SocketStreamBuffer::overflow always finds a place for its character, and flush never
\* asks send for more than the buffer holds, whatever sends fail or are cut short and
\* whatever BFSIZE is.
THEOREM OutputStaysInBuffer == Spec => []OutputFits
<1>1. IInv => OutputFits
    BY DEF IInv, Writer
<1> QED BY <1>1, Inductive, PTL

\* Where send takes all or nothing, the bytes sent are a beginning of the answers in
\* order: no failed flush, by overflow, sync or the destructor, makes one come twice or
\* be left out, for buffers and answers of any size.
THEOREM AnswersInOrder ==
    ASSUME ~PartialSend
    PROVE  Spec => []SentIsPrefix
<1>1. IInv => SentIsPrefix
  <2> SUFFICES ASSUME IInv PROVE InSequence(sent)
      BY DEF SentIsPrefix
  <2>1. Writer /\ InSequence(Out)
      BY DEF IInv, Progress
  <2>2. sent \in Seq(Byte) /\ pbuf \in Seq(Byte)
      BY <2>1, OutType
  <2>3. CASE Out = sent
      BY <2>1, <2>3
  <2>4. CASE Out = sent \o pbuf
      BY <2>1, <2>2, <2>4, PrefixInSequence
  <2> QED BY <2>3, <2>4 DEF Out
<1> QED BY <1>1, Inductive, PTL

-----------------------------------------------------------------------------
(* Induction over the natural numbers, and FlattenSeq *)

\* The relation < on the natural numbers
Less == {p \in Nat \X Nat : p[1] < p[2]}

\* A set of natural numbers has a least element: what the inductions below rest on.
LEMMA Least ==
    ASSUME NEW T \in SUBSET Nat, T # {}
    PROVE  \E x \in T : \A y \in T : x <= y
<1>1. IsWellFoundedOn(Less, Nat)
    BY NatLessThanWellFounded, Zenon DEF OpToRel, Less
<1>2. PICK x \in T : \A y \in T : <<y, x>> \notin Less
    BY <1>1, WFMin
<1>3. ASSUME NEW y \in T PROVE x <= y
  <2>1. x \in Nat /\ y \in Nat /\ <<y, x>> \notin Less
      BY <1>2
  <2> QED BY <2>1 DEF Less
<1> QED BY <1>3

\* f begins with c and goes on by the steps in D.
Iterates(S, n, c, D, f) ==
    /\ f \in [0..n -> S] /\ f[0] = c
    /\ \A i \in 1..n : f[i] = D[i][f[i - 1]]

\* There is such a function.
LEMMA Iterate ==
    ASSUME NEW S, NEW n \in Nat, NEW c \in S, NEW D \in [1..n -> [S -> S]]
    PROVE  \E f : Iterates(S, n, c, D, f)
<1> DEFINE P(m) == \E f \in [0..m -> S] : f[0] = c /\ \A i \in 1..m : f[i] = D[i][f[i - 1]]
           T == {m \in 0..n : ~P(m)}
<1>1. P(0)
  <2> DEFINE f == [i \in 0..0 |-> c]
  <2>1. f \in [0..0 -> S] /\ f[0] = c /\ 1..0 = {}
      OBVIOUS
  <2> QED BY <2>1
<1>2. ASSUME NEW m \in 0..n - 1, P(m)
      PROVE  P(m + 1)
  <2>1. PICK f \in [0..m -> S] : f[0] = c /\ \A i \in 1..m : f[i] = D[i][f[i - 1]]
      BY <1>2
  <2> DEFINE g == [i \in 0..m + 1 |-> IF i <= m THEN f[i] ELSE D[m + 1][f[m]]]
  <2>2. D[m + 1][f[m]] \in S
    <3>1. m + 1 \in 1..n /\ f[m] \in S
        BY <2>1
    <3>2. D[m + 1] \in [S -> S]
        BY <3>1
    <3> QED BY <3>1, <3>2
  <2>3. g \in [0..m + 1 -> S]
      BY <2>1, <2>2
  <2>4. g[0] = c
      BY <2>1
  <2>5. ASSUME NEW i \in 1..m + 1 PROVE g[i] = D[i][g[i - 1]]
    <3>1. i - 1 \in 0..m /\ g[i - 1] = f[i - 1]
        OBVIOUS
    <3>2. CASE i <= m
        BY <2>1, <3>1, <3>2
    <3>3. CASE i = m + 1
        BY <3>1, <3>3
    <3> QED BY <3>2, <3>3
  <2> HIDE DEF g
  <2> QED BY <2>3, <2>4, <2>5
<1>3. ASSUME T # {} PROVE FALSE
  <2>1. PICK x \in T : \A y \in T : x <= y
    <3>1. T \in SUBSET Nat
        OBVIOUS
    <3> HIDE DEF T
    <3> QED BY <1>3, <3>1, Least
  <2>2. x \in 0..n /\ ~P(x)
      BY <2>1
  <2> HIDE DEF P
  <2>3. x # 0
      BY <1>1, <2>2
  <2>4. x - 1 \in 0..n - 1 /\ x - 1 \notin T
      BY <2>1, <2>2, <2>3
  <2>5. P(x - 1)
      BY <2>4
  <2>6. P((x - 1) + 1)
      BY <1>2, <2>4, <2>5
  <2> QED BY <2>2, <2>6
<1> QED
  <2> HIDE DEF P
  <2>1. P(n)
      BY <1>3
  <2> QED BY <2>1 DEF P, Iterates

\* The recursive function inside FlattenSeq exists.
LEMMA FlattenFunction ==
    ASSUME NEW C, NEW s \in Seq(Seq(C)), s # <<>>
    PROVE  \E f \in [1..Len(s) -> Seq(C)] :
              /\ f[1] = s[1] /\ \A i \in 2..Len(s) : f[i] = f[i - 1] \o s[i]
              /\ FlattenSeq(s) = f[Len(s)]
<1>0. PICK Q, n : Q = Seq(C) /\ n = Len(s)
    OBVIOUS
<1>1. /\ n \in Nat \ {0} /\ \A i \in 1..n : s[i] \in Q
      /\ \A t, u \in Q : t \o u \in Q
      /\ <<>> \in Q /\ \A t \in Q : <<>> \o t = t
    BY <1>0, EmptySeq, LenProperties, ElementOfSeq, ConcatProperties, ConcatEmptySeq
<1> DEFINE D == [i \in 1..n |-> [t \in Q |-> t \o s[i]]]
           Def(f) == [i \in 1..n |-> IF i = 1 THEN s[i] ELSE f[i - 1] \o s[i]]
<1>2. D \in [1..n -> [Q -> Q]]
    BY <1>1
<1>3. PICK h \in [0..n -> Q] : h[0] = <<>> /\ \A i \in 1..n : h[i] = D[i][h[i - 1]]
  <2>1. PICK e, E : e = <<>> /\ E = D
      OBVIOUS
  <2>2. e \in Q /\ E \in [1..n -> [Q -> Q]] /\ n \in Nat
      BY <1>1, <1>2, <2>1
  <2>3. PICK h : Iterates(Q, n, e, E, h)
      BY <2>2, Iterate
  <2> QED BY <2>1, <2>3 DEF Iterates
<1>4. ASSUME NEW i \in 1..n PROVE h[i] = h[i - 1] \o s[i] /\ h[i - 1] \in Q
  <2>1. h[i - 1] \in Q
      BY <1>1
  <2> QED BY <1>3, <2>1
<1>5. h[1] = s[1]
  <2>1. 1 \in 1..n /\ 1 - 1 = 0 /\ s[1] \in Q
      BY <1>1
  <2>2. h[1] = h[0] \o s[1]
      BY <1>4, <2>1
  <2> QED BY <1>1, <1>3, <2>1, <2>2
<1> DEFINE g == [i \in 1..n |-> h[i]]
<1>6. g = Def(g)
  <2>1. ASSUME NEW i \in 1..n PROVE g[i] = IF i = 1 THEN s[i] ELSE g[i - 1] \o s[i]
    <3>1. CASE i = 1
        BY <1>5, <3>1
    <3>2. CASE i # 1
      <4>1. i - 1 \in 1..n
          BY <1>1, <3>2
      <4> QED BY <1>4, <3>2, <4>1
    <3> QED BY <3>1, <3>2
  <2> QED BY <2>1
<1>7. PICK f : f = Def(f) /\ FlattenSeq(s) = f[n]
  <2> DEFINE F == CHOOSE f : f = Def(f)
  <2>1. F = Def(F)
    <3> HIDE DEF Def, g
    <3> QED BY <1>6
  <2>2. Len(s) # 0
      BY <1>0, <1>1
  <2>3. FlattenSeq(s) = F[n]
      BY <1>0, <2>2, Zenon DEF FlattenSeq
  <2> HIDE DEF F, Def
  <2> QED BY <2>1, <2>3
<1>8. f[1] = s[1] /\ \A i \in 2..n : f[i] = f[i - 1] \o s[i]
  <2>1. ASSUME NEW i \in 1..n PROVE f[i] = IF i = 1 THEN s[i] ELSE f[i - 1] \o s[i]
    <3>1. f[i] = Def(f)[i]
        BY <1>7
    <3> QED BY <3>1
  <2>2. f[1] = s[1]
      BY <1>1, <2>1
  <2>3. ASSUME NEW i \in 2..n PROVE f[i] = f[i - 1] \o s[i]
    <3>1. i \in 1..n /\ i # 1
        OBVIOUS
    <3> QED BY <2>1, <3>1
  <2> QED BY <2>2, <2>3
<1>9. \A i \in 1..n : f[i] \in Q
  <2> DEFINE T == {i \in 1..n : f[i] \notin Q}
  <2>1. ASSUME T # {} PROVE FALSE
    <3>1. T \in SUBSET Nat
        BY <1>1
    <3>2. PICK x \in T : \A y \in T : x <= y
      <4> HIDE DEF T
      <4> QED BY <2>1, <3>1, Least
    <3>3. x \in 1..n /\ f[x] \notin Q /\ x # 1
        BY <1>1, <1>8, <3>2
    <3>4. x - 1 \in 1..n /\ x - 1 \notin T
        BY <1>1, <3>2, <3>3
    <3>5. f[x - 1] \in Q /\ f[x] = f[x - 1] \o s[x] /\ s[x] \in Q
      <4>1. x \in 2..n
          BY <1>1, <3>3
      <4> QED BY <1>1, <1>8, <3>3, <3>4, <4>1
    <3> QED BY <1>1, <3>3, <3>5
  <2> QED BY <2>1
<1>10. f \in [1..n -> Q]
    BY <1>7, <1>9
<1> QED BY <1>0, <1>7, <1>8, <1>10

\* FlattenSeq gives a sequence of what its argument's elements are made of.
LEMMA FlattenType ==
    ASSUME NEW C, NEW s \in Seq(Seq(C))
    PROVE  FlattenSeq(s) \in Seq(C) /\ (s = <<>> => FlattenSeq(s) = <<>>)
<1>1. CASE s = <<>>
  <2>1. Len(s) = 0 /\ <<>> \in Seq(C)
      BY <1>1
  <2>2. FlattenSeq(s) = s
      BY <2>1, Zenon DEF FlattenSeq
  <2> QED BY <1>1, <2>1, <2>2
<1>2. CASE s # <<>>
  <2>1. PICK f \in [1..Len(s) -> Seq(C)] : FlattenSeq(s) = f[Len(s)]
      BY <1>2, FlattenFunction
  <2>2. Len(s) \in 1..Len(s)
      BY <1>2, EmptySeq, LenProperties
  <2> QED BY <1>2, <2>1, <2>2
<1> QED BY <1>1, <1>2

\* FlattenSeq, although defined from the left, can be taken apart at its head.
LEMMA FlattenCons ==
    ASSUME NEW C, NEW s \in Seq(Seq(C)), s # <<>>
    PROVE  FlattenSeq(s) = s[1] \o FlattenSeq(Tail(s))
<1>0. PICK n, t, Q : n = Len(s) /\ t = Tail(s) /\ Q = Seq(C)
    OBVIOUS
<1>1. /\ n \in Nat \ {0} /\ t \in Seq(Seq(C)) /\ Len(t) = n - 1
      /\ \A i \in 1..n : s[i] \in Q
      /\ \A i \in 1..n - 1 : t[i] = s[i + 1]
    BY <1>0, EmptySeq, LenProperties, ElementOfSeq, HeadTailProperties
<1>a. \A a, b, c \in Q : (a \o b) \o c = a \o (b \o c)
  <2>1. ASSUME NEW a \in Seq(C), NEW b \in Seq(C), NEW c \in Seq(C)
        PROVE  (a \o b) \o c = a \o (b \o c)
    <3>1. a \in Seq(C) /\ b \in Seq(C) /\ c \in Seq(C)
        OBVIOUS
    <3> QED BY ONLY <3>1, SMTT(30)
  <2> QED BY <1>0, <2>1
<1>2. PICK f \in [1..n -> Q] : /\ f[1] = s[1] /\ \A i \in 2..n : f[i] = f[i - 1] \o s[i]
                              /\ FlattenSeq(s) = f[n]
    BY <1>0, FlattenFunction
<1>3. CASE n = 1
  <2>1. t = <<>>
      BY <1>1, <1>3, EmptySeq
  <2>2. FlattenSeq(t) = <<>>
      BY <1>1, <2>1, FlattenType
  <2>3. s[1] \o <<>> = s[1]
      BY <1>0, <1>1, ConcatEmptySeq
  <2> QED BY <1>0, <1>2, <1>3, <2>2, <2>3
<1>4. CASE n # 1
  <2>1. t # <<>>
      BY <1>1, <1>4, EmptySeq
  <2>2. PICK g \in [1..n - 1 -> Q] :
           /\ g[1] = t[1] /\ \A i \in 2..n - 1 : g[i] = g[i - 1] \o t[i]
           /\ FlattenSeq(t) = g[n - 1]
    <3>1. \E g \in [1..Len(t) -> Seq(C)] :
              /\ g[1] = t[1] /\ \A i \in 2..Len(t) : g[i] = g[i - 1] \o t[i]
              /\ FlattenSeq(t) = g[Len(t)]
        BY <1>1, <2>1, FlattenFunction
    <3> QED BY <1>0, <1>1, <3>1
  <2> DEFINE T == {i \in 1..n - 1 : f[i + 1] # s[1] \o g[i]}
  <2>3. ASSUME T # {} PROVE FALSE
    <3>1. T \in SUBSET Nat
        BY <1>1
    <3>2. PICK x \in T : \A y \in T : x <= y
      <4> HIDE DEF T
      <4> QED BY <2>3, <3>1, Least
    <3>3. x \in 1..n - 1 /\ f[x + 1] # s[1] \o g[x]
        BY <3>2
    <3>4. f[x + 1] = f[x] \o t[x]
      <4>1. x + 1 \in 2..n /\ (x + 1) - 1 = x /\ t[x] = s[x + 1]
          BY <1>1, <3>3
      <4> QED BY <1>2, <4>1
    <3>5. CASE x = 1
        BY <1>2, <2>2, <3>3, <3>4, <3>5
    <3>6. CASE x # 1
      <4>1. x - 1 \in 1..n - 1 /\ (x - 1) + 1 = x /\ x \in 2..n - 1 /\ ~(x <= x - 1)
          BY <1>1, <3>3, <3>6
      <4>2. f[x] = s[1] \o g[x - 1]
        <5>1. x - 1 \notin T
            BY <3>2, <4>1
        <5> QED BY <4>1, <5>1
      <4>3. g[x] = g[x - 1] \o t[x]
          BY <2>2, <4>1
      <4>4. s[1] \in Q /\ g[x - 1] \in Q /\ t[x] \in Q
        <5>1. 1 \in 1..n /\ x + 1 \in 1..n
            BY <1>1, <3>3
        <5> QED BY <1>1, <2>2, <3>3, <4>1, <5>1
      <4>5. (s[1] \o g[x - 1]) \o t[x] = s[1] \o (g[x - 1] \o t[x])
          BY <1>a, <4>4
      <4> QED BY <3>3, <3>4, <4>2, <4>3, <4>5
    <3> QED BY <3>5, <3>6
  <2>4. n - 1 \in 1..n - 1
      BY <1>1, <1>4
  <2>5. f[(n - 1) + 1] = s[1] \o g[n - 1]
      BY <2>3, <2>4
  <2>6. (n - 1) + 1 = n
      BY <1>1
  <2> QED BY <1>0, <1>2, <2>2, <2>5, <2>6
<1> QED BY <1>3, <1>4

\* What concatenation does, index by index
LEMMA Cat ==
    ASSUME NEW S, NEW a \in Seq(S), NEW b \in Seq(S)
    PROVE  /\ a \o b \in Seq(S) /\ Len(a) \in Nat /\ Len(b) \in Nat
           /\ Len(a \o b) = Len(a) + Len(b)
           /\ \A i \in 1..Len(a) : (a \o b)[i] = a[i]
           /\ \A i \in 1..Len(b) : (a \o b)[Len(a) + i] = b[i]
    BY ConcatProperties, LenProperties

-----------------------------------------------------------------------------
(* Requests and their texts *)

\* The blank is none of the other characters that matter.
LEMMA BlankIsOther == /\ Blank # "\r" /\ Blank # "\n" /\ Blank # ":" /\ Blank # "/"
    BY Zenon DEF Blank

\* What is known of a well-formed request
LEMMA RequestFacts ==
    ASSUME NEW r \in Requests
    PROVE  /\ r.method \in Char /\ ~IsSpace(r.method)
           /\ r.version \in Char /\ ~IsSpace(r.version)
           /\ Len(r.fields) \in Nat /\ DOMAIN r.fields = 1..Len(r.fields)
           /\ \A i \in 1..Len(r.fields) :
                 /\ r.fields[i] = <<r.fields[i][1], r.fields[i][2]>>
                 /\ r.fields[i][1] \in Seq(Char \ {":", "\n"})
                 /\ r.fields[i][2] \in Seq(Char \ {"\n"})
                 /\ r.fields[i][2] # <<>> => r.fields[i][2][1] # Blank
                 /\ r.fields[i][1] = Content_Length => r.fields[i][2] \in DOMAIN stoul
           /\ \A i, j \in 1..Len(r.fields) : r.fields[i][1] = r.fields[j][1] => i = j
<1> DEFINE F == Seq(Char \ {":", "\n"}) \X Seq(Char \ {"\n"})
<1>1. /\ r \in [method : Char, version : Char, fields : Seq(F)]
      /\ WellFormed(r)
    BY DEF Requests
<1>2. /\ r.method \in Char /\ r.version \in Char /\ r.fields \in Seq(F)
    BY <1>1
<1>3. /\ Len(r.fields) \in Nat /\ DOMAIN r.fields = 1..Len(r.fields)
      /\ \A i \in 1..Len(r.fields) : r.fields[i] \in F
  <2> HIDE DEF F
  <2> QED BY <1>2, LenProperties, ElementOfSeq
<1>4. \A i \in 1..Len(r.fields) :
                 /\ r.fields[i] = <<r.fields[i][1], r.fields[i][2]>>
                 /\ r.fields[i][1] \in Seq(Char \ {":", "\n"})
                 /\ r.fields[i][2] \in Seq(Char \ {"\n"})
    BY <1>3
<1> QED BY <1>1, <1>2, <1>3, <1>4 DEF WellFormed

\* Sequences over a part of the characters
LEMMA SubChars ==
    /\ \A q \in Seq(Char \ {":", "\n"}) : q \in Seq(Char)
    /\ \A q \in Seq(Char \ {"\n"}) : q \in Seq(Char)
    BY SeqMonotonic

\* The pieces that texts are made of
LEMMA Literals ==
    /\ <<>> \in Seq(Char) /\ Len(<<>>) = 0
    /\ <<"\r", "\n">> \in Seq(Char) /\ Len(<<"\r", "\n">>) = 2
    /\ <<":", Blank>> \in Seq(Char) /\ Len(<<":", Blank>>) = 2
    /\ \A a, b \in Char : <<a, Blank, "/", Blank, b, "\r", "\n">> \in Seq(Char)
    /\ \A a, b \in Char : Len(<<a, Blank, "/", Blank, b, "\r", "\n">>) = 7
    /\ \A n \in Nat : [i \in 1..n |-> "b"] \in Seq(Char)
    /\ \A n \in Nat : Len([i \in 1..n |-> "b"]) = n
<1>0. /\ Blank \in Char /\ "/" \in Char /\ ":" \in Char /\ "\r" \in Char
      /\ "\n" \in Char /\ "b" \in Char
    BY ScriptAssumption
<1>1. <<>> \in Seq(Char) /\ Len(<<>>) = 0
    OBVIOUS
<1>2. <<"\r", "\n">> \in Seq(Char)
    BY <1>0
<1>3. Len(<<"\r", "\n">>) = 2
    OBVIOUS
<1>4. <<":", Blank>> \in Seq(Char)
    BY <1>0
<1>5. Len(<<":", Blank>>) = 2
    OBVIOUS
<1>6. ASSUME NEW a \in Char, NEW b \in Char
      PROVE  <<a, Blank, "/", Blank, b, "\r", "\n">> \in Seq(Char)
    BY <1>0
<1>7. ASSUME NEW a \in Char, NEW b \in Char
      PROVE  Len(<<a, Blank, "/", Blank, b, "\r", "\n">>) = 7
    OBVIOUS
<1>8. ASSUME NEW n \in Nat
      PROVE  [i \in 1..n |-> "b"] \in Seq(Char)
    BY <1>0
<1>9. ASSUME NEW n \in Nat
      PROVE  Len([i \in 1..n |-> "b"]) = n
    OBVIOUS
<1> QED BY <1>1, <1>2, <1>3, <1>4, <1>5, <1>6, <1>7, <1>8, <1>9

\* A line of the header and where what is in it
LEMMA FieldTextFacts ==
    ASSUME NEW r \in Requests, NEW n \in 1..Len(r.fields)
    PROVE  LET key == r.fields[n][1]
               value == r.fields[n][2]
               t == FieldText(r.fields[n])
               k == Len(key)
               v == Len(value)
           IN /\ key \in Seq(Char) /\ value \in Seq(Char) /\ k \in Nat /\ v \in Nat
              /\ t \in Seq(Char) /\ Len(t) = k + v + 4
              /\ \A i \in 1..k : t[i] = key[i] /\ t[i] # ":" /\ t[i] # "\n"
              /\ t[k + 1] = ":" /\ t[k + 2] = Blank
              /\ \A i \in 1..v : t[k + 2 + i] = value[i] /\ t[k + 2 + i] # "\n"
              /\ t[k + v + 3] = "\r" /\ t[k + v + 4] = "\n"
<1>0. PICK key, value : key = r.fields[n][1] /\ value = r.fields[n][2]
    OBVIOUS
<1>1. key \in Seq(Char \ {":", "\n"}) /\ value \in Seq(Char \ {"\n"})
    BY <1>0, RequestFacts
<1>2. key \in Seq(Char) /\ value \in Seq(Char)
    BY <1>1, SubChars
<1>3. PICK k, v \in Nat : k = Len(key) /\ v = Len(value)
    BY <1>2, LenProperties
<1>4. /\ \A i \in 1..k : key[i] # ":" /\ key[i] # "\n"
      /\ \A i \in 1..v : value[i] # "\n"
    BY <1>1, <1>3, ElementOfSeq
<1>5. PICK a, b, c, d, t : /\ d = <<":", Blank>> /\ a = key \o d /\ b = a \o value
                           /\ c = <<"\r", "\n">> /\ t = b \o c
    OBVIOUS
<1>6. /\ d \in Seq(Char) /\ Len(d) = 2 /\ d[1] = ":" /\ d[2] = Blank
      /\ c \in Seq(Char) /\ Len(c) = 2 /\ c[1] = "\r" /\ c[2] = "\n"
    BY <1>5, Literals
<1>7a. /\ a \in Seq(Char) /\ Len(a) = k + 2
       /\ \A i \in 1..k : a[i] = key[i]
       /\ \A i \in 1..2 : a[k + i] = d[i]
    BY <1>2, <1>3, <1>5, <1>6, Cat
<1>7. /\ b \in Seq(Char) /\ Len(b) = k + 2 + v
      /\ \A i \in 1..k + 2 : b[i] = a[i]
      /\ \A i \in 1..v : b[k + 2 + i] = value[i]
    BY <1>2, <1>3, <1>5, <1>7a, Cat
<1>8. /\ t \in Seq(Char) /\ Len(t) = k + 2 + v + 2
      /\ \A i \in 1..k + 2 + v : t[i] = b[i]
      /\ \A i \in 1..2 : t[k + 2 + v + i] = c[i]
    BY <1>3, <1>5, <1>6, <1>7, Cat
<1>9. t = FieldText(r.fields[n])
    BY <1>0, <1>5 DEF FieldText
<1>10. ASSUME NEW i \in 1..k PROVE t[i] = key[i]
  <2>1. i \in 1..k + 2 /\ i \in 1..k + 2 + v
      BY <1>3
  <2> QED BY <1>7a, <1>7, <1>8, <2>1
<1>11. t[k + 1] = ":" /\ t[k + 2] = Blank
  <2>1. /\ k + 1 \in 1..k + 2 /\ k + 1 \in 1..k + 2 + v
        /\ k + 2 \in 1..k + 2 /\ k + 2 \in 1..k + 2 + v
        /\ 1 \in 1..2 /\ 2 \in 1..2
      BY <1>3
  <2> QED BY <1>6, <1>7a, <1>7, <1>8, <2>1
<1>12. ASSUME NEW i \in 1..v PROVE t[k + 2 + i] = value[i]
  <2>1. k + 2 + i \in 1..k + 2 + v
      BY <1>3
  <2> QED BY <1>7, <1>8, <2>1
<1>13. t[k + v + 3] = "\r" /\ t[k + v + 4] = "\n" /\ Len(t) = k + v + 4
  <2>1. /\ k + 2 + v + 1 = k + v + 3 /\ k + 2 + v + 2 = k + v + 4
        /\ 1 \in 1..2 /\ 2 \in 1..2
      BY <1>3
  <2> QED BY <1>6, <1>8, <2>1
<1>14. \A i \in 1..k : t[i] = key[i] /\ t[i] # ":" /\ t[i] # "\n"
    BY <1>4, <1>10
<1>15. \A i \in 1..v : t[k + 2 + i] = value[i] /\ t[k + 2 + i] # "\n"
    BY <1>4, <1>12
<1>16. t \in Seq(Char)
    BY <1>8
<1> QED BY <1>0, <1>2, <1>3, <1>9, <1>11, <1>13, <1>14, <1>15, <1>16

-----------------------------------------------------------------------------
(* The header of a request, field by field *)

\* The first j fields of a request
LEMMA SomeFields ==
    ASSUME NEW r \in Requests, NEW j \in 0..Len(r.fields)
    PROVE  LET q == SubSeq(r.fields, 1, j) IN
           /\ DOMAIN q = 1..j /\ \A i \in 1..j : q[i] = r.fields[i]
<1> DEFINE F == Seq(Char \ {":", "\n"}) \X Seq(Char \ {"\n"})
<1>1. r.fields \in Seq(F)
    BY DEF Requests
<1> HIDE DEF F
<1>2. \A i \in 1..j : r.fields[i] \in F
    BY <1>1, RequestFacts, ElementOfSeq
<1> QED BY <1>1, <1>2, RequestFacts, SubSeqProperties, LenProperties

\* HttpRequest::HttpRequest makes an empty header.
LEMMA NoHeader ==
    ASSUME NEW r \in Requests
    PROVE  HeaderOf(SubSeq(r.fields, 1, 0)) = NewRequest.header
<1>1. PICK q : q = SubSeq(r.fields, 1, 0)
    OBVIOUS
<1>2. DOMAIN q = {}
    BY <1>1, SomeFields, RequestFacts
<1>3. {q[i][1] : i \in DOMAIN q} = {}
    BY <1>2
<1> DEFINE e(x) == q[CHOOSE i \in DOMAIN q : q[i][1] = x][2]
<1>4. HeaderOf(q) = [x \in {} |-> e(x)]
    BY <1>3, Zenon DEF HeaderOf
<1>5. [x \in {} |-> e(x)] = <<>>
  <2> HIDE DEF e
  <2> QED OBVIOUS
<1> QED BY <1>1, <1>4, <1>5 DEF NewRequest

\* A key finds its value among the first j fields.
LEMMA HeaderFacts ==
    ASSUME NEW r \in Requests, NEW j \in 0..Len(r.fields)
    PROVE  LET h == HeaderOf(SubSeq(r.fields, 1, j)) IN
           /\ h = [x \in DOMAIN h |-> h[x]]
           /\ DOMAIN h = {r.fields[i][1] : i \in 1..j}
           /\ \A i \in 1..j : h[r.fields[i][1]] = r.fields[i][2]
<1>1. PICK q, h : q = SubSeq(r.fields, 1, j) /\ h = HeaderOf(q)
    OBVIOUS
<1>2. DOMAIN q = 1..j /\ \A i \in 1..j : q[i] = r.fields[i]
    BY <1>1, SomeFields
<1> DEFINE e(x) == q[CHOOSE i \in DOMAIN q : q[i][1] = x][2]
           K == {q[i][1] : i \in DOMAIN q}
<1>a. h = [x \in K |-> e(x)]
    BY <1>1, Zenon DEF HeaderOf
<1>3. h = [x \in DOMAIN h |-> h[x]] /\ DOMAIN h = K
  <2> HIDE DEF e, K
  <2> QED BY <1>a
<1>4. DOMAIN h = {r.fields[i][1] : i \in 1..j}
    BY <1>2, <1>3
<1>5. ASSUME NEW i \in 1..j PROVE h[r.fields[i][1]] = r.fields[i][2]
  <2>1. PICK x : x = q[i][1]
      OBVIOUS
  <2>2. PICK c : c = CHOOSE n \in DOMAIN q : q[n][1] = x
      OBVIOUS
  <2>3. c \in DOMAIN q /\ q[c][1] = x
      BY <1>2, <2>1, <2>2
  <2>4. c = i
    <3>1. \A m, n \in 1..Len(r.fields) : r.fields[m][1] = r.fields[n][1] => m = n
        BY RequestFacts
    <3>2. Len(r.fields) \in Nat
        BY RequestFacts
    <3>3. c \in 1..Len(r.fields) /\ i \in 1..Len(r.fields)
        BY <1>2, <2>3, <3>2
    <3>4. r.fields[c][1] = r.fields[i][1]
        BY <1>2, <2>1, <2>3
    <3> QED BY ONLY <3>1, <3>3, <3>4
  <2>5. h[x] = q[c][2]
    <3>1. x \in K
        BY <1>2, <2>1
    <3>2. h[x] = e(x)
      <4> HIDE DEF e, K
      <4> QED BY ONLY <1>a, <3>1
    <3>3. e(x) = q[c][2]
        BY ONLY <2>2, Zenon
    <3> QED BY ONLY <3>2, <3>3
  <2> QED BY <1>2, <2>1, <2>4, <2>5
<1> QED BY <1>1, <1>3, <1>4, <1>5

\* setHeader with the next field
LEMMA NextHeader ==
    ASSUME NEW r \in Requests, NEW j \in 0..Len(r.fields) - 1, NEW b
    PROVE  setHeader(Begun(r, j, b), r.fields[j + 1][1], r.fields[j + 1][2])
              = Begun(r, j + 1, b)
<1>1. PICK g, h, x, v : /\ g = HeaderOf(SubSeq(r.fields, 1, j))
                        /\ h = HeaderOf(SubSeq(r.fields, 1, j + 1))
                        /\ x = r.fields[j + 1][1] /\ v = r.fields[j + 1][2]
    OBVIOUS
<1>2. j \in 0..Len(r.fields) /\ j + 1 \in 0..Len(r.fields) /\ Len(r.fields) \in Nat
    BY RequestFacts
<1>3. /\ g = [y \in DOMAIN g |-> g[y]] /\ DOMAIN g = {r.fields[i][1] : i \in 1..j}
      /\ \A i \in 1..j : g[r.fields[i][1]] = r.fields[i][2]
    BY <1>1, <1>2, HeaderFacts
<1>4. /\ h = [y \in DOMAIN h |-> h[y]] /\ DOMAIN h = {r.fields[i][1] : i \in 1..j + 1}
      /\ \A i \in 1..j + 1 : h[r.fields[i][1]] = r.fields[i][2]
    BY <1>1, <1>2, HeaderFacts
<1>5. DOMAIN h = DOMAIN g \cup {x}
  <2>1. 1..j + 1 = 1..j \cup {j + 1}
      BY <1>2
  <2>2. \A y : y \in DOMAIN h <=> \E i \in 1..j + 1 : y = r.fields[i][1]
      BY <1>4
  <2>3. \A y : y \in DOMAIN g <=> \E i \in 1..j : y = r.fields[i][1]
      BY <1>3
  <2> QED BY <1>1, <2>1, <2>2, <2>3
<1>6. h[x] = v
    BY <1>1, <1>2, <1>4
<1>7. ASSUME NEW y \in DOMAIN g, y # x PROVE h[y] = g[y]
  <2>1. PICK i \in 1..j : y = r.fields[i][1]
      BY <1>3, <1>7
  <2>2. i \in 1..j + 1
      BY <1>2
  <2> QED BY <1>3, <1>4, <2>1, <2>2
<1> DEFINE e == [y \in DOMAIN g \cup {x} |-> IF y = x THEN v ELSE g[y]]
<1>9. e = h
    BY <1>4, <1>5, <1>6, <1>7
<1> QED BY <1>1, <1>9 DEF setHeader, Begun

-----------------------------------------------------------------------------
(* What is ahead of the parser *)

\* All fields
LEMMA AllFields ==
    ASSUME NEW r \in Requests
    PROVE  SubSeq(r.fields, 1, Len(r.fields)) = r.fields
<1> DEFINE F == Seq(Char \ {":", "\n"}) \X Seq(Char \ {"\n"})
<1>1. r.fields \in Seq(F)
    BY DEF Requests
<1> HIDE DEF F
<1> QED BY <1>1, SubSeqFull

\* Content-Length is a number that stoul understands.
LEMMA BodyLength ==
    ASSUME NEW r \in Requests, NEW j \in 0..Len(r.fields)
    PROVE  requestBodyLength(HeaderOf(SubSeq(r.fields, 1, j))) \in 0..2
<1>1. PICK h : h = HeaderOf(SubSeq(r.fields, 1, j))
    OBVIOUS
<1>2. /\ DOMAIN h = {r.fields[i][1] : i \in 1..j}
      /\ \A i \in 1..j : h[r.fields[i][1]] = r.fields[i][2]
    BY <1>1, HeaderFacts
<1>3. ASSUME Content_Length \in DOMAIN h
      PROVE  stoul[h[Content_Length]] \in 0..2
  <2>1. PICK i \in 1..j : Content_Length = r.fields[i][1]
      BY <1>2, <1>3
  <2>2. i \in 1..Len(r.fields)
      BY RequestFacts
  <2>3. h[Content_Length] \in DOMAIN stoul
      BY <1>2, <2>1, <2>2, RequestFacts
  <2>4. \A v \in DOMAIN stoul : stoul[v] \in 0..2
      BY DEF stoul
  <2> QED BY <2>3, <2>4
<1> QED BY <1>1, <1>3 DEF requestBodyLength

\* The elements of T after the k-th, one after the other
From(T, n, k) == FlattenSeq([i \in 1..n - k |-> T[k + i]])

\* ... are nothing after the last one, and begin with the next one otherwise.
Unrolls(C, T, n, k) ==
    /\ From(T, n, k) \in Seq(C)
    /\ k = n => From(T, n, k) = <<>>
    /\ k < n => From(T, n, k) = T[k + 1] \o From(T, n, k + 1)

\* ... whatever the sequences in T are made of
LEMMA FromUnrolls ==
    ASSUME NEW C, NEW n \in Nat, NEW T \in [1..n -> Seq(C)], NEW k \in 0..n
    PROVE  Unrolls(C, T, n, k)
<1> DEFINE Q(m) == [i \in 1..n - m |-> T[m + i]]
<1>1. ASSUME NEW m \in 0..n
      PROVE  /\ Q(m) \in Seq(Seq(C)) /\ Len(Q(m)) = n - m
             /\ \A i \in 1..n - m : Q(m)[i] = T[m + i]
             /\ From(T, n, m) = FlattenSeq(Q(m))
  <2>1. n - m \in Nat /\ \A i \in 1..n - m : T[m + i] \in Seq(C)
      OBVIOUS
  <2>2. Q(m) \in Seq(Seq(C))
      BY <2>1
  <2>3. Len(Q(m)) = n - m /\ \A i \in 1..n - m : Q(m)[i] = T[m + i]
      BY <2>1
  <2> QED BY <2>2, <2>3 DEF From
<1> HIDE DEF Q
<1>2. From(T, n, k) \in Seq(C)
    BY <1>1, FlattenType
<1>3. ASSUME k = n PROVE From(T, n, k) = <<>>
  <2>1. Q(k) \in Seq(Seq(C)) /\ Len(Q(k)) = 0
      BY <1>1, <1>3
  <2>2. Q(k) = <<>>
      BY <2>1, EmptySeq
  <2> QED BY <1>1, <2>1, <2>2, FlattenType
<1>4. ASSUME k < n PROVE From(T, n, k) = T[k + 1] \o From(T, n, k + 1)
  <2>1. PICK s, t : s = Q(k) /\ t = Q(k + 1)
      OBVIOUS
  <2>2. k + 1 \in 0..n /\ n - k \in Nat \ {0} /\ n - (k + 1) = (n - k) - 1
      BY <1>4
  <2>3. /\ s \in Seq(Seq(C)) /\ Len(s) = n - k
        /\ \A i \in 1..n - k : s[i] = T[k + i]
        /\ t \in Seq(Seq(C)) /\ Len(t) = (n - k) - 1
        /\ \A i \in 1..(n - k) - 1 : t[i] = T[(k + 1) + i]
        /\ From(T, n, k) = FlattenSeq(s) /\ From(T, n, k + 1) = FlattenSeq(t)
      BY <1>1, <2>1, <2>2
  <2>4. s # <<>> /\ s[1] = T[k + 1]
      BY <2>2, <2>3, EmptySeq
  <2>5. t = Tail(s)
    <3>1. /\ Tail(s) \in Seq(Seq(C)) /\ Len(Tail(s)) = Len(s) - 1
          /\ \A i \in 1..Len(s) - 1 : Tail(s)[i] = s[i + 1]
        BY <2>3, <2>4, HeadTailProperties
    <3>2. ASSUME NEW i \in 1..Len(t) PROVE t[i] = Tail(s)[i]
      <4>1. i \in 1..(n - k) - 1
          BY <2>3
      <4>2. i + 1 \in 1..n - k /\ k + (i + 1) = (k + 1) + i
          BY <2>2, <4>1
      <4> QED BY <2>3, <3>1, <4>1, <4>2
    <3> QED BY <2>3, <3>1, <3>2, SeqEqual
  <2>6. FlattenSeq(s) = s[1] \o FlattenSeq(Tail(s))
      BY <2>3, <2>4, FlattenCons
  <2> QED BY <2>3, <2>4, <2>5, <2>6
<1> QED BY <1>2, <1>3, <1>4 DEF Unrolls

\* The text of what follows j fields
LEMMA FieldsFacts ==
    ASSUME NEW r \in Requests, NEW j \in 0..Len(r.fields)
    PROVE  /\ Fields(r, j) \in Seq(Char)
           /\ j = Len(r.fields) => Fields(r, j) = <<>>
           /\ j < Len(r.fields) =>
                 Fields(r, j) = FieldText(r.fields[j + 1]) \o Fields(r, j + 1)
<1>0. PICK n \in Nat : n = Len(r.fields)
    BY RequestFacts
<1> DEFINE T == [i \in 1..n |-> FieldText(r.fields[i])]
<1>1. T \in [1..n -> Seq(Char)]
    BY <1>0, FieldTextFacts
<1>2. ASSUME NEW k \in 0..n PROVE Fields(r, k) = From(T, n, k)
  <2>1. ASSUME NEW i \in 1..n - k PROVE FieldText(r.fields[k + i]) = T[k + i]
      OBVIOUS
  <2>2. [i \in 1..n - k |-> FieldText(r.fields[k + i])] = [i \in 1..n - k |-> T[k + i]]
      BY <2>1
  <2> QED BY <1>0, <2>2 DEF Fields, From
<1>3. j < n => j + 1 \in 0..n /\ T[j + 1] = FieldText(r.fields[j + 1])
    BY <1>0
<1> HIDE DEF T
<1>4. j \in 0..n
    BY <1>0
<1>5. Unrolls(Char, T, n, j)
    BY <1>1, <1>4, FromUnrolls
<1> QED BY <1>0, <1>2, <1>3, <1>4, <1>5 DEF Unrolls

\* Both ends of a header
LEMMA HeadTextFacts ==
    ASSUME NEW r \in Requests, NEW j \in 0..Len(r.fields)
    PROVE  /\ HeadText(r, j) \in Seq(Char) /\ Body(r) \in Seq(Char)
           /\ j = Len(r.fields) => HeadText(r, j) = <<"\r", "\n">> \o Body(r)
           /\ j < Len(r.fields) =>
                 HeadText(r, j) = FieldText(r.fields[j + 1]) \o HeadText(r, j + 1)
<1>1. Body(r) \in Seq(Char)
  <2>1. requestBodyLength(HeaderOf(r.fields)) \in Nat
    <3>1. Len(r.fields) \in 0..Len(r.fields)
        BY RequestFacts
    <3>2. PICK q : q = SubSeq(r.fields, 1, Len(r.fields))
        OBVIOUS
    <3>3. requestBodyLength(HeaderOf(q)) \in 0..2
        BY <3>1, <3>2, BodyLength
    <3>4. q = r.fields
        BY <3>2, AllFields
    <3> QED BY <3>3, <3>4
  <2> QED BY <2>1, Literals DEF Body
<1>2. PICK e : e = <<"\r", "\n">> \o Body(r)
    OBVIOUS
<1>3. e \in Seq(Char)
    BY <1>1, <1>2, Literals, Cat
<1>4. \A k \in 0..Len(r.fields) :
         Fields(r, k) \in Seq(Char) /\ HeadText(r, k) = Fields(r, k) \o e
    BY <1>2, FieldsFacts DEF HeadText
<1>5. HeadText(r, j) \in Seq(Char)
    BY <1>3, <1>4, Cat
<1>6. ASSUME j = Len(r.fields) PROVE HeadText(r, j) = e
  <2>1. Fields(r, j) = <<>>
      BY <1>6, FieldsFacts
  <2> QED BY <1>3, <1>4, <2>1, ConcatEmptySeq
<1>7. ASSUME j < Len(r.fields)
      PROVE  HeadText(r, j) = FieldText(r.fields[j + 1]) \o HeadText(r, j + 1)
  <2>1. j + 1 \in 0..Len(r.fields) /\ j + 1 \in 1..Len(r.fields)
      BY <1>7, RequestFacts
  <2>2. PICK a, b : a = FieldText(r.fields[j + 1]) /\ b = Fields(r, j + 1)
      OBVIOUS
  <2>3. /\ a \in Seq(Char) /\ b \in Seq(Char) /\ Fields(r, j) = a \o b
        /\ HeadText(r, j) = (a \o b) \o e /\ HeadText(r, j + 1) = b \o e
      BY <1>4, <1>7, <2>1, <2>2, FieldTextFacts, FieldsFacts
  <2>4. (a \o b) \o e = a \o (b \o e)
    <3>1. a \in Seq(Char) /\ b \in Seq(Char) /\ e \in Seq(Char)
        BY <1>3, <2>3
    <3> QED BY ONLY <3>1, SMTT(30)
  <2> QED BY <2>2, <2>3, <2>4
<1> QED BY <1>1, <1>2, <1>5, <1>6, <1>7

\* Four sequences, one after the other
LEMMA Assoc4 ==
    ASSUME NEW S, NEW a \in Seq(S), NEW b \in Seq(S), NEW c \in Seq(S), NEW d \in Seq(S)
    PROVE  /\ ((a \o b) \o c) \o d = a \o (b \o (c \o d))
           /\ ((a \o b) \o c) \o d \in Seq(S)
<1>0. PICK x, y : x = a \o b /\ y = c \o d
    OBVIOUS
<1>1. x \in Seq(S) /\ y \in Seq(S) /\ ((a \o b) \o c) \o d \in Seq(S)
    BY <1>0
<1>2. (x \o c) \o d = x \o (c \o d)
  <2>1. x \in Seq(S) /\ c \in Seq(S) /\ d \in Seq(S)
      BY <1>1
  <2> QED BY ONLY <2>1, SMTT(30)
<1>3. (a \o b) \o y = a \o (b \o y)
  <2>1. a \in Seq(S) /\ b \in Seq(S) /\ y \in Seq(S)
      BY <1>1
  <2> QED BY ONLY <2>1, SMTT(30)
<1> QED BY <1>0, <1>1, <1>2, <1>3, Zenon

\* A request is its line and its header, the body included.
LEMMA TextFacts ==
    ASSUME NEW r \in Requests
    PROVE  LET line == <<r.method, Blank, "/", Blank, r.version, "\r", "\n">> IN
           /\ Text(r) \in Seq(Char) /\ line \in Seq(Char) /\ Len(line) = 7
           /\ Text(r) = line \o HeadText(r, 0)
<1>1. PICK line : line = <<r.method, Blank, "/", Blank, r.version, "\r", "\n">>
    OBVIOUS
<1>2. PICK f, e, b : f = Fields(r, 0) /\ e = <<"\r", "\n">> /\ b = Body(r)
    OBVIOUS
<1>3. 0 \in 0..Len(r.fields) /\ Len(r.fields) \in Nat
    BY RequestFacts
<1>4. /\ line \in Seq(Char) /\ Len(line) = 7 /\ e \in Seq(Char)
      /\ f \in Seq(Char) /\ b \in Seq(Char)
    BY <1>1, <1>2, <1>3, Literals, RequestFacts, FieldsFacts, HeadTextFacts
<1>5. Text(r) = ((line \o f) \o e) \o b
  <2>1. DOMAIN r.fields = 1..Len(r.fields) - 0
      BY <1>3, RequestFacts
  <2>2. \A i \in 1..Len(r.fields) - 0 : r.fields[0 + i] = r.fields[i]
      OBVIOUS
  <2>3. [i \in DOMAIN r.fields |-> FieldText(r.fields[i])]
          = [i \in 1..Len(r.fields) - 0 |-> FieldText(r.fields[0 + i])]
      BY <2>1, <2>2
  <2>4. f = FlattenSeq([i \in DOMAIN r.fields |-> FieldText(r.fields[i])])
      BY <1>2, <2>3 DEF Fields
  <2> QED BY <1>1, <1>2, <2>4 DEF Text, Body
<1>6. HeadText(r, 0) = f \o (e \o b)
    BY <1>2 DEF HeadText
<1>7. /\ ((line \o f) \o e) \o b = line \o (f \o (e \o b))
      /\ ((line \o f) \o e) \o b \in Seq(Char)
    BY <1>4, Assoc4
<1> QED BY <1>1, <1>4, <1>5, <1>6, <1>7

\* What is ahead: nothing after the last request, the next request otherwise.
LEMMA AheadFacts ==
    ASSUME NEW s \in Scripts, NEW k \in 0..Len(s)
    PROVE  /\ Len(s) \in Nat /\ \A i \in 1..Len(s) : s[i] \in Requests
           /\ Ahead(s, k) \in Seq(Char)
           /\ k = Len(s) => Ahead(s, k) = <<>>
           /\ k < Len(s) => Ahead(s, k) = Text(s[k + 1]) \o Ahead(s, k + 1)
<1>0. s \in Seq(Requests)
    BY ScriptAssumption
<1>1. PICK n \in Nat : n = Len(s)
    BY <1>0, LenProperties
<1>2. \A i \in 1..n : s[i] \in Requests
    BY <1>0, <1>1, ElementOfSeq
<1> DEFINE T == [i \in 1..n |-> Text(s[i])]
<1>3. T \in [1..n -> Seq(Char)]
    BY <1>2, TextFacts
<1>4. ASSUME NEW m \in 0..n PROVE Ahead(s, m) = From(T, n, m)
  <2>1. [i \in 1..n - m |-> Text(s[m + i])] = [i \in 1..n - m |-> T[m + i]]
      OBVIOUS
  <2> QED BY <1>1, <2>1 DEF Ahead, From
<1>5. k < n => k + 1 \in 0..n /\ T[k + 1] = Text(s[k + 1])
    BY <1>1
<1> HIDE DEF T
<1>6. k \in 0..n
    BY <1>1
<1>7. Unrolls(Char, T, n, k)
    BY <1>3, <1>6, FromUnrolls
<1> QED BY <1>1, <1>2, <1>4, <1>5, <1>6, <1>7 DEF Unrolls

\* In the beginning everything is ahead.
LEMMA AllAhead ==
    ASSUME NEW s \in Scripts
    PROVE  FlattenSeq([i \in DOMAIN s |-> Text(s[i])]) = Ahead(s, 0)
<1>0. s \in Seq(Requests)
    BY ScriptAssumption
<1>1. DOMAIN s = 1..Len(s) - 0 /\ \A i \in 1..Len(s) - 0 : 0 + i = i
    BY <1>0, LenProperties
<1>2. [i \in DOMAIN s |-> Text(s[i])] = [i \in 1..Len(s) - 0 |-> Text(s[0 + i])]
    BY <1>1
<1> QED BY <1>2 DEF Ahead

-----------------------------------------------------------------------------
(* Sequences without their first elements *)

\* What is left behind the first p elements
LEMMA DropFacts ==
    ASSUME NEW S, NEW q \in Seq(S), NEW p \in 0..Len(q)
    PROVE  /\ Len(q) \in Nat /\ Drop(q, p) \in Seq(S) /\ Len(Drop(q, p)) = Len(q) - p
           /\ \A i \in 1..Len(q) - p : Drop(q, p)[i] = q[p + i]
<1>1. Len(q) \in Nat
    OBVIOUS
<1>2. \A i \in p + 1..Len(q) : q[i] \in S
    BY <1>1
<1>3. Drop(q, p) \in Seq(S)
    BY <1>1, <1>2, SubSeqProperties DEF Drop
<1>4. Len(Drop(q, p)) = Len(q) - p
    BY <1>1, <1>2, SubSeqProperties DEF Drop
<1>5. ASSUME NEW i \in 1..Len(q) - p PROVE Drop(q, p)[i] = q[p + i]
    BY <1>1, <1>2, SubSeqProperties DEF Drop
<1> QED BY <1>1, <1>3, <1>4, <1>5

\* Nothing is taken off.
LEMMA DropZero ==
    ASSUME NEW S, NEW q \in Seq(S)
    PROVE  Drop(q, 0) = q
    BY SubSeqFull DEF Drop

\* Equal lengths and equal elements
LEMMA SameSeq ==
    ASSUME NEW S, NEW q \in Seq(S), NEW t \in Seq(S), Len(q) = Len(t),
           \A i \in 1..Len(q) : q[i] = t[i]
    PROVE  q = t
    BY SeqEqual

\* Elements are taken off twice.
LEMMA DropDrop ==
    ASSUME NEW S, NEW q \in Seq(S), NEW p \in 0..Len(q), NEW n \in 0..Len(q) - p
    PROVE  Drop(Drop(q, p), n) = Drop(q, p + n)
<1>1. PICK m \in Nat : m = Len(q)
    OBVIOUS
<1>2. PICK a, b, c : a = Drop(q, p) /\ b = Drop(a, n) /\ c = Drop(q, p + n)
    OBVIOUS
<1>3. /\ a \in Seq(S) /\ Len(a) = m - p /\ \A i \in 1..m - p : a[i] = q[p + i]
    BY <1>1, <1>2, DropFacts
<1>4. n \in 0..Len(a) /\ p + n \in 0..m
    BY <1>1, <1>3
<1>5. /\ b \in Seq(S) /\ Len(b) = (m - p) - n /\ \A i \in 1..(m - p) - n : b[i] = a[n + i]
  <2>1. a \in Seq(S) /\ n \in 0..Len(a)
      BY <1>3, <1>4
  <2>2. /\ Drop(a, n) \in Seq(S) /\ Len(Drop(a, n)) = Len(a) - n
        /\ \A i \in 1..Len(a) - n : Drop(a, n)[i] = a[n + i]
      BY <2>1, DropFacts
  <2> QED BY <1>2, <1>3, <2>2
<1>6. /\ c \in Seq(S) /\ Len(c) = m - (p + n)
      /\ \A i \in 1..m - (p + n) : c[i] = q[(p + n) + i]
    BY <1>1, <1>2, <1>4, DropFacts
<1>7. (m - p) - n = m - (p + n)
    BY <1>1
<1>8. ASSUME NEW i \in 1..m - (p + n) PROVE b[i] = c[i]
  <2>1. n + i \in 1..m - p /\ p + (n + i) = (p + n) + i
      BY <1>1
  <2> QED BY <1>3, <1>5, <1>6, <1>7, <2>1
<1>9. b = c
    BY <1>5, <1>6, <1>7, <1>8, SameSeq
<1> QED BY <1>2, <1>9

\* They are taken off the first of two sequences.
LEMMA DropCat ==
    ASSUME NEW S, NEW a \in Seq(S), NEW b \in Seq(S), NEW n \in 0..Len(a)
    PROVE  Drop(a, n) \o b = Drop(a \o b, n)
<1>1. PICK l, m \in Nat : l = Len(a) /\ m = Len(b)
    OBVIOUS
<1>2. PICK c, d, e, f : /\ c = Drop(a, n) /\ d = c \o b
                        /\ e = a \o b /\ f = Drop(e, n)
    OBVIOUS
<1>3. c \in Seq(S) /\ Len(c) = l - n /\ \A i \in 1..l - n : c[i] = a[n + i]
    BY <1>1, <1>2, DropFacts
<1>4. /\ d \in Seq(S) /\ Len(d) = (l - n) + m
      /\ \A i \in 1..l - n : d[i] = c[i]
      /\ \A i \in 1..m : d[(l - n) + i] = b[i]
  <2>1. c \in Seq(S)
      BY <1>3
  <2>2. /\ c \o b \in Seq(S) /\ Len(c \o b) = Len(c) + Len(b)
        /\ \A i \in 1..Len(c) : (c \o b)[i] = c[i]
        /\ \A i \in 1..Len(b) : (c \o b)[Len(c) + i] = b[i]
      BY <2>1, Cat
  <2> QED BY <1>1, <1>2, <1>3, <2>2
<1>5. /\ e \in Seq(S) /\ Len(e) = l + m
      /\ \A i \in 1..l : e[i] = a[i]
      /\ \A i \in 1..m : e[l + i] = b[i]
    BY <1>1, <1>2, Cat
<1>6. n \in 0..Len(e) /\ n \in 0..l
    BY <1>1, <1>5
<1>7. /\ f \in Seq(S) /\ Len(f) = (l + m) - n
      /\ \A i \in 1..(l + m) - n : f[i] = e[n + i]
  <2>1. e \in Seq(S) /\ n \in 0..Len(e)
      BY <1>5, <1>6
  <2>2. /\ Drop(e, n) \in Seq(S) /\ Len(Drop(e, n)) = Len(e) - n
        /\ \A i \in 1..Len(e) - n : Drop(e, n)[i] = e[n + i]
      BY <2>1, DropFacts
  <2> QED BY <1>2, <1>5, <2>2
<1>8. (l - n) + m = (l + m) - n
    BY <1>1, <1>6
<1>9. ASSUME NEW i \in 1..(l + m) - n PROVE d[i] = f[i]
  <2>1. CASE i <= l - n
    <3>1. i \in 1..l - n /\ n + i \in 1..l
        BY <1>1, <1>6, <2>1
    <3> QED BY <1>3, <1>4, <1>5, <1>7, <3>1
  <2>2. CASE ~(i <= l - n)
    <3>1. PICK j : j = i - (l - n)
        OBVIOUS
    <3>2. j \in 1..m /\ i = (l - n) + j /\ n + i = l + j
        BY <1>1, <1>6, <2>2, <3>1
    <3> QED BY <1>4, <1>5, <1>7, <3>2
  <2> QED BY <2>1, <2>2
<1>10. d = f
    BY <1>4, <1>7, <1>8, <1>9, SameSeq
<1> QED BY <1>2, <1>10

\* The first part taken off
LEMMA DropFirst ==
    ASSUME NEW S, NEW a \in Seq(S), NEW b \in Seq(S)
    PROVE  Drop(a \o b, Len(a)) = b
<1>1. PICK l, m \in Nat : l = Len(a) /\ m = Len(b)
    OBVIOUS
<1>2. PICK e, f : e = a \o b /\ f = Drop(e, l)
    OBVIOUS
<1>3. /\ e \in Seq(S) /\ Len(e) = l + m
      /\ \A i \in 1..m : e[l + i] = b[i]
    BY <1>1, <1>2, Cat
<1>4. /\ f \in Seq(S) /\ Len(f) = (l + m) - l
      /\ \A i \in 1..(l + m) - l : f[i] = e[l + i]
  <2>1. e \in Seq(S) /\ l \in 0..Len(e)
      BY <1>1, <1>3
  <2>2. /\ Drop(e, l) \in Seq(S) /\ Len(Drop(e, l)) = Len(e) - l
        /\ \A i \in 1..Len(e) - l : Drop(e, l)[i] = e[l + i]
      BY <2>1, DropFacts
  <2> QED BY <1>2, <1>3, <2>2
<1>5. f = b
  <2>1. (l + m) - l = m
      BY <1>1
  <2> QED BY <1>1, <1>3, <1>4, <2>1, SameSeq
<1> QED BY <1>1, <1>2, <1>5

\* A sequence that is not empty
LEMMA FirstOne ==
    ASSUME NEW S, NEW q \in Seq(S), q # <<>>
    PROVE  /\ Len(q) \in Nat \ {0} /\ Head(q) = q[1] /\ q[1] \in S
           /\ Tail(q) = Drop(q, 1) /\ 1 \in 0..Len(q)
<1>1. Len(q) \in Nat \ {0}
    BY EmptySeq
<1>2. Head(q) = q[1]
    BY HeadTailProperties
<1>3. Tail(q) = Drop(q, 1)
    BY <1>1, TailIsSubSeq DEF Drop
<1> QED BY <1>1, <1>2, <1>3, ElementOfSeq

-----------------------------------------------------------------------------
(* Lines *)

\* Min, where the least element is known
LEMMA MinIs ==
    ASSUME NEW I \in SUBSET Nat, NEW c \in I, \A y \in I : c <= y
    PROVE  Min(I) = c
<1>1. PICK m : m = CHOOSE x \in I : \A y \in I : x <= y
    OBVIOUS
<1>2. m \in I /\ \A y \in I : m <= y
    BY <1>1
<1>3. m = c
    BY <1>2
<1> QED BY <1>1, <1>3 DEF Min

\* cur.find(':')
LEMMA ColonAt ==
    ASSUME NEW line \in Seq(Char), NEW c \in 1..Len(line), line[c] = ":",
           \A i \in 1..c - 1 : line[i] # ":"
    PROVE  Colon(line) = c
<1> DEFINE I == {i \in 1..Len(line) : line[i] = ":"}
<1>1. Colon(line) = IF I # {} THEN Min(I) ELSE 0
    BY DEF Colon, SelectInSeq
<1>2. I \in SUBSET Nat /\ c \in I
    OBVIOUS
<1>3. ASSUME NEW y \in I PROVE c <= y
    OBVIOUS
<1>4. Min(I) = c
  <2> HIDE DEF I
  <2> QED BY <1>2, <1>3, MinIs
<1> QED BY <1>1, <1>2, <1>4

\* A part of a sequence that is known
LEMMA PartIs ==
    ASSUME NEW S, NEW q \in Seq(S), NEW t \in Seq(S), NEW a \in Nat,
           a + Len(t) <= Len(q), \A i \in 1..Len(t) : q[a + i] = t[i]
    PROVE  SubSeq(q, a + 1, a + Len(t)) = t
<1>1. PICK l, m \in Nat : l = Len(q) /\ m = Len(t)
    OBVIOUS
<1>2. PICK x, b, c : b = a + 1 /\ c = a + m /\ x = SubSeq(q, b, c)
    OBVIOUS
<1>3. b \in Nat /\ c \in Nat /\ c <= l /\ c - b + 1 = m /\ (b <= c <=> m # 0)
    BY <1>1, <1>2
<1>4. \A i \in b..c : q[i] \in S
    BY <1>1, <1>2, <1>3, ElementOfSeq
<1>5. /\ x \in Seq(S) /\ Len(x) = IF b <= c THEN c - b + 1 ELSE 0
      /\ \A i \in 1..c - b + 1 : x[i] = q[b + i - 1]
    BY <1>2, <1>3, <1>4, SubSeqProperties
<1>6. Len(x) = m
    BY <1>3, <1>5
<1>7. ASSUME NEW i \in 1..m PROVE x[i] = t[i]
  <2>1. b + i - 1 = a + i
      BY <1>2
  <2> QED BY <1>1, <1>3, <1>5, <2>1
<1> QED BY <1>1, <1>2, <1>5, <1>6, <1>7, SameSeq

\* parseHead gets key and value out of a complete line.
LEMMA LineFacts ==
    ASSUME NEW r \in Requests, NEW n \in 1..Len(r.fields), NEW line \in Seq(Char),
           Len(line) = Len(FieldText(r.fields[n])) - 1,
           \A i \in 1..Len(line) : line[i] = FieldText(r.fields[n])[i]
    PROVE  /\ Len(line) # 1 /\ Colon(line) # 0 /\ Colon(line) # Len(line)
           /\ SubSeq(line, 1, Colon(line) - 1) = r.fields[n][1]
           /\ Value(line) = r.fields[n][2]
<1>1. PICK key, value, t, k, v : /\ key = r.fields[n][1] /\ value = r.fields[n][2]
                                 /\ t = FieldText(r.fields[n])
                                 /\ k = Len(key) /\ v = Len(value)
    OBVIOUS
<1>2. /\ key \in Seq(Char) /\ value \in Seq(Char) /\ k \in Nat /\ v \in Nat
      /\ Len(t) = k + v + 4
      /\ \A i \in 1..k : t[i] = key[i] /\ t[i] # ":"
      /\ t[k + 1] = ":" /\ t[k + 2] = Blank
      /\ \A i \in 1..v : t[k + 2 + i] = value[i]
    BY <1>1, FieldTextFacts
<1>a. k \in Nat /\ v \in Nat
    BY <1>2
<1>3. Len(line) = k + v + 3 /\ \A i \in 1..k + v + 3 : line[i] = t[i]
  <2>1. (k + v + 4) - 1 = k + v + 3
      BY ONLY <1>a
  <2>2. Len(line) = Len(t) - 1 /\ \A i \in 1..Len(line) : line[i] = t[i]
      BY <1>1
  <2>3. Len(line) = k + v + 3
      BY <1>2, <2>1, <2>2
  <2> QED BY <2>2, <2>3
<1>4. k + 1 \in 1..k + v + 3 /\ k + 2 \in 1..k + v + 3
    BY <1>2
<1>5. Colon(line) = k + 1
  <2>1. k + 1 \in 1..Len(line) /\ line[k + 1] = ":"
      BY <1>2, <1>3, <1>4
  <2>2. ASSUME NEW i \in 1..(k + 1) - 1 PROVE line[i] # ":"
    <3>1. i \in 1..k /\ i \in 1..k + v + 3
        BY <1>a
    <3> QED BY <1>2, <1>3, <3>1
  <2> QED BY <2>1, <2>2, ColonAt
<1>6. SubSeq(line, 1, k) = key
  <2>1. 0 + k <= k + v + 3 /\ 0 + 1 = 1 /\ 0 + k = k
      BY ONLY <1>a
  <2>2. ASSUME NEW i \in 1..k PROVE line[0 + i] = key[i]
    <3>1. i \in 1..k + v + 3 /\ 0 + i = i
        BY <1>a
    <3> QED BY <1>2, <1>3, <3>1
  <2>3. key \in Seq(Char) /\ line \in Seq(Char) /\ Len(key) = k /\ 0 + Len(key) <= Len(line)
      BY <1>1, <1>2, <1>3, <2>1
  <2>4. \A i \in 1..Len(key) : line[0 + i] = key[i]
      BY <2>2, <2>3
  <2>5. SubSeq(line, 0 + 1, 0 + Len(key)) = key
      BY <2>3, <2>4, PartIs
  <2> QED BY <2>1, <2>3, <2>5
<1>7. Value(line) = SubSeq(line, k + 3, k + v + 2)
  <2> DEFINE I == {i \in Colon(line) + 1..(Len(line) - 1) + 1 :
                     i <= Len(line) - 1 => line[i] # Blank}
  <2>1. \A i : i \in I <=> /\ i \in k + 2..k + v + 3
                           /\ i <= k + v + 2 => line[i] # Blank
    <3>1. /\ Colon(line) + 1 = k + 2 /\ Len(line) - 1 = k + v + 2
          /\ (Len(line) - 1) + 1 = k + v + 3
      <4>1. /\ (k + 1) + 1 = k + 2 /\ (k + v + 3) - 1 = k + v + 2
            /\ (k + v + 2) + 1 = k + v + 3
          BY ONLY <1>a
      <4>2. Len(line) = k + v + 3
          BY <1>3
      <4> QED BY ONLY <1>5, <4>1, <4>2
    <3> QED BY <3>1
  <2>2. I \in SUBSET Nat
      BY <1>2, <2>1
  <2>3. k + 3 \in I
    <3>1. k + 3 \in k + 2..k + v + 3
        BY <1>a
    <3>2. ASSUME k + 3 <= k + v + 2 PROVE line[k + 3] # Blank
      <4>1. 1 \in 1..v /\ v # 0
          BY ONLY <1>a, <3>2
      <4>2. value # <<>>
          BY <1>1, <4>1
      <4>3. value[1] # Blank
          BY <1>1, <4>2, RequestFacts
      <4>4. k + 3 \in 1..k + v + 3 /\ k + 2 + 1 = k + 3
          BY <1>a
      <4> QED BY <1>2, <1>3, <4>1, <4>3, <4>4
    <3> QED BY <2>1, <3>1, <3>2
  <2>4. ASSUME NEW y \in I PROVE k + 3 <= y
    <3>1. y \in k + 2..k + v + 3 /\ (y <= k + v + 2 => line[y] # Blank)
        BY <2>1
    <3>2. line[k + 2] = Blank /\ k + 2 <= k + v + 2
      <4>1. k + 2 <= k + v + 2
          BY ONLY <1>a
      <4>2. line[k + 2] = t[k + 2]
          BY ONLY <1>3, <1>4
      <4> QED BY <1>2, <4>1, <4>2
    <3>3. y # k + 2
        BY <3>1, <3>2
    <3> QED BY ONLY <1>a, <3>1, <3>3
  <2>5. Min(I) = k + 3
    <3> HIDE DEF I
    <3> QED BY <2>2, <2>3, <2>4, MinIs
  <2>6. Len(line) - 1 = k + v + 2
    <3>1. (k + v + 3) - 1 = k + v + 2
        BY <1>a
    <3> QED BY <1>3, <3>1
  <2>7. Value(line) = SubSeq(line, Min(I), Len(line) - 1)
      BY DEF Value
  <2> QED BY <2>5, <2>6, <2>7
<1>8. SubSeq(line, k + 3, k + v + 2) = value
  <2>1. PICK a \in Nat : a = k + 2
      BY <1>a
  <2>2. a + v <= k + v + 3 /\ a + 1 = k + 3 /\ a + v = k + v + 2
      BY ONLY <1>a, <2>1
  <2>3. ASSUME NEW i \in 1..v PROVE line[a + i] = value[i]
    <3>1. a + i \in 1..k + v + 3
        BY <1>a, <2>1
    <3> QED BY <1>2, <1>3, <2>1, <3>1
  <2>4. /\ value \in Seq(Char) /\ line \in Seq(Char) /\ Len(value) = v
        /\ a + Len(value) <= Len(line)
      BY <1>1, <1>2, <1>3, <2>2
  <2>5. \A i \in 1..Len(value) : line[a + i] = value[i]
      BY <2>3, <2>4
  <2>6. SubSeq(line, a + 1, a + Len(value)) = value
      BY <2>1, <2>4, <2>5, PartIs
  <2> QED BY <2>2, <2>4, <2>6
<1>9. (k + 1) - 1 = k /\ k + 1 # 0 /\ k + 1 # Len(line) /\ Len(line) # 1
  <2>1. (k + 1) - 1 = k /\ k + 1 # 0 /\ k + 1 # k + v + 3 /\ k + v + 3 # 1
      BY ONLY <1>a
  <2> QED BY <1>3, <2>1
<1> QED BY <1>1, <1>5, <1>6, <1>7, <1>8, <1>9

\* getline has read c and comes to a '\n', at the beginning of l; the text of the line
\* is t, and y comes after it.
AtNewline(c, l, t, y) ==
    /\ c \in Seq(Char) /\ l \in Seq(Char) /\ t \in Seq(Char) /\ y \in Seq(Char)
    /\ c \o l = t \o y
    /\ \A i \in 1..Len(c) : c[i] # "\n"
    /\ l # <<>> /\ l[1] = "\n"
    /\ Len(t) # 0 /\ t[Len(t)] = "\n" /\ \A i \in 1..Len(t) - 1 : t[i] # "\n"

\* It stops at the first one: c is the line.
LEMMA WholeLine ==
    ASSUME NEW c, NEW l, NEW t, NEW y, AtNewline(c, l, t, y)
    PROVE  /\ Len(c) = Len(t) - 1 /\ \A i \in 1..Len(c) : c[i] = t[i]
           /\ Drop(l, 1) = y
<1>0. /\ c \in Seq(Char) /\ l \in Seq(Char) /\ t \in Seq(Char) /\ y \in Seq(Char)
      /\ c \o l = t \o y
      /\ \A i \in 1..Len(c) : c[i] # "\n"
      /\ l # <<>> /\ l[1] = "\n"
      /\ Len(t) # 0 /\ t[Len(t)] = "\n" /\ \A i \in 1..Len(t) - 1 : t[i] # "\n"
    BY DEF AtNewline
<1>1. PICK a, m \in Nat : a = Len(c) /\ m = Len(t)
    BY <1>0
<1>2. PICK x : x = c \o l /\ x = t \o y
    BY <1>0
<1>3. Len(l) \in Nat \ {0}
    BY <1>0, FirstOne
<1>4. /\ x \in Seq(Char) /\ Len(x) = a + Len(l)
      /\ \A i \in 1..a : x[i] = c[i]
      /\ \A i \in 1..Len(l) : x[a + i] = l[i]
  <2>0. c \in Seq(Char) /\ l \in Seq(Char)
      BY <1>0
  <2>1. /\ c \o l \in Seq(Char) /\ Len(c \o l) = Len(c) + Len(l)
        /\ \A i \in 1..Len(c) : (c \o l)[i] = c[i]
        /\ \A i \in 1..Len(l) : (c \o l)[Len(c) + i] = l[i]
      BY ONLY <2>0, Cat
  <2> QED BY <1>0, <1>1, <1>2, <2>1
<1>5. \A i \in 1..m : x[i] = t[i]
    BY <1>0, <1>1, <1>2, Cat
<1>6. x[a + 1] = "\n"
    BY <1>0, <1>3, <1>4
<1>7. m \in 1..m /\ x[m] = "\n"
    BY <1>0, <1>1, <1>5
<1>8. a + 1 = m
  <2>1. CASE a >= m
    <3>1. m \in 1..a
        BY <1>0, <1>1, <1>7, <2>1
    <3> QED BY <1>0, <1>1, <1>4, <1>7, <3>1
  <2>2. CASE a + 1 < m
    <3>1. a + 1 \in 1..m - 1 /\ a + 1 \in 1..m
        BY <1>0, <1>1, <2>2
    <3> QED BY <1>0, <1>1, <1>5, <1>6, <3>1
  <2> QED BY <1>0, <1>1, <2>1, <2>2
<1>9. ASSUME NEW i \in 1..a PROVE c[i] = t[i]
  <2>1. i \in 1..m
      BY <1>0, <1>1, <1>8
  <2> QED BY <1>0, <1>4, <1>5, <2>1
<1>10. Drop(l, 1) = y
  <2>1. Drop(x, a) = l
      BY <1>0, <1>1, <1>2, DropFirst
  <2>2. Drop(x, m) = y
      BY <1>0, <1>1, <1>2, DropFirst
  <2>3. Drop(Drop(x, a), 1) = Drop(x, a + 1)
    <3>1. a \in 0..Len(x) /\ 1 \in 0..Len(x) - a
        BY <1>0, <1>1, <1>3, <1>4
    <3> QED BY <1>4, <3>1, DropDrop
  <2> QED BY <1>8, <2>1, <2>2, <2>3
<1> QED BY <1>0, <1>1, <1>8, <1>9, <1>10

\* One byte goes from the input to the line.
LEMMA ShiftOne ==
    ASSUME NEW c \in Seq(Char), NEW l \in Seq(Char), l # <<>>
    PROVE  /\ Append(c, l[1]) \in Seq(Char) /\ Append(c, l[1]) \o Drop(l, 1) = c \o l
           /\ Len(Append(c, l[1])) = Len(c) + 1
           /\ \A i \in 1..Len(c) : Append(c, l[1])[i] = c[i]
           /\ Append(c, l[1])[Len(c) + 1] = l[1]
<1>1. l[1] \in Char /\ Len(l) \in Nat \ {0} /\ 1 \in 0..Len(l)
    BY FirstOne
<1>2. PICK a, m \in Nat : a = Len(c) /\ m = Len(l)
    OBVIOUS
<1>3. PICK d, e, x, y : /\ d = Append(c, l[1]) /\ e = Drop(l, 1)
                        /\ x = d \o e /\ y = c \o l
    OBVIOUS
<1>4. /\ d \in Seq(Char) /\ Len(d) = a + 1 /\ d[a + 1] = l[1]
      /\ \A i \in 1..a : d[i] = c[i]
    BY <1>1, <1>2, <1>3, AppendProperties
<1>5. e \in Seq(Char) /\ Len(e) = m - 1 /\ \A i \in 1..m - 1 : e[i] = l[1 + i]
    BY <1>1, <1>2, <1>3, DropFacts
<1>6. /\ x \in Seq(Char) /\ Len(x) = (a + 1) + (m - 1)
      /\ \A i \in 1..a + 1 : x[i] = d[i]
      /\ \A i \in 1..m - 1 : x[(a + 1) + i] = e[i]
  <2>1. d \in Seq(Char) /\ e \in Seq(Char)
      BY <1>4, <1>5
  <2>2. /\ d \o e \in Seq(Char) /\ Len(d \o e) = Len(d) + Len(e)
        /\ \A i \in 1..Len(d) : (d \o e)[i] = d[i]
        /\ \A i \in 1..Len(e) : (d \o e)[Len(d) + i] = e[i]
      BY <2>1, Cat
  <2> QED BY <1>3, <1>4, <1>5, <2>2
<1>7. /\ y \in Seq(Char) /\ Len(y) = a + m
      /\ \A i \in 1..a : y[i] = c[i]
      /\ \A i \in 1..m : y[a + i] = l[i]
    BY <1>2, <1>3, Cat
<1>8. (a + 1) + (m - 1) = a + m /\ m # 0
    BY <1>1, <1>2
<1>9. ASSUME NEW i \in 1..a + m PROVE x[i] = y[i]
  <2>1. CASE i \in 1..a
      BY <1>2, <1>4, <1>6, <1>7, <2>1
  <2>2. CASE i = a + 1
    <3>1. i \in 1..a + 1 /\ 1 \in 1..m
        BY <1>2, <1>8, <2>2
    <3> QED BY <1>4, <1>6, <1>7, <2>2, <3>1
  <2>3. CASE i > a + 1
    <3>1. PICK j : j = i - (a + 1)
        OBVIOUS
    <3>2. j \in 1..m - 1 /\ i = (a + 1) + j /\ i = a + (1 + j) /\ 1 + j \in 1..m
        BY <1>2, <2>3, <3>1
    <3>3. x[i] = e[j]
        BY ONLY <1>6, <3>2
    <3>4. e[j] = l[1 + j]
        BY ONLY <1>5, <3>2
    <3>5. y[i] = l[1 + j]
        BY ONLY <1>7, <3>2
    <3> QED BY ONLY <3>3, <3>4, <3>5
  <2> QED BY <1>2, <2>1, <2>2, <2>3
<1>10. x = y
    BY <1>6, <1>7, <1>8, <1>9, SameSeq
<1> QED BY <1>2, <1>3, <1>4, <1>10

-----------------------------------------------------------------------------
(* Bytes on their way in *)

\* What is left begins with what is in the buffer.
LEMMA LeftType ==
    ASSUME InputOK
    PROVE  /\ Left \in Seq(Char) /\ arrived \o unsent \in Seq(Char)
           /\ gbuf # <<>> => Left # <<>> /\ Left[1] = Head(gbuf)
<1>1. PICK q, g : q = arrived \o unsent /\ g = gbuf
    OBVIOUS
<1>2. g \in Seq(Char) /\ arrived \in Seq(Char) /\ unsent \in Seq(Char)
    BY <1>1 DEF InputOK
<1>3. q \in Seq(Char)
    BY <1>1, <1>2, ConcatProperties
<1>4. Left = g \o q
    BY <1>1 DEF Left
<1>5. /\ g \o q \in Seq(Char) /\ Len(g) \in Nat /\ Len(q) \in Nat
      /\ Len(g \o q) = Len(g) + Len(q)
      /\ \A i \in 1..Len(g) : (g \o q)[i] = g[i]
    BY ONLY <1>2, <1>3, Cat
<1>6. ASSUME g # <<>> PROVE g \o q # <<>> /\ (g \o q)[1] = Head(g)
  <2>1. Len(g) \in Nat \ {0} /\ Head(g) = g[1]
      BY <1>2, <1>6, FirstOne
  <2>2. 1 \in 1..Len(g) /\ Len(g \o q) # 0
      BY <1>5, <2>1
  <2>3. g \o q # <<>>
      BY <1>5, <2>2, EmptySeq
  <2> QED BY <1>5, <2>1, <2>2, <2>3
<1> QED BY <1>1, <1>3, <1>4, <1>5, <1>6

\* n bytes are taken off the buffer.
LEMMA Took ==
    ASSUME InputOK, NEW n \in 0..Len(gbuf), gbuf' = Drop(gbuf, n),
           arrived' = arrived, unsent' = unsent, eof' = eof
    PROVE  Left' = Drop(Left, n) /\ InputOK'
<1>1. PICK q, g, h : q = arrived \o unsent /\ g = gbuf /\ h = gbuf'
    OBVIOUS
<1>2. g \in Seq(Char) /\ q \in Seq(Char) /\ n \in 0..Len(g) /\ h = Drop(g, n)
    BY <1>1, LeftType DEF InputOK
<1>3. Drop(g, n) \o q = Drop(g \o q, n)
    BY ONLY <1>2, DropCat
<1>4. Left = g \o q /\ Left' = h \o q
    BY <1>1 DEF Left
<1>5. h \in Seq(Char) /\ Len(h) = Len(g) - n /\ Len(g) \in Nat
    BY ONLY <1>2, DropFacts
<1>6. Len(h) <= Len(g)
    BY <1>2, <1>5
<1>7. Len(h) <= BFSIZE
    BY <1>1, <1>5, <1>6, StreamAssumption DEF InputOK
<1>8. ASSUME eof PROVE h = <<>>
  <2>1. g = <<>>
      BY <1>1, <1>8 DEF InputOK
  <2>2. Len(h) = 0
      BY <1>2, <1>5, <2>1
  <2> QED BY <1>5, <2>2, EmptySeq
<1>9. InputOK'
    BY <1>1, <1>5, <1>7, <1>8 DEF InputOK
<1> QED BY <1>2, <1>3, <1>4, <1>9

\* One byte is got.
LEMMA Got ==
    ASSUME InputOK, gbuf # <<>>, GetChar, unsent' = unsent
    PROVE  /\ ~eof /\ ~eof' /\ Left \in Seq(Char) /\ Left # <<>>
           /\ Left[1] = Head(gbuf) /\ Left' = Drop(Left, 1) /\ InputOK'
<1>1. gbuf \in Seq(Char) /\ ~eof
    BY DEF InputOK
<1>2. 1 \in 0..Len(gbuf) /\ Tail(gbuf) = Drop(gbuf, 1)
    BY <1>1, FirstOne
<1>3. gbuf' = Drop(gbuf, 1) /\ arrived' = arrived /\ eof' = eof
    BY <1>2 DEF GetChar
<1>4. Left' = Drop(Left, 1) /\ InputOK'
    BY <1>2, <1>3, Took
<1> QED BY <1>1, <1>3, <1>4, LeftType

\* recv moves bytes into the buffer.
LEMMA Received ==
    ASSUME InputOK, underflow, unsent' = unsent
    PROVE  Left' = Left /\ InputOK' /\ ~eof
<1>1. PICK a, u, n, g, b : /\ a = arrived /\ u = unsent /\ n = MinOf(BFSIZE, Len(arrived))
                           /\ g = SubSeq(a, 1, n) /\ b = Drop(a, n)
    OBVIOUS
<1>2. a \in Seq(Char) /\ u \in Seq(Char) /\ Len(a) \in Nat /\ gbuf = <<>> /\ ~eof
    BY <1>1 DEF InputOK, underflow
<1>3. n \in 0..Len(a) /\ n <= BFSIZE
    BY <1>1, <1>2, StreamAssumption DEF MinOf
<1>4. gbuf' = g /\ arrived' = b /\ eof' = (n = 0)
    BY <1>1 DEF underflow, Drop
<1>5. b \in Seq(Char) /\ Len(b) = Len(a) - n /\ \A i \in 1..Len(a) - n : b[i] = a[n + i]
    BY ONLY <1>1, <1>2, <1>3, DropFacts
<1>6. g \in Seq(Char) /\ Len(g) = n /\ \A i \in 1..n : g[i] = a[i]
  <2>1. \A i \in 1..n : a[i] \in Char
      BY <1>2, <1>3, ElementOfSeq
  <2> QED BY ONLY <1>1, <1>2, <1>3, <2>1, SubSeqProperties
<1>7. g \o b = a
  <2>1. /\ g \o b \in Seq(Char) /\ Len(g \o b) = Len(g) + Len(b)
        /\ \A i \in 1..Len(g) : (g \o b)[i] = g[i]
        /\ \A i \in 1..Len(b) : (g \o b)[Len(g) + i] = b[i]
      BY ONLY <1>5, <1>6, Cat
  <2>2. Len(g \o b) = Len(a)
      BY <1>2, <1>3, <1>5, <1>6, <2>1
  <2>3. ASSUME NEW i \in 1..Len(a) PROVE (g \o b)[i] = a[i]
    <3>1. CASE i <= n
      <4>1. i \in 1..n
          BY <1>3, <3>1
      <4> QED BY <1>6, <2>1, <4>1
    <3>2. CASE ~(i <= n)
      <4>1. PICK j : j = i - n
          OBVIOUS
      <4>2. j \in 1..Len(a) - n /\ n + j = i
          BY <1>2, <1>3, <3>2, <4>1
      <4> QED BY <1>5, <1>6, <2>1, <4>2
    <3> QED BY <3>1, <3>2
  <2> QED BY ONLY <1>2, <2>1, <2>2, <2>3, SameSeq
<1>8. Left' = Left
  <2>1. PICK x : x = a \o u
      OBVIOUS
  <2>2. x \in Seq(Char)
      BY <1>2, <2>1, ConcatProperties
  <2>3. Left = <<>> \o x /\ Left' = g \o (b \o u)
      BY <1>1, <1>2, <1>4, <2>1 DEF Left
  <2>4. <<>> \o x = x
      BY <2>2, ConcatEmptySeq
  <2>5. (g \o b) \o u = g \o (b \o u)
    <3>1. g \in Seq(Char) /\ b \in Seq(Char) /\ u \in Seq(Char)
        BY <1>2, <1>5, <1>6
    <3> QED BY ONLY <3>1, SMTT(30)
  <2> QED BY <1>7, <2>1, <2>3, <2>4, <2>5
<1>9. n = 0 => g = <<>>
    BY <1>6, EmptySeq
<1>10. InputOK'
    BY <1>1, <1>2, <1>3, <1>4, <1>5, <1>6, <1>9 DEF InputOK
<1> QED BY <1>2, <1>8, <1>10

\* The kernel receives a byte.
LEMMA Arrived ==
    ASSUME InputOK, Arrive
    PROVE  Left' = Left /\ InputOK'
<1>1. PICK a, u, h : a = arrived /\ u = unsent /\ h = Head(unsent)
    OBVIOUS
<1>2. a \in Seq(Char) /\ u \in Seq(Char) /\ u # <<>>
    BY <1>1 DEF InputOK, Arrive
<1>3. h = u[1] /\ Tail(u) = Drop(u, 1) /\ 1 \in 0..Len(u)
    BY ONLY <1>1, <1>2, FirstOne
<1>4. Append(a, u[1]) \in Seq(Char) /\ Append(a, u[1]) \o Drop(u, 1) = a \o u
    BY <1>2, ShiftOne
<1>5. Drop(u, 1) \in Seq(Char)
    BY ONLY <1>2, <1>3, DropFacts
<1>6. arrived' = Append(a, u[1]) /\ unsent' = Drop(u, 1) /\ gbuf' = gbuf /\ eof' = eof
    BY <1>1, <1>3 DEF Arrive
<1>7. Left' = Left
    BY <1>1, <1>4, <1>6 DEF Left
<1> QED BY <1>4, <1>5, <1>6, <1>7 DEF InputOK

\* The next byte of a, of which p were read
LEMMA NextByte ==
    ASSUME NEW a \in Seq(Char), NEW p \in 0..Len(a), Drop(a, p) # <<>>
    PROVE  /\ p + 1 \in 1..Len(a) /\ Drop(a, p)[1] = a[p + 1]
           /\ Drop(Drop(a, p), 1) = Drop(a, p + 1)
<1>1. /\ Len(a) \in Nat /\ Drop(a, p) \in Seq(Char) /\ Len(Drop(a, p)) = Len(a) - p
      /\ \A i \in 1..Len(a) - p : Drop(a, p)[i] = a[p + i]
    BY DropFacts
<1>2. Len(Drop(a, p)) \in Nat \ {0}
    BY <1>1, FirstOne
<1>3. 1 \in 1..Len(a) - p /\ 1 \in 0..Len(a) - p /\ p + 1 \in 1..Len(a)
    BY <1>1, <1>2
<1> QED BY <1>1, <1>3, DropDrop

\* The bytes of a request line
LEMMA LineBytes ==
    ASSUME NEW s \in Scripts, NEW k \in 0..Len(s), k < Len(s)
    PROVE  /\ s[k + 1] \in Requests /\ Len(Ahead(s, k)) \in Nat /\ 7 <= Len(Ahead(s, k))
           /\ Ahead(s, k)[1] = s[k + 1].method /\ Ahead(s, k)[2] = Blank
           /\ Ahead(s, k)[3] = "/" /\ Ahead(s, k)[4] = Blank
           /\ Ahead(s, k)[5] = s[k + 1].version
           /\ Ahead(s, k)[6] = "\r" /\ Ahead(s, k)[7] = "\n"
           /\ Drop(Ahead(s, k), 7) = HeadText(s[k + 1], 0) \o Ahead(s, k + 1)
<1>1. Len(s) \in Nat /\ k + 1 \in 1..Len(s) /\ k + 1 \in 0..Len(s)
    BY AheadFacts
<1>2. PICK r, y, a, h : /\ r = s[k + 1] /\ y = Ahead(s, k + 1) /\ a = Ahead(s, k)
                        /\ h = HeadText(r, 0)
    OBVIOUS
<1>3. r \in Requests /\ a = Text(r) \o y
    BY <1>1, <1>2, AheadFacts
<1>4. y \in Seq(Char)
    BY <1>1, <1>2, AheadFacts
<1>5. PICK l : l = <<r.method, Blank, "/", Blank, r.version, "\r", "\n">>
    OBVIOUS
<1>6. l \in Seq(Char) /\ Len(l) = 7 /\ Text(r) = l \o h
    BY <1>2, <1>3, <1>5, TextFacts
<1>7. h \in Seq(Char)
  <2>1. 0 \in 0..Len(r.fields)
      BY <1>3, RequestFacts
  <2> QED BY <1>2, <1>3, <2>1, HeadTextFacts
<1>8. PICK z : z = h \o y
    OBVIOUS
<1>9. z \in Seq(Char)
    BY <1>4, <1>7, <1>8, ConcatProperties
<1>10. (l \o h) \o y = l \o (h \o y)
  <2>1. l \in Seq(Char) /\ h \in Seq(Char) /\ y \in Seq(Char)
      BY <1>4, <1>6, <1>7
  <2> QED BY ONLY <2>1, SMTT(30)
<1>11. a = l \o z
    BY <1>3, <1>6, <1>8, <1>10
<1>12. /\ Len(l \o z) = Len(l) + Len(z) /\ Len(z) \in Nat
       /\ \A i \in 1..Len(l) : (l \o z)[i] = l[i]
  <2>1. l \in Seq(Char)
      BY <1>6
  <2> QED BY ONLY <1>9, <2>1, Cat
<1>13. Len(a) \in Nat /\ 7 <= Len(a) /\ \A i \in 1..7 : a[i] = l[i]
    BY <1>6, <1>11, <1>12
<1>14. /\ l[1] = r.method /\ l[2] = Blank /\ l[3] = "/" /\ l[4] = Blank
       /\ l[5] = r.version /\ l[6] = "\r" /\ l[7] = "\n"
    BY ONLY <1>5
<1>15. Drop(a, 7) = z
  <2>1. Drop(l \o z, Len(l)) = z
      BY ONLY <1>6, <1>9, DropFirst
  <2> QED BY <1>6, <1>11, <2>1
<1>16. /\ a[1] = r.method /\ a[2] = Blank /\ a[3] = "/" /\ a[4] = Blank
       /\ a[5] = r.version /\ a[6] = "\r" /\ a[7] = "\n"
  <2>1. 1 \in 1..7 /\ 2 \in 1..7 /\ 3 \in 1..7 /\ 4 \in 1..7 /\ 5 \in 1..7 /\ 6 \in 1..7
        /\ 7 \in 1..7
      OBVIOUS
  <2> QED BY ONLY <1>13, <1>14, <2>1
<1>17. Len(a) \in Nat /\ 7 <= Len(a)
    BY <1>13
<1> QED BY ONLY <1>2, <1>3, <1>8, <1>15, <1>16, <1>17

-----------------------------------------------------------------------------
(* Steps that read nothing *)

\* Outside the words and the lines nothing depends on how the bytes are distributed.
LEMMA QuietRead ==
    ASSUME Reader, Typed', Left' = Left, eof => eof',
           UNCHANGED <<script, taken, cur, req, need, pc>>
    PROVE  Reader'
<1>1. UNCHANGED <<script, taken, cur, req, need, pc>>
    OBVIOUS
<1>2. Reading' = Reading
    BY <1>1 DEF Reading
<1>3. AtMethod => AtMethod'
    BY <1>1, <1>2 DEF AtMethod, At
<1>4. AtUri => AtUri'
    BY <1>1, <1>2 DEF AtUri, At
<1>5. AtVersion => AtVersion'
    BY <1>1, <1>2 DEF AtVersion, At
<1>6. AtTerminator => AtTerminator'
    BY <1>1, <1>2 DEF AtTerminator, At
<1>7. AtHead => AtHead'
    BY <1>1, <1>2 DEF AtHead
<1>8. AtBody => AtBody'
    BY <1>1, <1>2 DEF AtBody
<1>9. OnTrack'
    BY <1>1, <1>3, <1>4, <1>5, <1>6, <1>7, <1>8 DEF Reader, OnTrack
<1>10. TakenSoFar'
    BY <1>1 DEF Reader, TakenSoFar
<1> QED BY <1>9, <1>10 DEF Reader

\* A step that takes no request keeps what was taken; a request that lost fields is
\* the last thing that is read.
LEMMA KeepTaken ==
    ASSUME Reader, UNCHANGED <<script, taken>>,
           \/ pc \notin {"write", "sync", "delete", "return", "done"}
           \/ eof' = eof /\ (eof => pc' \in {"write", "sync", "delete", "return", "done"})
    PROVE  TakenSoFar'
  BY DEF Reader, TakenSoFar

\* Where the reader is, before a step of the parser
LEMMA Where ==
    ASSUME Typed, IsSeq(taken)
    PROVE  /\ Len(taken) \in Nat /\ Len(taken) \in 0..Len(script) /\ Len(script) \in Nat
           /\ Ahead(script, Len(taken)) \in Seq(Char)
           /\ Len(taken) = Len(script) => Ahead(script, Len(taken)) = <<>>
<1>1. script \in Scripts /\ Len(taken) <= Len(script)
    BY DEF Typed
<1>2. script \in Seq(Requests)
    BY <1>1, ScriptAssumption
<1>3. Len(script) \in Nat /\ Len(taken) \in Nat
    BY <1>2, LenProperties DEF IsSeq
<1>4. Len(taken) \in 0..Len(script)
    BY <1>1, <1>3
<1> QED BY <1>1, <1>3, <1>4, AheadFacts

\* A byte comes to the kernel: the parser is where it was.
LEMMA ArriveRead ==
    ASSUME Reader, Arrive
    PROVE  Reader'
<1>1. Left' = Left /\ InputOK'
    BY Arrived DEF Reader, Typed
<1>2. UNCHANGED <<script, taken, cur, req, need, pc, eof>> /\ UNCHANGED output
    BY DEF Arrive, parser
<1>3. OutputOK'
    BY <1>2 DEF output, OutputOK, Reader, Typed
<1>4. Typed'
    BY <1>1, <1>2, <1>3 DEF Reader, Typed
<1> QED BY <1>1, <1>2, <1>4, QuietRead

\* SocketStreamBuffer::underflow gives it bytes, or eof.
LEMMA ReceiveRead ==
    ASSUME Reader, Receive
    PROVE  Reader'
<1>1. /\ UNCHANGED <<script, unsent, taken, cur, req, need, pc>> /\ UNCHANGED output
      /\ underflow
    BY DEF Receive, parser, client
<1>2. Left' = Left /\ InputOK' /\ ~eof
    BY <1>1, Received DEF Reader, Typed
<1>3. OutputOK'
    BY <1>1 DEF output, OutputOK, Reader, Typed
<1>4. Typed'
    BY <1>1, <1>2, <1>3 DEF Reader, Typed
<1> QED BY <1>1, <1>2, <1>4, QuietRead

\* The input is left alone.
LEMMA SameInput ==
    ASSUME InputOK, UNCHANGED input, UNCHANGED client
    PROVE  InputOK' /\ Left' = Left /\ eof' = eof /\ script' = script
    BY DEF input, client, InputOK, Left

\* Steps of the answer: the parser is not concerned.
LEMMA AnswerRead ==
    ASSUME Reader,
           Write \/ responseFlush \/ Transmit \/ delEvent \/ handled \/ UNCHANGED vars
    PROVE  Reader'
<1>1. UNCHANGED <<script, taken, cur, req, need>> /\ UNCHANGED input /\ UNCHANGED client
    BY DEF Write, responseFlush, Transmit, delEvent, handled, vars, parser, client
<1>2. InputOK' /\ Left' = Left /\ eof' = eof
    BY <1>1, SameInput DEF Reader, Typed
<1>3. OutputOK'
  <2>1. OutputOK
      BY DEF Reader, Typed
  <2>2. CASE Write
      BY <2>1, <2>2 DEF OutputOK, Write, PutChar, flush
  <2>3. CASE responseFlush
      BY <2>1, <2>3 DEF OutputOK, responseFlush, sync, flush, output
  <2>4. CASE Transmit
      BY <2>1, <2>4 DEF OutputOK, Transmit, Sending, send, sendFails, flushed
  <2>5. CASE delEvent
      BY <2>1, <2>5 DEF OutputOK, delEvent, sync, flush
  <2>6. CASE handled \/ UNCHANGED vars
      BY <2>1, <2>6 DEF OutputOK, handled, vars, output
  <2> QED BY <2>2, <2>3, <2>4, <2>5, <2>6
<1>4. \/ pc' = pc
      \/ pc = "write" /\ pc' = "sync"
      \/ pc = "delete" /\ pc' = "return"
      \/ pc = "return" /\ pc' = "done"
    BY DEF Write, responseFlush, Transmit, delEvent, handled, vars
<1>5. Typed'
    BY <1>1, <1>2, <1>3, <1>4 DEF Reader, Typed
<1>6. CASE pc' = pc
    BY <1>1, <1>2, <1>5, <1>6, QuietRead
<1>7. CASE pc' # pc
  <2>1. OnTrack'
      BY <1>1, <1>2, <1>4, <1>7 DEF Reader, OnTrack
  <2>2. TakenSoFar'
      BY <1>1, <1>2, <1>4, <1>7, KeepTaken
  <2> QED BY <1>5, <2>1, <2>2 DEF Reader
<1> QED BY <1>6, <1>7

\* getOneHttpRequest fails, and the input has ended: only the end of handle is left.
LEMMA ErrorRead ==
    ASSUME Reader, Error, eof, UNCHANGED input, UNCHANGED client, UNCHANGED output,
           taken' = taken
    PROVE  Reader'
<1>1. InputOK' /\ eof' = eof /\ script' = script
    BY SameInput DEF Reader, Typed
<1>2. pc' = "delete" /\ cur' = <<>> /\ need' = 0
    BY DEF Error, Again
<1>3. OutputOK'
    BY DEF output, OutputOK, Reader, Typed
<1>4. Typed'
    BY <1>1, <1>2, <1>3 DEF Reader, Typed
<1>5. OnTrack'
    BY <1>2 DEF OnTrack
<1>6. TakenSoFar'
    BY <1>1, <1>2, KeepTaken
<1> QED BY <1>4, <1>5, <1>6 DEF Reader

\* A word, a terminator or a line is missing at the end.
LEMMA InputEndsRead ==
    ASSUME Reader, InputEnds
    PROVE  Reader'
    BY ErrorRead DEF InputEnds

\* handle begins with the first request.
LEMMA HandleRead ==
    ASSUME Reader, handle
    PROVE  Reader'
<1>1. /\ UNCHANGED <<script, taken, cur, req, need>> /\ UNCHANGED input /\ UNCHANGED client
      /\ UNCHANGED output /\ pc = "idle" /\ pc' = "method"
    BY DEF handle, parser, client
<1>2. InputOK' /\ Left' = Left /\ eof' = eof
    BY <1>1, SameInput DEF Reader, Typed
<1>3. OutputOK'
    BY <1>1 DEF output, OutputOK, Reader, Typed
<1>4. Typed'
    BY <1>1, <1>2, <1>3 DEF Reader, Typed
<1>5. AtMethod'
    BY <1>1, <1>2 DEF Reader, OnTrack, AtMethod, At, Reading
<1>6. OnTrack'
    BY <1>1, <1>5 DEF OnTrack
<1>7. TakenSoFar'
    BY <1>1, KeepTaken
<1> QED BY <1>4, <1>6, <1>7 DEF Reader

\* The next request begins where the answered one ended.
LEMMA ResponseRead ==
    ASSUME Reader, IsSeq(taken), response
    PROVE  Reader'
<1>1. /\ UNCHANGED <<script, taken, cur, need>> /\ UNCHANGED input /\ UNCHANGED client
      /\ UNCHANGED output /\ pc = "sync" /\ req' = NewRequest
      /\ pc' = IF eof THEN "delete" ELSE "method"
    BY DEF response, Again, client
<1>2. InputOK' /\ Left' = Left /\ eof' = eof
    BY <1>1, SameInput DEF Reader, Typed
<1>3. OutputOK'
    BY <1>1 DEF output, OutputOK, Reader, Typed
<1>4. Typed'
    BY <1>1, <1>2, <1>3 DEF Reader, Typed
<1>5. cur = <<>> /\ (eof \/ Left = Ahead(script, Len(taken)))
    BY <1>1 DEF Reader, OnTrack
<1>6. Ahead(script, Len(taken)) \in Seq(Char)
    BY Where DEF Reader
<1>7. Drop(Ahead(script, Len(taken)), 0) = Ahead(script, Len(taken))
    BY <1>6, DropZero
<1>8. ASSUME ~eof PROVE AtMethod'
    BY <1>1, <1>2, <1>5, <1>7, <1>8 DEF AtMethod, At
<1>9. OnTrack'
    BY <1>1, <1>8 DEF OnTrack
<1>10. TakenSoFar'
    BY <1>1, <1>2, KeepTaken
<1> QED BY <1>4, <1>9, <1>10 DEF Reader

-----------------------------------------------------------------------------
(* The request line *)

\* The blanks between the words are white space, the words are not.
LEMMA Spaces == IsSpace(Blank) /\ ~IsSpace("/")
<1>1. "/" # Blank
    BY BlankIsOther
<1> QED BY <1>1 DEF IsSpace

\* One byte of the request line was got.
LEMMA LineByte ==
    ASSUME Typed, IsSeq(taken), Len(taken) < Len(script), NEW p \in 0..6,
           Left = Drop(Ahead(script, Len(taken)), p),
           gbuf # <<>>, GetChar, unsent' = unsent
    PROVE  /\ Head(gbuf) = Ahead(script, Len(taken))[p + 1]
           /\ Left' = Drop(Ahead(script, Len(taken)), p + 1)
<1>1. PICK a, q : a = Ahead(script, Len(taken)) /\ q = Left
    OBVIOUS
<1>2. a \in Seq(Char) /\ Len(a) \in Nat /\ 7 <= Len(a)
    BY <1>1, Where, LineBytes DEF Typed
<1>3. q # <<>> /\ q[1] = Head(gbuf) /\ Left' = Drop(q, 1)
    BY <1>1, Got DEF Typed
<1>4. p \in 0..Len(a) /\ q = Drop(a, p)
    BY <1>1, <1>2
<1>5. q[1] = a[p + 1] /\ Drop(q, 1) = Drop(a, p + 1)
    BY <1>2, <1>3, <1>4, NextByte
<1> QED BY <1>1, <1>3, <1>5

\* operator>> comes one byte further.
LEMMA ReadWordRead ==
    ASSUME Reader, IsSeq(taken), ReadWord
    PROVE  Reader'
<1>1. /\ UNCHANGED <<script, unsent, taken, req, need, pc>> /\ UNCHANGED output
      /\ pc \in {"method", "uri", "version"} /\ gbuf # <<>> /\ GetChar
      /\ IsSpace(Head(gbuf)) => cur = <<>>
      /\ cur' = IF IsSpace(Head(gbuf)) THEN cur ELSE Append(cur, Head(gbuf))
    BY DEF ReadWord, client
<1>2. Typed /\ OnTrack /\ script \in Scripts
    BY DEF Reader, Typed
<1>3. /\ ~eof /\ ~eof' /\ Left # <<>> /\ Left[1] = Head(gbuf) /\ Left \in Seq(Char)
      /\ InputOK'
    BY <1>1, <1>2, Got DEF Typed
<1>4. cur' \in Seq(Char)
  <2>1. Head(gbuf) \in Char /\ cur \in Seq(Char)
      BY <1>2, <1>3, FirstOne DEF Typed
  <2> QED BY <1>1, <2>1, AppendProperties
<1>5. OutputOK'
    BY <1>1, <1>2 DEF output, OutputOK, Typed
<1>6. Typed'
    BY <1>1, <1>2, <1>3, <1>4, <1>5 DEF Typed
<1>7. TakenSoFar'
    BY <1>1, KeepTaken
<1>8. PICK a, r, c : a = Ahead(script, Len(taken)) /\ r = Reading /\ c = Head(gbuf)
    OBVIOUS
<1>9. Len(taken) < Len(script)
  <2>1. CASE pc # "method"
      BY <1>1, <1>2, <2>1 DEF OnTrack
  <2>2. CASE pc = "method" /\ ~(Len(taken) < Len(script))
    <3>1. Left = Drop(a, 0)
        BY <1>2, <1>8, <2>2 DEF OnTrack, AtMethod, At
    <3>2. Len(taken) = Len(script)
        BY <1>2, <2>2, Where
    <3>3. a = <<>> /\ a \in Seq(Char)
        BY <1>2, <1>8, <3>2, Where
    <3>4. Drop(a, 0) = a
        BY <3>3, DropZero
    <3> QED BY <1>3, <3>1, <3>3, <3>4
  <2> QED BY <2>1, <2>2
<1>10. /\ a[1] = r.method /\ a[2] = Blank /\ a[3] = "/" /\ a[4] = Blank
       /\ a[5] = r.version /\ a[6] = "\r" /\ r \in Requests
  <2>1. Len(taken) \in 0..Len(script)
      BY <1>2, Where
  <2> QED BY <1>2, <1>8, <1>9, <2>1, LineBytes DEF Reading
<1>11. ~IsSpace(r.method) /\ ~IsSpace(r.version)
    BY <1>10, RequestFacts
<1>12. ASSUME NEW p \in 0..6, Left = Drop(a, p)
       PROVE  c = a[p + 1] /\ Left' = Drop(a, p + 1)
    BY <1>1, <1>2, <1>8, <1>9, <1>12, LineByte
<1>13. Reading' = Reading /\ Ahead(script, Len(taken))' = a
    BY <1>1, <1>8 DEF Reading
<1>14. Append(<<>>, c) = <<c>>
    OBVIOUS
<1>15. CASE pc = "method"
  <2>1. req = NewRequest /\ (At(0, <<>>) \/ At(1, <<r.method>>))
      BY <1>2, <1>8, <1>15 DEF OnTrack, AtMethod
  <2>2. CASE At(0, <<>>)
    <3>1. Left = Drop(a, 0) /\ cur = <<>>
        BY <1>8, <2>2 DEF At
    <3>2. c = a[0 + 1] /\ Left' = Drop(a, 0 + 1)
        BY <1>12, <3>1
    <3>3. c = r.method /\ Left' = Drop(a, 1)
        BY <1>10, <3>2
    <3>4. cur' = <<r.method>>
        BY <1>1, <1>8, <1>11, <1>14, <3>1, <3>3
    <3>5. AtMethod'
        BY <1>1, <1>8, <1>9, <1>13, <2>1, <3>3, <3>4 DEF AtMethod, At
    <3> QED BY <1>1, <1>6, <1>7, <1>15, <3>5 DEF OnTrack, Reader
  <2>3. CASE At(1, <<r.method>>)
    <3>1. Left = Drop(a, 1) /\ cur # <<>>
        BY <1>8, <2>3 DEF At
    <3>2. c = a[1 + 1]
        BY <1>12, <3>1
    <3> QED BY <1>1, <1>8, <1>10, <3>1, <3>2, Spaces
  <2> QED BY <2>1, <2>2, <2>3
<1>16. CASE pc = "uri"
  <2>1. /\ req = [NewRequest EXCEPT !.method = toRequestMethod(r.method)]
        /\ At(1, <<>>) \/ At(2, <<>>) \/ At(3, <<"/">>)
      BY <1>2, <1>8, <1>16 DEF OnTrack, AtUri
  <2>2. CASE At(1, <<>>)
    <3>1. Left = Drop(a, 1) /\ cur = <<>>
        BY <1>8, <2>2 DEF At
    <3>2. c = a[1 + 1] /\ Left' = Drop(a, 1 + 1)
        BY <1>12, <3>1
    <3>3. c = Blank /\ Left' = Drop(a, 2)
        BY <1>10, <3>2
    <3>4. cur' = <<>>
        BY <1>1, <1>8, <3>1, <3>3, Spaces
    <3>5. AtUri'
        BY <1>1, <1>8, <1>13, <2>1, <3>3, <3>4 DEF AtUri, At
    <3> QED BY <1>1, <1>6, <1>7, <1>9, <1>16, <3>5 DEF OnTrack, Reader
  <2>3. CASE At(2, <<>>)
    <3>1. Left = Drop(a, 2) /\ cur = <<>>
        BY <1>8, <2>3 DEF At
    <3>2. c = a[2 + 1] /\ Left' = Drop(a, 2 + 1)
        BY <1>12, <3>1
    <3>3. c = "/" /\ Left' = Drop(a, 3)
        BY <1>10, <3>2
    <3>4. cur' = <<"/">>
        BY <1>1, <1>8, <1>14, <3>1, <3>3, Spaces
    <3>5. AtUri'
        BY <1>1, <1>8, <1>13, <2>1, <3>3, <3>4 DEF AtUri, At
    <3> QED BY <1>1, <1>6, <1>7, <1>9, <1>16, <3>5 DEF OnTrack, Reader
  <2>4. CASE At(3, <<"/">>)
    <3>1. Left = Drop(a, 3) /\ cur # <<>>
        BY <1>8, <2>4 DEF At
    <3>2. c = a[3 + 1]
        BY <1>12, <3>1
    <3> QED BY <1>1, <1>8, <1>10, <3>1, <3>2, Spaces
  <2> QED BY <2>1, <2>2, <2>3, <2>4
<1>17. CASE pc = "version"
  <2>1. /\ req = [NewRequest EXCEPT !.method = toRequestMethod(r.method)]
        /\ At(3, <<>>) \/ At(4, <<>>) \/ At(5, <<r.version>>)
      BY <1>2, <1>8, <1>17 DEF OnTrack, AtVersion
  <2>2. CASE At(3, <<>>)
    <3>1. Left = Drop(a, 3) /\ cur = <<>>
        BY <1>8, <2>2 DEF At
    <3>2. c = a[3 + 1] /\ Left' = Drop(a, 3 + 1)
        BY <1>12, <3>1
    <3>3. c = Blank /\ Left' = Drop(a, 4)
        BY <1>10, <3>2
    <3>4. cur' = <<>>
        BY <1>1, <1>8, <3>1, <3>3, Spaces
    <3>5. AtVersion'
        BY <1>1, <1>8, <1>13, <2>1, <3>3, <3>4 DEF AtVersion, At
    <3> QED BY <1>1, <1>6, <1>7, <1>9, <1>17, <3>5 DEF OnTrack, Reader
  <2>3. CASE At(4, <<>>)
    <3>1. Left = Drop(a, 4) /\ cur = <<>>
        BY <1>8, <2>3 DEF At
    <3>2. c = a[4 + 1] /\ Left' = Drop(a, 4 + 1)
        BY <1>12, <3>1
    <3>3. c = r.version /\ Left' = Drop(a, 5)
        BY <1>10, <3>2
    <3>4. cur' = <<r.version>>
        BY <1>1, <1>8, <1>11, <1>14, <3>1, <3>3
    <3>5. AtVersion'
        BY <1>1, <1>8, <1>13, <2>1, <3>3, <3>4 DEF AtVersion, At
    <3> QED BY <1>1, <1>6, <1>7, <1>9, <1>17, <3>5 DEF OnTrack, Reader
  <2>4. CASE At(5, <<r.version>>)
    <3>1. Left = Drop(a, 5) /\ cur # <<>>
        BY <1>8, <2>4 DEF At
    <3>2. c = a[5 + 1]
        BY <1>12, <3>1
    <3>3. IsSpace("\r")
        BY DEF IsSpace
    <3> QED BY <1>1, <1>8, <1>10, <3>1, <3>2, <3>3
  <2> QED BY <2>1, <2>2, <2>3, <2>4
<1> QED BY <1>1, <1>15, <1>16, <1>17

\* A word is complete.
LEMMA ParseLineRead ==
    ASSUME Reader, IsSeq(taken), parseLine
    PROVE  Reader'
<1>1. /\ UNCHANGED <<script, taken, need>> /\ UNCHANGED output /\ UNCHANGED input
      /\ UNCHANGED client /\ cur # <<>> /\ cur' = <<>>
      /\ \/ /\ pc = "method" /\ pc' = "uri"
            /\ req' = [req EXCEPT !.method = toRequestMethod(Head(cur))]
         \/ pc = "uri" /\ pc' = "version" /\ req' = req
         \/ /\ pc = "version" /\ pc' = "cr"
            /\ req' = [req EXCEPT !.version = toHttpVersion(Head(cur))]
    BY DEF parseLine, WordRead, client
<1>2. Typed /\ OnTrack /\ script \in Scripts
    BY DEF Reader, Typed
<1>3. InputOK' /\ Left' = Left /\ eof' = eof
    BY <1>1, <1>2, SameInput DEF Typed
<1>4. OutputOK'
    BY <1>1, <1>2 DEF output, OutputOK, Typed
<1>5. Typed'
  <2>1. <<>> \in Seq(Char)
      OBVIOUS
  <2> QED BY <1>1, <1>2, <1>3, <1>4, <2>1 DEF Typed
<1>6. TakenSoFar'
    BY <1>1, KeepTaken
<1>7. Reading' = Reading /\ Ahead(script, Len(taken))' = Ahead(script, Len(taken))
    BY <1>1 DEF Reading
<1>8. PICK r : r = Reading
    OBVIOUS
<1>9. Head(<<r.method>>) = r.method /\ Head(<<r.version>>) = r.version
    OBVIOUS
<1>10. CASE pc = "method"
  <2>1. req = NewRequest /\ Len(taken) < Len(script) /\ At(1, <<r.method>>)
      BY <1>1, <1>2, <1>8, <1>10 DEF OnTrack, AtMethod, At
  <2>2. At(1, <<>>)' /\ req' = [NewRequest EXCEPT !.method = toRequestMethod(r.method)]
      BY <1>1, <1>3, <1>7, <1>9, <1>10, <2>1 DEF At
  <2>3. AtUri'
      BY <1>7, <1>8, <2>2 DEF AtUri
  <2> QED BY <1>1, <1>5, <1>6, <1>10, <2>1, <2>3 DEF OnTrack, Reader
<1>11. CASE pc = "uri"
  <2>1. /\ req = [NewRequest EXCEPT !.method = toRequestMethod(r.method)]
        /\ Len(taken) < Len(script) /\ At(3, <<"/">>)
      BY <1>1, <1>2, <1>8, <1>11 DEF OnTrack, AtUri, At
  <2>2. At(3, <<>>)' /\ req' = req
      BY <1>1, <1>3, <1>7, <1>11, <2>1 DEF At
  <2>3. AtVersion'
      BY <1>7, <1>8, <2>1, <2>2 DEF AtVersion
  <2> QED BY <1>1, <1>5, <1>6, <1>11, <2>1, <2>3 DEF OnTrack, Reader
<1>12. CASE pc = "version"
  <2>1. /\ req = [NewRequest EXCEPT !.method = toRequestMethod(r.method)]
        /\ Len(taken) < Len(script) /\ At(5, <<r.version>>)
      BY <1>1, <1>2, <1>8, <1>12 DEF OnTrack, AtVersion, At
  <2>2. At(5, <<>>)' /\ req' = [req EXCEPT !.version = toHttpVersion(r.version)]
      BY <1>1, <1>3, <1>7, <1>9, <1>12, <2>1 DEF At
  <2>3. r \in Requests
      BY <1>2, <1>8, <2>1, Where, LineBytes DEF Reading
  <2>4. PICK m, v, e : /\ m = toRequestMethod("") /\ v = toHttpVersion("")
                       /\ e = NewRequest.header
      OBVIOUS
  <2>a. NewRequest = [method |-> m, version |-> v, header |-> e, body |-> 0]
      BY <2>4 DEF NewRequest
  <2>5. Begun(r, 0, 0) = [method |-> toRequestMethod(r.method),
                          version |-> toHttpVersion(r.version), header |-> e, body |-> 0]
      BY <2>3, <2>4, NoHeader DEF Begun
  <2>6. req' = Begun(r, 0, 0)
    <3>1. PICK M, V : M = toRequestMethod(r.method) /\ V = toHttpVersion(r.version)
        OBVIOUS
    <3>2. req = [method |-> M, version |-> v, header |-> e, body |-> 0]
        BY <2>1, <2>a, <3>1
    <3>3. req' = [method |-> M, version |-> V, header |-> e, body |-> 0]
        BY <2>2, <3>1, <3>2
    <3> QED BY <2>5, <3>1, <3>3
  <2>7. AtTerminator'
      BY <1>1, <1>7, <1>8, <1>12, <2>2, <2>6 DEF AtTerminator
  <2> QED BY <1>1, <1>5, <1>6, <1>12, <2>1, <2>7 DEF OnTrack, Reader
<1> QED BY <1>1, <1>10, <1>11, <1>12

\* Behind the version are the two characters that skipTerminateCH expects.
LEMMA TerminatorRead ==
    ASSUME Reader, IsSeq(taken), skipTerminateCH
    PROVE  Reader'
<1>1. /\ UNCHANGED <<script, unsent, taken>> /\ UNCHANGED output /\ gbuf # <<>> /\ GetChar
      /\ pc \in {"cr", "lf"}
    BY DEF skipTerminateCH, client
<1>2. Typed /\ OnTrack /\ script \in Scripts /\ Len(taken) < Len(script)
    BY <1>1 DEF Reader, Typed, OnTrack
<1>3. Left' \in Seq(Char) /\ InputOK'
  <2>1. Left \in Seq(Char) /\ Left # <<>> /\ Left' = Drop(Left, 1) /\ InputOK'
      BY <1>1, <1>2, Got DEF Typed
  <2>2. PICK q : q = Left
      OBVIOUS
  <2>3. q \in Seq(Char) /\ 1 \in 0..Len(q)
      BY <2>1, <2>2, FirstOne
  <2>4. Drop(q, 1) \in Seq(Char)
      BY ONLY <2>3, DropFacts
  <2> QED BY <2>1, <2>2, <2>4
<1>4. OutputOK'
    BY <1>1, <1>2 DEF output, OutputOK, Typed
<1>5. PICK a, r, k : a = Ahead(script, Len(taken)) /\ r = Reading /\ k = Len(taken)
    OBVIOUS
<1>6. /\ a[6] = "\r" /\ a[7] = "\n" /\ r \in Requests
      /\ Drop(a, 7) = HeadText(r, 0) \o Ahead(script, k + 1)
  <2>1. k \in 0..Len(script)
      BY <1>2, <1>5, Where
  <2> QED BY <1>2, <1>5, <2>1, LineBytes DEF Reading
<1>7. ASSUME NEW p \in 0..6, Left = Drop(a, p)
      PROVE  Head(gbuf) = a[p + 1] /\ Left' = Drop(a, p + 1)
    BY <1>1, <1>2, <1>5, <1>7, LineByte
<1>8. Reading' = Reading /\ Ahead(script, Len(taken))' = a
    BY <1>1, <1>5 DEF Reading
<1>9. req = Begun(r, 0, 0) /\ cur = <<>>
    BY <1>1, <1>2, <1>5 DEF OnTrack, AtTerminator, At
<1>10. TakenSoFar'
    BY <1>1, KeepTaken
<1>11. CASE pc = "cr"
  <2>1. Left = Drop(a, 5)
      BY <1>2, <1>5, <1>11 DEF OnTrack, AtTerminator, At
  <2>2. Head(gbuf) = a[5 + 1] /\ Left' = Drop(a, 5 + 1)
      BY <1>7, <2>1
  <2>3. NextIs("\r") /\ Left' = Drop(a, 6)
      BY <1>1, <1>6, <2>2 DEF NextIs
  <2>4. pc' = "lf" /\ UNCHANGED <<req, cur, need>>
      BY <1>11, <2>3 DEF skipTerminateCH
  <2>5. AtTerminator'
      BY <1>5, <1>8, <1>9, <2>3, <2>4 DEF AtTerminator, At
  <2>6. Typed'
      BY <1>1, <1>2, <1>3, <1>4, <1>11, <2>4 DEF Typed
  <2>7. OnTrack'
      BY <1>1, <1>2, <2>4, <2>5 DEF OnTrack
  <2> QED BY <1>10, <2>6, <2>7 DEF Reader
<1>12. CASE pc = "lf"
  <2>1. Left = Drop(a, 6)
      BY <1>2, <1>5, <1>12 DEF OnTrack, AtTerminator, At
  <2>2. Head(gbuf) = a[6 + 1] /\ Left' = Drop(a, 6 + 1)
      BY <1>7, <2>1
  <2>3. NextIs("\n") /\ Left' = Drop(a, 7)
      BY <1>1, <1>6, <2>2 DEF NextIs
  <2>4. pc' = "head" /\ UNCHANGED <<req, cur, need>>
      BY <1>12, <2>3 DEF skipTerminateCH
  <2>5. AtHead'
    <3>1. <<>> \o Left' = Left'
        BY <1>3, ConcatEmptySeq
    <3>2. cur' \o Left' = HeadText(r, 0) \o Ahead(script, k + 1)
        BY <1>6, <1>9, <2>3, <2>4, <3>1
    <3>3. 0 \in 0..Len(r.fields)
        BY <1>6, RequestFacts
    <3>4. DOMAIN cur' = {}
        BY <1>9, <2>4
    <3>5. /\ Reading' = r /\ Ahead(script, Len(taken) + 1)' = Ahead(script, k + 1)
          /\ req' = Begun(r, 0, 0)
        BY <1>1, <1>5, <1>8, <1>9, <2>4
    <3> QED BY <3>2, <3>3, <3>4, <3>5 DEF AtHead
  <2>6. Typed'
      BY <1>1, <1>2, <1>3, <1>4, <1>12, <2>4 DEF Typed
  <2>7. OnTrack'
      BY <1>1, <1>2, <2>4, <2>5 DEF OnTrack
  <2> QED BY <1>10, <2>6, <2>7 DEF Reader
<1> QED BY <1>1, <1>11, <1>12

-----------------------------------------------------------------------------
(* The header *)

\* getline comes one byte further.
LEMMA ReadLineRead ==
    ASSUME Reader, IsSeq(taken), ReadLine
    PROVE  Reader'
<1>1. /\ UNCHANGED <<script, unsent, taken, req, need, pc>> /\ UNCHANGED output
      /\ pc = "head" /\ gbuf # <<>> /\ GetChar /\ Head(gbuf) # "\n"
      /\ cur' = Append(cur, Head(gbuf))
    BY DEF ReadLine, client, NextIs
<1>2. Typed /\ OnTrack /\ cur \in Seq(Char) /\ Len(taken) < Len(script)
    BY <1>1 DEF Reader, Typed, OnTrack
<1>3. PICK q, c, d : q = Left /\ c = cur /\ d = cur'
    OBVIOUS
<1>4. /\ ~eof /\ q \in Seq(Char) /\ q # <<>> /\ q[1] = Head(gbuf) /\ Left' = Drop(q, 1)
      /\ InputOK' /\ c \in Seq(Char)
    BY <1>1, <1>2, <1>3, Got DEF Typed
<1>5. /\ d \in Seq(Char) /\ d \o Drop(q, 1) = c \o q /\ Len(d) = Len(c) + 1
      /\ \A i \in 1..Len(c) : d[i] = c[i]
      /\ d[Len(c) + 1] = q[1]
  <2>1. d = Append(c, q[1])
      BY <1>1, <1>3, <1>4
  <2>2. c \in Seq(Char) /\ q \in Seq(Char) /\ q # <<>>
      BY <1>4
  <2> QED BY ONLY <2>1, <2>2, ShiftOne
<1>6. OutputOK'
    BY <1>1, <1>2 DEF output, OutputOK, Typed
<1>7. Typed'
    BY <1>1, <1>2, <1>3, <1>4, <1>5, <1>6 DEF Typed
<1>8. TakenSoFar'
    BY <1>1, KeepTaken
<1>9. PICK j \in 0..Len(Reading.fields) :
         /\ req = Begun(Reading, j, 0)
         /\ c \o q = HeadText(Reading, j) \o Ahead(script, Len(taken) + 1)
         /\ \A i \in DOMAIN c : c[i] # "\n"
    BY <1>1, <1>2, <1>3, <1>4 DEF OnTrack, AtHead
<1>10. ASSUME NEW i \in DOMAIN d PROVE d[i] # "\n"
  <2>1. DOMAIN c = 1..Len(c) /\ DOMAIN d = 1..Len(c) + 1 /\ Len(c) \in Nat
      BY <1>4, <1>5, LenProperties
  <2>2. i \in 1..Len(c) \/ i = Len(c) + 1
      BY <2>1
  <2> QED BY <1>1, <1>4, <1>5, <1>9, <2>1, <2>2
<1>11. AtHead'
  <2>1. Reading' = Reading /\ Ahead(script, Len(taken) + 1)' = Ahead(script, Len(taken) + 1)
      BY <1>1 DEF Reading
  <2>2. cur' \o Left' = HeadText(Reading, j) \o Ahead(script, Len(taken) + 1)
      BY <1>3, <1>4, <1>5, <1>9
  <2> QED BY <1>1, <1>3, <1>9, <1>10, <2>1, <2>2 DEF AtHead
<1>12. OnTrack'
    BY <1>1, <1>2, <1>11 DEF OnTrack
<1> QED BY <1>7, <1>8, <1>12 DEF Reader

\* A header field and the line that ends the header have one '\n', at their end.
LEMMA OneLine ==
    ASSUME NEW r \in Requests, NEW n \in 1..Len(r.fields)
    PROVE  LET t == FieldText(r.fields[n]) IN
           /\ t \in Seq(Char) /\ Len(t) \in Nat /\ Len(t) # 0 /\ t[Len(t)] = "\n"
           /\ \A i \in 1..Len(t) - 1 : t[i] # "\n"
<1>1. PICK t, k, v : /\ t = FieldText(r.fields[n])
                     /\ k = Len(r.fields[n][1]) /\ v = Len(r.fields[n][2])
    OBVIOUS
<1>2. /\ k \in Nat /\ v \in Nat /\ t \in Seq(Char) /\ Len(t) = k + v + 4
      /\ \A i \in 1..k : t[i] # "\n"
      /\ t[k + 1] = ":" /\ t[k + 2] = Blank
      /\ \A i \in 1..v : t[k + 2 + i] # "\n"
      /\ t[k + v + 3] = "\r" /\ t[k + v + 4] = "\n"
    BY <1>1, FieldTextFacts
<1>3. ASSUME NEW i \in 1..k + v + 3 PROVE t[i] # "\n"
  <2>1. \/ i \in 1..k \/ i = k + 1 \/ i = k + 2 \/ i = k + v + 3
        \/ i - (k + 2) \in 1..v /\ (k + 2) + (i - (k + 2)) = i
      BY <1>2
  <2>2. CASE i - (k + 2) \in 1..v /\ (k + 2) + (i - (k + 2)) = i
    <3>1. PICK m : m = i - (k + 2)
        OBVIOUS
    <3>2. t[k + 2 + m] # "\n" /\ k + 2 + m = i
        BY <1>2, <2>2, <3>1
    <3> QED BY <3>2
  <2>3. ":" # "\n" /\ "\r" # "\n"
      OBVIOUS
  <2> QED BY <1>2, <2>1, <2>2, <2>3, BlankIsOther
<1>4. (k + v + 4) - 1 = k + v + 3 /\ k + v + 4 \in Nat /\ k + v + 4 # 0
    BY <1>2
<1>5. /\ Len(t) \in Nat /\ Len(t) # 0 /\ t[Len(t)] = "\n"
      /\ \A i \in 1..Len(t) - 1 : t[i] # "\n"
    BY <1>2, <1>3, <1>4
<1> QED BY <1>1, <1>2, <1>5

\* getline has read a whole line: the next header field, or the blank line.
LEMMA LineRead ==
    ASSUME Reader, IsSeq(taken), pc = "head", NextIs("\n"), GetChar, HeaderLine(cur),
           UNCHANGED <<output, client, taken, put>>
    PROVE  Reader'
<1>1. /\ UNCHANGED <<script, unsent, taken>> /\ UNCHANGED output
      /\ gbuf # <<>> /\ Head(gbuf) = "\n"
    BY DEF client, NextIs
<1>2. /\ Typed /\ OnTrack /\ cur \in Seq(Char) /\ Len(taken) < Len(script)
      /\ script \in Scripts /\ need = 0
    BY DEF Reader, Typed, OnTrack
<1>3. PICK q, c, k, r : q = Left /\ c = cur /\ k = Len(taken) /\ r = Reading
    OBVIOUS
<1>4. /\ ~eof /\ q \in Seq(Char) /\ q # <<>> /\ q[1] = "\n" /\ Left' = Drop(q, 1)
      /\ InputOK' /\ c \in Seq(Char)
    BY <1>1, <1>2, <1>3, Got DEF Typed
<1>5. OutputOK'
    BY <1>1, <1>2 DEF output, OutputOK, Typed
<1>6. PICK A : A = Ahead(script, k + 1)
    OBVIOUS
<1>7. k \in Nat /\ r \in Requests /\ A \in Seq(Char)
  <2>1. k \in 0..Len(script) /\ k \in Nat /\ Len(script) \in Nat
      BY <1>2, <1>3, Where
  <2>2. k + 1 \in 0..Len(script)
      BY <1>2, <1>3, <2>1
  <2>3. A \in Seq(Char)
      BY <1>2, <1>6, <2>2, AheadFacts
  <2> QED BY <1>2, <1>3, <2>1, <2>3, LineBytes DEF Reading
<1>8. PICK j \in 0..Len(r.fields) :
         /\ req = Begun(r, j, 0)
         /\ c \o q = HeadText(r, j) \o A
         /\ \A i \in DOMAIN c : c[i] # "\n"
    BY <1>2, <1>3, <1>4, <1>6 DEF OnTrack, AtHead
<1>9. \A i \in 1..Len(c) : c[i] # "\n"
    BY <1>4, <1>8, LenProperties
<1>10. Reading' = r /\ Ahead(script, Len(taken) + 1)' = A
    BY <1>1, <1>3, <1>6 DEF Reading
<1>11. TakenSoFar'
    BY <1>1, KeepTaken
<1>12. Len(r.fields) \in Nat
    BY <1>7, RequestFacts
<1>13. CASE j < Len(r.fields)
  <2>1. PICK n, t, h, y : /\ n = j + 1 /\ t = FieldText(r.fields[n])
                          /\ h = HeadText(r, n) /\ y = h \o A
      OBVIOUS
  <2>2. n \in 1..Len(r.fields) /\ n \in 0..Len(r.fields) /\ j \in 0..Len(r.fields) - 1
      BY <1>12, <1>13, <2>1
  <2>3. /\ t \in Seq(Char) /\ Len(t) \in Nat /\ Len(t) # 0 /\ t[Len(t)] = "\n"
        /\ \A i \in 1..Len(t) - 1 : t[i] # "\n"
      BY <1>7, <2>1, <2>2, OneLine
  <2>4. h \in Seq(Char)
      BY <1>7, <2>1, <2>2, HeadTextFacts
  <2>5. y \in Seq(Char)
      BY <1>7, <2>1, <2>4, ConcatProperties
  <2>6. HeadText(r, j) = t \o h
      BY <1>7, <1>13, <2>1, HeadTextFacts
  <2>7. (t \o h) \o A = t \o (h \o A)
    <3>1. t \in Seq(Char) /\ h \in Seq(Char) /\ A \in Seq(Char)
        BY <1>7, <2>3, <2>4
    <3> QED BY ONLY <3>1, SMTT(30)
  <2>8. c \o q = t \o y
      BY <1>8, <2>1, <2>6, <2>7
  <2>9. /\ Len(c) = Len(t) - 1 /\ \A i \in 1..Len(c) : c[i] = t[i]
        /\ Drop(q, 1) = y
    <3>1. AtNewline(c, q, t, y)
        BY <1>4, <1>9, <2>3, <2>5, <2>8 DEF AtNewline
    <3> QED BY ONLY <3>1, WholeLine
  <2>10. /\ Len(c) # 1 /\ Colon(c) # 0 /\ Colon(c) # Len(c)
         /\ SubSeq(c, 1, Colon(c) - 1) = r.fields[n][1]
         /\ Value(c) = r.fields[n][2]
      BY <1>4, <1>7, <2>1, <2>2, <2>9, LineFacts
  <2>11. /\ req' = setHeader(req, SubSeq(c, 1, Colon(c) - 1), Value(c))
         /\ cur' = <<>> /\ UNCHANGED <<pc, need>>
      BY <1>3, <2>10 DEF HeaderLine
  <2>12. req' = Begun(r, n, 0)
      BY <1>7, <1>8, <2>1, <2>2, <2>10, <2>11, NextHeader
  <2>13. <<>> \in Seq(Char) /\ <<>> \o y = y /\ DOMAIN <<>> = {}
      BY <2>5, ConcatEmptySeq
  <2>14. cur' \o Left' = HeadText(r, n) \o A
      BY <1>4, <2>1, <2>9, <2>11, <2>13
  <2>15. AtHead'
      BY <1>10, <2>2, <2>11, <2>12, <2>13, <2>14 DEF AtHead
  <2>16. Typed'
      BY <1>1, <1>2, <1>4, <1>5, <2>11, <2>13 DEF Typed
  <2>17. OnTrack'
      BY <1>1, <1>2, <2>11, <2>15 DEF OnTrack
  <2> QED BY <1>11, <2>16, <2>17 DEF Reader
<1>14. CASE j = Len(r.fields)
  <2>1. PICK t, b, y, L : /\ t = <<"\r", "\n">> /\ b = Body(r) /\ y = b \o A
                          /\ L = requestBodyLength(HeaderOf(r.fields))
      OBVIOUS
  <2>2. b \in Seq(Char) /\ HeadText(r, j) = t \o b
      BY <1>7, <1>14, <2>1, HeadTextFacts
  <2>3. t \in Seq(Char) /\ Len(t) = 2 /\ t[1] = "\r" /\ t[2] = "\n"
      BY <2>1, Literals
  <2>4. Len(t) # 0 /\ t[Len(t)] = "\n" /\ \A i \in 1..Len(t) - 1 : t[i] # "\n"
      BY <2>3
  <2>5. y \in Seq(Char)
      BY <1>7, <2>1, <2>2, ConcatProperties
  <2>6. (t \o b) \o A = t \o (b \o A)
    <3>1. t \in Seq(Char) /\ b \in Seq(Char) /\ A \in Seq(Char)
        BY <1>7, <2>2, <2>3
    <3> QED BY ONLY <3>1, SMTT(30)
  <2>7. c \o q = t \o y
      BY <1>8, <2>1, <2>2, <2>6
  <2>8. Len(c) = Len(t) - 1 /\ Drop(q, 1) = y
    <3>1. AtNewline(c, q, t, y)
        BY <1>4, <1>9, <2>3, <2>4, <2>5, <2>7 DEF AtNewline
    <3> QED BY ONLY <3>1, WholeLine
  <2>9. Len(c) = 1
      BY <2>3, <2>8
  <2>10. /\ pc' = "body" /\ need' = requestBodyLength(req.header)
         /\ cur' = <<>> /\ req' = req
      BY <1>3, <2>9 DEF HeaderLine
  <2>11. req.header = HeaderOf(r.fields)
      BY <1>7, <1>8, <1>14, AllFields DEF Begun
  <2>12. L \in 0..2
      BY <1>7, <1>8, <1>14, <2>1, AllFields, BodyLength
  <2>13. b = [i \in 1..need' |-> "b"] /\ need' = L - 0 /\ 0 \in 0..L
      BY <2>1, <2>10, <2>11, <2>12 DEF Body
  <2>14. Left' = [i \in 1..need' |-> "b"] \o A
      BY <1>4, <2>1, <2>8, <2>13
  <2>15. req' = Begun(r, Len(r.fields), 0)
      BY <1>8, <1>14, <2>10
  <2>16. AtBody'
      BY <1>10, <2>1, <2>10, <2>13, <2>14, <2>15 DEF AtBody
  <2>17. Typed'
    <3>1. <<>> \in Seq(Char)
        OBVIOUS
    <3> QED BY <1>1, <1>2, <1>4, <1>5, <2>10, <3>1 DEF Typed
  <2>18. OnTrack'
      BY <1>1, <1>2, <2>10, <2>16 DEF OnTrack
  <2> QED BY <1>11, <2>17, <2>18 DEF Reader
<1> QED BY <1>12, <1>13, <1>14

\* The input has ended within a line.
LEMMA CutLineRead ==
    ASSUME Reader, IsSeq(taken), pc = "head", eof, cur # <<>>, HeaderLine(cur),
           UNCHANGED input, UNCHANGED <<output, client, taken, put>>
    PROVE  Reader'
<1>1. UNCHANGED <<script, taken>> /\ UNCHANGED output /\ UNCHANGED client
    BY DEF client
<1>2. /\ Typed /\ OnTrack /\ cur \in Seq(Char) /\ Len(taken) < Len(script)
      /\ script \in Scripts /\ need = 0
    BY DEF Reader, Typed, OnTrack
<1>3. InputOK' /\ eof' = eof
    BY <1>1, <1>2, SameInput DEF Typed
<1>4. OutputOK'
    BY <1>1, <1>2 DEF output, OutputOK, Typed
<1>5. TakenSoFar'
    BY <1>1, KeepTaken
<1>6. <<>> \in Seq(Char)
    OBVIOUS
<1>7. PICK r : r = Reading
    OBVIOUS
<1>8. Reading' = r
    BY <1>1, <1>7 DEF Reading
<1>9. r \in Requests
    BY <1>2, <1>7, Where, LineBytes DEF Reading
<1>10. Len(r.fields) \in Nat /\ DOMAIN r.fields = 1..Len(r.fields)
    BY <1>9, RequestFacts
<1>11. CASE Len(cur) = 1
  <2>1. /\ pc' = "body" /\ need' = requestBodyLength(req.header)
        /\ cur' = <<>> /\ req' = req
      BY <1>11 DEF HeaderLine
  <2>2. PICK j \in 0..Len(r.fields) : req = Begun(r, j, 0)
      BY <1>2, <1>7 DEF OnTrack, AtHead
  <2>3. ASSUME j < Len(r.fields) PROVE AtBody'
    <3>1. PICK n : n = j + 1
        OBVIOUS
    <3>2. n \in DOMAIN r.fields /\ n - 1 = j
        BY <1>10, <2>3, <3>1
    <3>3. \E m \in DOMAIN r.fields : req' = Begun(r, m - 1, 0)
        BY <2>1, <2>2, <3>2
    <3>4. need' = requestBodyLength(req'.header)
        BY <2>1
    <3> QED BY <1>3, <1>8, <2>1, <3>3, <3>4 DEF AtBody
  <2>4. ASSUME j = Len(r.fields) PROVE AtBody'
    <3>1. PICK L : L = requestBodyLength(HeaderOf(r.fields))
        OBVIOUS
    <3>2. L \in 0..2
        BY <1>9, <2>2, <2>4, <3>1, AllFields, BodyLength
    <3>3. req.header = HeaderOf(r.fields)
        BY <1>9, <2>2, <2>4, AllFields DEF Begun
    <3>4. 0 \in 0..L /\ need' = L - 0 /\ req' = Begun(r, Len(r.fields), 0)
        BY <2>1, <2>2, <2>4, <3>1, <3>2, <3>3
    <3> QED BY <1>3, <1>8, <2>1, <3>1, <3>4 DEF AtBody
  <2>5. AtBody'
      BY <1>10, <2>3, <2>4
  <2>6. Typed' /\ OnTrack'
      BY <1>1, <1>2, <1>3, <1>4, <1>6, <2>1, <2>5 DEF Typed, OnTrack
  <2> QED BY <1>5, <2>6 DEF Reader
<1>12. CASE Len(cur) # 1 /\ Colon(cur) = 0
    BY <1>12, ErrorRead DEF HeaderLine
<1>13. CASE Len(cur) # 1 /\ Colon(cur) # 0 /\ Colon(cur) = Len(cur)
  <2>1. pc' = "terminated" /\ UNCHANGED <<req, cur, need>>
      BY <1>13 DEF HeaderLine
  <2>2. Typed' /\ OnTrack'
      BY <1>1, <1>2, <1>3, <1>4, <2>1 DEF Typed, OnTrack
  <2> QED BY <1>5, <2>2 DEF Reader
<1>14. CASE Len(cur) # 1 /\ Colon(cur) # 0 /\ Colon(cur) # Len(cur)
  <2>1. cur' = <<>> /\ UNCHANGED <<pc, need>>
      BY <1>14 DEF HeaderLine
  <2>2. AtHead'
      BY <1>3, <2>1 DEF AtHead
  <2>3. Typed' /\ OnTrack'
      BY <1>1, <1>2, <1>3, <1>4, <1>6, <2>1, <2>2 DEF Typed, OnTrack
  <2> QED BY <1>5, <2>3 DEF Reader
<1> QED BY <1>11, <1>12, <1>13, <1>14

\* parseHead, with a line that is complete or cut off
LEMMA ParseHeadRead ==
    ASSUME Reader, IsSeq(taken), parseHead
    PROVE  Reader'
    BY LineRead, CutLineRead DEF parseHead

-----------------------------------------------------------------------------
(* The body, and the whole *)

\* n bytes of a body of m are taken.
LEMMA BodyBytes ==
    ASSUME NEW m \in Nat, NEW n \in 0..m, NEW y \in Seq(Char)
    PROVE  Drop([i \in 1..m |-> "b"] \o y, n) = [i \in 1..m - n |-> "b"] \o y
<1>1. PICK a, b, c : /\ a = [i \in 1..m |-> "b"] /\ b = [i \in 1..m - n |-> "b"]
                     /\ c = Drop(a, n)
    OBVIOUS
<1>2. m - n \in Nat
    OBVIOUS
<1>3. a \in Seq(Char) /\ Len(a) = m /\ b \in Seq(Char) /\ Len(b) = m - n
    BY <1>1, <1>2, Literals
<1>4. n \in 0..Len(a)
    BY <1>3
<1>5. c \in Seq(Char) /\ Len(c) = Len(a) - n /\ \A i \in 1..Len(a) - n : c[i] = a[n + i]
  <2>1. a \in Seq(Char)
      BY <1>3
  <2> QED BY ONLY <1>1, <1>4, <2>1, DropFacts
<1>6. ASSUME NEW i \in 1..m - n PROVE c[i] = b[i]
  <2>1. n + i \in 1..m
      OBVIOUS
  <2>2. a[n + i] = "b" /\ b[i] = "b"
      BY <1>1, <2>1
  <2> QED BY <1>3, <1>5, <2>2
<1>7. c = b
  <2>1. Len(c) = Len(b) /\ \A i \in 1..Len(c) : c[i] = b[i]
      BY <1>3, <1>5, <1>6
  <2>2. c \in Seq(Char) /\ b \in Seq(Char)
      BY <1>3, <1>5
  <2> QED BY ONLY <2>1, <2>2, SameSeq
<1>8. Drop(a, n) \o y = Drop(a \o y, n)
  <2>1. a \in Seq(Char) /\ y \in Seq(Char)
      BY <1>3
  <2> QED BY ONLY <1>4, <2>1, DropCat
<1> QED BY <1>1, <1>7, <1>8

\* A request is accepted: the one the client sent next, or, where the input ended one
\* byte into a header line, what was read of it.
LEMMA AcceptRead ==
    ASSUME Reader, IsSeq(taken), pc = "body", need = 0, Accept(req),
           UNCHANGED input, UNCHANGED <<cur, req, need>>, UNCHANGED <<output, client>>
    PROVE  Reader'
<1>1. UNCHANGED <<script>> /\ UNCHANGED output /\ UNCHANGED client /\ pc' = "write"
    BY DEF client, Accept
<1>2. /\ Typed /\ OnTrack /\ cur = <<>> /\ Len(taken) < Len(script)
      /\ script \in Scripts /\ AtBody
    BY DEF Reader, Typed, OnTrack, AtBody
<1>3. InputOK' /\ eof' = eof /\ Left' = Left
    BY <1>1, <1>2, SameInput DEF Typed
<1>4. OutputOK'
    BY <1>1, <1>2 DEF output, OutputOK, Typed
<1>5. PICK len : taken' = Append(taken, [request |-> req, len |-> len])
    BY DEF Accept
<1>6. PICK r, k, A : r = Reading /\ k = Len(taken) /\ A = Ahead(script, Len(taken) + 1)
    OBVIOUS
<1>7. /\ k \in Nat /\ Len(taken') = k + 1 /\ DOMAIN taken = 1..k /\ DOMAIN taken' = 1..k + 1
      /\ taken'[k + 1] = [request |-> req, len |-> len]
      /\ \A i \in 1..k : taken'[i] = taken[i]
    BY <1>5, <1>6, GrowSeq
<1>8. r \in Requests /\ Len(script) \in Nat /\ A \in Seq(Char) /\ r = script[k + 1]
  <2>1. k \in 0..Len(script) /\ k + 1 \in 0..Len(script) /\ Len(script) \in Nat
      BY <1>2, <1>6, Where
  <2>2. A \in Seq(Char)
      BY <1>2, <1>6, <2>1, AheadFacts
  <2> QED BY <1>2, <1>6, <2>1, <2>2, LineBytes DEF Reading
<1>9. Typed'
  <2>1. k + 1 <= Len(script)
      BY <1>2, <1>6, <1>7, <1>8
  <2> QED BY <1>1, <1>2, <1>3, <1>4, <1>7, <2>1 DEF Typed
<1>10. PICK L : L = requestBodyLength(HeaderOf(r.fields))
    OBVIOUS
<1>11. L \in Nat
  <2>1. Len(r.fields) \in 0..Len(r.fields)
      BY <1>8, RequestFacts
  <2>2. L \in 0..2
      BY <1>8, <1>10, <2>1, AllFields, BodyLength
  <2> QED BY <2>2
<1>12. ASSUME NEW b \in 0..L, req = Begun(r, Len(r.fields), b), 0 = L - b
       PROVE  req = Parsed(r)
  <2>1. b = L
      BY <1>11, <1>12
  <2> QED BY <1>8, <1>10, <1>12, <2>1, AllFields DEF Begun, Parsed
<1>13. /\ eof \/ Left = [i \in 1..0 |-> "b"] \o A
       /\ \/ req = Parsed(r)
          \/ eof /\ \E n \in DOMAIN r.fields : req = Begun(r, n - 1, 0)
    BY <1>2, <1>6, <1>10, <1>12 DEF AtBody
<1>14. [i \in 1..0 |-> "b"] \o A = A
  <2>1. [i \in 1..0 |-> "b"] = <<>>
      OBVIOUS
  <2>2. <<>> \o A = A
      BY <1>8, ConcatEmptySeq
  <2> QED BY <2>1, <2>2
<1>15. eof' \/ Left' = Ahead(script', Len(taken'))
    BY <1>1, <1>3, <1>6, <1>7, <1>13, <1>14
<1>16. OnTrack'
    BY <1>1, <1>2, <1>15 DEF OnTrack
<1>17. ASSUME NEW i \in DOMAIN taken'
       PROVE  \/ taken'[i].request = Parsed(script[i])
              \/ /\ i = Len(taken') /\ eof'
                 /\ \E n \in DOMAIN script[i].fields :
                       taken'[i].request = Begun(script[i], n - 1, 0)
  <2>1. CASE i \in 1..k
    <3>1. taken'[i] = taken[i] /\ i \in DOMAIN taken
        BY <1>7, <2>1
    <3>2. taken[i].request = Parsed(script[i])
        BY <3>1 DEF Reader, TakenSoFar
    <3> QED BY <3>1, <3>2
  <2>2. CASE i = k + 1
    <3>1. taken'[i].request = req /\ script[i] = r /\ i = Len(taken')
        BY <1>7, <1>8, <2>2
    <3> QED BY <1>3, <1>13, <3>1
  <2> QED BY <1>7, <2>1, <2>2
<1>18. TakenSoFar'
    BY <1>1, <1>17 DEF TakenSoFar
<1> QED BY <1>9, <1>16, <1>18 DEF Reader

\* What parseBody has to wait for is what Content-Length says, so at most what stoul
\* can return.
LEMMA NeedBound ==
    ASSUME Reader, IsSeq(taken)
    PROVE  need \in 0..2
<1>1. CASE pc # "body"
    BY <1>1 DEF Reader, Typed
<1>2. CASE pc = "body"
  <2>1. AtBody /\ Typed /\ Len(taken) < Len(script) /\ script \in Scripts
      BY <1>2 DEF Reader, OnTrack, Typed
  <2>2. PICK r : r = Reading
      OBVIOUS
  <2>3. r \in Requests
      BY <2>1, <2>2, Where, LineBytes DEF Reading
  <2>4. PICK L : L = requestBodyLength(HeaderOf(r.fields))
      OBVIOUS
  <2>5. L \in 0..2
    <3>1. Len(r.fields) \in 0..Len(r.fields)
        BY <2>3, RequestFacts
    <3> QED BY <2>3, <2>4, <3>1, AllFields, BodyLength
  <2>6. CASE \E b \in 0..L : need = L - b
      BY <2>5, <2>6
  <2>7. CASE \E m \in DOMAIN r.fields : /\ req = Begun(r, m - 1, 0)
                                        /\ need = requestBodyLength(req.header)
    <3>1. PICK m \in DOMAIN r.fields : /\ req = Begun(r, m - 1, 0)
                                      /\ need = requestBodyLength(req.header)
        BY <2>7
    <3>2. PICK j : j = m - 1
        OBVIOUS
    <3>3. j \in 0..Len(r.fields)
        BY <2>3, <3>2, RequestFacts
    <3>4. need = requestBodyLength(HeaderOf(SubSeq(r.fields, 1, j)))
        BY <3>1, <3>2 DEF Begun
    <3> QED BY <2>3, <3>3, <3>4, BodyLength
  <2> QED BY <2>1, <2>2, <2>4, <2>6, <2>7 DEF AtBody
<1> QED BY <1>1, <1>2

\* readsome takes what is buffered.
LEMMA ReadsomeRead ==
    ASSUME Reader, IsSeq(taken), pc = "body", NEW n, n = MinOf(need, Len(gbuf)), n > 0,
           gbuf' = SubSeq(gbuf, n + 1, Len(gbuf)),
           req' = [req EXCEPT !.body = @ + n], need' = need - n,
           UNCHANGED <<arrived, eof, cur, taken, pc, put>>, UNCHANGED <<output, client>>
    PROVE  Reader'
<1>1. /\ UNCHANGED <<script, unsent, arrived, eof, cur, taken, pc>> /\ UNCHANGED output
      /\ gbuf' = Drop(gbuf, n)
    BY DEF client, Drop
<1>2. /\ Typed /\ OnTrack /\ cur = <<>> /\ Len(taken) < Len(script)
      /\ script \in Scripts /\ AtBody /\ InputOK
    BY DEF Reader, Typed, OnTrack, AtBody
<1>3. PICK r, A : r = Reading /\ A = Ahead(script, Len(taken) + 1)
    OBVIOUS
<1>4. r \in Requests /\ A \in Seq(Char)
  <2>1. Len(taken) \in 0..Len(script) /\ Len(taken) + 1 \in 0..Len(script)
      BY <1>2, Where
  <2>2. A \in Seq(Char)
      BY <1>2, <1>3, <2>1, AheadFacts
  <2> QED BY <1>2, <1>3, <2>1, <2>2, LineBytes DEF Reading
<1>5. PICK L : L = requestBodyLength(HeaderOf(r.fields))
    OBVIOUS
<1>6. Len(r.fields) \in 0..Len(r.fields) /\ L \in Nat
  <2>1. Len(r.fields) \in 0..Len(r.fields)
      BY <1>4, RequestFacts
  <2>2. L \in 0..2
      BY <1>4, <1>5, <2>1, AllFields, BodyLength
  <2> QED BY <2>1, <2>2
<1>7. need \in Nat
    BY NeedBound
<1>8. gbuf \in Seq(Char) /\ Len(gbuf) \in Nat
    BY <1>2 DEF InputOK
<1>9. n \in 0..Len(gbuf) /\ n \in 0..need /\ gbuf # <<>>
    BY <1>7, <1>8 DEF MinOf
<1>10. ~eof
    BY <1>2, <1>9 DEF InputOK
<1>11. Left' = Drop(Left, n) /\ InputOK'
    BY <1>1, <1>2, <1>9, Took
<1>12. PICK b \in 0..L : /\ req = Begun(r, Len(r.fields), b) /\ need = L - b
                         /\ Left = [i \in 1..need |-> "b"] \o A
    BY <1>2, <1>3, <1>5, <1>10 DEF AtBody
<1>13. Left' = [i \in 1..need - n |-> "b"] \o A
  <2>1. Drop([i \in 1..need |-> "b"] \o A, n) = [i \in 1..need - n |-> "b"] \o A
      BY <1>4, <1>7, <1>9, BodyBytes
  <2> QED BY <1>11, <1>12, <2>1
<1>14. b + n \in 0..L /\ need' = L - (b + n)
    BY <1>6, <1>7, <1>9, <1>12
<1>15. req' = Begun(r, Len(r.fields), b + n)
    BY <1>12 DEF Begun
<1>16. Reading' = r /\ Ahead(script, Len(taken) + 1)' = A
    BY <1>1, <1>3 DEF Reading
<1>17. AtBody'
  <2>1. cur' = <<>> /\ Left' = [i \in 1..need' |-> "b"] \o A
      BY <1>1, <1>2, <1>13
  <2> QED BY <1>5, <1>14, <1>15, <1>16, <2>1 DEF AtBody
<1>18. OutputOK'
    BY <1>1, <1>2 DEF output, OutputOK, Typed
<1>19. Typed'
    BY <1>1, <1>2, <1>11, <1>18 DEF Typed
<1>20. OnTrack'
    BY <1>1, <1>2, <1>17 DEF OnTrack
<1>21. TakenSoFar'
    BY <1>1, KeepTaken
<1> QED BY <1>19, <1>20, <1>21 DEF Reader

\* parseBody: the body is complete, has grown, or will never be complete.
LEMMA ParseBodyRead ==
    ASSUME Reader, IsSeq(taken), parseBody
    PROVE  Reader'
<1>1. PICK n : n = MinOf(need, Len(gbuf))
    OBVIOUS
<1>2. pc = "body" /\ UNCHANGED <<output, client>>
    BY DEF parseBody
<1>3. CASE /\ need = 0 /\ Accept(req) /\ UNCHANGED <<input, cur, req, need>>
    BY <1>2, <1>3, AcceptRead
<1>4. CASE /\ n > 0 /\ gbuf' = SubSeq(gbuf, n + 1, Len(gbuf))
           /\ req' = [req EXCEPT !.body = @ + n] /\ need' = need - n
           /\ UNCHANGED <<arrived, eof, cur, taken, pc, put>>
    BY <1>1, <1>2, <1>4, ReadsomeRead
<1>5. CASE eof /\ Error /\ UNCHANGED <<input, taken, put>>
    BY <1>2, <1>5, ErrorRead
<1> QED BY <1>1, <1>3, <1>4, <1>5 DEF parseBody

\* Every step of the connection keeps the reader on its track.
LEMMA NextRead ==
    ASSUME Reader, IsSeq(taken), [Next]_vars
    PROVE  Reader'
<1>1. CASE Arrive
    BY <1>1, ArriveRead
<1>2. CASE handle
    BY <1>2, HandleRead
<1>3. CASE Receive
    BY <1>3, ReceiveRead
<1>4. CASE ReadWord
    BY <1>4, ReadWordRead
<1>5. CASE parseLine
    BY <1>5, ParseLineRead
<1>6. CASE InputEnds
    BY <1>6, InputEndsRead
<1>7. CASE skipTerminateCH
    BY <1>7, TerminatorRead
<1>8. CASE ReadLine
    BY <1>8, ReadLineRead
<1>9. CASE parseHead
    BY <1>9, ParseHeadRead
<1>10. CASE parseBody
    BY <1>10, ParseBodyRead
<1>11. CASE response
    BY <1>11, ResponseRead
<1>12. CASE Write \/ responseFlush \/ Transmit \/ delEvent \/ handled \/ UNCHANGED vars
    BY <1>12, AnswerRead
<1> QED BY <1>1, <1>2, <1>3, <1>4, <1>5, <1>6, <1>7, <1>8, <1>9, <1>10, <1>11, <1>12
        DEF Next, Handler

\* At the beginning everything is ahead.
LEMMA InitRead == Init => Reader
<1> SUFFICES ASSUME Init PROVE Reader
    OBVIOUS
<1>1. /\ script \in Scripts /\ arrived = <<>> /\ gbuf = <<>> /\ eof = FALSE /\ bad = FALSE
      /\ unsent = FlattenSeq([i \in DOMAIN script |-> Text(script[i])])
      /\ caller = "none" /\ pc = "idle" /\ cur = <<>> /\ req = NewRequest /\ need = 0
      /\ taken = <<>>
    BY DEF Init
<1>2. Len(taken) = 0 /\ DOMAIN taken = {} /\ <<>> \in Seq(Char) /\ Len(gbuf) = 0
    BY <1>1
<1>3. PICK a : a = Ahead(script, 0)
    OBVIOUS
<1>4. a \in Seq(Char) /\ unsent = a /\ Len(script) \in Nat
  <2>1. Len(script) \in Nat /\ 0 \in 0..Len(script)
      BY <1>1, AheadFacts, ScriptAssumption, LenProperties
  <2> QED BY <1>1, <1>3, <2>1, AheadFacts, AllAhead
<1>5. Left = a
  <2>1. <<>> \o a = a
      BY <1>4, ConcatEmptySeq
  <2> QED BY <1>1, <1>4, <2>1 DEF Left
<1>6. Drop(a, 0) = a
    BY <1>4, DropZero
<1>7. AtMethod
    BY <1>1, <1>2, <1>3, <1>5, <1>6 DEF AtMethod, At
<1>8. OnTrack
    BY <1>1, <1>7 DEF OnTrack
<1>9. TakenSoFar
    BY <1>2 DEF TakenSoFar
<1>10. InputOK /\ OutputOK
  <2>1. 0 <= BFSIZE
      BY StreamAssumption
  <2>2. gbuf \in Seq(Char) /\ arrived \in Seq(Char) /\ unsent \in Seq(Char)
      BY <1>1, <1>2, <1>4
  <2>3. Len(gbuf) <= BFSIZE
      BY <1>2, <2>1
  <2> QED BY <1>1, <2>2, <2>3 DEF InputOK, OutputOK
<1>11. Typed
    BY <1>1, <1>2, <1>4, <1>10 DEF Typed
<1> QED BY <1>8, <1>9, <1>11 DEF Reader

-----------------------------------------------------------------------------
\* HttpRequestAnalyser is where it believes to be: what it has yet to read is the rest of
\* the request that follows the last one taken, from the place that pc stands for,
\* however the bytes of the client are cut into segments.
THEOREM ParserOnTrack == Spec => []Reader
<1>1. Inv /\ Reader /\ [Next]_vars => (Inv /\ Reader)'
  <2>1. Inv => IsSeq(taken)
      BY DEF Inv
  <2> QED BY <2>1, NextStep, NextRead
<1> QED BY <1>1, InitInvariant, InitRead, PTL DEF Spec

\* Every variable has its type, no buffer outgrows BFSIZE, and no more requests are taken
\* than were sent, for scripts, buffers and answers of any size.
THEOREM TypeCorrect == Spec => []TypeOK
<1>1. Inv /\ Reader => TypeOK
  <2> SUFFICES ASSUME Inv, Reader PROVE TypeOK
      OBVIOUS
  <2>1. need \in 0..2
      BY NeedBound DEF Inv
  <2>2. OutputFits
      BY DEF Inv, IInv, Writer
  <2> QED BY <2>1, <2>2 DEF TypeOK, Reader, Typed, InputOK, OutputOK
<1>2. Inv /\ [Next]_vars => Inv'
    BY NextStep
<1> QED BY <1>1, <1>2, InitInvariant, ParserOnTrack, PTL DEF Spec

\* IOEventHandler answers what the client sent, request by request, for every script of
\* well-formed requests and every way to cut it into segments; only a request that was
\* cut off one byte into a header line is answered without the rest of its header.
THEOREM RequestsAreKept == Spec => []TakenWasSent
<1>1. Reader => TakenWasSent
  <2> SUFFICES ASSUME Reader, NEW i \in DOMAIN taken
               PROVE  LET t == taken[i].request
                          r == Parsed(script[i])
                      IN \/ t = r
                         \/ /\ i = Len(taken) /\ eof
                            /\ t.method = r.method /\ t.version = r.version
                            /\ \E n \in DOMAIN script[i].fields :
                                  t.header = HeaderOf(SubSeq(script[i].fields, 1, n - 1))
                            /\ t.body = 0
      BY DEF TakenWasSent
  <2>1. CASE taken[i].request = Parsed(script[i])
      BY <2>1
  <2>2. CASE /\ i = Len(taken) /\ eof
             /\ \E n \in DOMAIN script[i].fields :
                   taken[i].request = Begun(script[i], n - 1, 0)
      BY <2>2 DEF Begun, Parsed
  <2> QED BY <2>1, <2>2 DEF Reader, TakenSoFar
<1> QED BY <1>1, ParserOnTrack, PTL
=============================================================================
