---------------------------- MODULE SocketStream ----------------------------
(***************************************************************************)
(* The streams between a connection and the HTTP classes: one              *)
(* SocketStreamBuffer under an istream, another under an ostream, both on  *)
(* the same non-blocking socket.                                           *)
(*                                                                         *)
(* Sources: HttpUtils/SocketStream.cc, HttpUtils/SocketStream.hpp.  The    *)
(* state bits of istream and ostream and the calls of send and recv are    *)
(* external.  A byte is any value; module Connection says which there are. *)
(***************************************************************************)
EXTENDS Integers, Sequences

CONSTANTS
    BFSIZE,      \* SocketStreamBuffer::BFSIZE
    PartialSend  \* send may take less than it is given

ASSUME StreamAssumption == BFSIZE \in Nat \ {0} /\ PartialSend \in BOOLEAN

VARIABLES
    arrived,  \* received by the kernel and not read yet
    gbuf,     \* the input buffer from gptr() to egptr()
    eof,      \* eofbit of the istream
    pbuf,     \* the output buffer from pbase() to pptr()
    bad,      \* badbit of the ostream
    caller,   \* who is in flush(): "none", "overflow", "sync" or "destructor"
    rest,     \* rest, in flush()
    sent      \* history: what send has taken

input  == <<arrived, gbuf, eof>>
output == <<pbuf, bad, caller, rest, sent>>

-----------------------------------------------------------------------------
(* The reader *)

MinOf(m, n) == IF m <= n THEN m ELSE n

\* recv takes what has arrived, as far as it fits.  It returns -1 with EAGAIN
\* if nothing has: EOF, and the istream sets eofbit for good.
underflow ==
    LET n == MinOf(BFSIZE, Len(arrived)) IN
    /\ gbuf = <<>> /\ ~eof
    /\ gbuf' = SubSeq(arrived, 1, n)
    /\ arrived' = SubSeq(arrived, n + 1, Len(arrived))
    /\ eof' = (n = 0)

\* sgetc and sbumpc while the buffer is not empty
NextIs(c) == gbuf # <<>> /\ Head(gbuf) = c
GetChar == gbuf' = Tail(gbuf) /\ UNCHANGED <<arrived, eof>>

-----------------------------------------------------------------------------
(* The writer *)

\* flush() is called with n characters in the buffer.
flush(who, n) ==
    /\ caller' = who
    /\ rest' = n

\* setp(__buffer, __buffer+BFSIZE): overflow finds no room for its character.
RoomOffByOne == Len(pbuf) < BFSIZE

\* pptr() < epptr(): setp leaves the last place of the buffer to overflow.
Room == Len(pbuf) < BFSIZE - 1

\* One character given to an ostream that is good.
PutChar(c) ==
    /\ caller = "none" /\ ~bad
    /\ pbuf' = Append(pbuf, c)
    /\ IF Room THEN UNCHANGED <<caller, rest>> ELSE flush("overflow", Len(pbuf) + 1)
    /\ UNCHANGED <<bad, sent>>

\* ostream::flush and ~SocketStreamBuffer call sync.
sync(who) ==
    /\ caller = "none"
    /\ flush(who, Len(pbuf))
    /\ UNCHANGED <<pbuf, bad, sent>>

\* send(__socket, __buffer, rest, 0), at every turn from the same __buffer
send ==
    /\ caller # "none" /\ rest > 0
    /\ \E n \in IF PartialSend THEN 1..rest ELSE {rest} :
         /\ sent' = sent \o SubSeq(pbuf, 1, n)
         /\ rest' = rest - n
    /\ UNCHANGED <<pbuf, bad, caller>>

\* send returns -1 (EAGAIN, or the client is gone): pptr() is set to what is
\* left and EOF returned.
sendFails ==
    /\ caller # "none" /\ rest > 0
    /\ pbuf' = SubSeq(pbuf, 1, rest)
    /\ bad' = TRUE
    /\ caller' = "none" /\ rest' = 0
    /\ UNCHANGED sent

\* The buffer is not emptied after it was sent.
flushedNotReset ==
    /\ caller # "none" /\ rest = 0
    /\ caller' = "none"
    /\ UNCHANGED <<pbuf, bad, rest, sent>>

\* pbump(rest-total) with rest = 0
flushed ==
    /\ caller # "none" /\ rest = 0
    /\ pbuf' = <<>>
    /\ caller' = "none"
    /\ UNCHANGED <<bad, rest, sent>>

Sending == send \/ sendFails \/ flushed
=============================================================================
