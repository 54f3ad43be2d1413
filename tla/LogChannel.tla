------------------------------ MODULE LogChannel ------------------------------
(***************************************************************************)
(* What the asynchronous logger promises to the threads that log: a FIFO   *)
(* channel.  Messages leave it in the order in which they entered, each at *)
(* most once; the ones taken together are written from the first on, and   *)
(* what follows a failed write is lost.                                    *)
(***************************************************************************)
EXTENDS Naturals, Sequences

CONSTANTS Message,   \* what may be logged
          Reliable   \* the file is open and no write to it fails

VARIABLES pending,   \* accepted and not yet taken, oldest first
          written    \* what the log file holds

Init == pending = <<>> /\ written = <<>>

Put == \E m \in Message : /\ pending' = Append(pending, m)
                          /\ UNCHANGED written

\* The n oldest messages are taken and the first k of them reach the file.
Take(n, k) ==
    /\ Reliable => k = n
    /\ written' = written \o SubSeq(pending, 1, k)
    /\ pending' = SubSeq(pending, n + 1, Len(pending))

Next == Put \/ \E n \in 0..Len(pending) : \E k \in 0..n : Take(n, k)

Spec == Init /\ [][Next]_<<pending, written>>
=============================================================================
