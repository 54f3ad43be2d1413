-------------------------- MODULE ConnectionService --------------------------
(***************************************************************************)
(* What the listener and the IO workers together promise every connection: *)
(* it is accepted once, by a listener that has one connection in hand at a *)
(* time; it is refused, or given to one worker that has room for it and    *)
(* keeps it to the end; that worker alone takes requests from it, has one  *)
(* connection in hand at a time, and gives a connection up only after it   *)
(* has found nothing more to read on it; and it is closed once, after it   *)
(* was given up.                                                           *)
(*                                                                         *)
(* The promise ends with the first close() that hits a descriptor of       *)
(* somebody else: from then on (broken) nothing is said.                   *)
(***************************************************************************)
EXTENDS Naturals, FiniteSets

CONSTANTS Client, Worker, MaxFDS, None

VARIABLES stage,    \* how far each connection has come
          server,   \* the worker it was given to, or None
          pending,  \* requests that have arrived on it and were not taken
          hand,     \* the connection each worker has in hand, or None
          broken

service == <<stage, server, pending, hand, broken>>

\* The connections that take up room in worker w.
Watched(w) ==
    {c \in Client : stage[c] \in {"serving", "ending"} /\ server[c] = w}

Init ==
    /\ stage = [c \in Client |-> "idle"]
    /\ server = [c \in Client |-> None]
    /\ pending = [c \in Client |-> 0]
    /\ hand = [w \in Worker |-> None]
    /\ broken = FALSE

Move(c, from, to) ==
    /\ stage[c] = from
    /\ stage' = [stage EXCEPT ![c] = to]

Connect(c) ==
    Move(c, "idle", "backlog") /\ UNCHANGED <<server, pending, hand>>

Send(c) ==
    /\ stage[c] \notin {"idle", "closed"}
    /\ pending' = [pending EXCEPT ![c] = @ + 1]
    /\ UNCHANGED <<stage, server, hand>>

Accept(c) ==
    /\ Move(c, "backlog", "accepted")
    /\ \A d \in Client : stage[d] # "accepted"
    /\ UNCHANGED <<server, pending, hand>>

Refuse(c) ==
    Move(c, "accepted", "closed") /\ UNCHANGED <<server, pending, hand>>

Assign(c, w) ==
    /\ Move(c, "accepted", "serving")
    /\ Cardinality(Watched(w)) < MaxFDS
    /\ server' = [server EXCEPT ![c] = w]
    /\ UNCHANGED <<pending, hand>>

Handle(w, c) ==
    /\ hand[w] = None /\ stage[c] = "serving" /\ server[c] = w
    /\ hand' = [hand EXCEPT ![w] = c]
    /\ UNCHANGED <<stage, server, pending>>

Take(w, c) ==
    /\ hand[w] = c /\ stage[c] = "serving" /\ server[c] = w
    /\ pending[c] > 0
    /\ pending' = [pending EXCEPT ![c] = @ - 1]
    /\ UNCHANGED <<stage, server, hand>>

Drain(w, c) ==
    /\ hand[w] = c /\ server[c] = w /\ pending[c] = 0
    /\ Move(c, "serving", "ending")
    /\ UNCHANGED <<server, pending, hand>>

GiveUp(w, c) ==
    /\ hand[w] = c /\ server[c] = w
    /\ Move(c, "ending", "finished")
    /\ hand' = [hand EXCEPT ![w] = None]
    /\ UNCHANGED <<server, pending>>

Close(c) ==
    /\ Move(c, "finished", "closed")
    /\ server' = [server EXCEPT ![c] = None]
    /\ UNCHANGED <<pending, hand>>

Step ==
    \/ \E c \in Client : \/ Connect(c) \/ Send(c) \/ Accept(c) \/ Refuse(c) \/ Close(c)
                         \/ \E w \in Worker : Assign(c, w)
    \/ \E w \in Worker, c \in Client :
          Handle(w, c) \/ Take(w, c) \/ Drain(w, c) \/ GiveUp(w, c)

\* Either the promise still stands after the step, or it ends here or has ended.
Next == (~broken /\ Step /\ UNCHANGED broken) \/ broken' = TRUE

Spec == Init /\ [][Next]_service
=============================================================================
