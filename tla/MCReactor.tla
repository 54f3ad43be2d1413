------------------------------ MODULE MCReactor ------------------------------
(* Small instances of Reactor for TLC. *)
EXTENDS Reactor

\* Clients, workers and descriptor numbers are interchangeable.
Symmetry == Permutations(Client) \cup Permutations(Worker) \cup Permutations(FD)

\* Every client sends one request; one client sends two.
OneEach == [c \in Client |-> 1]
OneSendsTwo == [OneEach EXCEPT ![CHOOSE c \in Client : TRUE] = 2]
=============================================================================
