----------------------------- MODULE MCResponder -----------------------------
(* Small instances of Responder for TLC. *)
EXTENDS Responder, TLC

\* Workers are interchangeable.
Symmetry == Permutations(Worker)
=============================================================================
