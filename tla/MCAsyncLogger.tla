---------------------------- MODULE MCAsyncLogger ----------------------------
(* Small instances of AsyncLogger for TLC. *)
EXTENDS AsyncLogger, TLC

\* The logging threads are interchangeable.
Symmetry == Permutations(Writer)
=============================================================================
