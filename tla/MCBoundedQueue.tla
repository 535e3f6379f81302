--------------------------- MODULE MCBoundedQueue ---------------------------
(* Instances of BoundedQueue for TLC. *)
EXTENDS BoundedQueue, TLC

\* Threads of one kind run the same code, and no property names one of them.
ThreadSymmetry == Permutations(Producers) \cup Permutations(Consumers)
=============================================================================
