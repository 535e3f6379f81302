---------------------------- MODULE MCDiscovery -----------------------------
(* Instances of Discovery for TLC. *)
EXTENDS Discovery, TLC

\* Clients run the same code, and so do servers; no property names one.
Symmetry == Permutations(Clients) \cup Permutations(Servers)
=============================================================================
