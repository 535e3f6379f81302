------------------------------ MODULE MCProxy -------------------------------
(* Instances of Proxy for TLC. *)
EXTENDS Proxy, TLC

\* Calls are interchangeable: no property names one of them.
Symmetry == Permutations(Calls)

\* A server that has events.
FullOffers == [method : Endpoints, events : Groups]

\* One that has events, or none, or that does not say where it is.
AllOffers ==
    [method : Endpoints, events : Groups \cup {None}]
        \cup {[method |-> None, events |-> None]}
=============================================================================
