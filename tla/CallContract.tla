---------------------------- MODULE CallContract ----------------------------
(***************************************************************************)
(* What av::mw::Proxy promises about calls (proxy.hpp, rules 1 and 2 and   *)
(* the paragraph on destruction), without sessions, sockets, polls or      *)
(* tables.  A call that was made is open until its handler runs, which     *)
(* happens once and in a step of its own, never in the step that makes the *)
(* call; closing the proxy cancels what is open, and then no handler runs. *)
(***************************************************************************)
CONSTANTS Calls, Outcomes, None

VARIABLES status, outcome

Init ==
    /\ status = [c \in Calls |-> "idle"]
    /\ outcome = [c \in Calls |-> None]

Issue(c) ==
    /\ status[c] = "idle"
    /\ status' = [status EXCEPT ![c] = "open"]
    /\ UNCHANGED outcome

Complete(c, o) ==
    /\ status[c] = "open"
    /\ status' = [status EXCEPT ![c] = "done"]
    /\ outcome' = [outcome EXCEPT ![c] = o]

\* What is open is cancelled, and no call is made any more.
Close ==
    /\ status' = [c \in Calls |-> IF status[c] = "done" THEN "done" ELSE "cancelled"]
    /\ UNCHANGED outcome

Next ==
    \/ \E c \in Calls : Issue(c)
    \/ \E c \in Calls, o \in Outcomes : Complete(c, o)
    \/ Close

Spec == Init /\ [][Next]_<<status, outcome>>
=============================================================================
