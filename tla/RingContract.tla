---------------------------- MODULE RingContract ----------------------------
(***************************************************************************)
(* What the two sides of an av::ipc::SharedRing may rely on: each region   *)
(* is a channel of bounded length that hands over every message once, in   *)
(* the order it was sent.  A message is the number of its push.  Who is    *)
(* attached, and how often either side died and came back, makes no        *)
(* difference to the channel.                                              *)
(***************************************************************************)
EXTENDS Naturals

CONSTANTS Regions, Capacity, None

VARIABLES
    sent,           \* messages pushed into each region
    received,       \* messages popped from it
    delivered       \* the last message popped, or None

Init ==
    /\ sent = [r \in Regions |-> 0]
    /\ received = [r \in Regions |-> 0]
    /\ delivered = [r \in Regions |-> None]

Send(r) ==
    /\ sent[r] - received[r] < Capacity
    /\ sent' = [sent EXCEPT ![r] = @ + 1]
    /\ UNCHANGED <<received, delivered>>

Receive(r) ==
    /\ received[r] < sent[r]
    /\ delivered' = [delivered EXCEPT ![r] = received[r]]
    /\ received' = [received EXCEPT ![r] = @ + 1]
    /\ UNCHANGED sent

Next == \E r \in Regions : Send(r) \/ Receive(r)

Spec == Init /\ [][Next]_<<sent, received, delivered>>
=============================================================================
