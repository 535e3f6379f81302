--------------------------- MODULE QueueContract ----------------------------
(***************************************************************************)
(* What av::conc::BoundedQueue promises its callers, without ring, mutex   *)
(* or condition variable: a FIFO of bounded length whose operations take   *)
(* effect at one instant, and a close() that refuses new work but lets the *)
(* queue drain.  A blocking operation is one that does not take effect     *)
(* until it can.                                                           *)
(***************************************************************************)
EXTENDS Integers, Sequences

CONSTANTS Producers, Consumers, Closers, Capacity, Values, None

VARIABLES content, closed, ret

Threads == Producers \cup Consumers \cup Closers

Init ==
    /\ content = <<>>
    /\ closed = FALSE
    /\ ret = [t \in Threads |-> None]

Returns(t, r) == ret' = [ret EXCEPT ![t] = r]

\* The call itself changes nothing else.
Call(t) ==
    /\ Returns(t, "Pending")
    /\ UNCHANGED <<content, closed>>

Enqueue(t, v) ==
    /\ ~closed
    /\ Len(content) < Capacity
    /\ content' = Append(content, v)
    /\ Returns(t, "Ok")
    /\ UNCHANGED closed

RefuseFull(t) ==
    /\ ~closed
    /\ Len(content) = Capacity
    /\ Returns(t, "Full")
    /\ UNCHANGED <<content, closed>>

RefuseClosed(t) ==
    /\ closed
    /\ Returns(t, "Closed")
    /\ UNCHANGED <<content, closed>>

Dequeue(t) ==
    /\ content # <<>>
    /\ Returns(t, Head(content))
    /\ content' = Tail(content)
    /\ UNCHANGED closed

FindEmpty(t) ==
    /\ content = <<>>
    /\ Returns(t, None)
    /\ UNCHANGED <<content, closed>>

Close ==
    /\ closed' = TRUE
    /\ UNCHANGED <<content, ret>>

Next ==
    \/ \E t \in Producers :
          \/ \E v \in Values : Enqueue(t, v)
          \/ RefuseFull(t)
          \/ RefuseClosed(t)
    \/ \E t \in Consumers : Dequeue(t) \/ FindEmpty(t)
    \/ \E t \in Threads : Call(t)
    \/ Close

Spec == Init /\ [][Next]_<<content, closed, ret>>
=============================================================================
