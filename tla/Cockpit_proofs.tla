--------------------------- MODULE Cockpit_proofs ---------------------------
(***************************************************************************)
(* For every number of frames and all sizes of the two queues: the cockpit *)
(* throws no work away. Assumed: neither queue is without a slot, which    *)
(* the constructor of BoundedQueue refuses.                                *)
(***************************************************************************)
EXTENDS Cockpit, TLAPS

QueueSizes ==
    /\ FramesToSend \in Nat
    /\ FrameSlots \in Nat /\ FrameSlots > 0
    /\ StateSlots \in Nat /\ StateSlots > 0

Counters == {"produced", "dropped", "decoded", "failures", "overwritten", "discarded", "displayed"}

(***************************************************************************)
(* The inductive invariant                                                 *)
(***************************************************************************)
Types ==
    /\ tick \in Nat /\ sequence \in Nat
    /\ frames \in [items : Seq(BOOLEAN), closed : BOOLEAN]
    /\ states \in [items : Seq(Nat), closed : BOOLEAN]
    /\ decoding \in {"pop", "push", "make room", "push again", "done"}
    /\ ui \in {"pop", "done"}
    /\ joined \in {"rx", "decode", "ui", "report"}
    /\ stats \in [Counters -> Nat]

\* A queue is closed when the thread before it has ended, and a thread ends when
\* the queue before it is closed and empty: nobody pushes into a closed queue.
Ends ==
    /\ joined # "rx" => tick = FramesToSend
    /\ decoding = "done" => joined # "rx" /\ frames.items = <<>>
    /\ joined \in {"ui", "report"} => decoding = "done"
    /\ joined \notin {"ui", "report"} => ~states.closed
    /\ joined = "rx" => ~frames.closed
    /\ ui = "done" => joined \in {"ui", "report"} /\ states.items = <<>>
    /\ joined = "report" => ui = "done"

\* Only the decoder pushes states, so that the room it made is still there.
Room ==
    /\ Len(states.items) <= StateSlots
    /\ decoding = "push again" => Len(states.items) < StateSlots

AtHand == IF decoding \in {"push", "make room", "push again"} THEN 1 ELSE 0

\* Every frame and every state is in one place.
FrameBook == stats["produced"] = stats["decoded"] + stats["failures"] + Len(frames.items)
StateBook ==
    stats["decoded"] = stats["displayed"] + stats["discarded"] + Len(states.items) + AtHand
Books == FrameBook /\ StateBook

CockpitInvariant == Types /\ Ends /\ Room /\ Books

(***************************************************************************)
(* Counters and queues                                                     *)
(***************************************************************************)
LEMMA CountAdds ==
    ASSUME NEW c \in Counters, stats \in [Counters -> Nat], Count({c})
    PROVE  /\ stats' \in [Counters -> Nat]
           /\ stats'[c] = stats[c] + 1
           /\ \A d \in Counters \ {c} : stats'[d] = stats[d]
BY DEF Count

\* What Books adds up are numbers.
LEMMA Numbers ==
    ASSUME Types
    PROVE  /\ \A c \in Counters : stats[c] \in Nat
           /\ Len(frames.items) \in Nat /\ Len(states.items) \in Nat /\ AtHand \in Nat
<1>1. stats \in [Counters -> Nat]
  BY DEF Types
<1>2. \A c \in Counters : stats[c] \in Nat
  BY <1>1
<1>3. frames.items \in Seq(BOOLEAN) /\ states.items \in Seq(Nat)
  BY DEF Types
<1>4. Len(frames.items) \in Nat /\ Len(states.items) \in Nat
  BY <1>3
<1>5. AtHand \in Nat
  BY DEF AtHand
<1>6. QED
  BY <1>2, <1>4, <1>5

\* How a step changes the two books.
LEMMA FrameBookKept ==
    ASSUME Types, FrameBook,
           \/ /\ stats'["produced"] = stats["produced"] /\ stats'["decoded"] = stats["decoded"]
              /\ stats'["failures"] = stats["failures"] /\ Len(frames'.items) = Len(frames.items)
           \/ /\ stats'["produced"] = stats["produced"] + 1 /\ stats'["decoded"] = stats["decoded"]
              /\ stats'["failures"] = stats["failures"] /\ Len(frames'.items) = Len(frames.items) + 1
           \/ /\ stats'["produced"] = stats["produced"] /\ stats'["decoded"] = stats["decoded"] + 1
              /\ stats'["failures"] = stats["failures"] /\ Len(frames'.items) = Len(frames.items) - 1
           \/ /\ stats'["produced"] = stats["produced"] /\ stats'["decoded"] = stats["decoded"]
              /\ stats'["failures"] = stats["failures"] + 1 /\ Len(frames'.items) = Len(frames.items) - 1
    PROVE  FrameBook'
<1> DEFINE made == stats["produced"]      made2 == stats'["produced"]
           done == stats["decoded"]       done2 == stats'["decoded"]
           bad == stats["failures"]       bad2 == stats'["failures"]
           wait == Len(frames.items)      wait2 == Len(frames'.items)
<1>1. made \in Nat /\ done \in Nat /\ bad \in Nat /\ wait \in Nat
  BY Numbers DEF Counters
<1>2. made = done + bad + wait
  BY DEF FrameBook
<1>3. \/ made2 = made /\ done2 = done /\ bad2 = bad /\ wait2 = wait
      \/ made2 = made + 1 /\ done2 = done /\ bad2 = bad /\ wait2 = wait + 1
      \/ made2 = made /\ done2 = done + 1 /\ bad2 = bad /\ wait2 = wait - 1
      \/ made2 = made /\ done2 = done /\ bad2 = bad + 1 /\ wait2 = wait - 1
  BY Zenon
<1> HIDE DEF made, done, bad, wait, made2, done2, bad2, wait2
<1>4. made2 = done2 + bad2 + wait2
  BY <1>1, <1>2, <1>3
<1>5. QED
  BY <1>4 DEF FrameBook, made2, done2, bad2, wait2

LEMMA StateBookKept ==
    ASSUME Types, StateBook,
           \/ /\ stats'["decoded"] = stats["decoded"] /\ stats'["displayed"] = stats["displayed"]
              /\ stats'["discarded"] = stats["discarded"]
              /\ Len(states'.items) = Len(states.items) /\ AtHand' = AtHand
           \/ /\ stats'["decoded"] = stats["decoded"] + 1 /\ stats'["displayed"] = stats["displayed"]
              /\ stats'["discarded"] = stats["discarded"]
              /\ Len(states'.items) = Len(states.items) /\ AtHand' = AtHand + 1
           \/ /\ stats'["decoded"] = stats["decoded"] /\ stats'["displayed"] = stats["displayed"] + 1
              /\ stats'["discarded"] = stats["discarded"]
              /\ Len(states'.items) = Len(states.items) - 1 /\ AtHand' = AtHand
           \/ /\ stats'["decoded"] = stats["decoded"] /\ stats'["displayed"] = stats["displayed"]
              /\ stats'["discarded"] = stats["discarded"] + 1
              /\ Len(states'.items) = Len(states.items) - 1 /\ AtHand' = AtHand
           \/ /\ stats'["decoded"] = stats["decoded"] /\ stats'["displayed"] = stats["displayed"]
              /\ stats'["discarded"] = stats["discarded"]
              /\ Len(states'.items) = Len(states.items) + 1 /\ AtHand' = AtHand - 1
    PROVE  StateBook'
<1> DEFINE done == stats["decoded"]       done2 == stats'["decoded"]
           seen == stats["displayed"]     seen2 == stats'["displayed"]
           gone == stats["discarded"]     gone2 == stats'["discarded"]
           wait == Len(states.items)      wait2 == Len(states'.items)
           hand == AtHand                 hand2 == AtHand'
<1>1. done \in Nat /\ seen \in Nat /\ gone \in Nat /\ wait \in Nat /\ hand \in Nat
  BY Numbers DEF Counters
<1>2. done = seen + gone + wait + hand
  BY DEF StateBook
<1>3. \/ done2 = done /\ seen2 = seen /\ gone2 = gone /\ wait2 = wait /\ hand2 = hand
      \/ done2 = done + 1 /\ seen2 = seen /\ gone2 = gone /\ wait2 = wait /\ hand2 = hand + 1
      \/ done2 = done /\ seen2 = seen + 1 /\ gone2 = gone /\ wait2 = wait - 1 /\ hand2 = hand
      \/ done2 = done /\ seen2 = seen /\ gone2 = gone + 1 /\ wait2 = wait - 1 /\ hand2 = hand
      \/ done2 = done /\ seen2 = seen /\ gone2 = gone /\ wait2 = wait + 1 /\ hand2 = hand - 1
  BY Zenon
<1> HIDE DEF done, seen, gone, wait, hand, done2, seen2, gone2, wait2, hand2
<1>4. done2 = seen2 + gone2 + wait2 + hand2
  BY <1>1, <1>2, <1>3
<1>5. QED
  BY <1>4 DEF StateBook, done2, seen2, gone2, wait2, hand2

\* What a push leaves of a queue, and what a pop does.
Longer(new, queue, T) ==
    /\ new \in [items : Seq(T), closed : BOOLEAN]
    /\ Len(new.items) = Len(queue.items) + 1 /\ Len(queue.items) \in Nat
    /\ new.closed = queue.closed

Shorter(new, queue, T) ==
    /\ new \in [items : Seq(T), closed : BOOLEAN]
    /\ Len(new.items) = Len(queue.items) - 1
    /\ Len(queue.items) \in Nat /\ Len(queue.items) > 0
    /\ new.closed = queue.closed /\ Head(queue.items) \in T

LEMMA Pushing ==
    ASSUME NEW T, NEW queue \in [items : Seq(T), closed : BOOLEAN], NEW item \in T
    PROVE  Longer(Pushed(queue, item), queue, T)
<1>1. queue.items \in Seq(T) /\ queue.closed \in BOOLEAN
  OBVIOUS
<1>2. Append(queue.items, item) \in Seq(T)
  BY <1>1
<1>3. Len(Append(queue.items, item)) = Len(queue.items) + 1 /\ Len(queue.items) \in Nat
  BY <1>1
<1>4. Pushed(queue, item) = [queue EXCEPT !.items = Append(queue.items, item)]
  BY DEF Pushed
<1>5. QED
  BY <1>1, <1>2, <1>3, <1>4 DEF Longer

LEMMA Popping ==
    ASSUME NEW T, NEW queue \in [items : Seq(T), closed : BOOLEAN], queue.items # <<>>
    PROVE  Shorter(Popped(queue), queue, T)
<1>1. queue.items \in Seq(T) /\ queue.closed \in BOOLEAN
  OBVIOUS
<1>2. /\ Tail(queue.items) \in Seq(T) /\ Len(Tail(queue.items)) = Len(queue.items) - 1
      /\ Len(queue.items) \in Nat /\ Len(queue.items) > 0 /\ Head(queue.items) \in T
  BY <1>1
<1>3. Popped(queue) = [queue EXCEPT !.items = Tail(queue.items)]
  BY DEF Popped
<1>4. QED
  BY <1>1, <1>2, <1>3 DEF Shorter

(***************************************************************************)
(* Steps                                                                   *)
(***************************************************************************)
LEMMA ReceiveKeeps == ASSUME QueueSizes, CockpitInvariant, Receive PROVE CockpitInvariant'
<1> USE DEF CockpitInvariant
<1>1. /\ tick \in Nat /\ tick < FramesToSend /\ tick' = tick + 1
      /\ states' = states /\ sequence' = sequence /\ decoding' = decoding
      /\ ui' = ui /\ joined' = joined
  BY DEF Receive, Types
<1>2. joined = "rx" /\ tick' \in Nat
  BY <1>1, SMT DEF Ends, QueueSizes
<1>3. CASE Count({"dropped"}) /\ frames' = frames
  <2>1. /\ stats' \in [Counters -> Nat]
        /\ \A d \in Counters \ {"dropped"} : stats'[d] = stats[d]
    BY <1>3, CountAdds DEF Types, Counters
  <2>2. Types'
    BY <1>1, <1>2, <1>3, <2>1, Zenon DEF Types
  <2>3. Ends' /\ Room'
    BY <1>1, <1>2, <1>3, Zenon DEF Ends, Room
  <2>4. /\ stats'["produced"] = stats["produced"] /\ stats'["decoded"] = stats["decoded"]
        /\ stats'["failures"] = stats["failures"] /\ stats'["displayed"] = stats["displayed"]
        /\ stats'["discarded"] = stats["discarded"] /\ Len(frames'.items) = Len(frames.items)
        /\ Len(states'.items) = Len(states.items) /\ AtHand' = AtHand
    BY <1>1, <1>3, <2>1 DEF AtHand, Counters
  <2>5. Books'
    BY <2>4, FrameBookKept, StateBookKept, Zenon DEF Books
  <2>6. QED
    BY <2>2, <2>3, <2>5
<1>4. ASSUME NEW good \in BOOLEAN, Count({"produced"}), frames' = Pushed(frames, good)
      PROVE  CockpitInvariant'
  <2>1. /\ stats' \in [Counters -> Nat] /\ stats'["produced"] = stats["produced"] + 1
        /\ \A d \in Counters \ {"produced"} : stats'[d] = stats[d]
    BY <1>4, CountAdds DEF Types, Counters
  <2>2. /\ frames' \in [items : Seq(BOOLEAN), closed : BOOLEAN]
        /\ Len(frames'.items) = Len(frames.items) + 1 /\ Len(frames.items) \in Nat
        /\ frames'.closed = frames.closed
    <3>1. frames \in [items : Seq(BOOLEAN), closed : BOOLEAN]
      BY DEF Types
    <3>2. Longer(frames', frames, BOOLEAN)
      BY <1>4, <3>1, Pushing, Zenon
    <3>3. QED
      BY <3>2 DEF Longer
  <2>3. Types'
    BY <1>1, <1>2, <2>1, <2>2, Zenon DEF Types
  <2>4. decoding # "done"
    BY <1>2 DEF Ends
  <2>5. Ends' /\ Room'
    BY <1>1, <1>2, <2>2, <2>4, Zenon DEF Ends, Room
  <2>6. Books'
    <3>1. /\ stats'["produced"] = stats["produced"] + 1 /\ stats'["decoded"] = stats["decoded"]
          /\ stats'["failures"] = stats["failures"] /\ stats'["displayed"] = stats["displayed"]
          /\ stats'["discarded"] = stats["discarded"] /\ Len(frames'.items) = Len(frames.items) + 1
          /\ Len(states'.items) = Len(states.items) /\ AtHand' = AtHand
      BY <1>1, <2>1, <2>2 DEF AtHand, Counters
    <3>2. QED
      BY <3>1, FrameBookKept, StateBookKept, Zenon DEF Books
  <2>7. QED
    BY <2>3, <2>5, <2>6
<1>5. QED
  BY <1>3, <1>4 DEF Receive

LEMMA DecodeNextKeeps ==
    ASSUME QueueSizes, CockpitInvariant, DecodeNext PROVE CockpitInvariant'
<1> USE DEF CockpitInvariant
<1>1. /\ decoding = "pop" /\ tick' = tick /\ states' = states /\ ui' = ui /\ joined' = joined
      /\ joined \notin {"ui", "report"}
  BY DEF DecodeNext, Ends
<1>2. ASSUME frames.items # <<>>, frames' = Popped(frames),
             \/ Head(frames.items) /\ decoding' = "push" /\ sequence' = sequence + 1 /\ Count({"decoded"})
             \/ Count({"failures"}) /\ decoding' = "pop" /\ sequence' = sequence
      PROVE  CockpitInvariant'
  <2>1. /\ frames' \in [items : Seq(BOOLEAN), closed : BOOLEAN]
        /\ Len(frames'.items) = Len(frames.items) - 1 /\ Len(frames.items) \in Nat
        /\ frames'.closed = frames.closed
    <3>1. frames \in [items : Seq(BOOLEAN), closed : BOOLEAN]
      BY DEF Types
    <3>2. Shorter(frames', frames, BOOLEAN)
      BY <1>2, <3>1, Popping, Zenon
    <3>3. QED
      BY <3>2 DEF Shorter
  <2>2. Ends' /\ Room'
    BY <1>1, <1>2, <2>1, Zenon DEF Ends, Room
  <2>4. CASE decoding' = "push" /\ sequence' = sequence + 1 /\ Count({"decoded"})
    <3>1. /\ stats' \in [Counters -> Nat] /\ stats'["decoded"] = stats["decoded"] + 1
          /\ \A d \in Counters \ {"decoded"} : stats'[d] = stats[d]
      BY <2>4, CountAdds DEF Types, Counters
    <3>2. sequence' \in Nat
      <4>1. sequence \in Nat /\ sequence' = sequence + 1
        BY <2>4 DEF Types
      <4>2. QED
        BY <4>1
    <3>3. Types'
      BY <1>1, <2>1, <2>4, <3>1, <3>2, Zenon DEF Types
    <3>4. AtHand' = AtHand + 1
      BY <1>1, <2>4 DEF AtHand
    <3>5. /\ stats'["produced"] = stats["produced"] /\ stats'["decoded"] = stats["decoded"] + 1
          /\ stats'["failures"] = stats["failures"] /\ stats'["displayed"] = stats["displayed"]
          /\ stats'["discarded"] = stats["discarded"] /\ Len(frames'.items) = Len(frames.items) - 1
          /\ Len(states'.items) = Len(states.items)
      BY <1>1, <2>1, <3>1 DEF Counters
    <3>6. Books'
      BY <3>4, <3>5, FrameBookKept, StateBookKept, Zenon DEF Books
    <3>7. QED
      BY <2>2, <3>3, <3>6
  <2>5. CASE Count({"failures"}) /\ decoding' = "pop" /\ sequence' = sequence
    <3>1. /\ stats' \in [Counters -> Nat] /\ stats'["failures"] = stats["failures"] + 1
          /\ \A d \in Counters \ {"failures"} : stats'[d] = stats[d]
      BY <2>5, CountAdds DEF Types, Counters
    <3>2. Types'
      BY <1>1, <2>1, <2>5, <3>1, Zenon DEF Types
    <3>3. AtHand' = AtHand
      BY <1>1, <2>5 DEF AtHand
    <3>4. /\ stats'["produced"] = stats["produced"] /\ stats'["decoded"] = stats["decoded"]
          /\ stats'["failures"] = stats["failures"] + 1 /\ stats'["displayed"] = stats["displayed"]
          /\ stats'["discarded"] = stats["discarded"] /\ Len(frames'.items) = Len(frames.items) - 1
          /\ Len(states'.items) = Len(states.items)
      BY <1>1, <2>1, <3>1 DEF Counters
    <3>5. Books'
      BY <3>3, <3>4, FrameBookKept, StateBookKept, Zenon DEF Books
    <3>6. QED
      BY <2>2, <3>2, <3>5
  <2>6. QED
    BY <1>2, <2>4, <2>5
<1>3. CASE Drained(frames) /\ decoding' = "done" /\ frames' = frames /\ sequence' = sequence
           /\ stats' = stats
  <2>1. joined # "rx" /\ frames.items = <<>>
    BY <1>3, Zenon DEF Drained, Ends
  <2>2. Ends' /\ Room'
    BY <1>1, <1>3, <2>1 DEF Ends, Room
  <2>3. Types'
    BY <1>1, <1>3, Zenon DEF Types
  <2>4. Books'
    BY <1>1, <1>3, Zenon DEF Books, FrameBook, StateBook, AtHand
  <2>5. QED
    BY <2>2, <2>3, <2>4
<1>4. QED
  BY <1>1, <1>2, <1>3, Zenon DEF DecodeNext

LEMMA PushStateKeeps ==
    ASSUME QueueSizes, CockpitInvariant, PushState PROVE CockpitInvariant'
<1> USE DEF CockpitInvariant
<1>1. /\ decoding = "push" /\ tick' = tick /\ frames' = frames /\ sequence' = sequence
      /\ ui' = ui /\ joined' = joined /\ stats' = stats
      /\ joined \notin {"ui", "report"} /\ ~states.closed /\ ui = "pop"
  BY DEF PushState, Ends, Types
<1>2. CASE decoding' = "make room" /\ states' = states
  <2>1. Types' /\ Ends' /\ Room'
    BY <1>1, <1>2, Zenon DEF Types, Ends, Room
  <2>2. AtHand' = AtHand
    BY <1>1, <1>2 DEF AtHand
  <2>3. Books'
    BY <1>1, <1>2, <2>2, Zenon DEF Books, FrameBook, StateBook
  <2>4. QED
    BY <2>1, <2>3
<1>3. CASE ~IsFull(states, StateSlots) /\ decoding' = "pop" /\ states' = Pushed(states, sequence)
  <2>1. /\ states' \in [items : Seq(Nat), closed : BOOLEAN]
        /\ Len(states'.items) = Len(states.items) + 1 /\ Len(states.items) \in Nat
        /\ states'.closed = states.closed
    <3>1. states \in [items : Seq(Nat), closed : BOOLEAN] /\ sequence \in Nat
      BY DEF Types
    <3>2. Longer(states', states, Nat)
      BY <1>3, <3>1, Pushing, Zenon
    <3>3. QED
      BY <3>2 DEF Longer
  <2>2. Types' /\ Ends'
    BY <1>1, <1>3, <2>1, Zenon DEF Types, Ends
  <2>3. Len(states'.items) <= StateSlots
    BY <1>3, <2>1 DEF IsFull, QueueSizes
  <2>4. Room'
    BY <1>3, <2>3, Zenon DEF Room
  <2>5. AtHand' = AtHand - 1
    BY <1>1, <1>3 DEF AtHand
  <2>6. /\ stats'["produced"] = stats["produced"] /\ stats'["decoded"] = stats["decoded"]
        /\ stats'["failures"] = stats["failures"] /\ stats'["displayed"] = stats["displayed"]
        /\ stats'["discarded"] = stats["discarded"] /\ Len(frames'.items) = Len(frames.items)
        /\ Len(states'.items) = Len(states.items) + 1
    BY <1>1, <2>1
  <2>7. Books'
    BY <2>5, <2>6, FrameBookKept, StateBookKept, Zenon DEF Books
  <2>8. QED
    BY <2>2, <2>4, <2>7
<1>4. QED
  BY <1>1, <1>2, <1>3 DEF PushState

LEMMA MakeRoomKeeps ==
    ASSUME QueueSizes, CockpitInvariant, MakeRoom PROVE CockpitInvariant'
<1> USE DEF CockpitInvariant
<1>1. /\ decoding = "make room" /\ decoding' = "push again" /\ tick' = tick /\ frames' = frames
      /\ sequence' = sequence /\ ui' = ui /\ joined' = joined
      /\ joined \notin {"ui", "report"} /\ ~states.closed /\ ui = "pop"
  BY DEF MakeRoom, Ends, Types
<1>2. AtHand' = AtHand
  BY <1>1 DEF AtHand
<1>3. CASE states.items = <<>>
  <2>1. states' = states /\ stats' = stats
    BY <1>3 DEF MakeRoom, Types
  <2>2. Len(states.items) < StateSlots
    BY <1>3 DEF QueueSizes
  <2>3. Types' /\ Ends' /\ Room'
    BY <1>1, <2>1, <2>2, Zenon DEF Types, Ends, Room
  <2>4. Books'
    BY <1>1, <1>2, <2>1, Zenon DEF Books, FrameBook, StateBook
  <2>5. QED
    BY <2>3, <2>4
<1>4. CASE states.items # <<>>
  <2>1. states' = Popped(states) /\ stats' = [stats EXCEPT !["discarded"] = stats["discarded"] + 1]
    BY <1>4 DEF MakeRoom
  <2>2. /\ states' \in [items : Seq(Nat), closed : BOOLEAN]
        /\ Len(states'.items) = Len(states.items) - 1 /\ Len(states.items) \in Nat
        /\ states'.closed = states.closed
    <3>1. states \in [items : Seq(Nat), closed : BOOLEAN]
      BY DEF Types
    <3>2. Shorter(states', states, Nat)
      BY <1>4, <2>1, <3>1, Popping, Zenon
    <3>3. QED
      BY <3>2 DEF Shorter
  <2>3. /\ stats' \in [Counters -> Nat] /\ stats'["discarded"] = stats["discarded"] + 1
        /\ \A d \in Counters \ {"discarded"} : stats'[d] = stats[d]
    <3>1. stats \in [Counters -> Nat] /\ "discarded" \in Counters
      BY DEF Types, Counters
    <3>2. stats' = [stats EXCEPT !["discarded"] = stats["discarded"] + 1]
      BY <2>1
    <3>3. QED
      BY <3>1, <3>2
  <2>4. Types' /\ Ends'
    BY <1>1, <2>2, <2>3, Zenon DEF Types, Ends
  <2>5. Len(states'.items) < StateSlots /\ Len(states'.items) <= StateSlots
    <3>1. Len(states.items) <= StateSlots /\ StateSlots \in Nat
      BY DEF Room, QueueSizes
    <3>2. QED
      BY <2>2, <3>1, Numbers
  <2>6. Room'
    BY <2>5, Zenon DEF Room
  <2>7. /\ stats'["produced"] = stats["produced"] /\ stats'["decoded"] = stats["decoded"]
        /\ stats'["failures"] = stats["failures"] /\ stats'["displayed"] = stats["displayed"]
        /\ stats'["discarded"] = stats["discarded"] + 1 /\ Len(frames'.items) = Len(frames.items)
        /\ Len(states'.items) = Len(states.items) - 1
    BY <1>1, <2>2, <2>3 DEF Counters
  <2>8. Books'
    BY <1>2, <2>7, FrameBookKept, StateBookKept, Zenon DEF Books
  <2>9. QED
    BY <2>4, <2>6, <2>8
<1>5. QED
  BY <1>3, <1>4

LEMMA PushAgainKeeps ==
    ASSUME QueueSizes, CockpitInvariant, PushAgain PROVE CockpitInvariant'
<1> USE DEF CockpitInvariant
<1>1. /\ decoding = "push again" /\ decoding' = "pop" /\ tick' = tick /\ frames' = frames
      /\ sequence' = sequence /\ ui' = ui /\ joined' = joined
      /\ joined \notin {"ui", "report"} /\ ~states.closed /\ ui = "pop"
  BY DEF PushAgain, Ends, Types
<1>2. AtHand' = AtHand - 1
  <2>1. AtHand = 1
    BY <1>1 DEF AtHand
  <2>2. AtHand' = 0
    BY <1>1 DEF AtHand
  <2>3. QED
    BY <2>1, <2>2
<1>3. Len(states.items) < StateSlots /\ StateSlots \in Nat
  BY <1>1, Zenon DEF Room, QueueSizes
<1>4. states' = Pushed(states, sequence) /\ Count({"overwritten"})
  <2>1. ~(Len(states.items) >= StateSlots)
    BY <1>3, Numbers
  <2>2. QED
    BY <1>1, <2>1, Zenon DEF PushAgain, IsFull
<1>5. /\ states' \in [items : Seq(Nat), closed : BOOLEAN]
      /\ Len(states'.items) = Len(states.items) + 1 /\ states'.closed = states.closed
  <2>1. states \in [items : Seq(Nat), closed : BOOLEAN] /\ sequence \in Nat
    BY DEF Types
  <2>2. Longer(states', states, Nat)
    BY <1>4, <2>1, Pushing, Zenon
  <2>3. QED
    BY <2>2 DEF Longer
<1>6. /\ stats' \in [Counters -> Nat]
      /\ \A d \in Counters \ {"overwritten"} : stats'[d] = stats[d]
  BY <1>4, CountAdds DEF Types, Counters
<1>7. Types' /\ Ends'
  BY <1>1, <1>5, <1>6, Zenon DEF Types, Ends
<1>8. Room'
  <2>1. Len(states'.items) <= StateSlots
    BY <1>3, <1>5, Numbers
  <2>2. QED
    BY <1>1, <2>1, Zenon DEF Room
<1>9. /\ stats'["produced"] = stats["produced"] /\ stats'["decoded"] = stats["decoded"]
      /\ stats'["failures"] = stats["failures"] /\ stats'["displayed"] = stats["displayed"]
      /\ stats'["discarded"] = stats["discarded"] /\ Len(frames'.items) = Len(frames.items)
      /\ Len(states'.items) = Len(states.items) + 1
  BY <1>1, <1>5, <1>6 DEF Counters
<1>10. Books'
  BY <1>2, <1>9, FrameBookKept, StateBookKept, Zenon DEF Books
<1>11. QED
  BY <1>7, <1>8, <1>10

LEMMA DisplayKeeps == ASSUME QueueSizes, CockpitInvariant, Display PROVE CockpitInvariant'
<1> USE DEF CockpitInvariant
<1>1. /\ ui = "pop" /\ tick' = tick /\ frames' = frames /\ decoding' = decoding
      /\ sequence' = sequence /\ joined' = joined
  BY DEF Display
<1>2. CASE /\ states.items # <<>> /\ states' = Popped(states) /\ Count({"displayed"})
           /\ ui' = ui
  <2>1. /\ states' \in [items : Seq(Nat), closed : BOOLEAN]
        /\ Len(states'.items) = Len(states.items) - 1 /\ Len(states.items) \in Nat
        /\ states'.closed = states.closed
    <3>1. states \in [items : Seq(Nat), closed : BOOLEAN]
      BY DEF Types
    <3>2. Shorter(states', states, Nat)
      BY <1>2, <3>1, Popping, Zenon
    <3>3. QED
      BY <3>2 DEF Shorter
  <2>2. /\ stats' \in [Counters -> Nat] /\ stats'["displayed"] = stats["displayed"] + 1
        /\ \A d \in Counters \ {"displayed"} : stats'[d] = stats[d]
    BY <1>2, CountAdds DEF Types, Counters
  <2>3. ui # "done"
    BY <1>1
  <2>4. Types' /\ Ends'
    BY <1>1, <1>2, <2>1, <2>2, <2>3, Zenon DEF Types, Ends
  <2>5. Room'
    <3>1. Len(states.items) <= StateSlots /\ StateSlots \in Nat
      BY DEF Room, QueueSizes
    <3>2. /\ Len(states'.items) <= StateSlots
          /\ Len(states.items) < StateSlots => Len(states'.items) < StateSlots
      BY <2>1, <3>1
    <3>3. QED
      BY <1>1, <3>2, Zenon DEF Room
  <2>6. AtHand' = AtHand
    BY <1>1 DEF AtHand
  <2>7. /\ stats'["produced"] = stats["produced"] /\ stats'["decoded"] = stats["decoded"]
        /\ stats'["failures"] = stats["failures"] /\ stats'["displayed"] = stats["displayed"] + 1
        /\ stats'["discarded"] = stats["discarded"] /\ Len(frames'.items) = Len(frames.items)
        /\ Len(states'.items) = Len(states.items) - 1
    BY <1>1, <2>1, <2>2 DEF Counters
  <2>8. Books'
    BY <2>6, <2>7, FrameBookKept, StateBookKept, Zenon DEF Books
  <2>9. QED
    BY <2>4, <2>5, <2>8
<1>3. CASE Drained(states) /\ ui' = "done" /\ states' = states /\ stats' = stats
  <2>1. joined \in {"ui", "report"} /\ states.items = <<>>
    BY <1>3, Zenon DEF Drained, Ends
  <2>2. Types' /\ Ends' /\ Room'
    BY <1>1, <1>3, <2>1, Zenon DEF Types, Ends, Room
  <2>3. Books'
    BY <1>1, <1>3, Zenon DEF Books, FrameBook, StateBook, AtHand
  <2>4. QED
    BY <2>2, <2>3
<1>4. QED
  BY <1>2, <1>3, Zenon DEF Display

LEMMA ShutdownKeeps == ASSUME QueueSizes, CockpitInvariant, Shutdown PROVE CockpitInvariant'
<1> USE DEF CockpitInvariant
<1>1. /\ tick' = tick /\ decoding' = decoding /\ sequence' = sequence /\ ui' = ui
      /\ stats' = stats
  BY DEF Shutdown
<1>2. CASE /\ joined = "rx" /\ tick = FramesToSend /\ joined' = "decode"
           /\ frames' = [frames EXCEPT !.closed = TRUE] /\ states' = states
  <2>1. /\ frames' \in [items : Seq(BOOLEAN), closed : BOOLEAN] /\ frames'.items = frames.items
    BY <1>2 DEF Types
  <2>2. Types' /\ Room'
    BY <1>1, <1>2, <2>1, Zenon DEF Types, Room
  <2>3. Ends'
    BY <1>1, <1>2, <2>1 DEF Ends
  <2>4. Books'
    BY <1>1, <1>2, <2>1, Zenon DEF Books, FrameBook, StateBook, AtHand
  <2>5. QED
    BY <2>2, <2>3, <2>4
<1>3. CASE /\ joined = "decode" /\ decoding = "done" /\ joined' = "ui"
           /\ states' = [states EXCEPT !.closed = TRUE] /\ frames' = frames
  <2>1. states' \in [items : Seq(Nat), closed : BOOLEAN] /\ states'.items = states.items
    BY <1>3 DEF Types
  <2>2. Types' /\ Room'
    BY <1>1, <1>3, <2>1, Zenon DEF Types, Room
  <2>3. Ends'
    BY <1>1, <1>3, <2>1 DEF Ends
  <2>4. Books'
    BY <1>1, <1>3, <2>1, Zenon DEF Books, FrameBook, StateBook, AtHand
  <2>5. QED
    BY <2>2, <2>3, <2>4
<1>4. CASE /\ joined = "ui" /\ ui = "done" /\ joined' = "report"
           /\ frames' = frames /\ states' = states
  <2>1. Types' /\ Room'
    BY <1>1, <1>4, Zenon DEF Types, Room
  <2>2. Ends'
    BY <1>1, <1>4 DEF Ends
  <2>3. Books'
    BY <1>1, <1>4, Zenon DEF Books, FrameBook, StateBook, AtHand
  <2>4. QED
    BY <2>1, <2>2, <2>3
<1>5. QED
  BY <1>2, <1>3, <1>4, Zenon DEF Shutdown

LEMMA FirstState == ASSUME QueueSizes, CockpitInit PROVE CockpitInvariant
<1> USE DEF CockpitInit
<1>1. /\ frames = [items |-> <<>>, closed |-> FALSE] /\ states = frames
      /\ stats = [c \in Counters |-> 0]
  BY DEF Counters
<1>2. Types
  BY <1>1 DEF Types
<1>3. Ends
  BY <1>1 DEF Ends
<1>4. Room
  BY <1>1 DEF Room, QueueSizes
<1>5. Books
  BY <1>1 DEF Books, FrameBook, StateBook, AtHand, Counters
<1>6. QED
  BY <1>2, <1>3, <1>4, <1>5 DEF CockpitInvariant

LEMMA StepKeeps ==
    ASSUME QueueSizes, CockpitInvariant, [CockpitNext]_cockpitVars PROVE CockpitInvariant'
<1>1. CASE CockpitNext
  BY <1>1, ReceiveKeeps, DecodeNextKeeps, PushStateKeeps, MakeRoomKeeps, PushAgainKeeps,
     DisplayKeeps, ShutdownKeeps, Zenon DEF CockpitNext, Decoder
<1>2. CASE UNCHANGED cockpitVars
  BY <1>2, Zenon DEF cockpitVars, CockpitInvariant, Types, Ends, Room,
     Books, FrameBook, StateBook, AtHand
<1>3. QED
  BY <1>1, <1>2

\* At the report both queues are empty and the decoder has nothing at hand.
LEMMA NothingRemains == ASSUME CockpitInvariant PROVE NoWorkThrownAway
<1> SUFFICES ASSUME joined = "report"
             PROVE  /\ stats.produced = stats.decoded + stats.failures
                    /\ stats.decoded = stats.displayed + stats.discarded
  BY DEF NoWorkThrownAway
<1>1. /\ decoding = "done" /\ frames.items = <<>> /\ states.items = <<>>
  BY DEF CockpitInvariant, Ends
<1>2. AtHand = 0 /\ Len(frames.items) = 0 /\ Len(states.items) = 0
  BY <1>1 DEF AtHand
<1>3. \A d \in Counters : stats[d] \in Nat
  BY DEF CockpitInvariant, Types
<1>4. QED
  BY <1>2, <1>3 DEF CockpitInvariant, Books, FrameBook, StateBook, Counters

\* Closing the queues in the order of the threads throws nothing away: what was
\* received has been decoded or counted as a failure, and what was decoded has
\* been displayed or made room for something newer, whatever the speeds of the
\* threads (cockpit/main.cpp:181-198).
THEOREM ShutdownLosesNothing ==
    ASSUME QueueSizes
    PROVE  CockpitSpec => []NoWorkThrownAway
<1>1. CockpitInit => CockpitInvariant
  BY FirstState
<1>2. CockpitInvariant /\ [CockpitNext]_cockpitVars => CockpitInvariant'
  BY StepKeeps
<1>3. CockpitInvariant => NoWorkThrownAway
  BY NothingRemains
<1>4. QED
  BY <1>1, <1>2, <1>3, PTL DEF CockpitSpec
=============================================================================
