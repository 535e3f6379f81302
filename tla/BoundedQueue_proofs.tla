------------------------- MODULE BoundedQueue_proofs -------------------------
(***************************************************************************)
(* Theorems about BoundedQueue, for every capacity and every finite set of *)
(* threads: its variables keep their types, no wake-up is ever lost, and   *)
(* the ring implements the FIFO of QueueContract.                          *)
(***************************************************************************)
EXTENDS BoundedQueue, FiniteSetTheorems, SequenceTheorems, TLAPS

(***************************************************************************)
(* Counting the threads at a place.                                        *)
(***************************************************************************)
AtOf(f, where) == {t \in Threads : f[t] = where}

\* The threads at a place are finitely many, so they can be counted.
LEMMA FiniteAt ==
    ASSUME NEW f, NEW where
    PROVE  /\ IsFiniteSet(AtOf(f, where))
           /\ Cardinality(AtOf(f, where)) \in Nat
  <1>1. IsFiniteSet(Threads)
    BY ThreadsAssumption, FS_Union DEF Threads
  <1>2. AtOf(f, where) \subseteq Threads
    BY DEF AtOf
  <1>. QED
    BY <1>1, <1>2, FS_Subset, FS_CardinalityType

\* A thread that moves is one fewer where it was and one more where it goes.
LEMMA MoveOne ==
    ASSUME NEW f \in [Threads -> Places], NEW g \in [Threads -> Places],
           NEW t \in Threads, NEW from, NEW to,
           f[t] = from, g[t] = to, from # to,
           \A s \in Threads \ {t} : g[s] = f[s]
    PROVE  /\ Cardinality(AtOf(g, to)) = Cardinality(AtOf(f, to)) + 1
           /\ Cardinality(AtOf(g, from)) = Cardinality(AtOf(f, from)) - 1
           /\ \A x : x # to /\ x # from => AtOf(g, x) = AtOf(f, x)
  <1>1. AtOf(g, to) = AtOf(f, to) \cup {t} /\ t \notin AtOf(f, to)
    BY DEF AtOf
  <1>2. AtOf(g, from) = AtOf(f, from) \ {t} /\ t \in AtOf(f, from)
    BY DEF AtOf
  <1>3. \A x : x # to /\ x # from => AtOf(g, x) = AtOf(f, x)
    BY DEF AtOf
  <1>4. Cardinality(AtOf(g, to)) = Cardinality(AtOf(f, to)) + 1
    BY ZenonT(60), <1>1, FiniteAt, FS_AddElement
  <1>5. Cardinality(AtOf(g, from)) = Cardinality(AtOf(f, from)) - 1
    BY ZenonT(60), <1>2, FiniteAt, FS_RemoveElement
  <1>. QED
    BY <1>3, <1>4, <1>5

\* Two moves in a row: t leaves from, then w is moved by t out of its sleep.
LEMMA MoveTwo ==
    ASSUME NEW f \in [Threads -> Places], NEW g \in [Threads -> Places],
           NEW h \in [Threads -> Places],
           NEW t \in Threads, NEW w \in Threads,
           \A s \in Threads \ {t} : g[s] = f[s],
           \A s \in Threads \ {w} : h[s] = g[s],
           f[t] # g[t], g[w] # h[w],
           f[t] # g[w], f[t] # h[w], g[w] # g[t], h[w] # g[t]
    PROVE  /\ Cardinality(AtOf(h, h[w])) = Cardinality(AtOf(f, h[w])) + 1
           /\ Cardinality(AtOf(h, f[t])) = Cardinality(AtOf(f, f[t])) - 1
           /\ Cardinality(AtOf(h, g[w])) = Cardinality(AtOf(f, g[w])) - 1
           /\ \A x : x \notin {g[t], h[w], f[t], g[w]} => AtOf(h, x) = AtOf(f, x)
  <1>1. /\ Cardinality(AtOf(g, f[t])) = Cardinality(AtOf(f, f[t])) - 1
        /\ \A x : x # g[t] /\ x # f[t] => AtOf(g, x) = AtOf(f, x)
    BY MoveOne
  <1>2. /\ Cardinality(AtOf(h, h[w])) = Cardinality(AtOf(g, h[w])) + 1
        /\ Cardinality(AtOf(h, g[w])) = Cardinality(AtOf(g, g[w])) - 1
        /\ \A x : x # h[w] /\ x # g[w] => AtOf(h, x) = AtOf(g, x)
    BY MoveOne
  <1>. QED
    BY <1>1, <1>2

-----------------------------------------------------------------------------
(***************************************************************************)
(* Type correctness.                                                       *)
(***************************************************************************)
\* Adding one to an index of the ring leaves an index of the ring.
LEMMA Wraps ==
    ASSUME NEW i \in 0 .. Capacity - 1
    PROVE  (i + 1) % Capacity \in 0 .. Capacity - 1
  BY CapacityAssumption

\* Every step keeps the types.
LEMMA TypeStep == TypeInvariant /\ [Next]_vars => TypeInvariant'
  <1>. SUFFICES ASSUME TypeInvariant, [Next]_vars PROVE TypeInvariant'
    OBVIOUS
  <1>. USE DEF TypeInvariant, Places, Statuses
  <1>1. CASE UNCHANGED vars
    BY <1>1 DEF vars
  <1>2. ASSUME NEW t \in Threads, Call(t) PROVE TypeInvariant'
    BY <1>2 DEF Call, CallPush, CallPop, CallClose, Enter, Goto, ring
  <1>3. ASSUME NEW t \in Threads, SpuriousWake(t) PROVE TypeInvariant'
    BY <1>3 DEF SpuriousWake, Goto, ring
  <1>4. ASSUME NEW t \in Threads, NEW s, Refuse(t, s), s \in Statuses \cup {None}
        PROVE TypeInvariant'
    BY <1>4 DEF Refuse, Goto, ring
  <1>5. ASSUME NEW t \in Threads, Accept(t), count # Capacity PROVE TypeInvariant'
    <2>1. (tail + 1) % Capacity \in 0 .. Capacity - 1
      BY Wraps
    <2>2. count + 1 \in 0 .. Capacity
      BY <1>5, CapacityAssumption
    <2>. QED
      BY <1>5, <2>1, <2>2 DEF Accept, Emplace, Goto
  <1>6. ASSUME NEW t \in Threads, Remove(t), count # 0 PROVE TypeInvariant'
    <2>1. (head + 1) % Capacity \in 0 .. Capacity - 1
      BY Wraps
    <2>2. count - 1 \in 0 .. Capacity
      BY <1>6, CapacityAssumption
    <2>. QED
      BY <1>6, <2>1, <2>2 DEF Remove, Take, Goto
  <1>7. ASSUME NEW t \in Threads, NEW w \in Places, Sleep(t, w) PROVE TypeInvariant'
    BY <1>7 DEF Sleep, Goto, ring
  <1>8. ASSUME NEW t \in Threads, Step(t) PROVE TypeInvariant'
    <2>1. CASE Push(t)
      BY SMTT(60), <2>1, <1>4, <1>5, <1>7, CapacityAssumption DEF Push
    <2>2. CASE TryPush(t)
      BY <2>2, <1>4, <1>5, CapacityAssumption DEF TryPush
    <2>3. CASE Pop(t)
      BY <2>3, <1>4, <1>6, <1>7 DEF Pop
    <2>4. CASE TryPop(t)
      BY <2>4, <1>4, <1>6 DEF TryPop
    <2>5. CASE Close(t)
      BY <2>5 DEF Close, Goto, ring
    <2>6. CASE SignalEmpty(t) \/ SignalFull(t)
      BY <2>6 DEF SignalEmpty, SignalFull, NotifyOne, HandOver, Goto, ring
    <2>7. CASE WakeFull(t) \/ WakeEmpty(t)
      BY <2>7 DEF WakeFull, WakeEmpty, NotifyAll, ring
    <2>. QED
      BY <1>8, <2>1, <2>2, <2>3, <2>4, <2>5, <2>6, <2>7 DEF Step
  <1>. QED
    BY <1>1, <1>2, <1>3, <1>8 DEF Next

\* A new queue has its types.
LEMMA InitTypes == Init => TypeInvariant
  <1>1. 0 \in 0 .. Capacity - 1 /\ 0 \in 0 .. Capacity
    BY CapacityAssumption
  <1>. QED
    BY <1>1 DEF Init, TypeInvariant, Places

\* Every variable of the queue always has its type; in particular the count
\* never exceeds the capacity (lines 64 and 87).
THEOREM TypeCorrect == Spec => []TypeInvariant
  BY InitTypes, TypeStep, PTL DEF Spec

-----------------------------------------------------------------------------
(***************************************************************************)
(* No wake-up is lost.                                                     *)
(*                                                                         *)
(* The three properties are inductive together with the fact that a thread *)
(* in the second half of close() has already set closed_: without it a     *)
(* notify_all could hand a producer a slot that nobody refuses it.         *)
(***************************************************************************)
ClosersHaveClosed == At("wakeFull") \cup At("wakeEmpty") # {} => closed

WakeUps ==
    /\ TypeInvariant
    /\ ClosersHaveClosed
    /\ NoConsumerForgotten
    /\ NoProducerForgotten
    /\ NoSleepAfterClose

\* What the wake-up properties depend on besides count and closed.
\* The numbers of threads at each place before and after a step are naturals.
LEMMA Counts ==
    ASSUME NEW where
    PROVE  /\ At(where) = AtOf(pc, where)
           /\ At(where)' = AtOf(pc', where)
           /\ Cardinality(At(where)) \in Nat
           /\ Cardinality(At(where)') \in Nat
           /\ Cardinality(At(where)) = 0 <=> At(where) = {}
           /\ Cardinality(At(where)') = 0 <=> At(where)' = {}
  <1>1. At(where) = AtOf(pc, where) /\ At(where)' = AtOf(pc', where)
    BY DEF At, AtOf
  <1>. QED
    BY <1>1, FiniteAt, FS_EmptySet

\* A step that moves one thread changes the counts of two places only.
LEMMA Moved ==
    ASSUME TypeInvariant, NEW t \in Threads, NEW from, NEW to \in Places,
           pc[t] = from, from # to, Goto(t, to)
    PROVE  /\ Cardinality(At(to)') = Cardinality(At(to)) + 1
           /\ Cardinality(At(from)') = Cardinality(At(from)) - 1
           /\ \A x : x # to /\ x # from => At(x)' = At(x)
  <1>1. /\ pc \in [Threads -> Places]
        /\ pc' \in [Threads -> Places]
        /\ pc'[t] = to
        /\ \A s \in Threads \ {t} : pc'[s] = pc[s]
    BY DEF TypeInvariant, Goto
  <1>2. /\ Cardinality(AtOf(pc', to)) = Cardinality(AtOf(pc, to)) + 1
        /\ Cardinality(AtOf(pc', from)) = Cardinality(AtOf(pc, from)) - 1
        /\ \A x : x # to /\ x # from => AtOf(pc', x) = AtOf(pc, x)
    BY <1>1, MoveOne
  <1>3. \A x : At(x) = AtOf(pc, x) /\ At(x)' = AtOf(pc', x)
    BY DEF At, AtOf
  <1>. QED
    BY <1>2, <1>3

\* A notify_one that finds a sleeper moves the sleeper as well.
LEMMA MovedTwo ==
    ASSUME TypeInvariant, NEW t \in Threads, NEW w \in Threads, NEW to \in Places,
           HandOver(t, w, to),
           pc[t] # pc[w], to # pc[w], to # "ready", pc[t] # "ready", pc[t] # to,
           pc[w] # "ready"
    PROVE  /\ Cardinality(At(to)') = Cardinality(At(to)) + 1
           /\ \A x : x = pc[t] => Cardinality(At(x)') = Cardinality(At(x)) - 1
           /\ \A x : x \notin {"ready", to, pc[t], pc[w]} => At(x)' = At(x)
  <1>0. PICK f, g, h : f = pc /\ g = [pc EXCEPT ![t] = "ready"] /\ h = pc'
    OBVIOUS
  <1>1. f \in [Threads -> Places] /\ g \in [Threads -> Places] /\ h \in [Threads -> Places]
    BY <1>0 DEF TypeInvariant, Places, HandOver
  <1>2. f[t] = pc[t] /\ g[t] = "ready" /\ g[w] = pc[w] /\ h[w] = to
    BY <1>0, <1>1 DEF HandOver
  <1>3. /\ \A s \in Threads \ {t} : g[s] = f[s]
        /\ \A s \in Threads \ {w} : h[s] = g[s]
    BY <1>0, <1>1 DEF HandOver
  <1>4. /\ Cardinality(AtOf(h, h[w])) = Cardinality(AtOf(f, h[w])) + 1
        /\ Cardinality(AtOf(h, f[t])) = Cardinality(AtOf(f, f[t])) - 1
        /\ Cardinality(AtOf(h, g[w])) = Cardinality(AtOf(f, g[w])) - 1
        /\ \A x : x \notin {g[t], h[w], f[t], g[w]} => AtOf(h, x) = AtOf(f, x)
    <2>1. f[t] # g[t] /\ g[w] # h[w] /\ f[t] # g[w] /\ f[t] # h[w] /\ g[w] # g[t] /\ h[w] # g[t]
      BY <1>2
    <2>. QED
      BY <1>1, <1>3, <2>1, MoveTwo
  <1>5. \A x : At(x) = AtOf(f, x) /\ At(x)' = AtOf(h, x)
    BY <1>0 DEF At, AtOf
  <1>6. /\ Cardinality(At(to)') = Cardinality(At(to)) + 1
        /\ \A x : x = pc[t] => Cardinality(At(x)') = Cardinality(At(x)) - 1
    BY <1>2, <1>4, <1>5
  <1>7. \A x : x \notin {"ready", to, pc[t], pc[w]} => At(x)' = At(x)
    BY <1>2, <1>4, <1>5
  <1>. QED
    BY <1>6, <1>7

-----------------------------------------------------------------------------
\* A thread that enters the queue disturbs nothing.
LEMMA CallKeeps ==
    ASSUME WakeUps, NEW t \in Threads, Call(t)
    PROVE  NoConsumerForgotten' /\ NoProducerForgotten' /\ NoSleepAfterClose'
           /\ ClosersHaveClosed'
  <1>1. PICK to \in {"push", "tryPush", "pop", "tryPop", "close"} :
          pc[t] = "ready" /\ Goto(t, to) /\ UNCHANGED <<count, closed>>
    BY DEF Call, CallPush, CallPop, CallClose, Enter, ring
  <1>2. to \in Places /\ TypeInvariant
    BY DEF Places, WakeUps
  <1>3. /\ Cardinality(At(to)') = Cardinality(At(to)) + 1
        /\ \A x : x # to /\ x # "ready" => At(x)' = At(x)
    BY <1>1, <1>2, Moved
  <1>4. count \in Nat /\ Capacity \in Nat
    BY <1>2, CapacityAssumption DEF TypeInvariant
  <1>5. \A x : Cardinality(At(x)) \in Nat /\ Cardinality(At(x)') \in Nat
    BY Counts
  <1>6. /\ Cardinality(At("pop")') >= Cardinality(At("pop"))
        /\ Cardinality(At("push")') >= Cardinality(At("push"))
        /\ \A x \in {"emptyWait", "fullWait", "signalEmpty", "signalFull", "wakeFull", "wakeEmpty"} :
              At(x)' = At(x)
    BY <1>1, <1>3, <1>5
  <1>. QED
    BY <1>1, <1>4, <1>5, <1>6
    DEF WakeUps, NoConsumerForgotten, NoProducerForgotten, NoSleepAfterClose, ClosersHaveClosed

\* Numbers that every case below compares.
LEMMA Numbers ==
    ASSUME TypeInvariant
    PROVE  /\ count \in Nat /\ count <= Capacity /\ Capacity \in Nat
           /\ \A x : Cardinality(At(x)) \in Nat /\ Cardinality(At(x)') \in Nat
  BY CapacityAssumption, Counts DEF TypeInvariant

\* A thread that leaves refused: it stood on nobody's behalf, because the
\* queue is closed (a push), empty (a pop), or it only tried.
LEMMA RefuseKeeps ==
    ASSUME WakeUps, NEW t \in Threads, NEW status, Refuse(t, status),
           NEW from \in {"push", "pop", "tryPush", "tryPop"}, pc[t] = from,
           from = "push" => closed,
           from = "pop" => count = 0
    PROVE  NoConsumerForgotten' /\ NoProducerForgotten' /\ NoSleepAfterClose'
           /\ ClosersHaveClosed'
  <1>1. TypeInvariant /\ "ready" \in Places /\ Goto(t, "ready") /\ UNCHANGED <<count, closed>>
    BY DEF Places, WakeUps, Refuse, ring
  <1>2. \A x : x # "ready" /\ x # from => At(x)' = At(x)
    BY <1>1, Moved
  <1>. QED
    BY <1>1, <1>2, Numbers
    DEF WakeUps, NoConsumerForgotten, NoProducerForgotten, NoSleepAfterClose, ClosersHaveClosed

\* A thread that puts an item in becomes the one that must tell a consumer.
LEMMA AcceptKeeps ==
    ASSUME WakeUps, NEW t \in Threads, Accept(t),
           NEW from \in {"push", "tryPush"}, pc[t] = from, ~closed
    PROVE  NoConsumerForgotten' /\ NoProducerForgotten' /\ NoSleepAfterClose'
           /\ ClosersHaveClosed'
  <1>1. /\ TypeInvariant /\ "signalEmpty" \in Places /\ Goto(t, "signalEmpty")
        /\ count' = count + 1 /\ UNCHANGED closed
    BY DEF Places, WakeUps, Accept, Emplace
  <1>2. /\ Cardinality(At("signalEmpty")') = Cardinality(At("signalEmpty")) + 1
        /\ Cardinality(At(from)') = Cardinality(At(from)) - 1
        /\ \A x : x # "signalEmpty" /\ x # from => At(x)' = At(x)
    BY <1>1, Moved
  <1>3. Cardinality(At("push")') >= Cardinality(At("push")) - 1
    BY <1>2, Numbers, <1>1
  <1>4. \A x \in {"pop", "emptyWait", "fullWait", "signalFull", "wakeFull", "wakeEmpty"} :
           At(x)' = At(x)
    BY <1>2
  <1>. QED
    BY <1>1, <1>2, <1>3, <1>4, Numbers
    DEF WakeUps, NoConsumerForgotten, NoProducerForgotten, NoSleepAfterClose, ClosersHaveClosed

\* A thread that takes an item out becomes the one that must tell a producer.
LEMMA RemoveKeeps ==
    ASSUME WakeUps, NEW t \in Threads, Remove(t),
           NEW from \in {"pop", "tryPop"}, pc[t] = from
    PROVE  NoConsumerForgotten' /\ NoProducerForgotten' /\ NoSleepAfterClose'
           /\ ClosersHaveClosed'
  <1>1. /\ TypeInvariant /\ "signalFull" \in Places /\ Goto(t, "signalFull")
        /\ count' = count - 1 /\ UNCHANGED closed
    BY DEF Places, WakeUps, Remove, Take
  <1>2. /\ Cardinality(At("signalFull")') = Cardinality(At("signalFull")) + 1
        /\ Cardinality(At(from)') = Cardinality(At(from)) - 1
        /\ \A x : x # "signalFull" /\ x # from => At(x)' = At(x)
    BY <1>1, Moved
  <1>3. Cardinality(At("pop")') >= Cardinality(At("pop")) - 1
    BY <1>2, Numbers, <1>1
  <1>4. \A x \in {"push", "emptyWait", "fullWait", "signalEmpty", "wakeFull", "wakeEmpty"} :
           At(x)' = At(x)
    BY <1>2
  <1>. QED
    BY <1>1, <1>2, <1>3, <1>4, Numbers
    DEF WakeUps, NoConsumerForgotten, NoProducerForgotten, NoSleepAfterClose, ClosersHaveClosed

\* A thread falls asleep only on an open queue that has nothing for it.
LEMMA SleepKeeps ==
    ASSUME WakeUps, NEW t \in Threads, NEW where, Sleep(t, where), ~closed,
           \/ pc[t] = "push" /\ where = "fullWait" /\ count = Capacity
           \/ pc[t] = "pop" /\ where = "emptyWait" /\ count = 0
    PROVE  NoConsumerForgotten' /\ NoProducerForgotten' /\ NoSleepAfterClose'
           /\ ClosersHaveClosed'
  <1>1. TypeInvariant /\ where \in Places /\ Goto(t, where) /\ UNCHANGED <<count, closed>>
    BY DEF Places, WakeUps, Sleep, ring
  <1>2. \A x : x # where /\ x # pc[t] => At(x)' = At(x)
    BY <1>1, Moved
  <1>. QED
    BY <1>1, <1>2, Numbers
    DEF WakeUps, NoConsumerForgotten, NoProducerForgotten, NoSleepAfterClose, ClosersHaveClosed

\* A closer sets the flag and still owes both notifications.
LEMMA CloseKeeps ==
    ASSUME WakeUps, NEW t \in Threads, Close(t)
    PROVE  NoConsumerForgotten' /\ NoProducerForgotten' /\ NoSleepAfterClose'
           /\ ClosersHaveClosed'
  <1>1. /\ TypeInvariant /\ "wakeFull" \in Places /\ Goto(t, "wakeFull")
        /\ pc[t] = "close" /\ closed' = TRUE /\ UNCHANGED count
    BY DEF Places, WakeUps, Close, ring
  <1>2. /\ Cardinality(At("wakeFull")') = Cardinality(At("wakeFull")) + 1
        /\ \A x : x # "wakeFull" /\ x # "close" => At(x)' = At(x)
    BY <1>1, Moved
  <1>3. At("wakeFull")' # {}
    BY <1>2, Numbers, <1>1, Counts
  <1>. QED
    BY <1>1, <1>2, <1>3, Numbers
    DEF WakeUps, NoConsumerForgotten, NoProducerForgotten, NoSleepAfterClose, ClosersHaveClosed

\* notify_one on not_empty_: the owed notification becomes a woken consumer, or
\* nobody was asleep.
LEMMA SignalEmptyKeeps ==
    ASSUME WakeUps, NEW t \in Threads, SignalEmpty(t)
    PROVE  NoConsumerForgotten' /\ NoProducerForgotten' /\ NoSleepAfterClose'
           /\ ClosersHaveClosed'
  <1>1. /\ TypeInvariant /\ pc[t] = "signalEmpty" /\ UNCHANGED <<count, closed>>
        /\ "ready" \in Places /\ "pop" \in Places
    BY DEF Places, WakeUps, SignalEmpty, NotifyOne, ring
  <1>2. CASE At("emptyWait") = {} /\ Goto(t, "ready")
    <2>1. \A x : x # "ready" /\ x # "signalEmpty" => At(x)' = At(x)
      BY <1>1, <1>2, Moved
    <2>. QED
      BY <1>1, <1>2, <2>1, Numbers
      DEF WakeUps, NoConsumerForgotten, NoProducerForgotten, NoSleepAfterClose, ClosersHaveClosed
  <1>3. ASSUME NEW w \in At("emptyWait"), HandOver(t, w, "pop")
        PROVE  NoConsumerForgotten' /\ NoProducerForgotten' /\ NoSleepAfterClose'
               /\ ClosersHaveClosed'
    <2>1. w \in Threads /\ pc[w] = "emptyWait"
      BY DEF At
    <2>2. /\ Cardinality(At("pop")') = Cardinality(At("pop")) + 1
          /\ Cardinality(At("signalEmpty")') = Cardinality(At("signalEmpty")) - 1
          /\ \A x : x \notin {"ready", "pop", "signalEmpty", "emptyWait"} => At(x)' = At(x)
      BY <1>1, <1>3, <2>1, MovedTwo
    <2>3. At("emptyWait") # {}
      BY <1>3
    <2>. QED
      BY <1>1, <2>2, <2>3, Numbers
      DEF WakeUps, NoConsumerForgotten, NoProducerForgotten, NoSleepAfterClose, ClosersHaveClosed
  <1>. QED
    BY <1>2, <1>3 DEF SignalEmpty, NotifyOne

\* notify_one on not_full_, the mirror image.
LEMMA SignalFullKeeps ==
    ASSUME WakeUps, NEW t \in Threads, SignalFull(t)
    PROVE  NoConsumerForgotten' /\ NoProducerForgotten' /\ NoSleepAfterClose'
           /\ ClosersHaveClosed'
  <1>1. /\ TypeInvariant /\ pc[t] = "signalFull" /\ UNCHANGED <<count, closed>>
        /\ "ready" \in Places /\ "push" \in Places
    BY DEF Places, WakeUps, SignalFull, NotifyOne, ring
  <1>2. CASE At("fullWait") = {} /\ Goto(t, "ready")
    <2>1. \A x : x # "ready" /\ x # "signalFull" => At(x)' = At(x)
      BY <1>1, <1>2, Moved
    <2>. QED
      BY <1>1, <1>2, <2>1, Numbers
      DEF WakeUps, NoConsumerForgotten, NoProducerForgotten, NoSleepAfterClose, ClosersHaveClosed
  <1>3. ASSUME NEW w \in At("fullWait"), HandOver(t, w, "push")
        PROVE  NoConsumerForgotten' /\ NoProducerForgotten' /\ NoSleepAfterClose'
               /\ ClosersHaveClosed'
    <2>1. w \in Threads /\ pc[w] = "fullWait"
      BY DEF At
    <2>2. /\ Cardinality(At("push")') = Cardinality(At("push")) + 1
          /\ Cardinality(At("signalFull")') = Cardinality(At("signalFull")) - 1
          /\ \A x : x \notin {"ready", "push", "signalFull", "fullWait"} => At(x)' = At(x)
      BY <1>1, <1>3, <2>1, MovedTwo
    <2>3. At("fullWait") # {}
      BY <1>3
    <2>. QED
      BY <1>1, <2>2, <2>3, Numbers
      DEF WakeUps, NoConsumerForgotten, NoProducerForgotten, NoSleepAfterClose, ClosersHaveClosed
  <1>. QED
    BY <1>2, <1>3 DEF SignalFull, NotifyOne

\* A wake-up without a cause puts one more thread on its way to the mutex.
LEMMA SpuriousKeeps ==
    ASSUME WakeUps, NEW t \in Threads, SpuriousWake(t)
    PROVE  NoConsumerForgotten' /\ NoProducerForgotten' /\ NoSleepAfterClose'
           /\ ClosersHaveClosed'
  <1>1. TypeInvariant /\ UNCHANGED <<count, closed>> /\ "push" \in Places /\ "pop" \in Places
    BY DEF WakeUps, Places, SpuriousWake, ring
  <1>2. CASE pc[t] = "fullWait" /\ Goto(t, "push")
    <2>1. /\ Cardinality(At("push")') = Cardinality(At("push")) + 1
          /\ \A x : x # "push" /\ x # "fullWait" => At(x)' = At(x)
      BY <1>1, <1>2, Moved
    <2>2. At("fullWait") # {}
      BY <1>2 DEF At
    <2>. QED
      BY <1>1, <2>1, <2>2, Numbers
      DEF WakeUps, NoConsumerForgotten, NoProducerForgotten, NoSleepAfterClose, ClosersHaveClosed
  <1>3. CASE pc[t] = "emptyWait" /\ Goto(t, "pop")
    <2>1. /\ Cardinality(At("pop")') = Cardinality(At("pop")) + 1
          /\ \A x : x # "pop" /\ x # "emptyWait" => At(x)' = At(x)
      BY <1>1, <1>3, Moved
    <2>2. At("emptyWait") # {}
      BY <1>3 DEF At
    <2>. QED
      BY <1>1, <2>1, <2>2, Numbers
      DEF WakeUps, NoConsumerForgotten, NoProducerForgotten, NoSleepAfterClose, ClosersHaveClosed
  <1>. QED
    BY <1>2, <1>3 DEF SpuriousWake

\* notify_all in close(): nobody is left on that condition variable.
LEMMA NotifyAllKeeps ==
    ASSUME WakeUps, NEW t \in Threads, WakeFull(t) \/ WakeEmpty(t)
    PROVE  NoConsumerForgotten' /\ NoProducerForgotten' /\ NoSleepAfterClose'
           /\ ClosersHaveClosed'
  <1>1. TypeInvariant /\ UNCHANGED <<count, closed>>
    BY DEF WakeUps, WakeFull, WakeEmpty, NotifyAll, ring
  <1>2. closed
    BY DEF WakeUps, ClosersHaveClosed, At, WakeFull, WakeEmpty
  <1>3. CASE WakeFull(t)
    <2>1. At("fullWait")' = {} /\ t \in At("wakeEmpty")'
      BY <1>3 DEF WakeFull, NotifyAll, At
    <2>2. \A x \in {"emptyWait", "signalEmpty", "pop"} : At(x)' = At(x)
      BY <1>3 DEF WakeFull, NotifyAll, At
    <2>. QED
      BY <1>1, <1>2, <2>1, <2>2, Numbers
      DEF WakeUps, NoConsumerForgotten, NoProducerForgotten, NoSleepAfterClose, ClosersHaveClosed
  <1>4. CASE WakeEmpty(t)
    <2>1. At("emptyWait")' = {}
      BY <1>4 DEF WakeEmpty, NotifyAll, At
    <2>2. \A x \in {"fullWait", "wakeFull"} : At(x)' = At(x)
      BY <1>4 DEF WakeEmpty, NotifyAll, At
    <2>. QED
      BY <1>1, <1>2, <2>1, <2>2, Numbers
      DEF WakeUps, NoConsumerForgotten, NoProducerForgotten, NoSleepAfterClose, ClosersHaveClosed
  <1>. QED
    BY <1>3, <1>4

\* Every step keeps the wake-up invariant.
LEMMA WakeUpsStep == WakeUps /\ [Next]_vars => WakeUps'
  <1>. SUFFICES ASSUME WakeUps, [Next]_vars PROVE WakeUps'
    OBVIOUS
  <1>. DEFINE Rest == NoConsumerForgotten' /\ NoProducerForgotten' /\ NoSleepAfterClose'
                      /\ ClosersHaveClosed'
  <1>0. TypeInvariant'
    BY TypeStep DEF WakeUps
  <1>1. CASE UNCHANGED vars
    BY <1>0, <1>1 DEF vars, WakeUps, ClosersHaveClosed, NoConsumerForgotten,
                      NoProducerForgotten, NoSleepAfterClose, At
  <1>2. ASSUME NEW t \in Threads, Call(t) \/ SpuriousWake(t) PROVE Rest
    BY <1>2, CallKeeps, SpuriousKeeps
  <1>3. ASSUME NEW t \in Threads, Push(t) PROVE Rest
    <2>1. count < Capacity \/ count = Capacity
      BY Numbers DEF WakeUps
    <2>2. CASE closed /\ Refuse(t, "Closed") /\ pc[t] = "push"
      BY <2>2, RefuseKeeps
    <2>3. CASE ~closed /\ Accept(t) /\ pc[t] = "push"
      BY <2>3, AcceptKeeps
    <2>4. CASE ~closed /\ count = Capacity /\ Sleep(t, "fullWait") /\ pc[t] = "push"
      BY <2>4, SleepKeeps
    <2>. QED
      BY <1>3, <2>1, <2>2, <2>3, <2>4 DEF Push
  <1>4. ASSUME NEW t \in Threads, TryPush(t) PROVE Rest
    BY <1>4, RefuseKeeps, AcceptKeeps DEF TryPush
  <1>5. ASSUME NEW t \in Threads, Pop(t) PROVE Rest
    BY <1>5, RefuseKeeps, RemoveKeeps, SleepKeeps, Numbers DEF Pop, WakeUps
  <1>6. ASSUME NEW t \in Threads, TryPop(t) PROVE Rest
    BY <1>6, RefuseKeeps, RemoveKeeps DEF TryPop
  <1>7. ASSUME NEW t \in Threads, Step(t) PROVE Rest
    BY <1>3, <1>4, <1>5, <1>6, <1>7, CloseKeeps, SignalEmptyKeeps, SignalFullKeeps,
       NotifyAllKeeps DEF Step
  <1>. QED
    BY <1>0, <1>1, <1>2, <1>7 DEF Next, WakeUps

\* The wake-up invariant holds in every reachable state.
LEMMA WakeUpsHold == Spec => []WakeUps
  <1>1. Init => WakeUps
    <2>1. ASSUME Init, NEW x, x # "ready" PROVE At(x) = {}
      BY <2>1 DEF Init, At
    <2>. QED
      BY <2>1, InitTypes DEF WakeUps, ClosersHaveClosed, NoConsumerForgotten, NoProducerForgotten,
                        NoSleepAfterClose
  <1>. QED
    BY <1>1, WakeUpsStep, PTL DEF Spec

\* While a consumer sleeps, every item in the queue has a notification still to
\* be sent for it or a consumer on its way, although push() and try_push()
\* notify after they unlocked (lines 70-72).
THEOREM ConsumersRemembered == Spec => []NoConsumerForgotten
  BY WakeUpsHold, PTL DEF WakeUps

\* While a producer sleeps on an open queue, so has every free slot.
THEOREM ProducersRemembered == Spec => []NoProducerForgotten
  BY WakeUpsHold, PTL DEF WakeUps

\* After close() only a closer that has not reached its notify_all leaves
\* sleepers behind: nobody goes to sleep on a closed queue.
THEOREM ClosedQueueAwake == Spec => []NoSleepAfterClose
  BY WakeUpsHold, PTL DEF WakeUps

\* So no wake-up is lost, whoever sleeps.
THEOREM NobodyForgotten == Spec => []NothingForgotten
  BY ConsumersRemembered, ProducersRemembered, ClosedQueueAwake, PTL DEF NothingForgotten

-----------------------------------------------------------------------------
(***************************************************************************)
(* The contract.                                                           *)
(***************************************************************************)
Pushing == {"push", "tryPush", "fullWait"}
Popping == {"pop", "tryPop", "emptyWait"}

\* The ring is as long as count says, and whoever pushes has something to push.
RingInOrder ==
    /\ tail = (head + count) % Capacity
    /\ \A t \in Threads : pc[t] \in Pushing => t \in Producers /\ arg[t] \in Values
    /\ \A t \in Threads : pc[t] \in Popping => t \in Consumers

\* Indices go round at most once.
LEMMA Around ==
    \A n \in Nat : n < 2 * Capacity =>
        n % Capacity = IF n < Capacity THEN n ELSE n - Capacity
  <1>. SUFFICES ASSUME NEW n \in Nat, n < 2 * Capacity
                PROVE  n % Capacity = IF n < Capacity THEN n ELSE n - Capacity
    OBVIOUS
  <1>1. CASE n < Capacity
    BY <1>1, CapacityAssumption
  <1>2. CASE n >= Capacity
    <2>1. n - Capacity \in 0 .. Capacity - 1
      BY <1>2, CapacityAssumption
    <2>2. n = Capacity * 1 + (n - Capacity)
      BY CapacityAssumption
    <2>. QED
      BY <1>2, <2>1, <2>2, CapacityAssumption
  <1>. QED
    BY <1>1, <1>2, CapacityAssumption

\* What n slots s hold, read from h on: Content is this of slots, head, count.
Read(s, h, n) == [i \in 1 .. n |-> s[(h + i - 1) % Capacity]]

\* Where the i-th of them lies.
Place(h, i) == IF h + i <= Capacity THEN h + i - 1 ELSE h + i - 1 - Capacity

LEMMA PlaceIs ==
    ASSUME NEW h \in 0 .. Capacity - 1, NEW i \in 1 .. Capacity
    PROVE  (h + i - 1) % Capacity = Place(h, i) /\ Place(h, i) \in 0 .. Capacity - 1
  <1>1. PICK m \in Nat : m = h + i - 1
    BY CapacityAssumption
  <1>2. m < 2 * Capacity
    BY <1>1, CapacityAssumption
  <1>3. m % Capacity = IF m < Capacity THEN m ELSE m - Capacity
    BY <1>2, Around
  <1>. QED
    BY <1>1, <1>3, CapacityAssumption DEF Place

\* What is read of slots with values in T is a sequence r of such values.
IsRead(r, T, s, h, n) ==
    r \in Seq(T) /\ Len(r) = n /\ \A i \in 1 .. n : r[i] = s[Place(h, i)]

\* The slots read are a sequence.
LEMMA ReadIs ==
    ASSUME NEW T, NEW s \in [0 .. Capacity - 1 -> T],
           NEW h \in 0 .. Capacity - 1, NEW n \in 0 .. Capacity
    PROVE  IsRead(Read(s, h, n), T, s, h, n)
  <1>1. ASSUME NEW i \in 1 .. n
        PROVE  (h + i - 1) % Capacity = Place(h, i) /\ Place(h, i) \in 0 .. Capacity - 1
    <2>1. i \in 1 .. Capacity
      BY CapacityAssumption
    <2>. QED
      BY <2>1, PlaceIs
  <1>2. Read(s, h, n) \in [1 .. n -> T]
    BY <1>1 DEF Read
  <1>3. n \in Nat
    BY CapacityAssumption
  <1>4. Read(s, h, n) \in Seq(T)
    BY <1>2, <1>3, SeqDef
  <1>5. DOMAIN Read(s, h, n) = 1 .. n
    BY DEF Read
  <1>6. Len(Read(s, h, n)) = n
    BY <1>3, <1>4, <1>5, LenProperties
  <1>7. \A i \in 1 .. n : Read(s, h, n)[i] = s[(h + i - 1) % Capacity]
    BY DEF Read
  <1>. QED
    BY <1>1, <1>4, <1>6, <1>7 DEF IsRead

\* A value written behind the last one is appended, and the place behind moves on.
LEMMA ReadAppends ==
    ASSUME NEW T, NEW s \in [0 .. Capacity - 1 -> T], NEW v \in T,
           NEW h \in 0 .. Capacity - 1, NEW n \in 0 .. Capacity, n < Capacity
    PROVE  /\ Read([s EXCEPT ![(h + n) % Capacity] = v], h, n + 1) = Append(Read(s, h, n), v)
           /\ (((h + n) % Capacity) + 1) % Capacity = (h + (n + 1)) % Capacity
  <1>. DEFINE old == Read(s, h, n)
              app == Append(Read(s, h, n), v)
  <1>1. h \in Nat /\ h < Capacity /\ n \in Nat /\ Capacity \in Nat \ {0}
    BY CapacityAssumption
  <1>2. PICK p \in 0 .. Capacity - 1 : p = (h + n) % Capacity /\ p = Place(h, n + 1)
    <2>1. n + 1 \in 1 .. Capacity /\ h + (n + 1) - 1 = h + n
      BY <1>1
    <2>. QED
      BY <2>1, PlaceIs
  <1>3. PICK w \in [0 .. Capacity - 1 -> T] : w = [s EXCEPT ![p] = v]
    OBVIOUS
  <1>4. PICK m \in 0 .. Capacity : m = n + 1
    BY <1>1
  <1>5. PICK new \in Seq(T) : new = Read(w, h, m) /\ IsRead(new, T, w, h, m)
    <2>1. IsRead(Read(w, h, m), T, w, h, m)
      BY ReadIs, Zenon
    <2>. QED
      BY <2>1 DEF IsRead
  <1>6. Len(new) = m /\ \A i \in 1 .. m : new[i] = w[Place(h, i)]
    BY <1>5 DEF IsRead
  <1>7. old \in Seq(T) /\ Len(old) = n /\ \A i \in 1 .. n : old[i] = s[Place(h, i)]
    <2>1. IsRead(old, T, s, h, n)
      BY ReadIs, Zenon
    <2> HIDE DEF old
    <2>. QED
      BY <2>1 DEF IsRead
  <1>8. /\ app \in Seq(T)
        /\ Len(app) = m
        /\ \A i \in 1 .. n : app[i] = old[i]
        /\ app[n + 1] = v
    BY <1>4, <1>7, AppendProperties
  <1>9. ASSUME NEW i \in 1 .. m
        PROVE  new[i] = app[i]
    <2>1. i \in 1 .. Capacity
      BY <1>1, <1>4
    <2>0. Place(h, i) \in 0 .. Capacity - 1
      BY <2>1, PlaceIs
    <2>2. CASE i = n + 1
      BY <1>2, <1>3, <1>6, <1>8, <2>0, <2>2
    <2>3. CASE i # n + 1
      <3>1. i \in 1 .. n
        BY <1>1, <1>4, <2>3
      <3>2. Place(h, i) # Place(h, n + 1)
        BY <1>1, <3>1 DEF Place
      <3>3. w[Place(h, i)] = s[Place(h, i)]
        BY <1>2, <1>3, <2>0, <3>2
      <3>. QED
        BY <1>6, <1>7, <1>8, <3>1, <3>3
    <2>. QED
      BY <2>2, <2>3
  <1>10. new = app
    BY <1>5, <1>6, <1>8, <1>9, SeqEqual
  <1>11. (p + 1) % Capacity = (h + m) % Capacity
    <2>1. PICK q \in Nat : q = p + 1
      BY <1>2
    <2>2. PICK r \in Nat : r = h + m
      BY <1>1, <1>4
    <2>3. q < 2 * Capacity /\ r < 2 * Capacity
      BY <1>1, <1>2, <1>4, <2>1, <2>2
    <2>4. q % Capacity = IF q < Capacity THEN q ELSE q - Capacity
      BY <2>3, Around
    <2>5. r % Capacity = IF r < Capacity THEN r ELSE r - Capacity
      BY <2>3, Around
    <2>6. p = IF h + (n + 1) <= Capacity THEN h + (n + 1) - 1 ELSE h + (n + 1) - 1 - Capacity
      BY <1>2 DEF Place
    <2>7. CASE h + (n + 1) <= Capacity
      BY <1>1, <1>4, <2>1, <2>2, <2>6, <2>7
    <2>8. CASE h + (n + 1) > Capacity
      <3>1. p = r - 1 - Capacity
        BY <1>1, <1>4, <2>2, <2>6, <2>8
      <3>2. q = r - Capacity /\ q < Capacity /\ ~(r < Capacity)
        BY SMTT(60), <1>1, <1>2, <1>4, <2>1, <2>2, <2>3, <2>8, <3>1
      <3>3. q % Capacity = r % Capacity
        BY <2>4, <2>5, <3>2
      <3>. QED
        BY <2>1, <2>2, <3>3
    <2>. QED
      BY <1>1, <2>7, <2>8
  <1>. QED
    BY <1>2, <1>3, <1>4, <1>5, <1>10, <1>11

\* Reading one slot less, from the next one on, leaves the rest; the place
\* behind the last one stays where it was.
LEMMA ReadTakes ==
    ASSUME NEW T, NEW s \in [0 .. Capacity - 1 -> T],
           NEW h \in 0 .. Capacity - 1, NEW n \in 1 .. Capacity
    PROVE  /\ Read(s, h, n) # <<>>
           /\ s[h] = Head(Read(s, h, n))
           /\ Read(s, (h + 1) % Capacity, n - 1) = Tail(Read(s, h, n))
           /\ (((h + 1) % Capacity) + (n - 1)) % Capacity = (h + n) % Capacity
  <1>. DEFINE old == Read(s, h, n)
  <1>1. h \in Nat /\ h < Capacity /\ n \in Nat /\ n >= 1 /\ n <= Capacity /\ Capacity \in Nat \ {0}
    BY CapacityAssumption
  <1>2. n \in 0 .. Capacity
    BY <1>1
  <1>3. old \in Seq(T) /\ Len(old) = n /\ \A i \in 1 .. n : old[i] = s[Place(h, i)]
    <2>1. IsRead(old, T, s, h, n)
      BY <1>2, ReadIs, Zenon
    <2> HIDE DEF old
    <2>. QED
      BY <2>1 DEF IsRead
  <1>4. old # <<>>
    BY <1>1, <1>3, EmptySeq
  <1>5. s[h] = Head(old)
    <2>1. 1 \in 1 .. n /\ Place(h, 1) = h
      BY <1>1 DEF Place
    <2>2. Head(old) = old[1]
      BY <1>3, <1>4, HeadTailProperties
    <2>. QED
      BY <1>3, <2>1, <2>2
  <1>6. PICK g \in 0 .. Capacity - 1 :
           g = (h + 1) % Capacity /\ g = IF h + 1 < Capacity THEN h + 1 ELSE h + 1 - Capacity
    <2>1. PICK q \in Nat : q = h + 1
      BY <1>1
    <2>2. q < 2 * Capacity
      BY <1>1, <2>1
    <2>3. q % Capacity = IF q < Capacity THEN q ELSE q - Capacity
      BY <2>2, Around
    <2>. QED
      BY <1>1, <2>1, <2>3
  <1>7. PICK m \in 0 .. Capacity : m = n - 1
    BY <1>1
  <1>8. PICK new \in Seq(T) : new = Read(s, g, m) /\ IsRead(new, T, s, g, m)
    <2>1. IsRead(Read(s, g, m), T, s, g, m)
      BY ReadIs, Zenon
    <2>. QED
      BY <2>1 DEF IsRead
  <1>9. Len(new) = m /\ \A i \in 1 .. m : new[i] = s[Place(g, i)]
    BY <1>8 DEF IsRead
  <1>10. /\ Tail(old) \in Seq(T)
         /\ Len(Tail(old)) = m
         /\ \A i \in 1 .. m : Tail(old)[i] = old[i + 1]
    BY <1>3, <1>4, <1>7, HeadTailProperties
  <1>11. ASSUME NEW i \in 1 .. m
         PROVE  new[i] = Tail(old)[i]
    <2>1. i + 1 \in 1 .. n
      BY <1>1, <1>7
    <2>2. Place(g, i) = Place(h, i + 1)
      BY <1>1, <1>6, <1>7 DEF Place
    <2>. QED
      BY <1>3, <1>9, <1>10, <2>1, <2>2
  <1>12. new = Tail(old)
    BY <1>8, <1>9, <1>10, <1>11, SeqEqual
  <1>13. (g + m) % Capacity = (h + n) % Capacity
    <2>1. PICK q \in Nat : q = g + m
      BY <1>6, <1>7
    <2>2. PICK r \in Nat : r = h + n
      BY <1>1
    <2>3. q < 2 * Capacity /\ r < 2 * Capacity
      BY <1>1, <1>6, <1>7, <2>1, <2>2
    <2>4. q % Capacity = IF q < Capacity THEN q ELSE q - Capacity
      BY <2>3, Around
    <2>5. r % Capacity = IF r < Capacity THEN r ELSE r - Capacity
      BY <2>3, Around
    <2>6. q % Capacity = r % Capacity
      BY <1>1, <1>6, <1>7, <2>1, <2>2, <2>4, <2>5
    <2>. QED
      BY <2>1, <2>2, <2>6
  <1>. QED
    BY <1>4, <1>5, <1>6, <1>7, <1>8, <1>12, <1>13

\* A thread that comes to a place has the role of the threads there.
LEMMA RolesKept ==
    ASSUME TypeInvariant, RingInOrder, [Next]_vars
    PROVE  /\ \A t \in Threads : pc'[t] \in Pushing => t \in Producers /\ arg'[t] \in Values
           /\ \A t \in Threads : pc'[t] \in Popping => t \in Consumers
  <1>. USE DEF Pushing, Popping, TypeInvariant, RingInOrder
  <1>. DEFINE Roles ==
         /\ \A t \in Threads : pc'[t] \in Pushing => t \in Producers /\ arg'[t] \in Values
         /\ \A t \in Threads : pc'[t] \in Popping => t \in Consumers
  <1>1. CASE UNCHANGED vars
    BY <1>1 DEF vars
  <1>2. ASSUME NEW t \in Threads, Call(t) PROVE Roles
    BY <1>2 DEF Call, CallPush, CallPop, CallClose, Enter, Goto
  <1>3. ASSUME NEW t \in Threads, SpuriousWake(t) PROVE Roles
    BY <1>3 DEF SpuriousWake, Goto
  <1>4. ASSUME NEW t \in Threads, Push(t) \/ TryPush(t) PROVE Roles
    BY <1>4 DEF Push, TryPush, Refuse, Accept, Sleep, Goto
  <1>5. ASSUME NEW t \in Threads, Pop(t) \/ TryPop(t) PROVE Roles
    BY <1>5 DEF Pop, TryPop, Refuse, Remove, Sleep, Goto
  <1>6. ASSUME NEW t \in Threads, Close(t) PROVE Roles
    BY <1>6 DEF Close, Goto
  <1>7. ASSUME NEW t \in Threads, SignalEmpty(t) \/ SignalFull(t) PROVE Roles
    BY <1>7 DEF SignalEmpty, SignalFull, NotifyOne, HandOver, Goto, At
  <1>8. ASSUME NEW t \in Threads, WakeFull(t) \/ WakeEmpty(t) PROVE Roles
    BY <1>8 DEF WakeFull, WakeEmpty, NotifyAll
  <1>. QED
    BY <1>1, <1>2, <1>3, <1>4, <1>5, <1>6, <1>7, <1>8 DEF Next, Step

\* The content of the ring as a sequence.
LEMMA ContentIs ==
    ASSUME TypeInvariant
    PROVE  Content \in Seq(Values \cup {None}) /\ Len(Content) = count
  <1>1. Content = Read(slots, head, count)
    BY DEF Content, Read
  <1>2. /\ slots \in [0 .. Capacity - 1 -> Values \cup {None}]
        /\ head \in 0 .. Capacity - 1 /\ count \in 0 .. Capacity
    BY DEF TypeInvariant
  <1>3. IsRead(Read(slots, head, count), Values \cup {None}, slots, head, count)
    BY <1>2, ReadIs, Zenon
  <1>. QED
    BY <1>1, <1>3 DEF IsRead

LEMMA AcceptAppends ==
    ASSUME TypeInvariant, RingInOrder, NEW t \in Threads, Accept(t),
           arg[t] \in Values, count < Capacity
    PROVE  Content' = Append(Content, arg[t]) /\ tail' = (head' + count') % Capacity
  <1>1. /\ slots' = [slots EXCEPT ![(head + count) % Capacity] = arg[t]]
        /\ head' = head /\ count' = count + 1
        /\ tail' = (((head + count) % Capacity) + 1) % Capacity
    BY DEF Accept, Emplace, RingInOrder
  <1>2. Content = Read(slots, head, count)
        /\ Content' = Read([slots EXCEPT ![(head + count) % Capacity] = arg[t]], head, count + 1)
    BY <1>1 DEF Content, Read
  <1>3. PICK v \in Values \cup {None} : v = arg[t]
    OBVIOUS
  <1>4. /\ slots \in [0 .. Capacity - 1 -> Values \cup {None}]
        /\ head \in 0 .. Capacity - 1 /\ count \in 0 .. Capacity
    BY DEF TypeInvariant
  <1>5. /\ Read([slots EXCEPT ![(head + count) % Capacity] = v], head, count + 1)
             = Append(Read(slots, head, count), v)
        /\ (((head + count) % Capacity) + 1) % Capacity = (head + (count + 1)) % Capacity
    BY ZenonT(60), <1>4, ReadAppends
  <1>. QED
    BY <1>1, <1>2, <1>3, <1>5

LEMMA RemoveTakes ==
    ASSUME TypeInvariant, RingInOrder, NEW t \in Threads, Remove(t), count > 0
    PROVE  /\ Content # <<>>
           /\ Content' = Tail(Content)
           /\ slots[head] = Head(Content)
           /\ tail' = (head' + count') % Capacity
  <1>1. /\ head' = (head + 1) % Capacity /\ count' = count - 1
        /\ slots' = slots /\ tail' = (head + count) % Capacity
    BY DEF Remove, Take, RingInOrder
  <1>2. Content = Read(slots, head, count)
        /\ Content' = Read(slots, (head + 1) % Capacity, count - 1)
    BY <1>1 DEF Content, Read
  <1>3. /\ slots \in [0 .. Capacity - 1 -> Values \cup {None}]
        /\ head \in 0 .. Capacity - 1 /\ count \in 1 .. Capacity
    BY CapacityAssumption DEF TypeInvariant
  <1>4. /\ Read(slots, head, count) # <<>>
        /\ slots[head] = Head(Read(slots, head, count))
        /\ Read(slots, (head + 1) % Capacity, count - 1) = Tail(Read(slots, head, count))
        /\ (((head + 1) % Capacity) + (count - 1)) % Capacity = (head + count) % Capacity
    BY <1>3, ReadTakes
  <1>. QED
    BY <1>1, <1>2, <1>4

\* Every step of the ring is a step of the FIFO, or none.
LEMMA StepContract ==
    ASSUME TypeInvariant, TypeInvariant', RingInOrder, [Next]_vars
    PROVE  RingInOrder' /\ [Contract!Next]_<<Content, closed, ret>>
  <1>1. Content \in Seq(Values \cup {None}) /\ Len(Content) = count /\ count \in 0 .. Capacity
    BY ContentIs DEF TypeInvariant
  <1>2. Content = <<>> <=> count = 0
    BY <1>1, EmptySeq
  <1>3. ASSUME UNCHANGED <<slots, head, tail, count, closed, ret>>
        PROVE  RingInOrder' /\ [Contract!Next]_<<Content, closed, ret>>
    BY <1>3, RolesKept DEF RingInOrder, Content
  <1>4. ASSUME NEW t \in Threads, NEW r, UNCHANGED <<slots, head, tail, count, closed>>,
               ret' = [ret EXCEPT ![t] = r],
               \/ t \in Producers /\ closed /\ r = "Closed"
               \/ t \in Producers /\ ~closed /\ count = Capacity /\ r = "Full"
               \/ t \in Consumers /\ count = 0 /\ r = None
        PROVE  RingInOrder' /\ [Contract!Next]_<<Content, closed, ret>>
    <2>1. Content' = Content
      BY <1>4 DEF Content
    <2>. QED
      BY <1>1, <1>2, <1>4, <2>1, RolesKept
         DEF RingInOrder, Contract!Next, Contract!RefuseClosed, Contract!RefuseFull,
             Contract!FindEmpty, Contract!Returns
  <1>5. ASSUME NEW t \in Threads, t \in Producers, arg[t] \in Values, Accept(t), ~closed,
               count < Capacity
        PROVE  RingInOrder' /\ [Contract!Next]_<<Content, closed, ret>>
    <2>1. Content' = Append(Content, arg[t]) /\ tail' = (head' + count') % Capacity
      BY <1>5, AcceptAppends
    <2>2. ret' = [ret EXCEPT ![t] = "Ok"] /\ closed' = closed
      BY <1>5 DEF Accept
    <2>. QED
      BY <1>1, <1>5, <2>1, <2>2, RolesKept
         DEF RingInOrder, Contract!Next, Contract!Enqueue, Contract!Returns
  <1>6. ASSUME NEW t \in Threads, t \in Consumers, Remove(t), count > 0
        PROVE  RingInOrder' /\ [Contract!Next]_<<Content, closed, ret>>
    <2>1. /\ Content # <<>> /\ Content' = Tail(Content) /\ slots[head] = Head(Content)
          /\ tail' = (head' + count') % Capacity
      BY <1>6, RemoveTakes
    <2>2. ret' = [ret EXCEPT ![t] = slots[head]] /\ closed' = closed
      BY <1>6 DEF Remove
    <2>. QED
      BY <1>6, <2>1, <2>2, RolesKept
         DEF RingInOrder, Contract!Next, Contract!Dequeue, Contract!Returns
  <1>7. ASSUME NEW t \in Threads, Close(t)
        PROVE  RingInOrder' /\ [Contract!Next]_<<Content, closed, ret>>
    BY <1>7, RolesKept DEF Close, ring, RingInOrder, Content, Contract!Next, Contract!Close
  <1>8. ASSUME NEW t \in Threads, Push(t) \/ TryPush(t)
        PROVE  RingInOrder' /\ [Contract!Next]_<<Content, closed, ret>>
    <2>1. t \in Producers /\ arg[t] \in Values
      BY <1>8 DEF Push, TryPush, RingInOrder, Pushing
    <2>2. CASE \E w \in {"fullWait"} : Sleep(t, w)
      BY <1>3, <2>2 DEF Sleep, ring
    <2>3. CASE closed /\ Refuse(t, "Closed")
      BY <1>4, <2>1, <2>3 DEF Refuse, ring
    <2>4. CASE ~closed /\ count = Capacity /\ Refuse(t, "Full")
      BY <1>4, <2>1, <2>4 DEF Refuse, ring
    <2>5. CASE ~closed /\ count # Capacity /\ Accept(t)
      BY <1>1, <1>5, <2>1, <2>5, CapacityAssumption
    <2>. QED
      BY <1>1, <1>8, <2>2, <2>3, <2>4, <2>5, CapacityAssumption DEF Push, TryPush
  <1>9. ASSUME NEW t \in Threads, Pop(t) \/ TryPop(t)
        PROVE  RingInOrder' /\ [Contract!Next]_<<Content, closed, ret>>
    <2>1. t \in Consumers
      BY <1>9 DEF Pop, TryPop, RingInOrder, Popping
    <2>2. CASE \E w \in {"emptyWait"} : Sleep(t, w)
      BY <1>3, <2>2 DEF Sleep, ring
    <2>3. CASE count = 0 /\ Refuse(t, None)
      BY <1>4, <2>1, <2>3 DEF Refuse, ring
    <2>4. CASE count # 0 /\ Remove(t)
      BY <1>1, <1>6, <2>1, <2>4, CapacityAssumption
    <2>. QED
      BY <1>1, <1>9, <2>2, <2>3, <2>4, CapacityAssumption DEF Pop, TryPop
  <1>10. ASSUME NEW t \in Threads,
                \/ SpuriousWake(t) \/ SignalEmpty(t) \/ SignalFull(t)
                \/ WakeFull(t) \/ WakeEmpty(t)
         PROVE  RingInOrder' /\ [Contract!Next]_<<Content, closed, ret>>
    BY <1>3, <1>10 DEF SpuriousWake, SignalEmpty, SignalFull, NotifyOne, WakeFull, WakeEmpty,
                       NotifyAll, ring
  <1>11. CASE UNCHANGED vars
    BY <1>3, <1>11 DEF vars
  <1>12. ASSUME NEW t \in Threads, Call(t)
         PROVE  RingInOrder' /\ [Contract!Next]_<<Content, closed, ret>>
    <2>1. /\ UNCHANGED <<slots, head, tail, count, closed>>
          /\ ret' = [ret EXCEPT ![t] = "Pending"]
      BY <1>12 DEF Call, CallPush, CallPop, CallClose, Enter, ring
    <2>2. Content' = Content /\ t \in Contract!Threads
      BY <2>1 DEF Content, Threads, Contract!Threads
    <2>. QED
      BY <2>1, <2>2, RolesKept DEF RingInOrder, Contract!Next, Contract!Call, Contract!Returns
  <1>. QED
    BY <1>7, <1>8, <1>9, <1>10, <1>11, <1>12 DEF Next, Step

\* A ring of slots with two indices and a count, emplaced and taken under the
\* mutex, is a FIFO of bounded length: nothing is lost, duplicated, invented or
\* overtaken, nothing is accepted after close(), and what was accepted before it
\* can still be taken (bounded_queue.hpp).
THEOREM RingIsFifo == Spec => ImplementsContract
  <1>1. Init => RingInOrder /\ Contract!Init
    <2>1. ASSUME Init PROVE RingInOrder
      BY <2>1, CapacityAssumption DEF Init, RingInOrder, Pushing, Popping
    <2>2. ASSUME Init PROVE Contract!Init
      <3>1. Content = <<>>
        BY <2>2, InitTypes, ContentIs, EmptySeq DEF Init
      <3>2. Contract!Threads = Threads
        BY DEF Contract!Threads, Threads
      <3>. QED
        BY <2>2, <3>1, <3>2 DEF Init, Contract!Init
    <2>. QED
      BY <2>1, <2>2
  <1>. QED
    BY <1>1, InitTypes, TypeStep, StepContract, PTL DEF Spec, ImplementsContract, Contract!Spec
=============================================================================
