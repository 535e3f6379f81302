---------------------------- MODULE BoundedQueue ----------------------------
(***************************************************************************)
(* av::conc::BoundedQueue: a ring buffer of fixed capacity, one mutex and  *)
(* two condition variables.                                                *)
(*                                                                         *)
(* A critical section is one action, because the mutex makes it one.  What *)
(* stays visible is everything that happens outside the mutex: a thread    *)
(* that has been called but has not entered yet, a thread asleep on a      *)
(* condition variable, and above all the notification, which the code      *)
(* sends after unlocking.  pc tells these apart:                           *)
(*                                                                         *)
(*   ready        not inside the queue                                     *)
(*   push, pop    called or woken, about to take the mutex                 *)
(*   tryPush, tryPop                                                       *)
(*   fullWait     asleep on not_full_                                      *)
(*   emptyWait    asleep on not_empty_                                     *)
(*   signalEmpty  unlocked, about to call not_empty_.notify_one()          *)
(*   signalFull   unlocked, about to call not_full_.notify_one()           *)
(*   close        about to take the mutex in close()                       *)
(*   wakeFull     closed, about to call not_full_.notify_all()             *)
(*   wakeEmpty    then not_empty_.notify_all()                             *)
(***************************************************************************)
EXTENDS Integers, FiniteSets

CONSTANTS
    Producers,      \* threads that call push() and try_push()
    Consumers,      \* threads that call pop() and try_pop()
    Closers,        \* threads that call close()
    Capacity,       \* the constructor's argument
    Values,         \* what is queued
    None            \* std::nullopt, and the content of a fresh slot

Threads == Producers \cup Consumers \cup Closers

\* The constructor throws on a capacity of 0.
ASSUME CapacityAssumption == Capacity \in Nat \ {0}

ASSUME ThreadsAssumption ==
    IsFiniteSet(Producers) /\ IsFiniteSet(Consumers) /\ IsFiniteSet(Closers)

ASSUME NoneAssumption == None \notin Values

VARIABLES
    slots,      \* slots_
    head,       \* head_
    tail,       \* tail_
    count,      \* count_
    closed,     \* closed_
    pc,         \* where each thread is
    arg,        \* the value a push carries
    ret         \* what the thread's operation returned, "Pending" before it has

vars == <<slots, head, tail, count, closed, pc, arg, ret>>

Statuses == {"Ok", "Full", "Closed"}

Init ==
    /\ slots = [i \in 0 .. Capacity - 1 |-> None]
    /\ head = 0
    /\ tail = 0
    /\ count = 0
    /\ closed = FALSE
    /\ pc = [t \in Threads |-> "ready"]
    /\ arg = [t \in Threads |-> None]
    /\ ret = [t \in Threads |-> None]

Goto(t, where) == pc' = [pc EXCEPT ![t] = where]

\* A thread calls an operation.
Enter(t, how) == Goto(t, how) /\ ret' = [ret EXCEPT ![t] = "Pending"]

At(where) == {t \in Threads : pc[t] = where}

(***************************************************************************)
(* The two helpers that require the mutex.                                 *)
(***************************************************************************)
\* Mutated form: the write index is advanced before the store.
EmplaceAdvancedFirst(v) ==
    /\ slots' = [slots EXCEPT ![(tail + 1) % Capacity] = v]
    /\ tail' = (tail + 1) % Capacity
    /\ count' = count + 1
    /\ UNCHANGED head

Emplace(v) ==
    /\ slots' = [slots EXCEPT ![tail] = v]
    /\ tail' = (tail + 1) % Capacity
    /\ count' = count + 1
    /\ UNCHANGED head

Take ==
    /\ head' = (head + 1) % Capacity
    /\ count' = count - 1
    /\ UNCHANGED <<slots, tail>>

ring == <<slots, head, tail, count>>

(***************************************************************************)
(* push and try_push                                                       *)
(***************************************************************************)
CallPush(t, how, v) ==
    /\ t \in Producers
    /\ pc[t] = "ready"
    /\ Enter(t, how)
    /\ arg' = [arg EXCEPT ![t] = v]
    /\ UNCHANGED <<ring, closed>>

\* Leaving the queue refused: nothing is emplaced and nobody is notified.
Refuse(t, status) ==
    /\ Goto(t, "ready")
    /\ ret' = [ret EXCEPT ![t] = status]
    /\ arg' = [arg EXCEPT ![t] = None]
    /\ UNCHANGED <<ring, closed>>

\* Mutated form: a consumer is told only when the queue was empty.
AcceptTellsIfEmpty(t) ==
    /\ Emplace(arg[t])
    /\ Goto(t, IF count = 0 THEN "signalEmpty" ELSE "ready")
    /\ ret' = [ret EXCEPT ![t] = "Ok"]
    /\ arg' = [arg EXCEPT ![t] = None]
    /\ UNCHANGED closed

Accept(t) ==
    /\ Emplace(arg[t])
    /\ Goto(t, "signalEmpty")
    /\ ret' = [ret EXCEPT ![t] = "Ok"]
    /\ arg' = [arg EXCEPT ![t] = None]
    /\ UNCHANGED closed

Sleep(t, where) ==
    /\ Goto(t, where)
    /\ UNCHANGED <<ring, closed, arg, ret>>

Push(t) ==
    /\ pc[t] = "push"
    /\ \/ /\ ~(count < Capacity \/ closed)
          /\ Sleep(t, "fullWait")
       \/ /\ closed
          /\ Refuse(t, "Closed")
       \/ /\ count < Capacity
          /\ ~closed
          /\ Accept(t)

TryPush(t) ==
    /\ pc[t] = "tryPush"
    /\ \/ /\ closed
          /\ Refuse(t, "Closed")
       \/ /\ ~closed
          /\ count = Capacity
          /\ Refuse(t, "Full")
       \/ /\ ~closed
          /\ count # Capacity
          /\ Accept(t)

(***************************************************************************)
(* pop and try_pop                                                         *)
(***************************************************************************)
CallPop(t, how) ==
    /\ t \in Consumers
    /\ pc[t] = "ready"
    /\ Enter(t, how)
    /\ UNCHANGED <<ring, closed, arg>>

Remove(t) ==
    /\ ret' = [ret EXCEPT ![t] = slots[head]]
    /\ Take
    /\ Goto(t, "signalFull")
    /\ UNCHANGED <<closed, arg>>

Pop(t) ==
    /\ pc[t] = "pop"
    /\ \/ /\ ~(count > 0 \/ closed)
          /\ Sleep(t, "emptyWait")
       \/ /\ count = 0
          /\ closed
          /\ Refuse(t, None)
       \/ /\ count > 0
          /\ Remove(t)

TryPop(t) ==
    /\ pc[t] = "tryPop"
    /\ \/ /\ count = 0
          /\ Refuse(t, None)
       \/ /\ count # 0
          /\ Remove(t)

(***************************************************************************)
(* Notifications, sent without the mutex.  notify_one wakes any one waiter *)
(* or, when there is none, is lost; notify_all wakes all of them.  A woken *)
(* thread evaluates its predicate again before it does anything else.      *)
(***************************************************************************)
HandOver(t, w, to) == pc' = [pc EXCEPT ![t] = "ready", ![w] = to]

NotifyOne(t, from, to) ==
    /\ \/ \E w \in At(from) : HandOver(t, w, to)
       \/ /\ At(from) = {}
          /\ Goto(t, "ready")
    /\ UNCHANGED <<ring, closed, arg, ret>>

\* Mutated form: the two condition variables are confused.
SignalEmptySwapped(t) ==
    /\ pc[t] = "signalEmpty"
    /\ NotifyOne(t, "fullWait", "push")

SignalEmpty(t) ==
    /\ pc[t] = "signalEmpty"
    /\ NotifyOne(t, "emptyWait", "pop")

SignalFull(t) ==
    /\ pc[t] = "signalFull"
    /\ NotifyOne(t, "fullWait", "push")

\* Both wait() calls take a predicate, so a wake-up without a cause is legal.
SpuriousWake(t) ==
    /\ \/ /\ pc[t] = "fullWait"
          /\ Goto(t, "push")
       \/ /\ pc[t] = "emptyWait"
          /\ Goto(t, "pop")
    /\ UNCHANGED <<ring, closed, arg, ret>>

(***************************************************************************)
(* close                                                                   *)
(***************************************************************************)
CallClose(t) ==
    /\ t \in Closers
    /\ pc[t] = "ready"
    /\ Enter(t, "close")
    /\ UNCHANGED <<ring, closed, arg>>

Close(t) ==
    /\ pc[t] = "close"
    /\ closed' = TRUE
    /\ Goto(t, "wakeFull")
    /\ UNCHANGED <<ring, arg, ret>>

NotifyAll(t, from, to, next) ==
    /\ pc' = [w \in Threads |-> IF w = t THEN next
                                ELSE IF pc[w] = from THEN to ELSE pc[w]]
    /\ UNCHANGED <<ring, closed, arg, ret>>

WakeFull(t) ==
    /\ pc[t] = "wakeFull"
    /\ NotifyAll(t, "fullWait", "push", "wakeEmpty")

WakeEmpty(t) ==
    /\ pc[t] = "wakeEmpty"
    /\ NotifyAll(t, "emptyWait", "pop", "ready")

-----------------------------------------------------------------------------
Call(t) ==
    \/ \E how \in {"push", "tryPush"}, v \in Values : CallPush(t, how, v)
    \/ \E how \in {"pop", "tryPop"} : CallPop(t, how)
    \/ CallClose(t)

\* What a thread that is inside the queue does next.  A sleeping thread has
\* no step of its own: somebody has to wake it.
Step(t) ==
    \/ Push(t) \/ TryPush(t) \/ Pop(t) \/ TryPop(t) \/ Close(t)
    \/ SignalEmpty(t) \/ SignalFull(t) \/ WakeFull(t) \/ WakeEmpty(t)

Next == \E t \in Threads : Call(t) \/ Step(t) \/ SpuriousWake(t)

Spec == Init /\ [][Next]_vars

\* The scheduler runs every runnable thread and the mutex is never held for
\* ever, since no critical section blocks or loops.  Nobody is obliged to
\* call an operation, and no spurious wake-up is promised.
Fairness == \A t \in Threads : WF_vars(Step(t))

FairSpec == Spec /\ Fairness

-----------------------------------------------------------------------------
(***************************************************************************)
(* Properties                                                              *)
(***************************************************************************)
Places ==
    {"ready", "push", "tryPush", "pop", "tryPop", "fullWait", "emptyWait",
     "signalEmpty", "signalFull", "close", "wakeFull", "wakeEmpty"}

\* Every variable has its type, and only producers wait for room, only
\* consumers for items.
TypeInvariant ==
    /\ slots \in [0 .. Capacity - 1 -> Values \cup {None}]
    /\ head \in 0 .. Capacity - 1
    /\ tail \in 0 .. Capacity - 1
    /\ count \in 0 .. Capacity
    /\ closed \in BOOLEAN
    /\ pc \in [Threads -> Places]
    /\ arg \in [Threads -> Values \cup {None}]
    /\ ret \in [Threads -> Values \cup Statuses \cup {None, "Pending"}]

\* No item lies in the queue unattended while a consumer sleeps: for each item
\* there is a notification still to be sent or a consumer already on its way
\* to the mutex.  Notifying after the unlock (line 72) must not lose a wake-up.
NoConsumerForgotten ==
    At("emptyWait") # {} =>
        count <= Cardinality(At("signalEmpty")) + Cardinality(At("pop"))

\* The same for a free slot and a sleeping producer, until close() refuses the
\* slot to everybody and wakes them all (line 112).
NoProducerForgotten ==
    (~closed /\ At("fullWait") # {}) =>
        Capacity - count <= Cardinality(At("signalFull")) + Cardinality(At("push"))

\* Once close() has told both condition variables, nobody goes to sleep on
\* them again: only a closer that has not reached its notify_all leaves
\* sleepers behind (lines 136-143).
NoSleepAfterClose ==
    closed =>
        /\ At("fullWait") # {} => At("wakeFull") # {}
        /\ At("emptyWait") # {} => At("wakeFull") \cup At("wakeEmpty") # {}

\* No wake-up is lost, whoever sleeps.
NothingForgotten == NoConsumerForgotten /\ NoProducerForgotten /\ NoSleepAfterClose

\* A thread blocked in push() or pop() when the queue is closed, and every
\* closer, eventually leaves: nobody sleeps through a shutdown.
ShutdownCompletes ==
    \A t \in Threads :
        (closed /\ pc[t] # "ready") ~> (pc[t] = "ready")

\* While the queue has an item and a consumer sleeps, somebody eventually makes
\* progress: the item is taken or the sleeper is woken.
ItemFindsConsumer ==
    \A t \in Consumers :
        (pc[t] = "emptyWait" /\ count > 0) ~> (pc[t] # "emptyWait" \/ count = 0)

\* The same for a free slot and a sleeping producer.
RoomFindsProducer ==
    \A t \in Producers :
        (pc[t] = "fullWait" /\ count < Capacity) ~> (pc[t] # "fullWait" \/ count = Capacity)

WakeupsArrive == ItemFindsConsumer /\ RoomFindsProducer

-----------------------------------------------------------------------------
(***************************************************************************)
(* Refinement: the ring implements a FIFO whose operations are atomic.     *)
(***************************************************************************)
Content == [i \in 1 .. count |-> slots[(head + i - 1) % Capacity]]

Contract == INSTANCE QueueContract WITH content <- Content

ImplementsContract == Contract!Spec
=============================================================================
