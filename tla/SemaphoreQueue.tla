--------------------------- MODULE SemaphoreQueue ---------------------------
(***************************************************************************)
(* cr::BoundedQueue: a queue of fixed capacity on two counting semaphores  *)
(* and a mutex.  An acquire, a critical section and a release are steps of *)
(* their own; close() leaves one permit that the consumers hand on.        *)
(***************************************************************************)
EXTENDS Integers, FiniteSets

CONSTANTS Producers, Consumers, Capacity,
          Rounds        \* bounds the runs: items each producer pushes

VARIABLES size, slotsFree, itemsReady, shut,
          producer,     \* "start", "locking", "releasing", "done" of each
          pushed,       \* items a producer has got rid of
          consumer,     \* "start", "locking", "releasing", "relaying", "done"
          closer        \* "start", "releasing", "done"

semaphoreVars == <<size, slotsFree, itemsReady, shut, producer, pushed, consumer, closer>>

\* push(): the permit of a slot, the item, the permit of an item.
Push(p) ==
  \/ /\ producer[p] = "start" /\ pushed[p] < Rounds /\ slotsFree > 0
     /\ slotsFree' = slotsFree - 1 /\ producer' = [producer EXCEPT ![p] = "locking"]
     /\ UNCHANGED <<size, itemsReady, pushed>>
  \/ /\ producer[p] = "locking"
     /\ IF shut
        THEN /\ slotsFree' = slotsFree + 1 /\ producer' = [producer EXCEPT ![p] = "done"]
             /\ UNCHANGED size
        ELSE /\ size' = size + 1 /\ producer' = [producer EXCEPT ![p] = "releasing"]
             /\ UNCHANGED slotsFree
     /\ UNCHANGED <<itemsReady, pushed>>
  \/ /\ producer[p] = "releasing" /\ itemsReady' = itemsReady + 1
     /\ producer' = [producer EXCEPT ![p] = "start"] /\ pushed' = [pushed EXCEPT ![p] = @ + 1]
     /\ UNCHANGED <<size, slotsFree>>

\* pop(): whoever finds nothing behind its permit hands the permit on.
Pop(c) ==
  \/ /\ consumer[c] = "start" /\ itemsReady > 0
     /\ itemsReady' = itemsReady - 1 /\ consumer' = [consumer EXCEPT ![c] = "locking"]
     /\ UNCHANGED <<size, slotsFree>>
  \/ /\ consumer[c] = "locking"
     /\ IF size = 0 THEN consumer' = [consumer EXCEPT ![c] = "relaying"] /\ UNCHANGED size
        ELSE size' = size - 1 /\ consumer' = [consumer EXCEPT ![c] = "releasing"]
     /\ UNCHANGED <<slotsFree, itemsReady>>
  \/ /\ consumer[c] = "relaying" /\ itemsReady' = itemsReady + 1
     /\ consumer' = [consumer EXCEPT ![c] = "done"]
     /\ UNCHANGED <<size, slotsFree>>
  \/ /\ consumer[c] = "releasing" /\ slotsFree' = slotsFree + 1
     /\ consumer' = [consumer EXCEPT ![c] = "start"]
     /\ UNCHANGED <<size, itemsReady>>

\* close(), "AFTER producers have finished".
CloseQueue ==
  \/ /\ closer = "start" /\ \A p \in Producers : producer[p] = "start" /\ pushed[p] = Rounds
     /\ shut' = TRUE /\ closer' = "releasing" /\ UNCHANGED itemsReady
  \/ /\ closer = "releasing" /\ itemsReady' = itemsReady + 1
     /\ closer' = "done" /\ UNCHANGED shut

SemaphoreInit ==
  /\ size = 0 /\ slotsFree = Capacity /\ itemsReady = 0 /\ shut = FALSE
  /\ producer = [p \in Producers |-> "start"] /\ pushed = [p \in Producers |-> 0]
  /\ consumer = [c \in Consumers |-> "start"] /\ closer = "start"

SemaphoreNext ==
  \/ \E p \in Producers : Push(p) /\ UNCHANGED <<shut, consumer, closer>>
  \/ \E c \in Consumers : Pop(c) /\ UNCHANGED <<shut, producer, pushed, closer>>
  \/ CloseQueue /\ UNCHANGED <<size, slotsFree, producer, pushed, consumer>>

SemaphoreSpec ==
  /\ SemaphoreInit /\ [][SemaphoreNext]_semaphoreVars /\ WF_semaphoreVars(SemaphoreNext)

-----------------------------------------------------------------------------
Count(threads, pc, place) == Cardinality({t \in threads : pc[t] = place})

\* Every slot is free, holds an item, or is in the hands of one thread, and
\* until close() there is a permit for every item and no other
\* (bounded_queue.hpp:10-17).
PermitsAddUp ==
  /\ slotsFree + size + Count(Producers, producer, "locking")
       + Count(Consumers, consumer, "releasing") = Capacity
  /\ itemsReady + Count(Producers, producer, "releasing")
       + Count(Consumers, consumer, "locking") + Count(Consumers, consumer, "relaying")
     = size + (IF closer = "done" THEN 1 ELSE 0)

\* One release wakes them all: when the queue is closed every consumer comes
\* back, and only after the last item was taken (bounded_queue.hpp:23-26).
AllConsumersLeave ==
  <>(size = 0 /\ \A c \in Consumers : consumer[c] = "done")
=============================================================================
