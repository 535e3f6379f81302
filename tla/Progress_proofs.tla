--------------------------- MODULE Progress_proofs ---------------------------
(***************************************************************************)
(* Theorems about the parts of Progress, for every value of its constants: *)
(* no queue and no pool loses what it accepted, the permits of the queue   *)
(* on semaphores add up, a promise has one answer, the window does one     *)
(* work at a time, and the tables of the runtime and of ipc_bench agree.   *)
(*                                                                         *)
(* For each part: its inductive invariant, that the part's first states    *)
(* have it and that its steps keep it.  The last section puts the parts    *)
(* together.                                                               *)
(***************************************************************************)
EXTENDS Progress, FiniteSetTheorems, SequenceTheorems, TLAPS

(***************************************************************************)
(* Future                                                                  *)
(***************************************************************************)
\* The answer names the one setter that got through, and the reader has it.
PromiseInvariant ==
    /\ fAnswer \in Setters \cup {"none"}
    /\ fSetter \in [Setters -> {"idle", "threw", "set", "done", "gave up"}]
    /\ fReader \in [phase : {"idle", "valid", "ready", "asleep in wait", "asleep in get", "consumed"},
                    got : Setters \cup {"none"}]
    /\ \A s \in Setters : fSetter[s] \in {"set", "done"} <=> fAnswer = s
    /\ fReader.phase = "consumed" => fReader.got = fAnswer /\ fAnswer # "none"

LEMMA PromiseBegins == Promise!FutureInit => PromiseInvariant
  BY PromiseAssumption DEF Promise!FutureInit, PromiseInvariant

LEMMA PromiseStep ==
    ASSUME PromiseInvariant, [Promise!FutureNext]_Promise!futureVars PROVE PromiseInvariant'
<1> USE PromiseAssumption DEF PromiseInvariant
<1>1. CASE Promise!GetFuture
  BY <1>1 DEF Promise!GetFuture
<1>2. ASSUME NEW s \in Setters, Promise!Set(s) PROVE PromiseInvariant'
  <2>1. fReader' = fReader /\ fSetter[s] = "idle" /\ fAnswer # s
    BY <1>2 DEF Promise!Set
  <2>2. CASE fAnswer # "none" /\ fSetter' = [fSetter EXCEPT ![s] = "threw"] /\ fAnswer' = fAnswer
    BY <2>1, <2>2
  <2>3. CASE fAnswer = "none" /\ fAnswer' = s /\ fSetter' = [fSetter EXCEPT ![s] = "set"]
    <3>1. \A u \in Setters : fSetter[u] \notin {"set", "done"}
      BY <2>3
    <3>2. \A u \in Setters : fSetter'[u] \in {"set", "done"} <=> fAnswer' = u
      BY <2>3, <3>1
    <3> QED
      BY <2>1, <2>3, <3>2
  <2> QED
    BY <1>2, <2>2, <2>3 DEF Promise!Set
<1>3. ASSUME NEW s \in Setters, Promise!NotifyAll(s) \/ Promise!Abandon(s) PROVE PromiseInvariant'
  BY <1>3 DEF Promise!NotifyAll, Promise!Abandon
<1>4. CASE Promise!Wait \/ Promise!Get \/ Promise!Wake
  <2>1. UNCHANGED <<fAnswer, fSetter>>
    BY <1>4 DEF Promise!Wait, Promise!Get, Promise!Wake
  <2>2. \/ \E phase \in {"ready", "asleep in wait", "asleep in get"} :
              fReader' = [fReader EXCEPT !.phase = phase]
        \/ fAnswer # "none" /\ fReader' = [phase |-> "consumed", got |-> fAnswer]
    BY <1>4 DEF Promise!Wait, Promise!Get, Promise!Wake, Promise!Waits, Promise!Got
  <2>3. CASE \E phase \in {"ready", "asleep in wait", "asleep in get"} :
               fReader' = [fReader EXCEPT !.phase = phase]
    <3>1. PICK phase \in {"ready", "asleep in wait", "asleep in get"} :
             fReader' = [fReader EXCEPT !.phase = phase]
      BY <2>3
    <3>2. fReader'.phase # "consumed"
      BY <3>1
    <3> QED
      BY <2>1, <3>1, <3>2
  <2>4. CASE fAnswer # "none" /\ fReader' = [phase |-> "consumed", got |-> fAnswer]
    BY <2>1, <2>4
  <2> QED
    BY <2>2, <2>3, <2>4
<1>5. CASE UNCHANGED Promise!futureVars
  BY <1>5 DEF Promise!futureVars
<1> QED
  BY <1>1, <1>2, <1>3, <1>4, <1>5 DEF Promise!FutureNext

\* Inside an instance the number of elements is the same number.
LEMMA SameNumber ==
    \A S : Promise!Cardinality(S) = Cardinality(S) /\ Permits!Cardinality(S) = Cardinality(S)
  BY DEF Promise!Cardinality, Permits!Cardinality, Cardinality

LEMMA PromiseHolds == ASSUME PromiseInvariant PROVE Promise!OneAnswer
<1> DEFINE through == {s \in Setters : fSetter[s] \in {"set", "done"}}
<1>1. through \subseteq {fAnswer}
  BY DEF PromiseInvariant
<1>2. IsFiniteSet({fAnswer}) /\ Cardinality({fAnswer}) = 1
  BY FS_Singleton
<1>3. Cardinality(through) <= 1
  BY <1>1, <1>2, FS_Subset
<1>4. fReader.phase = "consumed" => fSetter[fReader.got] \in {"set", "done"}
  BY DEF PromiseInvariant
<1> QED
  BY <1>3, <1>4, SameNumber DEF Promise!OneAnswer

(***************************************************************************)
(* SemaphoreQueue                                                          *)
(***************************************************************************)
ProducerPlaces == {"start", "locking", "releasing", "done"}
ConsumerPlaces == {"start", "locking", "releasing", "relaying", "done"}

PermitsInvariant ==
    /\ sSize \in Nat /\ sSlotsFree \in Nat /\ sItemsReady \in Nat
    /\ sProducer \in [Producers -> ProducerPlaces]
    /\ sConsumer \in [Consumers -> ConsumerPlaces]
    /\ Permits!PermitsAddUp

\* How many are where.
LEMMA Counted ==
    ASSUME NEW S, IsFiniteSet(S), NEW f, NEW place
    PROVE  Permits!Count(S, f, place) \in Nat
<1>1. {t \in S : f[t] = place} \subseteq S
  OBVIOUS
<1> QED
  BY <1>1, SameNumber, FS_Subset, FS_CardinalityType DEF Permits!Count

\* Who goes from one place to another is one fewer there, one more here, and
\* nothing to the others.
Goes(S, t, f, from, g, to) ==
    /\ t \in S /\ f[t] = from /\ g[t] = to /\ from # to
    /\ \A u \in S \ {t} : g[u] = f[u]

LEMMA Moved ==
    ASSUME NEW S, IsFiniteSet(S), NEW t, NEW f, NEW from, NEW g, NEW to, Goes(S, t, f, from, g, to)
    PROVE  /\ Permits!Count(S, g, to) = Permits!Count(S, f, to) + 1
           /\ Permits!Count(S, g, from) = Permits!Count(S, f, from) - 1
           /\ \A place : place # to /\ place # from =>
                 Permits!Count(S, g, place) = Permits!Count(S, f, place)
<1> USE DEF Goes
<1>1. ASSUME NEW place
      PROVE  /\ IsFiniteSet({u \in S : f[u] = place})
             /\ Permits!Count(S, f, place) = Cardinality({u \in S : f[u] = place})
             /\ Permits!Count(S, g, place) = Cardinality({u \in S : g[u] = place})
  <2>1. {u \in S : f[u] = place} \subseteq S
    OBVIOUS
  <2> QED
    BY <2>1, SameNumber, FS_Subset DEF Permits!Count
<1>2. ASSUME NEW before, before = {u \in S : f[u] = to}
      PROVE  Cardinality({u \in S : g[u] = to}) = Cardinality(before) + 1
  <2>1. {u \in S : g[u] = to} = before \cup {t} /\ t \notin before
    BY <1>2
  <2>2. IsFiniteSet(before)
    BY <1>1, <1>2
  <2> QED
    BY <2>1, <2>2, FS_AddElement
<1>3. ASSUME NEW before, before = {u \in S : f[u] = from}
      PROVE  Cardinality({u \in S : g[u] = from}) = Cardinality(before) - 1
  <2>1. {u \in S : g[u] = from} = before \ {t} /\ t \in before
    BY <1>3
  <2>2. IsFiniteSet(before)
    BY <1>1, <1>3
  <2> QED
    BY <2>1, <2>2, FS_RemoveElement
<1>4. ASSUME NEW place, place # to, place # from
      PROVE  Permits!Count(S, g, place) = Permits!Count(S, f, place)
  <2>1. {u \in S : g[u] = place} = {u \in S : f[u] = place}
    BY <1>4
  <2> QED
    BY <1>1, <2>1
<1>5. Permits!Count(S, g, to) = Permits!Count(S, f, to) + 1
  BY <1>1, <1>2
<1>6. Permits!Count(S, g, from) = Permits!Count(S, f, from) - 1
  BY ZenonT(60), <1>1, <1>3
<1> QED
  BY <1>4, <1>5, <1>6

LEMMA PermitsBegin == Permits!SemaphoreInit => PermitsInvariant
<1> SUFFICES ASSUME Permits!SemaphoreInit PROVE PermitsInvariant
  OBVIOUS
<1>1. /\ {t \in Producers : sProducer[t] = "locking"} = {}
      /\ {t \in Producers : sProducer[t] = "releasing"} = {}
      /\ {t \in Consumers : sConsumer[t] = "locking"} = {}
      /\ {t \in Consumers : sConsumer[t] = "releasing"} = {}
      /\ {t \in Consumers : sConsumer[t] = "relaying"} = {}
  BY DEF Permits!SemaphoreInit
<1>2. Permits!Cardinality({}) = 0
  BY SameNumber, FS_EmptySet
<1> QED
  BY <1>1, <1>2, PermitsAssumption
     DEF Permits!SemaphoreInit, PermitsInvariant, Permits!PermitsAddUp, Permits!Count,
         ProducerPlaces, ConsumerPlaces

LEMMA PermitsStep ==
    ASSUME PermitsInvariant, [Permits!SemaphoreNext]_Permits!semaphoreVars PROVE PermitsInvariant'
<1> DEFINE P(f, place) == Permits!Count(Producers, f, place)
           C(f, place) == Permits!Count(Consumers, f, place)
<1>1. /\ IsFiniteSet(Producers) /\ IsFiniteSet(Consumers) /\ PermitSlots \in Nat
      /\ sSize \in Nat /\ sSlotsFree \in Nat /\ sItemsReady \in Nat
      /\ sProducer \in [Producers -> ProducerPlaces]
      /\ sConsumer \in [Consumers -> ConsumerPlaces]
  BY PermitsAssumption DEF PermitsInvariant
<1>2. /\ sSlotsFree + sSize + P(sProducer, "locking") + C(sConsumer, "releasing") = PermitSlots
      /\ sItemsReady + P(sProducer, "releasing") + C(sConsumer, "locking")
            + C(sConsumer, "relaying") = sSize + (IF sCloser = "done" THEN 1 ELSE 0)
  BY DEF PermitsInvariant, Permits!PermitsAddUp
<1>3. /\ P(sProducer, "locking") \in Nat /\ P(sProducer, "releasing") \in Nat
      /\ C(sConsumer, "locking") \in Nat /\ C(sConsumer, "releasing") \in Nat
      /\ C(sConsumer, "relaying") \in Nat
  BY <1>1, Counted
<1>4. SUFFICES
        /\ sSize' \in Nat /\ sSlotsFree' \in Nat /\ sItemsReady' \in Nat
        /\ sProducer' \in [Producers -> ProducerPlaces]
        /\ sConsumer' \in [Consumers -> ConsumerPlaces]
        /\ sSlotsFree' + sSize' + P(sProducer', "locking") + C(sConsumer', "releasing") = PermitSlots
        /\ sItemsReady' + P(sProducer', "releasing") + C(sConsumer', "locking")
              + C(sConsumer', "relaying") = sSize' + (IF sCloser' = "done" THEN 1 ELSE 0)
  BY DEF PermitsInvariant, Permits!PermitsAddUp, Permits!Count
<1>5. ASSUME NEW p \in Producers, NEW to \in ProducerPlaces, sProducer[p] # to,
             sProducer' = [sProducer EXCEPT ![p] = to]
      PROVE  /\ sProducer' \in [Producers -> ProducerPlaces]
             /\ \A place \in ProducerPlaces :
                   P(sProducer', place) =
                      IF place = to THEN P(sProducer, place) + 1
                      ELSE IF place = sProducer[p] THEN P(sProducer, place) - 1
                      ELSE P(sProducer, place)
  <2>1. sProducer' \in [Producers -> ProducerPlaces] /\ Goes(Producers, p, sProducer, sProducer[p], sProducer', to)
    BY <1>1, <1>5 DEF Goes
  <2>2. /\ Permits!Count(Producers, sProducer', to) = Permits!Count(Producers, sProducer, to) + 1
        /\ Permits!Count(Producers, sProducer', sProducer[p]) = Permits!Count(Producers, sProducer, sProducer[p]) - 1
        /\ \A place : place # to /\ place # sProducer[p] =>
              Permits!Count(Producers, sProducer', place) = Permits!Count(Producers, sProducer, place)
    BY <1>1, <2>1, Moved, SMT
  <2> QED
    BY <2>1, <2>2
<1>6. ASSUME NEW c \in Consumers, NEW to \in ConsumerPlaces, sConsumer[c] # to,
             sConsumer' = [sConsumer EXCEPT ![c] = to]
      PROVE  /\ sConsumer' \in [Consumers -> ConsumerPlaces]
             /\ \A place \in ConsumerPlaces :
                   C(sConsumer', place) =
                      IF place = to THEN C(sConsumer, place) + 1
                      ELSE IF place = sConsumer[c] THEN C(sConsumer, place) - 1
                      ELSE C(sConsumer, place)
  <2>1. sConsumer' \in [Consumers -> ConsumerPlaces] /\ Goes(Consumers, c, sConsumer, sConsumer[c], sConsumer', to)
    BY <1>1, <1>6 DEF Goes
  <2>2. /\ Permits!Count(Consumers, sConsumer', to) = Permits!Count(Consumers, sConsumer, to) + 1
        /\ Permits!Count(Consumers, sConsumer', sConsumer[c]) = Permits!Count(Consumers, sConsumer, sConsumer[c]) - 1
        /\ \A place : place # to /\ place # sConsumer[c] =>
              Permits!Count(Consumers, sConsumer', place) = Permits!Count(Consumers, sConsumer, place)
    BY <1>1, <2>1, Moved, SMT
  <2> QED
    BY <2>1, <2>2
<1> HIDE DEF P, C
<1>7. CASE \E p \in Producers : Permits!Push(p) /\ UNCHANGED <<sShut, sConsumer, sCloser>>
  <2>1. PICK p \in Producers : Permits!Push(p) /\ UNCHANGED <<sShut, sConsumer, sCloser>>
    BY <1>7
  <2>2. CASE sProducer[p] = "start"
    <3>1. /\ sSlotsFree > 0 /\ sSlotsFree' = sSlotsFree - 1
          /\ sProducer' = [sProducer EXCEPT ![p] = "locking"] /\ UNCHANGED <<sSize, sItemsReady>>
      BY <2>1, <2>2 DEF Permits!Push
    <3>2. /\ sProducer' \in [Producers -> ProducerPlaces]
          /\ P(sProducer', "locking") = P(sProducer, "locking") + 1
          /\ P(sProducer', "releasing") = P(sProducer, "releasing")
      BY <1>5, <2>2, <3>1 DEF ProducerPlaces
    <3> QED
      BY <1>1, <1>2, <1>3, <2>1, <3>1, <3>2
  <2>3. CASE sProducer[p] = "locking" /\ sShut
    <3>1. /\ sSlotsFree' = sSlotsFree + 1
          /\ sProducer' = [sProducer EXCEPT ![p] = "done"] /\ UNCHANGED <<sSize, sItemsReady>>
      BY <2>1, <2>3 DEF Permits!Push
    <3>2. /\ sProducer' \in [Producers -> ProducerPlaces]
          /\ P(sProducer', "locking") = P(sProducer, "locking") - 1
          /\ P(sProducer', "releasing") = P(sProducer, "releasing")
      BY <1>5, <2>3, <3>1 DEF ProducerPlaces
    <3> QED
      BY <1>1, <1>2, <1>3, <2>1, <3>1, <3>2
  <2>4. CASE sProducer[p] = "locking" /\ ~sShut
    <3>1. /\ sSize' = sSize + 1
          /\ sProducer' = [sProducer EXCEPT ![p] = "releasing"]
          /\ UNCHANGED <<sSlotsFree, sItemsReady>>
      BY <2>1, <2>4 DEF Permits!Push
    <3>2. /\ sProducer' \in [Producers -> ProducerPlaces]
          /\ P(sProducer', "locking") = P(sProducer, "locking") - 1
          /\ P(sProducer', "releasing") = P(sProducer, "releasing") + 1
      BY <1>5, <2>4, <3>1 DEF ProducerPlaces
    <3> QED
      BY <1>1, <1>2, <1>3, <2>1, <3>1, <3>2
  <2>5. CASE sProducer[p] = "releasing"
    <3>1. /\ sItemsReady' = sItemsReady + 1
          /\ sProducer' = [sProducer EXCEPT ![p] = "start"] /\ UNCHANGED <<sSize, sSlotsFree>>
      BY <2>1, <2>5 DEF Permits!Push
    <3>2. /\ sProducer' \in [Producers -> ProducerPlaces]
          /\ P(sProducer', "locking") = P(sProducer, "locking")
          /\ P(sProducer', "releasing") = P(sProducer, "releasing") - 1
      BY <1>5, <2>5, <3>1 DEF ProducerPlaces
    <3> QED
      BY <1>1, <1>2, <1>3, <2>1, <3>1, <3>2
  <2> QED
    BY <2>1, <2>2, <2>3, <2>4, <2>5 DEF Permits!Push
<1>8. CASE \E c \in Consumers : Permits!Pop(c) /\ UNCHANGED <<sShut, sProducer, sPushed, sCloser>>
  <2>1. PICK c \in Consumers : Permits!Pop(c) /\ UNCHANGED <<sShut, sProducer, sPushed, sCloser>>
    BY <1>8
  <2>2. CASE sConsumer[c] = "start"
    <3>1. /\ sItemsReady > 0 /\ sItemsReady' = sItemsReady - 1
          /\ sConsumer' = [sConsumer EXCEPT ![c] = "locking"] /\ UNCHANGED <<sSize, sSlotsFree>>
      BY <2>1, <2>2 DEF Permits!Pop
    <3>2. /\ sConsumer' \in [Consumers -> ConsumerPlaces]
          /\ C(sConsumer', "locking") = C(sConsumer, "locking") + 1
          /\ C(sConsumer', "releasing") = C(sConsumer, "releasing")
          /\ C(sConsumer', "relaying") = C(sConsumer, "relaying")
      BY <1>6, <2>2, <3>1 DEF ConsumerPlaces
    <3> QED
      BY <1>1, <1>2, <1>3, <2>1, <3>1, <3>2
  <2>3. CASE sConsumer[c] = "locking" /\ sSize = 0
    <3>1. /\ sConsumer' = [sConsumer EXCEPT ![c] = "relaying"]
          /\ UNCHANGED <<sSize, sSlotsFree, sItemsReady>>
      BY <2>1, <2>3 DEF Permits!Pop
    <3>2. /\ sConsumer' \in [Consumers -> ConsumerPlaces]
          /\ C(sConsumer', "locking") = C(sConsumer, "locking") - 1
          /\ C(sConsumer', "releasing") = C(sConsumer, "releasing")
          /\ C(sConsumer', "relaying") = C(sConsumer, "relaying") + 1
      BY <1>6, <2>3, <3>1 DEF ConsumerPlaces
    <3> QED
      BY <1>1, <1>2, <1>3, <2>1, <3>1, <3>2
  <2>4. CASE sConsumer[c] = "locking" /\ sSize # 0
    <3>1. /\ sSize' = sSize - 1 /\ sConsumer' = [sConsumer EXCEPT ![c] = "releasing"]
          /\ UNCHANGED <<sSlotsFree, sItemsReady>>
      BY <2>1, <2>4 DEF Permits!Pop
    <3>2. /\ sConsumer' \in [Consumers -> ConsumerPlaces]
          /\ C(sConsumer', "locking") = C(sConsumer, "locking") - 1
          /\ C(sConsumer', "releasing") = C(sConsumer, "releasing") + 1
          /\ C(sConsumer', "relaying") = C(sConsumer, "relaying")
      BY <1>6, <2>4, <3>1 DEF ConsumerPlaces
    <3> QED
      BY <1>1, <1>2, <1>3, <2>1, <2>4, <3>1, <3>2
  <2>5. CASE sConsumer[c] = "relaying"
    <3>1. /\ sItemsReady' = sItemsReady + 1 /\ sConsumer' = [sConsumer EXCEPT ![c] = "done"]
          /\ UNCHANGED <<sSize, sSlotsFree>>
      BY <2>1, <2>5 DEF Permits!Pop
    <3>2. /\ sConsumer' \in [Consumers -> ConsumerPlaces]
          /\ C(sConsumer', "locking") = C(sConsumer, "locking")
          /\ C(sConsumer', "releasing") = C(sConsumer, "releasing")
          /\ C(sConsumer', "relaying") = C(sConsumer, "relaying") - 1
      BY <1>6, <2>5, <3>1 DEF ConsumerPlaces
    <3> QED
      BY <1>1, <1>2, <1>3, <2>1, <3>1, <3>2
  <2>6. CASE sConsumer[c] = "releasing"
    <3>1. /\ sSlotsFree' = sSlotsFree + 1 /\ sConsumer' = [sConsumer EXCEPT ![c] = "start"]
          /\ UNCHANGED <<sSize, sItemsReady>>
      BY <2>1, <2>6 DEF Permits!Pop
    <3>2. /\ sConsumer' \in [Consumers -> ConsumerPlaces]
          /\ C(sConsumer', "locking") = C(sConsumer, "locking")
          /\ C(sConsumer', "releasing") = C(sConsumer, "releasing") - 1
          /\ C(sConsumer', "relaying") = C(sConsumer, "relaying")
      BY <1>6, <2>6, <3>1 DEF ConsumerPlaces
    <3> QED
      BY <1>1, <1>2, <1>3, <2>1, <3>1, <3>2
  <2> QED
    BY <2>1, <2>2, <2>3, <2>4, <2>5, <2>6 DEF Permits!Pop
<1>9. CASE /\ Permits!CloseQueue
           /\ UNCHANGED <<sSize, sSlotsFree, sProducer, sPushed, sConsumer>>
  <2>1. \/ sCloser = "start" /\ sCloser' = "releasing" /\ UNCHANGED sItemsReady
        \/ sCloser = "releasing" /\ sCloser' = "done" /\ sItemsReady' = sItemsReady + 1
    BY <1>9 DEF Permits!CloseQueue
  <2> QED
    BY <1>1, <1>2, <1>3, <1>9, <2>1
<1>10. CASE UNCHANGED Permits!semaphoreVars
  BY <1>1, <1>2, <1>10 DEF Permits!semaphoreVars
<1> QED
  BY <1>7, <1>8, <1>9, <1>10 DEF Permits!SemaphoreNext

(***************************************************************************)
(* WorkQueue                                                               *)
(***************************************************************************)
Fates == {"new", "refused", "queued", "running", "value", "error"}

\* A job that waits is in the queue, a job that runs has a worker at it, and
\* a worker leaves an empty queue that takes nothing any more.
PoolInvariant ==
    /\ wQueue \in Seq(Jobs)
    /\ wAt \in [Workers -> Jobs \cup {"check", "asleep", "exit"}]
    /\ wFate \in [Jobs -> Fates]
    /\ wStop <=> wOwner # "alive"
    /\ wOwner = "gone" => \A w \in Workers : wAt[w] = "exit"
    /\ \A w \in Workers : wAt[w] = "exit" => wQueue = <<>> /\ wStop
    /\ \A j \in Jobs : wFate[j] = "queued" => \E i \in DOMAIN wQueue : wQueue[i] = j
    /\ \A j \in Jobs : wFate[j] = "running" => \E w \in Workers : wAt[w] = j

LEMMA PoolBegins == Pool!WorkInit => PoolInvariant
<1> SUFFICES ASSUME Pool!WorkInit PROVE PoolInvariant
  OBVIOUS
<1> QED
  BY PoolAssumption DEF Pool!WorkInit, PoolInvariant, Fates

\* Who takes the job in front, leaves nothing else behind.
LEMMA Taken ==
    ASSUME NEW T, NEW q \in Seq(T), q # <<>>
    PROVE  /\ Head(q) \in T /\ Tail(q) \in Seq(T)
           /\ \A i \in DOMAIN q : q[i] # Head(q) => \E k \in DOMAIN Tail(q) : Tail(q)[k] = q[i]
<1>1. Head(q) \in T /\ Tail(q) \in Seq(T)
  BY HeadTailProperties
<1>2. ASSUME NEW i \in DOMAIN q, q[i] # Head(q)
      PROVE  \E k \in DOMAIN Tail(q) : Tail(q)[k] = q[i]
  <2>1. i \in 2 .. Len(q)
    BY <1>2
  <2>2. i - 1 \in DOMAIN Tail(q) /\ Tail(q)[i - 1] = q[i]
    BY <2>1
  <2> QED
    BY <2>2
<1> QED
  BY <1>1, <1>2

LEMMA EnqueueKeeps ==
    ASSUME PoolInvariant, NEW job \in Jobs, wFate[job] = "new", Pool!Enqueue(job),
           UNCHANGED <<wStop, wOwner, wAt>>
    PROVE  PoolInvariant'
<1> USE DEF PoolInvariant, Fates
<1>1. CASE wStop
  BY <1>1 DEF Pool!Enqueue
<1>2. CASE ~wStop
  <2>1. wQueue' = Append(wQueue, job) /\ wFate' = [wFate EXCEPT ![job] = "queued"]
    BY <1>2 DEF Pool!Enqueue
  <2>2. /\ wQueue' \in Seq(Jobs)
        /\ \E i \in DOMAIN wQueue' : wQueue'[i] = job
        /\ \A i \in DOMAIN wQueue : \E k \in DOMAIN wQueue' : wQueue'[k] = wQueue[i]
    <3>1. /\ wQueue' \in Seq(Jobs) /\ DOMAIN wQueue = 1 .. Len(wQueue) /\ Len(wQueue) \in Nat
          /\ DOMAIN wQueue' = 1 .. Len(wQueue) + 1 /\ wQueue'[Len(wQueue) + 1] = job
          /\ \A i \in 1 .. Len(wQueue) : wQueue'[i] = wQueue[i]
      BY <2>1
    <3> QED
      BY <3>1
  <2>3. \A j \in Jobs : wFate'[j] = "queued" => \E i \in DOMAIN wQueue' : wQueue'[i] = j
    BY <2>1, <2>2
  <2>4. \A j \in Jobs : wFate'[j] = "running" => \E w \in Workers : wAt'[w] = j
    BY <2>1
  <2> QED
    BY <1>2, <2>1, <2>2, <2>3, <2>4
<1> QED
  BY <1>1, <1>2

LEMMA TakeOrLeaveKeeps ==
    ASSUME PoolInvariant, NEW w \in Workers, wAt[w] = "check", Pool!TakeOrLeave(w),
           UNCHANGED <<wStop, wOwner>>
    PROVE  PoolInvariant'
<1> USE PoolAssumption DEF PoolInvariant, Fates
<1>1. CASE wQueue # <<>>
  <2>1. /\ wQueue' = Tail(wQueue) /\ wAt' = [wAt EXCEPT ![w] = Head(wQueue)]
        /\ wFate' = [wFate EXCEPT ![Head(wQueue)] = "running"]
    BY <1>1 DEF Pool!TakeOrLeave
  <2>2. /\ Head(wQueue) \in Jobs /\ wQueue' \in Seq(Jobs)
        /\ \A i \in DOMAIN wQueue : wQueue[i] # Head(wQueue) =>
              \E k \in DOMAIN wQueue' : wQueue'[k] = wQueue[i]
    BY <1>1, <2>1, Taken
  <2>3. \A j \in Jobs : wFate'[j] = "queued" => \E i \in DOMAIN wQueue' : wQueue'[i] = j
    BY <2>1, <2>2
  <2>4. \A j \in Jobs : wFate'[j] = "running" => \E v \in Workers : wAt'[v] = j
    <3>1. ASSUME NEW j \in Jobs, wFate'[j] = "running", j # Head(wQueue)
          PROVE  \E v \in Workers : wAt'[v] = j
      <4>1. PICK v \in Workers : wAt[v] = j
        BY <2>1, <2>2, <3>1
      <4>2. v # w
        BY <4>1
      <4> QED
        BY <2>1, <4>1, <4>2
    <3>2. wAt'[w] = Head(wQueue)
      BY <2>1
    <3> QED
      BY <3>1, <3>2
  <2>5. wAt' \in [Workers -> Jobs \cup {"check", "asleep", "exit"}] /\ wFate' \in [Jobs -> Fates]
    BY <2>1, <2>2
  <2>6. \A v \in Workers : wAt'[v] # "exit"
    BY <1>1, <2>1, <2>2
  <2> QED
    BY <2>2, <2>3, <2>4, <2>5, <2>6
<1>2. CASE wQueue = <<>>
  <2>1. /\ wAt' = [wAt EXCEPT ![w] = IF wStop THEN "exit" ELSE "asleep"]
        /\ UNCHANGED <<wQueue, wFate>>
    BY <1>2 DEF Pool!TakeOrLeave
  <2>2. \A j \in Jobs : wFate'[j] = "running" => \E v \in Workers : wAt'[v] = j
    <3>1. ASSUME NEW j \in Jobs, wFate'[j] = "running"
          PROVE  \E v \in Workers : wAt'[v] = j
      <4>1. PICK v \in Workers : wAt[v] = j
        BY <2>1, <3>1
      <4>2. v # w
        BY <4>1
      <4> QED
        BY <2>1, <4>1, <4>2
    <3> QED
      BY <3>1
  <2> QED
    BY <1>2, <2>1, <2>2
<1> QED
  BY <1>1, <1>2

\* A worker that was asleep looks again.
LEMMA WakingKeeps ==
    ASSUME PoolInvariant, UNCHANGED <<wQueue, wStop, wFate, wOwner>>,
           wAt' \in [Workers -> Jobs \cup {"check", "asleep", "exit"}],
           \A w \in Workers : wAt'[w] = wAt[w] \/ (wAt[w] = "asleep" /\ wAt'[w] = "check")
    PROVE  PoolInvariant'
<1> USE PoolAssumption DEF PoolInvariant
<1>1. \A w \in Workers : wAt'[w] = "exit" <=> wAt[w] = "exit"
  OBVIOUS
<1>2. \A j \in Jobs, w \in Workers : wAt[w] = j => wAt'[w] = j
  OBVIOUS
<1> QED
  BY <1>1, <1>2

LEMMA PoolStep == ASSUME PoolInvariant, [Pool!WorkNext]_Pool!workVars PROVE PoolInvariant'
<1>1. ASSUME NEW j \in Jobs, Pool!Produce(j) PROVE PoolInvariant'
  BY <1>1, EnqueueKeeps
     DEF Pool!Produce, Pool!Push, Pool!Submit, Pool!SubmitMoved
<1>2. ASSUME NEW w \in Workers, Pool!Consume(w) PROVE PoolInvariant'
  BY <1>2, TakeOrLeaveKeeps
     DEF Pool!Consume, Pool!Pop, Pool!WorkerLoop, Pool!WorkerLoopMoved
<1>3. ASSUME NEW w \in Workers, Pool!Finish(w) PROVE PoolInvariant'
  <2>1. wAt[w] \in Jobs /\ UNCHANGED <<wStop, wOwner>>
    BY <1>3 DEF Pool!Finish, Pool!Running
  <2>2. CASE /\ wFate[wAt[w]] = "running"
             /\ \E end \in {"value", "error"} : wFate' = [wFate EXCEPT ![wAt[w]] = end]
             /\ wAt' = [wAt EXCEPT ![w] = "check"] /\ UNCHANGED wQueue
    <3>1. /\ wAt' \in [Workers -> Jobs \cup {"check", "asleep", "exit"}] /\ wFate' \in [Jobs -> Fates]
          /\ \A j \in Jobs : wFate'[j] \in {"queued", "running"} => wFate'[j] = wFate[j] /\ j # wAt[w]
          /\ \A v \in Workers : v # w => wAt'[v] = wAt[v]
          /\ wAt'[w] = "check"
      BY <2>1, <2>2 DEF PoolInvariant, Fates
    <3>2. ASSUME NEW j \in Jobs, wFate'[j] = "running"
          PROVE  \E v \in Workers : wAt'[v] = j
      <4>1. PICK v \in Workers : wAt[v] = j
        BY <3>1, <3>2 DEF PoolInvariant
      <4> QED
        BY <3>1, <3>2, <4>1
    <3>3. \A v \in Workers : wAt'[v] = "exit" => wAt[v] = "exit"
      BY <3>1
    <3>4. wOwner = "gone" => FALSE
      BY <2>1, PoolAssumption DEF PoolInvariant
    <3> QED
      BY <2>1, <2>2, <3>1, <3>2, <3>3, <3>4 DEF PoolInvariant
  <2>3. CASE /\ wAt[w] \in Parents /\ wFate[Pool!Child] = "new" /\ UNCHANGED wAt
             /\ Pool!Submit(Pool!Child) \/ Pool!SubmitMoved(Pool!Child)
    <3>1. Pool!Child \in Jobs
      BY <2>3, PoolAssumption DEF Pool!Child
    <3> QED
      BY <2>1, <2>3, <3>1, EnqueueKeeps DEF Pool!Submit, Pool!SubmitMoved
  <2> QED
    BY <1>3, <2>2, <2>3 DEF Pool!Finish
<1>4. ASSUME NEW w \in Workers, Pool!SpuriousWakeup(w) PROVE PoolInvariant'
  <2>1. UNCHANGED <<wQueue, wStop, wFate, wOwner>>
    BY <1>4 DEF Pool!SpuriousWakeup
  <2>2. /\ wAt' \in [Workers -> Jobs \cup {"check", "asleep", "exit"}]
        /\ \A v \in Workers : wAt'[v] = wAt[v] \/ (wAt[v] = "asleep" /\ wAt'[v] = "check")
    BY <1>4 DEF Pool!SpuriousWakeup, PoolInvariant
  <2> QED
    BY <2>1, <2>2, WakingKeeps
<1>5. CASE Pool!Notify
  <2>1. UNCHANGED <<wQueue, wStop, wFate, wOwner>>
    BY <1>5 DEF Pool!Notify
  <2>2. \/ wAt' = [w \in Workers |-> IF w \in Pool!Asleep THEN "check" ELSE wAt[w]]
        \/ wAt' = wAt
        \/ \E w \in Pool!Asleep : wAt' = [wAt EXCEPT ![w] = "check"]
    BY <1>5 DEF Pool!Notify
  <2>3. /\ wAt' \in [Workers -> Jobs \cup {"check", "asleep", "exit"}]
        /\ \A v \in Workers : wAt'[v] = wAt[v] \/ (wAt[v] = "asleep" /\ wAt'[v] = "check")
    BY <2>2 DEF Pool!Asleep, PoolInvariant
  <2> QED
    BY <2>1, <2>3, WakingKeeps
<1>6. CASE Pool!TryPop
  <2>1. /\ wQueue # <<>> /\ wQueue' = Tail(wQueue)
        /\ wFate' = [wFate EXCEPT ![Head(wQueue)] = "value"] /\ UNCHANGED <<wStop, wAt, wOwner>>
    BY <1>6 DEF Pool!TryPop
  <2>2. /\ Head(wQueue) \in Jobs /\ wQueue' \in Seq(Jobs)
        /\ \A i \in DOMAIN wQueue : wQueue[i] # Head(wQueue) =>
              \E k \in DOMAIN wQueue' : wQueue'[k] = wQueue[i]
    BY <2>1, Taken DEF PoolInvariant
  <2>3. wFate' \in [Jobs -> Fates]
    BY <2>1, <2>2 DEF PoolInvariant, Fates
  <2>4. \A j \in Jobs : wFate'[j] = "queued" => \E i \in DOMAIN wQueue' : wQueue'[i] = j
    BY <2>1, <2>2 DEF PoolInvariant
  <2>5. \A j \in Jobs : wFate'[j] = "running" => wFate[j] = "running"
    BY <2>1, <2>2 DEF PoolInvariant
  <2> QED
    BY <2>1, <2>2, <2>3, <2>4, <2>5 DEF PoolInvariant
<1>7. CASE Pool!Close \/ Pool!DestroyPool \/ Pool!DestroyPoolMoved
  BY <1>7 DEF Pool!Close, Pool!DestroyPool, Pool!DestroyPoolMoved, Pool!Closing, PoolInvariant
<1>8. CASE Pool!Joined
  BY <1>8 DEF Pool!Joined, PoolInvariant
<1>9. CASE UNCHANGED Pool!workVars
  BY <1>9 DEF Pool!workVars, PoolInvariant
<1> QED
  BY <1>1, <1>2, <1>3, <1>4, <1>5, <1>6, <1>7, <1>8, <1>9 DEF Pool!WorkNext

LEMMA PoolHolds == ASSUME PoolInvariant PROVE Pool!NothingLeftBehind
<1> SUFFICES ASSUME wOwner = "gone", NEW j \in Jobs
             PROVE  wFate[j] \in {"new", "refused", "value", "error"}
  BY DEF Pool!NothingLeftBehind
<1> USE DEF PoolInvariant
<1>1. wQueue = <<>>
  BY PoolAssumption
<1>2. wFate[j] # "queued"
  BY <1>1
<1>3. wFate[j] # "running"
  BY PoolAssumption
<1> QED
  BY <1>2, <1>3 DEF Fates

(***************************************************************************)
(* QtLoop                                                                  *)
(***************************************************************************)
Token(event) == event \in {"shot", "finished"}
NoToken(events) == \A i \in DOMAIN events : ~Token(events[i])
OneToken(events) ==
    \E i \in DOMAIN events :
        /\ Token(events[i])
        /\ \A j \in DOMAIN events : Token(events[j]) => i = j

\* While the buttons are dead exactly one thing is under way that will revive
\* them: an event, the chunks, a request, or a worker; otherwise nothing is.
OnePending ==
    \/ qEnabled /\ NoToken(qEvents) /\ qLeft = 0 /\ ~qPosted /\ qStep = 0
    \/ ~qEnabled /\ OneToken(qEvents) /\ qLeft = 0 /\ ~qPosted /\ qStep = 0
    \/ ~qEnabled /\ NoToken(qEvents) /\ qLeft > 0 /\ ~qPosted /\ qStep = 0
    \/ ~qEnabled /\ NoToken(qEvents) /\ qLeft = 0 /\ qPosted /\ qStep = 0
    \/ ~qEnabled /\ NoToken(qEvents) /\ qLeft = 0 /\ ~qPosted /\ qStep # 0

\* A gap that will be reported as a stall has its blocked loop already.
StallsAreFreezes ==
    IF qGap > 2 THEN qStalls + 1 <= qFrozen ELSE qStalls <= qFrozen

WindowInvariant ==
    /\ qEvents \in Seq({"block", "chunk", "offload", "shot", "finished"})
    /\ qEnabled \in BOOLEAN /\ qPosted \in BOOLEAN
    /\ qLeft \in Nat /\ qStep \in -1 .. (Steps + 1)
    /\ qGap \in Nat /\ qStalls \in Nat /\ qFrozen \in Nat
    /\ StallsAreFreezes
    /\ qWindow = "open" => OnePending

LEMMA WindowBegins == Window!LoopInit => WindowInvariant
<1> SUFFICES ASSUME Window!LoopInit PROVE WindowInvariant
  OBVIOUS
<1>1. /\ qEvents = <<>> /\ qEnabled = TRUE /\ qLeft = 0 /\ qPosted = FALSE /\ qStep = 0
      /\ qGap = 0 /\ qStalls = 0 /\ qFrozen = 0
  BY DEF Window!LoopInit, Window!Idle
<1>2. NoToken(qEvents)
  BY <1>1 DEF NoToken
<1>3. qStep \in -1 .. (Steps + 1)
  BY <1>1, WindowAssumption
<1>4. StallsAreFreezes
  BY <1>1 DEF StallsAreFreezes
<1>5. OnePending
  BY <1>1, <1>2 DEF OnePending
<1>6. qEvents \in Seq({"block", "chunk", "offload", "shot", "finished"})
  BY <1>1
<1> QED
  BY <1>1, <1>3, <1>4, <1>5, <1>6 DEF WindowInvariant

WindowEvents == {"block", "chunk", "offload", "shot", "finished"}

\* What is posted behind the others.
LEMMA Posted ==
    ASSUME NEW e \in Seq(WindowEvents), NEW event \in WindowEvents, NEW f, f = Append(e, event)
    PROVE  /\ f \in Seq(WindowEvents)
           /\ ~Token(event) => (NoToken(f) <=> NoToken(e)) /\ (OneToken(e) => OneToken(f))
           /\ Token(event) /\ NoToken(e) => OneToken(f)
<1>1. /\ f \in Seq(WindowEvents) /\ DOMAIN e = 1 .. Len(e) /\ Len(e) \in Nat
      /\ DOMAIN f = 1 .. Len(e) + 1 /\ f[Len(e) + 1] = event
      /\ \A i \in 1 .. Len(e) : f[i] = e[i]
  OBVIOUS
<1> HIDE DEF Token
<1>2. ~Token(event) => (NoToken(f) <=> NoToken(e))
  BY <1>1 DEF NoToken
<1>3. ASSUME ~Token(event), OneToken(e) PROVE OneToken(f)
  <2>1. PICK i \in DOMAIN e : Token(e[i]) /\ \A j \in DOMAIN e : Token(e[j]) => i = j
    BY <1>3 DEF OneToken
  <2>2. i \in DOMAIN f /\ Token(f[i]) /\ \A j \in DOMAIN f : Token(f[j]) => i = j
    BY <1>1, <1>3, <2>1
  <2> QED
    BY <2>2 DEF OneToken
<1>4. ASSUME Token(event), NoToken(e) PROVE OneToken(f)
  <2>1. /\ Len(e) + 1 \in DOMAIN f /\ Token(f[Len(e) + 1])
        /\ \A j \in DOMAIN f : Token(f[j]) => Len(e) + 1 = j
    BY <1>1, <1>4 DEF NoToken
  <2> QED
    BY <2>1 DEF OneToken
<1> QED
  BY <1>1, <1>2, <1>3, <1>4

\* What is taken from the front.
LEMMA Handled ==
    ASSUME NEW e \in Seq(WindowEvents), e # <<>>, NEW f, f = Tail(e)
    PROVE  /\ f \in Seq(WindowEvents) /\ Head(e) \in WindowEvents
           /\ Token(Head(e)) => ~NoToken(e) /\ (OneToken(e) => NoToken(f))
           /\ ~Token(Head(e)) => (NoToken(f) <=> NoToken(e)) /\ (OneToken(e) => OneToken(f))
<1>1. /\ f \in Seq(WindowEvents) /\ DOMAIN e = 1 .. Len(e) /\ Len(e) \in Nat /\ Len(e) > 0
      /\ DOMAIN f = 1 .. Len(e) - 1 /\ Head(e) = e[1] /\ Head(e) \in WindowEvents
      /\ \A i \in 1 .. Len(e) - 1 : f[i] = e[i + 1]
  OBVIOUS
<1>2. /\ 1 \in DOMAIN e
      /\ \A i \in DOMAIN e : i = 1 \/ (i - 1 \in DOMAIN f /\ f[i - 1] = e[i])
      /\ \A i \in DOMAIN f : i + 1 \in DOMAIN e /\ f[i] = e[i + 1]
  BY <1>1
<1> HIDE DEF Token
<1>3. Token(Head(e)) => ~NoToken(e)
  BY <1>1, <1>2 DEF NoToken
<1>4. ASSUME Token(Head(e)), OneToken(e) PROVE NoToken(f)
  <2>1. \A j \in DOMAIN e : Token(e[j]) => j = 1
    BY <1>1, <1>2, <1>4 DEF OneToken
  <2> QED
    BY <1>1, <1>2, <2>1 DEF NoToken
<1>5. ~Token(Head(e)) => (NoToken(f) <=> NoToken(e))
  BY <1>1, <1>2 DEF NoToken
<1>6. ASSUME ~Token(Head(e)), OneToken(e) PROVE OneToken(f)
  <2>1. PICK i \in DOMAIN e : Token(e[i]) /\ \A j \in DOMAIN e : Token(e[j]) => i = j
    BY <1>6 DEF OneToken
  <2>2. i # 1
    BY <1>1, <1>6, <2>1
  <2>3. i - 1 \in DOMAIN f /\ Token(f[i - 1]) /\ \A j \in DOMAIN f : Token(f[j]) => i - 1 = j
    BY <1>1, <1>2, <2>1, <2>2
  <2> QED
    BY <2>3 DEF OneToken
<1> QED
  BY <1>1, <1>3, <1>4, <1>5, <1>6

LEMMA TurnKeeps == ASSUME WindowInvariant, Window!Turn PROVE WindowInvariant'
<1>1. /\ qWindow = "open" /\ qEvents # <<>> /\ UNCHANGED <<qStep, qWindow>>
      /\ qEvents \in Seq(WindowEvents)
  BY DEF Window!Turn, WindowInvariant, WindowEvents
<1>2. OnePending /\ StallsAreFreezes
  BY <1>1 DEF WindowInvariant
<1> DEFINE f == Tail(qEvents)
<1>3. /\ f \in Seq(WindowEvents) /\ Head(qEvents) \in WindowEvents
      /\ Token(Head(qEvents)) => ~NoToken(qEvents) /\ (OneToken(qEvents) => NoToken(f))
      /\ ~Token(Head(qEvents)) =>
            (NoToken(f) <=> NoToken(qEvents)) /\ (OneToken(qEvents) => OneToken(f))
  BY <1>1, Handled
<1>4. /\ Token("shot") /\ Token("finished")
      /\ ~Token("block") /\ ~Token("chunk") /\ ~Token("offload")
  BY DEF Token
<1>5. /\ Append(f, "shot") \in Seq(WindowEvents)
      /\ NoToken(f) => OneToken(Append(f, "shot"))
  BY <1>3, <1>4, Posted DEF WindowEvents
<1> SUFFICES
      /\ qEvents' \in Seq(WindowEvents)
      /\ qEnabled' \in BOOLEAN /\ qPosted' \in BOOLEAN /\ qLeft' \in Nat
      /\ qGap' \in Nat /\ qStalls' \in Nat /\ qFrozen' \in Nat
      /\ StallsAreFreezes' /\ OnePending'
  BY <1>1 DEF WindowInvariant, WindowEvents
<1>6. CASE Head(qEvents) = "shot" /\ Window!Frozen
  <2>1. /\ qEnabled' = TRUE /\ qEvents' = f /\ qGap' = qGap + Freeze /\ qFrozen' = qFrozen + 1
        /\ UNCHANGED <<qLeft, qPosted, qStalls>>
    BY <1>6 DEF Window!Frozen, Window!SetBusy
  <2>2. OnePending'
    BY <1>1, <1>2, <1>3, <1>4, <1>6, <2>1 DEF OnePending
  <2>3. qGap' \in Nat /\ qFrozen' \in Nat /\ StallsAreFreezes'
    BY <1>2, <2>1, WindowAssumption DEF StallsAreFreezes, WindowInvariant
  <2> QED
    BY <1>3, <2>1, <2>2, <2>3 DEF WindowInvariant
<1>7. CASE Head(qEvents) = "finished" /\ Window!Finished
  <2>1. /\ qEnabled' = TRUE /\ qEvents' = f /\ UNCHANGED <<qLeft, qPosted, qGap, qStalls, qFrozen>>
    BY <1>7 DEF Window!Finished, Window!SetBusy, Window!monitor
  <2>2. OnePending'
    BY <1>1, <1>2, <1>3, <1>4, <1>7, <2>1 DEF OnePending
  <2> QED
    BY <1>2, <1>3, <2>1, <2>2 DEF WindowInvariant, StallsAreFreezes
<1>8. CASE Head(qEvents) = "block" /\ qEnabled /\ Window!Block
  <2>1. /\ qEnabled' = FALSE /\ qEvents' = Append(f, "shot")
        /\ UNCHANGED <<qLeft, qPosted, qGap, qStalls, qFrozen>>
    BY <1>8 DEF Window!Block, Window!SetBusy, Window!monitor
  <2>2. OnePending'
    BY <1>1, <1>2, <1>3, <1>4, <1>5, <1>8, <2>1 DEF OnePending
  <2> QED
    BY <1>2, <1>5, <2>1, <2>2 DEF WindowInvariant, StallsAreFreezes
<1>9. CASE Head(qEvents) = "chunk" /\ qEnabled /\ Window!StartChunked
  <2>1. /\ qEnabled' = FALSE /\ qLeft' = Chunks /\ qEvents' = f
        /\ UNCHANGED <<qPosted, qGap, qStalls, qFrozen>>
    BY <1>9 DEF Window!StartChunked, Window!SetBusy, Window!monitor
  <2>2. OnePending'
    BY <1>1, <1>2, <1>3, <1>4, <1>9, <2>1, WindowAssumption DEF OnePending
  <2> QED
    BY <1>2, <1>3, <2>1, <2>2, WindowAssumption DEF WindowInvariant, StallsAreFreezes
<1>10. CASE Head(qEvents) = "offload" /\ qEnabled /\ Window!StartWorker
  <2>1. /\ qEnabled' = FALSE /\ qPosted' = TRUE /\ qEvents' = f
        /\ UNCHANGED <<qLeft, qGap, qStalls, qFrozen>>
    BY <1>10 DEF Window!StartWorker, Window!SetBusy, Window!monitor
  <2>2. OnePending'
    BY <1>1, <1>2, <1>3, <1>4, <1>10, <2>1 DEF OnePending
  <2> QED
    BY <1>2, <1>3, <2>1, <2>2 DEF WindowInvariant, StallsAreFreezes
<1>11. CASE Head(qEvents) \notin {"shot", "finished"} /\ Window!Ignored
  <2>1. qEvents' = f /\ UNCHANGED <<qEnabled, qLeft, qPosted, qGap, qStalls, qFrozen>>
    BY <1>11 DEF Window!Ignored, Window!monitor
  <2>2. ~Token(Head(qEvents))
    BY <1>11 DEF Token
  <2>3. OnePending'
    BY <1>1, <1>2, <1>3, <2>1, <2>2 DEF OnePending
  <2> QED
    BY <1>2, <1>3, <2>1, <2>3 DEF WindowInvariant, StallsAreFreezes
<1> QED
  BY <1>3, <1>6, <1>7, <1>8, <1>9, <1>10, <1>11 DEF Window!Turn, WindowEvents

LEMMA WindowStep ==
    ASSUME WindowInvariant, [Window!LoopNext]_Window!loopVars PROVE WindowInvariant'
<1>1. CASE Window!Press
  <2>1. PICK b \in Window!Buttons : qEvents' = Append(qEvents, b)
    BY <1>1 DEF Window!Press
  <2>2. b \in WindowEvents /\ ~Token(b) /\ qEvents \in Seq(WindowEvents)
    BY DEF Window!Buttons, WindowEvents, Token, WindowInvariant
  <2>3. /\ qEvents' \in Seq(WindowEvents) /\ (NoToken(qEvents') <=> NoToken(qEvents))
        /\ OneToken(qEvents) => OneToken(qEvents')
    BY <2>1, <2>2, Posted
  <2>4. UNCHANGED <<qEnabled, qLeft, qPosted, qStep, qWindow, qGap, qStalls, qFrozen>>
    BY <1>1 DEF Window!Press, Window!workers, Window!monitor
  <2> QED
    BY <2>3, <2>4 DEF WindowInvariant, StallsAreFreezes, OnePending, WindowEvents
<1>2. CASE Window!Turn
  BY <1>2, TurnKeeps
<1>3. CASE Window!RunOneChunk
  <2>1. /\ qWindow = "open" /\ qLeft > 0 /\ qEvents = <<>> /\ qGap = 0 /\ qLeft' = qLeft - 1
        /\ qGap' = 1 /\ qEnabled' = (IF qLeft = 1 THEN TRUE ELSE qEnabled)
        /\ UNCHANGED <<qEvents, qPosted, qStep, qWindow, qStalls, qFrozen>>
    BY <1>3 DEF Window!RunOneChunk, Window!SetBusy, Window!workers
  <2>2. OnePending /\ qLeft \in Nat
    BY <2>1 DEF WindowInvariant
  <2>3. OnePending'
    <3>1. NoToken(qEvents) /\ NoToken(qEvents')
      BY <2>1 DEF NoToken
    <3>2. ~qEnabled /\ ~qPosted /\ qStep = 0
      BY <2>1, <2>2 DEF OnePending
    <3>3. CASE qLeft = 1
      BY <2>1, <3>1, <3>2, <3>3 DEF OnePending
    <3>4. CASE qLeft # 1
      <4>1. qLeft' > 0 /\ qEnabled' = qEnabled
        BY <2>1, <2>2, <3>4
      <4> QED
        BY <2>1, <3>1, <3>2, <4>1 DEF OnePending
    <3> QED
      BY <3>3, <3>4
  <2>4. qLeft' \in Nat /\ qGap' \in Nat
    BY <2>1, <2>2
  <2>6. qEnabled' \in BOOLEAN
    <3>1. qEnabled \in BOOLEAN /\ TRUE \in BOOLEAN
      BY DEF WindowInvariant
    <3> QED
      BY <2>1, <3>1, Zenon
  <2>5. StallsAreFreezes'
    BY <2>1 DEF WindowInvariant, StallsAreFreezes
  <2> QED
    BY <2>1, <2>3, <2>4, <2>5, <2>6 DEF WindowInvariant
<1>4. CASE Window!OnTick
  <2>1. /\ qGap' = 0 /\ qStalls' = (IF qGap - 1 > 1 THEN qStalls + 1 ELSE qStalls)
        /\ UNCHANGED <<qEvents, qEnabled, qLeft, qPosted, qStep, qWindow, qFrozen>>
    BY <1>4 DEF Window!OnTick, Window!workers
  <2>2. qStalls' \in Nat /\ StallsAreFreezes'
    BY <2>1 DEF WindowInvariant, StallsAreFreezes
  <2>3. OnePending => OnePending'
    BY <2>1 DEF OnePending
  <2>4. /\ qEvents' \in Seq({"block", "chunk", "offload", "shot", "finished"})
        /\ qEnabled' \in BOOLEAN /\ qPosted' \in BOOLEAN
    BY <2>1, Zenon DEF WindowInvariant
  <2>5. qLeft' \in Nat /\ qStep' \in -1 .. (Steps + 1) /\ qGap' \in Nat /\ qFrozen' \in Nat
    BY <2>1 DEF WindowInvariant
  <2>6. qWindow' = "open" => OnePending'
    BY <2>1, <2>3, Zenon DEF WindowInvariant
  <2> QED
    BY <2>2, <2>4, <2>5, <2>6 DEF WindowInvariant
<1>5. CASE Window!TakeWork
  <2>1. /\ qPosted = TRUE /\ qStep = 0 /\ qPosted' = FALSE /\ qStep' = -1
        /\ UNCHANGED <<qEvents, qEnabled, qLeft, qWindow, qGap, qStalls, qFrozen>>
    BY <1>5 DEF Window!TakeWork, Window!monitor, Window!Idle, Window!Entering, WindowInvariant
  <2>2. OnePending => OnePending'
    BY <2>1 DEF OnePending
  <2>3. qStep' \in -1 .. (Steps + 1)
    BY <2>1, WindowAssumption
  <2>4. qPosted' \in BOOLEAN
    BY <2>1, Zenon
  <2> QED
    BY <2>1, <2>2, <2>3, <2>4 DEF WindowInvariant, StallsAreFreezes
<1>6. CASE Window!EnterRun
  BY <1>6, WindowAssumption
     DEF Window!EnterRun, Window!monitor, Window!Entering,
         WindowInvariant, StallsAreFreezes, OnePending
<1>7. CASE Window!WorkOn
  <2>1. /\ qStep \in 1 .. (Steps + 1)
        /\ UNCHANGED <<qEnabled, qLeft, qPosted, qWindow, qGap, qStalls, qFrozen>>
    BY <1>7 DEF Window!WorkOn, Window!monitor
  <2>2. CASE qStep' = 0 /\ qEvents' = Append(qEvents, "finished")
    <3>1. qEvents \in Seq(WindowEvents) /\ "finished" \in WindowEvents /\ Token("finished")
      BY DEF WindowInvariant, WindowEvents, Token
    <3>2. qEvents' \in Seq(WindowEvents) /\ (NoToken(qEvents) => OneToken(qEvents'))
      BY <2>2, <3>1, Posted
    <3> QED
      BY <2>1, <2>2, <3>2, WindowAssumption
         DEF WindowInvariant, StallsAreFreezes, OnePending, WindowEvents
  <2>3. CASE qStep <= Steps /\ qStep' = qStep + 1 /\ UNCHANGED qEvents
    BY <2>1, <2>3, WindowAssumption DEF WindowInvariant, StallsAreFreezes, OnePending
  <2> QED
    BY <1>7, <2>1, <2>2, <2>3, WindowAssumption DEF Window!WorkOn, Window!Idle
<1>8. CASE Window!Destroy
  BY <1>8 DEF Window!Destroy, Window!monitor, WindowInvariant, StallsAreFreezes, OnePending
<1>9. CASE UNCHANGED Window!loopVars
  BY <1>9 DEF Window!loopVars, Window!workers, Window!monitor, WindowInvariant,
              StallsAreFreezes, OnePending
<1> QED
  BY <1>1, <1>2, <1>3, <1>4, <1>5, <1>6, <1>7, <1>8, <1>9 DEF Window!LoopNext, Window!Worker

LEMMA WindowHolds == ASSUME WindowInvariant PROVE Window!OneWorkAtATime
<1> SUFFICES ASSUME qWindow = "open"
             PROVE  /\ \A v, w \in Window!Working : v = w
                    /\ Window!Working # {} => ~qEnabled
                    /\ qStalls <= qFrozen
  BY DEF Window!OneWorkAtATime
<1>1. OnePending /\ StallsAreFreezes
  BY DEF WindowInvariant
<1>2. qStalls <= qFrozen
  BY <1>1 DEF StallsAreFreezes, WindowInvariant
<1>3. ASSUME NEW w \in Window!Working
      PROVE  \/ w = "shot" /\ ~NoToken(qEvents)
             \/ w = "chunks" /\ qLeft > 0
             \/ w = "worker" /\ (qPosted \/ qStep # 0)
  BY <1>3 DEF Window!Working, Window!Idle, NoToken, Token
<1>4. OneToken(qEvents) => ~NoToken(qEvents)
  BY DEF OneToken, NoToken
<1> QED
  BY <1>1, <1>2, <1>3, <1>4 DEF OnePending

(***************************************************************************)
(* Loop                                                                    *)
(***************************************************************************)
\* Besides: the numbers of watches to come are not in use.
RuntimeInvariant ==
    /\ lWatches \in [1 .. MaxId -> Sockets \cup {0}]
    /\ lWatchByFd \in [Sockets -> Nat]
    /\ lNextId \in Nat \ {0}
    /\ lOpen \subseteq Sockets
    /\ \A id \in 1 .. MaxId : id >= lNextId => lWatches[id] = 0
    /\ Runtime!WatchesAgree

LEMMA RuntimeBegins == Runtime!LoopInit => RuntimeInvariant
<1> SUFFICES ASSUME Runtime!LoopInit PROVE RuntimeInvariant
  OBVIOUS
<1>1. /\ lOpen = {1} /\ lPolled = {1} /\ lNextId = 2
      /\ lWatches = [id \in 1 .. MaxId |-> IF id = 1 THEN 1 ELSE 0]
      /\ lWatchByFd = [fd \in Sockets |-> IF fd = 1 THEN 1 ELSE 0]
  BY DEF Runtime!LoopInit
<1>2. 1 \in 1 .. MaxId /\ 1 \in Sockets /\ 0 \notin Sockets
  BY RuntimeAssumption
<1>3. /\ lWatches[1] = 1 /\ \A id \in 1 .. MaxId : id # 1 => lWatches[id] = 0
      /\ lWatchByFd[1] = 1 /\ \A fd \in Sockets : fd # 1 => lWatchByFd[fd] = 0
  BY <1>1, <1>2
<1>4. lPolled = {lWatches[id] : id \in 1 .. MaxId} \ {0}
  BY <1>1, <1>2, <1>3
<1>5. \A fd \in Sockets, id \in 1 .. MaxId : lWatchByFd[fd] = id <=> lWatches[id] = fd
  BY <1>2, <1>3
<1>6. /\ lWatches \in [1 .. MaxId -> Sockets \cup {0}] /\ lWatchByFd \in [Sockets -> Nat]
      /\ \A id \in 1 .. MaxId : id >= lNextId => lWatches[id] = 0
  BY <1>1, <1>2, <1>3
<1> QED
  BY <1>1, <1>2, <1>4, <1>5, <1>6 DEF RuntimeInvariant, Runtime!WatchesAgree

\* What the tables do not depend on.
LEMMA TablesUntouched ==
    ASSUME RuntimeInvariant, UNCHANGED <<lPolled, lWatches, lWatchByFd, lNextId>>,
           lOpen' \subseteq Sockets, lPolled \subseteq lOpen'
    PROVE  RuntimeInvariant'
  BY DEF RuntimeInvariant, Runtime!WatchesAgree

LEMMA FollowKeeps == ASSUME RuntimeInvariant, Runtime!Follow PROVE RuntimeInvariant'
<1> USE RuntimeAssumption DEF RuntimeInvariant, Runtime!WatchesAgree
<1>1. PICK fd \in Sockets \ lOpen :
         /\ lOpen' = lOpen \cup {fd}
         /\ \/ /\ lPolled' = lPolled \cup {fd}
               /\ lWatches' = [lWatches EXCEPT ![lNextId] = fd]
               /\ lWatchByFd' = [lWatchByFd EXCEPT ![fd] = lNextId]
               /\ lNextId' = lNextId + 1
            \/ UNCHANGED <<lPolled, lWatches, lWatchByFd, lNextId>>
  BY DEF Runtime!Follow, Runtime!tables
<1>2. lNextId \in 1 .. MaxId /\ lWatches[lNextId] = 0
  BY DEF Runtime!Follow
<1>3. CASE UNCHANGED <<lPolled, lWatches, lWatchByFd, lNextId>>
  BY SMTT(60), <1>1, <1>3, TablesUntouched
<1>4. CASE /\ lPolled' = lPolled \cup {fd}
           /\ lWatches' = [lWatches EXCEPT ![lNextId] = fd]
           /\ lWatchByFd' = [lWatchByFd EXCEPT ![fd] = lNextId]
           /\ lNextId' = lNextId + 1
  <2>1. fd \in Nat \ {0} /\ fd \notin lPolled
    BY <1>1
  <2>2. \A id \in 1 .. MaxId : lWatches[id] # fd /\ lWatchByFd[fd] # id
    BY <2>1
  <2>3. /\ lWatches' \in [1 .. MaxId -> Sockets \cup {0}] /\ lWatchByFd' \in [Sockets -> Nat]
        /\ lWatches'[lNextId] = fd /\ lWatchByFd'[fd] = lNextId
        /\ \A id \in 1 .. MaxId : id # lNextId => lWatches'[id] = lWatches[id]
        /\ \A other \in Sockets : other # fd => lWatchByFd'[other] = lWatchByFd[other]
    BY <1>2, <1>4
  <2>4. lPolled' = {lWatches'[id] : id \in 1 .. MaxId} \ {0}
    <3>1. ASSUME NEW x \in lPolled' PROVE x \in {lWatches'[id] : id \in 1 .. MaxId} \ {0}
      BY <1>2, <1>4, <2>1, <2>3, <3>1
    <3>2. ASSUME NEW x \in {lWatches'[id] : id \in 1 .. MaxId} \ {0} PROVE x \in lPolled'
      BY <1>2, <1>4, <2>1, <2>3, <3>2
    <3> QED
      BY <3>1, <3>2
  <2>5. \A other \in Sockets, id \in 1 .. MaxId :
           lWatchByFd'[other] = id <=> lWatches'[id] = other
    BY <1>2, <2>1, <2>2, <2>3
  <2>6. \A id \in 1 .. MaxId : id >= lNextId' => lWatches'[id] = 0
    BY <1>2, <1>4, <2>3
  <2> QED
    BY <1>1, <1>2, <1>4, <2>1, <2>3, <2>4, <2>5, <2>6
<1> QED
  BY <1>1, <1>3, <1>4

LEMMA DropKeeps == ASSUME RuntimeInvariant, Runtime!Drop PROVE RuntimeInvariant'
<1> USE RuntimeAssumption DEF RuntimeInvariant, Runtime!WatchesAgree
<1>1. ASSUME NEW id \in 2 .. MaxId, lWatches[id] # 0, Runtime!Unwatch(id),
             lOpen' = lOpen \ {lWatches[id]}, lNextId' = lNextId
      PROVE  RuntimeInvariant'
  <2>1. id \in 1 .. MaxId /\ lWatches[id] \in Sockets /\ lWatches[id] # 0
    BY <1>1
  <2>2. PICK fd \in Sockets : fd = lWatches[id]
    BY <2>1
  <2>3. lWatchByFd[fd] = id
    BY <2>1, <2>2
  <2>4. /\ lPolled' = lPolled \ {fd} /\ lWatches' = [lWatches EXCEPT ![id] = 0]
        /\ lWatchByFd' = [lWatchByFd EXCEPT ![fd] = 0] /\ lOpen' = lOpen \ {fd}
    BY <1>1, <2>2, <2>3 DEF Runtime!Unwatch
  <2>5. /\ lWatches' \in [1 .. MaxId -> Sockets \cup {0}] /\ lWatchByFd' \in [Sockets -> Nat]
        /\ lWatches'[id] = 0 /\ lWatchByFd'[fd] = 0
        /\ \A other \in 1 .. MaxId : other # id => lWatches'[other] = lWatches[other]
        /\ \A other \in Sockets : other # fd => lWatchByFd'[other] = lWatchByFd[other]
    BY <2>1, <2>4
  <2>6. \A other \in 1 .. MaxId : lWatches[other] = fd => other = id
    BY <2>2, <2>3
  <2>7. lPolled' = {lWatches'[other] : other \in 1 .. MaxId} \ {0}
    <3>1. ASSUME NEW x \in lPolled' PROVE x \in {lWatches'[other] : other \in 1 .. MaxId} \ {0}
      <4>1. PICK other \in 1 .. MaxId : lWatches[other] = x
        BY <2>4, <3>1
      <4>2. other # id /\ x # 0
        BY <2>2, <2>4, <3>1, <4>1
      <4> QED
        BY <2>5, <4>1, <4>2
    <3>2. ASSUME NEW other \in 1 .. MaxId, lWatches'[other] # 0 PROVE lWatches'[other] \in lPolled'
      BY <2>4, <2>5, <2>6, <3>2
    <3> QED
      BY <3>1, <3>2
  <2>8. \A other \in Sockets, n \in 1 .. MaxId :
           lWatchByFd'[other] = n <=> lWatches'[n] = other
    <3>1. 0 \notin Sockets /\ 0 \notin 1 .. MaxId
      OBVIOUS
    <3> QED
      BY <2>1, <2>2, <2>3, <2>5, <2>6, <3>1
  <2>9. \A other \in 1 .. MaxId : other >= lNextId' => lWatches'[other] = 0
    BY <1>1, <2>5
  <2> QED
    BY <1>1, <2>4, <2>5, <2>7, <2>8, <2>9
<1>2. ASSUME NEW fd \in lOpen \ lPolled, lOpen' = lOpen \ {fd},
             UNCHANGED <<lPolled, lWatches, lWatchByFd, lNextId>>
      PROVE  RuntimeInvariant'
  BY SMTT(60), <1>2, TablesUntouched
<1> QED
  BY <1>1, <1>2 DEF Runtime!Drop

LEMMA RuntimeStep ==
    ASSUME RuntimeInvariant, [Runtime!LoopNext]_Runtime!loopVars PROVE RuntimeInvariant'
<1>1. CASE Runtime!Follow
  BY <1>1, FollowKeeps
<1>2. CASE Runtime!Drop
  BY <1>2, DropKeeps
<1>3. CASE \/ Runtime!Proceeds \/ Runtime!CancelTick
           \/ \E fd \in Sockets : Runtime!Datagram(fd)
           \/ \E task \in Tasks : Runtime!Post(task)
           \/ UNCHANGED Runtime!loopVars
  <2>1. UNCHANGED <<lOpen, lPolled, lWatches, lWatchByFd, lNextId>>
    BY <1>3
       DEF Runtime!Proceeds, Runtime!BeginPoll, Runtime!Dispatch, Runtime!BeginTicks,
           Runtime!Tick, Runtime!BeginPosted, Runtime!RunPosted, Runtime!EndPoll,
           Runtime!Return, Runtime!CancelTick, Runtime!Datagram, Runtime!Post,
           Runtime!loopVars, Runtime!kernel, Runtime!tables
  <2> QED
    BY <2>1, TablesUntouched DEF RuntimeInvariant, Runtime!WatchesAgree
<1> QED
  BY <1>1, <1>2, <1>3 DEF Runtime!LoopNext

(***************************************************************************)
(* EchoBench                                                               *)
(***************************************************************************)
ParentPlaces == {"listen", "fork", "accept", "send", "receive", "wait", "create", "fork ring",
                 "push", "pop", "wait ring", "failed", "reported"}
ChildPlaces == {"none", "connect", "receive", "open", "pop", "done", "failed"}

Silent == bToChild = <<>> /\ bToParent = <<>>

\* The message of the round trip, and no other, is on its way there or back.
UnderWay ==
    \/ bToChild = <<bParent.round>> /\ bToParent = <<>>
    \/ bToChild = <<>> /\ bToParent = <<bParent.round>>

BenchTypes ==
    /\ bParent \in [at : ParentPlaces, round : Nat, message : Nat]
    /\ bChild \in [at : ChildPlaces, round : Nat, message : Nat]

\* What the parent has sent and not had back, at each of its places.
InFlight ==
    /\ bParent.at \in {"listen", "fork", "accept", "create", "fork ring"} =>
          bParent.round = 0 /\ Silent
    /\ bParent.at \in {"send", "push"} =>
          Silent /\ (bParent.round > 0 => bParent.message = bParent.round - 1)
    /\ bParent.at \in {"receive", "pop"} => UnderWay /\ bParent.message = bParent.round
    /\ bParent.at = "wait ring" /\ bParent.round > 0 => bParent.message = bParent.round - 1

\* Who owns which names meanwhile, and who has still to open them.
NamesOwned ==
    /\ bParent.at = "listen" => bNames \subseteq {"stale"}
    /\ bParent.at \in {"listen", "fork"} => bConnected = "no" /\ bChild.at = "none"
    /\ bParent.at = "fork" => "endpoint" \in bNames
    /\ bParent.at = "create" => bChild.at \in {"done", "failed"}
    /\ bParent.at = "fork ring" => bNames = {"down", "up"} /\ bChild.at = "none"
    /\ bChild.at = "connect" =>
          bParent.at = "accept" /\ bConnected = "no" /\ "endpoint" \in bNames
    /\ bChild.at = "open" =>
          bParent.at \in {"push", "pop", "wait ring"} /\ {"down", "up"} \subseteq bNames
    /\ bParent.at \in {"failed", "reported"} => bNames \subseteq {"stale"}

BenchInvariant == BenchTypes /\ InFlight /\ NamesOwned

LEMMA BenchBegins == Bench!BenchInit => BenchInvariant
<1> SUFFICES ASSUME Bench!BenchInit PROVE BenchInvariant
  OBVIOUS
<1>1. /\ bParent = [at |-> "listen", round |-> 0, message |-> 0]
      /\ bChild = [at |-> "none", round |-> 0, message |-> 0]
      /\ bNames \subseteq {"stale"} /\ bConnected = "no" /\ Silent
  BY DEF Bench!BenchInit, Bench!Process, Bench!NoProcess, Silent
<1> QED
  BY <1>1 DEF BenchInvariant, BenchTypes, InFlight, NamesOwned, ParentPlaces, ChildPlaces

\* The parent goes somewhere with all it has.
LEMMA ParentMoves ==
    ASSUME BenchTypes, NEW at \in ParentPlaces, bParent' = Bench!Moves(bParent, at)
    PROVE  /\ bParent' \in [at : ParentPlaces, round : Nat, message : Nat]
           /\ bParent'.at = at /\ bParent'.round = bParent.round
           /\ bParent'.message = bParent.message
  BY DEF BenchTypes, Bench!Moves

\* The parent gives up where nobody is going to connect.
LEMMA GivingUpKeeps ==
    ASSUME BenchInvariant, bParent.at \in {"listen", "accept", "create"},
           bChild.at \notin {"connect", "open"}, bParent' = Bench!Moves(bParent, "failed"),
           bNames' \subseteq {"stale"}, UNCHANGED bChild
    PROVE  BenchInvariant'
<1>1. "failed" \in ParentPlaces
  BY DEF ParentPlaces
<1>2. /\ bParent' \in [at : ParentPlaces, round : Nat, message : Nat]
      /\ bParent'.at = "failed"
  BY <1>1, ParentMoves DEF BenchInvariant
<1> QED
  BY <1>2 DEF BenchInvariant, BenchTypes, InFlight, NamesOwned

LEMMA ListenKeeps == ASSUME BenchInvariant, Bench!Listen PROVE BenchInvariant'
<1>1. /\ bParent.at = "listen" /\ UNCHANGED <<bChild, bConnected, bToChild, bToParent>>
      /\ bChild.at = "none" /\ bConnected = "no" /\ bNames \subseteq {"stale"}
      /\ bParent.round = 0 /\ Silent
  BY DEF Bench!Listen, Bench!channels, BenchInvariant, NamesOwned, InFlight
<1>2. CASE bParent' = Bench!Moves(bParent, "failed") /\ bNames' \subseteq {"stale"}
  BY <1>1, <1>2, GivingUpKeeps
<1>3. CASE bParent' = Bench!Moves(bParent, "fork") /\ bNames' = {"endpoint"}
  <2>1. /\ bParent' \in [at : ParentPlaces, round : Nat, message : Nat]
        /\ bParent'.at = "fork" /\ bParent'.round = 0
    BY <1>1, <1>3, ParentMoves DEF BenchInvariant, ParentPlaces
  <2> QED
    BY <1>1, <1>3, <2>1 DEF BenchInvariant, BenchTypes, InFlight, NamesOwned, Silent
<1> QED
  BY <1>1, <1>2, <1>3 DEF Bench!Listen, Bench!GivesUp

LEMMA ForkKeeps == ASSUME BenchInvariant, Bench!Fork PROVE BenchInvariant'
<1>1. /\ bParent.round = 0 /\ Silent /\ UNCHANGED <<bNames, bConnected, bToChild, bToParent>>
      /\ bChild' \in {Bench!Process("failed"),
                      Bench!Process(IF bParent.at = "fork" THEN "connect" ELSE "open")}
  BY DEF Bench!Fork, Bench!channels, BenchInvariant, InFlight
<1>2. /\ bChild' \in [at : ChildPlaces, round : Nat, message : Nat]
      /\ bChild'.at \in {"failed", IF bParent.at = "fork" THEN "connect" ELSE "open"}
  BY <1>1 DEF Bench!Process, ChildPlaces
<1>3. CASE bParent.at = "fork" /\ bParent' = Bench!Moves(bParent, "accept")
  <2>1. /\ bParent' \in [at : ParentPlaces, round : Nat, message : Nat]
        /\ bParent'.at = "accept" /\ bParent'.round = 0
    BY <1>1, <1>3, ParentMoves DEF BenchInvariant, ParentPlaces
  <2> QED
    BY <1>1, <1>2, <1>3, <2>1 DEF BenchInvariant, BenchTypes, InFlight, NamesOwned, Silent
<1>4. CASE bParent.at = "fork ring" /\ bParent' = Bench!Moves(bParent, "push")
  <2>1. /\ bParent' \in [at : ParentPlaces, round : Nat, message : Nat]
        /\ bParent'.at = "push" /\ bParent'.round = 0
    BY <1>1, <1>4, ParentMoves DEF BenchInvariant, ParentPlaces
  <2>2. InFlight'
    BY <1>1, <2>1 DEF InFlight, Silent
  <2>3. NamesOwned'
    BY <1>1, <1>2, <1>4, <2>1 DEF BenchInvariant, NamesOwned
  <2> QED
    BY <1>2, <2>1, <2>2, <2>3 DEF BenchInvariant, BenchTypes
<1> QED
  BY <1>3, <1>4 DEF Bench!Fork

LEMMA AcceptKeeps == ASSUME BenchInvariant, Bench!Accept PROVE BenchInvariant'
<1>1. /\ bParent.at = "accept" /\ bConnected = "waiting" /\ bParent.round = 0 /\ Silent
      /\ bChild.at \notin {"connect", "open"} /\ UNCHANGED <<bChild, bToChild, bToParent>>
  BY DEF Bench!Accept, Bench!channels, BenchInvariant, InFlight, NamesOwned
<1>2. CASE Bench!GivesUp
  BY <1>1, <1>2, GivingUpKeeps DEF Bench!GivesUp
<1>3. CASE bParent' = Bench!Moves(bParent, "send") /\ UNCHANGED bNames
  <2>1. /\ bParent' \in [at : ParentPlaces, round : Nat, message : Nat]
        /\ bParent'.at = "send" /\ bParent'.round = 0
    BY <1>1, <1>3, ParentMoves DEF BenchInvariant, ParentPlaces
  <2>2. InFlight'
    BY <1>1, <2>1 DEF InFlight, Silent
  <2>3. NamesOwned'
    BY <1>1, <1>3, <2>1 DEF BenchInvariant, NamesOwned
  <2> QED
    BY <1>1, <2>1, <2>2, <2>3 DEF BenchInvariant, BenchTypes
<1> QED
  BY <1>2, <1>3 DEF Bench!Accept

\* A message goes out: the one of this round trip.
LEMMA SendingKeeps ==
    ASSUME BenchInvariant, NEW from \in {"send", "push"}, bParent.at = from,
           NEW to \in {"receive", "pop"}, from = "send" <=> to = "receive",
           bToChild' = Append(bToChild, bParent.round),
           bParent' = [bParent EXCEPT !.at = to, !.message = bParent.round],
           UNCHANGED <<bChild, bNames, bConnected, bToParent>>
    PROVE  BenchInvariant'
<1>1. /\ bParent' \in [at : ParentPlaces, round : Nat, message : Nat]
      /\ bParent'.at = to /\ bParent'.round = bParent.round /\ bParent'.message = bParent.round
  BY DEF BenchInvariant, BenchTypes, ParentPlaces
<1>2. bToChild' = <<bParent'.round>> /\ bToParent' = <<>>
  <2>1. Silent
    BY DEF BenchInvariant, InFlight
  <2> QED
    BY <1>1, <2>1 DEF Silent
<1>3. InFlight'
  BY <1>1, <1>2 DEF InFlight, UnderWay
<1>4. NamesOwned'
  BY <1>1 DEF BenchInvariant, NamesOwned
<1> QED
  BY <1>1, <1>3, <1>4 DEF BenchInvariant, BenchTypes

LEMMA NextRound == \A n \in Nat : n + 1 \in Nat /\ (n + 1) - 1 = n
  OBVIOUS

LEMMA Alone == ASSUME NEW n \in Nat PROVE Head(<<n>>) = n /\ Tail(<<n>>) = <<>>
<1>1. <<n>> \in Seq(Nat) /\ Len(<<n>>) = 1 /\ <<n>>[1] = n
  OBVIOUS
<1>2. Head(<<n>>) = n
  BY <1>1, HeadTailProperties
<1>3. Tail(<<n>>) \in Seq(Nat) /\ Len(Tail(<<n>>)) = 0
  BY <1>1, HeadTailProperties
<1> QED
  BY <1>2, <1>3, EmptySeq

\* Its answer comes in.
LEMMA AnswerKeeps ==
    ASSUME BenchInvariant, NEW from \in {"receive", "pop"}, bParent.at = from,
           NEW again, NEW end,
           \/ from = "receive" /\ again = "send" /\ end = "wait"
           \/ from = "pop" /\ again = "push" /\ end = "wait ring",
           bToParent # <<>>, bToParent' = Tail(bToParent),
           bParent' = Bench!Next(again, end),
           UNCHANGED <<bChild, bNames, bConnected, bToChild>>
    PROVE  BenchInvariant'
<1>1. bToParent = <<bParent.round>> /\ bToChild = <<>> /\ bParent.round \in Nat
  BY DEF BenchInvariant, BenchTypes, InFlight, UnderWay
<1>0. bParent.round \in Nat
  BY DEF BenchInvariant, BenchTypes
<1>2. Silent'
  <2>1. Tail(<<bParent.round>>) = <<>>
    BY <1>1, Alone
  <2> QED
    BY <1>1, <2>1, Zenon DEF Silent
<1>3. /\ bParent' \in [at : ParentPlaces, round : Nat, message : Nat]
      /\ bParent'.at \in {again, end}
      /\ bParent'.round = bParent.round + 1 /\ bParent'.message = bParent.round
  <2> DEFINE place == IF bParent.round + 1 = RoundTrips THEN end ELSE again
  <2>1. place \in {again, end} /\ place \in ParentPlaces
    BY DEF ParentPlaces
  <2>2. bParent' = [bParent EXCEPT !.at = place, !.round = bParent.round + 1,
                                   !.message = bParent.round]
    <3>1. Head(bToParent) = bParent.round
      BY <1>1, Alone
    <3> QED
      BY <3>1 DEF Bench!Next
  <2>3. bParent \in [at : ParentPlaces, round : Nat, message : Nat]
    BY DEF BenchInvariant, BenchTypes
  <2>4. /\ bParent'.at = place /\ bParent'.round = bParent.round + 1
        /\ bParent'.message = bParent.round
    BY <2>2, <2>3
  <2>5. bParent.round + 1 \in Nat
    BY <1>0, NextRound, Zenon
  <2> HIDE DEF place
  <2>6. bParent' \in [at : ParentPlaces, round : Nat, message : Nat]
    BY <1>0, <2>1, <2>2, <2>3, <2>5
  <2> QED
    BY <2>1, <2>4, <2>6
<1>4. InFlight'
  <2>1. bParent'.round > 0 => bParent'.message = bParent'.round - 1
    BY <1>0, <1>3, NextRound, Zenon
  <2>2. bParent'.at \in {"send", "push", "wait", "wait ring"}
    BY <1>3
  <2> QED
    BY <1>2, <2>1, <2>2 DEF InFlight
<1>5. NamesOwned'
  BY <1>3 DEF BenchInvariant, NamesOwned
<1> QED
  BY <1>3, <1>4, <1>5 DEF BenchInvariant, BenchTypes

LEMMA ParentKeeps == ASSUME BenchInvariant, Bench!ParentSteps PROVE BenchInvariant'
<1>1. CASE Bench!Send
  <2>1. CASE bParent' = Bench!Moves(bParent, "wait")
    <3>1. bParent.at = "send" /\ UNCHANGED <<bChild, bNames, bConnected>>
      BY <1>1 DEF Bench!Send
    <3>2. bParent' \in [at : ParentPlaces, round : Nat, message : Nat] /\ bParent'.at = "wait"
      BY <2>1, ParentMoves DEF BenchInvariant, ParentPlaces
    <3> QED
      BY <3>1, <3>2 DEF BenchInvariant, BenchTypes, InFlight, NamesOwned
  <2> QED
    BY <1>1, <2>1, SendingKeeps DEF Bench!Send
<1>2. CASE Bench!Receive
  <2>1. CASE bParent' = Bench!Moves(bParent, "wait")
    <3>1. bParent.at = "receive" /\ UNCHANGED <<bChild, bNames, bConnected>>
      BY <1>2 DEF Bench!Receive
    <3>2. bParent' \in [at : ParentPlaces, round : Nat, message : Nat] /\ bParent'.at = "wait"
      BY <2>1, ParentMoves DEF BenchInvariant, ParentPlaces
    <3> QED
      BY <3>1, <3>2 DEF BenchInvariant, BenchTypes, InFlight, NamesOwned
  <2> QED
    BY <1>2, <2>1, AnswerKeeps DEF Bench!Receive
<1>3. CASE Bench!RingPush
  BY <1>3, SendingKeeps DEF Bench!RingPush
<1>4. CASE Bench!RingPop
  BY <1>4, AnswerKeeps DEF Bench!RingPop
<1>5. CASE Bench!WaitForChild
  <2>1. /\ bParent.at = "wait" /\ bChild.at \in {"done", "failed"} /\ UNCHANGED bChild
        /\ bNames' = {} /\ bToChild' = <<>> /\ bToParent' = <<>>
        /\ bParent' \in {Bench!Process("failed"), Bench!Process("create")}
    BY <1>5 DEF Bench!WaitForChild
  <2>2. /\ bParent' \in [at : ParentPlaces, round : Nat, message : Nat]
        /\ bParent'.at \in {"failed", "create"} /\ bParent'.round = 0
    <3>1. CASE bParent' = [at |-> "failed", round |-> 0, message |-> 0]
      BY <3>1 DEF ParentPlaces
    <3>2. CASE bParent' = [at |-> "create", round |-> 0, message |-> 0]
      BY <3>2 DEF ParentPlaces
    <3> QED
      BY <2>1, <3>1, <3>2 DEF Bench!Process
  <2> QED
    BY <2>1, <2>2 DEF BenchInvariant, BenchTypes, InFlight, NamesOwned, Silent
<1>6. CASE Bench!Create
  <2>1. /\ bParent.at = "create" /\ bChild.at \in {"done", "failed"} /\ bParent.round = 0 /\ Silent
        /\ UNCHANGED <<bConnected, bToChild, bToParent>>
    BY <1>6 DEF Bench!Create, Bench!channels, BenchInvariant, InFlight, NamesOwned
  <2>2. CASE Bench!GivesUp /\ UNCHANGED bChild
    BY <2>1, <2>2, GivingUpKeeps DEF Bench!GivesUp
  <2>3. CASE /\ bParent' = Bench!Moves(bParent, "fork ring") /\ bNames' = {"down", "up"}
             /\ bChild' = [at |-> "none", round |-> 0, message |-> 0]
    <3>1. /\ bParent' \in [at : ParentPlaces, round : Nat, message : Nat]
          /\ bParent'.at = "fork ring" /\ bParent'.round = 0
      BY <2>1, <2>3, ParentMoves DEF BenchInvariant, ParentPlaces
    <3>2. bChild' \in [at : ChildPlaces, round : Nat, message : Nat] /\ bChild'.at = "none"
      BY <2>3 DEF ChildPlaces
    <3> QED
      BY <2>1, <2>3, <3>1, <3>2 DEF BenchInvariant, BenchTypes, InFlight, NamesOwned, Silent
  <2> QED
    BY <1>6, <2>2, <2>3 DEF Bench!Create, Bench!Both, Bench!NoProcess, Bench!Process
<1>7. CASE Bench!WaitForRingChild
  <2>1. /\ bParent.at = "wait ring" /\ bChild.at = "done" /\ bNames' = {} /\ UNCHANGED bChild
        /\ bParent' = Bench!Moves(bParent, "reported")
    BY <1>7 DEF Bench!WaitForRingChild
  <2>2. bParent' \in [at : ParentPlaces, round : Nat, message : Nat] /\ bParent'.at = "reported"
    BY <2>1, ParentMoves DEF BenchInvariant, ParentPlaces
  <2> QED
    BY <2>1, <2>2 DEF BenchInvariant, BenchTypes, InFlight, NamesOwned
<1> QED
  BY <1>1, <1>2, <1>3, <1>4, <1>5, <1>6, <1>7, ListenKeeps, ForkKeeps, AcceptKeeps
     DEF Bench!ParentSteps

\* What the child does leaves the parent and the names alone, and turns a
\* message round at most.
LEMMA ChildStepsKeep ==
    ASSUME BenchInvariant, UNCHANGED <<bParent, bNames>>,
           bChild' \in [at : ChildPlaces, round : Nat, message : Nat],
           bChild'.at \in {"receive", "pop", "done", "failed"},
           bChild.at \in {"connect", "receive", "open", "pop"},
           \/ UNCHANGED <<bToChild, bToParent>>
           \/ /\ bToChild # <<>> /\ bToChild' = Tail(bToChild)
              /\ bToParent' = Append(bToParent, Head(bToChild))
    PROVE  BenchInvariant'
<1>1. \/ UNCHANGED <<bToChild, bToParent>>
      \/ ~Silent /\ (UnderWay => UnderWay')
  BY DEF Silent, UnderWay
<1>2. InFlight'
  BY <1>1 DEF BenchInvariant, InFlight, Silent, UnderWay
<1>3. NamesOwned'
  BY DEF BenchInvariant, NamesOwned
<1> QED
  BY <1>2, <1>3 DEF BenchInvariant, BenchTypes

LEMMA ChildKeeps == ASSUME BenchInvariant, Bench!ChildSteps PROVE BenchInvariant'
<1>1. /\ bChild \in [at : ChildPlaces, round : Nat, message : Nat]
      /\ {"receive", "pop", "done", "failed"} \subseteq ChildPlaces
  BY DEF BenchInvariant, BenchTypes, ChildPlaces
<1>2. UNCHANGED <<bParent, bNames>> /\ bChild.at \in {"connect", "receive", "open", "pop"}
  BY DEF Bench!ChildSteps, Bench!Connect, Bench!Echo, Bench!Open, Bench!RingEcho, Bench!Exit
<1>3. \/ \E at \in {"receive", "pop", "failed"} : bChild' = [bChild EXCEPT !.at = at]
      \/ \E at \in {bChild.at, "done"} :
            /\ bChild.at \in {"receive", "pop"}
            /\ bChild' = [bChild EXCEPT !.round = @ + 1, !.at = at]
  BY DEF Bench!ChildSteps, Bench!Connect, Bench!Echo, Bench!Open, Bench!RingEcho, Bench!Exit,
         Bench!Moves
<1>4. /\ bChild' \in [at : ChildPlaces, round : Nat, message : Nat]
      /\ bChild'.at \in {"receive", "pop", "done", "failed"}
  <2>1. ASSUME NEW at \in {"receive", "pop", "failed"}, bChild' = [bChild EXCEPT !.at = at]
        PROVE  /\ bChild' \in [at : ChildPlaces, round : Nat, message : Nat]
               /\ bChild'.at \in {"receive", "pop", "done", "failed"}
    BY <1>1, <2>1
  <2>2. ASSUME NEW at \in {bChild.at, "done"}, bChild.at \in {"receive", "pop"},
               bChild' = [bChild EXCEPT !.round = @ + 1, !.at = at]
        PROVE  /\ bChild' \in [at : ChildPlaces, round : Nat, message : Nat]
               /\ bChild'.at \in {"receive", "pop", "done", "failed"}
    <3>1. bChild.round + 1 \in Nat /\ at \in ChildPlaces
      BY <1>1, <2>2
    <3> QED
      BY <1>1, <2>2, <3>1
  <2> QED
    BY <1>3, <2>1, <2>2
<1>5. \/ UNCHANGED <<bToChild, bToParent>>
      \/ /\ bToChild # <<>> /\ bToChild' = Tail(bToChild)
         /\ bToParent' = Append(bToParent, Head(bToChild))
  BY DEF Bench!ChildSteps, Bench!Connect, Bench!Echo, Bench!Open, Bench!RingEcho, Bench!channels
<1> QED
  BY <1>2, <1>4, <1>5, ChildStepsKeep

LEMMA BenchStep ==
    ASSUME BenchInvariant, [Bench!BenchNext]_Bench!benchVars PROVE BenchInvariant'
<1>1. CASE UNCHANGED Bench!benchVars
  BY ZenonT(60), <1>1 DEF Bench!benchVars, Bench!channels, BenchInvariant, BenchTypes, InFlight,
              NamesOwned, Silent, UnderWay
<1> QED
  BY <1>1, ParentKeeps, ChildKeeps DEF Bench!BenchNext

LEMMA BenchHolds == ASSUME BenchInvariant PROVE Bench!EchoesAndNames
  BY DEF BenchInvariant, InFlight, NamesOwned, Bench!EchoesAndNames, Bench!Both

(***************************************************************************)
(* Cockpit: the invariant and its proof are those of Cockpit_proofs        *)
(***************************************************************************)
Cockpits == INSTANCE Cockpit_proofs WITH
               tick <- pTick, frames <- pFrames, states <- pStates, decoding <- pDecoding,
               sequence <- pSequence, ui <- pUi, joined <- pJoined, stats <- pStats

LEMMA Slots == Cockpits!QueueSizes
  BY PipelineAssumption DEF Cockpits!QueueSizes

LEMMA PipelineBegins == Pipeline!CockpitInit => Cockpits!CockpitInvariant
<1>1. Pipeline!CockpitInit => Cockpits!CockpitInit
  BY DEF Pipeline!CockpitInit, Cockpits!CockpitInit
<1> QED
  BY <1>1, Slots, Cockpits!FirstState

LEMMA PipelineStep ==
    ASSUME Cockpits!CockpitInvariant, [Pipeline!CockpitNext]_Pipeline!cockpitVars
    PROVE  Cockpits!CockpitInvariant'
<1>1. [Cockpits!CockpitNext]_Cockpits!cockpitVars
  BY Zenon
     DEF Pipeline!cockpitVars, Cockpits!cockpitVars, Pipeline!Count, Cockpits!Count,
         Pipeline!IsFull, Cockpits!IsFull, Pipeline!Pushed, Cockpits!Pushed,
         Pipeline!Popped, Cockpits!Popped, Pipeline!Drained, Cockpits!Drained,
         Pipeline!Receive, Cockpits!Receive, Pipeline!DecodeNext,
         Cockpits!DecodeNext, Pipeline!PushState, Cockpits!PushState,
         Pipeline!MakeRoom, Cockpits!MakeRoom, Pipeline!PushAgain,
         Cockpits!PushAgain, Pipeline!Display, Cockpits!Display, Pipeline!Shutdown,
         Cockpits!Shutdown, Pipeline!Decoder, Cockpits!Decoder,
         Pipeline!CockpitNext, Cockpits!CockpitNext
<1> QED
  BY <1>1, Slots, Cockpits!StepKeeps

LEMMA PipelineHolds == ASSUME Cockpits!CockpitInvariant PROVE Pipeline!NoWorkThrownAway
<1>1. Cockpits!NoWorkThrownAway
  BY Cockpits!NothingRemains
<1> QED
  BY <1>1 DEF Pipeline!NoWorkThrownAway, Cockpits!NoWorkThrownAway

(***************************************************************************)
(* The parts together                                                      *)
(***************************************************************************)
\* A part that is not chosen does not move.
LEMMA PartSteps ==
    ASSUME [ProgressNext]_progressVars
    PROVE  /\ [Pipeline!CockpitNext]_Pipeline!cockpitVars
           /\ [Window!LoopNext]_Window!loopVars
           /\ [Pool!WorkNext]_Pool!workVars
           /\ [Permits!SemaphoreNext]_Permits!semaphoreVars
           /\ [Promise!FutureNext]_Promise!futureVars
           /\ [Runtime!LoopNext]_Runtime!loopVars
           /\ [Bench!BenchNext]_Bench!benchVars
<1>1. CASE ProgressNext
  <2>1. /\ Pipeline!CockpitNext \/ UNCHANGED pipelineVars
        /\ Window!LoopNext \/ UNCHANGED windowVars
        /\ Pool!WorkNext \/ UNCHANGED poolVars
        /\ Permits!SemaphoreNext \/ UNCHANGED permitsVars
        /\ Promise!FutureNext \/ UNCHANGED promiseVars
        /\ Runtime!LoopNext \/ UNCHANGED runtimeVars
        /\ Bench!BenchNext \/ UNCHANGED benchVars
    BY <1>1, Zenon DEF ProgressNext
  <2> QED
    BY <2>1
       DEF pipelineVars, Pipeline!cockpitVars, windowVars, Window!loopVars, Window!workers,
           Window!monitor, poolVars, Pool!workVars, permitsVars, Permits!semaphoreVars,
           promiseVars, Promise!futureVars, runtimeVars, Runtime!loopVars, Runtime!kernel,
           Runtime!tables, benchVars, Bench!benchVars, Bench!channels
<1>2. CASE UNCHANGED progressVars
  BY <1>2
     DEF progressVars, pipelineVars, Pipeline!cockpitVars, windowVars, Window!loopVars,
         Window!workers, Window!monitor, poolVars, Pool!workVars, permitsVars,
         Permits!semaphoreVars, promiseVars, Promise!futureVars, runtimeVars,
         Runtime!loopVars, Runtime!kernel, Runtime!tables, benchVars, Bench!benchVars,
         Bench!channels
<1> QED
  BY <1>1, <1>2

\* No queue and no pool loses what it accepted: at the report the cockpit has
\* decoded and displayed or counted everything, a pool that is gone has answered
\* every job it took, no permit of the queue on semaphores is lost or made up,
\* and a promise has one answer, which its reader got (cockpit/main.cpp:181,
\* thread_pool.hpp:53-54, bounded_queue.hpp:10-17, future.hpp 97-123).
THEOREM NoQueueLoses == ProgressSpec => []NothingIsLost
<1> DEFINE Inv == Cockpits!CockpitInvariant /\ PoolInvariant /\ PermitsInvariant /\ PromiseInvariant
<1>1. ProgressInit => Inv
  BY PipelineBegins, PoolBegins, PermitsBegin, PromiseBegins, Zenon DEF ProgressInit
<1>2. Inv /\ [ProgressNext]_progressVars => Inv'
  BY PartSteps, PipelineStep, PoolStep, PermitsStep, PromiseStep, Zenon
<1>3. Inv => NothingIsLost
  <2>1. PermitsInvariant => Permits!PermitsAddUp
    BY DEF PermitsInvariant
  <2> QED
    BY <2>1, PipelineHolds, PoolHolds, PromiseHolds, Zenon DEF NothingIsLost
<1> QED
  BY <1>1, <1>2, <1>3, PTL DEF ProgressSpec

\* The window has one long work at a time, with its buttons dead meanwhile, and
\* every stall the monitor reports is a blocked loop (window.cpp:186-192,
\* loop_monitor.cpp:45-60).
THEOREM TheWindowIsBusyOnce == ProgressSpec => []OneWorkAtATime
<1>1. ProgressInit => WindowInvariant
  BY WindowBegins, Zenon DEF ProgressInit
<1>2. WindowInvariant /\ [ProgressNext]_progressVars => WindowInvariant'
  BY PartSteps, WindowStep, Zenon
<1>3. WindowInvariant => OneWorkAtATime
  BY WindowHolds, Zenon DEF OneWorkAtATime
<1> QED
  BY <1>1, <1>2, <1>3, PTL DEF ProgressSpec

\* The runtime watches exactly the open sockets its two tables name, whichever
\* handler drops which and whatever number the next one gets; and in ipc_bench
\* every answer is that of its round trip, and each name is there as long as the
\* child has to open it and gone at the end (runtime.cpp 111-137, 408-430,
\* unix_socket.cpp 118-122, ipc_bench 87-102).
THEOREM TheTablesAgree == ProgressSpec => []TablesAgree
<1> DEFINE Inv == RuntimeInvariant /\ BenchInvariant
<1>1. ProgressInit => Inv
  BY RuntimeBegins, BenchBegins, Zenon DEF ProgressInit
<1>2. Inv /\ [ProgressNext]_progressVars => Inv'
  BY PartSteps, RuntimeStep, BenchStep, Zenon
<1>3. Inv => TablesAgree
  <2>1. RuntimeInvariant => Runtime!WatchesAgree
    BY DEF RuntimeInvariant
  <2> QED
    BY <2>1, BenchHolds, Zenon DEF TablesAgree
<1> QED
  BY <1>1, <1>2, <1>3, PTL DEF ProgressSpec
=============================================================================
