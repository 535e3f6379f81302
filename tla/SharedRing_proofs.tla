------------------------- MODULE SharedRing_proofs --------------------------
(***************************************************************************)
(* For every capacity, every number of regions and of messages: the two    *)
(* sides of a SharedRing never touch a slot at the same time, each region  *)
(* is a FIFO channel, and the name leads to the ring its creator has.      *)
(*                                                                         *)
(* Assumed: the header's stores become visible in program order.  Without  *)
(* it the theorems are false, which the run ring_header shows.             *)
(***************************************************************************)
EXTENDS SharedRing, TLAPS

Inside == {"idle", "first", "second", "publish"}
Peer == Other(creator)

(***************************************************************************)
(* The inductive invariant                                                 *)
(***************************************************************************)
\* Who may be where, and which region he has there.
Stages ==
    /\ creator \in Roles
    /\ step[creator] # "opened"
    /\ step[Peer] \notin {"made", "sized", "unlink"}
    /\ step["consumer"] # "publish"
    /\ owned[Peer] = None
    /\ step[creator] \in {"made", "sized"} =>
          attached[creator] \in (1 .. made) \ written /\ name = attached[creator]
    /\ step[creator] = "sized" => attached[creator] \in sized
    /\ step[creator] \in Inside => name = attached[creator]
    /\ step[Peer] = "opened" => attached[Peer] \in 1 .. made

\* Until its zero has arrived a counter is zero anyway: nobody attaches before,
\* and the creator publishes nothing before.
HeaderFirst ==
    /\ \A r \in Regions :
          /\ r \notin written => tail[r] = 0 /\ head[r] = 0 /\ unseen[r] = {}
          /\ unseen[r] \cap {"tail", "head"} # {} =>
                "capacity" \in unseen[r] /\ tail[r] = 0 /\ head[r] = 0
    /\ step[Peer] \in Inside => "capacity" \notin unseen[attached[Peer]]

\* The counters are a capacity apart at most; what a side has loaded of the
\* other's is never ahead of it; and it was enough to begin the copy.
Counters ==
    /\ \A r \in Regions : head[r] <= tail[r] /\ tail[r] <= head[r] + Capacity
    /\ step["producer"] \in Inside => seen["producer"] <= head[attached["producer"]]
    /\ step["consumer"] \in Inside =>
          /\ head[attached["consumer"]] <= seen["consumer"]
          /\ seen["consumer"] <= tail[attached["consumer"]]
    /\ step["producer"] \in {"first", "second", "publish"} =>
          /\ tail[attached["producer"]] < seen["producer"] + Capacity
          /\ tail[attached["producer"]] < MaxMessages
    /\ Copying("consumer") => head[attached["consumer"]] < seen["consumer"]

\* What is in the slots.
Holds(r, i, w) == slots[r][i % Capacity][w] = i

Contents ==
    /\ \A r \in Regions : \A i \in head[r] .. tail[r] - 1 : Holds(r, i, 1) /\ Holds(r, i, 2)
    /\ step["producer"] \in {"second", "publish"} =>
          Holds(attached["producer"], tail[attached["producer"]], 1)
    /\ step["producer"] = "publish" =>
          Holds(attached["producer"], tail[attached["producer"]], 2)
    /\ step["consumer"] = "second" => word = head[attached["consumer"]]

RingInvariant == TypeInvariant /\ Stages /\ HeaderFirst /\ Counters /\ Contents

(***************************************************************************)
(* Slots                                                                   *)
(***************************************************************************)
\* A counter has a slot, and two counters less than a capacity apart have
\* different ones.
LEMMA SlotOf ==
    ASSUME NEW i \in Nat
    PROVE  i % Capacity \in 0 .. Capacity - 1
  BY SizesAssumption

LEMMA SlotsDiffer ==
    ASSUME NEW i \in Nat, NEW j \in Nat, i < j, j < i + Capacity
    PROVE  i % Capacity # j % Capacity
<1> SUFFICES ASSUME i % Capacity = j % Capacity PROVE FALSE
  OBVIOUS
<1> DEFINE a == i \div Capacity
           b == j \div Capacity
           m == i % Capacity
<1>1. a \in Int /\ b \in Int /\ m \in Int /\ Capacity \in Nat \ {0}
  BY SizesAssumption
<1>2. i = Capacity * a + m
  BY SizesAssumption
<1>3. j - i = Capacity * (b - a)
  <2>1. j = Capacity * b + m
    BY SizesAssumption
  <2> HIDE DEF a, b, m
  <2>2. j - i = Capacity * b - Capacity * a
    BY <1>1, <1>2, <2>1
  <2>3. \A x, y, c \in Int : c * y - c * x = c * (y - x)
    OBVIOUS
  <2> QED
    BY <1>1, <2>2, <2>3
<1>4. b - a \in Int
  BY <1>1
<1>5. CASE b - a <= 0
  <2> HIDE DEF a, b, m
  <2>1. Capacity * (b - a) <= 0
    BY <1>1, <1>4, <1>5
  <2> QED
    BY <1>3, <2>1
<1>6. CASE b - a >= 1
  <2> HIDE DEF a, b, m
  <2>1. Capacity * (b - a) >= Capacity
    BY <1>1, <1>4, <1>6
  <2> QED
    BY <1>1, <1>3, <2>1
<1> QED
  BY <1>4, <1>5, <1>6

(***************************************************************************)
(* Every step keeps the types                                              *)
(***************************************************************************)
\* A role inside a ring has a region, whose counters are numbers.
LEMMA InsideRegion ==
    ASSUME RingInvariant, NEW p \in Roles, step[p] \in Inside
    PROVE  /\ attached[p] \in written /\ attached[p] \in Regions
           /\ head[attached[p]] \in Nat /\ tail[attached[p]] \in Nat
           /\ head[attached[p]] \in 0 .. MaxMessages /\ tail[attached[p]] \in 0 .. MaxMessages
<1> USE SizesAssumption DEF RingInvariant, TypeInvariant
<1>1. attached[p] \in written /\ attached[p] \in Regions
  <2>1. attached[p] \in written
    BY DEF Inside
  <2>2. attached[p] \in 1 .. made /\ made \in 0 .. MaxRegions
    BY <2>1
  <2> QED
    BY <2>1, <2>2 DEF Regions
<1>2. head[attached[p]] \in 0 .. MaxMessages /\ tail[attached[p]] \in 0 .. MaxMessages
  BY <1>1
<1> QED
  BY <1>1, <1>2

\* A step inside a ring that moves only its own role and the slots keeps the
\* types when the slots keep theirs.
LEMMA InsideTypes ==
    ASSUME TypeInvariant, NEW p \in Roles, NEW to \in {"idle", "first", "second", "publish"},
           attached[p] \in written, step' = [step EXCEPT ![p] = to],
           slots' \in [Regions -> [0 .. Capacity - 1 -> [1 .. 2 -> Words]]],
           UNCHANGED <<shm, unseen, counters, attached, owned, seen, word, delivered>>
    PROVE  TypeInvariant'
<1>1. step' \in [Roles -> {"out", "made", "sized", "opened", "idle", "first", "second", "publish",
                           "unlink"}]
  BY DEF TypeInvariant
<1>2. \A r \in Roles : step'[r] \in {"idle", "first", "second", "publish"} => attached'[r] \in written'
  BY DEF TypeInvariant, shm
<1>3. /\ UNCHANGED <<made, name, sized, written>> /\ UNCHANGED unseen /\ UNCHANGED <<tail, head>>
      /\ UNCHANGED <<attached, owned>> /\ UNCHANGED seen /\ UNCHANGED word /\ UNCHANGED delivered
  BY DEF shm, counters
<1> QED
  BY ONLY TypeInvariant, <1>1, <1>2, <1>3,
          slots' \in [Regions -> [0 .. Capacity - 1 -> [1 .. 2 -> Words]]], Zenon
  DEF TypeInvariant

LEMMA StepTypes == RingInvariant /\ [Next]_vars => TypeInvariant'
<1> SUFFICES ASSUME RingInvariant, [Next]_vars PROVE TypeInvariant'
  OBVIOUS
<1> USE SizesAssumption, NoneAssumption
        DEF RingInvariant, TypeInvariant, Stages, Roles, Other, Peer, At, Goto,
            shm, counters, roles, vars
<1>1. CASE ShmCreate
  BY <1>1 DEF ShmCreate
<1>2. CASE CreateFails
  BY <1>2 DEF CreateFails
<1>3. CASE Truncate
  BY <1>3 DEF Truncate
<1>4. CASE WriteHeader
  <2>1. attached[creator] \in sized /\ creator \in Roles
    BY <1>4 DEF WriteHeader
  <2>2. written' \subseteq sized'
    BY <1>4, <2>1 DEF WriteHeader
  <2>3. unseen' \in [Regions -> SUBSET HeaderFields]
    BY <1>4 DEF WriteHeader
  <2>4. owned' \in [Roles -> 1 .. made' \cup {None}]
    BY <1>4, <2>1 DEF WriteHeader
  <2>5. \A p \in Roles : step'[p] \in {"idle", "first", "second", "publish"} => attached'[p] \in written'
    BY <1>4 DEF WriteHeader
  <2> QED
    BY SMTT(60), <1>4, <2>2, <2>3, <2>4, <2>5 DEF WriteHeader
<1>5. ASSUME NEW r \in Regions, NEW field \in HeaderFields, Appears(r, field)
      PROVE  TypeInvariant'
  BY SMTT(60), <1>5 DEF Appears
<1>6. CASE ShmOpen
  BY <1>6 DEF ShmOpen
<1>7. CASE Attach
  <2> DEFINE p == Other(creator)
  <2>1. p \in Roles /\ step[p] = "opened" /\ attached[p] \in 1 .. made /\ attached[p] \in Regions
    BY <1>7 DEF Attach, Regions
  <2>2. tail[attached[p]] \in 0 .. MaxMessages /\ head[attached[p]] \in 0 .. MaxMessages
    BY <2>1
  <2>3. CASE HeaderIsThere(attached[p])
    BY SMTT(60), <1>7, <2>1, <2>2, <2>3 DEF Attach, HeaderIsThere, Theirs
  <2>4. CASE ~HeaderIsThere(attached[p])
    BY SMTT(60), <1>7, <2>1, <2>4 DEF Attach
  <2> QED
    BY <2>3, <2>4
<1>8. ASSUME NEW p \in Roles, Unmap(p)
      PROVE  TypeInvariant'
  BY <1>8 DEF Unmap
<1>9. ASSUME NEW p \in Roles, Unlink(p)
      PROVE  TypeInvariant'
  BY <1>9 DEF Unlink
<1>10. ASSUME NEW p \in Roles, Crash(p)
      PROVE  TypeInvariant'
  <2>1. attached' \in [Roles -> 1 .. made' \cup {None}] /\ owned' \in [Roles -> 1 .. made' \cup {None}]
    BY <1>10 DEF Crash
  <2>2. word' \in Words
    BY <1>10 DEF Crash, Words
  <2> QED
    BY <1>10, <2>1, <2>2 DEF Crash
<1>11. ASSUME NEW n \in 0 .. MaxMessages, TryPush(n)
      PROVE  TypeInvariant'
  <2>1. attached["producer"] \in written
    BY <1>11 DEF TryPush
  <2>2. seen' \in [Roles -> 0 .. MaxMessages]
    BY <1>11 DEF TryPush, Acquire
  <2>3. step' = [step EXCEPT !["producer"] = "first"] \/ step' = step
    BY <1>11 DEF TryPush
  <2> QED
    BY SMTT(60), <1>11, <2>1, <2>2, <2>3 DEF TryPush
<1>12. CASE CopyIn(1, "first", "second")
  <2> DEFINE q == attached["producer"]
             k == tail[q] % Capacity
  <2>1. q \in written /\ q \in Regions /\ k \in 0 .. Capacity - 1
    BY <1>12, InsideRegion, SlotOf DEF CopyIn, Inside
  <2>2. tail[q] \in Words
    BY <1>12, <2>1 DEF CopyIn, Counters, Words, Messages
  <2>3. slots' = [slots EXCEPT ![q][k][1] = tail[q]]
    BY <1>12 DEF CopyIn
  <2>4. slots' \in [Regions -> [0 .. Capacity - 1 -> [1 .. 2 -> Words]]]
    <3> HIDE DEF q, k
    <3> QED
      BY SMTT(60), <2>1, <2>2, <2>3
  <2>5. step' = [step EXCEPT !["producer"] = "second"]
    BY <1>12 DEF CopyIn
  <2>6. UNCHANGED <<shm, unseen, counters, attached, owned, seen, word, delivered>>
    BY <1>12 DEF CopyIn
  <2> QED
    BY ONLY RingInvariant, <2>1, <2>4, <2>5, <2>6, InsideTypes DEF RingInvariant, Roles
<1>13. CASE CopyIn(2, "second", "publish")
  <2> DEFINE q == attached["producer"]
             k == tail[q] % Capacity
  <2>1. q \in written /\ q \in Regions /\ k \in 0 .. Capacity - 1
    BY <1>13, InsideRegion, SlotOf DEF CopyIn, Inside
  <2>2. tail[q] \in Words
    BY <1>13, <2>1 DEF CopyIn, Counters, Words, Messages
  <2>3. slots' = [slots EXCEPT ![q][k][2] = tail[q]]
    BY <1>13 DEF CopyIn
  <2>4. slots' \in [Regions -> [0 .. Capacity - 1 -> [1 .. 2 -> Words]]]
    <3> HIDE DEF q, k
    <3> QED
      BY SMTT(60), <2>1, <2>2, <2>3
  <2>5. step' = [step EXCEPT !["producer"] = "publish"]
    BY <1>13 DEF CopyIn
  <2>6. UNCHANGED <<shm, unseen, counters, attached, owned, seen, word, delivered>>
    BY <1>13 DEF CopyIn
  <2> QED
    BY ONLY RingInvariant, <2>1, <2>4, <2>5, <2>6, InsideTypes DEF RingInvariant, Roles
<1>14. CASE PublishTail
  <2> DEFINE q == attached["producer"]
  <2>0. q \in Regions /\ tail[q] \in Nat /\ tail[q] < MaxMessages
    BY <1>14, InsideRegion DEF PublishTail, Counters, Inside
  <2>1. tail' \in [Regions -> 0 .. MaxMessages]
    BY SMTT(60), <1>14, <2>0 DEF PublishTail
  <2>2. step' = [step EXCEPT !["producer"] = "idle"] /\ attached["producer"] \in written
    BY <1>14 DEF PublishTail
  <2> QED
    BY SMTT(60), <1>14, <2>1, <2>2 DEF PublishTail
<1>15. ASSUME NEW n \in 0 .. MaxMessages, TryPop(n)
      PROVE  TypeInvariant'
  <2>1. attached["consumer"] \in written
    BY <1>15 DEF TryPop
  <2>2. seen' \in [Roles -> 0 .. MaxMessages]
    BY <1>15 DEF TryPop, Acquire
  <2>3. step' = [step EXCEPT !["consumer"] = "first"] \/ step' = step
    BY <1>15 DEF TryPop
  <2> QED
    BY SMTT(60), <1>15, <2>1, <2>2, <2>3 DEF TryPop
<1>16. CASE CopyOut
  <2>1. attached["consumer"] \in written /\ attached["consumer"] \in Regions
        /\ head[attached["consumer"]] % Capacity \in 0 .. Capacity - 1
    BY <1>16, InsideRegion, SlotOf DEF CopyOut, Inside
  <2>2. word' \in Words
    BY <1>16, <2>1 DEF CopyOut
  <2>3. step' = [step EXCEPT !["consumer"] = "second"]
    BY <1>16 DEF CopyOut
  <2> QED
    BY SMTT(60), <1>16, <2>1, <2>2, <2>3 DEF CopyOut
<1>17. CASE PublishHead
  <2> DEFINE q == attached["consumer"]
  <2>1. q \in written /\ q \in Regions /\ head[q] \in Nat /\ head[q] < tail[q] /\ tail[q] <= MaxMessages
    BY <1>17, InsideRegion DEF PublishHead, Inside, Counters, Copying
  <2>2. head' \in [Regions -> 0 .. MaxMessages]
    BY SMTT(60), <1>17, <2>1 DEF PublishHead
  <2>3. delivered' \in [Regions -> Words \cup {Torn}] /\ word' \in Words
    BY <1>17, <2>1 DEF PublishHead, Words
  <2>4. step' = [step EXCEPT !["consumer"] = "idle"]
    BY <1>17 DEF PublishHead
  <2>5. UNCHANGED <<shm, unseen, tail, slots, attached, owned, seen>>
    BY <1>17 DEF PublishHead
  <2> QED
    BY <2>1, <2>2, <2>3, <2>4, <2>5
<1>18. CASE UNCHANGED vars
  BY <1>18
<1> QED
  BY <1>1, <1>2, <1>3, <1>4, <1>5, <1>6, <1>7, <1>8, <1>9, <1>10,
     <1>11, <1>12, <1>13, <1>14, <1>15, <1>16, <1>17, <1>18, ZenonT(60)
  DEF Next, Lifecycle, Visibility, Push, Pop

(***************************************************************************)
(* Every step keeps the stages                                             *)
(***************************************************************************)
LEMMA StepStages == RingInvariant /\ [Next]_vars => Stages'
<1> SUFFICES ASSUME RingInvariant, [Next]_vars PROVE Stages'
  OBVIOUS
<1> USE SizesAssumption, NoneAssumption
        DEF RingInvariant, TypeInvariant, Stages, Roles, Other, Peer, At, Goto,
            Inside, shm, counters, roles, vars
<1>1. CASE ShmCreate
  BY <1>1 DEF ShmCreate
<1>2. CASE CreateFails
  BY <1>2 DEF CreateFails
<1>3. CASE Truncate
  BY <1>3 DEF Truncate
<1>4. CASE WriteHeader
  BY <1>4 DEF WriteHeader
<1>5. ASSUME NEW r \in Regions, NEW field \in HeaderFields, Appears(r, field)
      PROVE  Stages'
  BY <1>5 DEF Appears
<1>6. CASE ShmOpen
  BY <1>6 DEF ShmOpen
<1>7. CASE Attach
  BY <1>7 DEF Attach
<1>8. ASSUME NEW p \in Roles, Unmap(p)
      PROVE  Stages'
  BY <1>8 DEF Unmap
<1>9. ASSUME NEW p \in Roles, Unlink(p)
      PROVE  Stages'
  BY <1>9 DEF Unlink
<1>10. ASSUME NEW p \in Roles, Crash(p)
      PROVE  Stages'
  BY <1>10 DEF Crash
<1>11. ASSUME NEW n \in 0 .. MaxMessages, TryPush(n)
      PROVE  Stages'
  BY SMTT(60), <1>11 DEF TryPush
<1>12. CASE CopyIn(1, "first", "second")
  BY <1>12 DEF CopyIn
<1>13. CASE CopyIn(2, "second", "publish")
  BY <1>13 DEF CopyIn
<1>14. CASE PublishTail
  BY <1>14 DEF PublishTail
<1>15. ASSUME NEW n \in 0 .. MaxMessages, TryPop(n)
      PROVE  Stages'
  BY <1>15 DEF TryPop
<1>16. CASE CopyOut
  BY <1>16 DEF CopyOut
<1>17. CASE PublishHead
  BY <1>17 DEF PublishHead
<1>18. CASE UNCHANGED vars
  BY <1>18
<1> QED
  BY <1>1, <1>2, <1>3, <1>4, <1>5, <1>6, <1>7, <1>8, <1>9, <1>10,
     <1>11, <1>12, <1>13, <1>14, <1>15, <1>16, <1>17, <1>18, ZenonT(60)
  DEF Next, Lifecycle, Visibility, Push, Pop

(***************************************************************************)
(* If stores appear in order, every step leaves the header first           *)
(***************************************************************************)
LEMMA StepHeader == StoresInOrder /\ RingInvariant /\ [Next]_vars => HeaderFirst'
<1> SUFFICES ASSUME StoresInOrder, RingInvariant, [Next]_vars PROVE HeaderFirst'
  OBVIOUS
<1> USE SizesAssumption, NoneAssumption
        DEF RingInvariant, TypeInvariant, Stages, HeaderFirst, Roles, Other, Peer, At, Goto,
            Inside, shm, counters, roles, vars
<1>1. CASE ShmCreate
  BY <1>1 DEF ShmCreate
<1>2. CASE CreateFails
  BY <1>2 DEF CreateFails
<1>3. CASE Truncate
  BY <1>3 DEF Truncate
<1>4. CASE WriteHeader
  <2> DEFINE q == attached[creator]
  <2>1. q \in (1 .. made) \ written /\ q \in Regions
    BY <1>4 DEF WriteHeader, Regions
  <2>2. tail[q] = 0 /\ head[q] = 0
    BY <2>1
  <2>3. unseen' = [unseen EXCEPT ![q] = HeaderFields] /\ written' = written \cup {q}
    BY <1>4 DEF WriteHeader
  <2>4. \A r \in Regions :
          /\ r \notin written' => tail[r] = 0 /\ head[r] = 0 /\ unseen'[r] = {}
          /\ unseen'[r] \cap {"tail", "head"} # {} =>
                "capacity" \in unseen'[r] /\ tail[r] = 0 /\ head[r] = 0
    BY <2>1, <2>2, <2>3 DEF HeaderFields
  <2>5. step'[Peer] \in Inside => attached[Peer] \in written /\ "capacity" \notin unseen[attached[Peer]]
    BY <1>4 DEF WriteHeader
  <2>6. step'[Peer] \in Inside => "capacity" \notin unseen'[attached[Peer]]
    BY <2>1, <2>3, <2>5
  <2> QED
    BY <1>4, <2>4, <2>6 DEF WriteHeader
<1>5. ASSUME NEW r \in Regions, NEW field \in HeaderFields, Appears(r, field)
      PROVE  HeaderFirst'
  <2>1. /\ unseen' = [unseen EXCEPT ![r] = @ \ {field}]
        /\ field \in unseen[r]
        /\ UNCHANGED <<creator, written, step, attached>>
    BY <1>5 DEF Appears
  <2>2. field = "capacity" => unseen[r] \cap {"tail", "head"} = {}
    <3>1. /\ HeaderStores[1] = "tail" /\ HeaderStores[2] = "head" /\ HeaderStores[3] = "capacity"
          /\ {1, 2, 3} \subseteq DOMAIN HeaderStores
      BY DEF HeaderStores
    <3> QED
      BY <1>5, <3>1 DEF Appears
  <2>3. tail' = tail /\ head' = head
    BY <1>5 DEF Appears
  <2>4. \A q \in Regions : unseen'[q] \subseteq unseen[q]
    BY <2>1
  <2>5. \A q \in Regions : unseen'[q] \cap {"tail", "head"} # {} => "capacity" \in unseen'[q]
    BY <2>1, <2>2
  <2>6. step[Peer] \in Inside => attached[Peer] \in Regions
    BY InsideRegion
  <2> QED
    BY SMTT(60), <2>1, <2>3, <2>4, <2>5, <2>6
<1>6. CASE ShmOpen
  BY <1>6 DEF ShmOpen
<1>7. CASE Attach
  <2> DEFINE p == Other(creator)
  <2>1. attached[p] \in 1 .. made
    BY <1>7 DEF Attach
  <2>2. CASE HeaderIsThere(attached[p])
    BY <1>7, <2>1, <2>2 DEF Attach, HeaderIsThere
  <2>3. CASE ~HeaderIsThere(attached[p])
    BY <1>7, <2>1, <2>3 DEF Attach
  <2> QED
    BY <2>2, <2>3
<1>8. ASSUME NEW p \in Roles, Unmap(p)
      PROVE  HeaderFirst'
  BY <1>8 DEF Unmap
<1>9. ASSUME NEW p \in Roles, Unlink(p)
      PROVE  HeaderFirst'
  BY <1>9 DEF Unlink
<1>10. ASSUME NEW p \in Roles, Crash(p)
      PROVE  HeaderFirst'
  BY <1>10 DEF Crash
<1>11. ASSUME NEW n \in 0 .. MaxMessages, TryPush(n)
      PROVE  HeaderFirst'
  BY <1>11 DEF TryPush
<1>12. CASE CopyIn(1, "first", "second")
  BY <1>12 DEF CopyIn
<1>13. CASE CopyIn(2, "second", "publish")
  BY SMTT(60), <1>13 DEF CopyIn
<1>14. CASE PublishTail
  BY SMTT(60), <1>14 DEF PublishTail
<1>15. ASSUME NEW n \in 0 .. MaxMessages, TryPop(n)
      PROVE  HeaderFirst'
  BY <1>15 DEF TryPop
<1>16. CASE CopyOut
  BY <1>16 DEF CopyOut
<1>17. CASE PublishHead
  BY ZenonT(60), <1>17 DEF PublishHead
<1>18. CASE UNCHANGED vars
  BY <1>18
<1> QED
  BY <1>1, <1>2, <1>3, <1>4, <1>5, <1>6, <1>7, <1>8, <1>9, <1>10,
     <1>11, <1>12, <1>13, <1>14, <1>15, <1>16, <1>17, <1>18, ZenonT(60)
  DEF Next, Lifecycle, Visibility, Push, Pop

(***************************************************************************)
(* Every step keeps the counters                                           *)
(***************************************************************************)
LEMMA StepCounters == RingInvariant /\ [Next]_vars => Counters'
<1> SUFFICES ASSUME RingInvariant, [Next]_vars PROVE Counters'
  OBVIOUS
<1> USE SizesAssumption, NoneAssumption
        DEF RingInvariant, TypeInvariant, Stages, HeaderFirst, Counters, Copying, Roles, Other, Peer, At, Goto,
            Inside, shm, counters, roles, vars
<1>1. CASE ShmCreate
  BY <1>1 DEF ShmCreate
<1>2. CASE CreateFails
  BY <1>2 DEF CreateFails
<1>3. CASE Truncate
  BY <1>3 DEF Truncate
<1>4. CASE WriteHeader
  <2> DEFINE q == attached[creator]
  <2>1. q \in Regions /\ tail[q] = 0 /\ head[q] = 0
    BY <1>4 DEF WriteHeader, Regions
  <2>2. /\ seen' = [seen EXCEPT ![creator] = 0]
        /\ step' = [step EXCEPT ![creator] = "idle"]
        /\ UNCHANGED <<head, tail, attached>>
    BY <1>4 DEF WriteHeader
  <2>3. CASE creator = "producer"
    BY <2>1, <2>2, <2>3
  <2>4. CASE creator = "consumer"
    BY <2>1, <2>2, <2>4
  <2> QED
    BY <2>3, <2>4
<1>5. ASSUME NEW r \in Regions, NEW field \in HeaderFields, Appears(r, field)
      PROVE  Counters'
  BY SMTT(60), <1>5 DEF Appears
<1>6. CASE ShmOpen
  BY <1>6 DEF ShmOpen
<1>7. CASE Attach
  <2> DEFINE p == Other(creator)
             q == attached[p]
  <2>1. p \in Roles /\ q \in 1 .. made /\ q \in Regions /\ head[q] \in Nat /\ tail[q] \in Nat
    BY SMTT(60), <1>7 DEF Attach, Regions
  <2>2. head[q] <= tail[q]
    BY <2>1
  <2>3. UNCHANGED <<head, tail>>
    BY <1>7 DEF Attach
  <2>4. CASE HeaderIsThere(q)
    <3>1. /\ seen' = [seen EXCEPT ![p] = Theirs(p, q)]
          /\ step' = [step EXCEPT ![p] = "idle"]
          /\ attached' = attached
      BY <1>7, <2>4 DEF Attach
    <3>2. CASE p = "producer"
      BY <2>1, <2>2, <2>3, <3>1, <3>2 DEF Theirs
    <3>3. CASE p = "consumer"
      BY SMTT(60), <2>1, <2>2, <2>3, <3>1, <3>3 DEF Theirs
    <3> QED
      BY <2>1, <3>2, <3>3
  <2>5. CASE ~HeaderIsThere(q)
    <3>1. /\ step' = [step EXCEPT ![p] = "out"]
          /\ seen' = seen
          /\ attached' = [attached EXCEPT ![p] = None]
      BY <1>7, <2>5 DEF Attach
    <3>2. p = "producer" \/ p = "consumer"
      BY <2>1
    <3> QED
      BY <2>3, <3>1, <3>2
  <2> QED
    BY <2>4, <2>5
<1>8. ASSUME NEW p \in Roles, Unmap(p)
      PROVE  Counters'
  BY <1>8 DEF Unmap
<1>9. ASSUME NEW p \in Roles, Unlink(p)
      PROVE  Counters'
  BY <1>9 DEF Unlink
<1>10. ASSUME NEW p \in Roles, Crash(p)
      PROVE  Counters'
  BY <1>10 DEF Crash
<1>11. ASSUME NEW n \in 0 .. MaxMessages, TryPush(n)
      PROVE  Counters'
  <2> DEFINE q == attached["producer"]
  <2>1. /\ q \in Regions /\ head[q] \in Nat /\ tail[q] \in Nat
        /\ step["producer"] = "idle"
        /\ n \in Nat /\ seen' = [seen EXCEPT !["producer"] = n]
        /\ UNCHANGED <<head, tail, attached>>
    BY <1>11, InsideRegion DEF TryPush, Acquire
  <2>2. n <= head[q]
    BY <1>11, <2>1 DEF TryPush, Loads, Theirs, Messages
  <2>3. CASE MayPush(q, n)
    BY SMTT(60), <1>11, <2>1, <2>2, <2>3 DEF TryPush, MayPush
  <2>4. CASE ~MayPush(q, n)
    BY <1>11, <2>1, <2>2, <2>4 DEF TryPush
  <2> QED
    BY <2>3, <2>4
<1>12. CASE CopyIn(1, "first", "second")
  BY <1>12 DEF CopyIn
<1>13. CASE CopyIn(2, "second", "publish")
  BY <1>13 DEF CopyIn
<1>14. CASE PublishTail
  BY SMTT(60), <1>14 DEF PublishTail
<1>15. ASSUME NEW n \in 0 .. MaxMessages, TryPop(n)
      PROVE  Counters'
  <2> DEFINE q == attached["consumer"]
  <2>1. /\ q \in Regions /\ head[q] \in Nat /\ tail[q] \in Nat
        /\ step["consumer"] = "idle"
        /\ n \in Nat /\ seen' = [seen EXCEPT !["consumer"] = n]
        /\ UNCHANGED <<head, tail, attached>>
    BY SMTT(60), <1>15, InsideRegion DEF TryPop, Acquire
  <2>2. head[q] <= n /\ n <= tail[q]
    BY <1>15, <2>1 DEF TryPop, Loads, Theirs, Messages
  <2>3. CASE MayPop(q, n)
    BY SMTT(60), <1>15, <2>1, <2>2, <2>3 DEF TryPop, MayPop
  <2>4. CASE ~MayPop(q, n)
    BY <1>15, <2>1, <2>2, <2>4 DEF TryPop
  <2> QED
    BY <2>3, <2>4
<1>16. CASE CopyOut
  BY <1>16 DEF CopyOut
<1>17. CASE PublishHead
  BY SMTT(60), <1>17 DEF PublishHead
<1>18. CASE UNCHANGED vars
  BY <1>18
<1> QED
  BY <1>1, <1>2, <1>3, <1>4, <1>5, <1>6, <1>7, <1>8, <1>9, <1>10,
     <1>11, <1>12, <1>13, <1>14, <1>15, <1>16, <1>17, <1>18, ZenonT(60)
  DEF Next, Lifecycle, Visibility, Push, Pop

(***************************************************************************)
(* Every step keeps the contents                                           *)
(***************************************************************************)
LEMMA StepContents == RingInvariant /\ [Next]_vars => Contents'
<1> SUFFICES ASSUME RingInvariant, [Next]_vars PROVE Contents'
  OBVIOUS
<1> USE SizesAssumption, NoneAssumption
        DEF RingInvariant, TypeInvariant, Stages, HeaderFirst, Contents, Holds, Roles, Other, Peer, At, Goto,
            shm, counters, roles, vars
<1>1. CASE ShmCreate
  BY <1>1 DEF ShmCreate
<1>2. CASE CreateFails
  BY <1>2 DEF CreateFails
<1>3. CASE Truncate
  BY <1>3 DEF Truncate
<1>4. CASE WriteHeader
  BY <1>4 DEF WriteHeader
<1>5. ASSUME NEW r \in Regions, NEW field \in HeaderFields, Appears(r, field)
      PROVE  Contents'
  <2>1. tail' = tail /\ head' = head
    BY <1>5 DEF Appears
  <2> QED
    BY <1>5, <2>1 DEF Appears
<1>6. CASE ShmOpen
  BY <1>6 DEF ShmOpen
<1>7. CASE Attach
  BY SMTT(60), <1>7 DEF Attach
<1>8. ASSUME NEW p \in Roles, Unmap(p)
      PROVE  Contents'
  BY <1>8 DEF Unmap
<1>9. ASSUME NEW p \in Roles, Unlink(p)
      PROVE  Contents'
  BY <1>9 DEF Unlink
<1>10. ASSUME NEW p \in Roles, Crash(p)
      PROVE  Contents'
  BY <1>10 DEF Crash
<1>11. ASSUME NEW n \in 0 .. MaxMessages, TryPush(n)
      PROVE  Contents'
  BY SMTT(60), <1>11 DEF TryPush
<1>12. CASE CopyIn(1, "first", "second")
  <2> DEFINE q == attached["producer"]
             k == tail[q] % Capacity
  <2>1. q \in Regions /\ head[q] \in Nat /\ tail[q] \in Nat /\ tail[q] < head[q] + Capacity
    <3>1. step["producer"] = "first"
      BY <1>12 DEF CopyIn
    <3>2. q \in Regions /\ head[q] \in Nat /\ tail[q] \in Nat
      BY <3>1, InsideRegion DEF Inside
    <3>3. tail[q] < seen["producer"] + Capacity /\ seen["producer"] <= head[q] /\ seen["producer"] \in Nat
      BY <3>1 DEF Counters, Inside
    <3> QED
      BY <3>2, <3>3
  <2>2. k \in 0 .. Capacity - 1
    BY <2>1, SlotOf
  <2>3. /\ slots' = [slots EXCEPT ![q][k][1] = tail[q]]
        /\ step' = [step EXCEPT !["producer"] = "second"]
        /\ UNCHANGED <<head, tail, attached, word>>
    BY <1>12 DEF CopyIn
  <2>4. slots'[q][k][1] = tail[q] /\ slots'[q][k][2] = slots[q][k][2]
    <3> HIDE DEF q, k
    <3> QED
      BY <2>1, <2>2, <2>3
  <2>5. ASSUME NEW r \in Regions, NEW i \in head[r] .. tail[r] - 1, NEW w \in 1 .. 2
        PROVE  slots'[r][i % Capacity][w] = i
    <3>1. head[r] \in Nat /\ tail[r] \in Nat
      OBVIOUS
    <3>2. i \in Nat
      BY <3>1
    <3>3. slots[r][i % Capacity][w] = i
      BY SMTT(60)
    <3>4. i % Capacity \in 0 .. Capacity - 1
      BY <3>2, SlotOf
    <3>5. r = q => i % Capacity # k
      BY SMTT(60), <2>1, <3>2, SlotsDiffer
    <3> HIDE DEF k, q
    <3> QED
      BY <2>1, <2>2, <2>3, <3>3, <3>4, <3>5
  <2>6. \A r \in Regions : \A i \in head'[r] .. tail'[r] - 1 :
           slots'[r][i % Capacity][1] = i /\ slots'[r][i % Capacity][2] = i
    <3>1. head' = head /\ tail' = tail
      BY SMTT(60), <2>3
    <3> QED
      BY ONLY <2>5, <3>1
  <2> QED
    BY <1>12, <2>3, <2>4, <2>6, Zenon
<1>13. CASE CopyIn(2, "second", "publish")
  <2> DEFINE q == attached["producer"]
             k == tail[q] % Capacity
  <2>1. q \in Regions /\ head[q] \in Nat /\ tail[q] \in Nat /\ tail[q] < head[q] + Capacity
    <3>1. step["producer"] = "second"
      BY <1>13 DEF CopyIn
    <3>2. q \in Regions /\ head[q] \in Nat /\ tail[q] \in Nat
      BY <3>1, InsideRegion DEF Inside
    <3>3. tail[q] < seen["producer"] + Capacity /\ seen["producer"] <= head[q] /\ seen["producer"] \in Nat
      BY <3>1 DEF Counters, Inside
    <3> QED
      BY <3>2, <3>3
  <2>2. k \in 0 .. Capacity - 1
    BY <2>1, SlotOf
  <2>3. /\ slots' = [slots EXCEPT ![q][k][2] = tail[q]]
        /\ step' = [step EXCEPT !["producer"] = "publish"]
        /\ UNCHANGED <<head, tail, attached, word>>
    BY <1>13 DEF CopyIn
  <2>4. slots'[q][k][2] = tail[q] /\ slots'[q][k][1] = slots[q][k][1]
    <3> HIDE DEF q, k
    <3> QED
      BY <2>1, <2>2, <2>3
  <2>5. ASSUME NEW r \in Regions, NEW i \in head[r] .. tail[r] - 1, NEW w \in 1 .. 2
        PROVE  slots'[r][i % Capacity][w] = i
    <3>1. head[r] \in Nat /\ tail[r] \in Nat
      OBVIOUS
    <3>2. i \in Nat
      BY <3>1
    <3>3. slots[r][i % Capacity][w] = i
      BY SMTT(60)
    <3>4. i % Capacity \in 0 .. Capacity - 1
      BY <3>2, SlotOf
    <3>5. r = q => i % Capacity # k
      BY SMTT(60), <2>1, <3>2, SlotsDiffer
    <3> HIDE DEF k, q
    <3> QED
      BY <2>1, <2>2, <2>3, <3>3, <3>4, <3>5
  <2>6. \A r \in Regions : \A i \in head'[r] .. tail'[r] - 1 :
           slots'[r][i % Capacity][1] = i /\ slots'[r][i % Capacity][2] = i
    <3>1. head' = head /\ tail' = tail
      BY <2>3
    <3> QED
      BY ONLY <2>5, <3>1
  <2>7. slots[q][k][1] = tail[q]
    BY <1>13 DEF CopyIn
  <2> QED
    BY <1>13, <2>3, <2>4, <2>6, <2>7, Zenon
<1>14. CASE PublishTail
  BY SMTT(60), <1>14 DEF PublishTail
<1>15. ASSUME NEW n \in 0 .. MaxMessages, TryPop(n)
      PROVE  Contents'
  BY <1>15 DEF TryPop
<1>16. CASE CopyOut
  <2> DEFINE q == attached["consumer"]
  <2>1. q \in Regions /\ head[q] \in Nat /\ tail[q] \in Nat /\ head[q] < tail[q]
    BY SMTT(60), <1>16, InsideRegion DEF CopyOut, Inside, Counters, Copying
  <2>2. word' = head[q]
    BY SMTT(60), <1>16, <2>1 DEF CopyOut
  <2> QED
    BY SMTT(60), <1>16, <2>2 DEF CopyOut
<1>17. CASE PublishHead
  BY <1>17 DEF PublishHead
<1>18. CASE UNCHANGED vars
  BY <1>18
<1> QED
  BY <1>1, <1>2, <1>3, <1>4, <1>5, <1>6, <1>7, <1>8, <1>9, <1>10,
     <1>11, <1>12, <1>13, <1>14, <1>15, <1>16, <1>17, <1>18, ZenonT(60)
  DEF Next, Lifecycle, Visibility, Push, Pop

(***************************************************************************)
(* The theorems                                                            *)
(***************************************************************************)
LEMMA InitInvariant == Init => RingInvariant
<1> SUFFICES ASSUME Init PROVE RingInvariant
  OBVIOUS
<1> USE SizesAssumption, NoneAssumption DEF Init, Roles, Other, Peer, Copying, Inside
<1>1. TypeInvariant
  <2>1. slots \in [Regions -> [0 .. Capacity - 1 -> [1 .. 2 -> Words]]]
    BY DEF Words
  <2> QED
    BY <2>1 DEF TypeInvariant, Words
<1>2. Stages /\ HeaderFirst
  BY DEF Stages, HeaderFirst
<1>3. Counters /\ Contents
  BY DEF Counters, Contents
<1> QED
  BY <1>1, <1>2, <1>3 DEF RingInvariant

\* RingInvariant is inductive.
THEOREM Invariance == ASSUME StoresInOrder PROVE Spec => []RingInvariant
<1>1. Init => RingInvariant
  BY InitInvariant
<1>2. RingInvariant /\ [Next]_vars => RingInvariant'
  BY StepTypes, StepStages, StepHeader, StepCounters, StepContents DEF RingInvariant
<1> QED
  BY <1>1, <1>2, PTL DEF Spec

\* Every variable of the ring has its type, and nobody is inside a region
\* without a header: open() refuses what create() has not finished.
THEOREM TypesAreRight == ASSUME StoresInOrder PROVE Spec => []TypeInvariant
<1>1. RingInvariant => TypeInvariant
  BY DEF RingInvariant
<1> QED
  BY <1>1, Invariance, PTL

\* Producer and consumer never use a slot at the same time: the loads with
\* acquire and the stores with release of the two counters are enough.
THEOREM RaceFree == ASSUME StoresInOrder PROVE Spec => []NoRace
<1>1. RingInvariant => NoRace
  <2> SUFFICES ASSUME RingInvariant PROVE NoRace
    OBVIOUS
  <2>1. Copying("producer") => step["producer"] \in Inside /\ "producer" \in Roles
    BY DEF Copying, Inside, Roles
  <2>2. Copying("producer") =>
          tail[attached["producer"]] \in Nat /\ seen["producer"] \in Nat
    BY SMTT(60), <2>1, InsideRegion, SizesAssumption DEF RingInvariant, TypeInvariant
  <2>3. Copying("consumer") => step["consumer"] \in Inside /\ "consumer" \in Roles
    BY DEF Copying, Inside, Roles
  <2>4. Copying("consumer") =>
          head[attached["consumer"]] \in Nat /\ seen["consumer"] \in Nat
    BY SMTT(60), <2>3, InsideRegion, SizesAssumption DEF RingInvariant, TypeInvariant
  <2> QED
    BY <2>2, <2>4, SizesAssumption DEF RingInvariant, Counters, NoRace, Copying
<1> QED
  BY <1>1, Invariance, PTL

\* The name leads to the ring of a creator that has one: no peer and no earlier
\* ring takes it along.
THEOREM NameIsKept == ASSUME StoresInOrder PROVE Spec => []NameLeadsToRing
<1>1. RingInvariant => NameLeadsToRing
  BY DEF RingInvariant, Stages, NameLeadsToRing, Inside
<1> QED
  BY <1>1, Invariance, PTL

\* A step of the ring is a step of the channel, or none.
LEMMA StepContract ==
    RingInvariant /\ RingInvariant' /\ [Next]_vars
        => [Contract!Next]_<<tail, head, delivered>>
<1> SUFFICES ASSUME RingInvariant, RingInvariant', [Next]_vars, UNCHANGED <<tail, head, delivered>> => FALSE
             PROVE  Contract!Next
  OBVIOUS
<1> USE SizesAssumption
<1>1. CASE ShmCreate
  BY <1>1 DEF ShmCreate, shm, counters, roles
<1>2. CASE CreateFails
  BY <1>2 DEF CreateFails, shm, counters, roles
<1>3. CASE Truncate
  BY <1>3 DEF Truncate, shm, counters, roles
<1>4. CASE WriteHeader
  BY <1>4 DEF WriteHeader, shm, counters, roles
<1>5. ASSUME NEW r \in Regions, NEW field \in HeaderFields, Appears(r, field)
      PROVE  Contract!Next
  <2>1. tail' = tail /\ head' = head
    BY <1>5 DEF Appears, RingInvariant, HeaderFirst, TypeInvariant
  <2> QED
    BY <1>5, <2>1 DEF Appears
<1>6. CASE ShmOpen
  BY <1>6 DEF ShmOpen, shm, counters, roles
<1>7. CASE Attach
  BY <1>7 DEF Attach, shm, counters, roles
<1>8. ASSUME NEW p \in Roles, Unmap(p)
      PROVE  Contract!Next
  BY <1>8 DEF Unmap, shm, counters, roles
<1>9. ASSUME NEW p \in Roles, Unlink(p)
      PROVE  Contract!Next
  BY <1>9 DEF Unlink, shm, counters, roles
<1>10. ASSUME NEW p \in Roles, Crash(p)
      PROVE  Contract!Next
  BY <1>10 DEF Crash, shm, counters, roles
<1>11. ASSUME NEW n \in 0 .. MaxMessages, TryPush(n)
      PROVE  Contract!Next
  BY <1>11 DEF TryPush, shm, counters, roles
<1>12. CASE CopyIn(1, "first", "second")
  BY <1>12 DEF CopyIn, shm, counters, roles
<1>13. CASE CopyIn(2, "second", "publish")
  BY <1>13 DEF CopyIn, shm, counters, roles
<1>14. CASE PublishTail
  <2> DEFINE q == attached["producer"]
  <2>1. step["producer"] = "publish" /\ tail' = [tail EXCEPT ![q] = @ + 1] /\ UNCHANGED <<head, delivered>>
    BY <1>14 DEF PublishTail, At
  <2>2. q \in Regions /\ head[q] \in Nat /\ tail[q] \in Nat
    BY <2>1, InsideRegion DEF Inside, Roles
  <2>3. tail[q] < seen["producer"] + Capacity /\ seen["producer"] <= head[q] /\ seen["producer"] \in Nat
    BY <2>1 DEF RingInvariant, TypeInvariant, Counters, Inside, Roles
  <2>4. tail[q] - head[q] < Capacity
    BY <2>2, <2>3
  <2> QED
    BY <2>1, <2>2, <2>4 DEF Contract!Next, Contract!Send
<1>15. ASSUME NEW n \in 0 .. MaxMessages, TryPop(n)
      PROVE  Contract!Next
  BY <1>15 DEF TryPop, shm, counters, roles
<1>16. CASE CopyOut
  BY <1>16 DEF CopyOut, shm, counters, roles
<1>17. CASE PublishHead
  <2> DEFINE q == attached["consumer"]
  <2>1. /\ step["consumer"] = "second"
        /\ head' = [head EXCEPT ![q] = @ + 1]
        /\ UNCHANGED tail
        /\ delivered' = [delivered EXCEPT ![q] =
              IF word = slots[q][head[q] % Capacity][2] THEN word ELSE Torn]
    BY <1>17 DEF PublishHead, At
  <2>2. q \in Regions /\ head[q] \in Nat /\ tail[q] \in Nat
    BY <2>1, InsideRegion DEF Inside, Roles
  <2>3. head[q] < tail[q]
    <3>1. seen["consumer"] \in Nat
      BY DEF RingInvariant, TypeInvariant, Roles
    <3>2. head[q] < seen["consumer"] /\ seen["consumer"] <= tail[q]
      BY <2>1 DEF RingInvariant, Counters, Copying, Inside
    <3> QED
      BY <2>2, <3>1, <3>2
  <2>4. word = head[q] /\ slots[q][head[q] % Capacity][2] = head[q]
    BY <2>1, <2>2, <2>3 DEF RingInvariant, Contents, Holds
  <2> QED
    BY <2>1, <2>2, <2>3, <2>4 DEF Contract!Next, Contract!Receive
<1>18. CASE UNCHANGED vars
  BY <1>18 DEF vars, counters
<1> QED
  BY <1>1, <1>2, <1>3, <1>4, <1>5, <1>6, <1>7, <1>8, <1>9, <1>10,
     <1>11, <1>12, <1>13, <1>14, <1>15, <1>16, <1>17, <1>18, ZenonT(60)
  DEF Next, Lifecycle, Visibility, Push, Pop

\* Every region is a FIFO channel of bounded length that hands over each message
\* once, whoever of the two dies in the middle of a copy and comes back.
THEOREM ImplementsChannel == ASSUME StoresInOrder PROVE Spec => ImplementsContract
<1>1. Init => Contract!Init
  BY DEF Init, Contract!Init
<1>2. RingInvariant /\ RingInvariant' /\ [Next]_vars => [Contract!Next]_<<tail, head, delivered>>
  BY StepContract
<1> QED
  BY <1>1, <1>2, Invariance, PTL DEF Spec, ImplementsContract, Contract!Spec
=============================================================================
