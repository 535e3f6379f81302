---------------------------- MODULE Parts_proofs ----------------------------
(***************************************************************************)
(* What the parts of Parts rest on, for all values of the constants: an    *)
(* inductive invariant of each, over its slots, which are given readable   *)
(* names first, and at the end the theorems about PartsSpec.               *)
(***************************************************************************)
EXTENDS Parts, FiniteSetTheorems, SequenceTheorems, TLAPS

(***************************************************************************)
(* ErrorState                                                              *)
(***************************************************************************)
eTec == s1
eRec == s2
eWindows == s3
eOff == s4
USE DEF eTec, eRec, eWindows, eOff

\* The counters have their types, and the node is off the bus exactly while the
\* transmit counter stands at its limit: neither is inductive alone, because a
\* node that is off the bus with a lower counter could leave it again unseen.
ErrorInvariant == Errors!ErrorTypes /\ Errors!LatchedAtLimit

LEMMA Limits ==
    /\ ErrorPenalty \in Nat /\ ErrorPassiveLimit \in Nat
    /\ BusOffLimit \in Nat /\ RecoveryWindows \in Nat
    /\ ErrorPenalty > 0 /\ ErrorPassiveLimit > 0 /\ BusOffLimit > 0
    /\ RecoveryWindows > 0
    /\ ErrorPassiveLimit < BusOffLimit
<1>1. \A limit \in {ErrorPenalty, ErrorPassiveLimit, BusOffLimit, RecoveryWindows} :
         limit \in Nat \ {0}
  BY LimitsAssumption DEF Errors!ErrorStateAssumption
<1>2. \A n \in Nat \ {0} : n \in Nat /\ n > 0
  OBVIOUS
<1>3. QED
  BY <1>1, <1>2, LimitsAssumption, Zenon DEF Errors!ErrorStateAssumption

LEMMA InitialCounters ==
    ASSUME Errors!ErrorInit
    PROVE  ErrorInvariant
<1>1. eTec = 0 /\ eRec = 0 /\ eWindows = 0 /\ eOff = FALSE
  BY DEF Errors!ErrorInit
<1>2. /\ 0 \in 0 .. BusOffLimit /\ 0 \in 0 .. RecoveryWindows - 1
      /\ ~(0 = BusOffLimit) /\ ~(0 > 0)
  BY Limits
<1>3. QED
  BY <1>1, <1>2, Zenon DEF ErrorInvariant, Errors!ErrorTypes, Errors!LatchedAtLimit

\* On the bus each counter goes down by one at most, never below zero, and up to
\* its limit at most.
LEMMA CountersInRange ==
    ASSUME Errors!ErrorTypes, NEW event \in Errors!ErrorEvents
    PROVE  /\ Errors!TransmitErrors(event) \in Nat
           /\ Errors!ReceiveErrors(event) \in Nat
           /\ Errors!TransmitErrors(event) > eTec => Errors!ReceiveErrors(event) = eRec
BY Limits, SMT DEF Errors!ErrorTypes, Errors!ErrorEvents, Errors!TransmitErrors, Errors!ReceiveErrors

LEMMA OnTheBusKeeps ==
    ASSUME ErrorInvariant, NEW event \in Errors!ErrorEvents, Errors!OnTheBus(event)
    PROVE  ErrorInvariant' /\ Errors!Confined
<1>1. /\ Errors!TransmitErrors(event) \in Nat
      /\ Errors!ReceiveErrors(event) \in Nat
      /\ Errors!TransmitErrors(event) > eTec => Errors!ReceiveErrors(event) = eRec
  BY CountersInRange DEF ErrorInvariant
<1>2. PICK t, r \in Nat : t = Errors!TransmitErrors(event) /\ r = Errors!ReceiveErrors(event)
  BY <1>1
<1>3. eTec' = Errors!SmallerOf(t, BusOffLimit) /\ eRec' = Errors!SmallerOf(r, BusOffLimit)
  BY <1>2 DEF Errors!OnTheBus
<1>4. eOff = FALSE /\ eOff' = (t >= BusOffLimit)
  BY <1>2, Zenon DEF Errors!OnTheBus, ErrorInvariant, Errors!ErrorTypes
<1>5. eWindows = 0 /\ eWindows' = 0
  <2>1. eWindows \in 0 .. RecoveryWindows - 1 /\ ~(eWindows > 0)
    BY <1>4, Zenon DEF ErrorInvariant, Errors!ErrorTypes, Errors!LatchedAtLimit
  <2>2. eWindows = 0
    BY <2>1, Limits
  <2>3. eWindows' = 0 \/ eWindows' = eWindows
    BY DEF Errors!OnTheBus
  <2>4. QED
    BY <2>2, <2>3
<1>6. eTec \in 0 .. BusOffLimit /\ eRec \in 0 .. BusOffLimit /\ ~(eTec = BusOffLimit)
  BY <1>4, Zenon DEF ErrorInvariant, Errors!ErrorTypes, Errors!LatchedAtLimit
<1>7. /\ eTec' \in 0 .. BusOffLimit /\ eRec' \in 0 .. BusOffLimit
      /\ 0 \in 0 .. RecoveryWindows - 1 /\ ~(0 > 0)
  BY <1>2, <1>3, Limits DEF Errors!SmallerOf
<1>8. CASE t >= BusOffLimit
  <2>1. eOff' = TRUE
    BY <1>4, <1>8, Zenon
  <2>2. eTec' = BusOffLimit /\ eTec' > eTec /\ t > eTec
    BY <1>2, <1>3, <1>6, <1>8, Limits DEF Errors!SmallerOf
  <2>3. eRec' = eRec
    BY <1>1, <1>2, <1>3, <1>6, <2>2, Limits DEF Errors!SmallerOf
  <2>4. QED
    BY <1>4, <1>5, <1>7, <2>1, <2>2, <2>3, Zenon DEF ErrorInvariant, Errors!ErrorTypes,
       Errors!LatchedAtLimit, Errors!Confined
<1>9. CASE ~(t >= BusOffLimit)
  <2>1. eOff' = FALSE
    <3>1. (t >= BusOffLimit) = FALSE
      BY <1>2, <1>9, Limits
    <3>2. QED
      BY <1>4, <3>1, Zenon
  <2>2. ~(eTec' = BusOffLimit)
    BY <1>2, <1>3, <1>9, Limits DEF Errors!SmallerOf
  <2>3. QED
    BY <1>4, <1>5, <1>7, <2>1, <2>2, Zenon DEF ErrorInvariant, Errors!ErrorTypes,
       Errors!LatchedAtLimit, Errors!Confined
<1>10. QED
  BY <1>8, <1>9

LEMMA OffTheBusKeeps ==
    ASSUME ErrorInvariant, NEW event \in Errors!ErrorEvents, Errors!OffTheBus(event)
    PROVE  ErrorInvariant' /\ Errors!Confined
<1>1. CASE event = "RecessiveWindow" /\ eWindows + 1 < RecoveryWindows
  <2>0. eWindows' = eWindows + 1
    BY <1>1, Zenon DEF Errors!OffTheBus
  <2>1. eTec' = eTec /\ eRec' = eRec /\ eOff' = eOff /\ eOff
    BY <1>1, Zenon DEF Errors!OffTheBus
  <2>2. eWindows \in 0 .. RecoveryWindows - 1
    BY Zenon DEF ErrorInvariant, Errors!ErrorTypes
  <2>3. eWindows' \in 0 .. RecoveryWindows - 1
    BY <1>1, <2>0, <2>2, Limits
  <2>4. QED
    BY <2>1, <2>3, Zenon DEF ErrorInvariant, Errors!ErrorTypes,
       Errors!LatchedAtLimit, Errors!Confined
<1>2. CASE event = "RecessiveWindow" /\ ~(eWindows + 1 < RecoveryWindows)
  <2>1. eTec' = 0 /\ eRec' = 0 /\ eWindows' = 0 /\ eOff' = FALSE /\ eOff
    BY <1>2, Zenon DEF Errors!OffTheBus, Errors!Reset
  <2>2. eWindows \in 0 .. RecoveryWindows - 1
    BY Zenon DEF ErrorInvariant, Errors!ErrorTypes
  <2>3. eWindows = RecoveryWindows - 1
    BY <1>2, <2>2, Limits
  <2>4. /\ 0 \in 0 .. BusOffLimit /\ 0 \in 0 .. RecoveryWindows - 1
        /\ ~(0 = BusOffLimit) /\ ~(0 > 0)
    BY Limits
  <2>5. QED
    BY <2>1, <2>3, <2>4, Zenon DEF ErrorInvariant, Errors!ErrorTypes,
       Errors!LatchedAtLimit, Errors!Confined
<1>3. CASE event # "RecessiveWindow"
  <2>1. eTec' = eTec /\ eRec' = eRec /\ eWindows' = eWindows /\ eOff' = eOff
    BY <1>3, Zenon DEF Errors!OffTheBus, Errors!counters
  <2>2. QED
    BY <2>1, Zenon DEF ErrorInvariant, Errors!ErrorTypes,
       Errors!LatchedAtLimit, Errors!Confined
<1>4. QED
  BY <1>1, <1>2, <1>3, Zenon

LEMMA StepKeepsCounters ==
    ASSUME ErrorInvariant, [Errors!ErrorNext]_Errors!counters
    PROVE  ErrorInvariant' /\ [Errors!Confined]_Errors!counters
<1>1. CASE Errors!ErrorNext
  BY <1>1, OnTheBusKeeps, OffTheBusKeeps DEF Errors!ErrorNext, Errors!On
<1>2. CASE UNCHANGED Errors!counters
  BY <1>2, Zenon DEF Errors!counters, ErrorInvariant, Errors!ErrorTypes, Errors!LatchedAtLimit
<1>3. QED
  BY <1>1, <1>2

(***************************************************************************)
(* CanLink                                                                 *)
(***************************************************************************)
lPhase == s5
lWaited == s6
lStale == s8
lSilence == s9
USE DEF lPhase, lWaited, lStale, lSilence

\* Stale signals have been silent for long enough wherever the receiver is, and
\* live ones for no longer than the wait has lasted when it goes to sleep.
LinkInvariant ==
    /\ lPhase \in {"starting", "wait", "drain", "check", "over"}
    /\ lWaited \in BOOLEAN /\ lStale \in BOOLEAN /\ lSilence \in Nat
    /\ lStale => lSilence > StaleAfter
    /\ lPhase = "starting" => ~lStale /\ ~lWaited
    /\ lPhase = "wait" /\ ~lStale => lSilence <= StaleAfter + 1
    /\ lPhase = "wait" /\ ~lStale /\ ~lWaited => lSilence <= StaleAfter

LEMMA LinkBegins == ASSUME Link!LinkInit PROVE LinkInvariant
<1>1. lPhase = "starting" /\ lWaited = FALSE /\ lStale = FALSE /\ lSilence = 0
  BY DEF Link!LinkInit
<1>2. lSilence \in Nat
  BY <1>1
<1> QED
  BY <1>1, <1>2, Zenon DEF LinkInvariant

LEMMA LinkStep == ASSUME LinkInvariant, Link!LinkNext PROVE LinkInvariant'
<1> USE LinkAssumption DEF LinkInvariant
<1>1. CASE Link!Transmit \/ Link!CycleEnds \/ Link!SomebodySends \/ Link!Signal
  <2>1. UNCHANGED <<lPhase, lWaited, lStale, lSilence>>
    BY <1>1 DEF Link!Transmit, Link!CycleEnds, Link!SomebodySends, Link!Signal, Link!receiver
  <2> QED
    BY <2>1
<1>2. CASE Link!SetUp
  <2>1. lSilence' = 0 /\ UNCHANGED <<lWaited, lStale>> /\ lPhase = "starting"
    BY <1>2
       DEF Link!SetUp, Link!Open, Link!SetNonBlocking, Link!EnableErrorFrames, Link!SetFilters,
           Link!Watch, Link!Returns, Link!Fails
  <2>2. lPhase' \in {"wait", "starting", "over"}
    BY <1>2
       DEF Link!SetUp, Link!Open, Link!SetNonBlocking, Link!EnableErrorFrames, Link!SetFilters,
           Link!Watch, Link!Returns, Link!Fails
  <2> QED
    BY <2>1, <2>2
<1>3. CASE Link!Woken
  BY <1>3 DEF Link!Woken
<1>4. CASE Link!Drain
  <2>1. lPhase' \in {"drain", "check"} /\ lWaited' = lWaited
    BY <1>4 DEF Link!Drain
  <2>2. CASE lStale' = lStale /\ lSilence' = lSilence
    BY <2>1, <2>2, Zenon
  <2>3. CASE lSilence' = 0 /\ lStale' = FALSE
    <3>1. lSilence' \in Nat
      BY <2>3
    <3> QED
      BY <2>1, <2>3, <3>1, Zenon
  <2>4. (lStale' = lStale /\ lSilence' = lSilence) \/ (lSilence' = 0 /\ lStale' = FALSE)
    BY <1>4, Zenon DEF Link!Drain, Link!SignOfLife
  <2> QED
    BY <2>2, <2>3, <2>4
<1>5. CASE Link!Check
  <2>1. /\ lStale' = (lStale \/ lSilence > StaleAfter) /\ lWaited' = FALSE
        /\ lPhase' \in {"over", "wait"} /\ lSilence' = lSilence
    BY <1>5, Zenon DEF Link!Check
  <2>2. lSilence > StaleAfter \/ (lSilence <= StaleAfter /\ lSilence <= StaleAfter + 1)
    OBVIOUS
  <2> QED
    BY <2>1, <2>2, Zenon
<1>6. CASE Link!Tick
  <2>1. /\ lPhase \notin {"starting", "over"} /\ (lPhase = "wait" => ~lWaited)
        /\ lSilence' = IF lSilence > StaleAfter + 1 THEN lSilence ELSE lSilence + 1
        /\ lWaited' = (lPhase = "wait") /\ lPhase' = lPhase /\ lStale' = lStale
    BY <1>6, Zenon DEF Link!Tick
  <2>2. /\ lSilence' \in Nat
        /\ lSilence > StaleAfter => lSilence' > StaleAfter
        /\ lSilence <= StaleAfter => lSilence' <= StaleAfter + 1
    BY <2>1
  <2> QED
    BY <2>1, <2>2, Zenon
<1> QED
  BY <1>1, <1>2, <1>3, <1>4, <1>5, <1>6 DEF Link!LinkNext

LEMMA LinkHolds == LinkInvariant => Link!StaleAgrees
  BY LinkAssumption DEF LinkInvariant, Link!StaleAgrees

(***************************************************************************)
(* Services                                                                *)
(***************************************************************************)
vStage == s2
vOffered == s3
vHandlers == s4
vClosed == s5
vAsked == s7
vStats == s8
USE DEF vStage, vOffered, vHandlers, vClosed, vAsked, vStats

\* The methods are there before the offer is made, and go only with the
\* skeleton, which takes the offer with it.
OfferStands ==
    /\ vStage \in {"create", "handlers", "offer"} => vClosed = FALSE /\ vOffered = FALSE
    /\ vStage = "offer" \/ (vStage = "loop" /\ vClosed = FALSE) => vHandlers = Vehicle!Methods
    /\ vOffered = TRUE => vStage = "loop" /\ vClosed = FALSE

Answered ==
    /\ vAsked \in Nat
    /\ vStats \in [requests : Nat, replies : Nat, errors : Nat, notifications : Nat]
    /\ vStats.replies + vStats.errors = vAsked

VehicleInvariant ==
    /\ s1.announce \in BOOLEAN /\ vOffered \in BOOLEAN /\ vClosed \in BOOLEAN
    /\ OfferStands /\ Answered

LEMMA VehicleBegins == ASSUME Vehicle!ServicesInit PROVE VehicleInvariant
<1>2. s1.announce \in BOOLEAN
  BY DEF Vehicle!ServicesInit, Vehicle!ServerOptions
<1>3. OfferStands /\ vOffered = FALSE /\ vClosed = FALSE
  BY DEF Vehicle!ServicesInit, OfferStands
<1>4. Answered
  BY DEF Vehicle!ServicesInit, Answered
<1> QED
  BY <1>2, <1>3, <1>4, Zenon DEF VehicleInvariant

\* One request read and answered.
LEMMA RequestAnswered ==
    ASSUME Answered, NEW request, request.type \in {"Request", "RequestNoReturn"},
           Vehicle!Answer(request),
           vAsked' = vAsked + (IF request.type = "Request" THEN 1 ELSE 0)
    PROVE  Answered'
<1>0. PICK q, r, e, n \in Nat :
         vStats = [requests |-> q, replies |-> r, errors |-> e, notifications |-> n]
  BY DEF Answered
<1>1. vAsked \in Nat /\ r + e = vAsked
  BY <1>0 DEF Answered
<1>2. CASE request.type = "RequestNoReturn"
  <2>1. vAsked' = vAsked
    BY <1>1, <1>2
  <2>2. vStats' = [requests |-> q + 1, replies |-> r, errors |-> e, notifications |-> n]
    BY <1>0, <1>2 DEF Vehicle!Answer
  <2> QED
    BY <1>1, <2>1, <2>2 DEF Answered
<1>3. CASE request.type = "Request"
  <2>1. vAsked' = vAsked + 1
    BY <1>3
  <2>2. \/ vStats' = [vStats EXCEPT !.requests = @ + 1, !.replies = @ + 1]
        \/ vStats' = [vStats EXCEPT !.requests = @ + 1, !.errors = @ + 1]
    BY <1>3 DEF Vehicle!Answer, Vehicle!Count
  <2>3. \/ vStats' = [requests |-> q + 1, replies |-> r + 1, errors |-> e, notifications |-> n]
        \/ vStats' = [requests |-> q + 1, replies |-> r, errors |-> e + 1, notifications |-> n]
    BY <1>0, <2>2
  <2> QED
    BY <1>1, <2>1, <2>3 DEF Answered
<1> QED
  BY <1>2, <1>3

LEMMA RequestRead == ASSUME VehicleInvariant, Vehicle!ReadRequest PROVE VehicleInvariant'
<1> DEFINE request == Head(s6)
<1>1. vStage = "loop" /\ vClosed = FALSE /\ UNCHANGED <<s1, vStage>>
  BY Zenon DEF Vehicle!ReadRequest, VehicleInvariant
<1>2. CASE request.type \notin {"Request", "RequestNoReturn"}
  <2>1. UNCHANGED <<vOffered, vHandlers, vClosed, vAsked, vStats>>
    BY <1>2 DEF Vehicle!ReadRequest
  <2> QED
    BY <1>1, <2>1 DEF VehicleInvariant, OfferStands, Answered
<1>3. CASE request.type \in {"Request", "RequestNoReturn"}
  <2>1. Vehicle!Answer(request) /\ vAsked' = vAsked + (IF request.type = "Request" THEN 1 ELSE 0)
    BY <1>3 DEF Vehicle!ReadRequest
  <2>2. Answered'
    BY <1>3, <2>1, RequestAnswered DEF VehicleInvariant
  <2>3. \/ UNCHANGED <<vOffered, vHandlers, vClosed>>
        \/ vOffered' = FALSE /\ UNCHANGED <<vHandlers, vClosed>>
        \/ vOffered' = FALSE /\ vClosed' = TRUE
    BY <1>3, VehicleAssumption DEF Vehicle!ReadRequest, Vehicle!Withdraw, Vehicle!Close
  <2> QED
    BY <1>1, <2>2, <2>3, Zenon DEF VehicleInvariant, OfferStands
<1> QED
  BY <1>2, <1>3

LEMMA VehicleStep == ASSUME VehicleInvariant, Vehicle!ServicesNext PROVE VehicleInvariant'
<1>1. CASE Vehicle!Create \/ Vehicle!OnMethod
  BY <1>1, Zenon DEF Vehicle!Create, Vehicle!OnMethod, VehicleInvariant, OfferStands, Answered
<1>2. CASE Vehicle!Offer
  BY <1>2, Zenon DEF Vehicle!Offer, VehicleInvariant, OfferStands, Answered
<1>3. CASE Vehicle!ReadRequest
  BY <1>3, RequestRead
<1>4. CASE Vehicle!Publish
  <2>1. UNCHANGED <<s1, vStage, vOffered, vHandlers, vClosed>>
    BY <1>4 DEF Vehicle!Publish
  <2>2. Answered'
    BY <1>4 DEF Vehicle!Publish, Vehicle!Notify, VehicleInvariant, Answered
  <2> QED
    BY <2>1, <2>2, Zenon DEF VehicleInvariant, OfferStands
<1>5. CASE Vehicle!Stop
  BY <1>5, Zenon
     DEF Vehicle!Stop, Vehicle!Close, Vehicle!Withdraw, VehicleInvariant, OfferStands, Answered
<1>6. CASE Vehicle!StrangerAsks \/ Vehicle!Ask \/ Vehicle!Rest \/ Vehicle!Completed \/ Vehicle!Garble
  <2>1. UNCHANGED <<s1, vStage, vOffered, vHandlers, vClosed, vAsked, vStats>>
    BY <1>6 DEF Vehicle!StrangerAsks, Vehicle!Ask, Vehicle!Rest, Vehicle!Completed,
                Vehicle!Garble, Vehicle!server
  <2> QED
    BY <2>1, Zenon DEF VehicleInvariant, OfferStands, Answered
<1> QED
  BY <1>1, <1>2, <1>3, <1>4, <1>5, <1>6 DEF Vehicle!ServicesNext

LEMMA VehicleHolds ==
    VehicleInvariant => Vehicle!OfferIsAPromise /\ Vehicle!EveryRequestAnswered
BY Zenon DEF VehicleInvariant, OfferStands, Answered, Vehicle!OfferIsAPromise,
    Vehicle!EveryRequestAnswered

(***************************************************************************)
(* Reboot                                                                  *)
(***************************************************************************)
rSession == s1
rWrapped == s2
rOfferedAs == s3
rHeralds == s4
rRestarts == s5
rWire == s6
rByKey == s7
rReboots == s8
USE DEF rSession, rWrapped, rOfferedAs, rHeralds, rRestarts, rWire, rByKey, rReboots

\* What the observer has seen of each sender that offers, under the key of its host.
rSeen == [s \in Senders |-> IF rOfferedAs[s] # 0 THEN rByKey[Host[s]] ELSE 0]

SdMessages == [from : Senders, session : Nat \ {0}, offers : BOOLEAN, reboot : BOOLEAN]

\* Whether the k-th message on the wire will be counted if `last` is what its
\* sender offered with before, as a number.
Falls(m, last) == IF m.offers /\ last # 0 /\ m.session <= last THEN 1 ELSE 0

\* What the observer will have seen of a sender when it has read one message,
\* and all.
Seen1(s) ==
    IF Len(rWire) >= 1 /\ rWire[1].offers /\ rWire[1].from = s THEN rWire[1].session ELSE rSeen[s]
Seen2(s) ==
    IF Len(rWire) = 2 /\ rWire[2].offers /\ rWire[2].from = s THEN rWire[2].session ELSE Seen1(s)

\* How many of the messages on the wire will be counted.
ToCount ==
    (IF Len(rWire) >= 1 THEN Falls(rWire[1], rSeen[rWire[1].from]) ELSE 0)
    + (IF Len(rWire) = 2 THEN Falls(rWire[2], Seen1(rWire[2].from)) ELSE 0)

\* The senders whose first offer after a restart was lost: the next one will be
\* counted in its place.
Behind == {s \in Senders : Seen2(s) > rOfferedAs[s]}

Unwrapped == \A s \in Senders : rWrapped[s] = "no"

\* The ids say something, and each key stands for one server at most.
Orderly == Unwrapped /\ Sessions!OneServerPerHost

SessionTypes ==
    /\ rSession \in [Senders -> Nat] /\ rOfferedAs \in [Senders -> Nat]
    /\ rByKey \in [Sessions!Keys -> Nat] /\ rSeen \in [Senders -> Nat]
    /\ rWrapped \in [Senders -> {"no", "now", "before"}]
    /\ rHeralds \subseteq Senders
    /\ rRestarts \in Nat /\ rReboots \in Nat
    /\ rWire \in Seq(SdMessages) /\ Len(rWire) <= 2

\* Every restart pays for one reboot: one that was counted, one that will be, or
\* one that the next offer of its sender will make known.
Paid == rReboots + ToCount + Cardinality(Behind) <= rRestarts

\* What is seen under a key, or on its way, a sender of that key offered.
Heard ==
    /\ \A k \in Sessions!Keys :
          rByKey[k] # 0 => \E t \in Senders : Host[t] = k /\ rOfferedAs[t] # 0
    /\ \A i \in 1 .. Len(rWire) : rWire[i].offers => rOfferedAs[rWire[i].from] # 0

SessionsInvariant ==
    /\ SessionTypes /\ Heard
    /\ Orderly =>
          /\ \A s \in Senders : s \notin rHeralds => rOfferedAs[s] <= rSession[s]
          /\ Paid

LEMMA BehindFinite == IsFiniteSet(Behind) /\ Cardinality(Behind) \in Nat
  BY SessionsAssumption, FS_Subset, FS_CardinalityType DEF Behind

\* A set that loses a member, or gains one at most.
LEMMA OneMore ==
    ASSUME NEW S, NEW T, NEW x, IsFiniteSet(S), T \subseteq S \cup {x}
    PROVE  /\ Cardinality(T) \in Nat /\ Cardinality(S) \in Nat
           /\ Cardinality(T) <= Cardinality(S) + 1
           /\ x \notin T => Cardinality(T) <= Cardinality(S)
           /\ x \notin T /\ x \in S => Cardinality(T) + 1 <= Cardinality(S)
           /\ x \in S => Cardinality(T) <= Cardinality(S)
<1>1. /\ IsFiniteSet(S \cup {x}) /\ Cardinality(S) \in Nat
      /\ Cardinality(S \cup {x}) = IF x \in S THEN Cardinality(S) ELSE Cardinality(S) + 1
  BY FS_AddElement, FS_CardinalityType
<1>2. IsFiniteSet(T) /\ Cardinality(T) \in Nat /\ Cardinality(T) <= Cardinality(S \cup {x})
  BY <1>1, FS_Subset, FS_CardinalityType
<1>3. ASSUME x \notin T PROVE Cardinality(T) <= Cardinality(S)
  BY <1>3, FS_Subset
<1>4. ASSUME x \notin T, x \in S PROVE Cardinality(T) + 1 <= Cardinality(S)
  <2>1. T \subseteq S \ {x} /\ IsFiniteSet(S \ {x}) /\ Cardinality(S \ {x}) = Cardinality(S) - 1
    BY <1>4, FS_RemoveElement
  <2>2. Cardinality(T) <= Cardinality(S \ {x})
    BY <2>1, FS_Subset
  <2> QED
    BY <1>1, <1>2, <2>1, <2>2
<1> QED
  BY <1>1, <1>2, <1>3, <1>4

LEMMA SessionsBegin == ASSUME Sessions!RebootInit PROVE SessionsInvariant
<1> USE DEF Sessions!RebootInit
<1>1. SessionTypes /\ \A s \in Senders : rSeen[s] = 0
  <2>1. rSeen = [s \in Senders |-> 0]
    BY DEF rSeen
  <2> QED
    BY <2>1 DEF SessionTypes
<1>2. ToCount = 0 /\ Heard
  BY DEF ToCount, Heard
<1>3. Behind = {}
  BY <1>1 DEF Behind, Seen2, Seen1
<1>4. Cardinality(Behind) = 0
  BY <1>3, FS_EmptySet
<1> QED
  BY <1>1, <1>2, <1>4 DEF SessionsInvariant, Paid

LEMMA KeyOfSender == ASSUME NEW s \in Senders PROVE Host[s] \in Sessions!Keys
  BY DEF Sessions!Keys, Sessions!SenderKey

\* The types of what is derived.
LEMMA SeenTypes ==
    ASSUME rOfferedAs \in [Senders -> Nat], rByKey \in [Sessions!Keys -> Nat]
    PROVE  rSeen \in [Senders -> Nat]
  BY KeyOfSender DEF rSeen

LEMMA AtMostTwo == ASSUME NEW n \in Nat, n <= 2 PROVE n = 0 \/ n = 1 \/ n = 2
  OBVIOUS

LEMMA WireLength ==
    ASSUME SessionTypes
    PROVE  /\ rWire \in Seq(SdMessages)
           /\ Len(rWire) = 0 \/ Len(rWire) = 1 \/ Len(rWire) = 2
           /\ \A k \in 1 .. Len(rWire) : rWire[k] \in SdMessages
<1>1. rWire \in Seq(SdMessages) /\ Len(rWire) <= 2
  BY DEF SessionTypes
<1>2. Len(rWire) \in Nat
  BY <1>1, LenProperties
<1>3. \A k \in 1 .. Len(rWire) : rWire[k] \in SdMessages
  BY <1>1, ElementOfSeq
<1>4. Len(rWire) = 0 \/ Len(rWire) = 1 \/ Len(rWire) = 2
  BY <1>1, <1>2, AtMostTwo
<1> QED
  BY <1>1, <1>3, <1>4

\* One more message.
LEMMA WireGrows ==
    ASSUME SessionTypes, NEW n \in SdMessages, Len(rWire) < 2, rWire' = Append(rWire, n),
           rSeen' = rSeen
    PROVE  /\ rWire' \in Seq(SdMessages) /\ Len(rWire') <= 2
           /\ \A s \in Senders : Seen2(s)' = IF n.offers /\ n.from = s THEN n.session ELSE Seen2(s)
           /\ ToCount' = ToCount + Falls(n, Seen2(n.from))
<1>0. /\ rWire' \in Seq(SdMessages) /\ Len(rWire') = Len(rWire) + 1 /\ rWire'[Len(rWire) + 1] = n
      /\ \A k \in 1 .. Len(rWire) : rWire'[k] = rWire[k]
  BY WireLength, AppendProperties
<1>1. CASE Len(rWire) = 0
  <2>1. Len(rWire') = 1 /\ rWire'[1] = n
    BY <1>0, <1>1
  <2> QED
    BY <1>0, <1>1, <2>1 DEF Seen2, Seen1, ToCount, Falls, SdMessages, SessionTypes
<1>2. CASE Len(rWire) = 1
  <2>1. Len(rWire') = 2 /\ rWire'[1] = rWire[1] /\ rWire'[2] = n
    BY <1>0, <1>2
  <2>2. rWire[1] \in SdMessages
    BY <1>2, WireLength
  <2>3. \A s \in Senders : Seen1(s)' = Seen2(s) /\ Seen1(s) = Seen2(s)
    BY <1>2, <2>1 DEF Seen1, Seen2
  <2>4. \A s \in Senders : Seen2(s)' = IF n.offers /\ n.from = s THEN n.session ELSE Seen2(s)
    BY <2>1, <2>3 DEF Seen2
  <2>5. ToCount = Falls(rWire[1], rSeen[rWire[1].from]) + 0
    BY <1>2 DEF ToCount
  <2>6. ToCount' = Falls(rWire[1], rSeen[rWire[1].from]) + Falls(n, Seen2(n.from))
    BY <2>1, <2>3 DEF ToCount, SdMessages, Falls
  <2> QED
    BY <1>0, <2>1, <2>4, <2>5, <2>6 DEF Falls
<1> QED
  BY <1>1, <1>2, WireLength

\* One message less.
LEMMA WireShrinks ==
    ASSUME SessionTypes, rWire # <<>>, rWire' = Tail(rWire)
    PROVE  /\ Head(rWire) = rWire[1] /\ rWire[1] \in SdMessages
           /\ rWire' \in Seq(SdMessages)
           /\ \/ Len(rWire) = 1 /\ Len(rWire') = 0
              \/ /\ Len(rWire) = 2 /\ Len(rWire') = 1
                 /\ rWire'[1] = rWire[2] /\ rWire[2] \in SdMessages
<1>1. /\ rWire' \in Seq(SdMessages) /\ Len(rWire') = Len(rWire) - 1
      /\ Head(rWire) = rWire[1]
      /\ \A k \in 1 .. Len(rWire') : rWire'[k] = rWire[k + 1]
  BY WireLength, HeadTailProperties, EmptySeq
<1>2. Len(rWire) = 1 \/ Len(rWire) = 2
  BY WireLength, EmptySeq
<1>3. rWire[1] \in SdMessages
  BY <1>2, WireLength
<1>4. ASSUME Len(rWire) = 2 PROVE rWire'[1] = rWire[2] /\ rWire[2] \in SdMessages
  <2>1. Len(rWire') = 1
    BY <1>1, <1>4
  <2>2. rWire'[1] = rWire[1 + 1]
    BY <1>1, <2>1
  <2> QED
    BY <1>4, <2>2, WireLength
<1>5. /\ Len(rWire) = 1 => Len(rWire') = 0
      /\ Len(rWire) = 2 => Len(rWire') = 1
  BY <1>1
<1> QED
  BY <1>1, <1>2, <1>3, <1>4, <1>5

LEMMA FallsOnce == ASSUME NEW m, NEW last PROVE Falls(m, last) = 0 \/ Falls(m, last) = 1
  BY DEF Falls

\* What is to be counted, message by message.
LEMMA Counts ==
    /\ Len(rWire) = 0 => ToCount = 0
    /\ Len(rWire) = 1 => ToCount = Falls(rWire[1], rSeen[rWire[1].from])
    /\ Len(rWire) = 2 =>
          ToCount = Falls(rWire[1], rSeen[rWire[1].from]) + Falls(rWire[2], Seen1(rWire[2].from))
<1> DEFINE a == Falls(rWire[1], rSeen[rWire[1].from])
           b == Falls(rWire[2], Seen1(rWire[2].from))
<1>1. a \in Nat /\ b \in Nat
  BY FallsOnce
<1>2. ToCount = (IF Len(rWire) >= 1 THEN a ELSE 0) + (IF Len(rWire) = 2 THEN b ELSE 0)
  BY DEF ToCount
<1> QED
  BY <1>1, <1>2

\* Who has offered stays one who has, so what is orderly was so before.
LEMMA OrderlyBefore ==
    ASSUME Orderly', Unwrapped' => Unwrapped,
           \A s \in Senders : rOfferedAs[s] # 0 => rOfferedAs'[s] # 0
    PROVE  Orderly
  BY DEF Orderly, Sessions!OneServerPerHost

LEMMA SeenThen ==
    ASSUME NEW s
    PROVE  /\ Len(rWire) = 0 => Seen1(s) = rSeen[s] /\ Seen2(s) = rSeen[s]
           /\ Len(rWire) = 1 => Seen2(s) = Seen1(s)
           /\ Len(rWire) = 1 \/ Len(rWire) = 2 =>
                 Seen1(s) = IF rWire[1].offers /\ rWire[1].from = s
                            THEN rWire[1].session ELSE rSeen[s]
           /\ Len(rWire) = 2 =>
                 Seen2(s) = IF rWire[2].offers /\ rWire[2].from = s
                            THEN rWire[2].session ELSE Seen1(s)
  BY DEF Seen1, Seen2

LEMMA CountsThen ==
    /\ Len(rWire') = 0 => ToCount' = 0
    /\ Len(rWire') = 1 => ToCount' = Falls(rWire'[1], rSeen'[rWire'[1].from])
<1> DEFINE a == Falls(rWire'[1], rSeen'[rWire'[1].from])
           b == Falls(rWire'[2], (Seen1(rWire[2].from))')
<1>1. a \in Nat /\ b \in Nat
  BY FallsOnce
<1>2. ToCount' = (IF Len(rWire') >= 1 THEN a ELSE 0) + (IF Len(rWire') = 2 THEN b ELSE 0)
  BY DEF ToCount, Falls
<1> QED
  BY <1>1, <1>2

LEMMA SeenByThen ==
    ASSUME NEW s
    PROVE  /\ Len(rWire') = 0 => Seen2(s)' = rSeen'[s]
           /\ Len(rWire') = 1 =>
                 Seen2(s)' = IF rWire'[1].offers /\ rWire'[1].from = s
                             THEN rWire'[1].session ELSE rSeen'[s]
  BY DEF Seen1, Seen2

\* A message that is read is counted if it was to be, and changes nothing else.
LEMMA ReadCounts ==
    ASSUME SessionTypes, rWire # <<>>, rWire' = Tail(rWire),
           rSeen' = IF rWire[1].offers
                    THEN [rSeen EXCEPT ![rWire[1].from] = rWire[1].session] ELSE rSeen
    PROVE  /\ \A s \in Senders : Seen2(s)' = Seen2(s)
           /\ ToCount = ToCount' + Falls(rWire[1], rSeen[rWire[1].from])
           /\ ToCount' \in Nat
<1> DEFINE m == rWire[1]
           n == rWire[2]
           f == Falls(m, rSeen[m.from])
<1>1. m \in SdMessages
  BY WireShrinks
<1>2. \A s \in Senders : rSeen'[s] = IF m.offers /\ m.from = s THEN m.session ELSE rSeen[s]
  BY <1>1 DEF SessionTypes, SdMessages
<1>3. f = 0 \/ f = 1
  BY FallsOnce
<1>4. CASE Len(rWire) = 1 /\ Len(rWire') = 0
  <2>1. \A s \in Senders : Seen2(s) = rSeen'[s]
    BY <1>2, <1>4, SeenThen
  <2>2. \A s \in Senders : Seen2(s)' = rSeen'[s]
    BY <1>4, SeenByThen
  <2>3. ToCount = f /\ ToCount' = 0
    BY <1>4, Counts, CountsThen
  <2> QED
    BY <1>3, <2>1, <2>2, <2>3
<1>5. CASE Len(rWire) = 2 /\ Len(rWire') = 1 /\ rWire'[1] = n /\ n \in SdMessages
  <2>1. \A s \in Senders : Seen1(s) = rSeen'[s]
    BY <1>2, <1>5, SeenThen
  <2>2. \A s \in Senders : Seen2(s) = IF n.offers /\ n.from = s THEN n.session ELSE rSeen'[s]
    BY <1>5, <2>1, SeenThen
  <2>3. \A s \in Senders : Seen2(s)' = IF n.offers /\ n.from = s THEN n.session ELSE rSeen'[s]
    BY <1>5, SeenByThen
  <2>4. ToCount = f + Falls(n, Seen1(n.from)) /\ ToCount' = Falls(n, rSeen'[n.from])
    BY <1>5, Counts, CountsThen
  <2>5. Seen1(n.from) = rSeen'[n.from]
    BY <1>5, <2>1 DEF SdMessages
  <2>6. Falls(n, rSeen'[n.from]) = 0 \/ Falls(n, rSeen'[n.from]) = 1
    BY FallsOnce
  <2>7. ToCount = ToCount' + f /\ ToCount' \in Nat
    <3> DEFINE g == Falls(n, rSeen'[n.from])
    <3>1. ToCount = f + g /\ ToCount' = g /\ (g = 0 \/ g = 1)
      BY <2>4, <2>5, <2>6
    <3> HIDE DEF f, g
    <3> QED
      BY <1>3, <3>1
  <2> QED
    BY <2>2, <2>3, <2>7
<1> QED
  BY <1>4, <1>5, WireShrinks


\* A message that is lost takes its count with it, or leaves its sender behind.
LEMMA LossIsPaid ==
    ASSUME SessionTypes, rWire # <<>>, rWire' = Tail(rWire),
           UNCHANGED <<rSeen, rOfferedAs>>
    PROVE  ToCount' + Cardinality(Behind') <= ToCount + Cardinality(Behind)
<1> DEFINE m == rWire[1]
           n == rWire[2]
<1>0. PICK s \in Senders : s = m.from
  BY WireShrinks DEF SdMessages
<1> DEFINE f == Falls(m, rSeen[s])
<1>1. m \in SdMessages /\ s \in Senders /\ m.from = s /\ rSeen' = rSeen
  BY <1>0, WireShrinks
<1>2. f = 0 \/ f = 1
  BY FallsOnce
<1>3. /\ \A t \in Senders : Seen2(t)' \in Nat /\ Seen2(t) \in Nat
      /\ \A t \in Senders \ {s} : Seen2(t)' = Seen2(t)
  <2> SUFFICES ASSUME NEW t \in Senders
               PROVE  /\ Seen2(t)' \in Nat /\ Seen2(t) \in Nat
                      /\ t # s => Seen2(t)' = Seen2(t)
    OBVIOUS
  <2>0. rSeen[t] \in Nat /\ rSeen'[t] = rSeen[t] /\ m.session \in Nat
    BY <1>1 DEF SessionTypes, SdMessages
  <2>1. CASE Len(rWire) = 1 /\ Len(rWire') = 0
    <3>1. /\ Seen2(t) = IF m.offers /\ s = t THEN m.session ELSE rSeen[t]
          /\ Seen2(t)' = rSeen[t]
      BY <2>0, <2>1, <1>1, SeenThen, SeenByThen
    <3> QED
      BY <2>0, <3>1
  <2>2. CASE Len(rWire) = 2 /\ Len(rWire') = 1 /\ rWire'[1] = n /\ n \in SdMessages
    <3>1. /\ Seen1(t) = IF m.offers /\ s = t THEN m.session ELSE rSeen[t]
          /\ Seen2(t) = IF n.offers /\ n.from = t THEN n.session ELSE Seen1(t)
          /\ Seen2(t)' = IF n.offers /\ n.from = t THEN n.session ELSE rSeen[t]
      <4>1. /\ Seen1(t) = IF m.offers /\ m.from = t THEN m.session ELSE rSeen[t]
            /\ Seen2(t) = IF n.offers /\ n.from = t THEN n.session ELSE Seen1(t)
        BY <2>2, SeenThen, SMTT(60)
      <4>2. Seen2(t)' = IF n.offers /\ n.from = t THEN n.session ELSE rSeen[t]
        <5>1. Seen2(t)' = IF rWire'[1].offers /\ rWire'[1].from = t
                          THEN rWire'[1].session ELSE rSeen'[t]
          BY <2>2, SeenByThen, Zenon
        <5> HIDE DEF n
        <5> QED
          BY ONLY <2>0, <2>2, <5>1, Zenon
      <4> HIDE DEF m, n
      <4> QED
        BY ONLY <1>1, <4>1, <4>2, Zenon
    <3>2. n.session \in Nat
      BY <2>2 DEF SdMessages
    <3> QED
      BY <2>0, <3>1, <3>2
  <2> QED
    BY <2>1, <2>2, WireShrinks
<1>4. Behind' \subseteq Behind \cup {s}
  BY <1>3 DEF Behind
<1>5. /\ Cardinality(Behind') \in Nat /\ Cardinality(Behind) \in Nat
      /\ Cardinality(Behind') <= Cardinality(Behind) + 1
      /\ s \notin Behind' => Cardinality(Behind') <= Cardinality(Behind)
      /\ s \in Behind => Cardinality(Behind') <= Cardinality(Behind)
  BY <1>4, BehindFinite, OneMore
<1>6. CASE Seen2(s)' = Seen2(s)
  <2>1. Cardinality(Behind') <= Cardinality(Behind)
    <3>1. s \in Behind' <=> s \in Behind
      BY <1>1, <1>6 DEF Behind
    <3> QED
      BY <1>5, <3>1
  <2>2. ToCount \in Nat /\ ToCount' \in Nat /\ ToCount' <= ToCount
    <3>1. CASE Len(rWire) = 1 /\ Len(rWire') = 0
      <4>1. ToCount = f /\ ToCount' = 0
        BY <1>1, <3>1, Counts, CountsThen
      <4> QED
        BY <1>2, <4>1
    <3>2. CASE Len(rWire) = 2 /\ Len(rWire') = 1 /\ rWire'[1] = n /\ n \in SdMessages
      <4> DEFINE g == Falls(n, Seen1(n.from))
                 h == Falls(n, rSeen[n.from])
      <4>1. ToCount = f + g /\ ToCount' = h
        BY <1>1, <3>2, Counts, CountsThen
      <4>2. (g = 0 \/ g = 1) /\ (h = 0 \/ h = 1)
        BY FallsOnce
      <4>3. h <= f + g
        <5>1. CASE Seen1(n.from) = rSeen[n.from]
          <6>1. g = h
            BY <5>1
          <6> HIDE DEF f, g, h
          <6> QED
            BY <1>2, <4>2, <6>1
        <5>2. CASE Seen1(n.from) # rSeen[n.from]
          <6>1. n.from = s /\ m.offers /\ Seen1(s) = m.session
            BY <3>2, <5>2, <1>1, SeenThen
          <6>2. rSeen[s] \in Nat /\ m.session \in Nat \ {0} /\ n.session \in Nat
            BY <1>1, <3>2 DEF SessionTypes, SdMessages
          <6>3. ASSUME h = 1 PROVE f = 1 \/ g = 1
            <7>1. n.offers /\ rSeen[s] # 0 /\ n.session <= rSeen[s]
              BY <6>1, <6>3 DEF Falls
            <7>2. CASE m.session <= rSeen[s]
              BY <6>1, <7>1, <7>2 DEF Falls
            <7>3. CASE n.session <= m.session
              BY <6>1, <6>2, <7>1, <7>3 DEF Falls
            <7> QED
              BY <6>2, <7>1, <7>2, <7>3
          <6> HIDE DEF f, g, h
          <6> QED
            BY <1>2, <4>2, <6>3
        <5> QED
          BY <5>1, <5>2
      <4> HIDE DEF f, g, h
      <4> QED
        BY <1>2, <4>1, <4>2, <4>3
    <3> QED
      BY <3>1, <3>2, WireShrinks
  <2> QED
    BY <1>5, <2>1, <2>2
<1>7. CASE Seen2(s)' # Seen2(s)
  <2>1. /\ m.offers /\ Seen2(s) = m.session /\ Seen2(s)' = rSeen[s]
        /\ ToCount = f + ToCount' /\ ToCount' \in Nat
    <3>1. CASE Len(rWire) = 1 /\ Len(rWire') = 0
      <4>1. ToCount = f /\ ToCount' = 0
        BY <1>1, <3>1, Counts, CountsThen
      <4>2. Seen2(s) = Seen1(s) /\ Seen2(s)' = rSeen[s]
        BY <3>1, <1>1, SeenThen, SeenByThen
      <4>3. Seen1(s) = IF m.offers THEN m.session ELSE rSeen[s]
        BY <3>1, <1>1, SeenThen
      <4>4. m.offers /\ Seen2(s) = m.session
        BY <1>7, <4>2, <4>3
      <4>5. ToCount = f + ToCount' /\ ToCount' \in Nat
        <5> HIDE DEF f
        <5> QED
          BY <1>2, <4>1
      <4> QED
        BY <4>2, <4>4, <4>5
    <3>2. CASE Len(rWire) = 2 /\ Len(rWire') = 1 /\ rWire'[1] = n /\ n \in SdMessages
      <4> DEFINE g == Falls(n, Seen1(n.from))
                 h == Falls(n, rSeen[n.from])
      <4>1. ToCount = f + g /\ ToCount' = h
        BY <1>1, <3>2, Counts, CountsThen
      <4>2. ~(n.offers /\ n.from = s)
        <5> SUFFICES ASSUME n.offers, n.from = s PROVE FALSE
          OBVIOUS
        <5>1. Seen2(s) = n.session
          BY <3>2, SeenThen
        <5>2. Seen2(s)' = n.session
          BY <3>2, SeenByThen
        <5> QED
          BY <1>7, <5>1, <5>2
      <4>3. m.offers /\ Seen2(s) = m.session /\ Seen2(s)' = rSeen[s]
        <5>1. Seen2(s) = Seen1(s) /\ Seen2(s)' = rSeen[s]
          BY <3>2, <4>2, <1>1, SeenThen, SeenByThen
        <5>2. Seen1(s) = IF m.offers THEN m.session ELSE rSeen[s]
          BY <3>2, <1>1, SeenThen
        <5> QED
          BY <1>7, <5>1, <5>2
      <4>4. g = h
        <5>1. CASE n.from # s
          BY <3>2, <5>1, <1>1, SeenThen
        <5>2. CASE ~n.offers
          BY <5>2 DEF Falls
        <5> QED
          BY <4>2, <5>1, <5>2
      <4>5. h \in Nat
        BY FallsOnce
      <4>6. ToCount = f + ToCount' /\ ToCount' \in Nat
        BY <4>1, <4>4, <4>5
      <4> QED
        BY <4>3, <4>6
    <3> QED
      BY <3>1, <3>2, WireShrinks
  <2>2. CASE s \in Behind \/ s \notin Behind'
    <3>1. Cardinality(Behind') <= Cardinality(Behind)
      BY <1>5, <2>2
    <3> HIDE DEF f
    <3> QED
      BY <1>2, <1>5, <2>1, <3>1
  <2>3. CASE s \notin Behind /\ s \in Behind'
    <3>1. rSeen[s] > rOfferedAs[s] /\ ~(m.session > rOfferedAs[s])
      <4>1. Seen2(s)' > rOfferedAs'[s] /\ ~(Seen2(s) > rOfferedAs[s])
        BY <1>1, <2>3 DEF Behind
      <4> QED
        BY <2>1, <4>1
    <3>2. f = 1
      BY SMTT(60), <1>1, <2>1, <3>1 DEF Falls, SessionTypes, SdMessages
    <3> HIDE DEF f
    <3> QED
      BY <1>5, <2>1, <3>2
  <2> QED
    BY <2>2, <2>3
<1> QED
  BY <1>6, <1>7

\* What a message that is sent changes.
LEMMA Sent ==
    ASSUME SessionTypes, NEW s \in Senders, NEW offers \in BOOLEAN, Sessions!SendSd(s, offers)
    PROVE  /\ rSession' \in [Senders -> Nat] /\ rSession'[s] \in Nat \ {0}
           /\ \A t \in Senders : t # s => rSession'[t] = rSession[t]
           /\ rWrapped' \in [Senders -> {"no", "now", "before"}]
           /\ Unwrapped' => Unwrapped /\ rSession'[s] = rSession[s] + 1
           /\ rByKey' = rByKey /\ rReboots' = rReboots
           /\ rWire' \in Seq(SdMessages) /\ Len(rWire') <= 2
           /\ \A i \in 1 .. Len(rWire') :
                 \/ i \in 1 .. Len(rWire) /\ rWire'[i] = rWire[i]
                 \/ rWire'[i].offers = offers /\ rWire'[i].from = s
           /\ rSeen' = rSeen => \A t \in Senders :
                 Seen2(t)' = IF offers /\ s = t THEN rSession'[s] ELSE Seen2(t)
           /\ rSeen' = rSeen => \E n \in SdMessages :
                 /\ n.from = s /\ n.session = rSession'[s] /\ n.offers = offers
                 /\ ToCount' = ToCount + Falls(n, Seen2(s))
<1> DEFINE next == Sessions!NextSession(rSession[s])
<1>1. rSession[s] \in Nat /\ next \in Nat \ {0}
  BY SessionsAssumption DEF Sessions!NextSession, SessionTypes
<1>2. /\ Len(rWire) < 2 /\ rSession' = [rSession EXCEPT ![s] = next]
      /\ rWrapped' = [rWrapped EXCEPT ![s] = IF rSession[s] = LastSession THEN "now" ELSE rWrapped[s]]
      /\ rWire' = Append(rWire, [from |-> s, session |-> rSession'[s], offers |-> offers,
                                 reboot |-> TRUE])
      /\ rByKey' = rByKey /\ rReboots' = rReboots
  BY DEF Sessions!SendSd
<1>3. /\ rSession' \in [Senders -> Nat] /\ rSession'[s] = next
      /\ \A t \in Senders : t # s => rSession'[t] = rSession[t]
  BY <1>1, <1>2 DEF SessionTypes
<1>4. /\ rWrapped' \in [Senders -> {"no", "now", "before"}]
      /\ \A t \in Senders : t # s => rWrapped'[t] = rWrapped[t]
      /\ rWrapped'[s] = IF rSession[s] = LastSession THEN "now" ELSE rWrapped[s]
  BY <1>2 DEF SessionTypes
<1>5. ASSUME Unwrapped' PROVE Unwrapped /\ rSession'[s] = rSession[s] + 1
  <2>1. rSession[s] # LastSession
    BY <1>4, <1>5 DEF Unwrapped
  <2> QED
    BY <1>3, <1>4, <1>5, <2>1 DEF Unwrapped, Sessions!NextSession
<1>6. PICK n : n = [from |-> s, session |-> next, offers |-> offers, reboot |-> TRUE]
  OBVIOUS
<1>7. /\ n \in SdMessages /\ rWire' = Append(rWire, n)
      /\ n.from = s /\ n.session = next /\ n.offers = offers
  BY <1>1, <1>2, <1>3, <1>6 DEF SdMessages
<1>8. /\ rWire' \in Seq(SdMessages) /\ Len(rWire') = Len(rWire) + 1
      /\ rWire'[Len(rWire) + 1] = n /\ \A k \in 1 .. Len(rWire) : rWire'[k] = rWire[k]
  BY <1>7, WireLength, AppendProperties
<1>9. ASSUME rSeen' = rSeen
      PROVE  /\ \A t \in Senders : Seen2(t)' = IF n.offers /\ n.from = t THEN n.session ELSE Seen2(t)
             /\ ToCount' = ToCount + Falls(n, Seen2(n.from))
  BY <1>2, <1>7, <1>9, WireGrows
<1>10. Len(rWire') <= 2 /\ \A i \in 1 .. Len(rWire') :
          \/ i \in 1 .. Len(rWire) /\ rWire'[i] = rWire[i]
          \/ rWire'[i].offers = offers /\ rWire'[i].from = s
  <2>1. Len(rWire) \in Nat
    BY WireLength
  <2>2. \A i \in 1 .. Len(rWire') : i \in 1 .. Len(rWire) \/ i = Len(rWire) + 1
    BY <1>8, <2>1
  <2>3. Len(rWire') <= 2
    BY <1>2, <1>8, <2>1
  <2> QED
    BY <1>7, <1>8, <2>2, <2>3
<1> QED
  BY <1>1, <1>2, <1>3, <1>4, <1>5, <1>7, <1>8, <1>9, <1>10

LEMMA SeenIsNumber == ASSUME SessionTypes, NEW s \in Senders PROVE Seen2(s) \in Nat
<1>0. rSeen[s] \in Nat
  BY DEF SessionTypes
<1>1. CASE Len(rWire) = 0
  BY <1>0, <1>1, SeenThen
<1>2. CASE Len(rWire) = 1
  <2>1. rWire[1].session \in Nat
    BY <1>2, WireLength DEF SdMessages
  <2> QED
    BY <1>0, <1>2, <2>1, SeenThen
<1>3. CASE Len(rWire) = 2
  <2>1. rWire[1].session \in Nat /\ rWire[2].session \in Nat
    BY <1>3, WireLength DEF SdMessages
  <2>2. Seen1(s) \in Nat
    BY <1>0, <1>3, <2>1, SeenThen
  <2> QED
    BY <1>3, <2>1, <2>2, SeenThen
<1> QED
  BY <1>1, <1>2, <1>3, WireLength

LEMMA ToCountIsNumber == ToCount \in Nat
  BY DEF ToCount, Falls

LEMMA OfferIsPaid ==
    ASSUME SessionsInvariant, NEW s \in Senders, Sessions!SendOffer(s)
    PROVE  SessionsInvariant'
<1>1. SessionTypes /\ Sessions!SendSd(s, TRUE)
  BY DEF SessionsInvariant, Sessions!SendOffer
<1>2. /\ rOfferedAs' = [rOfferedAs EXCEPT ![s] = rSession'[s]]
      /\ rRestarts' = IF s \in rHeralds THEN rRestarts + 1 ELSE rRestarts
      /\ rHeralds' = rHeralds \ {s}
  BY DEF Sessions!SendOffer
<1>3. /\ rSession' \in [Senders -> Nat] /\ rSession'[s] \in Nat \ {0}
      /\ \A t \in Senders : t # s => rSession'[t] = rSession[t]
      /\ rWrapped' \in [Senders -> {"no", "now", "before"}]
      /\ Unwrapped' => Unwrapped /\ rSession'[s] = rSession[s] + 1
      /\ rByKey' = rByKey /\ rReboots' = rReboots
      /\ rWire' \in Seq(SdMessages) /\ Len(rWire') <= 2
      /\ \A i \in 1 .. Len(rWire') :
            (i \in 1 .. Len(rWire) /\ rWire'[i] = rWire[i]) \/ rWire'[i].from = s
  BY <1>1, Sent
<1>5. /\ rOfferedAs' \in [Senders -> Nat] /\ rOfferedAs'[s] = rSession'[s]
      /\ \A t \in Senders : t # s => rOfferedAs'[t] = rOfferedAs[t]
  BY <1>1, <1>2, <1>3 DEF SessionTypes
<1>6. SessionTypes' /\ Heard'
  <2>1. rByKey' \in [Sessions!Keys -> Nat]
    BY <1>1, <1>3 DEF SessionTypes
  <2>2. rSeen' \in [Senders -> Nat]
    BY <1>5, <2>1, KeyOfSender DEF rSeen
  <2>3. Heard /\ \A t \in Senders : rOfferedAs[t] # 0 => rOfferedAs'[t] # 0
    BY <1>3, <1>5 DEF SessionsInvariant
  <2>4. \A i \in 1 .. Len(rWire') : rWire'[i].offers => rOfferedAs'[rWire'[i].from] # 0
    <3> SUFFICES ASSUME NEW i \in 1 .. Len(rWire'), rWire'[i].offers
                 PROVE  rOfferedAs'[rWire'[i].from] # 0
      OBVIOUS
    <3>1. CASE rWire'[i].from = s
      BY <1>3, <1>5, <3>1
    <3>2. CASE i \in 1 .. Len(rWire) /\ rWire'[i] = rWire[i]
      <4>1. rWire[i].from \in Senders /\ rOfferedAs[rWire[i].from] # 0
        BY <1>1, <2>3, <3>2, WireLength DEF Heard, SdMessages
      <4> QED
        BY <2>3, <3>2, <4>1
    <3> QED
      BY <1>3, <3>1, <3>2
  <2> QED
    BY <1>1, <1>2, <1>3, <1>5, <2>1, <2>2, <2>3, <2>4 DEF SessionTypes, Heard
<1>4. ASSUME Orderly'
      PROVE  /\ Orderly /\ Unwrapped' /\ rSeen' = rSeen
  <2>1. Orderly /\ Unwrapped'
    <3>1. \A t \in Senders : rOfferedAs[t] # 0 => rOfferedAs'[t] # 0
      BY <1>3, <1>5
    <3>2. Unwrapped' => Unwrapped
      BY <1>3
    <3> QED
      BY <1>4, <3>1, <3>2, OrderlyBefore DEF Orderly
  <2>2. rOfferedAs[s] = 0 => rByKey[Host[s]] = 0
    <3> SUFFICES ASSUME rOfferedAs[s] = 0, rByKey[Host[s]] # 0 PROVE FALSE
      OBVIOUS
    <3>1. PICK t \in Senders : Host[t] = Host[s] /\ rOfferedAs[t] # 0
      BY KeyOfSender DEF SessionsInvariant, Heard
    <3>2. t # s /\ rOfferedAs'[t] # 0 /\ rOfferedAs'[s] # 0
      BY <1>3, <1>5, <3>1
    <3> QED
      BY <1>4, <3>1, <3>2 DEF Orderly, Sessions!OneServerPerHost
  <2>3. rSeen' = [t \in Senders |-> IF rOfferedAs'[t] # 0 THEN rByKey[Host[t]] ELSE 0]
    BY <1>3 DEF rSeen
  <2>4. \A t \in Senders : (IF rOfferedAs'[t] # 0 THEN rByKey[Host[t]] ELSE 0)
                          = (IF rOfferedAs[t] # 0 THEN rByKey[Host[t]] ELSE 0)
    BY <1>3, <1>5, <2>2
  <2> QED
    BY <2>1, <2>3, <2>4 DEF rSeen
<1>7. ASSUME Orderly' PROVE \A t \in Senders : t \notin rHeralds' => rOfferedAs'[t] <= rSession'[t]
  <2>1. \A t \in Senders : t \notin rHeralds => rOfferedAs[t] <= rSession[t]
    BY <1>4, <1>7 DEF SessionsInvariant
  <2> QED
    BY <1>2, <1>3, <1>5, <2>1
<1>8. ASSUME Orderly' PROVE Paid'
  <2>8. rSeen' = rSeen /\ Orderly /\ Unwrapped'
    BY <1>4, <1>8
  <2>9. \A t \in Senders : Seen2(t)' = IF s = t THEN rSession'[s] ELSE Seen2(t)
    <3>1. \A t \in Senders : Seen2(t)' = IF TRUE /\ s = t THEN rSession'[s] ELSE Seen2(t)
      BY <1>1, <2>8, Sent, Zenon
    <3> QED
      BY <3>1
  <2>10. PICK n \in SdMessages :
            /\ n.from = s /\ n.session = rSession'[s] /\ n.offers = TRUE
            /\ ToCount' = ToCount + Falls(n, Seen2(s))
    BY <1>1, <2>8, Sent
  <2>1. Unwrapped /\ Paid /\ rSession'[s] = rSession[s] + 1
        /\ (s \notin rHeralds => rOfferedAs[s] <= rSession[s])
    BY <1>3, <2>8 DEF SessionsInvariant
  <2>2. Behind' \subseteq Behind /\ s \notin Behind'
    BY <1>3, <1>5, <2>9 DEF Behind
  <2>3. /\ Cardinality(Behind') \in Nat /\ Cardinality(Behind) \in Nat
        /\ Cardinality(Behind') <= Cardinality(Behind)
        /\ s \in Behind => Cardinality(Behind') + 1 <= Cardinality(Behind)
    BY <2>2, BehindFinite, OneMore
  <2>4. Falls(n, Seen2(s)) = 0 \/ Falls(n, Seen2(s)) = 1
    BY FallsOnce
  <2> DEFINE f == Falls(n, Seen2(s))
  <2>5. rReboots \in Nat /\ rRestarts \in Nat /\ ToCount \in Nat
    BY <1>1, ToCountIsNumber DEF SessionTypes
  <2>6. CASE s \in rHeralds \/ f = 0
    <3>1. rReboots + (ToCount + f) + Cardinality(Behind') <= rRestarts'
      <4> HIDE DEF f
      <4>1. rReboots + ToCount + Cardinality(Behind) <= rRestarts
        BY <2>1 DEF Paid
      <4> QED
        <5>1. CASE f = 0
          BY <1>2, <2>3, <2>5, <5>1, <4>1
        <5>2. CASE f = 1 /\ s \in rHeralds
          BY <1>2, <2>3, <2>5, <5>2, <4>1
        <5>3. f = 0 \/ (f = 1 /\ s \in rHeralds)
          BY <2>4, <2>6 DEF f
        <5> QED
          BY <5>1, <5>2, <5>3
    <3> QED
      BY <1>3, <2>10, <3>1 DEF Paid
  <2>7. CASE s \notin rHeralds /\ f = 1
    <3>1. s \in Behind
      <4>1. rSession'[s] <= Seen2(s)
        BY <2>10, <2>7 DEF Falls
      <4>2. Seen2(s) \in Nat /\ rOfferedAs[s] \in Nat /\ rSession[s] \in Nat
        BY <1>1, SeenIsNumber DEF SessionTypes
      <4>3. Seen2(s) > rOfferedAs[s]
        BY <2>1, <2>7, <4>1, <4>2
      <4> QED
        BY <4>3 DEF Behind
    <3>2. rReboots + (ToCount + f) + Cardinality(Behind') <= rRestarts'
      <4> HIDE DEF f
      <4>1. rReboots + ToCount + Cardinality(Behind) <= rRestarts
        BY <2>1 DEF Paid
      <4> QED
        BY <1>2, <2>3, <2>5, <2>7, <3>1, <4>1
    <3> QED
      BY <1>3, <2>10, <3>2 DEF Paid
  <2> QED
    BY <2>4, <2>6, <2>7
<1> QED
  BY <1>6, <1>7, <1>8 DEF SessionsInvariant

LEMMA FindIsFree ==
    ASSUME SessionsInvariant, NEW s \in Senders, Sessions!SendFind(s)
    PROVE  SessionsInvariant'
<1>1. SessionTypes /\ Sessions!SendSd(s, FALSE)
  BY DEF SessionsInvariant, Sessions!SendFind
<1>2. rOfferedAs' = rOfferedAs /\ rHeralds' = rHeralds /\ rRestarts' = rRestarts
  BY DEF Sessions!SendFind
<1>3. /\ rSession' \in [Senders -> Nat] /\ rSession'[s] \in Nat \ {0}
      /\ \A t \in Senders : t # s => rSession'[t] = rSession[t]
      /\ rWrapped' \in [Senders -> {"no", "now", "before"}]
      /\ Unwrapped' => Unwrapped /\ rSession'[s] = rSession[s] + 1
      /\ rByKey' = rByKey /\ rSeen' = rSeen /\ rReboots' = rReboots
      /\ rWire' \in Seq(SdMessages) /\ Len(rWire') <= 2
      /\ \A i \in 1 .. Len(rWire') :
            (i \in 1 .. Len(rWire) /\ rWire'[i] = rWire[i]) \/ rWire'[i].offers = FALSE
      /\ \A t \in Senders : Seen2(t)' = Seen2(t)
  <2>1. /\ rSession' \in [Senders -> Nat] /\ rSession'[s] \in Nat \ {0}
        /\ \A t \in Senders : t # s => rSession'[t] = rSession[t]
        /\ rWrapped' \in [Senders -> {"no", "now", "before"}]
        /\ Unwrapped' => Unwrapped /\ rSession'[s] = rSession[s] + 1
        /\ rByKey' = rByKey /\ rReboots' = rReboots
        /\ rWire' \in Seq(SdMessages) /\ Len(rWire') <= 2
        /\ \A i \in 1 .. Len(rWire') :
              (i \in 1 .. Len(rWire) /\ rWire'[i] = rWire[i]) \/ rWire'[i].offers = FALSE
    BY <1>1, Sent
  <2>2. rSeen' = rSeen
    BY <1>2, <2>1 DEF rSeen
  <2>3. \A t \in Senders : Seen2(t)' = IF FALSE /\ s = t THEN rSession'[s] ELSE Seen2(t)
    BY <1>1, <2>2, Sent, Zenon
  <2> QED
    BY <2>1, <2>2, <2>3
<1>4. PICK n \in SdMessages : n.offers = FALSE /\ ToCount' = ToCount + Falls(n, Seen2(s))
  BY ZenonT(60), <1>1, <1>3, Sent
<1>5. ToCount' = ToCount
  <2>1. Falls(n, Seen2(s)) = 0
    BY <1>4 DEF Falls
  <2> QED
    BY <1>4, <2>1, ToCountIsNumber
<1>6. SessionTypes' /\ Heard'
  <2>1. SessionTypes'
    BY <1>1, <1>2, <1>3 DEF SessionTypes
  <2>2. \A i \in 1 .. Len(rWire') : rWire'[i].offers => rOfferedAs'[rWire'[i].from] # 0
    BY <1>2, <1>3 DEF SessionsInvariant, Heard
  <2> QED
    BY <1>2, <1>3, <2>1, <2>2 DEF SessionsInvariant, Heard
<1>10. ASSUME Orderly' PROVE Orderly /\ Unwrapped'
  <2>1. (Unwrapped' => Unwrapped) /\ \A t \in Senders : rOfferedAs[t] # 0 => rOfferedAs'[t] # 0
    BY <1>2, <1>3
  <2> QED
    BY <1>10, <2>1, OrderlyBefore DEF Orderly
<1>7. Behind' = Behind
  BY <1>2, <1>3 DEF Behind
<1>8. ASSUME Orderly' PROVE \A t \in Senders : t \notin rHeralds' => rOfferedAs'[t] <= rSession'[t]
  <2>1. \A t \in Senders : t \notin rHeralds => rOfferedAs[t] <= rSession[t]
    BY <1>8, <1>10 DEF SessionsInvariant
  <2>2. ASSUME NEW t \in Senders
        PROVE  /\ rSession'[t] \in Nat /\ rSession[t] \in Nat /\ rOfferedAs[t] \in Nat
               /\ rSession[t] <= rSession'[t]
    <3>1. rSession'[t] \in Nat /\ rSession[t] \in Nat /\ rOfferedAs[t] \in Nat
      BY <1>1, <1>3 DEF SessionTypes
    <3>2. CASE t = s
      BY <1>3, <1>8, <1>10, <3>1, <3>2
    <3>3. CASE t # s
      BY <1>3, <3>1, <3>3
    <3> QED
      BY <3>1, <3>2, <3>3
  <2> QED
    BY <1>2, <2>1, <2>2
<1>9. ASSUME Orderly' PROVE Paid'
  BY <1>2, <1>3, <1>5, <1>7, <1>9, <1>10 DEF Paid, SessionsInvariant
<1> QED
  BY <1>6, <1>8, <1>9 DEF SessionsInvariant

LEMMA RestartIsFree ==
    ASSUME SessionsInvariant, NEW s \in Senders, Sessions!Restart(s)
    PROVE  SessionsInvariant'
<1>1. /\ SessionTypes
      /\ rSession' = [rSession EXCEPT ![s] = 0]
      /\ rWrapped' = [rWrapped EXCEPT ![s] = IF rWrapped[s] = "now" THEN "before" ELSE rWrapped[s]]
      /\ rHeralds' = IF rOfferedAs[s] # 0 THEN rHeralds \cup {s} ELSE rHeralds
      /\ rOfferedAs' = rOfferedAs /\ rRestarts' = rRestarts /\ rWire' = rWire
      /\ rByKey' = rByKey /\ rReboots' = rReboots
  BY DEF SessionsInvariant, Sessions!Restart
<1>7. rSeen' = rSeen
  BY <1>1 DEF rSeen
<1>2. SessionTypes' /\ Heard'
  BY <1>1, <1>7 DEF SessionTypes, SessionsInvariant, Heard
<1>3. ToCount' = ToCount /\ Behind' = Behind
  BY <1>1, <1>7 DEF ToCount, Behind, Seen1, Seen2, Falls
<1>4. ASSUME Orderly' PROVE Orderly
  <2>1. \A t \in Senders : rWrapped'[t] = IF t = s /\ rWrapped[s] = "now" THEN "before" ELSE rWrapped[t]
    BY <1>1 DEF SessionTypes
  <2>2. Unwrapped' => Unwrapped
    BY <2>1 DEF Unwrapped
  <2> QED
    BY <1>1, <1>4, <2>2, OrderlyBefore
<1>5. ASSUME Orderly PROVE \A t \in Senders : t \notin rHeralds' => rOfferedAs'[t] <= rSession'[t]
  BY <1>1, <1>5 DEF SessionsInvariant, SessionTypes
<1>6. ASSUME Orderly PROVE Paid'
  BY <1>1, <1>3, <1>6 DEF SessionsInvariant, Paid
<1> QED
  BY <1>2, <1>4, <1>5, <1>6 DEF SessionsInvariant

LEMMA ReceiptIsPaid ==
    ASSUME SessionsInvariant, Sessions!Receive
    PROVE  SessionsInvariant'
<1> DEFINE m == rWire[1]
           f == Falls(m, rSeen[m.from])
<1>1. /\ SessionTypes /\ rWire # <<>> /\ rWire' = Tail(rWire)
      /\ Sessions!NoteReboot(Head(rWire))
      /\ rSession' = rSession /\ rWrapped' = rWrapped /\ rOfferedAs' = rOfferedAs
      /\ rHeralds' = rHeralds /\ rRestarts' = rRestarts
  BY DEF SessionsInvariant, Sessions!Receive
<1>2. Head(rWire) = m /\ m \in SdMessages /\ rWire' \in Seq(SdMessages) /\ Len(rWire') <= 2
  <2>1. Len(rWire') = 0 \/ Len(rWire') = 1
    BY <1>1, WireShrinks
  <2>2. Len(rWire') <= 2
    BY <2>1
  <2> QED
    BY <1>1, <2>2, WireShrinks
<1>10. m.offers => rOfferedAs[m.from] # 0
  <2>1. 1 \in 1 .. Len(rWire)
    BY <1>1, WireLength, EmptySeq
  <2> QED
    BY <2>1 DEF SessionsInvariant, Heard
<1>3. /\ rByKey' = IF m.offers THEN [rByKey EXCEPT ![Host[m.from]] = m.session] ELSE rByKey
      /\ rReboots' = rReboots \/ (f = 1 /\ rReboots' = rReboots + 1)
  <2>1. CASE m.offers
    <3>1. /\ rByKey' = [rByKey EXCEPT ![Host[m.from]] = m.session]
          /\ rReboots' = IF m.reboot /\ rByKey[Host[m.from]] # 0 /\ m.session <= rByKey[Host[m.from]]
                         THEN rReboots + 1 ELSE rReboots
      BY <1>1, <1>2, <2>1 DEF Sessions!NoteReboot, Sessions!SenderKey
    <3>2. rSeen[m.from] = rByKey[Host[m.from]]
      BY <1>2, <1>10, <2>1 DEF rSeen, SdMessages
    <3> QED
      BY <2>1, <3>1, <3>2 DEF Falls
  <2>2. CASE ~m.offers
    BY <1>1, <1>2, <2>2 DEF Sessions!NoteReboot, Sessions!SenderKey
  <2> QED
    BY <2>1, <2>2
<1>4. /\ rByKey' \in [Sessions!Keys -> Nat] /\ rReboots' \in Nat
      /\ \A t \in Senders :
            rByKey'[Host[t]] = IF m.offers /\ Host[t] = Host[m.from] THEN m.session ELSE rByKey[Host[t]]
  <2>1. /\ rByKey \in [Sessions!Keys -> Nat] /\ rReboots \in Nat /\ m.from \in Senders
        /\ m.session \in Nat
    BY <1>1, <1>2 DEF SessionTypes, SdMessages
  <2>2. Host[m.from] \in Sessions!Keys /\ \A t \in Senders : Host[t] \in Sessions!Keys
    BY <2>1, KeyOfSender
  <2>3. rByKey' \in [Sessions!Keys -> Nat]
    BY <1>3, <2>1
  <2>4. rReboots' \in Nat
    <3>1. rReboots' = rReboots \/ rReboots' = rReboots + 1
      BY <1>3
    <3> QED
      BY <2>1, <3>1
  <2> QED
    BY <1>3, <2>1, <2>2, <2>3, <2>4
<1>5. SessionTypes' /\ Heard'
  <2>1. rSeen' \in [Senders -> Nat]
    BY <1>1, <1>4, KeyOfSender DEF rSeen, SessionTypes
  <2>2. Heard
    BY DEF SessionsInvariant
  <2>3. \A i \in 1 .. Len(rWire') : rWire'[i].offers => rOfferedAs'[rWire'[i].from] # 0
    <3>1. /\ Len(rWire') = Len(rWire) - 1 /\ Len(rWire) \in Nat
          /\ \A k \in 1 .. Len(rWire') : rWire'[k] = rWire[k + 1]
      BY <1>1, WireLength, HeadTailProperties, EmptySeq
    <3>2. \A k \in 1 .. Len(rWire') : k + 1 \in 1 .. Len(rWire)
      BY <3>1
    <3> QED
      BY <1>1, <2>2, <3>1, <3>2 DEF Heard
  <2>4. \A k \in Sessions!Keys : rByKey'[k] # 0 => \E t \in Senders : Host[t] = k /\ rOfferedAs'[t] # 0
    <3> SUFFICES ASSUME NEW k \in Sessions!Keys, rByKey'[k] # 0
                 PROVE  \E t \in Senders : Host[t] = k /\ rOfferedAs[t] # 0
      BY <1>1
    <3>1. CASE m.offers /\ k = Host[m.from]
      BY <1>2, <1>10, <3>1 DEF SdMessages
    <3>2. CASE ~(m.offers /\ k = Host[m.from])
      <4>1. rByKey'[k] = rByKey[k]
        BY <1>1, <1>3, <3>2 DEF SessionTypes
      <4> QED
        BY <2>2, <4>1 DEF Heard
    <3> QED
      BY <3>1, <3>2
  <2> QED
    BY <1>1, <1>2, <1>4, <2>1, <2>3, <2>4 DEF SessionTypes, Heard
<1>11. ASSUME Orderly
       PROVE  rSeen' = IF m.offers THEN [rSeen EXCEPT ![m.from] = m.session] ELSE rSeen
  <2>1. ASSUME NEW t \in Senders
        PROVE  rSeen'[t] = IF m.offers /\ t = m.from THEN m.session ELSE rSeen[t]
    <3>1. rSeen'[t] = IF rOfferedAs[t] # 0 THEN rByKey'[Host[t]] ELSE 0
      BY <1>1 DEF rSeen
    <3>2. rSeen[t] = IF rOfferedAs[t] # 0 THEN rByKey[Host[t]] ELSE 0
      BY DEF rSeen
    <3>3. m.from \in Senders /\ (m.offers => rOfferedAs[m.from] # 0)
      BY <1>2, <1>10 DEF SdMessages
    <3>4. m.offers /\ rOfferedAs[t] # 0 /\ Host[t] = Host[m.from] => t = m.from
      BY <1>11, <3>3 DEF Orderly, Sessions!OneServerPerHost
    <3> QED
      BY <1>4, <3>1, <3>2, <3>3, <3>4
  <2>2. rSeen \in [Senders -> Nat] /\ rSeen' \in [Senders -> Nat] /\ m.from \in Senders
    BY <1>1, <1>2, <1>5 DEF SessionTypes, SdMessages
  <2> QED
    BY <2>1, <2>2
<1>6. ASSUME Orderly
      PROVE  /\ \A s \in Senders : Seen2(s)' = Seen2(s)
             /\ ToCount = ToCount' + f /\ ToCount' \in Nat
  BY <1>1, <1>6, <1>11, ReadCounts
<1>8. ASSUME Orderly PROVE Paid'
  <2>5. /\ Behind' = Behind /\ ToCount = ToCount' + f /\ ToCount' \in Nat
    BY <1>1, <1>6, <1>8 DEF Behind
  <2>1. rReboots + ToCount + Cardinality(Behind) <= rRestarts
    BY <1>8 DEF Paid, SessionsInvariant
  <2>2. f = 0 \/ f = 1
    BY FallsOnce
  <2>3. rReboots \in Nat /\ rRestarts \in Nat /\ Cardinality(Behind) \in Nat
    BY <1>1, BehindFinite DEF SessionTypes
  <2>4. rReboots' + ToCount' + Cardinality(Behind) <= rRestarts
    <3> HIDE DEF f
    <3> QED
      BY <1>3, <2>1, <2>2, <2>3, <2>5
  <2> QED
    BY <1>1, <2>4, <2>5 DEF Paid
<1>9. /\ Orderly' => Orderly
      /\ Orderly => \A s \in Senders : s \notin rHeralds' => rOfferedAs'[s] <= rSession'[s]
  BY <1>1 DEF Orderly, Unwrapped, Sessions!OneServerPerHost, SessionsInvariant
<1> QED
  BY <1>5, <1>8, <1>9 DEF SessionsInvariant

LEMMA SessionLossIsPaid ==
    ASSUME SessionsInvariant, Sessions!LoseMessage
    PROVE  SessionsInvariant'
<1>1. /\ SessionTypes /\ rWire # <<>> /\ rWire' = Tail(rWire)
      /\ rSession' = rSession /\ rWrapped' = rWrapped /\ rOfferedAs' = rOfferedAs
      /\ rHeralds' = rHeralds /\ rRestarts' = rRestarts /\ rByKey' = rByKey
      /\ rReboots' = rReboots
  BY DEF SessionsInvariant, Sessions!LoseMessage
<1>8. rSeen' = rSeen
  BY <1>1 DEF rSeen
<1>2. rWire' \in Seq(SdMessages) /\ Len(rWire') <= 2
  <2>1. Len(rWire') = 0 \/ Len(rWire') = 1
    BY <1>1, WireShrinks
  <2>2. Len(rWire') <= 2
    BY <2>1
  <2> QED
    BY <1>1, <2>2, WireShrinks
<1>3. SessionTypes' /\ Heard'
  <2>1. SessionTypes'
    BY <1>1, <1>2, <1>8 DEF SessionTypes
  <2>2. /\ Len(rWire') = Len(rWire) - 1 /\ Len(rWire) \in Nat
        /\ \A k \in 1 .. Len(rWire') : rWire'[k] = rWire[k + 1]
    BY <1>1, WireLength, HeadTailProperties, EmptySeq
  <2>3. \A k \in 1 .. Len(rWire') : k + 1 \in 1 .. Len(rWire)
    BY <2>2
  <2> QED
    BY <1>1, <2>1, <2>2, <2>3 DEF SessionsInvariant, Heard
<1>4. ToCount' + Cardinality(Behind') <= ToCount + Cardinality(Behind)
  BY <1>1, <1>8, LossIsPaid
<1>5. ToCount' \in Nat /\ Cardinality(Behind') \in Nat
  <2>1. Behind' \subseteq Senders
    BY DEF Behind
  <2>2. Cardinality(Behind') \in Nat
    BY <2>1, SessionsAssumption, FS_Subset, FS_CardinalityType
  <2>3. ToCount' \in Nat
    BY DEF ToCount, Falls
  <2> QED
    BY <2>2, <2>3
<1>6. ASSUME Orderly PROVE Paid'
  <2>1. rReboots + ToCount + Cardinality(Behind) <= rRestarts
    BY <1>6 DEF Paid, SessionsInvariant
  <2>2. rReboots \in Nat /\ rRestarts \in Nat /\ Cardinality(Behind) \in Nat /\ ToCount \in Nat
    BY <1>1, BehindFinite, ToCountIsNumber DEF SessionTypes
  <2>3. rReboots + ToCount' + Cardinality(Behind') <= rRestarts
    BY <1>4, <1>5, <2>1, <2>2
  <2> QED
    BY <1>1, <2>3 DEF Paid
<1>7. /\ Orderly' => Orderly
      /\ Orderly => \A s \in Senders : s \notin rHeralds' => rOfferedAs'[s] <= rSession'[s]
  BY <1>1 DEF Orderly, Unwrapped, Sessions!OneServerPerHost, SessionsInvariant
<1> QED
  BY <1>3, <1>6, <1>7 DEF SessionsInvariant

LEMMA SessionsStep == ASSUME SessionsInvariant, Sessions!RebootNext PROVE SessionsInvariant'
<1>1. CASE Sessions!Receive
  BY <1>1, ReceiptIsPaid
<1>2. CASE Sessions!LoseMessage
  BY <1>2, SessionLossIsPaid
<1>3. ASSUME NEW s \in Senders, Sessions!SendOffer(s) PROVE SessionsInvariant'
  BY <1>3, OfferIsPaid
<1>4. ASSUME NEW s \in Senders, Sessions!SendFind(s) PROVE SessionsInvariant'
  BY <1>4, FindIsFree
<1>5. ASSUME NEW s \in Senders, Sessions!Restart(s) PROVE SessionsInvariant'
  BY <1>5, RestartIsFree
<1> QED
  BY <1>1, <1>2, <1>3, <1>4, <1>5 DEF Sessions!RebootNext

LEMMA SessionsStutter ==
    ASSUME SessionsInvariant, UNCHANGED <<s1, s2, s3, s4, s5, s6, s7, s8>>
    PROVE  SessionsInvariant'
<1>1. rSeen' = rSeen
  BY DEF rSeen
<1> QED
  BY <1>1 DEF SessionsInvariant, SessionTypes, Heard, Orderly, Unwrapped,
      Sessions!OneServerPerHost, Paid, ToCount, Behind, Seen1, Seen2, Falls

LEMMA SessionsHold == ASSUME SessionsInvariant PROVE Sessions!NoFalseReboot
<1> SUFFICES ASSUME Orderly PROVE rReboots <= rRestarts
  BY DEF Sessions!NoFalseReboot, Orderly, Unwrapped
<1>1. SessionTypes /\ rReboots + ToCount + Cardinality(Behind) <= rRestarts
  BY DEF SessionsInvariant, Paid
<1>2. rReboots \in Nat /\ rRestarts \in Nat /\ Cardinality(Behind) \in Nat /\ ToCount \in Nat
  BY <1>1, BehindFinite, ToCountIsNumber DEF SessionTypes
<1> QED
  BY <1>1, <1>2
(***************************************************************************)
(* SharedPtr                                                               *)
(***************************************************************************)
pStrong == s1
pWeak == s2
pObject == s3
pBlock == s4
pOwners == s5
pWatchers == s6
pInner == s7
pStep == s8
USE DEF pStrong, pWeak, pObject, pBlock, pOwners, pWatchers, pInner, pStep

\* The handles of one kind, numbered for each thread.
Handles(count) == {h \in [by : Threads, nr : Nat \ {0}] : h.nr <= count[h.by]}

Deleting == {t \in Threads : pStep[t].at = "delete object"}
Collecting == {t \in Threads : pStep[t].at = "collective"}
Freeing == {t \in Threads : pStep[t].at = "delete block"}

\* The weak references that are nobody's handle: the object's own, and that of
\* all owners together until the thread that deleted the object has dropped it.
OwnReference == IF pInner THEN 1 ELSE 0
Collective == IF pStrong > 0 \/ Deleting \cup Collecting # {} THEN 1 ELSE 0

Places ==
    [at : {"idle"}, seen : {0}] \cup [at : {"lock"}, seen : Nat \ {0}]
    \cup [at : {"delete object", "collective", "delete block"}, seen : {0}]

PointerTypes ==
    /\ pStrong \in Nat /\ pWeak \in Nat /\ pBlock \in {0, 1}
    /\ pObject \in {"alive", "dead"} /\ pInner \in BOOLEAN
    /\ pOwners \in [Threads -> Nat] /\ pWatchers \in [Threads -> Nat]
    /\ pStep \in [Threads -> Places]
    /\ IsFiniteSet(Handles(pOwners)) /\ IsFiniteSet(Handles(pWatchers))

\* The two counts of the control block are those of the references.
StrongCounts == pStrong = Cardinality(Handles(pOwners))
WeakCounts == pWeak = Cardinality(Handles(pWatchers)) + OwnReference + Collective

\* One thread has dropped the last owner, and the object lives until it has
\* deleted it.
OneDeletes ==
    /\ \A t, u \in Deleting \cup Collecting : t = u
    /\ pStrong > 0 => Deleting \cup Collecting = {}
    /\ pObject = "alive" <=> pStrong > 0 \/ Deleting # {}
    /\ pInner => pObject = "alive"

\* One thread has dropped the last reference, and deletes the block.
OneFrees ==
    /\ \A t, u \in Freeing : t = u
    /\ pWeak = 0 <=> pBlock = 1 \/ Freeing # {}
    /\ pBlock = 1 => Freeing = {}

\* Whoever locks holds the WeakPtr it locks.
LockersWatch == \A t \in Threads : pStep[t].at = "lock" => pWatchers[t] > 0

PointersInvariant ==
    PointerTypes /\ StrongCounts /\ WeakCounts /\ OneDeletes /\ OneFrees /\ LockersWatch

LEMMA HandleMore ==
    ASSUME NEW H \in [Threads -> Nat], NEW t \in Threads, IsFiniteSet(Handles(H)),
           NEW K, K = [H EXCEPT ![t] = H[t] + 1]
    PROVE  /\ K \in [Threads -> Nat] /\ IsFiniteSet(Handles(K))
           /\ Cardinality(Handles(H)) \in Nat
           /\ Cardinality(Handles(K)) = Cardinality(Handles(H)) + 1
<1> DEFINE h == [by |-> t, nr |-> H[t] + 1]
<1>1. h \notin Handles(H)
  BY DEF Handles
<1>2. Handles(K) = Handles(H) \cup {h}
  <2>1. ASSUME NEW x \in [by : Threads, nr : Nat \ {0}], x.nr <= K[x.by], x.nr > H[x.by]
        PROVE  x = h
    <3>1. x.by = t /\ x.nr = H[t] + 1
      BY <2>1
    <3> QED
      BY <3>1
  <2>2. h \in Handles(K)
    BY DEF Handles
  <2>3. Handles(H) \subseteq Handles(K)
    BY DEF Handles
  <2>4. Handles(K) \subseteq Handles(H) \cup {h}
    BY <2>1 DEF Handles
  <2> QED
    BY <2>2, <2>3, <2>4
<1>3. K \in [Threads -> Nat]
  OBVIOUS
<1>4. /\ IsFiniteSet(Handles(H) \cup {h})
      /\ Cardinality(Handles(H) \cup {h}) = Cardinality(Handles(H)) + 1
  <2> HIDE DEF h
  <2> QED
    BY <1>1, FS_AddElement
<1>5. Cardinality(Handles(H)) \in Nat
  BY FS_CardinalityType
<1> QED
  BY <1>2, <1>3, <1>4, <1>5, Zenon

\* K counts one handle less than H.
OneLess(K, H) ==
    /\ K \in [Threads -> Nat] /\ IsFiniteSet(Handles(K))
    /\ Cardinality(Handles(H)) \in Nat /\ Cardinality(Handles(K)) \in Nat
    /\ Cardinality(Handles(H)) = Cardinality(Handles(K)) + 1

LEMMA HandleLess ==
    ASSUME NEW H \in [Threads -> Nat], NEW t \in Threads, IsFiniteSet(Handles(H)), H[t] > 0,
           NEW K, K = [H EXCEPT ![t] = H[t] - 1]
    PROVE  OneLess(K, H)
<1> DEFINE h == [by |-> t, nr |-> H[t]]
<1>1. h \in Handles(H)
  BY DEF Handles
<1>2. Handles(K) = Handles(H) \ {h}
  <2>1. ASSUME NEW x \in [by : Threads, nr : Nat \ {0}], ~(x.nr <= K[x.by]), x.nr <= H[x.by]
        PROVE  x = h
    <3>1. x.by = t /\ x.nr = H[t]
      BY <2>1
    <3> QED
      BY <3>1
  <2>2. h \notin Handles(K)
    BY DEF Handles
  <2>3. Handles(K) \subseteq Handles(H)
    BY DEF Handles
  <2>4. Handles(H) \subseteq Handles(K) \cup {h}
    BY <2>1 DEF Handles
  <2> QED
    BY <2>2, <2>3, <2>4
<1>3. K \in [Threads -> Nat]
  OBVIOUS
<1>4. /\ IsFiniteSet(Handles(K)) /\ Cardinality(Handles(K)) = Cardinality(Handles(H)) - 1
      /\ Cardinality(Handles(H)) \in Nat /\ Cardinality(Handles(K)) \in Nat
  <2>1. /\ IsFiniteSet(Handles(H) \ {h})
        /\ Cardinality(Handles(H) \ {h}) = Cardinality(Handles(H)) - 1
    <3> HIDE DEF h
    <3> QED
      BY <1>1, FS_RemoveElement
  <2>2. IsFiniteSet(Handles(K)) /\ Cardinality(Handles(K)) = Cardinality(Handles(H)) - 1
    BY <1>2, <2>1, Zenon
  <2> QED
    BY <2>2, FS_CardinalityType
<1> QED
  BY <1>3, <1>4 DEF OneLess

LEMMA SomeHandle ==
    ASSUME NEW H \in [Threads -> Nat], IsFiniteSet(Handles(H))
    PROVE  /\ Cardinality(Handles(H)) \in Nat
           /\ (\E t \in Threads : H[t] > 0) <=> Cardinality(Handles(H)) > 0
<1>1. ASSUME NEW t \in Threads, H[t] > 0 PROVE Handles(H) # {}
  <2>1. [by |-> t, nr |-> H[t]] \in Handles(H)
    BY <1>1 DEF Handles
  <2> QED
    BY <2>1
<1>2. ASSUME \A t \in Threads : ~(H[t] > 0) PROVE Handles(H) = {}
  BY <1>2 DEF Handles
<1>3. Cardinality(Handles(H)) \in Nat /\ (Cardinality(Handles(H)) = 0 <=> Handles(H) = {})
  BY FS_CardinalityType, FS_EmptySet
<1> QED
  BY <1>1, <1>2, <1>3

LEMMA PointersBegin == ASSUME Pointers!PointerInit PROVE PointersInvariant
<1>1. /\ pInner \in BOOLEAN /\ pStrong = 1 /\ pWeak = IF pInner THEN 2 ELSE 1
      /\ pObject = "alive" /\ pBlock = 0
      /\ pOwners = [t \in Threads |-> IF t = Maker THEN 1 ELSE 0]
      /\ pWatchers = [t \in Threads |-> 0]
      /\ pStep = [t \in Threads |-> [at |-> "idle", seen |-> 0]]
  BY DEF Pointers!PointerInit, Pointers!Idle
<1>2. /\ pOwners \in [Threads -> Nat] /\ pWatchers \in [Threads -> Nat]
      /\ pStep \in [Threads -> Places]
  BY <1>1 DEF Places
<1>3. Handles(pWatchers) = {}
  BY <1>1 DEF Handles
<1>4. Handles(pOwners) = {[by |-> Maker, nr |-> 1]}
  BY <1>1, PointersAssumption DEF Handles
<1>5. /\ IsFiniteSet(Handles(pWatchers)) /\ Cardinality(Handles(pWatchers)) = 0
      /\ IsFiniteSet(Handles(pOwners)) /\ Cardinality(Handles(pOwners)) = 1
  <2>1. IsFiniteSet(Handles(pWatchers)) /\ Cardinality(Handles(pWatchers)) = 0
    BY <1>3, FS_EmptySet
  <2>2. IsFiniteSet(Handles(pOwners)) /\ Cardinality(Handles(pOwners)) = 1
    BY <1>4, FS_Singleton, Zenon
  <2> QED
    BY <2>1, <2>2
<1>6. Deleting = {} /\ Collecting = {} /\ Freeing = {} /\ \A t \in Threads : pStep[t].at # "lock"
  BY <1>1 DEF Deleting, Collecting, Freeing
<1>7. PointerTypes
  BY <1>1, <1>2, <1>5 DEF PointerTypes
<1>8. StrongCounts /\ WeakCounts
  BY <1>1, <1>5 DEF StrongCounts, WeakCounts, OwnReference, Collective
<1>9. OneDeletes /\ OneFrees /\ LockersWatch
  BY <1>1, <1>6 DEF OneDeletes, OneFrees, LockersWatch
<1> QED
  BY <1>7, <1>8, <1>9 DEF PointersInvariant

LEMMA PointersHold ==
    ASSUME PointersInvariant PROVE Pointers!NothingDangles /\ Pointers!AllIsFreed
<1> USE DEF PointersInvariant
<1>1. /\ Cardinality(Handles(pOwners)) \in Nat /\ Cardinality(Handles(pWatchers)) \in Nat
      /\ (\E t \in Threads : pOwners[t] > 0) <=> Cardinality(Handles(pOwners)) > 0
      /\ (\E t \in Threads : pWatchers[t] > 0) <=> Cardinality(Handles(pWatchers)) > 0
  BY SomeHandle DEF PointerTypes
<1>2. /\ OwnReference \in {0, 1} /\ Collective \in {0, 1}
      /\ (Deleting \cup Collecting # {} => Collective = 1)
      /\ (pStrong > 0 => Collective = 1)
  BY DEF OwnReference, Collective
<1>3. \A t \in Threads : pOwners[t] \in Nat /\ pWatchers[t] \in Nat /\ pStep[t] \in Places
  BY DEF PointerTypes
<1>4. ASSUME NEW t \in Threads, pOwners[t] + pWatchers[t] > 0 \/ pStep[t] # Pointers!Idle
      PROVE  pBlock = 0
  <2>1. pWeak > 0 => pBlock = 0
    BY DEF OneFrees, PointerTypes
  <2>2. CASE pOwners[t] > 0
    BY <1>1, <1>2, <2>1, <2>2 DEF StrongCounts, WeakCounts
  <2>3. CASE pWatchers[t] > 0
    BY <1>1, <1>2, <2>1, <2>3 DEF WeakCounts
  <2>4. CASE pStep[t] # Pointers!Idle
    <3>1. pStep[t].at \in {"lock", "delete object", "collective", "delete block"}
      BY <1>3, <2>4 DEF Places, Pointers!Idle
    <3>2. CASE pStep[t].at = "lock"
      BY <2>3, <3>2 DEF LockersWatch
    <3>3. CASE pStep[t].at \in {"delete object", "collective"}
      <4>1. Deleting \cup Collecting # {}
        BY <3>3 DEF Deleting, Collecting
      <4> QED
        BY <1>1, <1>2, <2>1, <4>1 DEF WeakCounts
    <3>4. CASE pStep[t].at = "delete block"
      <4>1. Freeing # {}
        BY <3>4 DEF Freeing
      <4> QED
        BY <4>1 DEF OneFrees, PointerTypes
    <3> QED
      BY <3>1, <3>2, <3>3, <3>4
  <2>5. pOwners[t] > 0 \/ pWatchers[t] > 0 \/ pStep[t] # Pointers!Idle
    BY <1>3, <1>4
  <2> QED
    BY <2>2, <2>3, <2>4, <2>5
<1>5. ASSUME NEW t \in Threads, pOwners[t] > 0 PROVE pObject = "alive"
  BY <1>1, <1>5 DEF OneDeletes, StrongCounts
<1>6. ASSUME \A t \in Threads : pOwners[t] + pWatchers[t] = 0 /\ pStep[t] = Pointers!Idle
      PROVE  pObject = "dead" /\ pBlock = 1
  <2>1. \A t \in Threads : ~(pOwners[t] > 0) /\ ~(pWatchers[t] > 0)
    BY <1>3, <1>6
  <2>2. pStrong = 0 /\ Cardinality(Handles(pWatchers)) = 0
    BY <1>1, <2>1 DEF StrongCounts
  <2>3. Deleting = {} /\ Collecting = {} /\ Freeing = {}
    <3>1. \A t \in Threads : pStep[t].at = "idle"
      BY <1>6 DEF Pointers!Idle
    <3> QED
      BY <3>1 DEF Deleting, Collecting, Freeing
  <2>4. pObject = "dead"
    BY <2>2, <2>3 DEF OneDeletes, PointerTypes
  <2>5. OwnReference = 0 /\ Collective = 0
    BY <2>2, <2>3, <2>4 DEF OneDeletes, OwnReference, Collective
  <2>6. pWeak = 0
    BY <2>2, <2>5 DEF WeakCounts
  <2> QED
    BY <2>3, <2>4, <2>6 DEF OneFrees
<1> QED
  BY <1>4, <1>5, <1>6 DEF Pointers!NothingDangles, Pointers!AllIsFreed

\* A thread that goes somewhere changes who deletes what, and nobody else does.
Went(t, p) ==
    /\ pStep' \in [Threads -> Places]
    /\ Deleting' = IF p.at = "delete object" THEN Deleting \cup {t} ELSE Deleting \ {t}
    /\ Collecting' = IF p.at = "collective" THEN Collecting \cup {t} ELSE Collecting \ {t}
    /\ Freeing' = IF p.at = "delete block" THEN Freeing \cup {t} ELSE Freeing \ {t}
    /\ \A u \in Threads : pStep'[u].at = "lock" =>
          (u = t /\ p.at = "lock") \/ (u # t /\ pStep[u].at = "lock")

LEMMA Goes ==
    ASSUME pStep \in [Threads -> Places], NEW t \in Threads, NEW p \in Places,
           pStep' = [pStep EXCEPT ![t] = p]
    PROVE  Went(t, p)
<1>1. /\ pStep' \in [Threads -> Places]
      /\ \A u \in Threads : pStep'[u] = IF u = t THEN p ELSE pStep[u]
  OBVIOUS
<1>2. Deleting' = IF p.at = "delete object" THEN Deleting \cup {t} ELSE Deleting \ {t}
  BY <1>1 DEF Deleting
<1>3. Collecting' = IF p.at = "collective" THEN Collecting \cup {t} ELSE Collecting \ {t}
  BY <1>1 DEF Collecting
<1>4. Freeing' = IF p.at = "delete block" THEN Freeing \cup {t} ELSE Freeing \ {t}
  BY <1>1 DEF Freeing
<1> QED
  BY <1>1, <1>2, <1>3, <1>4 DEF Went

\* Nobody goes anywhere.
LEMMA Stays ==
    ASSUME pStep' = pStep
    PROVE  Deleting' = Deleting /\ Collecting' = Collecting /\ Freeing' = Freeing
  BY DEF Deleting, Collecting, Freeing

LEMMA PointerNumbers ==
    ASSUME PointersInvariant
    PROVE  /\ pStrong \in Nat /\ pWeak \in Nat
           /\ Cardinality(Handles(pOwners)) \in Nat /\ Cardinality(Handles(pWatchers)) \in Nat
           /\ OwnReference \in Nat /\ Collective \in Nat
           /\ pStrong > 0 => Collective = 1
           /\ Deleting \cup Collecting # {} => Collective = 1
           /\ \A t \in Threads : pOwners[t] > 0 => pStrong > 0
           /\ \A t \in Threads : pWatchers[t] > 0 => pWeak > Collective
           /\ Freeing # {} => pWeak = 0
<1> USE DEF PointersInvariant
<1>1. /\ Cardinality(Handles(pOwners)) \in Nat /\ Cardinality(Handles(pWatchers)) \in Nat
      /\ (\E t \in Threads : pOwners[t] > 0) <=> Cardinality(Handles(pOwners)) > 0
      /\ (\E t \in Threads : pWatchers[t] > 0) <=> Cardinality(Handles(pWatchers)) > 0
  BY SomeHandle DEF PointerTypes
<1>2. OwnReference \in Nat /\ Collective \in Nat
  BY DEF OwnReference, Collective
<1>3. /\ pStrong > 0 => Collective = 1
      /\ Deleting \cup Collecting # {} => Collective = 1
  BY DEF Collective
<1>4. pStrong \in Nat /\ pWeak \in Nat
  BY DEF PointerTypes
<1>5. \A t \in Threads : pOwners[t] > 0 => pStrong > 0
  BY <1>1 DEF StrongCounts
<1>6. \A t \in Threads : pWatchers[t] > 0 => pWeak > Collective
  BY <1>1, <1>2 DEF WeakCounts
<1>7. Freeing # {} => pWeak = 0
  BY DEF OneFrees
<1> QED
  BY <1>1, <1>2, <1>3, <1>4, <1>5, <1>6, <1>7

LEMMA CopyKeeps ==
    ASSUME PointersInvariant, NEW t \in Threads, Pointers!Copy(t) PROVE PointersInvariant'
<1> USE DEF PointersInvariant
<1>1. /\ pOwners[t] \in 1 .. MaxHandles - 1 /\ pStrong' = pStrong + 1
      /\ pOwners' = [pOwners EXCEPT ![t] = pOwners[t] + 1]
      /\ pWeak' = pWeak /\ pObject' = pObject /\ pBlock' = pBlock /\ pWatchers' = pWatchers
      /\ pInner' = pInner /\ pStep' = pStep
  BY DEF Pointers!Copy, Pointers!Holds
<1>2. /\ pOwners' \in [Threads -> Nat] /\ IsFiniteSet(Handles(pOwners'))
      /\ Cardinality(Handles(pOwners')) = Cardinality(Handles(pOwners)) + 1
  BY <1>1, HandleMore DEF PointerTypes
<1>3. pOwners[t] > 0 /\ pStrong > 0 /\ pStrong' > 0 /\ Collective = 1 /\ pStrong' \in Nat
  <2>1. pOwners[t] > 0
    BY <1>1 DEF PointerTypes
  <2>2. pStrong > 0 /\ Collective = 1 /\ pStrong \in Nat
    BY <2>1, PointerNumbers
  <2> QED
    BY <1>1, <2>1, <2>2
<1>4. Deleting' = Deleting /\ Collecting' = Collecting /\ Freeing' = Freeing
  BY <1>1, Stays
<1>5. OwnReference' = OwnReference /\ Collective' = Collective
  BY <1>1, <1>3 DEF OwnReference, Collective
<1>6. PointerTypes'
  BY <1>1, <1>2, <1>3 DEF PointerTypes, Handles
<1>7. StrongCounts' /\ WeakCounts'
  BY <1>1, <1>2, <1>5 DEF StrongCounts, WeakCounts, Handles
<1>8. OneDeletes' /\ OneFrees' /\ LockersWatch'
  BY <1>1, <1>3, <1>4 DEF OneDeletes, OneFrees, LockersWatch
<1> QED
  BY <1>6, <1>7, <1>8

LEMMA ObserveKeeps ==
    ASSUME PointersInvariant, NEW t \in Threads, Pointers!Observe(t) PROVE PointersInvariant'
<1> USE DEF PointersInvariant
<1>1. /\ pOwners[t] + pWatchers[t] > 0 /\ pWeak' = pWeak + 1
      /\ pWatchers' = [pWatchers EXCEPT ![t] = pWatchers[t] + 1]
      /\ pStrong' = pStrong /\ pObject' = pObject /\ pBlock' = pBlock /\ pOwners' = pOwners
      /\ pInner' = pInner /\ pStep' = pStep
  BY DEF Pointers!Observe, Pointers!Holds
<1>2. /\ pWatchers' \in [Threads -> Nat] /\ IsFiniteSet(Handles(pWatchers'))
      /\ Cardinality(Handles(pWatchers')) = Cardinality(Handles(pWatchers)) + 1
  BY <1>1, HandleMore DEF PointerTypes
<1>3. pWeak > 0 /\ pWeak' > 0 /\ pWeak' \in Nat
  <2>1. pOwners[t] > 0 \/ pWatchers[t] > 0
    BY <1>1 DEF PointerTypes
  <2>2. pWeak > 0
    <3>1. CASE pOwners[t] > 0
      BY <3>1, PointerNumbers DEF WeakCounts
    <3>2. CASE pWatchers[t] > 0
      BY <3>2, PointerNumbers
    <3> QED
      BY <2>1, <3>1, <3>2
  <2>3. pWeak \in Nat
    BY PointerNumbers
  <2> QED
    BY <1>1, <2>2, <2>3
<1>4. Deleting' = Deleting /\ Collecting' = Collecting /\ Freeing' = Freeing
  BY <1>1, Stays
<1>5. OwnReference' = OwnReference /\ Collective' = Collective
  BY <1>1, <1>4 DEF OwnReference, Collective
<1>6. PointerTypes'
  BY <1>1, <1>2, <1>3 DEF PointerTypes, Handles
<1>7. StrongCounts' /\ WeakCounts'
  <2>1. pWeak' = Cardinality(Handles(pWatchers')) + OwnReference + Collective
    BY <1>1, <1>2, PointerNumbers DEF WeakCounts
  <2> QED
    BY <1>1, <1>5, <2>1 DEF StrongCounts, WeakCounts, Handles
<1>8. OneDeletes' /\ OneFrees' /\ LockersWatch'
  <2>1. OneDeletes'
    BY <1>1, <1>4 DEF OneDeletes
  <2>2. pBlock = 0 /\ Freeing = {}
    BY <1>3 DEF OneFrees, PointerTypes
  <2>3. OneFrees'
    BY <1>1, <1>3, <1>4, <2>2 DEF OneFrees
  <2>4. LockersWatch'
    BY <1>1 DEF LockersWatch, PointerTypes
  <2> QED
    BY <2>1, <2>3, <2>4
<1> QED
  BY <1>6, <1>7, <1>8

LEMMA MoveKeeps ==
    ASSUME PointersInvariant, NEW t \in Threads, NEW u \in Threads, Pointers!Move(t, u)
    PROVE  PointersInvariant'
<1> USE DEF PointersInvariant
<1> DEFINE H == [pOwners EXCEPT ![t] = pOwners[t] - 1]
<1>1. /\ t # u /\ pOwners[t] > 0
      /\ pOwners' = [H EXCEPT ![u] = H[u] + 1]
      /\ UNCHANGED <<pStrong, pWeak, pObject, pBlock, pWatchers, pInner, pStep>>
  BY DEF Pointers!Move, Pointers!Holds, Pointers!counts
<1>2. /\ H \in [Threads -> Nat] /\ IsFiniteSet(Handles(H))
      /\ Cardinality(Handles(pOwners)) \in Nat /\ Cardinality(Handles(H)) \in Nat
      /\ Cardinality(Handles(pOwners)) = Cardinality(Handles(H)) + 1
  <2>1. pOwners \in [Threads -> Nat] /\ IsFiniteSet(Handles(pOwners))
    BY DEF PointerTypes
  <2>2. OneLess(H, pOwners)
    BY <1>1, <2>1, HandleLess, Zenon
  <2> QED
    BY <2>2 DEF OneLess
<1>3. /\ pOwners' \in [Threads -> Nat] /\ IsFiniteSet(Handles(pOwners'))
      /\ Cardinality(Handles(pOwners')) = Cardinality(Handles(H)) + 1
  <2> HIDE DEF H
  <2> QED
    BY <1>1, <1>2, HandleMore
<1>4. Cardinality(Handles(pOwners')) = Cardinality(Handles(pOwners))
  BY <1>2, <1>3
<1>5. Deleting' = Deleting /\ Collecting' = Collecting /\ Freeing' = Freeing
  BY <1>1, Stays
<1>6. OwnReference' = OwnReference /\ Collective' = Collective
  BY <1>1, <1>5 DEF OwnReference, Collective
<1>7. PointerTypes'
  BY <1>1, <1>3 DEF PointerTypes, Handles
<1>8. StrongCounts' /\ WeakCounts'
  BY <1>1, <1>4, <1>6 DEF StrongCounts, WeakCounts, Handles
<1>9. OneDeletes' /\ OneFrees' /\ LockersWatch'
  BY <1>1, <1>5 DEF OneDeletes, OneFrees, LockersWatch
<1> QED
  BY <1>7, <1>8, <1>9

LEMMA ReleaseKeeps ==
    ASSUME PointersInvariant, NEW t \in Threads, Pointers!Release(t) PROVE PointersInvariant'
<1> USE DEF PointersInvariant
<1>0. /\ pStep[t].at = "idle"
      /\ IF pStrong = 1 THEN pStep' = [pStep EXCEPT ![t] = [at |-> "delete object", seen |-> 0]]
                        ELSE pStep' = pStep
  <2>1. pStep[t] = [at |-> "idle", seen |-> 0]
    BY DEF Pointers!Release, Pointers!Idle
  <2>2. IF pStrong = 1 THEN pStep' = [pStep EXCEPT ![t] = [at |-> "delete object", seen |-> 0]]
                       ELSE pStep' = pStep
    BY Zenon DEF Pointers!Release, Pointers!Last, Pointers!Moves, Pointers!At
  <2>3. pStep[t].at = "idle"
    BY <2>1
  <2> QED
    BY <2>2, <2>3, Zenon
<1>1. /\ pOwners[t] > 0 /\ pStrong' = pStrong - 1
      /\ pOwners' = [pOwners EXCEPT ![t] = pOwners[t] - 1]
      /\ pWeak' = pWeak /\ pObject' = pObject /\ pBlock' = pBlock /\ pWatchers' = pWatchers
      /\ pInner' = pInner
  BY DEF Pointers!Release, Pointers!Holds
<1>2. /\ pOwners' \in [Threads -> Nat] /\ IsFiniteSet(Handles(pOwners'))
      /\ Cardinality(Handles(pOwners)) \in Nat /\ Cardinality(Handles(pOwners')) \in Nat
      /\ Cardinality(Handles(pOwners)) = Cardinality(Handles(pOwners')) + 1
  <2>1. pOwners \in [Threads -> Nat] /\ IsFiniteSet(Handles(pOwners))
    BY DEF PointerTypes
  <2>2. OneLess(pOwners', pOwners)
    BY <1>1, <2>1, HandleLess, Zenon
  <2> QED
    BY <2>2 DEF OneLess
<1>3. /\ pStrong > 0 /\ Collective = 1 /\ Deleting = {} /\ Collecting = {}
      /\ pObject = "alive" /\ pStrong' \in Nat
  <2>1. pStrong > 0 /\ Collective = 1 /\ pStrong \in Nat
    BY <1>1, PointerNumbers
  <2>2. Deleting = {} /\ Collecting = {} /\ pObject = "alive"
    BY <2>1 DEF OneDeletes
  <2> QED
    BY <1>1, <2>1, <2>2
<1>4. pStrong' = Cardinality(Handles(pOwners'))
  BY <1>1, <1>2, <1>3 DEF StrongCounts
<1>5. OwnReference' = OwnReference
  BY <1>1 DEF OwnReference
<1>6. CASE pStrong = 1
  <2>1. pStep' = [pStep EXCEPT ![t] = [at |-> "delete object", seen |-> 0]]
    BY <1>0, <1>6
  <2>2. [at |-> "delete object", seen |-> 0] \in Places
    BY DEF Places
  <2>3. /\ pStep' \in [Threads -> Places]
        /\ Deleting' = {t} /\ Collecting' = {} /\ Freeing' = Freeing \ {t}
        /\ \A u \in Threads : pStep'[u].at = "lock" => pStep[u].at = "lock"
    <3>1. pStep \in [Threads -> Places]
      BY DEF PointerTypes
    <3>2. /\ pStep' \in [Threads -> Places]
          /\ Deleting' = Deleting \cup {t} /\ Collecting' = Collecting \ {t}
          /\ Freeing' = Freeing \ {t}
          /\ \A u \in Threads : pStep'[u].at = "lock" => pStep[u].at = "lock"
      <4>1. Went(t, [at |-> "delete object", seen |-> 0])
        BY <2>1, <2>2, <3>1, Goes, Zenon
      <4> QED
        BY <4>1 DEF Went
    <3> QED
      BY <1>3, <3>2
  <2>4. Freeing' = Freeing
    <3>1. t \notin Freeing
      BY <1>0 DEF Freeing
    <3> QED
      BY <2>3, <3>1
  <2>5. pStrong' = 0
    BY <1>1, <1>6
  <2>6. Collective' = Collective
    BY <1>3, <2>3 DEF Collective
  <2>7. PointerTypes'
    BY <1>1, <1>2, <1>3, <2>3 DEF PointerTypes, Handles
  <2>8. StrongCounts' /\ WeakCounts'
    BY <1>1, <1>4, <1>5, <2>6 DEF StrongCounts, WeakCounts, Handles
  <2>9. OneDeletes'
    BY <1>1, <1>3, <2>3, <2>5 DEF OneDeletes
  <2>10. OneFrees' /\ LockersWatch'
    BY <1>1, <2>3, <2>4 DEF OneFrees, LockersWatch
  <2> QED
    BY <2>7, <2>8, <2>9, <2>10
<1>7. CASE pStrong # 1
  <2>1. pStep' = pStep
    BY <1>0, <1>7
  <2>2. Deleting' = Deleting /\ Collecting' = Collecting /\ Freeing' = Freeing
    BY <2>1, Stays
  <2>3. pStrong' > 0
    BY <1>1, <1>3, <1>7, PointerNumbers
  <2>4. Collective' = Collective
    BY <1>3, <2>3 DEF Collective
  <2>5. PointerTypes'
    BY <1>1, <1>2, <1>3, <2>1 DEF PointerTypes, Handles
  <2>6. StrongCounts' /\ WeakCounts'
    BY <1>1, <1>4, <1>5, <2>4 DEF StrongCounts, WeakCounts, Handles
  <2>7. OneDeletes' /\ OneFrees' /\ LockersWatch'
    BY <1>1, <1>3, <2>1, <2>2, <2>3 DEF OneDeletes, OneFrees, LockersWatch
  <2> QED
    BY <2>5, <2>6, <2>7
<1> QED
  BY <1>6, <1>7

LEMMA DeleteKeeps ==
    ASSUME PointersInvariant, NEW t \in Threads, Pointers!DeleteObject(t) PROVE PointersInvariant'
<1> USE DEF PointersInvariant
<1>1. /\ pStep[t].at = "delete object" /\ pObject' = "dead"
      /\ pWeak' = IF pInner THEN pWeak - 1 ELSE pWeak
      /\ pBlock' = IF pInner /\ pWeak = 1 THEN pBlock + 1 ELSE pBlock
      /\ pInner' = FALSE
      /\ pStep' = [pStep EXCEPT ![t] = [at |-> "collective", seen |-> 0]]
      /\ UNCHANGED <<pStrong, pOwners, pWatchers>>
  BY DEF Pointers!DeleteObject, Pointers!Last, Pointers!Moves, Pointers!At, Pointers!handles
<1>2. t \in Deleting /\ pStrong = 0 /\ Deleting = {t} /\ Collecting \subseteq {t}
  <2>1. t \in Deleting
    BY <1>1 DEF Deleting
  <2> QED
    BY <2>1, PointerNumbers DEF OneDeletes
<1>3. Collective = 1 /\ OwnReference = IF pInner THEN 1 ELSE 0
  BY <1>2, PointerNumbers DEF OwnReference
<1>4. /\ pWeak = Cardinality(Handles(pWatchers)) + OwnReference + 1
      /\ Cardinality(Handles(pWatchers)) \in Nat
  BY <1>3, PointerNumbers DEF WeakCounts
<1>5. /\ pWeak > 0 /\ pBlock' = pBlock /\ pWeak' = Cardinality(Handles(pWatchers)) + 1
      /\ pWeak' \in Nat /\ pWeak' > 0
  <2>1. CASE pInner
    <3>0. OwnReference = 1
      BY <1>3, <2>1
    <3>1. pWeak = Cardinality(Handles(pWatchers)) + 2
      BY <1>4, <3>0
    <3>2. pWeak # 1 /\ pWeak > 0
      BY <1>4, <3>1
    <3>3. pWeak' = pWeak - 1 /\ pBlock' = pBlock
      BY <1>1, <2>1, <3>2
    <3> QED
      BY <1>4, <3>1, <3>2, <3>3
  <2>2. CASE ~pInner
    <3>0. OwnReference = 0
      BY <1>3, <2>2
    <3>1. pWeak = Cardinality(Handles(pWatchers)) + 1
      BY <1>4, <3>0
    <3>2. pWeak' = pWeak /\ pBlock' = pBlock
      BY <1>1, <2>2
    <3> QED
      BY <1>4, <3>1, <3>2
  <2> QED
    BY <2>1, <2>2
<1>6. /\ pStep' \in [Threads -> Places]
      /\ Deleting' = {} /\ Collecting' = {t} /\ Freeing' = Freeing \ {t}
      /\ \A u \in Threads : pStep'[u].at = "lock" => pStep[u].at = "lock"
  <2>1. pStep \in [Threads -> Places] /\ [at |-> "collective", seen |-> 0] \in Places
    BY DEF PointerTypes, Places
  <2>2. /\ pStep' \in [Threads -> Places]
        /\ Deleting' = Deleting \ {t} /\ Collecting' = Collecting \cup {t}
        /\ Freeing' = Freeing \ {t}
        /\ \A u \in Threads : pStep'[u].at = "lock" => pStep[u].at = "lock"
    <3>1. Went(t, [at |-> "collective", seen |-> 0])
      BY <1>1, <2>1, Goes, Zenon
    <3> QED
      BY <3>1 DEF Went
  <2> QED
    BY <1>2, <2>2
<1>7. pBlock = 0 /\ Freeing = {} /\ Freeing' = {}
  BY <1>5, <1>6 DEF OneFrees, PointerTypes
<1>8. OwnReference' = 0 /\ Collective' = 1
  BY <1>1, <1>6 DEF OwnReference, Collective
<1>9. PointerTypes'
  BY <1>1, <1>5, <1>6 DEF PointerTypes, Handles
<1>10. StrongCounts' /\ WeakCounts'
  <2>1. pWeak' = Cardinality(Handles(pWatchers)) + 0 + 1
    BY <1>4, <1>5
  <2> QED
    BY <1>1, <1>8, <2>1 DEF StrongCounts, WeakCounts, Handles
<1>11. OneDeletes'
  BY <1>1, <1>2, <1>6 DEF OneDeletes
<1>12. OneFrees'
  BY <1>5, <1>7 DEF OneFrees
<1>13. LockersWatch'
  BY <1>1, <1>6 DEF LockersWatch
<1> QED
  BY <1>9, <1>10, <1>11, <1>12, <1>13

LEMMA CollectiveKeeps ==
    ASSUME PointersInvariant, NEW t \in Threads, Pointers!DropCollective(t)
    PROVE  PointersInvariant'
<1> USE DEF PointersInvariant
<1> DEFINE p == [at |-> IF pWeak = 1 THEN "delete block" ELSE "idle", seen |-> 0]
<1>0. pStep' = [pStep EXCEPT ![t] = p]
  BY DEF Pointers!DropCollective, Pointers!Last, Pointers!At, Pointers!Idle
<1>1. /\ pStep[t].at = "collective" /\ pWeak' = pWeak - 1
      /\ pStrong' = pStrong /\ pObject' = pObject /\ pBlock' = pBlock /\ pOwners' = pOwners
      /\ pWatchers' = pWatchers /\ pInner' = pInner
  BY DEF Pointers!DropCollective, Pointers!handles
<1>2. t \in Collecting /\ pStrong = 0 /\ Deleting = {} /\ Collecting = {t} /\ Collective = 1
  <2>1. t \in Collecting
    BY <1>1 DEF Collecting
  <2>2. t \notin Deleting
    BY <1>1 DEF Deleting
  <2>3. pStrong = 0 /\ Deleting = {} /\ Collecting = {t}
    BY <2>1, <2>2, PointerNumbers DEF OneDeletes
  <2> QED
    BY <2>1, <2>3, PointerNumbers
<1>3. pObject = "dead" /\ ~pInner /\ OwnReference = 0
  BY <1>2 DEF OneDeletes, PointerTypes, OwnReference
<1>4. /\ pWeak = Cardinality(Handles(pWatchers)) + 1 /\ pWeak \in Nat /\ pWeak > 0
      /\ pWeak' = Cardinality(Handles(pWatchers)) /\ pWeak' \in Nat
      /\ pWeak = 1 <=> pWeak' = 0
  <2>1. pWeak = Cardinality(Handles(pWatchers)) + 0 + 1 /\ Cardinality(Handles(pWatchers)) \in Nat
    BY <1>2, <1>3, PointerNumbers DEF WeakCounts
  <2>2. pWeak' = pWeak - 1
    BY <1>1
  <2> QED
    BY <2>1, <2>2
<1>5. p \in Places /\ p.at = (IF pWeak = 1 THEN "delete block" ELSE "idle")
  BY DEF Places
<1>6. /\ pStep' \in [Threads -> Places]
      /\ Deleting' = {} /\ Collecting' = {}
      /\ Freeing' = IF pWeak = 1 THEN Freeing \cup {t} ELSE Freeing \ {t}
      /\ \A u \in Threads : pStep'[u].at = "lock" => pStep[u].at = "lock"
  <2>1. pStep \in [Threads -> Places]
    BY DEF PointerTypes
  <2>2. /\ pStep' \in [Threads -> Places]
        /\ Deleting' = Deleting \ {t} /\ Collecting' = Collecting \ {t}
        /\ Freeing' = IF p.at = "delete block" THEN Freeing \cup {t} ELSE Freeing \ {t}
        /\ \A u \in Threads : pStep'[u].at = "lock" => pStep[u].at = "lock"
    <3> HIDE DEF p
    <3>1. /\ pStep' \in [Threads -> Places]
          /\ Freeing' = IF p.at = "delete block" THEN Freeing \cup {t} ELSE Freeing \ {t}
          /\ Deleting' = IF p.at = "delete object" THEN Deleting \cup {t} ELSE Deleting \ {t}
          /\ Collecting' = IF p.at = "collective" THEN Collecting \cup {t} ELSE Collecting \ {t}
          /\ \A u \in Threads : pStep'[u].at = "lock" =>
                 (u = t /\ p.at = "lock") \/ (u # t /\ pStep[u].at = "lock")
      <4>1. Went(t, p)
        BY <1>0, <1>5, <2>1, Goes, Zenon
      <4> QED
        BY <4>1 DEF Went
    <3>2. p.at # "delete object" /\ p.at # "collective" /\ p.at # "lock"
      BY <1>5
    <3> QED
      BY <3>1, <3>2
  <2>3. p.at = "delete block" <=> pWeak = 1
    BY <1>5
  <2> HIDE DEF p
  <2> QED
    BY <1>2, <2>2, <2>3
<1>7. pBlock = 0 /\ Freeing = {} /\ Freeing' = IF pWeak = 1 THEN {t} ELSE {}
  <2>1. pWeak # 0
    BY <1>4
  <2>2. pBlock = 0 /\ Freeing = {}
    BY <2>1 DEF OneFrees, PointerTypes
  <2> QED
    BY <1>6, <2>2
<1>8. OwnReference' = 0 /\ Collective' = 0
  BY <1>1, <1>2, <1>3, <1>6 DEF OwnReference, Collective
<1>9. PointerTypes'
  BY <1>1, <1>4, <1>6 DEF PointerTypes, Handles
<1>10. StrongCounts' /\ WeakCounts'
  <2>1. pWeak' = Cardinality(Handles(pWatchers)) + 0 + 0
    BY <1>4
  <2> QED
    BY <1>1, <1>8, <2>1 DEF StrongCounts, WeakCounts, Handles
<1>11. OneDeletes'
  BY <1>1, <1>2, <1>3, <1>6 DEF OneDeletes
<1>12. OneFrees'
  <2>1. pBlock' = 0 /\ Freeing' = (IF pWeak = 1 THEN {t} ELSE {}) /\ (pWeak = 1 <=> pWeak' = 0)
    BY <1>1, <1>4, <1>7
  <2> QED
    BY <2>1 DEF OneFrees
<1>13. LockersWatch'
  BY <1>1, <1>6 DEF LockersWatch
<1> QED
  BY <1>9, <1>10, <1>11, <1>12, <1>13

LEMMA ForgetKeeps ==
    ASSUME PointersInvariant, NEW t \in Threads, Pointers!Forget(t) PROVE PointersInvariant'
<1> USE DEF PointersInvariant
<1>a. pStep[t] = [at |-> "idle", seen |-> 0]
  BY DEF Pointers!Forget, Pointers!Idle
<1>b. pStep[t].at = "idle"
  BY <1>a
<1>0. IF pWeak = 1 THEN pStep' = [pStep EXCEPT ![t] = [at |-> "delete block", seen |-> 0]]
                   ELSE pStep' = pStep
  BY Zenon DEF Pointers!Forget, Pointers!Last, Pointers!Moves, Pointers!At
<1> DEFINE p == [at |-> IF pWeak = 1 THEN "delete block" ELSE "idle", seen |-> 0]
<1>1. /\ pWatchers[t] > 0 /\ pWeak' = pWeak - 1
      /\ pWatchers' = [pWatchers EXCEPT ![t] = pWatchers[t] - 1]
      /\ pStrong' = pStrong /\ pObject' = pObject /\ pBlock' = pBlock /\ pOwners' = pOwners
      /\ pInner' = pInner
  BY DEF Pointers!Forget, Pointers!Holds
<1>2. /\ pWatchers' \in [Threads -> Nat] /\ IsFiniteSet(Handles(pWatchers'))
      /\ Cardinality(Handles(pWatchers)) \in Nat /\ Cardinality(Handles(pWatchers')) \in Nat
      /\ Cardinality(Handles(pWatchers)) = Cardinality(Handles(pWatchers')) + 1
  <2>1. pWatchers \in [Threads -> Nat] /\ IsFiniteSet(Handles(pWatchers))
    BY DEF PointerTypes
  <2>2. OneLess(pWatchers', pWatchers)
    BY <1>1, <2>1, HandleLess, Zenon
  <2> QED
    BY <2>2 DEF OneLess
<1>3. p \in Places /\ p.at = (IF pWeak = 1 THEN "delete block" ELSE "idle")
  BY DEF Places
<1>4. pStep \in [Threads -> Places] /\ pStep' = [pStep EXCEPT ![t] = p]
  <2>1. pStep \in [Threads -> Places]
    BY DEF PointerTypes
  <2>2. CASE pWeak = 1
    <3>1. pStep' = [pStep EXCEPT ![t] = [at |-> "delete block", seen |-> 0]]
      BY <1>0, <2>2, Zenon
    <3>2. p = [at |-> "delete block", seen |-> 0]
      BY <2>2
    <3> HIDE DEF p
    <3> QED
      BY <2>1, <3>1, <3>2, Zenon
  <2>3. CASE pWeak # 1
    <3>1. p = pStep[t] /\ pStep' = pStep
      <4>1. p = [at |-> "idle", seen |-> 0]
        BY <2>3
      <4>2. pStep' = pStep
        BY <1>0, <2>3, Zenon
      <4> HIDE DEF p
      <4> QED
        BY <1>a, <4>1, <4>2
    <3> HIDE DEF p
    <3> QED
      BY <2>1, <3>1
  <2> QED
    BY <2>1, <2>2, <2>3
<1>5. /\ pStep' \in [Threads -> Places]
      /\ Deleting' = Deleting /\ Collecting' = Collecting
      /\ Freeing' = IF pWeak = 1 THEN Freeing \cup {t} ELSE Freeing
      /\ \A u \in Threads : pStep'[u].at = "lock" => u # t /\ pStep[u].at = "lock"
  <2>1. t \notin Deleting /\ t \notin Collecting /\ t \notin Freeing
    BY <1>b DEF Deleting, Collecting, Freeing
  <2>2. p.at # "delete object" /\ p.at # "collective" /\ p.at # "lock"
    BY <1>3
  <2> HIDE DEF p
  <2>3. /\ pStep' \in [Threads -> Places]
        /\ Freeing' = IF p.at = "delete block" THEN Freeing \cup {t} ELSE Freeing \ {t}
        /\ Deleting' = IF p.at = "delete object" THEN Deleting \cup {t} ELSE Deleting \ {t}
        /\ Collecting' = IF p.at = "collective" THEN Collecting \cup {t} ELSE Collecting \ {t}
        /\ \A u \in Threads : pStep'[u].at = "lock" =>
               (u = t /\ p.at = "lock") \/ (u # t /\ pStep[u].at = "lock")
    <3>1. Went(t, p)
      BY <1>3, <1>4, Goes, Zenon
    <3> QED
      BY <3>1 DEF Went
  <2>4. p.at = "delete block" <=> pWeak = 1
    BY <1>3
  <2> QED
    BY <2>1, <2>2, <2>3, <2>4
<1>6. OwnReference' = OwnReference /\ Collective' = Collective
  BY <1>1, <1>5 DEF OwnReference, Collective
<1>7. /\ pWeak' = Cardinality(Handles(pWatchers')) + OwnReference + Collective
      /\ pWeak \in Nat /\ pWeak > 0 /\ pWeak' \in Nat /\ (pWeak = 1 <=> pWeak' = 0)
  <2>1. /\ pWeak = Cardinality(Handles(pWatchers)) + OwnReference + Collective
        /\ OwnReference \in Nat /\ Collective \in Nat
    BY PointerNumbers DEF WeakCounts
  <2> QED
    BY <1>1, <1>2, <2>1
<1>8. pBlock = 0 /\ Freeing = {}
  BY <1>7 DEF OneFrees, PointerTypes
<1>9. PointerTypes'
  BY <1>1, <1>2, <1>5, <1>7 DEF PointerTypes, Handles
<1>10. StrongCounts' /\ WeakCounts'
  BY <1>1, <1>6, <1>7 DEF StrongCounts, WeakCounts, Handles
<1>11. OneDeletes'
  BY <1>1, <1>5 DEF OneDeletes
<1>12. OneFrees'
  <2>1. pBlock' = 0 /\ Freeing' = IF pWeak = 1 THEN {t} ELSE {}
    BY <1>1, <1>5, <1>8
  <2> QED
    BY <1>7, <2>1 DEF OneFrees
<1>13. LockersWatch'
  <2>1. \A u \in Threads : u # t => pWatchers'[u] = pWatchers[u]
    BY <1>1 DEF PointerTypes
  <2> QED
    BY <1>5, <2>1 DEF LockersWatch
<1> QED
  BY <1>9, <1>10, <1>11, <1>12, <1>13

LEMMA FreeKeeps ==
    ASSUME PointersInvariant, NEW t \in Threads, Pointers!DeleteBlock(t) PROVE PointersInvariant'
<1> USE DEF PointersInvariant
<1>1. /\ pStep[t].at = "delete block" /\ pBlock' = pBlock + 1
      /\ pStep' = [pStep EXCEPT ![t] = [at |-> "idle", seen |-> 0]]
      /\ pStrong' = pStrong /\ pWeak' = pWeak /\ pObject' = pObject /\ pOwners' = pOwners
      /\ pWatchers' = pWatchers /\ pInner' = pInner
  BY DEF Pointers!DeleteBlock, Pointers!Idle, Pointers!counts, Pointers!handles
<1>2. t \notin Deleting /\ t \notin Collecting /\ t \in Freeing
  BY <1>1 DEF Deleting, Collecting, Freeing
<1>3. /\ pStep' \in [Threads -> Places]
      /\ Deleting' = Deleting /\ Collecting' = Collecting /\ Freeing' = {}
      /\ \A u \in Threads : pStep'[u].at = "lock" => pStep[u].at = "lock"
  <2>1. pStep \in [Threads -> Places] /\ [at |-> "idle", seen |-> 0] \in Places
    BY DEF PointerTypes, Places
  <2>2. /\ pStep' \in [Threads -> Places]
        /\ Deleting' = Deleting \ {t} /\ Collecting' = Collecting \ {t} /\ Freeing' = Freeing \ {t}
        /\ \A u \in Threads : pStep'[u].at = "lock" => pStep[u].at = "lock"
    <3>1. Went(t, [at |-> "idle", seen |-> 0])
      BY <1>1, <2>1, Goes, Zenon
    <3> QED
      BY <3>1 DEF Went
  <2>3. Freeing \subseteq {t}
    BY <1>2 DEF OneFrees
  <2> QED
    BY <1>2, <2>2, <2>3
<1>4. pWeak = 0 /\ pBlock = 0 /\ pBlock' = 1
  <2>1. pWeak = 0 /\ pBlock = 0
    BY <1>2 DEF OneFrees, PointerTypes
  <2>2. pBlock' = pBlock + 1
    BY <1>1
  <2> QED
    BY <2>1, <2>2
<1>5. OwnReference' = OwnReference /\ Collective' = Collective
  BY <1>1, <1>3 DEF OwnReference, Collective
<1>6. PointerTypes'
  BY <1>1, <1>3, <1>4 DEF PointerTypes, Handles
<1>7. StrongCounts' /\ WeakCounts'
  BY <1>1, <1>5 DEF StrongCounts, WeakCounts, Handles
<1>8. OneDeletes' /\ LockersWatch'
  BY <1>1, <1>3 DEF OneDeletes, LockersWatch
<1>9. OneFrees'
  BY <1>1, <1>3, <1>4 DEF OneFrees
<1> QED
  BY <1>6, <1>7, <1>8, <1>9

LEMMA LockKeeps ==
    ASSUME PointersInvariant, NEW t \in Threads, NEW seen \in Nat \ {0}, pWatchers[t] > 0,
           pStep[t].at \in {"idle", "lock"},
           pStep' \in {[pStep EXCEPT ![t] = [at |-> "lock", seen |-> seen]],
                       [pStep EXCEPT ![t] = [at |-> "idle", seen |-> 0]]},
           pStrong' = pStrong, pWeak' = pWeak, pObject' = pObject, pBlock' = pBlock,
           pOwners' = pOwners, pWatchers' = pWatchers, pInner' = pInner
    PROVE  PointersInvariant'
<1> USE DEF PointersInvariant
<1>1. PICK p \in Places : pStep' = [pStep EXCEPT ![t] = p] /\ p.at \in {"idle", "lock"}
  BY DEF Places
<1>2. t \notin Deleting /\ t \notin Collecting /\ t \notin Freeing
  BY DEF Deleting, Collecting, Freeing
<1>3. /\ pStep' \in [Threads -> Places]
      /\ Deleting' = Deleting /\ Collecting' = Collecting /\ Freeing' = Freeing
      /\ \A u \in Threads : pStep'[u].at = "lock" => u = t \/ pStep[u].at = "lock"
  <2>1. pStep \in [Threads -> Places]
    BY DEF PointerTypes
  <2>2. /\ pStep' \in [Threads -> Places]
        /\ Deleting' = Deleting \ {t} /\ Collecting' = Collecting \ {t} /\ Freeing' = Freeing \ {t}
        /\ \A u \in Threads : pStep'[u].at = "lock" => u = t \/ pStep[u].at = "lock"
    <3>1. Went(t, p)
      BY <1>1, <2>1, Goes, Zenon
    <3>2. p.at \notin {"delete object", "collective", "delete block"}
      BY <1>1
    <3>3. \A u \in Threads : pStep'[u].at = "lock" => u = t \/ pStep[u].at = "lock"
      BY ONLY <3>1, Zenon DEF Went
    <3> QED
      BY ONLY <3>1, <3>2, <3>3 DEF Went
  <2> QED
    BY <1>2, <2>2
<1>4. OwnReference' = OwnReference /\ Collective' = Collective
  BY <1>3 DEF OwnReference, Collective
<1>5. PointerTypes'
  BY <1>3 DEF PointerTypes, Handles
<1>6. StrongCounts' /\ WeakCounts'
  BY <1>4 DEF StrongCounts, WeakCounts, Handles
<1>7. OneDeletes' /\ OneFrees' /\ LockersWatch'
  BY <1>3 DEF OneDeletes, OneFrees, LockersWatch
<1> QED
  BY <1>5, <1>6, <1>7

LEMMA RaiseKeeps ==
    ASSUME PointersInvariant, NEW t \in Threads, Pointers!Raise(t) PROVE PointersInvariant'
<1> USE DEF PointersInvariant
<1>1. /\ pStep[t].at = "lock"
      /\ pWeak' = pWeak /\ pObject' = pObject /\ pBlock' = pBlock
      /\ pWatchers' = pWatchers /\ pInner' = pInner
  BY DEF Pointers!Raise
<1>2. pStep[t].seen \in Nat \ {0} /\ pWatchers[t] > 0 /\ pStrong \in Nat
  BY <1>1 DEF PointerTypes, Places, LockersWatch
<1>3. CASE /\ pStrong = pStep[t].seen /\ pStrong' = pStrong + 1
           /\ pOwners' = [pOwners EXCEPT ![t] = pOwners[t] + 1]
           /\ pStep' = [pStep EXCEPT ![t] = [at |-> "idle", seen |-> 0]]
  <2>1. /\ pOwners' \in [Threads -> Nat] /\ IsFiniteSet(Handles(pOwners'))
        /\ Cardinality(Handles(pOwners')) = Cardinality(Handles(pOwners)) + 1
    BY <1>3, HandleMore DEF PointerTypes
  <2>2. pStrong > 0 /\ pStrong' > 0 /\ pStrong' \in Nat
    BY <1>2, <1>3
  <2>3. t \notin Deleting /\ t \notin Collecting /\ t \notin Freeing
    BY <1>1 DEF Deleting, Collecting, Freeing
  <2>4. /\ pStep' \in [Threads -> Places]
        /\ Deleting' = Deleting /\ Collecting' = Collecting /\ Freeing' = Freeing
        /\ \A u \in Threads : pStep'[u].at = "lock" => pStep[u].at = "lock"
    <3>1. pStep \in [Threads -> Places] /\ [at |-> "idle", seen |-> 0] \in Places
      BY DEF PointerTypes, Places
    <3>2. /\ pStep' \in [Threads -> Places]
          /\ Deleting' = Deleting \ {t} /\ Collecting' = Collecting \ {t}
          /\ Freeing' = Freeing \ {t}
          /\ \A u \in Threads : pStep'[u].at = "lock" => pStep[u].at = "lock"
      <4>1. Went(t, [at |-> "idle", seen |-> 0])
        BY <1>3, <3>1, Goes, Zenon
      <4> QED
        BY <4>1 DEF Went
    <3> QED
      BY <2>3, <3>2
  <2>5. OwnReference' = OwnReference /\ Collective' = Collective
    BY <1>1, <2>2 DEF OwnReference, Collective
  <2>6. PointerTypes'
    BY <1>1, <2>1, <2>2, <2>4 DEF PointerTypes, Handles
  <2>7. StrongCounts' /\ WeakCounts'
    BY <1>1, <1>3, <2>1, <2>5 DEF StrongCounts, WeakCounts, Handles
  <2>8. OneDeletes' /\ OneFrees' /\ LockersWatch'
    BY <1>1, <2>2, <2>4 DEF OneDeletes, OneFrees, LockersWatch
  <2> QED
    BY <2>6, <2>7, <2>8
<1>4. CASE /\ pStrong' = pStrong /\ pOwners' = pOwners
           /\ pStep' = [pStep EXCEPT ![t] = IF pStrong = 0 THEN [at |-> "idle", seen |-> 0]
                                            ELSE [at |-> "lock", seen |-> pStrong]]
  <2>1. CASE pStrong = 0
    BY <1>1, <1>2, <1>4, <2>1, LockKeeps
  <2>2. CASE pStrong # 0
    BY <1>1, <1>2, <1>4, <2>2, LockKeeps
  <2> QED
    BY <2>1, <2>2
<1> QED
  BY <1>3, <1>4 DEF Pointers!Raise, Pointers!Holds, Pointers!At, Pointers!Idle

LEMMA PointersStep == ASSUME PointersInvariant, Pointers!PointerNext PROVE PointersInvariant'
<1>1. ASSUME NEW t \in Threads, Pointers!Lock(t) PROVE PointersInvariant'
  <2>1. /\ pStep[t].at = "idle" /\ pWatchers[t] > 0 /\ pStrong # 0
        /\ pStep' = [pStep EXCEPT ![t] = [at |-> "lock", seen |-> pStrong]]
        /\ pStrong' = pStrong /\ pWeak' = pWeak /\ pObject' = pObject /\ pBlock' = pBlock
        /\ pOwners' = pOwners /\ pWatchers' = pWatchers /\ pInner' = pInner
    BY <1>1 DEF Pointers!Lock, Pointers!Idle, Pointers!Moves, Pointers!At, Pointers!counts,
                Pointers!handles
  <2>2. pStrong \in Nat \ {0}
    BY <2>1 DEF PointersInvariant, PointerTypes
  <2> QED
    BY <2>1, <2>2, LockKeeps
<1>2. PICK t \in Threads :
         \/ Pointers!Copy(t) \/ Pointers!Observe(t) \/ Pointers!Release(t)
         \/ Pointers!DeleteObject(t) \/ Pointers!DropCollective(t) \/ Pointers!Forget(t)
         \/ Pointers!DeleteBlock(t) \/ Pointers!Lock(t) \/ Pointers!Raise(t)
         \/ \E u \in Threads : Pointers!Move(t, u)
  BY DEF Pointers!PointerNext
<1> QED
  BY <1>1, <1>2, CopyKeeps, ObserveKeeps, ReleaseKeeps, DeleteKeeps, CollectiveKeeps, ForgetKeeps,
     FreeKeeps, RaiseKeeps, MoveKeeps

LEMMA PointersStutter ==
    ASSUME PointersInvariant, UNCHANGED <<s1, s2, s3, s4, s5, s6, s7, s8>>
    PROVE  PointersInvariant'
<1>1. Deleting' = Deleting /\ Collecting' = Collecting /\ Freeing' = Freeing
  BY Stays
<1> QED
  BY <1>1 DEF PointersInvariant, PointerTypes, StrongCounts, WeakCounts, OneDeletes, OneFrees,
              LockersWatch, OwnReference, Collective, Handles

(***************************************************************************)
(* Leases: the invariant and its proof are those of Discovery_proofs       *)
(***************************************************************************)
Renewals == INSTANCE Discovery_proofs WITH
               Prompt <- TRUE, LateJoin <- TRUE,
               up <- s1, offering <- s2, sentAge <- s3, since <- s4, known <- s5, lease <- s6,
               interest <- s7, findAge <- s8, posted <- s9, told <- s10, net <- s11,
               missed <- s12, polled <- s13

LeasesInvariant ==
    /\ Renewals!TypeInvariant /\ Renewals!Outlived /\ Renewals!OffersAreFresh
    /\ Renewals!LeasesAreRenewed

LEMMA Times == Renewals!TimesAssumption /\ Renewals!KindsAssumption
  BY LeasesAssumption, Zenon
     DEF Leases!TimesAssumption, Leases!KindsAssumption, Renewals!TimesAssumption,
         Renewals!KindsAssumption

LEMMA LeasesBegin == Leases!Init => LeasesInvariant
<1>1. Leases!Init => Renewals!Init
  BY DEF Leases!Init, Renewals!Init
<1> QED
  BY <1>1, Times, Renewals!InitTypes, Renewals!LeasesBegin, Renewals!RenewalBegins
     DEF LeasesInvariant

LEMMA LeasesStep == ASSUME LeasesInvariant, Leases!Next PROVE LeasesInvariant'
<1>1. Renewals!Next
  BY Zenon
     DEF Leases!servers, Renewals!servers, Leases!clients, Renewals!clients,
         Leases!LeastOf, Renewals!LeastOf, Leases!Multicast, Renewals!Multicast,
         Leases!OfferBy, Renewals!OfferBy, Leases!StopBy, Renewals!StopBy,
         Leases!Finding, Renewals!Finding, Leases!Remaining, Renewals!Remaining,
         Leases!Lose, Renewals!Lose, Leases!CanFail, Renewals!CanFail,
         Leases!Polled, Renewals!Polled, Leases!Since, Renewals!Since,
         Leases!Offer, Renewals!Offer, Leases!StopOffer, Renewals!StopOffer,
         Leases!SendOffer, Renewals!SendOffer, Leases!ServerPoll, Renewals!ServerPoll,
         Leases!AnswerFind, Renewals!AnswerFind, Leases!Crash, Renewals!Crash,
         Leases!Restart, Renewals!Restart, Leases!Registered, Renewals!Registered,
         Leases!Tells, Renewals!Tells, Leases!Find, Renewals!Find,
         Leases!CancelFind, Renewals!CancelFind, Leases!ObserveOffer, Renewals!ObserveOffer,
         Leases!ObserveStop, Renewals!ObserveStop, Leases!ReadSd, Renewals!ReadSd,
         Leases!Expired, Renewals!Expired, Leases!ExpireLeases, Renewals!ExpireLeases,
         Leases!RepeatFinds, Renewals!RepeatFinds, Leases!RunPosted, Renewals!RunPosted,
         Leases!ClientPoll, Renewals!ClientPoll, Leases!Tick, Renewals!Tick,
         Leases!ServerStep, Renewals!ServerStep, Leases!ClientStep, Renewals!ClientStep,
         Leases!Next, Renewals!Next
<1>2. [Renewals!Next]_Renewals!vars
  BY <1>1
<1> QED
  BY <1>2, Times, Renewals!TypesKept, Renewals!LeasesKept, Renewals!RenewalKept, Zenon
     DEF LeasesInvariant

LEMMA LeasesStutter ==
    ASSUME LeasesInvariant, UNCHANGED <<s1, s2, s3, s4, s5, s6, s7, s8, s9, s10, s11, s12, s13>>
    PROVE  LeasesInvariant'
<1>1. [Renewals!Next]_Renewals!vars
  BY DEF Renewals!vars, Renewals!servers, Renewals!clients
<1> QED
  BY <1>1, Times, Renewals!TypesKept, Renewals!LeasesKept, Renewals!RenewalKept, Zenon
     DEF LeasesInvariant

LEMMA LeasesHold ==
    ASSUME LeasesInvariant
    PROVE  /\ Leases!DeadWithinLease
           /\ OfferTtl > (MaxLosses + 1) * OfferInterval => Leases!LeaseHolds
<1>1. Renewals!DeadWithinLease
  BY Times, Renewals!TheDeadAreGone, Zenon DEF LeasesInvariant
<1>2. OfferTtl > (MaxLosses + 1) * OfferInterval => Renewals!LeaseHolds
  BY Times, Renewals!NoLiveServerExpires, Zenon DEF LeasesInvariant
<1> QED
  BY <1>1, <1>2, Zenon
     DEF Leases!DeadWithinLease, Renewals!DeadWithinLease, Leases!LeaseHolds,
         Renewals!LeaseHolds, Leases!Expired, Renewals!Expired

(***************************************************************************)
(* MemoryOrder                                                             *)
(***************************************************************************)
mExperiment == s1
mMemory == s2
mBuffer == s3
mThread == s4
mPopped == s5
mDestroyed == s6
USE DEF mExperiment, mMemory, mBuffer, mThread, mPopped, mDestroyed

Stored(to, value) == [to |-> to, value |-> value]
Stores == [to : Memory!Locations, value : Int]

MemoryTypes ==
    /\ mExperiment \in [name : {"litmus"}, seqCst : BOOLEAN, round : Int, zeroZero : Int]
                       \cup [name : {"message"}, parks : BOOLEAN] \cup [name : {"ring"}]
    /\ mMemory \in [Memory!Locations -> Int]
    /\ mBuffer \in [Memory!Both -> Seq(Stores)]
    /\ mThread = [t \in Memory!Both |-> mThread[t]]
    /\ \A t \in Memory!Both : mThread[t] = [at |-> mThread[t].at, register |-> mThread[t].register]

\* Every name and every slot has a location, no two the same.
LEMMA LocationsDiffer ==
    /\ \A i \in Int : Memory!Slot(i) \in Memory!Locations
    /\ \A n \in {"x", "y", "data", "ready", "head", "tail"} : Memory!Var(n) \in Memory!Locations
    /\ \A m, n \in {"x", "y", "data", "ready", "head", "tail"} :
          Memory!Var(m) = Memory!Var(n) => m = n
    /\ \A i \in Int, n \in {"x", "y", "data", "ready", "head", "tail"} :
          Memory!Slot(i) # Memory!Var(n)
    /\ \A t \in Memory!Both : Memory!Flag(t) \in Memory!Locations
    /\ Memory!Flag("t0") # Memory!Flag("t1")
<1>1. \A i \in Int : i % RingSlots \in 0 .. RingSlots - 1
  BY MemoryAssumption
<1>2. \A i \in Int : Memory!Slot(i) \in Memory!Locations
  BY <1>1 DEF Memory!Slot, Memory!Locations
<1>3. \A n \in {"x", "y", "data", "ready", "head", "tail"} : Memory!Var(n) \in Memory!Locations
  BY DEF Memory!Var, Memory!Locations
<1>4. \A n : Memory!Var(n).name = n
  BY DEF Memory!Var
<1>5. \A i \in Int : Memory!Slot(i).name = "slot"
  BY DEF Memory!Slot
<1>6. \A t \in Memory!Both : Memory!Flag(t) \in Memory!Locations
  BY <1>3 DEF Memory!Flag
<1>7. Memory!Flag("t0") = Memory!Var("x") /\ Memory!Flag("t1") = Memory!Var("y")
  BY DEF Memory!Flag
<1>8. \A m, n \in {"x", "y", "data", "ready", "head", "tail"} :
          Memory!Var(m) = Memory!Var(n) => m = n
  BY <1>4
<1>9. \A i \in Int, n \in {"x", "y", "data", "ready", "head", "tail"} :
          Memory!Slot(i) # Memory!Var(n)
  BY <1>4, <1>5
<1>10. Memory!Var("x") # Memory!Var("y")
  BY <1>8
<1> QED
  BY <1>2, <1>3, <1>6, <1>7, <1>8, <1>9, <1>10

\* Two elements that are in the ring together have slots of their own.
LEMMA SlotsDiffer ==
    ASSUME NEW i \in Nat, NEW j \in Nat, i < j, j < i + RingSlots
    PROVE  Memory!Slot(i) # Memory!Slot(j)
<1>1. i % RingSlots # j % RingSlots
  <2> SUFFICES ASSUME i % RingSlots = j % RingSlots PROVE FALSE
    OBVIOUS
  <2> DEFINE p == i \div RingSlots
             q == j \div RingSlots
             m == i % RingSlots
  <2>1. /\ i = RingSlots * p + m /\ j = RingSlots * q + m
        /\ p \in Int /\ q \in Int /\ m \in Int /\ RingSlots \in Nat /\ RingSlots > 0
    BY MemoryAssumption
  <2>2. j - i = RingSlots * (q - p)
    <3> HIDE DEF p, q, m
    <3> QED
      BY <2>1
  <2> HIDE DEF p, q, m
  <2>3. CASE q - p <= 0
    BY <2>1, <2>2, <2>3
  <2>4. CASE q - p >= 1
    BY <2>1, <2>2, <2>4
  <2> QED
    BY <2>1, <2>3, <2>4
<1>2. Memory!Slot(i).nr = i % RingSlots /\ Memory!Slot(j).nr = j % RingSlots
  BY DEF Memory!Slot
<1> QED
  BY <1>1, <1>2

\* What a load sees: the memory, when no store of its own to that location waits,
\* or the last store, when it is to that location.
LEMMA LoadsMemory ==
    ASSUME NEW t, NEW l, \A i \in DOMAIN mBuffer[t] : mBuffer[t][i].to # l
    PROVE  Memory!Load(t, l) = mMemory[l]
BY DEF Memory!Load

LEMMA LoadsLast ==
    ASSUME MemoryTypes, NEW t \in Memory!Both, NEW l, Len(mBuffer[t]) > 0,
           mBuffer[t][Len(mBuffer[t])].to = l
    PROVE  Memory!Load(t, l) = mBuffer[t][Len(mBuffer[t])].value
<1> DEFINE b == mBuffer[t]
           own == {i \in DOMAIN b : b[i].to = l}
           last == CHOOSE i \in own : \A j \in own : j <= i
<1>1. b \in Seq(Stores) /\ DOMAIN b = 1 .. Len(b) /\ Len(b) \in Nat
  BY DEF MemoryTypes
<1>2. Len(b) \in own /\ \A j \in own : j <= Len(b) /\ j \in Int
  BY <1>1
<1>3. last \in own /\ \A j \in own : j <= last
  BY <1>2
<1>4. last = Len(b)
  BY <1>1, <1>2, <1>3
<1>5. Memory!Load(t, l) = b[last].value
  <2>1. own # {}
    BY <1>2
  <2> QED
    BY <2>1 DEF Memory!Load
<1> QED
  BY <1>4, <1>5

\* A store waits at the end of its thread's buffer.
LEMMA StoreWaits ==
    ASSUME MemoryTypes, NEW t \in Memory!Both, NEW l \in Memory!Locations, NEW v \in Int,
           Memory!Store(t, l, v)
    PROVE  /\ mBuffer' \in [Memory!Both -> Seq(Stores)]
           /\ \A u \in Memory!Both \ {t} : mBuffer'[u] = mBuffer[u]
           /\ mBuffer'[t] = Append(mBuffer[t], Stored(l, v))
           /\ Len(mBuffer'[t]) = Len(mBuffer[t]) + 1
           /\ \A j \in 1 .. Len(mBuffer[t]) : mBuffer'[t][j] = mBuffer[t][j]
           /\ mBuffer'[t][Len(mBuffer[t]) + 1] = Stored(l, v)
<1>1. Stored(l, v) \in Stores
  BY DEF Stored, Stores
<1>2. mBuffer' = [mBuffer EXCEPT ![t] = Append(@, Stored(l, v))]
  BY DEF Memory!Store, Stored
<1>3. mBuffer[t] \in Seq(Stores)
  BY DEF MemoryTypes
<1> DEFINE b == mBuffer[t]
<1>4. mBuffer'[t] = Append(b, Stored(l, v)) /\ \A u \in Memory!Both \ {t} : mBuffer'[u] = mBuffer[u]
  BY <1>2 DEF MemoryTypes
<1>5. Append(b, Stored(l, v)) \in Seq(Stores)
  BY <1>1, <1>3
<1>6. mBuffer' \in [Memory!Both -> Seq(Stores)]
  BY <1>2, <1>5 DEF MemoryTypes
<1>7. /\ Len(Append(b, Stored(l, v))) = Len(b) + 1
      /\ \A j \in 1 .. Len(b) : Append(b, Stored(l, v))[j] = b[j]
      /\ Append(b, Stored(l, v))[Len(b) + 1] = Stored(l, v)
  BY <1>1, <1>3, AppendProperties
<1> QED
  BY <1>4, <1>6, <1>7

\* The oldest one arrives, the others move up.
LEMMA StoreArrives ==
    ASSUME MemoryTypes, NEW t \in Memory!Both, Memory!Arrive(t)
    PROVE  /\ Len(mBuffer[t]) \in Nat \ {0} /\ mBuffer[t][1] \in Stores
           /\ mMemory' \in [Memory!Locations -> Int]
           /\ \A l \in Memory!Locations :
                 mMemory'[l] = IF l = mBuffer[t][1].to THEN mBuffer[t][1].value ELSE mMemory[l]
           /\ mBuffer' \in [Memory!Both -> Seq(Stores)]
           /\ \A u \in Memory!Both \ {t} : mBuffer'[u] = mBuffer[u]
           /\ Len(mBuffer'[t]) = Len(mBuffer[t]) - 1
           /\ \A j \in 1 .. Len(mBuffer'[t]) : mBuffer'[t][j] = mBuffer[t][j + 1]
           /\ UNCHANGED <<mExperiment, mThread, mPopped, mDestroyed>>
<1> DEFINE b == mBuffer[t]
<1>1. b \in Seq(Stores) /\ b # <<>>
  BY DEF MemoryTypes, Memory!Arrive, Memory!Drained
<1>2. /\ Len(b) \in Nat \ {0} /\ Head(b) = b[1] /\ b[1] \in Stores /\ Tail(b) \in Seq(Stores)
      /\ Len(Tail(b)) = Len(b) - 1 /\ \A j \in 1 .. Len(Tail(b)) : Tail(b)[j] = b[j + 1]
  BY <1>1
<1>3. b[1].to \in Memory!Locations /\ b[1].value \in Int
  BY <1>2 DEF Stores
<1>4. /\ mMemory' = [mMemory EXCEPT ![b[1].to] = b[1].value]
      /\ mBuffer' = [mBuffer EXCEPT ![t] = Tail(@)]
      /\ UNCHANGED <<mExperiment, mThread, mPopped, mDestroyed>>
  BY <1>2 DEF Memory!Arrive
<1>5. mMemory' \in [Memory!Locations -> Int]
      /\ \A l \in Memory!Locations : mMemory'[l] = IF l = b[1].to THEN b[1].value ELSE mMemory[l]
  BY <1>3, <1>4 DEF MemoryTypes
<1>6. mBuffer'[t] = Tail(b) /\ \A u \in Memory!Both \ {t} : mBuffer'[u] = mBuffer[u]
  BY <1>4 DEF MemoryTypes
<1>7. mBuffer' \in [Memory!Both -> Seq(Stores)]
  BY <1>2, <1>4 DEF MemoryTypes
<1> QED
  BY <1>2, <1>4, <1>5, <1>6, <1>7

\* A thread goes to another place with its register as it was.
LEMMA ThreadGoes ==
    ASSUME MemoryTypes, NEW t \in Memory!Both, NEW p, Memory!Goes(t, p)
    PROVE  /\ mThread' = [u \in Memory!Both |-> mThread'[u]]
           /\ \A u \in Memory!Both :
                 mThread'[u] = [at |-> mThread'[u].at, register |-> mThread'[u].register]
           /\ mThread'[t].at = p /\ mThread'[t].register = mThread[t].register
           /\ \A u \in Memory!Both \ {t} : mThread'[u] = mThread[u]
<1>1. mThread' = [mThread EXCEPT ![t].at = p]
  BY DEF Memory!Goes
<1>2. mThread[t] = [at |-> mThread[t].at, register |-> mThread[t].register]
  BY DEF MemoryTypes
<1>3. mThread' = [u \in Memory!Both |-> IF u = t THEN [mThread[t] EXCEPT !.at = p] ELSE mThread[u]]
  BY <1>1 DEF MemoryTypes
<1>4. [mThread[t] EXCEPT !.at = p] = [at |-> p, register |-> mThread[t].register]
  BY <1>2
<1> HIDE DEF mThread
<1>5. mThread'[t] = [at |-> p, register |-> mThread[t].register]
      /\ \A u \in Memory!Both \ {t} : mThread'[u] = mThread[u]
  BY <1>3, <1>4
<1> QED
  BY <1>3, <1>5 DEF MemoryTypes

(***************************************************************************)
(* The store buffer litmus. A thread that went past its store has it in    *)
(* the buffer or in memory, and one that loads has it in memory: whoever   *)
(* loads last sees the other's.                                            *)
(***************************************************************************)
Flagged(t) ==
    LET waiting == Len(mBuffer[t])
        flag == Memory!Flag(t) IN
    \/ mThread[t].at = "start" /\ waiting = 0 /\ mMemory[flag] = 0
    \/ mThread[t].at = "stored" /\ waiting = 1 /\ mBuffer[t][1] = Stored(flag, 1)
    \/ mThread[t].at \in {"stored", "loaded"} /\ waiting = 0 /\ mMemory[flag] = 1

BothMissed == \A t \in Memory!Both : mThread[t].at = "loaded" /\ mThread[t].register = 0

LitmusInvariant ==
    /\ \A t \in Memory!Both : mThread[t].at \in {"start", "stored", "loaded"}
    /\ mPopped = <<>>
    /\ mExperiment.seqCst =>
          mExperiment.zeroZero = 0 /\ (\A t \in Memory!Both : Flagged(t)) /\ ~BothMissed

LEMMA LitmusArrives ==
    ASSUME MemoryTypes, mExperiment.name = "litmus", LitmusInvariant,
           NEW t \in Memory!Both, Memory!Arrive(t)
    PROVE  MemoryTypes' /\ LitmusInvariant'
<1>1. MemoryTypes'
  BY StoreArrives DEF MemoryTypes
<1>2. UNCHANGED <<mExperiment, mThread, mPopped>>
  BY StoreArrives
<1>3. ASSUME mExperiment.seqCst, NEW u \in Memory!Both
      PROVE  Flagged(u)'
  <2> DEFINE b == mBuffer[t]
  <2>1. Flagged(t) /\ Flagged(u)
    BY <1>3 DEF LitmusInvariant
  <2>2. Len(b) \in Nat \ {0}
    BY StoreArrives
  <2>3. mThread[t].at = "stored" /\ Len(b) = 1 /\ b[1] = Stored(Memory!Flag(t), 1)
    BY <2>1, <2>2 DEF Flagged
  <2>4. b[1].to = Memory!Flag(t) /\ b[1].value = 1
    BY <2>3 DEF Stored
  <2>5. Len(mBuffer'[t]) = 0
    BY SMTT(60), <2>3, StoreArrives
  <2>6. \A l \in Memory!Locations : mMemory'[l] = IF l = Memory!Flag(t) THEN 1 ELSE mMemory[l]
    BY <2>4, StoreArrives
  <2> HIDE DEF b
  <2>7. CASE u = t
    <3>1. mMemory'[Memory!Flag(t)] = 1
      BY <2>6, LocationsDiffer
    <3> QED
      BY <1>2, <2>3, <2>5, <2>7, <3>1 DEF Flagged
  <2>8. CASE u # t
    <3>1. Memory!Flag(u) # Memory!Flag(t) /\ Memory!Flag(u) \in Memory!Locations
      BY <2>8, LocationsDiffer DEF Memory!Both
    <3>2. mMemory'[Memory!Flag(u)] = mMemory[Memory!Flag(u)]
      BY <2>6, <3>1
    <3>3. mBuffer'[u] = mBuffer[u]
      BY <2>8, StoreArrives
    <3> QED
      BY <1>2, <2>1, <3>2, <3>3 DEF Flagged
  <2> QED
    BY <2>7, <2>8
<1>4. BothMissed' = BothMissed
  BY <1>2 DEF BothMissed
<1> QED
  BY <1>1, <1>2, <1>3, <1>4 DEF LitmusInvariant

LEMMA LitmusStores ==
    ASSUME MemoryTypes, mExperiment.name = "litmus", LitmusInvariant,
           NEW t \in Memory!Both, Memory!LitmusStore(t)
    PROVE  MemoryTypes' /\ LitmusInvariant'
<1>1. /\ mThread[t].at = "start" /\ Memory!Store(t, Memory!Flag(t), 1) /\ Memory!Goes(t, "stored")
      /\ UNCHANGED <<mExperiment, mMemory, mPopped>>
  BY DEF Memory!LitmusStore, Memory!Here, Memory!Unshared
<1>2. Memory!Flag(t) \in Memory!Locations
  BY LocationsDiffer
<1>3. /\ mBuffer' \in [Memory!Both -> Seq(Stores)]
      /\ \A u \in Memory!Both \ {t} : mBuffer'[u] = mBuffer[u]
      /\ Len(mBuffer'[t]) = Len(mBuffer[t]) + 1
      /\ mBuffer'[t][Len(mBuffer[t]) + 1] = Stored(Memory!Flag(t), 1)
  BY <1>1, <1>2, StoreWaits
<1>4. MemoryTypes'
  BY <1>1, <1>3, ThreadGoes DEF MemoryTypes
<1>5. mThread'[t].at = "stored" /\ \A u \in Memory!Both \ {t} : mThread'[u] = mThread[u]
  BY <1>1, ThreadGoes
<1>6. ASSUME mExperiment.seqCst, NEW u \in Memory!Both
      PROVE  Flagged(u)'
  <2>1. Flagged(t) /\ Flagged(u)
    BY <1>6 DEF LitmusInvariant
  <2>2. CASE u = t
    <3>1. Len(mBuffer[t]) = 0
      BY <1>1, <2>1 DEF Flagged
    <3>2. Len(mBuffer'[t]) = 1 /\ mBuffer'[t][1] = Stored(Memory!Flag(t), 1)
      BY <1>3, <3>1
    <3> QED
      BY <1>5, <2>2, <3>2 DEF Flagged
  <2>3. CASE u # t
    BY <1>1, <1>3, <1>5, <2>1, <2>3 DEF Flagged
  <2> QED
    BY <2>2, <2>3
<1>7. ~BothMissed'
  BY <1>5 DEF BothMissed
<1>8. \A u \in Memory!Both : mThread'[u].at \in {"start", "stored", "loaded"}
  BY <1>5 DEF LitmusInvariant
<1> QED
  BY <1>1, <1>4, <1>6, <1>7, <1>8 DEF LitmusInvariant

\* The records after both fields that change.
LEMMA LoadedRecord ==
    ASSUME NEW r, r = [at |-> r.at, register |-> r.register], NEW v
    PROVE  [r EXCEPT !.at = "loaded", !.register = v] = [at |-> "loaded", register |-> v]
<1> DEFINE q == [r EXCEPT !.at = "loaded"]
<1>1. q = [at |-> "loaded", register |-> r.register]
  OBVIOUS
<1>2. [q EXCEPT !.register = v] = [at |-> "loaded", register |-> v]
  <2> HIDE DEF q
  <2> QED
    BY <1>1
<1> QED
  BY <1>2

Rounds == [name : {"litmus"}, seqCst : BOOLEAN, round : Int, zeroZero : Int]

LEMMA CountedRecord ==
    ASSUME NEW e \in Rounds, NEW m \in Int
    PROVE  /\ [e EXCEPT !.round = @ + 1, !.zeroZero = @ + m] \in Rounds
           /\ [e EXCEPT !.round = @ + 1, !.zeroZero = @ + m].seqCst = e.seqCst
           /\ [e EXCEPT !.round = @ + 1, !.zeroZero = @ + m].zeroZero = e.zeroZero + m
<1> DEFINE f == [e EXCEPT !.round = @ + 1]
<1>1. f \in Rounds
  BY DEF Rounds
<1>2. [f EXCEPT !.zeroZero = @ + m] \in Rounds
  <2> HIDE DEF f
  <2> QED
    BY <1>1 DEF Rounds
<1>3. f.zeroZero = e.zeroZero
  BY DEF Rounds
<1>4. [e EXCEPT !.round = @ + 1, !.zeroZero = @ + m] \in Rounds
  BY <1>2, <1>3
<1>5. [e EXCEPT !.round = @ + 1, !.zeroZero = @ + m].seqCst = e.seqCst
  BY DEF Rounds
<1>6. [e EXCEPT !.round = @ + 1, !.zeroZero = @ + m].zeroZero = e.zeroZero + m
  BY DEF Rounds
<1> QED
  BY <1>4, <1>5, <1>6

LEMMA LitmusLoads ==
    ASSUME MemoryTypes, mExperiment.name = "litmus", LitmusInvariant,
           NEW t \in Memory!Both, Memory!LitmusLoad(t)
    PROVE  MemoryTypes' /\ LitmusInvariant'
<1> DEFINE other == Memory!Other(t)
           seen == Memory!Load(t, Memory!Flag(other))
<1>1. /\ mThread[t].at = "stored" /\ Memory!MayLoad(t)
      /\ mThread' = [mThread EXCEPT ![t].at = "loaded", ![t].register = seen]
      /\ UNCHANGED <<mExperiment, mMemory, mPopped, mBuffer>>
  BY DEF Memory!LitmusLoad, Memory!Here, Memory!Unshared
<1>2. mThread[t] = [at |-> mThread[t].at, register |-> mThread[t].register]
      /\ mThread = [u \in Memory!Both |-> mThread[u]]
  BY DEF MemoryTypes
<1>3. mThread' = [u \in Memory!Both |-> IF u = t THEN [at |-> "loaded", register |-> seen] ELSE mThread[u]]
  <2> HIDE DEF seen, mThread
  <2>1. mThread' = [u \in Memory!Both |->
                       IF u = t THEN [mThread[t] EXCEPT !.at = "loaded", !.register = seen]
                                ELSE mThread[u]]
    BY <1>1, <1>2
  <2>2. [mThread[t] EXCEPT !.at = "loaded", !.register = seen] = [at |-> "loaded", register |-> seen]
    BY <1>2, LoadedRecord, Zenon
  <2> QED
    BY <2>1, <2>2
<1>4. /\ mThread'[t] = [at |-> "loaded", register |-> seen]
      /\ \A u \in Memory!Both \ {t} : mThread'[u] = mThread[u]
  BY <1>3
<1>5. MemoryTypes'
  BY <1>1, <1>3, <1>4 DEF MemoryTypes
<1>6. other \in Memory!Both /\ other # t
  BY DEF Memory!Other, Memory!Both
<1>7. ASSUME mExperiment.seqCst
      PROVE  (\A u \in Memory!Both : Flagged(u)') /\ ~BothMissed'
  <2>1. mBuffer[t] = <<>>
    BY <1>1, <1>7 DEF Memory!MayLoad, Memory!Drained
  <2>2. seen = mMemory[Memory!Flag(other)]
    BY <2>1, LoadsMemory
  <2>3. Len(mBuffer[t]) = 0
    BY <2>1
  <2>4. Flagged(t) /\ Flagged(other)
    BY <1>6, <1>7 DEF LitmusInvariant
  <2>5. Flagged(t)'
    BY <1>1, <1>4, <2>3, <2>4 DEF Flagged
  <2>6. \A u \in Memory!Both \ {t} : Flagged(u)'
    BY ZenonT(60), <1>1, <1>4, <1>7 DEF Flagged, LitmusInvariant
  <2>7. ~BothMissed'
    <3> SUFFICES ASSUME mThread'[other].at = "loaded", seen = 0 PROVE FALSE
      BY <1>4, <1>6 DEF BothMissed
    <3>1. mThread[other].at = "loaded"
      BY <1>4, <1>6
    <3>2. mMemory[Memory!Flag(other)] = 1
      BY <2>4, <3>1 DEF Flagged
    <3> QED
      BY <2>2, <3>2
  <2> QED
    BY <2>5, <2>6, <2>7
<1>8. \A u \in Memory!Both : mThread'[u].at \in {"start", "stored", "loaded"}
  BY <1>4 DEF LitmusInvariant
<1> QED
  BY <1>1, <1>5, <1>7, <1>8 DEF LitmusInvariant

LEMMA BarrierKeeps ==
    ASSUME MemoryTypes, mExperiment.name = "litmus", LitmusInvariant, Memory!Barrier
    PROVE  MemoryTypes' /\ LitmusInvariant' /\ mExperiment'.name = "litmus"
<1> DEFINE e == mExperiment
           missed == IF \A t \in Memory!Both : mThread[t].register = 0 THEN 1 ELSE 0
<1>1. /\ \A t \in Memory!Both : mThread[t].at = "loaded" /\ mBuffer[t] = <<>>
      /\ mExperiment' = [e EXCEPT !.round = @ + 1, !.zeroZero = @ + missed]
      /\ mMemory' = [mMemory EXCEPT ![Memory!Var("x")] = 0, ![Memory!Var("y")] = 0]
      /\ mThread' = [t \in Memory!Both |-> [at |-> "start", register |-> -1]]
      /\ UNCHANGED <<mBuffer, mPopped>>
  BY DEF Memory!Barrier, Memory!Drained
<1>2. e \in Rounds
  BY DEF MemoryTypes, Rounds
<1>3. missed \in {0, 1} /\ (e.seqCst => missed = 0)
  <2>1. CASE \A t \in Memory!Both : mThread[t].register = 0
    <3>1. BothMissed /\ missed = 1
      BY <1>1, <2>1 DEF BothMissed
    <3> QED
      BY <3>1 DEF LitmusInvariant
  <2>2. CASE ~(\A t \in Memory!Both : mThread[t].register = 0)
    BY <2>2
  <2> QED
    BY <2>1, <2>2
<1>4. /\ mExperiment' \in Rounds
      /\ mExperiment'.seqCst = e.seqCst /\ mExperiment'.zeroZero = e.zeroZero + missed
  <2>1. missed \in Int
    BY <1>3
  <2> HIDE DEF missed, mExperiment
  <2> QED
    BY <1>1, <1>2, <2>1, CountedRecord
<1>5. /\ mMemory' \in [Memory!Locations -> Int]
      /\ mMemory'[Memory!Var("x")] = 0 /\ mMemory'[Memory!Var("y")] = 0
  <2>1. Memory!Var("x") \in Memory!Locations /\ Memory!Var("y") \in Memory!Locations
    BY LocationsDiffer
  <2> QED
    BY <1>1, <2>1 DEF MemoryTypes
<1>6. \A t \in Memory!Both : mMemory'[Memory!Flag(t)] = 0
  BY <1>5 DEF Memory!Flag
<1>7. MemoryTypes'
  BY <1>1, <1>4, <1>5 DEF MemoryTypes, Rounds
<1>8. \A t \in Memory!Both : mThread'[t].at = "start" /\ Len(mBuffer'[t]) = 0
  BY <1>1
<1>9. (\A t \in Memory!Both : Flagged(t)') /\ ~BothMissed'
  BY <1>6, <1>8 DEF Flagged, BothMissed, Memory!Both
<1>10. e.seqCst => mExperiment'.zeroZero = 0
  BY <1>2, <1>3, <1>4 DEF LitmusInvariant, Rounds
<1>11. mExperiment'.name = "litmus"
  BY <1>4 DEF Rounds
<1> QED
  BY <1>1, <1>4, <1>7, <1>8, <1>9, <1>10, <1>11 DEF LitmusInvariant

(***************************************************************************)
(* The message: the payload leaves the buffer before the flag does.        *)
(***************************************************************************)
Payload == Stored(Memory!Var("data"), 42)
TheFlag == Stored(Memory!Var("ready"), 1)
ToldData == mMemory[Memory!Var("data")] = 42

MessageInvariant ==
    /\ mPopped = <<>>
    /\ Len(mBuffer["t1"]) = 0
    /\ mThread["t0"].at \in {"start", "written", "published", "notified"}
    /\ mThread["t1"].at \in {"start", "parked", "ready", "done"}
    /\ \A i \in 1 .. Len(mBuffer["t0"]) :
          mBuffer["t0"][i] = TheFlag \/ (i = 1 /\ mBuffer["t0"][1] = Payload)
    /\ mThread["t0"].at = "start" => Len(mBuffer["t0"]) = 0 /\ mMemory[Memory!Var("ready")] # 1
    /\ mThread["t0"].at # "start" =>
          ToldData \/ (Len(mBuffer["t0"]) > 0 /\ mBuffer["t0"][1] = Payload)
    /\ mMemory[Memory!Var("ready")] = 1 => ToldData
    /\ mThread["t1"].at = "ready" => ToldData
    /\ mThread["t1"].at = "done" => mThread["t1"].register = 42

LEMMA MessageArrives ==
    ASSUME MemoryTypes, MessageInvariant, NEW t \in Memory!Both, Memory!Arrive(t)
    PROVE  MemoryTypes' /\ MessageInvariant'
<1>1. MemoryTypes'
  BY StoreArrives DEF MemoryTypes
<1>2. UNCHANGED <<mExperiment, mThread, mPopped>>
  BY StoreArrives
<1>3. t = "t0"
  <2>1. Len(mBuffer[t]) # 0
    BY StoreArrives
  <2> QED
    BY <2>1 DEF MessageInvariant, Memory!Both
<1> DEFINE b == mBuffer["t0"]
           c == mBuffer'["t0"]
<1>4. /\ Len(b) \in Nat \ {0} /\ Len(c) = Len(b) - 1 /\ \A j \in 1 .. Len(c) : c[j] = b[j + 1]
      /\ \A l \in Memory!Locations :
            mMemory'[l] = IF l = b[1].to THEN b[1].value ELSE mMemory[l]
      /\ mBuffer'["t1"] = mBuffer["t1"]
  BY <1>3, StoreArrives DEF Memory!Both
<1>5. /\ Memory!Var("data") \in Memory!Locations /\ Memory!Var("ready") \in Memory!Locations
      /\ Memory!Var("data") # Memory!Var("ready")
  BY LocationsDiffer
<1>6. /\ Payload.to = Memory!Var("data") /\ Payload.value = 42
      /\ TheFlag.to = Memory!Var("ready") /\ TheFlag.value = 1
  BY DEF Payload, TheFlag, Stored
<1>7. /\ \A i \in 1 .. Len(b) : b[i] = TheFlag \/ (i = 1 /\ b[1] = Payload)
      /\ mThread["t0"].at # "start" => ToldData \/ b[1] = Payload
      /\ mThread["t0"].at # "start"
  BY <1>4 DEF MessageInvariant
<1> HIDE DEF b, c
<1>8. b[1] = TheFlag \/ b[1] = Payload
  BY <1>4, <1>7
<1>9. ToldData'
  BY <1>4, <1>5, <1>6, <1>7, <1>8 DEF ToldData
<1>10. \A j \in 1 .. Len(c) : c[j] = TheFlag
  BY <1>4, <1>7
<1>11. \A i \in 1 .. Len(c) : c[i] = TheFlag \/ (i = 1 /\ c[1] = Payload)
  BY <1>10
<1> QED
  BY <1>1, <1>2, <1>4, <1>7, <1>9, <1>11 DEF MessageInvariant, b, c

LEMMA Notified ==
    ASSUME NEW f, f = [u \in {"t0", "t1"} |-> f[u]], NEW g,
           \A u \in {"t0", "t1"} : f[u] = [at |-> f[u].at, register |-> f[u].register],
           g = [f EXCEPT !["t0"].at = "notified",
                         !["t1"].at = IF @ = "parked" THEN "start" ELSE @]
    PROVE  /\ g = [u \in {"t0", "t1"} |-> g[u]]
           /\ \A u \in {"t0", "t1"} : g[u] = [at |-> g[u].at, register |-> g[u].register]
           /\ g["t0"].at = "notified" /\ g["t1"].register = f["t1"].register
           /\ g["t1"].at = IF f["t1"].at = "parked" THEN "start" ELSE f["t1"].at
<1> DEFINE h == [f EXCEPT !["t0"].at = "notified"]
           p == IF f["t1"].at = "parked" THEN "start" ELSE f["t1"].at
<1>1. /\ h = [u \in {"t0", "t1"} |-> h[u]] /\ h["t1"] = f["t1"]
      /\ h["t0"] = [at |-> "notified", register |-> f["t0"].register]
  OBVIOUS
<1>2. g = [h EXCEPT !["t1"].at = p]
  BY <1>1
<1> HIDE DEF h, p
<1>3. /\ g = [u \in {"t0", "t1"} |-> g[u]] /\ g["t0"] = h["t0"]
      /\ g["t1"] = [at |-> p, register |-> f["t1"].register]
  <2>1. g["t1"] = [h["t1"] EXCEPT !.at = p]
    BY ONLY <1>1, <1>2, SMTT(60)
  <2>2. f["t1"] = [at |-> f["t1"].at, register |-> f["t1"].register]
    BY Zenon
  <2>3. g["t1"] = [at |-> p, register |-> f["t1"].register]
    BY ONLY <1>1, <2>1, <2>2, SMTT(60)
  <2>4. g["t0"] = h["t0"]
    BY ONLY <1>1, <1>2, SMTT(60)
  <2>5. g = [u \in {"t0", "t1"} |-> g[u]]
    BY ONLY <1>1, <1>2, ZenonT(60)
  <2> QED
    BY <2>3, <2>4, <2>5
<1> QED
  BY <1>1, <1>3 DEF p

LEMMA MessageMoves ==
    ASSUME MemoryTypes, MessageInvariant,
           \/ Memory!MessageWrite \/ Memory!MessagePublish \/ Memory!MessageLook
           \/ Memory!MessageNotify \/ Memory!MessageRead
    PROVE  MemoryTypes' /\ MessageInvariant' /\ UNCHANGED mExperiment
<1> USE DEF Memory!Both
<1> DEFINE b == mBuffer["t0"]
           c == mBuffer'["t0"]
<1>1. Memory!Var("data") \in Memory!Locations /\ Memory!Var("ready") \in Memory!Locations
  BY LocationsDiffer
<1>2. Len(b) \in Nat
  BY DEF MemoryTypes
<1>3. CASE Memory!MessageWrite
  <2>1. /\ mThread["t0"].at = "start" /\ Memory!Store("t0", Memory!Var("data"), 42)
        /\ Memory!Goes("t0", "written") /\ UNCHANGED <<mExperiment, mMemory, mPopped>>
    BY <1>3 DEF Memory!MessageWrite, Memory!Here, Memory!Unshared
  <2>2. /\ mBuffer' \in [Memory!Both -> Seq(Stores)] /\ mBuffer'["t1"] = mBuffer["t1"]
        /\ Len(c) = Len(b) + 1 /\ c[Len(b) + 1] = Payload
    BY <1>1, <2>1, StoreWaits DEF Payload
  <2>3. Len(b) = 0 /\ mMemory[Memory!Var("ready")] # 1
    BY <2>1 DEF MessageInvariant
  <2>4. Len(c) = 1 /\ c[1] = Payload
    BY <2>2, <2>3
  <2>5. mThread'["t0"].at = "written" /\ mThread'["t1"] = mThread["t1"]
    BY <2>1, ThreadGoes
  <2>6. MemoryTypes'
    BY <2>1, <2>2, ThreadGoes DEF MemoryTypes
  <2>7. \A i \in 1 .. Len(c) : c[i] = TheFlag \/ (i = 1 /\ c[1] = Payload)
    BY <2>4
  <2> HIDE DEF b, c
  <2> QED
    BY <2>1, <2>2, <2>3, <2>4, <2>5, <2>6, <2>7 DEF MessageInvariant, ToldData, c
<1>4. CASE Memory!MessagePublish
  <2>1. /\ mThread["t0"].at = "written" /\ Memory!Store("t0", Memory!Var("ready"), 1)
        /\ Memory!Goes("t0", "published") /\ UNCHANGED <<mExperiment, mMemory, mPopped>>
    BY <1>4 DEF Memory!MessagePublish, Memory!Here, Memory!Unshared
  <2>2. /\ mBuffer' \in [Memory!Both -> Seq(Stores)] /\ mBuffer'["t1"] = mBuffer["t1"]
        /\ Len(c) = Len(b) + 1 /\ c[Len(b) + 1] = TheFlag
        /\ \A j \in 1 .. Len(b) : c[j] = b[j]
    BY <1>1, <2>1, StoreWaits DEF TheFlag
  <2>3. mThread'["t0"].at = "published" /\ mThread'["t1"] = mThread["t1"]
    BY <2>1, ThreadGoes
  <2>4. MemoryTypes'
    BY <2>1, <2>2, ThreadGoes DEF MemoryTypes
  <2>5. /\ \A i \in 1 .. Len(b) : b[i] = TheFlag \/ (i = 1 /\ b[1] = Payload)
        /\ ToldData \/ (Len(b) > 0 /\ b[1] = Payload)
    BY <2>1 DEF MessageInvariant
  <2> HIDE DEF b, c
  <2>6. /\ \A i \in 1 .. Len(c) : c[i] = TheFlag \/ (i = 1 /\ c[1] = Payload)
        /\ ToldData \/ (Len(c) > 0 /\ c[1] = Payload)
    <3>1. \A i \in 1 .. Len(c) : i \in 1 .. Len(b) \/ i = Len(b) + 1
      BY <1>2, <2>2
    <3>2. ASSUME Len(b) > 0 PROVE c[1] = b[1]
      BY <1>2, <2>2, <3>2
    <3>3. \A i \in 1 .. Len(b) : c[i] = TheFlag \/ (i = 1 /\ c[1] = Payload)
      BY <1>2, <2>2, <2>5, <3>2
    <3>4. \A i \in 1 .. Len(c) : c[i] = TheFlag \/ (i = 1 /\ c[1] = Payload)
      BY <2>2, <3>1, <3>3
    <3>5. ToldData \/ (Len(c) > 0 /\ c[1] = Payload)
      BY <1>2, <2>2, <2>5, <3>2
    <3> QED
      BY <3>4, <3>5
  <2> QED
    BY <2>1, <2>2, <2>3, <2>4, <2>6 DEF MessageInvariant, ToldData, c
<1>5. CASE Memory!MessageLook
  <2>1. /\ mThread["t1"].at = "start" /\ UNCHANGED <<mExperiment, mMemory, mPopped, mBuffer>>
        /\ \/ Memory!Load("t1", Memory!Var("ready")) = 1 /\ Memory!Goes("t1", "ready")
           \/ Memory!Goes("t1", "parked")
    BY <1>5 DEF Memory!MessageLook, Memory!Here, Memory!Unshared
  <2>2. Memory!Load("t1", Memory!Var("ready")) = mMemory[Memory!Var("ready")]
    <3>1. mBuffer["t1"] \in Seq(Stores) /\ Len(mBuffer["t1"]) = 0
      BY DEF MemoryTypes, MessageInvariant
    <3>2. DOMAIN mBuffer["t1"] = {}
      BY <3>1
    <3> QED
      BY <3>2, LoadsMemory
  <2>3. PICK p \in {"ready", "parked"} :
           Memory!Goes("t1", p) /\ (p = "ready" => mMemory[Memory!Var("ready")] = 1)
    BY <2>1, <2>2
  <2>4. mThread'["t1"].at = p /\ mThread'["t0"] = mThread["t0"]
    BY <2>3, ThreadGoes
  <2>5. MemoryTypes'
    BY <2>1, <2>3, ThreadGoes DEF MemoryTypes
  <2> QED
    BY <2>1, <2>3, <2>4, <2>5 DEF MessageInvariant, ToldData
<1>6. CASE Memory!MessageNotify
  <2> DEFINE woken == IF mThread["t1"].at = "parked" THEN "start" ELSE mThread["t1"].at
  <2>1. /\ mThread["t0"].at = "published" /\ UNCHANGED <<mExperiment, mMemory, mPopped, mBuffer>>
        /\ mThread' = [mThread EXCEPT !["t0"].at = "notified",
                                      !["t1"].at = IF @ = "parked" THEN "start" ELSE @]
    BY <1>6 DEF Memory!MessageNotify, Memory!Here, Memory!Unshared
  <2>2. /\ mThread' = [u \in Memory!Both |-> mThread'[u]]
        /\ \A u \in Memory!Both :
              mThread'[u] = [at |-> mThread'[u].at, register |-> mThread'[u].register]
        /\ mThread'["t0"].at = "notified"
        /\ mThread'["t1"].at = woken /\ mThread'["t1"].register = mThread["t1"].register
    BY <2>1, Notified DEF MemoryTypes
  <2>3. MemoryTypes'
    BY <2>1, <2>2 DEF MemoryTypes
  <2> QED
    BY <2>1, <2>2, <2>3 DEF MessageInvariant, ToldData
<1>7. CASE Memory!MessageRead
  <2>1. /\ mThread["t1"].at = "ready" /\ UNCHANGED <<mExperiment, mMemory, mPopped, mBuffer>>
        /\ mThread' = [mThread EXCEPT !["t1"] = [at |-> "done",
                          register |-> Memory!Load("t1", Memory!Var("data"))]]
    BY <1>7 DEF Memory!MessageRead, Memory!Here, Memory!Unshared
  <2>2. Memory!Load("t1", Memory!Var("data")) = 42
    <3>1. mBuffer["t1"] \in Seq(Stores) /\ Len(mBuffer["t1"]) = 0
      BY DEF MemoryTypes, MessageInvariant
    <3>2. DOMAIN mBuffer["t1"] = {}
      BY <3>1
    <3>3. mMemory[Memory!Var("data")] = 42
      BY <2>1 DEF MessageInvariant, ToldData
    <3> QED
      BY <3>2, <3>3, LoadsMemory
  <2>3. mThread'["t1"] = [at |-> "done", register |-> 42] /\ mThread'["t0"] = mThread["t0"]
        /\ mThread' = [u \in Memory!Both |-> mThread'[u]]
    BY <2>1, <2>2 DEF MemoryTypes
  <2>4. MemoryTypes'
    BY <2>1, <2>3 DEF MemoryTypes
  <2> QED
    BY <2>1, <2>3, <2>4 DEF MessageInvariant, ToldData
<1> QED
  BY <1>3, <1>4, <1>5, <1>6, <1>7

(***************************************************************************)
(* The ring. The producer has written `pushed` elements, of which the      *)
(* first `arrived` stores, two for each, are in memory: the element, then  *)
(* the tail that publishes it. The consumer has taken `taken`, and memory  *)
(* may not know of the last of them yet. What memory says is never more    *)
(* than what happened, so that no slot in use is written and none that is  *)
(* not written is read.                                                    *)
(***************************************************************************)
HeadInMemory == mMemory[Memory!Var("head")]
TailInMemory == mMemory[Memory!Var("tail")]

StoresInOrder(pushed, arrived) ==
    /\ arrived + Len(mBuffer["t0"]) = 2 * pushed
    /\ \A j \in 1 .. Len(mBuffer["t0"]), i \in Nat :
          /\ arrived + j = 2 * i + 1 => mBuffer["t0"][j] = Stored(Memory!Slot(i), i + 1)
          /\ arrived + j = 2 * i + 2 => mBuffer["t0"][j] = Stored(Memory!Var("tail"), i + 1)

HeadsInOrder(taken) ==
    /\ HeadInMemory + Len(mBuffer["t1"]) = taken
    /\ \A j \in 1 .. Len(mBuffer["t1"]) :
          mBuffer["t1"][j] = Stored(Memory!Var("head"), HeadInMemory + j)

Elements(arrived) ==
    \A i \in Nat : HeadInMemory <= i /\ 2 * i + 1 <= arrived => mMemory[Memory!Slot(i)] = i + 1

Bounds(pushed, taken, arrived) ==
    /\ HeadInMemory \in Nat /\ TailInMemory \in Nat
    /\ 2 * TailInMemory <= arrived /\ arrived <= 2 * TailInMemory + 1
    /\ HeadInMemory <= taken /\ taken <= TailInMemory /\ pushed <= HeadInMemory + RingSlots
    /\ mThread["t0"].at = "room" => pushed < HeadInMemory + RingSlots
    /\ mThread["t1"].at \in {"item", "read"} => taken < TailInMemory

PoppedAll(taken) ==
    /\ mPopped \in Seq(Int) /\ \A i \in 1 .. Len(mPopped) : mPopped[i] = i
    /\ Len(mPopped) = IF mThread["t1"].at = "read" THEN taken + 1 ELSE taken

RingPlaces ==
    /\ mThread["t0"].at \in {"start", "room", "joined"}
    /\ mThread["t1"].at \in {"start", "item", "read", "joined"}

\* Nothing waits when both threads are joined.
RingJoined(taken) ==
    \A t \in Memory!Both : mThread[t].at = "joined" =>
        /\ \A u \in Memory!Both : mThread[u].at = "joined" /\ Len(mBuffer[u]) = 0
        /\ mDestroyed = taken + 1 .. TailInMemory

RingAt(pushed, taken, arrived) ==
    /\ StoresInOrder(pushed, arrived) /\ HeadsInOrder(taken) /\ Elements(arrived)
    /\ Bounds(pushed, taken, arrived) /\ PoppedAll(taken) /\ RingPlaces /\ RingJoined(taken)

RingInvariant == \E pushed, taken, arrived \in Nat : RingAt(pushed, taken, arrived)

LEMMA Halves == \A n \in Nat : n >= 1 => \E i \in Nat : n = 2 * i + 1 \/ n = 2 * i + 2
<1> SUFFICES ASSUME NEW n \in Nat, n >= 1
             PROVE  \E i \in Nat : n = 2 * i + 1 \/ n = 2 * i + 2
  OBVIOUS
<1> DEFINE i == (n - 1) \div 2
<1>1. i \in Nat /\ (n = 2 * i + 1 \/ n = 2 * i + 2)
  OBVIOUS
<1> QED
  BY <1>1

\* Each thread loads its own index as it is, and the other's as memory has it.
LEMMA RingLoads ==
    ASSUME MemoryTypes, NEW pushed \in Nat, NEW taken \in Nat, NEW arrived \in Nat,
           RingAt(pushed, taken, arrived)
    PROVE  /\ Memory!Load("t0", Memory!Var("tail")) = pushed
           /\ Memory!Load("t0", Memory!Var("head")) = HeadInMemory
           /\ Memory!Load("t1", Memory!Var("head")) = taken
           /\ Memory!Load("t1", Memory!Var("tail")) = TailInMemory
           /\ \A i \in Nat : Memory!Load("t1", Memory!Slot(i)) = mMemory[Memory!Slot(i)]
<1> USE DEF Memory!Both
<1> DEFINE b == mBuffer["t0"]
           c == mBuffer["t1"]
<1>1. /\ b \in Seq(Stores) /\ DOMAIN b = 1 .. Len(b) /\ Len(b) \in Nat
      /\ c \in Seq(Stores) /\ DOMAIN c = 1 .. Len(c) /\ Len(c) \in Nat
  BY DEF MemoryTypes
<1>2. \A j \in 1 .. Len(b) :
         \/ \E i \in Nat : arrived + j = 2 * i + 1 /\ b[j] = Stored(Memory!Slot(i), i + 1)
         \/ \E i \in Nat : arrived + j = 2 * i + 2 /\ b[j] = Stored(Memory!Var("tail"), i + 1)
  <2> SUFFICES ASSUME NEW j \in 1 .. Len(b)
               PROVE  \/ \E i \in Nat : arrived + j = 2 * i + 1 /\ b[j] = Stored(Memory!Slot(i), i + 1)
                      \/ \E i \in Nat : arrived + j = 2 * i + 2 /\ b[j] = Stored(Memory!Var("tail"), i + 1)
    OBVIOUS
  <2>1. j \in Nat /\ j >= 1 /\ arrived + j \in Nat /\ arrived + j >= 1
    BY <1>1
  <2>2. \E i \in Nat : arrived + j = 2 * i + 1 \/ arrived + j = 2 * i + 2
    BY <2>1, Halves
  <2> QED
    BY <2>2 DEF RingAt, StoresInOrder
<1>3. \A j \in 1 .. Len(c) : c[j] = Stored(Memory!Var("head"), HeadInMemory + j)
  BY DEF RingAt, HeadsInOrder
<1>4. \A l, v : Stored(l, v).to = l /\ Stored(l, v).value = v
  BY DEF Stored
<1>5. \A j \in 1 .. Len(b) : b[j].to # Memory!Var("head")
  BY SMTT(60), <1>2, <1>4, LocationsDiffer
<1>6. \A j \in 1 .. Len(c) : c[j].to = Memory!Var("head") /\ c[j].value = HeadInMemory + j
  BY <1>3, <1>4
<1>7. Memory!Load("t0", Memory!Var("head")) = HeadInMemory
  BY <1>1, <1>5, LoadsMemory DEF HeadInMemory
<1>8. Memory!Var("tail") # Memory!Var("head") /\ \A i \in Nat : Memory!Slot(i) # Memory!Var("head")
  BY LocationsDiffer
<1>9. Memory!Load("t1", Memory!Var("tail")) = TailInMemory
  BY <1>1, <1>6, <1>8, LoadsMemory DEF TailInMemory
<1>10. \A i \in Nat : Memory!Load("t1", Memory!Slot(i)) = mMemory[Memory!Slot(i)]
  BY <1>1, <1>6, <1>8, LoadsMemory
<1>11. Memory!Load("t1", Memory!Var("head")) = taken
  <2>1. CASE Len(c) = 0
    <3>1. Memory!Load("t1", Memory!Var("head")) = HeadInMemory
      BY <1>1, <2>1, LoadsMemory DEF HeadInMemory
    <3> QED
      BY <2>1, <3>1 DEF RingAt, HeadsInOrder, Bounds
  <2>2. CASE Len(c) > 0
    <3>1. Len(c) \in 1 .. Len(c)
      BY <1>1, <2>2
    <3>2. Memory!Load("t1", Memory!Var("head")) = c[Len(c)].value
      BY <1>6, <2>2, <3>1, LoadsLast
    <3> QED
      BY <1>6, <3>1, <3>2 DEF RingAt, HeadsInOrder
  <2> QED
    BY <1>1, <2>1, <2>2
<1>12. Memory!Load("t0", Memory!Var("tail")) = pushed
  <2>1. CASE Len(b) = 0
    <3>1. Memory!Load("t0", Memory!Var("tail")) = TailInMemory
      BY <1>1, <2>1, LoadsMemory DEF TailInMemory
    <3>2. /\ arrived + 0 = 2 * pushed /\ TailInMemory \in Nat
          /\ 2 * TailInMemory <= arrived /\ arrived <= 2 * TailInMemory + 1
      BY <2>1 DEF RingAt, StoresInOrder, Bounds
    <3>3. TailInMemory = pushed
      BY <3>2
    <3> QED
      BY <3>1, <3>3
  <2>2. CASE Len(b) > 0
    <3>1. Len(b) \in 1 .. Len(b) /\ arrived + Len(b) = 2 * pushed
      BY <1>1, <2>2 DEF RingAt, StoresInOrder
    <3>2. pushed - 1 \in Nat /\ arrived + Len(b) = 2 * (pushed - 1) + 2
      BY <1>1, <2>2, <3>1
    <3>3. b[Len(b)] = Stored(Memory!Var("tail"), (pushed - 1) + 1)
      BY <3>1, <3>2 DEF RingAt, StoresInOrder
    <3>4. b[Len(b)].to = Memory!Var("tail") /\ b[Len(b)].value = pushed
      BY <1>4, <3>3
    <3> QED
      BY <2>2, <3>4, LoadsLast
  <2> QED
    BY <1>1, <2>1, <2>2
<1> QED
  BY <1>7, <1>9, <1>10, <1>11, <1>12

LEMMA ElementArrives ==
    ASSUME MemoryTypes, RingInvariant, Memory!Arrive("t0")
    PROVE  RingInvariant'
<1> USE DEF Memory!Both
<1> DEFINE b == mBuffer["t0"]
           c == mBuffer'["t0"]
           tail == TailInMemory
<1>1. PICK pushed, taken, arrived \in Nat : RingAt(pushed, taken, arrived)
  BY DEF RingInvariant
<1>2. /\ Len(b) \in Nat \ {0} /\ Len(c) = Len(b) - 1 /\ \A j \in 1 .. Len(c) : c[j] = b[j + 1]
      /\ \A l \in Memory!Locations :
            mMemory'[l] = IF l = b[1].to THEN b[1].value ELSE mMemory[l]
      /\ mBuffer'["t1"] = mBuffer["t1"]
      /\ UNCHANGED <<mExperiment, mThread, mPopped, mDestroyed>>
  BY StoreArrives
<1>3. /\ tail \in Nat /\ HeadInMemory \in Nat
      /\ 2 * tail <= arrived /\ arrived <= 2 * tail + 1
      /\ pushed <= HeadInMemory + RingSlots /\ RingSlots \in Nat
      /\ arrived + Len(b) = 2 * pushed /\ HeadInMemory <= tail
  BY <1>1, MemoryAssumption DEF RingAt, Bounds, StoresInOrder
<1>4. \A l, v : Stored(l, v).to = l /\ Stored(l, v).value = v
  BY DEF Stored
<1>5. /\ Memory!Var("head") \in Memory!Locations /\ Memory!Var("tail") \in Memory!Locations
      /\ Memory!Var("head") # Memory!Var("tail")
      /\ \A i \in Nat : /\ Memory!Slot(i) \in Memory!Locations
                        /\ Memory!Slot(i) # Memory!Var("tail") /\ Memory!Slot(i) # Memory!Var("head")
  BY LocationsDiffer
<1>6. \A j \in 1 .. Len(b), i \in Nat :
          /\ arrived + j = 2 * i + 1 => b[j] = Stored(Memory!Slot(i), i + 1)
          /\ arrived + j = 2 * i + 2 => b[j] = Stored(Memory!Var("tail"), i + 1)
  BY <1>1 DEF RingAt, StoresInOrder
<1>7. \A i \in Nat : HeadInMemory <= i /\ 2 * i + 1 <= arrived => mMemory[Memory!Slot(i)] = i + 1
  BY <1>1 DEF RingAt, Elements
<1>8. mThread["t0"].at # "joined" /\ mThread["t1"].at # "joined"
  BY <1>1, <1>2 DEF RingAt, RingJoined
<1>9. arrived + 1 \in Nat
  OBVIOUS
<1>10. StoresInOrder(pushed, arrived + 1)'
  <2>1. (arrived + 1) + Len(c) = 2 * pushed
    <3>1. Len(b) \in Nat /\ Len(c) = Len(b) - 1 /\ arrived + Len(b) = 2 * pushed
      BY <1>2, <1>3
    <3> HIDE DEF b, c
    <3> QED
      BY <3>1
  <2>2. ASSUME NEW j \in 1 .. Len(c), NEW i \in Nat
        PROVE  /\ (arrived + 1) + j = 2 * i + 1 => c[j] = Stored(Memory!Slot(i), i + 1)
               /\ (arrived + 1) + j = 2 * i + 2 => c[j] = Stored(Memory!Var("tail"), i + 1)
    <3>1. Len(b) \in Nat /\ Len(c) = Len(b) - 1 /\ c[j] = b[j + 1]
      BY <1>2
    <3>2. j + 1 \in 1 .. Len(b) /\ (arrived + 1) + j = arrived + (j + 1)
      <4> HIDE DEF b, c
      <4> QED
        BY <3>1
    <3>3. /\ arrived + (j + 1) = 2 * i + 1 => b[j + 1] = Stored(Memory!Slot(i), i + 1)
          /\ arrived + (j + 1) = 2 * i + 2 => b[j + 1] = Stored(Memory!Var("tail"), i + 1)
      BY <1>6, <3>2
    <3> HIDE DEF b, c
    <3> QED
      BY <3>1, <3>2, <3>3
  <2> QED
    BY <2>1, <2>2 DEF StoresInOrder
<1> SUFFICES HeadInMemory' = HeadInMemory /\ Bounds(pushed, taken, arrived + 1)'
             /\ Elements(arrived + 1)'
  <2>1. HeadsInOrder(taken)' /\ PoppedAll(taken)' /\ RingPlaces' /\ RingJoined(taken)'
    BY <1>1, <1>2, <1>8 DEF RingAt, HeadsInOrder, PoppedAll, RingPlaces, RingJoined
  <2>2. RingAt(pushed, taken, arrived + 1)'
    BY <1>10, <2>1 DEF RingAt
  <2> QED
    BY <1>9, <2>2 DEF RingInvariant
<1>11. CASE arrived = 2 * tail
  <2>1. 1 \in 1 .. Len(b) /\ arrived + 1 = 2 * tail + 1
    BY <1>2, <1>11
  <2>2. b[1] = Stored(Memory!Slot(tail), tail + 1)
    BY <1>3, <1>6, <2>1
  <2>3. \A l \in Memory!Locations :
            mMemory'[l] = IF l = Memory!Slot(tail) THEN tail + 1 ELSE mMemory[l]
    BY <1>2, <1>4, <2>2
  <2>4. HeadInMemory' = HeadInMemory /\ TailInMemory' = tail
    BY <1>3, <1>5, <2>3 DEF HeadInMemory, TailInMemory
  <2>5. Bounds(pushed, taken, arrived + 1)'
    BY <1>1, <1>2, <1>11, <2>4 DEF RingAt, Bounds
  <2>6. tail < pushed
    BY SMTT(60), <1>2, <1>3, <1>11
  <2>7. ASSUME NEW i \in Nat, HeadInMemory <= i, 2 * i + 1 <= arrived + 1
        PROVE  mMemory'[Memory!Slot(i)] = i + 1
    <3>1. i <= tail
      BY <1>3, <1>11, <2>7
    <3>2. CASE i = tail
      BY <1>5, <2>3, <3>2
    <3>3. CASE i < tail
      <4>1. tail < i + RingSlots
        BY <1>3, <2>6, <2>7
      <4>2. Memory!Slot(i) # Memory!Slot(tail)
        BY <1>3, <3>3, <4>1, SlotsDiffer
      <4>3. 2 * i + 1 <= arrived
        BY <1>3, <1>11, <3>3
      <4> QED
        BY <1>5, <1>7, <2>3, <2>7, <4>2, <4>3
    <3> QED
      BY <1>3, <3>1, <3>2, <3>3
  <2> QED
    BY <2>4, <2>5, <2>7 DEF Elements
<1>12. CASE arrived = 2 * tail + 1
  <2>1. 1 \in 1 .. Len(b) /\ arrived + 1 = 2 * tail + 2
    <3>1. Len(b) \in Nat \ {0} /\ tail \in Nat
      BY <1>2, <1>3
    <3> HIDE DEF b, tail
    <3> QED
      BY <1>12, <3>1
  <2>2. b[1] = Stored(Memory!Var("tail"), tail + 1)
    BY <1>3, <1>6, <2>1
  <2>3. \A l \in Memory!Locations :
            mMemory'[l] = IF l = Memory!Var("tail") THEN tail + 1 ELSE mMemory[l]
    BY <1>2, <1>4, <2>2
  <2>4. HeadInMemory' = HeadInMemory /\ TailInMemory' = tail + 1
    BY <1>5, <2>3 DEF HeadInMemory, TailInMemory
  <2>5. Bounds(pushed, taken, arrived + 1)'
    <3>1. /\ HeadInMemory <= taken /\ taken <= tail
          /\ mThread["t0"].at = "room" => pushed < HeadInMemory + RingSlots
          /\ mThread["t1"].at \in {"item", "read"} => taken < tail
      BY <1>1 DEF RingAt, Bounds
    <3>2. /\ tail + 1 \in Nat /\ 2 * (tail + 1) <= arrived + 1 /\ arrived + 1 <= 2 * (tail + 1) + 1
          /\ taken <= tail + 1 /\ (taken < tail => taken < tail + 1)
      BY <1>3, <1>12, <3>1
    <3> QED
      BY <1>2, <1>3, <2>4, <3>1, <3>2 DEF Bounds
  <2>6. ASSUME NEW i \in Nat, HeadInMemory <= i, 2 * i + 1 <= arrived + 1
        PROVE  mMemory'[Memory!Slot(i)] = i + 1
    <3>1. 2 * i + 1 <= arrived
      BY <1>3, <1>12, <2>6
    <3> QED
      BY <1>5, <1>7, <2>3, <2>6, <3>1
  <2> QED
    BY <2>4, <2>5, <2>6 DEF Elements
<1> QED
  BY <1>3, <1>11, <1>12

LEMMA HeadArrives ==
    ASSUME MemoryTypes, RingInvariant, Memory!Arrive("t1")
    PROVE  RingInvariant'
<1> USE DEF Memory!Both
<1> DEFINE b == mBuffer["t1"]
           c == mBuffer'["t1"]
           head == HeadInMemory
<1>1. PICK pushed, taken, arrived \in Nat : RingAt(pushed, taken, arrived)
  BY DEF RingInvariant
<1>2. /\ Len(b) \in Nat \ {0} /\ Len(c) = Len(b) - 1 /\ \A j \in 1 .. Len(c) : c[j] = b[j + 1]
      /\ \A l \in Memory!Locations :
            mMemory'[l] = IF l = b[1].to THEN b[1].value ELSE mMemory[l]
      /\ mBuffer'["t0"] = mBuffer["t0"]
      /\ UNCHANGED <<mExperiment, mThread, mPopped, mDestroyed>>
  BY StoreArrives
<1>3. /\ head \in Nat /\ head + Len(b) = taken
      /\ \A j \in 1 .. Len(b) : b[j] = Stored(Memory!Var("head"), head + j)
  BY <1>1 DEF RingAt, Bounds, HeadsInOrder
<1>4. b[1].to = Memory!Var("head") /\ b[1].value = head + 1
  <2>1. 1 \in 1 .. Len(b)
    BY <1>2
  <2>2. b[1] = Stored(Memory!Var("head"), head + 1)
    BY <1>3, <2>1
  <2> QED
    BY <2>2 DEF Stored
<1>5. /\ Memory!Var("head") \in Memory!Locations /\ Memory!Var("tail") \in Memory!Locations
      /\ Memory!Var("head") # Memory!Var("tail")
      /\ \A i \in Nat : Memory!Slot(i) \in Memory!Locations /\ Memory!Slot(i) # Memory!Var("head")
  BY LocationsDiffer
<1>6. \A l \in Memory!Locations :
          mMemory'[l] = IF l = Memory!Var("head") THEN head + 1 ELSE mMemory[l]
  BY <1>2, <1>4
<1>7. HeadInMemory' = head + 1 /\ TailInMemory' = TailInMemory
  BY <1>5, <1>6 DEF HeadInMemory, TailInMemory
<1>8. mThread["t0"].at # "joined" /\ mThread["t1"].at # "joined"
  BY <1>1, <1>2 DEF RingAt, RingJoined
<1>9. HeadsInOrder(taken)'
  <2>1. (head + 1) + Len(c) = taken
    <3>1. Len(b) \in Nat /\ Len(c) = Len(b) - 1 /\ head \in Nat /\ head + Len(b) = taken
      BY <1>2, <1>3
    <3> HIDE DEF b, c, head
    <3> QED
      BY <3>1
  <2>2. ASSUME NEW j \in 1 .. Len(c)
        PROVE  c[j] = Stored(Memory!Var("head"), (head + 1) + j)
    <3>1. j + 1 \in 1 .. Len(b) /\ c[j] = b[j + 1] /\ head + (j + 1) = (head + 1) + j
      BY <1>2, <1>3
    <3> QED
      BY <1>3, <3>1
  <2> QED
    BY <1>7, <2>1, <2>2 DEF HeadsInOrder
<1>10. Elements(arrived)'
  <2> SUFFICES ASSUME NEW i \in Nat, head + 1 <= i, 2 * i + 1 <= arrived
               PROVE  mMemory'[Memory!Slot(i)] = i + 1
    BY <1>7 DEF Elements
  <2>1. head <= i
    BY <1>3
  <2>2. mMemory[Memory!Slot(i)] = i + 1
    BY <1>1, <2>1 DEF RingAt, Elements
  <2> QED
    BY <1>5, <1>6, <2>2
<1>11. Bounds(pushed, taken, arrived)'
  <2>1. /\ TailInMemory \in Nat
        /\ 2 * TailInMemory <= arrived /\ arrived <= 2 * TailInMemory + 1
        /\ taken <= TailInMemory /\ pushed <= head + RingSlots
        /\ mThread["t0"].at = "room" => pushed < head + RingSlots
        /\ mThread["t1"].at \in {"item", "read"} => taken < TailInMemory
    BY <1>1 DEF RingAt, Bounds
  <2>2. head + 1 \in Nat /\ head + 1 <= taken /\ RingSlots \in Nat
    BY <1>2, <1>3, MemoryAssumption
  <2>3. /\ pushed <= (head + 1) + RingSlots
        /\ (pushed < head + RingSlots => pushed < (head + 1) + RingSlots)
    BY SMTT(60), <1>3, <2>1, <2>2
  <2> QED
    BY <1>2, <1>7, <2>1, <2>2, <2>3 DEF Bounds
<1>12. /\ StoresInOrder(pushed, arrived)' /\ PoppedAll(taken)' /\ RingPlaces' /\ RingJoined(taken)'
  <2>1. /\ mBuffer'["t0"] = mBuffer["t0"] /\ mThread' = mThread /\ mPopped' = mPopped
    BY <1>2
  <2>2. StoresInOrder(pushed, arrived)'
    BY <1>1, <2>1 DEF RingAt, StoresInOrder
  <2>3. PoppedAll(taken)' /\ RingPlaces'
    BY <1>1, <2>1 DEF RingAt, PoppedAll, RingPlaces
  <2>4. RingJoined(taken)'
    BY <1>8, <2>1 DEF RingJoined
  <2> QED
    BY <2>2, <2>3, <2>4
<1>13. RingAt(pushed, taken, arrived)'
  BY <1>9, <1>10, <1>11, <1>12 DEF RingAt
<1> QED
  BY <1>13 DEF RingInvariant

LEMMA RingMoves ==
    ASSUME MemoryTypes, RingInvariant, mExperiment.name = "ring",
           \/ Memory!PushLook \/ Memory!PopLook
    PROVE  MemoryTypes' /\ RingInvariant' /\ UNCHANGED mExperiment
<1> USE DEF Memory!Both
<1>1. PICK pushed, taken, arrived \in Nat : RingAt(pushed, taken, arrived)
  BY DEF RingInvariant
<1>2. /\ Memory!Load("t0", Memory!Var("tail")) = pushed
      /\ Memory!Load("t0", Memory!Var("head")) = HeadInMemory
      /\ Memory!Load("t1", Memory!Var("head")) = taken
      /\ Memory!Load("t1", Memory!Var("tail")) = TailInMemory
  BY <1>1, RingLoads
<1>3. PICK t \in Memory!Both, p \in {"room", "item"} :
         /\ Memory!Goes(t, p) /\ mThread[t].at = "start"
         /\ UNCHANGED <<mExperiment, mMemory, mBuffer, mPopped, mDestroyed>>
         /\ \/ t = "t0" /\ p = "room" /\ pushed - HeadInMemory # RingSlots
            \/ t = "t1" /\ p = "item" /\ taken # TailInMemory
  <2>1. CASE Memory!PushLook
    <3>1. /\ Memory!Goes("t0", "room") /\ mThread["t0"].at = "start"
          /\ UNCHANGED <<mExperiment, mMemory, mBuffer, mPopped, mDestroyed>>
          /\ pushed - HeadInMemory # RingSlots
      BY <1>2, <2>1 DEF Memory!PushLook, Memory!Here, Memory!Unshared, Memory!Full
    <3> QED
      BY <3>1
  <2>2. CASE Memory!PopLook
    <3>1. /\ Memory!Goes("t1", "item") /\ mThread["t1"].at = "start"
          /\ UNCHANGED <<mExperiment, mMemory, mBuffer, mPopped, mDestroyed>>
          /\ taken # TailInMemory
      BY <1>2, <2>2 DEF Memory!PopLook, Memory!Here, Memory!Unshared
    <3> QED
      BY <3>1
  <2> QED
    BY <2>1, <2>2
<1>4. /\ mThread'[t].at = p /\ \A u \in Memory!Both \ {t} : mThread'[u] = mThread[u]
  BY <1>3, ThreadGoes
<1>5. MemoryTypes'
  BY <1>3, ThreadGoes DEF MemoryTypes
<1>6. HeadInMemory' = HeadInMemory /\ TailInMemory' = TailInMemory
  BY <1>3 DEF HeadInMemory, TailInMemory
<1>7. /\ StoresInOrder(pushed, arrived)' /\ HeadsInOrder(taken)' /\ Elements(arrived)'
  BY <1>1, <1>3, <1>6 DEF RingAt, StoresInOrder, HeadsInOrder, Elements
<1>8. Bounds(pushed, taken, arrived)'
  <2>1. /\ HeadInMemory \in Nat /\ TailInMemory \in Nat
        /\ 2 * TailInMemory <= arrived /\ arrived <= 2 * TailInMemory + 1
        /\ HeadInMemory <= taken /\ taken <= TailInMemory /\ pushed <= HeadInMemory + RingSlots
        /\ mThread["t0"].at = "room" => pushed < HeadInMemory + RingSlots
        /\ mThread["t1"].at \in {"item", "read"} => taken < TailInMemory
    BY <1>1 DEF RingAt, Bounds
  <2>2. RingSlots \in Nat
    BY MemoryAssumption
  <2>3. /\ pushed - HeadInMemory # RingSlots => pushed < HeadInMemory + RingSlots
        /\ taken # TailInMemory => taken < TailInMemory
    BY <2>1, <2>2
  <2>4. /\ mThread'["t0"].at = "room" => pushed < HeadInMemory + RingSlots
        /\ mThread'["t1"].at \in {"item", "read"} => taken < TailInMemory
    BY <1>3, <1>4, <2>1, <2>3
  <2> QED
    BY <1>6, <2>1, <2>4 DEF Bounds
<1>9. PoppedAll(taken)' /\ RingPlaces' /\ RingJoined(taken)'
  <2>1. PoppedAll(taken)'
    BY <1>1, <1>3, <1>4 DEF RingAt, PoppedAll
  <2>2. RingPlaces'
    BY <1>1, <1>3, <1>4 DEF RingAt, RingPlaces
  <2>3. \A u \in Memory!Both : mThread'[u].at # "joined"
    BY <1>1, <1>3, <1>4 DEF RingAt, RingJoined
  <2> QED
    BY <2>1, <2>2, <2>3 DEF RingJoined
<1>10. RingAt(pushed, taken, arrived)'
  BY <1>7, <1>8, <1>9 DEF RingAt
<1> QED
  BY <1>3, <1>5, <1>10 DEF RingInvariant

LEMMA PushKeeps ==
    ASSUME MemoryTypes, RingInvariant, mExperiment.name = "ring", Memory!Push
    PROVE  MemoryTypes' /\ RingInvariant' /\ UNCHANGED mExperiment
<1> USE DEF Memory!Both
<1> DEFINE b == mBuffer["t0"]
           c == mBuffer'["t0"]
<1>1. PICK pushed, taken, arrived \in Nat : RingAt(pushed, taken, arrived)
  BY DEF RingInvariant
<1>2. /\ mThread["t0"].at = "room" /\ Memory!Goes("t0", "start") /\ Memory!Publish
      /\ UNCHANGED <<mExperiment, mMemory, mPopped, mDestroyed>>
  BY DEF Memory!Push, Memory!Here, Memory!Unshared
<1>3. Memory!Load("t0", Memory!Var("tail")) = pushed
  BY <1>1, RingLoads
<1> DEFINE element == Stored(Memory!Slot(pushed), pushed + 1)
           index == Stored(Memory!Var("tail"), pushed + 1)
<1>4. mBuffer' = [mBuffer EXCEPT !["t0"] = @ \o <<element, index>>]
  BY <1>2, <1>3 DEF Memory!Publish, Stored
<1>5. element \in Stores /\ index \in Stores
  BY LocationsDiffer DEF Stored, Stores
<1>6. b \in Seq(Stores) /\ Len(b) \in Nat
  BY DEF MemoryTypes
<1> HIDE DEF element, index
<1>7. <<element, index>> \in Seq(Stores) /\ Len(<<element, index>>) = 2
      /\ <<element, index>>[1] = element /\ <<element, index>>[2] = index
  BY <1>5
<1>8. /\ c = b \o <<element, index>> /\ mBuffer'["t1"] = mBuffer["t1"]
      /\ mBuffer' \in [Memory!Both -> Seq(Stores)]
  BY <1>4, <1>6, <1>7 DEF MemoryTypes
<1>9. /\ Len(c) = Len(b) + 2 /\ c[Len(b) + 1] = element /\ c[Len(b) + 2] = index
      /\ \A j \in 1 .. Len(b) : c[j] = b[j]
  BY <1>6, <1>7, <1>8, ConcatProperties
<1>10. mThread'["t0"].at = "start" /\ mThread'["t1"] = mThread["t1"]
  BY <1>2, ThreadGoes
<1>11. MemoryTypes'
  BY <1>2, <1>8, ThreadGoes DEF MemoryTypes
<1>12. StoresInOrder(pushed + 1, arrived)'
  <2>1. arrived + Len(b) = 2 * pushed
    BY <1>1 DEF RingAt, StoresInOrder
  <2> HIDE DEF b, c
  <2>2. arrived + Len(c) = 2 * (pushed + 1)
    BY SMTT(60), <1>6, <1>9, <2>1
  <2>3. ASSUME NEW j \in 1 .. Len(c), NEW i \in Nat
        PROVE  /\ arrived + j = 2 * i + 1 => c[j] = Stored(Memory!Slot(i), i + 1)
               /\ arrived + j = 2 * i + 2 => c[j] = Stored(Memory!Var("tail"), i + 1)
    <3>1. j \in 1 .. Len(b) \/ j = Len(b) + 1 \/ j = Len(b) + 2
      BY <1>6, <1>9
    <3>2. CASE j \in 1 .. Len(b)
      BY <1>1, <1>9, <3>2 DEF RingAt, StoresInOrder, b
    <3>3. CASE j = Len(b) + 1
      <4>1. arrived + j = 2 * pushed + 1
        BY <1>6, <2>1, <3>3
      <4>2. /\ arrived + j = 2 * i + 1 => i = pushed
            /\ arrived + j # 2 * i + 2
        BY <4>1
      <4> QED
        BY <1>9, <3>3, <4>2 DEF element
    <3>4. CASE j = Len(b) + 2
      <4>1. arrived + j = 2 * pushed + 2
        BY <1>6, <2>1, <3>4
      <4>2. /\ arrived + j = 2 * i + 2 => i = pushed
            /\ arrived + j # 2 * i + 1
        BY <4>1
      <4> QED
        BY <1>9, <3>4, <4>2 DEF index
    <3> QED
      BY <3>1, <3>2, <3>3, <3>4
  <2> QED
    BY <2>2, <2>3 DEF StoresInOrder, c
<1>13. HeadInMemory' = HeadInMemory /\ TailInMemory' = TailInMemory
  BY <1>2 DEF HeadInMemory, TailInMemory
<1>14. HeadsInOrder(taken)' /\ Elements(arrived)' /\ PoppedAll(taken)' /\ RingPlaces'
  BY <1>1, <1>2, <1>8, <1>10, <1>13
     DEF RingAt, HeadsInOrder, Elements, PoppedAll, RingPlaces
<1>15. Bounds(pushed + 1, taken, arrived)'
  <2>1. /\ HeadInMemory \in Nat /\ TailInMemory \in Nat
        /\ 2 * TailInMemory <= arrived /\ arrived <= 2 * TailInMemory + 1
        /\ HeadInMemory <= taken /\ taken <= TailInMemory /\ pushed < HeadInMemory + RingSlots
        /\ mThread["t1"].at \in {"item", "read"} => taken < TailInMemory
    BY <1>1, <1>2 DEF RingAt, Bounds
  <2>2. pushed + 1 <= HeadInMemory + RingSlots
    BY <2>1, MemoryAssumption
  <2> QED
    BY <1>10, <1>13, <2>1, <2>2 DEF Bounds
<1>16. RingJoined(taken)'
  <2>1. \A u \in Memory!Both : mThread'[u].at # "joined"
    BY <1>1, <1>2, <1>10 DEF RingAt, RingJoined
  <2> QED
    BY <2>1 DEF RingJoined
<1>17. RingAt(pushed + 1, taken, arrived)' /\ pushed + 1 \in Nat
  BY <1>12, <1>14, <1>15, <1>16 DEF RingAt
<1> QED
  BY <1>2, <1>11, <1>17 DEF RingInvariant

LEMMA PopReadKeeps ==
    ASSUME MemoryTypes, RingInvariant, mExperiment.name = "ring", Memory!PopRead
    PROVE  MemoryTypes' /\ RingInvariant' /\ UNCHANGED mExperiment
<1> USE DEF Memory!Both
<1>1. PICK pushed, taken, arrived \in Nat : RingAt(pushed, taken, arrived)
  BY DEF RingInvariant
<1>2. /\ mThread["t1"].at = "item" /\ Memory!Goes("t1", "read")
      /\ mPopped' = Append(mPopped, Memory!Load("t1", Memory!Slot(Memory!Load("t1", Memory!Var("head")))))
      /\ UNCHANGED <<mExperiment, mMemory, mBuffer, mDestroyed>>
  BY DEF Memory!PopRead, Memory!Here
<1>3. /\ HeadInMemory \in Nat /\ TailInMemory \in Nat /\ 2 * TailInMemory <= arrived
      /\ HeadInMemory <= taken /\ taken < TailInMemory
  BY <1>1, <1>2 DEF RingAt, Bounds
<1>4. mMemory[Memory!Slot(taken)] = taken + 1
  <2>1. 2 * taken + 1 <= arrived
    BY <1>3
  <2> QED
    BY <1>1, <1>3, <2>1 DEF RingAt, Elements
<1>5. mPopped' = Append(mPopped, taken + 1)
  BY <1>1, <1>2, <1>4, RingLoads
<1>6. mThread'["t1"].at = "read" /\ mThread'["t0"] = mThread["t0"]
  BY <1>2, ThreadGoes
<1>7. MemoryTypes'
  BY <1>2, ThreadGoes DEF MemoryTypes
<1>8. PoppedAll(taken)'
  <2>1. /\ mPopped \in Seq(Int) /\ Len(mPopped) = taken
        /\ \A i \in 1 .. Len(mPopped) : mPopped[i] = i
    BY <1>1, <1>2 DEF RingAt, PoppedAll
  <2>2. /\ mPopped' \in Seq(Int) /\ Len(mPopped') = taken + 1
        /\ \A i \in 1 .. taken : mPopped'[i] = mPopped[i]
        /\ mPopped'[taken + 1] = taken + 1
    <3>1. taken + 1 \in Int
      OBVIOUS
    <3> QED
      BY <1>5, <2>1, <3>1, AppendProperties
  <2>3. \A i \in 1 .. taken + 1 : i \in 1 .. taken \/ i = taken + 1
    OBVIOUS
  <2>4. \A i \in 1 .. taken + 1 : mPopped'[i] = i
    BY <2>1, <2>2, <2>3
  <2> QED
    BY <1>6, <2>2, <2>4 DEF PoppedAll
<1>9. HeadInMemory' = HeadInMemory /\ TailInMemory' = TailInMemory
  BY <1>2 DEF HeadInMemory, TailInMemory
<1>10. /\ StoresInOrder(pushed, arrived)' /\ HeadsInOrder(taken)' /\ Elements(arrived)'
  BY ZenonT(60), <1>1, <1>2, <1>9 DEF RingAt, StoresInOrder, HeadsInOrder, Elements
<1>11. Bounds(pushed, taken, arrived)' /\ RingPlaces'
  BY <1>1, <1>3, <1>6, <1>9 DEF RingAt, Bounds, RingPlaces
<1>12. RingJoined(taken)'
  <2>1. \A u \in Memory!Both : mThread'[u].at # "joined"
    BY <1>1, <1>2, <1>6 DEF RingAt, RingJoined
  <2> QED
    BY <2>1 DEF RingJoined
<1>13. RingAt(pushed, taken, arrived)'
  BY <1>8, <1>10, <1>11, <1>12 DEF RingAt
<1> QED
  BY <1>2, <1>7, <1>13 DEF RingInvariant

LEMMA PopFreeKeeps ==
    ASSUME MemoryTypes, RingInvariant, mExperiment.name = "ring", Memory!PopFree
    PROVE  MemoryTypes' /\ RingInvariant' /\ UNCHANGED mExperiment
<1> USE DEF Memory!Both
<1> DEFINE b == mBuffer["t1"]
           c == mBuffer'["t1"]
<1>1. PICK pushed, taken, arrived \in Nat : RingAt(pushed, taken, arrived)
  BY DEF RingInvariant
<1>2. /\ mThread["t1"].at = "read" /\ Memory!Goes("t1", "start")
      /\ Memory!Store("t1", Memory!Var("head"), taken + 1)
      /\ UNCHANGED <<mExperiment, mMemory, mPopped, mDestroyed>>
  BY <1>1, RingLoads DEF Memory!PopFree, Memory!Here, Memory!Unshared
<1>3. /\ mBuffer' \in [Memory!Both -> Seq(Stores)] /\ mBuffer'["t0"] = mBuffer["t0"]
      /\ Len(c) = Len(b) + 1 /\ c[Len(b) + 1] = Stored(Memory!Var("head"), taken + 1)
      /\ \A j \in 1 .. Len(b) : c[j] = b[j]
  BY <1>2, StoreWaits, LocationsDiffer
<1>4. mThread'["t1"].at = "start" /\ mThread'["t0"] = mThread["t0"]
  BY <1>2, ThreadGoes
<1>5. MemoryTypes'
  BY <1>2, <1>3, ThreadGoes DEF MemoryTypes
<1>6. HeadInMemory' = HeadInMemory /\ TailInMemory' = TailInMemory
  BY <1>2 DEF HeadInMemory, TailInMemory
<1>7. /\ HeadInMemory \in Nat /\ HeadInMemory + Len(b) = taken /\ Len(b) \in Nat
      /\ \A j \in 1 .. Len(b) : b[j] = Stored(Memory!Var("head"), HeadInMemory + j)
  BY <1>1 DEF RingAt, Bounds, HeadsInOrder, MemoryTypes
<1>8. HeadsInOrder(taken + 1)'
  <2> HIDE DEF b, c
  <2>1. HeadInMemory + Len(c) = taken + 1 /\ taken + 1 = HeadInMemory + (Len(b) + 1)
    BY <1>3, <1>7
  <2>2. \A j \in 1 .. Len(c) : j \in 1 .. Len(b) \/ j = Len(b) + 1
    BY <1>3, <1>7
  <2>3. \A j \in 1 .. Len(c) : c[j] = Stored(Memory!Var("head"), HeadInMemory + j)
    BY <1>3, <1>7, <2>1, <2>2
  <2> QED
    BY <1>6, <2>1, <2>3 DEF HeadsInOrder, c
<1>9. StoresInOrder(pushed, arrived)' /\ Elements(arrived)' /\ RingPlaces'
  BY <1>1, <1>2, <1>3, <1>4, <1>6 DEF RingAt, StoresInOrder, Elements, RingPlaces
<1>10. Bounds(pushed, taken + 1, arrived)'
  <2>1. /\ HeadInMemory \in Nat /\ TailInMemory \in Nat
        /\ 2 * TailInMemory <= arrived /\ arrived <= 2 * TailInMemory + 1
        /\ HeadInMemory <= taken /\ taken < TailInMemory /\ pushed <= HeadInMemory + RingSlots
        /\ mThread["t0"].at = "room" => pushed < HeadInMemory + RingSlots
    BY <1>1, <1>2 DEF RingAt, Bounds
  <2>2. HeadInMemory <= taken + 1 /\ taken + 1 <= TailInMemory
    BY <2>1
  <2> QED
    BY <1>4, <1>6, <2>1, <2>2 DEF Bounds
<1>11. PoppedAll(taken + 1)'
  BY <1>1, <1>2, <1>4 DEF RingAt, PoppedAll
<1>12. RingJoined(taken + 1)'
  <2>1. \A u \in Memory!Both : mThread'[u].at # "joined"
    BY <1>1, <1>2, <1>4 DEF RingAt, RingJoined
  <2> QED
    BY <2>1 DEF RingJoined
<1>13. RingAt(pushed, taken + 1, arrived)' /\ taken + 1 \in Nat
  BY <1>8, <1>9, <1>10, <1>11, <1>12 DEF RingAt
<1> QED
  BY <1>2, <1>5, <1>13 DEF RingInvariant

LEMMA DestroyKeeps ==
    ASSUME MemoryTypes, RingInvariant, mExperiment.name = "ring", Memory!DestroyRing
    PROVE  MemoryTypes' /\ RingInvariant' /\ UNCHANGED mExperiment
<1> USE DEF Memory!Both
<1>1. PICK pushed, taken, arrived \in Nat : RingAt(pushed, taken, arrived)
  BY DEF RingInvariant
<1>2. /\ \A t \in Memory!Both : mThread[t].at = "start" /\ mBuffer[t] = <<>>
      /\ mDestroyed' = {mMemory[Memory!Slot(i)] : i \in HeadInMemory .. TailInMemory - 1}
      /\ mThread' = [t \in Memory!Both |-> [mThread[t] EXCEPT !.at = "joined"]]
      /\ UNCHANGED <<mExperiment, mMemory, mBuffer, mPopped>>
  BY DEF Memory!DestroyRing, Memory!Here, Memory!Drained, HeadInMemory, TailInMemory
<1>3. \A t \in Memory!Both : Len(mBuffer[t]) = 0
  BY <1>2
<1>4. /\ HeadInMemory \in Nat /\ TailInMemory \in Nat /\ 2 * TailInMemory <= arrived
      /\ HeadInMemory = taken
  BY <1>1, <1>3 DEF RingAt, Bounds, HeadsInOrder
<1>5. mDestroyed' = taken + 1 .. TailInMemory
  <2>1. \A i \in HeadInMemory .. TailInMemory - 1 : mMemory[Memory!Slot(i)] = i + 1
    <3> SUFFICES ASSUME NEW i \in HeadInMemory .. TailInMemory - 1
                 PROVE  mMemory[Memory!Slot(i)] = i + 1
      OBVIOUS
    <3>1. i \in Nat /\ HeadInMemory <= i /\ 2 * i + 1 <= arrived
      BY <1>4
    <3> QED
      BY <1>1, <3>1 DEF RingAt, Elements
  <2>2. mDestroyed' = {i + 1 : i \in taken .. TailInMemory - 1}
    BY SMTT(60), <1>2, <1>4, <2>1
  <2>3. \A n \in taken + 1 .. TailInMemory :
           n - 1 \in taken .. TailInMemory - 1 /\ n = (n - 1) + 1
    BY <1>4
  <2>4. \A i \in taken .. TailInMemory - 1 : i + 1 \in taken + 1 .. TailInMemory
    BY <1>4
  <2> QED
    BY <2>2, <2>3, <2>4
<1>6. \A t \in Memory!Both : mThread'[t] = [at |-> "joined", register |-> mThread[t].register]
  <2> SUFFICES ASSUME NEW t \in Memory!Both
               PROVE  mThread'[t] = [at |-> "joined", register |-> mThread[t].register]
    OBVIOUS
  <2>1. mThread'[t] = [mThread[t] EXCEPT !.at = "joined"]
    BY <1>2
  <2>2. mThread[t] = [at |-> mThread[t].at, register |-> mThread[t].register]
    BY DEF MemoryTypes
  <2> QED
    BY <2>1, <2>2
<1>7. MemoryTypes'
  BY <1>2, <1>6 DEF MemoryTypes
<1>8. HeadInMemory' = HeadInMemory /\ TailInMemory' = TailInMemory
  BY <1>2 DEF HeadInMemory, TailInMemory
<1>9. /\ StoresInOrder(pushed, arrived)' /\ HeadsInOrder(taken)' /\ Elements(arrived)'
  BY <1>1, <1>2, <1>8 DEF RingAt, StoresInOrder, HeadsInOrder, Elements
<1>10. Bounds(pushed, taken, arrived)' /\ RingPlaces' /\ PoppedAll(taken)'
  BY <1>1, <1>2, <1>6, <1>8 DEF RingAt, Bounds, RingPlaces, PoppedAll
<1>11. RingJoined(taken)'
  BY <1>2, <1>3, <1>5, <1>6, <1>8 DEF RingJoined
<1>12. RingAt(pushed, taken, arrived)'
  BY <1>9, <1>10, <1>11 DEF RingAt
<1> QED
  BY <1>2, <1>7, <1>12 DEF RingInvariant

(***************************************************************************)
(* The three programs together                                             *)
(***************************************************************************)
MemoryInvariant ==
    /\ MemoryTypes
    /\ mExperiment.name = "litmus" => LitmusInvariant
    /\ mExperiment.name = "message" => MessageInvariant
    /\ mExperiment.name = "ring" => RingInvariant

LEMMA MemoryBegins == ASSUME Memory!MemoryInit PROVE MemoryInvariant
<1> USE DEF Memory!Both
<1>1. /\ mMemory = [l \in Memory!Locations |-> 0] /\ mBuffer = [t \in Memory!Both |-> <<>>]
      /\ mThread = [t \in Memory!Both |-> [at |-> "start", register |-> -1]]
      /\ mPopped = <<>>
      /\ \/ mExperiment \in [name : {"litmus"}, seqCst : BOOLEAN, round : {0}, zeroZero : {0}]
         \/ mExperiment \in [name : {"message"}, parks : BOOLEAN]
         \/ mExperiment \in [name : {"ring"}]
  BY DEF Memory!MemoryInit
<1>2. /\ mExperiment \in Rounds \cup [name : {"message"}, parks : BOOLEAN] \cup [name : {"ring"}]
      /\ mExperiment.name = "litmus" => mExperiment.zeroZero = 0
  <2>1. CASE mExperiment \in [name : {"litmus"}, seqCst : BOOLEAN, round : {0}, zeroZero : {0}]
    BY <2>1 DEF Rounds
  <2>2. CASE mExperiment \in [name : {"message"}, parks : BOOLEAN]
    BY <2>2
  <2>3. CASE mExperiment \in [name : {"ring"}]
    BY <2>3
  <2> QED
    BY <1>1, <2>1, <2>2, <2>3
<1>3. \A t \in Memory!Both : mBuffer[t] = <<>> /\ Len(mBuffer[t]) = 0
                             /\ mThread[t] = [at |-> "start", register |-> -1]
  BY <1>1
<1>4. \A l \in Memory!Locations : mMemory[l] = 0
  BY <1>1
<1>5. MemoryTypes
  BY <1>1, <1>2, <1>3 DEF MemoryTypes, Rounds
<1>6. mExperiment.name = "litmus" => LitmusInvariant
  <2>1. \A t \in Memory!Both : Flagged(t)
    BY <1>3, <1>4, LocationsDiffer DEF Flagged
  <2>2. ~BothMissed
    BY <1>3 DEF BothMissed
  <2> QED
    BY <1>1, <1>2, <1>3, <2>1, <2>2 DEF LitmusInvariant
<1>7. mExperiment.name = "message" => MessageInvariant
  <2>1. mMemory[Memory!Var("ready")] = 0
    BY <1>4, LocationsDiffer
  <2> QED
    BY <1>1, <1>3, <2>1 DEF MessageInvariant
<1>8. RingAt(0, 0, 0)
  <2>1. HeadInMemory = 0 /\ TailInMemory = 0
    BY <1>4, LocationsDiffer DEF HeadInMemory, TailInMemory
  <2>2. StoresInOrder(0, 0) /\ HeadsInOrder(0)
    BY <1>3, <2>1 DEF StoresInOrder, HeadsInOrder
  <2>3. Elements(0)
    BY DEF Elements
  <2>4. Bounds(0, 0, 0)
    BY <1>3, <2>1, MemoryAssumption DEF Bounds
  <2>5. PoppedAll(0)
    BY <1>1, <1>3 DEF PoppedAll
  <2>6. RingPlaces /\ RingJoined(0)
    BY <1>3 DEF RingPlaces, RingJoined
  <2> QED
    BY <2>2, <2>3, <2>4, <2>5, <2>6 DEF RingAt
<1> QED
  BY <1>5, <1>6, <1>7, <1>8 DEF MemoryInvariant, RingInvariant

LEMMA MemoryStep == ASSUME MemoryInvariant, Memory!MemoryNext PROVE MemoryInvariant'
<1> USE DEF Memory!Both
<1>1. mExperiment.name \in {"litmus", "message", "ring"}
  BY DEF MemoryInvariant, MemoryTypes
<1>2. CASE mExperiment.name = "litmus"
  <2>1. MemoryTypes /\ LitmusInvariant
    BY <1>2 DEF MemoryInvariant
  <2>2. \/ \E t \in Memory!Both : Memory!Arrive(t) \/ Memory!LitmusStore(t) \/ Memory!LitmusLoad(t)
        \/ Memory!Barrier
    BY <1>2 DEF Memory!MemoryNext, Memory!MessageWrite, Memory!MessagePublish, Memory!MessageLook,
                Memory!MessageNotify, Memory!MessageRead, Memory!PushLook, Memory!Push,
                Memory!PopLook, Memory!PopRead, Memory!PopFree, Memory!DestroyRing, Memory!Here
  <2>3. MemoryTypes' /\ LitmusInvariant'
    BY <1>2, <2>1, <2>2, LitmusArrives, LitmusStores, LitmusLoads, BarrierKeeps
  <2>4. mExperiment'.name = "litmus"
    <3>1. CASE Memory!Barrier
      BY <1>2, <2>1, <3>1, BarrierKeeps
    <3>2. ASSUME NEW t \in Memory!Both,
                 Memory!Arrive(t) \/ Memory!LitmusStore(t) \/ Memory!LitmusLoad(t)
          PROVE  mExperiment' = mExperiment
      BY <3>2 DEF Memory!Arrive, Memory!LitmusStore, Memory!LitmusLoad, Memory!Unshared
    <3> QED
      BY <1>2, <2>2, <3>1, <3>2
  <2> QED
    BY <2>3, <2>4 DEF MemoryInvariant
<1>3. CASE mExperiment.name = "message"
  <2>1. MemoryTypes /\ MessageInvariant
    BY <1>3 DEF MemoryInvariant
  <2>2. \/ \E t \in Memory!Both : Memory!Arrive(t)
        \/ Memory!MessageWrite \/ Memory!MessagePublish \/ Memory!MessageLook
        \/ Memory!MessageNotify \/ Memory!MessageRead
    BY <1>3 DEF Memory!MemoryNext, Memory!LitmusStore, Memory!LitmusLoad, Memory!Barrier,
                Memory!PushLook, Memory!Push, Memory!PopLook, Memory!PopRead, Memory!PopFree,
                Memory!DestroyRing, Memory!Here
  <2>3. MemoryTypes' /\ MessageInvariant'
    BY <2>1, <2>2, MessageArrives, MessageMoves
  <2>4. mExperiment' = mExperiment
    BY <2>1, <2>2, MessageMoves DEF Memory!Arrive
  <2> QED
    BY <1>3, <2>3, <2>4 DEF MemoryInvariant
<1>4. CASE mExperiment.name = "ring"
  <2>1. MemoryTypes /\ RingInvariant
    BY <1>4 DEF MemoryInvariant
  <2>2. \/ \E t \in Memory!Both : Memory!Arrive(t)
        \/ Memory!PushLook \/ Memory!PopLook \/ Memory!Push \/ Memory!PopRead \/ Memory!PopFree
        \/ Memory!DestroyRing
    BY <1>4 DEF Memory!MemoryNext, Memory!LitmusStore, Memory!LitmusLoad, Memory!Barrier,
                Memory!MessageWrite, Memory!MessagePublish, Memory!MessageLook,
                Memory!MessageNotify, Memory!MessageRead, Memory!Here
  <2>3. ASSUME NEW t \in Memory!Both, Memory!Arrive(t)
        PROVE  MemoryTypes' /\ RingInvariant' /\ UNCHANGED mExperiment
    <3>1. MemoryTypes' /\ UNCHANGED mExperiment
      BY <2>1, <2>3, StoreArrives DEF MemoryTypes
    <3> QED
      BY <2>1, <2>3, <3>1, ElementArrives, HeadArrives
  <2>4. MemoryTypes' /\ RingInvariant' /\ UNCHANGED mExperiment
    BY <1>4, <2>1, <2>2, <2>3, RingMoves, PushKeeps, PopReadKeeps, PopFreeKeeps, DestroyKeeps
  <2> QED
    BY <1>4, <2>4 DEF MemoryInvariant
<1> QED
  BY <1>1, <1>2, <1>3, <1>4

LEMMA MemoryStutter ==
    ASSUME MemoryInvariant, UNCHANGED <<s1, s2, s3, s4, s5, s6>>
    PROVE  MemoryInvariant'
<1>1. MemoryTypes' = MemoryTypes
  BY DEF MemoryTypes
<1>2. (\A t \in Memory!Both : Flagged(t)' = Flagged(t)) /\ BothMissed' = BothMissed
  BY DEF Flagged, BothMissed
<1>3. LitmusInvariant' = LitmusInvariant
  BY <1>2 DEF LitmusInvariant
<1>4. MessageInvariant' = MessageInvariant
  BY DEF MessageInvariant, ToldData
<1>5. ASSUME NEW pushed \in Nat, NEW taken \in Nat, NEW arrived \in Nat,
             RingAt(pushed, taken, arrived)
      PROVE  RingAt(pushed, taken, arrived)'
  <2>1. HeadInMemory' = HeadInMemory /\ TailInMemory' = TailInMemory
    BY DEF HeadInMemory, TailInMemory
  <2>2. /\ StoresInOrder(pushed, arrived)' /\ HeadsInOrder(taken)' /\ Elements(arrived)'
        /\ PoppedAll(taken)'
    BY ZenonT(60), <1>5, <2>1 DEF RingAt, StoresInOrder, HeadsInOrder, Elements, PoppedAll
  <2>3. Bounds(pushed, taken, arrived)' /\ RingPlaces' /\ RingJoined(taken)'
    BY <1>5, <2>1 DEF RingAt, Bounds, RingPlaces, RingJoined
  <2> QED
    BY <2>2, <2>3 DEF RingAt
<1>6. RingInvariant => RingInvariant'
  BY <1>5 DEF RingInvariant
<1> QED
  BY <1>1, <1>3, <1>4, <1>6 DEF MemoryInvariant

LEMMA MemoryHolds == ASSUME MemoryInvariant PROVE Memory!OrderIsKept /\ Memory!RingInOrder
<1> USE DEF Memory!Both
<1>1. mExperiment.name \in {"litmus", "message", "ring"}
  BY DEF MemoryInvariant, MemoryTypes
<1>2. mExperiment.name = "litmus" /\ mExperiment.seqCst => mExperiment.zeroZero = 0
  BY DEF MemoryInvariant, LitmusInvariant
<1>3. mThread["t1"].at = "done" => mThread["t1"].register = 42
  BY <1>1 DEF MemoryInvariant, LitmusInvariant, MessageInvariant, RingInvariant, RingAt, RingPlaces
<1>4. CASE mExperiment.name \in {"litmus", "message"}
  <2>1. mPopped = <<>> /\ mThread["t0"].at # "joined"
    BY <1>4 DEF MemoryInvariant, LitmusInvariant, MessageInvariant
  <2> QED
    BY <1>2, <1>3, <2>1 DEF Memory!OrderIsKept, Memory!RingInOrder
<1>5. CASE mExperiment.name = "ring"
  <2>1. PICK pushed, taken, arrived \in Nat : RingAt(pushed, taken, arrived)
    BY <1>5 DEF MemoryInvariant, RingInvariant
  <2>2. \A i \in DOMAIN mPopped : mPopped[i] = i
    BY <2>1 DEF RingAt, PoppedAll
  <2>3. ASSUME mThread["t0"].at = "joined"
        PROVE  mDestroyed = Len(mPopped) + 1 .. TailInMemory
    <3>1. mThread["t1"].at = "joined" /\ mDestroyed = taken + 1 .. TailInMemory
      BY <2>1, <2>3 DEF RingAt, RingJoined
    <3>2. Len(mPopped) = taken
      BY <2>1, <3>1 DEF RingAt, PoppedAll
    <3> QED
      BY <3>1, <3>2
  <2> QED
    BY <1>2, <1>3, <2>2, <2>3 DEF Memory!OrderIsKept, Memory!RingInOrder, TailInMemory
<1> QED
  BY <1>1, <1>4, <1>5

(***************************************************************************)
(* Gateway                                                                 *)
(***************************************************************************)
fOptions == s1
fGateway == s2
fSubscriber == s3
fBus == s4
fTransmitted == s5
fFrames == s6
fSequence == s7
fHeld == s8
fQueue == s9
fTracker == s10
fShown == s11
fGone == s12
USE DEF fOptions, fGateway, fSubscriber, fBus, fTransmitted, fFrames, fSequence, fHeld, fQueue,
        fTracker, fShown, fGone

ElementsIn(s) == Forwarding!Ext!ToSet(s)     \* of a sequence

Transmissions == Nat \ {0}
Datagrams == [sequence : Nat, frames : Seq(Transmissions)]
Queued == ElementsIn(fQueue)
InFlight == Queued \cup ({fHeld} \ {Forwarding!NothingHeld})

ForwardTypes ==
    /\ fOptions \in [gatewayInterface : Interfaces \cup {NoInterface},
                     subscriberInterface : Interfaces, can : BOOLEAN, naive : BOOLEAN]
    /\ fGateway \in [calls : Nat, phase : {"set-up", "cycle", "collect", "publish", "over"},
                     tick : 0 .. GatewayCycles,
                     interface : Interfaces \cup {NoInterface, Routed}, loopback : BOOLEAN]
    /\ fSubscriber \in [calls : Nat, phase : {"set-up", "wait", "over"}, bound : BOOLEAN,
                        joined : SUBSET (Interfaces \cup {NoInterface})]
    /\ fBus \in Seq(Nat) /\ fTransmitted \in Nat /\ fFrames \in Seq(Transmissions)
    /\ fSequence \in Nat /\ fHeld \in Datagrams \cup {Forwarding!NothingHeld}
    /\ fQueue \in Seq(Datagrams)
    /\ fTracker \in [started : BOOLEAN, highest : Nat, accepted : Nat, lost : Int, stale : Nat]
    /\ fShown \in Seq(Transmissions)
    /\ fGone \subseteq Transmissions

\* A cycle uses one number, so that no two numbers are half of the range apart.
FarFromWrap ==
    /\ fSequence <= fGateway.tick
    /\ fGateway.phase \in {"collect", "publish"} => fSequence < fGateway.tick
    /\ \A d \in InFlight : d.sequence < fSequence
    /\ fTracker.started => fTracker.highest < fSequence

\* Only where the batch is collected is there one.
Collected ==
    /\ fGateway.phase \in {"set-up", "cycle"} => fFrames = <<>>
    /\ fOptions.can = FALSE => fBus = <<>> /\ (fGateway.phase = "collect" => fFrames = <<>>)

\* A datagram goes where the two options meet.
SameInterface ==
    /\ fGateway.phase # "over" /\ fGateway.calls > 2 =>
          fGateway.interface = fOptions.gatewayInterface
    /\ fGateway.phase \in {"cycle", "collect", "publish"} => fGateway.calls > 2
    /\ fSubscriber.joined \subseteq {fOptions.subscriberInterface}
    /\ fQueue # <<>> \/ fShown # <<>> =>
          fOptions.gatewayInterface = fOptions.subscriberInterface

Ascends(s) == \A i, j \in DOMAIN s : i < j => s[i] < s[j]
Before(S, T) == \A f \in S, g \in T : f < g
DataOf(s) == Forwarding!Members(s)
Waiting == DataOf(fFrames) \cup DataOf(fBus)

\* The frames of the bus are transmitted in the order of their numbers, and what
\* was taken from it earlier is in a datagram with a smaller number.
FramesInOrder ==
    /\ Ascends(fFrames)
    /\ \A i, j \in DOMAIN fBus : i < j /\ fBus[j] # 0 => fBus[i] < fBus[j]
    /\ Before(DataOf(fFrames), DataOf(fBus))
    /\ \A d \in InFlight : Ascends(d.frames) /\ Before(DataOf(d.frames), Waiting)
    /\ \A d, e \in InFlight : d.sequence < e.sequence => Before(DataOf(d.frames), DataOf(e.frames))

\* What is displayed is older than what will be.
ShownFirst ==
    /\ Before(DataOf(fShown), Waiting)
    /\ fTracker.started = FALSE => fShown = <<>>
    /\ fOptions.naive = FALSE =>
          /\ Ascends(fShown)
          /\ \A d \in InFlight :
                fTracker.started = FALSE \/ fTracker.highest < d.sequence =>
                   Before(DataOf(fShown), DataOf(d.frames))

\* Every frame in a datagram under way or held back, and where all frames are.
Carried == UNION {DataOf(d.frames) : d \in InFlight}

Accounted == 1 .. fTransmitted = Waiting \cup Carried \cup DataOf(fShown) \cup fGone

ForwardInvariant ==
    /\ ForwardTypes /\ FarFromWrap /\ Collected /\ SameInterface /\ FramesInOrder /\ ShownFirst
    /\ Accounted

LEMMA InElements == \A s, x : x \in ElementsIn(s) <=> \E i \in DOMAIN s : x = s[i]
  BY Zenon DEF ElementsIn, Forwarding!Ext!ToSet

\* The frames of sequences put together, and cut.
LEMMA DataOfEmpty == DataOf(<<>>) = {}
  BY DEF DataOf, Forwarding!Members, Forwarding!Ext!ToSet

LEMMA DataOfAppend ==
    ASSUME NEW S, NEW s \in Seq(S), NEW e \in S
    PROVE  DataOf(Append(s, e)) = DataOf(s) \cup ({e} \ {0})
<1>1. /\ DOMAIN Append(s, e) = 1 .. Len(s) + 1 /\ DOMAIN s = 1 .. Len(s) /\ Len(s) \in Nat
      /\ \A i \in 1 .. Len(s) : Append(s, e)[i] = s[i]
      /\ Append(s, e)[Len(s) + 1] = e
  OBVIOUS
<1>2. {Append(s, e)[i] : i \in DOMAIN Append(s, e)} = {s[i] : i \in DOMAIN s} \cup {e}
  BY <1>1
<1> QED
  BY <1>2, Zenon DEF DataOf, Forwarding!Members, Forwarding!Ext!ToSet

LEMMA ElementsOfTail ==
    ASSUME NEW S, NEW s \in Seq(S), s # <<>>
    PROVE  /\ ElementsIn(s) = {Head(s)} \cup ElementsIn(Tail(s))
           /\ Head(s) \in S /\ Tail(s) \in Seq(S)
<1>1. /\ DOMAIN s = 1 .. Len(s) /\ Len(s) \in Nat \ {0} /\ DOMAIN Tail(s) = 1 .. Len(s) - 1
      /\ Head(s) = s[1] /\ \A i \in 1 .. Len(s) - 1 : Tail(s)[i] = s[i + 1]
  OBVIOUS
<1>2. ASSUME NEW i \in DOMAIN s
      PROVE  s[i] = Head(s) \/ \E k \in DOMAIN Tail(s) : s[i] = Tail(s)[k]
  <2>1. CASE i = 1
    BY <1>1, <2>1
  <2>2. CASE i # 1
    <3>1. i - 1 \in 1 .. Len(s) - 1 /\ s[i] = Tail(s)[i - 1]
      BY <1>1, <1>2, <2>2
    <3> QED
      BY <1>1, <3>1
  <2> QED
    BY <2>1, <2>2
<1>3. ASSUME NEW i \in DOMAIN Tail(s) PROVE \E k \in DOMAIN s : Tail(s)[i] = s[k]
  <2>1. i + 1 \in 1 .. Len(s) /\ Tail(s)[i] = s[i + 1]
    BY <1>1, <1>3
  <2> QED
    BY <1>1, <2>1
<1>4. \E k \in DOMAIN s : Head(s) = s[k]
  BY <1>1
<1>5. Head(s) \in S /\ Tail(s) \in Seq(S)
  OBVIOUS
<1>6. ASSUME NEW x, x \in ElementsIn(s) PROVE x = Head(s) \/ x \in ElementsIn(Tail(s))
  <2>1. PICK i \in DOMAIN s : x = s[i]
    BY <1>6, InElements, Zenon
  <2> QED
    BY <1>2, <2>1, InElements, Zenon
<1>7. ASSUME NEW x, x = Head(s) \/ x \in ElementsIn(Tail(s)) PROVE x \in ElementsIn(s)
  <2>1. CASE x = Head(s)
    BY <1>4, <2>1, InElements, Zenon
  <2>2. CASE x \in ElementsIn(Tail(s))
    <3>1. PICK i \in DOMAIN Tail(s) : x = Tail(s)[i]
      BY <2>2, InElements, Zenon
    <3> QED
      BY <1>3, <3>1, InElements, Zenon
  <2> QED
    BY <1>7, <2>1, <2>2
<1> QED
  BY <1>5, <1>6, <1>7

LEMMA DataOfTail ==
    ASSUME NEW S, NEW s \in Seq(S), s # <<>>
    PROVE  DataOf(s) = ({Head(s)} \ {0}) \cup DataOf(Tail(s))
<1>1. \A r : DataOf(r) = ElementsIn(r) \ {0}
  BY Zenon DEF DataOf, Forwarding!Members, ElementsIn
<1>2. ElementsIn(s) = {Head(s)} \cup ElementsIn(Tail(s))
  BY ElementsOfTail, Zenon
<1> QED
  BY <1>1, <1>2

LEMMA ElementsOfConcatenation ==
    ASSUME NEW S, NEW s \in Seq(S), NEW t \in Seq(S)
    PROVE  ElementsIn(s \o t) = ElementsIn(s) \cup ElementsIn(t)
<1>1. /\ DOMAIN (s \o t) = 1 .. Len(s) + Len(t) /\ DOMAIN s = 1 .. Len(s) /\ DOMAIN t = 1 .. Len(t)
      /\ Len(s) \in Nat /\ Len(t) \in Nat
      /\ \A i \in 1 .. Len(s) + Len(t) : (s \o t)[i] = IF i <= Len(s) THEN s[i] ELSE t[i - Len(s)]
  OBVIOUS
<1>2. ASSUME NEW i \in DOMAIN s PROVE \E k \in DOMAIN (s \o t) : s[i] = (s \o t)[k]
  BY <1>1, <1>2
<1>3. ASSUME NEW i \in DOMAIN t PROVE \E k \in DOMAIN (s \o t) : t[i] = (s \o t)[k]
  <2>1. Len(s) + i \in DOMAIN (s \o t) /\ (s \o t)[Len(s) + i] = t[i]
    BY <1>1, <1>3
  <2> QED
    BY <2>1
<1>4. ASSUME NEW k \in DOMAIN (s \o t)
      PROVE  \/ \E i \in DOMAIN s : (s \o t)[k] = s[i]
             \/ \E i \in DOMAIN t : (s \o t)[k] = t[i]
  <2>1. CASE k <= Len(s)
    BY <1>1, <1>4, <2>1
  <2>2. CASE ~(k <= Len(s))
    <3>1. k - Len(s) \in DOMAIN t /\ (s \o t)[k] = t[k - Len(s)]
      BY <1>1, <1>4, <2>2
    <3> QED
      BY <3>1
  <2> QED
    BY <2>1, <2>2
<1>5. ASSUME NEW x, x \in ElementsIn(s \o t) PROVE x \in ElementsIn(s) \/ x \in ElementsIn(t)
  <2>1. PICK k \in DOMAIN (s \o t) : x = (s \o t)[k]
    BY <1>5, InElements, Zenon
  <2> QED
    BY <1>4, <2>1, InElements, Zenon
<1>6. ASSUME NEW x, x \in ElementsIn(s) PROVE x \in ElementsIn(s \o t)
  <2>1. PICK i \in DOMAIN s : x = s[i]
    BY <1>6, InElements, Zenon
  <2> QED
    BY <1>2, <2>1, InElements, Zenon
<1>7. ASSUME NEW x, x \in ElementsIn(t) PROVE x \in ElementsIn(s \o t)
  <2>1. PICK i \in DOMAIN t : x = t[i]
    BY <1>7, InElements, Zenon
  <2> QED
    BY <1>3, <2>1, InElements, Zenon
<1> QED
  BY <1>5, <1>6, <1>7

LEMMA DataOfConcatenation ==
    ASSUME NEW S, NEW s \in Seq(S), NEW t \in Seq(S)
    PROVE  DataOf(s \o t) = DataOf(s) \cup DataOf(t)
<1>1. \A r : DataOf(r) = ElementsIn(r) \ {0}
  BY Zenon DEF DataOf, Forwarding!Members, ElementsIn
<1> QED
  BY <1>1, ElementsOfConcatenation

\* A sequence without 0 holds data only.
LEMMA DataOfFrames ==
    ASSUME NEW s \in Seq(Transmissions)
    PROVE  DataOf(s) = Forwarding!Ext!ToSet(s) /\ DataOf(s) \subseteq Transmissions
<1>1. \A i \in DOMAIN s : s[i] \in Transmissions
  OBVIOUS
<1>2. 0 \notin Transmissions
  BY DEF Transmissions
<1> QED
  BY <1>1, <1>2, Zenon DEF DataOf, Forwarding!Members, Forwarding!Ext!ToSet

LEMMA CarriedAreInDatagrams == Forwarding!InDatagrams = Carried
<1>1. DataOf(Forwarding!NothingHeld.frames) = {}
  BY DataOfEmpty DEF Forwarding!NothingHeld
<1>2. \A x : x \in Forwarding!InDatagrams <=> \/ \E d \in Queued : x \in DataOf(d.frames)
                                              \/ x \in DataOf(fHeld.frames)
  <2> HIDE DEF fQueue, fHeld
  <2>1. \A x : x \in Forwarding!InDatagrams
                <=> \/ \E i \in DOMAIN fQueue : x \in DataOf(fQueue[i].frames)
                    \/ x \in DataOf(fHeld.frames)
    <3> DEFINE Q == UNION {DataOf(fQueue[i].frames) : i \in DOMAIN fQueue}
    <3>1. Forwarding!InDatagrams = Q \cup DataOf(fHeld.frames)
      BY Zenon DEF Forwarding!InDatagrams, DataOf, fQueue, fHeld
    <3>2. \A x : x \in Q <=> \E i \in DOMAIN fQueue : x \in DataOf(fQueue[i].frames)
      OBVIOUS
    <3> QED
      BY <3>1, <3>2
  <2>2. \A d : d \in Queued <=> \E i \in DOMAIN fQueue : d = fQueue[i]
    BY InElements, Zenon DEF Queued
  <2> QED
    BY <2>1, <2>2, Zenon
<1>3. \A x : x \in Carried <=> \E d \in InFlight : x \in DataOf(d.frames)
  BY Zenon DEF Carried
<1>4. \A x : x \in Forwarding!InDatagrams <=> x \in Carried
  BY <1>1, <1>2, <1>3, Zenon DEF InFlight
<1> QED
  BY <1>4, Zenon

LEMMA ForwardHolds == ForwardInvariant => Forwarding!NoFrameVanishes /\ Forwarding!BusOrder
<1> SUFFICES ASSUME ForwardInvariant PROVE Forwarding!NoFrameVanishes /\ Forwarding!BusOrder
  OBVIOUS
<1>1. 1 .. fTransmitted = DataOf(fBus) \cup DataOf(fFrames) \cup Forwarding!InDatagrams
                            \cup DataOf(fShown) \cup fGone
  BY CarriedAreInDatagrams DEF ForwardInvariant, Accounted, Waiting
<1>2. Forwarding!NoFrameVanishes
  BY <1>1, Zenon DEF Forwarding!NoFrameVanishes, DataOf
<1>3. Forwarding!BusOrder
  BY DEF ForwardInvariant, ShownFirst, SameInterface, ForwardTypes, Ascends, Forwarding!BusOrder
<1> QED
  BY <1>2, <1>3

LEMMA AllTransmitted ==
    ASSUME Accounted
    PROVE  Waiting \cup Carried \cup DataOf(fShown) \cup fGone \subseteq 1 .. fTransmitted
  BY DEF Accounted

\* Far from the wrap, numbers are compared as they are.
LEMMA NumbersAreCompared ==
    ASSUME NEW a \in Nat, NEW b \in Nat, a < GatewayCycles, b < GatewayCycles
    PROVE  Forwarding!Numbered!Delta(a, b) = a - b
<1>1. /\ GatewayCycles \in Nat /\ SequenceNumbers \in Nat /\ 2 * GatewayCycles <= SequenceNumbers
  BY ForwardingAssumption DEF Forwarding!GatewayAssumption
<1> DEFINE n == SequenceNumbers
           h == n \div 2
           c == GatewayCycles
<1>2. h \in Nat /\ c <= h /\ h <= n /\ 2 * h <= n /\ c \in Nat /\ a < c /\ b < c
  BY <1>1
<1>3. CASE b <= a
  <2>1. (a - b) % n = a - b
    BY <1>1, <1>3
  <2>2. a - b < h
    <3> HIDE DEF n, h, c
    <3> QED
      BY <1>2, <1>3
  <2> QED
    BY <2>1, <2>2 DEF Forwarding!Numbered!Delta
<1>4. CASE a < b
  <2>1. (a - b) % n = (a - b) + n
    BY <1>1, <1>4
  <2>2. ~((a - b) + n < h)
    BY <1>1, <1>2
  <2> QED
    BY <1>1, <2>1, <2>2 DEF Forwarding!Numbered!Delta
<1> QED
  BY <1>3, <1>4

\* The tracker follows the number of what it takes for news, and only --naive
\* displays anything else.
LEMMA NewsAreObserved ==
    ASSUME ForwardTypes, FarFromWrap, NEW d \in Queued, d \in Datagrams,
           Forwarding!Numbered!Observe(d.sequence)
    PROVE  /\ fTracker' \in [started : BOOLEAN, highest : Nat, accepted : Nat, lost : Int, stale : Nat]
           /\ fTracker'.started = TRUE
           /\ \/ /\ fTracker.started = TRUE /\ fTracker'.highest = fTracker.highest
                 /\ Forwarding!Displays(d.sequence) => fOptions.naive = TRUE
              \/ /\ fTracker.started = FALSE \/ fTracker.highest < d.sequence
                 /\ fTracker'.highest = d.sequence
                 /\ Forwarding!Displays(d.sequence)
<1>1. PICK started \in BOOLEAN, highest \in Nat, accepted \in Nat, lost \in Int, stale \in Nat :
         fTracker = [started |-> started, highest |-> highest, accepted |-> accepted, lost |-> lost,
                     stale |-> stale]
  BY SMTT(60) DEF ForwardTypes
<1> DEFINE n == d.sequence
<1>2. n \in Nat /\ n < fSequence /\ fSequence <= GatewayCycles /\ GatewayCycles \in Nat
      /\ fSequence \in Nat
  BY SMTT(60), ForwardingAssumption
     DEF ForwardTypes, FarFromWrap, Datagrams, InFlight, Forwarding!GatewayAssumption
<1>3. fOptions.naive \in BOOLEAN
  BY DEF ForwardTypes
<1>4. CASE started = FALSE
  <2>1. Forwarding!Numbered!Order(n) = "First"
    BY <1>1, <1>4 DEF Forwarding!Numbered!Order
  <2>2. fTracker' = [fTracker EXCEPT !.started = TRUE, !.highest = n, !.accepted = @ + 1]
    BY <2>1 DEF Forwarding!Numbered!Observe
  <2>3. fTracker' = [started |-> TRUE, highest |-> n, accepted |-> accepted + 1, lost |-> lost,
                     stale |-> stale]
    BY <1>1, <2>2
  <2>4. Forwarding!Displays(n)
    BY <2>1 DEF Forwarding!Displays, Forwarding!Numbered!Displays
  <2> QED
    BY <1>1, <1>2, <1>4, <2>3, <2>4
<1>5. CASE started = TRUE
  <2>1. highest < fSequence
    BY <1>1, <1>5 DEF FarFromWrap
  <2>2. Forwarding!Numbered!Delta(n, fTracker.highest) = n - highest
    BY <1>1, <1>2, <2>1, NumbersAreCompared
  <2>3. Forwarding!Numbered!Order(n)
          = IF n - highest = 0 THEN "Duplicate"
            ELSE IF n - highest < 0 THEN "Stale" ELSE IF n - highest > 1 THEN "Gap" ELSE "InOrder"
    BY <1>1, <1>5, <2>2 DEF Forwarding!Numbered!Order
  <2>4. CASE n <= highest
    <3>1. Forwarding!Numbered!Order(n) \in {"Duplicate", "Stale"}
      BY <1>2, <2>3, <2>4
    <3>2. fTracker' = [fTracker EXCEPT !.stale = @ + 1]
      BY <3>1 DEF Forwarding!Numbered!Observe
    <3>3. fTracker' = [started |-> TRUE, highest |-> highest, accepted |-> accepted, lost |-> lost,
                       stale |-> stale + 1]
      BY <1>1, <1>5, <3>2
    <3>4. Forwarding!Displays(n) => fOptions.naive = TRUE
      BY <1>3, <3>1 DEF Forwarding!Displays, Forwarding!Numbered!Displays
    <3> QED
      BY <1>1, <1>5, <3>3, <3>4
  <2>5. CASE highest < n
    <3>1. Forwarding!Numbered!Order(n) \in {"Gap", "InOrder"}
      BY <1>2, <2>3, <2>5
    <3>2. fTracker' = [fTracker EXCEPT !.highest = n, !.accepted = @ + 1,
                                       !.lost = @ + Forwarding!Numbered!Skipped(n)]
      BY <3>1 DEF Forwarding!Numbered!Observe
    <3>3. Forwarding!Numbered!Skipped(n) = n - highest - 1
      BY <2>2 DEF Forwarding!Numbered!Skipped
    <3>4. fTracker' = [started |-> TRUE, highest |-> n, accepted |-> accepted + 1,
                       lost |-> lost + (n - highest - 1), stale |-> stale]
      BY <1>1, <1>5, <3>2, <3>3
    <3>5. Forwarding!Displays(n)
      BY <3>1 DEF Forwarding!Displays, Forwarding!Numbered!Displays
    <3> QED
      BY <1>1, <1>2, <2>5, <3>4, <3>5
  <2>6. n <= highest \/ highest < n
    <3> HIDE DEF n
    <3> QED
      BY <1>1, <1>2
  <2> QED
    BY <2>4, <2>5, <2>6, Zenon
<1> QED
  BY <1>4, <1>5

\* A frame with a new number comes after all that were.
LEMMA TheNewestIsLast ==
    ASSUME ForwardInvariant, Waiting' \subseteq Waiting \cup {fTransmitted + 1},
           UNCHANGED <<fHeld, fQueue, fShown>>
    PROVE  /\ \A d \in InFlight' : Before(DataOf(d.frames), Waiting')
           /\ Before(DataOf(fShown'), Waiting')
<1>1. InFlight' = InFlight
  BY Zenon DEF InFlight, Queued
<1>2. fTransmitted \in Nat
  BY DEF ForwardInvariant, ForwardTypes
<1>3. Carried \subseteq 1 .. fTransmitted /\ DataOf(fShown) \subseteq 1 .. fTransmitted
  BY AllTransmitted, Zenon DEF ForwardInvariant
<1>4. ASSUME NEW S, S \subseteq 1 .. fTransmitted, Before(S, Waiting)
      PROVE  Before(S, Waiting')
  <2>1. ASSUME NEW f \in S, NEW g \in Waiting' PROVE f < g
    <3>1. CASE g \in Waiting
      BY <1>4, <3>1 DEF Before
    <3>2. CASE g = fTransmitted + 1
      BY <1>2, <1>4, <3>2
    <3> QED
      BY <3>1, <3>2
  <2> QED
    BY <2>1 DEF Before
<1>5. ASSUME NEW d \in InFlight PROVE Before(DataOf(d.frames), Waiting')
  <2>1. DataOf(d.frames) \subseteq Carried
    BY Zenon DEF Carried
  <2>2. Before(DataOf(d.frames), Waiting)
    BY DEF ForwardInvariant, FramesInOrder
  <2> QED
    BY <1>3, <1>4, <2>1, <2>2
<1>6. Before(DataOf(fShown), Waiting')
  BY <1>3, <1>4 DEF ForwardInvariant, ShownFirst
<1> QED
  BY <1>1, <1>5, <1>6

LEMMA SocketsSetUp ==
    ASSUME ForwardInvariant, Forwarding!GatewaySetUp \/ Forwarding!SubscriberSetUp
    PROVE  ForwardInvariant'
<1>1. UNCHANGED <<fOptions, fBus, fTransmitted, fFrames, fSequence, fHeld, fQueue, fTracker, fShown,
                  fGone>>
  BY DEF Forwarding!GatewaySetUp, Forwarding!SubscriberSetUp, Forwarding!publisher,
         Forwarding!receiver
<1>2. FramesInOrder' /\ ShownFirst' /\ Accounted'
  <2>1. InFlight' = InFlight /\ Waiting' = Waiting /\ Carried' = Carried
    BY <1>1, Zenon DEF InFlight, Queued, Waiting, Carried
  <2> QED
    BY <1>1, <2>1, Zenon DEF ForwardInvariant, FramesInOrder, ShownFirst, Accounted
<1>3. CASE Forwarding!GatewaySetUp
  <2>1. PICK calls \in Nat, tick \in 0 .. GatewayCycles,
             interface \in Interfaces \cup {NoInterface, Routed}, loopback \in BOOLEAN :
           fGateway = [calls |-> calls, phase |-> "set-up", tick |-> tick, interface |-> interface,
                       loopback |-> loopback]
    BY <1>3 DEF ForwardInvariant, ForwardTypes, Forwarding!GatewaySetUp
  <2>2. \/ fGateway' = [fGateway EXCEPT !.phase = "over"]
        \/ calls = 2 /\ fGateway' = [[fGateway EXCEPT !.interface = fOptions.gatewayInterface]
                                        EXCEPT !.calls = @ + 1]
        \/ calls # 2 /\ fGateway' = [[fGateway EXCEPT !.loopback = TRUE] EXCEPT !.calls = @ + 1]
        \/ calls = 6 /\ fGateway' = [fGateway EXCEPT !.calls = 7]
        \/ calls = 7 /\ fGateway' = [fGateway EXCEPT !.phase = "cycle"]
        \/ calls # 2 /\ fGateway' = [fGateway EXCEPT !.calls = @ + 1]
    BY <1>3, <2>1
       DEF Forwarding!GatewaySetUp, Forwarding!MulticastInterface, Forwarding!MulticastLoopback,
           Forwarding!OtherOption, Forwarding!Answers
  <2>3. /\ fGateway' \in [calls : Nat, phase : {"set-up", "cycle", "over"}, tick : 0 .. GatewayCycles,
                          interface : Interfaces \cup {NoInterface, Routed}, loopback : BOOLEAN]
        /\ fGateway'.tick = fGateway.tick
        /\ fGateway'.phase # "over" /\ fGateway'.calls > 2 =>
              fGateway'.interface = fOptions.gatewayInterface
        /\ fGateway'.phase = "cycle" => fGateway'.calls > 2
    <3>1. fOptions.gatewayInterface \in Interfaces \cup {NoInterface}
      BY DEF ForwardInvariant, ForwardTypes
    <3>2. calls > 2 => interface = fOptions.gatewayInterface
      BY <2>1 DEF ForwardInvariant, SameInterface
    <3>3. \/ fGateway' = [calls |-> calls, phase |-> "over", tick |-> tick,
                          interface |-> interface, loopback |-> loopback]
          \/ /\ calls = 2
             /\ fGateway' = [calls |-> calls + 1, phase |-> "set-up", tick |-> tick,
                             interface |-> fOptions.gatewayInterface, loopback |-> loopback]
          \/ \E c \in Nat, l \in BOOLEAN :
                /\ c > 2 => calls > 2
                /\ fGateway' = [calls |-> c, phase |-> "set-up", tick |-> tick,
                                interface |-> interface, loopback |-> l]
          \/ /\ calls = 7
             /\ fGateway' = [calls |-> calls, phase |-> "cycle", tick |-> tick,
                             interface |-> interface, loopback |-> loopback]
      <4>1. CASE fGateway' = [fGateway EXCEPT !.phase = "over"]
        BY <2>1, <4>1
      <4>2. CASE calls = 2 /\ fGateway' = [[fGateway EXCEPT !.interface = fOptions.gatewayInterface]
                                              EXCEPT !.calls = @ + 1]
        BY <2>1, <4>2
      <4>3. CASE calls # 2 /\ fGateway' = [[fGateway EXCEPT !.loopback = TRUE] EXCEPT !.calls = @ + 1]
        <5>1. fGateway' = [calls |-> calls + 1, phase |-> "set-up", tick |-> tick,
                           interface |-> interface, loopback |-> TRUE]
          BY <2>1, <4>3
        <5>2. calls + 1 \in Nat /\ (calls + 1 > 2 => calls > 2)
          BY <2>1, <4>3
        <5> QED
          BY <5>1, <5>2
      <4>4. CASE calls = 6 /\ fGateway' = [fGateway EXCEPT !.calls = 7]
        <5>1. fGateway' = [calls |-> 7, phase |-> "set-up", tick |-> tick,
                           interface |-> interface, loopback |-> loopback]
          BY <2>1, <4>4
        <5>2. 7 \in Nat /\ (7 > 2 => calls > 2)
          BY <4>4
        <5> QED
          BY <2>1, <5>1, <5>2, Zenon
      <4>5. CASE calls = 7 /\ fGateway' = [fGateway EXCEPT !.phase = "cycle"]
        BY <2>1, <4>5
      <4>6. CASE calls # 2 /\ fGateway' = [fGateway EXCEPT !.calls = @ + 1]
        <5>1. fGateway' = [calls |-> calls + 1, phase |-> "set-up", tick |-> tick,
                           interface |-> interface, loopback |-> loopback]
          BY <2>1, <4>6
        <5>2. calls + 1 \in Nat /\ (calls + 1 > 2 => calls > 2)
          BY <2>1, <4>6
        <5> QED
          BY <5>1, <5>2
      <4> QED
        BY <2>2, <4>1, <4>2, <4>3, <4>4, <4>5, <4>6
    <3> QED
      BY <2>1, <3>1, <3>2, <3>3
  <2>4. fSubscriber' = fSubscriber
    BY <1>3 DEF Forwarding!GatewaySetUp
  <2>5. fFrames = <<>>
    BY <1>3 DEF ForwardInvariant, Collected, Forwarding!GatewaySetUp
  <2>6. ForwardTypes'
    BY SMTT(60), <1>1, <2>3, <2>4 DEF ForwardInvariant, ForwardTypes
  <2>7. InFlight' = InFlight
    BY <1>1, Zenon DEF InFlight, Queued
  <2>8. FarFromWrap' /\ SameInterface' /\ Collected'
    BY <1>1, <2>3, <2>4, <2>5, <2>7
       DEF ForwardInvariant, FarFromWrap, SameInterface, Collected
  <2> QED
    BY <1>2, <2>6, <2>8 DEF ForwardInvariant
<1>4. CASE Forwarding!SubscriberSetUp
  <2>1. PICK calls \in Nat, bound \in BOOLEAN, joined \in SUBSET (Interfaces \cup {NoInterface}) :
           fSubscriber = [calls |-> calls, phase |-> "set-up", bound |-> bound, joined |-> joined]
    BY <1>4 DEF ForwardInvariant, ForwardTypes, Forwarding!SubscriberSetUp
  <2>2. \/ fSubscriber' = [fSubscriber EXCEPT !.phase = "over"]
        \/ fSubscriber' = [fSubscriber EXCEPT !.phase = "wait"]
        \/ fSubscriber' = [[fSubscriber EXCEPT !.bound = TRUE] EXCEPT !.calls = @ + 1]
        \/ fSubscriber' = [[fSubscriber EXCEPT !.joined = @ \cup {fOptions.subscriberInterface}]
                              EXCEPT !.calls = @ + 1]
        \/ fSubscriber' = [fSubscriber EXCEPT !.calls = @ + 1]
    BY <1>4
       DEF Forwarding!SubscriberSetUp, Forwarding!BindAny, Forwarding!JoinMulticast,
           Forwarding!OtherOption, Forwarding!Answers
  <2>3. fOptions.subscriberInterface \in Interfaces
    BY DEF ForwardInvariant, ForwardTypes
  <2>4. /\ fSubscriber' \in [calls : Nat, phase : {"set-up", "wait", "over"}, bound : BOOLEAN,
                             joined : SUBSET (Interfaces \cup {NoInterface})]
        /\ fSubscriber'.joined \subseteq joined \cup {fOptions.subscriberInterface}
    <3>1. \E c \in Nat, p \in {"set-up", "wait", "over"}, b \in BOOLEAN,
             j \in SUBSET (joined \cup {fOptions.subscriberInterface}) :
             fSubscriber' = [calls |-> c, phase |-> p, bound |-> b, joined |-> j]
      <4>0. /\ calls \in Nat /\ calls + 1 \in Nat /\ TRUE \in BOOLEAN
            /\ joined \in SUBSET (joined \cup {fOptions.subscriberInterface})
            /\ joined \cup {fOptions.subscriberInterface}
                  \in SUBSET (joined \cup {fOptions.subscriberInterface})
        BY <2>1
      <4>1. CASE fSubscriber' = [fSubscriber EXCEPT !.phase = "over"]
        BY <2>1, <4>1
      <4>2. CASE fSubscriber' = [fSubscriber EXCEPT !.phase = "wait"]
        BY <2>1, <4>2
      <4>3. CASE fSubscriber' = [[fSubscriber EXCEPT !.bound = TRUE] EXCEPT !.calls = @ + 1]
        <5>1. fSubscriber' = [calls |-> calls + 1, phase |-> "set-up", bound |-> TRUE, joined |-> joined]
          BY <2>1, <4>3
        <5> QED
          BY <2>1, <4>0, <5>1, Zenon
      <4>4. CASE fSubscriber' = [[fSubscriber EXCEPT !.joined = @ \cup {fOptions.subscriberInterface}]
                                    EXCEPT !.calls = @ + 1]
        <5>1. fSubscriber' = [calls |-> calls + 1, phase |-> "set-up", bound |-> bound,
                              joined |-> joined \cup {fOptions.subscriberInterface}]
          BY <2>1, <4>4
        <5> QED
          BY <2>1, <4>0, <5>1, Zenon
      <4>5. CASE fSubscriber' = [fSubscriber EXCEPT !.calls = @ + 1]
        <5>1. fSubscriber' = [calls |-> calls + 1, phase |-> "set-up", bound |-> bound, joined |-> joined]
          BY <2>1, <4>5
        <5> QED
          BY <2>1, <4>0, <5>1, Zenon
      <4> QED
        BY <2>2, <4>1, <4>2, <4>3, <4>4, <4>5
    <3> QED
      BY <2>1, <2>3, <3>1
  <2>5. fGateway' = fGateway
    BY <1>4 DEF Forwarding!SubscriberSetUp
  <2>6. ForwardTypes'
    BY <1>1, <2>4, <2>5 DEF ForwardInvariant, ForwardTypes
  <2>7. InFlight' = InFlight
    BY <1>1, Zenon DEF InFlight, Queued
  <2>8. FarFromWrap' /\ Collected'
    BY <1>1, <2>5, <2>7, Zenon DEF ForwardInvariant, FarFromWrap, Collected
  <2>9. SameInterface'
    BY <1>1, <2>1, <2>4, <2>5 DEF ForwardInvariant, SameInterface
  <2> QED
    BY <1>2, <2>6, <2>8, <2>9 DEF ForwardInvariant
<1> QED
  BY <1>3, <1>4

\* A step that leaves the datagrams, the tracker and the display alone.
LEMMA FrameComes == ASSUME ForwardInvariant, Forwarding!BusFrame PROVE ForwardInvariant'
<1>1. /\ UNCHANGED <<fOptions, fGateway, fSubscriber, fFrames, fSequence, fHeld, fQueue, fTracker,
                     fShown, fGone>>
      /\ fOptions.can
  BY DEF Forwarding!BusFrame, Forwarding!publisher, Forwarding!receiver
<1>2. PICK e \in Nat : /\ fBus' = Append(fBus, e)
                       /\ \/ e = fTransmitted + 1 /\ fTransmitted' = fTransmitted + 1
                          \/ e = 0 /\ fTransmitted' = fTransmitted
  <2>1. fTransmitted + 1 \in Nat
    BY DEF ForwardInvariant, ForwardTypes
  <2> QED
    BY <2>1 DEF Forwarding!BusFrame
<1>3. fBus \in Seq(Nat) /\ fTransmitted \in Nat
  BY DEF ForwardInvariant, ForwardTypes
<1>4. DataOf(fBus') = DataOf(fBus) \cup ({e} \ {0})
  BY <1>2, <1>3, DataOfAppend
<1>5. InFlight' = InFlight /\ Carried' = Carried /\ Waiting' = Waiting \cup ({e} \ {0})
  BY <1>1, <1>4, Zenon DEF InFlight, Queued, Waiting, Carried
<1>6. ForwardTypes'
  BY SMTT(60), <1>1, <1>2, <1>3 DEF ForwardInvariant, ForwardTypes
<1>7. FarFromWrap' /\ SameInterface'
  BY <1>1, <1>5, Zenon DEF ForwardInvariant, FarFromWrap, SameInterface
<1>8. Collected'
  BY <1>1 DEF ForwardInvariant, Collected
<1>9. Waiting \cup Carried \cup DataOf(fShown) \cup fGone = 1 .. fTransmitted
  BY Zenon DEF ForwardInvariant, Accounted
<1>10. Accounted'
  <2>1. 1 .. fTransmitted' = (1 .. fTransmitted) \cup ({e} \ {0})
    BY <1>2, <1>3
  <2>2. DataOf(fShown') = DataOf(fShown) /\ fGone' = fGone
    BY <1>1
  <2> QED
    BY <1>5, <1>9, <2>1, <2>2 DEF Accounted
<1>11. /\ \A d \in InFlight' : Before(DataOf(d.frames), Waiting')
       /\ Before(DataOf(fShown'), Waiting')
  <2>1. Waiting' \subseteq Waiting \cup {fTransmitted + 1}
    BY <1>2, <1>5
  <2> QED
    BY <1>1, <2>1, TheNewestIsLast
<1>12. Before(DataOf(fFrames), DataOf(fBus'))
  <2>1. DataOf(fFrames) \subseteq 1 .. fTransmitted /\ Before(DataOf(fFrames), DataOf(fBus))
    BY <1>9 DEF Waiting, ForwardInvariant, FramesInOrder
  <2> QED
    BY <1>2, <1>3, <1>4, <2>1 DEF Before
<1>13. ASSUME NEW i \in DOMAIN fBus', NEW j \in DOMAIN fBus', i < j, fBus'[j] # 0
       PROVE  fBus'[i] < fBus'[j]
  <2>1. /\ DOMAIN fBus' = 1 .. Len(fBus) + 1 /\ DOMAIN fBus = 1 .. Len(fBus) /\ Len(fBus) \in Nat
        /\ \A k \in 1 .. Len(fBus) : fBus'[k] = fBus[k]
        /\ fBus'[Len(fBus) + 1] = e
    BY <1>2, <1>3
  <2>2. CASE j <= Len(fBus)
    BY <1>13, <2>1, <2>2 DEF ForwardInvariant, FramesInOrder
  <2>3. CASE j = Len(fBus) + 1
    <3>1. i \in DOMAIN fBus /\ fBus'[i] = fBus[i] /\ fBus'[j] = fTransmitted + 1
      BY <1>2, <1>13, <2>1, <2>3
    <3>2. CASE fBus[i] = 0
      BY <1>3, <3>1, <3>2
    <3>3. CASE fBus[i] # 0
      <4>1. fBus[i] \in ElementsIn(fBus)
        BY <3>1, InElements, Zenon
      <4>2. fBus[i] \in DataOf(fBus)
        BY <3>3, <4>1, Zenon DEF DataOf, Forwarding!Members, ElementsIn
      <4>3. fBus[i] \in 1 .. fTransmitted
        BY <1>9, <4>2, Zenon DEF Waiting
      <4> QED
        BY <1>3, <3>1, <4>3
    <3> QED
      BY <3>2, <3>3
  <2> QED
    BY <1>13, <2>1, <2>2, <2>3
<1>14. FramesInOrder'
  BY <1>1, <1>5, <1>11, <1>12, <1>13, Zenon DEF ForwardInvariant, FramesInOrder
<1>15. ShownFirst'
  BY <1>1, <1>5, <1>11, Zenon DEF ForwardInvariant, ShownFirst
<1> QED
  BY <1>6, <1>7, <1>8, <1>10, <1>14, <1>15 DEF ForwardInvariant

LEMMA CycleBegins == ASSUME ForwardInvariant, Forwarding!NextCycle PROVE ForwardInvariant'
<1>1. /\ UNCHANGED <<fOptions, fSubscriber, fBus, fTransmitted, fSequence, fHeld, fQueue, fTracker,
                     fShown, fGone>>
      /\ fGateway.phase = "cycle" /\ fFrames' = <<>> /\ fFrames = <<>>
  BY DEF Forwarding!NextCycle, Forwarding!publisher, Forwarding!receiver, ForwardInvariant, Collected
<1>2. InFlight' = InFlight /\ Waiting' = Waiting /\ Carried' = Carried /\ fFrames' = fFrames
  BY <1>1, Zenon DEF InFlight, Queued, Waiting, Carried
<1>3. FramesInOrder' /\ ShownFirst' /\ Accounted'
  BY <1>1, <1>2, Zenon DEF ForwardInvariant, FramesInOrder, ShownFirst, Accounted
<1>4. PICK calls \in Nat, tick \in 0 .. GatewayCycles,
           interface \in Interfaces \cup {NoInterface, Routed}, loopback \in BOOLEAN :
         fGateway = [calls |-> calls, phase |-> "cycle", tick |-> tick, interface |-> interface,
                     loopback |-> loopback]
  BY <1>1 DEF ForwardInvariant, ForwardTypes
<1>5. /\ GatewayCycles \in Nat /\ fSequence \in Nat /\ fSequence <= tick /\ calls > 2
      /\ interface = fOptions.gatewayInterface
  BY <1>4, ForwardingAssumption
     DEF ForwardInvariant, ForwardTypes, FarFromWrap, SameInterface, Forwarding!GatewayAssumption
<1>6. \/ /\ tick < GatewayCycles
         /\ fGateway' = [calls |-> calls, phase |-> "collect", tick |-> tick + 1,
                         interface |-> interface, loopback |-> loopback]
      \/ fGateway' = [calls |-> calls, phase |-> "over", tick |-> tick,
                      interface |-> interface, loopback |-> loopback]
  BY <1>4 DEF Forwarding!NextCycle
<1>7. /\ fGateway' \in [calls : Nat, phase : {"collect", "over"}, tick : 0 .. GatewayCycles,
                        interface : Interfaces \cup {NoInterface, Routed}, loopback : BOOLEAN]
      /\ fSequence <= fGateway'.tick
      /\ fGateway'.phase = "collect" => fSequence < fGateway'.tick
      /\ fGateway'.calls > 2 /\ fGateway'.interface = fOptions.gatewayInterface
  BY <1>4, <1>5, <1>6
<1>8. ForwardTypes'
  BY SMTT(60), <1>1, <1>2, <1>7 DEF ForwardInvariant, ForwardTypes
<1>9. FarFromWrap' /\ Collected' /\ SameInterface'
  BY <1>1, <1>2, <1>7 DEF ForwardInvariant, FarFromWrap, Collected, SameInterface
<1> QED
  BY <1>3, <1>8, <1>9 DEF ForwardInvariant

\* The gateway goes on within its cycle.
LEMMA OnlyThePhase ==
    ASSUME ForwardInvariant, NEW phase, fGateway.phase = "collect", phase \in {"collect", "publish"},
           fGateway' = [fGateway EXCEPT !.phase = phase]
    PROVE  /\ fGateway' \in [calls : Nat, phase : {"set-up", "cycle", "collect", "publish", "over"},
                             tick : 0 .. GatewayCycles,
                             interface : Interfaces \cup {NoInterface, Routed}, loopback : BOOLEAN]
           /\ fGateway'.phase = phase /\ fGateway'.tick = fGateway.tick
           /\ fGateway'.calls = fGateway.calls /\ fGateway'.interface = fGateway.interface
  BY DEF ForwardInvariant, ForwardTypes

LEMMA FrameIsCollected ==
    ASSUME ForwardInvariant, Forwarding!CollectFromBus
    PROVE  ForwardInvariant'
<1>1. /\ UNCHANGED <<fOptions, fSubscriber, fTransmitted, fSequence, fHeld, fQueue, fTracker,
                     fShown, fGone>>
      /\ fGateway.phase = "collect" /\ fOptions.can = TRUE
  BY DEF Forwarding!CollectFromBus, Forwarding!publisher, Forwarding!receiver, ForwardInvariant,
         ForwardTypes
<1>2. InFlight' = InFlight /\ Carried' = Carried
  BY <1>1, Zenon DEF InFlight, Queued, Carried
<1>3. fBus \in Seq(Nat) /\ fFrames \in Seq(Transmissions)
  BY DEF ForwardInvariant, ForwardTypes
<1>4. CASE UNCHANGED <<fBus, fFrames>> /\ fGateway' = [fGateway EXCEPT !.phase = "publish"]
  <2>1. Waiting' = Waiting
    BY <1>4, Zenon DEF Waiting
  <2>2. FramesInOrder' /\ ShownFirst' /\ Accounted'
    BY <1>1, <1>2, <1>4, <2>1, Zenon DEF ForwardInvariant, FramesInOrder, ShownFirst, Accounted
  <2>3. /\ fGateway' \in [calls : Nat, phase : {"set-up", "cycle", "collect", "publish", "over"},
                             tick : 0 .. GatewayCycles,
                             interface : Interfaces \cup {NoInterface, Routed}, loopback : BOOLEAN]
        /\ fGateway'.phase = "publish" /\ fGateway'.tick = fGateway.tick
        /\ fGateway'.calls = fGateway.calls /\ fGateway'.interface = fGateway.interface
    BY <1>1, <1>4, OnlyThePhase
  <2>4. ForwardTypes'
    BY <1>1, <1>4, <2>3 DEF ForwardInvariant, ForwardTypes
  <2>5. FarFromWrap' /\ SameInterface'
    BY <1>1, <1>2, <2>3 DEF ForwardInvariant, FarFromWrap, SameInterface
  <2>6. Collected'
    BY <1>1, <2>3 DEF Collected
  <2> QED
    BY <2>2, <2>4, <2>5, <2>6 DEF ForwardInvariant
<1>5. CASE /\ fBus # <<>> /\ fBus' = Tail(fBus) /\ fGateway' = fGateway
           /\ fFrames' = IF Head(fBus) = 0 THEN fFrames ELSE Append(fFrames, Head(fBus))
  <2> DEFINE e == Head(fBus)
  <2>1. e \in Nat /\ fBus' \in Seq(Nat) /\ fFrames' \in Seq(Transmissions)
    BY <1>3, <1>5 DEF Transmissions
  <2>2. DataOf(fBus) = ({e} \ {0}) \cup DataOf(fBus')
    BY <1>3, <1>5, DataOfTail
  <2>3. DataOf(fFrames') = DataOf(fFrames) \cup ({e} \ {0})
    <3>1. CASE e = 0
      BY <1>5, <3>1
    <3>2. CASE e # 0
      BY SMTT(60), <1>3, <1>5, <2>1, <3>2, DataOfAppend DEF Transmissions
    <3> QED
      BY <3>1, <3>2
  <2>4. Waiting' = Waiting
    BY <2>2, <2>3 DEF Waiting
  <2>5. Accounted' /\ ShownFirst'
    BY <1>1, <1>2, <2>4, Zenon DEF ForwardInvariant, Accounted, ShownFirst
  <2>6. ForwardTypes'
    BY ZenonT(60), <1>1, <1>5, <2>1 DEF ForwardInvariant, ForwardTypes
  <2>7. FarFromWrap' /\ SameInterface'
    BY <1>1, <1>2, <1>5, <2>1 DEF ForwardInvariant, FarFromWrap, SameInterface
  <2>8. Collected'
    BY <1>1, <1>5 DEF Collected
  <2>9. /\ DOMAIN fBus = 1 .. Len(fBus) /\ Len(fBus) \in Nat \ {0}
        /\ DOMAIN fBus' = 1 .. Len(fBus) - 1 /\ e = fBus[1]
        /\ \A i \in 1 .. Len(fBus) - 1 : fBus'[i] = fBus[i + 1]
    BY <1>3, <1>5
  <2>10. ASSUME NEW i \in DOMAIN fBus', NEW j \in DOMAIN fBus', i < j, fBus'[j] # 0
         PROVE  fBus'[i] < fBus'[j]
    <3>1. i + 1 \in DOMAIN fBus /\ j + 1 \in DOMAIN fBus /\ i + 1 < j + 1
          /\ fBus'[i] = fBus[i + 1] /\ fBus'[j] = fBus[j + 1]
      BY <2>9, <2>10
    <3> QED
      BY <2>10, <3>1 DEF ForwardInvariant, FramesInOrder
  <2>11. ASSUME NEW g \in DataOf(fBus') PROVE e < g
    <3>1. g \in ElementsIn(fBus') /\ g # 0
      BY <2>11, Zenon DEF DataOf, Forwarding!Members, ElementsIn
    <3>2. PICK j \in DOMAIN fBus' : g = fBus'[j]
      BY <3>1, InElements, Zenon
    <3>3. j + 1 \in DOMAIN fBus /\ 1 \in DOMAIN fBus /\ 1 < j + 1 /\ g = fBus[j + 1]
      BY <2>9, <3>2
    <3> QED
      BY <2>9, <3>1, <3>3 DEF ForwardInvariant, FramesInOrder
  <2>12. Before(DataOf(fFrames'), DataOf(fBus'))
    <3>1. Before(DataOf(fFrames), DataOf(fBus'))
      BY <2>2 DEF ForwardInvariant, FramesInOrder, Before
    <3> QED
      BY <2>3, <2>11, <3>1 DEF Before
  <2>13. Ascends(fFrames')
    <3>1. CASE e = 0
      BY <1>5, <3>1 DEF ForwardInvariant, FramesInOrder
    <3>2. CASE e # 0
      <4>1. /\ DOMAIN fFrames' = 1 .. Len(fFrames) + 1 /\ DOMAIN fFrames = 1 .. Len(fFrames)
            /\ Len(fFrames) \in Nat
            /\ \A k \in 1 .. Len(fFrames) : fFrames'[k] = fFrames[k]
            /\ fFrames'[Len(fFrames) + 1] = e
        BY <1>3, <1>5, <2>1, <3>2
      <4>2. ASSUME NEW k \in DOMAIN fFrames PROVE fFrames[k] < e
        <5>1. fFrames[k] \in ElementsIn(fFrames)
          BY <4>2, InElements, Zenon
        <5>2. fFrames[k] \in DataOf(fFrames)
          BY <1>3, <5>1, DataOfFrames DEF ElementsIn
        <5>3. e \in DataOf(fBus)
          BY <2>2, <3>2
        <5> QED
          BY <5>2, <5>3 DEF ForwardInvariant, FramesInOrder, Before
      <4>3. ASSUME NEW i \in DOMAIN fFrames', NEW j \in DOMAIN fFrames', i < j
            PROVE  fFrames'[i] < fFrames'[j]
        <5>1. CASE j <= Len(fFrames)
          BY <4>1, <4>3, <5>1 DEF ForwardInvariant, FramesInOrder, Ascends
        <5>2. CASE j = Len(fFrames) + 1
          BY <4>1, <4>2, <4>3, <5>2
        <5> QED
          BY <4>1, <4>3, <5>1, <5>2
      <4> QED
        BY <4>3, Zenon DEF Ascends
    <3> QED
      BY <3>1, <3>2
  <2>14. FramesInOrder'
    BY <1>1, <1>2, <2>4, <2>10, <2>12, <2>13, Zenon DEF ForwardInvariant, FramesInOrder
  <2> QED
    BY <2>5, <2>6, <2>7, <2>8, <2>14 DEF ForwardInvariant
<1> QED
  BY <1>4, <1>5 DEF Forwarding!CollectFromBus, Forwarding!Collect

LEMMA ReadingIsBuilt == ASSUME ForwardInvariant, Forwarding!Generate PROVE ForwardInvariant'
<1>1. /\ UNCHANGED <<fOptions, fSubscriber, fBus, fSequence, fHeld, fQueue, fTracker,
                     fShown, fGone>>
      /\ fGateway.phase = "collect" /\ fOptions.can = FALSE /\ fBus = <<>> /\ fFrames = <<>>
      /\ fGateway' = [fGateway EXCEPT !.phase = "publish"]
  BY DEF Forwarding!Generate, Forwarding!publisher, Forwarding!receiver, ForwardInvariant,
         ForwardTypes, Collected
<1>2. InFlight' = InFlight /\ Carried' = Carried
  BY <1>1, Zenon DEF InFlight, Queued, Carried
<1>3. /\ fGateway' \in [calls : Nat, phase : {"set-up", "cycle", "collect", "publish", "over"},
                             tick : 0 .. GatewayCycles,
                             interface : Interfaces \cup {NoInterface, Routed}, loopback : BOOLEAN]
      /\ fGateway'.phase = "publish" /\ fGateway'.tick = fGateway.tick
      /\ fGateway'.calls = fGateway.calls /\ fGateway'.interface = fGateway.interface
  BY <1>1, OnlyThePhase
<1>4. FarFromWrap' /\ SameInterface'
  BY <1>1, <1>2, <1>3 DEF ForwardInvariant, FarFromWrap, SameInterface
<1>5. Collected'
  BY <1>1, <1>3 DEF Collected
<1>6. Waiting = {} /\ DataOf(fBus') = {}
  BY <1>1, DataOfEmpty DEF Waiting
<1>7. fTransmitted \in Nat
  BY DEF ForwardInvariant, ForwardTypes
<1>8. CASE UNCHANGED <<fFrames, fTransmitted>>
  <2>1. Waiting' = Waiting
    BY <1>1, <1>8, Zenon DEF Waiting
  <2>2. FramesInOrder' /\ ShownFirst' /\ Accounted'
    BY <1>1, <1>2, <1>8, <2>1, Zenon DEF ForwardInvariant, FramesInOrder, ShownFirst, Accounted
  <2>3. ForwardTypes'
    BY <1>1, <1>3, <1>8 DEF ForwardInvariant, ForwardTypes
  <2> QED
    BY <1>4, <1>5, <2>2, <2>3 DEF ForwardInvariant
<1>9. CASE fFrames' = <<fTransmitted + 1>> /\ fTransmitted' = fTransmitted + 1
  <2>1. /\ fFrames' \in Seq(Transmissions) /\ DOMAIN fFrames' = {1} /\ fFrames'[1] = fTransmitted + 1
        /\ fTransmitted' \in Nat
    BY <1>7, <1>9 DEF Transmissions
  <2>2. DataOf(fFrames') = {fTransmitted + 1}
    <3>1. \A x : x \in ElementsIn(fFrames') <=> x = fTransmitted + 1
      BY <2>1, InElements
    <3>2. ElementsIn(fFrames') = DataOf(fFrames')
      BY <2>1, DataOfFrames DEF ElementsIn
    <3> QED
      BY <3>1, <3>2, Zenon
  <2>3. Waiting' = {fTransmitted + 1}
    BY <1>6, <2>2 DEF Waiting
  <2>4. ForwardTypes'
    BY <1>1, <1>3, <2>1 DEF ForwardInvariant, ForwardTypes
  <2>5. /\ \A d \in InFlight' : Before(DataOf(d.frames), Waiting')
        /\ Before(DataOf(fShown'), Waiting')
    <3>1. Waiting' \subseteq Waiting \cup {fTransmitted + 1}
      BY <2>3
    <3> QED
      BY <1>1, <3>1, TheNewestIsLast
  <2>6. ShownFirst'
    BY <1>1, <1>2, <2>5, Zenon DEF ForwardInvariant, ShownFirst
  <2>7. Ascends(fFrames')
    BY <2>1 DEF Ascends
  <2>8. \A i, j \in DOMAIN fBus' : i < j /\ fBus'[j] # 0 => fBus'[i] < fBus'[j]
    BY <1>1
  <2>9. Before(DataOf(fFrames'), DataOf(fBus'))
    BY <1>6 DEF Before
  <2>10. FramesInOrder'
    BY <1>2, <2>5, <2>7, <2>8, <2>9, Zenon DEF ForwardInvariant, FramesInOrder
  <2>11. Accounted'
    <3>1. 1 .. fTransmitted' = (1 .. fTransmitted) \cup {fTransmitted + 1}
      BY <1>7, <1>9
    <3>2. DataOf(fShown') = DataOf(fShown) /\ fGone' = fGone
      BY <1>1
    <3> QED
      BY <1>2, <1>6, <2>3, <3>1, <3>2 DEF ForwardInvariant, Accounted
  <2> QED
    BY <1>4, <1>5, <2>4, <2>6, <2>10, <2>11 DEF ForwardInvariant
<1> QED
  BY <1>8, <1>9 DEF Forwarding!Generate

\* What of some datagrams the kernel took, and what of them it did not.
LEMMA SomeAreSent ==
    ASSUME NEW ds \in Seq(Datagrams), fQueue \in Seq(Datagrams), Forwarding!SendTo(ds)
    PROVE  \E S, R \in SUBSET Datagrams :
              /\ S \cup R = ElementsIn(ds)
              /\ fQueue' \in Seq(Datagrams) /\ Queued' = Queued \cup S
              /\ fGone' = fGone \cup UNION {DataOf(d.frames) : d \in R}
              /\ fQueue' # <<>> => fQueue # <<>> \/ Forwarding!Reaches
<1>1. PICK n \in 0 .. Len(ds) : \E sent \in [1 .. n -> DOMAIN ds] :
         /\ n > 0 => Forwarding!Reaches
         /\ fQueue' = fQueue \o [i \in 1 .. n |-> ds[sent[i]]]
         /\ fGone' = fGone \cup UNION {Forwarding!Ext!ToSet(ds[i].frames) :
                                          i \in DOMAIN ds \ {sent[i] : i \in 1 .. n}}
  BY Zenon DEF Forwarding!SendTo
<1>2. PICK sent \in [1 .. n -> DOMAIN ds] :
         /\ n > 0 => Forwarding!Reaches
         /\ fQueue' = fQueue \o [i \in 1 .. n |-> ds[sent[i]]]
         /\ fGone' = fGone \cup UNION {Forwarding!Ext!ToSet(ds[i].frames) :
                                          i \in DOMAIN ds \ {sent[i] : i \in 1 .. n}}
  BY <1>1, Zenon
<1> DEFINE t == [i \in 1 .. n |-> ds[sent[i]]]
           K == DOMAIN ds \ {sent[i] : i \in 1 .. n}
           S == {ds[sent[i]] : i \in 1 .. n}
           R == {ds[i] : i \in K}
<1>3. \A i \in DOMAIN ds : ds[i] \in Datagrams
  OBVIOUS
<1>4. n \in Nat /\ \A i \in 1 .. n : sent[i] \in DOMAIN ds
  OBVIOUS
<1>5. t \in Seq(Datagrams) /\ DOMAIN t = 1 .. n /\ Len(t) = n /\ \A i \in 1 .. n : t[i] = ds[sent[i]]
  BY <1>3, <1>4
<1>6. ElementsIn(t) = S
  <2> HIDE DEF t
  <2>1. \A x : x \in S <=> \E i \in 1 .. n : x = ds[sent[i]]
    OBVIOUS
  <2>2. \A x : (\E i \in DOMAIN t : x = t[i]) <=> \E i \in 1 .. n : x = ds[sent[i]]
    BY <1>5
  <2>3. \A x : x \in ElementsIn(t) <=> \E i \in DOMAIN t : x = t[i]
    BY InElements, Zenon
  <2> HIDE DEF S
  <2> QED
    BY <2>1, <2>2, <2>3, Zenon
<1>7. S \in SUBSET Datagrams /\ R \in SUBSET Datagrams
  BY <1>3, <1>4
<1>8. S \cup R = ElementsIn(ds)
  <2>1. \A x : x \in S \cup R <=> \E i \in DOMAIN ds : x = ds[i]
    BY <1>4
  <2> HIDE DEF S, R
  <2> QED
    BY <2>1, InElements, Zenon
<1>9. fQueue' \in Seq(Datagrams) /\ Queued' = Queued \cup S
  <2>1. fQueue' = fQueue \o t
    BY <1>2
  <2> HIDE DEF t, S
  <2>2. ElementsIn(fQueue') = ElementsIn(fQueue) \cup ElementsIn(t)
    BY <1>5, <2>1, ElementsOfConcatenation
  <2>3. Queued' = ElementsIn(fQueue')
    BY Zenon DEF Queued
  <2> QED
    BY <1>5, <1>6, <2>1, <2>2, <2>3 DEF Queued
<1>10. fGone' = fGone \cup UNION {DataOf(d.frames) : d \in R}
  <2>1. \A i \in DOMAIN ds : Forwarding!Ext!ToSet(ds[i].frames) = DataOf(ds[i].frames)
    BY <1>3, DataOfFrames DEF Datagrams
  <2>2. \A x : x \in UNION {Forwarding!Ext!ToSet(ds[i].frames) : i \in K}
                 <=> \E i \in K : x \in DataOf(ds[i].frames)
    BY <2>1
  <2>3. \A x : x \in UNION {DataOf(d.frames) : d \in R} <=> \E i \in K : x \in DataOf(ds[i].frames)
    OBVIOUS
  <2>4. fGone' = fGone \cup UNION {Forwarding!Ext!ToSet(ds[i].frames) : i \in K}
    BY <1>2
  <2> HIDE DEF K, R
  <2> QED
    BY <2>2, <2>3, <2>4
<1>11. fQueue' # <<>> => fQueue # <<>> \/ Forwarding!Reaches
  <2>1. CASE n > 0
    BY <1>2, <2>1
  <2>2. CASE n = 0
    <3>1. t = <<>>
      BY <1>5, <2>2
    <3>2. fQueue' = fQueue \o t
      BY <1>2
    <3>3. fQueue' = fQueue
      <4> HIDE DEF t
      <4> QED
        BY <3>1, <3>2
    <3> QED
      BY <3>3
  <2> QED
    BY <1>4, <2>1, <2>2
<1> HIDE DEF S, R, t, K
<1> QED
  BY <1>7, <1>8, <1>9, <1>10, <1>11, Zenon

LEMMA UnderWay == ASSUME ForwardTypes PROVE InFlight \subseteq Datagrams
<1>1. \A i \in DOMAIN fQueue : fQueue[i] \in Datagrams
  BY DEF ForwardTypes
<1>2. Queued \subseteq Datagrams
  <2> SUFFICES ASSUME NEW d \in Queued PROVE d \in Datagrams
    OBVIOUS
  <2>1. d \in ElementsIn(fQueue)
    BY DEF Queued
  <2>2. PICK i \in DOMAIN fQueue : d = fQueue[i]
    BY <2>1, InElements, Zenon
  <2> QED
    BY ONLY <1>1, <2>2
<1>3. fHeld \in Datagrams \cup {Forwarding!NothingHeld}
  BY Zenon DEF ForwardTypes
<1> QED
  BY <1>2, <1>3, Zenon DEF InFlight

\* The batch becomes the datagram with the highest number.
LEMMA TheBatchIsLast ==
    ASSUME ForwardInvariant, NEW D, D = [sequence |-> fSequence, frames |-> fFrames],
           InFlight' \subseteq InFlight \cup {D}, fFrames' = <<>>,
           UNCHANGED <<fOptions, fBus, fTracker, fShown>>
    PROVE  FramesInOrder' /\ ShownFirst'
<1>1. DataOf(fFrames') = {} /\ Waiting' = DataOf(fBus)
  BY DataOfEmpty DEF Waiting
<1>2. D.sequence = fSequence /\ D.frames = fFrames
  OBVIOUS
<1>3. \A d \in InFlight : d.sequence < fSequence
  BY DEF ForwardInvariant, FarFromWrap
<1>4. fSequence \in Nat /\ \A d \in InFlight : d.sequence \in Nat
  BY SMTT(60), UnderWay DEF ForwardInvariant, ForwardTypes, Datagrams
<1>5. DataOf(fBus) \subseteq Waiting /\ DataOf(fFrames) \subseteq Waiting
  BY DEF Waiting
<1>6. /\ \A d \in InFlight : Ascends(d.frames) /\ Before(DataOf(d.frames), Waiting)
      /\ \A d, e \in InFlight : d.sequence < e.sequence => Before(DataOf(d.frames), DataOf(e.frames))
      /\ Ascends(fFrames) /\ Before(DataOf(fFrames), DataOf(fBus))
      /\ Before(DataOf(fShown), Waiting)
  BY Zenon DEF ForwardInvariant, FramesInOrder, ShownFirst
<1>7. ASSUME NEW d \in InFlight'
      PROVE  Ascends(d.frames) /\ Before(DataOf(d.frames), DataOf(fBus))
  BY <1>2, <1>5, <1>6 DEF Before
<1>8. ASSUME NEW d \in InFlight', NEW e \in InFlight', d.sequence < e.sequence
      PROVE  Before(DataOf(d.frames), DataOf(e.frames))
  <2>1. d \in InFlight
    BY <1>2, <1>3, <1>4, <1>8
  <2>2. CASE e \in InFlight
    BY <1>6, <1>8, <2>1, <2>2
  <2>3. CASE e = D
    BY <1>2, <1>5, <1>6, <2>1, <2>3 DEF Before
  <2> QED
    BY <2>2, <2>3
<1>9. FramesInOrder'
  <2>1. Ascends(fFrames')
    BY DEF Ascends
  <2>2. \A i, j \in DOMAIN fBus' : i < j /\ fBus'[j] # 0 => fBus'[i] < fBus'[j]
    BY DEF ForwardInvariant, FramesInOrder
  <2>3. Before(DataOf(fFrames'), DataOf(fBus'))
    BY <1>1 DEF Before
  <2>4. \A d \in InFlight' : Ascends(d.frames) /\ Before(DataOf(d.frames), Waiting')
    BY <1>1, <1>7, Zenon
  <2> QED
    BY <1>8, <2>1, <2>2, <2>3, <2>4, Zenon DEF FramesInOrder
<1>10. ShownFirst'
  <2>1. Before(DataOf(fShown'), Waiting')
    BY <1>1, <1>5, <1>6 DEF Before
  <2>2. ASSUME fOptions.naive = FALSE, NEW d \in InFlight',
               fTracker.started = FALSE \/ fTracker.highest < d.sequence
        PROVE  Before(DataOf(fShown), DataOf(d.frames))
    <3>1. CASE d \in InFlight
      BY <2>2, <3>1, Zenon DEF ForwardInvariant, ShownFirst
    <3>2. CASE d = D
      BY <1>2, <1>5, <1>6, <3>2 DEF Before
    <3> QED
      BY <3>1, <3>2
  <2>3. /\ fTracker.started = FALSE => fShown = <<>>
        /\ fOptions.naive = FALSE => Ascends(fShown)
    BY Zenon DEF ForwardInvariant, ShownFirst
  <2>4. fTracker' = fTracker /\ fShown' = fShown /\ fOptions' = fOptions
    OBVIOUS
  <2> QED
    BY <2>1, <2>2, <2>3, <2>4, Zenon DEF ShownFirst
<1> QED
  BY <1>9, <1>10

LEMMA BatchIsPublished == ASSUME ForwardInvariant, Forwarding!Publish PROVE ForwardInvariant'
<1> DEFINE D == [sequence |-> fSequence, frames |-> fFrames]
<1>1. /\ UNCHANGED <<fOptions, fSubscriber, fBus, fTransmitted, fTracker, fShown>>
      /\ fGateway.phase = "publish" /\ fFrames' = <<>>
      /\ fGateway' = [fGateway EXCEPT !.phase = "cycle"]
  BY DEF Forwarding!Publish, Forwarding!receiver
<1>2. ForwardTypes /\ FarFromWrap /\ SameInterface /\ Accounted
  BY Zenon DEF ForwardInvariant
<1>3. PICK calls \in Nat, tick \in 0 .. GatewayCycles,
           interface \in Interfaces \cup {NoInterface, Routed}, loopback \in BOOLEAN :
         fGateway = [calls |-> calls, phase |-> "publish", tick |-> tick, interface |-> interface,
                     loopback |-> loopback]
  BY <1>1, <1>2 DEF ForwardTypes
<1>4. fGateway' = [calls |-> calls, phase |-> "cycle", tick |-> tick, interface |-> interface,
                   loopback |-> loopback]
  BY <1>1, <1>3
<1>5. /\ fSequence \in Nat /\ fSequence < tick /\ calls > 2 /\ interface = fOptions.gatewayInterface
      /\ tick \in Nat /\ tick <= GatewayCycles /\ GatewayCycles \in Nat /\ SequenceNumbers \in Nat
      /\ 2 * GatewayCycles <= SequenceNumbers
  BY <1>2, <1>3, ForwardingAssumption
     DEF ForwardTypes, FarFromWrap, SameInterface, Forwarding!GatewayAssumption
<1>6. /\ fBus \in Seq(Nat) /\ fTransmitted \in Nat /\ fFrames \in Seq(Transmissions)
      /\ fHeld \in Datagrams \cup {Forwarding!NothingHeld} /\ fQueue \in Seq(Datagrams)
      /\ fGone \subseteq Transmissions
  BY <1>2, Zenon DEF ForwardTypes
<1>7. D \in Datagrams /\ D # Forwarding!NothingHeld
  BY <1>5, <1>6 DEF Datagrams, Forwarding!NothingHeld
<1>8. (fSequence + 1) % SequenceNumbers = fSequence + 1
  BY <1>5
<1>9. DataOf(fFrames') = {} /\ Waiting' = DataOf(fBus)
  BY <1>1, DataOfEmpty DEF Waiting
<1>10. DataOf(D.frames) = DataOf(fFrames)
  OBVIOUS
<1>11. DataOf(fShown') = DataOf(fShown)
  BY <1>1
<1>12. InFlight \subseteq Datagrams
  BY <1>2, UnderWay
<1> SUFFICES /\ fSequence' \in Nat /\ fSequence <= fSequence' /\ fSequence' <= tick
             /\ InFlight' \subseteq InFlight \cup {D}
             /\ D \in InFlight' => fSequence < fSequence'
             /\ fHeld' \in Datagrams \cup {Forwarding!NothingHeld} /\ fQueue' \in Seq(Datagrams)
             /\ fGone' \subseteq Transmissions
             /\ fQueue' # <<>> => fQueue # <<>> \/ Forwarding!Reaches
             /\ Carried' \cup fGone' = Carried \cup fGone \cup DataOf(fFrames)
  <2>1. FramesInOrder' /\ ShownFirst'
    BY <1>1, TheBatchIsLast
  <2>2. Accounted'
    <3>1. 1 .. fTransmitted' = 1 .. fTransmitted
      BY <1>1
    <3> QED
      BY <1>2, <1>9, <1>11, <3>1 DEF Accounted, Waiting
  <2>3. ForwardTypes'
    <3>1. fGateway' \in [calls : Nat, phase : {"set-up", "cycle", "collect", "publish", "over"},
                         tick : 0 .. GatewayCycles,
                         interface : Interfaces \cup {NoInterface, Routed}, loopback : BOOLEAN]
      BY <1>3, <1>4
    <3>2. fFrames' \in Seq(Transmissions)
      BY <1>1
    <3> QED
      BY <1>1, <1>2, <3>1, <3>2, Zenon DEF ForwardTypes
  <2>4. FarFromWrap'
    <3>1. fGateway'.tick = tick /\ fGateway'.phase = "cycle"
      BY <1>4
    <3>2. ASSUME NEW d \in InFlight' PROVE d.sequence < fSequence'
      <4>1. CASE d \in InFlight
        <5>1. d.sequence \in Nat /\ d.sequence < fSequence
          BY <1>2, <1>12, <4>1 DEF FarFromWrap, Datagrams
        <5> QED
          BY <1>5, <5>1
      <4>2. CASE d = D
        BY <3>2, <4>2
      <4> QED
        BY <3>2, <4>1, <4>2
    <3>3. fTracker'.started => fTracker'.highest < fSequence'
      <4>1. fTracker.highest \in Nat /\ (fTracker.started => fTracker.highest < fSequence)
        BY <1>2 DEF ForwardTypes, FarFromWrap
      <4> QED
        BY <1>1, <1>5, <4>1
    <3> QED
      BY <3>1, <3>2, <3>3 DEF FarFromWrap
  <2>5. Collected'
    BY <1>1, <1>4 DEF ForwardInvariant, Collected
  <2>6. SameInterface'
    <3>1. fQueue' # <<>> \/ fShown' # <<>> =>
             fOptions'.gatewayInterface = fOptions'.subscriberInterface
      <4>1. CASE Forwarding!Reaches
        <5>1. interface \in fSubscriber.joined
          BY <1>3, <4>1 DEF Forwarding!Reaches
        <5> QED
          BY <1>1, <1>2, <1>5, <5>1 DEF SameInterface
      <4>2. CASE fQueue # <<>> \/ fShown # <<>>
        BY <1>1, <1>2, <4>2 DEF SameInterface
      <4> QED
        BY <1>1, <4>1, <4>2
    <3>2. fGateway'.calls > 2 /\ fGateway'.interface = fOptions'.gatewayInterface
      BY <1>1, <1>4, <1>5
    <3>3. fSubscriber'.joined \subseteq {fOptions'.subscriberInterface}
      BY <1>1, <1>2 DEF SameInterface
    <3> QED
      BY <3>1, <3>2, <3>3, Zenon DEF SameInterface
  <2> QED
    BY <2>1, <2>2, <2>3, <2>4, <2>5, <2>6 DEF ForwardInvariant
<1>13. CASE fFrames = <<>>
  <2>1. UNCHANGED <<fSequence, fHeld, fQueue, fGone>>
    BY <1>13 DEF Forwarding!Publish, Forwarding!publisher
  <2>2. InFlight' = InFlight /\ Carried' = Carried /\ DataOf(fFrames) = {}
    BY <1>13, <2>1, DataOfEmpty, Zenon DEF InFlight, Queued, Carried
  <2>3. D \in InFlight => FALSE
    BY <1>2, <1>5 DEF FarFromWrap
  <2> QED
    BY <1>5, <1>6, <2>1, <2>2, <2>3
<1>14. CASE fFrames # <<>>
  <2> HIDE DEF D
  <2>1. fSequence' = fSequence + 1
    BY <1>8, <1>14 DEF Forwarding!Publish, Forwarding!Numbered!NextSequence
  <2>2. fSequence' \in Nat /\ fSequence < fSequence' /\ fSequence <= fSequence' /\ fSequence' <= tick
    BY <1>5, <2>1
  <2>3. CASE Forwarding!Numbered!HoldsBack
    <3>1. fHeld = Forwarding!NothingHeld /\ fHeld' = D /\ UNCHANGED <<fQueue, fGone>>
      BY <1>14, <2>3 DEF Forwarding!Publish, Forwarding!Numbered!HoldsBack, D
    <3>2. InFlight' = InFlight \cup {D}
      BY <1>7, <3>1, Zenon DEF InFlight, Queued
    <3>3. Carried' = Carried \cup DataOf(fFrames)
      BY <1>10, <3>2 DEF Carried
    <3> QED
      BY <1>6, <1>7, <2>2, <3>1, <3>2, <3>3
  <2>4. CASE ~Forwarding!Numbered!HoldsBack
    <3> DEFINE ds == IF fHeld = Forwarding!NothingHeld THEN <<D>> ELSE <<D, fHeld>>
               kept == {fHeld} \ {Forwarding!NothingHeld}
    <3>1. fHeld' = Forwarding!NothingHeld /\ Forwarding!SendTo(ds)
      BY <1>14, <2>4 DEF Forwarding!Publish, D
    <3>2. ds \in Seq(Datagrams) /\ ElementsIn(ds) = {D} \cup kept
      <4>1. CASE fHeld = Forwarding!NothingHeld
        <5>1. ds = <<D>> /\ kept = {}
          BY <4>1
        <5>2. <<D>> \in Seq(Datagrams) /\ DOMAIN <<D>> = {1} /\ <<D>>[1] = D
          BY <1>7
        <5>3. {<<D>>[i] : i \in DOMAIN <<D>>} = {D}
          BY <5>2
        <5> QED
          BY <5>1, <5>2, <5>3 DEF ElementsIn, Forwarding!Ext!ToSet
      <4>2. CASE fHeld # Forwarding!NothingHeld
        <5>1. ds = <<D, fHeld>> /\ kept = {fHeld}
          BY <4>2
        <5>2. /\ <<D, fHeld>> \in Seq(Datagrams) /\ DOMAIN <<D, fHeld>> = {1, 2}
              /\ <<D, fHeld>>[1] = D /\ <<D, fHeld>>[2] = fHeld
          BY <1>6, <1>7, <4>2
        <5>3. {<<D, fHeld>>[i] : i \in DOMAIN <<D, fHeld>>} = {D, fHeld}
          BY <5>2
        <5> QED
          BY <5>1, <5>2, <5>3 DEF ElementsIn, Forwarding!Ext!ToSet
      <4> QED
        BY <4>1, <4>2
    <3> HIDE DEF ds
    <3>3. PICK S, R \in SUBSET Datagrams :
              /\ S \cup R = ElementsIn(ds)
              /\ fQueue' \in Seq(Datagrams) /\ Queued' = Queued \cup S
              /\ fGone' = fGone \cup UNION {DataOf(d.frames) : d \in R}
              /\ fQueue' # <<>> => fQueue # <<>> \/ Forwarding!Reaches
      BY <1>6, <3>1, <3>2, SomeAreSent
    <3>4. InFlight = Queued \cup kept /\ InFlight' = Queued \cup S /\ S \cup R = {D} \cup kept
      <4>1. InFlight' = Queued'
        BY <3>1, Zenon DEF InFlight
      <4> QED
        BY <3>2, <3>3, <4>1 DEF InFlight
    <3>5. InFlight' \subseteq InFlight \cup {D}
      BY <3>4
    <3>6. \A x : x \in Carried' \cup fGone' <=> x \in Carried \cup fGone \cup DataOf(fFrames)
      <4>1. \A x : x \in Carried' <=> \E d \in Queued \cup S : x \in DataOf(d.frames)
        <5>1. Carried' = UNION {DataOf(d.frames) : d \in InFlight'}
          BY Zenon DEF Carried
        <5> QED
          BY <3>4, <5>1
      <4>2. \A x : x \in fGone' <=> x \in fGone \/ \E d \in R : x \in DataOf(d.frames)
        BY <3>3
      <4>3. \A x : x \in Carried <=> \E d \in Queued \cup kept : x \in DataOf(d.frames)
        BY <3>4 DEF Carried
      <4>4. \A x : x \in Carried' \cup fGone'
                     <=> \E d \in Queued \cup S \cup R : x \in DataOf(d.frames) \/ x \in fGone
        <5> HIDE DEF kept
        <5>1. S \cup R # {}
          BY <3>4
        <5> QED
          BY <4>1, <4>2, <5>1
      <4>5. \A x : x \in Carried \cup fGone \cup DataOf(fFrames)
                     <=> \E d \in Queued \cup {D} \cup kept : x \in DataOf(d.frames) \/ x \in fGone
        <5> HIDE DEF kept
        <5>1. DataOf(D.frames) = DataOf(fFrames)
          BY <1>10
        <5> QED
          BY <4>3, <5>1
      <4>6. Queued \cup S \cup R = Queued \cup {D} \cup kept
        BY <3>4
      <4> HIDE DEF kept
      <4> QED
        BY <4>4, <4>5, <4>6
    <3>7. fGone' \subseteq Transmissions
      <4>1. \A d \in R : DataOf(d.frames) \subseteq Transmissions
        BY DataOfFrames DEF Datagrams
      <4> QED
        BY <1>6, <3>3, <4>1
    <3>8. Carried' \cup fGone' = Carried \cup fGone \cup DataOf(fFrames)
      BY <3>6, Zenon
    <3> QED
      BY <2>2, <3>1, <3>3, <3>5, <3>7, <3>8
  <2> QED
    BY <2>3, <2>4
<1> QED
  BY <1>13, <1>14

LEMMA AscendsTogether ==
    ASSUME NEW s \in Seq(Transmissions), NEW t \in Seq(Transmissions), Ascends(s), Ascends(t),
           Before(DataOf(s), DataOf(t))
    PROVE  Ascends(s \o t)
<1>1. /\ DOMAIN (s \o t) = 1 .. Len(s) + Len(t) /\ DOMAIN s = 1 .. Len(s) /\ DOMAIN t = 1 .. Len(t)
      /\ Len(s) \in Nat /\ Len(t) \in Nat
      /\ \A i \in 1 .. Len(s) + Len(t) : (s \o t)[i] = IF i <= Len(s) THEN s[i] ELSE t[i - Len(s)]
  OBVIOUS
<1>2. ASSUME NEW i \in DOMAIN s, NEW j \in DOMAIN t PROVE s[i] < t[j]
  <2>1. s[i] \in ElementsIn(s) /\ t[j] \in ElementsIn(t)
    BY InElements, Zenon
  <2>2. s[i] \in DataOf(s) /\ t[j] \in DataOf(t)
    BY <2>1, DataOfFrames DEF ElementsIn
  <2> QED
    BY <2>2 DEF Before
<1>3. ASSUME NEW i \in DOMAIN (s \o t), NEW j \in DOMAIN (s \o t), i < j
      PROVE  (s \o t)[i] < (s \o t)[j]
  <2>1. CASE j <= Len(s)
    <3>1. i \in DOMAIN s /\ j \in DOMAIN s /\ (s \o t)[i] = s[i] /\ (s \o t)[j] = s[j]
      BY <1>1, <1>3, <2>1
    <3> QED
      BY <1>3, <3>1 DEF Ascends
  <2>2. CASE i <= Len(s) /\ ~(j <= Len(s))
    <3>1. i \in DOMAIN s /\ j - Len(s) \in DOMAIN t
          /\ (s \o t)[i] = s[i] /\ (s \o t)[j] = t[j - Len(s)]
      BY SMTT(60), <1>1, <1>3, <2>2
    <3> QED
      BY <1>2, <3>1
  <2>3. CASE ~(i <= Len(s))
    <3>1. i - Len(s) \in DOMAIN t /\ j - Len(s) \in DOMAIN t /\ i - Len(s) < j - Len(s)
          /\ (s \o t)[i] = t[i - Len(s)] /\ (s \o t)[j] = t[j - Len(s)]
      BY <1>1, <1>3, <2>3
    <3> QED
      BY <3>1 DEF Ascends
  <2> QED
    BY <1>1, <1>3, <2>1, <2>2, <2>3
<1> QED
  BY <1>3, Zenon DEF Ascends

LEMMA DatagramIsHandled == ASSUME ForwardInvariant, Forwarding!Handle PROVE ForwardInvariant'
<1> DEFINE d == Head(fQueue)
<1>1. /\ UNCHANGED <<fOptions, fGateway, fSubscriber, fBus, fTransmitted, fFrames, fSequence, fHeld>>
      /\ fQueue # <<>> /\ fQueue' = Tail(fQueue)
      /\ Forwarding!Numbered!Observe(d.sequence)
      /\ \/ Forwarding!Displays(d.sequence) /\ fShown' = fShown \o d.frames /\ fGone' = fGone
         \/ /\ ~Forwarding!Displays(d.sequence) /\ fShown' = fShown
            /\ fGone' = fGone \cup Forwarding!Ext!ToSet(d.frames)
  BY DEF Forwarding!Handle, Forwarding!publisher
<1>2. ForwardTypes /\ FarFromWrap /\ Collected /\ SameInterface /\ FramesInOrder /\ ShownFirst
      /\ Accounted
  BY Zenon DEF ForwardInvariant
<1>3. fQueue \in Seq(Datagrams) /\ fShown \in Seq(Transmissions) /\ fGone \subseteq Transmissions
      /\ fOptions.naive \in BOOLEAN
  BY <1>2 DEF ForwardTypes
<1>4. d \in Datagrams /\ fQueue' \in Seq(Datagrams) /\ Queued = {d} \cup Queued'
  <2>1. /\ ElementsIn(fQueue) = {Head(fQueue)} \cup ElementsIn(Tail(fQueue))
        /\ Head(fQueue) \in Datagrams /\ Tail(fQueue) \in Seq(Datagrams)
    BY <1>1, <1>3, ElementsOfTail
  <2> QED
    BY <1>1, <2>1, Zenon DEF Queued
<1> HIDE DEF d
<1>5. d.frames \in Seq(Transmissions) /\ d.sequence \in Nat
  BY <1>4 DEF Datagrams
<1>6. InFlight = InFlight' \cup {d} /\ InFlight' \subseteq InFlight
  BY <1>1, <1>4, Zenon DEF InFlight
<1>7. DataOf(d.frames) = Forwarding!Ext!ToSet(d.frames) /\ DataOf(d.frames) \subseteq Transmissions
  BY <1>5, DataOfFrames
<1>8. Waiting' = Waiting
  BY <1>1, Zenon DEF Waiting
<1>9. /\ fTracker' \in [started : BOOLEAN, highest : Nat, accepted : Nat, lost : Int, stale : Nat]
      /\ fTracker'.started = TRUE
      /\ \/ /\ fTracker.started = TRUE /\ fTracker'.highest = fTracker.highest
            /\ Forwarding!Displays(d.sequence) => fOptions.naive = TRUE
         \/ /\ fTracker.started = FALSE \/ fTracker.highest < d.sequence
            /\ fTracker'.highest = d.sequence
            /\ Forwarding!Displays(d.sequence)
  <2>1. d \in Queued
    BY <1>4
  <2> QED
    BY <1>1, <1>2, <1>4, <2>1, NewsAreObserved
<1>10. \/ /\ Forwarding!Displays(d.sequence) /\ fShown' = fShown \o d.frames /\ fGone' = fGone
          /\ DataOf(fShown') = DataOf(fShown) \cup DataOf(d.frames)
       \/ /\ ~Forwarding!Displays(d.sequence) /\ fShown' = fShown
          /\ fGone' = fGone \cup DataOf(d.frames) /\ DataOf(fShown') = DataOf(fShown)
  <2>1. DataOf(fShown \o d.frames) = DataOf(fShown) \cup DataOf(d.frames)
    BY <1>3, <1>5, DataOfConcatenation
  <2> QED
    BY <1>1, <1>7, <2>1, Zenon
<1>11. Accounted'
  <2>1. Carried = Carried' \cup DataOf(d.frames)
    <3>1. Carried' = UNION {DataOf(e.frames) : e \in InFlight'}
      BY Zenon DEF Carried
    <3> QED
      BY <1>6, <3>1 DEF Carried
  <2>2. Carried' \cup DataOf(fShown') \cup fGone' = Carried \cup DataOf(fShown) \cup fGone
    BY <1>10, <2>1
  <2>3. 1 .. fTransmitted' = 1 .. fTransmitted
    BY <1>1
  <2> QED
    BY <1>2, <1>8, <2>2, <2>3 DEF Accounted
<1>12. ForwardTypes'
  <2>1. fShown' \in Seq(Transmissions) /\ fGone' \subseteq Transmissions
    <3>1. fShown \o d.frames \in Seq(Transmissions)
      BY <1>3, <1>5
    <3>2. fGone \cup DataOf(d.frames) \subseteq Transmissions
      BY <1>3, <1>7
    <3> QED
      BY <1>3, <1>10, <3>1, <3>2, Zenon
  <2> QED
    BY ONLY <1>1, <1>2, <1>4, <1>9, <2>1, SMTT(60) DEF ForwardTypes
<1>13. FarFromWrap'
  <2>1. d.sequence < fSequence
    BY <1>2, <1>6 DEF FarFromWrap
  <2> QED
    BY <1>1, <1>2, <1>6, <1>9, <2>1 DEF FarFromWrap
<1>14. Collected'
  BY <1>1, <1>2, Zenon DEF Collected
<1>15. SameInterface'
  BY <1>1, <1>2 DEF SameInterface
<1>16. FramesInOrder'
  BY <1>1, <1>2, <1>6, <1>8, Zenon DEF FramesInOrder
<1>17. ShownFirst'
  <2>1. Before(DataOf(fShown'), Waiting')
    <3>1. Before(DataOf(fShown), Waiting) /\ Before(DataOf(d.frames), Waiting)
      BY <1>2, <1>6 DEF FramesInOrder, ShownFirst
    <3> QED
      BY <1>8, <1>10, <3>1 DEF Before
  <2>2. ASSUME fOptions.naive = FALSE
        PROVE  /\ Ascends(fShown')
               /\ \A e \in InFlight' : fTracker'.highest < e.sequence =>
                                          Before(DataOf(fShown'), DataOf(e.frames))
    <3>1. Ascends(fShown) /\ \A e \in InFlight :
             fTracker.started = FALSE \/ fTracker.highest < e.sequence =>
                Before(DataOf(fShown), DataOf(e.frames))
      BY <1>2, <2>2, Zenon DEF ShownFirst
    <3>2. CASE ~Forwarding!Displays(d.sequence)
      <4>1. fShown' = fShown /\ fTracker'.highest = fTracker.highest
        BY <1>9, <1>10, <3>2
      <4> QED
        BY <1>6, <3>1, <4>1
    <3>3. CASE Forwarding!Displays(d.sequence)
      <4>1. /\ fTracker.started = FALSE \/ fTracker.highest < d.sequence
            /\ fTracker'.highest = d.sequence
        BY <1>9, <2>2, <3>3
      <4>2. Before(DataOf(fShown), DataOf(d.frames)) /\ Ascends(d.frames)
        BY <1>2, <1>6, <3>1, <4>1 DEF FramesInOrder
      <4>3. Ascends(fShown')
        BY <1>3, <1>5, <1>10, <3>1, <3>3, <4>2, AscendsTogether
      <4>4. ASSUME NEW e \in InFlight', fTracker'.highest < e.sequence
            PROVE  Before(DataOf(fShown'), DataOf(e.frames))
        <5>1. e \in InFlight /\ d \in InFlight /\ d.sequence < e.sequence
          BY <1>6, <4>1, <4>4
        <5>2. Before(DataOf(d.frames), DataOf(e.frames))
          BY <1>2, <5>1 DEF FramesInOrder
        <5>3. fTracker.started = FALSE \/ fTracker.highest < e.sequence
          <6>1. fTracker.highest \in Nat /\ e.sequence \in Nat
            BY <1>2, <5>1, UnderWay DEF ForwardTypes, Datagrams
          <6> QED
            BY <1>5, <4>1, <5>1, <6>1
        <5>4. Before(DataOf(fShown), DataOf(e.frames))
          BY <3>1, <5>1, <5>3
        <5> QED
          BY <1>10, <3>3, <5>2, <5>4 DEF Before
      <4> QED
        BY <4>3, <4>4
    <3> QED
      BY <3>2, <3>3
  <2> QED
    BY <1>1, <1>9, <2>1, <2>2 DEF ShownFirst
<1> QED
  BY <1>11, <1>12, <1>13, <1>14, <1>15, <1>16, <1>17 DEF ForwardInvariant

LEMMA SubscriberStops == ASSUME ForwardInvariant, Forwarding!Stop PROVE ForwardInvariant'
<1>1. /\ UNCHANGED <<fOptions, fGateway, fBus, fTransmitted, fFrames, fSequence, fHeld, fTracker,
                     fShown>>
      /\ fQueue' = <<>>
      /\ fSubscriber' = [fSubscriber EXCEPT !.phase = "over"]
      /\ fGone' = fGone \cup UNION {Forwarding!Ext!ToSet(d.frames) : d \in Queued}
  BY DEF Forwarding!Stop, Forwarding!publisher, Forwarding!receiver, Queued, ElementsIn
<1>2. ForwardTypes /\ FarFromWrap /\ Collected /\ SameInterface /\ FramesInOrder /\ ShownFirst
      /\ Accounted
  BY Zenon DEF ForwardInvariant
<1>3. fGone' = fGone \cup UNION {DataOf(d.frames) : d \in Queued}
  <2>1. \A d \in Queued : DataOf(d.frames) = Forwarding!Ext!ToSet(d.frames)
    BY <1>2, UnderWay, DataOfFrames DEF InFlight, Datagrams
  <2> QED
    BY <1>1, <2>1
<1>4. Queued' = {} /\ InFlight' \subseteq InFlight /\ InFlight = InFlight' \cup Queued
  <2>1. Queued' = {}
    BY <1>1 DEF Queued, ElementsIn, Forwarding!Ext!ToSet
  <2> QED
    BY <1>1, <2>1 DEF InFlight
<1>5. Waiting' = Waiting /\ DataOf(fShown') = DataOf(fShown)
  BY <1>1, Zenon DEF Waiting
<1>6. Carried' \cup fGone' = Carried \cup fGone
  <2>1. Carried' = UNION {DataOf(d.frames) : d \in InFlight'}
    BY Zenon DEF Carried
  <2> QED
    BY <1>3, <1>4, <2>1 DEF Carried
<1>7. Accounted'
  <2>1. 1 .. fTransmitted' = 1 .. fTransmitted
    BY <1>1
  <2> QED
    BY <1>2, <1>5, <1>6, <2>1 DEF Accounted
<1>8. ForwardTypes'
  <2>1. fGone' \subseteq Transmissions
    <3>1. \A d \in Queued : DataOf(d.frames) \subseteq Transmissions
      BY <1>2, UnderWay, DataOfFrames DEF InFlight, Datagrams
    <3> QED
      BY SMTT(60), <1>2, <1>3, <3>1 DEF ForwardTypes
  <2>2. fQueue' \in Seq(Datagrams)
    BY <1>1
  <2>3. fSubscriber' \in [calls : Nat, phase : {"set-up", "wait", "over"}, bound : BOOLEAN,
                          joined : SUBSET (Interfaces \cup {NoInterface})]
    BY <1>1, <1>2 DEF ForwardTypes
  <2> QED
    BY ONLY <1>1, <1>2, <2>1, <2>2, <2>3, ZenonT(60) DEF ForwardTypes
<1>9. fSubscriber'.joined = fSubscriber.joined
  BY <1>1, <1>2 DEF ForwardTypes
<1>10. FarFromWrap' /\ Collected' /\ SameInterface'
  BY <1>1, <1>2, <1>4, <1>9 DEF FarFromWrap, Collected, SameInterface
<1>11. FramesInOrder' /\ ShownFirst'
  BY <1>1, <1>2, <1>4, <1>5, Zenon DEF FramesInOrder, ShownFirst
<1> QED
  BY <1>7, <1>8, <1>10, <1>11 DEF ForwardInvariant

LEMMA ForwardBegins == ASSUME Forwarding!GatewayInit PROVE ForwardInvariant
<1>1. /\ fOptions \in [gatewayInterface : Interfaces \cup {NoInterface},
                       subscriberInterface : Interfaces, can : BOOLEAN, naive : BOOLEAN]
      /\ fGateway = [calls |-> 0, phase |-> "set-up", tick |-> 0, interface |-> Routed,
                     loopback |-> TRUE]
      /\ fSubscriber = [calls |-> 0, phase |-> "set-up", bound |-> FALSE, joined |-> {}]
      /\ fBus = <<>> /\ fTransmitted = 0 /\ fFrames = <<>>
      /\ fSequence = 0 /\ fHeld = Forwarding!NothingHeld
      /\ fQueue = <<>> /\ fShown = <<>> /\ fGone = {}
      /\ fTracker = [started |-> FALSE, highest |-> 0, accepted |-> 0, lost |-> 0, stale |-> 0]
  BY DEF Forwarding!GatewayInit
<1>2. GatewayCycles \in Nat
  BY ForwardingAssumption DEF Forwarding!GatewayAssumption
<1>3. Queued = {} /\ InFlight = {}
  BY <1>1 DEF Queued, ElementsIn, Forwarding!Ext!ToSet, InFlight
<1>4. Waiting = {} /\ Carried = {} /\ DataOf(fShown) = {} /\ DataOf(fFrames) = {}
  BY <1>1, <1>3, DataOfEmpty DEF Waiting, Carried
<1>5. ForwardTypes
  BY <1>1, <1>2 DEF ForwardTypes
<1>6. FarFromWrap /\ Collected /\ SameInterface
  BY <1>1, <1>2, <1>3 DEF FarFromWrap, Collected, SameInterface
<1>7. FramesInOrder /\ ShownFirst
  BY <1>1, <1>3, <1>4 DEF FramesInOrder, ShownFirst, Ascends, Before
<1>8. Accounted
  BY <1>1, <1>4 DEF Accounted
<1> QED
  BY <1>5, <1>6, <1>7, <1>8 DEF ForwardInvariant

LEMMA ForwardStep == ASSUME ForwardInvariant, Forwarding!GatewayNext PROVE ForwardInvariant'
  BY SocketsSetUp, FrameComes, CycleBegins, FrameIsCollected, ReadingIsBuilt, BatchIsPublished,
     DatagramIsHandled, SubscriberStops, Zenon DEF Forwarding!GatewayNext

LEMMA ForwardStutter == ASSUME ForwardInvariant, UNCHANGED slots PROVE ForwardInvariant'
<1>1. UNCHANGED <<fOptions, fGateway, fSubscriber, fBus, fTransmitted, fFrames, fSequence, fHeld,
                  fQueue, fTracker, fShown, fGone>>
  BY Zenon DEF slots
<1>2. Queued' = Queued /\ InFlight' = InFlight /\ Waiting' = Waiting /\ Carried' = Carried
  BY <1>1, Zenon DEF Queued, InFlight, Waiting, Carried
<1>3. ForwardTypes'
  <2>1. ForwardTypes
    BY Zenon DEF ForwardInvariant
  <2> QED
    BY ONLY <1>1, <2>1, SMTT(60) DEF ForwardTypes
<1>6. FarFromWrap'
  BY <1>1, <1>2, Zenon DEF ForwardInvariant, FarFromWrap
<1>4. Collected' /\ SameInterface'
  BY <1>1, Zenon DEF ForwardInvariant, Collected, SameInterface
<1>5. FramesInOrder' /\ ShownFirst' /\ Accounted'
  BY <1>1, <1>2, Zenon DEF ForwardInvariant, FramesInOrder, ShownFirst, Accounted
<1> QED
  BY <1>3, <1>4, <1>5, <1>6, Zenon DEF ForwardInvariant
(***************************************************************************)
(* The parts together: a step is one of the part that was chosen, or leaves *)
(* every variable of it alone.                                             *)
(***************************************************************************)
LEMMA PartBegins ==
    ASSUME PartsInit
    PROVE  /\ Is("errors") => Errors!ErrorInit
           /\ Is("link") => Link!LinkInit
           /\ Is("sessions") => Sessions!RebootInit
           /\ Is("forwarding") => Forwarding!GatewayInit
           /\ Is("vehicle") => Vehicle!ServicesInit
           /\ Is("pointers") => Pointers!PointerInit
           /\ Is("memory") => Memory!MemoryInit
           /\ Is("leases") => Leases!Init
  BY DEF PartsInit, Is

LEMMA PartSteps ==
    ASSUME [PartsNext /\ UNCHANGED part]_partsVars
    PROVE  /\ part' = part
           /\ \/ UNCHANGED slots
              \/ /\ Is("errors") => Errors!ErrorNext
                 /\ Is("link") => Link!LinkNext
                 /\ Is("sessions") => Sessions!RebootNext
                 /\ Is("forwarding") => Forwarding!GatewayNext
                 /\ Is("vehicle") => Vehicle!ServicesNext
                 /\ Is("pointers") => Pointers!PointerNext
                 /\ Is("memory") => Memory!MemoryNext
                 /\ Is("leases") => Leases!Next
<1>1. CASE UNCHANGED partsVars
  BY <1>1 DEF partsVars
<1>2. CASE PartsNext /\ UNCHANGED part
  <2>1. part' = part
    BY <1>2
  <2>2. /\ Is("errors") => Errors!ErrorNext
        /\ Is("link") => Link!LinkNext
        /\ Is("sessions") => Sessions!RebootNext
        /\ Is("forwarding") => Forwarding!GatewayNext
        /\ Is("vehicle") => Vehicle!ServicesNext
        /\ Is("pointers") => Pointers!PointerNext
        /\ Is("memory") => Memory!MemoryNext
        /\ Is("leases") => Leases!Next
    BY <1>2 DEF PartsNext, Is
  <2> QED
    BY <2>1, <2>2
<1> QED
  BY <1>1, <1>2

\* What is invariant about the part that was chosen.
PartsInvariant ==
    /\ Is("errors") => ErrorInvariant
    /\ Is("link") => LinkInvariant
    /\ Is("sessions") => SessionsInvariant
    /\ Is("vehicle") => VehicleInvariant
    /\ Is("pointers") => PointersInvariant
    /\ Is("leases") => LeasesInvariant
    /\ Is("memory") => MemoryInvariant
    /\ Is("forwarding") => ForwardInvariant

LEMMA PartsStep ==
    ASSUME PartsInvariant, [PartsNext /\ UNCHANGED part]_partsVars
    PROVE  PartsInvariant'
<1>1. part' = part
  BY PartSteps
<1>2. ASSUME Is("errors") PROVE ErrorInvariant'
  <2>1. [Errors!ErrorNext]_Errors!counters
    BY <1>2, PartSteps, Zenon DEF slots, Errors!counters
  <2> QED
    BY <1>2, <2>1, StepKeepsCounters DEF PartsInvariant
<1>3. ASSUME Is("link") PROVE LinkInvariant'
  <2>1. CASE Link!LinkNext
    BY <1>3, <2>1, LinkStep DEF PartsInvariant
  <2>2. CASE UNCHANGED slots
    BY <1>3, <2>2, Zenon DEF PartsInvariant, LinkInvariant, slots
  <2> QED
    BY <1>3, <2>1, <2>2, PartSteps
<1>4. ASSUME Is("sessions") PROVE SessionsInvariant'
  <2>1. CASE Sessions!RebootNext
    BY <1>4, <2>1, SessionsStep DEF PartsInvariant
  <2>2. CASE UNCHANGED slots
    BY <1>4, <2>2, SessionsStutter DEF PartsInvariant, slots
  <2> QED
    BY <1>4, <2>1, <2>2, PartSteps
<1>5. ASSUME Is("vehicle") PROVE VehicleInvariant'
  <2>1. CASE Vehicle!ServicesNext
    BY <1>5, <2>1, VehicleStep DEF PartsInvariant
  <2>2. CASE UNCHANGED slots
    BY <1>5, <2>2, Zenon DEF PartsInvariant, VehicleInvariant, OfferStands, Answered, slots
  <2> QED
    BY <1>5, <2>1, <2>2, PartSteps
<1>6. ASSUME Is("pointers") PROVE PointersInvariant'
  <2>1. CASE Pointers!PointerNext
    BY <1>6, <2>1, PointersStep DEF PartsInvariant
  <2>2. CASE UNCHANGED slots
    BY <1>6, <2>2, PointersStutter DEF PartsInvariant, slots
  <2> QED
    BY <1>6, <2>1, <2>2, PartSteps
<1>7. ASSUME Is("leases") PROVE LeasesInvariant'
  <2>1. CASE Leases!Next
    BY <1>7, <2>1, LeasesStep DEF PartsInvariant
  <2>2. CASE UNCHANGED slots
    BY <1>7, <2>2, LeasesStutter DEF PartsInvariant, slots
  <2> QED
    BY <1>7, <2>1, <2>2, PartSteps
<1>8. ASSUME Is("memory") PROVE MemoryInvariant'
  <2>1. CASE Memory!MemoryNext
    BY <1>8, <2>1, MemoryStep DEF PartsInvariant
  <2>2. CASE UNCHANGED slots
    BY <1>8, <2>2, MemoryStutter DEF PartsInvariant, slots
  <2> QED
    BY <1>8, <2>1, <2>2, PartSteps
<1>9. ASSUME Is("forwarding") PROVE ForwardInvariant'
  <2>1. CASE Forwarding!GatewayNext
    BY <1>9, <2>1, ForwardStep DEF PartsInvariant
  <2>2. CASE UNCHANGED slots
    BY <1>9, <2>2, ForwardStutter DEF PartsInvariant
  <2> QED
    BY <1>9, <2>1, <2>2, PartSteps
<1> QED
  BY <1>1, <1>2, <1>3, <1>4, <1>5, <1>6, <1>7, <1>8, <1>9 DEF PartsInvariant, Is

\* In every reachable state of every part its invariant holds: the conjuncts are
\* what the properties of the parts rest on.
THEOREM PartsAreSound == PartsSpec => []PartsInvariant
<1>1. PartsInit => PartsInvariant
  BY PartBegins, InitialCounters, LinkBegins, SessionsBegin, VehicleBegins, PointersBegin,
     LeasesBegin, MemoryBegins, ForwardBegins DEF PartsInvariant
<1>2. PartsInvariant /\ [PartsNext /\ UNCHANGED part]_partsVars => PartsInvariant'
  BY PartsStep
<1> QED
  BY <1>1, <1>2, PTL DEF PartsSpec

\* A node leaves the bus for its own transmit errors only, and returns only after
\* RecoveryWindows quiet windows with clean counters, for all limits
\* (error_state.cpp).
THEOREM FaultsAreConfined == PartsSpec => Confinement
<1>1. PartsInvariant /\ [PartsNext /\ UNCHANGED part]_partsVars
         => [Is("errors") => Errors!Confined]_slots
  <2> SUFFICES ASSUME PartsInvariant, [PartsNext /\ UNCHANGED part]_partsVars, Is("errors")
               PROVE  Errors!Confined \/ UNCHANGED slots
    OBVIOUS
  <2>1. CASE Errors!ErrorNext
    BY <2>1, OnTheBusKeeps, OffTheBusKeeps DEF PartsInvariant, Errors!ErrorNext, Errors!On
  <2> QED
    BY <2>1, PartSteps
<1> QED
  BY <1>1, PartsAreSound, PTL DEF PartsSpec, Confinement

\* Whatever arrives and however long the receiver waits or works, can_rx calls a
\* signal stale when it has been silent for long, and live when it has not, for
\* every threshold (can_rx/main.cpp).
THEOREM SilenceIsSeen == PartsSpec => []StaleAgrees
<1>1. PartsInvariant => StaleAgrees
  BY LinkHolds DEF PartsInvariant, StaleAgrees
<1> QED
  BY <1>1, PartsAreSound, PTL

\* However many senders restart and share a host, and whichever discovery messages
\* are lost, no more reboots are counted than happened, as long as no session id
\* has come round and no host has had two servers: what others on it ask does not
\* matter (runtime.cpp, note_reboot()).
THEOREM RebootsAreReal == PartsSpec => []NoFalseReboot
<1>1. PartsInvariant => NoFalseReboot
  BY SessionsHold DEF PartsInvariant, NoFalseReboot
<1> QED
  BY <1>1, PartsAreSound, PTL

\* Whatever the two programs are told on their command lines, whichever calls
\* fail and however frames and datagrams fall, every frame of the CAN bus is in
\* one place or known to be gone; without --naive the display shows frames in the
\* order of the bus and none twice, and only if the interfaces agree (eth_gw,
\* eth_sub). No gateway here uses more than half of its numbers.
THEOREM FramesAreForwarded == PartsSpec => []NoFrameVanishes
<1>1. PartsInvariant => NoFrameVanishes
  BY ForwardHolds DEF PartsInvariant, NoFrameVanishes
<1> QED
  BY <1>1, PartsAreSound, PTL

\* A service is offered only while every method of it can be answered, and every
\* request is answered, whatever clients and strangers send (skeleton.cpp,
\* svc_server).
THEOREM OffersAreHonoured == PartsSpec => []PromisesAreKept
<1>1. PartsInvariant => PromisesAreKept
  BY VehicleHolds DEF PartsInvariant, PromisesAreKept
<1> QED
  BY <1>1, PartsAreSound, PTL

\* Whichever threads copy, move, observe and release the handles of one object,
\* and in whatever order their steps fall, the object and its block are each
\* freed once, by one thread, when the last handle and the last watcher let go
\* (smart_ptr.hpp).
THEOREM HandlesAreSound == PartsSpec => []PointersAreSound
<1>1. PartsInvariant => PointersAreSound
  BY PointersHold DEF PartsInvariant, PointersAreSound
<1> QED
  BY <1>1, PartsAreSound, PTL

\* On x86, with stores that wait in their core's buffer: no round of the seq_cst
\* litmus ends with both threads having read 0, who sees the flag sees the
\* payload, and the lock-free ring of any size hands over every element once, in
\* order, and destroys the rest (memory_order_litmus.hpp 39-49, 88-118,
\* spsc_ring.hpp).
THEOREM OrdersSuffice == PartsSpec => []OrderIsKept
<1>1. PartsInvariant => OrderIsKept
  BY MemoryHolds DEF PartsInvariant, OrderIsKept
<1> QED
  BY <1>1, PartsAreSound, PTL

\* A server that ceased to offer, said so or not, is unknown to every client once
\* one lease has passed (sd.cpp:391, runtime.cpp:383).
THEOREM TheGoneAreForgotten == PartsSpec => []DeadWithinLease
<1>1. PartsInvariant => DeadWithinLease
  BY LeasesHold DEF PartsInvariant, DeadWithinLease
<1> QED
  BY <1>1, PartsAreSound, PTL

\* One that goes on offering is never dropped, although MaxLosses of its offers in
\* a row do not arrive, if the lease is longer than the intervals from one that
\* did to the next that must (runtime.cpp:383).
THEOREM TheLiveAreKept ==
    ASSUME OfferTtl > (MaxLosses + 1) * OfferInterval
    PROVE  PartsSpec => LiveServerKept
<1>1. PartsInvariant => (Is("leases") => Leases!LeaseHolds)
  BY LeasesHold DEF PartsInvariant
<1> QED
  BY <1>1, PartsAreSound, PTL DEF LiveServerKept
=============================================================================
