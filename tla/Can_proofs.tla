----------------------------- MODULE Can_proofs ------------------------------
(***************************************************************************)
(* The CAN side, for every value of the constants.                         *)
(*                                                                         *)
(* The tunnel: the display never goes backwards, what is newer is shown,   *)
(* and what was accepted and what was lost is counted to the datagram.     *)
(* Assumed: the subscriber is not naive, and a datagram is under way for   *)
(* no more than half of the range (WindowAssumption).                      *)
(*                                                                         *)
(* Arbitration: whoever withdraws was beaten bit by bit, and the highest   *)
(* priority never withdraws. Assumed: identifiers are numbers.             *)
(*                                                                         *)
(* The DBC parser: a database is the whole file, and remarks are where     *)
(* they belong. Assumed: so are the identifiers of the file, and no text   *)
(* is mistaken for the absence of one.                                     *)
(*                                                                         *)
(* Signals: what is written into a frame is read back, and other signals   *)
(* are left alone. Assumed: signals are within their types, and values are *)
(* integers or not finite.                                                 *)
(*                                                                         *)
(* Datagrams: in each of the three wire formats what was encoded is what   *)
(* is decoded, and what was cut, grew or is of a newer standard does no    *)
(* harm beyond itself. Assumed: what is sent is within the types of its    *)
(* fields and short enough for a length of four bytes.                     *)
(***************************************************************************)
EXTENDS Tunnel, Formats, FiniteSetTheorems, SequenceTheorems, WellFoundedInduction,
        NaturalsInduction, TLAPS

Datagram == [sequence : Nat, reading : Nat]

Tracker == [started : BOOLEAN, highest : Nat, accepted : Nat, lost : Int, stale : Nat]

\* Datagrams that may still arrive.
Coming == network \cup ({held} \ {None})

(***************************************************************************)
(* The inductive invariant                                                 *)
(***************************************************************************)
Types ==
    /\ sequence \in Nat /\ published \in Nat /\ run \in Nat
    /\ Coming \subseteq Datagram
    /\ tracker \in Tracker
    /\ shown \in Int

\* A run numbers its publications from zero on, modulo the range; what is under
\* way is of this run and not too old.
Numbered ==
    /\ run <= published
    /\ sequence = (published - run) % Modulus
    /\ held # None => held.reading = published - 1
    /\ \A d \in Coming :
          /\ d.sequence = (d.reading - run) % Modulus
          /\ run <= d.reading /\ d.reading < published /\ published <= d.reading + MaxLate

\* So is what is displayed, unless it is of an earlier run.
Displayed ==
    /\ shown < published
    /\ ~tracker.started => shown = -1
    /\ tracker.started /\ run <= shown => tracker.highest = (shown - run) % Modulus

OrderInvariant == Types /\ Numbered /\ Displayed

(***************************************************************************)
(* Sequence numbers                                                        *)
(***************************************************************************)
\* There is one remainder.
LEMMA Remainder ==
    ASSUME NEW x \in Int, NEW q \in Int, NEW m \in 0 .. Modulus - 1, x = Modulus * q + m
    PROVE  x % Modulus = m
<1> DEFINE a == x \div Modulus
           b == x % Modulus
<1>1. Modulus \in Nat /\ Modulus > 1
  BY TunnelAssumption
<1>2. a \in Int /\ b \in 0 .. Modulus - 1 /\ x = Modulus * a + b
  BY <1>1
<1> HIDE DEF a, b
<1>3. Modulus * (a - q) = m - b
  <2>1. Modulus * a - Modulus * q = m - b
    BY <1>1, <1>2
  <2>2. \A c, y, z \in Int : c * y - c * z = c * (y - z)
    OBVIOUS
  <2> QED
    BY <1>1, <1>2, <2>1, <2>2
<1>4. CASE a - q >= 1
  <2>1. Modulus * (a - q) >= Modulus
    BY <1>1, <1>2, <1>4
  <2> QED
    BY <1>1, <1>2, <1>3, <2>1
<1>5. CASE a - q <= -1
  <2>1. Modulus * (a - q) <= -Modulus
    BY <1>1, <1>2, <1>5
  <2> QED
    BY <1>1, <1>2, <1>3, <2>1
<1>6. CASE a - q = 0
  <2>1. m - b = 0
    BY <1>1, <1>3, <1>6
  <2> QED
    BY <1>2, <2>1 DEF b
<1> QED
  BY <1>2, <1>4, <1>5, <1>6

LEMMA ZeroRemainder == 0 % Modulus = 0
<1>1. 0 \in 0 .. Modulus - 1 /\ 0 = Modulus * 0 + 0
  BY TunnelAssumption
<1> QED
  BY <1>1, Remainder

\* Counting goes on modulo the range.
LEMMA NextRemainder ==
    ASSUME NEW n \in Nat
    PROVE  ((n % Modulus) + 1) % Modulus = (n + 1) % Modulus
<1> DEFINE a == n \div Modulus
           m == n % Modulus
<1>1. Modulus \in Nat /\ Modulus > 1
  BY TunnelAssumption
<1>2. a \in Int /\ m \in 0 .. Modulus - 1 /\ n = Modulus * a + m
  BY <1>1
<1> HIDE DEF a
<1> SUFFICES (m + 1) % Modulus = (n + 1) % Modulus
  OBVIOUS
<1> HIDE DEF m
<1>3. CASE m + 1 < Modulus
  <2>1. n + 1 = Modulus * a + (m + 1) /\ m + 1 \in 0 .. Modulus - 1
    BY <1>1, <1>2, <1>3
  <2>2. (n + 1) % Modulus = m + 1
    BY <1>2, <2>1, Remainder
  <2>3. m + 1 = Modulus * 0 + (m + 1)
    BY <1>1, <1>2
  <2> QED
    BY <1>2, <2>1, <2>2, <2>3, Remainder
<1>4. CASE m + 1 = Modulus
  <2>1. n + 1 = Modulus * (a + 1) + 0
    <3>1. \A c, y \in Int : c * y + c = c * (y + 1)
      OBVIOUS
    <3>2. n + 1 = Modulus * a + Modulus
      BY <1>1, <1>2, <1>4
    <3> QED
      BY <1>1, <1>2, <3>1, <3>2
  <2>2. (n + 1) % Modulus = 0
    BY <1>1, <1>2, <2>1, Remainder
  <2>3. m + 1 = Modulus * 1 + 0
    BY <1>1, <1>4
  <2>4. (m + 1) % Modulus = 0
    BY <1>1, <1>2, <2>3, Remainder
  <2> QED
    BY <2>2, <2>4
<1> QED
  BY <1>1, <1>2, <1>3, <1>4

\* What lies behind, by half of the range at most, is told to be old.
LEMMA BehindIsOld ==
    ASSUME NEW i \in Nat, NEW j \in Nat, i <= j, j - i <= Modulus \div 2
    PROVE  Delta(i % Modulus, j % Modulus) <= 0
<1> DEFINE a == i \div Modulus
           b == j \div Modulus
           m == i % Modulus
           k == j % Modulus
           half == Modulus \div 2
<1>1. Modulus \in Nat /\ Modulus > 1
  BY TunnelAssumption
<1>2. /\ a \in Int /\ m \in 0 .. Modulus - 1 /\ i = Modulus * a + m
      /\ b \in Int /\ k \in 0 .. Modulus - 1 /\ j = Modulus * b + k
  BY <1>1
<1>3. half \in Nat /\ half + half <= Modulus /\ 0 < half /\ j - i <= half
  BY <1>1
<1> SUFFICES (IF (m - k) % Modulus < half THEN (m - k) % Modulus ELSE ((m - k) % Modulus) - Modulus) <= 0
  BY DEF Delta
<1> HIDE DEF a, b, m, k, half
<1>4. CASE i = j
  <2>1. m - k = Modulus * 0 + 0
    BY <1>1, <1>2, <1>4 DEF m, k
  <2>2. (m - k) % Modulus = 0
    BY <1>1, <1>2, <2>1, Remainder
  <2> QED
    BY <1>3, <2>2
<1>5. CASE i < j
  <2> DEFINE rest == Modulus - (j - i)
  <2>1. rest \in 0 .. Modulus - 1 /\ half <= rest
    BY <1>1, <1>3, <1>5
  <2>2. m - k = Modulus * (b - a - 1) + rest
    <3>1. \A c, y, z \in Int : c * (y - z - 1) = c * y - c * z - c
      OBVIOUS
    <3>2. m - k = Modulus * b - Modulus * a - (j - i)
      BY <1>1, <1>2
    <3> QED
      BY <1>1, <1>2, <3>1, <3>2
  <2> HIDE DEF rest
  <2>3. (m - k) % Modulus = rest
    BY <1>2, <2>1, <2>2, Remainder
  <2> QED
    BY <1>1, <1>3, <2>1, <2>3
<1> QED
  BY <1>4, <1>5

(***************************************************************************)
(* The theorem                                                             *)
(***************************************************************************)
LEMMA InitOrder == Init => OrderInvariant
<1>1. 0 % Modulus = 0
  BY ZeroRemainder
<1> QED
  BY <1>1 DEF Init, OrderInvariant, Types, Tracker, Numbered, Displayed, Coming

LEMMA PublishOrder == OrderInvariant /\ Publish => OrderInvariant'
<1> SUFFICES ASSUME OrderInvariant, Publish PROVE OrderInvariant'
  OBVIOUS
<1> DEFINE datagram == [sequence |-> sequence, reading |-> published]
<1> USE TunnelAssumption, WindowAssumption DEF OrderInvariant
<1>1. /\ sequence' = (sequence + 1) % Modulus
      /\ published' = published + 1
      /\ UNCHANGED <<run, tracker, shown>>
  BY DEF Publish, NextSequence, subscriber
<1>2. Coming' \subseteq Coming \cup {datagram}
  BY DEF Publish, Coming
<1>3. /\ published \in Nat /\ run \in Nat /\ run <= published /\ sequence \in Nat
      /\ sequence = (published - run) % Modulus
  BY DEF Types, Numbered
<1>4. sequence' = (published' - run) % Modulus /\ sequence' \in Nat
  <2>1. published - run \in Nat /\ published' - run = (published - run) + 1
    BY <1>1, <1>3
  <2> QED
    BY <1>1, <1>3, <2>1, NextRemainder
<1>5. datagram \in Datagram
  BY <1>3 DEF Datagram
<1>6. Types'
  BY <1>1, <1>2, <1>3, <1>4, <1>5 DEF Types
<1>7. held' # None => held'.reading = published' - 1
  BY <1>1, <1>3 DEF Publish
<1>8. ASSUME NEW d \in Coming'
      PROVE  /\ d.sequence = (d.reading - run) % Modulus
             /\ run <= d.reading /\ d.reading < published' /\ published' <= d.reading + MaxLate
  <2>1. CASE d = datagram
    BY <1>1, <1>3, <2>1
  <2>2. CASE d \in network
    <3>1. published - d.reading < MaxLate
      BY <2>2 DEF Publish
    <3>2. d \in Coming /\ d.reading \in Nat
      BY <2>2 DEF Coming, Types, Datagram
    <3> QED
      BY <1>1, <1>3, <3>1, <3>2 DEF Numbered
  <2>3. CASE d = held /\ held # None
    <3>1. d \in Coming /\ d.reading \in Nat
      BY <2>3 DEF Coming, Types, Datagram
    <3>2. d.reading = published - 1
      BY <2>3 DEF Numbered
    <3> QED
      BY <1>1, <1>3, <3>1, <3>2 DEF Numbered
  <2> QED
    BY <1>2, <2>1, <2>2, <2>3 DEF Coming
<1>9. Numbered'
  BY <1>1, <1>3, <1>4, <1>7, <1>8 DEF Numbered
<1>10. Displayed'
  BY <1>1, <1>3 DEF Displayed, Types
<1> QED
  BY <1>6, <1>9, <1>10

LEMMA RestartOrder == OrderInvariant /\ Restart => OrderInvariant'
<1> SUFFICES ASSUME OrderInvariant, Restart PROVE OrderInvariant'
  OBVIOUS
<1>1. /\ sequence' = 0 /\ held' = None /\ network' = {} /\ run' = published
      /\ UNCHANGED <<published, tracker, shown>>
  BY DEF Restart, subscriber
<1>2. 0 % Modulus = 0
  BY ZeroRemainder
<1>3. published \in Nat /\ shown \in Int /\ shown < published
  BY DEF OrderInvariant, Types, Displayed
<1> QED
  BY <1>1, <1>2, <1>3 DEF OrderInvariant, Types, Numbered, Displayed, Coming

\* What a subscriber that is not naive displays is newer than what it has
\* displayed before.
LEMMA DisplaysNewer ==
    ASSUME ~Naive, OrderInvariant, NEW d \in network, Displays(d.sequence)
    PROVE  shown < d.reading
<1> USE TunnelAssumption, WindowAssumption DEF OrderInvariant
<1>1. /\ d \in Coming /\ d.reading \in Nat /\ run <= d.reading
      /\ d.reading < published /\ published <= d.reading + MaxLate
      /\ d.sequence = (d.reading - run) % Modulus
  BY DEF Coming, Types, Numbered, Datagram
<1>2. shown \in Int /\ shown < published /\ run \in Nat /\ published \in Nat
  BY DEF Types, Displayed
<1>3. CASE ~tracker.started
  BY <1>1, <1>2, <1>3 DEF Displayed
<1>4. CASE shown < run
  BY <1>1, <1>2, <1>4
<1>5. CASE tracker.started /\ run <= shown
  <2>1. Delta(d.sequence, tracker.highest) > 0 \/ Delta(d.sequence, tracker.highest) \notin Int
    BY <1>5 DEF Displays, Order
  <2>2. tracker.highest = (shown - run) % Modulus
    BY <1>5 DEF Displayed
  <2>3. SUFFICES ASSUME d.reading <= shown PROVE FALSE
    BY <1>1, <1>2
  <2>4. Delta(d.sequence, tracker.highest) <= 0
    <3> DEFINE i == d.reading - run
               j == shown - run
    <3>1. i \in Nat /\ j \in Nat /\ i <= j /\ j - i <= Modulus \div 2
      BY <1>1, <1>2, <1>5, <2>3
    <3> QED
      BY <1>1, <2>2, <3>1, BehindIsOld
  <2>5. Delta(d.sequence, tracker.highest) \in Int
    <3>1. d.sequence \in Nat /\ tracker.highest \in Nat
      BY <1>1 DEF Types, Datagram, Tracker
    <3> QED
      BY <3>1 DEF Delta
  <2> QED
    BY <2>1, <2>4, <2>5
<1> QED
  BY <1>2, <1>3, <1>4, <1>5

LEMMA HandleOrder ==
    ASSUME ~Naive, OrderInvariant, NEW d \in network, Handle(d)
    PROVE  OrderInvariant'
<1> USE TunnelAssumption DEF OrderInvariant
<1>1. /\ UNCHANGED <<sequence, held, published, run>>
      /\ Coming' \subseteq Coming
  BY DEF Handle, gateway, Coming
<1>2. /\ d \in Coming /\ d.reading \in Nat /\ d.sequence \in Nat /\ d.reading < published
      /\ d.sequence = (d.reading - run) % Modulus
  BY DEF Coming, Types, Numbered, Datagram
<1>3. CASE Order(d.sequence) \in {"Stale", "Duplicate"}
  <2>1. shown' = shown /\ tracker' = [tracker EXCEPT !.stale = @ + 1]
    BY <1>3 DEF Handle, Displays, Observe
  <2> QED
    BY <1>1, <2>1 DEF Types, Numbered, Displayed, Tracker
<1>4. CASE Order(d.sequence) \in {"First", "InOrder", "Gap"}
  <2>1. shown' = d.reading
    BY <1>4 DEF Handle, Displays
  <2> DEFINE accepted == tracker.accepted + 1
             lost == tracker.lost + Skipped(d.sequence)
  <2>2. tracker \in Tracker /\ accepted \in Nat
    BY DEF Types, Tracker
  <2>3. ASSUME Order(d.sequence) = "First"
        PROVE  tracker' \in Tracker /\ tracker'.started /\ tracker'.highest = d.sequence
    <3>1. tracker' = [tracker EXCEPT !.started = TRUE, !.highest = d.sequence, !.accepted = accepted]
      BY <2>3 DEF Handle, Observe
    <3> HIDE DEF accepted
    <3> QED
      BY <1>2, <2>2, <3>1 DEF Tracker
  <2>4. ASSUME Order(d.sequence) \in {"InOrder", "Gap"}
        PROVE  tracker' \in Tracker /\ tracker'.started /\ tracker'.highest = d.sequence
    <3>1. tracker' = [tracker EXCEPT !.highest = d.sequence, !.accepted = accepted, !.lost = lost]
      BY <2>4 DEF Handle, Observe
    <3>2. tracker.started
      BY <2>4 DEF Order, Types
    <3>3. lost \in Int
      BY <1>2, <2>2 DEF Skipped, Delta, Tracker
    <3> HIDE DEF accepted, lost
    <3> QED
      BY <1>2, <2>2, <3>1, <3>2, <3>3 DEF Tracker
  <2>5. tracker' \in Tracker /\ tracker'.started /\ tracker'.highest = d.sequence
    BY <1>4, <2>3, <2>4
  <2>6. Types'
    BY <1>1, <1>2, <2>1, <2>5 DEF Types
  <2>7. Displayed'
    BY <1>1, <1>2, <2>1, <2>5 DEF Displayed
  <2> QED
    BY <1>1, <2>6, <2>7 DEF Numbered
<1> QED
  BY <1>3, <1>4 DEF Order

LEMMA OrderKept ==
    ASSUME ~Naive, OrderInvariant, [Next]_vars PROVE OrderInvariant'
<1>1. ASSUME NEW d \in network, Lose(d)
      PROVE  OrderInvariant'
  BY <1>1 DEF Lose, gateway, subscriber, OrderInvariant, Types, Numbered, Displayed, Coming
<1>2. CASE UNCHANGED vars
  BY <1>2 DEF vars, gateway, subscriber, OrderInvariant, Types, Numbered, Displayed, Coming
<1> QED
  BY <1>1, <1>2, PublishOrder, RestartOrder, HandleOrder DEF Next

\* The display never goes back, for every range of numbers, however many
\* datagrams are lost, repeated or overtaken and however often the gateway
\* starts over.
THEOREM DisplayOrder == ASSUME ~Naive PROVE Spec => NeverBackwards
<1>1. OrderInvariant /\ [Next]_vars => OrderInvariant'
  BY OrderKept
<1>2. OrderInvariant /\ [Next]_vars => [shown' # shown => shown' > shown]_shown
  <2> SUFFICES ASSUME OrderInvariant, [Next]_vars, shown' # shown PROVE shown' > shown
    OBVIOUS
  <2>1. PICK d \in network : Handle(d)
    BY DEF Next, Publish, Restart, Lose, subscriber, vars
  <2>2. Displays(d.sequence) /\ shown' = d.reading
    BY <2>1 DEF Handle
  <2>3. shown \in Int /\ d.reading \in Nat
    BY <2>1 DEF OrderInvariant, Types, Coming, Datagram
  <2> QED
    BY <2>2, <2>3, DisplaysNewer
<1> QED
  BY <1>1, <1>2, InitOrder, PTL DEF Spec, NeverBackwards
(***************************************************************************)
(* Accounting                                                              *)
(***************************************************************************)
\* As long as the gateway has not started over, the display is as far as the
\* network is, and little was lost since.
Counted ==
    /\ restarts \in Nat /\ heard \in Nat /\ first \in Int
    /\ restarts = 0 =>
          /\ run = 0 /\ heard = shown + 1 /\ published - heard <= MaxLost + 1
          /\ ~tracker.started => tracker.accepted = 0 /\ tracker.lost = 0
          /\ tracker.started =>
                shown \in Nat /\ tracker.accepted + tracker.lost = shown - first + 1

\* What lies ahead, by less than half of the range, is told how far.
LEMMA AheadIsMeasured ==
    ASSUME NEW i \in Nat, NEW j \in Nat, j < i, i - j < Modulus \div 2
    PROVE  Delta(i % Modulus, j % Modulus) = i - j
<1> DEFINE a == i \div Modulus
           b == j \div Modulus
           m == i % Modulus
           k == j % Modulus
           half == Modulus \div 2
<1>1. Modulus \in Nat /\ Modulus > 1
  BY TunnelAssumption
<1>2. /\ a \in Int /\ m \in 0 .. Modulus - 1 /\ i = Modulus * a + m
      /\ b \in Int /\ k \in 0 .. Modulus - 1 /\ j = Modulus * b + k
  BY <1>1
<1>3. half \in Nat /\ half + half <= Modulus /\ i - j < half
  BY <1>1
<1> SUFFICES (IF (m - k) % Modulus < half THEN (m - k) % Modulus ELSE ((m - k) % Modulus) - Modulus) = i - j
  BY DEF Delta
<1> HIDE DEF a, b, m, k, half
<1>4. m - k = Modulus * (b - a) + (i - j)
  <2>1. \A c, y, z \in Int : c * (y - z) = c * y - c * z
    OBVIOUS
  <2>2. m - k = Modulus * b - Modulus * a + (i - j)
    BY <1>1, <1>2
  <2> QED
    BY <1>1, <1>2, <2>1, <2>2
<1>5. i - j \in 0 .. Modulus - 1
  BY <1>1, <1>3
<1>6. (m - k) % Modulus = i - j
  BY <1>2, <1>4, <1>5, Remainder
<1> QED
  BY <1>3, <1>6

\* A datagram that is newer than the display is told how much newer.
LEMMA NewerIsMeasured ==
    ASSUME OrderInvariant, Counted, restarts = 0, tracker.started,
           NEW d \in network, shown < d.reading
    PROVE  Delta(d.sequence, tracker.highest) = d.reading - shown
<1>1. /\ d.reading \in Nat /\ d.reading < published /\ d.sequence = (d.reading - run) % Modulus
  BY DEF OrderInvariant, Coming, Types, Numbered, Datagram
<1>2. /\ shown \in Int /\ published \in Nat /\ heard \in Nat
      /\ run = 0 /\ heard = shown + 1 /\ published - heard <= MaxLost + 1
  BY DEF OrderInvariant, Types, Counted
<1>3. shown \in Nat
  BY DEF Counted
<1>4. d.sequence = d.reading % Modulus /\ tracker.highest = shown % Modulus
  <2>1. d.reading - run = d.reading /\ shown - run = shown /\ run <= shown
    BY <1>1, <1>2, <1>3
  <2> QED
    BY <1>1, <2>1 DEF OrderInvariant, Displayed
<1>5. d.reading - shown < Modulus \div 2
  <2>1. MaxLost \in Nat /\ Modulus \in Nat /\ MaxLost < (Modulus \div 2) - 1 /\ Modulus \div 2 \in Int
    BY TunnelAssumption, WindowAssumption
  <2> QED
    BY <1>1, <1>2, <2>1
<1> QED
  BY <1>1, <1>3, <1>4, <1>5, AheadIsMeasured

LEMMA HandleCounted ==
    ASSUME ~Naive, OrderInvariant, Counted, NEW d \in network, Handle(d)
    PROVE  Counted'
<1>1. /\ UNCHANGED <<published, run, restarts>>
      /\ heard' = IF d.reading >= heard THEN d.reading + 1 ELSE heard
      /\ first' = IF tracker.started THEN first ELSE d.reading
  BY DEF Handle, gateway
<1>2. /\ d.reading \in Nat /\ d.sequence \in Nat /\ d.reading < published /\ published \in Nat
      /\ shown \in Int /\ tracker \in Tracker
  BY DEF OrderInvariant, Coming, Types, Numbered, Datagram
<1>3. heard' \in Nat /\ first' \in Int /\ restarts' \in Nat
  BY <1>1, <1>2 DEF Counted
<1> SUFFICES ASSUME restarts = 0
             PROVE  /\ run' = 0 /\ heard' = shown' + 1 /\ published' - heard' <= MaxLost + 1
                    /\ ~tracker'.started => tracker'.accepted = 0 /\ tracker'.lost = 0
                    /\ tracker'.started =>
                          /\ shown' \in Nat
                          /\ tracker'.accepted + tracker'.lost = shown' - first' + 1
  BY <1>1, <1>3 DEF Counted
<1>4. run = 0 /\ heard = shown + 1 /\ published - heard <= MaxLost + 1 /\ heard \in Nat
  BY DEF Counted
<1>5. MaxLost \in Nat
  BY TunnelAssumption
<1>6. heard <= heard' /\ published' - heard' <= MaxLost + 1
  BY <1>1, <1>2, <1>3, <1>4, <1>5
<1>7. CASE Order(d.sequence) \in {"Stale", "Duplicate"}
  <2>1. shown' = shown /\ tracker' = [tracker EXCEPT !.stale = @ + 1]
    BY <1>7 DEF Handle, Displays, Observe
  <2>2. /\ tracker'.started = tracker.started /\ tracker'.accepted = tracker.accepted
        /\ tracker'.lost = tracker.lost
    BY <1>2, <2>1 DEF Tracker
  <2>3. tracker.started
    BY <1>7 DEF Order
  <2>4. d.reading <= shown
    <3>1. SUFFICES ASSUME shown < d.reading PROVE FALSE
      BY <1>2
    <3>2. Delta(d.sequence, tracker.highest) = d.reading - shown
      BY <2>3, <3>1, NewerIsMeasured
    <3>3. Delta(d.sequence, tracker.highest) \in Int /\ Delta(d.sequence, tracker.highest) > 0
      BY <1>2, <3>1, <3>2
    <3> QED
      BY <1>7, <2>3, <3>3 DEF Order
  <2>5. heard' = heard /\ first' = first
    BY <1>1, <1>2, <1>4, <2>3, <2>4
  <2> QED
    BY <1>1, <1>4, <1>6, <2>1, <2>2, <2>3, <2>5 DEF Counted
<1>8. CASE Order(d.sequence) = "First"
  <2>1. shown' = d.reading /\ ~tracker.started
    BY <1>8 DEF Handle, Displays, Order
  <2>2. /\ tracker' = [tracker EXCEPT !.started = TRUE, !.highest = d.sequence, !.accepted = @ + 1]
    BY <1>8 DEF Handle, Observe
  <2>3. tracker.accepted = 0 /\ tracker.lost = 0
    BY <2>1 DEF Counted
  <2>4. tracker'.started /\ tracker'.accepted = 1 /\ tracker'.lost = 0
    BY <1>2, <2>2, <2>3 DEF Tracker
  <2>5. shown = -1
    BY <2>1 DEF OrderInvariant, Displayed
  <2>6. heard' = d.reading + 1 /\ first' = d.reading
    BY <1>1, <1>2, <1>4, <2>1, <2>5
  <2> QED
    BY <1>1, <1>2, <1>4, <1>6, <2>1, <2>4, <2>6
<1>9. CASE Order(d.sequence) \in {"InOrder", "Gap"}
  <2>1. shown' = d.reading /\ tracker.started /\ Displays(d.sequence)
    <3>1. Displays(d.sequence)
      BY <1>9 DEF Displays
    <3>2. tracker.started
      BY <1>9 DEF Order
    <3> QED
      BY <3>1, <3>2 DEF Handle
  <2>2. shown < d.reading
    BY <2>1, DisplaysNewer
  <2>3. Delta(d.sequence, tracker.highest) = d.reading - shown
    BY <2>1, <2>2, NewerIsMeasured
  <2> DEFINE lost == tracker.lost + Skipped(d.sequence)
  <2>4. tracker' = [tracker EXCEPT !.highest = d.sequence, !.accepted = @ + 1, !.lost = lost]
    BY <1>9 DEF Handle, Observe
  <2>5. lost = tracker.lost + (d.reading - shown - 1)
    BY <2>3 DEF Skipped
  <2> HIDE DEF lost
  <2>6. tracker'.started /\ tracker'.accepted = tracker.accepted + 1 /\ tracker'.lost = lost
    BY <1>2, <2>1, <2>4 DEF Tracker
  <2>7. heard' = d.reading + 1 /\ first' = first /\ first \in Int
    BY <1>1, <1>2, <1>4, <2>1, <2>2 DEF Counted
  <2>8. tracker.accepted + tracker.lost = shown - first + 1
    BY <2>1 DEF Counted
  <2>9. tracker.accepted \in Nat /\ tracker.lost \in Int
    BY <1>2 DEF Tracker
  <2>10. tracker'.accepted + tracker'.lost = d.reading - first + 1
    BY <1>2, <2>5, <2>6, <2>7, <2>8, <2>9
  <2> QED
    BY <1>1, <1>2, <1>4, <1>6, <2>1, <2>6, <2>7, <2>10
<1> QED
  BY <1>7, <1>8, <1>9 DEF Order

\* What the subscriber counts as accepted and as lost is, to the datagram, what
\* lies between the first reading and the one on the display, also across the
\* wrap and whatever is repeated or overtaken (tunnel.hpp, SequenceTracker).
THEOREM EveryDatagramIsCounted == ASSUME ~Naive PROVE Spec => []Accounting
<1>1. Init => OrderInvariant /\ Counted
  <2>1. Init => Counted
    BY TunnelAssumption DEF Init, Counted
  <2> QED
    BY <2>1, InitOrder
<1>2. OrderInvariant /\ Counted /\ [Next]_vars => OrderInvariant' /\ Counted'
  <2> SUFFICES ASSUME OrderInvariant, Counted, [Next]_vars PROVE OrderInvariant' /\ Counted'
    OBVIOUS
  <2>1. OrderInvariant'
    BY OrderKept
  <2>2. CASE Publish
    <3>1. /\ published' = published + 1 /\ published - heard <= MaxLost
          /\ UNCHANGED <<run, restarts, heard, tracker, first, shown>>
      BY <2>2 DEF Publish, subscriber
    <3>2. published \in Nat /\ MaxLost \in Nat
      BY TunnelAssumption DEF OrderInvariant, Types
    <3> QED
      BY <2>1, <3>1, <3>2 DEF Counted
  <2>3. CASE Restart
    <3>1. restarts' = restarts + 1 /\ UNCHANGED <<heard, first>>
      BY <2>3 DEF Restart, subscriber
    <3> QED
      BY <2>1, <3>1 DEF Counted
  <2>4. ASSUME NEW d \in network, Handle(d) PROVE Counted'
    BY <2>4, HandleCounted
  <2>5. ASSUME NEW d \in network, Lose(d) PROVE Counted'
    BY <2>5 DEF Lose, gateway, subscriber, Counted
  <2>6. CASE UNCHANGED vars
    BY <2>1, <2>6 DEF vars, gateway, subscriber, Counted
  <2> QED
    BY <2>1, <2>2, <2>3, <2>4, <2>5, <2>6 DEF Next
<1>3. Counted => Accounting
  BY DEF Counted, Accounting
<1> QED
  BY <1>1, <1>2, <1>3, PTL DEF Spec

(***************************************************************************)
(* Following                                                               *)
(***************************************************************************)
\* Once something of this run is displayed the display keeps up with what has
\* arrived.  Before that, what has arrived of this run was taken for old because
\* its numbers lie behind the one remembered from an earlier run.
Followed ==
    /\ heard \in Nat /\ heard <= published /\ published - heard <= MaxLost + 1
    /\ restarts \in Nat
    /\ restarts = 0 => run = 0
    /\ tracker.highest \in 0 .. Modulus - 1
    /\ shown < heard
    /\ tracker.started => 0 <= shown
    /\ tracker.started /\ run <= shown => heard <= shown + MaxLate
    /\ tracker.started /\ shown < run /\ run < heard =>
          heard - 1 - run <= tracker.highest /\ tracker.highest <= (Modulus \div 2) + MaxLost

\* What is under way has hardly been overtaken.
LEMMA HardlyAhead ==
    ASSUME OrderInvariant, Followed, NEW d \in network
    PROVE  /\ d.reading \in Nat /\ run \in Nat /\ run <= d.reading
           /\ d.reading < published /\ published <= d.reading + MaxLate
           /\ d.reading <= heard + MaxLost
           /\ d.sequence = (d.reading - run) % Modulus
<1>1. d \in Coming /\ d.reading \in Nat
  BY DEF Coming, OrderInvariant, Types, Datagram
<1>2. MaxLost \in Nat /\ MaxLate \in Nat
  BY TunnelAssumption
<1> QED
  BY <1>1, <1>2 DEF Coming, OrderInvariant, Types, Numbered, Followed

\* A number far behind the one remembered is told to be new.
LEMMA FarBehindIsNew ==
    ASSUME NEW n \in 0 .. Modulus - 1, NEW h \in 0 .. Modulus - 1, h - n > Modulus \div 2
    PROVE  Delta(n, h) > 0 /\ Delta(n, h) \in Int
<1>1. Modulus \in Nat /\ Modulus > 1 /\ Modulus \div 2 \in Nat /\ Modulus <= (Modulus \div 2) + (Modulus \div 2)
  BY TunnelAssumption
<1>2. PICK m \in 0 .. Modulus - 1 : m = (n - h) + Modulus
  BY <1>1
<1>3. n - h = Modulus * (-1) + m
  BY <1>1, <1>2
<1>4. (n - h) % Modulus = m
  BY <1>3, Remainder
<1>5. m < Modulus \div 2 /\ m > 0
  BY <1>1, <1>2
<1> QED
  BY <1>2, <1>4, <1>5 DEF Delta

\* What is newer and still refused is of a new run none of which is displayed,
\* and its number lies behind the one remembered.
LEMMA RefusedIsBehind ==
    ASSUME MaxLate + MaxLost < Modulus \div 2, OrderInvariant, Followed,
           NEW d \in network, shown < d.reading, Order(d.sequence) \in {"Stale", "Duplicate"}
    PROVE  /\ restarts > 0 /\ shown < run
           /\ d.reading - run <= tracker.highest
           /\ tracker.highest <= (Modulus \div 2) + MaxLost
<1> DEFINE x == d.reading - run
           h == tracker.highest
           half == Modulus \div 2
<1>1. /\ d.reading \in Nat /\ run \in Nat /\ run <= d.reading
      /\ d.reading < published /\ published <= d.reading + MaxLate
      /\ d.reading <= heard + MaxLost
      /\ d.sequence = x % Modulus
  BY HardlyAhead
<1>2. /\ MaxLost \in Nat /\ MaxLate \in Nat /\ 2 <= MaxLate /\ half \in Nat
      /\ Modulus \in Nat /\ Modulus > 1 /\ half + half = Modulus /\ MaxLate + MaxLost < half
  BY TunnelAssumption, WindowAssumption
<1>3. shown \in Int /\ published \in Nat /\ heard \in Nat /\ h \in 0 .. Modulus - 1
  BY DEF OrderInvariant, Types, Followed
<1>4. x \in Nat
  BY <1>1
<1>5. tracker.started
  BY DEF Order
<1>6. Delta(d.sequence, h) \in Int /\ Delta(d.sequence, h) <= 0
  <2>1. Delta(d.sequence, h) = 0 \/ Delta(d.sequence, h) < 0
    BY <1>5 DEF Order
  <2>2. d.sequence \in Int
    BY <1>1, <1>2, <1>4
  <2> QED
    BY <1>2, <1>3, <2>1, <2>2 DEF Delta
<1>7. h % Modulus = h
  <2>1. h = Modulus * 0 + h
    BY <1>2, <1>3
  <2> QED
    BY <1>3, <2>1, Remainder
<1> HIDE DEF half
<1>8. shown < run
  <2>1. SUFFICES ASSUME run <= shown PROVE FALSE
    BY <1>1, <1>3
  <2>2. heard <= shown + MaxLate /\ h = (shown - run) % Modulus
    BY <1>5, <2>1 DEF Followed, OrderInvariant, Displayed
  <2>3. PICK j \in Nat : j = shown - run
    BY <1>1, <1>3, <2>1
  <2>4. j < x /\ x - j < half
    BY SMTT(60), <1>1, <1>2, <1>3, <1>4, <2>2, <2>3
  <2>5. Delta(x % Modulus, j % Modulus) = x - j
    BY <1>4, <2>4, AheadIsMeasured DEF half
  <2> QED
    BY <1>1, <1>4, <1>6, <2>2, <2>3, <2>4, <2>5
<1>9. restarts > 0
  BY <1>1, <1>3, <1>5, <1>8 DEF Followed
<1>10. x <= h
  <2>1. SUFFICES ASSUME h < x PROVE FALSE
    BY <1>3, <1>4
  <2>2. x - h < half
    <3>1. CASE run < heard
      <4>1. heard - 1 - run <= h
        BY <1>5, <1>8, <3>1 DEF Followed
      <4> QED
        BY <1>1, <1>2, <1>3, <4>1
    <3>2. CASE heard <= run
      BY <1>1, <1>2, <1>3, <3>2
    <3> QED
      BY <1>1, <1>3, <3>1, <3>2
  <2>3. h \in Nat
    BY <1>3
  <2>4. Delta(x % Modulus, h % Modulus) = x - h
    BY <1>4, <2>1, <2>2, <2>3, AheadIsMeasured DEF half
  <2> QED
    BY <1>1, <1>3, <1>4, <1>6, <1>7, <2>1, <2>4
<1>11. h <= half + MaxLost
  <2>1. CASE run < heard
    BY <1>5, <1>8, <2>1 DEF Followed, half
  <2>2. CASE heard <= run
    <3>0. x <= MaxLost
      BY <1>1, <1>2, <1>3, <2>2
    <3>1. SUFFICES ASSUME h - x > half PROVE FALSE
      <4> HIDE DEF x, h
      <4> QED
        BY <1>2, <1>3, <1>4, <3>0
    <3>2. x \in 0 .. Modulus - 1
      <4> HIDE DEF x, h
      <4> QED
        BY <1>2, <1>3, <1>4, <1>10
    <3>3. x = Modulus * 0 + x
      BY <1>2, <1>4
    <3>4. d.sequence = x
      BY <1>1, <3>2, <3>3, Remainder
    <3> QED
      BY <1>3, <1>6, <3>1, <3>2, <3>4, FarBehindIsNew DEF half
  <2> QED
    BY <1>1, <1>3, <2>1, <2>2
<1> QED
  BY <1>8, <1>9, <1>10, <1>11 DEF half

LEMMA HandleFollowed ==
    ASSUME ~Naive, MaxLate + MaxLost < Modulus \div 2, OrderInvariant, Followed,
           NEW d \in network, Handle(d)
    PROVE  Followed'
<1>1. /\ UNCHANGED <<published, run, restarts>>
      /\ heard' = IF d.reading >= heard THEN d.reading + 1 ELSE heard
  BY DEF Handle, gateway
<1>2. /\ d.reading \in Nat /\ run \in Nat /\ run <= d.reading
      /\ d.reading < published /\ published <= d.reading + MaxLate
      /\ d.reading <= heard + MaxLost /\ d.sequence = (d.reading - run) % Modulus
  BY HardlyAhead
<1>3. /\ shown \in Int /\ tracker \in Tracker /\ published \in Nat
      /\ MaxLost \in Nat /\ MaxLate \in Nat /\ Modulus \in Nat /\ Modulus > 1 /\ Modulus \div 2 \in Nat
  BY TunnelAssumption DEF OrderInvariant, Types
<1>4. /\ heard' \in Nat /\ heard <= heard' /\ heard' <= published /\ d.reading < heard'
      /\ published - heard' <= MaxLost + 1
  BY <1>1, <1>2, <1>3 DEF Followed
<1>5. CASE Order(d.sequence) \in {"Stale", "Duplicate"}
  <2>1. shown' = shown /\ tracker' = [tracker EXCEPT !.stale = @ + 1]
    BY <1>5 DEF Handle, Displays, Observe
  <2>2. tracker'.started = tracker.started /\ tracker'.highest = tracker.highest
    BY <1>3, <2>1 DEF Tracker
  <2>3. CASE d.reading <= shown
    <3>1. heard' = heard
      BY <1>1, <1>2, <1>3, <2>3 DEF Followed
    <3> QED
      BY <1>1, <2>1, <2>2, <3>1 DEF Followed
  <2>4. CASE shown < d.reading
    <3>1. /\ restarts > 0 /\ shown < run
          /\ d.reading - run <= tracker.highest
          /\ tracker.highest <= (Modulus \div 2) + MaxLost
      BY <1>5, <2>4, RefusedIsBehind
    <3>2. heard' - 1 - run <= tracker.highest
      <4>1. CASE d.reading >= heard
        BY <1>1, <1>2, <3>1, <4>1
      <4>2. CASE d.reading < heard
        <5>1. tracker.started
          BY <1>5 DEF Order
        <5> QED
          BY <1>1, <1>2, <1>4, <3>1, <4>2, <5>1 DEF Followed
      <4> QED
        BY <1>2, <4>1, <4>2 DEF Followed
    <3>3. shown < heard'
      BY <1>2, <1>3, <1>4, <2>4
    <3> QED
      BY <1>1, <1>2, <1>3, <1>4, <2>1, <2>2, <3>1, <3>2, <3>3 DEF Followed
  <2> QED
    BY <1>2, <1>3, <2>3, <2>4
<1>6. CASE Order(d.sequence) \in {"First", "InOrder", "Gap"}
  <2>1. shown' = d.reading
    BY <1>6 DEF Handle, Displays
  <2>2. tracker'.highest = d.sequence
    BY <1>3, <1>6 DEF Handle, Observe, Tracker
  <2>3. d.sequence \in 0 .. Modulus - 1
    BY <1>2, <1>3
  <2>4. heard' <= shown' + MaxLate
    BY <1>2, <1>3, <1>4, <2>1
  <2> QED
    BY <1>1, <1>2, <1>3, <1>4, <2>1, <2>2, <2>3, <2>4 DEF Followed
<1> QED
  BY <1>5, <1>6 DEF Order

\* What arrives and is newer is displayed, also across the wrap, whatever is lost,
\* repeated or overtaken. After a restart the subscriber takes the new numbers for
\* old ones until they have passed the number it remembers, and no longer: for
\* half of the range at most and the datagrams that were lost before.
THEOREM NewsAreDisplayed ==
    ASSUME ~Naive, MaxLate + MaxLost < Modulus \div 2
    PROVE  Spec => NewerIsShown
<1>1. Init => OrderInvariant /\ Followed
  <2>1. Init => Followed
    BY TunnelAssumption DEF Init, Followed
  <2> QED
    BY <2>1, InitOrder
<1>2. OrderInvariant /\ Followed /\ [Next]_vars => OrderInvariant' /\ Followed'
  <2> SUFFICES ASSUME OrderInvariant, Followed, [Next]_vars PROVE OrderInvariant' /\ Followed'
    OBVIOUS
  <2>1. OrderInvariant'
    BY OrderKept
  <2>2. CASE Publish
    <3>1. /\ published' = published + 1 /\ published - heard <= MaxLost
          /\ UNCHANGED <<run, restarts, heard, tracker, shown>>
      BY <2>2 DEF Publish, subscriber
    <3>2. published \in Nat /\ MaxLost \in Nat
      BY TunnelAssumption DEF OrderInvariant, Types
    <3> QED
      BY <2>1, <3>1, <3>2 DEF Followed
  <2>3. CASE Restart
    <3>1. restarts' = restarts + 1 /\ run' = published /\ UNCHANGED <<published, heard, tracker, shown>>
      BY <2>3 DEF Restart, subscriber
    <3>2. shown \in Int /\ published \in Nat /\ shown < published
      BY DEF OrderInvariant, Types, Displayed
    <3>3. ~(run' <= shown') /\ ~(run' < heard') /\ restarts' \in Nat /\ restarts' # 0
      BY <3>1, <3>2 DEF Followed
    <3> QED
      BY <2>1, <3>1, <3>3 DEF Followed
  <2>4. ASSUME NEW d \in network, Handle(d) PROVE Followed'
    BY <2>4, HandleFollowed
  <2>5. ASSUME NEW d \in network, Lose(d) PROVE Followed'
    BY <2>5 DEF Lose, gateway, subscriber, Followed
  <2>6. CASE UNCHANGED vars
    BY <2>1, <2>6 DEF vars, gateway, subscriber, Followed
  <2> QED
    BY <2>1, <2>2, <2>3, <2>4, <2>5, <2>6 DEF Next
<1>3. ASSUME OrderInvariant, Followed, NEW d \in network, Handle(d), d.reading > shown
      PROVE  \/ shown' = d.reading
             \/ /\ restarts > 0 /\ shown < run
                /\ d.reading - run <= (Modulus \div 2) + MaxLost
  <2>1. d.reading \in Nat /\ run \in Nat /\ shown \in Int /\ tracker.highest \in Int /\ MaxLost \in Nat
        /\ Modulus \div 2 \in Int
    BY <1>3, HardlyAhead, TunnelAssumption DEF OrderInvariant, Types, Followed
  <2>2. CASE Order(d.sequence) \in {"Stale", "Duplicate"}
    <3>1. /\ restarts > 0 /\ shown < run
          /\ d.reading - run <= tracker.highest
          /\ tracker.highest <= (Modulus \div 2) + MaxLost
      BY <1>3, <2>1, <2>2, RefusedIsBehind
    <3> QED
      BY <2>1, <3>1
  <2>3. CASE Order(d.sequence) \notin {"Stale", "Duplicate"}
    BY <1>3, <2>3 DEF Handle, Displays
  <2> QED
    BY <2>2, <2>3
<1>4. OrderInvariant /\ Followed /\ [Next]_vars =>
         [\A d \in network :
             Handle(d) /\ d.reading > shown =>
                \/ shown' = d.reading
                \/ /\ restarts > 0 /\ shown < run
                   /\ d.reading - run <= (Modulus \div 2) + MaxLost]_vars
  BY <1>3
<1> QED
  BY <1>1, <1>2, <1>4, PTL DEF Spec, NewerIsShown

(***************************************************************************)
(* Arbitration, in the slots. First, powers of two.                        *)
(***************************************************************************)
contenders == s1
phase == s2
position == s3
winners == s4
trace == s5
USE DEF contenders, phase, position, winners, trace

\* A set of n elements has 2^n subsets, which is what the provers know of it.
LEMMA Subsets ==
    ASSUME NEW S, IsFiniteSet(S), NEW n \in Nat, Cardinality(S) = n
    PROVE  IsFiniteSet(SUBSET S) /\ Cardinality(SUBSET S) = 2 ^ n
BY FS_SUBSET

LEMMA Powers ==
    /\ 2 ^ 0 = 1
    /\ 2 ^ 1 = 2
    /\ \A n \in Nat : 2 ^ n \in Nat \ {0}
<1>1. 2 ^ 0 = 1
  <2>1. SUBSET {} = {{}}
    OBVIOUS
  <2> QED
    BY <2>1, FS_EmptySet, FS_Singleton, Subsets
<1>2. 2 ^ 1 = 2
  <2>1. SUBSET {0} = {{}} \cup {{0}} /\ {0} \notin {{}}
    <3>1. \A s \in SUBSET {0} : s = {} \/ s = {0}
      OBVIOUS
    <3> QED
      BY <3>1
  <2>2. IsFiniteSet({{}}) /\ Cardinality({{}}) = 1 /\ IsFiniteSet({0}) /\ Cardinality({0}) = 1
    BY FS_Singleton
  <2>3. Cardinality({{}} \cup {{0}}) = 2
    <3>1. Cardinality({{}} \cup {{0}}) = Cardinality({{}}) + 1
      BY <2>1, <2>2, FS_AddElement
    <3> QED
      BY <2>2, <3>1
  <2> QED
    <3>1. IsFiniteSet({0}) /\ Cardinality({0}) = 1
      BY <2>2
    <3>2. Cardinality(SUBSET {0}) = 2 ^ 1
      BY <3>1, Subsets
    <3> QED
      BY <2>1, <2>3, <3>2
<1>3. ASSUME NEW n \in Nat
      PROVE  2 ^ n \in Nat \ {0}
  <2>1. IsFiniteSet(1 .. n) /\ Cardinality(1 .. n) = n
    BY FS_Interval
  <2>2. IsFiniteSet(SUBSET (1 .. n)) /\ Cardinality(SUBSET (1 .. n)) = 2 ^ n
    BY <2>1, Subsets
  <2>3. SUBSET (1 .. n) # {}
    OBVIOUS
  <2> QED
    BY <2>2, <2>3, FS_CardinalityType, FS_EmptySet
<1> QED
  BY <1>1, <1>2, <1>3

\* A subset of two disjoint sets is a subset of each.
LEMMA PowersMultiply ==
    ASSUME NEW a \in Nat, NEW b \in Nat
    PROVE  2 ^ (a + b) = 2 ^ a * 2 ^ b
<1> DEFINE A == 1 .. a
           B == a + 1 .. a + b
           C == 1 .. a + b
           pairs == (SUBSET A) \X (SUBSET B)
           join == [p \in pairs |-> p[1] \cup p[2]]
<1>1. /\ IsFiniteSet(A) /\ Cardinality(A) = a
      /\ IsFiniteSet(B) /\ Cardinality(B) = b
      /\ IsFiniteSet(C) /\ Cardinality(C) = a + b
  <2>1. a + 1 \in Int /\ a + b \in Int /\ a \in Int /\ 1 \in Int
    OBVIOUS
  <2>2. IsFiniteSet(A) /\ Cardinality(A) = IF 1 > a THEN 0 ELSE a - 1 + 1
    BY <2>1, FS_Interval
  <2>3. IsFiniteSet(B) /\ Cardinality(B) = IF a + 1 > a + b THEN 0 ELSE a + b - (a + 1) + 1
    BY <2>1, FS_Interval
  <2>4. IsFiniteSet(C) /\ Cardinality(C) = IF 1 > a + b THEN 0 ELSE a + b - 1 + 1
    BY <2>1, FS_Interval
  <2> HIDE DEF A, B, C
  <2> QED
    BY <2>2, <2>3, <2>4
<1> HIDE DEF A, B, C
<1>2. IsFiniteSet(pairs) /\ Cardinality(pairs) = 2 ^ a * 2 ^ b
  <2>1. /\ IsFiniteSet(SUBSET A) /\ Cardinality(SUBSET A) = 2 ^ a
        /\ IsFiniteSet(SUBSET B) /\ Cardinality(SUBSET B) = 2 ^ b
    BY <1>1, Subsets
  <2> QED
    BY ZenonT(60), <2>1, FS_Product
<1>3. Cardinality(SUBSET C) = 2 ^ (a + b)
  <2>1. a + b \in Nat
    OBVIOUS
  <2> QED
    BY <1>1, <2>1, Subsets
<1>4. A \cup B = C /\ A \cap B = {}
  BY DEF A, B, C
<1>5. join \in Bijection(pairs, SUBSET C)
  <2>1. join \in [pairs -> SUBSET C]
    BY <1>4
  <2>2. ASSUME NEW p \in pairs, NEW q \in pairs, join[p] = join[q]
        PROVE  p = q
    <3>1. p[1] = join[p] \cap A /\ p[2] = join[p] \cap B
      BY <1>4
    <3>2. q[1] = join[q] \cap A /\ q[2] = join[q] \cap B
      BY <1>4
    <3> QED
      BY <2>2, <3>1, <3>2
  <2>3. ASSUME NEW s \in SUBSET C
        PROVE  \E p \in pairs : join[p] = s
    <3>1. <<s \cap A, s \cap B>> \in pairs
      OBVIOUS
    <3>2. (s \cap A) \cup (s \cap B) = s
      BY <1>4
    <3> QED
      BY <3>1, <3>2
  <2> QED
    BY <2>1, <2>2, <2>3 DEF Bijection, Injection, Surjection, IsInjective
<1> QED
  BY <1>2, <1>3, <1>5, FS_Bijection DEF ExistsBijection

\* Division by one factor after the other.
LEMMA Quotients ==
    ASSUME NEW x \in Nat, NEW m \in Nat \ {0}
    PROVE  /\ x \div m \in Nat
           /\ x \div (m * 2) = (x \div m) \div 2
           /\ x < m => x \div m = 0
<1>1. x \div (m * 2) = (x \div m) \div 2
  OBVIOUS
<1>2. x \div m \in Nat
  OBVIOUS
<1>3. x < m => x \div m = 0
  OBVIOUS
<1> QED
  BY <1>1, <1>2, <1>3

(***************************************************************************)
(* Arbitration: the order of the fields is the order of the ranks          *)
(***************************************************************************)
\* An identifier without its k last bits, of its base.
High(c, k) == c.id \div 2 ^ (IF c.extended THEN k + ExtensionBits ELSE k)

\* What is the same of two contenders that sent the same bits at the positions
\* before p.
SameTo(c, d, p) ==
    /\ p <= BaseBits => High(c, BaseBits - p) = High(d, BaseBits - p)
    /\ p > BaseBits => High(c, 0) = High(d, 0)
    /\ p > BaseBits => (c.extended \/ c.remote) = (d.extended \/ d.remote)
    /\ p > BaseBits + 1 => c.extended = d.extended
    /\ p > BaseBits + 1 /\ c.extended /\ d.extended =>
          IF p <= BaseBits + 2 + ExtensionBits
          THEN LET k == BaseBits + 2 + ExtensionBits - p IN
               c.id \div 2 ^ k = d.id \div 2 ^ k
          ELSE c.id = d.id /\ c.remote = d.remote

Usable(c) == c \in Bus!Contender /\ ~Bus!OutsideMask(c)

\* At the start nothing is known.
LEMMA SameAtFirst ==
    ASSUME Bus!ArbitrationAssumption,
           NEW c, NEW d, Usable(c), Usable(d)
    PROVE  SameTo(c, d, 0)
<1>1. ASSUME NEW e, Usable(e)
      PROVE  High(e, BaseBits) = 0
  <2> DEFINE n == IF e.extended THEN BaseBits + ExtensionBits ELSE BaseBits
  <2>1. n \in Nat /\ e.id \in Nat
    BY <1>1 DEF Bus!ArbitrationAssumption, Usable, Bus!Contender
  <2>2. 2 ^ n \in Nat \ {0}
    BY <2>1, Powers
  <2>3. e.id < 2 ^ n
    BY <1>1, <2>1, <2>2 DEF Usable, Bus!OutsideMask
  <2>4. e.id \div 2 ^ n = 0
    BY <2>1, <2>2, <2>3, Quotients
  <2> QED
    BY <2>4 DEF High
<1>2. High(c, BaseBits) = High(d, BaseBits)
  BY <1>1
<1> QED
  BY <1>2 DEF SameTo, Bus!ArbitrationAssumption

\* The k-th bit, and those above it.
LEMMA Bits ==
    ASSUME NEW x \in Nat, NEW k \in Nat
    PROVE  /\ x \div 2 ^ k \in Nat /\ x \div 2 ^ (k + 1) \in Nat
           /\ Bus!BitOf(x, k) \in {0, 1}
           /\ x \div 2 ^ k = 2 * (x \div 2 ^ (k + 1)) + Bus!BitOf(x, k)
<1>1. 2 ^ k \in Nat \ {0} /\ 2 ^ (k + 1) = 2 ^ k * 2
  BY Powers, PowersMultiply
<1>2. x \div 2 ^ k \in Nat /\ x \div 2 ^ (k + 1) = (x \div 2 ^ k) \div 2
  <2> DEFINE m == 2 ^ k
  <2>1. m \in Nat \ {0} /\ 2 ^ (k + 1) = m * 2
    BY <1>1
  <2> HIDE DEF m
  <2>2. x \div m \in Nat /\ x \div (m * 2) = (x \div m) \div 2
    BY <2>1, Quotients
  <2> QED
    BY <2>1, <2>2 DEF m
<1> DEFINE y == x \div 2 ^ k
<1>3. \A z \in Nat : z = 2 * (z \div 2) + (z % 2) /\ z \div 2 \in Nat /\ z % 2 \in {0, 1}
  OBVIOUS
<1>4. y \in Nat /\ Bus!BitOf(x, k) = y % 2 /\ x \div 2 ^ (k + 1) = y \div 2
  BY <1>2 DEF Bus!BitOf
<1> HIDE DEF y
<1>5. y = 2 * (y \div 2) + (y % 2) /\ y \div 2 \in Nat /\ y % 2 \in {0, 1}
  BY <1>3, <1>4
<1> QED
  BY <1>4, <1>5 DEF y

\* What was not cut off at a position is not cut off before it.
LEMMA Orders ==
    ASSUME NEW x \in Nat, NEW y \in Nat, NEW m \in Nat \ {0}, x \div m < y \div m
    PROVE  x < y
<1>1. y <= x => y \div m <= x \div m
  OBVIOUS
<1>2. x \div m \in Nat /\ y \div m \in Nat
  BY Quotients
<1> QED
  BY <1>1, <1>2

\* The bits of a base identifier are at the positions before BaseBits.
LEMMA BaseBit ==
    ASSUME Bus!ArbitrationAssumption,
           NEW c \in Bus!Contender, NEW p \in Nat, p < BaseBits
    PROVE  LET k == BaseBits - 1 - p IN
           /\ k \in Nat /\ High(c, k) \in Nat /\ High(c, k + 1) \in Nat
           /\ Bus!Level(c, p) \in {0, 1}
           /\ High(c, k) = 2 * High(c, k + 1) + Bus!Level(c, p)
<1> DEFINE k == BaseBits - 1 - p
           n == IF c.extended THEN k + ExtensionBits ELSE k
<1>1. BaseBits \in Nat /\ ExtensionBits \in Nat /\ c.id \in Nat /\ c.extended \in BOOLEAN
  BY DEF Bus!ArbitrationAssumption, Bus!Contender
<1>2. k \in Nat /\ n \in Nat
  BY <1>1
<1>3. /\ c.id \div 2 ^ n \in Nat /\ c.id \div 2 ^ (n + 1) \in Nat
      /\ Bus!BitOf(c.id, n) \in {0, 1}
      /\ c.id \div 2 ^ n = 2 * (c.id \div 2 ^ (n + 1)) + Bus!BitOf(c.id, n)
  BY <1>1, <1>2, Bits
<1>4. Bus!Level(c, p) = Bus!BitOf(c.id, n)
  <2>1. n = IF c.extended THEN BaseBits + ExtensionBits - 1 - p ELSE BaseBits - 1 - p
    BY <1>1, <1>2
  <2> HIDE DEF n, k
  <2> QED
    BY <2>1 DEF Bus!Level, Bus!IdentifierBit
<1>5. High(c, k) = c.id \div 2 ^ n
  BY DEF High
<1>6. High(c, k + 1) = c.id \div 2 ^ (n + 1)
  <2>1. n + 1 = IF c.extended THEN (k + 1) + ExtensionBits ELSE k + 1
    BY <1>1, <1>2
  <2> HIDE DEF n, k
  <2> QED
    BY <2>1 DEF High
<1> HIDE DEF n
<1> QED
  BY <1>2, <1>3, <1>4, <1>5, <1>6

\* Those of an extension are at the positions after RTR and IDE.
LEMMA ExtensionBit ==
    ASSUME Bus!ArbitrationAssumption,
           NEW c \in Bus!Contender, c.extended,
           NEW p \in Nat, BaseBits + 2 <= p, p < BaseBits + 2 + ExtensionBits
    PROVE  LET k == BaseBits + 1 + ExtensionBits - p IN
           /\ k \in Nat /\ c.id \div 2 ^ k \in Nat /\ c.id \div 2 ^ (k + 1) \in Nat
           /\ Bus!Level(c, p) \in {0, 1}
           /\ c.id \div 2 ^ k = 2 * (c.id \div 2 ^ (k + 1)) + Bus!Level(c, p)
<1> DEFINE k == BaseBits + 1 + ExtensionBits - p
<1>1. BaseBits \in Nat /\ ExtensionBits \in Nat /\ c.id \in Nat /\ k \in Nat
  BY DEF Bus!ArbitrationAssumption, Bus!Contender
<1>2. /\ c.id \div 2 ^ k \in Nat /\ c.id \div 2 ^ (k + 1) \in Nat
      /\ Bus!BitOf(c.id, k) \in {0, 1}
      /\ c.id \div 2 ^ k = 2 * (c.id \div 2 ^ (k + 1)) + Bus!BitOf(c.id, k)
  BY <1>1, Bits
<1>3. ~ p < BaseBits /\ ~ p <= BaseBits + 1 /\ p <= BaseBits + 1 + ExtensionBits
  BY <1>1
<1>4. Bus!Level(c, p) = Bus!BitOf(c.id, k)
  BY <1>3 DEF Bus!Level
<1> QED
  BY <1>1, <1>2, <1>4

\* The same bit at the next position leaves two contenders the same, if both
\* drive it.
LEMMA SameOneMore ==
    ASSUME Bus!ArbitrationAssumption,
           NEW c, NEW d, Usable(c), Usable(d),
           NEW p \in Nat, p < Bus!FieldLength(c), p < Bus!FieldLength(d),
           SameTo(c, d, p), Bus!Level(c, p) = Bus!Level(d, p)
    PROVE  SameTo(c, d, p + 1)
<1>1. BaseBits \in Nat /\ ExtensionBits \in Nat
  BY DEF Bus!ArbitrationAssumption
<1>2. c \in Bus!Contender /\ d \in Bus!Contender
  BY DEF Usable
<1>3. /\ c.id \in Nat /\ c.extended \in BOOLEAN /\ c.remote \in BOOLEAN
      /\ d.id \in Nat /\ d.extended \in BOOLEAN /\ d.remote \in BOOLEAN
  BY <1>2 DEF Bus!Contender
<1>4. CASE p < BaseBits
  <2> DEFINE k == BaseBits - 1 - p
  <2>1. /\ k \in Nat /\ High(c, k + 1) \in Nat /\ High(d, k + 1) \in Nat
        /\ Bus!Level(c, p) \in {0, 1} /\ Bus!Level(d, p) \in {0, 1}
        /\ High(c, k) = 2 * High(c, k + 1) + Bus!Level(c, p)
        /\ High(d, k) = 2 * High(d, k + 1) + Bus!Level(d, p)
    BY <1>2, <1>4, BaseBit
  <2>2. k + 1 = BaseBits - p /\ k = BaseBits - (p + 1)
    BY <1>1
  <2>3. High(c, k + 1) = High(d, k + 1)
    BY <1>1, <1>4, <2>2 DEF SameTo
  <2>4. High(c, k) = High(d, k)
    BY <2>1, <2>3
  <2> HIDE DEF k
  <2> QED
    BY <1>1, <1>4, <2>2, <2>4 DEF SameTo
<1>5. CASE p = BaseBits
  <2>1. High(c, 0) = High(d, 0)
    BY <1>1, <1>5 DEF SameTo
  <2>2. ASSUME NEW e \in Bus!Contender
        PROVE  Bus!Level(e, p) = IF e.extended \/ e.remote THEN 1 ELSE 0
    BY <1>1, <1>5, <2>2 DEF Bus!Level, Bus!Rtr, Bus!Dominant, Bus!Recessive, Bus!Contender
  <2>3. (c.extended \/ c.remote) = (d.extended \/ d.remote)
    BY <1>2, <1>3, <2>2
  <2> QED
    BY <1>1, <1>5, <2>1, <2>3 DEF SameTo
<1>6. CASE p = BaseBits + 1
  <2>1. High(c, 0) = High(d, 0) /\ (c.extended \/ c.remote) = (d.extended \/ d.remote)
    BY <1>1, <1>6 DEF SameTo
  <2>2. ASSUME NEW e \in Bus!Contender
        PROVE  Bus!Level(e, p) = IF e.extended THEN 1 ELSE 0
    BY <1>1, <1>6, <2>2 DEF Bus!Level, Bus!Dominant, Bus!Recessive, Bus!Contender
  <2>3. c.extended = d.extended
    BY <1>2, <1>3, <2>2
  <2>4. c.extended /\ d.extended => c.id \div 2 ^ ExtensionBits = d.id \div 2 ^ ExtensionBits
    BY <1>1, <2>1 DEF High
  <2>5. BaseBits + 2 + ExtensionBits - (p + 1) = ExtensionBits
    BY <1>1, <1>6
  <2> QED
    BY <1>1, <1>6, <2>1, <2>3, <2>4, <2>5 DEF SameTo
<1>7. CASE p >= BaseBits + 2
  <2>1. c.extended /\ d.extended /\ p < BaseBits + ExtensionBits + 3
    BY <1>1, <1>7 DEF Bus!FieldLength
  <2>2. High(c, 0) = High(d, 0) /\ (c.extended \/ c.remote) = (d.extended \/ d.remote)
    BY <1>1, <1>7 DEF SameTo
  <2>3. CASE p < BaseBits + 2 + ExtensionBits
    <3> DEFINE k == BaseBits + 1 + ExtensionBits - p
    <3>1. /\ k \in Nat /\ c.id \div 2 ^ (k + 1) \in Nat /\ d.id \div 2 ^ (k + 1) \in Nat
          /\ Bus!Level(c, p) \in {0, 1} /\ Bus!Level(d, p) \in {0, 1}
          /\ c.id \div 2 ^ k = 2 * (c.id \div 2 ^ (k + 1)) + Bus!Level(c, p)
          /\ d.id \div 2 ^ k = 2 * (d.id \div 2 ^ (k + 1)) + Bus!Level(d, p)
      BY <1>2, <1>7, <2>1, <2>3, ExtensionBit
    <3>2. /\ k + 1 = BaseBits + 2 + ExtensionBits - p
          /\ k = BaseBits + 2 + ExtensionBits - (p + 1)
      BY <1>1
    <3>3. c.id \div 2 ^ (k + 1) = d.id \div 2 ^ (k + 1)
      BY <1>1, <1>7, <2>1, <2>3, <3>2 DEF SameTo
    <3>4. c.id \div 2 ^ k = d.id \div 2 ^ k
      BY <3>1, <3>3
    <3> HIDE DEF k
    <3> QED
      BY <1>1, <1>7, <2>1, <2>2, <2>3, <3>2, <3>4 DEF SameTo
  <2>4. CASE p = BaseBits + 2 + ExtensionBits
    <3>1. c.id \div 2 ^ 0 = d.id \div 2 ^ 0
      <4> DEFINE k == BaseBits + 2 + ExtensionBits - p
      <4>1. c.id \div 2 ^ k = d.id \div 2 ^ k
        BY <1>1, <2>1, <2>4 DEF SameTo
      <4>2. k = 0
        BY <1>1, <2>4
      <4> QED
        BY <4>1, <4>2
    <3>2. c.id = d.id
      BY <1>3, <3>1, Powers
    <3>3. ASSUME NEW e \in Bus!Contender, e.extended
          PROVE  Bus!Level(e, p) = IF e.remote THEN 1 ELSE 0
      <4>1. Bus!Level(e, p) = Bus!Rtr(e)
        BY <1>1, <2>4, <3>3 DEF Bus!Level
      <4> QED
        BY <4>1 DEF Bus!Rtr, Bus!Dominant, Bus!Recessive
    <3>4. c.remote = d.remote
      BY <1>2, <1>3, <2>1, <3>3
    <3> QED
      BY <1>1, <2>1, <2>2, <2>4, <3>2, <3>4 DEF SameTo
  <2> QED
    BY <1>1, <2>1, <2>3, <2>4
<1> QED
  BY <1>1, <1>4, <1>5, <1>6, <1>7

\* Rank(), without its case distinctions.
LEMMA RankOf ==
    ASSUME Bus!ArbitrationAssumption, NEW c \in Bus!Contender
    PROVE  LET X == 2 ^ ExtensionBits
               low == IF c.extended THEN c.id % X ELSE 0
               format == IF c.extended THEN 2 ELSE IF c.remote THEN 1 ELSE 0
               last == IF c.extended /\ c.remote THEN 1 ELSE 0
           IN /\ Bus!Rank(c) = ((High(c, 0) * 3 + format) * X + low) * 2 + last
              /\ High(c, 0) \in Nat /\ X \in Nat \ {0} /\ low \in 0 .. X - 1
              /\ c.extended => c.id = High(c, 0) * X + low
<1> DEFINE X == 2 ^ ExtensionBits
           low == IF c.extended THEN c.id % X ELSE 0
           format == IF c.extended THEN 2 ELSE IF c.remote THEN 1 ELSE 0
           last == IF c.extended /\ c.remote THEN 1 ELSE 0
<1>1. ExtensionBits \in Nat /\ c.id \in Nat /\ c.extended \in BOOLEAN /\ c.remote \in BOOLEAN
  BY DEF Bus!ArbitrationAssumption, Bus!Contender
<1>2. X \in Nat \ {0}
  BY <1>1, Powers
<1>3. High(c, 0) = IF c.extended THEN c.id \div X ELSE c.id
  BY <1>1, Powers DEF High
<1>4. Bus!Rank(c) = ((High(c, 0) * 3 + format) * X + low) * 2 + last
  BY <1>3 DEF Bus!Rank
<1> HIDE DEF X
<1>5. c.id \div X \in Nat /\ c.id % X \in 0 .. X - 1 /\ c.id = (c.id \div X) * X + (c.id % X)
  <2>1. \A x \in Nat, m \in Nat \ {0} : x \div m \in Nat /\ x % m \in 0 .. m - 1
    OBVIOUS
  <2>2. \A x \in Nat, m \in Nat \ {0} : x = (x \div m) * m + (x % m)
    OBVIOUS
  <2> QED
    BY <1>1, <1>2, <2>1, <2>2
<1>6. High(c, 0) \in Nat /\ low \in 0 .. X - 1
  BY <1>1, <1>2, <1>3, <1>5
<1>7. c.extended => c.id = High(c, 0) * X + low
  BY <1>3, <1>5
<1> QED
  BY <1>2, <1>4, <1>6, <1>7 DEF X

\* Numbers of several digits are ordered by the first one that differs.
LEMMA Digits ==
    ASSUME NEW X \in Nat \ {0},
           NEW b \in Nat, NEW f \in 0 .. 2, NEW l \in 0 .. X - 1, NEW t \in {0, 1},
           NEW bb \in Nat, NEW ff \in 0 .. 2, NEW ll \in 0 .. X - 1, NEW tt \in {0, 1},
           \/ b < bb
           \/ b = bb /\ f < ff
           \/ b = bb /\ f = ff /\ l < ll
           \/ b = bb /\ f = ff /\ l = ll /\ t < tt
    PROVE  ((b * 3 + f) * X + l) * 2 + t < ((bb * 3 + ff) * X + ll) * 2 + tt
<1> DEFINE g == b * 3 + f
           gg == bb * 3 + ff
<1>1. g \in Nat /\ gg \in Nat
  OBVIOUS
<1>2. b < bb \/ (b = bb /\ f < ff) => g + 1 <= gg
  OBVIOUS
<1>3. b = bb /\ f = ff => g = gg
  OBVIOUS
<1> HIDE DEF g, gg
<1>4. CASE g + 1 <= gg
  <2> DEFINE more == gg - (g + 1)
  <2>1. more \in Nat /\ gg = g + 1 + more
    BY <1>1, <1>4
  <2> HIDE DEF more
  <2>2. gg * X = g * X + X + more * X
    BY <1>1, <2>1
  <2>3. g * X \in Nat /\ gg * X \in Nat /\ more * X \in Nat
    BY <1>1, <2>1
  <2>4. g * X + l < gg * X + ll
    BY <2>2, <2>3
  <2> QED
    BY <2>3, <2>4 DEF g, gg
<1>5. CASE g = gg
  <2>1. g * X \in Nat
    BY <1>1
  <2>2. l < ll \/ (l = ll /\ t < tt) => (g * X + l) * 2 + t < (g * X + ll) * 2 + tt
    BY <2>1
  <2>3. ~(b < bb) /\ ~(b = bb /\ f < ff)
    BY <1>1, <1>2, <1>5
  <2> QED
    BY <1>5, <2>2, <2>3 DEF g, gg
<1> QED
  BY <1>2, <1>3, <1>4, <1>5

\* What is above the k-th bit of a base identifier.
LEMMA HighOf ==
    ASSUME Bus!ArbitrationAssumption, NEW c \in Bus!Contender, NEW k \in Nat
    PROVE  /\ 2 ^ k \in Nat \ {0}
           /\ High(c, 0) \in Nat
           /\ High(c, k) = High(c, 0) \div 2 ^ k
<1>1. ExtensionBits \in Nat /\ c.id \in Nat /\ c.extended \in BOOLEAN
  BY DEF Bus!ArbitrationAssumption, Bus!Contender
<1>2. 2 ^ k \in Nat \ {0} /\ 2 ^ ExtensionBits \in Nat \ {0}
  BY <1>1, Powers
<1>3. 2 ^ (k + ExtensionBits) = 2 ^ ExtensionBits * 2 ^ k
  <2>1. k + ExtensionBits = ExtensionBits + k
    BY <1>1
  <2> QED
    BY <1>1, <2>1, PowersMultiply
<1>4. CASE c.extended
  <2>1. High(c, 0) = c.id \div 2 ^ ExtensionBits
    BY <1>1, <1>4 DEF High
  <2>2. High(c, k) = c.id \div (2 ^ ExtensionBits * 2 ^ k)
    BY <1>3, <1>4 DEF High
  <2>3. \A x \in Nat, m, n \in Nat \ {0} : x \div (m * n) = (x \div m) \div n
    OBVIOUS
  <2>4. c.id \div (2 ^ ExtensionBits * 2 ^ k) = (c.id \div 2 ^ ExtensionBits) \div 2 ^ k
    BY ONLY <1>1, <1>2, <2>3
  <2>5. c.id \div 2 ^ ExtensionBits \in Nat
    BY <1>1, <1>2, Quotients
  <2> QED
    BY <1>2, <2>1, <2>2, <2>4, <2>5
<1>5. CASE ~c.extended
  <2>1. High(c, 0) = c.id /\ High(c, k) = c.id \div 2 ^ k
    BY <1>1, <1>5, Powers DEF High
  <2> QED
    BY <1>1, <1>2, <2>1
<1> QED
  BY <1>1, <1>4, <1>5

\* Dominant against recessive at the first position where they differ.
LEMMA Outranks ==
    ASSUME Bus!ArbitrationAssumption,
           NEW c, NEW d, Usable(c), Usable(d),
           NEW p \in Nat, p < Bus!FieldLength(c), p < Bus!FieldLength(d),
           SameTo(c, d, p), Bus!Level(c, p) = 0, Bus!Level(d, p) = 1
    PROVE  Bus!Rank(c) < Bus!Rank(d)
<1> DEFINE X == 2 ^ ExtensionBits
           low(e) == IF e.extended THEN e.id % X ELSE 0
           format(e) == IF e.extended THEN 2 ELSE IF e.remote THEN 1 ELSE 0
           last(e) == IF e.extended /\ e.remote THEN 1 ELSE 0
<1>1. BaseBits \in Nat /\ ExtensionBits \in Nat
  BY DEF Bus!ArbitrationAssumption
<1>2. c \in Bus!Contender /\ d \in Bus!Contender
  BY DEF Usable
<1>3. /\ c.id \in Nat /\ c.extended \in BOOLEAN /\ c.remote \in BOOLEAN
      /\ d.id \in Nat /\ d.extended \in BOOLEAN /\ d.remote \in BOOLEAN
  BY <1>2 DEF Bus!Contender
<1>4. ASSUME NEW e \in Bus!Contender
      PROVE  /\ Bus!Rank(e) = ((High(e, 0) * 3 + format(e)) * X + low(e)) * 2 + last(e)
             /\ High(e, 0) \in Nat /\ X \in Nat \ {0} /\ low(e) \in 0 .. X - 1
             /\ e.extended => e.id = High(e, 0) * X + low(e)
             /\ format(e) \in 0 .. 2 /\ last(e) \in {0, 1}
  BY <1>4, RankOf
<1>5. SUFFICES \/ High(c, 0) < High(d, 0)
               \/ High(c, 0) = High(d, 0) /\ format(c) < format(d)
               \/ High(c, 0) = High(d, 0) /\ format(c) = format(d) /\ low(c) < low(d)
               \/ High(c, 0) = High(d, 0) /\ format(c) = format(d) /\ low(c) = low(d)
                     /\ last(c) < last(d)
  <2> HIDE DEF X, low, format, last
  <2>1. /\ Bus!Rank(c) = ((High(c, 0) * 3 + format(c)) * X + low(c)) * 2 + last(c)
        /\ Bus!Rank(d) = ((High(d, 0) * 3 + format(d)) * X + low(d)) * 2 + last(d)
        /\ X \in Nat \ {0}
        /\ High(c, 0) \in Nat /\ low(c) \in 0 .. X - 1 /\ format(c) \in 0 .. 2 /\ last(c) \in {0, 1}
        /\ High(d, 0) \in Nat /\ low(d) \in 0 .. X - 1 /\ format(d) \in 0 .. 2 /\ last(d) \in {0, 1}
    BY <1>2, <1>4
  <2> QED
    BY SMTT(60), <1>5, <2>1, Digits
<1>6. CASE p < BaseBits
  <2> DEFINE k == BaseBits - 1 - p
  <2>1. /\ k \in Nat /\ High(c, k + 1) \in Nat /\ High(d, k + 1) \in Nat
        /\ High(c, k) = 2 * High(c, k + 1) + 0
        /\ High(d, k) = 2 * High(d, k + 1) + 1
    BY <1>2, <1>6, BaseBit
  <2>2. k + 1 = BaseBits - p
    BY <1>1
  <2>3. High(c, k + 1) = High(d, k + 1)
    BY <1>1, <1>6, <2>2 DEF SameTo
  <2> HIDE DEF k
  <2>4. High(c, k) < High(d, k)
    BY <2>1, <2>3
  <2>5. /\ 2 ^ k \in Nat \ {0} /\ High(c, 0) \in Nat /\ High(d, 0) \in Nat
        /\ High(c, k) = High(c, 0) \div 2 ^ k /\ High(d, k) = High(d, 0) \div 2 ^ k
    BY <1>2, <2>1, HighOf
  <2>6. High(c, 0) < High(d, 0)
    BY <2>4, <2>5, Orders
  <2> QED
    BY <2>6
<1>7. CASE p = BaseBits
  <2>1. High(c, 0) = High(d, 0)
    BY <1>1, <1>7 DEF SameTo
  <2>2. ASSUME NEW e \in Bus!Contender
        PROVE  Bus!Level(e, p) = IF e.extended \/ e.remote THEN 1 ELSE 0
    BY <1>1, <1>7, <2>2 DEF Bus!Level, Bus!Rtr, Bus!Dominant, Bus!Recessive, Bus!Contender
  <2>3. ~(c.extended \/ c.remote) /\ (d.extended \/ d.remote)
    BY <1>2, <1>3, <2>2
  <2>4. format(c) < format(d)
    BY <1>3, <2>3
  <2> QED
    BY <2>1, <2>4
<1>8. CASE p = BaseBits + 1
  <2>1. High(c, 0) = High(d, 0)
    BY <1>1, <1>8 DEF SameTo
  <2>2. ASSUME NEW e \in Bus!Contender
        PROVE  Bus!Level(e, p) = IF e.extended THEN 1 ELSE 0
    BY <1>1, <1>8, <2>2 DEF Bus!Level, Bus!Dominant, Bus!Recessive, Bus!Contender
  <2>3. ~c.extended /\ d.extended
    BY <1>2, <1>3, <2>2
  <2>4. format(c) < format(d)
    BY <1>3, <2>3
  <2> QED
    BY <2>1, <2>4
<1>9. CASE p >= BaseBits + 2
  <2>1. c.extended /\ d.extended /\ p < BaseBits + ExtensionBits + 3
    BY <1>1, <1>9 DEF Bus!FieldLength
  <2>2. High(c, 0) = High(d, 0)
    BY <1>1, <1>9 DEF SameTo
  <2>3. format(c) = 2 /\ format(d) = 2
    BY <2>1
  <2>4. /\ c.id = High(c, 0) * X + low(c) /\ d.id = High(c, 0) * X + low(d)
        /\ High(c, 0) * X \in Nat /\ low(c) \in Nat /\ low(d) \in Nat
    <3> HIDE DEF X, low, format, last
    <3>1. \A m, n \in Nat : m * n \in Nat
      OBVIOUS
    <3>2. X \in Nat /\ High(c, 0) \in Nat /\ low(c) \in Nat /\ low(d) \in Nat
      BY <1>2, <1>4
    <3> QED
      BY <1>2, <1>4, <2>1, <2>2, <3>1, <3>2
  <2>5. CASE p < BaseBits + 2 + ExtensionBits
    <3> DEFINE k == BaseBits + 1 + ExtensionBits - p
    <3>1. /\ k \in Nat /\ c.id \div 2 ^ (k + 1) \in Nat /\ d.id \div 2 ^ (k + 1) \in Nat
          /\ c.id \div 2 ^ k = 2 * (c.id \div 2 ^ (k + 1)) + 0
          /\ d.id \div 2 ^ k = 2 * (d.id \div 2 ^ (k + 1)) + 1
      BY <1>2, <1>9, <2>1, <2>5, ExtensionBit
    <3>2. k + 1 = BaseBits + 2 + ExtensionBits - p
      BY <1>1
    <3>3. c.id \div 2 ^ (k + 1) = d.id \div 2 ^ (k + 1)
      BY <1>1, <1>9, <2>1, <2>5, <3>2 DEF SameTo
    <3> HIDE DEF k
    <3>4. c.id \div 2 ^ k < d.id \div 2 ^ k
      BY <3>1, <3>3
    <3>5. 2 ^ k \in Nat \ {0}
      BY <3>1, Powers
    <3>6. c.id < d.id
      BY <1>3, <3>4, <3>5, Orders
    <3> HIDE DEF X, low, format, last
    <3>7. low(c) < low(d)
      BY <2>4, <3>6
    <3> QED
      BY <2>2, <2>3, <3>7
  <2>6. CASE p = BaseBits + 2 + ExtensionBits
    <3>1. c.id \div 2 ^ 0 = d.id \div 2 ^ 0
      <4> DEFINE k == BaseBits + 2 + ExtensionBits - p
      <4>1. c.id \div 2 ^ k = d.id \div 2 ^ k
        BY <1>1, <2>1, <2>6 DEF SameTo
      <4>2. k = 0
        BY <1>1, <2>6
      <4> QED
        BY <4>1, <4>2
    <3>2. c.id = d.id
      BY <1>3, <3>1, Powers
    <3>3. ASSUME NEW e \in Bus!Contender, e.extended
          PROVE  Bus!Level(e, p) = IF e.remote THEN 1 ELSE 0
      <4>1. Bus!Level(e, p) = Bus!Rtr(e)
        BY <1>1, <2>6, <3>3 DEF Bus!Level
      <4> QED
        BY <4>1 DEF Bus!Rtr, Bus!Dominant, Bus!Recessive
    <3>4. ~c.remote /\ d.remote
      BY <1>2, <1>3, <2>1, <3>3
    <3>5. low(c) = low(d) /\ last(c) < last(d)
      BY <2>1, <3>2, <3>4
    <3> QED
      BY <2>2, <2>3, <3>5
  <2> QED
    BY <1>1, <2>1, <2>5, <2>6
<1> QED
  BY <1>1, <1>6, <1>7, <1>8, <1>9

\* Whoever sent the same to the end is of the same rank.
LEMMA SameAtLast ==
    ASSUME Bus!ArbitrationAssumption,
           NEW c, NEW d, Usable(c), Usable(d), c.extended = d.extended,
           NEW p \in Nat, p >= Bus!FieldLength(c), SameTo(c, d, p)
    PROVE  Bus!Rank(c) = Bus!Rank(d)
<1>1. BaseBits \in Nat /\ ExtensionBits \in Nat
  BY DEF Bus!ArbitrationAssumption
<1>2. c \in Bus!Contender /\ d \in Bus!Contender
  BY DEF Usable
<1>3. /\ c.id \in Nat /\ c.extended \in BOOLEAN /\ c.remote \in BOOLEAN
      /\ d.id \in Nat /\ d.extended \in BOOLEAN /\ d.remote \in BOOLEAN
  BY <1>2 DEF Bus!Contender
<1>4. c.id = d.id /\ c.remote = d.remote
  <2>1. CASE c.extended
    BY <1>1, <1>3, <2>1 DEF SameTo, Bus!FieldLength
  <2>2. CASE ~c.extended
    <3>1. High(c, 0) = c.id /\ High(d, 0) = d.id
      BY <1>3, <2>2, Powers DEF High
    <3>2. p > BaseBits
      BY <1>1, <2>2 DEF Bus!FieldLength
    <3> QED
      BY <1>1, <1>3, <2>2, <3>1, <3>2 DEF SameTo
  <2> QED
    BY <2>1, <2>2
<1> QED
  BY <1>4 DEF Bus!Rank

(***************************************************************************)
(* Arbitration: the inductive invariant                                    *)
(***************************************************************************)
\* Winners sent the same bits so far, and whoever withdrew is of a lower rank,
\* for which there is a bit.
Contest ==
    /\ contenders # <<>>
    /\ \A n \in DOMAIN contenders :
          Usable(contenders[n]) /\ position <= Bus!FieldLength(contenders[n])
    /\ position \in Nat
    /\ winners \subseteq DOMAIN contenders /\ winners # {}

Alike ==
    \A v, w \in winners :
       /\ SameTo(contenders[v], contenders[w], position)
       /\ \A j \in 0 .. position - 1 :
             Bus!Level(contenders[v], j) = Bus!Level(contenders[w], j)

Lower ==
    \A l \in DOMAIN contenders \ winners : \A w \in winners :
       Bus!Rank(contenders[w]) < Bus!Rank(contenders[l])

ContestInvariant ==
    /\ contenders \in Seq(Bus!Contender)
    /\ Bus!LosersYield
    /\ phase # "refused" => Contest /\ Alike /\ Lower
    /\ phase = "granted" => position >= Bus!Limit \/ winners \in {{n} : n \in winners}

LEMMA OneLevel ==
    ASSUME Bus!ArbitrationAssumption, NEW c \in Bus!Contender, NEW p \in Nat
    PROVE  Bus!Level(c, p) \in {0, 1}
<1>1. BaseBits \in Nat /\ ExtensionBits \in Nat /\ Bus!Rtr(c) \in {0, 1}
  BY DEF Bus!ArbitrationAssumption, Bus!Rtr, Bus!Dominant, Bus!Recessive
<1>2. CASE p < BaseBits
  BY <1>2, BaseBit
<1>3. CASE c.extended /\ BaseBits + 2 <= p /\ p < BaseBits + 2 + ExtensionBits
  BY <1>3, ExtensionBit
<1>4. CASE /\ ~ p < BaseBits
           /\ ~(c.extended /\ BaseBits + 2 <= p /\ p < BaseBits + 2 + ExtensionBits)
  BY <1>1, <1>4 DEF Bus!Level, Bus!Dominant, Bus!Recessive
<1> QED
  BY <1>2, <1>3, <1>4

LEMMA Occupied ==
    ASSUME NEW S, NEW s \in Seq(S), s # <<>>
    PROVE  DOMAIN s # {}
<1>1. Len(s) \in Nat /\ Len(s) # 0 /\ DOMAIN s = 1 .. Len(s)
  BY EmptySeq
<1>2. 1 \in 1 .. Len(s)
  BY <1>1
<1> QED
  BY <1>1, <1>2

LEMMA LimitOf ==
    ASSUME Bus!ArbitrationAssumption, contenders \in Seq(Bus!Contender), contenders # <<>>
    PROVE  /\ Bus!Limit \in Nat
           /\ \A n \in DOMAIN contenders : Bus!Limit <= Bus!FieldLength(contenders[n])
           /\ \E n \in DOMAIN contenders : Bus!Limit = Bus!FieldLength(contenders[n])
<1> DEFINE S == {Bus!FieldLength(contenders[n]) : n \in DOMAIN contenders}
<1>1. S \subseteq {BaseBits + 2, BaseBits + ExtensionBits + 3}
  BY DEF Bus!FieldLength
<1>2. BaseBits + 2 \in Nat /\ BaseBits + ExtensionBits + 3 \in Nat
  BY DEF Bus!ArbitrationAssumption
<1>3. DOMAIN contenders # {}
  BY Occupied
<1>4. S # {}
  BY <1>3
<1>5. Bus!Limit = Bus!Min(S)
  BY DEF Bus!Limit
<1>6. \A n \in DOMAIN contenders : Bus!FieldLength(contenders[n]) \in S
  OBVIOUS
<1>7. \A x \in S : \E n \in DOMAIN contenders : x = Bus!FieldLength(contenders[n])
  OBVIOUS
<1> HIDE DEF S
<1>8. \E x \in S : \A y \in S : x <= y
  <2> DEFINE u == BaseBits + 2
             v == BaseBits + ExtensionBits + 3
  <2>1. S \subseteq {u, v} /\ u \in Nat /\ v \in Nat /\ u <= v
    BY <1>1, <1>2 DEF Bus!ArbitrationAssumption
  <2> HIDE DEF u, v
  <2>2. CASE u \in S
    BY <2>1, <2>2
  <2>3. CASE u \notin S
    <3>1. S = {v}
      BY <1>4, <2>1, <2>3
    <3> QED
      BY <2>1, <3>1
  <2> QED
    BY <2>2, <2>3
<1>9. Bus!Min(S) \in S /\ \A y \in S : Bus!Min(S) <= y
  BY <1>8 DEF Bus!Min
<1> QED
  BY <1>1, <1>2, <1>5, <1>6, <1>7, <1>9

LEMMA ContestStarts ==
    ASSUME Bus!ArbitrationAssumption, Bus!ArbitrationInit
    PROVE  ContestInvariant
<1> USE DEF Bus!ArbitrationInit
<1>1. contenders \in Seq(Bus!Contender)
  BY DEF Bus!ArbitrationAssumption
<1>2. CASE Bus!Unusable(contenders)
  BY <1>1, <1>2 DEF ContestInvariant, Bus!LosersYield
<1>3. CASE ~Bus!Unusable(contenders)
  <2>1. contenders # <<>> /\ winners = DOMAIN contenders /\ DOMAIN contenders # {}
    BY <1>1, <1>3, Occupied DEF Bus!Unusable
  <2>2. \A n \in DOMAIN contenders : Usable(contenders[n])
    BY <1>1, <1>3 DEF Bus!Unusable, Usable
  <2>3. \A n \in DOMAIN contenders : 0 <= Bus!FieldLength(contenders[n])
    BY DEF Bus!FieldLength, Bus!ArbitrationAssumption
  <2>4. Contest
    BY <2>1, <2>2, <2>3 DEF Contest
  <2>5. Alike
    BY <2>1, <2>2, SameAtFirst DEF Alike
  <2>6. Lower /\ Bus!LosersYield
    BY <2>1 DEF Lower, Bus!LosersYield
  <2> QED
    BY <1>1, <1>3, <2>4, <2>5, <2>6 DEF ContestInvariant
<1> QED
  BY <1>2, <1>3

LEMMA ContestBit ==
    ASSUME Bus!ArbitrationAssumption, ContestInvariant, Bus!ArbitrateBit
    PROVE  ContestInvariant'
<1> DEFINE stay == {n \in winners : Bus!Level(contenders[n], position) = Bus!BusLevel}
<1>1. /\ phase = "racing" /\ position < Bus!Limit
      /\ winners' = stay /\ position' = position + 1
      /\ contenders' = contenders /\ phase' = phase
  BY DEF Bus!ArbitrateBit
<1>2. contenders \in Seq(Bus!Contender) /\ Contest /\ Alike /\ Lower /\ Bus!LosersYield
  BY <1>1 DEF ContestInvariant
<1>3. position \in Nat /\ \A n \in DOMAIN contenders : position < Bus!FieldLength(contenders[n])
  <2>1. position \in Nat
    BY <1>2 DEF Contest
  <2>2. Bus!Limit \in Nat /\ \A n \in DOMAIN contenders : Bus!Limit <= Bus!FieldLength(contenders[n])
    BY <1>2, LimitOf DEF Contest
  <2>3. \A n \in DOMAIN contenders : Bus!FieldLength(contenders[n]) \in Int
    BY DEF Bus!FieldLength, Bus!ArbitrationAssumption
  <2> QED
    BY <1>1, <2>1, <2>2, <2>3
<1>4. \A n \in DOMAIN contenders :
         contenders[n] \in Bus!Contender /\ Bus!Level(contenders[n], position) \in {0, 1}
  BY <1>2, <1>3, OneLevel
<1>5. /\ stay # {} /\ stay \subseteq winners /\ winners \subseteq DOMAIN contenders
      /\ \A v, w \in stay : Bus!Level(contenders[v], position) = Bus!Level(contenders[w], position)
      /\ \A l \in winners \ stay : \A w \in stay :
            Bus!Level(contenders[w], position) = 0 /\ Bus!Level(contenders[l], position) = 1
  BY <1>2, <1>4 DEF Contest, Bus!BusLevel, Bus!Dominant, Bus!Recessive
<1> HIDE DEF stay
<1>6. Contest'
  <2>1. \A n \in DOMAIN contenders : position + 1 <= Bus!FieldLength(contenders[n])
    <3>1. \A n \in DOMAIN contenders : Bus!FieldLength(contenders[n]) \in Int
      BY DEF Bus!FieldLength, Bus!ArbitrationAssumption
    <3> QED
      BY <1>3, <3>1
  <2> QED
    BY <1>1, <1>2, <1>5, <2>1 DEF Contest
<1>7. Alike'
  <2>1. ASSUME NEW v \in stay, NEW w \in stay
        PROVE  SameTo(contenders[v], contenders[w], position + 1)
    <3>1. /\ v \in DOMAIN contenders /\ w \in DOMAIN contenders
          /\ Usable(contenders[v]) /\ Usable(contenders[w])
      BY <1>2, <1>5, <2>1 DEF Contest
    <3>2. SameTo(contenders[v], contenders[w], position)
      BY <1>2, <1>5, <2>1 DEF Alike
    <3>3. Bus!Level(contenders[v], position) = Bus!Level(contenders[w], position)
      BY <1>5, <2>1
    <3> QED
      BY <1>3, <3>1, <3>2, <3>3, SameOneMore
  <2>2. ASSUME NEW v \in stay, NEW w \in stay, NEW j \in 0 .. position
        PROVE  Bus!Level(contenders[v], j) = Bus!Level(contenders[w], j)
    <3>1. j = position \/ j \in 0 .. position - 1
      BY <1>3, <2>2
    <3> QED
      BY <1>2, <1>5, <2>2, <3>1 DEF Alike
  <2>3. (position + 1) - 1 = position
    BY <1>3
  <2> QED
    BY <1>1, <2>1, <2>2, <2>3 DEF Alike
<1>8. Lower'
  <2>1. ASSUME NEW l \in DOMAIN contenders \ stay, NEW w \in stay
        PROVE  Bus!Rank(contenders[w]) < Bus!Rank(contenders[l])
    <3>1. CASE l \notin winners
      BY <1>2, <1>5, <2>1, <3>1 DEF Lower
    <3>2. CASE l \in winners
      <4>1. /\ w \in DOMAIN contenders
            /\ Usable(contenders[l]) /\ Usable(contenders[w])
        BY <1>2, <1>5, <2>1 DEF Contest
      <4>2. SameTo(contenders[w], contenders[l], position)
        BY <1>2, <1>5, <2>1, <3>2 DEF Alike
      <4>3. Bus!Level(contenders[w], position) = 0 /\ Bus!Level(contenders[l], position) = 1
        BY <1>5, <2>1, <3>2
      <4> QED
        BY <1>3, <2>1, <4>1, <4>2, <4>3, Outranks
    <3> QED
      BY <3>1, <3>2
  <2> QED
    BY <1>1, <2>1 DEF Lower
<1>9. Bus!LosersYield'
  <2>1. ASSUME NEW l \in DOMAIN contenders \ stay, NEW w \in stay
        PROVE  \E i \in 0 .. position :
                  /\ \A j \in 0 .. i - 1 :
                        Bus!Level(contenders[l], j) = Bus!Level(contenders[w], j)
                  /\ Bus!Level(contenders[w], i) = 0
                  /\ Bus!Level(contenders[l], i) = 1
    <3>1. CASE l \notin winners
      <4>1. PICK i \in 0 .. position - 1 :
               /\ \A j \in 0 .. i - 1 :
                     Bus!Level(contenders[l], j) = Bus!Level(contenders[w], j)
               /\ Bus!Level(contenders[w], i) = 0
               /\ Bus!Level(contenders[l], i) = 1
        BY <1>1, <1>2, <1>5, <2>1, <3>1 DEF Bus!LosersYield, Bus!Dominant, Bus!Recessive
      <4>2. i \in 0 .. position
        BY <1>3
      <4> QED
        BY <4>1, <4>2
    <3>2. CASE l \in winners
      <4>1. position \in 0 .. position
        BY <1>3
      <4>2. \A j \in 0 .. position - 1 :
               Bus!Level(contenders[l], j) = Bus!Level(contenders[w], j)
        BY <1>2, <1>5, <2>1, <3>2 DEF Alike
      <4> QED
        BY <1>5, <2>1, <3>2, <4>1, <4>2
    <3> QED
      BY <3>1, <3>2
  <2>2. (position + 1) - 1 = position
    BY <1>3
  <2> QED
    BY <1>1, <1>5, <2>1, <2>2 DEF Bus!LosersYield, Bus!Dominant, Bus!Recessive
<1> QED
  BY <1>1, <1>2, <1>6, <1>7, <1>8, <1>9 DEF ContestInvariant

LEMMA ContestHolds ==
    ASSUME Bus!ArbitrationAssumption
    PROVE  /\ Bus!ArbitrationInit => ContestInvariant
           /\ ContestInvariant /\ [Bus!ArbitrationNext]_Bus!race => ContestInvariant'
<1>1. Bus!ArbitrationInit => ContestInvariant
  BY ContestStarts
<1>2. ContestInvariant /\ [Bus!ArbitrationNext]_Bus!race => ContestInvariant'
  <2> SUFFICES ASSUME ContestInvariant, [Bus!ArbitrationNext]_Bus!race
               PROVE  ContestInvariant'
    OBVIOUS
  <2>1. CASE Bus!ArbitrateBit
    BY <2>1, ContestBit
  <2>2. CASE Bus!Grant
    BY <2>2 DEF Bus!Grant, ContestInvariant, Contest, Alike, Lower, Bus!LosersYield, Bus!Limit
  <2>3. CASE UNCHANGED Bus!race
    BY <2>3 DEF Bus!race, ContestInvariant, Contest, Alike, Lower, Bus!LosersYield, Bus!Limit
  <2> QED
    BY <2>1, <2>2, <2>3 DEF Bus!ArbitrationNext
<1> QED
  BY <1>1, <1>2

\* The order of the fields is that of the ranks.
LEMMA ContestDecides ==
    ASSUME Bus!ArbitrationAssumption, ContestInvariant
    PROVE  Bus!LosersYield /\ Bus!LowestNeverLoses
<1>1. Bus!LowestNeverLoses
  <2>1. SUFFICES ASSUME phase = "granted"
                 PROVE  /\ Bus!Highest \subseteq winners
                        /\ (\A m, n \in DOMAIN contenders :
                               contenders[m].extended = contenders[n].extended)
                              => winners = Bus!Highest
    BY DEF Bus!LowestNeverLoses
  <2>2. contenders \in Seq(Bus!Contender) /\ Contest /\ Alike /\ Lower
    BY <2>1 DEF ContestInvariant
  <2>3. \A n \in DOMAIN contenders : Bus!Rank(contenders[n]) \in Int
    <3>1. ASSUME NEW c \in Bus!Contender
          PROVE  Bus!Rank(c) \in Int
      <4> DEFINE X == 2 ^ ExtensionBits
                 low == IF c.extended THEN c.id % X ELSE 0
                 format == IF c.extended THEN 2 ELSE IF c.remote THEN 1 ELSE 0
                 last == IF c.extended /\ c.remote THEN 1 ELSE 0
      <4>1. /\ Bus!Rank(c) = ((High(c, 0) * 3 + format) * X + low) * 2 + last
            /\ High(c, 0) \in Nat /\ X \in Nat \ {0} /\ low \in 0 .. X - 1
            /\ format \in 0 .. 2 /\ last \in {0, 1}
        BY RankOf
      <4> HIDE DEF X, low, format, last
      <4> QED
        BY <4>1
    <3> QED
      BY <2>2, <3>1
  <2>4. Bus!Highest \subseteq winners
    <3>1. ASSUME NEW n \in Bus!Highest, n \notin winners
          PROVE  FALSE
      <4>1. PICK w \in winners : w \in DOMAIN contenders
        BY <2>2 DEF Contest
      <4>2. n \in DOMAIN contenders /\ Bus!Rank(contenders[n]) <= Bus!Rank(contenders[w])
        BY <3>1, <4>1 DEF Bus!Highest
      <4>3. Bus!Rank(contenders[w]) < Bus!Rank(contenders[n])
        BY <2>2, <3>1, <4>1, <4>2 DEF Lower
      <4> QED
        BY <2>3, <4>1, <4>2, <4>3
    <3> QED
      BY <3>1
  <2>5. ASSUME \A m, n \in DOMAIN contenders :
                  contenders[m].extended = contenders[n].extended,
               NEW w \in winners, NEW n \in DOMAIN contenders
        PROVE  Bus!Rank(contenders[w]) <= Bus!Rank(contenders[n])
    <3>1. w \in DOMAIN contenders
      BY <2>2 DEF Contest
    <3>2. CASE n \notin winners
      BY <2>2, <2>3, <2>5, <3>1, <3>2 DEF Lower
    <3>3. CASE n \in winners /\ winners \in {{m} : m \in winners}
      BY <2>3, <3>1, <3>3
    <3>4. CASE n \in winners /\ position >= Bus!Limit
      <4>1. PICK m \in DOMAIN contenders : Bus!Limit = Bus!FieldLength(contenders[m])
        BY <2>2, LimitOf DEF Contest
      <4>2. Bus!FieldLength(contenders[w]) = Bus!FieldLength(contenders[m])
        BY <2>5, <3>1, <4>1 DEF Bus!FieldLength
      <4>3. /\ Usable(contenders[w]) /\ Usable(contenders[n])
            /\ contenders[w].extended = contenders[n].extended
            /\ position \in Nat /\ position >= Bus!FieldLength(contenders[w])
            /\ SameTo(contenders[w], contenders[n], position)
        BY <2>2, <2>5, <3>1, <3>4, <4>1, <4>2 DEF Contest, Alike
      <4>4. Bus!Rank(contenders[w]) = Bus!Rank(contenders[n])
        BY <4>3, SameAtLast
      <4> QED
        BY <2>3, <3>1, <4>4
    <3> QED
      BY <2>1, <3>2, <3>3, <3>4 DEF ContestInvariant
  <2>6. ASSUME \A m, n \in DOMAIN contenders :
                  contenders[m].extended = contenders[n].extended
        PROVE  winners \subseteq Bus!Highest
    BY <2>2, <2>5, <2>6 DEF Bus!Highest, Contest
  <2> QED
    BY <2>4, <2>6
<1> QED
  BY <1>1 DEF ContestInvariant

(***************************************************************************)
(* Database files, in the slots. First, lines of a kind, by their numbers. *)
(***************************************************************************)
file == s1
messages == s2
parsing == s3
USE DEF file, messages, parsing

\* How many of a set come no later than i, and the n-th of it.
Upto(S, i) == {j \in S : j <= i}
Nth(S, n) == CHOOSE i \in S : Cardinality(Upto(S, i)) = n

\* The last of K before i, as a set; and those of S that come after d and
\* before anything else in K.
Last(K, i) == {j \in K : j < i /\ \A k \in K : k < i => k <= j}
Below(K, S, d) == {i \in S : Last(K, i) = {d}}

\* Every number up to its size is taken, which is so of each finite set and
\* carried along here.
Gapless(S) == \A n \in 1 .. Cardinality(S) : \E i \in S : Cardinality(Upto(S, i)) = n

LEMMA FirstNumbers ==
    ASSUME NEW n \in Nat
    PROVE  IsFiniteSet(1 .. n)
BY FS_Interval

LEMMA Counts ==
    ASSUME NEW S \in SUBSET Nat, IsFiniteSet(S), NEW i \in S, NEW j \in S
    PROVE  /\ IsFiniteSet(Upto(S, i)) /\ Cardinality(Upto(S, i)) \in 1 .. Cardinality(S)
           /\ i < j => Cardinality(Upto(S, i)) < Cardinality(Upto(S, j))
           /\ Cardinality(Upto(S, i)) = Cardinality(S) => \A k \in S : k <= i
           /\ Nth(S, Cardinality(Upto(S, i))) = i
<1>1. ASSUME NEW k \in S
      PROVE  /\ Upto(S, k) \in SUBSET S /\ IsFiniteSet(Upto(S, k)) /\ k \in Upto(S, k)
             /\ Cardinality(Upto(S, k)) \in Nat /\ Cardinality(S) \in Nat
             /\ Cardinality(Upto(S, k)) <= Cardinality(S)
             /\ Cardinality(Upto(S, k)) = Cardinality(S) => Upto(S, k) = S
             /\ Cardinality(Upto(S, k)) # 0
  <2>1. Upto(S, k) \in SUBSET S /\ k \in Upto(S, k)
    BY DEF Upto
  <2>2. /\ IsFiniteSet(Upto(S, k)) /\ Cardinality(Upto(S, k)) <= Cardinality(S)
        /\ Cardinality(S) = Cardinality(Upto(S, k)) => S = Upto(S, k)
    BY <2>1, FS_Subset
  <2>3. Cardinality(Upto(S, k)) \in Nat /\ Cardinality(S) \in Nat
    BY <2>2, FS_CardinalityType
  <2>4. Cardinality(Upto(S, k)) # 0
    BY <2>1, <2>2, FS_EmptySet
  <2> QED
    BY <2>1, <2>2, <2>3, <2>4
<1>2. ASSUME NEW k \in S, NEW l \in S, k < l
      PROVE  Cardinality(Upto(S, k)) < Cardinality(Upto(S, l))
  <2>1. Upto(S, k) \in SUBSET Upto(S, l) /\ l \notin Upto(S, k)
    <3>1. k \in Nat /\ l \in Nat /\ \A x \in S : x \in Nat
      OBVIOUS
    <3>2. \A x \in S : x <= k => x <= l
      BY <1>2, <3>1
    <3>3. ~(l <= k)
      BY <1>2, <3>1
    <3> QED
      BY <3>2, <3>3 DEF Upto
  <2>2. /\ Cardinality(Upto(S, k)) <= Cardinality(Upto(S, l))
        /\ Cardinality(Upto(S, l)) = Cardinality(Upto(S, k)) => Upto(S, l) = Upto(S, k)
    BY <1>1, <2>1, FS_Subset
  <2> QED
    BY <1>1, <2>1, <2>2
<1>3. Nth(S, Cardinality(Upto(S, i))) = i
  <2> DEFINE c == Cardinality(Upto(S, i))
             h == Nth(S, c)
  <2>1. \E k \in S : Cardinality(Upto(S, k)) = c
    OBVIOUS
  <2>2. h \in S /\ Cardinality(Upto(S, h)) = c
    <3> HIDE DEF c
    <3> QED
      BY <2>1 DEF Nth
  <2> HIDE DEF h
  <2>3. c \in Nat /\ i \in Nat /\ h \in Nat
    BY <1>1, <2>2
  <2>4. ~(i < h) /\ ~(h < i)
    BY <1>2, <2>2, <2>3
  <2>5. h = i
    BY <2>3, <2>4
  <2> QED
    BY <2>5 DEF h
<1>4. Cardinality(Upto(S, i)) = Cardinality(S) => \A k \in S : k <= i
  <2>1. Cardinality(Upto(S, i)) = Cardinality(S) => Upto(S, i) = S
    BY <1>1
  <2> QED
    BY <2>1 DEF Upto
<1> QED
  BY <1>1, <1>2, <1>3, <1>4

\* A new one after all others changes no number of theirs.
LEMMA OneMore ==
    ASSUME NEW S \in SUBSET Nat, IsFiniteSet(S), NEW n \in Nat, \A i \in S : i < n
    PROVE  /\ IsFiniteSet(S \cup {n}) /\ Cardinality(S \cup {n}) = Cardinality(S) + 1
           /\ Cardinality(S) \in Nat
           /\ \A i \in S : Upto(S \cup {n}, i) = Upto(S, i)
           /\ Upto(S \cup {n}, n) = S \cup {n}
           /\ Gapless(S) => Gapless(S \cup {n})
<1>1. n \notin S
  OBVIOUS
<1>2. /\ IsFiniteSet(S \cup {n}) /\ Cardinality(S \cup {n}) = Cardinality(S) + 1
      /\ Cardinality(S) \in Nat
  BY <1>1, FS_AddElement, FS_CardinalityType
<1>3. \A i \in S : Upto(S \cup {n}, i) = Upto(S, i)
  BY DEF Upto
<1>4. Upto(S \cup {n}, n) = S \cup {n}
  <2>1. \A i \in S \cup {n} : i <= n
    OBVIOUS
  <2> QED
    BY <2>1 DEF Upto
<1>5. ASSUME Gapless(S), NEW m \in 1 .. Cardinality(S) + 1
      PROVE  \E i \in S \cup {n} : Cardinality(Upto(S \cup {n}, i)) = m
  <2>1. CASE m = Cardinality(S) + 1
    BY <1>2, <1>4, <2>1
  <2>2. CASE m \in 1 .. Cardinality(S)
    <3>1. PICK i \in S : Cardinality(Upto(S, i)) = m
      BY <1>5, <2>2 DEF Gapless
    <3> QED
      BY <1>3, <3>1
  <2> QED
    BY <1>2, <1>5, <2>1, <2>2
<1> QED
  BY <1>2, <1>3, <1>4, <1>5 DEF Gapless

\* A new line to count by has nothing below it and takes nothing away.
LEMMA NewAbove ==
    ASSUME NEW K \in SUBSET Nat, NEW S \in SUBSET Nat, NEW n \in Nat,
           \A i \in K \cup S : i < n
    PROVE  /\ \A d \in K : Below(K \cup {n}, S, d) = Below(K, S, d)
           /\ Below(K \cup {n}, S, n) = {}
<1>1. \A i \in S : Last(K \cup {n}, i) = Last(K, i)
  BY DEF Last
<1>2. \A i \in S : n \notin Last(K, i)
  BY DEF Last
<1> QED
  BY <1>1, <1>2 DEF Below

\* A new line goes below the last one.
LEMMA NewBelow ==
    ASSUME NEW K \in SUBSET Nat, NEW S \in SUBSET Nat, NEW n \in Nat,
           \A i \in K \cup S : i < n, NEW e \in K, \A k \in K : k <= e
    PROVE  /\ Below(K, S \cup {n}, e) = Below(K, S, e) \cup {n}
           /\ \A d \in K \ {e} : Below(K, S \cup {n}, d) = Below(K, S, d)
<1>1. Last(K, n) = {e}
  <2>1. e \in Last(K, n)
    BY DEF Last
  <2>2. \A j \in Last(K, n) : j = e
    BY DEF Last
  <2> QED
    BY <2>1, <2>2
<1> QED
  BY <1>1 DEF Below

(***************************************************************************)
(* A database: the inductive invariant                                     *)
(***************************************************************************)
Remarks == {Database!Text(line) : line \in Lines} \cup {Missing}

Signal == [name : {line.name : line \in Lines}, comment : Remarks,
           values : {Database!Table(line) : line \in Lines} \cup {<<>>}]

Message == [id : Nat, extended : BOOLEAN, length : {line.length : line \in Lines},
            comment : Remarks, signals : Seq(Signal)]

OfKind(keyword) == Database!KindOf({keyword})

\* Of messages that are named the same only the first one has a comment.
FirstOnly ==
    \A m \in DOMAIN messages : messages[m].comment # Missing =>
       \A k \in 1 .. m - 1 : ~(/\ messages[k].id = messages[m].id
                               /\ messages[k].extended = messages[m].extended)

\* The last of the lines that mean a message gives its comment, cut or not.
LastGiven(m) ==
    /\ messages[m].comment # Missing =>
         \E i \in Database!RemarkLines(m) : /\ Database!Text(file[i]) = messages[m].comment
                                            /\ \A j \in Database!RemarkLines(m) : j <= i
    /\ Database!RemarkLines(m) # {} /\ messages[m].comment = Missing =>
         \E k \in 1 .. m - 1 : /\ messages[k].id = messages[m].id
                               /\ messages[k].extended = messages[m].extended
EachLastGiven == \A m \in DOMAIN messages : LastGiven(m)

DatabaseTypes ==
    /\ file \in Seq(Lines) /\ messages \in Seq(Message)
    /\ parsing \in {"reading", "loaded", "refused"}

\* As long as nothing was refused, the messages are those of the lines read.
DatabaseInvariant ==
    /\ DatabaseTypes
    /\ parsing # "refused" =>
          /\ Len(messages) = Cardinality(OfKind("BO_")) /\ Gapless(OfKind("BO_"))
          /\ \A m \in DOMAIN messages : Database!IsWhole(m)
    /\ parsing = "loaded" => messages # <<>>
    /\ FirstOnly
    /\ EachLastGiven

LEMMA OneCardinality ==
    \A S : Database!Cardinality(S) = Cardinality(S)
BY DEF Database!Cardinality, Cardinality

LEMMA DeclaredIs ==
    ASSUME NEW CONSTANT m
    PROVE  /\ Database!Declared(m) = Nth(OfKind("BO_"), m)
           /\ Database!Declared(m)' = Nth(OfKind("BO_")', m)
           /\ Database!SignalLines(m) = Below(OfKind("BO_"), OfKind("SG_"), Database!Declared(m))
           /\ Database!SignalLines(m)' =
                 Below(OfKind("BO_")', OfKind("SG_")', Database!Declared(m)')
<1>1. Database!Declared(m) = Nth(OfKind("BO_"), m)
  BY DEF Database!Declared, Database!NthLine, Nth, Upto, OfKind, Database!Cardinality, Cardinality
<1>2. Database!Declared(m)' = Nth(OfKind("BO_")', m)
  BY DEF Database!Declared, Database!NthLine, Nth, Upto, OfKind, Database!Cardinality, Cardinality
<1>3. Database!SignalLines(m) = Below(OfKind("BO_"), OfKind("SG_"), Database!Declared(m))
  BY DEF OfKind, Database!SignalLines, Below, Last, Database!LastBefore
<1>4. Database!SignalLines(m)' = Below(OfKind("BO_")', OfKind("SG_")', Database!Declared(m)')
  BY DEF OfKind, Database!SignalLines, Below, Last, Database!LastBefore
<1> QED
  BY <1>1, <1>2, <1>3, <1>4

LEMMA Kinds ==
    ASSUME file \in Seq(Lines), NEW keyword
    PROVE  /\ OfKind(keyword) \in SUBSET (1 .. Len(file))
           /\ OfKind(keyword) \in SUBSET Nat /\ IsFiniteSet(OfKind(keyword))
<1>1. OfKind(keyword) \in SUBSET (1 .. Len(file)) /\ Len(file) \in Nat
  BY DEF OfKind, Database!KindOf
<1>2. IsFiniteSet(1 .. Len(file))
  BY <1>1, FS_Interval
<1> QED
  BY <1>1, <1>2, FS_Subset

\* The line that is read is the last one of its kind.
LEMMA LineRead ==
    ASSUME file \in Seq(Lines), NEW line \in Lines, file' = Append(file, line)
    PROVE  LET n == Len(file) + 1 IN
           /\ n \in Nat /\ file' \in Seq(Lines) /\ DOMAIN file' = 1 .. n
           /\ file'[n] = line /\ \A i \in 1 .. Len(file) : file'[i] = file[i]
           /\ \A keyword : OfKind(keyword)' = IF line.keyword = keyword THEN OfKind(keyword) \cup {n}
                                                       ELSE OfKind(keyword)
<1> DEFINE n == Len(file) + 1
<1>1. /\ n \in Nat /\ file' \in Seq(Lines) /\ Len(file') = n /\ Len(file) \in Nat
      /\ file'[n] = line /\ \A i \in 1 .. Len(file) : file'[i] = file[i]
  OBVIOUS
<1>2. DOMAIN file' = 1 .. n /\ DOMAIN file = 1 .. Len(file) /\ 1 .. n = (1 .. Len(file)) \cup {n}
  BY <1>1
<1> HIDE DEF n
<1>3. ASSUME NEW keyword
      PROVE  OfKind(keyword)' = IF line.keyword = keyword THEN OfKind(keyword) \cup {n}
                                                       ELSE OfKind(keyword)
  <2>1. OfKind(keyword)' = {i \in 1 .. n : file'[i].keyword = keyword}
    BY <1>2 DEF OfKind, Database!KindOf
  <2>2. OfKind(keyword) = {i \in 1 .. Len(file) : file[i].keyword = keyword}
    BY <1>2 DEF OfKind, Database!KindOf
  <2> QED
    BY <1>1, <1>2, <2>1, <2>2
<1> QED
  BY <1>1, <1>2, <1>3 DEF n

\* Declarations stay where they are; a signal's line goes below the last one.
LEMMA Places ==
    ASSUME DatabaseInvariant, parsing = "reading",
           NEW line \in Lines, file' = Append(file, line)
    PROVE  LET n == Len(file) + 1
               last == Len(messages)
           IN /\ \A m \in DOMAIN messages :
                    /\ Database!Declared(m) \in 1 .. Len(file)
                    /\ Database!Declared(m)' = Database!Declared(m)
                    /\ Database!SignalLines(m) \in SUBSET (1 .. Len(file))
                    /\ Database!SignalLines(m)' =
                          IF line.keyword = "SG_" /\ m = last
                          THEN Database!SignalLines(m) \cup {n} ELSE Database!SignalLines(m)
              /\ IF line.keyword = "BO_"
                 THEN /\ Cardinality(OfKind("BO_")') = last + 1 /\ Gapless(OfKind("BO_")')
                      /\ \A m \in Nat : m = last + 1 =>
                            Database!Declared(m)' = n /\ Database!SignalLines(m)' = {}
                 ELSE OfKind("BO_")' = OfKind("BO_")
<1> DEFINE n == Len(file) + 1
           last == Len(messages)
           K == OfKind("BO_")
           S == OfKind("SG_")
           KK == OfKind("BO_")'
           SS == OfKind("SG_")'
<1>1. /\ file \in Seq(Lines) /\ Len(file) \in Nat
      /\ DOMAIN messages = 1 .. last /\ last \in Nat
      /\ Cardinality(K) = last /\ Gapless(K)
  BY DEF DatabaseInvariant, DatabaseTypes
<1>2. /\ K \in SUBSET (1 .. Len(file)) /\ K \in SUBSET Nat /\ IsFiniteSet(K)
      /\ S \in SUBSET (1 .. Len(file)) /\ S \in SUBSET Nat /\ IsFiniteSet(S)
  BY <1>1, Kinds
<1>3. /\ n \in Nat
      /\ KK = IF line.keyword = "BO_" THEN K \cup {n} ELSE K
      /\ SS = IF line.keyword = "SG_" THEN S \cup {n} ELSE S
  BY <1>1, LineRead
<1>4. \A i \in K \cup S : i < n
  BY <1>1, <1>2
<1>5. /\ IsFiniteSet(K \cup {n}) /\ Cardinality(K \cup {n}) = last + 1
      /\ \A i \in K : Upto(K \cup {n}, i) = Upto(K, i)
      /\ Upto(K \cup {n}, n) = K \cup {n}
      /\ Gapless(K \cup {n})
  BY <1>1, <1>2, <1>3, <1>4, OneMore
<1>6. K \cup {n} \in SUBSET Nat
  BY <1>2, <1>3
<1>7. /\ \A d \in K : Below(K \cup {n}, S, d) = Below(K, S, d)
      /\ Below(K \cup {n}, S, n) = {}
  BY <1>2, <1>3, <1>4, NewAbove
<1> HIDE DEF n, last, K, S, KK, SS
<1>8. ASSUME NEW m \in 1 .. last
      PROVE  /\ Nth(K, m) \in K /\ Nth(KK, m) = Nth(K, m)
             /\ Cardinality(Upto(K, Nth(K, m))) = m
  <2>1. PICK i \in K : Cardinality(Upto(K, i)) = m
    BY <1>1, <1>8 DEF Gapless
  <2>2. Nth(K, m) = i
    BY <1>2, <2>1, Counts
  <2>3. Nth(K \cup {n}, m) = i
    <3>1. i \in K \cup {n} /\ Cardinality(Upto(K \cup {n}, i)) = m
      BY <1>5, <2>1
    <3> QED
      BY <1>5, <1>6, <3>1, Counts
  <2> QED
    BY <1>3, <2>1, <2>2, <2>3
<1>9. ASSUME NEW m \in 1 .. last
      PROVE  Below(KK, SS, Nth(KK, m)) =
                IF line.keyword = "SG_" /\ m = last THEN Below(K, S, Nth(K, m)) \cup {n}
                ELSE Below(K, S, Nth(K, m))
  <2>1. CASE line.keyword = "BO_"
    BY <1>3, <1>7, <1>8, <2>1
  <2>2. CASE line.keyword = "SG_"
    <3>1. last \in 1 .. last
      BY <1>1, <1>9
    <3>2. Nth(K, last) \in K /\ \A k \in K : k <= Nth(K, last)
      BY <1>1, <1>2, <1>8, <3>1, Counts
    <3>3. PICK e \in K : e = Nth(K, last)
      BY <3>2
    <3>4. \A k \in K : k <= e
      BY <3>2, <3>3
    <3>5. /\ Below(K, S \cup {n}, e) = Below(K, S, e) \cup {n}
          /\ \A d \in K \ {e} : Below(K, S \cup {n}, d) = Below(K, S, d)
      BY ONLY <1>2, <1>3, <1>4, <3>4, NewBelow
    <3>6. Nth(K, m) \in K /\ (m # last => Nth(K, m) # e)
      BY <1>8, <3>1, <3>3
    <3>7. KK = K /\ SS = S \cup {n} /\ Nth(KK, m) = Nth(K, m)
      BY <1>3, <1>8, <2>2
    <3> QED
      BY <2>2, <3>3, <3>5, <3>6, <3>7
  <2>3. CASE line.keyword \notin {"BO_", "SG_"}
    BY <1>3, <2>3
  <2> QED
    BY <2>1, <2>2, <2>3
<1>10. ASSUME NEW m \in 1 .. last
       PROVE  /\ Database!Declared(m) \in 1 .. Len(file)
              /\ Database!Declared(m)' = Database!Declared(m)
              /\ Database!SignalLines(m) \in SUBSET (1 .. Len(file))
              /\ Database!SignalLines(m)' =
                    IF line.keyword = "SG_" /\ m = last
                    THEN Database!SignalLines(m) \cup {n} ELSE Database!SignalLines(m)
  <2>1. /\ Database!Declared(m) = Nth(K, m) /\ Database!Declared(m)' = Nth(KK, m)
        /\ Database!SignalLines(m) = Below(K, S, Nth(K, m))
        /\ Database!SignalLines(m)' = Below(KK, SS, Nth(KK, m))
    BY DeclaredIs DEF K, S, KK, SS
  <2>2. Below(K, S, Nth(K, m)) \in SUBSET S
    BY DEF Below
  <2> QED
    BY <1>2, <1>8, <1>9, <2>1, <2>2
<1>11. CASE line.keyword = "BO_"
  <2>1. n \in K \cup {n} /\ Cardinality(Upto(K \cup {n}, n)) = last + 1
    BY <1>5
  <2>2. Nth(KK, last + 1) = n
    BY <1>3, <1>5, <1>6, <1>11, <2>1, Counts
  <2>3. Below(KK, SS, n) = {}
    BY <1>3, <1>7, <1>11
  <2>4. ASSUME NEW m \in Nat, m = last + 1
        PROVE  Database!Declared(m)' = n /\ Database!SignalLines(m)' = {}
    BY <2>2, <2>3, <2>4, DeclaredIs DEF KK, SS
  <2> QED
    BY <1>1, <1>3, <1>5, <1>10, <1>11, <2>4 DEF n, last, K, KK
<1>12. CASE line.keyword # "BO_"
  BY ZenonT(60), <1>1, <1>3, <1>10, <1>12 DEF n, last, K, KK
<1> QED
  BY <1>11, <1>12

\* SelectInSeq() gives the first message that has the name, or 0.
LEMMA MessageFound ==
    ASSUME messages \in Seq(Message), NEW raw \in Nat
    PROVE  LET f == Database!MessageOf(raw) IN
           /\ f \in 0 .. Len(messages)
           /\ f = 0 => \A m \in DOMAIN messages : ~Database!Names(messages[m], raw)
           /\ f # 0 => /\ Database!Names(messages[f], raw)
                       /\ \A k \in 1 .. f - 1 : ~Database!Names(messages[k], raw)
<1> DEFINE I == {i \in 1 .. Len(messages) : Database!Names(messages[i], raw)}
<1>1. Database!MessageOf(raw) = IF I # {} THEN Database!Min(I) ELSE 0
  BY DEF Database!MessageOf, Database!SelectInSeq
<1>2. Len(messages) \in Nat /\ DOMAIN messages = 1 .. Len(messages)
  OBVIOUS
<1>3. ASSUME I # {}
      PROVE  Database!Min(I) \in I /\ \A j \in I : Database!Min(I) <= j
  <2>1. \E x \in I : \A y \in I : x <= y
    <3> DEFINE R == OpToRel(<, Nat)
    <3>1. IsWellFoundedOn(R, Nat)
      BY ZenonT(60), NatLessThanWellFounded
    <3>2. I \subseteq Nat
      BY <1>2
    <3> HIDE DEF I, R
    <3>3. PICK x \in I : \A y \in I : ~(<<y, x>> \in R)
      BY <1>3, <3>1, <3>2, WFMin
    <3>4. \A y, z \in Nat : y < z => <<y, z>> \in R
      BY DEF R, OpToRel
    <3>5. \A y \in I : y \in Nat /\ x \in Nat /\ ~(y < x)
      BY <3>2, <3>3, <3>4
    <3>6. \A y \in I : x <= y
      BY <3>5
    <3> QED
      BY <3>6
  <2> HIDE DEF I
  <2> QED
    BY <2>1 DEF Database!Min
<1>4. CASE I = {}
  BY <1>1, <1>2, <1>4
<1>5. CASE I # {}
  <2> DEFINE f == Database!MessageOf(raw)
  <2>1. f \in I /\ \A j \in I : f <= j
    BY <1>1, <1>3, <1>5
  <2> HIDE DEF f
  <2>2. f \in 1 .. Len(messages) /\ Database!Names(messages[f], raw)
    BY <2>1
  <2>3. ASSUME NEW k \in 1 .. f - 1
        PROVE  ~Database!Names(messages[k], raw)
    <3>1. k \in 1 .. Len(messages) /\ k < f
      BY <1>2, <2>2
    <3> QED
      BY <2>1, <2>2, <3>1
  <2> QED
    BY <1>2, <2>2, <2>3 DEF f
<1> QED
  BY <1>4, <1>5

\* What a step leaves of a message that was whole.
LEMMA WholeKept ==
    ASSUME NEW CONSTANT m \in Nat, Database!IsWhole(m), file \in Seq(Lines),
           Database!SignalLines(m) \in SUBSET (1 .. Len(file)),
           Database!Declared(m)' = Database!Declared(m),
           Database!SignalLines(m)' = Database!SignalLines(m),
           file'[Database!Declared(m)] = file[Database!Declared(m)],
           \A i \in 1 .. Len(file) : file'[i] = file[i],
           messages'[m].id = messages[m].id,
           messages'[m].extended = messages[m].extended,
           Len(messages'[m].signals) = Len(messages[m].signals),
           \A s \in 1 .. Len(messages[m].signals) :
              messages'[m].signals[s].name = messages[m].signals[s].name
    PROVE  Database!IsWhole(m)'
<1> DEFINE L == Database!SignalLines(m)
<1>1. /\ Database!Identifier(file[Database!Declared(m)].raw) = messages[m].id
      /\ messages[m].extended => messages[m].id <= ExtendedMask
      /\ ~messages[m].extended => messages[m].id <= StandardMask
      /\ Len(messages[m].signals) = Cardinality(L)
      /\ \A i \in L : messages[m].signals[Cardinality(Upto(L, i))].name = file[i].name
  BY OneCardinality DEF Database!IsWhole, Upto
<1>2. L \in SUBSET Nat /\ IsFiniteSet(L)
  <2>1. Len(file) \in Nat /\ IsFiniteSet(1 .. Len(file))
    BY FS_Interval
  <2> QED
    BY <2>1, FS_Subset
<1>3. \A i \in L : Cardinality(Upto(L, i)) \in 1 .. Len(messages[m].signals)
  <2> HIDE DEF L
  <2> QED
    BY <1>1, <1>2, Counts
<1>4. \A i \in L : messages'[m].signals[Cardinality(Upto(L, i))].name = file'[i].name
  BY <1>1, <1>3
<1>5. /\ Database!Identifier(file'[Database!Declared(m)'].raw) = messages'[m].id
      /\ messages'[m].extended => messages'[m].id <= ExtendedMask
      /\ ~messages'[m].extended => messages'[m].id <= StandardMask
      /\ Len(messages'[m].signals) = Cardinality(Database!SignalLines(m)')
  BY <1>1
<1>6. \A i \in Database!SignalLines(m)' :
         messages'[m].signals[Cardinality(Upto(Database!SignalLines(m)', i))].name = file'[i].name
  BY <1>4
<1> QED
  BY <1>5, <1>6, OneCardinality DEF Database!IsWhole, Upto

\* What a remark leaves of a message.
SameShape(a, b) ==
    /\ a.id = b.id /\ a.extended = b.extended
    /\ Len(a.signals) = Len(b.signals)
    /\ \A s \in 1 .. Len(b.signals) : a.signals[s].name = b.signals[s].name

\* A line gives a message its comment.
Gives(line, m) ==
    /\ line.keyword = "CM_" /\ line.good /\ Database!Quoted(line) /\ line.target = "BO_"
    /\ m = Database!MessageOf(line.raw)

\* Only a line of comment gives any.
LEMMA NoComment ==
    ASSUME NEW line, line.keyword # "CM_"
    PROVE  \A m : ~Gives(line, m)
BY DEF Gives

\* A remark on a message, and one on a signal of it.
LEMMA MessageRemark ==
    ASSUME NEW a \in Message, NEW c \in Remarks, NEW b, b = [a EXCEPT !.comment = c]
    PROVE  b \in Message /\ SameShape(b, a) /\ b.comment = c
BY DEF Message, SameShape

LEMMA SignalRemark ==
    ASSUME NEW a \in Message, NEW s, NEW t, NEW b,
           t \in [DOMAIN a.signals -> Signal],
           \A i \in DOMAIN a.signals : t[i].name = a.signals[i].name,
           b = [a EXCEPT !.signals = t]
    PROVE  b \in Message /\ SameShape(b, a) /\ b.comment = a.comment
<1>1. a.signals \in Seq(Signal) /\ Len(a.signals) \in Nat /\ DOMAIN a.signals = 1 .. Len(a.signals)
  BY DEF Message
<1>2. t \in Seq(Signal) /\ Len(t) = Len(a.signals)
  BY <1>1
<1>3. b.signals = t /\ b.comment = a.comment /\ b.id = a.id /\ b.extended = a.extended
  BY DEF Message
<1>4. b \in Message
  BY <1>2 DEF Message
<1> QED
  BY <1>1, <1>2, <1>3, <1>4 DEF SameShape

\* A message for another in its place.
LEMMA Exchanged ==
    ASSUME NEW ms \in Seq(Message), NEW f \in DOMAIN ms, NEW b \in Message, SameShape(b, ms[f]),
           NEW ns, ns = [ms EXCEPT ![f] = b]
    PROVE  /\ ns \in Seq(Message) /\ Len(ns) = Len(ms) /\ DOMAIN ns = DOMAIN ms
           /\ \A m \in DOMAIN ms : SameShape(ns[m], ms[m])
           /\ \A m \in DOMAIN ms : ns[m].comment = IF m = f THEN b.comment ELSE ms[m].comment
<1>1. ns \in Seq(Message) /\ Len(ns) = Len(ms) /\ DOMAIN ns = DOMAIN ms
  OBVIOUS
<1>2. ns[f] = b /\ \A m \in DOMAIN ms : m # f => ns[m] = ms[m]
  OBVIOUS
<1>3. \A m \in DOMAIN ms : SameShape(ms[m], ms[m])
  BY DEF SameShape
<1> QED
  BY <1>1, <1>2, <1>3

LEMMA RemarkStep ==
    ASSUME Database!DbcAssumption, messages \in Seq(Message), NEW line \in Lines,
           Database!ReadComment(line) \/ Database!ReadValues(line)
    PROVE  /\ messages' \in Seq(Message) /\ Len(messages') = Len(messages)
           /\ parsing' = parsing
           /\ \A m \in DOMAIN messages :
                 /\ SameShape(messages'[m], messages[m])
                 /\ messages'[m].comment =
                       IF Gives(line, m) THEN Database!Text(line) ELSE messages[m].comment
<1> DEFINE f == Database!MessageOf(line.raw)
           s == Database!SignalOf(line.raw, line.name)
<1>1. f \in 0 .. Len(messages) /\ DOMAIN messages = 1 .. Len(messages)
  <2>1. line.raw \in Nat
    BY DEF Database!DbcAssumption
  <2>2. Database!MessageOf(line.raw) \in 0 .. Len(messages)
    BY <2>1, MessageFound
  <2>3. DOMAIN messages = 1 .. Len(messages)
    OBVIOUS
  <2> QED
    BY <2>2, <2>3
<1>2. Database!Text(line) \in Remarks /\ Database!Table(line) \in {Database!Table(l) : l \in Lines}
  BY DEF Remarks
<1>3. s # 0 => f # 0
  BY DEF Database!SignalOf
<1>4. parsing' = parsing
  BY DEF Database!ReadComment, Database!ReadValues
<1> HIDE DEF s
<1>5. CASE messages' = messages /\ \A m \in DOMAIN messages : ~Gives(line, m)
  BY <1>4, <1>5 DEF SameShape
<1>6. CASE /\ f \in DOMAIN messages /\ \A m \in DOMAIN messages : Gives(line, m) <=> m = f
           /\ messages' = [messages EXCEPT ![f].comment = Database!Text(line)]
  <2> DEFINE b == [messages[f] EXCEPT !.comment = Database!Text(line)]
  <2>1. messages[f] \in Message
    BY <1>6
  <2>2. b \in Message /\ SameShape(b, messages[f]) /\ b.comment = Database!Text(line)
    BY <1>2, <2>1, MessageRemark
  <2>3. messages' = [messages EXCEPT ![f] = b]
    BY <1>6
  <2> HIDE DEF b, f
  <2>4. f \in DOMAIN messages
    BY <1>6
  <2>5. /\ messages' \in Seq(Message) /\ Len(messages') = Len(messages)
        /\ \A m \in DOMAIN messages : SameShape(messages'[m], messages[m])
        /\ \A m \in DOMAIN messages :
              messages'[m].comment = IF m = f THEN b.comment ELSE messages[m].comment
    BY <2>2, <2>3, <2>4, Exchanged
  <2> QED
    BY <1>4, <1>6, <2>2, <2>5
<1>7. ASSUME NEW t, f \in DOMAIN messages, \A m \in DOMAIN messages : ~Gives(line, m),
             t \in [DOMAIN messages[f].signals -> Signal],
             \A i \in DOMAIN messages[f].signals : t[i].name = messages[f].signals[i].name,
             messages' = [messages EXCEPT ![f].signals = t]
      PROVE  /\ messages' \in Seq(Message) /\ Len(messages') = Len(messages)
             /\ \A m \in DOMAIN messages :
                   /\ SameShape(messages'[m], messages[m])
                   /\ messages'[m].comment = messages[m].comment
  <2> DEFINE b == [messages[f] EXCEPT !.signals = t]
  <2>1. messages[f] \in Message
    BY <1>7
  <2>2. b \in Message /\ SameShape(b, messages[f]) /\ b.comment = messages[f].comment
    BY <1>7, <2>1, SignalRemark
  <2>3. messages' = [messages EXCEPT ![f] = b]
    BY <1>7
  <2> HIDE DEF b, f
  <2>4. /\ messages' \in Seq(Message) /\ Len(messages') = Len(messages)
        /\ \A m \in DOMAIN messages : SameShape(messages'[m], messages[m])
        /\ \A m \in DOMAIN messages :
              messages'[m].comment = IF m = f THEN b.comment ELSE messages[m].comment
    <3>1. f \in DOMAIN messages
      BY <1>7
    <3> QED
      BY <2>2, <2>3, <3>1, Exchanged
  <2>5. \A m \in DOMAIN messages : messages'[m].comment = messages[m].comment
    BY <2>2, <2>4
  <2> QED
    BY <2>4, <2>5
<1>8. CASE Database!ReadComment(line)
  <2>1. CASE ~line.good \/ ~Database!Quoted(line) \/ f = 0
    BY <1>1, <1>5, <1>8, <2>1 DEF Database!ReadComment, Gives
  <2>2. CASE line.good /\ Database!Quoted(line) /\ f # 0 /\ line.target = "BO_"
    <3>1. f \in DOMAIN messages
      BY <1>1, <2>2
    <3>2. line.keyword = "CM_"
      BY <1>8 DEF Database!ReadComment
    <3>3. \A m \in DOMAIN messages : Gives(line, m) <=> m = f
      BY <2>2, <3>2 DEF Gives
    <3>4. messages' = [messages EXCEPT ![f].comment = Database!Text(line)]
      BY <1>8, <2>2 DEF Database!ReadComment
    <3> QED
      BY SMTT(60), <1>6, <3>1, <3>3, <3>4
  <2>3. CASE line.good /\ Database!Quoted(line) /\ f # 0 /\ line.target = "SG_" /\ s # 0
    <3> DEFINE t == [messages[f].signals EXCEPT ![s].comment = Database!Text(line)]
    <3>1. f \in DOMAIN messages /\ messages[f] \in Message
      BY <1>1, <2>3
    <3>2. messages[f].signals \in [DOMAIN messages[f].signals -> Signal]
      BY <3>1 DEF Message
    <3>3. /\ t \in [DOMAIN messages[f].signals -> Signal]
          /\ \A i \in DOMAIN messages[f].signals : t[i].name = messages[f].signals[i].name
      BY ZenonT(60), <1>2, <3>2 DEF Signal
    <3>4. messages' = [messages EXCEPT ![f].signals[s].comment = Database!Text(line)]
      BY <1>8, <2>3 DEF Database!ReadComment, s
    <3>5. messages' = [messages EXCEPT ![f].signals = t]
      BY <3>4
    <3>6. \A m \in DOMAIN messages : ~Gives(line, m)
      BY SMTT(60), <2>3 DEF Gives
    <3> HIDE DEF t
    <3> QED
      BY <1>4, <1>7, <3>1, <3>3, <3>5, <3>6
  <2>4. CASE line.target \notin {"BO_", "SG_"} \/ (line.target = "SG_" /\ s = 0)
    BY <1>1, <1>5, <1>8, <2>4 DEF Database!ReadComment, Gives, s
  <2> QED
    BY SMTT(60), <2>1, <2>2, <2>3, <2>4
<1>9. CASE Database!ReadValues(line)
  <2>1. \A m : ~Gives(line, m)
    <3>1. line.keyword # "CM_"
      BY <1>9 DEF Database!ReadValues
    <3> QED
      BY <3>1, NoComment
  <2>2. CASE line.good /\ line.labels # <<>> /\ s # 0
    <3> DEFINE t == [messages[f].signals EXCEPT ![s].values = Database!Table(line)]
    <3>1. f \in DOMAIN messages /\ messages[f] \in Message
      BY <1>1, <1>3, <2>2
    <3>2. messages[f].signals \in [DOMAIN messages[f].signals -> Signal]
      BY <3>1 DEF Message
    <3>3. /\ t \in [DOMAIN messages[f].signals -> Signal]
          /\ \A i \in DOMAIN messages[f].signals : t[i].name = messages[f].signals[i].name
      BY ZenonT(60), <1>2, <3>2 DEF Signal
    <3>4. messages' = [messages EXCEPT ![f].signals[s].values = Database!Table(line)]
      BY <1>9, <2>2 DEF Database!ReadValues, s
    <3>5. messages' = [messages EXCEPT ![f].signals = t]
      BY SMTT(60), <3>4
    <3> HIDE DEF t
    <3> QED
      BY <1>4, <1>7, <2>1, <3>1, <3>3, <3>5
  <2>3. CASE ~(line.good /\ line.labels # <<>> /\ s # 0)
    BY <1>5, <1>9, <2>1, <2>3 DEF Database!ReadValues, s
  <2> QED
    BY <2>2, <2>3
<1> QED
  BY <1>8, <1>9

\* One message more than a line ago, or none.
Longer(line) ==
    \/ Len(messages') = Len(messages)
    \/ /\ Len(messages') = Len(messages) + 1 /\ line.keyword = "BO_"
       /\ messages'[Len(messages) + 1].comment = Missing

\* What a line does to the comments.
Commented(line) ==
    /\ Longer(line)
    /\ \A m \in DOMAIN messages :
          /\ messages'[m].id = messages[m].id /\ messages'[m].extended = messages[m].extended
          /\ messages'[m].comment =
                IF Gives(line, m) THEN Database!Text(line) ELSE messages[m].comment

LEMMA NamesAlike ==
    ASSUME NEW a, NEW b, a.id = b.id, a.extended = b.extended, NEW raw
    PROVE  Database!Names(a, raw) <=> Database!Names(b, raw)
BY DEF Database!Names

\* The comment is the last one for the first message of its name.
LEMMA CommentsKept ==
    ASSUME Database!DbcAssumption, DatabaseInvariant, parsing = "reading",
           NEW line \in Lines, file' = Append(file, line),
           messages' \in Seq(Message), Commented(line)
    PROVE  FirstOnly' /\ EachLastGiven'
<1> DEFINE n == Len(file) + 1
           last == Len(messages)
           f == Database!MessageOf(line.raw)
           Means == /\ line.keyword = "CM_" /\ line.good /\ Database!Quoted(line)
                    /\ line.target = "BO_"
<1>1. /\ file \in Seq(Lines) /\ messages \in Seq(Message) /\ last \in Nat
      /\ DOMAIN messages = 1 .. last /\ DOMAIN messages' = 1 .. Len(messages')
      /\ line.raw \in Nat /\ Database!Text(line) # Missing
  BY DEF DatabaseInvariant, DatabaseTypes, Database!DbcAssumption
<1>2. /\ f \in 0 .. last
      /\ f = 0 => \A m \in 1 .. last : ~Database!Names(messages[m], line.raw)
      /\ f # 0 => /\ Database!Names(messages[f], line.raw)
                  /\ \A k \in 1 .. f - 1 : ~Database!Names(messages[k], line.raw)
  BY <1>1, MessageFound
<1>3. /\ n \in Nat /\ file'[n] = line /\ \A i \in 1 .. Len(file) : file'[i] = file[i]
      /\ OfKind("CM_")' = IF line.keyword = "CM_" THEN OfKind("CM_") \cup {n} ELSE OfKind("CM_")
      /\ Len(file) \in Nat
  BY <1>1, LineRead
<1>4. OfKind("CM_") \in SUBSET (1 .. Len(file))
  BY <1>1, Kinds
<1>5. \A m \in 1 .. last : Gives(line, m) <=> Means /\ m = f
  BY DEF Gives
<1>6. ASSUME NEW m \in 1 .. last
      PROVE  /\ messages'[m].id = messages[m].id /\ messages'[m].extended = messages[m].extended
             /\ messages'[m].comment =
                   IF Means /\ m = f THEN Database!Text(line) ELSE messages[m].comment
             /\ \A raw : Database!Names(messages'[m], raw) <=> Database!Names(messages[m], raw)
  BY <1>1, <1>5, NamesAlike DEF Commented
<1> HIDE DEF f
<1>7. ASSUME NEW m \in 1 .. last
      PROVE  Database!RemarkLines(m)' =
                IF Means /\ Database!Names(messages[m], line.raw)
                THEN Database!RemarkLines(m) \cup {n} ELSE Database!RemarkLines(m)
  <2>1. Database!Declared(m) \in 1 .. Len(file) /\ Database!Declared(m)' = Database!Declared(m)
    BY <1>1, Places
  <2>2. Database!Declared(m) < n
    BY <1>3, <2>1
  <2> DEFINE D == Database!Declared(m)
  <2>3. Database!RemarkLines(m) =
          {i \in OfKind("CM_") : /\ i > D /\ file[i].good /\ file[i].target = "BO_"
                                 /\ Database!Quoted(file[i])
                                 /\ Database!Names(messages[m], file[i].raw)}
    BY DEF Database!RemarkLines, Database!Quoted, OfKind
  <2>4. Database!RemarkLines(m)' =
          {i \in OfKind("CM_")' : /\ i > D /\ file'[i].good /\ file'[i].target = "BO_"
                                  /\ Database!Quoted(file'[i])
                                  /\ Database!Names(messages[m], file'[i].raw)}
    BY <1>6, <2>1 DEF Database!RemarkLines, Database!Quoted, OfKind
  <2>5. n \notin OfKind("CM_") /\ n > D
    BY <1>3, <1>4, <2>2
  <2> HIDE DEF n, D
  <2>6. \A i \in OfKind("CM_") : file'[i] = file[i]
    BY <1>3, <1>4
  <2> DEFINE P(line_) == /\ line_.good /\ line_.target = "BO_" /\ Database!Quoted(line_)
                         /\ Database!Names(messages[m], line_.raw)
  <2>7. Database!RemarkLines(m) = {i \in OfKind("CM_") : i > D /\ P(file[i])}
    BY <2>3
  <2>8. Database!RemarkLines(m)' = {i \in OfKind("CM_")' : i > D /\ P(file'[i])}
    BY <2>4
  <2>9. Means /\ Database!Names(messages[m], line.raw) <=> line.keyword = "CM_" /\ P(file'[n])
    BY <1>3
  <2> HIDE DEF P, Means
  <2>10. CASE line.keyword = "CM_"
    <3>1. Database!RemarkLines(m)' = {i \in OfKind("CM_") \cup {n} : i > D /\ P(file'[i])}
      BY <1>3, <2>8, <2>10
    <3> QED
      BY <2>5, <2>6, <2>7, <2>9, <2>10, <3>1
  <2>11. CASE line.keyword # "CM_"
    BY <1>3, <2>6, <2>7, <2>8, <2>9, <2>11
  <2> QED
    BY <2>10, <2>11
<1>8. \A m \in 1 .. last : \A j \in Database!RemarkLines(m) : j \in Nat /\ j <= n
  BY <1>3, <1>4 DEF Database!RemarkLines, OfKind
<1>9. ASSUME NEW m \in 1 .. last
      PROVE  /\ messages[m].comment # Missing =>
                   \A k \in 1 .. m - 1 : ~(/\ messages[k].id = messages[m].id
                                           /\ messages[k].extended = messages[m].extended)
             /\ LastGiven(m)
  BY <1>1 DEF DatabaseInvariant, FirstOnly, EachLastGiven
<1>10. \A m \in 1 .. last : \A k \in 1 .. m - 1 : k \in 1 .. last
  BY <1>1
<1>11. ASSUME NEW m \in 1 .. last, messages'[m].comment # Missing, NEW k \in 1 .. m - 1,
              messages'[k].id = messages'[m].id, messages'[k].extended = messages'[m].extended
       PROVE  FALSE
  <2>1. k \in 1 .. last
    BY <1>10
  <2>2. messages[k].id = messages[m].id /\ messages[k].extended = messages[m].extended
    BY <1>6, <1>11, <2>1
  <2>3. CASE Means /\ m = f
    <3>1. Database!Names(messages[f], line.raw) /\ ~Database!Names(messages[k], line.raw)
      BY <1>2, <2>3
    <3> QED
      BY SMTT(60), <2>2, <2>3, <3>1, NamesAlike
  <2>4. CASE ~(Means /\ m = f)
    <3>1. messages[m].comment # Missing
      BY <1>6, <1>11, <2>4
    <3> QED
      BY <1>9, <2>2, <3>1
  <2> QED
    BY <2>3, <2>4
<1>12. ASSUME NEW m \in 1 .. last
       PROVE  LastGiven(m)'
  <2> DEFINE C == Database!RemarkLines(m)
             CC == Database!RemarkLines(m)'
  <2>1. /\ messages[m].comment # Missing =>
             \E i \in C : /\ Database!Text(file[i]) = messages[m].comment
                          /\ \A j \in C : j <= i
        /\ C # {} /\ messages[m].comment = Missing =>
             \E k \in 1 .. m - 1 : /\ messages[k].id = messages[m].id
                                   /\ messages[k].extended = messages[m].extended
    BY <1>9 DEF LastGiven
  <2>2. SUFFICES /\ messages'[m].comment # Missing =>
                      \E i \in CC : /\ Database!Text(file'[i]) = messages'[m].comment
                                    /\ \A j \in CC : j <= i
                 /\ CC # {} /\ messages'[m].comment = Missing =>
                      \E k \in 1 .. m - 1 : /\ messages'[k].id = messages'[m].id
                                            /\ messages'[k].extended = messages'[m].extended
    BY DEF LastGiven
  <2>3. \A i \in C : file'[i] = file[i]
    BY <1>3, <1>4 DEF Database!RemarkLines, OfKind
  <2>4. CC = IF Means /\ Database!Names(messages[m], line.raw) THEN C \cup {n} ELSE C
    BY <1>7
  <2>5. \A j \in C : j \in Nat /\ j <= n
    BY <1>8
  <2>6. \A k \in 1 .. m - 1 : messages'[k].id = messages[k].id
                              /\ messages'[k].extended = messages[k].extended
    BY <1>6, <1>10
  <2> HIDE DEF C, CC, n
  <2>7. CASE ~(Means /\ Database!Names(messages[m], line.raw))
    <3>1. messages'[m].comment = messages[m].comment
      BY <1>2, <1>6, <2>7
    <3> QED
      BY ZenonT(60), <1>6, <2>1, <2>3, <2>4, <2>6, <2>7, <3>1
  <2>8. CASE Means /\ m = f
    <3>1. Database!Names(messages[m], line.raw) /\ messages'[m].comment = Database!Text(line)
      BY <1>1, <1>2, <1>6, <2>8
    <3>2. n \in CC /\ \A j \in CC : j <= n
      BY <1>3, <2>4, <2>5, <2>8, <3>1
    <3> QED
      BY <1>1, <1>3, <3>1, <3>2
  <2>9. CASE Means /\ Database!Names(messages[m], line.raw) /\ m # f
    <3>1. f \in 1 .. m - 1 /\ Database!Names(messages[f], line.raw)
      BY <1>1, <1>2, <2>9
    <3>2. messages[f].id = messages[m].id /\ messages[f].extended = messages[m].extended
      BY <2>9, <3>1 DEF Database!Names
    <3>3. messages[m].comment = Missing
      BY <1>9, <3>1, <3>2
    <3>4. messages'[m].comment = Missing
      BY <1>6, <2>9, <3>3
    <3> QED
      BY <1>6, <2>6, <3>1, <3>2, <3>4
  <2> QED
    BY <2>7, <2>8, <2>9
<1>13. ASSUME NEW m \in DOMAIN messages', m \notin 1 .. last
       PROVE  messages'[m].comment = Missing /\ LastGiven(m)'
  <2>1. m = last + 1 /\ line.keyword = "BO_" /\ messages'[m].comment = Missing /\ m \in Nat
    <3>1. \/ Len(messages') = last
          \/ /\ Len(messages') = last + 1 /\ line.keyword = "BO_"
             /\ messages'[last + 1].comment = Missing
      BY DEF Commented, Longer
    <3> HIDE DEF last
    <3>2. m \in 1 .. Len(messages') /\ ~(m \in 1 .. last)
      BY <1>1, <1>13
    <3>3. Len(messages') = last + 1
      BY <3>1, <3>2
    <3>4. m = last + 1 /\ m \in Nat
      BY <1>1, <3>2, <3>3
    <3> QED
      BY <1>1, <3>1, <3>3, <3>4
  <2>2. Database!Declared(m)' = n
    BY <2>1, Places
  <2>3. \A i \in OfKind("CM_")' : ~(i > n)
    BY <1>3, <1>4, <2>1
  <2>4. Database!RemarkLines(m)' = {}
    BY <2>2, <2>3 DEF Database!RemarkLines, OfKind
  <2> QED
    BY <2>1, <2>4 DEF LastGiven
<1>14. FirstOnly'
  BY <1>11, <1>13 DEF FirstOnly
<1>15. EachLastGiven'
  BY <1>12, <1>13 DEF EachLastGiven
<1> QED
  BY <1>14, <1>15

LEMMA DatabaseStarts ==
    ASSUME Database!DbcInit
    PROVE  DatabaseInvariant
<1>1. file = <<>> /\ messages = <<>> /\ parsing = "reading" /\ DOMAIN messages = {}
  BY DEF Database!DbcInit
<1>2. OfKind("BO_") = {}
  BY <1>1 DEF OfKind, Database!KindOf
<1>3. Len(messages) = Cardinality(OfKind("BO_")) /\ Gapless(OfKind("BO_"))
  BY <1>1, <1>2, FS_EmptySet DEF Gapless
<1>4. DatabaseTypes
  BY <1>1 DEF DatabaseTypes
<1> QED
  BY <1>1, <1>3, <1>4 DEF DatabaseInvariant, FirstOnly, EachLastGiven

\* Signals that were whole before a line that is about something else.
LEMMA OthersKept ==
    ASSUME DatabaseInvariant, parsing = "reading",
           NEW line \in Lines, file' = Append(file, line),
           NEW CONSTANT m \in DOMAIN messages, SameShape(messages'[m], messages[m]),
           ~(line.keyword = "SG_" /\ m = Len(messages))
    PROVE  Database!IsWhole(m)'
<1>1. file \in Seq(Lines) /\ m \in Nat /\ Database!IsWhole(m)
  BY DEF DatabaseInvariant, DatabaseTypes
<1>2. \A i \in 1 .. Len(file) : file'[i] = file[i]
  BY <1>1, LineRead
<1>3. /\ Database!Declared(m) \in 1 .. Len(file)
      /\ Database!Declared(m)' = Database!Declared(m)
      /\ Database!SignalLines(m) \in SUBSET (1 .. Len(file))
      /\ Database!SignalLines(m)' = Database!SignalLines(m)
  BY Places
<1>4. /\ messages'[m].id = messages[m].id
      /\ messages'[m].extended = messages[m].extended
      /\ Len(messages'[m].signals) = Len(messages[m].signals)
      /\ \A s \in 1 .. Len(messages[m].signals) :
            messages'[m].signals[s].name = messages[m].signals[s].name
  BY DEF SameShape
<1> QED
  BY <1>1, <1>2, <1>3, <1>4, WholeKept

\* A line that changes the shape of no message.
LEMMA ShapesKept ==
    ASSUME Database!DbcAssumption, DatabaseInvariant, parsing = "reading",
           NEW line \in Lines, file' = Append(file, line),
           messages' \in Seq(Message), Len(messages') = Len(messages),
           \A m \in DOMAIN messages :
              /\ SameShape(messages'[m], messages[m])
              /\ messages'[m].comment =
                    IF Gives(line, m) THEN Database!Text(line) ELSE messages[m].comment,
           \/ parsing' = "refused"
           \/ parsing' = parsing /\ line.keyword \notin {"BO_", "SG_"}
    PROVE  DatabaseInvariant'
<1>1. /\ file \in Seq(Lines) /\ messages \in Seq(Message)
      /\ DOMAIN messages = 1 .. Len(messages) /\ DOMAIN messages' = 1 .. Len(messages)
  BY DEF DatabaseInvariant, DatabaseTypes
<1>2. DatabaseTypes'
  BY <1>1, LineRead DEF DatabaseInvariant, DatabaseTypes
<1>3. FirstOnly' /\ EachLastGiven'
  <2>1. Commented(line)
    BY DEF Commented, Longer, SameShape
  <2> QED
    BY <2>1, CommentsKept
<1>4. CASE parsing' = "refused"
  BY <1>2, <1>3, <1>4 DEF DatabaseInvariant
<1>5. CASE parsing' = parsing /\ line.keyword \notin {"BO_", "SG_"}
  <2>1. OfKind("BO_")' = OfKind("BO_")
    BY <1>1, <1>5, LineRead
  <2>2. Len(messages)' = Cardinality(OfKind("BO_")') /\ Gapless(OfKind("BO_")')
    BY <2>1 DEF DatabaseInvariant
  <2>3. \A m \in DOMAIN messages' : Database!IsWhole(m)'
    BY <1>1, <1>5, OthersKept
  <2> QED
    BY <1>2, <1>3, <1>5, <2>2, <2>3 DEF DatabaseInvariant, Gapless
<1> QED
  BY <1>4, <1>5

\* A message that is declared is the last one and has no signals yet.
LEMMA MessageRead ==
    ASSUME Database!DbcAssumption, DatabaseInvariant, parsing = "reading",
           NEW line \in Lines, file' = Append(file, line),
           Database!ReadMessage(line), Database!MessageParses(line)
    PROVE  DatabaseInvariant'
<1> DEFINE n == Len(file) + 1
           last == Len(messages)
           new == [id |-> Database!Identifier(line.raw),
                   extended |-> Database!IsExtended(line.raw),
                   length |-> line.length, comment |-> Missing, signals |-> <<>>]
<1>1. /\ file \in Seq(Lines) /\ messages \in Seq(Message) /\ last \in Nat
      /\ DOMAIN messages = 1 .. last
  BY DEF DatabaseInvariant, DatabaseTypes
<1>0. /\ line.keyword = "BO_" /\ line.keyword # "CM_" /\ line.keyword # "SG_"
      /\ last = Len(messages)
  BY DEF Database!ReadMessage
<1>2. messages' = Append(messages, new) /\ parsing' = parsing
  BY DEF Database!ReadMessage
<1>3. /\ new.id \in Nat /\ new.extended \in BOOLEAN
      /\ new.extended => new.id <= ExtendedMask
      /\ ~new.extended => new.id <= StandardMask
  <2>1. StandardMask \in Nat /\ ExtendedMask \in Nat /\ ExtendedFlag \in Nat /\ line.raw \in Nat
    BY DEF Database!DbcAssumption
  <2>2. line.raw % (ExtendedMask + 1) \in 0 .. ExtendedMask
    <3>1. \A x \in Nat, k \in Nat \ {0} : x % k \in 0 .. k - 1
      OBVIOUS
    <3> DEFINE k == ExtendedMask + 1
    <3>2. k \in Nat \ {0} /\ k - 1 = ExtendedMask
      BY <2>1
    <3> HIDE DEF k
    <3>3. line.raw % k \in 0 .. k - 1
      BY <2>1, <3>1, <3>2
    <3> QED
      BY <3>2, <3>3 DEF k
  <2>3. new.extended = (line.raw >= ExtendedFlag)
    BY DEF Database!IsExtended
  <2>4. new.id = IF line.raw >= ExtendedFlag THEN line.raw % (ExtendedMask + 1) ELSE line.raw
    BY DEF Database!Identifier, Database!IsExtended
  <2>5. line.raw >= ExtendedFlag \/ line.raw <= StandardMask
    BY DEF Database!MessageParses, Database!IsExtended
  <2> DEFINE rest == line.raw % (ExtendedMask + 1)
             above == line.raw >= ExtendedFlag
             is == new.extended
             id == new.id
  <2>6. rest \in Nat /\ rest <= ExtendedMask
    BY <2>1, <2>2
  <2>7. above \in BOOLEAN
    OBVIOUS
  <2>8. is = above /\ id = IF above THEN rest ELSE line.raw
    BY <2>3, <2>4
  <2>9. ~above => line.raw <= StandardMask
    BY <2>5
  <2> HIDE DEF new, rest, above, is, id
  <2>10. is \in BOOLEAN /\ (is => id = rest) /\ (~is => id = line.raw /\ ~above)
    BY <2>7, <2>8, Zenon
  <2>11. (is => id \in Nat /\ id <= ExtendedMask) /\ (~is => id \in Nat /\ id <= StandardMask)
    BY <2>1, <2>6, <2>9, <2>10
  <2> QED
    BY <2>10, <2>11, Zenon DEF id, is
<1>4. new \in Message
  <2>1. Missing \in Remarks /\ <<>> \in Seq(Signal) /\ line.length \in {l.length : l \in Lines}
    BY DEF Remarks
  <2> QED
    BY <1>3, <2>1 DEF Message
<1>5. new.comment = Missing /\ new.signals = <<>>
  OBVIOUS
<1>6. new.id = Database!Identifier(line.raw)
  OBVIOUS
<1> HIDE DEF new, last
<1>7. /\ messages' \in Seq(Message) /\ Len(messages') = last + 1 /\ DOMAIN messages' = 1 .. last + 1
      /\ messages'[last + 1] = new /\ \A m \in 1 .. last : messages'[m] = messages[m]
  BY <1>0, <1>1, <1>2, <1>4
<1>8. DatabaseTypes'
  BY <1>1, <1>2, <1>7, LineRead DEF DatabaseInvariant, DatabaseTypes
<1>9. FirstOnly' /\ EachLastGiven'
  <2>1. \A m : ~Gives(line, m)
    BY <1>0, NoComment, Zenon
  <2>2. Commented(line)
    BY <1>0, <1>1, <1>5, <1>7, <2>1 DEF Commented, Longer
  <2> QED
    BY <1>7, <2>2, CommentsKept
<1>10. Len(messages') = Cardinality(OfKind("BO_")') /\ Gapless(OfKind("BO_")')
  BY <1>0, <1>7, Places
<1>11. ASSUME NEW m \in 1 .. last
       PROVE  Database!IsWhole(m)'
  <2>1. SameShape(messages'[m], messages[m])
    BY SMTT(60), <1>7 DEF SameShape
  <2> QED
    BY <1>0, <1>1, <2>1, OthersKept
<1>12. ASSUME NEW m \in Nat, m = last + 1
       PROVE  Database!IsWhole(m)'
  <2>1. Database!Declared(m)' = n /\ Database!SignalLines(m)' = {}
    BY <1>0, <1>12, Places
  <2>2. file'[n] = line
    BY <1>1, LineRead
  <2>3. messages'[m] = new
    BY <1>7, <1>12
  <2>4. Len(messages'[m].signals) = 0 /\ Cardinality({}) = 0
    BY <1>5, <2>3, FS_EmptySet
  <2> HIDE DEF n
  <2> QED
    BY <1>3, <1>6, <2>1, <2>2, <2>3, <2>4, OneCardinality DEF Database!IsWhole
<1>13. \A m \in DOMAIN messages' : Database!IsWhole(m)'
  <2>1. \A m \in DOMAIN messages' : m \in 1 .. last \/ (m \in Nat /\ m = last + 1)
    BY <1>1, <1>7
  <2> QED
    BY <1>11, <1>12, <2>1
<1> QED
  BY <1>2, <1>8, <1>9, <1>10, <1>13 DEF DatabaseInvariant, Gapless

\* A signal is the last one of the last message.
LEMMA SignalRead ==
    ASSUME Database!DbcAssumption, DatabaseInvariant, parsing = "reading",
           NEW line \in Lines, file' = Append(file, line),
           Database!ReadSignal(line), messages # <<>>, Database!SignalParses(line)
    PROVE  DatabaseInvariant'
<1> DEFINE n == Len(file) + 1
           last == Len(messages)
           new == [name |-> line.name, comment |-> Missing, values |-> <<>>]
           old == messages[last].signals
<1>1. /\ file \in Seq(Lines) /\ messages \in Seq(Message) /\ last \in Nat /\ last # 0
      /\ DOMAIN messages = 1 .. last
  <2>1. file \in Seq(Lines) /\ messages \in Seq(Message)
    BY DEF DatabaseInvariant, DatabaseTypes
  <2> QED
    BY <2>1, EmptySeq
<1>0. /\ line.keyword = "SG_" /\ line.keyword # "CM_" /\ line.keyword # "BO_"
      /\ parsing' = parsing /\ last = Len(messages)
  BY DEF Database!ReadSignal
<1>2. messages' = [messages EXCEPT ![last].signals = Append(@, new)]
  BY DEF Database!ReadSignal
<1> HIDE DEF last
<1>3. new \in Signal /\ new.name = line.name
  BY DEF Signal, Remarks
<1>4. last \in 1 .. last /\ messages[last] \in Message /\ old \in Seq(Signal)
  <2>1. last \in 1 .. last
    BY <1>1
  <2>2. messages[last] \in Message
    BY <1>1, <2>1
  <2>3. \A x \in Message : x.signals \in Seq(Signal)
    BY DEF Message
  <2> QED
    BY <2>1, <2>2, <2>3
<1> HIDE DEF new
<1>5. /\ Append(old, new) \in Seq(Signal) /\ Len(old) \in Nat
      /\ Len(Append(old, new)) = Len(old) + 1
      /\ Append(old, new)[Len(old) + 1] = new
      /\ \A s \in 1 .. Len(old) : Append(old, new)[s] = old[s]
  BY <1>3, <1>4
<1> DEFINE b == [messages[last] EXCEPT !.signals = Append(old, new)]
<1>6. /\ b \in Message /\ b.signals = Append(old, new)
      /\ b.id = messages[last].id /\ b.extended = messages[last].extended
      /\ b.comment = messages[last].comment
  <2> HIDE DEF old
  <2> QED
    BY <1>4, <1>5 DEF Message
<1>7. messages' = [messages EXCEPT ![last] = b]
  BY <1>2
<1> HIDE DEF b
<1>8. /\ messages' \in Seq(Message) /\ Len(messages') = last /\ DOMAIN messages' = 1 .. last
      /\ messages'[last] = b /\ \A m \in 1 .. last : m # last => messages'[m] = messages[m]
  <2> HIDE DEF old
  <2> QED
    BY <1>0, <1>1, <1>4, <1>6, <1>7
<1>9. DatabaseTypes'
  BY <1>0, <1>1, <1>8, LineRead DEF DatabaseInvariant, DatabaseTypes
<1>10. FirstOnly' /\ EachLastGiven'
  <2>1. \A m : ~Gives(line, m)
    BY <1>0, NoComment, Zenon
  <2>2. Commented(line)
    BY <1>0, <1>1, <1>6, <1>8, <2>1 DEF Commented, Longer
  <2> QED
    BY <1>8, <2>2, CommentsKept
<1>11. Len(messages') = Cardinality(OfKind("BO_")') /\ Gapless(OfKind("BO_")')
  <2>1. OfKind("BO_")' = OfKind("BO_")
    BY <1>0, Places
  <2>2. Len(messages') = Len(messages)
    BY <1>0, <1>8
  <2> QED
    BY <2>1, <2>2 DEF DatabaseInvariant, Gapless
<1>12. ASSUME NEW m \in 1 .. last, m # last
       PROVE  Database!IsWhole(m)'
  <2>1. SameShape(messages'[m], messages[m])
    BY <1>8, <1>12 DEF SameShape
  <2> QED
    BY <1>0, <1>1, <1>12, <2>1, OthersKept
<1>13. ASSUME NEW m \in 1 .. last, m = last
       PROVE  Database!IsWhole(m)'
  <2> DEFINE L == Database!SignalLines(m)
             D == Database!Declared(m)
  <2>1. D \in 1 .. Len(file) /\ Database!Declared(m)' = D /\ L \in SUBSET (1 .. Len(file))
    BY <1>1, Places
  <2>2. Database!SignalLines(m)' = L \cup {n}
    BY SMTT(60), <1>0, <1>1, <1>13, Places
  <2>3. /\ file'[n] = line /\ \A i \in 1 .. Len(file) : file'[i] = file[i]
        /\ n \in Nat /\ Len(file) \in Nat
    BY <1>1, LineRead
  <2>4. /\ Database!Identifier(file[D].raw) = messages[m].id
        /\ messages[m].extended => messages[m].id <= ExtendedMask
        /\ ~messages[m].extended => messages[m].id <= StandardMask
        /\ Len(messages[m].signals) = Cardinality(L)
        /\ \A i \in L : messages[m].signals[Cardinality(Upto(L, i))].name = file[i].name
    <3>1. Database!IsWhole(m)
      BY <1>1 DEF DatabaseInvariant
    <3> QED
      BY <3>1, OneCardinality DEF Database!IsWhole, Upto
  <2>5. L \in SUBSET Nat /\ IsFiniteSet(L) /\ \A i \in L : i < n
    <3>1. IsFiniteSet(1 .. Len(file))
      BY <2>3, Zenon, FirstNumbers
    <3> QED
      BY <2>1, <2>3, <3>1, FS_Subset
  <2> HIDE DEF L, n, D
  <2>6. /\ Cardinality(L \cup {n}) = Cardinality(L) + 1
        /\ \A i \in L : Upto(L \cup {n}, i) = Upto(L, i)
        /\ Upto(L \cup {n}, n) = L \cup {n}
    BY <2>3, <2>5, OneMore
  <2>7. \A i \in L : Cardinality(Upto(L, i)) \in 1 .. Cardinality(L)
    BY <2>5, Counts
  <2>8. messages'[m] = b /\ old = messages[m].signals
    BY <1>8, <1>13
  <2>9. \A i \in L \cup {n} : b.signals[Cardinality(Upto(L \cup {n}, i))].name = file'[i].name
    <3>1. \A i \in L : b.signals[Cardinality(Upto(L, i))].name = file[i].name
      BY <1>5, <1>6, <2>4, <2>7, <2>8
    <3>2. \A i \in L : file'[i] = file[i]
      BY <2>1, <2>3
    <3>3. b.signals[Cardinality(L) + 1].name = line.name
      BY SMTT(60), <1>3, <1>5, <1>6, <2>4, <2>8
    <3> QED
      BY <2>3, <2>6, <3>1, <3>2, <3>3
  <2>10. Len(b.signals) = Cardinality(L \cup {n})
    BY <1>5, <1>6, <2>4, <2>6, <2>8
  <2>11. /\ Database!Identifier(file'[D].raw) = b.id
         /\ b.extended => b.id <= ExtendedMask
         /\ ~b.extended => b.id <= StandardMask
    BY <1>6, <1>13, <2>1, <2>3, <2>4
  <2> HIDE DEF old
  <2> QED
    BY <2>1, <2>2, <2>8, <2>9, <2>10, <2>11, OneCardinality DEF Database!IsWhole, Upto, D
<1>14. \A m \in DOMAIN messages' : Database!IsWhole(m)'
  BY <1>8, <1>12, <1>13
<1> QED
  BY <1>0, <1>9, <1>10, <1>11, <1>14 DEF DatabaseInvariant, Gapless

LEMMA DatabaseHolds ==
    ASSUME Database!DbcAssumption
    PROVE  /\ Database!DbcInit => DatabaseInvariant
           /\ DatabaseInvariant /\ [Database!DbcNext]_Database!dbc => DatabaseInvariant'
<1>1. Database!DbcInit => DatabaseInvariant
  BY DatabaseStarts
<1>2. DatabaseInvariant /\ [Database!DbcNext]_Database!dbc => DatabaseInvariant'
  <2> SUFFICES ASSUME DatabaseInvariant, [Database!DbcNext]_Database!dbc
               PROVE  DatabaseInvariant'
    OBVIOUS
  <2>1. ASSUME NEW line \in Lines, Database!ReadLine(line)
        PROVE  DatabaseInvariant'
    <3>1. parsing = "reading" /\ file' = Append(file, line)
      BY <2>1 DEF Database!ReadLine
    <3>2. messages \in Seq(Message)
      BY DEF DatabaseInvariant, DatabaseTypes
    <3>3. ASSUME messages' = messages, line.keyword # "CM_",
                 \/ parsing' = "refused"
                 \/ parsing' = parsing /\ line.keyword \notin {"BO_", "SG_"}
          PROVE  DatabaseInvariant'
      <4>1. \A m \in DOMAIN messages : SameShape(messages'[m], messages[m]) /\ ~Gives(line, m)
        BY <3>3 DEF SameShape, Gives
      <4> QED
        BY <3>1, <3>2, <3>3, <4>1, ShapesKept
    <3>4. CASE Database!ReadMessage(line)
      BY <3>1, <3>3, <3>4, MessageRead DEF Database!ReadMessage
    <3>5. CASE Database!ReadSignal(line)
      BY SMTT(60), <3>1, <3>3, <3>5, SignalRead DEF Database!ReadSignal
    <3>6. CASE Database!ReadComment(line) \/ Database!ReadValues(line)
      <4>1. line.keyword \notin {"BO_", "SG_"}
        BY <3>6 DEF Database!ReadComment, Database!ReadValues
      <4> QED
        BY <3>1, <3>2, <3>6, <4>1, RemarkStep, ShapesKept
    <3>7. CASE Database!SkipLine(line)
      BY <3>3, <3>7 DEF Database!SkipLine
    <3> QED
      BY <2>1, <3>4, <3>5, <3>6, <3>7 DEF Database!ReadLine
  <2>2. ASSUME file' = file, messages' = messages,
               \/ parsing' = parsing
               \/ parsing' = "refused"
               \/ parsing = "reading" /\ parsing' = "loaded" /\ messages # <<>>
        PROVE  DatabaseInvariant'
    <3>1. OfKind("BO_")' = OfKind("BO_")
      BY <2>2 DEF OfKind, Database!KindOf
    <3>2. ASSUME NEW m
          PROVE  /\ Database!IsWhole(m)' <=> Database!IsWhole(m)
                 /\ LastGiven(m)' <=> LastGiven(m)
      BY <2>2 DEF Database!IsWhole, LastGiven, Database!RemarkLines,
                  Database!SignalLines, Database!Declared, Database!NthLine,
                  Database!LastBefore, Database!KindOf
    <3> QED
      BY <2>2, <3>1, <3>2 DEF DatabaseInvariant, DatabaseTypes, FirstOnly,
                              EachLastGiven, Gapless
  <2>3. CASE Database!EndOfFile
    BY <2>2, <2>3 DEF Database!EndOfFile
  <2>4. CASE UNCHANGED Database!dbc
    BY SMTT(60), <2>2, <2>4 DEF Database!dbc
  <2> QED
    BY <2>1, <2>3, <2>4 DEF Database!DbcNext
<1> QED
  BY <1>1, <1>2

LEMMA DatabaseIsWhole ==
    ASSUME DatabaseInvariant
    PROVE  Database!AllOrNothing /\ Database!RemarksAttach
<1>1. Len(messages) = Cardinality(OfKind("BO_")) <=>
         Len(messages) = Database!Cardinality(Database!KindOf({"BO_"}))
  BY OneCardinality DEF OfKind
<1>2. ASSUME NEW m \in DOMAIN messages PROVE Database!IsAttached(m)
  <2>1. LastGiven(m) /\ Database!CommentLines(m) \subseteq Database!RemarkLines(m)
    BY DEF DatabaseInvariant, EachLastGiven, Database!CommentLines
  <2> QED
    BY <2>1 DEF LastGiven, Database!IsAttached
<1> QED
  BY <1>1, <1>2 DEF DatabaseInvariant, Database!AllOrNothing, Database!RemarksAttach

(***************************************************************************)
(* Signals, in the slots. First, loops: what they compute is a recursive   *)
(* function, and induction over the counter is a well-founded minimum.     *)
(***************************************************************************)
payload == s1
call == s2
USE DEF payload, call

\* What holds at zero and one further holds for all: induction, over a set.
LEMMA AllNumbers ==
    ASSUME NEW S \in SUBSET Nat, 0 \in S, \A n \in S : n + 1 \in S
    PROVE  \A n \in Nat : n \in S
<1> DEFINE R == OpToRel(<, Nat)
           T == Nat \ S
<1>1. SUFFICES ASSUME T # {} PROVE FALSE
  OBVIOUS
<1>2. IsWellFoundedOn(R, Nat)
  BY ZenonT(60), NatLessThanWellFounded
<1>3. PICK x \in T : \A y \in T : ~(<<y, x>> \in R)
  <2> HIDE DEF R
  <2>1. T \subseteq Nat
    OBVIOUS
  <2> HIDE DEF T
  <2> QED
    BY <1>1, <1>2, <2>1, WFMin
<1>4. x \in Nat /\ x # 0 /\ x - 1 \in Nat /\ x - 1 < x
  OBVIOUS
<1>5. <<x - 1, x>> \in R
  BY <1>4 DEF OpToRel
<1>6. x - 1 \in S
  BY ZenonT(60), <1>3, <1>4, <1>5
<1>7. (x - 1) + 1 \in S
  BY <1>6
<1> QED
  BY <1>4, <1>7

\* A loop over a counter, and that it computes something.
IsLoop(f, V, base, h, n) ==
    f \in [0 .. n -> V] /\ f[0] = base /\ \A i \in 1 .. n : f[i] = h[<<i - 1, f[i - 1]>>]

LEMMA Loops ==
    ASSUME NEW V, NEW base \in V, NEW h \in [Nat \X V -> V], NEW n \in Nat
    PROVE  \E f : IsLoop(f, V, base, h, n)
<1> DEFINE Is0(f, k) == f[0] = base /\ \A i \in 1 .. k : f[i] = h[<<i - 1, f[i - 1]>>]
           S == {k \in Nat : \E f \in [0 .. k -> V] : Is0(f, k)}
<1>1. 0 \in S
  <2> DEFINE f == [i \in 0 .. 0 |-> base]
  <2>1. f \in [0 .. 0 -> V] /\ Is0(f, 0)
    OBVIOUS
  <2> QED
    BY <2>1
<1>2. ASSUME NEW k \in S
      PROVE  k + 1 \in S
  <2>1. k \in Nat /\ k + 1 \in Nat
    OBVIOUS
  <2>2. PICK f \in [0 .. k -> V] : Is0(f, k)
    OBVIOUS
  <2> DEFINE g == [i \in 0 .. k + 1 |-> IF i = k + 1 THEN h[<<k, f[k]>>] ELSE f[i]]
  <2>3. k \in 0 .. k /\ f[k] \in V /\ h[<<k, f[k]>>] \in V
    BY <2>1
  <2>4. g \in [0 .. k + 1 -> V]
    BY <2>1, <2>3
  <2>5. /\ \A i \in 0 .. k : g[i] = f[i]
        /\ g[k + 1] = h[<<k, f[k]>>]
    BY <2>1
  <2> HIDE DEF g
  <2>6. ASSUME NEW i \in 1 .. k + 1
        PROVE  g[i] = h[<<i - 1, g[i - 1]>>]
    <3>1. CASE i = k + 1
      <4>1. i - 1 = k /\ k \in 0 .. k
        BY <2>1, <3>1
      <4> QED
        BY <2>5, <3>1, <4>1
    <3>2. CASE i \in 1 .. k
      <4>1. i \in 0 .. k /\ i - 1 \in 0 .. k
        BY <2>1, <3>2
      <4> QED
        BY <2>2, <2>5, <3>2, <4>1
    <3> QED
      BY <2>1, <3>1, <3>2
  <2>7. g[0] = base
    BY <2>1, <2>2, <2>5
  <2> QED
    BY <2>1, <2>4, <2>6, <2>7
<1>3. n \in S
  <2> HIDE DEF S
  <2>1. S \in SUBSET Nat
    BY DEF S
  <2> QED
    BY <1>1, <1>2, <2>1, AllNumbers
<1> QED
  BY <1>3 DEF IsLoop

(***************************************************************************)
(* The walk of a signal                                                    *)
(***************************************************************************)
\* Where a bit comes in the order of the walk: as numbered, or from the top of
\* each byte down.
Key(bit, order) ==
    IF order = "Intel" THEN bit
    ELSE 2 * (ByteBits * (bit \div ByteBits)) + (ByteBits - 1) - bit

\* There is one quotient.
LEMMA OneQuotient ==
    ASSUME NEW m \in Nat \ {0}, NEW q \in Nat, NEW r \in 0 .. m - 1
    PROVE  (m * q + r) \div m = q /\ (m * q + r) % m = r
<1> DEFINE x == m * q + r
           a == x \div m
           b == x % m
<1>1. m * q \in Nat /\ x \in Nat
  OBVIOUS
<1>2. a \in Int /\ b \in 0 .. m - 1 /\ x = m * a + b
  BY <1>1
<1> HIDE DEF a, b
<1>3. m * (a - q) = r - b
  BY <1>2
<1>4. a - q \in Int /\ r - b < m /\ -m < r - b
  BY <1>2
<1>5. a - q = 0
  <2> DEFINE d == a - q
  <2>1. d >= 1 => m * d >= m
    BY <1>4
  <2>2. d <= -1 => m * d <= -m
    BY <1>4
  <2> HIDE DEF d
  <2>3. d \in Int /\ m * d < m /\ -m < m * d
    BY <1>3, <1>4 DEF d
  <2>4. d = 0
    BY <2>1, <2>2, <2>3
  <2> QED
    BY <2>4 DEF d
<1>6. a = q /\ b = r
  BY <1>2, <1>3, <1>5
<1> QED
  BY <1>6 DEF a, b

LEMMA KeyStep ==
    ASSUME Layout!SignalsAssumption, NEW bit \in Nat, NEW order
    PROVE  /\ Layout!NextBit(bit, order) \in Nat
           /\ Key(bit, order) \in Int
           /\ Key(Layout!NextBit(bit, order), order) = Key(bit, order) + 1
<1> DEFINE B == ByteBits
           q == bit \div B
           r == bit % B
<1>1. B \in Nat \ {0}
  BY DEF Layout!SignalsAssumption
<1>2. q \in Nat /\ r \in 0 .. B - 1 /\ bit = B * q + r /\ B * q \in Nat
  BY SMTT(60), <1>1, Quotients
<1> HIDE DEF q, r
<1>3. CASE order = "Intel"
  BY <1>3 DEF Key, Layout!NextBit
<1>4. CASE order # "Intel" /\ r = 0
  <2> DEFINE next == B * (q + 1) + (B - 1)
  <2>1. Layout!NextBit(bit, order) = bit + 2 * B - 1
    BY <1>4 DEF Layout!NextBit, r
  <2>2. bit + 2 * B - 1 = next /\ next \in Nat
    BY <1>1, <1>2, <1>4
  <2>3. next \div B = q + 1
    BY <1>1, <1>2, OneQuotient
  <2> HIDE DEF next
  <2>4. B * (q + 1) = B * q + B
    BY <1>1, <1>2
  <2>5. Key(bit, order) = 2 * (B * q) + (B - 1) - bit
    BY <1>4 DEF Key, q
  <2>6. Key(next, order) = 2 * (B * (q + 1)) + (B - 1) - next
    BY <1>4, <2>3 DEF Key
  <2> HIDE DEF B
  <2> QED
    BY <1>1, <1>2, <1>4, <2>1, <2>2, <2>4, <2>5, <2>6
<1>5. CASE order # "Intel" /\ r # 0
  <2> DEFINE next == B * q + (r - 1)
  <2>1. Layout!NextBit(bit, order) = bit - 1
    BY <1>5 DEF Layout!NextBit, r
  <2>2. bit - 1 = next /\ next \in Nat
    BY <1>1, <1>2, <1>5
  <2>3. next \div B = q
    BY <1>1, <1>2, <1>5, OneQuotient
  <2> HIDE DEF next
  <2>4. Key(bit, order) = 2 * (B * q) + (B - 1) - bit
    BY <1>5 DEF Key, q
  <2>5. Key(next, order) = 2 * (B * q) + (B - 1) - next
    BY <1>5, <2>3 DEF Key
  <2> HIDE DEF B
  <2> QED
    BY <1>1, <1>2, <1>5, <2>1, <2>2, <2>4, <2>5
<1> QED
  BY <1>3, <1>4, <1>5

\* What the recursion says, and that there is such a walk.
LEMMA WalkGoes ==
    ASSUME Layout!SignalsAssumption, NEW spec \in Layout!SignalSpec, spec.length # 0
    PROVE  LET w == Layout!Walk(spec) IN
           w = [i \in 0 .. spec.length - 1 |->
                  IF i = 0 THEN spec.start ELSE Layout!NextBit(w[i - 1], spec.order)]
<1> DEFINE n == spec.length - 1
           h == [p \in Nat \X Nat |-> Layout!NextBit(p[2], spec.order)]
           Solves(w) == w = [i \in 0 .. n |->
                           IF i = 0 THEN spec.start ELSE Layout!NextBit(w[i - 1], spec.order)]
<1>1. n \in Nat /\ spec.start \in Nat
  BY DEF Layout!SignalSpec
<1>2. h \in [Nat \X Nat -> Nat]
  BY KeyStep
<1>3. PICK f \in [0 .. n -> Nat] :
         f[0] = spec.start /\ \A i \in 1 .. n : f[i] = h[<<i - 1, f[i - 1]>>]
  <2> HIDE DEF n, h
  <2>1. PICK f : IsLoop(f, Nat, spec.start, h, n)
    BY <1>1, <1>2, Loops
  <2> QED
    BY <2>1 DEF IsLoop
<1>4. ASSUME NEW i \in 0 .. n
      PROVE  f[i] = IF i = 0 THEN spec.start ELSE Layout!NextBit(f[i - 1], spec.order)
  <2>1. CASE i = 0
    BY <1>3, <2>1
  <2>2. CASE i # 0
    <3>1. i \in 1 .. n /\ i - 1 \in 0 .. n /\ i - 1 \in Nat
      BY <1>1, <2>2
    <3>2. f[i - 1] \in Nat
      BY <3>1
    <3>3. h[<<i - 1, f[i - 1]>>] = Layout!NextBit(f[i - 1], spec.order)
      BY <3>1, <3>2
    <3> HIDE DEF h, n
    <3> QED
      BY <1>3, <2>2, <3>1, <3>3
  <2> QED
    BY <2>1, <2>2
<1>5. Solves(f)
  <2> HIDE DEF n, h
  <2> QED
    BY <1>4
<1>6. Layout!Walk(spec) = CHOOSE w : Solves(w)
  BY DEF Layout!Walk
<1>7. Solves(Layout!Walk(spec))
  <2> HIDE DEF Solves
  <2> QED
    BY <1>5, <1>6
<1> QED
  BY <1>7

LEMMA WalkSteps ==
    ASSUME Layout!SignalsAssumption, NEW spec \in Layout!SignalSpec, spec.length # 0
    PROVE  LET w == Layout!Walk(spec) IN
           /\ w \in [0 .. spec.length - 1 -> Nat]
           /\ \A i \in 0 .. spec.length - 1 :
                 Key(w[i], spec.order) = Key(spec.start, spec.order) + i
           /\ \A i, j \in 0 .. spec.length - 1 : w[i] = w[j] => i = j
<1> DEFINE n == spec.length - 1
           w == Layout!Walk(spec)
           start == Key(spec.start, spec.order)
           S == {k \in Nat : k <= n => w[k] \in Nat /\ Key(w[k], spec.order) = start + k}
<1>1. n \in Nat /\ spec.start \in Nat /\ start \in Int
  BY KeyStep DEF Layout!SignalSpec
<1>2. w = [i \in 0 .. n |-> IF i = 0 THEN spec.start ELSE Layout!NextBit(w[i - 1], spec.order)]
  BY WalkGoes
<1> HIDE DEF w, n, start
<1>3. DOMAIN w = 0 .. n
  BY <1>2
<1>4. 0 \in S
  <2>1. w[0] = spec.start
    BY <1>1, <1>2
  <2> QED
    BY <1>1, <2>1 DEF start
<1>5. ASSUME NEW k \in S
      PROVE  k + 1 \in S
  <2>1. SUFFICES ASSUME k + 1 <= n
                 PROVE  w[k + 1] \in Nat /\ Key(w[k + 1], spec.order) = start + (k + 1)
    OBVIOUS
  <2>2. w[k] \in Nat /\ Key(w[k], spec.order) = start + k /\ k \in Nat
    BY <1>1, <2>1
  <2>3. w[k + 1] = Layout!NextBit(w[k], spec.order)
    <3>1. k + 1 \in 0 .. n /\ k + 1 # 0 /\ (k + 1) - 1 = k
      BY <1>1, <2>1, <2>2
    <3> QED
      BY <1>2, <3>1
  <2> QED
    BY <1>1, <2>2, <2>3, KeyStep
<1>6. \A k \in Nat : k \in S
  <2> HIDE DEF S
  <2>1. S \in SUBSET Nat
    BY DEF S
  <2> QED
    BY <1>4, <1>5, <2>1, AllNumbers
<1>7. \A i \in 0 .. n : w[i] \in Nat /\ Key(w[i], spec.order) = start + i
  BY <1>1, <1>6
<1>8. \A i, j \in 0 .. n : w[i] = w[j] => i = j
  <2> SUFFICES ASSUME NEW i \in 0 .. n, NEW j \in 0 .. n, w[i] = w[j]
               PROVE  i = j
    OBVIOUS
  <2>1. start + i = start + j
    BY <1>7
  <2> QED
    BY <1>1, <2>1
<1>9. w \in [0 .. n -> Nat]
  BY <1>2, <1>3, <1>7
<1> QED
  BY <1>7, <1>8, <1>9 DEF w, n, start

(***************************************************************************)
(* What the loop of extract_bits() collects                                *)
(***************************************************************************)
OnTheWalk(spec) == 0 .. spec.length - 1

\* The walk meets bits of data only.
Readable(data, spec) ==
    /\ spec.length # 0
    /\ \A i \in OnTheWalk(spec) : data[Layout!Walk(spec)[i]] \in {0, 1}

LEMMA Weights ==
    ASSUME NEW spec \in Layout!SignalSpec, NEW i \in OnTheWalk(spec)
    PROVE  /\ Layout!ValueShift(i, spec) \in Nat
           /\ 2 ^ Layout!ValueShift(i, spec) \in Nat
<1>1. spec.length \in Nat /\ i \in 0 .. spec.length - 1
  BY DEF Layout!SignalSpec, OnTheWalk
<1>2. Layout!ValueShift(i, spec) \in Nat
  BY <1>1 DEF Layout!ValueShift
<1> QED
  BY <1>2, Powers

LEMMA CollectedGoes ==
    ASSUME NEW spec \in Layout!SignalSpec, NEW data, Readable(data, spec)
    PROVE  LET raw == Layout!Collected(data, spec) IN
           /\ raw[0] = 0
           /\ \A i \in 0 .. spec.length : raw[i] \in Nat
           /\ \A i \in OnTheWalk(spec) :
                 raw[i + 1] = raw[i] + data[Layout!Walk(spec)[i]] * 2 ^ Layout!ValueShift(i, spec)
<1> DEFINE n == spec.length
           bit(i) == data[Layout!Walk(spec)[i]] * 2 ^ Layout!ValueShift(i, spec)
           h == [p \in Nat \X Nat |-> IF p[1] < n THEN p[2] + bit(p[1]) ELSE 0]
           Solves(raw) == raw = [k \in 0 .. n |-> IF k = 0 THEN 0 ELSE raw[k - 1] + bit(k - 1)]
<1>1. n \in Nat
  BY DEF Layout!SignalSpec
<1>2. \A i \in OnTheWalk(spec) : bit(i) \in Nat
  BY Weights DEF Readable
<1>3. h \in [Nat \X Nat -> Nat]
  <2> HIDE DEF bit, n
  <2>1. ASSUME NEW p \in Nat \X Nat
        PROVE  (IF p[1] < n THEN p[2] + bit(p[1]) ELSE 0) \in Nat
    <3>1. p[1] \in Nat /\ p[2] \in Nat
      OBVIOUS
    <3>2. p[1] < n => p[1] \in OnTheWalk(spec)
      BY <1>1, <3>1 DEF OnTheWalk, n
    <3> QED
      BY <1>2, <3>1, <3>2
  <2> QED
    BY <2>1
<1>4. PICK f \in [0 .. n -> Nat] :
         f[0] = 0 /\ \A i \in 1 .. n : f[i] = h[<<i - 1, f[i - 1]>>]
  <2> HIDE DEF n, h
  <2>1. 0 \in Nat
    OBVIOUS
  <2>2. PICK f : IsLoop(f, Nat, 0, h, n)
    BY <1>1, <1>3, <2>1, Loops
  <2> QED
    BY <2>2 DEF IsLoop
<1> HIDE DEF bit
<1>5. ASSUME NEW k \in 0 .. n, k # 0
      PROVE  f[k] = f[k - 1] + bit(k - 1)
  <2> HIDE DEF n
  <2>1. k \in 1 .. n /\ k - 1 \in 0 .. n /\ k - 1 \in Nat /\ k - 1 < n
    BY <1>1, <1>5
  <2>2. f[k - 1] \in Nat
    BY <2>1
  <2>3. h[<<k - 1, f[k - 1]>>] = f[k - 1] + bit(k - 1)
    BY <2>1, <2>2
  <2> HIDE DEF h
  <2> QED
    BY <1>4, <2>1, <2>3
<1>6. Solves(f)
  <2> HIDE DEF n, h
  <2> QED
    BY <1>4, <1>5
<1>7. Layout!Collected(data, spec) = CHOOSE raw : Solves(raw)
  BY DEF Layout!Collected, bit
<1>8. Solves(Layout!Collected(data, spec))
  <2> HIDE DEF Solves
  <2> QED
    BY <1>6, <1>7
<1> DEFINE raw == Layout!Collected(data, spec)
<1> HIDE DEF raw
<1>9. raw = [k \in 0 .. n |-> IF k = 0 THEN 0 ELSE raw[k - 1] + bit(k - 1)]
  BY <1>8 DEF raw
<1>10. raw[0] = 0
  <2> HIDE DEF n
  <2> QED
    BY <1>1, <1>9
<1>11. ASSUME NEW i \in OnTheWalk(spec)
       PROVE  raw[i + 1] = raw[i] + bit(i)
  <2>1. i + 1 \in 0 .. n /\ i + 1 # 0 /\ (i + 1) - 1 = i
    BY <1>1 DEF OnTheWalk
  <2> HIDE DEF n
  <2> QED
    BY <1>9, <2>1
<1>12. \A i \in 0 .. n : raw[i] \in Nat
  <2> DEFINE S == {k \in Nat : k <= n => raw[k] \in Nat}
  <2>1. 0 \in S
    BY <1>10
  <2>2. ASSUME NEW k \in S
        PROVE  k + 1 \in S
    <3>1. SUFFICES ASSUME k + 1 <= n PROVE raw[k + 1] \in Nat
      OBVIOUS
    <3>2. k \in OnTheWalk(spec) /\ k <= n
      BY <1>1, <3>1 DEF OnTheWalk
    <3>3. raw[k] \in Nat /\ bit(k) \in Nat /\ raw[k + 1] = raw[k] + bit(k)
      BY <1>2, <1>11, <3>2
    <3> QED
      BY <3>3
  <2>3. \A k \in Nat : k \in S
    <3> HIDE DEF S
    <3>1. S \in SUBSET Nat
      BY DEF S
    <3> QED
      BY <2>1, <2>2, <3>1, AllNumbers
  <2> QED
    BY <1>1, <2>3
<1> QED
  BY <1>10, <1>11, <1>12 DEF bit, raw, n

\* A signal depends on the bits it covers and on no others.
LEMMA SameBitsSameValue ==
    ASSUME NEW spec \in Layout!SignalSpec, NEW data, NEW other,
           Readable(data, spec), Readable(other, spec),
           \A i \in OnTheWalk(spec) : data[Layout!Walk(spec)[i]] = other[Layout!Walk(spec)[i]]
    PROVE  Layout!Decode(data, spec) = Layout!Decode(other, spec)
<1> DEFINE n == spec.length
           a == Layout!Collected(data, spec)
           b == Layout!Collected(other, spec)
           S == {k \in Nat : k <= n => a[k] = b[k]}
<1>1. n \in Nat
  BY DEF Layout!SignalSpec
<1>2. /\ a[0] = b[0]
      /\ \A i \in OnTheWalk(spec) : a[i] = b[i] => a[i + 1] = b[i + 1]
  BY CollectedGoes
<1> HIDE DEF a, b
<1>3. \A k \in S : k + 1 \in S
  <2> SUFFICES ASSUME NEW k \in Nat, k <= n => a[k] = b[k], k + 1 <= n
               PROVE  a[k + 1] = b[k + 1]
    OBVIOUS
  <2>1. k \in OnTheWalk(spec) /\ k <= n
    BY <1>1 DEF OnTheWalk
  <2> QED
    BY <1>2, <2>1
<1>4. 0 \in S
  BY <1>2
<1>5. n \in S
  <2> HIDE DEF S, n
  <2>1. S \in SUBSET Nat
    BY DEF S
  <2> QED
    BY <1>1, <1>3, <1>4, <2>1, AllNumbers
<1>6. a[n] = b[n]
  BY <1>1, <1>5
<1> QED
  BY <1>6 DEF Layout!Decode, Layout!Extract, a, b, n

(***************************************************************************)
(* What is inserted is read back                                           *)
(***************************************************************************)
Payloads == [Layout!Bits -> {0, 1}]

LEMMA WalkStaysInside ==
    ASSUME Layout!SignalsAssumption, NEW spec \in Layout!SignalSpec, Layout!Fits(spec)
    PROVE  /\ DOMAIN Layout!Walk(spec) = OnTheWalk(spec)
           /\ \A i \in OnTheWalk(spec) : Layout!Walk(spec)[i] \in Layout!Bits
           /\ \A data \in Payloads : Readable(data, spec)
<1> DEFINE w == Layout!Walk(spec)
<1>1. spec.length # 0 /\ \A i \in DOMAIN w : w[i] < FrameBytes * ByteBits
  BY DEF Layout!Fits
<1>2. w \in [OnTheWalk(spec) -> Nat]
  BY <1>1, WalkSteps DEF OnTheWalk
<1>3. FrameBytes * ByteBits \in Nat
  BY DEF Layout!SignalsAssumption
<1> HIDE DEF w
<1>4. \A i \in OnTheWalk(spec) : w[i] \in Layout!Bits
  BY <1>1, <1>2, <1>3 DEF Layout!Bits
<1> QED
  BY <1>1, <1>2, <1>4 DEF w, Readable, Payloads

LEMMA InsertWrites ==
    ASSUME Layout!SignalsAssumption, NEW spec \in Layout!SignalSpec, Layout!Fits(spec),
           NEW data \in Payloads, NEW value \in Nat
    PROVE  LET after == Layout!Insert(data, spec, value) IN
           /\ after \in Payloads
           /\ \A i \in OnTheWalk(spec) :
                 after[Layout!Walk(spec)[i]] = Bus!BitOf(value, Layout!ValueShift(i, spec))
           /\ \A bit \in Layout!Bits \ Layout!Covers(spec) : after[bit] = data[bit]
<1> DEFINE w == Layout!Walk(spec)
           after == Layout!Insert(data, spec, value)
           which(bit) == CHOOSE j \in DOMAIN w : w[j] = bit
<1>1. /\ DOMAIN w = OnTheWalk(spec)
      /\ \A i \in OnTheWalk(spec) : w[i] \in Layout!Bits
      /\ \A i, j \in OnTheWalk(spec) : w[i] = w[j] => i = j
  BY WalkStaysInside, WalkSteps DEF OnTheWalk, Layout!Fits
<1>2. DOMAIN data = Layout!Bits /\ \A bit \in Layout!Bits : data[bit] \in {0, 1}
  BY DEF Payloads
<1>3. after = [bit \in Layout!Bits |->
                 IF \E i \in DOMAIN w : w[i] = bit
                 THEN Bus!BitOf(value, Layout!ValueShift(which(bit), spec))
                 ELSE data[bit]]
  BY <1>2 DEF Layout!Insert, Bus!BitOf
<1> HIDE DEF w, after
<1>4. ASSUME NEW i \in OnTheWalk(spec)
      PROVE  which(w[i]) = i
  <2>1. which(w[i]) \in DOMAIN w /\ w[which(w[i])] = w[i]
    BY <1>1
  <2> QED
    BY <1>1, <2>1
<1>5. \A i \in OnTheWalk(spec) : after[w[i]] = Bus!BitOf(value, Layout!ValueShift(i, spec))
  <2> HIDE DEF which
  <2> QED
    BY <1>1, <1>3, <1>4
<1>6. \A i \in OnTheWalk(spec) : Bus!BitOf(value, Layout!ValueShift(i, spec)) \in {0, 1}
  BY Weights, Bits
<1>7. after \in Payloads
  <2>1. ASSUME NEW bit \in Layout!Bits
        PROVE  after[bit] \in {0, 1}
    <3>1. CASE \E i \in DOMAIN w : w[i] = bit
      BY <1>1, <1>5, <1>6, <3>1
    <3>2. CASE ~ \E i \in DOMAIN w : w[i] = bit
      BY <1>2, <1>3, <3>2
    <3> QED
      BY <3>1, <3>2
  <2> HIDE DEF which
  <2>2. DOMAIN after = Layout!Bits
    BY <1>3
  <2>3. after = [bit \in Layout!Bits |-> after[bit]]
    BY <1>3, <2>2
  <2> QED
    BY <2>1, <2>3 DEF Payloads
<1>8. \A bit \in Layout!Bits \ Layout!Covers(spec) : after[bit] = data[bit]
  <2> HIDE DEF which
  <2> QED
    BY <1>3 DEF Layout!Covers, w
<1> QED
  BY <1>5, <1>7, <1>8 DEF after, w

\* Bits are collected from the lowest (Intel) or from the highest (Motorola): after
\* n of them the lowest or highest n have been collected.
LEMMA ReadBack ==
    ASSUME Layout!SignalsAssumption, NEW spec \in Layout!SignalSpec, Layout!Fits(spec),
           NEW data \in Payloads, NEW value \in Nat, value < 2 ^ spec.length,
           \A i \in OnTheWalk(spec) :
              data[Layout!Walk(spec)[i]] = Bus!BitOf(value, Layout!ValueShift(i, spec))
    PROVE  Layout!Extract(data, spec) = value
<1> DEFINE n == spec.length
           raw == Layout!Collected(data, spec)
           high(k) == 2 ^ k * (value \div 2 ^ k)
           sofar(k) == IF spec.order = "Intel" THEN value - high(k) ELSE high(n - k)
           S == {k \in Nat : k <= n => raw[k] = sofar(k)}
<1>1. n \in Nat /\ n # 0 /\ value \div 2 ^ n = 0
  BY Powers, Quotients DEF Layout!Fits, Layout!SignalSpec
<1>2. /\ raw[0] = 0
      /\ \A k \in 0 .. n : raw[k] \in Nat
      /\ \A i \in OnTheWalk(spec) :
            raw[i + 1] = raw[i] + Bus!BitOf(value, Layout!ValueShift(i, spec))
                                    * 2 ^ Layout!ValueShift(i, spec)
  BY CollectedGoes, WalkStaysInside
<1>3. high(n) = 0 /\ high(0) = value
  BY <1>1, Powers
<1>4. \A k \in Nat : /\ high(k) \in Nat
                     /\ high(k) = high(k + 1) + Bus!BitOf(value, k) * 2 ^ k
                     /\ Bus!BitOf(value, k) * 2 ^ k \in Nat
  <2> SUFFICES ASSUME NEW k \in Nat
               PROVE  /\ high(k) \in Nat
                      /\ high(k) = high(k + 1) + Bus!BitOf(value, k) * 2 ^ k
                      /\ Bus!BitOf(value, k) * 2 ^ k \in Nat
    OBVIOUS
  <2> DEFINE p == 2 ^ k
             q == value \div 2 ^ (k + 1)
             b == Bus!BitOf(value, k)
  <2>1. p \in Nat /\ 2 ^ (k + 1) = p * 2
    BY Powers, PowersMultiply
  <2>2. q \in Nat /\ b \in {0, 1} /\ value \div 2 ^ k = 2 * q + b
    BY Bits
  <2>3. high(k) = p * (2 * q + b) /\ high(k + 1) = (p * 2) * q
    BY <2>1, <2>2
  <2> HIDE DEF high, p, q, b
  <2>4. p * (2 * q + b) = (p * 2) * q + b * p /\ b * p \in Nat /\ (p * 2) * q \in Nat
    BY <2>1, <2>2
  <2> QED
    BY <2>3, <2>4 DEF b, p
<1> HIDE DEF raw, high
<1>5. 0 \in S
  BY <1>1, <1>2, <1>3
<1>6. ASSUME NEW k \in S
      PROVE  k + 1 \in S
  <2>1. SUFFICES ASSUME k + 1 <= n PROVE raw[k + 1] = sofar(k + 1)
    OBVIOUS
  <2> DEFINE j == Layout!ValueShift(k, spec)
  <2>2. k \in OnTheWalk(spec) /\ k \in Nat /\ raw[k] = sofar(k)
    BY <1>1, <2>1 DEF OnTheWalk
  <2>3. raw[k + 1] = sofar(k) + Bus!BitOf(value, j) * 2 ^ j
    BY <1>2, <2>2
  <2> HIDE DEF n
  <2>4. CASE spec.order = "Intel"
    <3>1. j = k
      BY <2>4 DEF Layout!ValueShift
    <3> QED
      BY <1>4, <2>2, <2>3, <2>4, <3>1
  <2>5. CASE spec.order # "Intel"
    <3>1. j = n - (k + 1) /\ j \in Nat /\ j + 1 = n - k
      BY <1>1, <2>1, <2>2, <2>5 DEF Layout!ValueShift, n
    <3>2. high(j) = high(n - k) + Bus!BitOf(value, j) * 2 ^ j
      BY <1>4, <3>1
    <3> HIDE DEF j
    <3> QED
      BY <2>3, <2>5, <3>1, <3>2
  <2> QED
    BY <2>4, <2>5
<1>7. n \in S
  <2> HIDE DEF S, n
  <2>1. S \in SUBSET Nat
    BY DEF S
  <2> QED
    BY <1>1, <1>5, <1>6, <2>1, AllNumbers
<1>8. raw[n] = value
  <2>1. raw[n] = sofar(n)
    BY <1>1, <1>7
  <2> QED
    BY <1>1, <1>3, <2>1
<1> QED
  BY <1>8 DEF Layout!Extract, raw, n

(***************************************************************************)
(* encode() and decode()                                                   *)
(***************************************************************************)
\* What a raw value of the signal can be.
Raws(spec) ==
    IF spec.signed THEN -(2 ^ (spec.length - 1)) .. 2 ^ (spec.length - 1) - 1
    ELSE 0 .. 2 ^ spec.length - 1

\* The sign survives: sign_extend() undoes the conversion to unsigned.
LEMMA SignSurvives ==
    ASSUME NEW spec \in Layout!SignalSpec, spec.length # 0, NEW scaled \in Raws(spec)
    PROVE  LET raw == scaled % 2 ^ spec.length IN
           /\ raw \in Nat /\ raw < 2 ^ spec.length
           /\ (IF spec.signed THEN Layout!SignExtend(raw, spec.length) ELSE raw) = scaled
<1> DEFINE h == 2 ^ (spec.length - 1)
           m == 2 ^ spec.length
           raw == scaled % m
<1>1. h \in Nat \ {0} /\ m = h * 2
  <2>1. spec.length - 1 \in Nat /\ spec.length = (spec.length - 1) + 1
    BY DEF Layout!SignalSpec
  <2> QED
    BY <2>1, Powers, PowersMultiply
<1>2. spec.signed \in BOOLEAN
  BY DEF Layout!SignalSpec
<1>3. CASE spec.signed
  <2>1. scaled \in -h .. h - 1
    BY <1>3 DEF Raws
  <2> HIDE DEF h, m
  <2>2. scaled \in Int /\ m \in Nat \ {0} /\ raw \in 0 .. m - 1
    BY <1>1, <2>1
  <2>3. CASE scaled >= 0
    <3>1. raw = scaled
      BY <1>1, <2>1, <2>3
    <3> HIDE DEF raw
    <3> QED
      BY SMTT(60), <1>1, <1>3, <2>1, <2>2, <3>1 DEF Layout!SignExtend, h, m, raw
  <2>4. CASE scaled < 0
    <3>1. raw = scaled + m
      BY <1>1, <2>1, <2>4
    <3> HIDE DEF raw
    <3>2. raw >= h
      BY <1>1, <2>1, <3>1
    <3> QED
      BY <1>1, <1>3, <2>1, <2>2, <3>1, <3>2 DEF Layout!SignExtend, h, m, raw
  <2> QED
    BY <2>2, <2>3, <2>4
<1>4. CASE ~ spec.signed
  <2>1. scaled \in 0 .. m - 1
    BY <1>4 DEF Raws
  <2> HIDE DEF h, m
  <2>2. raw = scaled
    BY <1>1, <2>1
  <2> HIDE DEF raw
  <2> QED
    BY <1>1, <1>4, <2>1, <2>2 DEF raw, m
<1> QED
  BY <1>2, <1>3, <1>4

\* std::round(): no integer multiple is nearer, and the nearest is at most half a
\* step away.
LEMMA RoundIsNearest ==
    ASSUME NEW p \in Int, NEW q \in Int, q # 0
    PROVE  /\ Layout!Round(p, q) \in Int
           /\ 2 * Layout!Distance(Layout!Round(p, q) * q, p) <= Layout!Distance(q, 0)
           /\ \A r \in Int : r # Layout!Round(p, q)
                => 2 * Layout!Distance(r * q, p) >= Layout!Distance(q, 0)
<1> DEFINE n == IF q < 0 THEN -p ELSE p
           d == IF q < 0 THEN -q ELSE q
           R == Layout!Round(p, q)
           up == (2 * n + d) \div (2 * d)
           down == (2 * (-n) + d) \div (2 * d)
<1>1. n \in Int /\ d \in Nat \ {0} /\ d = Layout!Distance(q, 0)
  BY DEF Layout!Distance
<1>2. R = IF n >= 0 THEN up ELSE -down
  BY DEF Layout!Round
<1>3. \A r \in Int : Layout!Distance(r * q, p) = Layout!Distance(r * d, n)
  <2> SUFFICES ASSUME NEW r \in Int
               PROVE  Layout!Distance(r * q, p) = Layout!Distance(r * d, n)
    OBVIOUS
  <2>1. CASE q < 0
    <3>1. r * d = -(r * q) /\ r * q \in Int /\ n = -p
      BY <2>1
    <3> DEFINE x == r * q
    <3> HIDE DEF n, d, x
    <3> QED
      BY <3>1 DEF Layout!Distance, x
  <2>2. CASE ~(q < 0)
    BY <2>2
  <2> QED
    BY <2>1, <2>2
<1> HIDE DEF n, d, R
<1>4. ASSUME NEW a \in Nat
      PROVE  LET u == (2 * a + d) \div (2 * d) IN
             u \in Int /\ 2 * (u * d) <= 2 * a + d /\ 2 * a + d < 2 * (u * d) + 2 * d
  <2> DEFINE x == 2 * a + d
             m == 2 * d
             u == x \div m
  <2>1. x \in Nat /\ m \in Nat \ {0}
    BY <1>1
  <2> HIDE DEF x, m
  <2>2. u \in Int /\ x % m \in 0 .. m - 1 /\ x = m * u + (x % m)
    BY <2>1
  <2> DEFINE rest == x % m
             ud == u * d
  <2> HIDE DEF u, rest
  <2>3. m * u = 2 * ud /\ ud \in Int
    BY <1>1, <2>2 DEF m
  <2>4. rest \in Int /\ 0 <= rest /\ rest < m /\ x = 2 * ud + rest
    BY <2>1, <2>2, <2>3 DEF rest
  <2> HIDE DEF ud
  <2>5. 2 * ud <= x /\ x < 2 * ud + m
    BY <2>1, <2>3, <2>4
  <2> QED
    BY <2>2, <2>5 DEF ud, u, x, m
<1>5. R \in Int /\ R * d \in Int /\ 2 * n - d <= 2 * (R * d) /\ 2 * (R * d) <= 2 * n + d
  <2>1. CASE n >= 0
    <3>1. n \in Nat /\ R = up
      BY <1>1, <1>2, <2>1
    <3>2. R \in Int /\ 2 * (R * d) <= 2 * n + d /\ 2 * n + d < 2 * (R * d) + 2 * d
      BY <1>4, <3>1
    <3> DEFINE rd == R * d
    <3>3. rd \in Int
      BY <1>1, <3>2
    <3> HIDE DEF rd, up, down
    <3> QED
      BY <1>1, <3>2, <3>3 DEF rd
  <2>2. CASE n < 0
    <3>1. -n \in Nat /\ R = -down
      BY <1>1, <1>2, <2>2
    <3>2. down \in Int /\ 2 * (down * d) <= 2 * (-n) + d /\ 2 * (-n) + d < 2 * (down * d) + 2 * d
      BY <1>4, <3>1
    <3> DEFINE dd == down * d
    <3> HIDE DEF up, down
    <3>3. dd \in Int /\ R * d = -dd /\ R \in Int
      BY <1>1, <3>1, <3>2
    <3> HIDE DEF dd
    <3> QED
      BY <1>1, <3>2, <3>3 DEF dd
  <2> QED
    BY <1>1, <2>1, <2>2
<1> HIDE DEF up, down
<1>6. 2 * Layout!Distance(R * d, n) <= d
  <2> DEFINE rd == R * d
  <2> HIDE DEF rd
  <2> QED
    BY <1>1, <1>5 DEF Layout!Distance, rd
<1>7. ASSUME NEW r \in Int, r # R
      PROVE  2 * Layout!Distance(r * d, n) >= d
  <2> DEFINE rd == r * d
             sd == R * d
             g == r - R
  <2>1. rd \in Int /\ sd \in Int /\ g \in Int /\ g # 0 /\ rd = sd + g * d
    BY <1>1, <1>5, <1>7
  <2>2. (g >= 1 => g * d >= d) /\ (g <= -1 => g * d <= -d) /\ g * d \in Int
    <3> HIDE DEF g
    <3> QED
      BY <1>1, <2>1
  <2> DEFINE gd == g * d
  <2>3. gd \in Int /\ (gd >= d \/ gd <= -d) /\ rd = sd + gd
    BY <2>1, <2>2
  <2> HIDE DEF rd, sd, gd, g
  <2> QED
    BY <1>1, <1>5, <2>1, <2>3 DEF Layout!Distance, rd, sd
<1> QED
  BY <1>1, <1>3, <1>5, <1>6, <1>7 DEF R

LEMMA RangesFit ==
    ASSUME NEW spec \in Layout!SignalSpec, spec.length # 0, NEW scaled \in Int
    PROVE  Layout!Representable(scaled, spec) <=> scaled \in Raws(spec)
<1> DEFINE h == 2 ^ (spec.length - 1)
           m == 2 ^ spec.length
<1>1. h \in Nat /\ m \in Nat
  <2>1. spec.length - 1 \in Nat /\ spec.length \in Nat
    BY DEF Layout!SignalSpec
  <2> QED
    BY <2>1, Powers
<1> HIDE DEF h, m
<1>2. CASE spec.signed
  <2>1. Layout!Representable(scaled, spec) <=> -h <= scaled /\ scaled < h
    BY <1>2 DEF Layout!Representable, h
  <2>2. Raws(spec) = -h .. h - 1
    BY <1>2 DEF Raws, h
  <2> QED
    BY <1>1, <2>1, <2>2
<1>3. CASE ~ spec.signed
  <2>1. Layout!Representable(scaled, spec) <=> 0 <= scaled /\ scaled < m
    BY <1>3 DEF Layout!Representable, m
  <2>2. Raws(spec) = 0 .. m - 1
    BY <1>3 DEF Raws, m
  <2> QED
    BY <1>1, <2>1, <2>2
<1> QED
  BY <1>2, <1>3

\* What encode() writes, decode() reads, and no other bit changes.
LEMMA EncodeIsRead ==
    ASSUME Layout!SignalsAssumption, NEW spec \in Layout!SignalSpec, NEW data \in Payloads,
           NEW physical \in Physicals, Layout!Encodes(spec, physical)
    PROVE  LET after == Layout!Encode(data, spec, physical) IN
           /\ after \in Payloads
           /\ Layout!Decode(after, spec) = Layout!Scaled(spec, physical) * spec.factor + spec.offset
           /\ \A bit \in Layout!Bits \ Layout!Covers(spec) : after[bit] = data[bit]
<1> DEFINE scaled == Layout!Scaled(spec, physical)
           raw == scaled % 2 ^ spec.length
           after == Layout!Insert(data, spec, raw)
<1>1. spec.length # 0 /\ Layout!Fits(spec) /\ Layout!Representable(scaled, spec)
  BY DEF Layout!Encodes
<1>2. physical \in Int /\ spec.factor \in Int /\ spec.factor # 0 /\ spec.offset \in Int
  BY DEF Layout!Encodes, Layout!SignalsAssumption, Layout!SignalSpec
<1>3. scaled \in Int
  BY <1>2, RoundIsNearest DEF Layout!Scaled
<1>4. scaled \in Raws(spec)
  BY <1>1, <1>3, RangesFit
<1>5. /\ raw \in Nat /\ raw < 2 ^ spec.length
      /\ (IF spec.signed THEN Layout!SignExtend(raw, spec.length) ELSE raw) = scaled
  BY <1>1, <1>4, SignSurvives
<1> HIDE DEF raw, scaled
<1>6. /\ after \in Payloads
      /\ \A i \in OnTheWalk(spec) :
            after[Layout!Walk(spec)[i]] = Bus!BitOf(raw, Layout!ValueShift(i, spec))
      /\ \A bit \in Layout!Bits \ Layout!Covers(spec) : after[bit] = data[bit]
  BY <1>1, <1>5, InsertWrites
<1> HIDE DEF after
<1>7. Layout!Extract(after, spec) = raw
  BY <1>1, <1>5, <1>6, ReadBack
<1>8. raw # Nothing
  BY <1>5 DEF Layout!SignalsAssumption
<1>9. Layout!Decode(after, spec) = scaled * spec.factor + spec.offset
  BY <1>5, <1>7, <1>8 DEF Layout!Decode
<1>10. Layout!Encode(data, spec, physical) = after
  BY DEF Layout!Encode, after, raw, scaled, Layout!Encodes
<1> QED
  BY <1>6, <1>9, <1>10 DEF scaled

\* A signal that shares no bit with another one does not see it change.
LEMMA OthersAreLeftAlone ==
    ASSUME Layout!SignalsAssumption, NEW spec \in Layout!SignalSpec, NEW other \in Layout!SignalSpec,
           Layout!Fits(other), Layout!Covers(other) \cap Layout!Covers(spec) = {},
           NEW data \in Payloads, NEW after \in Payloads,
           \A bit \in Layout!Bits \ Layout!Covers(spec) : after[bit] = data[bit]
    PROVE  Layout!Decode(after, other) = Layout!Decode(data, other)
<1>1. Readable(data, other) /\ Readable(after, other)
  BY WalkStaysInside
<1>2. ASSUME NEW i \in OnTheWalk(other)
      PROVE  after[Layout!Walk(other)[i]] = data[Layout!Walk(other)[i]]
  <2>1. Layout!Walk(other)[i] \in Layout!Bits /\ i \in DOMAIN Layout!Walk(other)
    BY WalkStaysInside
  <2>2. Layout!Walk(other)[i] \notin Layout!Covers(spec)
    BY <2>1 DEF Layout!Covers
  <2> QED
    BY <2>1, <2>2
<1> QED
  BY <1>1, <1>2, SameBitsSameValue

\* The table of the longer frames has every length once.
LEMMA LengthsHaveOneCode == Layout!LengthsHaveCodes
<1> DEFINE F == Layout!FdLengths
           code(length) == CHOOSE k \in DOMAIN F : F[k] = length
<1>1. /\ DOMAIN F = 1 .. 7
      /\ F[1] = 12 /\ F[2] = 16 /\ F[3] = 20 /\ F[4] = 24 /\ F[5] = 32 /\ F[6] = 48 /\ F[7] = 64
  BY DEF Layout!FdLengths
<1> HIDE DEF F
<1>2. \A k \in 1 .. 7 : F[k] \in 9 .. 64
  BY <1>1
<1>3. \A j, k \in 1 .. 7 : F[j] = F[k] => j = k
  BY <1>1
<1>4. \A k \in 1 .. 7 : code(F[k]) = k
  <2> SUFFICES ASSUME NEW k \in 1 .. 7 PROVE code(F[k]) = k
    OBVIOUS
  <2>1. code(F[k]) \in 1 .. 7 /\ F[code(F[k])] = F[k]
    BY <1>1
  <2> QED
    BY <1>3, <2>1
<1> HIDE DEF code
<1>5. ASSUME NEW fd \in BOOLEAN, NEW dlc \in Int, dlc <= 8
      PROVE  Layout!DlcToLength(dlc, fd) = dlc /\ Layout!LengthToDlc(dlc, fd) = dlc
  BY <1>5 DEF Layout!DlcToLength, Layout!LengthToDlc
<1>6. ASSUME NEW k \in 1 .. 7
      PROVE  Layout!DlcToLength(8 + k, TRUE) = F[k] /\ Layout!LengthToDlc(F[k], TRUE) = 8 + k
  <2>1. Layout!DlcToLength(8 + k, TRUE) = F[(8 + k) - 8]
    BY DEF Layout!DlcToLength, F
  <2>2. F[k] > 8 /\ \E j \in DOMAIN F : F[j] = F[k]
    BY <1>1, <1>2
  <2> DEFINE length == F[k]
  <2> HIDE DEF length
  <2>3. length > 8 /\ length \in Int /\ \E j \in DOMAIN F : F[j] = length
    BY <1>2, <2>2 DEF length
  <2>4. ~(length <= 8)
    BY <2>3
  <2>5. Layout!LengthToDlc(length, TRUE) = 8 + code(length)
    BY <2>3, <2>4, Zenon DEF Layout!LengthToDlc, code, F
  <2>6. (8 + k) - 8 = k
    OBVIOUS
  <2> QED
    BY <1>4, <2>1, <2>5, <2>6 DEF length
<1>7. ASSUME NEW fd \in BOOLEAN, NEW length \in 0 .. 64, length > 8,
             Layout!LengthToDlc(length, fd) # Nothing
      PROVE  fd /\ \E k \in 1 .. 7 : F[k] = length
  BY <1>1, <1>7 DEF Layout!LengthToDlc, F
<1>8. ASSUME NEW fd \in BOOLEAN, NEW dlc \in 0 .. (IF fd THEN 15 ELSE 8)
      PROVE  Layout!LengthToDlc(Layout!DlcToLength(dlc, fd), fd) = dlc
  <2>1. CASE dlc <= 8
    BY <1>5, <2>1
  <2>2. CASE dlc > 8
    <3>1. fd = TRUE /\ dlc - 8 \in 1 .. 7 /\ 8 + (dlc - 8) = dlc
      BY <2>2
    <3> DEFINE k == dlc - 8
    <3> HIDE DEF k
    <3>2. k \in 1 .. 7 /\ dlc = 8 + k
      BY <3>1 DEF k
    <3> QED
      BY <1>6, <3>1, <3>2
  <2> QED
    BY <2>1, <2>2
<1>9. ASSUME NEW fd \in BOOLEAN, NEW length \in 0 .. 64, Layout!LengthToDlc(length, fd) # Nothing
      PROVE  Layout!DlcToLength(Layout!LengthToDlc(length, fd), fd) = length
  <2>1. CASE length <= 8
    BY <1>5, <2>1
  <2>2. CASE length > 8
    <3>1. PICK k \in 1 .. 7 : F[k] = length
      BY <1>7, <1>9, <2>2
    <3>2. fd = TRUE
      BY <1>7, <1>9, <2>2
    <3> QED
      BY <1>6, <3>1, <3>2
  <2> QED
    BY <2>1, <2>2
<1> QED
  BY <1>8, <1>9 DEF Layout!LengthsHaveCodes

(***************************************************************************)
(* The calls                                                               *)
(***************************************************************************)
EncodeCalls == [spec : Specs, physical : Physicals, before : Payloads]

\* A payload has bits, and the call that has just returned made it.
SignalsInvariant ==
    /\ payload \in Payloads
    /\ call # Nothing =>
         /\ call \in EncodeCalls
         /\ payload = Layout!Encode(call.before, call.spec, call.physical)

LEMMA PayloadsStayPayloads ==
    ASSUME Layout!SignalsAssumption, NEW spec \in Specs, NEW physical \in Physicals,
           NEW data \in Payloads
    PROVE  Layout!Encode(data, spec, physical) \in Payloads
<1>1. spec \in Layout!SignalSpec
  BY DEF Layout!SignalsAssumption
<1>2. CASE Layout!Encodes(spec, physical)
  BY <1>1, <1>2, EncodeIsRead
<1>3. CASE ~ Layout!Encodes(spec, physical)
  BY <1>3 DEF Layout!Encode
<1> QED
  BY <1>2, <1>3

LEMMA CallsHold ==
    ASSUME Layout!SignalsAssumption
    PROVE  /\ Layout!SignalsInit => SignalsInvariant
           /\ SignalsInvariant /\ [Layout!SignalsNext]_Layout!signalVars => SignalsInvariant'
<1>1. Layout!SignalsInit => SignalsInvariant
  BY DEF Layout!SignalsInit, SignalsInvariant, Payloads
<1>2. ASSUME SignalsInvariant, [Layout!SignalsNext]_Layout!signalVars
      PROVE  SignalsInvariant'
  <2>1. ASSUME NEW spec \in Specs, NEW physical \in Physicals, Layout!CallEncode(spec, physical)
        PROVE  SignalsInvariant'
    <3>1. /\ payload' = Layout!Encode(payload, spec, physical)
          /\ call' = [spec |-> spec, physical |-> physical, before |-> payload]
      BY <2>1 DEF Layout!CallEncode
    <3>2. payload \in Payloads
      BY <1>2 DEF SignalsInvariant
    <3>3. payload' \in Payloads
      BY <3>1, <3>2, PayloadsStayPayloads
    <3>4. /\ call' \in EncodeCalls
          /\ call'.spec = spec /\ call'.physical = physical /\ call'.before = payload
      BY <3>1, <3>2 DEF EncodeCalls
    <3>5. payload' = Layout!Encode(call'.before, call'.spec, call'.physical)
      BY <3>1, <3>4
    <3> QED
      BY <3>3, <3>4, <3>5 DEF SignalsInvariant, EncodeCalls, Payloads, Layout!Bits
  <2>2. CASE Layout!Proceed
    BY <1>2, <2>2 DEF Layout!Proceed, SignalsInvariant, Payloads, Layout!Bits
  <2>3. CASE UNCHANGED Layout!signalVars
    BY <1>2, <2>3 DEF Layout!signalVars, SignalsInvariant
  <2> QED
    BY <1>2, <2>1, <2>2, <2>3 DEF Layout!SignalsNext
<1> QED
  BY <1>1, <1>2

LEMMA CallsPackFaithfully ==
    ASSUME Layout!SignalsAssumption, SignalsInvariant
    PROVE  Layout!PacksFaithfully
<1> SUFFICES ASSUME call # Nothing PROVE Layout!PacksFaithfully
  BY DEF Layout!PacksFaithfully
<1> DEFINE spec == call.spec
           physical == call.physical
           before == call.before
           step == Layout!Distance(spec.factor, 0)
           scaled == Layout!Scaled(spec, physical)
           Off(value) == 2 * Layout!Distance(value, physical)
<1>1. /\ spec \in Specs /\ physical \in Physicals /\ before \in Payloads
      /\ payload = Layout!Encode(before, spec, physical)
  BY DEF SignalsInvariant, EncodeCalls
<1>2. spec \in Layout!SignalSpec /\ Specs \subseteq Layout!SignalSpec
  BY <1>1 DEF Layout!SignalsAssumption
<1>3. spec.factor \in Int /\ spec.offset \in Int
  BY <1>2 DEF Layout!SignalSpec
<1> HIDE DEF spec, physical, before
<1>4. ASSUME physical # NotFinite, spec.factor # 0
      PROVE  /\ scaled \in Int
             /\ Off(scaled * spec.factor + spec.offset) <= step
             /\ \A raw \in Int : raw # scaled => Off(raw * spec.factor + spec.offset) >= step
  <2>1. physical \in Int
    BY <1>1, <1>4 DEF Layout!SignalsAssumption
  <2> DEFINE p == physical - spec.offset
             q == spec.factor
  <2>2. p \in Int /\ q \in Int /\ q # 0
    BY <1>3, <1>4, <2>1
  <2>3. /\ scaled \in Int
        /\ 2 * Layout!Distance(scaled * q, p) <= step
        /\ \A r \in Int : r # scaled => 2 * Layout!Distance(r * q, p) >= step
    BY <2>2, RoundIsNearest DEF Layout!Scaled
  <2>4. ASSUME NEW r \in Int
        PROVE  Layout!Distance(r * q, p) = Layout!Distance(r * q + spec.offset, physical)
    <3> DEFINE rq == r * q
    <3>1. rq \in Int
      BY <1>3
    <3> HIDE DEF rq
    <3> QED
      BY <1>3, <2>1, <3>1 DEF Layout!Distance, rq
  <2> HIDE DEF p, scaled, step
  <2> QED
    BY <2>3, <2>4
<1>5. ASSUME Layout!Encodes(spec, physical)
      PROVE  /\ Off(Layout!Decode(payload, spec)) <= step
             /\ \A other \in Specs :
                  Layout!Fits(other) /\ Layout!Covers(other) \cap Layout!Covers(spec) = {}
                    => Layout!Decode(payload, other) = Layout!Decode(before, other)
  <2>1. /\ payload \in Payloads
        /\ Layout!Decode(payload, spec) = scaled * spec.factor + spec.offset
        /\ \A bit \in Layout!Bits \ Layout!Covers(spec) : payload[bit] = before[bit]
    BY <1>1, <1>2, <1>5, EncodeIsRead
  <2>2. physical # NotFinite /\ spec.factor # 0
    BY <1>5 DEF Layout!Encodes
  <2>3. Off(Layout!Decode(payload, spec)) <= step
    BY <1>4, <2>1, <2>2
  <2>4. ASSUME NEW other \in Specs,
               Layout!Fits(other), Layout!Covers(other) \cap Layout!Covers(spec) = {}
        PROVE  Layout!Decode(payload, other) = Layout!Decode(before, other)
    BY <1>1, <1>2, <2>1, <2>4, OthersAreLeftAlone
  <2> QED
    BY <2>3, <2>4
<1>6. ASSUME ~ Layout!Encodes(spec, physical)
      PROVE  /\ payload = before
             /\ Layout!Fits(spec) /\ spec.factor # 0 /\ physical # NotFinite =>
                  \A raw \in Raws(spec) : Off(raw * spec.factor + spec.offset) >= step
  <2>1. payload = before
    BY <1>1, <1>6 DEF Layout!Encode
  <2>2. ASSUME Layout!Fits(spec), spec.factor # 0, physical # NotFinite, NEW raw \in Raws(spec)
        PROVE  Off(raw * spec.factor + spec.offset) >= step
    <3>1. spec.length # 0 /\ ~ Layout!Representable(scaled, spec) /\ scaled \in Int
      BY <1>4, <1>6, <2>2 DEF Layout!Encodes, Layout!Fits
    <3>2. scaled \notin Raws(spec)
      BY <1>2, <3>1, RangesFit
    <3>3. raw \in Int /\ raw # scaled
      <4>1. Raws(spec) \subseteq Int
        BY DEF Raws
      <4> QED
        BY <2>2, <3>2, <4>1
    <3> HIDE DEF scaled, Off, step
    <3> QED
      BY <1>4, <2>2, <3>3
  <2> QED
    BY <2>1, <2>2
<1> QED
  BY <1>5, <1>6 DEF Layout!PacksFaithfully, Raws, spec, physical, before

(***************************************************************************)
(* The wire formats, in the slots. First, numbers in bytes.                *)
(***************************************************************************)
format == s1
given == s2
wire == s3
damage == s4
got == s5
stage == s6
USE DEF format, given, wire, damage, got, stage

Bytes == Seq(Int)

LEMMA Weights4 ==
    ASSUME Wire!CodecsAssumption
    PROVE  /\ Wire!Weight[0] = 1
           /\ \A k \in 0 .. 3 : Wire!Weight[k + 1] = Wire!Weight[k] * Base
           /\ \A k \in 0 .. 4 : Wire!Weight[k] \in Nat \ {0}
           /\ Base \in Nat /\ Base > 20
<1> DEFINE w2 == Base * Base
           w3 == w2 * Base
           w4 == w3 * Base
           f == [k \in 0 .. 4 |-> IF k = 0 THEN 1 ELSE IF k = 1 THEN Base
                                  ELSE IF k = 2 THEN w2 ELSE IF k = 3 THEN w3 ELSE w4]
           Solves(g) == g = [k \in 0 .. 4 |-> IF k = 0 THEN 1 ELSE g[k - 1] * Base]
<1>1. Base \in Nat /\ Base > 20
  BY DEF Wire!CodecsAssumption, Wire!Multicast
<1>2. w2 \in Nat \ {0} /\ w3 \in Nat \ {0} /\ w4 \in Nat \ {0}
  <2>1. \A x \in Nat \ {0} : x * Base \in Nat \ {0}
    BY <1>1
  <2> QED
    BY <1>1, <2>1
<1>3. Solves(f)
  <2>1. /\ f[0] = 1 /\ f[1] = Base /\ f[2] = f[1] * Base /\ f[3] = f[2] * Base
        /\ f[4] = f[3] * Base /\ 1 * Base = Base
    BY <1>1
  <2> HIDE DEF w2, w3, w4
  <2>2. f = [k \in 0 .. 4 |-> f[k]]
    OBVIOUS
  <2> HIDE DEF f
  <2>3. \A k \in 0 .. 4 : f[k] = IF k = 0 THEN 1 ELSE f[k - 1] * Base
    <3>1. \A k \in 0 .. 4 : k \in {0, 1, 2, 3, 4}
      OBVIOUS
    <3> QED
      BY <2>1, <3>1
  <2> QED
    BY <2>2, <2>3
<1>4. Wire!Weight = CHOOSE g : Solves(g)
  BY DEF Wire!Weight
<1>5. Solves(Wire!Weight)
  <2> HIDE DEF Solves, f
  <2> QED
    BY <1>3, <1>4
<1> DEFINE g == Wire!Weight
<1> HIDE DEF g
<1>6. g = [k \in 0 .. 4 |-> IF k = 0 THEN 1 ELSE g[k - 1] * Base]
  BY <1>5 DEF g
<1>7. g[0] = 1 /\ \A k \in 0 .. 3 : g[k + 1] = g[k] * Base
  <2>1. \A k \in 0 .. 3 : k + 1 \in 0 .. 4 /\ k + 1 # 0 /\ (k + 1) - 1 = k
    OBVIOUS
  <2> QED
    BY <1>6, <2>1
<1>8. \A k \in 0 .. 4 : g[k] \in Nat \ {0}
  <2>1. \A x \in Nat \ {0} : x * Base \in Nat \ {0}
    BY <1>1
  <2>2. g[0] \in Nat \ {0}
    BY <1>7
  <2>3. g[1] \in Nat \ {0}
    BY <1>7, <2>1, <2>2
  <2>4. g[2] \in Nat \ {0}
    BY <1>7, <2>1, <2>3
  <2>5. g[3] \in Nat \ {0}
    BY <1>7, <2>1, <2>4
  <2>6. g[4] \in Nat \ {0}
    BY <1>7, <2>1, <2>5
  <2>7. \A k \in 0 .. 4 : k \in {0, 1, 2, 3, 4}
    OBVIOUS
  <2> QED
    BY <2>2, <2>3, <2>4, <2>5, <2>6, <2>7
<1> QED
  BY <1>1, <1>7, <1>8 DEF g

LEMMA Division ==
    ASSUME NEW x \in Nat, NEW m \in Nat \ {0}
    PROVE  /\ x \div m \in Nat
           /\ x % m \in 0 .. m - 1
           /\ x = m * (x \div m) + (x % m)
OBVIOUS

\* Dividing twice.
LEMMA QuotientOfQuotient ==
    ASSUME NEW x \in Nat, NEW m \in Nat \ {0}, NEW b \in Nat \ {0}
    PROVE  /\ x \div (m * b) = (x \div m) \div b
           /\ x \div m \in Nat
           /\ x \div m = b * (x \div (m * b)) + ((x \div m) % b)
           /\ (x \div m) % b \in 0 .. b - 1
<1> DEFINE q == x \div m
           r == x % m
           p == q \div b
           s == q % b
<1>1. q \in Nat /\ r \in 0 .. m - 1 /\ x = m * q + r
  BY Division, Zenon
<1> HIDE DEF q, r
<1>2. p \in Nat /\ s \in 0 .. b - 1 /\ q = b * p + s
  BY <1>1, Division, Zenon
<1> HIDE DEF p, s
<1> DEFINE ms == m * s
           bound == m * (b - 1)
           mb == m * b
<1>3. ms \in Nat /\ ms <= bound /\ bound = mb - m /\ mb \in Nat \ {0}
  <2>1. ms \in Nat
    BY <1>2
  <2>2. \A y \in 0 .. b - 1 : m * y <= m * (b - 1)
    OBVIOUS
  <2>3. bound = mb - m
    OBVIOUS
  <2>4. mb \in Nat \ {0}
    OBVIOUS
  <2> QED
    BY <1>2, <2>1, <2>2, <2>3, <2>4
<1>4. x = mb * p + (ms + r)
  <2>1. m * (b * p + s) = (m * b) * p + m * s
    BY <1>2
  <2> DEFINE mbp == mb * p
  <2>2. mbp \in Int
    BY <1>2, <1>3
  <2> HIDE DEF ms, mb, mbp, bound
  <2> QED
    BY <1>1, <1>2, <1>3, <2>1, <2>2 DEF ms, mb, mbp
<1> HIDE DEF ms, mb, bound
<1>5. ms + r \in 0 .. mb - 1
  BY <1>1, <1>3
<1>6. x \div mb = p
  BY <1>2, <1>3, <1>4, <1>5, OneQuotient
<1> QED
  BY <1>1, <1>2, <1>6 DEF p, q, s, mb

\* What append_u16() and its like write is what read_u16() and its like read.
LEMMA PutIsBytes ==
    ASSUME NEW n \in Int, NEW width \in 1 .. 4, Wire!CodecsAssumption
    PROVE  /\ Wire!Put(n, width) \in Bytes
           /\ Len(Wire!Put(n, width)) = width
<1>1. \A i \in 1 .. width : ((n \div Wire!Weight[width - i]) % Base) \in Int
  <2> SUFFICES ASSUME NEW i \in 1 .. width
               PROVE  ((n \div Wire!Weight[width - i]) % Base) \in Int
    OBVIOUS
  <2>1. width - i \in 0 .. 4
    OBVIOUS
  <2> DEFINE w == Wire!Weight[width - i]
  <2>2. w \in Nat \ {0} /\ Base \in Nat \ {0}
    BY <2>1, Weights4
  <2> HIDE DEF w
  <2>3. n \div w \in Int
    BY <2>2
  <2> QED
    BY <2>2, <2>3 DEF w
<1> QED
  BY <1>1 DEF Wire!Put, Bytes

LEMMA AtReads ==
    ASSUME Wire!CodecsAssumption, NEW bytes, NEW offset \in Int, NEW width \in 1 .. 4,
           NEW n \in Wire!Numbers(width),
           \A i \in 1 .. width : bytes[offset + i] = Wire!Put(n, width)[i]
    PROVE  Wire!At(bytes, offset, width) = n
<1> DEFINE w == Wire!Weight
           h(i) == n \div w[width - i]
           Solves(f) == f = [i \in 0 .. width |->
                               IF i = 0 THEN 0 ELSE f[i - 1] * Base + bytes[offset + i]]
           f == [i \in 0 .. width |-> h(i)]
<1>1. /\ w[0] = 1 /\ Base \in Nat \ {0}
      /\ \A k \in 0 .. 3 : w[k + 1] = w[k] * Base
      /\ \A k \in 0 .. 4 : w[k] \in Nat \ {0}
  BY Weights4
<1>2. n \in Nat /\ n < w[width]
  BY <1>1 DEF Wire!Numbers
<1>3. \A i \in 1 .. width : bytes[offset + i] = h(i) % Base
  BY DEF Wire!Put
<1> HIDE DEF w
<1>4. h(0) = 0
  <2>1. width - 0 = width /\ w[width] \in Nat \ {0}
    BY <1>1
  <2> QED
    BY <1>2, <2>1, Quotients
<1>5. h(width) = n
  <2>1. width - width = 0
    OBVIOUS
  <2> QED
    BY <1>1, <1>2, <2>1
<1>6. ASSUME NEW i \in 1 .. width
      PROVE  h(i) = h(i - 1) * Base + bytes[offset + i] /\ h(i - 1) \in Nat
  <2> DEFINE m == w[width - i]
  <2>1. m \in Nat \ {0} /\ w[width - (i - 1)] = m * Base
    <3>1. width - i \in 0 .. 3 /\ width - (i - 1) = (width - i) + 1
      OBVIOUS
    <3> QED
      BY <1>1, <3>1
  <2> HIDE DEF m
  <2>2. n \div m = Base * (n \div (m * Base)) + ((n \div m) % Base)
    <3>1. n \in Nat /\ m \in Nat \ {0} /\ Base \in Nat \ {0}
      BY <1>1, <1>2, <2>1
    <3> QED
      BY <3>1, QuotientOfQuotient, Zenon
  <2>3. m * Base \in Nat \ {0}
    BY <1>1, <2>1
  <2> DEFINE mb == m * Base
             q == n \div mb
  <2> HIDE DEF mb
  <2>4. q \in Nat
    BY <1>2, <2>3, Division DEF mb
  <2> HIDE DEF q
  <2>5. Base * q = q * Base
    BY <1>1, <2>4
  <2> QED
    BY <1>3, <2>1, <2>2, <2>4, <2>5 DEF m, mb, q
<1> HIDE DEF h
<1>7. Solves(f)
  <2>1. \A i \in 0 .. width : f[i] = IF i = 0 THEN 0 ELSE f[i - 1] * Base + bytes[offset + i]
    <3> SUFFICES ASSUME NEW i \in 0 .. width
                 PROVE  f[i] = IF i = 0 THEN 0 ELSE f[i - 1] * Base + bytes[offset + i]
      OBVIOUS
    <3>1. CASE i = 0
      BY <1>4, <3>1
    <3>2. CASE i # 0
      <4>1. i \in 1 .. width /\ i - 1 \in 0 .. width
        BY <3>2
      <4> QED
        BY <1>6, <3>2, <4>1
    <3> QED
      BY <3>1, <3>2
  <2>2. f = [i \in 0 .. width |-> f[i]]
    OBVIOUS
  <2> HIDE DEF f
  <2> QED
    BY <2>1, <2>2
<1> DEFINE read == CHOOSE g : Solves(g)
<1>8. Wire!At(bytes, offset, width) = read[width]
  BY DEF Wire!At
<1>9. Solves(read)
  <2> HIDE DEF Solves, f
  <2> QED
    BY <1>7
<1> HIDE DEF read
<1>10. read = [i \in 0 .. width |-> IF i = 0 THEN 0 ELSE read[i - 1] * Base + bytes[offset + i]]
  BY <1>9
<1> DEFINE S == {k \in Nat : k <= width => read[k] = h(k)}
<1>11. 0 \in S
  BY <1>4, <1>10
<1>12. \A k \in S : k + 1 \in S
  <2> SUFFICES ASSUME NEW k \in Nat, k <= width => read[k] = h(k), k + 1 <= width
               PROVE  read[k + 1] = h(k + 1)
    OBVIOUS
  <2>1. k + 1 \in 1 .. width /\ k + 1 \in 0 .. width /\ k + 1 # 0 /\ (k + 1) - 1 = k /\ k <= width
    OBVIOUS
  <2>2. read[k + 1] = read[k] * Base + bytes[offset + (k + 1)]
    BY <1>10, <2>1
  <2>3. h(k + 1) = h(k) * Base + bytes[offset + (k + 1)]
    BY <1>6, <2>1
  <2> QED
    BY <2>1, <2>2, <2>3
<1>13. width \in S
  <2> HIDE DEF S
  <2>1. S \in SUBSET Nat
    BY DEF S
  <2> QED
    BY <1>11, <1>12, <2>1, AllNumbers
<1> QED
  BY <1>5, <1>8, <1>13

(***************************************************************************)
(* Where things lie in a datagram                                          *)
(***************************************************************************)
Lies(bytes, offset, s) ==
    offset + Len(s) <= Len(bytes) /\ \A i \in 1 .. Len(s) : bytes[offset + i] = s[i]

\* The parts of a concatenation lie one after the other.
LEMMA PartsLie ==
    ASSUME NEW S, NEW s \in Seq(S), NEW t \in Seq(S), NEW bytes \in Seq(S), NEW offset \in Nat,
           Lies(bytes, offset, s \o t)
    PROVE  Lies(bytes, offset, s) /\ Lies(bytes, offset + Len(s), t)
<1>1. Len(s) \in Nat /\ Len(t) \in Nat /\ Len(bytes) \in Nat
  BY LenProperties
<1>2. /\ Len(s \o t) = Len(s) + Len(t)
      /\ \A i \in 1 .. Len(s) + Len(t) :
            (s \o t)[i] = IF i <= Len(s) THEN s[i] ELSE t[i - Len(s)]
  BY ConcatProperties
<1> DEFINE st == s \o t
           m == Len(s)
           n == Len(t)
<1> HIDE DEF st
<1>3. /\ offset + (m + n) <= Len(bytes)
      /\ \A i \in 1 .. m + n : bytes[offset + i] = IF i <= m THEN s[i] ELSE t[i - m]
  BY <1>2 DEF Lies, st
<1> HIDE DEF m, n
<1>4. \A i \in 1 .. m : bytes[offset + i] = s[i]
  BY SMTT(60), <1>1, <1>3 DEF m, n
<1>5. \A j \in 1 .. n : bytes[(offset + m) + j] = t[j]
  <2> SUFFICES ASSUME NEW j \in 1 .. n PROVE bytes[(offset + m) + j] = t[j]
    OBVIOUS
  <2>1. m + j \in 1 .. m + n /\ ~(m + j <= m) /\ (m + j) - m = j /\ offset + (m + j) = (offset + m) + j
    BY <1>1 DEF m, n
  <2> QED
    BY <1>3, <2>1
<1> QED
  BY <1>1, <1>3, <1>4, <1>5 DEF Lies, m, n

LEMMA AllOfItLies ==
    ASSUME NEW S, NEW bytes \in Seq(S)
    PROVE  Lies(bytes, 0, bytes)
<1>1. Len(bytes) \in Nat
  BY LenProperties
<1> QED
  BY <1>1 DEF Lies

\* What lies in a part lies in the whole.
LEMMA PartOfAPart ==
    ASSUME NEW S, NEW bytes \in Seq(S), NEW s \in Seq(S), NEW t \in Seq(S), NEW o \in Nat, NEW p \in Nat,
           Lies(bytes, o, s), Lies(s, p, t)
    PROVE  Lies(bytes, o + p, t)
<1>1. Len(s) \in Nat /\ Len(t) \in Nat /\ Len(bytes) \in Nat
  BY LenProperties
<1>2. ASSUME NEW i \in 1 .. Len(t)
      PROVE  bytes[(o + p) + i] = t[i]
  <2>1. p + i \in 1 .. Len(s) /\ o + (p + i) = (o + p) + i
    BY <1>1 DEF Lies
  <2>2. s[p + i] = t[i] /\ bytes[o + (p + i)] = s[p + i]
    BY <2>1 DEF Lies
  <2> QED
    BY <2>1, <2>2
<1> QED
  BY SMTT(60), <1>1, <1>2 DEF Lies

LEMMA SliceIsIt ==
    ASSUME NEW S, NEW T, NEW bytes \in Seq(T), NEW offset \in Nat, NEW s \in Seq(S), Lies(bytes, offset, s)
    PROVE  SubSeq(bytes, offset + 1, offset + Len(s)) = s
<1> DEFINE t == SubSeq(bytes, offset + 1, offset + Len(s))
<1>1. Len(s) \in Nat /\ Len(bytes) \in Nat
  BY LenProperties
<1>2. \A i \in 1 .. Len(s) : bytes[offset + i] = s[i] /\ s[i] \in S
  BY ElementOfSeq DEF Lies
<1>3. \A i \in offset + 1 .. offset + Len(s) : bytes[i] \in S
  <2> SUFFICES ASSUME NEW i \in offset + 1 .. offset + Len(s) PROVE bytes[i] \in S
    OBVIOUS
  <2>1. i - offset \in 1 .. Len(s) /\ offset + (i - offset) = i
    BY <1>1
  <2> QED
    BY <1>2, <2>1
<1>4. /\ t \in Seq(S)
      /\ Len(t) = Len(s)
      /\ \A i \in 1 .. Len(s) : t[i] = bytes[offset + i]
  <2> DEFINE a == offset + 1
             b == offset + Len(s)
  <2>1. a \in Int /\ b \in Int /\ (IF a <= b THEN b - a + 1 ELSE 0) = Len(s) /\ b - a + 1 = Len(s)
    BY <1>1
  <2>2. \A i \in 1 .. Len(s) : a + i - 1 = offset + i
    BY <1>1
  <2> HIDE DEF a, b
  <2>3. /\ SubSeq(bytes, a, b) \in Seq(S)
        /\ Len(SubSeq(bytes, a, b)) = IF a <= b THEN b - a + 1 ELSE 0
        /\ \A i \in 1 .. b - a + 1 : SubSeq(bytes, a, b)[i] = bytes[a + i - 1]
    BY <1>3, <2>1, SubSeqProperties DEF a, b
  <2> QED
    BY <2>1, <2>2, <2>3 DEF a, b
<1> HIDE DEF t
<1>5. t = s
  BY <1>2, <1>4, SeqEqual
<1> QED
  BY <1>5 DEF t

LEMMA NumberLies ==
    ASSUME Wire!CodecsAssumption, NEW bytes \in Bytes, NEW offset \in Nat, NEW width \in 1 .. 4,
           NEW n \in Wire!Numbers(width), Lies(bytes, offset, Wire!Put(n, width))
    PROVE  Wire!At(bytes, offset, width) = n
<1>1. n \in Int
  BY Weights4 DEF Wire!Numbers
<1>2. Len(Wire!Put(n, width)) = width
  BY <1>1, PutIsBytes
<1>3. \A i \in 1 .. width : bytes[offset + i] = Wire!Put(n, width)[i]
  BY <1>2 DEF Lies
<1> QED
  BY <1>3, AtReads

\* Changes that leave a part alone.
LEMMA LiesStill ==
    ASSUME NEW S, NEW bytes \in Seq(S), NEW other \in Seq(S), NEW offset \in Nat, NEW s \in Seq(S),
           Lies(bytes, offset, s), offset + Len(s) <= Len(other),
           \A i \in offset + 1 .. offset + Len(s) : other[i] = bytes[i]
    PROVE  Lies(other, offset, s)
<1>1. Len(s) \in Nat
  BY LenProperties
<1>2. \A i \in 1 .. Len(s) : offset + i \in offset + 1 .. offset + Len(s)
  BY <1>1
<1> QED
  BY <1>2 DEF Lies

\* g[n] is the concatenation of the first n parts.
Sums(f, g, S) ==
    /\ g \in [0 .. Len(f) -> Seq(S)]
    /\ g[0] = <<>>
    /\ \A i \in 1 .. Len(f) : g[i] = g[i - 1] \o f[i]

LEMMA SumsExist ==
    ASSUME NEW S, NEW f \in Seq(Seq(S))
    PROVE  \E g : Sums(f, g, S)
<1> DEFINE V == Seq(S)
           n == Len(f)
           h == [p \in Nat \X V |-> IF p[1] < n THEN p[2] \o f[p[1] + 1] ELSE <<>>]
<1>1. n \in Nat /\ <<>> \in V /\ \A i \in 1 .. n : f[i] \in V
  BY LenProperties, EmptySeq, ElementOfSeq
<1>2. \A s, t \in V : s \o t \in V
  BY ConcatProperties
<1> HIDE DEF V, n
<1>3. h \in [Nat \X V -> V]
  <2>1. ASSUME NEW p \in Nat \X V
        PROVE  (IF p[1] < n THEN p[2] \o f[p[1] + 1] ELSE <<>>) \in V
    <3>1. p[1] \in Nat /\ p[2] \in V
      OBVIOUS
    <3>2. CASE p[1] < n
      <4>1. f[p[1] + 1] \in V
        BY <1>1, <3>1, <3>2
      <4> QED
        BY <1>2, <3>1, <3>2, <4>1
    <3>3. CASE ~(p[1] < n)
      BY <1>1, <3>3
    <3> QED
      BY <3>2, <3>3
  <2> QED
    BY <2>1
<1>4. PICK g : IsLoop(g, V, <<>>, h, n)
  <2> HIDE DEF h
  <2> QED
    BY <1>1, <1>3, Loops
<1>5. g \in [0 .. n -> V] /\ g[0] = <<>>
  BY <1>4 DEF IsLoop
<1>6. ASSUME NEW i \in 1 .. n
      PROVE  g[i] = g[i - 1] \o f[i]
  <2>1. i - 1 \in Nat /\ i - 1 \in 0 .. n /\ i - 1 < n /\ (i - 1) + 1 = i
    BY <1>1
  <2>2. g[i - 1] \in V
    BY <1>5, <2>1
  <2> DEFINE p == <<i - 1, g[i - 1]>>
  <2>3. p \in Nat \X V /\ p[1] = i - 1 /\ p[2] = g[i - 1]
    BY <2>1, <2>2
  <2>4. g[i] = h[p]
    <3> HIDE DEF h
    <3> QED
      BY <1>4 DEF IsLoop
  <2> HIDE DEF p
  <2> QED
    BY <2>1, <2>3, <2>4
<1> QED
  BY <1>5, <1>6 DEF Sums, V, n

LEMMA FlattenIsSum ==
    ASSUME NEW S, NEW f \in Seq(Seq(S)), NEW g, Sums(f, g, S)
    PROVE  Wire!FlattenSeq(f) = g[Len(f)]
<1> DEFINE n == Len(f)
           Solves(x) == x = [i \in 1 .. n |-> IF i = 1 THEN f[i] ELSE x[i - 1] \o f[i]]
           flat == CHOOSE x : Solves(x)
           most == [i \in 1 .. n |-> g[i]]
<1>1. n \in Nat /\ \A i \in 1 .. n : f[i] \in Seq(S)
  BY LenProperties, ElementOfSeq
<1>2. Wire!FlattenSeq(f) = IF n = 0 THEN f ELSE flat[n]
  BY DEF Wire!FlattenSeq
<1>3. CASE n = 0
  <2>1. f = <<>>
    BY <1>3, EmptySeq
  <2> QED
    BY <1>2, <1>3, <2>1 DEF Sums
<1>4. CASE n # 0
  <2> HIDE DEF n
  <2>1. Sums(f, g, S) /\ n = Len(f)
    BY DEF n
  <2>2. g[1] = f[1] /\ \A i \in 1 .. n : i # 1 => g[i] = g[i - 1] \o f[i]
    <3>1. 1 \in 1 .. n /\ 1 - 1 = 0
      BY <1>1, <1>4
    <3>2. g[1] = <<>> \o f[1]
      BY <2>1, <3>1 DEF Sums
    <3>3. <<>> \o f[1] = f[1]
      BY <1>1, <3>1, ConcatEmptySeq
    <3> QED
      BY <2>1, <3>2, <3>3 DEF Sums
  <2>3. Solves(most)
    <3>1. ASSUME NEW i \in 1 .. n
          PROVE  most[i] = IF i = 1 THEN f[i] ELSE most[i - 1] \o f[i]
      <4>1. i # 1 => i - 1 \in 1 .. n
        BY <1>1
      <4> QED
        BY <2>2, <4>1
    <3>2. most = [i \in 1 .. n |-> most[i]]
      OBVIOUS
    <3> HIDE DEF most
    <3> QED
      BY <3>1, <3>2
  <2>4. Solves(flat)
    <3> HIDE DEF Solves, most
    <3> QED
      BY <2>3
  <2> HIDE DEF flat
  <2>5. flat = [i \in 1 .. n |-> IF i = 1 THEN f[i] ELSE flat[i - 1] \o f[i]]
    BY <2>4
  <2> DEFINE K == {k \in Nat : k + 1 <= n => flat[k + 1] = g[k + 1]}
  <2>6. 0 \in K
    BY <1>1, <1>4, <2>2, <2>5
  <2>7. \A k \in K : k + 1 \in K
    <3> SUFFICES ASSUME NEW k \in Nat, k + 1 <= n => flat[k + 1] = g[k + 1], (k + 1) + 1 <= n
                 PROVE  flat[(k + 1) + 1] = g[(k + 1) + 1]
      OBVIOUS
    <3> DEFINE i == (k + 1) + 1
    <3>1. i \in 1 .. n /\ i # 1 /\ i - 1 = k + 1 /\ k + 1 <= n
      BY <1>1
    <3> HIDE DEF i
    <3>2. flat[i] = flat[i - 1] \o f[i] /\ g[i] = g[i - 1] \o f[i]
      BY <2>2, <2>5, <3>1
    <3> QED
      BY <3>1, <3>2 DEF i
  <2>8. \A k \in Nat : k \in K
    <3> HIDE DEF K
    <3>1. K \in SUBSET Nat
      BY DEF K
    <3> QED
      BY <2>6, <2>7, <3>1, AllNumbers
  <2>9. n - 1 \in Nat /\ (n - 1) + 1 = n
    BY <1>1, <1>4
  <2>10. flat[n] = g[n]
    BY <2>8, <2>9
  <2> QED
    BY <1>2, <1>4, <2>10 DEF n
<1> QED
  BY <1>3, <1>4

LEMMA FlattenOfSome ==
    ASSUME NEW S, NEW f \in Seq(Seq(S)), NEW g, Sums(f, g, S), NEW n \in 0 .. Len(f),
           NEW e \in Seq(Seq(S)), Len(e) = n, \A i \in 1 .. n : e[i] = f[i]
    PROVE  Wire!FlattenSeq(e) = g[n]
<1> DEFINE p == [i \in 0 .. n |-> g[i]]
<1>1. Len(f) \in Nat
  BY LenProperties
<1>2. Sums(e, p, S)
  <2>1. p \in [0 .. n -> Seq(S)] /\ p[0] = <<>>
    <3>1. /\ \A i \in 0 .. n : g[i] \in Seq(S)
          /\ g[0] = <<>> /\ 0 \in 0 .. n
      <4> DEFINE V == Seq(S)
                 l == Len(f)
      <4>1. g \in [0 .. l -> V] /\ g[0] = <<>>
        BY DEF Sums
      <4>2. l \in Nat /\ n \in 0 .. l
        BY <1>1
      <4> HIDE DEF V, l
      <4>3. 0 .. n \subseteq 0 .. l /\ 0 \in 0 .. n
        BY <4>2
      <4>4. \A i \in 0 .. n : g[i] \in V
        BY <4>1, <4>3
      <4> QED
        BY <4>1, <4>3, <4>4 DEF V
    <3>2. p \in [0 .. n -> Seq(S)]
      BY <3>1, Zenon
    <3>3. p[0] = <<>>
      BY <3>1, Zenon
    <3> QED
      BY <3>2, <3>3
  <2>2. ASSUME NEW i \in 1 .. n
        PROVE  p[i] = p[i - 1] \o e[i]
    <3>1. i \in 1 .. Len(f) /\ i - 1 \in 0 .. n /\ i \in 0 .. n
      BY <1>1
    <3>2. g[i] = g[i - 1] \o f[i]
      BY <3>1 DEF Sums
    <3> QED
      BY <3>1, <3>2
  <2> HIDE DEF p
  <2> QED
    BY <2>1, <2>2 DEF Sums
<1>3. p[n] = g[n]
  BY <1>1
<1> HIDE DEF p
<1> QED
  BY <1>2, <1>3, FlattenIsSum

\* Every part lies after those before it.
LEMMA FlattenedLie ==
    ASSUME NEW S, NEW f \in Seq(Seq(S)), NEW g, Sums(f, g, S),
           NEW s \in Seq(S), NEW offset \in Nat, Lies(s, offset, Wire!FlattenSeq(f))
    PROVE  \A k \in 1 .. Len(f) : Lies(s, offset + Len(g[k - 1]), f[k])
<1> DEFINE n == Len(f)
           K == {j \in Nat : j <= n => Lies(s, offset, g[n - j])}
<1>1. n \in Nat /\ \A i \in 1 .. n : f[i] \in Seq(S)
  BY LenProperties, ElementOfSeq
<1>2. /\ \A i \in 0 .. n : g[i] \in Seq(S)
      /\ \A i \in 1 .. n : g[i] = g[i - 1] \o f[i]
  BY DEF Sums
<1>3. Lies(s, offset, g[n])
  BY FlattenIsSum
<1> HIDE DEF n
<1>4. 0 \in K
  BY <1>1, <1>3
<1>5. ASSUME NEW i \in 1 .. n, Lies(s, offset, g[i])
      PROVE  Lies(s, offset, g[i - 1]) /\ Lies(s, offset + Len(g[i - 1]), f[i])
  <2>1. g[i - 1] \in Seq(S) /\ f[i] \in Seq(S)
    <3>1. i - 1 \in 0 .. n
      BY <1>1
    <3> QED
      BY <1>1, <1>2, <3>1
  <2>2. Lies(s, offset, g[i - 1] \o f[i])
    <3>1. g[i] = g[i - 1] \o f[i]
      BY <1>2
    <3> QED
      BY <1>5, <3>1
  <2> QED
    BY <2>1, <2>2, PartsLie
<1>6. \A j \in K : j + 1 \in K
  <2> SUFFICES ASSUME NEW j \in Nat, j <= n => Lies(s, offset, g[n - j]), j + 1 <= n
               PROVE  Lies(s, offset, g[n - (j + 1)])
    OBVIOUS
  <2>1. n - j \in 1 .. n /\ (n - j) - 1 = n - (j + 1) /\ j <= n
    BY <1>1
  <2> QED
    BY <1>5, <2>1
<1>7. \A j \in Nat : j \in K
  <2> HIDE DEF K
  <2>1. K \in SUBSET Nat
    BY DEF K
  <2> QED
    BY <1>4, <1>6, <2>1, AllNumbers
<1>8. ASSUME NEW k \in 1 .. n
      PROVE  Lies(s, offset + Len(g[k - 1]), f[k])
  <2>1. n - k \in Nat /\ n - k <= n /\ n - (n - k) = k
    BY <1>1
  <2>2. Lies(s, offset, g[k])
    BY <1>7, <2>1
  <2> QED
    BY <1>5, <2>2
<1> QED
  BY <1>8 DEF n

\* Five parts and what lies where.
Five(a, b, c, d, e) == a \o b \o c \o d \o e

IsFive(s, a, b, c, d, e) ==
    /\ s \in Bytes
    /\ Len(s) = Len(a) + Len(b) + Len(c) + Len(d) + Len(e)
    /\ \A bytes \in Bytes, o \in Nat : Lies(bytes, o, s) =>
         /\ Lies(bytes, o, a) /\ Lies(bytes, o + Len(a), b)
         /\ Lies(bytes, o + Len(a) + Len(b), c)
         /\ Lies(bytes, o + Len(a) + Len(b) + Len(c), d)
         /\ Lies(bytes, o + Len(a) + Len(b) + Len(c) + Len(d), e)

LEMMA FiveLie ==
    ASSUME NEW a \in Bytes, NEW b \in Bytes, NEW c \in Bytes, NEW d \in Bytes, NEW e \in Bytes
    PROVE  IsFive(Five(a, b, c, d, e), a, b, c, d, e)
<1> DEFINE c2 == a \o b
           c3 == c2 \o c
           c4 == c3 \o d
           c5 == c4 \o e
           Joined(s, t, u) == u \in Bytes /\ Len(u) = Len(s) + Len(t)
                                /\ \A bytes \in Bytes, o \in Nat : Lies(bytes, o, u) =>
                                     Lies(bytes, o, s) /\ Lies(bytes, o + Len(s), t)
<1>1. \A s, t \in Bytes : Joined(s, t, s \o t)
  BY ConcatProperties, PartsLie DEF Bytes
<1>2. \A s, t \in Bytes : Joined(s, t, s \o t) /\ s \o t \in Bytes
  BY <1>1
<1>3. Joined(a, b, c2) /\ c2 \in Bytes
  <2> HIDE DEF Joined
  <2> QED
    BY <1>2
<1> HIDE DEF c2
<1>4. Joined(c2, c, c3) /\ c3 \in Bytes
  <2> HIDE DEF Joined
  <2> QED
    BY <1>2, <1>3
<1> HIDE DEF c3
<1>5. Joined(c3, d, c4) /\ c4 \in Bytes
  <2> HIDE DEF Joined
  <2> QED
    BY <1>2, <1>4
<1> HIDE DEF c4
<1>6. Joined(c4, e, c5) /\ c5 \in Bytes
  <2> HIDE DEF Joined
  <2> QED
    BY <1>2, <1>5
<1>7. c5 = Five(a, b, c, d, e)
  BY DEF Five, c2, c3, c4
<1> HIDE DEF c5
<1>8. \A s \in Bytes : Len(s) \in Nat
  BY LenProperties DEF Bytes
<1>9. c5 \in Bytes /\ Len(c5) = Len(a) + Len(b) + Len(c) + Len(d) + Len(e)
  BY <1>3, <1>4, <1>5, <1>6
<1>10. ASSUME NEW bytes \in Bytes, NEW o \in Nat, Lies(bytes, o, c5)
       PROVE  /\ Lies(bytes, o, a) /\ Lies(bytes, o + Len(a), b)
              /\ Lies(bytes, o + Len(a) + Len(b), c)
              /\ Lies(bytes, o + Len(a) + Len(b) + Len(c), d)
              /\ Lies(bytes, o + Len(a) + Len(b) + Len(c) + Len(d), e)
  <2>1. /\ o + Len(c2) = o + Len(a) + Len(b)
        /\ o + Len(c3) = o + Len(a) + Len(b) + Len(c)
        /\ o + Len(c4) = o + Len(a) + Len(b) + Len(c) + Len(d)
    BY <1>3, <1>4, <1>5, <1>8
  <2>2. Lies(bytes, o, c4) /\ Lies(bytes, o + Len(c4), e)
    BY <1>6, <1>10
  <2>3. Lies(bytes, o, c3) /\ Lies(bytes, o + Len(c3), d)
    BY <1>5, <2>2
  <2>4. Lies(bytes, o, c2) /\ Lies(bytes, o + Len(c2), c)
    BY <1>4, <2>3
  <2>5. Lies(bytes, o, a) /\ Lies(bytes, o + Len(a), b)
    BY <1>3, <2>4
  <2> HIDE DEF Joined
  <2> QED
    BY <2>1, <2>2, <2>3, <2>4, <2>5
<1> QED
  BY <1>7, <1>9, <1>10 DEF IsFive

IsTwo(s, a, b) ==
    /\ s \in Bytes
    /\ Len(s) = Len(a) + Len(b)
    /\ \A bytes \in Bytes, o \in Nat : Lies(bytes, o, s) =>
         Lies(bytes, o, a) /\ Lies(bytes, o + Len(a), b)

LEMMA TwoLie ==
    ASSUME NEW a \in Bytes, NEW b \in Bytes
    PROVE  IsTwo(a \o b, a, b)
BY ConcatProperties, PartsLie DEF Bytes, IsTwo

LEMMA FewBytes ==
    ASSUME NEW n \in 1 .. 4, NEW s, s \in [1 .. n -> Int]
    PROVE  /\ s \in Bytes /\ Len(s) = n
           /\ \A bytes \in Bytes, o \in Nat : Lies(bytes, o, s) =>
                \A i \in 1 .. n : bytes[o + i] = s[i]
<1>1. s \in Bytes
  BY SeqDef DEF Bytes
<1>2. Len(s) = n
  BY <1>1, LenProperties DEF Bytes
<1> QED
  BY <1>1, <1>2 DEF Lies

AreFour(s, a, b, c, d) ==
    /\ s \in Bytes /\ Len(s) = 4
    /\ \A bytes \in Bytes, o \in Nat : Lies(bytes, o, s) =>
         bytes[o + 1] = a /\ bytes[o + 2] = b /\ bytes[o + 3] = c /\ bytes[o + 4] = d

LEMMA FourBytes ==
    ASSUME NEW a \in Int, NEW b \in Int, NEW c \in Int, NEW d \in Int
    PROVE  AreFour(<<a, b, c, d>>, a, b, c, d)
<1> DEFINE s == <<a, b, c, d>>
<1>1. s[1] = a /\ s[2] = b /\ s[3] = c /\ s[4] = d
  OBVIOUS
<1>2. s \in [1 .. 4 -> Int]
  OBVIOUS
<1> HIDE DEF s
<1>3. s \in Bytes /\ Len(s) = 4
  BY <1>2, FewBytes
<1>4. \A bytes \in Bytes, o \in Nat : Lies(bytes, o, s) =>
         bytes[o + 1] = a /\ bytes[o + 2] = b /\ bytes[o + 3] = c /\ bytes[o + 4] = d
  BY <1>1, <1>3 DEF Lies
<1> QED
  BY <1>3, <1>4 DEF s, AreFour

AreTwo(s, a, b) ==
    /\ s \in Bytes /\ Len(s) = 2
    /\ \A bytes \in Bytes, o \in Nat : Lies(bytes, o, s) =>
         bytes[o + 1] = a /\ bytes[o + 2] = b

LEMMA TwoBytes ==
    ASSUME NEW a \in Int, NEW b \in Int
    PROVE  AreTwo(<<a, b>>, a, b)
<1> DEFINE s == <<a, b>>
<1>1. s[1] = a /\ s[2] = b
  OBVIOUS
<1>2. s \in [1 .. 2 -> Int]
  OBVIOUS
<1> HIDE DEF s
<1>3. s \in Bytes /\ Len(s) = 2
  BY <1>2, FewBytes
<1>4. \A bytes \in Bytes, o \in Nat : Lies(bytes, o, s) => bytes[o + 1] = a /\ bytes[o + 2] = b
  BY <1>1, <1>3 DEF Lies
<1> QED
  BY <1>3, <1>4 DEF s, AreTwo

\* A number on its own, written and read.
IsNumber(s, n, width) ==
    /\ s \in Bytes /\ Len(s) = width
    /\ \A bytes \in Bytes, o \in Nat : Lies(bytes, o, s) => Wire!At(bytes, o, width) = n

LEMMA NumbersLie ==
    ASSUME Wire!CodecsAssumption, NEW width \in 1 .. 4, NEW n \in Wire!Numbers(width)
    PROVE  IsNumber(Wire!Put(n, width), n, width)
<1>1. n \in Int
  BY DEF Wire!Numbers
<1> QED
  BY <1>1, PutIsBytes, NumberLies DEF IsNumber

(***************************************************************************)
(* What was cut or grew                                                    *)
(***************************************************************************)
CutOrLonger(whole, bytes) ==
    \/ \E n \in 0 .. Len(whole) - 1 : bytes = SubSeq(whole, 1, n)
    \/ bytes = Append(whole, 0)

\* It has another length, and what it still holds is as it was.
LEMMA BeginsAsBefore ==
    ASSUME NEW whole \in Bytes, NEW bytes, CutOrLonger(whole, bytes),
           NEW o \in Nat, NEW s \in Bytes, Lies(whole, o, s)
    PROVE  /\ bytes \in Bytes /\ Len(bytes) # Len(whole)
           /\ Len(bytes) >= o + Len(s) => Lies(bytes, o, s)
<1>1. Len(whole) \in Nat /\ Len(s) \in Nat /\ o + Len(s) <= Len(whole)
  BY LenProperties DEF Bytes, Lies
<1>2. ASSUME NEW m \in Nat, bytes \in Bytes, Len(bytes) = m, m # Len(whole),
             \A i \in 1 .. m : i <= Len(whole) => bytes[i] = whole[i]
      PROVE  /\ bytes \in Bytes /\ Len(bytes) # Len(whole)
             /\ Len(bytes) >= o + Len(s) => Lies(bytes, o, s)
  <2> SUFFICES ASSUME m >= o + Len(s) PROVE Lies(bytes, o, s)
    BY <1>2
  <2>1. \A i \in 1 .. Len(s) : o + i \in 1 .. m /\ o + i <= Len(whole)
    BY <1>1
  <2>2. \A i \in 1 .. Len(s) : whole[o + i] = s[i]
    BY DEF Lies
  <2>3. \A i \in 1 .. Len(s) : bytes[o + i] = s[i]
    BY <1>2, <2>1, <2>2
  <2>4. o + Len(s) <= Len(bytes)
    BY <1>1, <1>2
  <2> QED
    BY <2>3, <2>4 DEF Lies
<1>3. ASSUME NEW n \in 0 .. Len(whole) - 1, bytes = SubSeq(whole, 1, n)
      PROVE  /\ bytes \in Bytes /\ Len(bytes) = n /\ n \in Nat /\ n # Len(whole)
             /\ \A i \in 1 .. n : i <= Len(whole) => bytes[i] = whole[i]
  <2>1. \A i \in 1 .. n : whole[i] \in Int
    <3>1. \A i \in 1 .. n : i \in 1 .. Len(whole)
      BY <1>1
    <3> QED
      BY <3>1, ElementOfSeq DEF Bytes
  <2>2. n \in Nat /\ 1 \in Nat /\ n - 1 + 1 = n /\ (IF 1 <= n THEN n - 1 + 1 ELSE 0) = n /\ n # Len(whole)
    BY <1>1
  <2>3. /\ bytes \in Seq(Int) /\ Len(bytes) = IF 1 <= n THEN n - 1 + 1 ELSE 0
        /\ \A i \in 1 .. n - 1 + 1 : bytes[i] = whole[1 + i - 1]
    BY SMTT(60), <1>3, <2>1, <2>2, SubSeqProperties DEF Bytes
  <2>4. \A i \in 1 .. n : 1 + i - 1 = i
    BY <2>2
  <2> QED
    BY <2>2, <2>3, <2>4 DEF Bytes
<1>4. ASSUME bytes = Append(whole, 0)
      PROVE  /\ bytes \in Bytes /\ Len(bytes) = Len(whole) + 1
             /\ Len(whole) + 1 \in Nat /\ Len(whole) + 1 # Len(whole)
             /\ \A i \in 1 .. Len(whole) + 1 : i <= Len(whole) => bytes[i] = whole[i]
  <2>1. /\ bytes \in Seq(Int) /\ Len(bytes) = Len(whole) + 1
        /\ \A i \in 1 .. Len(whole) : bytes[i] = whole[i]
    BY <1>4, AppendProperties DEF Bytes
  <2> QED
    BY SMTT(60), <1>1, <2>1 DEF Bytes
<1> QED
  BY <1>2, <1>3, <1>4 DEF CutOrLonger

(***************************************************************************)
(* SOME/IP                                                                 *)
(***************************************************************************)
Messages == [service : Wire!Numbers(2), method : Wire!Numbers(2), client : Wire!Numbers(2),
             session : Wire!Numbers(2), version : Int, type : Wire!MessageTypes, code : Int,
             payload : Bytes]

Header(m) ==
    Five(Wire!Put(m.service, 2), Wire!Put(m.method, 2), Wire!Put(8 + Len(m.payload), 4),
         Wire!Put(m.client, 2), Wire!Put(m.session, 2))
      \o <<1, m.version, m.type, m.code>>

LEMMA MessageFields ==
    ASSUME Wire!CodecsAssumption, NEW m \in Messages
    PROVE  /\ m.service \in Wire!Numbers(2) /\ m.method \in Wire!Numbers(2)
           /\ m.client \in Wire!Numbers(2) /\ m.session \in Wire!Numbers(2)
           /\ m.version \in Int /\ m.type \in Int /\ m.code \in Int
           /\ m.type \in Wire!MessageTypes
           /\ m.payload \in Bytes /\ Len(m.payload) \in Nat
<1>1. Wire!MessageTypes \subseteq Int
  <2>1. Base \in Nat
    BY Weights4
  <2> QED
    BY <2>1 DEF Wire!MessageTypes
<1>2. m.payload \in Bytes
  BY DEF Messages
<1>3. Len(m.payload) \in Nat
  BY <1>2, LenProperties DEF Bytes
<1> QED
  BY <1>1, <1>2, <1>3 DEF Messages

HeaderIs(bytes, m) ==
    /\ Wire!At(bytes, 0, 2) = m.service /\ Wire!At(bytes, 2, 2) = m.method
    /\ Wire!At(bytes, 4, 4) = 8 + Len(m.payload)
    /\ Wire!At(bytes, 8, 2) = m.client /\ Wire!At(bytes, 10, 2) = m.session
    /\ bytes[13] = 1 /\ bytes[14] = m.version
    /\ bytes[15] = m.type /\ bytes[16] = m.code

LEMMA HeaderLies ==
    ASSUME Wire!CodecsAssumption, NEW m \in Messages, 8 + Len(m.payload) \in Wire!Numbers(4)
    PROVE  /\ Header(m) \in Bytes /\ Len(Header(m)) = 16
           /\ \A bytes \in Bytes : Lies(bytes, 0, Header(m)) => HeaderIs(bytes, m)
<1> DEFINE l == 8 + Len(m.payload)
           p1 == Wire!Put(m.service, 2)
           p2 == Wire!Put(m.method, 2)
           p3 == Wire!Put(l, 4)
           p4 == Wire!Put(m.client, 2)
           p5 == Wire!Put(m.session, 2)
           p6 == <<1, m.version, m.type, m.code>>
           c == Five(p1, p2, p3, p4, p5)
<1>0. /\ m.service \in Wire!Numbers(2) /\ m.method \in Wire!Numbers(2)
      /\ m.client \in Wire!Numbers(2) /\ m.session \in Wire!Numbers(2)
  BY MessageFields
<1>1. /\ IsNumber(p1, m.service, 2) /\ IsNumber(p2, m.method, 2)
      /\ IsNumber(p4, m.client, 2) /\ IsNumber(p5, m.session, 2)
  BY <1>0, NumbersLie
<1>2. IsNumber(p3, l, 4)
  <2>1. l \in Wire!Numbers(4)
    OBVIOUS
  <2> HIDE DEF l
  <2> QED
    BY <2>1, NumbersLie
<1>3. AreFour(p6, 1, m.version, m.type, m.code)
  <2>1. 1 \in Int /\ m.version \in Int /\ m.type \in Int /\ m.code \in Int
    BY MessageFields
  <2> QED
    BY <2>1, FourBytes
<1>7. Header(m) = c \o p6
  BY DEF Header
<1> HIDE DEF p1, p2, p3, p4, p5, p6
<1>4. /\ p1 \in Bytes /\ p2 \in Bytes /\ p3 \in Bytes /\ p4 \in Bytes /\ p5 \in Bytes /\ p6 \in Bytes
      /\ Len(p1) = 2 /\ Len(p2) = 2 /\ Len(p3) = 4 /\ Len(p4) = 2 /\ Len(p5) = 2 /\ Len(p6) = 4
  BY <1>1, <1>2, <1>3 DEF IsNumber, AreFour
<1>5. IsFive(c, p1, p2, p3, p4, p5)
  BY <1>4, FiveLie
<1> HIDE DEF c, l
<1>6. c \in Bytes /\ Len(c) = 12
  BY <1>4, <1>5 DEF IsFive
<1>8. IsTwo(c \o p6, c, p6)
  BY <1>4, <1>6, TwoLie
<1>9. c \o p6 \in Bytes /\ Len(c \o p6) = 16
  BY <1>4, <1>6, <1>8 DEF IsTwo
<1>10. ASSUME NEW bytes \in Bytes, Lies(bytes, 0, c \o p6)
       PROVE  HeaderIs(bytes, m)
  <2>1. /\ 0 \in Nat /\ 0 + Len(p1) = 2 /\ 0 + Len(p1) + Len(p2) = 4
        /\ 0 + Len(p1) + Len(p2) + Len(p3) = 8
        /\ 0 + Len(p1) + Len(p2) + Len(p3) + Len(p4) = 10
        /\ 0 + Len(c) = 12
    BY <1>4, <1>6
  <2>2. Lies(bytes, 0, c) /\ Lies(bytes, 12, p6)
    BY <1>8, <1>10, <2>1 DEF IsTwo
  <2>3. /\ Lies(bytes, 0, p1) /\ Lies(bytes, 2, p2) /\ Lies(bytes, 4, p3)
        /\ Lies(bytes, 8, p4) /\ Lies(bytes, 10, p5)
    BY <1>5, <2>1, <2>2 DEF IsFive
  <2>4. /\ Wire!At(bytes, 0, 2) = m.service /\ Wire!At(bytes, 2, 2) = m.method
        /\ Wire!At(bytes, 4, 4) = l
        /\ Wire!At(bytes, 8, 2) = m.client /\ Wire!At(bytes, 10, 2) = m.session
    BY <1>1, <1>2, <2>3 DEF IsNumber
  <2>5. /\ bytes[12 + 1] = 1 /\ bytes[12 + 2] = m.version
        /\ bytes[12 + 3] = m.type /\ bytes[12 + 4] = m.code
    BY <1>3, <2>2 DEF AreFour
  <2> QED
    BY <2>4, <2>5 DEF HeaderIs, l
<1> QED
  BY <1>7, <1>9, <1>10

MessageBytes(m) == Header(m) \o m.payload

LEMMA SerializeIsMessage ==
    ASSUME NEW m \in Messages
    PROVE  Wire!Serialize(m) = <<MessageBytes(m)>>
BY DEF Wire!Serialize, MessageBytes, Header, Five

\* A message of one's own is read back whole ...
LEMMA MessageIsRead ==
    ASSUME Wire!CodecsAssumption, NEW m \in Messages, 8 + Len(m.payload) \in Wire!Numbers(4)
    PROVE  /\ MessageBytes(m) \in Bytes /\ Len(MessageBytes(m)) = 16 + Len(m.payload)
           /\ Wire!Deserialize(MessageBytes(m)) = <<m>>
<1> DEFINE h == Header(m)
           t == m.payload
           bytes == h \o t
<1>1. h \in Bytes /\ Len(h) = 16 /\ t \in Bytes /\ Len(t) \in Nat
  BY HeaderLies, MessageFields
<1>2. \A b \in Bytes : Lies(b, 0, h) => HeaderIs(b, m)
  BY HeaderLies
<1> HIDE DEF h, t
<1>3. IsTwo(bytes, h, t)
  BY <1>1, TwoLie
<1> HIDE DEF bytes
<1>4. bytes \in Bytes /\ Len(bytes) = 16 + Len(t)
  BY <1>1, <1>3 DEF IsTwo
<1>5. Lies(bytes, 0, h) /\ Lies(bytes, 16, t)
  <2>1. Lies(bytes, 0, bytes)
    BY <1>4, AllOfItLies DEF Bytes
  <2>2. 0 + Len(h) = 16 /\ 0 \in Nat
    BY <1>1
  <2> QED
    BY <1>3, <1>4, <2>1, <2>2 DEF IsTwo
<1>6. HeaderIs(bytes, m)
  BY <1>2, <1>4, <1>5
<1>7. SubSeq(bytes, 17, Len(bytes)) = t
  <2>1. SubSeq(bytes, 16 + 1, 16 + Len(t)) = t
    BY ZenonT(60), <1>1, <1>4, <1>5, SliceIsIt DEF Bytes
  <2>2. 16 + 1 = 17
    OBVIOUS
  <2> QED
    BY <1>4, <2>1, <2>2
<1>8. m.type \in Wire!MessageTypes
  BY MessageFields
<1>9. m = [service |-> m.service, method |-> m.method, client |-> m.client, session |-> m.session,
           version |-> m.version, type |-> m.type, code |-> m.code, payload |-> m.payload]
  BY DEF Messages
<1>10. /\ Len(bytes) >= 16 /\ Wire!At(bytes, 4, 4) >= 8
       /\ Len(bytes) = 16 + Wire!At(bytes, 4, 4) - 8
       /\ bytes[13] = 1 /\ bytes[15] \in Wire!MessageTypes
  BY SMTT(60), <1>1, <1>4, <1>6, <1>8 DEF HeaderIs, t
<1>11. [service |-> Wire!At(bytes, 0, 2), method |-> Wire!At(bytes, 2, 2),
        client |-> Wire!At(bytes, 8, 2), session |-> Wire!At(bytes, 10, 2),
        version |-> bytes[14], type |-> bytes[15], code |-> bytes[16],
        payload |-> SubSeq(bytes, 17, Len(bytes))] = m
  BY <1>6, <1>7, <1>9 DEF HeaderIs, t
<1>12. Wire!Deserialize(bytes) = <<m>>
  BY <1>10, <1>11 DEF Wire!Deserialize
<1> QED
  BY <1>4, <1>12 DEF MessageBytes, bytes, h, t

\* ... and refused when it was cut or grew.
LEMMA NoOtherLength ==
    ASSUME Wire!CodecsAssumption, NEW m \in Messages, 8 + Len(m.payload) \in Wire!Numbers(4),
           NEW bytes, CutOrLonger(MessageBytes(m), bytes)
    PROVE  Wire!Deserialize(bytes) = <<>>
<1> DEFINE h == Header(m)
           t == m.payload
           whole == h \o t
<1>1. h \in Bytes /\ Len(h) = 16 /\ t \in Bytes /\ Len(t) \in Nat
  BY HeaderLies, MessageFields
<1>2. \A b \in Bytes : Lies(b, 0, h) => HeaderIs(b, m)
  BY HeaderLies
<1>3. whole = MessageBytes(m)
  BY DEF MessageBytes
<1> HIDE DEF h, t
<1>4. IsTwo(whole, h, t)
  BY <1>1, TwoLie
<1> HIDE DEF whole
<1>5. whole \in Bytes /\ Len(whole) = 16 + Len(t)
  BY <1>1, <1>4 DEF IsTwo
<1>6. Lies(whole, 0, h)
  <2>1. Lies(whole, 0, whole)
    BY <1>5, AllOfItLies DEF Bytes
  <2>2. 0 \in Nat
    OBVIOUS
  <2> QED
    BY <1>4, <1>5, <2>1, <2>2 DEF IsTwo
<1>7. /\ bytes \in Bytes /\ Len(bytes) # Len(whole)
      /\ Len(bytes) >= 0 + Len(h) => Lies(bytes, 0, h)
  <2>1. 0 \in Nat /\ CutOrLonger(whole, bytes)
    BY <1>3
  <2> QED
    BY <1>1, <1>5, <1>6, <2>1, BeginsAsBefore
<1>8. Len(bytes) \in Nat
  BY <1>7, LenProperties DEF Bytes
<1>9. CASE Len(bytes) >= 16
  <2>1. HeaderIs(bytes, m)
    BY <1>1, <1>2, <1>7, <1>9
  <2>2. Wire!At(bytes, 4, 4) = 8 + Len(t)
    BY <2>1 DEF HeaderIs, t
  <2>3. Len(bytes) # 16 + Wire!At(bytes, 4, 4) - 8
    BY <1>1, <1>5, <1>7, <2>2
  <2> QED
    BY <2>3 DEF Wire!Deserialize
<1>10. CASE ~(Len(bytes) >= 16)
  BY <1>10 DEF Wire!Deserialize
<1> QED
  BY <1>9, <1>10

(***************************************************************************)
(* Parts of one size                                                       *)
(***************************************************************************)
IsTable(s, f, w) ==
    /\ s \in Bytes
    /\ Len(s) = Len(f) * w
    /\ \A bytes \in Bytes, o \in Nat : Lies(bytes, o, s) =>
         \A k \in 1 .. Len(f) : Lies(bytes, o + (k - 1) * w, f[k])

LEMMA TableLies ==
    ASSUME NEW f \in Seq(Bytes), NEW w \in Nat, \A i \in 1 .. Len(f) : Len(f[i]) = w
    PROVE  IsTable(Wire!FlattenSeq(f), f, w)
<1>1. Len(f) \in Nat
  BY LenProperties
<1>2. PICK g : Sums(f, g, Int)
  BY SumsExist DEF Bytes
<1> DEFINE n == Len(f)
           s == Wire!FlattenSeq(f)
           K == {k \in Nat : k <= n => Len(g[k]) = k * w}
<1>3. s = g[n]
  BY <1>2, FlattenIsSum DEF Bytes
<1>4. /\ \A i \in 0 .. n : g[i] \in Bytes
      /\ g[0] = <<>>
      /\ \A i \in 1 .. n : g[i] = g[i - 1] \o f[i]
      /\ \A i \in 1 .. n : f[i] \in Bytes
  BY <1>2, ElementOfSeq DEF Sums, Bytes
<1> HIDE DEF n, s
<1>5. \A k \in Nat : k \in K
  <2>1. 0 \in K
    <3>1. Len(g[0]) = 0 /\ 0 * w = 0
      BY <1>4, EmptySeq
    <3> QED
      BY <3>1
  <2>2. ASSUME NEW k \in K
        PROVE  k + 1 \in K
    <3> SUFFICES ASSUME k + 1 <= n PROVE Len(g[k + 1]) = (k + 1) * w
      OBVIOUS
    <3>1. k \in Nat /\ k + 1 \in 1 .. n /\ (k + 1) - 1 = k /\ k \in 0 .. n /\ Len(g[k]) = k * w
      BY <1>1 DEF n
    <3>2. g[k + 1] = g[k] \o f[k + 1] /\ g[k] \in Bytes /\ f[k + 1] \in Bytes
      BY <1>4, <3>1
    <3>3. Len(g[k + 1]) = Len(g[k]) + Len(f[k + 1])
      BY <3>2, ConcatProperties DEF Bytes
    <3>4. Len(f[k + 1]) = w
      BY <3>1 DEF n
    <3>5. (k + 1) * w = k * w + w
      BY <3>1
    <3> QED
      BY <3>1, <3>3, <3>4, <3>5
  <2> HIDE DEF K
  <2>3. K \in SUBSET Nat
    BY DEF K
  <2> QED
    BY <2>1, <2>2, <2>3, AllNumbers
<1>6. s \in Bytes /\ Len(s) = n * w
  <2>1. n \in 0 .. n /\ n \in Nat /\ n <= n
    BY <1>1 DEF n
  <2> QED
    BY <1>3, <1>4, <1>5, <2>1
<1>7. ASSUME NEW bytes \in Bytes, NEW o \in Nat, Lies(bytes, o, s), NEW k \in 1 .. n
      PROVE  Lies(bytes, o + (k - 1) * w, f[k])
  <2>1. Lies(bytes, o + Len(g[k - 1]), f[k])
    BY <1>2, <1>7, FlattenedLie DEF Bytes, s, n
  <2>2. k - 1 \in Nat /\ k - 1 <= n
    BY <1>1 DEF n
  <2>3. Len(g[k - 1]) = (k - 1) * w
    BY <1>5, <2>2
  <2> QED
    BY <2>1, <2>3
<1> QED
  BY <1>6, <1>7 DEF IsTable, n, s

(***************************************************************************)
(* The tunnel                                                              *)
(***************************************************************************)
IsRecord(s, frame) ==
    /\ s \in Bytes /\ Len(s) = Wire!RecordSize
    /\ \A bytes \in Bytes, o \in Nat : Lies(bytes, o, s) =>
         bytes[o + 5] = Len(frame.data) /\ Wire!RecordAt(bytes, o) = frame

LEMMA TunnelConstants ==
    ASSUME Wire!CodecsAssumption
    PROVE  /\ Wire!ExtendedBit \in Nat \ {0} /\ 2 * Wire!ExtendedBit <= Wire!Weight[4]
           /\ \A e \in BOOLEAN : /\ Wire!IdMask(e) \in Nat \ {0}
                                 /\ Wire!IdMask(e) <= Wire!ExtendedBit
           /\ Wire!ExtendedBit % Wire!IdMask(TRUE) = 0
           /\ MaxData \in Nat /\ MaxFrames \in Nat /\ Wire!Byte \subseteq Int
           /\ Wire!RecordSize = 8 + MaxData /\ Wire!RecordSize \in Nat
<1>1. Base \in Nat /\ Base > 20 /\ Wire!Weight[4] \in Nat \ {0}
  BY Weights4
<1>2. StandardIds \in Nat \ {0} /\ ExtendedIds \in Nat \ {0}
      /\ StandardIds <= Wire!ExtendedBit /\ ExtendedIds <= Wire!ExtendedBit
      /\ Wire!ExtendedBit % ExtendedIds = 0 /\ MaxData \in Wire!Byte /\ MaxFrames \in Wire!Byte
  BY DEF Wire!CodecsAssumption
<1> DEFINE w == Wire!Weight[4]
           h == w \div 2
<1> HIDE DEF w
<1>3. h \in Nat /\ 2 * h <= w
  <2>1. w \in Nat /\ 2 \in Nat \ {0}
    BY <1>1 DEF w
  <2>2. h \in Nat /\ w % 2 \in 0 .. 1 /\ w = 2 * h + (w % 2)
    <3>1. w \div 2 \in Nat /\ w % 2 \in 0 .. 2 - 1 /\ w = 2 * (w \div 2) + (w % 2)
      BY <2>1, Division
    <3> QED
      BY <3>1
  <2> HIDE DEF h
  <2> QED
    BY <2>2
<1>4. h = Wire!ExtendedBit
  BY DEF w, Wire!ExtendedBit
<1> HIDE DEF h
<1>5. h \in Nat \ {0}
  BY <1>2, <1>3, <1>4
<1>6. MaxData \in Nat /\ MaxFrames \in Nat /\ Wire!Byte \subseteq Int
  BY <1>1, <1>2 DEF Wire!Byte
<1>7. Wire!RecordSize = 8 + MaxData /\ Wire!RecordSize \in Nat
  BY <1>6 DEF Wire!RecordSize
<1>8. \A e \in BOOLEAN : Wire!IdMask(e) = IF e THEN ExtendedIds ELSE StandardIds
  BY DEF Wire!IdMask
<1> QED
  BY <1>2, <1>3, <1>4, <1>5, <1>6, <1>7, <1>8 DEF w

LEMMA Identifiers ==
    ASSUME Wire!CodecsAssumption, NEW e \in BOOLEAN, NEW id \in Nat, id < Wire!IdMask(e),
           NEW word, word = id + (IF e THEN Wire!ExtendedBit ELSE 0)
    PROVE  /\ word \in Wire!Numbers(4)
           /\ ((word \div Wire!ExtendedBit) % 2 = 1) = e
           /\ word % Wire!IdMask(e) = id
<1> DEFINE b == Wire!ExtendedBit
           m == Wire!IdMask(e)
           w == Wire!Weight[4]
<1>1. b \in Nat \ {0} /\ 2 * b <= w /\ m \in Nat \ {0} /\ m <= b /\ w \in Nat \ {0}
  BY TunnelConstants, Weights4
<1>2. e => b % m = 0
  BY TunnelConstants
<1>3. word = id + (IF e THEN b ELSE 0) /\ id < m
  OBVIOUS
<1> HIDE DEF b, m, w
<1>4. word \in 0 .. w - 1
  BY <1>1, <1>3
<1>5. CASE e
  <2>1. word = b * 1 + id /\ 1 \in Nat /\ id \in 0 .. b - 1
    BY <1>1, <1>3, <1>5
  <2>2. word \div b = 1
    BY <1>1, <2>1, OneQuotient
  <2> DEFINE k == b \div m
             mk == m * k
  <2>3. k \in Nat /\ b = mk + (b % m)
    BY <1>1, Division
  <2>4. word = mk + id
    BY <1>1, <1>2, <1>3, <1>5, <2>3
  <2> HIDE DEF k
  <2>5. id \in 0 .. m - 1
    BY <1>1, <1>3
  <2>6. (m * k + id) % m = id
    BY <1>1, <2>3, <2>5, OneQuotient
  <2>7. word % m = id
    BY <2>4, <2>6
  <2>8. 1 % 2 = 1
    OBVIOUS
  <2> QED
    BY <1>4, <1>5, <2>2, <2>7, <2>8 DEF b, m, w, Wire!Numbers
<1>6. CASE ~e
  <2>1. word = id /\ id \in 0 .. b - 1 /\ id \in 0 .. m - 1
    BY <1>1, <1>3, <1>6
  <2>2. b * 0 + id = id /\ m * 0 + id = id /\ 0 \in Nat
    BY <1>1
  <2>3. (b * 0 + id) \div b = 0 /\ (m * 0 + id) % m = id
    BY <1>1, <2>1, <2>2, OneQuotient
  <2>4. word \div b = 0 /\ word % m = id
    BY <2>1, <2>2, <2>3
  <2>5. 0 % 2 = 0
    OBVIOUS
  <2> QED
    BY <1>4, <1>6, <2>4, <2>5 DEF b, m, w, Wire!Numbers
<1> QED
  BY <1>5, <1>6

LEMMA FlagsAreRead ==
    ASSUME NEW frame \in Wire!Frame
    PROVE  /\ Wire!Flags(frame) \in Nat
           /\ (Wire!Flags(frame) % 2 = 1) = frame.fd
           /\ ((Wire!Flags(frame) \div 2) % 2 = 1) = frame.brs
<1>1. frame.fd \in BOOLEAN /\ frame.brs \in BOOLEAN
  BY DEF Wire!Frame
<1>2. Wire!Flags(frame) = (IF frame.fd THEN 1 ELSE 0) + (IF frame.brs THEN 2 ELSE 0)
  BY DEF Wire!Flags
<1> DEFINE f == Wire!Flags(frame)
<1>3. /\ frame.fd /\ frame.brs => f = 3
      /\ frame.fd /\ ~frame.brs => f = 1
      /\ ~frame.fd /\ frame.brs => f = 2
      /\ ~frame.fd /\ ~frame.brs => f = 0
  BY <1>2
<1> HIDE DEF f
<1>4. /\ 3 % 2 = 1 /\ (3 \div 2) % 2 = 1
      /\ 1 % 2 = 1 /\ (1 \div 2) % 2 = 0
      /\ 2 % 2 = 0 /\ (2 \div 2) % 2 = 1
      /\ 0 % 2 = 0 /\ (0 \div 2) % 2 = 0
  OBVIOUS
<1>5. f \in Nat /\ ((f % 2 = 1) <=> frame.fd) /\ (((f \div 2) % 2 = 1) <=> frame.brs)
  <2>1. f = 3 \/ f = 1 \/ f = 2 \/ f = 0
    BY <1>3
  <2> QED
    BY <1>3, <1>4, <2>1
<1> QED
  BY <1>1, <1>5 DEF f

LEMMA RecordIsRead ==
    ASSUME Wire!CodecsAssumption, NEW frame \in Wire!Frame, Wire!Carriable(frame)
    PROVE  IsRecord(Wire!PutRecord(frame), frame)
<1> DEFINE word == frame.id + (IF frame.extended THEN Wire!ExtendedBit ELSE 0)
           data == frame.data
           flags == Wire!Flags(frame)
           p1 == Wire!Put(word, 4)
           p2 == <<Len(data), flags, 0, 0>>
           p3 == [i \in 1 .. MaxData |-> IF i <= Len(data) THEN data[i] ELSE 0]
           c == p1 \o p2
           s == c \o p3
<1>1. s = Wire!PutRecord(frame)
  BY DEF Wire!PutRecord
<1>2. /\ frame.id \in Nat /\ frame.extended \in BOOLEAN /\ frame.id < Wire!IdMask(frame.extended)
      /\ data \in Seq(Wire!Byte) /\ Len(data) <= MaxData
      /\ frame = [id |-> frame.id, extended |-> frame.extended, fd |-> frame.fd,
                  brs |-> frame.brs, data |-> frame.data]
  BY DEF Wire!Frame, Wire!Carriable, Wire!Numbers
<1>3. MaxData \in Nat /\ Wire!Byte \subseteq Int /\ Wire!RecordSize = 8 + MaxData
  BY TunnelConstants
<1>4. /\ word \in Wire!Numbers(4)
      /\ ((word \div Wire!ExtendedBit) % 2 = 1) = frame.extended
      /\ word % Wire!IdMask(frame.extended) = frame.id
  BY <1>2, Identifiers
<1>5. /\ flags \in Nat /\ (flags % 2 = 1) = frame.fd /\ ((flags \div 2) % 2 = 1) = frame.brs
  BY FlagsAreRead
<1> HIDE DEF word, data, flags
<1>6. Len(data) \in Nat /\ data \in Bytes /\ \A i \in 1 .. Len(data) : data[i] \in Int
  <2>1. Len(data) \in Nat /\ \A i \in 1 .. Len(data) : data[i] \in Wire!Byte
    BY <1>2, LenProperties, ElementOfSeq
  <2>2. \A i \in 1 .. Len(data) : data[i] \in Int
    BY <1>3, <2>1
  <2>3. data = [i \in 1 .. Len(data) |-> data[i]]
    BY <1>2, LenProperties
  <2>4. data \in [1 .. Len(data) -> Int]
    BY <2>2, <2>3
  <2> QED
    BY <2>1, <2>2, <2>4, SeqDef DEF Bytes
<1>7. IsNumber(p1, word, 4)
  BY <1>4, NumbersLie
<1>8. AreFour(p2, Len(data), flags, 0, 0)
  BY <1>5, <1>6, FourBytes
<1>9. p3 \in Bytes /\ Len(p3) = MaxData /\ \A i \in 1 .. Len(data) : p3[i] = data[i]
  <2>1. p3 \in [1 .. MaxData -> Int]
    BY <1>6
  <2>2. p3 \in Bytes
    BY <1>3, <2>1, SeqDef DEF Bytes
  <2>3. \A i \in 1 .. Len(data) : i \in 1 .. MaxData /\ i <= Len(data)
    BY <1>2, <1>3, <1>6
  <2>4. Len(p3) = MaxData
    BY <1>3, <2>1, <2>2, LenProperties DEF Bytes
  <2> QED
    BY <2>2, <2>3, <2>4
<1> HIDE DEF p1, p2, p3
<1>10. p1 \in Bytes /\ Len(p1) = 4 /\ p2 \in Bytes /\ Len(p2) = 4
  BY <1>7, <1>8 DEF IsNumber, AreFour
<1>11. IsTwo(c, p1, p2)
  BY <1>10, TwoLie
<1> HIDE DEF c
<1>12. c \in Bytes /\ Len(c) = 8
  BY <1>10, <1>11 DEF IsTwo
<1>13. IsTwo(s, c, p3)
  BY <1>9, <1>12, TwoLie
<1> HIDE DEF s
<1>14. s \in Bytes /\ Len(s) = Wire!RecordSize
  BY <1>3, <1>9, <1>12, <1>13 DEF IsTwo
<1>15. ASSUME NEW bytes \in Bytes, NEW o \in Nat, Lies(bytes, o, s)
       PROVE  bytes[o + 5] = Len(data) /\ Wire!RecordAt(bytes, o) = frame
  <2>1. o + Len(c) = o + 8 /\ o + Len(p1) = o + 4 /\ o + 4 \in Nat /\ o + 8 \in Nat
        /\ (o + 4) + 1 = o + 5 /\ (o + 4) + 2 = o + 6 /\ (o + 8) + 1 = o + 9
    BY <1>10, <1>12
  <2>2. Lies(bytes, o, c) /\ Lies(bytes, o + 8, p3)
    BY <1>13, <1>15, <2>1 DEF IsTwo
  <2>3. Lies(bytes, o, p1) /\ Lies(bytes, o + 4, p2)
    BY <1>11, <2>1, <2>2 DEF IsTwo
  <2>4. Wire!At(bytes, o, 4) = word
    BY <1>7, <2>3 DEF IsNumber
  <2>5. bytes[o + 5] = Len(data) /\ bytes[o + 6] = flags
    BY <1>8, <2>1, <2>3 DEF AreFour
  <2>6. Lies(bytes, o + 8, data)
    <3>1. Lies(p3, 0, data)
      BY <1>2, <1>3, <1>6, <1>9 DEF Lies
    <3>2. Lies(bytes, (o + 8) + 0, data)
      <4>1. 0 \in Nat /\ o + 8 \in Nat
        BY <2>1
      <4> QED
        BY <1>6, <1>9, <2>2, <3>1, <4>1, PartOfAPart DEF Bytes
    <3>3. (o + 8) + 0 = o + 8
      OBVIOUS
    <3> QED
      BY <3>2, <3>3
  <2>7. SubSeq(bytes, o + 9, o + 8 + bytes[o + 5]) = data
    <3>1. SubSeq(bytes, (o + 8) + 1, (o + 8) + Len(data)) = data
      BY <1>6, <2>1, <2>6, SliceIsIt DEF Bytes
    <3> QED
      BY <2>1, <2>5, <3>1
  <2> DEFINE e == (Wire!At(bytes, o, 4) \div Wire!ExtendedBit) % 2 = 1
  <2>8. e = frame.extended
    BY <1>4, <2>4
  <2>9. Wire!RecordAt(bytes, o)
          = [id |-> Wire!At(bytes, o, 4) % Wire!IdMask(e), extended |-> e,
             fd |-> bytes[o + 6] % 2 = 1, brs |-> (bytes[o + 6] \div 2) % 2 = 1,
             data |-> SubSeq(bytes, o + 9, o + 8 + bytes[o + 5])]
    BY DEF Wire!RecordAt
  <2> HIDE DEF e
  <2>10. Wire!At(bytes, o, 4) % Wire!IdMask(e) = frame.id
    BY <1>4, <2>4, <2>8
  <2> QED
    BY <1>2, <1>5, <2>5, <2>7, <2>8, <2>9, <2>10 DEF data
<1> QED
  BY <1>1, <1>14, <1>15 DEF IsRecord, data

Batch(packet) == [n \in DOMAIN packet.frames |-> Wire!PutRecord(packet.frames[n])]

Datagrams(packet) ==
    Five(Wire!Put(Magic, 4), <<1, Len(packet.frames), 0, 0>>, Wire!Put(packet.sequence, 4),
         Wire!Put(packet.timestamp, 4), Wire!FlattenSeq(Batch(packet)))

Fits(packet) ==
    /\ Len(packet.frames) \in 1 .. MaxFrames
    /\ \A n \in DOMAIN packet.frames : Wire!Carriable(packet.frames[n])

LEMMA TunnelEncodeIs ==
    ASSUME NEW packet
    PROVE  Wire!TunnelEncode(packet) = IF Fits(packet) THEN <<Datagrams(packet)>> ELSE <<>>
BY DEF Wire!TunnelEncode, Fits, Datagrams, Five, Batch

LEMMA BatchLies ==
    ASSUME Wire!CodecsAssumption, NEW packet \in Wire!Packet, Fits(packet)
    PROVE  /\ Len(Batch(packet)) = Len(packet.frames)
           /\ IsTable(Wire!FlattenSeq(Batch(packet)), Batch(packet), Wire!RecordSize)
           /\ \A k \in 1 .. Len(packet.frames) : IsRecord(Batch(packet)[k], packet.frames[k])
<1> DEFINE frames == packet.frames
           n == Len(frames)
           f == Batch(packet)
<1>1. frames \in Seq(Wire!Frame)
  BY DEF Wire!Packet
<1>2. n \in Nat /\ DOMAIN frames = 1 .. n /\ \A k \in 1 .. n : frames[k] \in Wire!Frame
  BY <1>1, LenProperties, ElementOfSeq
<1>3. \A k \in 1 .. n : Wire!Carriable(frames[k])
  BY <1>2 DEF Fits
<1>4. \A k \in 1 .. n : IsRecord(Wire!PutRecord(frames[k]), frames[k])
  BY <1>2, <1>3, RecordIsRead
<1> HIDE DEF n
<1>5. f = [k \in 1 .. n |-> Wire!PutRecord(frames[k])]
  BY <1>2 DEF Batch
<1> HIDE DEF f, frames
<1>6. \A k \in 1 .. n : f[k] = Wire!PutRecord(frames[k])
  BY <1>5
<1>7. \A k \in 1 .. n : IsRecord(f[k], frames[k])
  BY <1>4, <1>6
<1>8. \A k \in 1 .. n : f[k] \in Bytes /\ Len(f[k]) = Wire!RecordSize
  BY <1>7 DEF IsRecord
<1>9. f \in Seq(Bytes) /\ Len(f) = n
  <2>1. f \in [1 .. n -> Bytes]
    BY <1>5, <1>6, <1>8
  <2>2. f \in Seq(Bytes)
    BY <1>2, <2>1, SeqDef
  <2> QED
    BY <1>2, <2>1, <2>2, LenProperties
<1>10. Wire!RecordSize \in Nat
  BY TunnelConstants
<1>11. IsTable(Wire!FlattenSeq(f), f, Wire!RecordSize)
  BY <1>8, <1>9, <1>10, TableLies
<1> QED
  BY <1>7, <1>9, <1>11 DEF n, f, frames

LEMMA DatagramParts ==
    ASSUME Wire!CodecsAssumption, NEW packet \in Wire!Packet, Fits(packet)
    PROVE  LET whole == Datagrams(packet)
               n == Len(packet.frames)
           IN /\ whole \in Bytes /\ n \in Nat /\ Len(whole) = 16 + n * Wire!RecordSize
              /\ Wire!At(whole, 0, 4) = Magic
              /\ Wire!At(whole, 8, 4) = packet.sequence
              /\ Wire!At(whole, 12, 4) = packet.timestamp
              /\ Lies(whole, 4, <<1, n, 0, 0>>) /\ AreFour(<<1, n, 0, 0>>, 1, n, 0, 0)
              /\ Lies(whole, 16, Wire!FlattenSeq(Batch(packet)))
<1> DEFINE n == Len(packet.frames)
           p1 == Wire!Put(Magic, 4)
           p2 == <<1, n, 0, 0>>
           p3 == Wire!Put(packet.sequence, 4)
           p4 == Wire!Put(packet.timestamp, 4)
           p5 == Wire!FlattenSeq(Batch(packet))
           whole == Datagrams(packet)
<1>1. whole = Five(p1, p2, p3, p4, p5)
  BY DEF Datagrams
<1>2. n \in Nat
  <2>1. packet.frames \in Seq(Wire!Frame)
    BY DEF Wire!Packet
  <2> QED
    BY <2>1, LenProperties
<1>3. /\ IsNumber(p1, Magic, 4) /\ IsNumber(p3, packet.sequence, 4)
      /\ IsNumber(p4, packet.timestamp, 4)
  <2>1. /\ Magic \in Wire!Numbers(4) /\ packet.sequence \in Wire!Numbers(4)
        /\ packet.timestamp \in Wire!Numbers(4) /\ 4 \in 1 .. 4
    BY DEF Wire!Packet, Wire!CodecsAssumption
  <2> QED
    BY <2>1, NumbersLie
<1>4. AreFour(p2, 1, n, 0, 0)
  BY <1>2, FourBytes
<1>5. p5 \in Bytes /\ Len(p5) = n * Wire!RecordSize
  BY BatchLies DEF IsTable
<1> HIDE DEF p1, p2, p3, p4, p5, n, whole
<1>6. /\ p1 \in Bytes /\ p2 \in Bytes /\ p3 \in Bytes /\ p4 \in Bytes
      /\ Len(p1) = 4 /\ Len(p2) = 4 /\ Len(p3) = 4 /\ Len(p4) = 4
  BY <1>3, <1>4 DEF IsNumber, AreFour
<1>7. IsFive(whole, p1, p2, p3, p4, p5)
  BY <1>1, <1>5, <1>6, FiveLie
<1> DEFINE l == n * Wire!RecordSize
<1>8. l \in Nat
  BY <1>5, LenProperties DEF Bytes
<1> HIDE DEF l
<1>9. whole \in Bytes /\ Len(whole) = 16 + l
  <2>1. Len(p5) = l
    BY <1>5 DEF l
  <2> QED
    BY <1>6, <1>7, <1>8, <2>1 DEF IsFive
<1>10. /\ Lies(whole, 0, p1) /\ Lies(whole, 4, p2) /\ Lies(whole, 8, p3)
       /\ Lies(whole, 12, p4) /\ Lies(whole, 16, p5)
  <2>1. Lies(whole, 0, whole) /\ 0 \in Nat
    BY <1>9, AllOfItLies DEF Bytes
  <2>2. /\ 0 + Len(p1) = 4 /\ 0 + Len(p1) + Len(p2) = 8 /\ 0 + Len(p1) + Len(p2) + Len(p3) = 12
        /\ 0 + Len(p1) + Len(p2) + Len(p3) + Len(p4) = 16
    BY <1>6
  <2> QED
    BY <1>7, <1>9, <2>1, <2>2 DEF IsFive
<1>11. /\ Wire!At(whole, 0, 4) = Magic /\ Wire!At(whole, 8, 4) = packet.sequence
       /\ Wire!At(whole, 12, 4) = packet.timestamp
  BY <1>3, <1>9, <1>10 DEF IsNumber
<1> QED
  BY <1>2, <1>4, <1>9, <1>10, <1>11 DEF p2, p5, n, whole, l

LEMMA DatagramIsRead ==
    ASSUME Wire!CodecsAssumption, NEW packet \in Wire!Packet, Fits(packet)
    PROVE  Wire!TunnelDecode(Datagrams(packet)) = <<packet>>
<1> DEFINE n == Len(packet.frames)
           frames == packet.frames
           whole == Datagrams(packet)
           size == Wire!RecordSize
           head == <<1, n, 0, 0>>
           flat == Wire!FlattenSeq(Batch(packet))
           records == [k \in 1 .. whole[6] |-> Wire!RecordAt(whole, 16 + (k - 1) * size)]
<1>1. /\ whole \in Bytes /\ n \in Nat /\ Len(whole) = 16 + n * size
      /\ Wire!At(whole, 0, 4) = Magic
      /\ Wire!At(whole, 8, 4) = packet.sequence
      /\ Wire!At(whole, 12, 4) = packet.timestamp
      /\ Lies(whole, 4, head) /\ AreFour(head, 1, n, 0, 0) /\ Lies(whole, 16, flat)
  BY DatagramParts
<1>2. whole[5] = 1 /\ whole[6] = n
  <2>1. 4 \in Nat /\ 4 + 1 = 5 /\ 4 + 2 = 6
    OBVIOUS
  <2> HIDE DEF head, whole, n
  <2> QED
    BY <1>1, <2>1 DEF AreFour
<1>3. n \in 1 .. MaxFrames /\ \A k \in 1 .. n : Wire!Carriable(frames[k])
  <2>1. DOMAIN frames = 1 .. n
    <3>1. frames \in Seq(Wire!Frame)
      BY DEF Wire!Packet
    <3> QED
      BY <3>1, LenProperties
  <2> QED
    BY <2>1 DEF Fits
<1>4. /\ \A bytes \in Bytes, o \in Nat : Lies(bytes, o, flat) =>
           \A k \in 1 .. n : Lies(bytes, o + (k - 1) * size, Batch(packet)[k])
      /\ \A k \in 1 .. n : IsRecord(Batch(packet)[k], frames[k])
      /\ size \in Nat
  BY BatchLies, TunnelConstants DEF IsTable
<1>5. frames = [k \in 1 .. n |-> frames[k]]
      /\ packet = [sequence |-> packet.sequence, timestamp |-> packet.timestamp, frames |-> frames]
      /\ \A k \in 1 .. n : Len(frames[k].data) <= MaxData
  <2>1. frames \in Seq(Wire!Frame)
    BY DEF Wire!Packet
  <2>2. frames = [k \in 1 .. n |-> frames[k]]
    BY <2>1, LenProperties
  <2>3. \A k \in 1 .. n : Len(frames[k].data) <= MaxData
    BY <1>3 DEF Wire!Carriable
  <2> QED
    BY <2>2, <2>3 DEF Wire!Packet
<1> HIDE DEF whole, n, frames, size, head, flat
<1>6. ASSUME NEW k \in 1 .. n
      PROVE  /\ whole[16 + (k - 1) * size + 5] = Len(frames[k].data)
             /\ Wire!RecordAt(whole, 16 + (k - 1) * size) = frames[k]
  <2> DEFINE o == 16 + (k - 1) * size
             r == Batch(packet)[k]
  <2>1. o \in Nat
    <3>1. k - 1 \in Nat
      BY <1>1
    <3>2. (k - 1) * size \in Nat
      BY <1>4, <3>1
    <3> QED
      BY <3>2
  <2>2. Lies(whole, o, r)
    BY <1>1, <1>4
  <2>3. IsRecord(r, frames[k])
    BY <1>4
  <2> HIDE DEF o, r
  <2>4. whole[o + 5] = Len(frames[k].data) /\ Wire!RecordAt(whole, o) = frames[k]
    BY <1>1, <2>1, <2>2, <2>3 DEF IsRecord
  <2> QED
    BY <2>4 DEF o
<1>7. records = frames
  BY <1>2, <1>5, <1>6
<1>8. /\ Len(whole) >= 16 /\ Len(whole) = 16 + whole[6] * size
      /\ whole[6] \in 1 .. MaxFrames
  <2> DEFINE l == n * size
  <2>1. l \in Nat
    BY <1>1, <1>4
  <2>2. Len(whole) = 16 + l
    BY <1>1
  <2> HIDE DEF l
  <2>3. Len(whole) >= 16
    BY <2>1, <2>2
  <2> QED
    BY <1>1, <1>2, <1>3, <2>3
<1>9. \A k \in 1 .. whole[6] :
         whole[16 + (k - 1) * size + 5] <= MaxData /\ Wire!Carriable(records[k])
  BY <1>2, <1>3, <1>5, <1>6, <1>7
<1> HIDE DEF records
<1>10. Wire!TunnelDecode(whole)
         = IF /\ Len(whole) >= 16
              /\ Wire!At(whole, 0, 4) = Magic /\ whole[5] = 1
              /\ whole[6] \in 1 .. MaxFrames
              /\ Len(whole) = 16 + whole[6] * size
              /\ \A k \in 1 .. whole[6] :
                   whole[16 + (k - 1) * size + 5] <= MaxData /\ Wire!Carriable(records[k])
           THEN <<[sequence |-> Wire!At(whole, 8, 4), timestamp |-> Wire!At(whole, 12, 4),
                   frames |-> records]>>
           ELSE <<>>
  BY DEF Wire!TunnelDecode, records, size
<1>11. Wire!TunnelDecode(whole)
         = <<[sequence |-> Wire!At(whole, 8, 4), timestamp |-> Wire!At(whole, 12, 4),
              frames |-> records]>>
  BY <1>1, <1>2, <1>8, <1>9, <1>10
<1> QED
  BY <1>1, <1>5, <1>7, <1>11 DEF whole

LEMMA NoOtherSize ==
    ASSUME Wire!CodecsAssumption, NEW packet \in Wire!Packet, Fits(packet),
           NEW bytes, CutOrLonger(Datagrams(packet), bytes)
    PROVE  Wire!TunnelDecode(bytes) = <<>>
<1> DEFINE n == Len(packet.frames)
           whole == Datagrams(packet)
           size == Wire!RecordSize
           head == <<1, n, 0, 0>>
<1>1. /\ whole \in Bytes /\ Len(whole) = 16 + n * size
      /\ Lies(whole, 4, head) /\ AreFour(head, 1, n, 0, 0)
  BY DatagramParts
<1> HIDE DEF whole, n, size, head
<1>2. /\ bytes \in Bytes /\ Len(bytes) # Len(whole)
      /\ Len(bytes) >= 4 + Len(head) => Lies(bytes, 4, head)
  <2>1. CutOrLonger(whole, bytes) /\ 4 \in Nat /\ head \in Bytes
    BY <1>1 DEF whole, AreFour
  <2> QED
    BY <1>1, <2>1, BeginsAsBefore
<1>3. Len(bytes) \in Nat /\ Len(head) = 4
  BY <1>1, <1>2, LenProperties DEF Bytes, AreFour
<1>4. CASE Len(bytes) >= 16
  <2>1. Lies(bytes, 4, head)
    BY <1>2, <1>3, <1>4
  <2>2. bytes[6] = n
    <3>1. 4 + 2 = 6 /\ 4 \in Nat
      OBVIOUS
    <3> QED
      BY <1>1, <1>2, <2>1, <3>1 DEF AreFour
  <2>3. Len(bytes) # 16 + bytes[6] * size
    BY <1>1, <1>2, <2>2
  <2> QED
    BY <2>3 DEF Wire!TunnelDecode, size
<1>5. CASE ~(Len(bytes) >= 16)
  BY <1>5 DEF Wire!TunnelDecode
<1> QED
  BY <1>4, <1>5

(***************************************************************************)
(* Service discovery: options and entries                                  *)
(***************************************************************************)
AreOne(s, a) ==
    /\ s \in Bytes /\ Len(s) = 1
    /\ \A bytes \in Bytes, o \in Nat : Lies(bytes, o, s) => bytes[o + 1] = a

LEMMA OneByte ==
    ASSUME NEW a \in Int
    PROVE  AreOne(<<a>>, a)
<1> DEFINE s == <<a>>
<1>1. s[1] = a
  OBVIOUS
<1>2. s \in [1 .. 1 -> Int]
  OBVIOUS
<1> HIDE DEF s
<1>3. s \in Bytes /\ Len(s) = 1
  BY <1>2, FewBytes
<1>4. \A bytes \in Bytes, o \in Nat : Lies(bytes, o, s) => bytes[o + 1] = a
  BY <1>1, <1>3 DEF Lies
<1> QED
  BY <1>3, <1>4 DEF s, AreOne

OptionAt(bytes, o) ==
    [type |-> bytes[o + 3], address |-> Wire!At(bytes, o + 4, 4),
     protocol |-> bytes[o + 10], port |-> Wire!At(bytes, o + 10, 2)]

IsOption(s, option) ==
    /\ s \in Bytes /\ Len(s) = 12
    /\ \A bytes \in Bytes, o \in Nat : Lies(bytes, o, s) =>
         /\ Lies(bytes, o, Wire!Put(Wire!OptionLength, 2))
         /\ Wire!At(bytes, o, 2) = Wire!OptionLength /\ OptionAt(bytes, o) = option

LEMMA SmallNumbers ==
    ASSUME Wire!CodecsAssumption
    PROVE  /\ Wire!OptionLength \in Wire!Numbers(2) /\ Wire!OptionTypes \subseteq Int
           /\ Wire!EntryTypes \subseteq Int /\ Wire!Byte \subseteq Int
           /\ Wire!NoAddress = Wire!Weight[4]
           /\ Wire!Weight[2] = Base * Base
<1>1. /\ Base \in Nat /\ Base > 20
      /\ Wire!Weight[0] = 1
      /\ \A k \in 0 .. 3 : Wire!Weight[k + 1] = Wire!Weight[k] * Base
  BY Weights4
<1>2. Wire!Weight[1] = 1 * Base /\ Wire!Weight[2] = Wire!Weight[1] * Base
  <2>1. 0 \in 0 .. 3 /\ 1 \in 0 .. 3 /\ 0 + 1 = 1 /\ 1 + 1 = 2
    OBVIOUS
  <2> QED
    BY <1>1, <2>1
<1>3. 1 * Base = Base
  BY <1>1
<1>4. Wire!Weight[2] = Base * Base
  BY <1>2, <1>3
<1>5. Base * Base > 9 /\ Base * Base \in Nat
  <2>1. Base * Base >= 20 * Base
    BY <1>1
  <2> QED
    BY <1>1, <2>1
<1>6. Wire!OptionLength \in Wire!Numbers(2)
  BY <1>4, <1>5 DEF Wire!OptionLength, Wire!Numbers
<1> QED
  BY <1>1, <1>4, <1>6 DEF Wire!OptionTypes, Wire!Multicast, Wire!EntryTypes, Wire!Byte, Wire!NoAddress

LEMMA OptionIsRead ==
    ASSUME Wire!CodecsAssumption, NEW option \in Wire!Option, option.address # Wire!NoAddress
    PROVE  IsOption(Wire!PutOption(option), option)
<1> DEFINE p1 == Wire!Put(Wire!OptionLength, 2)
           p2 == <<option.type, 0>>
           p3 == Wire!Put(option.address, 4)
           p4 == <<0, option.protocol>>
           p5 == Wire!Put(option.port, 2)
           s == Wire!PutOption(option)
<1>1. s = Five(p1, p2, p3, p4, p5)
  BY DEF Wire!PutOption, Five
<1>2. /\ option.type \in Int /\ option.protocol \in Int
      /\ option.address \in Wire!Numbers(4) /\ option.port \in Wire!Numbers(2)
      /\ option = [type |-> option.type, address |-> option.address,
                   protocol |-> option.protocol, port |-> option.port]
  <2>1. /\ option.type \in Wire!OptionTypes /\ option.protocol \in Wire!Byte
        /\ option.address \in 0 .. Wire!NoAddress /\ option.port \in Wire!Numbers(2)
        /\ option = [type |-> option.type, address |-> option.address,
                     protocol |-> option.protocol, port |-> option.port]
    BY DEF Wire!Option
  <2> DEFINE w == Wire!Weight[4]
  <2>2. w \in Nat /\ Wire!NoAddress = w
    BY Weights4, SmallNumbers
  <2> HIDE DEF w
  <2>3. option.address \in 0 .. w - 1
    BY <2>1, <2>2
  <2>4. option.address \in Wire!Numbers(4)
    BY <2>3 DEF w, Wire!Numbers
  <2> QED
    BY <2>1, <2>4, SmallNumbers
<1>3. IsNumber(p1, Wire!OptionLength, 2) /\ IsNumber(p3, option.address, 4) /\ IsNumber(p5, option.port, 2)
  <2>1. 2 \in 1 .. 4 /\ 4 \in 1 .. 4 /\ Wire!OptionLength \in Wire!Numbers(2)
    BY SmallNumbers
  <2> QED
    BY <1>2, <2>1, NumbersLie
<1>4. AreTwo(p2, option.type, 0) /\ AreTwo(p4, 0, option.protocol)
  BY <1>2, TwoBytes
<1> HIDE DEF p1, p2, p3, p4, p5, s
<1>5. /\ p1 \in Bytes /\ p2 \in Bytes /\ p3 \in Bytes /\ p4 \in Bytes /\ p5 \in Bytes
      /\ Len(p1) = 2 /\ Len(p2) = 2 /\ Len(p3) = 4 /\ Len(p4) = 2 /\ Len(p5) = 2
  BY <1>3, <1>4 DEF IsNumber, AreTwo
<1>6. IsFive(s, p1, p2, p3, p4, p5)
  BY <1>1, <1>5, FiveLie
<1>7. s \in Bytes /\ Len(s) = 12
  BY <1>5, <1>6 DEF IsFive
<1>8. ASSUME NEW bytes \in Bytes, NEW o \in Nat, Lies(bytes, o, s)
      PROVE  Lies(bytes, o, p1) /\ Wire!At(bytes, o, 2) = Wire!OptionLength /\ OptionAt(bytes, o) = option
  <2>1. /\ o + Len(p1) = o + 2 /\ o + Len(p1) + Len(p2) = o + 4
        /\ o + Len(p1) + Len(p2) + Len(p3) = o + 8
        /\ o + Len(p1) + Len(p2) + Len(p3) + Len(p4) = o + 10
        /\ o + 2 \in Nat /\ o + 4 \in Nat /\ o + 8 \in Nat /\ o + 10 \in Nat
        /\ (o + 2) + 1 = o + 3 /\ (o + 8) + 2 = o + 10
    BY <1>5
  <2>2. /\ Lies(bytes, o, p1) /\ Lies(bytes, o + 2, p2) /\ Lies(bytes, o + 4, p3)
        /\ Lies(bytes, o + 8, p4) /\ Lies(bytes, o + 10, p5)
    BY <1>6, <1>8, <2>1 DEF IsFive
  <2>3. /\ Wire!At(bytes, o, 2) = Wire!OptionLength /\ Wire!At(bytes, o + 4, 4) = option.address
        /\ Wire!At(bytes, o + 10, 2) = option.port
    BY <1>3, <2>1, <2>2 DEF IsNumber
  <2>4. bytes[o + 3] = option.type /\ bytes[o + 10] = option.protocol
    BY <1>4, <2>1, <2>2 DEF AreTwo
  <2> QED
    BY <1>2, <2>2, <2>3, <2>4 DEF OptionAt
<1> QED
  BY <1>7, <1>8 DEF IsOption, s, p1

Entry == Wire!ServiceEntry \cup Wire!GroupEntry

IsEntry(s, e, index) ==
    /\ s \in Bytes /\ Len(s) = 16
    /\ s[1] = e.type /\ s[2] = index /\ s[4] \div Nibble = Len(e.options)
    /\ Wire!At(s, 4, 2) = e.service /\ Wire!At(s, 6, 2) = e.instance
    /\ s[9] = e.major /\ Wire!At(s, 9, 3) = e.ttl
    /\ Wire!IsServiceEntry(e.type) => Wire!At(s, 12, 4) = e.minor
    /\ ~Wire!IsServiceEntry(e.type) => Wire!At(s, 14, 2) = e.eventgroup

LEMMA EntryFields ==
    ASSUME Wire!CodecsAssumption, NEW e \in Entry
    PROVE  /\ e.type \in Wire!EntryTypes /\ e.type \in Int
           /\ e.service \in Wire!Numbers(2) /\ e.instance \in Wire!Numbers(2)
           /\ e.major \in Int /\ e.ttl \in Wire!Numbers(3)
           /\ Wire!IsServiceEntry(e.type) => e.minor \in Wire!Numbers(4) /\ e.eventgroup = 0
           /\ ~Wire!IsServiceEntry(e.type) => e.minor = 0 /\ e.eventgroup \in Wire!Numbers(2)
           /\ e.options \in Seq(Wire!Option) /\ Len(e.options) \in Nat
           /\ e = [type |-> e.type, service |-> e.service, instance |-> e.instance,
                   major |-> e.major, ttl |-> e.ttl, minor |-> e.minor,
                   eventgroup |-> e.eventgroup, options |-> e.options]
<1>1. \/ e \in Wire!ServiceEntry
      \/ e \in Wire!GroupEntry
  BY DEF Entry
<1>2. Wire!Byte \subseteq Int
  BY SmallNumbers
<1>3. e.options \in Seq(Wire!Option)
  BY <1>1 DEF Wire!ServiceEntry, Wire!GroupEntry
<1>4. Len(e.options) \in Nat
  BY <1>3, LenProperties
<1>5. CASE e \in Wire!ServiceEntry
  <2>1. e = [type |-> e.type, service |-> e.service, instance |-> e.instance,
           major |-> e.major, ttl |-> e.ttl, minor |-> e.minor,
           eventgroup |-> e.eventgroup, options |-> e.options]
    BY <1>5 DEF Wire!ServiceEntry
  <2>2. /\ e.type \in {0, 1} /\ e.major \in Wire!Byte
        /\ e.service \in Wire!Numbers(2) /\ e.instance \in Wire!Numbers(2)
        /\ e.ttl \in Wire!Numbers(3)
        /\ e.minor \in Wire!Numbers(4) /\ e.eventgroup = 0
    BY <1>5 DEF Wire!ServiceEntry
  <2>3. /\ e.type \in Wire!EntryTypes /\ e.type \in Int
        /\ Wire!IsServiceEntry(e.type)
    BY <2>2 DEF Wire!EntryTypes, Wire!IsServiceEntry
  <2> QED
    BY <1>2, <1>3, <1>4, <2>1, <2>2, <2>3
<1>6. CASE e \in Wire!GroupEntry
  <2>1. e = [type |-> e.type, service |-> e.service, instance |-> e.instance,
           major |-> e.major, ttl |-> e.ttl, minor |-> e.minor,
           eventgroup |-> e.eventgroup, options |-> e.options]
    BY <1>6 DEF Wire!GroupEntry
  <2>2. /\ e.type \in {6, 7} /\ e.major \in Wire!Byte
        /\ e.service \in Wire!Numbers(2) /\ e.instance \in Wire!Numbers(2)
        /\ e.ttl \in Wire!Numbers(3)
        /\ e.minor = 0 /\ e.eventgroup \in Wire!Numbers(2)
    BY <1>6 DEF Wire!GroupEntry
  <2>3. /\ e.type \in Wire!EntryTypes /\ e.type \in Int
        /\ ~Wire!IsServiceEntry(e.type)
    BY <2>2 DEF Wire!EntryTypes, Wire!IsServiceEntry
  <2> QED
    BY <1>2, <1>3, <1>4, <2>1, <2>2, <2>3
<1> QED
  BY <1>1, <1>5, <1>6

LEMMA CountIsRead ==
    ASSUME Wire!CodecsAssumption, NEW n \in Nat, n <= EntryOptions
    PROVE  (n % Nibble) * Nibble \in Int /\ ((n % Nibble) * Nibble) \div Nibble = n
<1>1. Nibble \in Nat /\ EntryOptions \in 0 .. Nibble - 1
  BY DEF Wire!CodecsAssumption
<1>2. Nibble \in Nat \ {0} /\ n \in 0 .. Nibble - 1 /\ 0 \in 0 .. Nibble - 1 /\ 0 \in Nat
  BY <1>1
<1>3. n % Nibble = n
  <2>1. (Nibble * 0 + n) % Nibble = n
    BY <1>2, OneQuotient
  <2>2. Nibble * 0 + n = n
    BY <1>2
  <2> QED
    BY <2>1, <2>2
<1>4. (Nibble * n + 0) \div Nibble = n
  BY <1>2, OneQuotient
<1>5. Nibble * n + 0 = n * Nibble /\ n * Nibble \in Int
  BY <1>2
<1> QED
  BY <1>3, <1>4, <1>5

LEMMA EntryIsWritten ==
    ASSUME Wire!CodecsAssumption, NEW e \in Entry, NEW index \in Int, Len(e.options) <= EntryOptions
    PROVE  IsEntry(Wire!PutEntry(e, index), e, index)
<1> DEFINE c == (Len(e.options) % Nibble) * Nibble
           last == IF Wire!IsServiceEntry(e.type) THEN Wire!Put(e.minor, 4)
                   ELSE <<0, 0>> \o Wire!Put(e.eventgroup, 2)
           p1 == <<e.type, index, 0, c>>
           p2 == Wire!Put(e.service, 2)
           p3 == Wire!Put(e.instance, 2)
           p4 == <<e.major>>
           p5 == Wire!Put(e.ttl, 3)
           h == Five(p1, p2, p3, p4, p5)
           s == h \o last
<1>1. s = Wire!PutEntry(e, index)
  BY DEF Wire!PutEntry, Five
<1>2. /\ e.type \in Int /\ e.major \in Int /\ Len(e.options) \in Nat
      /\ e.service \in Wire!Numbers(2) /\ e.instance \in Wire!Numbers(2) /\ e.ttl \in Wire!Numbers(3)
  BY EntryFields
<1>3. c \in Int /\ c \div Nibble = Len(e.options)
  BY <1>2, CountIsRead
<1> HIDE DEF c
<1>4. IsNumber(p2, e.service, 2) /\ IsNumber(p3, e.instance, 2) /\ IsNumber(p5, e.ttl, 3)
  <2>1. 2 \in 1 .. 4 /\ 3 \in 1 .. 4
    OBVIOUS
  <2> QED
    BY <1>2, <2>1, NumbersLie
<1>5. AreFour(p1, e.type, index, 0, c) /\ AreOne(p4, e.major)
  BY <1>2, <1>3, FourBytes, OneByte
<1>6. /\ last \in Bytes /\ Len(last) = 4
      /\ \A bytes \in Bytes : Lies(bytes, 12, last) =>
           /\ Wire!IsServiceEntry(e.type) => Wire!At(bytes, 12, 4) = e.minor
           /\ ~Wire!IsServiceEntry(e.type) => Wire!At(bytes, 14, 2) = e.eventgroup
  <2>1. CASE Wire!IsServiceEntry(e.type)
    <3>1. e.minor \in Wire!Numbers(4) /\ 4 \in 1 .. 4 /\ 12 \in Nat
      BY <2>1, EntryFields
    <3>2. IsNumber(Wire!Put(e.minor, 4), e.minor, 4)
      BY <3>1, NumbersLie
    <3> QED
      BY <2>1, <3>1, <3>2 DEF IsNumber
  <2>2. CASE ~Wire!IsServiceEntry(e.type)
    <3> DEFINE a == <<0, 0>>
               b == Wire!Put(e.eventgroup, 2)
    <3>1. e.eventgroup \in Wire!Numbers(2) /\ 2 \in 1 .. 4 /\ 12 \in Nat /\ 12 + 2 = 14 /\ 14 \in Nat
      BY <2>2, EntryFields
    <3>2. IsNumber(b, e.eventgroup, 2)
      BY <3>1, NumbersLie
    <3>3. AreTwo(a, 0, 0)
      BY TwoBytes
    <3>4. last = a \o b
      BY <2>2
    <3> HIDE DEF a, b
    <3>5. a \in Bytes /\ b \in Bytes /\ Len(a) = 2 /\ Len(b) = 2
      BY <3>2, <3>3 DEF IsNumber, AreTwo
    <3>6. IsTwo(a \o b, a, b)
      BY <3>5, TwoLie
    <3> HIDE DEF last
    <3>7. last \in Bytes /\ Len(last) = 4
      BY <3>4, <3>5, <3>6 DEF IsTwo
    <3>8. ASSUME NEW bytes \in Bytes, Lies(bytes, 12, last)
          PROVE  Wire!At(bytes, 14, 2) = e.eventgroup
      <4>1. Lies(bytes, 14, b)
        BY <3>1, <3>4, <3>5, <3>6, <3>8 DEF IsTwo
      <4> QED
        BY <3>1, <3>2, <4>1 DEF IsNumber
    <3> QED
      BY <2>2, <3>7, <3>8
  <2> QED
    BY <2>1, <2>2
<1> HIDE DEF p1, p2, p3, p4, p5, last, h
<1>7. /\ p1 \in Bytes /\ p2 \in Bytes /\ p3 \in Bytes /\ p4 \in Bytes /\ p5 \in Bytes
      /\ Len(p1) = 4 /\ Len(p2) = 2 /\ Len(p3) = 2 /\ Len(p4) = 1 /\ Len(p5) = 3
  BY <1>4, <1>5 DEF IsNumber, AreFour, AreOne
<1>8. IsFive(h, p1, p2, p3, p4, p5)
  BY <1>7, FiveLie DEF h
<1>9. h \in Bytes /\ Len(h) = 12
  BY <1>7, <1>8 DEF IsFive
<1>10. IsTwo(s, h, last)
  BY <1>6, <1>9, TwoLie
<1> HIDE DEF s
<1>11. s \in Bytes /\ Len(s) = 16
  BY <1>6, <1>9, <1>10 DEF IsTwo
<1>12. Lies(s, 0, h) /\ Lies(s, 12, last)
  <2>1. Lies(s, 0, s) /\ 0 \in Nat /\ 0 + Len(h) = 12
    BY <1>9, <1>11, AllOfItLies DEF Bytes
  <2> QED
    BY <1>10, <1>11, <2>1 DEF IsTwo
<1>13. /\ Lies(s, 0, p1) /\ Lies(s, 4, p2) /\ Lies(s, 6, p3) /\ Lies(s, 8, p4) /\ Lies(s, 9, p5)
  <2>1. /\ 0 \in Nat
        /\ 0 + Len(p1) = 4 /\ 0 + Len(p1) + Len(p2) = 6 /\ 0 + Len(p1) + Len(p2) + Len(p3) = 8
        /\ 0 + Len(p1) + Len(p2) + Len(p3) + Len(p4) = 9
    BY <1>7
  <2> QED
    BY <1>8, <1>11, <1>12, <2>1 DEF IsFive
<1>14. /\ Wire!At(s, 4, 2) = e.service /\ Wire!At(s, 6, 2) = e.instance /\ Wire!At(s, 9, 3) = e.ttl
  BY <1>4, <1>11, <1>13 DEF IsNumber
<1>15. s[1] = e.type /\ s[2] = index /\ s[4] = c
  <2>1. 0 \in Nat /\ 0 + 1 = 1 /\ 0 + 2 = 2 /\ 0 + 4 = 4
    OBVIOUS
  <2> QED
    BY <1>5, <1>11, <1>13, <2>1 DEF AreFour
<1>16. s[9] = e.major
  <2>1. 8 \in Nat /\ 8 + 1 = 9
    OBVIOUS
  <2> QED
    BY <1>5, <1>11, <1>13, <2>1 DEF AreOne
<1> QED
  BY <1>1, <1>3, <1>6, <1>11, <1>12, <1>14, <1>15, <1>16 DEF IsEntry

With(e, options) == [e EXCEPT !.options = options]

\* An entry is read with the options at its index, if they are there ...
LEMMA EntryIsRead ==
    ASSUME Wire!CodecsAssumption, NEW e \in Entry, NEW index \in Nat, NEW bytes, IsEntry(bytes, e, index),
           NEW options, index + Len(e.options) <= Len(options)
    PROVE  Wire!ParseEntry(bytes, options)
             = <<With(e, SubSeq(options, index + 1, index + Len(e.options)))>>
<1> DEFINE slice == SubSeq(options, index + 1, index + Len(e.options))
<1>1. /\ e.type \in Wire!EntryTypes
      /\ Wire!IsServiceEntry(e.type) => e.eventgroup = 0
      /\ ~Wire!IsServiceEntry(e.type) => e.minor = 0
      /\ e = [type |-> e.type, service |-> e.service, instance |-> e.instance,
              major |-> e.major, ttl |-> e.ttl, minor |-> e.minor,
              eventgroup |-> e.eventgroup, options |-> e.options]
  BY EntryFields
<1>2. /\ bytes[1] = e.type /\ bytes[2] = index /\ bytes[4] \div Nibble = Len(e.options)
      /\ Wire!At(bytes, 4, 2) = e.service /\ Wire!At(bytes, 6, 2) = e.instance
      /\ bytes[9] = e.major /\ Wire!At(bytes, 9, 3) = e.ttl
      /\ Wire!IsServiceEntry(e.type) => Wire!At(bytes, 12, 4) = e.minor
      /\ ~Wire!IsServiceEntry(e.type) => Wire!At(bytes, 14, 2) = e.eventgroup
  BY DEF IsEntry
<1> DEFINE minor == IF Wire!IsServiceEntry(bytes[1]) THEN Wire!At(bytes, 12, 4) ELSE 0
           group == IF Wire!IsServiceEntry(bytes[1]) THEN 0 ELSE Wire!At(bytes, 14, 2)
<1>3. minor = e.minor /\ group = e.eventgroup
  BY <1>1, <1>2
<1>4. ~(bytes[1] \notin Wire!EntryTypes
        \/ (bytes[4] \div Nibble > 0 /\ bytes[2] + (bytes[4] \div Nibble) > Len(options)))
  <2> DEFINE l == Len(options)
             k == Len(e.options)
  <2>1. index + k <= l
    OBVIOUS
  <2>2. k \in Nat
    BY EntryFields
  <2>3. l \in Nat \/ l \notin Nat
    OBVIOUS
  <2>4. index + k <= l => ~(index + k > l)
    OBVIOUS
  <2> HIDE DEF l, k
  <2> QED
    BY <1>1, <1>2, <2>1, <2>4 DEF l, k
<1>5. Wire!ParseEntry(bytes, options)
        = <<[type |-> bytes[1], service |-> Wire!At(bytes, 4, 2), instance |-> Wire!At(bytes, 6, 2),
             major |-> bytes[9], ttl |-> Wire!At(bytes, 9, 3), minor |-> minor, eventgroup |-> group,
             options |-> SubSeq(options, bytes[2] + 1, bytes[2] + (bytes[4] \div Nibble))]>>
  BY <1>4 DEF Wire!ParseEntry
<1> HIDE DEF minor, group
<1>6. SubSeq(options, bytes[2] + 1, bytes[2] + (bytes[4] \div Nibble)) = slice
  BY <1>2
<1> HIDE DEF slice
<1>7. Wire!ParseEntry(bytes, options)
        = <<[type |-> e.type, service |-> e.service, instance |-> e.instance,
             major |-> e.major, ttl |-> e.ttl, minor |-> e.minor, eventgroup |-> e.eventgroup,
             options |-> slice]>>
  BY <1>2, <1>3, <1>5, <1>6
<1>8. With(e, slice)
        = [type |-> e.type, service |-> e.service, instance |-> e.instance,
           major |-> e.major, ttl |-> e.ttl, minor |-> e.minor, eventgroup |-> e.eventgroup,
           options |-> slice]
  BY <1>1 DEF With
<1> QED
  BY <1>7, <1>8 DEF slice

\* ... and skipped if it is of a type that is not known.
LEMMA NewerEntryIsSkipped ==
    ASSUME NEW bytes, NEW options, bytes[1] = 2
    PROVE  Wire!ParseEntry(bytes, options) = <<>>
BY DEF Wire!ParseEntry, Wire!EntryTypes

(***************************************************************************)
(* Options                                                                 *)
(***************************************************************************)
OptionIs(bytes, o, option) ==
    /\ Wire!At(bytes, o, 2) = Wire!OptionLength
    /\ bytes[o + 3] \in Wire!OptionTypes => OptionAt(bytes, o) = option
    /\ bytes[o + 3] \notin Wire!OptionTypes => option = Wire!NoOption

After(options, k) == [at |-> 12 * k, bad |-> FALSE, options |-> SubSeq(options, 1, k)]

LEMMA OneOptionMore ==
    ASSUME NEW S, NEW s \in Seq(S), NEW k \in Nat, k < Len(s)
    PROVE  Append(SubSeq(s, 1, k), s[k + 1]) = SubSeq(s, 1, k + 1)
<1> DEFINE a == SubSeq(s, 1, k)
           b == SubSeq(s, 1, k + 1)
           c == Append(a, s[k + 1])
<1>1. Len(s) \in Nat /\ \A i \in 1 .. Len(s) : s[i] \in S
  BY LenProperties, ElementOfSeq
<1>2. \A n \in 0 .. Len(s) : /\ SubSeq(s, 1, n) \in Seq(S)
                            /\ Len(SubSeq(s, 1, n)) = n
                            /\ \A i \in 1 .. n : SubSeq(s, 1, n)[i] = s[i]
  <2> SUFFICES ASSUME NEW n \in 0 .. Len(s)
               PROVE  /\ SubSeq(s, 1, n) \in Seq(S)
                      /\ Len(SubSeq(s, 1, n)) = n
                      /\ \A i \in 1 .. n : SubSeq(s, 1, n)[i] = s[i]
    OBVIOUS
  <2>1. \A i \in 1 .. n : s[i] \in S
    BY <1>1
  <2>2. n \in Int /\ 1 \in Int /\ n - 1 + 1 = n /\ (IF 1 <= n THEN n - 1 + 1 ELSE 0) = n
    BY <1>1
  <2>3. \A i \in 1 .. n : 1 + i - 1 = i
    OBVIOUS
  <2>4. /\ SubSeq(s, 1, n) \in Seq(S)
        /\ Len(SubSeq(s, 1, n)) = IF 1 <= n THEN n - 1 + 1 ELSE 0
        /\ \A i \in 1 .. n - 1 + 1 : SubSeq(s, 1, n)[i] = s[1 + i - 1]
    BY <2>1, <2>2, SubSeqProperties
  <2> QED
    BY <2>2, <2>3, <2>4
<1>3. k \in 0 .. Len(s) /\ k + 1 \in 0 .. Len(s) /\ k + 1 \in 1 .. Len(s)
  BY <1>1
<1>4. /\ a \in Seq(S) /\ Len(a) = k /\ \A i \in 1 .. k : a[i] = s[i]
      /\ b \in Seq(S) /\ Len(b) = k + 1 /\ \A i \in 1 .. k + 1 : b[i] = s[i]
  BY <1>2, <1>3
<1> HIDE DEF a, b
<1>5. /\ c \in Seq(S) /\ Len(c) = k + 1
      /\ \A i \in 1 .. k : c[i] = a[i]
      /\ c[k + 1] = s[k + 1]
  <2>1. s[k + 1] \in S
    BY <1>1, <1>3
  <2> QED
    BY <1>4, <2>1, AppendProperties
<1> HIDE DEF c
<1>6. \A i \in 1 .. k + 1 : c[i] = b[i]
  <2>1. \A i \in 1 .. k + 1 : i \in 1 .. k \/ i = k + 1
    OBVIOUS
  <2> QED
    BY <1>4, <1>5, <2>1
<1>7. c = b
  BY <1>4, <1>5, <1>6, SeqEqual
<1> QED
  BY <1>7 DEF a, b, c

LEMMA Rounds ==
    ASSUME Wire!CodecsAssumption, NEW options \in Seq(Wire!Option), NEW bytes \in Bytes,
           Len(bytes) = 12 * Len(options), NEW k \in Nat, k <= Len(options),
           k < Len(options) => OptionIs(bytes, 12 * k, options[k + 1])
    PROVE  Wire!NextOption(bytes, After(options, k))
             = After(options, IF k = Len(options) THEN k ELSE k + 1)
<1> DEFINE done == After(options, k)
           n == Len(options)
           o == 12 * k
<1>1. done.at = o /\ done.bad = FALSE /\ done.options = SubSeq(options, 1, k)
  BY DEF After
<1>2. n \in Nat /\ o \in Nat /\ k <= n /\ Len(bytes) = 12 * n
  BY LenProperties
<1>3. CASE k = n
  <2>1. o = Len(bytes)
    BY <1>2, <1>3
  <2>2. Wire!NextOption(bytes, done) = done
    <3> HIDE DEF done, o
    <3> QED
      BY <1>1, <2>1 DEF Wire!NextOption
  <2> QED
    BY <1>3, <2>2
<1>4. CASE k # n
  <2> DEFINE total == Wire!At(bytes, o, 2) + 3
             known == bytes[o + 3] \in Wire!OptionTypes
             option == IF known THEN OptionAt(bytes, o) ELSE Wire!NoOption
  <2>1. OptionIs(bytes, o, options[k + 1])
    BY <1>2, <1>4
  <2>2. total = 12
    BY <2>1 DEF OptionIs, Wire!OptionLength
  <2>3. option = options[k + 1]
    BY <2>1 DEF OptionIs
  <2>4. Len(bytes) - o >= 12 /\ o # Len(bytes)
    BY <1>2, <1>4
  <2>5. ~(\/ Len(bytes) - o < 4 \/ total < 4 \/ Len(bytes) - o < total
          \/ known /\ total # Wire!OptionLength + 3)
    <3> HIDE DEF total, known
    <3> QED
      BY <1>2, <2>2, <2>4 DEF Wire!OptionLength
  <2>6. Wire!NextOption(bytes, done)
          = [at |-> o + total, bad |-> FALSE, options |-> Append(done.options, option)]
    <3> HIDE DEF done, o
    <3> QED
      BY <1>1, <2>4, <2>5 DEF Wire!NextOption, OptionAt
  <2> HIDE DEF total, option, done
  <2>7. o + total = 12 * (k + 1)
    BY <2>2
  <2>8. Append(done.options, option) = SubSeq(options, 1, k + 1)
    BY <1>1, <1>2, <1>4, <2>3, OneOptionMore
  <2>9. Wire!NextOption(bytes, done) = After(options, k + 1)
    BY <2>6, <2>7, <2>8 DEF After
  <2> QED
    BY <1>4, <2>9 DEF done
<1> QED
  BY <1>3, <1>4

LEMMA AllOfASequence ==
    ASSUME NEW S, NEW s \in Seq(S)
    PROVE  SubSeq(s, 1, Len(s)) = s
<1>1. Lies(s, 0, s) /\ 0 \in Nat
  BY AllOfItLies
<1>2. SubSeq(s, 0 + 1, 0 + Len(s)) = s
  BY <1>1, SliceIsIt
<1>3. 0 + 1 = 1 /\ 0 + Len(s) = Len(s)
  BY LenProperties
<1> QED
  BY <1>2, <1>3

LEMMA OptionsAreRead ==
    ASSUME Wire!CodecsAssumption, NEW options \in Seq(Wire!Option), NEW bytes \in Bytes,
           Len(bytes) = 12 * Len(options),
           \A k \in 1 .. Len(options) : OptionIs(bytes, 12 * (k - 1), options[k])
    PROVE  Wire!ParseOptions(bytes) = <<options>>
<1> DEFINE n == Len(options)
           l == Len(bytes)
           start == [at |-> 0, bad |-> FALSE, options |-> <<>>]
           m(k) == IF k <= n THEN k ELSE n
           h == [k \in 0 .. l |-> After(options, m(k))]
           Solves(f) == f = [k \in 0 .. l |-> IF k = 0 THEN start
                                              ELSE Wire!NextOption(bytes, f[k - 1])]
<1>1. n \in Nat /\ l = 12 * n /\ l \in Nat /\ n <= l
  BY LenProperties
<1>2. \A k \in 0 .. n - 1 : OptionIs(bytes, 12 * k, options[k + 1])
  <2> SUFFICES ASSUME NEW k \in 0 .. n - 1 PROVE OptionIs(bytes, 12 * k, options[k + 1])
    OBVIOUS
  <2>1. k + 1 \in 1 .. n /\ (k + 1) - 1 = k
    BY <1>1
  <2>2. OptionIs(bytes, 12 * ((k + 1) - 1), options[k + 1])
    BY <2>1
  <2> QED
    BY <2>1, <2>2
<1>3. After(options, 0) = start
  <2>1. SubSeq(options, 1, 0) = <<>>
    <3>1. \A i \in 1 .. 0 : options[i] \in Wire!Option
      OBVIOUS
    <3>2. SubSeq(options, 1, 0) \in Seq(Wire!Option) /\ Len(SubSeq(options, 1, 0)) = 0
      BY <3>1, SubSeqProperties
    <3> QED
      BY <3>2, EmptySeq
  <2>2. 12 * 0 = 0
    OBVIOUS
  <2> QED
    BY <2>1, <2>2 DEF After
<1> HIDE DEF start, n, l
<1>4. ASSUME NEW k \in Nat
      PROVE  Wire!NextOption(bytes, After(options, m(k))) = After(options, m(k + 1))
  <2> DEFINE j == m(k)
  <2>1. j \in Nat /\ j <= n
    BY <1>1
  <2>2. m(k + 1) = IF j = n THEN j ELSE j + 1
    BY <1>1
  <2>3. j < n => OptionIs(bytes, 12 * j, options[j + 1])
    <3>1. j < n => j \in 0 .. n - 1
      BY <1>1, <2>1
    <3> QED
      BY <1>2, <3>1
  <2> HIDE DEF j
  <2>4. Wire!NextOption(bytes, After(options, j)) = After(options, IF j = n THEN j ELSE j + 1)
    BY <2>1, <2>3, Rounds DEF n
  <2> QED
    BY <2>2, <2>4 DEF j
<1>5. Solves(h)
  <2>1. \A k \in 0 .. l : h[k] = IF k = 0 THEN start ELSE Wire!NextOption(bytes, h[k - 1])
    <3> SUFFICES ASSUME NEW k \in 0 .. l
                 PROVE  h[k] = IF k = 0 THEN start ELSE Wire!NextOption(bytes, h[k - 1])
      OBVIOUS
    <3>1. CASE k = 0
      <4>1. m(0) = 0 /\ 0 \in 0 .. l
        BY <1>1
      <4>2. h[0] = After(options, m(0))
        BY <4>1
      <4> QED
        BY <1>3, <3>1, <4>1, <4>2
    <3>2. CASE k # 0
      <4>1. k - 1 \in Nat /\ k - 1 \in 0 .. l /\ (k - 1) + 1 = k
        BY <1>1, <3>2
      <4>2. h[k] = After(options, m(k)) /\ h[k - 1] = After(options, m(k - 1))
        BY <4>1
      <4>3. Wire!NextOption(bytes, After(options, m(k - 1))) = After(options, m((k - 1) + 1))
        BY <1>4, <4>1
      <4> HIDE DEF h, m
      <4> QED
        BY <3>2, <4>1, <4>2, <4>3
    <3> QED
      BY <3>1, <3>2
  <2>2. h = [k \in 0 .. l |-> h[k]]
    OBVIOUS
  <2> HIDE DEF h
  <2> QED
    BY <2>1, <2>2
<1> DEFINE after == CHOOSE f : Solves(f)
<1>6. Solves(after)
  <2> HIDE DEF Solves, h
  <2> QED
    BY <1>5
<1>7. Wire!ParseOptions(bytes) = IF after[l].bad THEN <<>> ELSE <<after[l].options>>
  BY DEF Wire!ParseOptions, start, l
<1> HIDE DEF after, h
<1>8. after = [k \in 0 .. l |-> IF k = 0 THEN start ELSE Wire!NextOption(bytes, after[k - 1])]
  BY <1>6
<1> DEFINE K == {k \in Nat : k <= l => after[k] = After(options, m(k))}
<1>9. 0 \in K
  <2>1. m(0) = 0 /\ 0 \in 0 .. l
    BY <1>1
  <2>2. after[0] = start
    BY <1>8, <2>1
  <2> QED
    BY <1>3, <2>1, <2>2
<1>10. \A k \in K : k + 1 \in K
  <2> SUFFICES ASSUME NEW k \in Nat, k <= l => after[k] = After(options, m(k)), k + 1 <= l
               PROVE  after[k + 1] = After(options, m(k + 1))
    OBVIOUS
  <2>1. k + 1 \in 0 .. l /\ k + 1 # 0 /\ (k + 1) - 1 = k /\ k <= l
    BY <1>1
  <2>2. after[k + 1] = Wire!NextOption(bytes, after[k])
    BY <1>8, <2>1
  <2> HIDE DEF m
  <2> QED
    BY <1>4, <2>1, <2>2
<1>11. l \in K
  <2> HIDE DEF K
  <2>1. K \in SUBSET Nat
    BY DEF K
  <2> QED
    BY <1>1, <1>9, <1>10, <2>1, AllNumbers
<1>12. after[l] = After(options, n)
  <2>1. m(l) = n /\ l <= l
    BY <1>1
  <2> HIDE DEF m
  <2> QED
    BY <1>11, <2>1
<1>13. SubSeq(options, 1, n) = options
  BY AllOfASequence DEF n
<1>14. after[l].bad = FALSE /\ after[l].options = options
  BY <1>12, <1>13 DEF After
<1> QED
  BY <1>7, <1>14

\* A sequence put together from its elements, the first m parts being empty.
LEMMA FlattenOfElements ==
    ASSUME NEW S, NEW x \in Seq(S), NEW f \in Seq(Seq(S)), NEW m \in Nat, Len(f) = m + Len(x),
           \A i \in 1 .. m : f[i] = <<>>,
           \A i \in 1 .. Len(x) : f[m + i] = <<x[i]>>
    PROVE  Wire!FlattenSeq(f) = x
<1> DEFINE n == Len(f)
           g == [i \in 0 .. n |-> IF i <= m THEN <<>> ELSE SubSeq(x, 1, i - m)]
<1>1. Len(x) \in Nat /\ n = m + Len(x) /\ n \in Nat /\ \A i \in 1 .. Len(x) : x[i] \in S
  BY LenProperties, ElementOfSeq
<1>2. <<>> \in Seq(S) /\ <<>> \o <<>> = <<>>
  BY EmptySeq, ConcatEmptySeq
<1>3. \A k \in 0 .. Len(x) : SubSeq(x, 1, k) \in Seq(S)
  <2> SUFFICES ASSUME NEW k \in 0 .. Len(x) PROVE SubSeq(x, 1, k) \in Seq(S)
    OBVIOUS
  <2>1. \A i \in 1 .. k : x[i] \in S
    BY <1>1
  <2> QED
    BY <2>1, SubSeqProperties
<1>4. SubSeq(x, 1, 0) = <<>>
  <2>1. \A i \in 1 .. 0 : x[i] \in S
    OBVIOUS
  <2>2. SubSeq(x, 1, 0) \in Seq(S) /\ Len(SubSeq(x, 1, 0)) = 0
    BY <2>1, SubSeqProperties
  <2> QED
    BY <2>2, EmptySeq
<1> HIDE DEF n
<1>5. \A i \in 0 .. n : g[i] \in Seq(S)
  <2> SUFFICES ASSUME NEW i \in 0 .. n PROVE g[i] \in Seq(S)
    OBVIOUS
  <2>1. CASE i <= m
    BY <1>2, <2>1
  <2>2. CASE ~(i <= m)
    <3>1. i - m \in 0 .. Len(x)
      BY SMTT(60), <1>1, <2>2
    <3> QED
      BY <1>3, <2>2, <3>1
  <2> QED
    BY <2>1, <2>2
<1>6. ASSUME NEW i \in 1 .. n
      PROVE  g[i] = g[i - 1] \o f[i]
  <2>1. i \in 0 .. n /\ i - 1 \in 0 .. n
    BY <1>1
  <2>2. CASE i <= m
    <3>1. i - 1 <= m /\ i \in 1 .. m
      BY <1>1, <2>2
    <3>2. f[i] = <<>> /\ g[i] = <<>> /\ g[i - 1] = <<>>
      BY SMTT(60), <2>1, <2>2, <3>1
    <3> QED
      BY <1>2, <3>2
  <2>3. CASE ~(i <= m)
    <3> DEFINE k == (i - m) - 1
    <3>1. k \in Nat /\ k < Len(x) /\ k + 1 = i - m /\ m + (k + 1) = i /\ k + 1 \in 1 .. Len(x)
          /\ (i - 1) - m = k
      BY <1>1, <2>3
    <3>2. g[i] = SubSeq(x, 1, k + 1)
      BY <2>1, <2>3, <3>1
    <3>3. g[i - 1] = SubSeq(x, 1, k)
      <4>1. CASE i - 1 <= m
        <5>1. k = 0
          BY <2>3, <4>1
        <5>2. g[i - 1] = <<>>
          BY <2>1, <4>1
        <5> QED
          BY <1>4, <5>1, <5>2
      <4>2. CASE ~(i - 1 <= m)
        BY <2>1, <3>1, <4>2
      <4> QED
        BY <4>1, <4>2
    <3>4. f[i] = <<x[k + 1]>>
      <4> HIDE DEF k
      <4>1. f[m + (k + 1)] = <<x[k + 1]>>
        BY <3>1
      <4> QED
        BY <3>1, <4>1
    <3> HIDE DEF k, g
    <3>5. Append(SubSeq(x, 1, k), x[k + 1]) = SubSeq(x, 1, k + 1)
      BY <3>1, OneOptionMore
    <3>6. SubSeq(x, 1, k) \in Seq(S) /\ x[k + 1] \in S
      <4>1. k \in 0 .. Len(x)
        BY <1>1, <3>1
      <4> QED
        BY <1>1, <1>3, <3>1, <4>1
    <3>7. Append(SubSeq(x, 1, k), x[k + 1]) = SubSeq(x, 1, k) \o <<x[k + 1]>>
      BY <3>6, AppendIsConcat
    <3> QED
      BY <3>2, <3>3, <3>4, <3>5, <3>7
  <2> QED
    BY <2>2, <2>3
<1>7. Sums(f, g, S)
  <2>1. 0 \in 0 .. n /\ 0 <= m
    BY <1>1
  <2>2. g \in [0 .. n -> Seq(S)] /\ g[0] = <<>>
    <3>1. g = [i \in 0 .. n |-> g[i]]
      OBVIOUS
    <3>2. g[0] = <<>>
      BY <2>1
    <3> HIDE DEF g
    <3> QED
      BY <1>5, <3>1, <3>2
  <2> HIDE DEF g
  <2> QED
    BY <1>6, <2>2 DEF Sums, n
<1>8. g[n] = x
  <2>1. n \in 0 .. n
    BY <1>1
  <2>2. CASE n <= m
    <3>1. Len(x) = 0 /\ g[n] = <<>>
      BY <1>1, <2>1, <2>2
    <3> QED
      BY <3>1, EmptySeq
  <2>3. CASE ~(n <= m)
    <3>1. n - m = Len(x) /\ g[n] = SubSeq(x, 1, n - m)
      BY <1>1, <2>1, <2>3
    <3> QED
      BY <3>1, AllOfASequence
  <2> QED
    BY <2>2, <2>3
<1> HIDE DEF g
<1>9. Wire!FlattenSeq(f) = g[n]
  BY <1>7, FlattenIsSum DEF n
<1> QED
  BY <1>8, <1>9

(***************************************************************************)
(* Whose options are where                                                 *)
(***************************************************************************)
OptionLists(entries) == [n \in DOMAIN entries |-> entries[n].options]

\* The index of the options of an entry.
Index(entries, n) == Len(Wire!OptionsOf(SubSeq(entries, 1, n - 1)))

LEMMA OptionListsAre ==
    ASSUME Wire!CodecsAssumption, NEW entries \in Seq(Entry)
    PROVE  /\ OptionLists(entries) \in Seq(Seq(Wire!Option))
           /\ Len(OptionLists(entries)) = Len(entries) /\ Len(entries) \in Nat
           /\ \A n \in 1 .. Len(entries) : /\ entries[n] \in Entry
                                           /\ OptionLists(entries)[n] = entries[n].options
           /\ Wire!OptionsOf(entries) = Wire!FlattenSeq(OptionLists(entries))
<1> DEFINE n == Len(entries)
           f == OptionLists(entries)
<1>1. n \in Nat /\ DOMAIN entries = 1 .. n /\ \A k \in 1 .. n : entries[k] \in Entry
  BY LenProperties, ElementOfSeq
<1>2. \A k \in 1 .. n : entries[k].options \in Seq(Wire!Option)
  BY <1>1, EntryFields
<1>3. f = [k \in 1 .. n |-> entries[k].options]
  BY <1>1 DEF OptionLists
<1> HIDE DEF n
<1>4. f \in [1 .. n -> Seq(Wire!Option)]
  BY <1>2, <1>3
<1>5. f \in Seq(Seq(Wire!Option))
  BY <1>1, <1>4, SeqDef
<1>6. Len(f) = n
  <2> HIDE DEF f
  <2> QED
    BY <1>1, <1>4, <1>5, LenProperties
<1>7. Wire!OptionsOf(entries) = Wire!FlattenSeq(f)
  BY DEF Wire!OptionsOf, OptionLists
<1>8. \A k \in 1 .. n : f[k] = entries[k].options
  BY <1>3
<1> QED
  BY <1>1, <1>5, <1>6, <1>7, <1>8 DEF n

Starts(e, f, n) == Len(e) = n /\ \A i \in 1 .. n : e[i] = f[i]

LEMMA FlattenOfStart ==
    ASSUME NEW S, NEW f \in Seq(Seq(S)), NEW g, Sums(f, g, S), NEW n \in 0 .. Len(f),
           NEW e \in Seq(Seq(S)), Starts(e, f, n)
    PROVE  Wire!FlattenSeq(e) = g[n]
<1>1. Len(e) = n /\ \A i \in 1 .. n : e[i] = f[i]
  BY DEF Starts
<1> QED
  BY <1>1, FlattenOfSome

LEMMA OptionsLie ==
    ASSUME Wire!CodecsAssumption, NEW entries \in Seq(Entry)
    PROVE  /\ Wire!OptionsOf(entries) \in Seq(Wire!Option)
           /\ Len(Wire!OptionsOf(entries)) \in Nat
           /\ \A n \in 1 .. Len(entries) :
                /\ Index(entries, n) \in Nat
                /\ Lies(Wire!OptionsOf(entries), Index(entries, n), entries[n].options)
<1> DEFINE f == OptionLists(entries)
           l == Len(entries)
           options == Wire!OptionsOf(entries)
<1>1. /\ f \in Seq(Seq(Wire!Option)) /\ Len(f) = l /\ l \in Nat
      /\ options = Wire!FlattenSeq(f)
      /\ \A n \in 1 .. l : entries[n] \in Entry /\ f[n] = entries[n].options
  BY OptionListsAre
<1> HIDE DEF f, l, options
<1>2. PICK g : Sums(f, g, Wire!Option)
  BY <1>1, SumsExist
<1>3. options = g[l]
  BY <1>1, <1>2, FlattenIsSum
<1>4. \A n \in 0 .. l : g[n] \in Seq(Wire!Option)
  BY <1>1, <1>2 DEF Sums
<1>5. options \in Seq(Wire!Option) /\ Len(options) \in Nat
  <2>1. l \in 0 .. l
    BY <1>1
  <2>2. options \in Seq(Wire!Option)
    BY <1>3, <1>4, <2>1
  <2> QED
    BY <2>2, LenProperties
<1>6. ASSUME NEW n \in 1 .. l
      PROVE  Index(entries, n) \in Nat /\ Lies(options, Index(entries, n), entries[n].options)
  <2> DEFINE some == SubSeq(entries, 1, n - 1)
             e == OptionLists(some)
  <2>1. n - 1 \in Nat /\ n - 1 \in 0 .. l
    BY <1>1
  <2>2. some \in Seq(Entry) /\ Len(some) = n - 1 /\ \A k \in 1 .. n - 1 : some[k] = entries[k]
    <3> DEFINE m == n - 1
    <3>1. \A k \in 1 .. m : k \in 1 .. l /\ 1 + k - 1 = k
      BY <1>1
    <3>2. \A k \in 1 .. m : entries[k] \in Entry
      BY <1>1, <3>1
    <3>3. m \in Int /\ 1 \in Int /\ m - 1 + 1 = m /\ (IF 1 <= m THEN m - 1 + 1 ELSE 0) = m
      BY <2>1
    <3> HIDE DEF m
    <3>4. /\ SubSeq(entries, 1, m) \in Seq(Entry)
          /\ Len(SubSeq(entries, 1, m)) = IF 1 <= m THEN m - 1 + 1 ELSE 0
          /\ \A k \in 1 .. m - 1 + 1 : SubSeq(entries, 1, m)[k] = entries[1 + k - 1]
      BY <3>2, <3>3, SubSeqProperties
    <3>5. \A k \in 1 .. m : SubSeq(entries, 1, m)[k] = entries[k]
      BY <3>1, <3>3, <3>4
    <3> QED
      BY <3>3, <3>4, <3>5 DEF m
  <2> HIDE DEF some
  <2>3. /\ e \in Seq(Seq(Wire!Option)) /\ Len(e) = n - 1
        /\ Wire!OptionsOf(some) = Wire!FlattenSeq(e)
        /\ \A k \in 1 .. n - 1 : e[k] = some[k].options
    BY <2>2, OptionListsAre
  <2>4. \A k \in 1 .. n - 1 : e[k] = f[k]
    <3>1. \A k \in 1 .. n - 1 : k \in 1 .. l
      BY <1>1
    <3> QED
      BY <1>1, <2>2, <2>3, <3>1
  <2> HIDE DEF e
  <2>5. Wire!FlattenSeq(e) = g[n - 1]
    <3> DEFINE m == n - 1
    <3>1. /\ m \in 0 .. Len(f) /\ Starts(e, f, m)
          /\ e \in Seq(Seq(Wire!Option)) /\ f \in Seq(Seq(Wire!Option))
      BY <1>1, <2>1, <2>3, <2>4 DEF Starts
    <3> HIDE DEF m
    <3>2. Wire!FlattenSeq(e) = g[m]
      BY <1>2, <3>1, FlattenOfStart
    <3> QED
      BY <3>2 DEF m
  <2>6. Index(entries, n) = Len(g[n - 1])
    BY <2>3, <2>5 DEF Index, some
  <2>7. Len(g[n - 1]) \in Nat
    BY <1>4, <2>1, LenProperties
  <2>8. Lies(options, 0 + Len(g[n - 1]), f[n])
    <3>1. Lies(options, 0, Wire!FlattenSeq(f)) /\ 0 \in Nat
      BY <1>1, <1>5, AllOfItLies
    <3> QED
      BY <1>1, <1>2, <1>5, <3>1, FlattenedLie
  <2>9. 0 + Len(g[n - 1]) = Len(g[n - 1])
    BY <2>7
  <2> QED
    BY <1>1, <2>6, <2>7, <2>8, <2>9
<1> QED
  BY <1>5, <1>6 DEF options, l

\* The first entry with options has the first options, and later ones have later ones.
LEMMA IndicesGrow ==
    ASSUME Wire!CodecsAssumption, NEW entries \in Seq(Entry), NEW n \in 1 .. Len(entries)
    PROVE  /\ (\A m \in 1 .. n - 1 : entries[m].options = <<>>) => Index(entries, n) = 0
           /\ \A m \in 1 .. n - 1 : Len(entries[m].options) <= Index(entries, n)
<1> DEFINE some == SubSeq(entries, 1, n - 1)
           e == OptionLists(some)
           options == Wire!OptionsOf(some)
<1>1. n - 1 \in Nat /\ Len(entries) \in Nat /\ \A k \in 1 .. Len(entries) : entries[k] \in Entry
  BY LenProperties, ElementOfSeq
<1>2. some \in Seq(Entry) /\ Len(some) = n - 1 /\ \A k \in 1 .. n - 1 : some[k] = entries[k]
  <2> DEFINE m == n - 1
  <2>1. \A k \in 1 .. m : k \in 1 .. Len(entries) /\ 1 + k - 1 = k
    BY <1>1
  <2>2. \A k \in 1 .. m : entries[k] \in Entry
    BY <1>1, <2>1
  <2>3. m \in Int /\ 1 \in Int /\ m - 1 + 1 = m /\ (IF 1 <= m THEN m - 1 + 1 ELSE 0) = m
    BY <1>1
  <2> HIDE DEF m
  <2>4. /\ SubSeq(entries, 1, m) \in Seq(Entry)
        /\ Len(SubSeq(entries, 1, m)) = IF 1 <= m THEN m - 1 + 1 ELSE 0
        /\ \A k \in 1 .. m - 1 + 1 : SubSeq(entries, 1, m)[k] = entries[1 + k - 1]
    BY <2>2, <2>3, SubSeqProperties
  <2>5. \A k \in 1 .. m : SubSeq(entries, 1, m)[k] = entries[k]
    BY <2>1, <2>3, <2>4
  <2> QED
    BY <2>3, <2>4, <2>5 DEF m
<1> HIDE DEF some
<1>3. /\ e \in Seq(Seq(Wire!Option)) /\ Len(e) = n - 1
      /\ options = Wire!FlattenSeq(e)
      /\ \A k \in 1 .. n - 1 : e[k] = some[k].options
  BY <1>2, OptionListsAre
<1>4. Index(entries, n) = Len(options)
  BY DEF Index, some
<1>5. ASSUME \A m \in 1 .. n - 1 : entries[m].options = <<>>
      PROVE  Index(entries, n) = 0
  <2> DEFINE x == <<>>
             k == n - 1
  <2>1. x \in Seq(Wire!Option) /\ Len(x) = 0
    BY EmptySeq
  <2>2. k \in Nat /\ Len(e) = k + Len(x)
    BY <1>1, <1>3, <2>1
  <2>3. (\A i \in 1 .. k : e[i] = <<>>) /\ (\A i \in 1 .. Len(x) : e[k + i] = <<x[i]>>)
    <3>1. \A i \in 1 .. Len(x) : FALSE
      BY <2>1
    <3> HIDE DEF x, e
    <3>2. \A i \in 1 .. k : e[i] = <<>>
      BY <1>2, <1>3, <1>5
    <3> QED
      BY <3>1, <3>2
  <2> HIDE DEF x, k, e
  <2>4. Wire!FlattenSeq(e) = x
    BY <1>3, <2>1, <2>2, <2>3, FlattenOfElements
  <2> QED
    BY <1>3, <1>4, <2>1, <2>4
<1>6. ASSUME NEW m \in 1 .. n - 1
      PROVE  Len(entries[m].options) <= Index(entries, n)
  <2> DEFINE i == Index(some, m)
             k == Len(some[m].options)
  <2>1. i \in Nat /\ Lies(options, i, some[m].options) /\ Len(options) \in Nat
    BY <1>2, OptionsLie
  <2>2. i + k <= Len(options)
    BY <2>1 DEF Lies
  <2>3. k \in Nat
    <3>1. m \in 1 .. Len(entries)
      BY <1>1
    <3>2. entries[m] \in Entry /\ some[m] = entries[m]
      BY <1>1, <1>2, <3>1
    <3> QED
      BY <3>2, EntryFields
  <2> HIDE DEF i, k
  <2>4. k <= Len(options)
    BY <2>1, <2>2, <2>3
  <2> QED
    BY <1>2, <1>4, <2>4 DEF k
<1> QED
  BY <1>5, <1>6

\* If there are options, there is a first entry that has them.
LEMMA SomeEntryIsFirst ==
    ASSUME Wire!CodecsAssumption, NEW entries \in Seq(Entry), Wire!OptionsOf(entries) # <<>>
    PROVE  \E n \in DOMAIN entries : /\ entries[n].options # <<>>
                                     /\ \A m \in 1 .. n - 1 : entries[m].options = <<>>
<1> DEFINE l == Len(entries)
           e == OptionLists(entries)
           K == {k \in Nat : k <= l => \A m \in 1 .. k : entries[m].options = <<>>}
<1>1. l \in Nat /\ DOMAIN entries = 1 .. l
  BY LenProperties
<1>2. /\ e \in Seq(Seq(Wire!Option)) /\ Len(e) = l
      /\ Wire!OptionsOf(entries) = Wire!FlattenSeq(e)
      /\ \A k \in 1 .. l : e[k] = entries[k].options
  BY OptionListsAre
<1> HIDE DEF l, e
<1> SUFFICES ASSUME \A n \in 1 .. l : entries[n].options = <<>>
                                     \/ \E m \in 1 .. n - 1 : entries[m].options # <<>>
             PROVE  FALSE
  BY <1>1
<1>3. 0 \in K
  OBVIOUS
<1>4. \A k \in K : k + 1 \in K
  <2> SUFFICES ASSUME NEW k \in Nat, k <= l => \A m \in 1 .. k : entries[m].options = <<>>,
                      k + 1 <= l, NEW m \in 1 .. k + 1
               PROVE  entries[m].options = <<>>
    OBVIOUS
  <2>1. \A j \in 1 .. k : entries[j].options = <<>>
    BY <1>1
  <2>2. k + 1 \in 1 .. l /\ (k + 1) - 1 = k
    BY <1>1
  <2>3. entries[k + 1].options = <<>>
    BY <2>1, <2>2
  <2>4. m \in 1 .. k \/ m = k + 1
    OBVIOUS
  <2> QED
    BY <2>1, <2>3, <2>4
<1>5. l \in K
  <2> HIDE DEF K
  <2>1. K \in SUBSET Nat
    BY DEF K
  <2> QED
    BY <1>1, <1>3, <1>4, <2>1, AllNumbers
<1>6. \A m \in 1 .. l : entries[m].options = <<>>
  BY <1>1, <1>5
<1> DEFINE x == <<>>
<1>7. x \in Seq(Wire!Option) /\ Len(x) = 0
  BY EmptySeq
<1>8. Len(e) = l + Len(x)
  BY <1>1, <1>2, <1>7
<1>9. (\A i \in 1 .. l : e[i] = <<>>) /\ (\A i \in 1 .. Len(x) : e[l + i] = <<x[i]>>)
  <2>1. \A i \in 1 .. Len(x) : FALSE
    BY <1>7
  <2> HIDE DEF x
  <2>2. \A i \in 1 .. l : e[i] = <<>>
    BY <1>2, <1>6
  <2> QED
    BY <2>1, <2>2
<1>10. x = <<>>
  OBVIOUS
<1> HIDE DEF x
<1>11. Wire!FlattenSeq(e) = x
  <2>1. e \in Seq(Seq(Wire!Option)) /\ x \in Seq(Wire!Option) /\ l \in Nat
    BY <1>1, <1>2, <1>7
  <2> QED
    BY <1>8, <1>9, <2>1, FlattenOfElements
<1> QED
  BY <1>2, <1>10, <1>11

(***************************************************************************)
(* The payload of an announcement                                          *)
(***************************************************************************)
FlagsOf(a) == (IF a.reboot THEN Base \div 2 ELSE 0) + (IF a.unicast THEN Base \div 4 ELSE 0)

EntryBytes(a) == [n \in DOMAIN a.entries |-> Wire!PutEntry(a.entries[n], Index(a.entries, n))]

OptionBytes(a) ==
    [n \in DOMAIN Wire!OptionsOf(a.entries) |-> Wire!PutOption(Wire!OptionsOf(a.entries)[n])]

Payload(a) ==
    Five(<<FlagsOf(a), 0, 0, 0>>,
         Wire!Put(Len(Wire!FlattenSeq(EntryBytes(a))), 4), Wire!FlattenSeq(EntryBytes(a)),
         Wire!Put(12 * Len(Wire!OptionsOf(a.entries)), 4), Wire!FlattenSeq(OptionBytes(a)))

LEMMA PayloadIs ==
    ASSUME NEW a
    PROVE  Wire!SdPayload(a) = Payload(a)
BY DEF Wire!SdPayload, Payload, Five, FlagsOf, EntryBytes, OptionBytes, Index

Writable(a) ==
    /\ \A n \in DOMAIN a.entries : Len(a.entries[n].options) <= EntryOptions
    /\ Len(Wire!OptionsOf(a.entries)) <= MaxOptions
    /\ \A n \in DOMAIN Wire!OptionsOf(a.entries) :
         Wire!OptionsOf(a.entries)[n].address # Wire!NoAddress

LEMMA FlagBits ==
    ASSUME Wire!CodecsAssumption, NEW a, a.reboot \in BOOLEAN, a.unicast \in BOOLEAN
    PROVE  /\ FlagsOf(a) \in Int
           /\ (FlagsOf(a) \div (Base \div 2) = 1) = a.reboot
           /\ ((FlagsOf(a) \div (Base \div 4)) % 2 = 1) = a.unicast
<1> DEFINE q == Base \div 4
           f == FlagsOf(a)
<1>1. Base \in Nat /\ Base > 20 /\ Base % 4 = 0
  BY Weights4 DEF Wire!CodecsAssumption
<1>2. q \in Nat \ {0} /\ Base = 4 * q
  BY <1>1
<1>3. Base \div 2 = 2 * q
  BY <1>1, <1>2
<1>4. f = (IF a.reboot THEN 2 * q ELSE 0) + (IF a.unicast THEN q ELSE 0)
  BY <1>3 DEF FlagsOf
<1> HIDE DEF q, f
<1> DEFINE h == 2 * q
<1>5. h \in Nat \ {0} /\ q \in 0 .. h - 1 /\ 0 \in 0 .. h - 1 /\ 0 \in 0 .. q - 1
      /\ 0 \in Nat /\ 1 \in Nat /\ 2 \in Nat /\ 3 \in Nat
  BY <1>2
<1>6. \A x \in Nat : (h * x + 0) \div h = x /\ (h * x + q) \div h = x
  BY ZenonT(60), <1>5, OneQuotient
<1>7. \A x \in Nat : (q * x + 0) \div q = x
  BY <1>2, <1>5, OneQuotient
<1>8. /\ h * 0 + 0 = 0 /\ h * 0 + q = q /\ h * 1 + 0 = h /\ h * 1 + q = h + q
      /\ q * 0 + 0 = 0 /\ q * 1 + 0 = q /\ q * 2 + 0 = h /\ q * 3 + 0 = h + q
      /\ h + 0 = h /\ 0 + q = q /\ 0 + 0 = 0
  BY <1>2
<1>9. f = (IF a.reboot THEN h ELSE 0) + (IF a.unicast THEN q ELSE 0)
  BY <1>4
<1> HIDE DEF h
<1>10. /\ 0 \div h = 0 /\ q \div h = 0 /\ h \div h = 1 /\ (h + q) \div h = 1
       /\ 0 \div q = 0 /\ q \div q = 1 /\ h \div q = 2 /\ (h + q) \div q = 3
  <2>1. /\ (h * 0 + 0) \div h = 0 /\ (h * 0 + q) \div h = 0
        /\ (h * 1 + 0) \div h = 1 /\ (h * 1 + q) \div h = 1
        /\ (q * 0 + 0) \div q = 0 /\ (q * 1 + 0) \div q = 1
        /\ (q * 2 + 0) \div q = 2 /\ (q * 3 + 0) \div q = 3
    BY <1>5, <1>6, <1>7, Zenon
  <2> QED
    BY <1>8, <2>1
<1>11. 0 % 2 = 0 /\ 1 % 2 = 1 /\ 2 % 2 = 0 /\ 3 % 2 = 1
  OBVIOUS
<1>12. /\ a.reboot /\ a.unicast => f = h + q
       /\ a.reboot /\ ~a.unicast => f = h
       /\ ~a.reboot /\ a.unicast => f = q
       /\ ~a.reboot /\ ~a.unicast => f = 0
  BY <1>8, <1>9
<1>13. f \in Int
  BY <1>2, <1>5, <1>12
<1>14. (f \div h = 1) <=> a.reboot
  BY <1>10, <1>12
<1>15. ((f \div q) % 2 = 1) <=> a.unicast
  <2>1. /\ a.reboot /\ a.unicast => f \div q = 3
        /\ a.reboot /\ ~a.unicast => f \div q = 2
        /\ ~a.reboot /\ a.unicast => f \div q = 1
        /\ ~a.reboot /\ ~a.unicast => f \div q = 0
    BY <1>10, <1>12
  <2> QED
    BY <1>11, <2>1
<1> QED
  BY <1>3, <1>13, <1>14, <1>15 DEF h, q, f

LEMMA AnnouncementFields ==
    ASSUME Wire!CodecsAssumption, NEW a \in Wire!Announcement
    PROVE  /\ a.session \in Wire!Numbers(2) /\ a.reboot \in BOOLEAN /\ a.unicast \in BOOLEAN
           /\ a.entries \in Seq(Entry) /\ Len(a.entries) \in Nat
           /\ DOMAIN a.entries = 1 .. Len(a.entries)
           /\ a = [session |-> a.session, reboot |-> a.reboot, unicast |-> a.unicast,
                   entries |-> a.entries]
<1>1. a.entries \in Seq(Entry)
  BY DEF Wire!Announcement, Entry
<1>2. Len(a.entries) \in Nat /\ DOMAIN a.entries = 1 .. Len(a.entries)
  BY <1>1, LenProperties
<1> QED
  BY <1>1, <1>2 DEF Wire!Announcement

LEMMA EntriesLie ==
    ASSUME Wire!CodecsAssumption, NEW a \in Wire!Announcement, Writable(a)
    PROVE  /\ Len(EntryBytes(a)) = Len(a.entries)
           /\ IsTable(Wire!FlattenSeq(EntryBytes(a)), EntryBytes(a), 16)
           /\ \A k \in 1 .. Len(a.entries) :
                IsEntry(EntryBytes(a)[k], a.entries[k], Index(a.entries, k))
<1> DEFINE entries == a.entries
           n == Len(entries)
           f == EntryBytes(a)
<1>1. /\ entries \in Seq(Entry) /\ n \in Nat /\ DOMAIN entries = 1 .. n
      /\ \A k \in 1 .. n : entries[k] \in Entry /\ Index(entries, k) \in Int
                           /\ Len(entries[k].options) <= EntryOptions
  <2>1. entries \in Seq(Entry) /\ n \in Nat /\ DOMAIN entries = 1 .. n
    BY AnnouncementFields
  <2>2. \A k \in 1 .. n : entries[k] \in Entry
    BY <2>1, ElementOfSeq
  <2>3. \A k \in 1 .. n : Index(entries, k) \in Int
    BY <2>1, OptionsLie
  <2> QED
    BY <2>1, <2>2, <2>3 DEF Writable
<1>2. \A k \in 1 .. n : IsEntry(Wire!PutEntry(entries[k], Index(entries, k)), entries[k], Index(entries, k))
  BY <1>1, EntryIsWritten
<1> HIDE DEF n
<1>3. f = [k \in 1 .. n |-> Wire!PutEntry(entries[k], Index(entries, k))]
  BY <1>1 DEF EntryBytes
<1> HIDE DEF f, entries
<1>4. \A k \in 1 .. n : IsEntry(f[k], entries[k], Index(entries, k))
  BY <1>2, <1>3
<1>5. \A k \in 1 .. n : f[k] \in Bytes /\ Len(f[k]) = 16
  BY <1>4 DEF IsEntry
<1>6. f \in Seq(Bytes) /\ Len(f) = n
  <2>1. f \in [1 .. n -> Bytes]
    BY <1>3, <1>5
  <2>2. f \in Seq(Bytes)
    BY <1>1, <2>1, SeqDef
  <2> QED
    BY <1>1, <2>1, <2>2, LenProperties
<1>7. IsTable(Wire!FlattenSeq(f), f, 16)
  <2>1. 16 \in Nat
    OBVIOUS
  <2> QED
    BY <1>5, <1>6, <2>1, TableLies
<1> QED
  BY <1>4, <1>6, <1>7 DEF n, f, entries

LEMMA OptionBytesLie ==
    ASSUME Wire!CodecsAssumption, NEW a \in Wire!Announcement, Writable(a)
    PROVE  LET options == Wire!OptionsOf(a.entries)
           IN /\ options \in Seq(Wire!Option) /\ Len(options) \in Nat
              /\ Len(OptionBytes(a)) = Len(options)
              /\ IsTable(Wire!FlattenSeq(OptionBytes(a)), OptionBytes(a), 12)
              /\ \A k \in 1 .. Len(options) : IsOption(OptionBytes(a)[k], options[k])
<1> DEFINE options == Wire!OptionsOf(a.entries)
           n == Len(options)
           f == OptionBytes(a)
<1>1. options \in Seq(Wire!Option) /\ n \in Nat
  <2>1. a.entries \in Seq(Entry)
    BY AnnouncementFields
  <2> QED
    BY <2>1, OptionsLie
<1>2. DOMAIN options = 1 .. n /\ \A k \in 1 .. n : options[k] \in Wire!Option
  BY <1>1, LenProperties, ElementOfSeq
<1>3. \A k \in 1 .. n : options[k].address # Wire!NoAddress
  BY <1>2 DEF Writable
<1>4. \A k \in 1 .. n : IsOption(Wire!PutOption(options[k]), options[k])
  BY <1>2, <1>3, OptionIsRead
<1> HIDE DEF n
<1>5. f = [k \in 1 .. n |-> Wire!PutOption(options[k])]
  BY <1>2 DEF OptionBytes
<1> HIDE DEF f, options
<1>6. \A k \in 1 .. n : IsOption(f[k], options[k])
  BY <1>4, <1>5
<1>7. \A k \in 1 .. n : f[k] \in Bytes /\ Len(f[k]) = 12
  BY <1>6 DEF IsOption
<1>8. f \in Seq(Bytes) /\ Len(f) = n
  <2>1. f \in [1 .. n -> Bytes]
    BY <1>5, <1>7
  <2>2. f \in Seq(Bytes)
    BY <1>1, <2>1, SeqDef
  <2> QED
    BY <1>1, <2>1, <2>2, LenProperties
<1>9. IsTable(Wire!FlattenSeq(f), f, 12)
  <2>1. 12 \in Nat
    OBVIOUS
  <2> QED
    BY <1>7, <1>8, <2>1, TableLies
<1> QED
  BY <1>1, <1>6, <1>8, <1>9 DEF n, f, options

\* Where the parts of a payload are.
LEMMA PayloadParts ==
    ASSUME Wire!CodecsAssumption, NEW a \in Announcements, Writable(a)
    PROVE  LET n == Len(a.entries)
               m == Len(Wire!OptionsOf(a.entries))
               p == Payload(a)
               h == <<FlagsOf(a), 0, 0, 0>>
           IN /\ p \in Bytes /\ n \in Nat /\ m \in Nat /\ Len(p) = 12 + 16 * n + 12 * m
              /\ 20 + 16 * n + 12 * m < Wire!Weight[4]
              /\ Lies(p, 0, h) /\ AreFour(h, FlagsOf(a), 0, 0, 0)
              /\ Lies(p, 4, Wire!Put(16 * n, 4)) /\ IsNumber(Wire!Put(16 * n, 4), 16 * n, 4)
              /\ Lies(p, 8, Wire!FlattenSeq(EntryBytes(a)))
              /\ Lies(p, 8 + 16 * n, Wire!Put(12 * m, 4)) /\ IsNumber(Wire!Put(12 * m, 4), 12 * m, 4)
              /\ Lies(p, 12 + 16 * n, Wire!FlattenSeq(OptionBytes(a)))
<1> DEFINE n == Len(a.entries)
           m == Len(Wire!OptionsOf(a.entries))
           p1 == <<FlagsOf(a), 0, 0, 0>>
           p2 == Wire!Put(16 * n, 4)
           p3 == Wire!FlattenSeq(EntryBytes(a))
           p4 == Wire!Put(12 * m, 4)
           p5 == Wire!FlattenSeq(OptionBytes(a))
           p == Payload(a)
<1>1. a \in Wire!Announcement /\ 20 + 16 * n + 12 * MaxOptions < Wire!Weight[4] /\ MaxOptions \in Nat
  BY DEF Wire!CodecsAssumption
<1>2. n \in Nat /\ m \in Nat /\ m <= MaxOptions
  BY <1>1, AnnouncementFields, OptionBytesLie DEF Writable
<1>3. p3 \in Bytes /\ Len(p3) = 16 * n
  <2>1. p3 \in Bytes /\ Len(p3) = n * 16
    BY <1>1, EntriesLie DEF IsTable
  <2> HIDE DEF p3, n
  <2> QED
    BY <1>2, <2>1
<1>4. p5 \in Bytes /\ Len(p5) = 12 * m
  <2>1. p5 \in Bytes /\ Len(p5) = m * 12
    BY <1>1, OptionBytesLie DEF IsTable
  <2> HIDE DEF p5, m
  <2> QED
    BY <1>2, <2>1
<1>5. p = Five(p1, p2, p3, p4, p5)
  <2> HIDE DEF n
  <2> QED
    BY <1>3 DEF Payload
<1>6. FlagsOf(a) \in Int
  BY <1>1, AnnouncementFields, FlagBits
<1> HIDE DEF n, m, p3, p5, p
<1>7. 20 + 16 * n + 12 * m < Wire!Weight[4] /\ 16 * n \in Wire!Numbers(4) /\ 12 * m \in Wire!Numbers(4)
  <2> DEFINE w == Wire!Weight[4]
  <2>1. w \in Nat
    BY Weights4
  <2>2. 20 + 16 * n + 12 * MaxOptions < w
    BY <1>1
  <2> HIDE DEF w
  <2>3. 20 + 16 * n + 12 * m < w /\ 16 * n \in 0 .. w - 1 /\ 12 * m \in 0 .. w - 1
    BY <1>1, <1>2, <2>1, <2>2
  <2> QED
    BY <2>3 DEF w, Wire!Numbers
<1>8. IsNumber(p2, 16 * n, 4) /\ IsNumber(p4, 12 * m, 4)
  <2>1. 4 \in 1 .. 4
    OBVIOUS
  <2> DEFINE x == 16 * n
             y == 12 * m
  <2>2. x \in Wire!Numbers(4) /\ y \in Wire!Numbers(4)
    BY <1>7
  <2> HIDE DEF x, y
  <2>3. IsNumber(Wire!Put(x, 4), x, 4) /\ IsNumber(Wire!Put(y, 4), y, 4)
    BY <2>1, <2>2, NumbersLie
  <2> QED
    BY <2>3 DEF x, y
<1>9. AreFour(p1, FlagsOf(a), 0, 0, 0)
  BY <1>6, FourBytes
<1> HIDE DEF p1, p2, p4
<1>10. /\ p1 \in Bytes /\ p2 \in Bytes /\ p4 \in Bytes
       /\ Len(p1) = 4 /\ Len(p2) = 4 /\ Len(p4) = 4
  BY <1>8, <1>9 DEF IsNumber, AreFour
<1>11. IsFive(p, p1, p2, p3, p4, p5)
  BY <1>3, <1>4, <1>5, <1>10, FiveLie
<1>12. p \in Bytes /\ Len(p) = 12 + 16 * n + 12 * m
  <2>1. p \in Bytes /\ Len(p) = Len(p1) + Len(p2) + Len(p3) + Len(p4) + Len(p5)
    BY <1>11 DEF IsFive
  <2> QED
    BY <1>2, <1>3, <1>4, <1>10, <2>1
<1>13. /\ Lies(p, 0, p1) /\ Lies(p, 4, p2) /\ Lies(p, 8, p3)
       /\ Lies(p, 8 + 16 * n, p4) /\ Lies(p, 12 + 16 * n, p5)
  <2>1. Lies(p, 0, p) /\ 0 \in Nat
    BY <1>12, AllOfItLies DEF Bytes
  <2>2. /\ 0 + Len(p1) = 4 /\ 0 + Len(p1) + Len(p2) = 8
        /\ 0 + Len(p1) + Len(p2) + Len(p3) = 8 + 16 * n
        /\ 0 + Len(p1) + Len(p2) + Len(p3) + Len(p4) = 12 + 16 * n
    BY <1>2, <1>3, <1>10
  <2>3. /\ Lies(p, 0, p1) /\ Lies(p, 0 + Len(p1), p2) /\ Lies(p, 0 + Len(p1) + Len(p2), p3)
        /\ Lies(p, 0 + Len(p1) + Len(p2) + Len(p3), p4)
        /\ Lies(p, 0 + Len(p1) + Len(p2) + Len(p3) + Len(p4), p5)
    BY <1>11, <1>12, <2>1 DEF IsFive
  <2> HIDE DEF IsFive
  <2> QED
    BY <2>2, <2>3
<1> QED
  BY <1>2, <1>7, <1>8, <1>9, <1>12, <1>13 DEF n, m, p, p1, p2, p3, p4, p5

LEMMA BytesAreNumbers ==
    ASSUME NEW bytes \in Bytes
    PROVE  Len(bytes) \in Nat /\ \A i \in 1 .. Len(bytes) : bytes[i] \in Int
<1>1. bytes \in Seq(Int)
  BY DEF Bytes
<1>2. Len(bytes) \in Nat
  BY <1>1, LenProperties
<1>3. ASSUME NEW i \in 1 .. Len(bytes) PROVE bytes[i] \in Int
  BY <1>1, ElementOfSeq
<1> QED
  BY <1>2, <1>3

\* The rest of a datagram.
LEMMA RestLies ==
    ASSUME NEW bytes \in Bytes, NEW q \in Nat, q <= Len(bytes)
    PROVE  LET rest == SubSeq(bytes, q + 1, Len(bytes))
           IN /\ rest \in Bytes /\ Len(rest) = Len(bytes) - q
              /\ \A i \in 1 .. Len(bytes) - q : rest[i] = bytes[q + i]
              /\ \A s \in Bytes, o \in Nat : Lies(bytes, q + o, s) => Lies(rest, o, s)
<1> DEFINE rest == SubSeq(bytes, q + 1, Len(bytes))
           l == Len(bytes)
           a == q + 1
<1>1. l \in Nat /\ \A i \in 1 .. l : bytes[i] \in Int
  BY SMTT(60), BytesAreNumbers
<1>2. rest \in Bytes /\ Len(rest) = l - q /\ \A i \in 1 .. l - q : rest[i] = bytes[q + i]
  <2>1. /\ a \in Int /\ (IF a <= l THEN l - a + 1 ELSE 0) = l - q /\ l - a + 1 = l - q
        /\ \A i \in a .. l : i \in 1 .. l
        /\ \A i \in 1 .. l - q : a + i - 1 = q + i
    <3>1. l \in Nat /\ q \in Nat /\ q <= l
      BY SMTT(60), <1>1
    <3> HIDE DEF l
    <3> QED
      BY <3>1
  <2>2. \A i \in a .. l : bytes[i] \in Int
    BY ZenonT(60), <1>1, <2>1
  <2> HIDE DEF l, a
  <2>3. /\ SubSeq(bytes, a, l) \in Seq(Int)
        /\ Len(SubSeq(bytes, a, l)) = IF a <= l THEN l - a + 1 ELSE 0
        /\ \A i \in 1 .. l - a + 1 : SubSeq(bytes, a, l)[i] = bytes[a + i - 1]
    BY <1>1, <2>1, <2>2, SubSeqProperties
  <2> QED
    BY ZenonT(60), <2>1, <2>3 DEF Bytes, l, a
<1> HIDE DEF rest
<1>3. ASSUME NEW s \in Bytes, NEW o \in Nat, Lies(bytes, q + o, s)
      PROVE  Lies(rest, o, s)
  <2>1. Len(s) \in Nat
    BY LenProperties DEF Bytes
  <2>2. (q + o) + Len(s) <= l /\ \A i \in 1 .. Len(s) : bytes[(q + o) + i] = s[i]
    BY <1>3 DEF Lies
  <2>3. \A i \in 1 .. Len(s) : o + i \in 1 .. l - q /\ q + (o + i) = (q + o) + i
    BY <1>1, <2>1, <2>2
  <2>4. \A i \in 1 .. Len(s) : rest[o + i] = s[i]
    BY <1>2, <2>2, <2>3
  <2>5. o + Len(s) <= Len(rest)
    BY <1>1, <1>2, <2>1, <2>2
  <2> QED
    BY <2>4, <2>5 DEF Lies
<1> QED
  BY <1>2, <1>3 DEF rest

\* One byte is changed: what does not hold it stays.
LEMMA Patched ==
    ASSUME NEW bytes \in Bytes, NEW p \in 1 .. Len(bytes)
    PROVE  LET other == [bytes EXCEPT ![p] = 2]
           IN /\ other \in Bytes /\ Len(other) = Len(bytes) /\ other[p] = 2
              /\ \A i \in 1 .. Len(bytes) : i # p => other[i] = bytes[i]
              /\ \A s \in Bytes, o \in Nat :
                   Lies(bytes, o, s) /\ (p <= o \/ o + Len(s) < p) => Lies(other, o, s)
<1> DEFINE other == [bytes EXCEPT ![p] = 2]
           l == Len(bytes)
<1>1. l \in Nat /\ bytes \in [1 .. l -> Int]
  BY LenProperties DEF Bytes
<1>2. other \in [1 .. l -> Int] /\ other[p] = 2 /\ \A i \in 1 .. l : i # p => other[i] = bytes[i]
  BY <1>1
<1>3. other \in Bytes
  BY <1>1, <1>2, SeqDef DEF Bytes
<1> HIDE DEF other
<1>4. Len(other) = l
  BY <1>1, <1>2, <1>3, LenProperties DEF Bytes
<1>5. ASSUME NEW s \in Bytes, NEW o \in Nat, Lies(bytes, o, s), p <= o \/ o + Len(s) < p
      PROVE  Lies(other, o, s)
  <2>1. Len(s) \in Nat /\ o + Len(s) <= l /\ \A i \in 1 .. Len(s) : bytes[o + i] = s[i]
    BY <1>5, LenProperties DEF Lies, Bytes
  <2>2. \A i \in 1 .. Len(s) : o + i \in 1 .. l /\ o + i # p
    BY <1>1, <1>5, <2>1
  <2>3. \A i \in 1 .. Len(s) : other[o + i] = s[i]
    BY <1>2, <2>1, <2>2
  <2> QED
    BY <1>4, <2>1, <2>3 DEF Lies
<1> QED
  BY <1>2, <1>3, <1>4, <1>5 DEF other

Placed(n, m, l) ==
    /\ 16 * n \in Nat /\ 12 * m \in Nat /\ (16 * n) % 16 = 0 /\ (16 * n) \div 16 = n
    /\ 8 + 16 * n \in Nat /\ 12 + 16 * n \in Nat /\ 12 + 16 * n <= l
    /\ l - (12 + 16 * n) = 12 * m /\ l \in Nat
    /\ (12 + 16 * n) + 1 = 8 + 16 * n + 5
    /\ l = 8 + 16 * n + 4 + 12 * m /\ l >= 12 /\ l >= 8 + 16 * n + 4

LEMMA Offsets ==
    ASSUME NEW n \in Nat, NEW m \in Nat
    PROVE  Placed(n, m, 12 + 16 * n + 12 * m)
BY DEF Placed

EntriesOf(a) == Len(a.entries)
OptionsIn(a) == Len(Wire!OptionsOf(a.entries))

\* What has the parts of a payload, but for its entries and options.
Shaped(a, bytes) ==
    /\ bytes \in Bytes /\ Len(bytes) = 12 + 16 * EntriesOf(a) + 12 * OptionsIn(a)
    /\ Lies(bytes, 0, <<FlagsOf(a), 0, 0, 0>>)
    /\ Lies(bytes, 4, Wire!Put(16 * EntriesOf(a), 4))
    /\ Lies(bytes, 8 + 16 * EntriesOf(a), Wire!Put(12 * OptionsIn(a), 4))

OptionsPart(a, bytes) == SubSeq(bytes, (12 + 16 * EntriesOf(a)) + 1, Len(bytes))

EntryIn(bytes, k, options) ==
    Wire!ParseEntry(SubSeq(bytes, 8 + 16 * (k - 1) + 1, 8 + 16 * k), options)

ReadAs(a, bytes, entries) ==
    Wire!ParsePayload(bytes) = <<[reboot |-> a.reboot, unicast |-> a.unicast, entries |-> entries]>>

\* A payload is read if its options are, whatever its entries are.
LEMMA PayloadIsRead ==
    ASSUME Wire!CodecsAssumption, NEW a \in Announcements, Writable(a),
           NEW bytes, Shaped(a, bytes),
           NEW options, Wire!ParseOptions(OptionsPart(a, bytes)) = <<options>>
    PROVE  ReadAs(a, bytes,
                  Wire!FlattenSeq([k \in 1 .. EntriesOf(a) |-> EntryIn(bytes, k, options)]))
<1> DEFINE n == EntriesOf(a)
           m == OptionsIn(a)
           h == <<FlagsOf(a), 0, 0, 0>>
           x == 16 * n
           y == 12 * m
           px == Wire!Put(x, 4)
           py == Wire!Put(y, 4)
<1>1. /\ n \in Nat /\ m \in Nat
      /\ AreFour(h, FlagsOf(a), 0, 0, 0) /\ IsNumber(px, x, 4) /\ IsNumber(py, y, 4)
  BY PayloadParts DEF EntriesOf, OptionsIn
<1>0. /\ bytes \in Bytes /\ Len(bytes) = 12 + 16 * n + 12 * m
      /\ Lies(bytes, 0, h) /\ Lies(bytes, 4, px) /\ Lies(bytes, 8 + x, py)
      /\ Wire!ParseOptions(SubSeq(bytes, (12 + 16 * n) + 1, Len(bytes))) = <<options>>
  BY DEF Shaped, OptionsPart
<1> HIDE DEF n, m
<1>2. /\ x \in Nat /\ y \in Nat /\ x % 16 = 0 /\ x \div 16 = n /\ 8 + x \in Nat
      /\ (12 + x) + 1 = 8 + x + 5
      /\ Len(bytes) = 8 + x + 4 + y /\ Len(bytes) >= 12 /\ Len(bytes) >= 8 + x + 4
  <2>1. Placed(n, m, 12 + 16 * n + 12 * m)
    BY <1>1, Offsets
  <2>2. Placed(n, m, Len(bytes))
    BY <1>0, <2>1
  <2> QED
    BY <2>2 DEF Placed
<1>3. Lies(bytes, 0, h) /\ Lies(bytes, 4, px) /\ Lies(bytes, 8 + x, py)
      /\ Wire!ParseOptions(SubSeq(bytes, (12 + x) + 1, Len(bytes))) = <<options>>
  BY <1>0
<1> HIDE DEF h, x, y, px, py
<1>4. Wire!At(bytes, 4, 4) = x /\ Wire!At(bytes, 8 + x, 4) = y
  <2>1. 4 \in Nat
    OBVIOUS
  <2> QED
    BY <1>0, <1>1, <1>2, <1>3, <2>1 DEF IsNumber
<1>5. bytes[1] = FlagsOf(a)
  <2>1. 0 \in Nat /\ 0 + 1 = 1
    OBVIOUS
  <2> QED
    BY <1>0, <1>1, <1>3, <2>1 DEF AreFour
<1>6. (bytes[1] \div (Base \div 2) = 1) = a.reboot /\ ((bytes[1] \div (Base \div 4)) % 2 = 1) = a.unicast
  <2>1. a \in Wire!Announcement
    BY DEF Wire!CodecsAssumption
  <2> QED
    BY <1>5, <2>1, AnnouncementFields, FlagBits
<1> DEFINE parsed == Wire!ParseOptions(SubSeq(bytes, 8 + Wire!At(bytes, 4, 4) + 5, Len(bytes)))
<1>7. parsed = <<options>>
  <2>1. 8 + Wire!At(bytes, 4, 4) + 5 = (12 + x) + 1
    BY <1>2, <1>4
  <2> QED
    BY <1>3, <2>1
<1>8. parsed # <<>> /\ parsed[1] = options
  <2> HIDE DEF parsed
  <2> QED
    BY <1>7
<1>9. /\ Len(bytes) >= 12 /\ Wire!At(bytes, 4, 4) % 16 = 0
      /\ Len(bytes) >= 8 + Wire!At(bytes, 4, 4) + 4
      /\ Len(bytes) = 8 + Wire!At(bytes, 4, 4) + 4 + Wire!At(bytes, 8 + Wire!At(bytes, 4, 4), 4)
  BY <1>2, <1>4
<1> DEFINE read(k) == SubSeq(bytes, 8 + 16 * (k - 1) + 1, 8 + 16 * k)
           l == Wire!At(bytes, 4, 4)
<1>10. Wire!ParsePayload(bytes)
         = IF /\ Len(bytes) >= 12 /\ l % 16 = 0
              /\ Len(bytes) >= 8 + l + 4
              /\ Len(bytes) = 8 + l + 4 + Wire!At(bytes, 8 + l, 4)
              /\ parsed # <<>>
           THEN <<[reboot |-> bytes[1] \div (Base \div 2) = 1,
                   unicast |-> (bytes[1] \div (Base \div 4)) % 2 = 1,
                   entries |-> Wire!FlattenSeq([k \in 1 .. l \div 16 |->
                                 Wire!ParseEntry(read(k), parsed[1])])]>>
           ELSE <<>>
  BY DEF Wire!ParsePayload
<1> HIDE DEF parsed, read, l
<1>11. Wire!ParsePayload(bytes)
         = <<[reboot |-> bytes[1] \div (Base \div 2) = 1,
              unicast |-> (bytes[1] \div (Base \div 4)) % 2 = 1,
              entries |-> Wire!FlattenSeq([k \in 1 .. l \div 16 |->
                            Wire!ParseEntry(read(k), parsed[1])])]>>
  BY <1>8, <1>9, <1>10 DEF l
<1>12. l \div 16 = n
  BY <1>2, <1>4 DEF l
<1>13. Wire!ParsePayload(bytes)
         = <<[reboot |-> a.reboot, unicast |-> a.unicast,
              entries |-> Wire!FlattenSeq([k \in 1 .. n |-> Wire!ParseEntry(read(k), options)])]>>
  BY <1>6, <1>8, <1>11, <1>12
<1> QED
  BY <1>13 DEF read, ReadAs, EntryIn, n

\* Options are read where they lie; one of a type that is not known keeps its place.
HasOption(a, bytes, option, k) ==
    LET o == (12 + 16 * EntriesOf(a)) + 12 * (k - 1)
    IN \/ Lies(bytes, o, OptionBytes(a)[k]) /\ option = Wire!OptionsOf(a.entries)[k]
       \/ /\ Lies(bytes, o, Wire!Put(Wire!OptionLength, 2)) /\ bytes[o + 3] = 2
          /\ option = Wire!NoOption

LEMMA OptionsOfPayload ==
    ASSUME Wire!CodecsAssumption, NEW a \in Announcements, Writable(a),
           NEW bytes, Shaped(a, bytes),
           NEW options \in Seq(Wire!Option), Len(options) = OptionsIn(a),
           \A k \in 1 .. OptionsIn(a) : HasOption(a, bytes, options[k], k)
    PROVE  Wire!ParseOptions(OptionsPart(a, bytes)) = <<options>>
<1> DEFINE n == EntriesOf(a)
           m == OptionsIn(a)
           q == 12 + 16 * n
           rest == SubSeq(bytes, q + 1, Len(bytes))
           own == Wire!OptionsOf(a.entries)
           f == OptionBytes(a)
           nine == Wire!Put(Wire!OptionLength, 2)
<1>0. bytes \in Bytes /\ Len(bytes) = 12 + 16 * n + 12 * m
  BY DEF Shaped
<1>1. n \in Nat /\ m \in Nat
  BY PayloadParts DEF EntriesOf, OptionsIn
<1>2. q \in Nat /\ q <= Len(bytes) /\ Len(bytes) - q = 12 * m
  <2>1. Placed(n, m, 12 + 16 * n + 12 * m)
    BY <1>1, Offsets
  <2>2. Placed(n, m, Len(bytes))
    BY <1>0, <2>1
  <2> QED
    BY <2>2 DEF Placed
<1>3. \A k \in 1 .. m : IsOption(f[k], own[k]) /\ own[k] \in Wire!Option
  <2>1. a \in Wire!Announcement
    BY DEF Wire!CodecsAssumption
  <2>2. own \in Seq(Wire!Option) /\ \A k \in 1 .. m : IsOption(f[k], own[k])
    BY <2>1, OptionBytesLie DEF OptionsIn
  <2> QED
    BY <2>2, ElementOfSeq DEF OptionsIn
<1>4. IsNumber(nine, Wire!OptionLength, 2)
  <2>1. 2 \in 1 .. 4
    OBVIOUS
  <2> QED
    BY <2>1, SmallNumbers, NumbersLie
<1>5. \A k \in 1 .. m :
        \/ Lies(bytes, q + 12 * (k - 1), f[k]) /\ options[k] = own[k]
        \/ /\ Lies(bytes, q + 12 * (k - 1), nine) /\ bytes[q + 12 * (k - 1) + 3] = 2
           /\ options[k] = Wire!NoOption
  BY DEF HasOption
<1> HIDE DEF q, own, f, nine, n, m
<1>6. /\ rest \in Bytes /\ Len(rest) = 12 * m
      /\ \A i \in 1 .. 12 * m : rest[i] = bytes[q + i]
      /\ \A s \in Bytes, o \in Nat : Lies(bytes, q + o, s) => Lies(rest, o, s)
  BY <1>0, <1>2, RestLies
<1> HIDE DEF rest
<1>7. ASSUME NEW k \in 1 .. m
      PROVE  OptionIs(rest, 12 * (k - 1), options[k])
  <2> DEFINE o == 12 * (k - 1)
  <2>1. o \in Nat /\ o + 3 \in 1 .. 12 * m /\ q + (o + 3) = q + o + 3
    BY <1>1, <1>2
  <2>2. \/ Lies(bytes, q + o, f[k]) /\ options[k] = own[k]
        \/ /\ Lies(bytes, q + o, nine) /\ bytes[q + o + 3] = 2
           /\ options[k] = Wire!NoOption
    BY <1>5
  <2> HIDE DEF o
  <2>3. CASE Lies(bytes, q + o, f[k]) /\ options[k] = own[k]
    <3>1. IsOption(f[k], own[k]) /\ own[k] \in Wire!Option
      BY <1>3
    <3>2. f[k] \in Bytes
      BY <3>1 DEF IsOption
    <3>3. Lies(rest, o, f[k])
      BY <1>6, <2>1, <2>3, <3>2
    <3>4. Wire!At(rest, o, 2) = Wire!OptionLength /\ OptionAt(rest, o) = own[k]
      BY <1>6, <2>1, <3>1, <3>3 DEF IsOption
    <3>5. rest[o + 3] = own[k].type
      BY <3>4 DEF OptionAt
    <3>6. own[k].type \in Wire!OptionTypes
      BY <3>1 DEF Wire!Option
    <3> QED
      BY <2>3, <3>4, <3>5, <3>6 DEF OptionIs, o
  <2>4. CASE /\ Lies(bytes, q + o, nine) /\ bytes[q + o + 3] = 2
             /\ options[k] = Wire!NoOption
    <3>1. Lies(rest, o, nine)
      BY <1>4, <1>6, <2>1, <2>4 DEF IsNumber
    <3>2. Wire!At(rest, o, 2) = Wire!OptionLength
      BY <1>4, <1>6, <2>1, <3>1 DEF IsNumber
    <3>3. rest[o + 3] = 2
      BY <1>6, <2>1, <2>4
    <3>4. rest[o + 3] \notin Wire!OptionTypes
      BY <3>3 DEF Wire!OptionTypes, Wire!Multicast
    <3> QED
      BY <2>4, <3>2, <3>4 DEF OptionIs, o
  <2> QED
    BY <2>2, <2>3, <2>4 DEF o
<1>8. Wire!ParseOptions(rest) = <<options>>
  <2>1. Len(options) = m
    BY DEF m
  <2> QED
    BY <1>6, <1>7, <2>1, OptionsAreRead
<1> QED
  BY <1>8 DEF rest, q, n, OptionsPart

\* An entry is read where it lies.
OptionsAt(e, options, index) == With(e, SubSeq(options, index + 1, index + Len(e.options)))

LEMMA EntryWhereItLies ==
    ASSUME Wire!CodecsAssumption, NEW a \in Announcements, Writable(a),
           NEW bytes \in Bytes, NEW options, Len(options) = OptionsIn(a),
           NEW k \in 1 .. EntriesOf(a), Lies(bytes, 8 + 16 * (k - 1), EntryBytes(a)[k])
    PROVE  EntryIn(bytes, k, options) = <<OptionsAt(a.entries[k], options, Index(a.entries, k))>>
<1> DEFINE n == EntriesOf(a)
           e == a.entries[k]
           i == Index(a.entries, k)
           s == EntryBytes(a)[k]
           o == 8 + 16 * (k - 1)
<1>1. a \in Wire!Announcement
  BY DEF Wire!CodecsAssumption
<1>2. a.entries \in Seq(Entry) /\ n \in Nat /\ n = Len(a.entries)
  BY <1>1, AnnouncementFields DEF EntriesOf
<1>3. e \in Entry /\ IsEntry(s, e, i)
  BY <1>1, <1>2, EntriesLie, ElementOfSeq
<1>4. i \in Nat /\ Lies(Wire!OptionsOf(a.entries), i, e.options)
  BY <1>2, OptionsLie
<1>5. i + Len(e.options) <= Len(options)
  BY <1>4 DEF Lies, OptionsIn
<1>6. SubSeq(bytes, o + 1, o + 16) = s
  <2>1. s \in Bytes /\ Len(s) = 16
    BY <1>3 DEF IsEntry
  <2>2. o \in Nat
    BY <1>2
  <2>3. Lies(bytes, o, s)
    OBVIOUS
  <2>4. s \in Seq(Int) /\ bytes \in Seq(Int)
    BY <2>1 DEF Bytes
  <2> HIDE DEF o, s
  <2> QED
    <3>1. SubSeq(bytes, o + 1, o + Len(s)) = s
      BY <2>2, <2>3, <2>4, SliceIsIt
    <3> QED
      BY <2>1, <3>1
<1>7. o + 16 = 8 + 16 * k
  BY <1>2
<1>8. SubSeq(bytes, o + 1, 8 + 16 * k) = s
  BY <1>6, <1>7
<1> HIDE DEF e, i, s
<1>9. Wire!ParseEntry(s, options) = <<With(e, SubSeq(options, i + 1, i + Len(e.options)))>>
  BY <1>3, <1>4, <1>5, EntryIsRead
<1> QED
  BY <1>8, <1>9 DEF e, i, s, EntryIn, OptionsAt

LEMMA SameOptions ==
    ASSUME Wire!CodecsAssumption, NEW entries \in Seq(Entry), NEW k \in 1 .. Len(entries)
    PROVE  OptionsAt(entries[k], Wire!OptionsOf(entries), Index(entries, k)) = entries[k]
<1> DEFINE i == Index(entries, k)
           e == entries[k]
           own == Wire!OptionsOf(entries)
<1>1. e \in Entry
  BY ElementOfSeq
<1>2. own \in Seq(Wire!Option) /\ i \in Nat /\ Lies(own, i, e.options)
  BY OptionsLie
<1>3. /\ e.options \in Seq(Wire!Option)
      /\ e = [type |-> e.type, service |-> e.service, instance |-> e.instance,
              major |-> e.major, ttl |-> e.ttl, minor |-> e.minor,
              eventgroup |-> e.eventgroup, options |-> e.options]
  BY <1>1, EntryFields
<1> HIDE DEF i, e, own
<1>4. SubSeq(own, i + 1, i + Len(e.options)) = e.options
  BY <1>2, <1>3, SliceIsIt
<1>5. With(e, e.options) = e
  BY <1>3 DEF With
<1> QED
  BY <1>4, <1>5 DEF i, e, own, OptionsAt

\* What lies in a payload, for each entry and option.
LEMMA PayloadRows ==
    ASSUME Wire!CodecsAssumption, NEW a \in Announcements, Writable(a)
    PROVE  /\ Shaped(a, Payload(a)) /\ EntriesOf(a) \in Nat /\ OptionsIn(a) \in Nat
           /\ \A k \in 1 .. EntriesOf(a) :
                /\ Lies(Payload(a), 8 + 16 * (k - 1), EntryBytes(a)[k])
                /\ EntryBytes(a)[k] \in Bytes /\ Len(EntryBytes(a)[k]) = 16
           /\ \A k \in 1 .. OptionsIn(a) :
                /\ Lies(Payload(a), (12 + 16 * EntriesOf(a)) + 12 * (k - 1), OptionBytes(a)[k])
                /\ OptionBytes(a)[k] \in Bytes /\ Len(OptionBytes(a)[k]) = 12
                /\ IsOption(OptionBytes(a)[k], Wire!OptionsOf(a.entries)[k])
<1> DEFINE n == EntriesOf(a)
           m == OptionsIn(a)
           p == Payload(a)
           f == EntryBytes(a)
           g == OptionBytes(a)
           own == Wire!OptionsOf(a.entries)
<1>1. a \in Wire!Announcement
  BY DEF Wire!CodecsAssumption
<1>2. /\ p \in Bytes /\ n \in Nat /\ m \in Nat
      /\ Lies(p, 8, Wire!FlattenSeq(f)) /\ Lies(p, 12 + 16 * n, Wire!FlattenSeq(g))
  BY PayloadParts DEF EntriesOf, OptionsIn
<1>3. /\ Len(f) = n /\ IsTable(Wire!FlattenSeq(f), f, 16)
      /\ \A k \in 1 .. n : IsEntry(f[k], a.entries[k], Index(a.entries, k))
  BY <1>1, EntriesLie DEF EntriesOf
<1>4. /\ Len(g) = m /\ IsTable(Wire!FlattenSeq(g), g, 12)
      /\ \A k \in 1 .. m : IsOption(g[k], own[k])
  BY <1>1, OptionBytesLie DEF OptionsIn
<1>7. Shaped(a, p)
  BY PayloadParts DEF Shaped, EntriesOf, OptionsIn
<1> HIDE DEF p, f, g, own, n, m
<1>5. ASSUME NEW k \in 1 .. n
      PROVE  Lies(p, 8 + 16 * (k - 1), f[k]) /\ f[k] \in Bytes /\ Len(f[k]) = 16
  <2>1. f[k] \in Bytes /\ Len(f[k]) = 16
    BY <1>3 DEF IsEntry
  <2>2. 8 \in Nat /\ 8 + (k - 1) * 16 = 8 + 16 * (k - 1)
    BY <1>2
  <2>3. Lies(p, 8 + (k - 1) * 16, f[k])
    BY <1>2, <1>3, <2>2 DEF IsTable
  <2> QED
    BY <2>1, <2>2, <2>3
<1>6. ASSUME NEW k \in 1 .. m
      PROVE  /\ Lies(p, (12 + 16 * n) + 12 * (k - 1), g[k]) /\ g[k] \in Bytes /\ Len(g[k]) = 12
             /\ IsOption(g[k], own[k])
  <2>1. g[k] \in Bytes /\ Len(g[k]) = 12 /\ IsOption(g[k], own[k])
    BY <1>4 DEF IsOption
  <2> DEFINE q == 12 + 16 * n
  <2>2. q \in Nat /\ Lies(p, q, Wire!FlattenSeq(g))
    BY <1>2
  <2> HIDE DEF q
  <2>3. (k - 1) * 12 = 12 * (k - 1)
    BY <1>2
  <2>4. Lies(p, q + (k - 1) * 12, g[k])
    BY <1>2, <1>4, <2>2 DEF IsTable
  <2> QED
    BY <2>1, <2>3, <2>4 DEF q
<1> QED
  BY <1>2, <1>5, <1>6, <1>7 DEF p, f, g, own, n, m

(***************************************************************************)
(* Announcements as they were sent, with a newer entry, with a newer option *)
(***************************************************************************)
LEMMA FlattenOfEntries ==
    ASSUME NEW S, NEW x \in Seq(S), NEW m \in Nat, NEW f, NEW n, n = m + Len(x),
           f = [k \in 1 .. n |-> f[k]],
           \A i \in 1 .. m : f[i] = <<>>,
           \A i \in 1 .. Len(x) : f[m + i] = <<x[i]>>
    PROVE  Wire!FlattenSeq(f) = x
<1> DEFINE V == Seq(S)
<1>1. Len(x) \in Nat /\ n \in Nat /\ \A i \in 1 .. Len(x) : x[i] \in S
  BY LenProperties, ElementOfSeq
<1>2. <<>> \in V /\ \A e \in S : <<e>> \in V
  BY EmptySeq
<1> HIDE DEF V
<1>3. ASSUME NEW k \in 1 .. n
      PROVE  f[k] \in V
  <2>1. CASE k <= m
    <3>1. k \in 1 .. m
      BY <1>1, <2>1
    <3>2. f[k] = <<>>
      BY <3>1
    <3> QED
      BY <1>2, <3>2
  <2>2. CASE ~(k <= m)
    <3>1. k - m \in 1 .. Len(x) /\ m + (k - m) = k
      BY <1>1, <2>2
    <3>2. f[k] = <<x[k - m]>>
      BY <3>1
    <3> QED
      BY <1>1, <1>2, <3>1, <3>2
  <2> QED
    BY <2>1, <2>2
<1>4. f \in [1 .. n -> V]
  BY <1>3
<1>5. f \in Seq(V)
  BY <1>1, <1>4, SeqDef
<1>6. Len(f) = m + Len(x)
  BY <1>1, <1>4, <1>5, LenProperties
<1> QED
  BY <1>5, <1>6, FlattenOfElements DEF V

\* As it was sent.
LEMMA PayloadIsReadWhole ==
    ASSUME Wire!CodecsAssumption, NEW a \in Announcements, Writable(a)
    PROVE  ReadAs(a, Payload(a), a.entries)
<1> DEFINE n == EntriesOf(a)
           own == Wire!OptionsOf(a.entries)
           p == Payload(a)
           f == [k \in 1 .. n |-> EntryIn(p, k, own)]
<1>1. a.entries \in Seq(Entry) /\ n \in Nat /\ n = Len(a.entries)
  <2>1. a \in Wire!Announcement
    BY DEF Wire!CodecsAssumption
  <2> QED
    BY <2>1, AnnouncementFields DEF EntriesOf
<1>2. own \in Seq(Wire!Option) /\ Len(own) = OptionsIn(a)
  BY <1>1, OptionsLie DEF OptionsIn
<1>3. Shaped(a, p) /\ p \in Bytes /\ \A k \in 1 .. n : Lies(p, 8 + 16 * (k - 1), EntryBytes(a)[k])
  BY PayloadRows DEF Shaped
<1>4. \A k \in 1 .. OptionsIn(a) : HasOption(a, p, own[k], k)
  BY PayloadRows DEF HasOption
<1> HIDE DEF p, own
<1>5. Wire!ParseOptions(OptionsPart(a, p)) = <<own>>
  BY <1>2, <1>3, <1>4, OptionsOfPayload
<1>6. ReadAs(a, p, Wire!FlattenSeq(f))
  BY <1>3, <1>5, PayloadIsRead
<1>7. \A k \in 1 .. n : EntryIn(p, k, own) = <<a.entries[k]>>
  <2> SUFFICES ASSUME NEW k \in 1 .. n PROVE EntryIn(p, k, own) = <<a.entries[k]>>
    OBVIOUS
  <2>1. EntryIn(p, k, own) = <<OptionsAt(a.entries[k], own, Index(a.entries, k))>>
    BY <1>2, <1>3, EntryWhereItLies
  <2>2. OptionsAt(a.entries[k], own, Index(a.entries, k)) = a.entries[k]
    BY <1>1, SameOptions DEF own
  <2> QED
    BY <2>1, <2>2
<1>8. Wire!FlattenSeq(f) = a.entries
  <2> DEFINE x == a.entries
             m == 0
  <2>1. x \in Seq(Entry) /\ m \in Nat /\ n = m + Len(x) /\ f = [k \in 1 .. n |-> f[k]]
    BY <1>1
  <2>2. (\A i \in 1 .. m : f[i] = <<>>) /\ \A i \in 1 .. Len(x) : f[m + i] = <<x[i]>>
    BY <1>1, <1>7
  <2> HIDE DEF x, m, f
  <2>3. Wire!FlattenSeq(f) = x
    BY <2>1, <2>2, FlattenOfEntries
  <2> QED
    BY <2>3 DEF x
<1> QED
  BY <1>6, <1>8 DEF p

\* A payload with one byte changed: what is still where it was.
Changed(a, p) == [Payload(a) EXCEPT ![p] = 2]

LEMMA ChangedRows ==
    ASSUME Wire!CodecsAssumption, NEW a \in Announcements, Writable(a),
           NEW p \in Nat, 8 < p, p <= Len(Payload(a)),
           p <= 8 + 16 * EntriesOf(a) \/ 12 + 16 * EntriesOf(a) < p
    PROVE  LET n == EntriesOf(a)
               bytes == Changed(a, p)
           IN /\ Shaped(a, bytes) /\ bytes[p] = 2
              /\ \A s \in Bytes, o \in Nat :
                   Lies(Payload(a), o, s) /\ (p <= o \/ o + Len(s) < p) => Lies(bytes, o, s)
              /\ \A k \in 1 .. n :
                   p <= 8 + 16 * (k - 1) \/ 8 + 16 * k < p
                     => Lies(bytes, 8 + 16 * (k - 1), EntryBytes(a)[k])
              /\ \A k \in 1 .. OptionsIn(a) :
                   p <= 12 + 16 * n + 12 * (k - 1) \/ 12 + 16 * n + 12 * k < p
                     => Lies(bytes, (12 + 16 * n) + 12 * (k - 1), OptionBytes(a)[k])
<1> DEFINE n == EntriesOf(a)
           m == OptionsIn(a)
           old == Payload(a)
           bytes == Changed(a, p)
           h == <<FlagsOf(a), 0, 0, 0>>
           px == Wire!Put(16 * n, 4)
           py == Wire!Put(12 * m, 4)
           f == EntryBytes(a)
           g == OptionBytes(a)
<1>1. /\ Shaped(a, old) /\ n \in Nat /\ m \in Nat
      /\ \A k \in 1 .. n : Lies(old, 8 + 16 * (k - 1), f[k]) /\ f[k] \in Bytes /\ Len(f[k]) = 16
      /\ \A k \in 1 .. m :
           Lies(old, (12 + 16 * n) + 12 * (k - 1), g[k]) /\ g[k] \in Bytes /\ Len(g[k]) = 12
  BY PayloadRows
<1>2. /\ h \in Bytes /\ Len(h) = 4 /\ px \in Bytes /\ Len(px) = 4 /\ py \in Bytes /\ Len(py) = 4
  BY PayloadParts DEF EntriesOf, OptionsIn, AreFour, IsNumber
<1>3. /\ old \in Bytes /\ Len(old) = 12 + 16 * n + 12 * m
      /\ Lies(old, 0, h) /\ Lies(old, 4, px) /\ Lies(old, 8 + 16 * n, py)
  BY <1>1 DEF Shaped
<1>4. p \in 1 .. Len(old)
  BY <1>1, <1>3
<1>5. bytes = [old EXCEPT ![p] = 2]
  BY DEF Changed
<1>50. p <= 8 + 16 * n \/ 12 + 16 * n < p
  OBVIOUS
<1>51. Shaped(a, bytes) <=>
         /\ bytes \in Bytes /\ Len(bytes) = 12 + 16 * n + 12 * m
         /\ Lies(bytes, 0, h) /\ Lies(bytes, 4, px) /\ Lies(bytes, 8 + 16 * n, py)
  BY DEF Shaped
<1> HIDE DEF old, bytes, h, px, py, f, g, n, m
<1>6. /\ bytes \in Bytes /\ Len(bytes) = Len(old) /\ bytes[p] = 2
      /\ \A s \in Bytes, o \in Nat :
           Lies(old, o, s) /\ (p <= o \/ o + Len(s) < p) => Lies(bytes, o, s)
  BY <1>3, <1>4, <1>5, Patched
<1>7. Lies(bytes, 0, h) /\ Lies(bytes, 4, px) /\ Lies(bytes, 8 + 16 * n, py)
  <2>1. /\ 0 \in Nat /\ 0 + Len(h) < p /\ 4 \in Nat /\ 4 + Len(px) < p
        /\ 8 + 16 * n \in Nat /\ (p <= 8 + 16 * n \/ (8 + 16 * n) + Len(py) < p)
    BY <1>1, <1>2, <1>50
  <2> QED
    BY <1>2, <1>3, <1>6, <2>1
<1>8. ASSUME NEW k \in 1 .. n, p <= 8 + 16 * (k - 1) \/ 8 + 16 * k < p
      PROVE  Lies(bytes, 8 + 16 * (k - 1), f[k])
  <2>1. f[k] \in Bytes /\ Len(f[k]) = 16 /\ Lies(old, 8 + 16 * (k - 1), f[k])
    BY <1>1
  <2>2. 8 + 16 * (k - 1) \in Nat /\ (8 + 16 * (k - 1)) + 16 = 8 + 16 * k
    BY <1>1
  <2> QED
    BY <1>6, <1>8, <2>1, <2>2
<1>9. ASSUME NEW k \in 1 .. m, p <= 12 + 16 * n + 12 * (k - 1) \/ 12 + 16 * n + 12 * k < p
      PROVE  Lies(bytes, (12 + 16 * n) + 12 * (k - 1), g[k])
  <2>1. g[k] \in Bytes /\ Len(g[k]) = 12 /\ Lies(old, (12 + 16 * n) + 12 * (k - 1), g[k])
    BY <1>1
  <2> DEFINE o == (12 + 16 * n) + 12 * (k - 1)
  <2>2. /\ o \in Nat /\ o + 12 = 12 + 16 * n + 12 * k /\ o = 12 + 16 * n + 12 * (k - 1)
    BY <1>1
  <2>3. p <= o \/ o + 12 < p
    BY <1>9, <2>2
  <2>4. Lies(old, o, g[k])
    BY <2>1
  <2> HIDE DEF o
  <2>5. Lies(bytes, o, g[k])
    BY <1>6, <2>1, <2>2, <2>3, <2>4
  <2> QED
    BY <2>5 DEF o
<1>10. Shaped(a, bytes)
  BY <1>3, <1>6, <1>7, <1>51
<1> QED
  BY <1>6, <1>8, <1>9, <1>10 DEF old, bytes, f, g, n, m

\* With an entry of a newer standard: it is skipped.
LEMMA NewerEntry ==
    ASSUME Wire!CodecsAssumption, NEW a \in Announcements, Writable(a), a.entries # <<>>
    PROVE  /\ ReadAs(a, Changed(a, 9), Tail(a.entries))
           /\ 9 \in 1 .. Len(Payload(a))
<1> DEFINE n == EntriesOf(a)
           m == OptionsIn(a)
           own == Wire!OptionsOf(a.entries)
           x == Tail(a.entries)
           bytes == Changed(a, 9)
           f == [k \in 1 .. n |-> EntryIn(bytes, k, own)]
<1>1. a.entries \in Seq(Entry) /\ n \in Nat /\ n = Len(a.entries)
  <2>1. a \in Wire!Announcement
    BY DEF Wire!CodecsAssumption
  <2> QED
    BY <2>1, AnnouncementFields DEF EntriesOf
<1>2. x \in Seq(Entry) /\ n = 1 + Len(x) /\ \A i \in 1 .. Len(x) : x[i] = a.entries[1 + i]
  <2> DEFINE s == a.entries
  <2>1. s \in Seq(Entry) /\ s # <<>> /\ Len(s) = n
    BY <1>1
  <2> HIDE DEF s
  <2>2. Tail(s) \in Seq(Entry) /\ Len(Tail(s)) = Len(s) - 1 /\ \A i \in 1 .. Len(Tail(s)) : Tail(s)[i] = s[i + 1]
    BY <2>1, HeadTailProperties
  <2>3. Len(Tail(s)) \in Nat /\ n = 1 + Len(Tail(s))
    BY <1>1, <2>1, <2>2
  <2>4. \A i \in 1 .. Len(Tail(s)) : i + 1 = 1 + i
    BY <2>3
  <2> QED
    BY <2>2, <2>3, <2>4 DEF s
<1>3. own \in Seq(Wire!Option) /\ Len(own) = m /\ m \in Nat
  BY <1>1, OptionsLie DEF OptionsIn
<1>4. n >= 1 /\ Len(x) \in Nat
  BY <1>1, <1>2, LenProperties
<1>5. 9 \in Nat /\ 8 < 9 /\ 9 <= Len(Payload(a)) /\ 9 <= 8 + 16 * n
  <2>1. Len(Payload(a)) = 12 + 16 * n + 12 * m
    BY PayloadParts DEF EntriesOf, OptionsIn
  <2> QED
    BY <1>1, <1>3, <1>4, <2>1
<1>6. /\ Shaped(a, bytes) /\ bytes[9] = 2
      /\ \A k \in 1 .. n :
           9 <= 8 + 16 * (k - 1) \/ 8 + 16 * k < 9
             => Lies(bytes, 8 + 16 * (k - 1), EntryBytes(a)[k])
      /\ \A k \in 1 .. m :
           9 <= 12 + 16 * n + 12 * (k - 1) \/ 12 + 16 * n + 12 * k < 9
             => Lies(bytes, (12 + 16 * n) + 12 * (k - 1), OptionBytes(a)[k])
  BY <1>5, ChangedRows
<1> HIDE DEF bytes, x
<1>7. \A k \in 1 .. m : HasOption(a, bytes, own[k], k)
  <2> SUFFICES ASSUME NEW k \in 1 .. m PROVE HasOption(a, bytes, own[k], k)
    OBVIOUS
  <2>1. 9 <= 12 + 16 * n + 12 * (k - 1)
    <3>1. n \in Nat /\ m \in Nat /\ k \in 1 .. m
      BY <1>1, <1>3
    <3> HIDE DEF n, m
    <3> QED
      BY <3>1
  <2>2. Lies(bytes, (12 + 16 * n) + 12 * (k - 1), OptionBytes(a)[k])
    BY <1>6, <2>1
  <2> QED
    BY <2>2 DEF HasOption
<1>8. bytes \in Bytes
  BY <1>6 DEF Shaped
<1>9. EntryIn(bytes, 1, own) = <<>>
  <2> DEFINE l == Len(bytes)
  <2>1. l \in Nat /\ l = 12 + 16 * n + 12 * m /\ \A i \in 1 .. l : bytes[i] \in Int
    BY <1>6, <1>8, LenProperties, ElementOfSeq DEF Shaped, Bytes
  <2>2. 8 + 16 * (1 - 1) + 1 = 9 /\ 8 + 16 * 1 = 24 /\ 24 <= l
    BY <1>1, <1>3, <1>4, <2>1
  <2>3. \A i \in 9 .. 24 : i \in 1 .. l
    BY <2>1, <2>2
  <2>4. \A i \in 9 .. 24 : bytes[i] \in Int
    BY <2>1, <2>3
  <2> HIDE DEF l
  <2>5. \A i \in 1 .. 24 - 9 + 1 : SubSeq(bytes, 9, 24)[i] = bytes[9 + i - 1]
    BY <2>4, SubSeqProperties
  <2>6. 1 \in 1 .. 24 - 9 + 1 /\ 9 + 1 - 1 = 9
    OBVIOUS
  <2>7. SubSeq(bytes, 9, 24)[1] = 2
    BY <1>6, <2>5, <2>6
  <2>8. Wire!ParseEntry(SubSeq(bytes, 9, 24), own) = <<>>
    BY <2>7, NewerEntryIsSkipped
  <2> QED
    BY <2>2, <2>8 DEF EntryIn
<1>10. ASSUME NEW k \in 2 .. n
       PROVE  EntryIn(bytes, k, own) = <<a.entries[k]>>
  <2>1. k \in 1 .. n /\ 9 <= 8 + 16 * (k - 1)
    BY <1>1
  <2>2. Lies(bytes, 8 + 16 * (k - 1), EntryBytes(a)[k])
    BY <1>6, <2>1
  <2>3. EntryIn(bytes, k, own) = <<OptionsAt(a.entries[k], own, Index(a.entries, k))>>
    BY <1>3, <1>8, <2>1, <2>2, EntryWhereItLies DEF EntriesOf
  <2>4. OptionsAt(a.entries[k], own, Index(a.entries, k)) = a.entries[k]
    BY <1>1, <2>1, SameOptions
  <2> QED
    BY <2>3, <2>4
<1> HIDE DEF own
<1>11. Wire!ParseOptions(OptionsPart(a, bytes)) = <<own>>
  BY <1>3, <1>6, <1>7, OptionsOfPayload DEF own
<1>12. ReadAs(a, bytes, Wire!FlattenSeq(f))
  BY <1>6, <1>11, PayloadIsRead
<1>13. \A i \in 1 .. 1 : f[i] = <<>>
  BY <1>4, <1>9
<1>14. \A i \in 1 .. Len(x) : f[1 + i] = <<x[i]>>
  <2> SUFFICES ASSUME NEW i \in 1 .. Len(x) PROVE f[1 + i] = <<x[i]>>
    OBVIOUS
  <2>1. 1 + i \in 2 .. n /\ 1 + i \in 1 .. n
    BY <1>2, <1>4
  <2>2. EntryIn(bytes, 1 + i, own) = <<a.entries[1 + i]>>
    BY <1>10, <2>1
  <2> QED
    BY <1>2, <2>1, <2>2
<1>15. Wire!FlattenSeq(f) = x
  <2>1. f = [k \in 1 .. n |-> f[k]] /\ 1 \in Nat
    OBVIOUS
  <2> HIDE DEF f
  <2> QED
    BY <1>2, <1>13, <1>14, <2>1, FlattenOfEntries
<1>16. 9 \in 1 .. Len(Payload(a))
  <2>1. Len(Payload(a)) = 12 + 16 * n + 12 * m
    BY PayloadParts DEF EntriesOf, OptionsIn
  <2> QED
    BY <1>5, <1>1, <1>3, <2>1
<1> QED
  BY <1>12, <1>15, <1>16 DEF bytes, x

\* What is left of the options when the first is of a newer standard.
Newer(options) == [options EXCEPT ![1] = Wire!NoOption]

LEMMA NewerOptions ==
    ASSUME Wire!CodecsAssumption, NEW own \in Seq(Wire!Option), own # <<>>
    PROVE  /\ Newer(own) \in Seq(Wire!Option) /\ Len(Newer(own)) = Len(own)
           /\ Len(own) \in Nat /\ 1 \in 1 .. Len(own)
           /\ Newer(own)[1] = Wire!NoOption
           /\ \A i \in 1 .. Len(own) : i # 1 => Newer(own)[i] = own[i]
<1> DEFINE l == Len(own)
           d == Newer(own)
<1>1. Wire!NoOption \in Wire!Option
  <2>1. /\ Base \in Nat /\ Base > 20 /\ Wire!Weight[4] \in Nat /\ Wire!Weight[2] \in Nat \ {0}
    <3>1. 4 \in 0 .. 4 /\ 2 \in 0 .. 4
      OBVIOUS
    <3>2. Wire!Weight[4] \in Nat \ {0} /\ Wire!Weight[2] \in Nat \ {0}
      BY <3>1, Weights4
    <3> QED
      BY <3>2, Weights4
  <2>2. Wire!NoAddress \in 0 .. Wire!NoAddress
    BY <2>1 DEF Wire!NoAddress
  <2>3. 17 \in Wire!Byte /\ 0 \in Wire!Numbers(2)
    BY <2>1 DEF Wire!Byte, Wire!Numbers
  <2>4. 4 \in Wire!OptionTypes
    BY DEF Wire!OptionTypes
  <2> QED
    BY <2>2, <2>3, <2>4 DEF Wire!NoOption, Wire!Option
<1>2. l \in Nat /\ own \in [1 .. l -> Wire!Option] /\ l # 0
  BY LenProperties, EmptySeq
<1>3. 1 \in 1 .. l
  BY <1>2
<1>4. /\ d \in [1 .. l -> Wire!Option] /\ d[1] = Wire!NoOption
      /\ \A i \in 1 .. l : i # 1 => d[i] = own[i]
  BY <1>1, <1>2, <1>3 DEF Newer
<1> HIDE DEF d
<1>5. d \in Seq(Wire!Option)
  BY <1>2, <1>4, SeqDef
<1>6. Len(d) = l
  BY <1>2, <1>4, <1>5, LenProperties
<1> QED
  BY <1>2, <1>3, <1>4, <1>5, <1>6 DEF d

\* Entries without the first option keep what they have ...
LEMMA OthersKeepTheirs ==
    ASSUME Wire!CodecsAssumption, NEW entries \in Seq(Entry), NEW k \in 1 .. Len(entries),
           Wire!OptionsOf(entries) # <<>>,
           entries[k].options = <<>> \/ Index(entries, k) >= 1
    PROVE  OptionsAt(entries[k], Newer(Wire!OptionsOf(entries)), Index(entries, k)) = entries[k]
<1> DEFINE i == Index(entries, k)
           e == entries[k]
           own == Wire!OptionsOf(entries)
           d == Newer(own)
<1>1. e \in Entry
  BY ElementOfSeq
<1>2. own \in Seq(Wire!Option) /\ i \in Nat /\ Lies(own, i, e.options)
  BY OptionsLie
<1>3. /\ e.options \in Seq(Wire!Option)
      /\ e = [type |-> e.type, service |-> e.service, instance |-> e.instance,
              major |-> e.major, ttl |-> e.ttl, minor |-> e.minor,
              eventgroup |-> e.eventgroup, options |-> e.options]
  BY <1>1, EntryFields
<1>4. /\ d \in Seq(Wire!Option) /\ Len(d) = Len(own) /\ Len(own) \in Nat
      /\ \A j \in 1 .. Len(own) : j # 1 => d[j] = own[j]
  BY <1>2, NewerOptions
<1>5. e.options = <<>> \/ i >= 1
  OBVIOUS
<1> DEFINE s == e.options
<1>6. s \in Seq(Wire!Option) /\ Lies(own, i, s) /\ (s = <<>> \/ i >= 1)
  BY <1>2, <1>3, <1>5
<1> HIDE DEF i, e, own, d, s
<1>7. Lies(d, i, s)
  <2>1. Len(s) \in Nat /\ (s = <<>> => Len(s) = 0)
    BY <1>6, LenProperties, EmptySeq
  <2>2. i + Len(s) <= Len(own) /\ \A j \in 1 .. Len(s) : own[i + j] = s[j]
    BY <1>6 DEF Lies
  <2>3. \A j \in 1 .. Len(s) : i + j \in 1 .. Len(own) /\ i + j # 1
    BY <1>2, <1>4, <1>6, <2>1, <2>2
  <2>4. \A j \in 1 .. Len(s) : d[i + j] = s[j]
    BY <1>4, <2>2, <2>3
  <2>5. i + Len(s) <= Len(d)
    BY <1>4, <2>2
  <2> QED
    BY <2>4, <2>5 DEF Lies
<1>8. SubSeq(d, i + 1, i + Len(s)) = s
  BY <1>2, <1>4, <1>6, <1>7, SliceIsIt
<1>9. With(e, s) = e
  BY <1>3 DEF With, s
<1> QED
  BY <1>8, <1>9 DEF i, e, own, d, s, OptionsAt

\* ... and the first one with options does not have its first.
LEMMA FirstLosesOne ==
    ASSUME Wire!CodecsAssumption, NEW entries \in Seq(Entry), NEW k \in 1 .. Len(entries),
           entries[k].options # <<>>, Index(entries, k) = 0
    PROVE  OptionsAt(entries[k], Newer(Wire!OptionsOf(entries)), Index(entries, k))
             = With(entries[k], Newer(entries[k].options))
<1> DEFINE e == entries[k]
           s == e.options
           own == Wire!OptionsOf(entries)
           d == Newer(own)
           t == Newer(s)
<1>1. e \in Entry
  BY ElementOfSeq
<1>2. own \in Seq(Wire!Option) /\ Lies(own, 0, s)
  BY OptionsLie
<1>3. s \in Seq(Wire!Option) /\ s # <<>>
  BY <1>1, EntryFields
<1>4. /\ t \in Seq(Wire!Option) /\ Len(t) = Len(s) /\ Len(s) \in Nat /\ 1 \in 1 .. Len(s)
      /\ t[1] = Wire!NoOption /\ \A j \in 1 .. Len(s) : j # 1 => t[j] = s[j]
  BY <1>3, NewerOptions
<1> HIDE DEF e, s, own
<1>5. 0 + Len(s) <= Len(own) /\ \A j \in 1 .. Len(s) : own[0 + j] = s[j]
  BY <1>2 DEF Lies
<1>6. own # <<>>
  <2>1. Len(own) \in Nat
    BY <1>2, LenProperties
  <2>2. Len(own) # 0
    BY <1>4, <1>5, <2>1
  <2> QED
    BY <2>2, EmptySeq
<1>7. /\ d \in Seq(Wire!Option) /\ Len(d) = Len(own) /\ Len(own) \in Nat /\ d[1] = Wire!NoOption
      /\ \A j \in 1 .. Len(own) : j # 1 => d[j] = own[j]
  BY <1>2, <1>6, NewerOptions
<1> HIDE DEF d, t
<1>8. Lies(d, 0, t)
  <2>1. 0 + Len(t) <= Len(d)
    BY <1>4, <1>5, <1>7
  <2>2. ASSUME NEW j \in 1 .. Len(t) PROVE d[0 + j] = t[j]
    <3>1. 0 + j = j /\ j \in 1 .. Len(own) /\ j \in 1 .. Len(s)
      BY SMTT(60), <1>4, <1>5, <1>7
    <3>2. own[j] = s[j]
      BY <1>5, <3>1
    <3>3. d[j] = t[j]
      BY <1>4, <1>7, <3>1, <3>2
    <3> QED
      BY <3>1, <3>3
  <2> QED
    BY <2>1, <2>2 DEF Lies
<1>9. SubSeq(d, 0 + 1, 0 + Len(t)) = t
  <2>1. 0 \in Nat
    OBVIOUS
  <2> QED
    BY <1>4, <1>7, <1>8, <2>1, SliceIsIt
<1>10. SubSeq(d, 0 + 1, 0 + Len(s)) = t
  BY <1>4, <1>9
<1> QED
  BY <1>10 DEF e, s, own, d, t, OptionsAt

\* All entries, read with the options that are left.
LEMMA WithoutTheFirst ==
    ASSUME Wire!CodecsAssumption, NEW entries \in Seq(Entry), Wire!OptionsOf(entries) # <<>>,
           NEW earliest \in 1 .. Len(entries), entries[earliest].options # <<>>,
           \A m \in 1 .. earliest - 1 : entries[m].options = <<>>
    PROVE  \A k \in 1 .. Len(entries) :
             OptionsAt(entries[k], Newer(Wire!OptionsOf(entries)), Index(entries, k))
               = [entries EXCEPT ![earliest].options[1] = Wire!NoOption][k]
<1> DEFINE x == [entries EXCEPT ![earliest].options[1] = Wire!NoOption]
           read(k) == OptionsAt(entries[k], Newer(Wire!OptionsOf(entries)), Index(entries, k))
<1>1. Len(entries) \in Nat /\ DOMAIN entries = 1 .. Len(entries)
  BY LenProperties
<1>2. x[earliest] = With(entries[earliest], Newer(entries[earliest].options))
  BY <1>1 DEF With, Newer
<1>3. \A k \in 1 .. Len(entries) : k # earliest => x[k] = entries[k]
  BY <1>1
<1> HIDE DEF x
<1>4. read(earliest) = x[earliest]
  <2>1. Index(entries, earliest) = 0
    BY IndicesGrow
  <2> QED
    BY <1>2, <2>1, FirstLosesOne
<1>5. ASSUME NEW k \in 1 .. Len(entries), k # earliest
      PROVE  read(k) = x[k]
  <2>1. entries[k].options = <<>> \/ Index(entries, k) >= 1
    <3>1. CASE k < earliest
      <4>1. k \in 1 .. earliest - 1
        BY <1>1, <3>1
      <4> QED
        BY <4>1
    <3>2. CASE k > earliest
      <4>1. earliest \in 1 .. k - 1
        BY <1>1, <3>2
      <4>2. Len(entries[earliest].options) <= Index(entries, k)
        BY <4>1, IndicesGrow
      <4>3. entries[earliest].options \in Seq(Wire!Option) /\ Index(entries, k) \in Nat
        BY OptionsLie, ElementOfSeq, EntryFields
      <4>4. Len(entries[earliest].options) \in Nat /\ Len(entries[earliest].options) # 0
        BY <4>3, LenProperties, EmptySeq
      <4> DEFINE l == Len(entries[earliest].options)
                 i == Index(entries, k)
      <4>5. l \in Nat /\ l # 0 /\ i \in Nat /\ l <= i
        BY <4>2, <4>3, <4>4
      <4> HIDE DEF l, i
      <4>6. i >= 1
        BY <4>5
      <4> QED
        BY <4>6 DEF i
    <3> QED
      BY <1>1, <1>5, <3>1, <3>2
  <2>2. read(k) = entries[k]
    BY <2>1, OthersKeepTheirs
  <2> QED
    BY <1>3, <1>5, <2>2
<1> QED
  BY <1>4, <1>5 DEF x

\* With an option of a newer standard: it is read as an option without address.
Place(a) == (12 + 16 * EntriesOf(a)) + 3

LEMMA NewerOption ==
    ASSUME Wire!CodecsAssumption, NEW a \in Announcements, Writable(a),
           Wire!OptionsOf(a.entries) # <<>>,
           NEW earliest \in 1 .. EntriesOf(a), a.entries[earliest].options # <<>>,
           \A k \in 1 .. earliest - 1 : a.entries[k].options = <<>>
    PROVE  /\ ReadAs(a, Changed(a, Place(a)), [a.entries EXCEPT ![earliest].options[1] = Wire!NoOption])
           /\ Place(a) \in 1 .. Len(Payload(a))
<1> DEFINE n == EntriesOf(a)
           m == OptionsIn(a)
           own == Wire!OptionsOf(a.entries)
           options == Newer(own)
           p == Place(a)
           q == 12 + 16 * n
           x == [a.entries EXCEPT ![earliest].options[1] = Wire!NoOption]
           bytes == Changed(a, p)
           nine == Wire!Put(Wire!OptionLength, 2)
           g == OptionBytes(a)
           f == [k \in 1 .. n |-> EntryIn(bytes, k, options)]
<1>1. a.entries \in Seq(Entry) /\ n \in Nat /\ n = Len(a.entries)
  <2>1. a \in Wire!Announcement
    BY DEF Wire!CodecsAssumption
  <2> QED
    BY <2>1, AnnouncementFields DEF EntriesOf
<1>2. own \in Seq(Wire!Option) /\ Len(own) = m /\ own # <<>>
  BY <1>1, OptionsLie DEF OptionsIn
<1>3. /\ options \in Seq(Wire!Option) /\ Len(options) = m /\ m \in Nat /\ 1 \in 1 .. m
      /\ options[1] = Wire!NoOption /\ \A k \in 1 .. m : k # 1 => options[k] = own[k]
  BY <1>2, NewerOptions
<1>4. Len(Payload(a)) = 12 + 16 * n + 12 * m
  BY PayloadParts DEF EntriesOf, OptionsIn
<1>5. p = q + 3
  BY DEF Place
<1>6. q \in Nat /\ q = 12 + 16 * n
  BY <1>1
<1>60. Lies(Payload(a), q + 12 * (1 - 1), g[1]) /\ g[1] \in Bytes /\ IsOption(g[1], own[1])
  BY <1>3, PayloadRows
<1>61. Payload(a) \in Bytes /\ IsNumber(nine, Wire!OptionLength, 2)
  <2>1. 2 \in 1 .. 4
    OBVIOUS
  <2> QED
    BY <2>1, SmallNumbers, NumbersLie, PayloadParts
<1>7. /\ p \in Nat /\ 8 < p /\ p <= Len(Payload(a)) /\ 12 + 16 * n < p
      /\ p \in 1 .. Len(Payload(a))
  <2>1. Len(Payload(a)) = q + 12 * m /\ m >= 1 /\ q >= 12
    BY <1>1, <1>3, <1>4, <1>6
  <2>2. p > q /\ p <= q + 12 * m /\ p \in Nat /\ 8 < p
    <3> HIDE DEF p, q, m
    <3> QED
      BY SMTT(60), <1>3, <1>5, <1>6, <2>1
  <2>3. Len(Payload(a)) \in Nat
    BY <1>61, LenProperties DEF Bytes
  <2> HIDE DEF p, q, m, n
  <2> QED
    BY <1>6, <2>1, <2>2, <2>3
<1>8. /\ Shaped(a, bytes) /\ bytes[p] = 2
      /\ \A s \in Bytes, o \in Nat :
           Lies(Payload(a), o, s) /\ (p <= o \/ o + Len(s) < p) => Lies(bytes, o, s)
      /\ \A k \in 1 .. n :
           p <= 8 + 16 * (k - 1) \/ 8 + 16 * k < p
             => Lies(bytes, 8 + 16 * (k - 1), EntryBytes(a)[k])
      /\ \A k \in 1 .. m :
           p <= 12 + 16 * n + 12 * (k - 1) \/ 12 + 16 * n + 12 * k < p
             => Lies(bytes, q + 12 * (k - 1), g[k])
  BY <1>7, ChangedRows
<1> HIDE DEF p, bytes, options, x, g, nine
<1>9. Lies(bytes, q, nine) /\ bytes[q + 3] = 2
  <2> HIDE DEF q
  <2>1. q + 12 * (1 - 1) = q /\ q + 2 < p
    BY <1>5, <1>6
  <2>2. Lies(Payload(a), q, nine)
    BY <1>6, <1>60, <1>61, <2>1 DEF IsOption, nine
  <2>3. nine \in Bytes /\ Len(nine) = 2
    BY <1>61 DEF IsNumber
  <2> QED
    BY <1>5, <1>6, <1>8, <2>1, <2>2, <2>3
<1>10. \A k \in 1 .. m : HasOption(a, bytes, options[k], k)
  <2>1. HasOption(a, bytes, options[1], 1)
    <3>1. q + 12 * (1 - 1) = q
      BY <1>6
    <3>2. Lies(bytes, q + 12 * (1 - 1), nine) /\ bytes[q + 12 * (1 - 1) + 3] = 2
      BY <1>9, <3>1
    <3> QED
      BY <1>3, <3>2 DEF HasOption, nine
  <2>2. ASSUME NEW k \in 1 .. m, k # 1 PROVE HasOption(a, bytes, options[k], k)
    <3>1. p <= 12 + 16 * n + 12 * (k - 1)
      <4>1. n \in Nat /\ m \in Nat /\ k \in 1 .. m /\ k # 1 /\ p = 12 + 16 * n + 3
        BY <1>1, <1>3, <1>5, <2>2
      <4> HIDE DEF n, m
      <4>2. k - 1 >= 1
        BY <4>1
      <4> QED
        BY <4>1, <4>2
    <3>2. Lies(bytes, q + 12 * (k - 1), g[k])
      BY <1>8, <3>1
    <3>3. options[k] = own[k]
      BY <1>3, <2>2
    <3> QED
      BY <3>2, <3>3 DEF HasOption, g
  <2> QED
    BY <2>1, <2>2
<1>11. Wire!ParseOptions(OptionsPart(a, bytes)) = <<options>>
  BY <1>3, <1>8, <1>10, OptionsOfPayload
<1>12. ReadAs(a, bytes, Wire!FlattenSeq(f))
  BY <1>8, <1>11, PayloadIsRead
<1>13. bytes \in Bytes
  BY <1>8 DEF Shaped
<1>14. x = [k \in 1 .. n |-> x[k]]
  BY <1>1, LenProperties DEF x
<1>15. \A k \in 1 .. n : OptionsAt(a.entries[k], options, Index(a.entries, k)) = x[k]
  <2>1. /\ earliest \in 1 .. Len(a.entries) /\ n = Len(a.entries) /\ a.entries \in Seq(Entry)
        /\ \A k \in 1 .. earliest - 1 : a.entries[k].options = <<>>
        /\ a.entries[earliest].options # <<>> /\ Wire!OptionsOf(a.entries) # <<>>
    BY <1>1
  <2> DEFINE s == a.entries
  <2>2. /\ earliest \in 1 .. Len(s) /\ s \in Seq(Entry)
        /\ \A k \in 1 .. earliest - 1 : s[k].options = <<>>
        /\ s[earliest].options # <<>> /\ Wire!OptionsOf(s) # <<>>
    BY <2>1
  <2> HIDE DEF s
  <2>3. \A k \in 1 .. Len(s) :
          OptionsAt(s[k], Newer(Wire!OptionsOf(s)), Index(s, k))
            = [s EXCEPT ![earliest].options[1] = Wire!NoOption][k]
    BY <2>2, WithoutTheFirst
  <2> QED
    BY <2>1, <2>3 DEF options, x, s
<1>16. \A k \in 1 .. n : EntryIn(bytes, k, options) = <<x[k]>>
  <2> SUFFICES ASSUME NEW k \in 1 .. n PROVE EntryIn(bytes, k, options) = <<x[k]>>
    OBVIOUS
  <2>1. p <= 8 + 16 * (k - 1) \/ 8 + 16 * k < p
    <3>1. n \in Nat /\ k \in 1 .. n /\ p = 12 + 16 * n + 3
      BY <1>1, <1>5
    <3> HIDE DEF n
    <3> QED
      BY <3>1
  <2>2. Lies(bytes, 8 + 16 * (k - 1), EntryBytes(a)[k])
    BY <1>8, <2>1
  <2>3. EntryIn(bytes, k, options) = <<OptionsAt(a.entries[k], options, Index(a.entries, k))>>
    BY <1>3, <1>13, <2>2, EntryWhereItLies
  <2> QED
    BY <1>15, <2>3
<1>17. Wire!FlattenSeq(f) = x
  <2> DEFINE S == {x[k] : k \in 1 .. n}
  <2>1. x \in [1 .. n -> S]
    BY <1>14
  <2> HIDE DEF S
  <2>2. x \in Seq(S) /\ Len(x) = n
    <3>1. x \in Seq(S)
      BY SMTT(60), <1>1, <2>1, SeqDef
    <3> QED
      BY <1>1, <2>1, <3>1, LenProperties
  <2>3. \A k \in 1 .. n : f[k] = <<x[k]>>
    BY <1>16
  <2>4. f = [k \in 1 .. n |-> f[k]] /\ 0 \in Nat /\ n = 0 + Len(x)
    BY <1>1, <2>2
  <2>5. (\A k \in 1 .. 0 : f[k] = <<>>) /\ \A k \in 1 .. Len(x) : f[0 + k] = <<x[k]>>
    <3> HIDE DEF f
    <3> QED
      BY <1>1, <2>2, <2>3
  <2> HIDE DEF f, n
  <2> QED
    BY <2>2, <2>4, <2>5, FlattenOfEntries
<1> QED
  BY <1>7, <1>12, <1>17 DEF p, bytes, x

(***************************************************************************)
(* The message an announcement is                                          *)
(***************************************************************************)
SdMessage(a, body) ==
    [service |-> Wire!Weight[2] - 1, method |-> (Base \div 2 + 1) * Base, client |-> 0,
     session |-> a.session, version |-> 1, type |-> 2, code |-> 0, payload |-> body]

LEMMA SdMessages ==
    ASSUME Wire!CodecsAssumption, NEW a \in Announcements, NEW body \in Bytes,
           8 + Len(body) < Wire!Weight[4]
    PROVE  LET m == SdMessage(a, body)
           IN /\ m \in Messages /\ m.payload = body /\ m.session = a.session
              /\ 8 + Len(m.payload) \in Wire!Numbers(4) /\ Wire!IsSd(m)
<1> DEFINE m == SdMessage(a, body)
           half == Base \div 2 + 1
<1>1. a.session \in Wire!Numbers(2)
  <2>1. a \in Wire!Announcement
    BY DEF Wire!CodecsAssumption
  <2> QED
    BY <2>1, AnnouncementFields
<1>2. /\ Base \in Nat /\ Base > 20 /\ Wire!Weight[2] = Base * Base
      /\ Wire!Weight[2] \in Nat \ {0} /\ Wire!Weight[4] \in Nat \ {0}
  <2>1. 4 \in 0 .. 4 /\ 2 \in 0 .. 4
    OBVIOUS
  <2>2. Wire!Weight[4] \in Nat \ {0} /\ Wire!Weight[2] \in Nat \ {0}
    BY <2>1, Weights4
  <2> QED
    BY <2>2, Weights4, SmallNumbers
<1>3. half * Base \in Wire!Numbers(2)
  <2>1. half \in Nat /\ half <= Base - 1
    BY <1>2
  <2> HIDE DEF half
  <2>2. half * Base \in Nat /\ half * Base <= (Base - 1) * Base
    BY <1>2, <2>1
  <2>3. (Base - 1) * Base = Base * Base - Base /\ Base * Base \in Nat
    BY <1>2
  <2> DEFINE h == half * Base
             b == Base * Base
  <2>4. h \in Nat /\ h <= b - Base /\ b \in Nat
    BY <2>2, <2>3
  <2> HIDE DEF h, b
  <2>5. h \in 0 .. b - 1
    BY <1>2, <2>4
  <2> QED
    BY <1>2, <2>5 DEF h, b, Wire!Numbers
<1>4. Wire!Weight[2] - 1 \in Wire!Numbers(2) /\ 0 \in Wire!Numbers(2)
  BY <1>2 DEF Wire!Numbers
<1>5. 2 \in Wire!MessageTypes
  BY DEF Wire!MessageTypes
<1>6. 8 + Len(body) \in Wire!Numbers(4)
  <2>1. Len(body) \in Nat
    BY LenProperties DEF Bytes
  <2> QED
    BY <1>2, <2>1 DEF Wire!Numbers
<1> HIDE DEF half
<1>7. m = [service |-> Wire!Weight[2] - 1, method |-> half * Base, client |-> 0,
           session |-> a.session, version |-> 1, type |-> 2, code |-> 0, payload |-> body]
  BY DEF SdMessage, half
<1> HIDE DEF m
<1>8. m \in Messages
  BY <1>1, <1>3, <1>4, <1>5, <1>7 DEF Messages
<1>9. m.payload = body /\ m.session = a.session /\ m.service = Wire!Weight[2] - 1
      /\ m.method = half * Base
  BY <1>7
<1>10. Wire!IsSd(m)
  BY <1>9 DEF Wire!IsSd, half
<1> QED
  BY <1>6, <1>8, <1>9, <1>10 DEF m

LEMMA SerializedIs ==
    ASSUME Wire!CodecsAssumption, NEW a \in Announcements
    PROVE  Wire!SdSerialize(a)
             = IF Writable(a) THEN <<MessageBytes(SdMessage(a, Payload(a)))>> ELSE <<>>
<1>1. Wire!SdSerialize(a)
        = IF Writable(a) THEN Wire!Serialize(SdMessage(a, Payload(a))) ELSE <<>>
  <2>1. Wire!SdPayload(a) = Payload(a)
    BY PayloadIs
  <2> QED
    BY <2>1 DEF Wire!SdSerialize, Writable, SdMessage
<1>2. CASE Writable(a)
  <2>1. Payload(a) \in Bytes /\ 8 + Len(Payload(a)) < Wire!Weight[4]
    <3> DEFINE n == Len(a.entries)
               m == Len(Wire!OptionsOf(a.entries))
    <3>1. /\ Payload(a) \in Bytes /\ n \in Nat /\ m \in Nat
          /\ Len(Payload(a)) = 12 + 16 * n + 12 * m /\ 20 + 16 * n + 12 * m < Wire!Weight[4]
      BY <1>2, PayloadParts
    <3> HIDE DEF n, m
    <3>2. 8 + (12 + 16 * n + 12 * m) = 20 + 16 * n + 12 * m
      BY <3>1
    <3> QED
      BY <3>1, <3>2
  <2>2. SdMessage(a, Payload(a)) \in Messages
    BY <2>1, SdMessages
  <2> QED
    BY <1>1, <1>2, <2>2, SerializeIsMessage
<1>3. CASE ~Writable(a)
  BY <1>1, <1>3
<1> QED
  BY <1>2, <1>3

LEMMA Received ==
    ASSUME Wire!CodecsAssumption, NEW a \in Announcements, NEW body \in Bytes,
           8 + Len(body) < Wire!Weight[4], NEW entries, ReadAs(a, body, entries)
    PROVE  Wire!SdReceive(MessageBytes(SdMessage(a, body)))
             = <<[session |-> a.session, reboot |-> a.reboot, unicast |-> a.unicast,
                  entries |-> entries]>>
<1> DEFINE m == SdMessage(a, body)
           bytes == MessageBytes(m)
           read == Wire!Deserialize(bytes)
           parsed == Wire!ParsePayload(read[1].payload)
           value == [reboot |-> a.reboot, unicast |-> a.unicast, entries |-> entries]
<1>1. /\ m \in Messages /\ m.payload = body /\ m.session = a.session
      /\ 8 + Len(m.payload) \in Wire!Numbers(4) /\ Wire!IsSd(m)
  BY SdMessages
<1> HIDE DEF m
<1>2. read = <<m>>
  BY <1>1, MessageIsRead
<1>3. Wire!SdReceive(bytes)
        = IF read = <<>> \/ ~Wire!IsSd(read[1]) THEN <<>>
          ELSE IF parsed = <<>> THEN <<>>
               ELSE <<[session |-> read[1].session, reboot |-> parsed[1].reboot,
                       unicast |-> parsed[1].unicast, entries |-> parsed[1].entries]>>
  BY DEF Wire!SdReceive
<1> HIDE DEF bytes, read
<1>4. read # <<>> /\ read[1] = m
  BY <1>2
<1>5. parsed = <<value>>
  BY <1>1, <1>4 DEF ReadAs
<1> HIDE DEF parsed, value
<1>6. parsed # <<>> /\ parsed[1] = value
  BY <1>5
<1>7. value.reboot = a.reboot /\ value.unicast = a.unicast /\ value.entries = entries
  BY DEF value
<1>8. Wire!SdReceive(bytes)
        = <<[session |-> read[1].session, reboot |-> parsed[1].reboot,
             unicast |-> parsed[1].unicast, entries |-> parsed[1].entries]>>
  BY <1>1, <1>3, <1>4, <1>6
<1> QED
  BY <1>1, <1>4, <1>6, <1>7, <1>8 DEF bytes, m

\* What cannot be read as a message cannot be read as an announcement.
LEMMA NotReceived ==
    ASSUME NEW bytes, Wire!Deserialize(bytes) = <<>>
    PROVE  Wire!SdReceive(bytes) = <<>>
BY DEF Wire!SdReceive

\* A byte of the payload is a byte of the message.
LEMMA ByteOfPayload ==
    ASSUME Wire!CodecsAssumption, NEW a \in Announcements, NEW body \in Bytes,
           8 + Len(body) < Wire!Weight[4], NEW p \in 1 .. Len(body)
    PROVE  [MessageBytes(SdMessage(a, body)) EXCEPT ![16 + p] = 2]
             = MessageBytes(SdMessage(a, [body EXCEPT ![p] = 2]))
<1> DEFINE other == [body EXCEPT ![p] = 2]
           m == SdMessage(a, body)
           m2 == SdMessage(a, other)
           h == Header(m)
           l == Len(body)
           x == [MessageBytes(m) EXCEPT ![16 + p] = 2]
           y == MessageBytes(m2)
<1>1. /\ other \in Bytes /\ Len(other) = l /\ other[p] = 2
      /\ \A i \in 1 .. l : i # p => other[i] = body[i]
  BY Patched
<1>2. /\ m \in Messages /\ m.payload = body /\ 8 + Len(m.payload) \in Wire!Numbers(4)
  BY SdMessages
<1>3. l \in Nat
  BY LenProperties DEF Bytes
<1>4. Header(m2) = h
  <2>1. /\ m2.service = m.service /\ m2.method = m.method /\ m2.client = m.client
        /\ m2.session = m.session /\ m2.version = m.version /\ m2.type = m.type
        /\ m2.code = m.code /\ m2.payload = other /\ m.payload = body
    BY DEF SdMessage
  <2> HIDE DEF m, m2, other
  <2> QED
    BY <1>1, <2>1 DEF Header
<1>5. m2.payload = other
  BY DEF SdMessage
<1>6. h \in Bytes /\ Len(h) = 16
  BY <1>2, HeaderLies
<1>7. MessageBytes(m) = h \o body /\ y = h \o other
  BY <1>2, <1>4, <1>5 DEF MessageBytes
<1> HIDE DEF other, m, m2, h, y, l
<1>8. /\ MessageBytes(m) \in Bytes /\ Len(MessageBytes(m)) = 16 + l
      /\ \A i \in 1 .. 16 + l : MessageBytes(m)[i] = IF i <= 16 THEN h[i] ELSE body[i - 16]
  <2>1. h \in Seq(Int) /\ body \in Seq(Int) /\ Len(body) = l
    BY <1>1, <1>6 DEF Bytes, l
  <2>2. /\ h \o body \in Seq(Int) /\ Len(h \o body) = Len(h) + Len(body)
        /\ \A i \in 1 .. Len(h) + Len(body) :
             (h \o body)[i] = IF i <= Len(h) THEN h[i] ELSE body[i - Len(h)]
    BY <2>1, ConcatProperties
  <2> QED
    BY <1>6, <1>7, <2>1, <2>2 DEF Bytes
<1>9. /\ y \in Bytes /\ Len(y) = 16 + l
      /\ \A i \in 1 .. 16 + l : y[i] = IF i <= 16 THEN h[i] ELSE other[i - 16]
  <2>1. h \in Seq(Int) /\ other \in Seq(Int) /\ Len(other) = l
    BY <1>1, <1>6 DEF Bytes, l
  <2>2. /\ h \o other \in Seq(Int) /\ Len(h \o other) = Len(h) + Len(other)
        /\ \A i \in 1 .. Len(h) + Len(other) :
             (h \o other)[i] = IF i <= Len(h) THEN h[i] ELSE other[i - Len(h)]
    BY <2>1, ConcatProperties
  <2> QED
    BY <1>6, <1>7, <2>1, <2>2 DEF Bytes
<1>10. 16 + p \in 1 .. 16 + l
  BY <1>3 DEF l
<1> DEFINE w == MessageBytes(m)
           z == [w EXCEPT ![16 + p] = 2]
<1>11. /\ z \in Bytes /\ Len(z) = 16 + l /\ z[16 + p] = 2
       /\ \A i \in 1 .. 16 + l : i # 16 + p => z[i] = w[i]
  <2>1. w \in Bytes /\ Len(w) = 16 + l
    BY <1>8
  <2> DEFINE q == 16 + p
  <2>2. q \in 1 .. Len(w) /\ z = [w EXCEPT ![q] = 2]
    BY <1>10, <2>1
  <2> HIDE DEF w, q, z
  <2>3. /\ z \in Bytes /\ Len(z) = Len(w) /\ z[q] = 2
        /\ \A i \in 1 .. Len(w) : i # q => z[i] = w[i]
    <3>1. w \in Bytes /\ q \in 1 .. Len(w)
      BY <2>1, <2>2
    <3>2. /\ [w EXCEPT ![q] = 2] \in Bytes /\ Len([w EXCEPT ![q] = 2]) = Len(w)
          /\ [w EXCEPT ![q] = 2][q] = 2
          /\ \A i \in 1 .. Len(w) : i # q => [w EXCEPT ![q] = 2][i] = w[i]
      BY <3>1, Patched
    <3> QED
      BY <2>2, <3>2
  <2> QED
    BY <2>1, <2>3 DEF q
<1> HIDE DEF z, w
<1>12. \A i \in 1 .. 16 + l : z[i] = y[i]
  <2> SUFFICES ASSUME NEW i \in 1 .. 16 + l PROVE z[i] = y[i]
    OBVIOUS
  <2>1. CASE i <= 16
    <3>1. i # 16 + p
      BY <1>3, <2>1
    <3>2. z[i] = w[i] /\ w[i] = h[i] /\ y[i] = h[i]
      BY <1>8, <1>9, <1>11, <2>1, <3>1 DEF w
    <3> QED
      BY <3>2
  <2>2. CASE i > 16 /\ i # 16 + p
    <3>1. ~(i <= 16) /\ i - 16 \in 1 .. l /\ i - 16 # p
      BY <1>3, <2>2 DEF l
    <3>2. z[i] = w[i] /\ w[i] = body[i - 16] /\ y[i] = other[i - 16]
      BY <1>8, <1>9, <1>11, <2>2, <3>1 DEF w
    <3>3. other[i - 16] = body[i - 16]
      BY <1>1, <3>1
    <3> QED
      BY <3>2, <3>3
  <2>3. CASE i = 16 + p
    <3>1. ~(i <= 16) /\ i - 16 = p
      BY <1>3, <2>3
    <3>2. z[i] = 2 /\ y[i] = other[p]
      BY <1>9, <1>11, <2>3, <3>1
    <3> QED
      BY <1>1, <3>2
  <2> QED
    BY <1>3, <2>1, <2>2, <2>3
<1>13. z = y
  BY <1>9, <1>11, <1>12, SeqEqual DEF Bytes
<1> QED
  BY <1>13 DEF z, w, y, m, m2, other

(***************************************************************************)
(* What each format does with what was encoded, whole or damaged           *)
(***************************************************************************)
LEMMA PacketsArrive ==
    ASSUME Wire!CodecsAssumption, NEW packet \in Packets,
           NEW whole, Wire!TunnelEncode(packet) = <<whole>>
    PROVE  /\ Wire!TunnelDecode(whole) = <<packet>>
           /\ \A bytes : CutOrLonger(whole, bytes) => Wire!TunnelDecode(bytes) = <<>>
<1>1. packet \in Wire!Packet
  BY DEF Wire!CodecsAssumption
<1>2. Fits(packet) /\ whole = Datagrams(packet)
  BY <1>1, TunnelEncodeIs
<1> QED
  BY <1>1, <1>2, DatagramIsRead, NoOtherSize

LEMMA CallsArrive ==
    ASSUME Wire!CodecsAssumption, NEW sent \in ServiceCalls,
           NEW whole, Wire!Serialize(sent) = <<whole>>
    PROVE  /\ Wire!Deserialize(whole) = <<sent>>
           /\ \A bytes : CutOrLonger(whole, bytes) => Wire!Deserialize(bytes) = <<>>
<1>1. sent \in Wire!Call /\ 8 + Len(sent.payload) < Wire!Weight[4]
  BY DEF Wire!CodecsAssumption
<1>2. sent.payload \in Bytes
  <2>1. sent.payload \in Seq(Wire!Byte)
    BY <1>1 DEF Wire!Call
  <2>2. Wire!Byte \subseteq Int
    BY SmallNumbers
  <2> HIDE DEF Wire!Byte
  <2> QED
    BY <2>1, <2>2, SeqMonotonic DEF Bytes
<1>3. sent \in Messages
  <2>1. Wire!Byte \subseteq Int
    BY SmallNumbers
  <2> QED
    BY <1>1, <1>2, <2>1 DEF Wire!Call, Messages
<1>4. 8 + Len(sent.payload) \in Wire!Numbers(4)
  <2>1. Len(sent.payload) \in Nat
    BY <1>2, LenProperties DEF Bytes
  <2>2. Wire!Weight[4] \in Nat
    <3>1. 4 \in 0 .. 4
      OBVIOUS
    <3> QED
      BY <3>1, Weights4
  <2> QED
    BY <1>1, <2>1, <2>2 DEF Wire!Numbers
<1>5. whole = MessageBytes(sent)
  BY <1>3, SerializeIsMessage
<1> QED
  BY <1>3, <1>4, <1>5, MessageIsRead, NoOtherLength

\* An entry or an option of a newer standard, in a datagram.
NewEntry(a, whole) == [whole EXCEPT ![25] = 2]
NewOption(a, whole) == [whole EXCEPT ![28 + 16 * Len(a.entries) + 3] = 2]

IsFirst(entries, earliest) ==
    /\ entries[earliest].options # <<>>
    /\ \A k \in 1 .. earliest - 1 : entries[k].options = <<>>

LEMMA OtherEntries ==
    ASSUME Wire!CodecsAssumption, NEW a \in Wire!Announcement, NEW x
    PROVE  [a EXCEPT !.entries = x]
             = [session |-> a.session, reboot |-> a.reboot, unicast |-> a.unicast, entries |-> x]
<1> DEFINE s == a.session
           r == a.reboot
           u == a.unicast
           e == a.entries
<1>1. a = [session |-> s, reboot |-> r, unicast |-> u, entries |-> e]
  BY AnnouncementFields
<1> HIDE DEF s, r, u, e
<1>2. [a EXCEPT !.entries = x] = [session |-> s, reboot |-> r, unicast |-> u, entries |-> x]
  BY <1>1
<1> QED
  BY <1>2 DEF s, r, u

LEMMA AnnouncementsArrive ==
    ASSUME Wire!CodecsAssumption, NEW a \in Announcements,
           NEW whole, Wire!SdSerialize(a) = <<whole>>
    PROVE  /\ Wire!SdReceive(whole) = <<a>>
           /\ \A bytes : CutOrLonger(whole, bytes) => Wire!SdReceive(bytes) = <<>>
           /\ a.entries # <<>>
                => Wire!SdReceive(NewEntry(a, whole)) = <<[a EXCEPT !.entries = Tail(@)]>>
           /\ \A earliest \in DOMAIN a.entries :
                Wire!OptionsOf(a.entries) # <<>> /\ IsFirst(a.entries, earliest)
                  => Wire!SdReceive(NewOption(a, whole))
                       = <<[a EXCEPT !.entries[earliest].options[1] = Wire!NoOption]>>
<1> DEFINE p == Payload(a)
           m == SdMessage(a, p)
           back(entries) == [session |-> a.session, reboot |-> a.reboot, unicast |-> a.unicast,
                             entries |-> entries]
<1>1. Writable(a) /\ whole = MessageBytes(m)
  <2>1. Wire!SdSerialize(a) = IF Writable(a) THEN <<MessageBytes(m)>> ELSE <<>>
    BY SerializedIs
  <2> HIDE DEF m
  <2> QED
    BY <2>1
<1>2. a = back(a.entries) /\ DOMAIN a.entries = 1 .. EntriesOf(a)
  <2>1. a \in Wire!Announcement
    BY DEF Wire!CodecsAssumption
  <2> QED
    BY <2>1, AnnouncementFields DEF EntriesOf
<1>3. p \in Bytes /\ 8 + Len(p) < Wire!Weight[4] /\ Len(p) \in Nat
      /\ EntriesOf(a) \in Nat
  <2> DEFINE i == Len(a.entries)
             j == Len(Wire!OptionsOf(a.entries))
  <2>1. /\ p \in Bytes /\ i \in Nat /\ j \in Nat
        /\ Len(p) = 12 + 16 * i + 12 * j /\ 20 + 16 * i + 12 * j < Wire!Weight[4]
    BY <1>1, PayloadParts
  <2> HIDE DEF i, j, p
  <2>2. 8 + (12 + 16 * i + 12 * j) = 20 + 16 * i + 12 * j /\ 12 + 16 * i + 12 * j \in Nat
    BY <2>1
  <2> QED
    BY <2>1, <2>2 DEF i, EntriesOf
<1>4. m \in Messages /\ 8 + Len(m.payload) \in Wire!Numbers(4)
  BY <1>3, SdMessages
<1>5. Wire!SdReceive(whole) = <<a>>
  <2>1. ReadAs(a, p, a.entries)
    BY <1>1, PayloadIsReadWhole
  <2>2. Wire!SdReceive(MessageBytes(m)) = <<back(a.entries)>>
    BY <1>3, <2>1, Received
  <2> QED
    BY <1>1, <1>2, <2>2
<1>6. ASSUME NEW bytes, CutOrLonger(whole, bytes)
      PROVE  Wire!SdReceive(bytes) = <<>>
  <2> HIDE DEF m
  <2> QED
    BY <1>1, <1>4, <1>6, NoOtherLength, NotReceived
\* What is read when a byte of the payload is changed.
<1>7. ASSUME NEW q \in 1 .. Len(p), NEW entries, ReadAs(a, Changed(a, q), entries)
      PROVE  Wire!SdReceive([whole EXCEPT ![16 + q] = 2]) = <<back(entries)>>
  <2> DEFINE other == Changed(a, q)
  <2>1. [MessageBytes(m) EXCEPT ![16 + q] = 2] = MessageBytes(SdMessage(a, other))
    BY <1>3, <1>7, ByteOfPayload DEF Changed
  <2>2. other \in Bytes /\ Len(other) = Len(p)
    BY <1>3, <1>7, Patched DEF Changed
  <2> HIDE DEF other, p, m
  <2>3. ReadAs(a, other, entries)
    BY <1>7 DEF other
  <2>4. Wire!SdReceive(MessageBytes(SdMessage(a, other))) = <<back(entries)>>
    BY <1>3, <2>2, <2>3, Received
  <2> QED
    BY <1>1, <2>1, <2>4
<1>8. ASSUME a.entries # <<>>
      PROVE  Wire!SdReceive(NewEntry(a, whole)) = <<[a EXCEPT !.entries = Tail(@)]>>
  <2>1. ReadAs(a, Changed(a, 9), Tail(a.entries)) /\ 9 \in 1 .. Len(p)
    BY <1>1, <1>8, NewerEntry
  <2>2. Wire!SdReceive([whole EXCEPT ![16 + 9] = 2]) = <<back(Tail(a.entries))>>
    BY <1>7, <2>1
  <2>3. 16 + 9 = 25
    OBVIOUS
  <2>4. [a EXCEPT !.entries = Tail(@)] = back(Tail(a.entries))
    <3> DEFINE x == Tail(a.entries)
    <3>1. a \in Wire!Announcement
      BY DEF Wire!CodecsAssumption
    <3>2. [a EXCEPT !.entries = Tail(@)] = [a EXCEPT !.entries = x]
      OBVIOUS
    <3> HIDE DEF x
    <3>3. [a EXCEPT !.entries = x] = back(x)
      BY <3>1, OtherEntries
    <3> QED
      BY <3>2, <3>3 DEF x
  <2> QED
    BY <2>2, <2>3, <2>4 DEF NewEntry
<1>9. ASSUME NEW earliest \in DOMAIN a.entries,
             Wire!OptionsOf(a.entries) # <<>>, IsFirst(a.entries, earliest)
      PROVE  Wire!SdReceive(NewOption(a, whole))
               = <<[a EXCEPT !.entries[earliest].options[1] = Wire!NoOption]>>
  <2> DEFINE x == [a.entries EXCEPT ![earliest].options[1] = Wire!NoOption]
  <2>1. ReadAs(a, Changed(a, Place(a)), x) /\ Place(a) \in 1 .. Len(p)
    BY SMTT(60), <1>1, <1>2, <1>9, NewerOption DEF IsFirst
  <2>2. Wire!SdReceive([whole EXCEPT ![16 + Place(a)] = 2]) = <<back(x)>>
    BY <1>7, <2>1
  <2>3. 16 + Place(a) = 28 + 16 * Len(a.entries) + 3
    <3> DEFINE i == EntriesOf(a)
    <3>1. i \in Nat /\ i = Len(a.entries) /\ Place(a) = (12 + 16 * i) + 3
      BY <1>3 DEF Place, EntriesOf
    <3> HIDE DEF i
    <3>2. 16 + ((12 + 16 * i) + 3) = 28 + 16 * i + 3
      BY <3>1
    <3> QED
      BY <3>1, <3>2
  <2>4. [a EXCEPT !.entries[earliest].options[1] = Wire!NoOption] = [a EXCEPT !.entries = x]
    OBVIOUS
  <2>5. [a EXCEPT !.entries = x] = back(x)
    <3>1. a \in Wire!Announcement
      BY DEF Wire!CodecsAssumption
    <3> HIDE DEF x
    <3> QED
      BY <3>1, OtherEntries
  <2> QED
    BY <2>2, <2>3, <2>4, <2>5 DEF NewOption
<1> QED
  BY <1>5, <1>6, <1>8, <1>9

(***************************************************************************)
(* A datagram on its way                                                   *)
(***************************************************************************)
Encoded(f, x) ==
    CASE f = "tunnel" -> Wire!TunnelEncode(x)
      [] f = "someip" -> Wire!Serialize(x)
      [] f = "sd"     -> Wire!SdSerialize(x)

Decoded(f, bytes) ==
    CASE f = "tunnel" -> Wire!TunnelDecode(bytes)
      [] f = "someip" -> Wire!Deserialize(bytes)
      [] f = "sd"     -> Wire!SdReceive(bytes)

Harmed(how, f, x, whole, bytes) ==
    \/ how = "none" /\ bytes = whole
    \/ how \in {"cut", "longer"} /\ CutOrLonger(whole, bytes)
    \/ how = "newer entry" /\ f = "sd" /\ x.entries # <<>> /\ bytes = NewEntry(x, whole)
    \/ /\ how = "newer option" /\ f = "sd" /\ Wire!OptionsOf(x.entries) # <<>>
       /\ bytes = NewOption(x, whole)

WireInvariant ==
    /\ format \in DOMAIN Wire!Sendable /\ given \in Wire!Sendable[format]
    /\ stage = "given" => damage = "none"
    /\ stage \in {"sent", "decoded"} =>
         \E whole : /\ Encoded(format, given) = <<whole>>
                    /\ Harmed(damage, format, given, whole, wire)
    /\ stage = "decoded" => got = Decoded(format, wire)

LEMMA OneDatagramOrNone ==
    ASSUME NEW f \in {"tunnel", "someip", "sd"}, NEW x, Encoded(f, x) # <<>>
    PROVE  Encoded(f, x) = <<Encoded(f, x)[1]>>
<1>1. ASSUME NEW m
      PROVE  \E s : Wire!Serialize(m) = <<s>>
  BY DEF Wire!Serialize
<1>2. Wire!SdSerialize(x) = <<>> \/ \E s : Wire!SdSerialize(x) = <<s>>
  BY <1>1 DEF Wire!SdSerialize
<1>3. Wire!TunnelEncode(x) = <<>> \/ \E s : Wire!TunnelEncode(x) = <<s>>
  BY TunnelEncodeIs
<1>4. Encoded(f, x) = <<>> \/ \E s : Encoded(f, x) = <<s>>
  <2>1. CASE f = "tunnel"
    BY <1>3, <2>1 DEF Encoded
  <2>2. CASE f = "someip"
    BY <1>1, <2>2 DEF Encoded
  <2>3. CASE f = "sd"
    BY <1>2, <2>3 DEF Encoded
  <2> QED
    BY <2>1, <2>2, <2>3
<1> QED
  BY <1>4

LEMMA WiresHold ==
    /\ Wire!CodecsInit => WireInvariant
    /\ WireInvariant /\ [Wire!CodecsNext]_Wire!codecVars => WireInvariant'
<1>1. Wire!CodecsInit => WireInvariant
  BY DEF Wire!CodecsInit, WireInvariant
<1>2. ASSUME WireInvariant, [Wire!CodecsNext]_Wire!codecVars
      PROVE  WireInvariant'
  <2>1. DOMAIN Wire!Sendable = {"tunnel", "someip", "sd"}
    BY DEF Wire!Sendable
  <2>2. CASE Wire!Encode
    <3>1. UNCHANGED <<format, given, damage, got>> /\ stage = "given" /\ damage = "none"
          /\ format \in {"tunnel", "someip", "sd"}
      BY <1>2, <2>1, <2>2 DEF Wire!Encode, WireInvariant
    <3>2. IF Encoded(format, given) = <<>> THEN stage' = "refused"
          ELSE stage' = "sent" /\ wire' = Encoded(format, given)[1]
      BY <2>2 DEF Wire!Encode, Encoded
    <3>3. CASE Encoded(format, given) = <<>>
      BY <1>2, <3>1, <3>2, <3>3 DEF WireInvariant
    <3>4. CASE Encoded(format, given) # <<>>
      <4>1. Encoded(format, given) = <<wire'>> /\ stage' = "sent"
        BY <3>1, <3>2, <3>4, OneDatagramOrNone
      <4>2. Harmed(damage', format', given', wire', wire')
        BY <3>1 DEF Harmed
      <4>3. Encoded(format', given') = <<wire'>>
        BY <3>1, <4>1
      <4> QED
        BY <1>2, <3>1, <4>1, <4>2, <4>3 DEF WireInvariant
    <3> QED
      BY <3>3, <3>4
  <2>3. CASE Wire!Damage
    <3>1. /\ UNCHANGED <<format, given, got, stage>> /\ stage = "sent" /\ damage = "none"
          /\ \/ \E n \in 0 .. Len(wire) - 1 : damage' = "cut" /\ wire' = SubSeq(wire, 1, n)
             \/ damage' = "longer" /\ wire' = Append(wire, 0)
             \/ /\ format = "sd" /\ given.entries # <<>>
                /\ damage' = "newer entry" /\ wire' = NewEntry(given, wire)
             \/ /\ format = "sd" /\ Wire!OptionsOf(given.entries) # <<>>
                /\ damage' = "newer option" /\ wire' = NewOption(given, wire)
      BY ZenonT(60), <2>3 DEF Wire!Damage, NewEntry, NewOption
    <3>2. Encoded(format, given) = <<wire>>
      BY ZenonT(60), <1>2, <3>1 DEF WireInvariant, Harmed
    <3>3. Harmed(damage', format, given, wire, wire')
      BY ZenonT(60), <3>1 DEF Harmed, CutOrLonger
    <3>4. stage' = "sent" /\ Encoded(format', given') = <<wire>>
          /\ Harmed(damage', format', given', wire, wire')
      BY ZenonT(60), <3>1, <3>2, <3>3
    <3> QED
      BY ZenonT(60), <1>2, <3>1, <3>4 DEF WireInvariant
  <2>4. CASE Wire!Decode
    <3>1. /\ UNCHANGED <<format, given, wire, damage>> /\ stage = "sent" /\ stage' = "decoded"
          /\ got' = Decoded(format, wire)
      BY <2>4 DEF Wire!Decode, Decoded
    <3>2. PICK whole : /\ Encoded(format, given) = <<whole>>
                       /\ Harmed(damage, format, given, whole, wire)
      BY <1>2, <3>1 DEF WireInvariant
    <3>3. /\ Encoded(format', given') = <<whole>>
          /\ Harmed(damage', format', given', whole, wire')
          /\ got' = Decoded(format', wire')
      BY <3>1, <3>2
    <3> QED
      BY <1>2, <3>1, <3>3 DEF WireInvariant
  <2>5. CASE UNCHANGED Wire!codecVars
    <3>1. UNCHANGED <<format, given, wire, damage, got, stage>>
      BY <2>5 DEF Wire!codecVars
    <3> QED
      BY <1>2, <3>1 DEF WireInvariant
  <2> QED
    BY <1>2, <2>2, <2>3, <2>4, <2>5 DEF Wire!CodecsNext
<1> QED
  BY <1>1, <1>2

LEMMA WiresAgree ==
    ASSUME Wire!CodecsAssumption, WireInvariant
    PROVE  Wire!ArrivesWhole /\ Wire!DamageIsContained
<1> SUFFICES ASSUME stage = "decoded"
             PROVE  Wire!ArrivesWhole /\ Wire!DamageIsContained
  BY ZenonT(60) DEF Wire!ArrivesWhole, Wire!DamageIsContained
<1>1. PICK whole : /\ Encoded(format, given) = <<whole>>
                   /\ Harmed(damage, format, given, whole, wire)
  BY DEF WireInvariant
<1>2. got = Decoded(format, wire)
  BY DEF WireInvariant
<1>3. \/ format = "tunnel" /\ given \in Packets
      \/ format = "someip" /\ given \in ServiceCalls
      \/ format = "sd" /\ given \in Announcements
  BY DEF WireInvariant, Wire!Sendable
<1>4. /\ damage = "none" => got = <<given>>
      /\ damage \in {"cut", "longer"} => got = <<>>
  <2>1. CASE format = "tunnel" /\ given \in Packets
    <3>1. Wire!TunnelEncode(given) = <<whole>> /\ got = Wire!TunnelDecode(wire)
      BY <1>1, <1>2, <2>1 DEF Encoded, Decoded
    <3>2. /\ Wire!TunnelDecode(whole) = <<given>>
          /\ \A bytes : CutOrLonger(whole, bytes) => Wire!TunnelDecode(bytes) = <<>>
      BY SMTT(60), <2>1, <3>1, PacketsArrive
    <3> QED
      BY ZenonT(60), <1>1, <3>1, <3>2 DEF Harmed
  <2>2. CASE format = "someip" /\ given \in ServiceCalls
    <3>1. Wire!Serialize(given) = <<whole>> /\ got = Wire!Deserialize(wire)
      BY <1>1, <1>2, <2>2 DEF Encoded, Decoded
    <3>2. /\ Wire!Deserialize(whole) = <<given>>
          /\ \A bytes : CutOrLonger(whole, bytes) => Wire!Deserialize(bytes) = <<>>
      BY <2>2, <3>1, CallsArrive
    <3> QED
      BY ZenonT(60), <1>1, <3>1, <3>2 DEF Harmed
  <2>3. CASE format = "sd" /\ given \in Announcements
    <3>1. Wire!SdSerialize(given) = <<whole>> /\ got = Wire!SdReceive(wire)
      BY <1>1, <1>2, <2>3 DEF Encoded, Decoded
    <3>2. /\ Wire!SdReceive(whole) = <<given>>
          /\ \A bytes : CutOrLonger(whole, bytes) => Wire!SdReceive(bytes) = <<>>
      BY <2>3, <3>1, AnnouncementsArrive
    <3> QED
      BY ZenonT(60), <1>1, <3>1, <3>2 DEF Harmed
  <2> QED
    BY <1>3, <2>1, <2>2, <2>3
<1>5. ASSUME damage = "newer entry"
      PROVE  got = <<[given EXCEPT !.entries = Tail(@)]>>
  <2>1. format = "sd" /\ given.entries # <<>> /\ wire = NewEntry(given, whole)
    BY ZenonT(60), <1>1, <1>5 DEF Harmed
  <2>2. Wire!SdSerialize(given) = <<whole>> /\ got = Wire!SdReceive(wire)
        /\ given \in Announcements
    BY SMTT(60), <1>1, <1>2, <1>3, <2>1 DEF Encoded, Decoded
  <2> QED
    BY <2>1, <2>2, AnnouncementsArrive
<1>6. ASSUME damage = "newer option"
      PROVE  LET earliest == CHOOSE n \in DOMAIN given.entries :
                            /\ given.entries[n].options # <<>>
                            /\ \A m \in 1 .. n - 1 : given.entries[m].options = <<>>
             IN got = <<[given EXCEPT !.entries[earliest].options[1] = Wire!NoOption]>>
  <2> DEFINE earliest == CHOOSE n \in DOMAIN given.entries :
                        /\ given.entries[n].options # <<>>
                        /\ \A m \in 1 .. n - 1 : given.entries[m].options = <<>>
  <2>1. /\ format = "sd" /\ Wire!OptionsOf(given.entries) # <<>>
        /\ wire = NewOption(given, whole)
    BY ZenonT(60), <1>1, <1>6 DEF Harmed
  <2>2. Wire!SdSerialize(given) = <<whole>> /\ got = Wire!SdReceive(wire)
        /\ given \in Announcements
    BY <1>1, <1>2, <1>3, <2>1 DEF Encoded, Decoded
  <2>3. given.entries \in Seq(Entry)
    <3>1. given \in Wire!Announcement
      BY <2>2 DEF Wire!CodecsAssumption
    <3> QED
      BY <3>1, AnnouncementFields
  <2>4. \E n \in DOMAIN given.entries :
          /\ given.entries[n].options # <<>>
          /\ \A m \in 1 .. n - 1 : given.entries[m].options = <<>>
    BY <2>1, <2>3, SomeEntryIsFirst
  <2>5. /\ earliest \in DOMAIN given.entries /\ given.entries[earliest].options # <<>>
        /\ \A m \in 1 .. earliest - 1 : given.entries[m].options = <<>>
    BY <2>4
  <2> HIDE DEF earliest
  <2>6. IsFirst(given.entries, earliest)
    BY <2>5 DEF IsFirst
  <2>7. Wire!SdReceive(NewOption(given, whole))
          = <<[given EXCEPT !.entries[earliest].options[1] = Wire!NoOption]>>
    BY <2>1, <2>2, <2>5, <2>6, AnnouncementsArrive
  <2> QED
    BY <2>1, <2>2, <2>7 DEF earliest
<1>7. Wire!ArrivesWhole
  BY <1>4 DEF Wire!ArrivesWhole
<1>8. damage \in {"none", "cut", "longer", "newer entry", "newer option"}
  BY ZenonT(60), <1>1 DEF Harmed
<1>9. Wire!DamageIsContained
  BY ZenonT(60), <1>4, <1>5, <1>6, <1>8 DEF Wire!DamageIsContained
<1> QED
  BY SMTT(60), <1>7, <1>9

(***************************************************************************)
(* The parts of Formats, one at a time                                     *)
(***************************************************************************)
FormatsInvariant ==
    /\ Is("bus") => ContestInvariant
    /\ Is("layout") => SignalsInvariant
    /\ Is("database") => DatabaseInvariant
    /\ Is("wire") => WireInvariant

\* Each part goes its own way: what holds of the one that was chosen holds at all.
THEOREM FormatsAreSound == FormatsSpec => []FormatsInvariant
<1>1. FormatsInit => FormatsInvariant
  BY BusAssumption, LayoutAssumption, LinesAssumption, ContestHolds, CallsHold, DatabaseHolds,
     WiresHold
  DEF FormatsInit, FormatsInvariant, Is
<1>2. FormatsInvariant /\ [FormatsNext /\ UNCHANGED part]_formatsVars => FormatsInvariant'
  <2> SUFFICES ASSUME FormatsInvariant, [FormatsNext /\ UNCHANGED part]_formatsVars
               PROVE  FormatsInvariant'
    OBVIOUS
  <2>1. part' = part
    BY DEF formatsVars
  <2>2. CASE part = "bus"
    <3>1. [Bus!ArbitrationNext]_Bus!race
      BY <2>2 DEF FormatsNext, Is, formatsVars, slots, Bus!race
    <3> QED
      BY <2>1, <2>2, <3>1, BusAssumption, ContestHolds DEF FormatsInvariant, Is
  <2>3. CASE part = "database"
    <3>1. [Database!DbcNext]_Database!dbc
      BY <2>3 DEF FormatsNext, Is, formatsVars, slots, Database!dbc
    <3> QED
      BY <2>1, <2>3, <3>1, LinesAssumption, DatabaseHolds DEF FormatsInvariant, Is
  <2>4. CASE part = "layout"
    <3>1. [Layout!SignalsNext]_Layout!signalVars
      BY <2>4 DEF FormatsNext, Is, formatsVars, slots, Layout!signalVars
    <3> QED
      BY <2>1, <2>4, <3>1, LayoutAssumption, CallsHold DEF FormatsInvariant, Is
  <2>5. CASE part = "wire"
    <3>1. [Wire!CodecsNext]_Wire!codecVars
      BY <2>5 DEF FormatsNext, Is, formatsVars, slots, Wire!codecVars
    <3> QED
      BY <2>1, <2>5, <3>1, WiresHold DEF FormatsInvariant, Is
  <2>6. CASE part \notin {"bus", "layout", "database", "wire"}
    BY <2>1, <2>6 DEF FormatsInvariant, Is
  <2> QED
    BY <2>2, <2>3, <2>4, <2>5, <2>6
<1> QED
  BY <1>1, <1>2, PTL DEF FormatsSpec

\* For all widths of the identifiers and any number of contenders: whoever
\* withdraws was beaten at a bit, somebody is left, a frame of the highest
\* priority always is, and among frames of one format nobody else (arbitrate()).
THEOREM PriorityHolds == FormatsSpec => []PriorityIsKept
<1>1. FormatsInvariant => PriorityIsKept
  BY BusAssumption, ContestDecides DEF FormatsInvariant, PriorityIsKept
<1> QED
  BY <1>1, FormatsAreSound, PTL

\* For all files: a database has all messages and signals of its file, and a
\* comment is at the first message of its name and is the last whole one given,
\* or a cut one given after it (DbcDatabase::parse()).
THEOREM FileHolds == FormatsSpec => []FileIsTheDatabase
<1>1. FormatsInvariant => FileIsTheDatabase
  BY DatabaseIsWhole DEF FormatsInvariant, FileIsTheDatabase
<1> QED
  BY <1>1, FormatsAreSound, PTL

\* For all frames, signals and values: what encode() accepts, decode() reads back
\* within half a step, signals on other bits are as before, and a refused value has
\* no raw value nearer than half a step; lengths and codes correspond (encode(),
\* decode(), insert_bits(), extract_bits(), dlc_to_length()).
THEOREM PackingHolds == FormatsSpec => []PacksFaithfully
<1>1. FormatsInvariant => PacksFaithfully
  BY LayoutAssumption, CallsPackFaithfully, LengthsHaveOneCode DEF FormatsInvariant, PacksFaithfully
<1> QED
  BY <1>1, FormatsAreSound, PTL

\* For all packets, calls and announcements: what was encoded is decoded, every
\* field of it, a datagram that was cut or grew is refused, and an entry or an option
\* of a newer standard costs only itself (tunnel_encode() and tunnel_decode(),
\* serialize() and deserialize(), sd_serialize() and sd_parse()).
THEOREM DatagramsHold == FormatsSpec => []FormatsAgree
<1>1. FormatsInvariant => FormatsAgree
  BY WireAssumption, WiresAgree DEF FormatsInvariant, FormatsAgree
<1> QED
  BY <1>1, FormatsAreSound, PTL
=============================================================================
