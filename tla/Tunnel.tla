------------------------------- MODULE Tunnel -------------------------------
(***************************************************************************)
(* The CAN tunnel: eth_gw numbers its datagrams and multicasts them, the   *)
(* network loses, repeats and reorders them, and eth_sub decides by the    *)
(* number alone (SequenceTracker) whether what it holds may be displayed.  *)
(*                                                                         *)
(* A datagram carries its sequence number, which wraps, and the readings   *)
(* of the moment it was built, here the number of the publication, which   *)
(* does not: the receiver never sees it, the properties do.                *)
(*                                                                         *)
(* A batch that cannot be encoded, a send that fails and a datagram of     *)
(* somebody else change nothing but counters nobody reads, or are losses.  *)
(***************************************************************************)
EXTENDS Integers

CONSTANTS
    Modulus,        \* how many sequence numbers there are (2^32)
    Reorder,        \* hold back every such datagram, 0: none
    Naive,          \* the subscriber's --naive
    MaxLate,        \* publications a datagram may be under way for
    MaxLost,        \* datagrams lost in a row
    MaxRestarts,    \* restarts of the gateway
    MaxPublished,   \* publications
    None

ASSUME TunnelAssumption ==
    /\ Modulus \in Nat /\ Modulus > 1 /\ Modulus % 2 = 0
    /\ Reorder \in Nat
    /\ Naive \in BOOLEAN
    /\ {MaxLate, MaxLost, MaxRestarts, MaxPublished} \subseteq Nat
    /\ None \notin [sequence : Nat, reading : Nat]

\* Late and lost datagrams are few compared to the range: at ten a second half
\* of 2^32 takes almost seven years.
ASSUME WindowAssumption ==
    /\ 2 <= MaxLate /\ MaxLate <= Modulus \div 2
    /\ MaxLost < (Modulus \div 2) - 1

VARIABLES
    sequence,       \* the gateway's next sequence number
    held,           \* the datagram it holds back, or None
    published,      \* publications so far
    run,            \* the publication this run of the gateway began with
    restarts,
    network,        \* datagrams under way
    heard,          \* publications up to the latest one that arrived
    tracker,        \* the subscriber's SequenceTracker
    first,          \* the reading of the first datagram accepted
    shown           \* the reading on the display, -1 before the first

gateway == <<sequence, held, published, run, restarts>>
subscriber == <<tracker, first, shown>>
vars == <<gateway, network, heard, subscriber>>

Init ==
    /\ sequence = 0
    /\ held = None
    /\ published = 0
    /\ run = 0
    /\ restarts = 0
    /\ network = {}
    /\ heard = 0
    /\ tracker = [started |-> FALSE, highest |-> 0, accepted |-> 0, lost |-> 0, stale |-> 0]
    /\ first = -1
    /\ shown = -1

(***************************************************************************)
(* The gateway                                                             *)
(***************************************************************************)
HoldsBack ==
    /\ Reorder > 0
    /\ held = None
    /\ sequence % Reorder = Reorder - 1

NextSequence == (sequence + 1) % Modulus

\* Publisher::publish() numbers a batch and sends it or keeps it; what it kept
\* before leaves right after the one that overtakes it.
Publish ==
    LET datagram == [sequence |-> sequence, reading |-> published] IN
    /\ published < MaxPublished
    /\ published - heard <= MaxLost
    /\ \A d \in network : published - d.reading < MaxLate
    /\ IF HoldsBack
       THEN /\ held' = datagram
            /\ UNCHANGED network
       ELSE /\ network' = network \cup {datagram} \cup ({held} \ {None})
            /\ held' = None
    /\ sequence' = NextSequence
    /\ published' = published + 1
    /\ UNCHANGED <<run, restarts, heard, subscriber>>

\* The gateway dies and comes back, which takes longer than any datagram is
\* under way.
Restart ==
    /\ restarts < MaxRestarts
    /\ network = {}
    /\ sequence' = 0
    /\ held' = None
    /\ run' = published
    /\ restarts' = restarts + 1
    /\ UNCHANGED <<published, network, heard, subscriber>>

(***************************************************************************)
(* The subscriber                                                          *)
(***************************************************************************)
\* Mutated form: the plain comparison, sequence < highest.
DeltaPlain(a, b) == a - b

\* static_cast<int32_t>(a - b)
Delta(a, b) ==
    LET d == (a - b) % Modulus IN IF d < Modulus \div 2 THEN d ELSE d - Modulus

Order(s) ==
    IF ~tracker.started THEN "First"
    ELSE LET d == Delta(s, tracker.highest) IN
         IF d = 0 THEN "Duplicate"
         ELSE IF d < 0 THEN "Stale" ELSE IF d > 1 THEN "Gap" ELSE "InOrder"

\* Mutated form: the datagram itself is counted too.
SkippedAndSelf(s) == Delta(s, tracker.highest)

\* The datagrams skipped by accepting s.
Skipped(s) == Delta(s, tracker.highest) - 1

Observe(s) ==
    tracker' =
      CASE Order(s) = "First" ->
             [tracker EXCEPT !.started = TRUE, !.highest = s, !.accepted = @ + 1]
        [] Order(s) \in {"Duplicate", "Stale"} -> [tracker EXCEPT !.stale = @ + 1]
        [] Order(s) \in {"InOrder", "Gap"} ->
             [tracker EXCEPT !.highest = s, !.accepted = @ + 1, !.lost = @ + Skipped(s)]

\* Mutated form: only repetitions are dropped.
DisplaysLate(s) == Order(s) # "Duplicate"

Displays(s) == Naive \/ Order(s) \notin {"Stale", "Duplicate"}

\* One datagram arrives, or a copy of it.
Handle(d) ==
    /\ d \in network
    /\ tracker.stale < MaxPublished
    /\ heard' = IF d.reading >= heard THEN d.reading + 1 ELSE heard
    /\ Observe(d.sequence)
    /\ shown' = IF Displays(d.sequence) THEN d.reading ELSE shown
    /\ first' = IF tracker.started THEN first ELSE d.reading
    /\ \E copy \in BOOLEAN : network' = IF copy THEN network ELSE network \ {d}
    /\ UNCHANGED gateway

Lose(d) ==
    /\ network' = network \ {d}
    /\ UNCHANGED <<gateway, heard, subscriber>>

Next ==
    \/ Publish \/ Restart
    \/ \E d \in network : Handle(d) \/ Lose(d)

Spec == Init /\ [][Next]_vars

-----------------------------------------------------------------------------
(***************************************************************************)
(* Properties                                                              *)
(***************************************************************************)
\* Every variable has its type.
TypeInvariant ==
    LET Datagrams == [sequence : 0 .. Modulus - 1, reading : 0 .. published - 1] IN
    /\ sequence \in 0 .. Modulus - 1
    /\ held \in Datagrams \cup {None}
    /\ published \in 0 .. MaxPublished
    /\ run \in 0 .. published
    /\ restarts \in 0 .. MaxRestarts
    /\ network \subseteq Datagrams
    /\ heard \in 0 .. published
    /\ tracker \in [started : BOOLEAN, highest : 0 .. Modulus - 1, accepted : Nat, lost : Nat, stale : Nat]
    /\ first \in -1 .. published - 1
    /\ shown \in -1 .. published - 1

\* The display never goes back to an earlier reading nor shows one twice,
\* whatever the network does, when the numbers wrap and when the gateway starts
\* over (eth_sub main.cpp:228-230).
NeverBackwards == [][shown' # shown => shown' > shown]_shown

\* What arrives and is newer than the display is displayed, unless the gateway
\* has started over and nothing of this run is displayed yet: then the first half
\* of the range, and what was lost before it, may be taken for old.  (A datagram
\* that is late and those lost in a row are together less than that half.)
NewerIsShown ==
    [][\A d \in network :
          Handle(d) /\ d.reading > shown =>
             \/ shown' = d.reading
             \/ /\ restarts > 0 /\ shown < run
                /\ d.reading - run <= (Modulus \div 2) + MaxLost]_vars

\* "Accepted" and "lost" account for every datagram since the first accepted
\* one, as long as the gateway does not start over.
Accounting ==
    tracker.started /\ restarts = 0 =>
        tracker.accepted + tracker.lost = shown - first + 1
=============================================================================
