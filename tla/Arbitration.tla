----------------------------- MODULE Arbitration -----------------------------
(***************************************************************************)
(* CAN arbitration, one bit at a time: av::can::arbitrate().               *)
(*                                                                         *)
(* Contenders that start on an idle bus at the same instant drive their    *)
(* arbitration fields, most significant bit first. The bus is a wired-AND, *)
(* and whoever sends recessive and reads dominant withdraws.               *)
(***************************************************************************)
EXTENDS Integers, Sequences, FiniteSetsExt

CONSTANTS
    BaseBits,       \* width of a standard identifier (11)
    ExtensionBits,  \* further bits of an extended one (18)
    Buses           \* sequences of contenders arbitrate() is called with

VARIABLES
    contenders,     \* the argument of the call
    phase,          \* "racing", "granted" or "refused"
    position,       \* loop counter: the bit being driven, from 0
    winners,        \* contenders that still transmit
    trace           \* per bit: the level of the bus and who withdrew

race == <<contenders, phase, position, winners, trace>>

Dominant == 0
Recessive == 1
Contender == [id : Nat, extended : BOOLEAN, remote : BOOLEAN]

ArbitrationAssumption ==
    BaseBits \in Nat /\ ExtensionBits \in Nat /\ Buses \subseteq Seq(Contender)

BitOf(word, bit) == (word \div 2 ^ bit) % 2
Rtr(c) == IF c.remote THEN Recessive ELSE Dominant

FieldLength(c) == IF c.extended THEN BaseBits + ExtensionBits + 3 ELSE BaseBits + 2

\* Mutated form: a 1 in the identifier is dominant.
InvertedIdentifierBit(c, i) ==
    1 - BitOf(c.id, IF c.extended THEN BaseBits + ExtensionBits - 1 - i ELSE BaseBits - 1 - i)

\* Bit i of the base identifier, i < BaseBits.
IdentifierBit(c, i) ==
    BitOf(c.id, IF c.extended THEN BaseBits + ExtensionBits - 1 - i ELSE BaseBits - 1 - i)

\* arbitration_field(): the level c drives at position i.
Level(c, i) ==
    IF i < BaseBits THEN IdentifierBit(c, i)
    ELSE IF ~c.extended THEN IF i = BaseBits THEN Rtr(c) ELSE Dominant          \* RTR, IDE
    ELSE IF i <= BaseBits + 1 THEN Recessive                                    \* SRR, IDE
    ELSE IF i <= BaseBits + 1 + ExtensionBits
         THEN BitOf(c.id, BaseBits + 1 + ExtensionBits - i)
    ELSE Rtr(c)

\* An identifier with bits outside its format's mask.
OutsideMask(c) == c.id >= 2 ^ (IF c.extended THEN BaseBits + ExtensionBits ELSE BaseBits)

Unusable(bus) == bus = <<>> \/ \E n \in DOMAIN bus : OutsideMask(bus[n])

\* Only positions that every contender drives are compared, also those that
\* are driven by nobody who is still in.
Limit == Min({FieldLength(contenders[n]) : n \in DOMAIN contenders})

ArbitrationInit ==
    /\ contenders \in Buses
    /\ phase = IF Unusable(contenders) THEN "refused" ELSE "racing"
    /\ position = 0
    /\ winners = IF Unusable(contenders) THEN {} ELSE DOMAIN contenders
    /\ trace = <<>>

\* The wired-AND of everyone still in.
BusLevel ==
    IF \E n \in winners : Level(contenders[n], position) = Dominant
    THEN Dominant ELSE Recessive

ArbitrateBit ==
    LET stay == {n \in winners : Level(contenders[n], position) = BusLevel} IN
    /\ phase = "racing"
    /\ position < Limit
    /\ winners \notin {{n} : n \in winners}
    /\ winners' = stay
    /\ trace' = Append(trace, [bus |-> BusLevel, lost |-> winners \ stay])
    /\ position' = position + 1
    /\ UNCHANGED <<contenders, phase>>

Grant ==
    /\ phase = "racing"
    /\ position >= Limit \/ winners \in {{n} : n \in winners}
    /\ phase' = "granted"
    /\ UNCHANGED <<contenders, position, winners, trace>>

ArbitrationNext == ArbitrateBit \/ Grant

ArbitrationSpec == ArbitrationInit /\ [][ArbitrationNext]_race

-----------------------------------------------------------------------------
(***************************************************************************)
(* Properties                                                              *)
(***************************************************************************)
ArbitrationTypes ==
    /\ phase \in {"racing", "granted", "refused"}
    /\ position \in 0 .. BaseBits + ExtensionBits + 3
    /\ winners \subseteq DOMAIN contenders
    /\ trace \in Seq([bus : {Dominant, Recessive}, lost : SUBSET DOMAIN contenders])

\* Whoever withdrew drove the same bits as those who stay up to some position,
\* and was recessive there where they were dominant; and somebody stays. This is
\* the lexicographic order of the fields, and why no frame is ever damaged
\* (arbitration.hpp:18-25).
LosersYield ==
    phase # "refused" =>
    /\ winners # {}
    /\ \A l \in DOMAIN contenders \ winners : \A w \in winners :
          \E i \in 0 .. position - 1 :
             /\ \A j \in 0 .. i - 1 : Level(contenders[l], j) = Level(contenders[w], j)
             /\ Level(contenders[w], i) = Dominant
             /\ Level(contenders[l], i) = Recessive

\* The priority of a frame as a number: base identifier, then standard data,
\* standard remote, extended; then the rest of an extended identifier.
Rank(c) ==
    LET X == 2 ^ ExtensionBits
        base == IF c.extended THEN c.id \div X ELSE c.id
        format == IF c.extended THEN 2 ELSE IF c.remote THEN 1 ELSE 0
    IN ((base * 3 + format) * X + (IF c.extended THEN c.id % X ELSE 0)) * 2
       + (IF c.extended /\ c.remote THEN 1 ELSE 0)

Highest == {n \in DOMAIN contenders :
               \A m \in DOMAIN contenders : Rank(contenders[n]) <= Rank(contenders[m])}

\* A frame of the highest priority is never made to withdraw, and where all
\* have the same format nobody else is left (arbitration.hpp:23-25). With mixed
\* formats, see LowestWins.
LowestNeverLoses ==
    phase = "granted" =>
    /\ Highest \subseteq winners
    /\ (\A m, n \in DOMAIN contenders : contenders[m].extended = contenders[n].extended)
          => winners = Highest

\* What arbitration.hpp:23-25 and :108-112 say: the lowest identifier wins, and
\* more than one winner means identical fields. Violated: Limit counts those who
\* have withdrawn, so that a standard frame that lost to two extended ones keeps
\* them from being compared after bit 12.
LowestWins == phase = "granted" => winners = Highest
=============================================================================
