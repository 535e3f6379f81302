------------------------------ MODULE Signals --------------------------------
(***************************************************************************)
(* Signals in the payload of a CAN frame: bit.cpp, signal.cpp, frame.cpp.  *)
(* A payload is a function from DBC bit numbers to bits; physical values,  *)
(* factors and offsets are integers, so that no rounding but the one of    *)
(* encode() takes place.                                                   *)
(*                                                                         *)
(* The state is one payload that any sequence of encode() calls works on,  *)
(* and, when a call has returned, that call and the payload before it.     *)
(***************************************************************************)
EXTENDS Integers, Sequences

CONSTANTS
    ByteBits,           \* 8
    MaxSignalBits,      \* 64
    Size,               \* bytes in the frame
    Specs,              \* the SignalSpecs encode() is called with
    Physicals,          \* the values it is called with
    NotFinite,          \* a value that is infinite or not a number
    Nothing             \* std::nullopt

VARIABLES payload, call

signalVars == <<payload, call>>

SignalSpec == [start : Nat, length : Nat, order : {"Intel", "Motorola"}, signed : BOOLEAN,
               factor : Int, offset : Int]

SignalsAssumption ==
    /\ ByteBits \in Nat \ {0} /\ MaxSignalBits \in Nat /\ Size \in Nat
    /\ Specs \subseteq SignalSpec
    /\ Physicals \subseteq Int \cup {NotFinite}
    /\ Nothing \notin Int

Bits == 0 .. Size * ByteBits - 1

\* Intel counts up; Motorola goes down within a byte and on at the top of the next.
NextBit(bit, order) ==
    IF order = "Intel" THEN bit + 1
    ELSE IF bit % ByteBits = 0 THEN bit + 2 * ByteBits - 1 ELSE bit - 1

\* The bits of a signal in the order they are visited.
Walk(spec) ==
    LET at[i \in 0 .. spec.length - 1] ==
          IF i = 0 THEN spec.start ELSE NextBit(at[i - 1], spec.order)
    IN at

ValueShift(i, spec) == IF spec.order = "Intel" THEN i ELSE spec.length - 1 - i

\* geometry_is_sane(), and no step of the walk leaves the frame.
Fits(spec) ==
    /\ spec.length # 0 /\ spec.length <= MaxSignalBits /\ Size <= MaxSignalBits
    /\ \A i \in DOMAIN Walk(spec) : Walk(spec)[i] < Size * ByteBits

\* What the loop of extract_bits() has collected after n bits.
Collected(data, spec) ==
    LET raw[n \in 0 .. spec.length] ==
          IF n = 0 THEN 0
          ELSE raw[n - 1] + data[Walk(spec)[n - 1]] * 2 ^ ValueShift(n - 1, spec)
    IN raw

Extract(data, spec) == IF Fits(spec) THEN Collected(data, spec)[spec.length] ELSE Nothing

Insert(data, spec, value) ==
    IF ~Fits(spec) THEN data
    ELSE [bit \in DOMAIN data |->
            IF \E i \in DOMAIN Walk(spec) : Walk(spec)[i] = bit
            THEN LET i == CHOOSE j \in DOMAIN Walk(spec) : Walk(spec)[j] = bit IN
                 (value \div 2 ^ ValueShift(i, spec)) % 2
            ELSE data[bit]]

\* Mutated form: the lowest number is taken for a positive one.
SignExtendPastHalf(raw, length) == IF raw > 2 ^ (length - 1) THEN raw - 2 ^ length ELSE raw

\* sign_extend(); at the full width the conversion to int64_t does the same.
SignExtend(raw, length) == IF raw >= 2 ^ (length - 1) THEN raw - 2 ^ length ELSE raw

Decode(data, spec) ==
    LET raw == Extract(data, spec) IN
    IF raw = Nothing THEN Nothing
    ELSE (IF spec.signed THEN SignExtend(raw, spec.length) ELSE raw) * spec.factor + spec.offset

\* std::round(): to the nearest integer, and away from zero from half-way.
Round(p, q) ==
    LET n == IF q < 0 THEN -p ELSE p
        d == IF q < 0 THEN -q ELSE q
    IN IF n >= 0 THEN (2 * n + d) \div (2 * d) ELSE -((2 * (-n) + d) \div (2 * d))

Representable(scaled, spec) ==
    IF spec.signed
    THEN -(2 ^ (spec.length - 1)) <= scaled /\ scaled < 2 ^ (spec.length - 1)
    ELSE 0 <= scaled /\ scaled < 2 ^ spec.length

Scaled(spec, physical) == Round(physical - spec.offset, spec.factor)

\* encode() returns true.
Encodes(spec, physical) ==
    /\ spec.length # 0 /\ spec.length <= MaxSignalBits
    /\ spec.factor # 0
    /\ physical # NotFinite
    /\ Representable(Scaled(spec, physical), spec)
    /\ Fits(spec)

\* What encode() makes of the payload.
Encode(data, spec, physical) ==
    IF Encodes(spec, physical)
    THEN Insert(data, spec, Scaled(spec, physical) % 2 ^ spec.length)
    ELSE data

\* dlc_to_length() and length_to_dlc(): codes up to 8 are byte counts.
FdLengths == <<12, 16, 20, 24, 32, 48, 64>>

DlcToLength(dlc, fd) ==
    IF dlc <= 8 THEN dlc
    ELSE IF ~fd \/ dlc > 15 THEN 8 ELSE FdLengths[dlc - 8]

LengthToDlc(length, fd) ==
    IF length <= 8 THEN length
    ELSE IF fd /\ \E k \in DOMAIN FdLengths : FdLengths[k] = length
    THEN 8 + CHOOSE k \in DOMAIN FdLengths : FdLengths[k] = length
    ELSE Nothing

SignalsInit == payload = [bit \in Bits |-> 0] /\ call = Nothing

CallEncode(spec, physical) ==
    /\ call = Nothing
    /\ payload' = Encode(payload, spec, physical)
    /\ call' = [spec |-> spec, physical |-> physical, before |-> payload]

Proceed == call # Nothing /\ call' = Nothing /\ UNCHANGED payload

SignalsNext ==
    \/ \E spec \in Specs, physical \in Physicals : CallEncode(spec, physical)
    \/ Proceed

-----------------------------------------------------------------------------
Distance(a, b) == IF a < b THEN b - a ELSE a - b
Covers(spec) == {Walk(spec)[i] : i \in DOMAIN Walk(spec)}

\* A value is either refused and the payload left alone, or it is read back
\* within half a step of the factor while no signal on other bits changes
\* (bit.hpp, insert_bits(): several signals are packed into one frame). A value
\* is refused only if no raw value is closer than half a step.
PacksFaithfully ==
    call # Nothing =>
    LET spec == call.spec
        step == Distance(spec.factor, 0)
        raws == IF spec.signed THEN -(2 ^ (spec.length - 1)) .. 2 ^ (spec.length - 1) - 1
                ELSE 0 .. 2 ^ spec.length - 1
        Off(value) == 2 * Distance(value, call.physical)
    IN IF Encodes(spec, call.physical)
       THEN /\ Off(Decode(payload, spec)) <= step
            /\ \A other \in Specs :
                 Fits(other) /\ Covers(other) \cap Covers(spec) = {}
                   => Decode(payload, other) = Decode(call.before, other)
       ELSE /\ payload = call.before
            /\ Fits(spec) /\ spec.factor # 0 /\ call.physical # NotFinite =>
                 \A raw \in raws : Off(raw * spec.factor + spec.offset) >= step

\* Each transmittable length has one code and each code of an FD frame one length.
LengthsHaveCodes ==
    \A fd \in BOOLEAN :
       /\ \A dlc \in 0 .. (IF fd THEN 15 ELSE 8) : LengthToDlc(DlcToLength(dlc, fd), fd) = dlc
       /\ \A length \in 0 .. 64 :
            LengthToDlc(length, fd) # Nothing => DlcToLength(LengthToDlc(length, fd), fd) = length
=============================================================================
