----------------------------- MODULE ErrorState ------------------------------
(***************************************************************************)
(* Fault confinement of a CAN controller: av::can::ErrorCounters. Any      *)
(* sequence of events may come, since they are what the bus and the node's *)
(* transceiver do.                                                         *)
(***************************************************************************)
EXTENDS Integers

CONSTANTS
    ErrorPenalty,           \* 8
    ErrorPassiveLimit,      \* 127
    BusOffLimit,            \* 256
    RecoveryWindows         \* 128

ErrorStateAssumption ==
    /\ {ErrorPenalty, ErrorPassiveLimit, BusOffLimit, RecoveryWindows} \subseteq Nat \ {0}
    /\ ErrorPassiveLimit < BusOffLimit

VARIABLES tec, rec, windows, busOff

counters == <<tec, rec, windows, busOff>>

ErrorEvents == {"TransmitSuccess", "ReceiveSuccess", "TransmitError", "ReceiveError",
                "ReceiveErrorAfterFlag", "RecessiveWindow"}

\* reset(): back to a freshly powered controller.
Reset == tec' = 0 /\ rec' = 0 /\ windows' = 0 /\ busOff' = FALSE

ErrorInit == tec = 0 /\ rec = 0 /\ windows = 0 /\ busOff = FALSE

SmallerOf(a, b) == IF a < b THEN a ELSE b

TransmitErrors(event) ==
    CASE event = "TransmitSuccess" -> IF tec > 0 THEN tec - 1 ELSE 0
      [] event = "TransmitError" -> tec + ErrorPenalty
      [] OTHER -> tec

ReceiveErrors(event) ==
    CASE event = "ReceiveSuccess" ->
           IF rec > ErrorPassiveLimit THEN ErrorPassiveLimit
           ELSE IF rec > 0 THEN rec - 1 ELSE 0
      [] event = "ReceiveError" -> rec + 1
      [] event = "ReceiveErrorAfterFlag" -> rec + ErrorPenalty
      [] OTHER -> rec

\* on(event) of a node on the bus; REC saturates, TEC at its limit latches.
OnTheBus(event) ==
    /\ ~busOff
    /\ rec' = SmallerOf(ReceiveErrors(event), BusOffLimit)
    /\ tec' = SmallerOf(TransmitErrors(event), BusOffLimit)
    /\ busOff' = (TransmitErrors(event) >= BusOffLimit)
    /\ windows' = IF busOff' THEN 0 ELSE windows

\* Mutated form: the counters go on counting while the node is off the bus.
OffTheBusCounting(event) ==
    /\ busOff
    /\ tec' = TransmitErrors(event)
    /\ busOff' = (tec' >= BusOffLimit)
    /\ UNCHANGED <<rec, windows>>

\* on(event) of a node off the bus: only quiet windows count, and the last of
\* them resets it.
OffTheBus(event) ==
    /\ busOff
    /\ IF event = "RecessiveWindow" /\ windows + 1 < RecoveryWindows
       THEN windows' = windows + 1 /\ UNCHANGED <<tec, rec, busOff>>
       ELSE IF event = "RecessiveWindow"
       THEN Reset
       ELSE UNCHANGED counters

On(event) == OnTheBus(event) \/ OffTheBus(event)

State ==
    IF busOff THEN "BusOff"
    ELSE IF tec > ErrorPassiveLimit \/ rec > ErrorPassiveLimit THEN "Passive" ELSE "Active"

ErrorNext == \E event \in ErrorEvents : On(event)

ErrorSpec == ErrorInit /\ [][ErrorNext]_counters
-----------------------------------------------------------------------------
(***************************************************************************)
(* Properties                                                              *)
(***************************************************************************)
ErrorTypes ==
    /\ tec \in 0 .. BusOffLimit
    /\ rec \in 0 .. BusOffLimit
    /\ windows \in 0 .. RecoveryWindows - 1
    /\ busOff \in BOOLEAN

\* Off the bus means the transmit counter stands at its limit, and windows are
\* only ever counted there (error_state.hpp:63-64, :83-85).
LatchedAtLimit == (busOff <=> tec = BusOffLimit) /\ (windows > 0 => busOff)

\* A node leaves the bus for transmit errors of its own only, whatever it hears,
\* and returns only after RecoveryWindows quiet windows, with all counters at
\* zero (error_state.hpp:36-37, error_state.cpp:71-74).
Confined ==
    /\ ~busOff /\ busOff' => tec' > tec /\ rec' = rec
    /\ busOff /\ ~busOff' => windows = RecoveryWindows - 1 /\ tec' = 0 /\ rec' = 0
    /\ LatchedAtLimit'

Confinement == [][Confined]_counters
=============================================================================
