------------------------------- MODULE CanBus --------------------------------
(***************************************************************************)
(* The program can_bus: five rounds of arbitration at the real widths and, *)
(* before the last of them, one node that fails until it is off the bus    *)
(* and comes back. It ends with 1 when a round has not the number of       *)
(* winners it must have.                                                   *)
(***************************************************************************)
EXTENDS Integers, Sequences, FiniteSets

VARIABLES contenders, phase, position, winners, trace   \* of arbitrate()
VARIABLES tec, rec, windows, busOff                     \* of the one node
VARIABLES
    doing,      \* "round", "failing", "recovering" or "exit"
    round,      \* the round show_round() is in
    tries,      \* loop counter of show_fault_confinement()
    status      \* what main() returned, -1 before

race == <<contenders, phase, position, winners, trace>>
counters == <<tec, rec, windows, busOff>>
canBusVars == <<race, counters, doing, round, tries, status>>

Standard(id, remote) == [id |-> id, extended |-> FALSE, remote |-> remote]
Extended(id) == [id |-> id, extended |-> TRUE, remote |-> FALSE]

\* What the rounds of main() put on the bus, and how many must win.
Rounds == <<
    [bus |-> <<Standard(\h80, FALSE), Standard(\h100, FALSE), Standard(\h200, FALSE),
               Standard(\h600, FALSE)>>, want |-> 1],
    [bus |-> <<Standard(\h123, TRUE), Standard(\h123, FALSE)>>, want |-> 1],
    [bus |-> <<Extended(\h123 * 2 ^ 18), Standard(\h123, FALSE)>>, want |-> 1],
    [bus |-> <<Standard(\h123, FALSE), Standard(\h123, FALSE)>>, want |-> 2],
    [bus |-> <<Standard(\h100, FALSE), Standard(\h200, FALSE), Standard(\h600, FALSE)>>,
     want |-> 1] >>

Demo == INSTANCE Arbitration WITH BaseBits <- 11, ExtensionBits <- 18,
                                  Buses <- {Rounds[1].bus}
Node == INSTANCE ErrorState WITH ErrorPenalty <- 8, ErrorPassiveLimit <- 127,
                                 BusOffLimit <- 256, RecoveryWindows <- 128

CanBusInit ==
    /\ Demo!ArbitrationInit
    /\ Node!ErrorInit
    /\ doing = "round" /\ round = 1 /\ tries = 0 /\ status = -1

BeginRound(n) ==
    /\ round' = n
    /\ contenders' = Rounds[n].bus
    /\ winners' = DOMAIN Rounds[n].bus
    /\ phase' = "racing" /\ position' = 0 /\ trace' = <<>>

Arbitrate ==
    /\ doing = "round"
    /\ Demo!ArbitrationNext
    /\ UNCHANGED <<counters, doing, round, tries, status>>

Return(code) ==
    doing' = "exit" /\ status' = code /\ UNCHANGED <<race, round>>

\* show_round() returns and main() looks at the number of winners.
RoundEnds ==
    /\ doing = "round"
    /\ phase # "racing"
    /\ IF Cardinality(winners) # Rounds[round].want THEN Return(1)
       ELSE IF round = Len(Rounds) THEN Return(0)
       ELSE IF round + 1 = Len(Rounds)
       THEN doing' = "failing" /\ UNCHANGED <<race, round, status>>
       ELSE BeginRound(round + 1) /\ UNCHANGED <<doing, status>>
    /\ UNCHANGED <<counters, tries>>

\* show_fault_confinement(): at most forty failures, until the node is off the bus.
FailOnce ==
    /\ doing = "failing"
    /\ IF tries < 40 /\ Node!State # "BusOff"
       THEN Node!On("TransmitError") /\ tries' = tries + 1 /\ UNCHANGED doing
       ELSE doing' = "recovering" /\ tries' = 0 /\ UNCHANGED counters
    /\ UNCHANGED <<race, round, status>>

\* ... then as many quiet windows as bring it back.
QuietWindow ==
    /\ doing = "recovering"
    /\ IF tries < 128
       THEN /\ Node!On("RecessiveWindow") /\ tries' = tries + 1
            /\ UNCHANGED <<race, doing, round>>
       ELSE /\ doing' = "round" /\ tries' = 0
            /\ BeginRound(round + 1) /\ UNCHANGED counters
    /\ UNCHANGED status

CanBusNext == Arbitrate \/ RoundEnds \/ FailOnce \/ QuietWindow

-----------------------------------------------------------------------------
\* The program ends with 0, having seen its node off the bus and back on it.
CanBusSucceeds == <>(status = 0 /\ Node!State = "Active" /\ tec = 0)
=============================================================================
