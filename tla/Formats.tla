------------------------------- MODULE Formats -------------------------------
(***************************************************************************)
(* The parts that are about data rather than about who does what when,     *)
(* one at a time: arbitration by identifiers, signals in bytes, database   *)
(* files, and the three wire formats. A behaviour is one of the part that  *)
(* its first state chooses; the state is in the slots.                     *)
(***************************************************************************)
EXTENDS Slots

CONSTANTS
    BaseBits, ExtensionBits, Buses,                                 \* of Arbitration
    ByteBits, MaxSignalBits, FrameBytes, Specs, Physicals,          \* of Signals
    NotFinite, Nothing,
    StandardMask, ExtendedMask, ExtendedFlag, MaxPayload,           \* of Dbc
    Lines, MaxLines, Missing,
    Base, Nibble, StandardIds, ExtendedIds, MaxData, MaxFrames,     \* of Codecs
    EntryOptions, MaxOptions, Magic, Packets, ServiceCalls, Announcements

Bus == INSTANCE Arbitration WITH
          contenders <- s1, phase <- s2, position <- s3, winners <- s4, trace <- s5

Layout == INSTANCE Signals WITH Size <- FrameBytes, payload <- s1, call <- s2

Database == INSTANCE Dbc WITH file <- s1, messages <- s2, parsing <- s3

Wire == INSTANCE Codecs WITH MaxPayload <- MaxData,
          format <- s1, given <- s2, wire <- s3, damage <- s4, got <- s5, stage <- s6

ASSUME BusAssumption == Bus!ArbitrationAssumption

ASSUME LayoutAssumption == Layout!SignalsAssumption

ASSUME LinesAssumption == Database!DbcAssumption

ASSUME WireAssumption == Wire!CodecsAssumption

-----------------------------------------------------------------------------
FormatsInit ==
    \/ Is("bus") /\ Bus!ArbitrationInit /\ Unused(6)
    \/ Is("layout") /\ Layout!SignalsInit /\ Unused(3)
    \/ Is("database") /\ Database!DbcInit /\ Unused(4)
    \/ Is("wire") /\ Wire!CodecsInit /\ Unused(7)

FormatsNext ==
    \/ Is("bus") /\ Bus!ArbitrationNext /\ StayUnused(6)
    \/ Is("layout") /\ Layout!SignalsNext /\ StayUnused(3)
    \/ Is("database") /\ Database!DbcNext /\ StayUnused(4)
    \/ Is("wire") /\ Wire!CodecsNext /\ StayUnused(7)

formatsVars == <<part, slots>>

FormatsSpec == FormatsInit /\ [][FormatsNext /\ UNCHANGED part]_formatsVars

-----------------------------------------------------------------------------
(***************************************************************************)
(* Properties. Each is explained in the module that defines it.            *)
(***************************************************************************)
\* A node that withdrew was beaten bit by bit, and the highest priority never is
\* (arbitration.cpp).
PriorityIsKept == Is("bus") => Bus!LosersYield /\ Bus!LowestNeverLoses

\* "A numerically lower identifier wins" (arbitration.hpp:23-25), whatever the
\* formats of the contenders: it does not, see Arbitration.
LowestFrameWins == Is("bus") => Bus!LowestWins

\* Bits are read back as they were written, and so are lengths (bit.cpp,
\* signal.cpp, frame.cpp).
PacksFaithfully == Is("layout") => Layout!PacksFaithfully /\ Layout!LengthsHaveCodes

\* A database is its whole file, and remarks are where they belong (dbc.cpp).
FileIsTheDatabase == Is("database") => Database!AllOrNothing /\ Database!RemarksAttach

\* A comment that is not closed on its line "is skipped rather than mis-attached"
\* (dbc.cpp:178-179): it is attached as far as it goes, see Dbc.
CutCommentsAreSkipped == Is("database") => Database!CutCommentsAreSkipped

\* The three formats come back as they were sent, and what was cut, grew or is
\* of a newer standard does no harm beyond itself (tunnel.cpp, someip.cpp, sd.cpp).
FormatsAgree == Is("wire") => Wire!ArrivesWhole /\ Wire!DamageIsContained
=============================================================================
