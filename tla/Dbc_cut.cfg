\* The files of the safety parts: up to four lines.
SPECIFICATION FormatsSpec
CONSTANTS
    \* Identifiers of two bits and one more.
    BaseBits = 2
    ExtensionBits = 1
    Buses <- TwoFormats
    \* Two bytes of three bits.
    ByteBits = 3
    MaxSignalBits = 3
    FrameBytes = 2
    Specs <- PlacesAndScales
    Physicals <- Values
    NotFinite = NotFinite
    Nothing = Nothing
    \* Identifiers of one bit and of two.
    StandardMask = 1
    ExtendedMask = 3
    ExtendedFlag = 8
    MaxPayload = 64
    Lines <- DbcLines
    MaxLines = 4
    Missing = Missing
    \* Bytes of six bits.
    Base = 64
    Nibble = 8
    StandardIds = 8
    ExtendedIds = 64
    MaxData = 2
    MaxFrames = 2
    EntryOptions = 2
    MaxOptions = 3
    Magic = 4200
    Packets <- PacketsSent
    ServiceCalls <- CallsSent
    Announcements <- AnnouncementsSent
INVARIANTS
    CutCommentsAreSkipped
CHECK_DEADLOCK FALSE
