\* The parts that are unions of sets of inputs have their bounds in MCFormats.
SPECIFICATION MCSpec
CONSTANTS
    \* Numbers that wrap after ten, and one restart of the gateway, for Tunnel.
    Modulus = 10
    Reorder = 3
    Naive = FALSE
    MaxLate = 3
    MaxLost = 1
    MaxRestarts = 1
    MaxPublished = 14
    None = None
    \* Identifiers of two bits and one more.
    BaseBits = 2
    ExtensionBits = 1
    Buses <- TwoFormats
    \* Two bytes of three bits.
    ByteBits = 3
    MaxSignalBits = 3
    FrameBytes = 2
    Specs <- PlacesAndScales
    Physicals <- Values
    NotFinite = NotFinite
    Nothing = Nothing
    \* Identifiers of one bit and of two.
    StandardMask = 1
    ExtendedMask = 3
    ExtendedFlag = 8
    MaxPayload = 64
    Lines <- DbcLines
    MaxLines = 4
    Missing = Missing
    \* Bytes of six bits.
    Base = 64
    Nibble = 8
    StandardIds = 8
    ExtendedIds = 64
    MaxData = 2
    MaxFrames = 2
    EntryOptions = 2
    MaxOptions = 3
    Magic = 4200
    Packets <- PacketsSent
    ServiceCalls <- CallsSent
    Announcements <- AnnouncementsSent
    \* The counters as they are in CAN.
    ErrorPenalty = 8
    ErrorPassiveLimit = 127
    BusOffLimit = 256
    RecoveryWindows = 128
    Messages <- OneOfEach
    Others <- Foreign
    Width = 4
    LinkCycles = 1
    FrameLimit = 2
    StaleAfter = 2
    QueueLimit = 2
    \* Two runtimes of one host and a third; sessions come round after two messages.
    Senders = {1, 2, 3}
    Host <- TwoHosts
    LastSession = 2
    HostRestarts = 1
    \* Batches of two frames out of four, every second datagram held back.
    Interfaces = {"lo", "eth"}
    NoInterface = "none"
    Routed = "eth"
    BatchSize = 2
    ReorderEvery = 2
    SequenceNumbers = 1024
    GatewayCycles = 3
    BusFrames = 4
    SocketLimit = 2
    Strangers <- ThreeStrangers
    HandlerActs = {"nothing", "withdraw", "close"}
    Pause = 1
    MaxRequests = 2
    Threads = {"a", "b"}
    Maker = "a"
    MaxHandles = 2
    LitmusRounds = 2
    RingSlots = 2
    Items = 4
    \* Leases of three intervals, one offer lost in a row.
    Clients = {"c1", "c2"}
    Servers = {"s"}
    OfferInterval = 1
    FindInterval = 1
    OfferTtl = 3
    MaxLosses = 1
    Crashes = {"s"}
INVARIANTS
    Accounting
    PriorityIsKept
    PacksFaithfully
    FileIsTheDatabase
    StaleAgrees
    FormatsAgree
    NoFalseReboot
    NoFrameVanishes
    PromisesAreKept
    PointersAreSound
    OrderIsKept
    EveryKeyIsFound
    DeadWithinLease
PROPERTIES
    NeverBackwards
    NewerIsShown
    Confinement
    LiveServerKept
\* Batches end, databases are read, programs return.
CHECK_DEADLOCK FALSE
