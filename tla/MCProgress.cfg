\* For SharedRing: one name, two regions one after the other, both processes die
\* and come back.
SPECIFICATION ProgressSpec
CONSTANTS
    Capacity = 2
    None = None
    Torn = Torn
    MaxRegions = 2
    MaxMessages = 3
    StoresInOrder = TRUE
    \* More frames than both queues of cockpit hold together.
    FramesToSend = 6
    FrameSlots = 2
    StateSlots = 2
    \* A work of three chunks or four steps, a freeze of three ticks.
    Chunks = 3
    Steps = 4
    Freeze = 3
    MaxClicks = 3
    \* Three jobs for two workers; the first submits another.
    Workers = {1, 2}
    Jobs = {"a", "b", "c"}
    Parents = {"a"}
    \* More consumers than producers, twice as many items as slots.
    Producers = {1, 2}
    Consumers = {3, 4, 5}
    PermitSlots = 2
    ItemsEach = 2
    Setters = {"value", "error"}
    \* Two threads on each side of one slot.
    QueueProducers = {1, 2}
    QueueConsumers = {3, 4}
    QueueClosers = {5}
    QueueCapacity = 1
    Values = {"v"}
    \* One event in a wait although three sockets may have one, as with 65 of
    \* them, and a task that posts itself again.
    Sockets = {1, 2, 3}
    MaxEvents = 1
    MaxId = 3
    Tasks = {"again"}
    Again = {"again"}
    RoundTrips = 3
INVARIANTS
    NoRace
    NameLeadsToRing
    NothingIsLost
    OneWorkAtATime
    TablesAgree
PROPERTIES
    ImplementsContract
    Delivers
    ThreadsEnd
    WakeupsArrive
    ProgramsGoOn
\* Programs return and processes go away.
CHECK_DEADLOCK FALSE
