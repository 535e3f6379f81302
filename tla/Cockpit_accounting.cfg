\* More frames than both queues hold together.
SPECIFICATION CockpitSpec
CONSTANTS
    FramesToSend = 6
    FrameSlots = 2
    StateSlots = 2
INVARIANTS
    AccountingBalances
\* The program ends.
CHECK_DEADLOCK FALSE
