\* A work of three chunks or four steps.
SPECIFICATION LoopSpec
CONSTANTS
    Chunks = 3
    Steps = 4
    Freeze = 3
    MaxClicks = 2
INVARIANTS
    CancelIsHeard
\* The window goes away.
CHECK_DEADLOCK FALSE
