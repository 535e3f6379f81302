SPECIFICATION Spec
CONSTANTS
    Calls = {a, b, c}
    Endpoints = {e1}
    Groups = {g1}
    Offers <- FullOffers
    None = None
    MaxPending = 2
    Timeout = 0
    \* Fewer ids than calls: they come round while calls wait.
    SessionMax = 2
    FixedModes = {{}}
    LateJoin = TRUE
    MayFail = {g1}
    SdBurst = 1
SYMMETRY Symmetry
INVARIANTS
    HeldOnce
    GoneFailsAtOnce
PROPERTIES
    ImplementsContract
    TimeoutIsDue
