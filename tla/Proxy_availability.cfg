SPECIFICATION FairSpec
CONSTANTS
    Calls = {a, b}
    Endpoints = {e1}
    Groups = {g1, g2}
    Offers <- AllOffers
    None = None
    MaxPending = 1
    Timeout = 1
    SessionMax = 1
    FixedModes = {{}, {"method"}, {"events"}, {"method", "events"}}
    LateJoin = TRUE
    MayFail = {g2, "fixed"}
    SdBurst = 1
PROPERTIES
    FollowsService
    MembershipIsKept
    EveryCallEnds
