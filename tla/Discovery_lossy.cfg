SPECIFICATION FairSpec
CONSTANTS
    Clients = {c1}
    Servers = {s1, s2}
    None = None
    OfferInterval = 1
    FindInterval = 1
    OfferTtl = 2
    Prompt = FALSE
    MaxLosses = 0
    Crashes = {s1}
    LateJoin = FALSE
INVARIANTS
    ToldAgrees
PROPERTIES
    GoneIsNoticed
    OfferIsHeard
    EndpointSettles
