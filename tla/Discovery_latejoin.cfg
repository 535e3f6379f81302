SPECIFICATION Spec
CONSTANTS
    Clients = {c1}
    Servers = {s1}
    None = None
    OfferInterval = 1
    FindInterval = 1
    OfferTtl = 2
    Prompt = FALSE
    MaxLosses = 0
    Crashes = {}
    LateJoin = TRUE
INVARIANTS
    ToldAgrees
