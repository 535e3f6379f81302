SPECIFICATION Spec
CONSTANTS
    Clients = {c1}
    Servers = {s1}
    None = None
    OfferInterval = 1
    FindInterval = 1
    OfferTtl = 3
    Prompt = TRUE
    MaxLosses = 2
    Crashes = {}
    LateJoin = FALSE
PROPERTIES
    LiveServerKept
