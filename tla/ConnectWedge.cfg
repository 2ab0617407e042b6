SPECIFICATION FairSpec
CONSTANTS
    Client = {c1, c2}
    ServerCount = 2
    Late = {}
    Mortal = {}
    MaxStops = 0
    MaxCrashes = 0
    Tries = 2
    NoId = noid
    NoClient = nobody
PROPERTY ExchangeEnds
CHECK_DEADLOCK FALSE
