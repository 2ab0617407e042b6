SPECIFICATION FairSpec
CONSTANTS
    Client = {c1, c2}
    ServerCount = 2
    Late = {2}
    Mortal = {2}
    MaxStops = 1
    MaxCrashes = 1
    Tries = 2
    NoId = noid
    NoClient = nobody
INVARIANTS UniqueNodeIDs PeerAgreement
PROPERTIES PeersKept ConnectReturns EveryoneJoins
CHECK_DEADLOCK FALSE
