SPECIFICATION Spec
CONSTANTS
    Client = {c1, c2}
    ServerCount = 2
    Late = {}
    Mortal = {1}
    MaxStops = 1
    MaxCrashes = 0
    Tries = 2
    NoId = noid
    NoClient = nobody
INVARIANT IDsIdentify
CHECK_DEADLOCK FALSE
