SPECIFICATION Spec
CONSTANTS
    Callers = {c1}
    Requests <- EvenRequests
    Cells = 4
    Page = 2
    SendPoolSize = 2
    Threshold = 4
    WORKER_NUMBER = 2
    SignalWrap = 4
    OffsetWrap = 4
    MaxCalls = 1
    MaxFaults = 0
INVARIANT LargeTransferMoved
CHECK_DEADLOCK FALSE
