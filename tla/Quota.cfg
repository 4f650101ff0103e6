SPECIFICATION Spec
CONSTANTS
    Requests = {r1, r2, r3}
    Limit = 2
    Cycle = 1
    Faults = {"store", "lost_reply", "crash"}
    MaxMishaps = 1
    MaxRequests = 5
    MaxTime = 4
    NoCycle = NoCycle
INVARIANTS TypeOK NeverOvercharged NothingUncounted QuotaKept
SYMMETRY Interchangeable
