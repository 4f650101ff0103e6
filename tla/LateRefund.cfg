SPECIFICATION Spec
CONSTANTS
    Requests = {r1, r2, r3}
    Limit = 2
    Cycle = 1
    Faults = {}
    MaxMishaps = 0
    MaxRequests = 5
    MaxTime = 4
    NoCycle = NoCycle
INVARIANTS PromisedRuns
