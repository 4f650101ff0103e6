SPECIFICATION FairSpec
CONSTANTS
    Sessions = {s1, s2}
    Handlers = {h1, h2}
    Offers <- ProOnly
    Price <- ProPrice
    Days <- ProDays
    UnitPrice = 1
    TrialOffer <- Trial
    TrialDays = 2
    HouseOffer <- Trial
    Repriced = {s2}
    Hop = 2
    MaxTicks = 0
    MaxMishaps = 1
    MaxOperatorRuns = 1
    None = None
PROPERTIES AppliedOnce OneTrial PaidIsSettled
CHECK_DEADLOCK FALSE
