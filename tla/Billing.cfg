SPECIFICATION Spec
CONSTANTS
    Sessions = {s1, s2}
    Handlers = {h1, h2}
    Offers <- MCOffers
    Price <- MCPrice
    Days <- MCDays
    UnitPrice = 6
    TrialOffer <- Trial
    TrialDays = 7
    HouseOffer <- House
    Repriced = {s2}
    Hop = 10
    MaxTicks = 4
    MaxMishaps = 1
    MaxOperatorRuns = 0
    None = None
INVARIANTS TypeOK FairDeal OnlyPaidPlans
CHECK_DEADLOCK FALSE
