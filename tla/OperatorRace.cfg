SPECIFICATION Spec
CONSTANTS
    Sessions = {s1}
    Handlers = {h1}
    Offers <- MCOffers
    Price <- MCPrice
    Days <- MCDays
    UnitPrice = 6
    TrialOffer <- Trial
    TrialDays = 7
    HouseOffer <- House
    Repriced = {}
    Hop = 10
    MaxTicks = 0
    MaxMishaps = 0
    MaxOperatorRuns = 1
    None = None
PROPERTIES RenewingAddsAPeriod
CHECK_DEADLOCK FALSE
