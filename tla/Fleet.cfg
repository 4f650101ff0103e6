SPECIFICATION FairSpec
CONSTANTS
    Tasks = {t1, t2}
    WebTasks = {t2}
    Pollers = {p1, p2}
    DueChoices <- MCDueChoices
    BatchSize = 2
    MaxAttempts = 2
    MaxLate = 1
    StaleAfter = 1
    RetryBase = 1
    RetryCap = 2
    Faults = {"web_crash", "store"}
    MaxMishaps = 2
    None = None
INVARIANTS SinglePublisher AtMostOnePost Truthful
PROPERTIES FinalIsFinal
