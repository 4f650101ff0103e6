SPECIFICATION FairSpec
CONSTANTS
    Tasks = {t1}
    WebTasks = {t1}
    Pollers = {p1}
    DueChoices <- MCDueChoices
    BatchSize = 1
    MaxAttempts = 2
    MaxLate = 1
    StaleAfter = 1
    RetryBase = 1
    RetryCap = 2
    Faults = {"web_crash"}
    MaxMishaps = 1
    None = None
PROPERTIES PublishNowSettles
