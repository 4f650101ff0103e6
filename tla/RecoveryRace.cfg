SPECIFICATION Spec
CONSTANTS
    Tasks = {t1}
    WebTasks = {}
    Pollers = {p1, p2}
    DueChoices <- MCDueChoices
    BatchSize = 1
    MaxAttempts = 2
    MaxLate = 1
    StaleAfter = 1
    RetryBase = 1
    RetryCap = 2
    Faults = {"crash"}
    MaxMishaps = 1
    None = None
INVARIANTS NeverTogether
