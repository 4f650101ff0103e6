SPECIFICATION FairSpec
CONSTANTS
    Tasks = {t1, t2}
    WebTasks = {}
    Pollers = {p1}
    DueChoices <- MCDueChoices
    BatchSize = 1
    MaxAttempts = 2
    MaxLate = 1
    StaleAfter = 1
    RetryBase = 1
    RetryCap = 2
    Faults = {"crash", "store", "commit_lost", "lost_reply", "slow"}
    MaxMishaps = 2
    None = None
INVARIANTS TypeOK PostsWithinAttempts AttemptsWithinBudget
PROPERTIES ScheduledSettle ImplementsLifecycle
