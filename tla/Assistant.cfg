SPECIFICATION MCSpec
CONSTANTS
    Requests = {r1, r2}
    Conversations = {c1}
    Keys = {k1}
    None = None
    Platforms = 2
    Retries = 1
    MaxStarts = 2
    MaxFaults = 2
    MaxCrashes = 1
INVARIANTS TypeOK Charged KeyRests RepliesFollow QuestionsAnswered
PROPERTIES RequestsEnd UsesQuota
