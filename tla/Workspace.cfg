SPECIFICATION MCSpec
CONSTANTS
    Requests = {r1, r2}
    Tenants = {t1, t2}
    Pages = {g1, g2}
    ApiAccounts = {x1, x2}
    ApiPlatform = X
    Hooks = {h1, h2}
    None = None
    Limit = 2
    MaxStarts = 3
    MaxFaults = 1
    Workers = {d1, d2}
    Comments = {c1}
    PageOf <- MCPageOf
    Removed = 3
    MaxReplies = 1
    t1 = t1  t2 = t2  g1 = g1  g2 = g2  c1 = c1  c2 = c2
SYMMETRY Symmetry
INVARIANTS TypeOK CapKept FirstPageIsDefault OneWebhook AckedIsShown RepliesAsItsPage
PROPERTIES TextIsKept
CHECK_DEADLOCK FALSE
