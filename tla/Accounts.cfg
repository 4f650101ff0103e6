SPECIFICATION Spec
CONSTANTS
    Requests = {r1, r2}
    Passwords = {p1, p2}
    NoPassword = NoPassword
    MaxCodes = 2
    MaxTime = 3
    MaxFaults = 1
    MaxAttempts = 2
    CodeTtl = 2
    ResendPause = 1
SYMMETRY Symmetry
INVARIANTS TypeOK UsedOnce GuessesBounded UndeliveredIsDropped RegistrationAddsUp PasswordAsChosen
PROPERTIES InboxCodeStaysGood
CHECK_DEADLOCK FALSE
