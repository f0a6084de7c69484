CONSTANTS
    t1 = t1
    t2 = t2
    s1 = s1
    w1 = w1
    g1 = g1
    g2 = g2
    None = None
    Turns = {t1, t2}
    Samples = {s1}
    CommandLine = {t2}
    Reviewed = {t1}
    Works = {w1}
    WorkOf <- MCWorkOf
    Budgets = {g1, g2}
    Budget <- MCBudget
    MaxCallers = 2
    MaxCalls = 1
    MaxAttempts = 3
    Together = 1
    Callbacks = {1}
    MaxSignOuts = 1
SPECIFICATION Parts
INVARIANTS SessionsServe TurnsKeepToTheirWork
PROPERTIES SignInHolds EverythingEnds
CONSTRAINT Bounds
CHECK_DEADLOCK FALSE
