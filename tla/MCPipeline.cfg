SPECIFICATION PipeFairSpec
CONSTANTS
    Deliveries = {d1}
    Workers = {w1, w2}
    Members = {w1, w2}
    Tickers = {t1}
    Operators = {o1}
    Free = Free
    NoMember = NoMember
    MaxAttempts = 2
    Batch = 1
    MaxEvents = 2
    MaxAborts = 1
    MaxProduced = 2
    MaxCrashes = 1
    MaxBoxes = 1
    MaxMalformed = 1
INVARIANTS
    StrandedIsGivenUp
    OffsetFollowsLedger
PROPERTY SettledUnlessGivenUp
CHECK_DEADLOCK FALSE
