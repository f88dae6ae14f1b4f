SPECIFICATION PipeFairSpec
CONSTANTS
    Deliveries = {d1}
    Workers = {w1}
    Members = {w1}
    Tickers = {t1}
    Operators = {o1}
    Free = Free
    NoMember = NoMember
    MaxAttempts = 1
    Batch = 1
    MaxEvents = 1
    MaxAborts = 0
    MaxProduced = 1
    MaxCrashes = 0
    MaxBoxes = 0
    MaxMalformed = 0
PROPERTY PublishedIsSettled
CHECK_DEADLOCK FALSE
