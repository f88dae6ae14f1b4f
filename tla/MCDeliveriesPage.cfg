SPECIFICATION FairPageSpec
CONSTANTS
    Deliveries = {d1}
    Workers = {w1}
    Tickers = {t1}
    Operators = {o1, o2}
    Ours = o1
    Free = Free
    Nothing = Nothing
    Pending = Pending
    MaxAttempts = 2
    Batch = 1
    MaxEvents = 4
    MaxAborts = 1
INVARIANTS
    QueuedRetryIsShown
PROPERTIES
    EverySubmissionSettles
    ImplementsFairLifecycle
    RetryIsAnswered
    SettledIsShown
