SPECIFICATION Spec
CONSTANTS
    Deliveries = {d1, d2}
    Workers = {w1, w2}
    Tickers = {t1, t2}
    Operators = {o1, o2}
    Free = Free
    MaxAttempts = 2
    Batch = 1
    MaxEvents = 4
    MaxAborts = 1
SYMMETRY Symmetry
INVARIANTS
    UnprocessedEventIsAwaited
    SendsAreAccountedFor
    HistoryExplainsRow
PROPERTIES
    DeliveredIsFinal
    ImplementsLifecycle
