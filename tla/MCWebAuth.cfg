SPECIFICATION FairSpec
CONSTANTS
    Tabs = {t1, t2}
    Users = {u1, u2}
    Requests = {r1, r2}
    MaxAttempts = 2
    None = None
INVARIANTS
    SessionIsWhole
    OneUserPerDocument
    CodesAreSpentOnce
PROPERTY
    NothingHangs
