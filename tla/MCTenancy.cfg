SPECIFICATION FairSpec
CONSTANTS
    Subjects = {s1, s2}
    Ids = {i1, i2}
    Requests = {r1, r2}
    Conns = {c1, c2}
    Forms = {f1}
    None = None
    Null = Null
    Empty = Empty
    MaxFailures = 1
INVARIANTS
    OneTenantPerSubject
    FreeConnectionsAreClean
    RowsAreScoped
PROPERTIES
    ChosenNameStays
    EveryRequestEnds
