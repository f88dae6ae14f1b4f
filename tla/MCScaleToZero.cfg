SPECIFICATION FairSpec
CONSTANTS
    Visitors = {v1, v2}
    MaxCalls = 2
    MaxFailures = 2
PROPERTIES
    StopsAreJustified
    IdleBoxStops
    WakeRecovers
