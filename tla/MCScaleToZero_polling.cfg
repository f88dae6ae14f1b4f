SPECIFICATION FairSpec
CONSTANTS
    Visitors = {v1}
    MaxCalls = 1
    MaxFailures = 0
PROPERTY PollingRecovers
