SPECIFICATION FairSpec
CONSTANTS
    Lists = {l1, l2}
    NoFields = NoFields
    Unfinished = Unfinished
    NoForm = NoForm
    MaxRequests = 2
    MaxFailures = 1
INVARIANTS
    SavedIsWhatTheServerHas
PROPERTIES
    EditsSurviveRefetch
    PublishedIsShown
