SPECIFICATION PageSpec
CONSTANTS
    Forms = {f1}
    Editors = {e1, e2}
    Visitors = {page1, script1}
    Scripts = {script1}
    page1 = page1
    script1 = script1
    Free = Free
    Content <- MCContent
    Bodies <- MCBodies
    MaxSaves = 2
    MaxAborts = 1
    MaxPosts = 2
    MaxLost = 1
SYMMETRY Symmetry
INVARIANTS
    FieldsAreOneList
    SubmissionsFitTheForm
    ThanksAreAccountedFor
    SavedAnswersFit
    PageIsNoLaxer
PROPERTY PublishedIsFrozen
CHECK_DEADLOCK FALSE
