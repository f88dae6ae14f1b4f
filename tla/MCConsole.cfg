SPECIFICATION Spec
CONSTANTS
    Endpoints = {e1, e2}
    FormRows = {f1}
    Slots = {q1, q2}
    Pending = Pending
    Nothing = Nothing
    Pinned = {f1}
    MaxSent = 2
    MaxRotations = 1
    MaxMoves = 3
    MaxUpsets = 1
SYMMETRY Symmetry
INVARIANTS
    ListIsTrue
    ShownIsWhatWasAsked
    LastClickWins
CHECK_DEADLOCK FALSE
