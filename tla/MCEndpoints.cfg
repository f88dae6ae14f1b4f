SPECIFICATION Spec
CONSTANTS
    Ids = {i1, i2, i3, i4}
    Creators = {c1, c2}
    Submitters = {s1, s2}
    Senders = {w1}
    Cap = 2
    MaxRotations = 1
    MaxSubmissions = 1
SYMMETRY Symmetry
INVARIANTS
    FanOutIsWhole
    CapOvershootIsBounded
    SignedAsRead
