\* Two requests at the same time: two writers of results, or two finalizers, and
\* ballots that are overwritten.
SPECIFICATION Spec
CONSTANTS
    Elections = {e1}
    Communities = {c1}
    c1 = c1
    CommunityOf <- MCCommunityOf
    Requests = {r1, r2}
    Workers = {}
    MaxTally = 2
    MaxPolls = 0
    MaxCrashes = 0
    MaxDrawing = 1
    MaxImages = 1
    ZeroID = ZeroID
    Nil = Nil
SYMMETRY MCSymmetry
INVARIANTS PublishedTally FinalImage
PROPERTY FinalizedForever
CHECK_DEADLOCK FALSE
