SPECIFICATION FairSpec
CONSTANTS
    u1 = u1
    author = author
    None = None
    Casts <- MCCasts
    MinOptions = 1
    MaxOptions = 2
    MinDuration = 1
    MaxDuration = 3
    MaxElectionDuration = 4
    MaxRedeliveries = 1
    MaxFaults = 1
INVARIANTS
    NotDuplicated
PROPERTIES
    NotMissed
CHECK_DEADLOCK FALSE
