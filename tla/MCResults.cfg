\* One request at a time beside the background loop, through failures and a restart.
SPECIFICATION FairSpec
CONSTANTS
    Elections = {e1}
    Communities = {c1}
    c1 = c1
    CommunityOf <- MCCommunityOf
    Requests = {r1}
    Workers = {w1}
    MaxTally = 1
    MaxPolls = 1
    MaxCrashes = 1
    MaxDrawing = 1
    MaxImages = 1
    ZeroID = ZeroID
    Nil = Nil
INVARIANTS TypeOK PublishedTally HubAgrees
PROPERTIES ImplementsBoard 
CHECK_DEADLOCK FALSE
