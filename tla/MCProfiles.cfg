\* Two users, of whom the second has no profile and fills the list of pending ones.
CONSTANTS
    LastFID = 2
    Valid = {1}
    Known = {2}
    People = {1}
    Nonces = {n1}
    Requests = {r1, r2}
    PendingLimit = 1
    UpdatedUsersByIteration = 1
    MaxVotes = 1
    MaxFaults = 1
    None = None
SPECIFICATION FairSpec
INVARIANTS TokensAreOwn TokensWork 
PROPERTIES ProfilesFilled
