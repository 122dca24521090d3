\* Four users, one of them outside the census.
SPECIFICATION DelegationsSpec
CONSTANTS
    Users = {u1, u2, u3, Stranger}
    Stranger = Stranger
    Communities = {c1}
    Members <- MCMembers
    DelegationRequests = {r1}
    MaxDelegations = 3
    MaxVotes = 1
    Nil = Nil
SYMMETRY MCSymmetry
INVARIANTS CheckIsExact SolvedToTheEnd
PROPERTY CensusConservesVotes
CHECK_DEADLOCK FALSE
