\* A request of an admin, a change on the contract, a restart.
CONSTANTS
    creator = creator  admin = admin  logo = logo  newLogo = newLogo
    Users <- MCUsers
    Images <- MCImages
    Requests = {r1}
    Asks <- MCAsks
    Founded <- MCFounded
    Managed <- MCManaged
    MaxID = 1
    MaxChanges = 1
    MaxCrashes = 1
    Empty = Empty
    Nil = Nil
SPECIFICATION FairSpec
CHECK_DEADLOCK FALSE
INVARIANTS Registered CreatorKept
PROPERTIES Converges StopReturns
