SPECIFICATION FairSpec
CONSTANTS
    u1 = u1
    a1 = a1
    Users = {u1}
    Authors = {a1}
    IDs <- MCIDs
    UserOf <- MCUserOf
    AuthorOf <- MCAuthorOf
    TooLong = {2}
    Known = {u1}
    Polls <- MCPolls
    MaxUsersToNotify = 2
    Threshold = 15
    Sem = 2
    MaxFaults = 1
    MaxAnswers = 2
INVARIANTS
    RepeatsHaveACause
    AskedAtMostOncePerNotification
    AskedBeforeSent
PROPERTIES
    
    HandlerReturns
CHECK_DEADLOCK FALSE
