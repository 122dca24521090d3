SPECIFICATION FairSpec
CONSTANTS
    u1 = u1
    a1 = a1
    Users = {u1}
    Authors = {a1}
    IDs <- LongIDs
    UserOf <- LongUserOf
    AuthorOf <- LongAuthorOf
    TooLong = {1, 2, 3}
    Known = {u1}
    Polls <- LongPolls
    MaxUsersToNotify = 3
    Threshold = 15
    Sem = 1
    MaxFaults = 0
    MaxAnswers = 1
PROPERTIES
    HandlerReturns
CHECK_DEADLOCK FALSE
