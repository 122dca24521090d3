-------------------------- MODULE MCNotifications --------------------------
EXTENDS NotificationsProperties

CONSTANTS u1, a1

Poll(ids, forced, reputation) ==
    [community |-> TRUE, forced |-> forced, admin |-> TRUE, disabled |-> FALSE,
     reputation |-> reputation, allows |-> TRUE, ids |-> ids]

\* Two notifications for a user, the second too long to be sent.
MCIDs == 1..2
MCUserOf == [n \in MCIDs |-> u1]
MCAuthorOf == [n \in MCIDs |-> a1]
MCPolls == {Poll({1}, FALSE, 15), Poll({2}, TRUE, 0)}

\* More notifications that cannot be sent than the semaphore and the channel hold.
LongIDs == 1..3
LongUserOf == [n \in LongIDs |-> u1]
LongAuthorOf == [n \in LongIDs |-> a1]
LongPolls == {Poll(LongIDs, FALSE, 15)}
=============================================================================
