--------------------------- MODULE Notifications ---------------------------
(***************************************************************************)
(* The notifications of a new poll.  Polls enqueue one notification per    *)
(* user of the census (notifications.go, election.go); the manager reads   *)
(* the collection in rounds and handles every notification in a goroutine  *)
(* of its own (notifications/notifications.go): it asks for permission, or *)
(* sends, or purges.  Users answer, mute and unmute at any time.           *)
(***************************************************************************)
EXTENDS Naturals, FiniteSets

CONSTANTS
    Users, Authors,
    IDs,               \* the notifications there may be ...
    UserOf, AuthorOf,  \* ... to whom, and about a poll of whom
    TooLong,           \* those whose text exceeds what a cast may hold
    Known,             \* the users of the users collection
    Polls,             \* requests that create or announce a poll
    MaxUsersToNotify,
    Threshold,         \* reputation required to notify
    Sem,               \* goroutines of a round at work at once
    MaxFaults,         \* bound: calls that fail, restarts included
    MaxAnswers         \* bound: answers, mutes and unmutes

VARIABLES
    notifications,     \* the notifications collection
    expired,           \* notifications whose deadline is over
    profiles,          \* the userAccessProfiles collection
    announced,         \* requests made
    poll,              \* per request, the notifications still to be enqueued
    loop, todo, round, errCh,
    worker,            \* per round and notification, what its goroutine does next
    asked, sent,       \* casts published: requests for permission, notifications
    disturbed,         \* notifications with a goroutine that failed or was left behind
    faults, answers

vars == <<notifications, expired, profiles, announced, poll, loop, todo, round, errCh, worker,
          asked, sent, disturbed, faults, answers>>
casts == <<asked, sent>>
users == <<profiles, expired, answers>>

\* A round is abandoned at its first error, with goroutines at work: two rounds at once.
Rounds == 1..2
Steps == {"none", "check", "ask", "mark", "muted", "send", "remove", "failed"}

\* UserAccessProfile.  A missing document reads as one where nothing was requested.
Profile == [requested : BOOLEAN, accepted : BOOLEAN, muted : SUBSET Authors]
NoProfile == [requested |-> FALSE, accepted |-> FALSE, muted |-> {}]

\* A notification is of one poll: it gets an ID of its own when it is inserted.
ASSUME NotificationsAssumption ==
    /\ IsFiniteSet(IDs)
    /\ \A p \in Polls : p.ids \subseteq IDs
    /\ \A p, q \in Polls : p # q => p.ids \cap q.ids = {}
    /\ UserOf \in [IDs -> Users] /\ AuthorOf \in [IDs -> Authors]
    /\ TooLong \subseteq IDs /\ Known \subseteq Users
    /\ Sem \in Nat \ {0} /\ MaxFaults \in Nat /\ MaxAnswers \in Nat

Init ==
    /\ notifications = {} /\ expired = {}
    /\ profiles = [u \in Users |-> NoProfile]
    /\ announced = {} /\ poll = [p \in Polls |-> {}]
    /\ loop = "waiting" /\ todo = {} /\ round = 1 /\ errCh = FALSE
    /\ worker = [r \in Rounds |-> [n \in IDs |-> "none"]]
    /\ asked = [u \in Users |-> 0] /\ sent = [n \in IDs |-> 0]
    /\ disturbed = {}
    /\ faults = 0 /\ answers = 0

Fault == faults < MaxFaults /\ faults' = faults + 1

-----------------------------------------------------------------------------
\* Polls

\* createElection: may the user notify?  An administrator of the community, which is
\* not disabled and allows notifications, with reputation enough.
IsAllowed(reputation) == reputation >= Threshold
MayNotify(p) ==
    /\ p.community
    /\ p.forced \/ (p.admin /\ ~p.disabled /\ IsAllowed(p.reputation) /\ p.allows)

\* The background process of createElection, or the administrator's request to send
\* (forced).  A census that is too large leaves the election without notifications.
Announce(p) ==
    /\ p \notin announced /\ announced' = announced \cup {p}
    /\ MayNotify(p)
    /\ p.forced \/ Cardinality(p.ids) <= MaxUsersToNotify
    /\ poll' = [poll EXCEPT ![p] = p.ids]
    /\ UNCHANGED <<disturbed, notifications, loop, todo, round, errCh, worker, casts, users, faults>>

\* createNotifications, a user at a time; users it does not know are skipped, any other
\* error leaves the rest without a notification.
AddNotifications(p) ==
    /\ \E n \in poll[p] :
         /\ notifications' = notifications \cup (IF UserOf[n] \in Known THEN {n} ELSE {})
         /\ poll' = [poll EXCEPT ![p] = @ \ {n}]
    /\ UNCHANGED <<disturbed, announced, loop, todo, round, errCh, worker, casts, users, faults>>

AddNotificationsFails(p) ==
    /\ poll[p] # {} /\ Fault
    /\ poll' = [poll EXCEPT ![p] = {}]
    /\ UNCHANGED <<disturbed, announced, notifications, loop, todo, round, errCh, worker, casts, users>>

-----------------------------------------------------------------------------
\* Users

Answer(u, new) ==
    /\ answers < MaxAnswers /\ answers' = answers + 1
    /\ profiles' = [profiles EXCEPT ![u] = new]
    /\ UNCHANGED <<disturbed, announced, notifications, expired, poll, loop, todo, round, errCh, worker, casts, faults>>

\* The buttons of the notifications frame, answered whether or not they were asked ...
NotificationsResponse(u) ==
    \E accepted \in BOOLEAN : Answer(u, [profiles[u] EXCEPT !.accepted = accepted])

\* ... and of the filter by user, as well as the bot's mute requests, ...
FilterByUser(u) ==
    \E a \in Authors :
        \/ Answer(u, [profiles[u] EXCEPT !.muted = @ \cup {a}])
        \/ Answer(u, [profiles[u] EXCEPT !.muted = @ \ {a}])

\* ... and the two handlers of the web application, which look first.
MuteUser(u) ==
    \E a \in Authors \ profiles[u].muted : Answer(u, [profiles[u] EXCEPT !.muted = @ \cup {a}])
UnmuteUser(u) ==
    \E a \in profiles[u].muted : Answer(u, [profiles[u] EXCEPT !.muted = @ \ {a}])

\* Time passes: the deadline of a notification, before the end of its election.
Expire(n) ==
    /\ n \in notifications \ expired
    /\ expired' = expired \cup {n}
    /\ UNCHANGED <<disturbed, announced, notifications, profiles, poll, loop, todo, round, errCh, worker, casts,
                   faults, answers>>

-----------------------------------------------------------------------------
\* The manager: Start and handleNotifications

Active(r) == {n \in IDs : worker[r][n] # "none"}

\* After the cooldown: read every notification there is and begin a round.
Begin ==
    /\ loop = "waiting" /\ notifications # {}
    /\ \E r \in Rounds : Active(r) = {} /\ round' = r
    /\ loop' = "handling" /\ todo' = notifications /\ errCh' = FALSE
    /\ UNCHANGED <<disturbed, announced, notifications, poll, worker, casts, users, faults>>

\* A goroutine for the next notification, when the semaphore has room.
Spawn ==
    /\ loop = "handling"
    /\ Cardinality(Active(round)) < Sem
    /\ \E n \in todo :
         /\ todo' = todo \ {n}
         /\ worker' = [worker EXCEPT ![round][n] = "check"]
    /\ UNCHANGED <<disturbed, announced, notifications, poll, loop, round, errCh, casts, users, faults>>

\* All are started: return at the first error, or when the channel is closed because
\* all have ended.
Return ==
    /\ loop = "handling" /\ todo = {}
    /\ errCh \/ Active(round) = {}
    /\ loop' = "waiting" /\ errCh' = FALSE
    /\ disturbed' = disturbed \cup Active(round)
    /\ UNCHANGED <<announced, notifications, todo, round, poll, worker, casts, users, faults>>

\* A goroutine goes on to its next step, or ends ("none") and frees the semaphore.
Goto(r, n, step) == worker' = [worker EXCEPT ![r][n] = step]

\* Mutant: the deadline is not looked at.
DeniedKept(n) == "none"

\* The user refuses, or has not answered: keep the notification until its deadline.
Denied(n) == IF n \in expired THEN "remove" ELSE "none"

\* Mutant: a user who accepted is not asked.
AfterCheckAccepted(n) ==
    LET p == profiles[UserOf[n]]
    IN  IF p.accepted THEN "muted" ELSE IF p.requested THEN Denied(n) ELSE "ask"

\* checkOrReqPermission, first part
AfterCheck(n) ==
    LET p == profiles[UserOf[n]]
    IN  IF ~p.requested THEN "ask" ELSE IF p.accepted THEN "muted" ELSE Denied(n)

Check(r, n) ==
    /\ worker[r][n] = "check"
    /\ \/ Goto(r, n, AfterCheck(n)) /\ UNCHANGED faults
       \* any error of the database reads as an unknown user, who is asked (again)
       \/ Fault /\ Goto(r, n, "ask")
    /\ UNCHANGED <<disturbed, announced, notifications, poll, loop, todo, round, errCh, casts, users>>

\* Publish the request for permission.  A call that fails may have been executed.
Ask(r, n) ==
    /\ worker[r][n] = "ask"
    /\ \/ /\ Goto(r, n, "mark") /\ UNCHANGED faults
          /\ asked' = [asked EXCEPT ![UserOf[n]] = @ + 1]
       \/ /\ Fault /\ Goto(r, n, "failed")
          /\ asked' \in {asked, [asked EXCEPT ![UserOf[n]] = @ + 1]}
    /\ UNCHANGED <<disturbed, announced, notifications, poll, loop, todo, round, errCh, sent, users>>

\* Mutant: the request is not recorded.
MarkUndone(r, n) ==
    /\ worker[r][n] = "mark"
    /\ Goto(r, n, Denied(n))
    /\ UNCHANGED <<disturbed, announced, notifications, poll, loop, todo, round, errCh, casts,
                   users, faults>>

\* SetNotificationsRequestedForUser
Mark(r, n) ==
    /\ worker[r][n] = "mark"
    /\ \/ /\ Goto(r, n, Denied(n)) /\ UNCHANGED faults
          /\ profiles' = [profiles EXCEPT ![UserOf[n]].requested = TRUE]
       \/ Fault /\ Goto(r, n, "failed") /\ UNCHANGED profiles
    /\ UNCHANGED <<disturbed, announced, notifications, expired, answers, poll, loop, todo, round, errCh, casts>>

\* IsUserNotificationMuted
Muted(r, n) ==
    /\ worker[r][n] = "muted"
    /\ \/ /\ UNCHANGED faults
          /\ Goto(r, n, IF AuthorOf[n] \in profiles[UserOf[n]].muted THEN "remove" ELSE "send")
       \/ Fault /\ Goto(r, n, "failed")
    /\ UNCHANGED <<disturbed, announced, notifications, poll, loop, todo, round, errCh, casts, users>>

\* UserDataByFID and Reply, which refuses a text that is too long
Send(r, n) ==
    /\ worker[r][n] = "send"
    /\ \/ /\ n \notin TooLong
          /\ Goto(r, n, "remove") /\ UNCHANGED faults
          /\ sent' = [sent EXCEPT ![n] = @ + 1]
       \/ /\ n \notin TooLong
          /\ Fault /\ Goto(r, n, "failed")
          /\ sent' \in {sent, [sent EXCEPT ![n] = @ + 1]}
       \/ /\ n \in TooLong
          /\ Goto(r, n, "failed") /\ UNCHANGED <<sent, faults>>
    /\ UNCHANGED <<disturbed, announced, notifications, poll, loop, todo, round, errCh, asked, users>>

\* Mutant: the notification stays in the collection.
RemoveNothing(r, n) ==
    /\ worker[r][n] = "remove"
    /\ Goto(r, n, "none")
    /\ UNCHANGED <<disturbed, announced, notifications, poll, loop, todo, round, errCh, casts,
                   users, faults>>

\* RemoveNotification
Remove(r, n) ==
    /\ worker[r][n] = "remove"
    /\ \/ /\ Goto(r, n, "none") /\ UNCHANGED faults
          /\ notifications' = notifications \ {n}
       \/ Fault /\ Goto(r, n, "failed") /\ UNCHANGED notifications
    /\ UNCHANGED <<disturbed, announced, poll, loop, todo, round, errCh, casts, users>>

\* Mutant: the channel has no room and no reader.
FailUnread(r, n) ==
    /\ worker[r][n] = "failed" /\ r # round /\ Goto(r, n, "none")
    /\ UNCHANGED <<disturbed, announced, notifications, poll, loop, todo, round, errCh, casts,
                   users, faults>>

\* The error goes to the channel, which has room for one: the next waits for a reader
\* and keeps its place in the semaphore.  Nobody reads the channel of a round that was
\* abandoned: its goroutine ends or waits for ever, and nothing else can tell.
Fail(r, n) ==
    /\ worker[r][n] = "failed"
    /\ IF r = round /\ loop = "handling" THEN ~errCh /\ errCh' = TRUE ELSE UNCHANGED errCh
    /\ Goto(r, n, "none")
    /\ disturbed' = disturbed \cup {n}
    /\ UNCHANGED <<announced, notifications, poll, loop, todo, round, casts, users, faults>>

Work(r, n) ==
    \/ Check(r, n) \/ Ask(r, n) \/ Mark(r, n) \/ Muted(r, n) \/ Send(r, n) \/ Remove(r, n)
    \/ Fail(r, n)

\* The process stops, cleanly (Stop) or not, and starts again: goroutines are lost and
\* notifications not yet enqueued too.
Restart ==
    /\ Fault
    /\ loop' = "waiting" /\ todo' = {} /\ errCh' = FALSE /\ round' = 1
    /\ poll' = [p \in Polls |-> {}]
    /\ worker' = [r \in Rounds |-> [n \in IDs |-> "none"]]
    /\ disturbed' = disturbed \cup UNION {Active(r) : r \in Rounds}
    /\ UNCHANGED <<announced, notifications, casts, users>>

Next ==
    \/ \E p \in Polls : Announce(p) \/ AddNotifications(p) \/ AddNotificationsFails(p)
    \/ \E u \in Users : NotificationsResponse(u) \/ FilterByUser(u) \/ MuteUser(u) \/ UnmuteUser(u)
    \/ \E n \in IDs : Expire(n)
    \/ Begin \/ Spawn \/ Return
    \/ \E r \in Rounds, n \in IDs : Work(r, n)
    \/ Restart

Spec == Init /\ [][Next]_vars

\* The goroutines of the manager run and time passes; nobody has to answer.
FairSpec ==
    /\ Spec
    /\ WF_vars(Begin) /\ WF_vars(Spawn) /\ WF_vars(Return)
    /\ \A r \in Rounds, n \in IDs : WF_vars(Work(r, n))
    /\ \A n \in IDs : WF_vars(Expire(n))
    /\ \A p \in Polls : WF_vars(AddNotifications(p))
=============================================================================
