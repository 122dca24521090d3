------------------------- MODULE NotificationsProofs -------------------------
(* Proofs of what NotificationsProperties promises, for any number of polls, *)
(* users, notifications, failures and answers.                               *)
EXTENDS NotificationsProperties, FiniteSetTheorems, TLAPS

-----------------------------------------------------------------------------
(* Goroutines and answers.                                                 *)

\* A goroutine that goes on leaves the others where they are.
LEMMA GotoMoves ==
    ASSUME worker \in [Rounds -> [IDs -> Steps]], NEW r \in Rounds, NEW n \in IDs,
           NEW step \in Steps, Goto(r, n, step)
    PROVE  /\ worker' \in [Rounds -> [IDs -> Steps]]
           /\ \A q \in Rounds, m \in IDs :
                 worker'[q][m] = IF q = r /\ m = n THEN step ELSE worker[q][m]
BY DEF Goto

\* A user answers, and what was asked of them stays.
Answers(u, new) == Answer(u, new) /\ new.requested = profiles[u].requested

\* All the ways to answer are so.
LEMMA AnswerMoves ==
    ASSUME TypeOK, NEW u \in Users,
           NotificationsResponse(u) \/ FilterByUser(u) \/ MuteUser(u) \/ UnmuteUser(u)
    PROVE  \E new \in Profile : Answers(u, new)
<1>1. profiles[u] \in Profile
    BY DEF TypeOK
<1>2. ASSUME NEW accepted \in BOOLEAN
      PROVE  /\ [profiles[u] EXCEPT !.accepted = accepted] \in Profile
             /\ [profiles[u] EXCEPT !.accepted = accepted].requested = profiles[u].requested
    BY <1>1 DEF Profile
<1>3. ASSUME NEW muted \in SUBSET Authors
      PROVE  /\ [profiles[u] EXCEPT !.muted = muted] \in Profile
             /\ [profiles[u] EXCEPT !.muted = muted].requested = profiles[u].requested
    BY <1>1 DEF Profile
<1>4. CASE NotificationsResponse(u)
    BY <1>2, <1>4 DEF NotificationsResponse, Answers
<1>5. ASSUME NEW a \in Authors,
             \/ Answer(u, [profiles[u] EXCEPT !.muted = @ \cup {a}])
             \/ Answer(u, [profiles[u] EXCEPT !.muted = @ \ {a}])
      PROVE  \E new \in Profile : Answers(u, new)
  <2>1. profiles[u].muted \cup {a} \in SUBSET Authors /\ profiles[u].muted \ {a} \in SUBSET Authors
    BY <1>1 DEF Profile
  <2>2. \E muted \in SUBSET Authors : Answer(u, [profiles[u] EXCEPT !.muted = muted])
    BY <1>5, <2>1
  <2> QED
    BY <1>3, <2>2 DEF Answers
<1>6. CASE FilterByUser(u) \/ MuteUser(u) \/ UnmuteUser(u)
  <2>1. profiles[u].muted \subseteq Authors
    BY <1>1 DEF Profile
  <2> QED
    BY <1>5, <1>6, <2>1 DEF FilterByUser, MuteUser, UnmuteUser
<1> QED
    BY <1>4, <1>6

-----------------------------------------------------------------------------
(* The parts of the invariant.                                             *)

\* Goroutines stay in their round.
LEMMA PlacedStep ==
    TypeOK /\ Placed /\ [Next]_vars => Placed'
<1> SUFFICES ASSUME TypeOK, Placed, [Next]_vars PROVE Placed'
    OBVIOUS
<1>1. ASSUME NEW p \in Polls, Announce(p) PROVE Placed'
    BY <1>1 DEF Announce, Placed, TypeOK, Active, Rounds, casts, users, Steps, MayNotify
<1>2. ASSUME NEW p \in Polls, AddNotifications(p) PROVE Placed'
    BY <1>2 DEF AddNotifications, Placed, TypeOK, Active, Rounds, casts, users, Steps
<1>3. ASSUME NEW p \in Polls, AddNotificationsFails(p) PROVE Placed'
    BY <1>3 DEF AddNotificationsFails, Placed, TypeOK, Active, Rounds, Fault, casts, users,
       Steps
<1>4. ASSUME NEW u \in Users, NEW new \in Profile, Answers(u, new) PROVE Placed'
    BY <1>4 DEF Answers, Placed, TypeOK, Active, Rounds, Answer, casts, Steps
<1>5. ASSUME NEW n \in IDs, Expire(n) PROVE Placed'
    BY <1>5 DEF Expire, Placed, TypeOK, Active, Rounds, casts, Steps
<1>6. CASE Begin
    BY <1>6 DEF Begin, Placed, TypeOK, Active, Rounds, casts, users, Steps
<1>7. CASE Spawn
    BY <1>7 DEF Spawn, Placed, TypeOK, Active, Rounds, casts, users, Steps
<1>8. CASE Return
    BY <1>8 DEF Return, Placed, TypeOK, Active, Rounds, casts, users, Steps
<1>9. ASSUME NEW r \in Rounds, NEW n \in IDs, Check(r, n) PROVE Placed'
    BY <1>9 DEF Check, Placed, TypeOK, Active, Rounds, Fault, Goto, AfterCheck, Denied,
       casts, users, Steps
<1>10. ASSUME NEW r \in Rounds, NEW n \in IDs, Ask(r, n) PROVE Placed'
    BY <1>10 DEF Ask, Placed, TypeOK, Active, Rounds, Fault, Goto, users, Steps
<1>11. ASSUME NEW r \in Rounds, NEW n \in IDs, Mark(r, n) PROVE Placed'
    BY <1>11 DEF Mark, Placed, TypeOK, Active, Rounds, Fault, Goto, Denied, casts, Steps
<1>12. ASSUME NEW r \in Rounds, NEW n \in IDs, Muted(r, n) PROVE Placed'
    BY <1>12 DEF Muted, Placed, TypeOK, Active, Rounds, Fault, Goto, casts, users, Steps
<1>13. ASSUME NEW r \in Rounds, NEW n \in IDs, Send(r, n) PROVE Placed'
    BY <1>13 DEF Send, Placed, TypeOK, Active, Rounds, Fault, Goto, users, Steps
<1>14. ASSUME NEW r \in Rounds, NEW n \in IDs, Remove(r, n) PROVE Placed'
    BY <1>14 DEF Remove, Placed, TypeOK, Active, Rounds, Fault, Goto, casts, users, Steps
<1>15. ASSUME NEW r \in Rounds, NEW n \in IDs, Fail(r, n) PROVE Placed'
    BY <1>15 DEF Fail, Placed, TypeOK, Active, Rounds, Goto, casts, users, Steps
<1>16. CASE Restart
    BY <1>16 DEF Restart, Placed, TypeOK, Active, Rounds, Fault, casts, users, Steps
<1>17. CASE UNCHANGED vars
    BY <1>17 DEF vars, Placed, TypeOK, Active, Rounds, Steps
<1> QED
    BY <1>1, <1>2, <1>3, <1>4, <1>5, <1>6, <1>7, <1>8, <1>9, <1>10, <1>11, <1>12, <1>13,
       <1>14, <1>15, <1>16, <1>17, AnswerMoves DEF Next, Work

\* Nothing happens to what is to be enqueued.
LEMMA EnqueuedStep ==
    TypeOK /\ Enqueued /\ [Next]_vars => Enqueued'
<1> SUFFICES ASSUME TypeOK, Enqueued, [Next]_vars PROVE Enqueued'
    OBVIOUS
<1>1. ASSUME NEW p \in Polls, Announce(p) PROVE Enqueued'
    BY <1>1, NotificationsAssumption DEF Announce, Enqueued, TypeOK, casts, users, Steps,
       MayNotify
<1>2. ASSUME NEW p \in Polls, AddNotifications(p) PROVE Enqueued'
    BY <1>2, NotificationsAssumption DEF AddNotifications, Enqueued, TypeOK, casts, users,
       Steps
<1>3. ASSUME NEW p \in Polls, AddNotificationsFails(p) PROVE Enqueued'
    BY <1>3, NotificationsAssumption DEF AddNotificationsFails, Enqueued, TypeOK, Fault,
       casts, users, Steps
<1>4. ASSUME NEW u \in Users, NEW new \in Profile, Answers(u, new) PROVE Enqueued'
    BY <1>4, NotificationsAssumption DEF Answers, Enqueued, TypeOK, Answer, casts, Steps
<1>5. ASSUME NEW n \in IDs, Expire(n) PROVE Enqueued'
    BY <1>5, NotificationsAssumption DEF Expire, Enqueued, TypeOK, casts, Steps
<1>6. CASE Begin
    BY <1>6, NotificationsAssumption DEF Begin, Enqueued, TypeOK, casts, users, Active,
       Steps
<1>7. CASE Spawn
    BY <1>7, NotificationsAssumption DEF Spawn, Enqueued, TypeOK, casts, users, Active,
       Steps
<1>8. CASE Return
    BY <1>8, NotificationsAssumption DEF Return, Enqueued, TypeOK, casts, users, Active,
       Steps
<1>9. ASSUME NEW r \in Rounds, NEW n \in IDs, Check(r, n) PROVE Enqueued'
    BY <1>9, NotificationsAssumption DEF Check, Enqueued, TypeOK, Fault, Goto, AfterCheck,
       Denied, casts, users, Steps
<1>10. ASSUME NEW r \in Rounds, NEW n \in IDs, Ask(r, n) PROVE Enqueued'
    BY <1>10, NotificationsAssumption DEF Ask, Enqueued, TypeOK, Fault, Goto, users, Steps
<1>11. ASSUME NEW r \in Rounds, NEW n \in IDs, Mark(r, n) PROVE Enqueued'
    BY <1>11, NotificationsAssumption DEF Mark, Enqueued, TypeOK, Fault, Goto, Denied,
       casts, Steps
<1>12. ASSUME NEW r \in Rounds, NEW n \in IDs, Muted(r, n) PROVE Enqueued'
    BY <1>12, NotificationsAssumption DEF Muted, Enqueued, TypeOK, Fault, Goto, casts,
       users, Steps
<1>13. ASSUME NEW r \in Rounds, NEW n \in IDs, Send(r, n) PROVE Enqueued'
    BY <1>13, NotificationsAssumption DEF Send, Enqueued, TypeOK, Fault, Goto, users, Steps
<1>14. ASSUME NEW r \in Rounds, NEW n \in IDs, Remove(r, n) PROVE Enqueued'
    BY <1>14, NotificationsAssumption DEF Remove, Enqueued, TypeOK, Fault, Goto, casts,
       users, Steps
<1>15. ASSUME NEW r \in Rounds, NEW n \in IDs, Fail(r, n) PROVE Enqueued'
    BY <1>15, NotificationsAssumption DEF Fail, Enqueued, TypeOK, Goto, casts, users, Steps
<1>16. CASE Restart
    BY <1>16, NotificationsAssumption DEF Restart, Enqueued, TypeOK, Fault, casts, users,
       Active, Steps
<1>17. CASE UNCHANGED vars
    BY <1>17 DEF vars, Enqueued, TypeOK, Steps
<1> QED
    BY <1>1, <1>2, <1>3, <1>4, <1>5, <1>6, <1>7, <1>8, <1>9, <1>10, <1>11, <1>12, <1>13,
       <1>14, <1>15, <1>16, <1>17, AnswerMoves DEF Next, Work

\* What was sent is over, unless its goroutine failed or was left behind.
LEMMA SentOnceStep ==
    TypeOK /\ Placed /\ Enqueued /\ SentOnce /\ [Next]_vars => SentOnce'
<1> SUFFICES ASSUME TypeOK, Placed, Enqueued, SentOnce, [Next]_vars PROVE SentOnce'
    OBVIOUS
<1>1. ASSUME NEW p \in Polls, Announce(p) PROVE SentOnce'
    BY <1>1 DEF Announce, SentOnce, Placed, TypeOK, Active, Rounds, casts, users, Steps,
       MayNotify
<1>2. ASSUME NEW p \in Polls, AddNotifications(p) PROVE SentOnce'
  <2>1. PICK m \in poll[p] :
           /\ notifications' = notifications \cup (IF UserOf[m] \in Known THEN {m} ELSE {})
           /\ poll' = [poll EXCEPT ![p] = @ \ {m}]
    BY <1>2 DEF AddNotifications
  <2>2. sent[m] = 0
    BY <2>1 DEF Enqueued
  <2>3. UNCHANGED <<worker, sent, round, todo, disturbed>>
    BY <1>2 DEF AddNotifications, casts
  <2> QED
    BY <2>1, <2>2, <2>3 DEF SentOnce
<1>3. ASSUME NEW p \in Polls, AddNotificationsFails(p) PROVE SentOnce'
    BY <1>3 DEF AddNotificationsFails, SentOnce, Placed, TypeOK, Active, Rounds, Fault,
       casts, users, Steps
<1>4. ASSUME NEW u \in Users, NEW new \in Profile, Answers(u, new) PROVE SentOnce'
    BY <1>4 DEF Answers, SentOnce, Placed, TypeOK, Active, Rounds, Answer, casts, Steps
<1>5. ASSUME NEW n \in IDs, Expire(n) PROVE SentOnce'
    BY <1>5 DEF Expire, SentOnce, Placed, TypeOK, Active, Rounds, casts, Steps
<1>6. CASE Begin
    BY <1>6 DEF Begin, SentOnce, Placed, TypeOK, Active, Rounds, casts, users, Steps
<1>7. CASE Spawn
    BY <1>7 DEF Spawn, SentOnce, Placed, TypeOK, Active, Rounds, casts, users, Steps
<1>8. CASE Return
    BY <1>8 DEF Return, SentOnce, Placed, TypeOK, Active, Rounds, casts, users, Steps
<1>9. ASSUME NEW r \in Rounds, NEW n \in IDs, Check(r, n) PROVE SentOnce'
    BY <1>9 DEF Check, SentOnce, Placed, TypeOK, Active, Rounds, Fault, Goto, AfterCheck,
       Denied, casts, users, Steps
<1>10. ASSUME NEW r \in Rounds, NEW n \in IDs, Ask(r, n) PROVE SentOnce'
    BY <1>10 DEF Ask, SentOnce, Placed, TypeOK, Active, Rounds, Fault, Goto, users, Steps
<1>11. ASSUME NEW r \in Rounds, NEW n \in IDs, Mark(r, n) PROVE SentOnce'
    BY <1>11 DEF Mark, SentOnce, Placed, TypeOK, Active, Rounds, Fault, Goto, Denied, casts,
       Steps
<1>12. ASSUME NEW r \in Rounds, NEW n \in IDs, Muted(r, n) PROVE SentOnce'
    BY <1>12 DEF Muted, SentOnce, Placed, TypeOK, Active, Rounds, Fault, Goto, casts, users,
       Steps
<1>13. ASSUME NEW r \in Rounds, NEW n \in IDs, Send(r, n) PROVE SentOnce'
    BY <1>13 DEF Send, SentOnce, Placed, TypeOK, Active, Rounds, Fault, Goto, users, Steps
<1>14. ASSUME NEW r \in Rounds, NEW n \in IDs, Remove(r, n) PROVE SentOnce'
    BY <1>14 DEF Remove, SentOnce, Placed, TypeOK, Active, Rounds, Fault, Goto, casts,
       users, Steps
<1>15. ASSUME NEW r \in Rounds, NEW n \in IDs, Fail(r, n) PROVE SentOnce'
    BY <1>15 DEF Fail, SentOnce, Placed, TypeOK, Active, Rounds, Goto, casts, users, Steps
<1>16. CASE Restart
    BY <1>16 DEF Restart, SentOnce, Placed, TypeOK, Active, Rounds, Fault, casts, users,
       Steps
<1>17. CASE UNCHANGED vars
    BY <1>17 DEF vars, SentOnce, Placed, TypeOK, Active, Rounds, Steps
<1> QED
    BY <1>1, <1>2, <1>3, <1>4, <1>5, <1>6, <1>7, <1>8, <1>9, <1>10, <1>11, <1>12, <1>13,
       <1>14, <1>15, <1>16, <1>17, AnswerMoves DEF Next, Work

\* A question precedes its record, and whatever relies on it.
LEMMA AskedFirstStep ==
    TypeOK /\ AskedFirst /\ [Next]_vars => AskedFirst'
<1> SUFFICES ASSUME TypeOK, AskedFirst, [Next]_vars PROVE AskedFirst'
    OBVIOUS
<1>1. ASSUME NEW p \in Polls, Announce(p) PROVE AskedFirst'
    BY <1>1, NotificationsAssumption DEF Announce, AskedFirst, TypeOK, casts, users, Steps,
       MayNotify
<1>2. ASSUME NEW p \in Polls, AddNotifications(p) PROVE AskedFirst'
    BY <1>2, NotificationsAssumption DEF AddNotifications, AskedFirst, TypeOK, casts, users,
       Steps
<1>3. ASSUME NEW p \in Polls, AddNotificationsFails(p) PROVE AskedFirst'
    BY <1>3, NotificationsAssumption DEF AddNotificationsFails, AskedFirst, TypeOK, Fault,
       casts, users, Steps
<1>4. ASSUME NEW u \in Users, NEW new \in Profile, Answers(u, new) PROVE AskedFirst'
    BY <1>4, NotificationsAssumption DEF Answers, AskedFirst, TypeOK, Answer, casts, Steps
<1>5. ASSUME NEW n \in IDs, Expire(n) PROVE AskedFirst'
    BY <1>5, NotificationsAssumption DEF Expire, AskedFirst, TypeOK, casts, Steps
<1>6. CASE Begin
    BY <1>6, NotificationsAssumption DEF Begin, AskedFirst, TypeOK, casts, users, Active,
       Steps
<1>7. CASE Spawn
    BY <1>7, NotificationsAssumption DEF Spawn, AskedFirst, TypeOK, casts, users, Active,
       Steps
<1>8. CASE Return
    BY <1>8, NotificationsAssumption DEF Return, AskedFirst, TypeOK, casts, users, Active,
       Steps
<1>9. ASSUME NEW r \in Rounds, NEW n \in IDs, Check(r, n) PROVE AskedFirst'
  <2>a. worker \in [Rounds -> [IDs -> Steps]] /\ UserOf[n] \in Users
    BY NotificationsAssumption DEF TypeOK
  <2>1. PICK step \in Steps :
           /\ Goto(r, n, step)
           /\ step \in {"mark", "muted", "send"} => profiles[UserOf[n]].requested
    BY <1>9 DEF Check, AfterCheck, Denied, Steps, Fault
  <2>2. \A q \in Rounds, m \in IDs :
           worker'[q][m] = IF q = r /\ m = n THEN step ELSE worker[q][m]
    BY <2>a, <2>1, GotoMoves
  <2>3. UNCHANGED <<profiles, asked>>
    BY <1>9 DEF Check, users, casts
  <2> QED
    BY <2>a, <2>1, <2>2, <2>3 DEF AskedFirst
<1>10. ASSUME NEW r \in Rounds, NEW n \in IDs, Ask(r, n) PROVE AskedFirst'
  <2>a. worker \in [Rounds -> [IDs -> Steps]] /\ UserOf[n] \in Users
    BY NotificationsAssumption DEF TypeOK
  <2>1. PICK step \in Steps :
           /\ Goto(r, n, step)
           /\ \/ step = "mark" /\ asked' = [asked EXCEPT ![UserOf[n]] = @ + 1]
              \/ step = "failed" /\ asked' \in {asked, [asked EXCEPT ![UserOf[n]] = @ + 1]}
    BY <1>10 DEF Ask, AfterCheck, Denied, Steps, Fault
  <2>2. \A q \in Rounds, m \in IDs :
           worker'[q][m] = IF q = r /\ m = n THEN step ELSE worker[q][m]
    BY <2>a, <2>1, GotoMoves
  <2>3. UNCHANGED profiles
    BY <1>10 DEF Ask, users
  <2>4. asked \in [Users -> Nat]
    BY DEF TypeOK
  <2>5. /\ \A u \in Users : asked[u] > 0 => asked'[u] > 0
        /\ step = "mark" => asked'[UserOf[n]] > 0
    <3>1. /\ asked' = asked \/ asked' = [asked EXCEPT ![UserOf[n]] = asked[UserOf[n]] + 1]
          /\ step = "mark" => asked' = [asked EXCEPT ![UserOf[n]] = asked[UserOf[n]] + 1]
        BY <2>1
    <3> QED
        BY <2>a, <2>4, <3>1
  <2>6. \A m \in IDs : UserOf[m] \in Users
    BY NotificationsAssumption
  <2>7. step \in {"mark", "failed"}
    BY <2>1
  <2> QED
    BY <2>a, <2>2, <2>3, <2>5, <2>6, <2>7 DEF AskedFirst
<1>11. ASSUME NEW r \in Rounds, NEW n \in IDs, Mark(r, n) PROVE AskedFirst'
  <2>a. worker \in [Rounds -> [IDs -> Steps]] /\ UserOf[n] \in Users
    BY NotificationsAssumption DEF TypeOK
  <2>1. PICK step \in Steps : Goto(r, n, step) /\ (step \in {"remove", "none", "failed"})
    BY <1>11 DEF Mark, AfterCheck, Denied, Steps, Fault
  <2>2. \A q \in Rounds, m \in IDs :
           worker'[q][m] = IF q = r /\ m = n THEN step ELSE worker[q][m]
    BY <2>a, <2>1, GotoMoves
  <2>3. /\ UNCHANGED asked
        /\ profiles' \in {profiles, [profiles EXCEPT ![UserOf[n]].requested = TRUE]}
    BY <1>11 DEF Mark, casts
  <2>4. asked[UserOf[n]] > 0
    BY <1>11, <2>a DEF Mark, AskedFirst
  <2>5. \A u \in Users : profiles'[u].requested => u = UserOf[n] \/ profiles[u].requested
    BY <2>3 DEF TypeOK, Profile
  <2> QED
    BY <2>a, <2>1, <2>2, <2>3, <2>4, <2>5 DEF AskedFirst
<1>12. ASSUME NEW r \in Rounds, NEW n \in IDs, Muted(r, n) PROVE AskedFirst'
    BY <1>12, NotificationsAssumption DEF Muted, AskedFirst, TypeOK, Fault, Goto, casts,
       users, Steps
<1>13. ASSUME NEW r \in Rounds, NEW n \in IDs, Send(r, n) PROVE AskedFirst'
    BY <1>13, NotificationsAssumption DEF Send, AskedFirst, TypeOK, Fault, Goto, users,
       Steps
<1>14. ASSUME NEW r \in Rounds, NEW n \in IDs, Remove(r, n) PROVE AskedFirst'
    BY <1>14, NotificationsAssumption DEF Remove, AskedFirst, TypeOK, Fault, Goto, casts,
       users, Steps
<1>15. ASSUME NEW r \in Rounds, NEW n \in IDs, Fail(r, n) PROVE AskedFirst'
    BY <1>15, NotificationsAssumption DEF Fail, AskedFirst, TypeOK, Goto, casts, users,
       Steps
<1>16. CASE Restart
  <2>1. \A r \in Rounds, n \in IDs : worker'[r][n] = "none"
    BY <1>16 DEF Restart
  <2>2. UNCHANGED <<profiles, asked>>
    BY <1>16 DEF Restart, users, casts
  <2> QED
    BY <2>1, <2>2 DEF AskedFirst
<1>17. CASE UNCHANGED vars
    BY <1>17 DEF vars, AskedFirst, TypeOK, Steps
<1> QED
    BY <1>1, <1>2, <1>3, <1>4, <1>5, <1>6, <1>7, <1>8, <1>9, <1>10, <1>11, <1>12, <1>13,
       <1>14, <1>15, <1>16, <1>17, AnswerMoves DEF Next, Work

\* It precedes what is sent.
LEMMA AskedBeforeSentStep ==
    TypeOK /\ AskedFirst /\ AskedBeforeSent /\ [Next]_vars => AskedBeforeSent'
<1> SUFFICES ASSUME TypeOK, AskedFirst, AskedBeforeSent, [Next]_vars
             PROVE  AskedBeforeSent'
    OBVIOUS
<1>1. ASSUME NEW p \in Polls, Announce(p) PROVE AskedBeforeSent'
    BY <1>1, NotificationsAssumption DEF Announce, AskedBeforeSent, AskedFirst, TypeOK,
       casts, users, Steps, MayNotify
<1>2. ASSUME NEW p \in Polls, AddNotifications(p) PROVE AskedBeforeSent'
    BY <1>2, NotificationsAssumption DEF AddNotifications, AskedBeforeSent, AskedFirst,
       TypeOK, casts, users, Steps
<1>3. ASSUME NEW p \in Polls, AddNotificationsFails(p) PROVE AskedBeforeSent'
    BY <1>3, NotificationsAssumption DEF AddNotificationsFails, AskedBeforeSent, AskedFirst,
       TypeOK, Fault, casts, users, Steps
<1>4. ASSUME NEW u \in Users, NEW new \in Profile, Answers(u, new) PROVE AskedBeforeSent'
    BY <1>4, NotificationsAssumption DEF Answers, AskedBeforeSent, AskedFirst, TypeOK,
       Answer, casts, Steps
<1>5. ASSUME NEW n \in IDs, Expire(n) PROVE AskedBeforeSent'
    BY <1>5, NotificationsAssumption DEF Expire, AskedBeforeSent, AskedFirst, TypeOK, casts,
       Steps
<1>6. CASE Begin
    BY <1>6, NotificationsAssumption DEF Begin, AskedBeforeSent, AskedFirst, TypeOK, casts,
       users, Active, Steps
<1>7. CASE Spawn
    BY <1>7, NotificationsAssumption DEF Spawn, AskedBeforeSent, AskedFirst, TypeOK, casts,
       users, Active, Steps
<1>8. CASE Return
    BY <1>8, NotificationsAssumption DEF Return, AskedBeforeSent, AskedFirst, TypeOK, casts,
       users, Active, Steps
<1>9. ASSUME NEW r \in Rounds, NEW n \in IDs, Check(r, n) PROVE AskedBeforeSent'
    BY <1>9, NotificationsAssumption DEF Check, AskedBeforeSent, AskedFirst, TypeOK, Fault,
       Goto, AfterCheck, Denied, casts, users, Steps
<1>10. ASSUME NEW r \in Rounds, NEW n \in IDs, Ask(r, n) PROVE AskedBeforeSent'
    BY <1>10, NotificationsAssumption DEF Ask, AskedBeforeSent, AskedFirst, TypeOK, Fault,
       Goto, users, Steps
<1>11. ASSUME NEW r \in Rounds, NEW n \in IDs, Mark(r, n) PROVE AskedBeforeSent'
    BY <1>11, NotificationsAssumption DEF Mark, AskedBeforeSent, AskedFirst, TypeOK, Fault,
       Goto, Denied, casts, Steps
<1>12. ASSUME NEW r \in Rounds, NEW n \in IDs, Muted(r, n) PROVE AskedBeforeSent'
    BY <1>12, NotificationsAssumption DEF Muted, AskedBeforeSent, AskedFirst, TypeOK, Fault,
       Goto, casts, users, Steps
<1>13. ASSUME NEW r \in Rounds, NEW n \in IDs, Send(r, n) PROVE AskedBeforeSent'
    BY <1>13, NotificationsAssumption DEF Send, AskedBeforeSent, AskedFirst, TypeOK, Fault,
       Goto, users, Steps
<1>14. ASSUME NEW r \in Rounds, NEW n \in IDs, Remove(r, n) PROVE AskedBeforeSent'
    BY <1>14, NotificationsAssumption DEF Remove, AskedBeforeSent, AskedFirst, TypeOK,
       Fault, Goto, casts, users, Steps
<1>15. ASSUME NEW r \in Rounds, NEW n \in IDs, Fail(r, n) PROVE AskedBeforeSent'
    BY <1>15, NotificationsAssumption DEF Fail, AskedBeforeSent, AskedFirst, TypeOK, Goto,
       casts, users, Steps
<1>16. CASE Restart
    BY <1>16, NotificationsAssumption DEF Restart, AskedBeforeSent, AskedFirst, TypeOK,
       Fault, casts, users, Active, Steps
<1>17. CASE UNCHANGED vars
    BY <1>17 DEF vars, AskedBeforeSent, AskedFirst, TypeOK, Steps
<1> QED
    BY <1>1, <1>2, <1>3, <1>4, <1>5, <1>6, <1>7, <1>8, <1>9, <1>10, <1>11, <1>12, <1>13,
       <1>14, <1>15, <1>16, <1>17, AnswerMoves DEF Next, Work

\* Every step keeps the types.
LEMMA TypeStep ==
    TypeOK /\ Enqueued /\ [Next]_vars => TypeOK'
<1> SUFFICES ASSUME TypeOK, Enqueued, [Next]_vars PROVE TypeOK'
    OBVIOUS
<1>1. ASSUME NEW p \in Polls, Announce(p) PROVE TypeOK'
    BY <1>1, NotificationsAssumption DEF Announce, TypeOK, casts, users, Steps, MayNotify,
       Rounds, Profile
<1>2. ASSUME NEW p \in Polls, AddNotifications(p) PROVE TypeOK'
    BY <1>2, NotificationsAssumption DEF AddNotifications, TypeOK, casts, users, Steps,
       Rounds, Profile
<1>3. ASSUME NEW p \in Polls, AddNotificationsFails(p) PROVE TypeOK'
    BY <1>3, NotificationsAssumption DEF AddNotificationsFails, TypeOK, Fault, casts, users,
       Steps, Rounds, Profile
<1>4. ASSUME NEW u \in Users, NEW new \in Profile, Answers(u, new) PROVE TypeOK'
    BY <1>4, NotificationsAssumption DEF Answers, TypeOK, Answer, casts, Steps, Rounds,
       Profile
<1>5. ASSUME NEW n \in IDs, Expire(n) PROVE TypeOK'
    BY <1>5, NotificationsAssumption DEF Expire, TypeOK, casts, Steps, Rounds, Profile
<1>6. CASE Begin
    BY <1>6, NotificationsAssumption DEF Begin, TypeOK, casts, users, Active, Steps, Rounds,
       Profile
<1>7. CASE Spawn
    BY <1>7, NotificationsAssumption DEF Spawn, TypeOK, casts, users, Active, Steps, Rounds,
       Profile
<1>8. CASE Return
    BY <1>8, NotificationsAssumption DEF Return, TypeOK, casts, users, Active, Steps,
       Rounds, Profile
<1>9. ASSUME NEW r \in Rounds, NEW n \in IDs, Check(r, n) PROVE TypeOK'
  <2>1. PICK step \in Steps : Goto(r, n, step)
    BY <1>9 DEF Check, AfterCheck, Denied, Steps
  <2>2. worker' \in [Rounds -> [IDs -> Steps]]
    BY <2>1, GotoMoves DEF TypeOK
  <2>3. faults' \in 0..MaxFaults
    BY <1>9, NotificationsAssumption DEF Check, Fault, TypeOK
  <2> QED
    BY <1>9, <2>2, <2>3 DEF Check, TypeOK, casts, users
<1>10. ASSUME NEW r \in Rounds, NEW n \in IDs, Ask(r, n) PROVE TypeOK'
  <2>1. PICK step \in Steps : Goto(r, n, step)
    BY <1>10 DEF Ask, AfterCheck, Denied, Steps
  <2>2. worker' \in [Rounds -> [IDs -> Steps]]
    BY <2>1, GotoMoves DEF TypeOK
  <2>3. faults' \in 0..MaxFaults
    BY <1>10, NotificationsAssumption DEF Ask, Fault, TypeOK
  <2>4. asked \in [Users -> Nat] /\ UserOf[n] \in Users
    BY NotificationsAssumption DEF TypeOK
  <2>5. asked' = asked \/ asked' = [asked EXCEPT ![UserOf[n]] = asked[UserOf[n]] + 1]
    BY <1>10 DEF Ask
  <2>6. asked' \in [Users -> Nat]
    BY <2>4, <2>5
  <2> QED
    BY <1>10, <2>2, <2>3, <2>6 DEF Ask, TypeOK, casts, users
<1>11. ASSUME NEW r \in Rounds, NEW n \in IDs, Mark(r, n) PROVE TypeOK'
  <2>1. PICK step \in Steps : Goto(r, n, step)
    BY <1>11 DEF Mark, AfterCheck, Denied, Steps
  <2>2. worker' \in [Rounds -> [IDs -> Steps]]
    BY <2>1, GotoMoves DEF TypeOK
  <2>3. faults' \in 0..MaxFaults
    BY <1>11, NotificationsAssumption DEF Mark, Fault, TypeOK
  <2>4. profiles \in [Users -> Profile] /\ UserOf[n] \in Users
    BY NotificationsAssumption DEF TypeOK
  <2>5. [profiles[UserOf[n]] EXCEPT !.requested = TRUE] \in Profile
    BY <2>4 DEF Profile
  <2>6. profiles' \in [Users -> Profile]
    BY <1>11, <2>4, <2>5 DEF Mark
  <2> QED
    BY <1>11, <2>2, <2>3, <2>6 DEF Mark, TypeOK, casts, users
<1>12. ASSUME NEW r \in Rounds, NEW n \in IDs, Muted(r, n) PROVE TypeOK'
  <2>1. PICK step \in Steps : Goto(r, n, step)
    BY <1>12 DEF Muted, AfterCheck, Denied, Steps
  <2>2. worker' \in [Rounds -> [IDs -> Steps]]
    BY <2>1, GotoMoves DEF TypeOK
  <2>3. faults' \in 0..MaxFaults
    BY <1>12, NotificationsAssumption DEF Muted, Fault, TypeOK
  <2> QED
    BY <1>12, <2>2, <2>3 DEF Muted, TypeOK, casts, users
<1>13. ASSUME NEW r \in Rounds, NEW n \in IDs, Send(r, n) PROVE TypeOK'
  <2>1. PICK step \in Steps : Goto(r, n, step)
    BY <1>13 DEF Send, AfterCheck, Denied, Steps
  <2>2. worker' \in [Rounds -> [IDs -> Steps]]
    BY <2>1, GotoMoves DEF TypeOK
  <2>3. faults' \in 0..MaxFaults
    BY <1>13, NotificationsAssumption DEF Send, Fault, TypeOK
  <2>4. sent \in [IDs -> Nat] /\ UserOf[n] \in Users
    BY NotificationsAssumption DEF TypeOK
  <2>5. sent' = sent \/ sent' = [sent EXCEPT ![n] = sent[n] + 1]
    BY <1>13 DEF Send
  <2>6. sent' \in [IDs -> Nat]
    BY <2>4, <2>5
  <2> QED
    BY <1>13, <2>2, <2>3, <2>6 DEF Send, TypeOK, casts, users
<1>14. ASSUME NEW r \in Rounds, NEW n \in IDs, Remove(r, n) PROVE TypeOK'
  <2>1. PICK step \in Steps : Goto(r, n, step)
    BY <1>14 DEF Remove, AfterCheck, Denied, Steps
  <2>2. worker' \in [Rounds -> [IDs -> Steps]]
    BY <2>1, GotoMoves DEF TypeOK
  <2>3. faults' \in 0..MaxFaults
    BY <1>14, NotificationsAssumption DEF Remove, Fault, TypeOK
  <2> QED
    BY <1>14, <2>2, <2>3 DEF Remove, TypeOK, casts, users
<1>15. ASSUME NEW r \in Rounds, NEW n \in IDs, Fail(r, n) PROVE TypeOK'
    BY <1>15, NotificationsAssumption DEF Fail, TypeOK, Goto, casts, users, Steps, Rounds,
       Profile
<1>16. CASE Restart
  <2>1. worker' \in [Rounds -> [IDs -> Steps]]
    BY <1>16 DEF Restart, Steps
  <2>2. faults' \in 0..MaxFaults
    BY <1>16, NotificationsAssumption DEF Restart, Fault, TypeOK
  <2>3. poll' \in [Polls -> SUBSET IDs]
    BY <1>16 DEF Restart
  <2>4. disturbed' \subseteq IDs
    BY <1>16 DEF Restart, Active, TypeOK
  <2>5. errCh' \in BOOLEAN
    BY <1>16 DEF Restart
  <2>6. round' \in Rounds
    BY <1>16 DEF Restart, Rounds
  <2> QED
    BY <1>16, <2>1, <2>2, <2>3, <2>4, <2>5, <2>6 DEF Restart, TypeOK, casts, users
<1>17. CASE UNCHANGED vars
    BY <1>17 DEF vars, TypeOK, Steps, Rounds, Profile
<1> QED
    BY <1>1, <1>2, <1>3, <1>4, <1>5, <1>6, <1>7, <1>8, <1>9, <1>10, <1>11, <1>12, <1>13,
       <1>14, <1>15, <1>16, <1>17, AnswerMoves DEF Next, Work

\* Who moves a goroutine: the loop starts one, a restart ends all, and each moves itself.
LEMMA Movers ==
    ASSUME TypeOK, [Next]_vars
    PROVE  \/ Spawn \/ Restart \/ UNCHANGED worker
           \/ \E r \in Rounds, n \in IDs, step \in Steps :
                 worker[r][n] # "none" /\ Goto(r, n, step)
<1>1. ASSUME NEW r \in Rounds, NEW n \in IDs, Work(r, n)
      PROVE  \E step \in Steps : worker[r][n] # "none" /\ Goto(r, n, step)
    BY <1>1 DEF Work, Check, Ask, Mark, Muted, Send, Remove, Fail, AfterCheck, Denied, Steps
<1>2. CASE \E p \in Polls : Announce(p) \/ AddNotifications(p) \/ AddNotificationsFails(p)
    BY <1>2 DEF Announce, AddNotifications, AddNotificationsFails
<1>3. CASE \E u \in Users :
              NotificationsResponse(u) \/ FilterByUser(u) \/ MuteUser(u) \/ UnmuteUser(u)
    BY <1>3, AnswerMoves DEF Answers, Answer
<1>4. CASE Begin \/ Return \/ \E n \in IDs : Expire(n)
    BY <1>4 DEF Begin, Return, Expire
<1> QED
    BY <1>1, <1>2, <1>3, <1>4 DEF Next, vars

\* The loop starts a goroutine only where the semaphore has room.
LEMMA WithinSemaphoreStep == TypeOK /\ WithinSemaphore /\ [Next]_vars => WithinSemaphore'
<1> SUFFICES ASSUME TypeOK, WithinSemaphore, [Next]_vars, NEW q \in Rounds
             PROVE  Cardinality(Active(q)') <= Sem
    BY DEF WithinSemaphore
<1>1. /\ IsFiniteSet(Active(q)) /\ Cardinality(Active(q)) \in Nat /\ Cardinality(Active(q)) <= Sem
      /\ Sem \in Nat
    BY NotificationsAssumption, FS_Subset, FS_CardinalityType DEF Active, WithinSemaphore
<1>2. ASSUME Active(q)' \subseteq Active(q) PROVE Cardinality(Active(q)') <= Sem
  <2>1. Cardinality(Active(q)') \in Nat /\ Cardinality(Active(q)') <= Cardinality(Active(q))
    BY <1>1, <1>2, FS_Subset, FS_CardinalityType
  <2> QED
    BY <1>1, <2>1
<1>3. CASE Spawn
  <2>1. CASE q = round
    <3>1. PICK n \in todo : worker' = [worker EXCEPT ![round][n] = "check"]
        BY <1>3 DEF Spawn
    <3>2. n \in IDs /\ worker \in [Rounds -> [IDs -> Steps]]
        BY <3>1 DEF TypeOK
    <3>3. Active(q)' = Active(q) \cup {n}
        BY <2>1, <3>1, <3>2 DEF Active
    <3>4. Cardinality(Active(q)) < Sem
        BY <1>3, <2>1 DEF Spawn
    <3>5. Cardinality(Active(q) \cup {n}) \in {Cardinality(Active(q)), Cardinality(Active(q)) + 1}
        BY <1>1, FS_AddElement
    <3> QED
        BY <1>1, <3>3, <3>4, <3>5
  <2>2. CASE q # round
    BY <1>2, <1>3, <2>2 DEF Spawn, Active, TypeOK
  <2> QED
    BY <2>1, <2>2
<1>4. CASE Restart
    BY <1>2, <1>4 DEF Restart, Active
<1>5. CASE UNCHANGED worker
    BY <1>2, <1>5 DEF Active
<1>6. ASSUME NEW r \in Rounds, NEW n \in IDs, NEW step \in Steps, worker[r][n] # "none",
             Goto(r, n, step)
      PROVE  Cardinality(Active(q)') <= Sem
  <2>1. \A m \in IDs : worker'[q][m] = worker[q][m] \/ (q = r /\ m = n)
    BY <1>6, GotoMoves DEF TypeOK
  <2> QED
    BY <1>2, <1>6, <2>1 DEF Active
<1> QED
    BY <1>3, <1>4, <1>5, <1>6, Movers

-----------------------------------------------------------------------------
(* How often a user is asked.                                              *)

\* The goroutines of a user whose notifications are undisturbed are of the round, and
\* one that moves changes the numbers of those at some steps by itself.
LEMMA CountMoves ==
    ASSUME TypeOK, Placed, NEW r \in Rounds, NEW n \in IDs, NEW step \in Steps,
           Goto(r, n, step), worker[r][n] # "none", UNCHANGED round,
           NEW u \in Users, Mine(u) \cap disturbed = {}, NEW S \in SUBSET Steps
    PROVE  /\ Cardinality(At(u, S)) \in Nat
           /\ n \in Mine(u) => r = round
           /\ Cardinality(At(u, S)') =
                IF n \notin Mine(u) \/ (step \in S <=> worker[r][n] \in S)
                THEN Cardinality(At(u, S))
                ELSE IF step \in S THEN Cardinality(At(u, S)) + 1
                                   ELSE Cardinality(At(u, S)) - 1
<1>1. IsFiniteSet(At(u, S)) /\ Cardinality(At(u, S)) \in Nat
    BY NotificationsAssumption, FS_Subset, FS_CardinalityType DEF At, Mine
<1>2. n \in Mine(u) => r = round
    BY DEF Placed, Mine
<1>3. \A q \in Rounds, m \in IDs :
         worker'[q][m] = IF q = r /\ m = n THEN step ELSE worker[q][m]
    BY GotoMoves DEF TypeOK
<1>4. round \in Rounds /\ round' = round
    BY DEF TypeOK
<1>5. CASE n \notin Mine(u)
  <2>1. At(u, S)' = At(u, S)
    BY <1>3, <1>4, <1>5 DEF At, Mine
  <2> QED
    BY <1>1, <1>2, <1>5, <2>1
<1>6. CASE n \in Mine(u) /\ step \in S
  <2>1. At(u, S)' = At(u, S) \cup {n}
    BY <1>2, <1>3, <1>4, <1>6 DEF At, Mine
  <2>2. n \in At(u, S) <=> worker[r][n] \in S
    BY <1>2, <1>6 DEF At
  <2>3. Cardinality(At(u, S) \cup {n}) =
           IF n \in At(u, S) THEN Cardinality(At(u, S)) ELSE Cardinality(At(u, S)) + 1
    BY <1>1, FS_AddElement
  <2> QED
    BY <1>1, <1>2, <1>6, <2>1, <2>2, <2>3
<1>7. CASE n \in Mine(u) /\ step \notin S
  <2>1. At(u, S)' = At(u, S) \ {n}
    BY <1>2, <1>3, <1>4, <1>7 DEF At, Mine
  <2>2. n \in At(u, S) <=> worker[r][n] \in S
    BY <1>2, <1>7 DEF At
  <2> QED
    BY <1>1, <1>2, <1>7, <2>1, <2>2, FS_RemoveElement
<1> QED
    BY <1>5, <1>6, <1>7

\* Those about to ask and those that have asked are different notifications of the user.
LEMMA Disjoint ==
    ASSUME NEW u \in Users
    PROVE  /\ Cardinality(Mine(u)) \in Nat
           /\ AboutToAsk(u) \in Nat /\ Unrecorded(u) \in Nat
           /\ AboutToAsk(u) + Unrecorded(u) <= Cardinality(Mine(u))
<1> DEFINE A == At(u, {"ask"})
           B == At(u, {"mark", "failed"})
<1>1. IsFiniteSet(Mine(u))
    BY NotificationsAssumption, FS_Subset DEF Mine
<1>2. A \subseteq Mine(u) /\ B \subseteq Mine(u) /\ A \cap B = {}
    BY DEF At
<1> HIDE DEF A, B
<1>3. IsFiniteSet(A) /\ IsFiniteSet(B)
    BY <1>1, <1>2, FS_Subset
<1>4. Cardinality(A \cup B) = Cardinality(A) + Cardinality(B)
  <2>1. Cardinality(A) \in Nat /\ Cardinality(B) \in Nat
    BY <1>3, FS_CardinalityType
  <2>2. Cardinality(A \cup B) = Cardinality(A) + Cardinality(B) - 0
    BY <1>2, <1>3, FS_Union, FS_EmptySet
  <2> QED
    BY <2>1, <2>2
<1>5. Cardinality(A \cup B) <= Cardinality(Mine(u))
    BY <1>1, <1>2, FS_Subset
<1> QED
    BY <1>1, <1>3, <1>4, <1>5, FS_CardinalityType DEF A, B, AboutToAsk, Unrecorded

\* A goroutine that moves changes what is counted of its own user, by one.
LEMMA Counted ==
    ASSUME TypeOK, Placed, NEW r \in Rounds, NEW n \in IDs, NEW step \in Steps,
           Goto(r, n, step), worker[r][n] # "none", UNCHANGED round,
           NEW u \in Users, Mine(u) \cap disturbed = {}
    PROVE  /\ AboutToAsk(u)' =
                IF UserOf[n] # u \/ (step = "ask" <=> worker[r][n] = "ask") THEN AboutToAsk(u)
                ELSE IF step = "ask" THEN AboutToAsk(u) + 1 ELSE AboutToAsk(u) - 1
           /\ Unrecorded(u)' =
                IF UserOf[n] # u \/ (step \in {"mark", "failed"} <=> worker[r][n] \in {"mark", "failed"})
                THEN Unrecorded(u)
                ELSE IF step \in {"mark", "failed"} THEN Unrecorded(u) + 1 ELSE Unrecorded(u) - 1
<1>1. n \in Mine(u) <=> UserOf[n] = u
    BY DEF Mine
<1>2. {"ask"} \in SUBSET Steps /\ {"mark", "failed"} \in SUBSET Steps
    BY DEF Steps
<1>3. \A S \in SUBSET Steps :
         Cardinality(At(u, S)') =
            IF n \notin Mine(u) \/ (step \in S <=> worker[r][n] \in S)
            THEN Cardinality(At(u, S))
            ELSE IF step \in S THEN Cardinality(At(u, S)) + 1
                               ELSE Cardinality(At(u, S)) - 1
    BY CountMoves
<1>4. AboutToAsk(u)' =
         IF n \notin Mine(u) \/ (step \in {"ask"} <=> worker[r][n] \in {"ask"}) THEN AboutToAsk(u)
         ELSE IF step \in {"ask"} THEN AboutToAsk(u) + 1 ELSE AboutToAsk(u) - 1
    BY <1>2, <1>3 DEF AboutToAsk
<1>5. Unrecorded(u)' =
         IF n \notin Mine(u) \/ (step \in {"mark", "failed"} <=> worker[r][n] \in {"mark", "failed"})
         THEN Unrecorded(u)
         ELSE IF step \in {"mark", "failed"} THEN Unrecorded(u) + 1 ELSE Unrecorded(u) - 1
    BY <1>2, <1>3 DEF Unrecorded
<1> QED
    BY <1>1, <1>4, <1>5

\* What was disturbed remains so.
LEMMA DisturbedGrows == ASSUME TypeOK, [Next]_vars PROVE disturbed \subseteq disturbed'
<1>1. ASSUME NEW r \in Rounds, NEW n \in IDs, Work(r, n) PROVE disturbed \subseteq disturbed'
    BY <1>1 DEF Work, Check, Ask, Mark, Muted, Send, Remove, Fail
<1>2. CASE \E p \in Polls : Announce(p) \/ AddNotifications(p) \/ AddNotificationsFails(p)
    BY <1>2 DEF Announce, AddNotifications, AddNotificationsFails
<1>3. CASE \E u \in Users :
              NotificationsResponse(u) \/ FilterByUser(u) \/ MuteUser(u) \/ UnmuteUser(u)
    BY <1>3, AnswerMoves DEF Answers, Answer
<1>4. CASE Begin \/ Spawn \/ Return \/ Restart \/ \E n \in IDs : Expire(n)
    BY <1>4 DEF Begin, Spawn, Return, Restart, Expire
<1> QED
    BY <1>1, <1>2, <1>3, <1>4 DEF Next, vars

\* A user is asked by those who have not recorded it, and then by those about to.
LEMMA AskedEnoughStep == TypeOK /\ Placed /\ AskedEnough /\ [Next]_vars => AskedEnough'
<1> DEFINE Enough(u) ==
              IF profiles[u].requested
              THEN asked[u] + AboutToAsk(u) <= Cardinality(Mine(u)) + faults
              ELSE asked[u] <= Unrecorded(u) + faults
<1> SUFFICES ASSUME TypeOK, Placed, AskedEnough, [Next]_vars,
                    NEW u \in Users, Mine(u)' \cap disturbed' = {}
             PROVE  Enough(u)'
    BY DEF AskedEnough
<1>a. Mine(u) \cap disturbed = {} /\ Mine(u)' = Mine(u)
    BY DisturbedGrows DEF Mine
<1>b. Enough(u)
    BY <1>a DEF AskedEnough
<1>c. /\ asked \in [Users -> Nat] /\ asked[u] \in Nat /\ faults \in Nat
      /\ profiles \in [Users -> Profile] /\ worker \in [Rounds -> [IDs -> Steps]]
    BY DEF TypeOK
<1>d. /\ Cardinality(Mine(u)) \in Nat /\ AboutToAsk(u) \in Nat /\ Unrecorded(u) \in Nat
      /\ AboutToAsk(u) + Unrecorded(u) <= Cardinality(Mine(u))
    BY Disjoint
<1>e. ASSUME AboutToAsk(u)' = AboutToAsk(u), Unrecorded(u)' = Unrecorded(u),
             asked'[u] = asked[u], faults' \in {faults, faults + 1},
             profiles'[u].requested = profiles[u].requested
      PROVE  Enough(u)'
    BY <1>a, <1>b, <1>c, <1>d, <1>e
<1>f. ASSUME UNCHANGED <<worker, round>>
      PROVE  AboutToAsk(u)' = AboutToAsk(u) /\ Unrecorded(u)' = Unrecorded(u)
    BY <1>f DEF AboutToAsk, Unrecorded, At, Mine
<1>g. ASSUME \A n \in Mine(u) : worker[round][n] \notin {"ask", "mark", "failed"}
      PROVE  At(u, {"ask"}) = {} /\ At(u, {"mark", "failed"}) = {}
    BY <1>g DEF At
<1>h. ASSUME \A n \in Mine(u) : worker'[round'][n] \notin {"ask", "mark", "failed"}
      PROVE  At(u, {"ask"})' = {} /\ At(u, {"mark", "failed"})' = {}
    BY <1>h DEF At, Mine
<1>1. ASSUME NEW p \in Polls, Announce(p) PROVE Enough(u)'
    BY <1>1, <1>e, <1>f DEF Announce, casts, users
<1>2. ASSUME NEW p \in Polls, AddNotifications(p) PROVE Enough(u)'
    BY <1>2, <1>e, <1>f DEF AddNotifications, casts, users
<1>3. ASSUME NEW p \in Polls, AddNotificationsFails(p) PROVE Enough(u)'
    BY <1>3, <1>e, <1>f DEF AddNotificationsFails, Fault, casts, users
<1>4. ASSUME NEW v \in Users, NEW new \in Profile, Answers(v, new) PROVE Enough(u)'
  <2>1. UNCHANGED <<worker, round, asked, faults>>
    BY <1>4 DEF Answers, Answer, casts
  <2>2. profiles'[u].requested = profiles[u].requested
    BY <1>4, <1>c DEF Answers, Answer
  <2> QED
    BY <2>1, <2>2, <1>e, <1>f
<1>5. ASSUME NEW n \in IDs, Expire(n) PROVE Enough(u)'
    BY <1>5, <1>e, <1>f DEF Expire, casts
<1>6. CASE Begin
  <2>1. /\ \A n \in Mine(u) : worker[round][n] = "none"
        /\ \A n \in Mine(u) : worker'[round'][n] = "none"
    BY <1>6, <1>a DEF Begin, Placed, Active, Mine, TypeOK
  <2>2. AboutToAsk(u)' = AboutToAsk(u) /\ Unrecorded(u)' = Unrecorded(u)
    BY <2>1, <1>g, <1>h DEF AboutToAsk, Unrecorded
  <2> QED
    BY <1>6, <2>2, <1>e DEF Begin, casts, users
<1>7. CASE Spawn
  <2>1. PICK n \in todo : worker' = [worker EXCEPT ![round][n] = "check"]
    BY <1>7 DEF Spawn
  <2>2. worker[round][n] = "none" /\ round \in Rounds /\ n \in IDs /\ round' = round
    BY <1>7 DEF Placed, Active, TypeOK, Spawn
  <2>3. \A m \in IDs : worker'[round][m] = IF m = n THEN "check" ELSE worker[round][m]
    BY <1>c, <2>1, <2>2
  <2>4. At(u, {"ask"})' = At(u, {"ask"}) /\ At(u, {"mark", "failed"})' = At(u, {"mark", "failed"})
    BY <2>2, <2>3 DEF At, Mine
  <2> QED
    BY <1>7, <2>4, <1>e DEF Spawn, casts, users, AboutToAsk, Unrecorded
<1>8. CASE Return
    BY <1>8, <1>e, <1>f DEF Return, casts, users
<1>9. ASSUME NEW r \in Rounds, NEW n \in IDs, Check(r, n) PROVE Enough(u)'
  <2>1. PICK step \in Steps \ {"mark", "failed"} :
           /\ Goto(r, n, step)
           /\ \/ UNCHANGED faults /\ (step = "ask" => ~profiles[UserOf[n]].requested)
              \/ faults' = faults + 1
    BY <1>9 DEF Check, AfterCheck, Denied, Steps, Fault
  <2>2. worker[r][n] = "check" /\ UNCHANGED <<round, profiles, asked>>
    BY <1>9 DEF Check, casts, users
  <2>3. /\ AboutToAsk(u)' \in {AboutToAsk(u), AboutToAsk(u) + 1}
        /\ AboutToAsk(u)' # AboutToAsk(u) => step = "ask" /\ u = UserOf[n]
        /\ Unrecorded(u)' = Unrecorded(u)
    BY <2>1, <2>2, <1>a, <1>d, Counted
  <2> QED
    BY <2>1, <2>2, <2>3, <1>a, <1>b, <1>c, <1>d
<1>10. ASSUME NEW r \in Rounds, NEW n \in IDs, Ask(r, n) PROVE Enough(u)'
  <2>1. UserOf[n] \in Users
    BY NotificationsAssumption
  <2>2. PICK step \in {"mark", "failed"} :
           /\ Goto(r, n, step)
           /\ asked' \in {asked, [asked EXCEPT ![UserOf[n]] = asked[UserOf[n]] + 1]}
           /\ faults' \in {faults, faults + 1}
    BY <1>10 DEF Ask, Fault
  <2>3. worker[r][n] = "ask" /\ UNCHANGED <<round, profiles>>
    BY <1>10 DEF Ask, users
  <2>4. IF u = UserOf[n]
        THEN AboutToAsk(u)' = AboutToAsk(u) - 1 /\ Unrecorded(u)' = Unrecorded(u) + 1
        ELSE AboutToAsk(u)' = AboutToAsk(u) /\ Unrecorded(u)' = Unrecorded(u)
    BY <2>2, <2>3, <1>a, <1>d, Counted DEF Steps
  <2>5. asked'[u] = asked[u] \/ (u = UserOf[n] /\ asked'[u] = asked[u] + 1)
    BY <2>1, <2>2, <1>c
  <2> QED
    BY <2>2, <2>3, <2>4, <2>5, <1>a, <1>b, <1>c, <1>d
<1>11. ASSUME NEW r \in Rounds, NEW n \in IDs, Mark(r, n) PROVE Enough(u)'
  <2>1. UserOf[n] \in Users
    BY NotificationsAssumption
  <2>2. PICK step \in Steps \ {"ask", "mark"} :
           /\ Goto(r, n, step)
           /\ \/ UNCHANGED faults /\ profiles' = [profiles EXCEPT ![UserOf[n]].requested = TRUE]
              \/ step = "failed" /\ faults' = faults + 1 /\ UNCHANGED profiles
    BY <1>11 DEF Mark, Denied, Fault, Steps
  <2>3. worker[r][n] = "mark" /\ UNCHANGED <<round, asked>>
    BY <1>11 DEF Mark, casts
  <2>4. /\ AboutToAsk(u)' = AboutToAsk(u)
        /\ step = "failed" \/ u # UserOf[n] => Unrecorded(u)' = Unrecorded(u)
    BY <2>2, <2>3, <1>a, <1>d, Counted
  <2>5. CASE step = "failed" /\ faults' = faults + 1 /\ UNCHANGED profiles
    BY <2>3, <2>4, <2>5, <1>a, <1>b, <1>c, <1>d
  <2>6. CASE /\ UNCHANGED faults /\ u # UserOf[n]
             /\ profiles' = [profiles EXCEPT ![UserOf[n]].requested = TRUE]
    <3>1. profiles'[u] = profiles[u]
        BY <2>1, <2>6, <1>c
    <3> QED
        BY <2>3, <2>4, <2>6, <3>1, <1>a, <1>b, <1>c, <1>d
  <2>7. CASE /\ UNCHANGED faults /\ u = UserOf[n]
             /\ profiles' = [profiles EXCEPT ![UserOf[n]].requested = TRUE]
    <3>1. profiles'[u].requested = TRUE
        BY <2>7, <1>c DEF Profile
    <3>2. asked[u] + AboutToAsk(u) <= Cardinality(Mine(u)) + faults
        BY <1>b, <1>c, <1>d
    <3> QED
        BY <2>3, <2>4, <2>7, <3>1, <3>2, <1>a
  <2> QED
    BY <2>2, <2>5, <2>6, <2>7
<1>12. ASSUME NEW r \in Rounds, NEW n \in IDs, Muted(r, n) PROVE Enough(u)'
  <2>1. PICK step \in Steps \ {"ask", "mark"} : Goto(r, n, step)
    BY <1>12 DEF Muted, Steps
  <2>2. /\ worker[r][n] = "muted" /\ UNCHANGED <<round, asked, profiles>>
        /\ faults' \in {faults, faults + 1}
    BY <1>12 DEF Muted, Fault, casts, users
  <2>3. AboutToAsk(u)' = AboutToAsk(u) /\ Unrecorded(u)' \in {Unrecorded(u), Unrecorded(u) + 1}
    BY <2>1, <2>2, <1>a, <1>d, Counted
  <2> QED
    BY <2>2, <2>3, <1>a, <1>b, <1>c, <1>d
<1>13. ASSUME NEW r \in Rounds, NEW n \in IDs, Send(r, n) PROVE Enough(u)'
  <2>1. PICK step \in Steps \ {"ask", "mark"} : Goto(r, n, step)
    BY <1>13 DEF Send, Steps
  <2>2. /\ worker[r][n] = "send" /\ UNCHANGED <<round, asked, profiles>>
        /\ faults' \in {faults, faults + 1}
    BY <1>13 DEF Send, Fault, users
  <2>3. AboutToAsk(u)' = AboutToAsk(u) /\ Unrecorded(u)' \in {Unrecorded(u), Unrecorded(u) + 1}
    BY <2>1, <2>2, <1>a, <1>d, Counted
  <2> QED
    BY <2>2, <2>3, <1>a, <1>b, <1>c, <1>d
<1>14. ASSUME NEW r \in Rounds, NEW n \in IDs, Remove(r, n) PROVE Enough(u)'
  <2>1. PICK step \in Steps \ {"ask", "mark"} : Goto(r, n, step)
    BY <1>14 DEF Remove, Steps
  <2>2. /\ worker[r][n] = "remove" /\ UNCHANGED <<round, asked, profiles>>
        /\ faults' \in {faults, faults + 1}
    BY <1>14 DEF Remove, Fault, casts, users
  <2>3. AboutToAsk(u)' = AboutToAsk(u) /\ Unrecorded(u)' \in {Unrecorded(u), Unrecorded(u) + 1}
    BY <2>1, <2>2, <1>a, <1>d, Counted
  <2> QED
    BY <2>2, <2>3, <1>a, <1>b, <1>c, <1>d
<1>15. ASSUME NEW r \in Rounds, NEW n \in IDs, Fail(r, n) PROVE Enough(u)'
  <2>1. worker[r][n] = "failed" /\ Goto(r, n, "none") /\ n \in disturbed'
    BY <1>15 DEF Fail
  <2>2. UNCHANGED <<round, asked, profiles, faults>>
    BY <1>15 DEF Fail, casts, users
  <2>3. UserOf[n] # u
    BY <2>1, <1>a DEF Mine
  <2>4. AboutToAsk(u)' = AboutToAsk(u) /\ Unrecorded(u)' = Unrecorded(u)
    BY <2>1, <2>2, <2>3, <1>a, Counted DEF Steps
  <2> QED
    BY <2>2, <2>4, <1>e
<1>16. CASE Restart
  <2>1. \A n \in Mine(u) : worker[round][n] = "none" /\ worker'[round'][n] = "none"
    BY <1>16, <1>a DEF Restart, Active, Mine, TypeOK, Rounds
  <2>2. AboutToAsk(u)' = AboutToAsk(u) /\ Unrecorded(u)' = Unrecorded(u)
    BY <2>1, <1>g, <1>h DEF AboutToAsk, Unrecorded
  <2> QED
    BY <1>16, <2>2, <1>e DEF Restart, Fault, casts, users
<1>17. CASE UNCHANGED vars
    BY <1>17, <1>e, <1>f DEF vars
<1> QED
    BY <1>1, <1>2, <1>3, <1>4, <1>5, <1>6, <1>7, <1>8, <1>9, <1>10, <1>11, <1>12, <1>13,
       <1>14, <1>15, <1>16, <1>17, AnswerMoves DEF Next, Work


-----------------------------------------------------------------------------
(* The theorems.                                                           *)

\* At the start nothing was enqueued, asked or sent.
LEMMA InitInvariant == Init => NotificationsInvariant
<1> SUFFICES ASSUME Init PROVE NotificationsInvariant
    OBVIOUS
<1>1. /\ worker = [r \in Rounds |-> [n \in IDs |-> "none"]] /\ round = 1
      /\ round \in Rounds /\ Sem \in Nat /\ 0 <= Sem
    BY NotificationsAssumption DEF Init, Rounds
<1>2. \A r \in Rounds, n \in IDs : worker[r][n] = "none"
    BY <1>1
<1>3. TypeOK
  <2>1. NoProfile \in Profile
    BY DEF NoProfile, Profile
  <2>2. profiles \in [Users -> Profile]
    BY <2>1 DEF Init
  <2>3. worker \in [Rounds -> [IDs -> Steps]]
    BY <1>1 DEF Steps
  <2>4. errCh \in BOOLEAN /\ asked \in [Users -> Nat] /\ sent \in [IDs -> Nat]
    BY DEF Init
  <2>5. faults \in 0..MaxFaults /\ answers \in 0..MaxAnswers
    BY NotificationsAssumption DEF Init
  <2> QED
    BY <1>1, <2>2, <2>3, <2>4, <2>5 DEF Init, TypeOK
<1>4. Placed /\ Enqueued /\ SentOnce /\ AskedBeforeSent
    BY <1>1, <1>2, NotificationsAssumption
    DEF Init, Placed, Enqueued, SentOnce, AskedBeforeSent, Active
<1>5. AskedFirst
    BY <1>2 DEF Init, AskedFirst, NoProfile
<1>6. AskedEnough
    BY Disjoint DEF Init, AskedEnough, NoProfile
<1>7. WithinSemaphore
  <2>1. \A r \in Rounds : Active(r) = {}
    BY <1>2 DEF Active
  <2> QED
    BY <1>1, <2>1, FS_EmptySet DEF WithinSemaphore
<1> QED
    BY <1>3, <1>4, <1>5, <1>6, <1>7 DEF NotificationsInvariant

\* Every step keeps the invariant.
LEMMA StepInvariant == NotificationsInvariant /\ [Next]_vars => NotificationsInvariant'
BY TypeStep, PlacedStep, EnqueuedStep, SentOnceStep, AskedBeforeSentStep, AskedFirstStep,
   AskedEnoughStep, WithinSemaphoreStep DEF NotificationsInvariant

\* The inductive invariant: goroutines of a round in progress are each of a notification
\* of their own, and what they have asked and sent is in step with the collections.
THEOREM NotificationsInvariantHolds == Spec => []NotificationsInvariant
<1>1. Init => NotificationsInvariant
    BY InitInvariant
<1>2. NotificationsInvariant /\ [Next]_vars => NotificationsInvariant'
    BY StepInvariant
<1> QED
    BY <1>1, <1>2, PTL DEF Spec

\* The state has the shape the code gives it.
THEOREM NotificationsTypeCorrect == Spec => []TypeOK
<1>1. NotificationsInvariant => TypeOK
    BY DEF NotificationsInvariant
<1> QED
    BY <1>1, NotificationsInvariantHolds, PTL

\* notifications.go:255: whatever the rounds, answers and failures, a notification is
\* repeated only when its own goroutine failed or was left behind.
THEOREM RepeatsHaveACauseAlways == Spec => []RepeatsHaveACause
<1>1. NotificationsInvariant => RepeatsHaveACause
  <2> SUFFICES ASSUME NotificationsInvariant, NEW n \in IDs, n \notin disturbed
               PROVE  ~(sent[n] > 1)
    BY DEF RepeatsHaveACause
  <2>1. sent[n] <= 1 /\ sent[n] \in Nat
    BY DEF NotificationsInvariant, SentOnce, TypeOK
  <2> QED
    BY <2>1
<1> QED
    BY <1>1, NotificationsInvariantHolds, PTL

\* notifications.go:301: an undisturbed user is asked once per notification, and once
\* more for each call that failed.
THEOREM AskedAtMostOncePerNotificationAlways == Spec => []AskedAtMostOncePerNotification
<1>1. NotificationsInvariant => AskedAtMostOncePerNotification
  <2> SUFFICES ASSUME NotificationsInvariant, NEW u \in Users, Mine(u) \cap disturbed = {}
               PROVE  asked[u] <= Cardinality(Mine(u)) + faults
    BY DEF AskedAtMostOncePerNotification
  <2>1. asked[u] \in Nat /\ faults \in Nat
    BY DEF NotificationsInvariant, TypeOK
  <2>2. \/ asked[u] + AboutToAsk(u) <= Cardinality(Mine(u)) + faults
        \/ asked[u] <= Unrecorded(u) + faults
    BY DEF NotificationsInvariant, AskedEnough
  <2> QED
    BY <2>1, <2>2, Disjoint
<1> QED
    BY <1>1, NotificationsInvariantHolds, PTL

\* The question comes first, even for users who accept unasked.
THEOREM AskedBeforeSentAlways == Spec => []AskedBeforeSent
<1>1. NotificationsInvariant => AskedBeforeSent
    BY DEF NotificationsInvariant
<1> QED
    BY <1>1, NotificationsInvariantHolds, PTL

\* notifications.go:171: a round never has more goroutines at work than the semaphore
\* has room for, nor does the round it left behind.
THEOREM WithinSemaphoreAlways == Spec => []WithinSemaphore
<1>1. NotificationsInvariant => WithinSemaphore
    BY DEF NotificationsInvariant
<1> QED
    BY <1>1, NotificationsInvariantHolds, PTL
=============================================================================
