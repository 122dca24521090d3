---------------------- MODULE NotificationsProperties ----------------------
(***************************************************************************)
(* What the notifications promise to users and authors.                    *)
(***************************************************************************)
EXTENDS Notifications

\* The state has the shape the code gives it.
TypeOK ==
    /\ notifications \subseteq IDs /\ expired \subseteq IDs /\ todo \subseteq IDs
    /\ profiles \in [Users -> Profile]
    /\ announced \subseteq Polls /\ poll \in [Polls -> SUBSET IDs]
    /\ loop \in {"waiting", "handling"} /\ round \in Rounds /\ errCh \in BOOLEAN
    /\ worker \in [Rounds -> [IDs -> Steps]]
    /\ asked \in [Users -> Nat] /\ sent \in [IDs -> Nat]
    /\ disturbed \subseteq IDs /\ faults \in 0..MaxFaults /\ answers \in 0..MaxAnswers

-----------------------------------------------------------------------------
\* notifications.go:255: a notification is sent again only when its own goroutine failed
\* or was left behind, by a restart or by a round that was abandoned because another
\* notification failed.  Nothing else repeats one, whatever the rounds and the answers.
RepeatsHaveACause == \A n \in IDs : sent[n] > 1 => n \in disturbed

\* notifications.go:301: the notifications of a user may all find that nobody asked and
\* all ask.  A user is asked no more often than there are notifications for them, and
\* again only after a failed call or when one of their goroutines failed or was left
\* behind: that one may ask while the next round asks too.
Mine(u) == {n \in IDs : UserOf[n] = u}
AskedAtMostOncePerNotification ==
    \A u \in Users :
        Mine(u) \cap disturbed = {} => asked[u] <= Cardinality(Mine(u)) + faults

\* Nobody is sent a notification before they were asked: the permission request
\* precedes, even for a user who had accepted on their own.
AskedBeforeSent == \A n \in IDs : sent[n] > 0 => asked[UserOf[n]] > 0

\* Every notification comes to an end: it is sent, or muted, or its deadline passes.
\* The exception is a text that is too long for a user who accepts, retried for ever.
Settled ==
    \A n \in IDs \ TooLong : n \in notifications ~> n \notin notifications

\* The handler of a round returns ("wait for all goroutines to finish and close
\* channels", notifications.go:265), so that the manager goes on to the next.
HandlerReturns == loop = "handling" ~> loop = "waiting"

-----------------------------------------------------------------------------
(* Why the first three hold: the inductive invariant.                      *)

\* A goroutine that was not left behind is of the round in progress, which does not
\* start it twice.
Placed ==
    /\ todo \cap Active(round) = {}
    /\ loop = "waiting" => todo = {}
    /\ \A r \in Rounds, n \in IDs \ disturbed :
          worker[r][n] # "none" => r = round /\ loop = "handling"

\* Nothing has happened to what is still to be enqueued.
Enqueued ==
    \A p \in Polls :
        /\ poll[p] \subseteq p.ids /\ (p \in announced \/ poll[p] = {})
        /\ \A n \in p.ids : p \notin announced \/ n \in poll[p] =>
              /\ n \notin notifications \cup todo /\ sent[n] = 0
              /\ \A r \in Rounds : worker[r][n] = "none"

\* What was sent is being removed, was removed, or has failed to be.
SentOnce ==
    \A n \in IDs \ disturbed :
        /\ sent[n] <= 1
        /\ sent[n] = 1 =>
              /\ n \notin todo
              /\ \/ worker[round][n] \in {"remove", "failed"}
                 \/ worker[round][n] = "none" /\ n \notin notifications

\* Who may be sent a notification was asked.
AskedFirst ==
    /\ \A u \in Users : profiles[u].requested => asked[u] > 0
    /\ \A r \in Rounds, n \in IDs :
          worker[r][n] \in {"mark", "muted", "send"} => asked[UserOf[n]] > 0

\* Until a question is recorded, each was asked by a goroutine that has not recorded it;
\* then only those ask that were about to, and those whose check fails.
At(u, steps) == {n \in Mine(u) : worker[round][n] \in steps}
AboutToAsk(u) == Cardinality(At(u, {"ask"}))
Unrecorded(u) == Cardinality(At(u, {"mark", "failed"}))
AskedEnough ==
    \A u \in Users : Mine(u) \cap disturbed = {} =>
        IF profiles[u].requested
        THEN asked[u] + AboutToAsk(u) <= Cardinality(Mine(u)) + faults
        ELSE asked[u] <= Unrecorded(u) + faults

\* The goroutines of a round are no more than the semaphore lets in.
WithinSemaphore == \A r \in Rounds : Cardinality(Active(r)) <= Sem

NotificationsInvariant ==
    /\ TypeOK /\ Placed /\ Enqueued /\ SentOnce /\ AskedBeforeSent /\ AskedFirst
    /\ AskedEnough /\ WithinSemaphore
=============================================================================
