------------------------------- MODULE Voters -------------------------------
(***************************************************************************)
(* The voters of a community's election and the reminders they are sent:   *)
(* saving a new election and populating its remindable voters              *)
(* (election.go, mongo/election.go), recording a vote (mongo/votes.go) and *)
(* the background tasks that send reminders (reminders.go).  One election: *)
(* those of others share nothing with it but the lock.                     *)
(***************************************************************************)
EXTENDS Naturals, FiniteSets

CONSTANTS
    Users,
    Participants,  \* the users in the census of the election
    Creator,       \* who creates it
    Tasks,         \* entries of the background queue
    MaxDMs,        \* the flag maxDirectMessages
    MaxBallots,    \* bound: ballots of each user, more than one when they overwrite
    MaxMessages,   \* bound: messages a user receives
    MaxCrashes,    \* bound: deaths of the process
    Nil

ASSUME VotersAssumption ==
    /\ IsFiniteSet(Users)
    /\ Participants \subseteq Users
    /\ Creator \in Users
    /\ MaxDMs \in Nat /\ MaxMessages \in Nat /\ MaxCrashes \in Nat
    /\ MaxBallots \in [Users -> Nat]

VARIABLES
    ballots,   \* ballots of each user that the chain accepted
    pending,   \* those the vote handler's goroutines have yet to record
    casted,    \* user.CastedVotes
    election,  \* the election document: its votes and community, or Nil
    list,      \* the voters document, or Nil
    linked,    \* has the census document got the election's ID?
    saving,    \* the goroutine that saves the election
    task,      \* the tasks of the background queue
    messages,  \* direct messages each user received
    crashes

vars == <<ballots, pending, casted, election, list, linked, saving, task,
          messages, crashes>>

List == [voters : SUBSET Users, remindable : SUBSET Users, reminded : SUBSET Users]
EmptyList == [voters |-> {}, remindable |-> {}, reminded |-> {}]

ASSUME NoListIsNil == Nil \notin List
ASSUME NoElectionIsNil == Nil \notin [votes : Nat, community : BOOLEAN]

SavingAt == {"waiting", "populate", "create", "set", "profile", "user", "stopped"}
TaskAt == {"idle", "sending", "completed"}
IdleTask == [at |-> "idle", todo |-> {}, sent |-> {}]
Stopped == [at |-> "stopped", reminded |-> {}, casted |-> 0]

TypeOK ==
    /\ ballots \in [Users -> Nat] /\ pending \in [Users -> Nat]
    /\ casted \in [Users -> Nat]
    /\ election = Nil \/ election \in [votes : Nat, community : BOOLEAN]
    /\ list = Nil \/ list \in List
    /\ linked \in BOOLEAN
    /\ saving \in [at : SavingAt, reminded : SUBSET Users, casted : Nat]
    /\ task \in [Tasks -> [at : TaskAt, todo : SUBSET Users, sent : SUBSET Users]]
    /\ messages \in [Users -> Nat]
    /\ crashes \in 0..MaxCrashes

Init ==
    /\ ballots = [u \in Users |-> 0] /\ pending = [u \in Users |-> 0]
    /\ casted = [u \in Users |-> 0]
    /\ election = Nil /\ list = Nil /\ linked = FALSE
    /\ saving = [at |-> "waiting", reminded |-> {}, casted |-> 0]
    /\ task = [t \in Tasks |-> IdleTask]
    /\ messages = [u \in Users |-> 0]
    /\ crashes = 0

-----------------------------------------------------------------------------
(* Saving the election.  Any step may fail, and ends the goroutine.        *)

\* createElection: the census gets the election's ID once the election is on its
\* way, in a race with the goroutine that saves it.
SetElectionIdForCensusRoot ==
    /\ ~linked /\ crashes = 0
    /\ linked' = TRUE
    /\ UNCHANGED <<ballots, pending, casted, election, list, saving, task, messages, crashes>>

\* Mutant: the community is not stored.
AddElectionAlone ==
    /\ saving.at = "waiting"
    /\ election = Nil
    /\ election' = [votes |-> 0, community |-> Nil]
    /\ saving' = [saving EXCEPT !.at = "populate"]
    /\ UNCHANGED <<ballots, pending, casted, list, linked, task, messages, crashes>>

\* AddElection, first critical section: the document is inserted, once.
AddElection ==
    /\ saving.at = "waiting"
    /\ election = Nil
    /\ election' = [votes |-> 0, community |-> TRUE]
    /\ saving' = [saving EXCEPT !.at = "populate"]
    /\ UNCHANGED <<ballots, pending, casted, list, linked, task, messages, crashes>>

\* PopulateRemindableVoters reads the census and the voters ...
PopulateRead ==
    /\ saving.at = "populate"
    /\ linked
    /\ saving' = IF list = Nil
                 THEN [saving EXCEPT !.at = "create", !.reminded = {}]
                 ELSE [saving EXCEPT !.at = "set", !.reminded = list.reminded]
    /\ UNCHANGED <<ballots, pending, casted, election, list, linked, task, messages, crashes>>

\* ... creates the list if there was none, unless a voter did so meanwhile ...
PopulateCreate ==
    /\ saving.at = "create"
    /\ list = Nil
    /\ list' = EmptyList
    /\ saving' = [saving EXCEPT !.at = "set"]
    /\ UNCHANGED <<ballots, pending, casted, election, linked, task, messages, crashes>>

\* ... and writes the participants that the list it read had not as reminded.
PopulateSet ==
    /\ saving.at = "set"
    /\ list' = [list EXCEPT !.remindable = Participants \ saving.reminded]
    /\ saving' = [saving EXCEPT !.at = "profile"]
    /\ UNCHANGED <<ballots, pending, casted, election, linked, task, messages, crashes>>

\* saveElectionAndProfile reads the creator's document ...
ReadProfile ==
    /\ saving.at = "profile"
    /\ saving' = [saving EXCEPT !.at = "user", !.casted = casted[Creator]]
    /\ UNCHANGED <<ballots, pending, casted, election, list, linked, task, messages, crashes>>

\* ... and writes it back whole; a field that is zero is left alone.
UpdateProfile ==
    /\ saving.at = "user"
    /\ casted' = [casted EXCEPT ![Creator] =
                     IF saving.casted = 0 THEN @ ELSE saving.casted]
    /\ saving' = Stopped
    /\ UNCHANGED <<ballots, pending, election, list, linked, task, messages, crashes>>

SavingFails ==
    /\ saving.at # "stopped"
    /\ saving' = Stopped
    /\ UNCHANGED <<ballots, pending, casted, election, list, linked, task, messages, crashes>>

-----------------------------------------------------------------------------
(* Votes.                                                                  *)

\* The vote handler, for an election that is in the database: the chain accepts a
\* ballot, and a goroutine is to record it.
CastVote(u) ==
    /\ election # Nil
    /\ u \in Participants
    /\ ballots[u] < MaxBallots[u]
    /\ ballots' = [ballots EXCEPT ![u] = @ + 1]
    /\ pending' = [pending EXCEPT ![u] = @ + 1]
    /\ UNCHANGED <<casted, election, list, linked, saving, task, messages, crashes>>

\* addVoterToElection
WithVoter(l, u) ==
    IF l = Nil THEN [EmptyList EXCEPT !.voters = {u}]
    ELSE IF u \in l.voters THEN l
    ELSE [l EXCEPT !.voters = @ \cup {u}, !.remindable = @ \ {u}]

\* The writes of IncreaseVoteCount, in their order.
user == 1
fallback == 2
votes == 3
voters == 4

\* Mutant: the list of voters is written before the election.
IncreaseVoteCountListFirst(u) ==
    /\ pending[u] > 0
    /\ pending' = [pending EXCEPT ![u] = @ - 1]
    /\ \E done \in 0..voters :
          /\ casted' = IF done >= user THEN [casted EXCEPT ![u] = @ + 1] ELSE casted
          /\ list' = IF done >= fallback THEN WithVoter(list, u) ELSE list
          /\ election' = IF done < votes THEN election
                         ELSE IF election = Nil THEN [votes |-> 1, community |-> FALSE]
                         ELSE [election EXCEPT !.votes = @ + 1]
    /\ UNCHANGED <<ballots, linked, saving, task, messages, crashes>>

\* IncreaseVoteCount, of which an error may leave any number of writes done.  It would
\* create an election it does not find.
IncreaseVoteCount(u) ==
    /\ pending[u] > 0
    /\ pending' = [pending EXCEPT ![u] = @ - 1]
    /\ \E done \in 0..voters :
          LET found == IF election = Nil /\ done >= fallback
                       THEN [votes |-> 0, community |-> FALSE] ELSE election
          IN  /\ casted' = IF done >= user THEN [casted EXCEPT ![u] = @ + 1] ELSE casted
              /\ election' = IF done >= votes THEN [found EXCEPT !.votes = @ + 1] ELSE found
              /\ list' = IF done >= voters THEN WithVoter(list, u) ELSE list
    /\ UNCHANGED <<ballots, linked, saving, task, messages, crashes>>

-----------------------------------------------------------------------------
(* Reminders.                                                              *)

\* Mutant: only the reminders already sent are compared with the limit.
WithinAlreadySent(l, limit) == Cardinality(l.reminded) < limit

\* The admin's reputation allows limit messages.
WithinLimit(l, limit) ==
    /\ Cardinality(l.remindable) <= limit
    /\ Cardinality(l.reminded) < limit

\* sendRemindersHandler: an admin of the community, whose reputation is worth some
\* share of MaxDMs, asks to remind the chosen users, ranked or picked one by one.
\* The task will skip those that are not remindable now.
SendReminders(t, chosen) ==
    /\ task[t].at = "idle"
    /\ chosen # {}
    /\ election # Nil /\ list # Nil
    /\ election.community
    /\ \E limit \in 0..MaxDMs : WithinLimit(list, limit)
    /\ task' = [task EXCEPT ![t] = [at |-> "sending", todo |-> chosen \cap list.remindable,
                                    sent |-> {}]]
    /\ UNCHANGED <<ballots, pending, casted, election, list, linked, saving, messages, crashes>>

\* A user of the task gets a direct message.
DirectMessage(t, u) ==
    /\ task[t].at = "sending"
    /\ u \in task[t].todo
    /\ messages[u] < MaxMessages
    /\ messages' = [messages EXCEPT ![u] = @ + 1]
    /\ task' = [task EXCEPT ![t].todo = @ \ {u}, ![t].sent = @ \cup {u}]
    /\ UNCHANGED <<ballots, pending, casted, election, list, linked, saving, crashes>>

\* Mutant: the users reminded before are forgotten.
WithRemindedOnly(l, k) ==
    [l EXCEPT !.reminded = k.sent, !.remindable = @ \ k.sent]

\* Mutant: the reminded users stay remindable.
WithRemindedKept(l, k) == [l EXCEPT !.reminded = @ \cup k.sent]

\* RemindersSent: the messages of task k are recorded in the list of the moment.
WithReminded(l, k) ==
    IF l = Nil THEN EmptyList
    ELSE [l EXCEPT !.reminded = @ \cup k.sent, !.remindable = @ \ k.sent]

\* The task ends with RemindersSent, which may fail.
RemindersSent(t) ==
    /\ task[t].at = "sending"
    /\ task[t].todo = {}
    /\ list' \in {list, WithReminded(list, task[t])}
    /\ task' = [task EXCEPT ![t].at = "completed"]
    /\ UNCHANGED <<ballots, pending, casted, election, linked, saving, messages, crashes>>

\* remindersQueueHandler drops a completed task from the queue.
RemindersQueue(t) ==
    /\ task[t].at = "completed"
    /\ task' = [task EXCEPT ![t] = IdleTask]
    /\ UNCHANGED <<ballots, pending, casted, election, list, linked, saving, messages, crashes>>

-----------------------------------------------------------------------------
\* The process dies, and what it had in memory with it.
Dies ==
    /\ crashes < MaxCrashes
    /\ crashes' = crashes + 1
    /\ task' = [t \in Tasks |-> IdleTask]
    /\ saving' = Stopped
    /\ pending' = [u \in Users |-> 0]
    /\ UNCHANGED <<ballots, casted, election, list, linked>>

Crash == Dies /\ UNCHANGED messages

\* A message fails, though it may have been delivered: the error is written into the
\* map of failures, which nobody has made, and the process panics.
DirectMessageFails(t, u) ==
    /\ task[t].at = "sending"
    /\ u \in task[t].todo
    /\ messages[u] < MaxMessages
    /\ messages' \in {messages, [messages EXCEPT ![u] = @ + 1]}
    /\ Dies

Next ==
    \/ SetElectionIdForCensusRoot
    \/ AddElection \/ PopulateRead \/ PopulateCreate \/ PopulateSet
    \/ ReadProfile \/ UpdateProfile \/ SavingFails
    \/ \E u \in Users : CastVote(u) \/ IncreaseVoteCount(u)
    \/ \E t \in Tasks : \E chosen \in SUBSET Users : SendReminders(t, chosen)
    \/ \E t \in Tasks, u \in Users :
          DirectMessage(t, u) \/ DirectMessageFails(t, u)
    \/ \E t \in Tasks : RemindersSent(t) \/ RemindersQueue(t)
    \/ Crash

Spec == Init /\ [][Next]_vars
=============================================================================
