---------------------------- MODULE VotersProofs ----------------------------
(* Proofs about votes and reminders, for any users, tasks and limits.      *)
EXTENDS VotersProperties, FiniteSetTheorems, WellFoundedInduction, TLAPS

-----------------------------------------------------------------------------
(* Types.                                                                  *)

\* addVoterToElection leaves a well-formed list.
LEMMA VoterListed ==
    ASSUME NEW l, l = Nil \/ l \in List, NEW u \in Users
    PROVE  WithVoter(l, u) \in List
BY DEF WithVoter, List, EmptyList

\* So does recording the reminders of a task.
LEMMA RemindedListed ==
    ASSUME NEW l, l = Nil \/ l \in List, NEW k, k.sent \in SUBSET Users
    PROVE  WithReminded(l, k) \in List
<1>1. CASE l = Nil
    BY <1>1 DEF WithReminded, List, EmptyList
<1>2. CASE l # Nil
    BY <1>2 DEF WithReminded, List
<1> QED
    BY <1>1, <1>2

\* Counting a vote leaves an election document.
LEMMA VoteCounted ==
    ASSUME NEW e \in [votes : Nat, community : BOOLEAN]
    PROVE  [e EXCEPT !.votes = @ + 1] \in [votes : Nat, community : BOOLEAN]
OBVIOUS

\* Every step keeps the types.
LEMMA TypeStep == TypeOK /\ ListToSet /\ [Next]_vars => TypeOK'
<1> SUFFICES ASSUME TypeOK, ListToSet, [Next]_vars PROVE TypeOK'
    OBVIOUS
<1> USE VotersAssumption DEF TypeOK
<1>1. CASE SetElectionIdForCensusRoot
    BY <1>1 DEF SetElectionIdForCensusRoot
<1>2. CASE AddElection
    BY <1>2 DEF AddElection, SavingAt
<1>3. CASE PopulateRead
    BY <1>3 DEF PopulateRead, SavingAt, List
<1>4. CASE PopulateCreate
    BY <1>4 DEF PopulateCreate, SavingAt, List, EmptyList
<1>5. CASE PopulateSet
  <2>1. list' = Nil \/ list' \in List
    BY <1>5 DEF PopulateSet, List, ListToSet
  <2> QED
    BY <1>5, <2>1 DEF PopulateSet, SavingAt
<1>6. CASE ReadProfile
    BY <1>6 DEF ReadProfile, SavingAt
<1>7. CASE UpdateProfile
    BY <1>7 DEF UpdateProfile, SavingAt, Stopped
<1>8. CASE SavingFails
    BY <1>8 DEF SavingFails, SavingAt, Stopped
<1>9. ASSUME NEW u \in Users, CastVote(u) PROVE TypeOK'
    BY <1>9 DEF CastVote
<1>10. ASSUME NEW u \in Users, IncreaseVoteCount(u) PROVE TypeOK'
  <2>1. pending' \in [Users -> Nat]
    BY <1>10 DEF IncreaseVoteCount
  <2>2. casted' \in [Users -> Nat]
    BY <1>10 DEF IncreaseVoteCount, user
  <2>3. election' = Nil \/ election' \in [votes : Nat, community : BOOLEAN]
    <3>1. PICK done \in 0..voters :
             LET found == IF election = Nil /\ done >= fallback
                          THEN [votes |-> 0, community |-> FALSE] ELSE election
             IN  election' = IF done >= votes THEN [found EXCEPT !.votes = @ + 1] ELSE found
        BY <1>10 DEF IncreaseVoteCount
    <3>2. CASE election = Nil
        <4>1. CASE done \in {0, 1}
            BY <3>1, <3>2, <4>1 DEF fallback, votes
        <4>2. CASE done = 2
            BY <3>1, <3>2, <4>2 DEF fallback, votes
        <4>3. CASE done \in {3, 4}
            <5>1. election' = [[votes |-> 0, community |-> FALSE] EXCEPT !.votes = @ + 1]
                BY <3>1, <3>2, <4>3 DEF fallback, votes
            <5>2. [votes |-> 0, community |-> FALSE] \in [votes : Nat, community : BOOLEAN]
                OBVIOUS
            <5> QED
                BY <5>1, <5>2, VoteCounted, Zenon
        <4> QED
            BY <4>1, <4>2, <4>3 DEF voters
    <3>3. CASE election \in [votes : Nat, community : BOOLEAN]
        <4>1. CASE election # Nil
            BY <3>1, <3>3, <4>1
        <4> QED
            BY <3>2, <4>1
    <3> QED
        BY <3>2, <3>3
  <2>4. list' = Nil \/ list' \in List
    <3>1. list' = list \/ list' = WithVoter(list, u)
        BY <1>10 DEF IncreaseVoteCount
    <3>2. WithVoter(list, u) \in List
        BY VoterListed, Zenon
    <3> QED
        BY <3>1, <3>2
  <2> QED
    BY <1>10, <2>1, <2>2, <2>3, <2>4 DEF IncreaseVoteCount
<1>11. ASSUME NEW t \in Tasks, NEW chosen \in SUBSET Users, SendReminders(t, chosen)
       PROVE  TypeOK'
    BY <1>11 DEF SendReminders, TaskAt, List
<1>12. ASSUME NEW t \in Tasks, NEW u \in Users, DirectMessage(t, u) PROVE TypeOK'
  <2>1. messages' \in [Users -> Nat]
    BY <1>12 DEF DirectMessage
  <2>2. task' = [task EXCEPT ![t] = [task[t] EXCEPT !.todo = @ \ {u}, !.sent = @ \cup {u}]]
    BY <1>12 DEF DirectMessage
  <2>3. [task[t] EXCEPT !.todo = @ \ {u}, !.sent = @ \cup {u}] \in
            [at : TaskAt, todo : SUBSET Users, sent : SUBSET Users]
    <3>1. task[t] \in [at : TaskAt, todo : SUBSET Users, sent : SUBSET Users]
        OBVIOUS
    <3> HIDE DEF TypeOK
    <3> QED
        BY <3>1
  <2> QED
    BY <1>12, <2>1, <2>2, <2>3 DEF DirectMessage
<1>13. ASSUME NEW t \in Tasks, NEW u \in Users, DirectMessageFails(t, u) PROVE TypeOK'
    BY <1>13 DEF DirectMessageFails, Dies, IdleTask, TaskAt, SavingAt, Stopped
<1>14. ASSUME NEW t \in Tasks, RemindersSent(t) PROVE TypeOK'
  <2>1. list' = Nil \/ list' \in List
    <3>1. task[t].sent \in SUBSET Users
        OBVIOUS
    <3>2. WithReminded(list, task[t]) \in List
        BY <3>1, RemindedListed, Zenon
    <3> QED
        BY <1>14, <3>2 DEF RemindersSent
  <2> QED
    BY <1>14, <2>1 DEF RemindersSent, TaskAt
<1>15. ASSUME NEW t \in Tasks, RemindersQueue(t) PROVE TypeOK'
    BY <1>15 DEF RemindersQueue, IdleTask, TaskAt
<1>16. CASE Crash
    BY <1>16 DEF Crash, Dies, IdleTask, TaskAt, SavingAt, Stopped
<1>17. CASE UNCHANGED vars
    BY <1>17 DEF vars
<1> QED
    BY <1>1, <1>2, <1>3, <1>4, <1>5, <1>6, <1>7, <1>8, <1>9, <1>10, <1>11, <1>12,
       <1>13, <1>14, <1>15, <1>16, <1>17 DEF Next

-----------------------------------------------------------------------------
(* How a step changes the list and who is exposed to reminders.            *)

\* Steps that leave the list, the tasks and the messages alone keep what is said of
\* them.
LEMMA QuietStep ==
    ASSUME Contained, SentWasReceived, RemindedOnce, UNCHANGED <<list, task, messages>>
    PROVE  /\ Contained' /\ SentWasReceived' /\ RemindedOnce'
           /\ NobodyExposed => NobodyExposed'
BY DEF Contained, SentWasReceived, RemindedOnce, NobodyExposed, Reached

\* What adding a voter does to a list.
LEMMA VoterEffect ==
    ASSUME NEW l, l = Nil \/ l \in List, NEW u \in Users
    PROVE  LET m == WithVoter(l, u)
           IN  /\ m \in List
               /\ l = Nil => m.remindable = {} /\ m.reminded = {}
               /\ l # Nil => /\ l.voters \subseteq m.voters
                             /\ m.remindable \subseteq l.remindable
                             /\ m.reminded = l.reminded
BY DEF WithVoter, List, EmptyList

\* What recording the reminders of a task does to a list.
LEMMA RemindedEffect ==
    ASSUME NEW l, l = Nil \/ l \in List, NEW k, k.sent \in SUBSET Users
    PROVE  LET m == WithReminded(l, k)
           IN  /\ m \in List
               /\ l = Nil => m.remindable = {} /\ m.reminded = {}
               /\ l # Nil => /\ m.voters = l.voters
                             /\ m.remindable = l.remindable \ k.sent
                             /\ m.reminded = l.reminded \cup k.sent
<1>1. CASE l = Nil
    BY <1>1, NoListIsNil DEF WithReminded, List, EmptyList
<1>2. CASE l # Nil
    BY <1>2 DEF WithReminded, List
<1> QED
    BY <1>1, <1>2

\* A step that only changes the list, to one with no more remindable users, keeps
\* reminders contained.
LEMMA ShrinkingContained ==
    ASSUME Contained, UNCHANGED <<task, messages>>, list # Nil,
           list'.remindable \subseteq list.remindable
    PROVE  Contained'
BY DEF Contained, NobodyExposed, Reached

-----------------------------------------------------------------------------
(* The invariant of the voters document and the reminders.                 *)

\* Saving the election up to the writing of the remindable voters.
LEMMA SavingStep ==
    ASSUME VotersInvariant,
           \/ SetElectionIdForCensusRoot \/ AddElection \/ PopulateRead \/ PopulateCreate
           \/ PopulateSet \/ ReadProfile \/ UpdateProfile \/ SavingFails
    PROVE  ListToSet' /\ Unpopulated' /\ Contained' /\ SentWasReceived' /\ RemindedOnce'
<1> USE DEF VotersInvariant
<1>1. CASE \/ SetElectionIdForCensusRoot \/ AddElection \/ PopulateRead \/ ReadProfile
           \/ UpdateProfile \/ SavingFails
  <2>1. UNCHANGED <<list, task, messages>>
    BY <1>1 DEF SetElectionIdForCensusRoot, AddElection, PopulateRead, ReadProfile,
                UpdateProfile, SavingFails
  <2>2. Contained' /\ SentWasReceived' /\ RemindedOnce' /\ (NobodyExposed => NobodyExposed')
    BY <2>1, QuietStep
  <2>3. /\ saving'.reminded = {}
        /\ saving'.at = "set" => list # Nil
        /\ saving'.at \in {"waiting", "populate", "create", "set"} =>
              saving.at \in {"waiting", "populate", "create", "set"}
    <3> USE DEF Unpopulated, ListToSet, TypeOK
    <3>1. CASE SetElectionIdForCensusRoot
        BY <3>1 DEF SetElectionIdForCensusRoot
    <3>2. CASE AddElection
        BY <3>2 DEF AddElection
    <3>3. CASE PopulateRead
        <4>1. CASE list = Nil
            BY <3>3, <4>1 DEF PopulateRead
        <4>2. CASE list # Nil
            BY <3>3, <4>2 DEF PopulateRead
        <4> QED
            BY <4>1, <4>2
    <3>4. CASE ReadProfile
        BY <3>4 DEF ReadProfile
    <3>5. CASE UpdateProfile \/ SavingFails
        BY <3>5 DEF UpdateProfile, SavingFails, Stopped
    <3> QED
        BY <1>1, <3>1, <3>2, <3>3, <3>4, <3>5
  <2> QED
    BY <2>1, <2>2, <2>3 DEF Unpopulated, ListToSet
<1>2. CASE PopulateCreate
  <2>1. /\ list = Nil /\ list' = EmptyList /\ list' # Nil
        /\ UNCHANGED <<task, messages>>
        /\ saving' = [saving EXCEPT !.at = "set"]
    BY <1>2, NoListIsNil DEF PopulateCreate, List, EmptyList
  <2>2. NobodyExposed /\ NobodyExposed'
    BY <2>1 DEF Unpopulated, NobodyExposed, Reached
  <2>3. list'.remindable = {} /\ list'.reminded = {}
    BY <2>1 DEF EmptyList
  <2>4. saving'.reminded = {}
    BY <2>1 DEF Unpopulated, TypeOK
  <2>5. SentWasReceived'
    BY <2>1 DEF SentWasReceived, Reached
  <2> QED
    BY <2>1, <2>2, <2>3, <2>4, <2>5
    DEF Unpopulated, ListToSet, Contained, RemindedOnce
<1>3. CASE PopulateSet
  <2>1. /\ UNCHANGED <<task, messages>>
        /\ list # Nil
        /\ saving'.at = "profile" /\ saving'.reminded = {}
        /\ NobodyExposed
        /\ list.reminded = {}
    BY <1>3 DEF PopulateSet, Unpopulated, ListToSet, TypeOK
  <2>2. list' \in List /\ list'.reminded = {}
    BY <1>3, <2>1, VotersAssumption DEF PopulateSet, TypeOK, List
  <2>3. NobodyExposed'
    BY <2>1 DEF NobodyExposed, Reached
  <2>4. SentWasReceived'
    BY <2>1 DEF SentWasReceived, Reached
  <2> QED
    BY <2>1, <2>2, <2>3, <2>4, NoListIsNil
    DEF Unpopulated, ListToSet, Contained, RemindedOnce
<1> QED
    BY <1>1, <1>2, <1>3

\* Recording a vote.
LEMMA VoteStep ==
    ASSUME VotersInvariant, NEW u \in Users, CastVote(u) \/ IncreaseVoteCount(u)
    PROVE  ListToSet' /\ Unpopulated' /\ Contained' /\ SentWasReceived' /\ RemindedOnce'
<1> USE DEF VotersInvariant
<1>1. UNCHANGED <<saving, task, messages>>
    BY DEF CastVote, IncreaseVoteCount
<1>2. list' = list \/ list' = WithVoter(list, u)
    BY DEF CastVote, IncreaseVoteCount
<1>3. CASE list' = list
    BY <1>1, <1>3, QuietStep DEF Unpopulated, ListToSet
<1>4. CASE list' = WithVoter(list, u)
  <2>1. list = Nil \/ list \in List
    BY DEF TypeOK
  <2>2. /\ list' \in List
        /\ list = Nil => list'.remindable = {} /\ list'.reminded = {}
        /\ list # Nil => /\ list'.remindable \subseteq list.remindable
                         /\ list'.reminded = list.reminded
    BY <1>4, <2>1, VoterEffect, Zenon
  <2>3. NobodyExposed => NobodyExposed'
    BY <1>1 DEF NobodyExposed, Reached
  <2>4. ListToSet' /\ Unpopulated'
    BY <1>1, <2>2, <2>3, NoListIsNil DEF ListToSet, Unpopulated
  <2>5. Contained'
    <3>1. CASE list = Nil
        BY <2>3, <3>1 DEF Unpopulated, Contained
    <3>2. CASE list # Nil
        BY <1>1, <2>2, <3>2, ShrinkingContained
    <3> QED
        BY <3>1, <3>2
  <2>6. SentWasReceived'
    BY <1>1 DEF SentWasReceived, Reached
  <2>7. RemindedOnce'
    BY <1>1, <2>2 DEF RemindedOnce, Reached
  <2> QED
    BY <2>4, <2>5, <2>6, <2>7
<1> QED
    BY <1>2, <1>3, <1>4

\* Accepting a request and sending messages.  The set that contains the reminders is
\* the list of remindable users of the first request with somebody to remind.
LEMMA SendStep ==
    ASSUME VotersInvariant, NEW t \in Tasks, NEW u \in Users, NEW chosen \in SUBSET Users,
           SendReminders(t, chosen) \/ DirectMessage(t, u)
    PROVE  ListToSet' /\ Unpopulated' /\ Contained' /\ SentWasReceived' /\ RemindedOnce'
<1> USE DEF VotersInvariant
<1>1. UNCHANGED <<list, saving>> /\ ListToSet'
    BY DEF SendReminders, DirectMessage, ListToSet
<1>2. CASE SendReminders(t, chosen)
  <2>1. list # Nil /\ list \in List /\ UNCHANGED messages
    BY <1>2 DEF SendReminders, TypeOK
  <2>2. Cardinality(list.remindable) <= MaxDMs
    <3>1. PICK limit \in 0..MaxDMs : Cardinality(list.remindable) <= limit
        BY <1>2 DEF SendReminders, WithinLimit
    <3>2. Cardinality(list.remindable) \in Nat
        BY <2>1, VotersAssumption, FS_Subset, FS_CardinalityType DEF List
    <3> QED
        BY <3>1, <3>2, VotersAssumption
  <2>3. /\ \A k \in Tasks \ {t} : task'[k] = task[k]
        /\ task'[t].todo = chosen \cap list.remindable
        /\ task'[t].sent = {}
    BY <1>2 DEF SendReminders, TypeOK
  <2>4. SentWasReceived' /\ RemindedOnce'
    BY <1>1, <2>1, <2>3 DEF SentWasReceived, RemindedOnce, Reached
  <2>5. Unpopulated'
    BY <1>1, <2>1, <2>3 DEF Unpopulated, NobodyExposed, Reached
  <2>6. Contained'
    <3>1. CASE NobodyExposed
        BY <1>1, <2>1, <2>2, <2>3, <3>1 DEF Contained, NobodyExposed, Reached, List
    <3>2. CASE ~NobodyExposed
        BY <1>1, <2>1, <2>3, <3>2 DEF Contained, Reached
    <3> QED
        BY <3>1, <3>2
  <2> QED
    BY <1>1, <2>4, <2>5, <2>6
<1>3. CASE DirectMessage(t, u)
  <2>1. /\ u \in task[t].todo
        /\ messages' = [messages EXCEPT ![u] = @ + 1]
        /\ \A k \in Tasks \ {t} : task'[k] = task[k]
        /\ task'[t].todo = task[t].todo \ {u}
        /\ task'[t].sent = task[t].sent \cup {u}
    BY <1>3 DEF DirectMessage, TypeOK
  <2>2. Reached' = Reached \cup {u}
    BY <2>1 DEF Reached, TypeOK
  <2>3. ~NobodyExposed /\ list # Nil
    BY <2>1 DEF NobodyExposed, Unpopulated
  <2>4. SentWasReceived' /\ RemindedOnce'
    BY <1>1, <2>1, <2>2 DEF SentWasReceived, RemindedOnce
  <2>5. Unpopulated'
    BY <1>1, <2>3 DEF Unpopulated
  <2>6. Contained'
    <3>1. PICK S \in SUBSET Users :
              /\ Cardinality(S) <= MaxDMs
              /\ Reached \subseteq S
              /\ \A k \in Tasks : task[k].todo \subseteq S
              /\ list # Nil => list.remindable \subseteq S
        BY <2>3 DEF Contained
    <3>2. /\ Reached' \subseteq S
          /\ \A k \in Tasks : task'[k].todo \subseteq S
        BY <2>1, <2>2, <3>1
    <3> QED
        BY <1>1, <3>1, <3>2 DEF Contained
  <2> QED
    BY <1>1, <2>4, <2>5, <2>6
<1> QED
    BY <1>2, <1>3

\* Recording reminders, and dropping a completed task.
LEMMA RecordStep ==
    ASSUME VotersInvariant, NEW t \in Tasks, RemindersSent(t) \/ RemindersQueue(t)
    PROVE  ListToSet' /\ Unpopulated' /\ Contained' /\ SentWasReceived' /\ RemindedOnce'
<1> USE DEF VotersInvariant
<1>1. UNCHANGED <<saving, messages>> /\ Reached' = Reached
    BY DEF RemindersSent, RemindersQueue, Reached
<1>2. \A k \in Tasks : task'[k].todo \subseteq task[k].todo
                        /\ task'[k].sent \subseteq task[k].sent
    BY DEF RemindersSent, RemindersQueue, IdleTask, TypeOK
<1>3. SentWasReceived' /\ (NobodyExposed => NobodyExposed')
    BY <1>1, <1>2 DEF SentWasReceived, NobodyExposed
<1>4. CASE list' = list
    BY <1>1, <1>2, <1>3, <1>4
    DEF ListToSet, Unpopulated, Contained, RemindedOnce
<1>5. CASE list' = WithReminded(list, task[t])
  <2>1. (list = Nil \/ list \in List) /\ task[t].sent \in SUBSET Users
    BY DEF TypeOK
  <2>2. /\ list' \in List
        /\ list = Nil => list'.remindable = {} /\ list'.reminded = {}
        /\ list # Nil => /\ list'.remindable = list.remindable \ task[t].sent
                         /\ list'.reminded = list.reminded \cup task[t].sent
    BY <1>5, <2>1, RemindedEffect, Zenon
  <2>3. task[t].sent \subseteq Reached
    BY DEF SentWasReceived
  <2>4. RemindedOnce'
    BY <1>1, <2>2, <2>3 DEF RemindedOnce
  <2>5. ListToSet' /\ Unpopulated'
    BY <1>1, <1>3, <2>2, <2>3, NoListIsNil DEF ListToSet, Unpopulated, NobodyExposed
  <2>6. Contained'
    <3>1. CASE NobodyExposed
        BY <1>3, <3>1 DEF Contained
    <3>2. CASE ~NobodyExposed
        BY <1>1, <1>2, <2>2, <3>2 DEF Contained, Unpopulated
    <3> QED
        BY <3>1, <3>2
  <2> QED
    BY <1>3, <2>4, <2>5, <2>6
<1> QED
    BY <1>4, <1>5 DEF RemindersSent, RemindersQueue

\* The death of the process, in the middle of a message or not.
LEMMA DeathStep ==
    ASSUME VotersInvariant, Crash \/ \E t \in Tasks, u \in Users : DirectMessageFails(t, u)
    PROVE  ListToSet' /\ Unpopulated' /\ Contained' /\ SentWasReceived' /\ RemindedOnce'
<1> USE DEF VotersInvariant
<1>1. /\ UNCHANGED list
      /\ saving'.at = "stopped" /\ saving'.reminded = {}
      /\ \A k \in Tasks : task'[k].todo = {} /\ task'[k].sent = {}
    BY DEF Crash, DirectMessageFails, Dies, Stopped, IdleTask
<1>2. CASE UNCHANGED messages
  <2>1. Reached' = Reached
    BY <1>2 DEF Reached
  <2> QED
    BY <1>1, <2>1
    DEF ListToSet, Unpopulated, Contained, NobodyExposed, SentWasReceived, RemindedOnce
<1>3. ASSUME NEW t \in Tasks, NEW u \in Users, u \in task[t].todo,
             messages' = [messages EXCEPT ![u] = @ + 1]
      PROVE  ListToSet' /\ Unpopulated' /\ Contained' /\ SentWasReceived' /\ RemindedOnce'
  <2>1. Reached' = Reached \cup {u}
    BY <1>3 DEF Reached, TypeOK
  <2>2. ~NobodyExposed /\ list # Nil
    BY <1>3 DEF NobodyExposed, Unpopulated
  <2>3. PICK S \in SUBSET Users :
            /\ Cardinality(S) <= MaxDMs
            /\ Reached \subseteq S
            /\ \A k \in Tasks : task[k].todo \subseteq S
            /\ list # Nil => list.remindable \subseteq S
    BY <2>2 DEF Contained
  <2>4. Contained'
    BY <1>1, <1>3, <2>1, <2>3 DEF Contained
  <2> QED
    BY <1>1, <2>1, <2>2, <2>4 DEF ListToSet, Unpopulated, SentWasReceived, RemindedOnce
<1> QED
    BY <1>2, <1>3 DEF Crash, DirectMessageFails

\* The whole invariant is inductive.
LEMMA InvariantStep == VotersInvariant /\ [Next]_vars => VotersInvariant'
<1> SUFFICES ASSUME VotersInvariant, [Next]_vars PROVE VotersInvariant'
    OBVIOUS
<1>1. TypeOK'
    BY TypeStep DEF VotersInvariant
<1>2. ListToSet' /\ Unpopulated' /\ Contained' /\ SentWasReceived' /\ RemindedOnce'
  <2>1. CASE UNCHANGED vars
    BY <2>1, QuietStep DEF VotersInvariant, vars, ListToSet, Unpopulated
  <2>2. ASSUME NEW t \in Tasks, NEW chosen \in SUBSET Users, SendReminders(t, chosen)
        PROVE  ListToSet' /\ Unpopulated' /\ Contained' /\ SentWasReceived' /\ RemindedOnce'
    BY <2>2, SendStep, VotersAssumption
  <2>3. ASSUME NEW t \in Tasks, NEW u \in Users, DirectMessage(t, u)
        PROVE  ListToSet' /\ Unpopulated' /\ Contained' /\ SentWasReceived' /\ RemindedOnce'
    BY <2>3, SendStep
  <2> QED
    BY <2>1, <2>2, <2>3, SavingStep, VoteStep, RecordStep, DeathStep DEF Next
<1> QED
    BY <1>1, <1>2 DEF VotersInvariant

\* The invariant holds at the start.
LEMMA InvariantInit == Init => VotersInvariant
<1> SUFFICES ASSUME Init PROVE VotersInvariant
    OBVIOUS
<1>1. TypeOK
  <2>1. /\ saving \in [at : SavingAt, reminded : SUBSET Users, casted : Nat]
        /\ crashes \in 0..MaxCrashes
    BY VotersAssumption DEF Init, SavingAt
  <2>2. IdleTask \in [at : TaskAt, todo : SUBSET Users, sent : SUBSET Users]
    BY DEF IdleTask, TaskAt
  <2> QED
    BY <2>1, <2>2 DEF Init, TypeOK
<1>2. Reached = {}
    BY DEF Init, Reached
<1>3. \A t \in Tasks : task[t].todo = {} /\ task[t].sent = {}
    BY DEF Init, IdleTask
<1>4. list = Nil /\ saving.at = "waiting" /\ saving.reminded = {}
    BY DEF Init
<1> QED
    BY <1>1, <1>2, <1>3, <1>4
    DEF VotersInvariant, ListToSet, Unpopulated, Contained, NobodyExposed,
        SentWasReceived, RemindedOnce

\* The inductive invariant always holds.
LEMMA InvariantAlways == Spec => []VotersInvariant
BY InvariantInit, InvariantStep, PTL DEF Spec

-----------------------------------------------------------------------------
(* Sums.                                                                   *)

\* A set of numbers that is not empty has a least one.
LEMMA Least == ASSUME NEW T, T \subseteq Nat, T # {} PROVE \E n \in T : \A m \in T : n <= m
<1>1. PICK n \in T : \A m \in T : ~(<<m, n>> \in OpToRel(<, Nat))
    BY NatLessThanWellFounded, WFMin, Zenon
<1>2. \A m \in T : ~(m < n)
    BY <1>1 DEF OpToRel
<1> QED
    BY <1>2

\* A set that has zero, and with a number the next, has all.
LEMMA Induction ==
    ASSUME NEW S, 0 \in S, \A n \in Nat : n \in S => n + 1 \in S
    PROVE  \A n \in Nat : n \in S
<1> SUFFICES ASSUME Nat \ S # {} PROVE FALSE
    OBVIOUS
<1>1. PICK n \in Nat \ S : \A m \in Nat \ S : n <= m
    BY Least
<1>2. n - 1 \in Nat /\ ~(n <= n - 1) /\ (n - 1) + 1 = n
    BY <1>1
<1>3. n - 1 \in S
    BY <1>1, <1>2
<1> QED
    BY <1>1, <1>2, <1>3

\* A sum takes the elements of a set one by one.  g has the sums of the subsets of S that
\* have up to n elements.
First(s) == CHOOSE x \in s : TRUE
UpTo(S, n) == {s \in SUBSET S : Cardinality(s) <= n}
IsSum(f, W, g) ==
    g = [s \in W |-> IF s = {} THEN 0 ELSE f[First(s)] + g[s \ {First(s)}]]

LEMMA Smaller ==
    ASSUME NEW S, IsFiniteSet(S), NEW s \in SUBSET S, s # {}
    PROVE  /\ First(s) \in s /\ s \ {First(s)} \in SUBSET S
           /\ Cardinality(s) \in Nat /\ Cardinality(s \ {First(s)}) = Cardinality(s) - 1
           /\ Cardinality(s \ {First(s)}) \in Nat
<1>1. First(s) \in s
    BY DEF First
<1>2. IsFiniteSet(s)
    BY FS_Subset
<1> QED
    BY <1>1, <1>2, FS_RemoveElement, FS_CardinalityType, FS_Subset

LEMMA SumsUpTo ==
    ASSUME NEW S, IsFiniteSet(S), NEW f, NEW n \in Nat
    PROVE  \E g : IsSum(f, UpTo(S, n), g)
<1> DEFINE Good == {m \in Nat : \E g : IsSum(f, UpTo(S, m), g)}
<1>1. 0 \in Good
  <2> DEFINE g == [s \in UpTo(S, 0) |-> 0]
  <2>1. \A s \in UpTo(S, 0) : s = {}
    BY FS_EmptySet, FS_Subset, FS_CardinalityType DEF UpTo
  <2>2. g = [s \in UpTo(S, 0) |-> IF s = {} THEN 0 ELSE f[First(s)] + g[s \ {First(s)}]]
    BY <2>1
  <2>3. IsSum(f, UpTo(S, 0), g)
    BY <2>2 DEF IsSum
  <2> QED
    BY <2>3
<1>2. ASSUME NEW m \in Nat, m \in Good PROVE m + 1 \in Good
  <2>1. PICK g : g = [s \in UpTo(S, m) |-> IF s = {} THEN 0 ELSE f[First(s)] + g[s \ {First(s)}]]
    BY <1>2 DEF IsSum
  <2> DEFINE h == [s \in UpTo(S, m + 1) |-> IF s = {} THEN 0 ELSE f[First(s)] + g[s \ {First(s)}]]
  <2>2. ASSUME NEW s \in UpTo(S, m + 1), s # {}
        PROVE  s \ {First(s)} \in UpTo(S, m) /\ s \ {First(s)} \in UpTo(S, m + 1)
    BY <2>2, Smaller DEF UpTo
  <2>3. ASSUME NEW s \in UpTo(S, m), s \in UpTo(S, m + 1) PROVE h[s] = g[s]
    BY <2>1, <2>3
  <2>4. \A s \in UpTo(S, m + 1) : s # {} => h[s \ {First(s)}] = g[s \ {First(s)}]
    BY <2>2, <2>3
  <2>5. h = [s \in UpTo(S, m + 1) |-> IF s = {} THEN 0 ELSE f[First(s)] + h[s \ {First(s)}]]
    BY <2>4
  <2> HIDE DEF h
  <2>6. IsSum(f, UpTo(S, m + 1), h)
    BY <2>5 DEF IsSum
  <2> QED
    BY <2>6
<1> HIDE DEF Good
<1>3. n \in Good
    BY <1>1, <1>2, Induction
<1> QED
    BY <1>3 DEF Good

\* So there is a function of all sums, and the total is one of them.
LEMMA TotalIsASum ==
    ASSUME NEW S, IsFiniteSet(S), NEW f
    PROVE  \E g : IsSum(f, SUBSET S, g) /\ Total(f, S) = g[S]
<1> DEFINE c == CHOOSE g : g = [s \in SUBSET S |->
                    IF s = {} THEN 0
                    ELSE f[CHOOSE x \in s : TRUE] + g[s \ {CHOOSE x \in s : TRUE}]]
<1>1. UpTo(S, Cardinality(S)) = SUBSET S
    BY FS_Subset DEF UpTo
<1>2. \E g : IsSum(f, SUBSET S, g)
  <2>1. Cardinality(S) \in Nat
    BY FS_CardinalityType
  <2>2. \E g : IsSum(f, UpTo(S, Cardinality(S)), g)
    BY <2>1, SumsUpTo
  <2> QED
    BY <1>1, <2>2
<1>3. IsSum(f, SUBSET S, c)
    BY <1>2 DEF IsSum, First
<1>4. Total(f, S) = c[S]
    BY DEF Total, MapThenSumSet, MapThenFoldSet
<1> QED
    BY <1>3, <1>4

\* What is no smaller element by element is no smaller in total, and larger by k if one
\* element is.
LEMMA TotalGrows ==
    ASSUME NEW S, IsFiniteSet(S), NEW f \in [S -> Nat], NEW e \in [S -> Nat],
           NEW u \in S, NEW k \in Nat, \A x \in S : f[x] + (IF x = u THEN k ELSE 0) <= e[x]
    PROVE  Total(f, S) \in Nat /\ Total(e, S) \in Nat /\ Total(f, S) + k <= Total(e, S)
<1>1. PICK g : IsSum(f, SUBSET S, g) /\ Total(f, S) = g[S]
    BY TotalIsASum
<1>2. PICK h : IsSum(e, SUBSET S, h) /\ Total(e, S) = h[S]
    BY TotalIsASum
<1> DEFINE P(s) == /\ g[s] \in Nat /\ h[s] \in Nat
                   /\ g[s] + (IF u \in s THEN k ELSE 0) <= h[s]
           Good == {n \in Nat : \A s \in SUBSET S : Cardinality(s) = n => P(s)}
<1>3. 0 \in Good
  <2>1. \A s \in SUBSET S : Cardinality(s) = 0 => s = {}
    BY FS_EmptySet, FS_Subset
  <2>2. g[{}] = 0 /\ h[{}] = 0
    BY <1>1, <1>2 DEF IsSum
  <2> QED
    BY <2>1, <2>2
<1>4. ASSUME NEW n \in Nat, n \in Good PROVE n + 1 \in Good
  <2> SUFFICES ASSUME NEW s \in SUBSET S, Cardinality(s) = n + 1 PROVE P(s)
    OBVIOUS
  <2> DEFINE x == First(s)
             t == s \ {First(s)}
  <2>1. s # {}
    BY FS_EmptySet
  <2>2. x \in S /\ x \in s /\ t \in SUBSET S /\ Cardinality(t) = n
    BY <2>1, Smaller
  <2>3. P(t)
    BY <1>4, <2>2
  <2>4. g[s] = f[x] + g[t] /\ h[s] = e[x] + h[t]
    BY <1>1, <1>2, <2>1 DEF IsSum
  <2>5. f[x] \in Nat /\ e[x] \in Nat /\ f[x] + (IF x = u THEN k ELSE 0) <= e[x]
    BY <2>2
  <2>6. (u \in s <=> x = u \/ u \in t) /\ ~(x = u /\ u \in t)
    BY <2>2
  <2> HIDE DEF x, t
  <2>7. CASE x = u
    BY <2>3, <2>4, <2>5, <2>6, <2>7
  <2>8. CASE x # u
    BY <2>3, <2>4, <2>5, <2>6, <2>8
  <2> QED
    BY <2>7, <2>8
<1> HIDE DEF Good
<1>5. Cardinality(S) \in Good
    BY <1>3, <1>4, Induction, FS_CardinalityType
<1>6. P(S)
    BY <1>5 DEF Good
<1> QED
    BY <1>1, <1>2, <1>6

-----------------------------------------------------------------------------
(* The invariant of the counts.                                            *)

\* The ballots recorded are numbers.
LEMMA RecordedCounts ==
    ASSUME TypeOK, CountsRecorded
    PROVE  /\ Recorded \in [Users -> Nat] /\ \A u \in Users : Recorded[u] <= ballots[u]
           /\ Total(Recorded, Users) \in Nat
<1>1. ASSUME NEW u \in Users PROVE Recorded[u] \in Nat /\ Recorded[u] <= ballots[u]
    BY DEF TypeOK, CountsRecorded, Recorded
<1>2. Recorded \in [Users -> Nat]
    BY <1>1 DEF Recorded
<1>3. Total(Recorded, Users) \in Nat
  <2>1. Creator \in Users /\ IsFiniteSet(Users)
    BY VotersAssumption
  <2>2. \A x \in Users : Recorded[x] + (IF x = Creator THEN 0 ELSE 0) <= Recorded[x]
    BY <1>1
  <2> HIDE DEF Recorded
  <2> QED
    BY <1>2, <2>1, <2>2, TotalGrows
<1> QED
    BY <1>1, <1>2, <1>3

\* A step that counts no vote keeps the counts real, if what it writes is.
LEMMA NothingCounted ==
    ASSUME TypeOK, TypeOK', CountsInvariant,
           \A u \in Users : /\ pending'[u] <= ballots'[u] /\ ballots[u] <= ballots'[u]
                            /\ Recorded[u] <= Recorded'[u] /\ casted'[u] <= Recorded'[u],
           saving'.casted <= Recorded'[Creator],
           election' = election \/ (election = Nil /\ election'.votes = 0),
           list' # Nil => list'.voters = {} \/ (list # Nil /\ list'.voters = list.voters)
    PROVE  CountsInvariant'
<1>1. Recorded \in [Users -> Nat] /\ Total(Recorded, Users) \in Nat
    BY RecordedCounts DEF CountsInvariant
<1>2. \A u \in Users : Recorded'[u] \in Nat /\ Recorded'[u] = ballots'[u] - pending'[u]
    BY DEF TypeOK, Recorded
<1>3. Recorded' \in [Users -> Nat]
    BY <1>2 DEF Recorded
<1>4. Total(Recorded, Users) <= Total(Recorded', Users) /\ Total(Recorded', Users) \in Nat
  <2>1. Creator \in Users /\ IsFiniteSet(Users)
    BY VotersAssumption
  <2>2. \A x \in Users : Recorded[x] + (IF x = Creator THEN 0 ELSE 0) <= Recorded'[x]
    BY <1>1, <1>2
  <2>3. Total(Recorded, Users) + 0 <= Total(Recorded', Users) /\ Total(Recorded', Users) \in Nat
    BY <1>1, <1>3, <2>1, <2>2, TotalGrows
  <2> QED
    BY <1>1, <2>3
<1>5. election' # Nil => election'.votes <= Total(Recorded', Users)
  <2>1. CASE election' = election /\ election # Nil
    <3>1. election.votes \in Nat /\ election.votes <= Total(Recorded, Users)
        BY <2>1 DEF TypeOK, CountsInvariant, CountsRecorded
    <3> QED
        BY <1>1, <1>4, <2>1, <3>1
  <2>2. CASE election = Nil /\ election'.votes = 0
    BY <1>4, <2>2
  <2> QED
    BY <2>1, <2>2
<1>6. list' # Nil => \A u \in list'.voters : ballots'[u] > 0
  <2> SUFFICES ASSUME list' # Nil, NEW u \in list'.voters PROVE ballots'[u] > 0
    OBVIOUS
  <2>1. list # Nil /\ u \in list.voters /\ u \in Users
    BY DEF TypeOK, List
  <2>2. ballots[u] > 0 /\ ballots[u] \in Nat /\ ballots'[u] \in Nat /\ ballots[u] <= ballots'[u]
    BY <2>1 DEF TypeOK, CountsInvariant, CountsRecorded
  <2> QED
    BY <2>2
<1>7. CountsRecorded'
    BY <1>5, <1>6 DEF CountsRecorded
<1>8. VotersCounted'
    BY DEF VotersCounted, CountsInvariant
<1> QED
    BY <1>7, <1>8 DEF CountsInvariant

\* One element more is at most one more.
LEMMA OneMore ==
    ASSUME NEW S, IsFiniteSet(S), NEW x
    PROVE  Cardinality(S \cup {x}) <= Cardinality(S) + 1 /\ Cardinality(S \cup {x}) \in Nat
<1>1. Cardinality(S) \in Nat
    BY FS_CardinalityType
<1>2. CASE x \in S
  <2>1. S \cup {x} = S
    BY <1>2
  <2>2. Cardinality(S \cup {x}) = Cardinality(S)
    BY <2>1
  <2> QED
    BY <1>1, <2>2
<1>3. CASE x \notin S
  <2>1. Cardinality(S \cup {x}) = Cardinality(S) + 1
    BY <1>3, FS_AddElement
  <2> QED
    BY <1>1, <2>1
<1> QED
    BY <1>2, <1>3

\* A vote is counted with the user first, then the election, then its list.
LEMMA VoteIsCounted ==
    ASSUME TypeOK, TypeOK', CountsInvariant, NEW u \in Users, IncreaseVoteCount(u)
    PROVE  CountsInvariant'
<1>1. Recorded \in [Users -> Nat] /\ Total(Recorded, Users) \in Nat
    BY RecordedCounts DEF CountsInvariant
<1>2. /\ ballots \in [Users -> Nat] /\ pending \in [Users -> Nat] /\ casted \in [Users -> Nat]
      /\ \A v \in Users : pending[v] <= ballots[v] /\ casted[v] <= Recorded[v]
      /\ saving.casted \in Nat /\ saving.casted <= Recorded[Creator]
    BY DEF TypeOK, CountsInvariant, CountsRecorded
<1>3. /\ pending[u] > 0 /\ pending' = [pending EXCEPT ![u] = @ - 1] /\ UNCHANGED <<ballots, saving>>
    BY DEF IncreaseVoteCount
<1>4. \A v \in Users : /\ pending'[v] = IF v = u THEN pending[v] - 1 ELSE pending[v]
                       /\ Recorded'[v] = ballots[v] - pending'[v]
    BY <1>2, <1>3 DEF Recorded
<1>5. \A v \in Users : /\ Recorded[v] = ballots[v] - pending[v]
                       /\ Recorded'[v] = IF v = u THEN Recorded[v] + 1 ELSE Recorded[v]
                       /\ Recorded'[v] \in Nat /\ Recorded[v] \in Nat
    BY <1>1, <1>2, <1>4 DEF Recorded
<1>6. Recorded' \in [Users -> Nat]
    BY <1>5 DEF Recorded
<1>7. Total(Recorded, Users) + 1 <= Total(Recorded', Users) /\ Total(Recorded', Users) \in Nat
  <2>1. \A x \in Users : Recorded[x] + (IF x = u THEN 1 ELSE 0) <= Recorded'[x]
    BY <1>5
  <2> QED
    BY <1>1, <1>6, <2>1, VotersAssumption, TotalGrows
<1>8. PICK done \in 0..voters :
         LET found == IF election = Nil /\ done >= fallback
                      THEN [votes |-> 0, community |-> FALSE] ELSE election
         IN  /\ casted' = IF done >= user THEN [casted EXCEPT ![u] = @ + 1] ELSE casted
             /\ election' = IF done >= votes THEN [found EXCEPT !.votes = @ + 1] ELSE found
             /\ list' = IF done >= voters THEN WithVoter(list, u) ELSE list
    BY DEF IncreaseVoteCount
<1>9. \A v \in Users : casted'[v] <= Recorded'[v]
    BY <1>2, <1>5, <1>8
<1>10. \A v \in Users : pending'[v] <= ballots'[v]
    BY <1>2, <1>3, <1>4
<1>11. saving'.casted <= Recorded'[Creator]
    BY <1>2, <1>3, <1>5, VotersAssumption
<1> DEFINE counted == IF election = Nil THEN 0 ELSE election.votes
<1>12. counted \in Nat /\ counted <= Total(Recorded, Users)
    BY <1>1 DEF TypeOK, CountsInvariant, CountsRecorded
<1>13. /\ done >= votes => election' # Nil /\ election'.votes = counted + 1
       /\ ~(done >= votes) /\ election' # Nil => election'.votes = counted
       /\ ~(done >= votes) /\ election # Nil => election' # Nil
  <2> DEFINE found == IF election = Nil /\ done >= fallback
                      THEN [votes |-> 0, community |-> FALSE] ELSE election
  <2>1. election' = IF done >= votes THEN [found EXCEPT !.votes = @ + 1] ELSE found
    BY <1>8
  <2>2. election # Nil => election \in [votes : Nat, community : BOOLEAN]
    BY DEF TypeOK
  <2>3. done >= votes => done >= fallback
    BY <1>8 DEF votes, fallback, voters
  <2>4. (election # Nil \/ done >= fallback) =>
            found \in [votes : Nat, community : BOOLEAN] /\ found.votes = counted
    BY <2>2
  <2>5. ~(election # Nil \/ done >= fallback) => found = Nil
    OBVIOUS
  <2>6. election' = Nil \/ election' \in [votes : Nat, community : BOOLEAN]
    BY DEF TypeOK
  <2> HIDE DEF found, counted
  <2>7. CASE done >= votes
    <3>1. found \in [votes : Nat, community : BOOLEAN] /\ found.votes = counted
        BY <2>3, <2>4, <2>7
    <3>2. election' = [found EXCEPT !.votes = @ + 1]
        BY <2>1, <2>7
    <3>3. election'.votes = counted + 1
        BY <3>1, <3>2
    <3>4. election' # Nil
        BY <3>1, <3>2, NoElectionIsNil
    <3> QED
        BY <2>7, <3>3, <3>4
  <2>8. CASE ~(done >= votes)
    <3>1. election' = found
        BY <2>1, <2>8
    <3> QED
        BY <2>4, <2>5, <2>8, <3>1 DEF found
  <2> QED
    BY <2>7, <2>8
<1> HIDE DEF counted
<1>14. election' # Nil => election'.votes <= Total(Recorded', Users)
    BY <1>1, <1>7, <1>12, <1>13
<1>15. ballots[u] > 0
    BY <1>2, <1>3
<1> DEFINE old == IF list = Nil THEN {} ELSE list.voters
<1>16. /\ list' # Nil => list'.voters = IF done >= voters THEN old \cup {u} ELSE old
       /\ old \subseteq Users
  <2>1. /\ old \subseteq Users /\ (list = Nil \/ list \in List)
        /\ list' = IF done >= voters THEN WithVoter(list, u) ELSE list
    BY <1>8 DEF TypeOK, List
  <2>2. CASE list = Nil
    <3>1. WithVoter(list, u).voters = {u} /\ old = {}
        BY <2>2 DEF WithVoter, EmptyList
    <3> QED
        BY <2>1, <2>2, <3>1
  <2>3. CASE list # Nil /\ u \in list.voters
    <3>1. WithVoter(list, u) = list /\ old = list.voters
        BY <2>3 DEF WithVoter
    <3>2. old \cup {u} = old
        BY <2>3, <3>1
    <3> HIDE DEF old
    <3> QED
        BY <2>1, <2>3, <3>1, <3>2
  <2>4. CASE list # Nil /\ u \notin list.voters
    <3>1. WithVoter(list, u).voters = list.voters \cup {u} /\ old = list.voters
        BY <2>1, <2>4 DEF WithVoter, List
    <3> HIDE DEF old
    <3> QED
        BY <2>1, <2>4, <3>1
  <2> QED
    BY <2>2, <2>3, <2>4
<1>17. old # {} => election # Nil /\ Cardinality(old) <= counted
    BY DEF CountsInvariant, VotersCounted, counted
<1>18. \A v \in old : ballots[v] > 0
    BY DEF CountsInvariant, CountsRecorded
<1> HIDE DEF old
<1>19. list' # Nil => \A v \in list'.voters : ballots'[v] > 0
    BY <1>3, <1>15, <1>16, <1>18
<1>20. VotersCounted'
  <2> SUFFICES ASSUME list' # Nil, list'.voters # {}
               PROVE  election' # Nil /\ Cardinality(list'.voters) <= election'.votes
    BY DEF VotersCounted
  <2>1. IsFiniteSet(old) /\ Cardinality(old) \in Nat
    BY <1>16, VotersAssumption, FS_Subset, FS_CardinalityType
  <2>2. CASE done >= voters
    <3>1. done >= votes /\ list'.voters = old \cup {u}
        BY <1>16, <2>2 DEF votes, voters
    <3>2. Cardinality(old \cup {u}) <= Cardinality(old) + 1 /\ Cardinality(old \cup {u}) \in Nat
        BY <2>1, OneMore
    <3>3. Cardinality(old) <= counted
        BY <1>12, <1>17, FS_EmptySet
    <3> QED
        BY <1>12, <1>13, <2>1, <3>1, <3>2, <3>3
  <2>3. CASE ~(done >= voters)
    <3>1. list'.voters = old /\ old # {}
        BY <1>16, <2>3
    <3> QED
        BY <1>12, <1>13, <1>17, <2>1, <3>1
  <2> QED
    BY <2>2, <2>3
<1>21. CountsRecorded'
    BY <1>9, <1>10, <1>11, <1>14, <1>19 DEF CountsRecorded
<1> QED
    BY <1>20, <1>21 DEF CountsInvariant

\* Every step keeps the counts real.
LEMMA CountsStep ==
    TypeOK /\ ListToSet /\ CountsInvariant /\ [Next]_vars => CountsInvariant'
<1> SUFFICES ASSUME TypeOK, ListToSet, CountsInvariant, [Next]_vars PROVE CountsInvariant'
    OBVIOUS
<1>1. TypeOK'
    BY TypeStep
<1>2. /\ ballots \in [Users -> Nat] /\ pending \in [Users -> Nat] /\ casted \in [Users -> Nat]
      /\ Recorded \in [Users -> Nat] /\ Creator \in Users
      /\ \A u \in Users : /\ pending[u] <= ballots[u] /\ casted[u] <= Recorded[u]
                          /\ Recorded[u] <= ballots[u] /\ Recorded[u] = ballots[u] - pending[u]
      /\ saving.casted \in Nat /\ saving.casted <= Recorded[Creator]
    BY RecordedCounts, VotersAssumption DEF TypeOK, CountsInvariant, CountsRecorded, Recorded
<1> DEFINE Same == list' # Nil =>
                      list'.voters = {} \/ (list # Nil /\ list'.voters = list.voters)
<1>3. ASSUME UNCHANGED <<ballots, pending, election>>, Same,
             \A u \in Users : casted'[u] <= Recorded[u], saving'.casted <= Recorded[Creator]
      PROVE  CountsInvariant'
  <2>1. Recorded' = Recorded
    BY <1>3 DEF Recorded
  <2> QED
    BY <1>1, <1>2, <1>3, <2>1, NothingCounted
<1>4. ASSUME UNCHANGED <<ballots, pending, casted, election, list>>,
             saving'.casted \in {0, casted[Creator], saving.casted}
      PROVE  CountsInvariant'
    BY <1>2, <1>3, <1>4
<1>5. CASE AddElection
  <2>1. /\ UNCHANGED <<ballots, pending, casted, list>>
        /\ election = Nil /\ election'.votes = 0 /\ saving'.casted = saving.casted
    BY <1>5 DEF AddElection, TypeOK
  <2>2. Recorded' = Recorded
    BY <2>1 DEF Recorded
  <2> QED
    BY <1>1, <1>2, <2>1, <2>2, NothingCounted
<1>6. CASE SetElectionIdForCensusRoot \/ PopulateRead \/ ReadProfile \/ SavingFails
  <2>1. UNCHANGED <<ballots, pending, casted, election, list>>
    BY <1>6 DEF SetElectionIdForCensusRoot, PopulateRead, ReadProfile, SavingFails
  <2>2. saving'.casted \in {0, casted[Creator], saving.casted}
    <3>1. saving \in [at : SavingAt, reminded : SUBSET Users, casted : Nat]
        BY DEF TypeOK
    <3>2. CASE SetElectionIdForCensusRoot
        BY <3>2 DEF SetElectionIdForCensusRoot
    <3>3. CASE PopulateRead
      <4>1. saving' = [saving EXCEPT !.at = "create", !.reminded = {}]
            \/ saving' = [saving EXCEPT !.at = "set", !.reminded = list.reminded]
        BY <3>3 DEF PopulateRead
      <4> QED
        BY <3>1, <4>1
    <3>4. CASE ReadProfile
        BY <3>1, <3>4 DEF ReadProfile
    <3>5. CASE SavingFails
        BY <3>5 DEF SavingFails, Stopped
    <3> QED
        BY <1>6, <3>2, <3>3, <3>4, <3>5
  <2> QED
    BY <1>4, <2>1, <2>2
<1>7. CASE PopulateCreate \/ PopulateSet
  <2>1. UNCHANGED <<ballots, pending, casted, election>> /\ saving'.casted = saving.casted
    BY <1>7 DEF PopulateCreate, PopulateSet, TypeOK
  <2>2. Same
    BY <1>7 DEF PopulateCreate, PopulateSet, EmptyList, ListToSet, TypeOK, List
  <2> QED
    BY <1>2, <1>3, <2>1, <2>2
<1>8. CASE UpdateProfile
  <2>1. UNCHANGED <<ballots, pending, election, list>> /\ saving'.casted = 0
    BY <1>8 DEF UpdateProfile, Stopped
  <2>2. \A u \in Users : casted'[u] <= Recorded[u]
    BY <1>2, <1>8 DEF UpdateProfile
  <2> QED
    BY <1>2, <1>3, <2>1, <2>2
<1>9. ASSUME NEW u \in Users, CastVote(u) PROVE CountsInvariant'
  <2>1. /\ \A v \in Users : /\ ballots'[v] = IF v = u THEN ballots[v] + 1 ELSE ballots[v]
                            /\ pending'[v] = IF v = u THEN pending[v] + 1 ELSE pending[v]
        /\ UNCHANGED <<casted, election, list, saving>>
    BY <1>2, <1>9 DEF CastVote
  <2>2. \A v \in Users : Recorded'[v] = Recorded[v]
    BY <1>2, <2>1 DEF Recorded
  <2> QED
    BY <1>1, <1>2, <2>1, <2>2, NothingCounted
<1>10. ASSUME NEW u \in Users, IncreaseVoteCount(u) PROVE CountsInvariant'
    BY <1>1, <1>10, VoteIsCounted
<1>11. ASSUME NEW t \in Tasks, NEW chosen \in SUBSET Users, SendReminders(t, chosen)
       PROVE  CountsInvariant'
    BY <1>4, <1>11 DEF SendReminders
<1>12. ASSUME NEW t \in Tasks, NEW u \in Users, DirectMessage(t, u) PROVE CountsInvariant'
    BY <1>4, <1>12 DEF DirectMessage
<1>13. ASSUME NEW t \in Tasks, RemindersSent(t) \/ RemindersQueue(t) PROVE CountsInvariant'
  <2>1. UNCHANGED <<ballots, pending, casted, election, saving>>
    BY <1>13 DEF RemindersSent, RemindersQueue
  <2>2. Same
    <3>1. CASE list' = list
        BY <3>1
    <3>2. CASE list' = WithReminded(list, task[t])
        BY <3>2 DEF WithReminded, EmptyList, TypeOK, List
    <3> QED
        BY <1>13, <3>1, <3>2 DEF RemindersSent, RemindersQueue
  <2> QED
    BY <1>2, <1>3, <2>1, <2>2
<1>14. ASSUME Dies PROVE CountsInvariant'
  <2>1. /\ UNCHANGED <<ballots, casted, election, list>> /\ saving'.casted = 0
        /\ \A u \in Users : pending'[u] = 0
    BY <1>14 DEF Dies, Stopped
  <2>2. \A u \in Users : Recorded'[u] = ballots[u]
    BY <1>2, <2>1 DEF Recorded
  <2> QED
    BY <1>1, <1>2, <2>1, <2>2, NothingCounted
<1>15. CASE UNCHANGED vars
    BY <1>4, <1>15 DEF vars
<1> QED
    BY <1>5, <1>6, <1>7, <1>8, <1>9, <1>10, <1>11, <1>12, <1>13, <1>14, <1>15
    DEF Next, Crash, DirectMessageFails

\* At the start nothing is counted.
LEMMA CountsInit == Init => CountsInvariant
<1> SUFFICES ASSUME Init PROVE CountsInvariant
    OBVIOUS
<1>1. \A u \in Users : Recorded[u] = 0
    BY DEF Init, Recorded
<1> QED
    BY <1>1, VotersAssumption DEF Init, CountsInvariant, CountsRecorded, VotersCounted

\* The counts are never ahead of the ballots recorded.
LEMMA CountsAlways == Spec => []CountsInvariant
<1>1. VotersInvariant /\ CountsInvariant /\ [Next]_vars => CountsInvariant'
    BY CountsStep DEF VotersInvariant
<1> QED
    BY <1>1, CountsInit, InvariantAlways, PTL DEF Spec

-----------------------------------------------------------------------------
(* The theorems.                                                           *)

\* Saving, voting and reminding keep every document well formed, for any number of
\* users, tasks, votes and crashes.
THEOREM VotersTypeCorrect == Spec => []TypeOK
<1>1. VotersInvariant => TypeOK
    BY DEF VotersInvariant
<1> QED
    BY <1>1, InvariantAlways, PTL

\* mongo/votes.go:17-62: whatever writes fail and whatever copies are written back, no
\* count tells of more votes than there were, and a voter in the list is a vote.
THEOREM CountsAreRealAlways == Spec => []CountsAreReal
<1>1. ASSUME VotersInvariant, CountsInvariant PROVE CountsAreReal
  <2>1. TypeOK /\ CountsRecorded /\ VotersCounted
    BY <1>1 DEF VotersInvariant, CountsInvariant
  <2>2. /\ Recorded \in [Users -> Nat] /\ \A u \in Users : Recorded[u] <= ballots[u]
        /\ Total(Recorded, Users) \in Nat
    BY <2>1, RecordedCounts
  <2>3. \A u \in Users : casted[u] <= ballots[u]
    BY <2>1, <2>2 DEF TypeOK, CountsRecorded
  <2>4. Total(Recorded, Users) <= Total(ballots, Users) /\ Total(ballots, Users) \in Nat
    <3>1. ballots \in [Users -> Nat] /\ Creator \in Users /\ IsFiniteSet(Users)
        BY <2>1, VotersAssumption DEF TypeOK
    <3>2. \A x \in Users : Recorded[x] + (IF x = Creator THEN 0 ELSE 0) <= ballots[x]
        BY <2>2, <3>1
    <3>3. Total(Recorded, Users) + 0 <= Total(ballots, Users) /\ Total(ballots, Users) \in Nat
        BY <2>2, <3>1, <3>2, TotalGrows
    <3> QED
        BY <2>2, <3>3
  <2>5. election # Nil => election.votes <= Total(ballots, Users)
    <3> SUFFICES ASSUME election # Nil PROVE election.votes <= Total(ballots, Users)
        OBVIOUS
    <3>1. election.votes \in Nat /\ election.votes <= Total(Recorded, Users)
        BY <2>1 DEF TypeOK, CountsRecorded
    <3> QED
        BY <2>2, <2>4, <3>1
  <2>6. Total(ballots, Users) = MapThenSumSet(LAMBDA u : ballots[u], Users)
    BY DEF Total
  <2> QED
    BY <2>1, <2>3, <2>5, <2>6 DEF CountsAreReal, CountsRecorded, VotersCounted
<1> QED
    BY <1>1, InvariantAlways, CountsAlways, PTL

\* Whatever tasks run at once (reminders.go:107-164), the reminders of an election
\* reach no more users than maxDirectMessages.
THEOREM ReachWithinLimitAlways == Spec => []ReachWithinLimit
<1>1. VotersInvariant => ReachWithinLimit
  <2> SUFFICES ASSUME VotersInvariant PROVE Cardinality(Reached) <= MaxDMs
    BY DEF ReachWithinLimit
  <2>1. CASE Reached = {}
    BY <2>1, FS_EmptySet, VotersAssumption
  <2>2. CASE Reached # {}
    <3>1. PICK S \in SUBSET Users : Cardinality(S) <= MaxDMs /\ Reached \subseteq S
        BY <2>2 DEF VotersInvariant, Contained, NobodyExposed
    <3>2. IsFiniteSet(S)
        BY VotersAssumption, FS_Subset
    <3>3. /\ Cardinality(Reached) <= Cardinality(S)
          /\ Cardinality(Reached) \in Nat /\ Cardinality(S) \in Nat
        BY <3>1, <3>2, FS_Subset, FS_CardinalityType
    <3> QED
        BY <3>1, <3>3, VotersAssumption
  <2> QED
    BY <2>1, <2>2
<1> QED
    BY <1>1, InvariantAlways, PTL

\* Who is recorded as reminded was sent a message and is not remindable any more
\* (mongo/votes.go:103-142).
THEOREM RemindedOnceAlways == Spec => []RemindedOnce
<1>1. VotersInvariant => RemindedOnce
    BY DEF VotersInvariant
<1> QED
    BY <1>1, InvariantAlways, PTL

\* Voters and reminded users are never forgotten, and once populated the list of
\* remindable voters only shrinks (mongo/votes.go:118-137, 279-287).
THEOREM ListsMoveForwardAlways == Spec => ListsMoveForward
<1> DEFINE Forward == list # Nil =>
              /\ list' # Nil
              /\ list.voters \subseteq list'.voters
              /\ list.reminded \subseteq list'.reminded
              /\ saving.at # "set" => list'.remindable \subseteq list.remindable
<1>1. ASSUME VotersInvariant, [Next]_vars PROVE Forward
  <2> SUFFICES ASSUME list # Nil
               PROVE  /\ list' # Nil
                      /\ list.voters \subseteq list'.voters
                      /\ list.reminded \subseteq list'.reminded
                      /\ saving.at # "set" => list'.remindable \subseteq list.remindable
    OBVIOUS
  <2>1. list \in List
    BY <1>1 DEF VotersInvariant, TypeOK
  <2>2. CASE list' = list
    BY <2>2
  <2>3. CASE PopulateSet
    BY <2>1, <2>3, NoListIsNil, VotersAssumption DEF PopulateSet, List
  <2>4. ASSUME NEW u \in Users, list' = WithVoter(list, u)
        PROVE  list' # Nil /\ list.voters \subseteq list'.voters
               /\ list.reminded \subseteq list'.reminded
               /\ list'.remindable \subseteq list.remindable
    <3>1. /\ list' \in List
          /\ list.voters \subseteq list'.voters
          /\ list'.remindable \subseteq list.remindable
          /\ list'.reminded = list.reminded
        BY <2>1, <2>4, VoterEffect, Zenon
    <3> QED
        BY <3>1, NoListIsNil
  <2>5. ASSUME NEW t \in Tasks, list' = WithReminded(list, task[t])
        PROVE  list' # Nil /\ list.voters \subseteq list'.voters
               /\ list.reminded \subseteq list'.reminded
               /\ list'.remindable \subseteq list.remindable
    <3>1. task[t].sent \in SUBSET Users
        BY <1>1 DEF VotersInvariant, TypeOK
    <3>2. /\ list' \in List
          /\ list'.voters = list.voters
          /\ list'.remindable = list.remindable \ task[t].sent
          /\ list'.reminded = list.reminded \cup task[t].sent
        BY <2>1, <2>5, <3>1, RemindedEffect, Zenon
    <3> QED
        BY <3>2, NoListIsNil
  <2>6. \/ list' = list
        \/ PopulateSet
        \/ \E u \in Users : list' = WithVoter(list, u)
        \/ \E t \in Tasks : list' = WithReminded(list, task[t])
    BY <1>1
    DEF Next, vars, SetElectionIdForCensusRoot, AddElection, PopulateRead, PopulateCreate,
        ReadProfile, UpdateProfile, SavingFails, CastVote, IncreaseVoteCount, SendReminders,
        DirectMessage, DirectMessageFails, RemindersSent, RemindersQueue, Crash, Dies
  <2> QED
    BY <2>2, <2>3, <2>4, <2>5, <2>6
<1>2. VotersInvariant /\ [Next]_vars => [Forward]_vars
    BY <1>1
<1>3. [](VotersInvariant) /\ [][Next]_vars => [][Forward]_vars
    BY <1>2, PTL
<1> QED
    BY <1>3, InvariantAlways, PTL DEF Spec, ListsMoveForward
=============================================================================
