-------------------------- MODULE VotersProperties --------------------------
(* What the lists of voters and the reminders must satisfy.                *)
EXTENDS Voters, FiniteSetsExt

Reached == {u \in Users : messages[u] > 0}

\* IncreaseVoteCount does several writes and any of them may be the last, the
\* process may die, and saving the creator's profile may bring back an old count:
\* whatever happens, no count tells of more votes than there were, and a voter in
\* the list is a vote of the election (mongo/votes.go:17-62).
CountsAreReal ==
    /\ \A u \in Users : casted[u] <= ballots[u]
    /\ list # Nil => \A u \in list.voters : ballots[u] > 0
    /\ list # Nil /\ list.voters # {} =>
          election # Nil /\ Cardinality(list.voters) <= election.votes
    /\ election # Nil => election.votes <= MapThenSumSet(LAMBDA u : ballots[u], Users)

\* However many tasks run at once, and whether or not what they sent was recorded,
\* all reminders of an election together reach no more users than the flag
\* maxDirectMessages allows (reminders.go:107-120).
ReachWithinLimit == Cardinality(Reached) <= MaxDMs

\* A user recorded as reminded has been sent a message, and no later request will
\* remind them again, although the list of remindable voters is written from a
\* snapshot of the reminded ones (mongo/votes.go:103-142, 253-263).
RemindedOnce ==
    list # Nil => /\ list.reminded \subseteq Reached
                  /\ list.reminded \cap list.remindable = {}

\* Once populated, the list of remindable voters only shrinks, and voters and
\* reminded users stay, whatever votes and tasks overlap: nobody who voted since, or
\* was reminded, becomes remindable again (mongo/votes.go:118-137, 279-287).
ListsMoveForward ==
    [][list # Nil =>
          /\ list' # Nil
          /\ list.voters \subseteq list'.voters
          /\ list.reminded \subseteq list'.reminded
          /\ saving.at # "set" => list'.remindable \subseteq list.remindable]_vars

-----------------------------------------------------------------------------
(* Why the reminders stay within the limit: the inductive invariant.       *)

\* No task has anybody to remind, and nobody has been reminded.
NobodyExposed ==
    /\ Reached = {}
    /\ \A t \in Tasks : task[t].todo = {}

\* The list exists by the time the remindable voters are written into it.
ListToSet == saving.at = "set" => list # Nil

\* Before the remindable voters are written there are none, so that the snapshot
\* they are written from is empty.
Unpopulated ==
    /\ saving.reminded = {}
    /\ list = Nil \/ saving.at \in {"waiting", "populate", "create", "set"} =>
          NobodyExposed /\ (list # Nil => list.remindable = {} /\ list.reminded = {})

\* All that was, is being or may still be reminded fits in a set of users that was
\* within the limit when the first request was accepted.
Contained ==
    NobodyExposed \/ \E S \in SUBSET Users :
        /\ Cardinality(S) <= MaxDMs
        /\ Reached \subseteq S
        /\ \A t \in Tasks : task[t].todo \subseteq S
        /\ list # Nil => list.remindable \subseteq S

\* What a task means to record it has sent.
SentWasReceived == \A t \in Tasks : task[t].sent \subseteq Reached

VotersInvariant ==
    TypeOK /\ ListToSet /\ Unpopulated /\ Contained /\ SentWasReceived /\ RemindedOnce

-----------------------------------------------------------------------------
(* Why the counts are real: the ballots that are no longer to be recorded  *)
(* were, or never will be.                                                 *)

Recorded == [u \in Users |-> ballots[u] - pending[u]]
Total(f, S) == MapThenSumSet(LAMBDA x : f[x], S)

\* No count is ahead of the ballots recorded, nor is the copy of the creator's that is
\* about to be written back.
CountsRecorded ==
    /\ \A u \in Users : pending[u] <= ballots[u] /\ casted[u] <= Recorded[u]
    /\ saving.casted <= Recorded[Creator]
    /\ list # Nil => \A u \in list.voters : ballots[u] > 0
    /\ election # Nil => election.votes <= Total(Recorded, Users)

\* The election is counted before its list of voters.
VotersCounted ==
    list # Nil /\ list.voters # {} =>
        election # Nil /\ Cardinality(list.voters) <= election.votes

CountsInvariant == CountsRecorded /\ VotersCounted

=============================================================================
