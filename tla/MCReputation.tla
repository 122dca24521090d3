---------------------------- MODULE MCReputation ----------------------------
EXTENDS Reputation, TLC

\* Everybody votes in the polls of a channel, which one user owns.
MCOwner == [c \in Communities |-> CHOOSE u \in Users : TRUE]
MCVoters == [c \in Communities |-> Users]
MCCensusType == [c \in Communities |-> "channel"]
MCLn == (0 :> 0) @@ (10 :> 2)
Counts(f, e, v, p, c, mean) ==
  [followers |-> f, elections |-> e, votes |-> v, participations |-> p, communities |-> c,
   participation |-> mean]
\* A vote that is worth nothing yet, and the activity of a heavy user with
\* more followers than the documented cap counts, of whom most leave.
MCLevels ==
  <<Counts(0, 0, 1, 0, 1, 0), Counts(300000, 20, 100, 100, 1, 50), Counts(4000, 20, 101, 100, 1, 50)>>
=============================================================================
