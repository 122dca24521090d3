------------------------------ MODULE MCVoters ------------------------------
(* The voters and reminders of one election, for TLC.                      *)
EXTENDS VotersProperties, TLC

\* The whole census; only the creator is told apart from the others.
MCParticipants == Users
\* Some users vote once; the creator overwrites a vote.
MCMaxBallots == [u \in Users |-> IF u = Creator THEN 2 ELSE 1]
MCSymmetry == Permutations(Users \ {Creator}) \cup Permutations(Tasks)
=============================================================================
