----------------------------- MODULE MCResults -----------------------------
(* Instances of Results for TLC. *)
EXTENDS ResultsProperties, TLC

CONSTANTS c1

MCCommunityOf == [e \in Elections |-> c1]

\* Nothing tells the requests apart, nor the goroutines of the loop.
MCSymmetry == Permutations(Requests) \cup Permutations(Workers)
=============================================================================
