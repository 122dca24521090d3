------------------------------ MODULE MCCensus ------------------------------
(* Instances of Census for TLC.                                            *)
EXTENDS CensusProperties, TLC

MCSymmetry == Permutations(Users)
=============================================================================
