CONSTANTS
  Users = {u1}
  Communities = {c1}
  ProfileRequests = {r1}
  Owner <- MCOwner
  Voters <- MCVoters
  CensusType <- MCCensusType
  Levels <- MCLevels
  Gains = {"vocdoniFollower", "votecasterLaunchNFT"}
  Sizes = {0, 10}
  Ln <- MCLn
  Garbage = 1000000
  MaxConcurrent = 1
  MaxFailures = 1
  MaxChanges = 2
  Nothing = Nothing
SPECIFICATION FairReputationSpec
INVARIANTS ReputationEarned
 
CHECK_DEADLOCK FALSE
