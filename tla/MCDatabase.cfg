CONSTANTS
  r1 = r1
  r2 = r2
  Requests = {r1, r2}
  Serves <- MCServes
  MaxFaults = 1
  None = None
SPECIFICATION FairSpec
INVARIANTS SectionsAreSnapshots ImportRestores
PROPERTIES Answered
CHECK_DEADLOCK FALSE
