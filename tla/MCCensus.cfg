\* Every source, two users looked up at a time.
SPECIFICATION FairSpec
CONSTANTS
    Users = {u1, u2}
    Limit = 2
    Percents = {100}
    MaxProgress = 1
    Nil = Nil
INVARIANTS  PanicsOnlyOverRecords AnswersAreTrue
PROPERTY BuilderFinishes
CHECK_DEADLOCK FALSE
