\* One participant more than the messages allowed, and two tasks at once.
CONSTANTS
    Users = {u1, u2, u3}
    Participants <- MCParticipants
    Creator = u1
    Tasks = {t1, t2}
    MaxDMs = 2
    MaxBallots <- MCMaxBallots
    MaxMessages = 2
    MaxCrashes = 1
    Nil = Nil
SPECIFICATION Spec
SYMMETRY MCSymmetry
CHECK_DEADLOCK FALSE
INVARIANTS TypeOK CountsAreReal ReachWithinLimit RemindedOnce
PROPERTY ListsMoveForward
