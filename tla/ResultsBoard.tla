---------------------------- MODULE ResultsBoard ----------------------------
(***************************************************************************)
(* What the results collection promises its readers, without caches,       *)
(* images, handlers or restarts: a board that shows, for every election,   *)
(* nothing, some tally the election has had so far, or, once the election  *)
(* is closed, its last tally, and that for good.                           *)
(***************************************************************************)
EXTENDS Naturals

CONSTANTS Elections, MaxTally

VARIABLES
    tally,   \* the ballots the chain has counted
    closed,  \* has the election ended?
    board    \* what is published

boardVars == <<tally, closed, board>>

Init ==
    /\ tally = [e \in Elections |-> 0]
    /\ closed = [e \in Elections |-> FALSE]
    /\ board = [e \in Elections |-> [stage |-> "absent", tally |-> 0]]

Count(e) ==
    /\ ~closed[e]
    /\ tally[e] < MaxTally
    /\ tally' = [tally EXCEPT ![e] = @ + 1]
    /\ UNCHANGED <<closed, board>>

Close(e) ==
    /\ ~closed[e]
    /\ closed' = [closed EXCEPT ![e] = TRUE]
    /\ UNCHANGED <<tally, board>>

PublishPartial(e, n) ==
    /\ board[e].stage # "finalized"
    /\ n <= tally[e]
    /\ board' = [board EXCEPT ![e] = [stage |-> "partial", tally |-> n]]
    /\ UNCHANGED <<tally, closed>>

PublishFinal(e) ==
    /\ closed[e]
    /\ board' = [board EXCEPT ![e] = [stage |-> "finalized", tally |-> tally[e]]]
    /\ UNCHANGED <<tally, closed>>

Next ==
    \E e \in Elections :
        \/ Count(e) \/ Close(e) \/ PublishFinal(e)
        \/ \E n \in 0..MaxTally : PublishPartial(e, n)

Spec == Init /\ [][Next]_boardVars
=============================================================================
