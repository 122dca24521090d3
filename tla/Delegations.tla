---------------------------- MODULE Delegations ----------------------------
(***************************************************************************)
(* Vote delegations inside a community: the handlers that add and remove   *)
(* them, the solver of chains of delegations, the weights of the census    *)
(* that is built from them, and the check that keeps a delegator from      *)
(* voting (users.go, mongo/delegations.go, census.go, vote.go).            *)
(* StorageProofs extends this module beside others, hence the long names.  *)
(***************************************************************************)
EXTENDS Parties, Naturals, Sequences, FiniteSets, FiniteSetsExt

CONSTANTS
    Members,        \* the users the census of a community is made from
    DelegationRequests,       \* of requests that may run at the same time
    MaxDelegations, \* bound: delegations ever inserted
    MaxVotes,       \* bound: users of a community who vote or are refused
    Nil

ASSUME DelegationsAssumption ==
    /\ IsFiniteSet(Users)
    /\ Members \in [Communities -> SUBSET Users]
    /\ MaxDelegations \in Nat /\ MaxVotes \in Nat

Delegation == [id : 1..MaxDelegations, from : Users, to : Users,
               community : Communities]

VARIABLES
    delegations,  \* the delegations collection
    nextID,       \* the next ObjectID
    request,      \* the delegation a handler has checked and is to insert
    census,       \* the weights in the census of a community's poll, or Nil
    ballots,      \* who has voted in it
    refused       \* who was told that the vote had been delegated

delegationsVars == <<delegations, nextID, request, census, ballots, refused>>

Weights == [Users -> Nat]

DelegationsTypeOK ==
    /\ delegations \in SUBSET Delegation
    /\ nextID \in 1..(MaxDelegations + 1)
    /\ request \in [DelegationRequests -> [from : Users, to : Users, community : Communities] \cup {Nil}]
    /\ census \in [Communities -> Weights \cup {Nil}]
    /\ ballots \in [Communities -> SUBSET Users]
    /\ refused \in [Communities -> SUBSET Users]

DelegationsInit ==
    /\ delegations = {}
    /\ nextID = 1
    /\ request = [r \in DelegationRequests |-> Nil]
    /\ census = [c \in Communities |-> Nil]
    /\ ballots = [c \in Communities |-> {}]
    /\ refused = [c \in Communities |-> {}]

-----------------------------------------------------------------------------
(* solveNestedDelegations.  The slice it returns may hold a delegation more *)
(* than once: each comes with the ids of the chain it stands for.          *)

CommunityDelegations(c) == {d \in delegations : d.community = c}
From(ds, u) == {d \in ds : d.from = u}

Alone(d) ==
    [id |-> d.id, from |-> d.from, to |-> d.to, community |-> d.community, chain |-> <<d.id>>]
Along(d, n) ==
    [id |-> d.id, from |-> d.from, to |-> n.to, community |-> n.community,
     chain |-> <<d.id>> \o n.chain]

\* Mutant: one delegation ahead only.
SolveOneLevel(original, filtered) ==
    UNION {IF From(original, d.to) = {} THEN {Alone(d)}
           ELSE {Along(d, Alone(o)) : o \in From(original, d.to)} : d \in filtered}

SolveNestedDelegations(original, filtered) ==
    LET solve[ds \in SUBSET original] ==
            UNION {IF From(original, d.to) = {} THEN {Alone(d)}
                   ELSE {Along(d, n) : n \in solve[From(original, d.to)]} : d \in ds}
    IN  solve[filtered]

\* The users a vote of u passes through.
Reachable(ds, u) ==
    {v \in Users :
        \A S \in SUBSET Users :
            u \in S /\ (\A d \in ds : d.from \in S => d.to \in S) => v \in S}

\* The recursion ends unless it meets a cycle.
Circular(ds) == \E d \in ds : d.from \in Reachable(ds, d.to)
Solvable(ds, u) == ~Circular({d \in ds : d.from \in Reachable(ds, u)})

\* The process dies of stack exhaustion; what the handlers had in memory is lost.
Overflow ==
    /\ request' = [r \in DelegationRequests |-> Nil]
    /\ UNCHANGED <<delegations, nextID, census, ballots, refused>>

-----------------------------------------------------------------------------
(* The handlers.                                                           *)

\* Mutant: the delegations of v themselves, not where they end.
DelegatesBack(u, v, c) ==
    \E d \in From(CommunityDelegations(c), v) : d.to = u

\* Would the delegation from u to v be circular?  The final delegates of v are
\* compared with u.
CircularDelegation(u, v, c) ==
    LET ds == CommunityDelegations(c)
    IN  \E n \in SolveNestedDelegations(ds, From(ds, v)) : n.to = u

\* delegateVoteHandler, up to the check ...
DelegateVote(r, u, v, c) ==
    /\ request[r] = Nil
    /\ u # v
    /\ \/ /\ Solvable(CommunityDelegations(c), v)
          /\ ~CircularDelegation(u, v, c)
          /\ request' = [request EXCEPT ![r] = [from |-> u, to |-> v, community |-> c]]
          /\ UNCHANGED <<delegations, nextID, census, ballots, refused>>
       \/ /\ ~Solvable(CommunityDelegations(c), v)
          /\ Overflow

\* ... and the insertion, under a lock taken anew.
SetDelegation(r) ==
    /\ request[r] # Nil
    /\ nextID <= MaxDelegations
    /\ delegations' = delegations \cup
          {[id |-> nextID, from |-> request[r].from, to |-> request[r].to,
            community |-> request[r].community]}
    /\ nextID' = nextID + 1
    /\ request' = [request EXCEPT ![r] = Nil]
    /\ UNCHANGED <<census, ballots, refused>>

\* removeVoteDelegationHandler: the owner deletes a delegation by its ID.
RemoveDelegation(d) ==
    /\ d \in delegations
    /\ delegations' = delegations \ {d}
    /\ UNCHANGED <<nextID, request, census, ballots, refused>>

\* Mutant: a delegator keeps the own vote.
WeightPlusDelegated(final, u) == 1 + Cardinality({n \in final : n.to = u})

\* farcasterCensusFromFids: a vote of one's own, unless it is delegated, and one
\* for every delegation.
Weight(final, u) ==
    (IF \E n \in final : n.from = u THEN 0 ELSE 1) + Cardinality({n \in final : n.to = u})

\* The census of a community's poll, from the delegations of the moment.
CensusCommunity(c) ==
    LET ds == CommunityDelegations(c)
        final == SolveNestedDelegations(ds, ds)
    IN  /\ census[c] = Nil
        /\ \/ /\ ~Circular(ds)
              /\ census' = [census EXCEPT ![c] =
                    [u \in Users |-> IF u \in Members[c] THEN Weight(final, u) ELSE 0]]
              /\ UNCHANGED <<delegations, nextID, request, ballots, refused>>
           \/ /\ Circular(ds)
              /\ Overflow

\* The vote handler: delegators are sent away (unless their delegations cannot be
\* read), and so are those that have no weight in the census or have voted.
Vote(u, c) ==
    /\ census[c] # Nil
    /\ Cardinality(ballots[c]) + Cardinality(refused[c]) < MaxVotes
    /\ \/ /\ ~Solvable(CommunityDelegations(c), u)
          /\ Overflow
       \/ /\ Solvable(CommunityDelegations(c), u)
          /\ From(CommunityDelegations(c), u) # {}
          /\ refused' = [refused EXCEPT ![c] = @ \cup {u}]
          /\ UNCHANGED <<delegations, nextID, request, census, ballots>>
       \/ /\ census[c][u] > 0 /\ u \notin ballots[c]
          /\ ballots' = [ballots EXCEPT ![c] = @ \cup {u}]
          /\ UNCHANGED <<delegations, nextID, request, census, refused>>

DelegationsNext ==
    \/ \E r \in DelegationRequests, u, v \in Users, c \in Communities : DelegateVote(r, u, v, c)
    \/ \E r \in DelegationRequests : SetDelegation(r)
    \/ \E d \in delegations : RemoveDelegation(d)
    \/ \E c \in Communities : CensusCommunity(c)
    \/ \E u \in Users, c \in Communities : Vote(u, c)

DelegationsSpec == DelegationsInit /\ [][DelegationsNext]_delegationsVars

-----------------------------------------------------------------------------
(* What is promised.                                                       *)

\* For a user who has not delegated yet, the check of delegateVoteHandler refuses
\* exactly the delegations that would close a circle, long ones included, whatever
\* was delegated, revoked and delegated again before (users.go:180-190).
CheckIsExact ==
    \A c \in Communities, u, v \in Users :
        LET ds == CommunityDelegations(c)
            new == [id |-> nextID, from |-> u, to |-> v, community |-> c]
        IN  u # v /\ From(ds, u) = {} /\ ~Circular(ds) =>
               (CircularDelegation(u, v, c) <=> Circular(ds \cup {new}))

\* The users the vote of u ends at: those it reaches who have not delegated.
Ends(ds, u) == {v \in Reachable(ds, u) : From(ds, v) = {}}

\* Solving the chains takes every delegator to the ends of its chains, whatever
\* their length and the order they were made in (mongo/delegations.go:151-183).
SolvedToTheEnd ==
    \A c \in Communities :
        LET ds == CommunityDelegations(c)
        IN  ~Circular(ds) =>
               {<<n.from, n.to>> : n \in SolveNestedDelegations(ds, ds)} =
                   UNION {{d.from} \X Ends(ds, d.from) : d \in ds}

\* When nobody has delegated twice, the census counts every vote once: its whole
\* weight is the number of users whose vote ends at a member (census.go:1091-1109).
CensusConservesVotes ==
    [][\A c \in Communities :
          LET ds == CommunityDelegations(c)
          IN  /\ census[c] = Nil /\ census'[c] # Nil
              /\ \A u \in Users : Cardinality(From(ds, u)) <= 1
              => MapThenSumSet(LAMBDA u : census'[c][u], Users) =
                     Cardinality({u \in Users : Ends(ds, u) \cap Members[c] # {}})]_delegationsVars
=============================================================================
