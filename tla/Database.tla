------------------------------ MODULE Database ------------------------------
(***************************************************************************)
(* The storage (src/mongo) and the handlers that only look things up.      *)
(*                                                                         *)
(* Every method of the storage takes keysLock, a sync.RWMutex: readers     *)
(* share it, a writer first announces itself, which holds back every new   *)
(* reader, and then waits for those inside.  A handler is a sequence of    *)
(* calls; here it is the set of the paths through its code, and a path is  *)
(* the sequence of the steps it takes: to lock, to read or write a         *)
(* collection, to call another service.  A loop over documents is taken    *)
(* for one document, and a step that fails ends the path or is skipped, as *)
(* the code has it.                                                        *)
(*                                                                         *)
(* The content of a collection is the number of changes made to it.        *)
(***************************************************************************)
EXTENDS Integers, Sequences

CONSTANTS
  Requests,
  Serves,     \* the handlers each request may call
  MaxFaults,  \* how many steps may fail
  None

VARIABLES
  store,      \* the collections
  pending,    \* the writer that announced itself and has not unlocked yet
  readers,    \* how many read locks each request holds
  req,        \* the requests
  dump,       \* the last dump that was answered
  faults

vars == <<store, pending, readers, req, dump, faults>>

-----------------------------------------------------------------------------
(* Steps and paths. *)

Do(what, c) == [do |-> what, on |-> c]
RLocked(steps) == <<Do("rlock", None)>> \o steps \o <<Do("runlock", None)>>
Locked(steps) == <<Do("announce", None), Do("drain", None)>> \o steps \o <<Do("unlock", None)>>

\* An error of "must" ends the path, one of "try" is logged and skipped.
Get(mode, c) == <<Do(mode, c)>>
Must(c) == Get("must", c)
Try(c) == Get("try", c)
Write(c) == <<Do("write", c)>>
Call == <<Do("call", None)>>

Then(P, Q) == {p \o q : p \in P, q \in Q}
Maybe(P) == P \cup {<<>>}

-----------------------------------------------------------------------------
(* The methods that look up one document. *)

User(mode) == RLocked(Get(mode, "users"))
UserByUsername == RLocked(Must("users"))
Community(mode) == RLocked(Get(mode, "communities"))
IsCommunityAdmin == RLocked(Try("communities"))
IsCommunityDisabled == RLocked(Try("communities"))
CommunityAllowNotifications == RLocked(Try("communities"))
UserAccessProfile == RLocked(Must("userAccessProfiles"))
DetailedUserReputation == RLocked(Must("reputations"))
CensusFromElection == RLocked(Must("census"))
CensusFromRoot == RLocked(Must("census"))
Avatar == RLocked(Must("avatars"))
Election == RLocked(Must("elections"))
\* An image that is not found is nil; there is no lock.
FinalResultsPNG == Try("results")
\* A session, not the lock, keeps this one together.
UpdateActivityAndGetData == Must("authentications") \o Write("authentications")
UserFromAuthToken(mode) == RLocked(Get(mode, "authentications"))

(* The methods that list. *)

\* The number of documents and one page of them.
PaginatedObjects(c) == Must(c) \o Must(c)
ListCommunities == RLocked(PaginatedObjects("communities"))
ListCommunitiesByAdminUsername == UserByUsername \o ListCommunities
\* There is no lock here.
LatestElections == PaginatedObjects("elections")
\* The Vocdoni API is asked, under the lock, for a title that is missing.
ElectionsByUser == RLocked(Try("elections") \o Try("users") \o Call)
ElectionsByCommunity == RLocked(Must("elections"))
VotersOfElection(mode) == RLocked(Get(mode, "voters") \o Try("users"))
ListNotificationMutedUsers == RLocked(Try("userAccessProfiles") \o Try("users"))
DelegationsFrom == RLocked(Must("delegations"))
DelegationsByCommunity == RLocked(Must("delegations"))
DelegationsByCommunityFrom == RLocked(Try("delegations"))

UsersByElectionNumber == RLocked(Must("users"))
UsersByVoteNumber == RLocked(Must("users"))
ElectionsByVoteNumber == RLocked(Must("elections"))

\* User takes the lock again, for reading, while it is held.
UserByReputation == RLocked(Must("userAccessProfiles") \o User("try"))

\* Mutant: the ranking calls User where it called userData.
ReputationRankingNested(docs) ==
  RLocked(Must("reputations") \o (IF "users" \in docs THEN User("try") ELSE <<>>)
            \o (IF "communities" \in docs THEN Try("communities") ELSE <<>>))

\* Users, communities, or both are looked up without locking again.
ReputationRanking(docs) ==
  RLocked(Must("reputations") \o (IF "users" \in docs THEN Try("users") ELSE <<>>)
            \o (IF "communities" \in docs THEN Try("communities") ELSE <<>>))

-----------------------------------------------------------------------------
(* The methods that write. *)

\* Mutant: a vote is counted under the lock for readers.
IncreaseVoteCountShared ==
  RLocked(Must("users") \o Write("users") \o Must("elections") \o Write("elections")
            \o Must("voters") \o Write("voters"))

\* A vote of a user who has not voted yet in the poll.
IncreaseVoteCount ==
  Locked(Must("users") \o Write("users") \o Must("elections") \o Write("elections")
           \o Must("voters") \o Write("voters"))

UpdateUserAccessProfile == Locked(Write("userAccessProfiles"))
SetAvatar == Locked(Write("avatars"))
\* The final results are stored without any lock.
AddFinalResults == Write("results")

\* The dump.  Of the first four collections, one that cannot be queried makes
\* the dump empty; of the others, it makes the handler panic.
VoteCollections == <<"users", "elections", "results", "voters">>
OtherCollections ==
  <<"census", "communities", "avatars", "userAccessProfiles", "delegations", "reputations">>
Collect(cs) == [i \in 1..Len(cs) |-> Do("collect", cs[i])]
String == RLocked(Collect(VoteCollections) \o Collect(OtherCollections))

\* Mutant: the documents are written without the lock.
ImportUnlocked ==
  <<Do("put", "users"), Do("put", "elections"), Do("put", "results"), Do("put", "voters"),
    Do("put", "census"), Do("put", "communities"), Do("put", "avatars"),
    Do("put", "userAccessProfiles"), Do("put", "reputations"), Do("put", "delegations"),
    Do("rlock", None), Do("runlock", None)>>

\* The import writes, document after document, under the lock for readers.
Import ==
  RLocked(<<Do("put", "users"), Do("put", "elections"), Do("put", "results"), Do("put", "voters"),
            Do("put", "census"), Do("put", "communities"), Do("put", "avatars"),
            Do("put", "userAccessProfiles"), Do("put", "reputations"), Do("put", "delegations")>>)

-----------------------------------------------------------------------------
(* The handlers: the paths through each. *)

rankingByElectionsCreated == {UsersByElectionNumber}
rankingByVotes == {UsersByVoteNumber}
\* The query asks for no community, so none is looked up.
rankingOfElections == Then({ElectionsByVoteNumber}, Maybe({User("try")}))
latestElectionsHandler ==
  Maybe(Then({LatestElections}, Maybe(Then({User("try")}, Maybe({Community("try")})))))
rankingByReputation == {UserByReputation}
electionsByCommunityHandler == Maybe(Then({ElectionsByCommunity}, Maybe({User("try")})))
rankingByPoints ==
  Maybe(UNION {Then({ReputationRanking(docs)},
                    Maybe({Community("try") : d \in docs \cap {"communities"}}
                            \cup {User("try") : d \in docs \cap {"users"}})) :
                 docs \in {{"users"}, {"communities"}, {"users", "communities"}}})

\* The follower the census is about, the channel, or the addresses at hand.
censusChannelOrAddresses == {User("must"), Call, <<>>}
\* An admin who is not found is listed without a name.
listCommunitiesHandler ==
  Maybe(Then({ListCommunities, ListCommunitiesByAdminUsername},
             Maybe(Then({User("try")}, censusChannelOrAddresses))))
\* Here an admin who is not found is an error.
communityHandler ==
  Maybe(Then({Community("must")}, Maybe(Then({User("must")}, censusChannelOrAddresses))))
communityDelegationsHandler == Maybe({DelegationsByCommunity})
profileHandler ==
  Maybe({UpdateActivityAndGetData \o User("must") \o UserAccessProfile \o ElectionsByUser
           \o ListNotificationMutedUsers \o DelegationsFrom \o DetailedUserReputation})
votersForElection == Maybe({VotersOfElection("must")})
remainingVotersForElection == Maybe({VotersOfElection("must") \o CensusFromElection})
censusFromDatabaseByElectionID == Maybe({CensusFromElection})
censusFromDatabaseByRoot == Maybe({CensusFromRoot})
avatarHandler == Maybe({Avatar})
\* What createElection asks before it creates.  A token that is not known is
\* logged, and there is neither a user nor a profile then.
createElection ==
  Maybe(Then({UserFromAuthToken("try"), UserFromAuthToken("must") \o User("must") \o UserAccessProfile},
             Maybe({IsCommunityAdmin, IsCommunityAdmin \o IsCommunityDisabled,
                    IsCommunityAdmin \o IsCommunityDisabled \o CommunityAllowNotifications})))
\* The final image, when there is one; or the delegations of the voter, when
\* it is a poll of a community, and the proof of eligibility.
showElection ==
  Maybe(Then({FinalResultsPNG},
             Maybe(Then({Call}, Maybe(Then({Election}, {Call, DelegationsByCommunityFrom,
                                                        DelegationsByCommunityFrom \o Call}))))))
preview == Maybe(Then({FinalResultsPNG}, Maybe({Call})))
updloadAvatarHandler == Then({UserFromAuthToken("must")}, Maybe({SetAvatar}))
channelHandler == Maybe({Call})
findChannelHandler == Then(Maybe({UpdateActivityAndGetData}), Maybe({Call}))
registerWarpcastApiKey ==
  Maybe(Then({UpdateActivityAndGetData}, Maybe({UpdateUserAccessProfile})))
whitelistHandler == Maybe({UpdateUserAccessProfile})
dumpDB == {String}
\* Data that is not valid JSON is found out under the lock.
importDB == {Import, RLocked(<<>>)}

Handlers ==
  [rankingByElectionsCreated |-> rankingByElectionsCreated,
   rankingByVotes |-> rankingByVotes,
   rankingOfElections |-> rankingOfElections,
   latestElectionsHandler |-> latestElectionsHandler,
   rankingByReputation |-> rankingByReputation,
   electionsByCommunityHandler |-> electionsByCommunityHandler,
   rankingByPoints |-> rankingByPoints,
   listCommunitiesHandler |-> listCommunitiesHandler,
   communityHandler |-> communityHandler,
   communityDelegationsHandler |-> communityDelegationsHandler,
   profileHandler |-> profileHandler,
   votersForElection |-> votersForElection,
   remainingVotersForElection |-> remainingVotersForElection,
   censusFromDatabaseByElectionID |-> censusFromDatabaseByElectionID,
   censusFromDatabaseByRoot |-> censusFromDatabaseByRoot,
   avatarHandler |-> avatarHandler,
   createElection |-> createElection,
   registerWarpcastApiKey |-> registerWarpcastApiKey,
   whitelistHandler |-> whitelistHandler,
   dumpDB |-> dumpDB,
   importDB |-> importDB,
   vote |-> {IncreaseVoteCount},
   showElection |-> showElection,
   preview |-> preview,
   updloadAvatarHandler |-> updloadAvatarHandler,
   channelHandler |-> channelHandler,
   findChannelHandler |-> findChannelHandler,
   finalize |-> {AddFinalResults}]

ASSUME DatabaseAssumption ==
  /\ None \notin Requests /\ None \notin DOMAIN Handlers
  /\ Serves \in [Requests -> SUBSET DOMAIN Handlers]

-----------------------------------------------------------------------------
Collections ==
  {"users", "elections", "results", "voters", "census", "communities", "avatars",
   "userAccessProfiles", "delegations", "reputations", "authentications"}
Dumped == {VoteCollections[i] : i \in DOMAIN VoteCollections}
            \cup {OtherCollections[i] : i \in DOMAIN OtherCollections}

\* The reputations are imported among the profiles, where nobody looks for them.
Strays == "strays"
Target(c) == IF c = "reputations" THEN Strays ELSE c

NoCopy == [c \in {} |-> 0]
Idle == [at |-> "idle", handler |-> None, todo |-> <<>>, copy |-> NoCopy, disturbed |-> FALSE]

\* The collections exist and a dump of them was made some time ago.
Init ==
  /\ store = [c \in Collections \cup {Strays} |-> 0]
  /\ pending = None
  /\ readers = [r \in Requests |-> 0]
  /\ req = [r \in Requests |-> Idle]
  /\ dump = [c \in Dumped |-> 0]
  /\ faults = 0

\* A request comes in and takes one of the paths.  The copy of an import is
\* the dump it was given; that of another request is what it has read since
\* it got the lock.
Serve(r, h) ==
  /\ req[r].at = "idle"
  /\ \E path \in Handlers[h] :
       req' = [req EXCEPT ![r] = [Idle EXCEPT !.at = "running", !.handler = h, !.todo = path,
                                              !.copy = IF path = Import THEN dump ELSE NoCopy]]
  /\ UNCHANGED <<store, pending, readers, dump, faults>>

At(r, whats) == req[r].at = "running" /\ req[r].todo # <<>> /\ Head(req[r].todo).do \in whats
On(r) == Head(req[r].todo).on
Advance(r) == req' = [req EXCEPT ![r].todo = Tail(@)]
Fault == faults < MaxFaults /\ faults' = faults + 1
End(r, outcome) == req' = [req EXCEPT ![r] = [Idle EXCEPT !.at = outcome]]

Answer(r) ==
  /\ req[r].at = "running"
  /\ req[r].todo = <<>>
  /\ End(r, "done")
  /\ UNCHANGED <<store, pending, readers, dump, faults>>

-----------------------------------------------------------------------------
(* The lock.  Which of those it holds back goes first is left open. *)

RLock(r) ==
  /\ At(r, {"rlock"})
  /\ pending = None
  /\ readers' = [readers EXCEPT ![r] = @ + 1]
  /\ Advance(r)
  /\ UNCHANGED <<store, pending, dump, faults>>

\* A reader is outside once its last lock is released.
RUnlock(r) ==
  /\ At(r, {"runlock"})
  /\ readers' = [readers EXCEPT ![r] = @ - 1]
  /\ req' = [req EXCEPT ![r].todo = Tail(@),
                        ![r].copy = IF readers[r] = 1 THEN NoCopy ELSE @,
                        ![r].disturbed = IF readers[r] = 1 THEN FALSE ELSE @]
  /\ dump' = IF req[r].handler = "dumpDB" THEN req[r].copy ELSE dump
  /\ UNCHANGED <<store, pending, faults>>

Announce(r) ==
  /\ At(r, {"announce"})
  /\ pending = None
  /\ pending' = r
  /\ Advance(r)
  /\ UNCHANGED <<store, readers, dump, faults>>

Drain(r) ==
  /\ At(r, {"drain"})
  /\ \A s \in Requests : readers[s] = 0
  /\ Advance(r)
  /\ UNCHANGED <<store, pending, readers, dump, faults>>

Unlock(r) ==
  /\ At(r, {"unlock"})
  /\ pending' = None
  /\ Advance(r)
  /\ UNCHANGED <<store, readers, dump, faults>>

\* The deferred calls release what is held when a path ends early.
Abort(r) ==
  /\ readers' = [readers EXCEPT ![r] = 0]
  /\ pending' = IF pending = r THEN None ELSE pending
  /\ End(r, "failed")

-----------------------------------------------------------------------------
(* Documents. *)

\* A copy, with the content a collection has now.
WithCollection(copy, c) ==
  [d \in DOMAIN copy \cup {c} |-> IF d = c THEN store[c] ELSE copy[d]]

Read(r) ==
  /\ At(r, {"must", "try", "collect"})
  /\ req' = [req EXCEPT ![r].todo = Tail(@),
                        ![r].copy = IF readers[r] > 0 THEN WithCollection(@, On(r)) ELSE @]
  /\ UNCHANGED <<store, pending, readers, dump, faults>>

\* The document is not there, or the query failed.
ReadFails(r) ==
  /\ Fault
  /\ \/ /\ At(r, {"try"})
        /\ Advance(r)
        /\ UNCHANGED <<pending, readers>>
     \/ /\ At(r, {"must"})
        /\ Abort(r)
  /\ UNCHANGED <<store, dump>>

\* A dump goes on, without the documents, when their cursor fails or its time
\* is over.
CollectFails(r) ==
  /\ At(r, {"collect"})
  /\ Fault
  /\ \/ Advance(r) /\ UNCHANGED <<pending, readers, dump>>
     \/ /\ Abort(r)
        /\ dump' = IF \E i \in DOMAIN VoteCollections : VoteCollections[i] = On(r)
                   THEN NoCopy ELSE dump
  /\ UNCHANGED store

Change(r) ==
  /\ At(r, {"write"})
  /\ store' = [store EXCEPT ![On(r)] = @ + 1]
  /\ Advance(r)
  /\ UNCHANGED <<pending, readers, dump, faults>>

ChangeFails(r) ==
  /\ At(r, {"write"})
  /\ Fault
  /\ Abort(r)
  /\ UNCHANGED <<store, dump>>

\* The documents of the dump replace those with their ids.  The other readers
\* inside are disturbed.
Put(r) ==
  /\ At(r, {"put"})
  /\ store' = [store EXCEPT ![Target(On(r))] =
                 IF On(r) \in DOMAIN req[r].copy THEN req[r].copy[On(r)] ELSE @]
  /\ req' = [s \in Requests |->
               IF s = r THEN [req[s] EXCEPT !.todo = Tail(@)]
               ELSE [req[s] EXCEPT !.disturbed = @ \/ readers[s] > 0]]
  /\ UNCHANGED <<pending, readers, dump, faults>>

\* A document that cannot be written is skipped.
PutFails(r) ==
  /\ At(r, {"put"})
  /\ Fault
  /\ req' = [req EXCEPT ![r].todo = Tail(@),
                        ![r].copy = [c \in DOMAIN @ \ {On(r)} |-> @[c]]]
  /\ UNCHANGED <<store, pending, readers, dump>>

\* Another service is asked, and answers or fails.
Calls(r) ==
  /\ At(r, {"call"})
  /\ Advance(r)
  /\ UNCHANGED <<store, pending, readers, dump, faults>>

-----------------------------------------------------------------------------
Step(r) ==
  \/ Answer(r) \/ RLock(r) \/ RUnlock(r) \/ Announce(r) \/ Drain(r) \/ Unlock(r)
  \/ Read(r) \/ ReadFails(r) \/ CollectFails(r) \/ Change(r) \/ ChangeFails(r)
  \/ Put(r) \/ PutFails(r) \/ Calls(r)

Next ==
  \E r \in Requests :
    \/ \E h \in Serves[r] : Serve(r, h)
    \/ Step(r)

Spec == Init /\ [][Next]_vars

\* Every goroutine that can go on does, and the other services answer.
FairSpec ==
  /\ Spec
  /\ \A r \in Requests : WF_vars(Step(r))

-----------------------------------------------------------------------------
(* What is promised. *)

\* Whatever a reader has read since it got the lock is still so, unless an
\* import writes meanwhile: rankings, pages with their total, lists of voters
\* and dumps show one moment of the database and no vote counted by half
\* (IncreaseVoteCount).  Results and sessions are stored without the lock.
SectionsAreSnapshots ==
  \A r \in Requests :
    readers[r] > 0 /\ req[r].handler # "importDB" /\ ~req[r].disturbed
      => \A c \in DOMAIN req[r].copy \ {"results", "authentications"} : req[r].copy[c] = store[c]

\* When an import ends, the votes, the polls and all the other documents it was
\* given and could write are as they were when they were dumped, although
\* others vote and dump meanwhile, unless another import runs at the same
\* time.  The reputations are not among them (Import).
ImportRestores ==
  \A r \in Requests :
    req[r].handler = "importDB" /\ req[r].todo = <<Do("runlock", None)>> /\ ~req[r].disturbed
      => \A c \in DOMAIN req[r].copy \ {"results", "reputations"} : store[c] = req[r].copy[c]

\* UserByReputation waits for a writer that waits for UserByReputation.
Stuck ==
  \E r \in Requests :
    req[r].handler = "rankingByReputation" /\ readers[r] = 1 /\ At(r, {"rlock"}) /\ pending # None

\* Every request is answered, with success or with an error, and the lock is
\* free in the end, unless the ranking by reputation met a writer between its
\* two read locks: then the whole database stays locked (UserByReputation).
Answered ==
  \A r \in Requests :
    req[r].at = "running" ~> (Stuck \/ (req[r].at \in {"done", "failed"} /\ readers[r] = 0 /\ pending # r))
=============================================================================
