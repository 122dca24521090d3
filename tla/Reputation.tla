----------------------------- MODULE Reputation -----------------------------
(***************************************************************************)
(* The reputation updater (src/reputation, src/mongo/reputation.go).       *)
(*                                                                         *)
(* A loop refreshes, round after round, what it knows of followers and     *)
(* token holders, the constants of the communities, the reputation of the  *)
(* users who did something, and the points of everybody.  Each phase runs  *)
(* a goroutine per document, at most maxConcurrent at once.  The handler   *)
(* of public profiles computes and stores the reputation of one user at    *)
(* any moment, concurrently with the loop.                                 *)
(*                                                                         *)
(* What a user has done is a level of Levels, a list of counts; most grow, *)
(* that of the user's followers may fall.                                  *)
(* The services followers and holders come from are external; a call may   *)
(* fail, MaxFailures times in all.  (StorageProofs extends this module     *)
(* beside Database, hence the long names.)                                 *)
(***************************************************************************)
EXTENDS Parties, Integers, Sequences, FiniteSets, FiniteSetsExt

CONSTANTS
  ProfileRequests,
  Owner,          \* the creator of each community
  Voters,         \* the users who voted in polls of each community
  CensusType,     \* the type of census of each community
  Levels,         \* the counts of a user's activity, level after level
  Gains,          \* the boosters users may come to have
  Sizes,          \* the sizes a census may have
  Ln,             \* the natural logarithm of a positive size, rounded
  Garbage,        \* what a float64 of -Inf or NaN becomes as a uint64
  MaxConcurrent, MaxFailures, MaxChanges,
  Nothing

VARIABLES
  level,      \* the level of activity of each user, in users, elections, communities
  holding,    \* for each booster, user by user: "never", "held" or "lost"
  size,       \* the size of the census of each community
  followers,  \* alfafrensFollowers, vocdoniFollowers, votecasterFollowers, recasters
  holders,    \* the maps of holders
  cached,     \* cachedFollowers and cachedHolders, set one after the other
  reps,       \* the collection of reputations of users
  comReps,    \* the collection of reputations of communities
  loop,       \* the loop: the phase to come, or sleep or ended
  proc,       \* the goroutines of the phase and the requests
  stopped,    \* the context is cancelled
  failures, changes

reputationVars == <<level, holding, size, followers, holders, cached, reps, comReps, loop, proc,
                    stopped, failures, changes>>
world == <<level, holding, size, changes>>
caches == <<followers, holders, cached>>

-----------------------------------------------------------------------------
(* The formulas. *)

Puntuaction ==
  [votecasterNFTPass |-> 10, votecasterLaunchNFT |-> 18, alphafrensFollower |-> 12,
   votecasterFollower |-> 5, vocdoniFollower |-> 3, announcementRecasted |-> 7,
   kiwi |-> 4, degenDAONFT |-> 6, haberdasheryNFT |-> 6, degen10k |-> 3,
   tokyoDAONFT |-> 4, proxyStudioNFT |-> 5, proxy5 |-> 3, nameDegen |-> 4,
   farcasterOGNFT |-> 6, moxiePass |-> 4]
Boosters == DOMAIN Puntuaction
FollowBoosters ==
  {"alphafrensFollower", "votecasterFollower", "vocdoniFollower", "announcementRecasted"}
HolderBoosters == Boosters \ (FollowBoosters \cup {"degen10k"})

NoCounts == [followers |-> 0, elections |-> 0, votes |-> 0, participations |-> 0, communities |-> 0]

UpdaterConstants ==
  /\ MaxConcurrent \in Nat \ {0}
  /\ Users \cap ProfileRequests = {} /\ (Users \cup ProfileRequests) \cap Communities = {}
  /\ IsFiniteSet(Communities)
  /\ Owner \in [Communities -> Users]
  /\ CensusType \in [Communities -> {"erc20", "nft", "channel", "followers"}]
  /\ Levels \in Seq([DOMAIN NoCounts \cup {"participation"} -> Nat]) /\ Levels # <<>>
  /\ Gains \subseteq Boosters
  /\ Sizes \subseteq Nat /\ Sizes # {} /\ Ln \in [Sizes -> Nat]
  /\ Garbage \in Nat \ {0}
  /\ Nothing \notin [participation : Nat, size : Nat, points : Nat]
ASSUME UpdaterAssumption == UpdaterConstants

Capped(n, max) == IF n > max THEN max ELSE n

\* The points of each indicator.  The points for followers have no cap: the
\* code compares another field, still zero, with their maximum.
PonderateActivity(c) ==
  [followers      |-> c.followers \div 2000,
   elections      |-> Capped(c.elections \div 10, 10),
   votes          |-> Capped(c.votes \div 4, 25),
   participations |-> Capped(c.participations \div 20, 45),
   communities    |-> Capped(c.communities * 2, 10)]

\* Mutant: the sum of the indicators is not capped.
ActivityUncapped(c) ==
  LET p == PonderateActivity(c)
  IN p.followers + p.elections + p.votes + p.participations + p.communities

ActivityReputation(c) ==
  LET p == PonderateActivity(c)
  IN Capped(p.followers + p.elections + p.votes + p.participations + p.communities, 100)

\* The NFT of ProxyStudio is in no branch of the sum.
BoostersReputation(flags) ==
  Capped(MapThenSumSet(LAMBDA b : Puntuaction[b], flags \ {"proxyStudioNFT"}), 100)

TotalReputation(c, flags) == (ActivityReputation(c) + BoostersReputation(flags)) \div 2

\* (2p + 0.2 log(size)) * reputation, by the type of census, in fifths.
YieldRate(type, p, s, r) ==
  (10 * p + Ln[s]) * r * (CASE type \in {"erc20", "nft"} -> 4
                            [] type = "channel"          -> 2
                            [] type = "followers"        -> 1)

\* The multiplier m is in tenths.  An empty census has the logarithm -Inf.
CommunityTotalPoints(type, m, p, s, r) ==
  IF s = 0 THEN Garbage ELSE (YieldRate(type, p, s, r) * m) \div 50

-----------------------------------------------------------------------------
(* The documents.  Fields are read as zero when they were never written,   *)
(* and a field that is zero is not written.                                *)

BlankRep == [counts |-> NoCounts, flags |-> {}, total |-> 0, points |-> 0]
BlankComRep == [participation |-> 0, size |-> 0, points |-> 0]

IfSet(old, new) == IF new = 0 THEN old ELSE new

\* updateReputation of a user: dynamicUpdateDocument leaves zeros out.
Merged(old, new) ==
  [counts |-> [f \in DOMAIN NoCounts |-> IfSet(old.counts[f], new.counts[f])],
   flags  |-> old.flags \cup new.flags,
   total  |-> IfSet(old.total, new.total),
   points |-> IfSet(old.points, new.points)]

\* Mutant: the document is replaced by the values given.
Replaced(u, new) == new

\* The document of a user, created when there is none.
Upserted(u, new) == Merged(IF reps[u] = Nothing THEN BlankRep ELSE reps[u], new)

SetForUser(u, new) == reps' = [reps EXCEPT ![u] = Upserted(u, new)]

SetForCommunity(c, new) ==
  LET old == IF comReps[c] = Nothing THEN BlankComRep ELSE comReps[c]
  IN comReps' = [comReps EXCEPT ![c] = [f \in DOMAIN BlankComRep |-> IfSet(old[f], new[f])]]

Failure == failures < MaxFailures /\ failures' = failures + 1

IdleProc == [at |-> "idle", user |-> Nothing, level |-> 0, rep |-> BlankRep]

ReputationInit ==
  /\ level = [u \in Users |-> 1]
  /\ holding = [b \in Gains |-> [u \in Users |-> "never"]]
  /\ size = [c \in Communities |-> Min(Sizes)]
  /\ followers = [b \in FollowBoosters |-> {}]
  /\ holders = [b \in HolderBoosters |-> {}]
  /\ cached = FALSE
  /\ reps = [u \in Users |-> Nothing]
  /\ comReps = [c \in Communities |-> Nothing]
  /\ loop = "sleep"
  /\ proc = [p \in Users \cup Communities \cup ProfileRequests |-> IdleProc]
  /\ stopped = FALSE
  /\ failures = 0
  /\ changes = 0

-----------------------------------------------------------------------------
(* The world: users vote and create polls, follow and buy. *)

\* The process exits soon after the loop has ended.
WorldChanges == changes < MaxChanges /\ changes' = changes + 1 /\ loop # "ended"
OnlyWorld == UNCHANGED <<caches, reps, comReps, loop, proc, stopped, failures>>

Act(u) ==
  /\ WorldChanges
  /\ level[u] < Len(Levels)
  /\ level' = [level EXCEPT ![u] = @ + 1]
  /\ UNCHANGED <<holding, size>>
  /\ OnlyWorld

Gain(u, b) ==
  /\ WorldChanges
  /\ holding[b][u] = "never"
  /\ holding' = [holding EXCEPT ![b][u] = "held"]
  /\ UNCHANGED <<level, size>>
  /\ OnlyWorld

Lose(u, b) ==
  /\ WorldChanges
  /\ holding[b][u] = "held"
  /\ holding' = [holding EXCEPT ![b][u] = "lost"]
  /\ UNCHANGED <<level, size>>
  /\ OnlyWorld

Resize(c, n) ==
  /\ WorldChanges
  /\ size[c] # n
  /\ size' = [size EXCEPT ![c] = n]
  /\ UNCHANGED <<level, holding>>
  /\ OnlyWorld

Held(b) == IF b \in Gains THEN {u \in Users : holding[b][u] = "held"} ELSE {}
Reputable(u) == Levels[level[u]].votes > 0 \/ Levels[level[u]].elections > 0

\* The mean participation, in per cent, of the polls of a community.
Participation(c) == Levels[level[Owner[c]]].participation

\* An id as text.
Hex(id) == <<"hex", id>>

\* A list of voters is stored under the text of the id of the poll, and looked
\* up under the text of that text, which no list has.
CommunitiesByVoter(u) ==
  {c \in Communities :
     \E d \in Communities : /\ Hex(Hex(c)) = Hex(d)
                            /\ u \in Voters[d] /\ Levels[level[u]].votes > 0}

-----------------------------------------------------------------------------
(* What the updater knows of followers and holders.  The maps are read and *)
(* written under their mutexes.                                            *)

\* Followers and recasters are added and never removed.
FetchFollowers(failing) ==
  followers' = [b \in FollowBoosters |->
                  followers[b] \cup (IF b \in failing THEN {} ELSE Held(b))]

\* A map of holders is replaced, by nil when the call fails; only that of
\* TokyoDAO, which comes from Airstack, is kept.
FetchHolders(failing) ==
  holders' = [b \in HolderBoosters |->
                IF b \notin failing THEN Held(b)
                ELSE IF b = "tokyoDAONFT" THEN holders[b] ELSE {}]

\* Both are marked as cached although calls may have failed.
Fetch ==
  \E failing \in {f \in SUBSET (Gains \ {"degen10k"}) : Cardinality(f) <= MaxFailures - failures} :
    /\ FetchFollowers(failing)
    /\ FetchHolders(failing)
    /\ cached' = TRUE
    /\ failures' = failures + Cardinality(failing)

\* The balance of Degen is asked for each time.
UserBoosters(u) ==
  {b \in FollowBoosters : u \in followers[b]} \cup {b \in HolderBoosters : u \in holders[b]}
    \cup {b \in {"degen10k"} : u \in Held(b)}

\* The points of the communities a user created, and of those where the user
\* is found to have voted.
UserPoints(u, r) ==
  LET points(c, m) == IF comReps[c] = Nothing THEN 0
                      ELSE CommunityTotalPoints(CensusType[c], m, comReps[c].participation,
                                                comReps[c].size, r)
  IN (MapThenSumSet(LAMBDA c : points(c, 7), {c \in Communities : Owner[c] = u})
        + MapThenSumSet(LAMBDA c : points(c, 3), CommunitiesByVoter(u))) % (2 * Garbage)

-----------------------------------------------------------------------------
(* The steps that a goroutine of the loop and a request share. *)

Go(p, step) == proc' = [proc EXCEPT ![p].at = step]
Done(p) ==
  proc' = [proc EXCEPT ![p] =
             [IdleProc EXCEPT !.at = IF p \in ProfileRequests THEN "answered" ELSE "idle"]]
OnlyProc == UNCHANGED <<world, loop, stopped>>

\* DetailedUserReputation; for an unknown user a blank document is created
\* and there is no reputation this time.
ReadReputation(p) ==
  /\ proc[p].at = "rep"
  /\ LET u == proc[p].user IN
     IF reps[u] = Nothing
     THEN Go(p, "blank")
     ELSE proc' = [proc EXCEPT ![p].at = "activity", ![p].rep = reps[u]]
  /\ UNCHANGED <<caches, reps, comReps, failures>>
  /\ OnlyProc

SetBlank(p) ==
  /\ proc[p].at = "blank"
  /\ SetForUser(proc[p].user, BlankRep)
  /\ Done(p)
  /\ UNCHANGED <<caches, comReps, failures>>
  /\ OnlyProc

\* Votes in the user's polls and communities are counted now, the rest comes
\* from the document of the user read before.
ActivityCounts(p) ==
  [f \in DOMAIN NoCounts |->
     IF f \in {"participations", "communities"} THEN Levels[level[proc[p].user]][f]
     ELSE Levels[proc[p].level][f]]

\* The level 0 of a process stands for an activity that could not be read.
ReadActivity(p) ==
  /\ proc[p].at = "activity"
  /\ \/ /\ proc' = [proc EXCEPT ![p].at = "boosters", ![p].rep.counts = ActivityCounts(p)]
        /\ UNCHANGED failures
     \/ /\ Failure
        /\ proc' = [proc EXCEPT ![p].at = "boosters", ![p].level = 0]
  /\ UNCHANGED <<caches, reps, comReps>>
  /\ OnlyProc

\* Without activity the total is computed from zeros, and the counts stay.
ReadBoosters(p) ==
  /\ proc[p].at = "boosters"
  /\ LET u     == proc[p].user
         flags == UserBoosters(u)
         known == IF proc[p].level = 0 THEN NoCounts ELSE proc[p].rep.counts
     IN proc' = [proc EXCEPT ![p].at = IF p \in ProfileRequests THEN "points" ELSE "commit",
                             ![p].level = 0,
                             ![p].rep.flags = flags,
                             ![p].rep.total = TotalReputation(known, flags)]
  /\ UNCHANGED <<caches, reps, comReps, failures>>
  /\ OnlyProc

Commit(p) ==
  /\ proc[p].at = "commit"
  /\ \/ SetForUser(proc[p].user, proc[p].rep) /\ UNCHANGED failures
     \/ Failure /\ UNCHANGED reps
  /\ Done(p)
  /\ UNCHANGED <<caches, comReps>>
  /\ OnlyProc

-----------------------------------------------------------------------------
(* UserReputation, called by the handler of public profiles, once for each *)
(* request.                                                                *)

UserReputation(r, u) ==
  /\ proc[r].at = "idle"
  /\ loop # "ended"
  /\ proc' = [proc EXCEPT ![r] = [IdleProc EXCEPT !.at = "caches", !.user = u, !.level = level[u]]]
  /\ UNCHANGED <<caches, reps, comReps, failures>>
  /\ OnlyProc

\* Followers and holders are fetched the first time only, failures included.
EnsureCached(r) ==
  /\ proc[r].at = "caches"
  /\ IF cached THEN UNCHANGED <<caches, failures>> ELSE Fetch
  /\ Go(r, "rep")
  /\ UNCHANGED <<reps, comReps>>
  /\ OnlyProc

ComputePoints(r) ==
  /\ proc[r].at = "points"
  /\ \/ /\ proc' = [proc EXCEPT ![r].at = "commit",
                               ![r].rep.points = UserPoints(proc[r].user, proc[r].rep.total)]
        /\ UNCHANGED failures
     \/ Failure /\ Done(r)
  /\ UNCHANGED <<caches, reps, comReps>>
  /\ OnlyProc

-----------------------------------------------------------------------------
(* The goroutines of the loop that update communities and points. *)

\* The constants of a community, read from the database and the services.
CommunityConstants(c) ==
  /\ proc[c].at = "constants"
  /\ \/ SetForCommunity(c, [BlankComRep EXCEPT !.participation = Participation(c), !.size = size[c]])
        /\ UNCHANGED failures
     \/ Failure /\ UNCHANGED comReps
  /\ Done(c)
  /\ UNCHANGED <<caches, reps>>
  /\ OnlyProc

\* Points that come out as zero are not written.
CommunityPoints(c) ==
  /\ proc[c].at = "total"
  /\ IF reps[Owner[c]] = Nothing THEN UNCHANGED comReps
     ELSE SetForCommunity(c, [BlankComRep EXCEPT !.points =
            CommunityTotalPoints(CensusType[c], 10, comReps[c].participation, comReps[c].size,
                                 reps[Owner[c]].total)])
  /\ Done(c)
  /\ UNCHANGED <<caches, reps, failures>>
  /\ OnlyProc

\* The points follow from the total that was read when the phase began.
UpdateTotal(u) ==
  /\ proc[u].at = "total"
  /\ \/ SetForUser(u, [BlankRep EXCEPT !.points = UserPoints(u, proc[u].rep.total)]) /\ UNCHANGED failures
     \/ Failure /\ UNCHANGED reps
  /\ Done(u)
  /\ UNCHANGED <<caches, comReps>>
  /\ OnlyProc

-----------------------------------------------------------------------------
(* The loop. *)

Items == Users \cup Communities
AllIdle == \A i \in Items : proc[i].at = "idle"
OnlyLoop == UNCHANGED <<world, stopped>>

\* The context is looked at between two rounds.
LoopEnds ==
  /\ loop = "sleep"
  /\ stopped
  /\ loop' = "ended"
  /\ UNCHANGED <<caches, reps, comReps, proc, failures>>
  /\ OnlyLoop

StartRound ==
  /\ loop = "sleep"
  /\ ~stopped
  /\ Fetch
  /\ loop' = "communities"
  /\ UNCHANGED <<reps, comReps, proc>>
  /\ OnlyLoop

\* A phase lists its documents, and an error leaves it without any.
Queue(items, queued(_), phase) ==
  /\ AllIdle
  /\ \/ /\ proc' = [p \in DOMAIN proc |-> IF p \in items THEN queued(p) ELSE proc[p]]
        /\ UNCHANGED failures
     \/ items # {} /\ Failure /\ UNCHANGED proc
  /\ loop' = phase
  /\ UNCHANGED <<caches, reps, comReps>>
  /\ OnlyLoop

UpdateCommunitiesConstants ==
  /\ loop = "communities"
  /\ Queue(Communities, LAMBDA c : [IdleProc EXCEPT !.at = "queued"], "users")

ReputableUsers == {u \in Users : Reputable(u)}

UpdateUsersConstants ==
  /\ loop = "users"
  /\ Queue(ReputableUsers,
           LAMBDA u : [IdleProc EXCEPT !.at = "queued", !.user = u, !.level = level[u]], "totals")

\* The documents with a participation, a size or a total above zero.
Reputations ==
  {u \in Users : reps[u] # Nothing /\ reps[u].total > 0} \cup
  {c \in Communities : comReps[c] # Nothing /\ (comReps[c].participation > 0 \/ comReps[c].size > 0)}

UpdateTotalReputations ==
  /\ loop = "totals"
  /\ Queue(Reputations,
           LAMBDA i : IF i \in Users THEN [IdleProc EXCEPT !.at = "queued", !.rep.total = reps[i].total]
                      ELSE [IdleProc EXCEPT !.at = "queued"], "rounded")

EndRound ==
  /\ loop = "rounded"
  /\ AllIdle
  /\ loop' = "sleep"
  /\ UNCHANGED <<caches, reps, comReps, proc, failures>>
  /\ OnlyLoop

\* A goroutine gets one of the slots.
Spawn(i) ==
  /\ proc[i].at = "queued"
  /\ Cardinality({j \in Items : proc[j].at \notin {"idle", "queued"}}) < MaxConcurrent
  /\ Go(i, CASE loop = "users" -> "constants" [] loop = "totals" -> "rep" [] loop = "rounded" -> "total")
  /\ UNCHANGED <<caches, reps, comReps, failures>>
  /\ OnlyProc

Stop ==
  /\ ~stopped
  /\ stopped' = TRUE
  /\ UNCHANGED <<world, caches, reps, comReps, loop, proc, failures>>

-----------------------------------------------------------------------------
Compute(p) == ReadReputation(p) \/ SetBlank(p) \/ ReadActivity(p) \/ ReadBoosters(p) \/ Commit(p)
ServeProfile(r) == EnsureCached(r) \/ ComputePoints(r)
Round == LoopEnds \/ StartRound \/ UpdateCommunitiesConstants
           \/ UpdateUsersConstants \/ UpdateTotalReputations \/ EndRound

ReputationNext ==
  \/ \E u \in Users : Act(u) \/ (\E b \in Gains : Gain(u, b) \/ Lose(u, b))
  \/ \E c \in Communities : (\E n \in Sizes : Resize(c, n))
  \/ \E r \in ProfileRequests, u \in Users : UserReputation(r, u)
  \/ \E r \in ProfileRequests : ServeProfile(r)
  \/ \E p \in Users \cup ProfileRequests : Compute(p)
  \/ \E c \in Communities : CommunityConstants(c) \/ CommunityPoints(c)
  \/ \E u \in Users : UpdateTotal(u)
  \/ \E i \in Items : Spawn(i)
  \/ Round
  \/ Stop

ReputationSpec == ReputationInit /\ [][ReputationNext]_reputationVars

\* Goroutines and requests go on, calls return, and the loop starts its rounds.
FairReputationSpec ==
  /\ ReputationSpec
  /\ WF_reputationVars(Round)
  /\ \A i \in Items : WF_reputationVars(Spawn(i))
  /\ \A p \in Users \cup ProfileRequests : WF_reputationVars(Compute(p))
  /\ \A r \in ProfileRequests : WF_reputationVars(ServeProfile(r))
  /\ \A c \in Communities : WF_reputationVars(CommunityConstants(c) \/ CommunityPoints(c))
  /\ \A u \in Users : WF_reputationVars(UpdateTotal(u))

-----------------------------------------------------------------------------
(* What is promised. *)

Ever(u) == {b \in Gains : holding[b][u] # "never"}
Now(u) == {b \in Gains : holding[b][u] = "held"}

\* The most there has been of each count, up to a level.
Best(n) == [f \in DOMAIN NoCounts |-> Max({Levels[i][f] : i \in 1..n})]

\* Whatever copies, failures and overlapping writers are behind it, no stored
\* reputation exceeds what the user's activity at its best and the boosters the
\* user has ever had are worth, nor 100 (updateUserContants, UserReputation).
ReputationEarned ==
  \A u \in Users : reps[u] # Nothing =>
    /\ reps[u].total <= TotalReputation(Best(level[u]), Ever(u))
    /\ reps[u].total <= 100
    /\ reps[u].flags \subseteq Ever(u)

\* Once users and services are quiet, the documents come to hold the counts,
\* the boosters, the total and the points that the formulas give, although
\* zeros are never written and requests write back what they read before; or
\* the updater has been stopped, and then its loop ends (Start, Stop).
Settled(u) ==
  /\ reps[u] # Nothing
  /\ \A f \in DOMAIN NoCounts : reps[u].counts[f] = Levels[level[u]][f]
  /\ Now(u) \subseteq reps[u].flags
  /\ reps[u].total = IfSet(reps[u].total, TotalReputation(Levels[level[u]], UserBoosters(u)))
  /\ reps[u].total > 0 => UserPoints(u, reps[u].total) \in {0, reps[u].points}
ReputationSettles ==
  <>[](\/ loop = "ended"
       \/ ~stopped /\ \A u \in Users : Reputable(u) => Settled(u))
=============================================================================
