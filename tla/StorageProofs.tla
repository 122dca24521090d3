--------------------------- MODULE StorageProofs ---------------------------
(* Proofs of what the storage promises: for any requests and failures, of   *)
(* Database; for any users, communities and activities, of the documents of *)
(* reputations, of Reputation; for any users and history, of Delegations.   *)
EXTENDS Database, Reputation, Delegations, FiniteSetTheorems, SequenceTheorems, WellFoundedInduction, TLAPS

-----------------------------------------------------------------------------
(* The discipline of the lock.  The mode of a request is how many read      *)
(* locks it holds, or that it waits to write, or may write.                 *)

Waiting == -1
Writing == -2

\* The collections written without the lock.
Unlocked == {"results", "authentications"}

\* A step leads from one mode to another.
Leads(s, m, n) ==
    /\ s.do = "rlock" => m >= 0 /\ n = m + 1
    /\ s.do = "runlock" => m > 0 /\ n = m - 1
    /\ s.do = "announce" => m = 0 /\ n = Waiting
    /\ s.do = "drain" => m = Waiting /\ n = Writing
    /\ s.do = "unlock" => m = Writing /\ n = 0
    /\ s.do = "write" => m = Writing \/ s.on \in Unlocked
    /\ s.do = "put" => m > 0
    /\ s.do \notin {"rlock", "runlock", "announce", "drain", "unlock"} => n = m

\* And so does a path, over the modes between its steps.
PathLeads(q, m, n) ==
    \E f \in [0..Len(q) -> Int] :
        /\ f[0] = m /\ f[Len(q)] = n
        /\ \A i \in 1..Len(q) : Leads(q[i], f[i - 1], f[i])

\* The paths of steps of S that end in the mode they begin in.
Paths(S, m) == {q \in Seq(S) : PathLeads(q, m, m)}

LEMMA EmptyLeads == ASSUME NEW m \in Int PROVE PathLeads(<<>>, m, m)
<1> DEFINE f == [i \in 0..0 |-> m]
<1>1. Len(<<>>) = 0 /\ f \in [0..0 -> Int] /\ f[0] = m
    OBVIOUS
<1>2. \A i \in 1..0 : FALSE
    OBVIOUS
<1> HIDE DEF f
<1> QED
    BY <1>1, <1>2 DEF PathLeads

LEMMA StepLeads ==
    ASSUME NEW s, NEW m \in Int, NEW n \in Int, Leads(s, m, n)
    PROVE  PathLeads(<<s>>, m, n)
<1> DEFINE f == [i \in 0..1 |-> IF i = 0 THEN m ELSE n]
<1>1. Len(<<s>>) = 1 /\ <<s>>[1] = s
    OBVIOUS
<1>2. f \in [0..1 -> Int] /\ f[0] = m /\ f[1] = n
    OBVIOUS
<1>3. \A i \in 1..1 : i = 1 /\ i - 1 = 0
    OBVIOUS
<1> HIDE DEF f
<1>4. \A i \in 1..1 : Leads(<<s>>[i], f[i - 1], f[i])
    BY <1>1, <1>2, <1>3
<1> QED
    BY <1>1, <1>2, <1>4 DEF PathLeads

LEMMA PathsLead ==
    ASSUME NEW S, NEW p \in Seq(S), NEW q \in Seq(S), NEW l, NEW m, NEW n,
           PathLeads(p, l, m), PathLeads(q, m, n)
    PROVE  PathLeads(p \o q, l, n)
<1>1. PICK f \in [0..Len(p) -> Int] :
         /\ f[0] = l /\ f[Len(p)] = m
         /\ \A i \in 1..Len(p) : Leads(p[i], f[i - 1], f[i])
    BY DEF PathLeads
<1>2. PICK g \in [0..Len(q) -> Int] :
         /\ g[0] = m /\ g[Len(q)] = n
         /\ \A i \in 1..Len(q) : Leads(q[i], g[i - 1], g[i])
    BY DEF PathLeads
<1> DEFINE h == [i \in 0..Len(p \o q) |-> IF i <= Len(p) THEN f[i] ELSE g[i - Len(p)]]
<1>3. Len(p) \in Nat /\ Len(q) \in Nat /\ Len(p \o q) = Len(p) + Len(q)
    OBVIOUS
<1>4. h \in [0..Len(p \o q) -> Int]
    BY <1>3
<1>5. h[0] = l /\ h[Len(p \o q)] = n
  <2>1. h[0] = l
    BY <1>1, <1>3
  <2>2. CASE Len(q) = 0
    BY <1>1, <1>2, <1>3, <2>1, <2>2
  <2>3. CASE Len(q) # 0
    <3>1. h[Len(p \o q)] = g[Len(p \o q) - Len(p)] /\ Len(p \o q) - Len(p) = Len(q)
        BY <1>3, <2>3
    <3> QED
        BY <1>2, <2>1, <3>1
  <2> QED
    BY <2>2, <2>3
<1>6. ASSUME NEW i \in 1..Len(p \o q) PROVE Leads((p \o q)[i], h[i - 1], h[i])
  <2>1. CASE i <= Len(p)
    <3>1. (p \o q)[i] = p[i] /\ h[i - 1] = f[i - 1] /\ h[i] = f[i] /\ i \in 1..Len(p)
        BY <1>3, <2>1
    <3> QED
        BY <1>1, <3>1
  <2>2. CASE i = Len(p) + 1
    <3>1. (p \o q)[i] = q[1] /\ h[i - 1] = f[Len(p)] /\ h[i] = g[1] /\ 1 \in 1..Len(q)
        BY <1>3, <2>2
    <3>2. h[i - 1] = g[0] /\ 1 - 1 = 0
        BY <1>1, <1>2, <3>1
    <3> HIDE DEF h
    <3> QED
        BY <1>2, <3>1, <3>2
  <2>3. CASE i > Len(p) + 1
    <3>1. /\ i - Len(p) \in 1..Len(q)
          /\ h[i - 1] = g[(i - Len(p)) - 1] /\ h[i] = g[i - Len(p)]
        BY <1>3, <2>3
    <3>2. (p \o q)[i] = q[i - Len(p)]
        BY <1>3, <2>3
    <3> HIDE DEF h
    <3> QED
        BY <1>2, <3>1, <3>2
  <2> QED
    BY <1>3, <2>1, <2>2, <2>3
<1> HIDE DEF h
<1> QED
    BY <1>4, <1>5, <1>6 DEF PathLeads

\* What is left of a path, after its first step.
LEMMA RestLeads ==
    ASSUME NEW S, NEW q \in Seq(S), q # <<>>, NEW m, NEW n, PathLeads(q, m, n)
    PROVE  \E k \in Int : m \in Int /\ Leads(Head(q), m, k) /\ PathLeads(Tail(q), k, n)
<1>1. PICK f \in [0..Len(q) -> Int] :
         /\ f[0] = m /\ f[Len(q)] = n
         /\ \A i \in 1..Len(q) : Leads(q[i], f[i - 1], f[i])
    BY DEF PathLeads
<1> DEFINE g == [i \in 0..Len(Tail(q)) |-> f[i + 1]]
<1>2. /\ Len(q) \in Nat /\ Len(q) > 0 /\ Len(Tail(q)) = Len(q) - 1 /\ Head(q) = q[1]
      /\ \A i \in 1..Len(Tail(q)) : Tail(q)[i] = q[i + 1]
    OBVIOUS
<1>3. g \in [0..Len(Tail(q)) -> Int] /\ g[0] = f[1] /\ g[Len(Tail(q))] = n
    BY <1>1, <1>2
<1>4. ASSUME NEW i \in 1..Len(Tail(q)) PROVE Leads(Tail(q)[i], g[i - 1], g[i])
  <2>1. i + 1 \in 1..Len(q) /\ g[i - 1] = f[(i + 1) - 1] /\ g[i] = f[i + 1]
    BY <1>2
  <2> HIDE DEF g
  <2> QED
    BY <1>1, <1>2, <2>1
<1> HIDE DEF g
<1>5. PathLeads(Tail(q), f[1], n)
    BY <1>3, <1>4 DEF PathLeads
<1>6. f[1] \in Int /\ f[0] \in Int /\ 1 \in 1..Len(q) /\ 1 - 1 = 0
    BY <1>2
<1> QED
    BY <1>1, <1>2, <1>5, <1>6

LEMMA NothingLeads == ASSUME NEW m, NEW n, PathLeads(<<>>, m, n) PROVE m = n
    BY DEF PathLeads

-----------------------------------------------------------------------------
(* The paths through methods and handlers keep the discipline.              *)

LEMMA Joined ==
    ASSUME NEW S, NEW m \in Int, NEW p \in Paths(S, m), NEW q \in Paths(S, m)
    PROVE  p \o q \in Paths(S, m)
<1>1. p \in Seq(S) /\ q \in Seq(S) /\ PathLeads(p, m, m) /\ PathLeads(q, m, m)
    BY DEF Paths
<1>2. PathLeads(p \o q, m, m)
    BY <1>1, PathsLead
<1> QED
    BY <1>1, <1>2 DEF Paths

LEMMA NoStep == ASSUME NEW S, NEW m \in Int PROVE <<>> \in Paths(S, m)
    BY EmptyLeads DEF Paths

LEMMA OneStep ==
    ASSUME NEW S, NEW m \in Int, NEW s \in S, Leads(s, m, m)
    PROVE  <<s>> \in Paths(S, m)
<1>1. PathLeads(<<s>>, m, m)
    BY StepLeads
<1> QED
    BY <1>1 DEF Paths

\* A section of readers, itself inside any number of others.
LEMMA ReadSection ==
    ASSUME NEW S, NEW m \in Nat, Do("rlock", None) \in S, Do("runlock", None) \in S,
           NEW q \in Paths(S, m + 1)
    PROVE  RLocked(q) \in Paths(S, m)
<1> DEFINE a == <<Do("rlock", None)>>
           b == <<Do("runlock", None)>>
<1>1. PathLeads(a, m, m + 1)
  <2>1. Leads(Do("rlock", None), m, m + 1)
    BY DEF Leads, Do
  <2> QED
    BY <2>1, StepLeads
<1>2. PathLeads(b, m + 1, m)
  <2>1. Leads(Do("runlock", None), m + 1, m)
    BY DEF Leads, Do
  <2> QED
    BY <2>1, StepLeads
<1>3. a \in Seq(S) /\ b \in Seq(S) /\ q \in Seq(S) /\ PathLeads(q, m + 1, m + 1)
    BY DEF Paths
<1> HIDE DEF a, b
<1>4. a \o q \in Seq(S) /\ PathLeads(a \o q, m, m + 1)
    BY <1>1, <1>3, PathsLead
<1>5. (a \o q) \o b \in Seq(S)
    BY <1>3, <1>4
<1>6. PathLeads((a \o q) \o b, m, m)
    BY <1>2, <1>3, <1>4, PathsLead
<1> QED
    BY <1>5, <1>6 DEF RLocked, Paths, a, b

\* A section of a writer, inside of none.
LEMMA WriteSection ==
    ASSUME NEW S, {Do("announce", None), Do("drain", None), Do("unlock", None)} \subseteq S,
           NEW q \in Paths(S, Writing)
    PROVE  Locked(q) \in Paths(S, 0)
<1> DEFINE a == <<Do("announce", None), Do("drain", None)>>
           b == <<Do("unlock", None)>>
<1>1. PathLeads(a, 0, Writing)
  <2>1. Leads(Do("announce", None), 0, Waiting) /\ Leads(Do("drain", None), Waiting, Writing)
    BY DEF Leads, Do, Waiting, Writing
  <2> DEFINE c == <<Do("announce", None)>>
             d == <<Do("drain", None)>>
  <2>2. PathLeads(c, 0, Waiting) /\ PathLeads(d, Waiting, Writing)
    BY <2>1, StepLeads DEF Waiting, Writing
  <2>3. c \in Seq(S) /\ d \in Seq(S) /\ a = c \o d
    OBVIOUS
  <2> HIDE DEF a, c, d
  <2> QED
    BY <2>2, <2>3, PathsLead
<1>2. PathLeads(b, Writing, 0)
  <2>1. Leads(Do("unlock", None), Writing, 0)
    BY DEF Leads, Do, Waiting, Writing
  <2> QED
    BY <2>1, StepLeads DEF Writing
<1>3. a \in Seq(S) /\ b \in Seq(S) /\ q \in Seq(S) /\ PathLeads(q, Writing, Writing)
    BY DEF Paths
<1> HIDE DEF a, b
<1>4. a \o q \in Seq(S) /\ PathLeads(a \o q, 0, Writing)
    BY <1>1, <1>3, PathsLead
<1>5. (a \o q) \o b \in Seq(S)
    BY <1>3, <1>4
<1>6. PathLeads((a \o q) \o b, 0, 0)
    BY <1>2, <1>3, <1>4, PathsLead
<1> QED
    BY <1>5, <1>6 DEF Locked, Paths, a, b

LEMMA ThenPaths ==
    ASSUME NEW S, NEW m \in Int, NEW P, P \subseteq Paths(S, m),
           NEW Q, Q \subseteq Paths(S, m)
    PROVE  Then(P, Q) \subseteq Paths(S, m)
<1> SUFFICES ASSUME NEW r \in Then(P, Q) PROVE r \in Paths(S, m)
    OBVIOUS
<1>1. PICK p \in P, q \in Q : r = p \o q
    BY SMT DEF Then
<1>2. p \o q \in Paths(S, m)
    BY Joined
<1> QED
    BY <1>1, <1>2, Zenon

LEMMA MaybePaths ==
    ASSUME NEW S, NEW m \in Int, NEW P, P \subseteq Paths(S, m)
    PROVE  Maybe(P) \subseteq Paths(S, m)
    BY NoStep DEF Maybe

\* The steps of an import, of a dump and of the others.
Steps == [do : {"must", "try", "collect", "write", "put"}, on : Collections]
           \cup [do : {"rlock", "runlock", "announce", "drain", "unlock", "call"}, on : {None}]
StepsOf(h) ==
    {s \in Steps :
        /\ h = "importDB" => s.do \in {"rlock", "runlock", "put"}
        /\ h # "importDB" => s.do # "put"
        /\ h = "dumpDB" => s.do \notin {"must", "try"} /\ (s.do = "collect" => s.on \in Dumped)}
Plain == {s \in Steps : s.do # "put"}

LEMMA PlainLocks ==
    {Do("rlock", None), Do("runlock", None), Do("announce", None), Do("drain", None),
     Do("unlock", None)} \subseteq Plain
    BY DEF Plain, Steps, Do

LEMMA Reads ==
    ASSUME NEW m \in Int, NEW c \in Collections
    PROVE  /\ Must(c) \in Paths(Plain, m) /\ Try(c) \in Paths(Plain, m)
           /\ Get("must", c) \in Paths(Plain, m) /\ Get("try", c) \in Paths(Plain, m)
<1>1. \A what \in {"must", "try"} : Do(what, c) \in Plain /\ Leads(Do(what, c), m, m)
    BY DEF Plain, Steps, Do, Leads
<1>2. \A what \in {"must", "try"} : <<Do(what, c)>> \in Paths(Plain, m)
    BY <1>1, OneStep
<1> QED
    BY <1>2 DEF Must, Try, Get

LEMMA Writes ==
    ASSUME NEW m \in Int, NEW c \in Collections, m = Writing \/ c \in Unlocked
    PROVE  Write(c) \in Paths(Plain, m)
<1>1. Do("write", c) \in Plain /\ Leads(Do("write", c), m, m)
    BY DEF Plain, Steps, Do, Leads
<1> QED
    BY <1>1, OneStep DEF Write

LEMMA CallPath == ASSUME NEW m \in Int PROVE Call \in Paths(Plain, m)
<1>1. Do("call", None) \in Plain /\ Leads(Do("call", None), m, m)
    BY DEF Plain, Steps, Do, Leads
<1> QED
    BY <1>1, OneStep DEF Call

\* A lock for readers around a path, once or twice.
LEMMA Section ==
    ASSUME NEW m \in Nat, NEW q \in Paths(Plain, m + 1) PROVE RLocked(q) \in Paths(Plain, m)
    BY PlainLocks, ReadSection

LEMMA ReadOne ==
    ASSUME NEW m \in Nat, NEW c \in Collections
    PROVE  /\ RLocked(Must(c)) \in Paths(Plain, m) /\ RLocked(Try(c)) \in Paths(Plain, m)
           /\ RLocked(Get("must", c)) \in Paths(Plain, m)
           /\ RLocked(Get("try", c)) \in Paths(Plain, m)
<1>1. m + 1 \in Int
    OBVIOUS
<1> QED
    BY <1>1, Reads, Section

\* The methods.
LEMMA LookUps ==
    /\ \A m \in Nat : User("must") \in Paths(Plain, m) /\ User("try") \in Paths(Plain, m)
    /\ Community("must") \in Paths(Plain, 0) /\ Community("try") \in Paths(Plain, 0)
    /\ {UserByUsername, IsCommunityAdmin, IsCommunityDisabled, CommunityAllowNotifications,
        UserAccessProfile, DetailedUserReputation, CensusFromElection, CensusFromRoot, Avatar,
        Election, FinalResultsPNG} \subseteq Paths(Plain, 0)
    /\ UserFromAuthToken("must") \in Paths(Plain, 0) /\ UserFromAuthToken("try") \in Paths(Plain, 0)
    /\ UpdateActivityAndGetData \in Paths(Plain, 0)
<1>1. {"users", "communities", "userAccessProfiles", "reputations", "census", "avatars",
       "elections", "results", "authentications"} \subseteq Collections
    BY DEF Collections
<1>2. \A m \in Nat : User("must") \in Paths(Plain, m) /\ User("try") \in Paths(Plain, m)
    BY <1>1, ReadOne DEF User
<1>3. /\ Community("must") \in Paths(Plain, 0) /\ Community("try") \in Paths(Plain, 0)
      /\ UserFromAuthToken("must") \in Paths(Plain, 0)
      /\ UserFromAuthToken("try") \in Paths(Plain, 0)
    BY <1>1, ReadOne DEF Community, UserFromAuthToken
<1>4. {UserByUsername, IsCommunityAdmin, IsCommunityDisabled, CommunityAllowNotifications,
       UserAccessProfile, DetailedUserReputation, CensusFromElection, CensusFromRoot, Avatar,
       Election} \subseteq Paths(Plain, 0)
    BY <1>1, ReadOne
    DEF UserByUsername, IsCommunityAdmin, IsCommunityDisabled, CommunityAllowNotifications,
        UserAccessProfile, DetailedUserReputation, CensusFromElection, CensusFromRoot, Avatar,
        Election
<1>5. FinalResultsPNG \in Paths(Plain, 0)
    BY <1>1, Reads DEF FinalResultsPNG
<1>6. UpdateActivityAndGetData \in Paths(Plain, 0)
    BY <1>1, Reads, Writes, Joined DEF UpdateActivityAndGetData, Unlocked
<1> QED
    BY <1>2, <1>3, <1>4, <1>5, <1>6

LEMMA Listings ==
    /\ {ListCommunities, ListCommunitiesByAdminUsername, LatestElections, ElectionsByUser,
        ElectionsByCommunity, ListNotificationMutedUsers, DelegationsFrom,
        DelegationsByCommunity, DelegationsByCommunityFrom, UsersByElectionNumber,
        UsersByVoteNumber, ElectionsByVoteNumber, UserByReputation} \subseteq Paths(Plain, 0)
    /\ VotersOfElection("must") \in Paths(Plain, 0)
    /\ \A docs : ReputationRanking(docs) \in Paths(Plain, 0)
<1>1. {"users", "communities", "userAccessProfiles", "reputations", "voters", "elections",
       "delegations"} \subseteq Collections
    BY DEF Collections
<1>2. \A m \in {0, 1}, c \in Collections : PaginatedObjects(c) \in Paths(Plain, m)
    BY Reads, Joined DEF PaginatedObjects
<1>3. ListCommunities \in Paths(Plain, 0) /\ LatestElections \in Paths(Plain, 0)
    BY <1>1, <1>2, Section DEF ListCommunities, LatestElections
<1>4. ListCommunitiesByAdminUsername \in Paths(Plain, 0)
    BY <1>3, LookUps, Joined DEF ListCommunitiesByAdminUsername
<1>5. {ElectionsByCommunity, DelegationsFrom, DelegationsByCommunity, DelegationsByCommunityFrom,
       UsersByElectionNumber, UsersByVoteNumber, ElectionsByVoteNumber} \subseteq Paths(Plain, 0)
    BY <1>1, ReadOne
    DEF ElectionsByCommunity, DelegationsFrom, DelegationsByCommunity, DelegationsByCommunityFrom,
        UsersByElectionNumber, UsersByVoteNumber, ElectionsByVoteNumber
<1>6. ElectionsByUser \in Paths(Plain, 0)
  <2>1. (Try("elections") \o Try("users")) \o Call \in Paths(Plain, 1)
    BY <1>1, Reads, CallPath, Joined
  <2> QED
    BY <2>1, Section DEF ElectionsByUser
<1>7. ListNotificationMutedUsers \in Paths(Plain, 0) /\ VotersOfElection("must") \in Paths(Plain, 0)
  <2>1. /\ Try("userAccessProfiles") \o Try("users") \in Paths(Plain, 1)
        /\ Get("must", "voters") \o Try("users") \in Paths(Plain, 1)
    BY <1>1, Reads, Joined
  <2> QED
    BY <2>1, Section DEF ListNotificationMutedUsers, VotersOfElection
<1>8. UserByReputation \in Paths(Plain, 0)
  <2>1. Must("userAccessProfiles") \o User("try") \in Paths(Plain, 1)
    BY <1>1, Reads, LookUps, Joined
  <2> QED
    BY <2>1, Section DEF UserByReputation
<1>9. ASSUME NEW docs PROVE ReputationRanking(docs) \in Paths(Plain, 0)
  <2> DEFINE a == Must("reputations")
             b == IF "users" \in docs THEN Try("users") ELSE <<>>
             c == IF "communities" \in docs THEN Try("communities") ELSE <<>>
  <2>1. a \in Paths(Plain, 1) /\ b \in Paths(Plain, 1) /\ c \in Paths(Plain, 1)
    BY <1>1, Reads, NoStep
  <2> HIDE DEF a, b, c
  <2>2. (a \o b) \o c \in Paths(Plain, 1)
    BY <2>1, Joined
  <2> QED
    BY <2>2, Section DEF ReputationRanking, a, b, c
<1> QED
    BY <1>3, <1>4, <1>5, <1>6, <1>7, <1>8, <1>9

LEMMA Writers ==
    {IncreaseVoteCount, UpdateUserAccessProfile, SetAvatar, AddFinalResults}
        \subseteq Paths(Plain, 0)
<1>1. {"users", "elections", "voters", "userAccessProfiles", "avatars", "results"} \subseteq Collections
    BY DEF Collections
<1>2. Writing \in Int
    BY DEF Writing
<1>3. \A q \in Paths(Plain, Writing) : Locked(q) \in Paths(Plain, 0)
    BY PlainLocks, WriteSection
<1>4. UpdateUserAccessProfile \in Paths(Plain, 0) /\ SetAvatar \in Paths(Plain, 0)
    BY <1>1, <1>2, <1>3, Writes DEF UpdateUserAccessProfile, SetAvatar
<1>5. AddFinalResults \in Paths(Plain, 0)
    BY <1>1, Writes DEF AddFinalResults, Unlocked
<1>6. IncreaseVoteCount \in Paths(Plain, 0)
  <2> DEFINE a == Must("users")
             b == Write("users")
             c == Must("elections")
             d == Write("elections")
             e == Must("voters")
             f == Write("voters")
  <2>1. {a, b, c, d, e, f} \subseteq Paths(Plain, Writing)
    BY <1>1, <1>2, Reads, Writes
  <2> HIDE DEF a, b, c, d, e, f
  <2>2. a \o b \in Paths(Plain, Writing)
    BY <1>2, <2>1, Joined
  <2>3. (a \o b) \o c \in Paths(Plain, Writing)
    BY <1>2, <2>1, <2>2, Joined
  <2>4. ((a \o b) \o c) \o d \in Paths(Plain, Writing)
    BY <1>2, <2>1, <2>3, Joined
  <2>5. (((a \o b) \o c) \o d) \o e \in Paths(Plain, Writing)
    BY <1>2, <2>1, <2>4, Joined
  <2>6. ((((a \o b) \o c) \o d) \o e) \o f \in Paths(Plain, Writing)
    BY <1>2, <2>1, <2>5, Joined
  <2> QED
    BY <1>3, <2>6 DEF IncreaseVoteCount, a, b, c, d, e, f
<1> QED
    BY <1>4, <1>5, <1>6

\* The handlers, in three parts.
LEMMA Rankings ==
    /\ rankingByElectionsCreated \subseteq Paths(Plain, 0) /\ rankingByVotes \subseteq Paths(Plain, 0)
    /\ rankingOfElections \subseteq Paths(Plain, 0) /\ latestElectionsHandler \subseteq Paths(Plain, 0)
    /\ rankingByReputation \subseteq Paths(Plain, 0)
    /\ electionsByCommunityHandler \subseteq Paths(Plain, 0)
    /\ rankingByPoints \subseteq Paths(Plain, 0)
<1> DEFINE G == Paths(Plain, 0)
<1>0. /\ \A P \in SUBSET G : Maybe(P) \in SUBSET G
      /\ \A P \in SUBSET G, Q \in SUBSET G : Then(P, Q) \in SUBSET G
  <2>1. 0 \in Int
    OBVIOUS
  <2> QED
    BY <2>1, MaybePaths, ThenPaths
<1>1. User("try") \in Paths(Plain, 0) /\ Community("try") \in Paths(Plain, 0)
    BY LookUps
<1>2. /\ rankingByElectionsCreated \subseteq Paths(Plain, 0) /\ rankingByVotes \subseteq Paths(Plain, 0)
      /\ rankingByReputation \subseteq Paths(Plain, 0)
    BY Listings DEF rankingByElectionsCreated, rankingByVotes, rankingByReputation
<1>3. rankingOfElections \subseteq Paths(Plain, 0)
    BY <1>1, Listings, ThenPaths, MaybePaths DEF rankingOfElections
<1>4. electionsByCommunityHandler \subseteq Paths(Plain, 0)
    BY <1>1, Listings, ThenPaths, MaybePaths DEF electionsByCommunityHandler
<1>5. latestElectionsHandler \subseteq Paths(Plain, 0)
  <2>1. /\ {User("try")} \in SUBSET G /\ {Community("try")} \in SUBSET G
        /\ {LatestElections} \in SUBSET G
    BY <1>1, Listings
  <2> HIDE DEF G
  <2> QED
    BY <1>0, <2>1 DEF latestElectionsHandler, G
<1>6. rankingByPoints \subseteq Paths(Plain, 0)
  <2> DEFINE asked(docs) == {Community("try") : d \in docs \cap {"communities"}}
                               \cup {User("try") : d \in docs \cap {"users"}}
             ranked(docs) == Then({ReputationRanking(docs)}, Maybe(asked(docs)))
  <2>1. \A docs : asked(docs) \subseteq Paths(Plain, 0)
    BY <1>1
  <2>2. \A docs : {ReputationRanking(docs)} \subseteq Paths(Plain, 0)
    BY Listings
  <2>3. \A docs : ranked(docs) \in SUBSET G
    <3> HIDE DEF asked, G
    <3> QED
        BY <1>0, <2>1, <2>2 DEF G
  <2> HIDE DEF ranked
  <2> DEFINE all == UNION {ranked(docs) : docs \in {{"users"}, {"communities"}, {"users", "communities"}}}
  <2>4. all \in SUBSET G
    BY <2>3
  <2>5. rankingByPoints = Maybe(all)
    BY Zenon DEF rankingByPoints, ranked, asked
  <2> HIDE DEF all, G
  <2>6. Maybe(all) \in SUBSET G
    BY <1>0, <2>4
  <2> QED
    BY <2>5, <2>6 DEF G
<1> QED
    BY <1>2, <1>3, <1>4, <1>5, <1>6

LEMMA Documents ==
    /\ listCommunitiesHandler \subseteq Paths(Plain, 0) /\ communityHandler \subseteq Paths(Plain, 0)
    /\ communityDelegationsHandler \subseteq Paths(Plain, 0) /\ profileHandler \subseteq Paths(Plain, 0)
    /\ votersForElection \subseteq Paths(Plain, 0) /\ remainingVotersForElection \subseteq Paths(Plain, 0)
    /\ censusFromDatabaseByElectionID \subseteq Paths(Plain, 0)
    /\ censusFromDatabaseByRoot \subseteq Paths(Plain, 0) /\ avatarHandler \subseteq Paths(Plain, 0)
<1> DEFINE G == Paths(Plain, 0)
<1>1. /\ \A p \in G, q \in G : p \o q \in G
      /\ \A P \in SUBSET G : Maybe(P) \in SUBSET G
      /\ \A P \in SUBSET G, Q \in SUBSET G : Then(P, Q) \in SUBSET G
  <2>1. 0 \in Int
    OBVIOUS
  <2> QED
    BY <2>1, Joined, MaybePaths, ThenPaths
<1>2. /\ {User("must"), User("try"), Community("must"), UserAccessProfile, DetailedUserReputation,
           UpdateActivityAndGetData, CensusFromElection, CensusFromRoot, Avatar,
           Call, <<>>} \subseteq G
      /\ {ListCommunities, ListCommunitiesByAdminUsername, ElectionsByUser, DelegationsFrom,
           ListNotificationMutedUsers, DelegationsByCommunity, VotersOfElection("must")} \subseteq G
    BY LookUps, Listings, CallPath, NoStep
<1> HIDE DEF G
<1>3. censusChannelOrAddresses \in SUBSET G
    BY <1>2 DEF censusChannelOrAddresses
<1>4. listCommunitiesHandler \in SUBSET G
  <2>1. {User("try")} \in SUBSET G /\ {ListCommunities, ListCommunitiesByAdminUsername} \in SUBSET G
    BY <1>2
  <2> QED
    BY <1>1, <1>3, <2>1 DEF listCommunitiesHandler
<1>5. communityHandler \in SUBSET G
  <2>1. {User("must")} \in SUBSET G /\ {Community("must")} \in SUBSET G
    BY <1>2
  <2> QED
    BY <1>1, <1>3, <2>1 DEF communityHandler
<1>6. profileHandler \in SUBSET G
  <2> DEFINE a == UpdateActivityAndGetData
             b == User("must")
             c == UserAccessProfile
             d == ElectionsByUser
             e == ListNotificationMutedUsers
             f == DelegationsFrom
             g == DetailedUserReputation
  <2>1. a \in G /\ b \in G /\ c \in G /\ d \in G /\ e \in G /\ f \in G /\ g \in G
    BY <1>2
  <2> HIDE DEF a, b, c, d, e, f, g
  <2>2. ((a \o b) \o c) \o d \in G
    BY <1>1, <2>1
  <2>3. (((((a \o b) \o c) \o d) \o e) \o f) \o g \in G
    BY <1>1, <2>1, <2>2
  <2>4. {(((((a \o b) \o c) \o d) \o e) \o f) \o g} \in SUBSET G
    BY <2>3
  <2> QED
    BY <1>1, <2>4 DEF profileHandler, a, b, c, d, e, f, g
<1>7. remainingVotersForElection \in SUBSET G
  <2>1. {VotersOfElection("must") \o CensusFromElection} \in SUBSET G
    BY <1>1, <1>2
  <2> QED
    BY <1>1, <2>1 DEF remainingVotersForElection
<1>8. /\ communityDelegationsHandler \in SUBSET G /\ votersForElection \in SUBSET G
      /\ censusFromDatabaseByElectionID \in SUBSET G /\ censusFromDatabaseByRoot \in SUBSET G
      /\ avatarHandler \in SUBSET G
  <2>1. /\ {DelegationsByCommunity} \in SUBSET G /\ {VotersOfElection("must")} \in SUBSET G
        /\ {CensusFromElection} \in SUBSET G /\ {CensusFromRoot} \in SUBSET G
        /\ {Avatar} \in SUBSET G
    BY <1>2
  <2> QED
    BY <1>1, <2>1
    DEF communityDelegationsHandler, votersForElection, censusFromDatabaseByElectionID,
        censusFromDatabaseByRoot, avatarHandler
<1> QED
    BY <1>4, <1>5, <1>6, <1>7, <1>8 DEF G

LEMMA Others ==
    /\ createElection \subseteq Paths(Plain, 0) /\ showElection \subseteq Paths(Plain, 0)
    /\ preview \subseteq Paths(Plain, 0) /\ updloadAvatarHandler \subseteq Paths(Plain, 0)
    /\ channelHandler \subseteq Paths(Plain, 0) /\ findChannelHandler \subseteq Paths(Plain, 0)
    /\ registerWarpcastApiKey \subseteq Paths(Plain, 0) /\ whitelistHandler \subseteq Paths(Plain, 0)
<1> DEFINE G == Paths(Plain, 0)
<1>1. /\ \A p \in G, q \in G : p \o q \in G
      /\ \A P \in SUBSET G : Maybe(P) \in SUBSET G
      /\ \A P \in SUBSET G, Q \in SUBSET G : Then(P, Q) \in SUBSET G
  <2>1. 0 \in Int
    OBVIOUS
  <2> QED
    BY <2>1, Joined, MaybePaths, ThenPaths
<1>2. {UserFromAuthToken("must"), UserFromAuthToken("try"), User("must"), UserAccessProfile,
       IsCommunityAdmin, IsCommunityDisabled, CommunityAllowNotifications, FinalResultsPNG,
       Election, DelegationsByCommunityFrom, UpdateActivityAndGetData, SetAvatar,
       UpdateUserAccessProfile, Call} \subseteq G
    BY LookUps, Listings, Writers, CallPath
<1> HIDE DEF G
<1>3. createElection \in SUBSET G
  <2>1. {UserFromAuthToken("try"),
         UserFromAuthToken("must") \o User("must") \o UserAccessProfile} \in SUBSET G
    BY <1>1, <1>2
  <2>2. {IsCommunityAdmin, IsCommunityAdmin \o IsCommunityDisabled,
         IsCommunityAdmin \o IsCommunityDisabled \o CommunityAllowNotifications} \in SUBSET G
    BY <1>1, <1>2
  <2> QED
    BY <1>1, <2>1, <2>2 DEF createElection
<1>4. showElection \in SUBSET G /\ preview \in SUBSET G
  <2>1. /\ {Call, DelegationsByCommunityFrom, DelegationsByCommunityFrom \o Call} \in SUBSET G
        /\ {Election} \in SUBSET G /\ {Call} \in SUBSET G /\ {FinalResultsPNG} \in SUBSET G
    BY <1>1, <1>2
  <2> QED
    BY <1>1, <2>1 DEF showElection, preview
<1>5. /\ updloadAvatarHandler \in SUBSET G /\ channelHandler \in SUBSET G
      /\ findChannelHandler \in SUBSET G /\ registerWarpcastApiKey \in SUBSET G
      /\ whitelistHandler \in SUBSET G
  <2>1. /\ {UserFromAuthToken("must")} \in SUBSET G /\ {SetAvatar} \in SUBSET G
        /\ {Call} \in SUBSET G /\ {UpdateActivityAndGetData} \in SUBSET G
        /\ {UpdateUserAccessProfile} \in SUBSET G
    BY <1>2
  <2> QED
    BY <1>1, <2>1
    DEF updloadAvatarHandler, channelHandler, findChannelHandler, registerWarpcastApiKey,
        whitelistHandler
<1> QED
    BY <1>3, <1>4, <1>5 DEF G

\* A path of steps none of which is about the lock.
LEMMA LocklessPath ==
    ASSUME NEW S, NEW m \in Int, NEW q \in Seq(S), \A i \in 1..Len(q) : Leads(q[i], m, m)
    PROVE  q \in Paths(S, m)
<1> DEFINE f == [i \in 0..Len(q) |-> m]
<1>1. Len(q) \in Nat
    OBVIOUS
<1>2. f \in [0..Len(q) -> Int] /\ \A i \in 0..Len(q) : f[i] = m
    OBVIOUS
<1>3. \A i \in 1..Len(q) : i \in 0..Len(q) /\ i - 1 \in 0..Len(q)
    BY <1>1
<1>4. f[0] = m /\ f[Len(q)] = m
    BY <1>1, <1>2
<1> HIDE DEF f
<1>5. \A i \in 1..Len(q) : Leads(q[i], f[i - 1], f[i])
    BY <1>2, <1>3
<1> QED
    BY <1>2, <1>4, <1>5 DEF Paths, PathLeads

LEMMA Dumps == dumpDB \subseteq Paths(StepsOf("dumpDB"), 0)
<1> DEFINE S == StepsOf("dumpDB")
<1>1. {Do("rlock", None), Do("runlock", None)} \subseteq S
    BY DEF StepsOf, Steps, Do
<1>2. \A c \in Dumped : Do("collect", c) \in S /\ Leads(Do("collect", c), 1, 1)
  <2>1. Dumped \subseteq Collections
    BY DEF Dumped, Collections, VoteCollections, OtherCollections
  <2> QED
    BY <2>1 DEF StepsOf, Steps, Do, Leads
<1> HIDE DEF S
<1>3. ASSUME NEW cs \in Seq(Dumped) PROVE Collect(cs) \in Paths(S, 1)
  <2>1. Len(cs) \in Nat /\ \A i \in 1..Len(cs) : cs[i] \in Dumped
    OBVIOUS
  <2>2. Collect(cs) = [i \in 1..Len(cs) |-> Do("collect", cs[i])]
    BY DEF Collect
  <2>3. Collect(cs) \in Seq(S) /\ Len(Collect(cs)) = Len(cs)
    BY <1>2, <2>1, <2>2
  <2>4. \A i \in 1..Len(Collect(cs)) : Leads(Collect(cs)[i], 1, 1)
    BY <1>2, <2>1, <2>2, <2>3
  <2> QED
    BY <2>3, <2>4, LocklessPath
<1>4. VoteCollections \in Seq(Dumped) /\ OtherCollections \in Seq(Dumped)
  <2>1. \A i \in 1..4 : VoteCollections[i] \in Dumped
    BY DEF Dumped, VoteCollections
  <2>2. \A i \in 1..6 : OtherCollections[i] \in Dumped
    BY DEF Dumped, OtherCollections
  <2> QED
    BY <2>1, <2>2 DEF VoteCollections, OtherCollections
<1>5. Collect(VoteCollections) \o Collect(OtherCollections) \in Paths(S, 1)
    BY <1>3, <1>4, Joined
<1>6. String \in Paths(S, 0)
  <2>1. 0 + 1 = 1 /\ 0 \in Nat
    OBVIOUS
  <2> QED
    BY <1>1, <1>5, <2>1, ReadSection DEF String
<1> QED
    BY <1>6 DEF dumpDB, S

\* What an import writes is what a dump holds.
LEMMA Imports ==
    /\ importDB \subseteq Paths(StepsOf("importDB"), 0)
    /\ \A c \in Dumped : \E i \in 1..Len(Import) : Import[i] = Do("put", c)
    /\ Import \notin Seq(Plain)
<1> DEFINE S == StepsOf("importDB")
           puts == <<Do("put", "users"), Do("put", "elections"), Do("put", "results"),
                     Do("put", "voters"), Do("put", "census"), Do("put", "communities"),
                     Do("put", "avatars"), Do("put", "userAccessProfiles"),
                     Do("put", "reputations"), Do("put", "delegations")>>
<1>1. {Do("rlock", None), Do("runlock", None)} \subseteq S
    BY DEF StepsOf, Steps, Do
<1>2. \A c \in Collections : Do("put", c) \in S /\ Leads(Do("put", c), 1, 1)
    BY DEF StepsOf, Steps, Do, Leads
<1>3. /\ Dumped = {"users", "elections", "results", "voters", "census", "communities", "avatars",
                   "userAccessProfiles", "delegations", "reputations"}
      /\ Dumped \subseteq Collections
  <2>1. {VoteCollections[i] : i \in DOMAIN VoteCollections} = {"users", "elections", "results", "voters"}
    <3>1. DOMAIN VoteCollections = {1, 2, 3, 4}
        BY DEF VoteCollections
    <3> QED
        BY <3>1 DEF VoteCollections
  <2>2. {OtherCollections[i] : i \in DOMAIN OtherCollections} =
            {"census", "communities", "avatars", "userAccessProfiles", "delegations", "reputations"}
    <3>1. DOMAIN OtherCollections = {1, 2, 3, 4, 5, 6}
        BY DEF OtherCollections
    <3> QED
        BY <3>1 DEF OtherCollections
  <2> QED
    BY <2>1, <2>2 DEF Dumped, Collections
<1> HIDE DEF S
<1>4. /\ Len(puts) = 10
      /\ \A i \in 1..10 : \E c \in Dumped : puts[i] = Do("put", c)
      /\ \A c \in Dumped : \E i \in 1..10 : puts[i] = Do("put", c)
  <2>1. Len(puts) = 10
    OBVIOUS
  <2>2. \A i \in 1..10 : \E c \in Dumped : puts[i] = Do("put", c)
    BY <1>3
  <2>3. \A c \in Dumped : \E i \in 1..10 : puts[i] = Do("put", c)
    BY <1>3
  <2> QED
    BY <2>1, <2>2, <2>3
<1>5. puts \in Seq(S)
    BY <1>2, <1>3
<1>6. Import = RLocked(puts)
    BY DEF Import
<1> HIDE DEF puts
<1>7. puts \in Paths(S, 1)
    BY <1>2, <1>3, <1>4, <1>5, LocklessPath
<1>8. Import \in Paths(S, 0) /\ RLocked(<<>>) \in Paths(S, 0)
  <2>1. 0 + 1 = 1 /\ 0 \in Nat /\ <<>> \in Paths(S, 1)
    BY NoStep
  <2> QED
    BY <1>1, <1>6, <1>7, <2>1, ReadSection
<1>9. /\ Len(Import) = 12
      /\ \A i \in 1..10 : i + 1 \in 1..12 /\ Import[i + 1] = puts[i]
  <2> DEFINE a == <<Do("rlock", None)>>
             b == <<Do("runlock", None)>>
  <2>1. a \in Seq(S) /\ b \in Seq(S) /\ Len(a) = 1 /\ Len(b) = 1
    BY <1>1
  <2> HIDE DEF a, b
  <2> DEFINE c == a \o puts
             d == c \o b
  <2>2. /\ c \in Seq(S) /\ Len(c) = Len(a) + Len(puts)
        /\ \A i \in 1..(Len(a) + Len(puts)) :
              c[i] = IF i <= Len(a) THEN a[i] ELSE puts[i - Len(a)]
    BY <1>5, <2>1, ConcatProperties, Zenon
  <2>3. /\ Len(d) = Len(c) + Len(b)
        /\ \A i \in 1..(Len(c) + Len(b)) : d[i] = IF i <= Len(c) THEN c[i] ELSE b[i - Len(c)]
    <3>1. c \in Seq(S) /\ b \in Seq(S)
        BY <2>1, <2>2
    <3> HIDE DEF c
    <3> QED
        BY <3>1, ConcatProperties, Zenon
  <2> HIDE DEF c, d
  <2>6. Len(c) = 11 /\ Len(d) = 12
    BY <1>4, <2>1, <2>2, <2>3
  <2>7. \A i \in 1..10 : c[i + 1] = puts[i]
    <3> SUFFICES ASSUME NEW i \in 1..10 PROVE c[i + 1] = puts[i]
        OBVIOUS
    <3>1. i + 1 \in 1..11 /\ ~(i + 1 <= 1) /\ (i + 1) - 1 = i
        OBVIOUS
    <3> QED
        BY <1>4, <2>1, <2>2, <3>1
  <2>8. \A i \in 1..11 : d[i] = c[i]
    BY <2>1, <2>3, <2>6
  <2>4. \A i \in 1..10 : i + 1 \in 1..11 /\ i + 1 \in 1..12
    OBVIOUS
  <2>5. Import = (a \o puts) \o b
    BY <1>6 DEF RLocked, a, b
  <2> QED
    BY <2>4, <2>5, <2>6, <2>7, <2>8 DEF c, d
<1>10. \A c \in Dumped : \E i \in 1..Len(Import) : Import[i] = Do("put", c)
    BY <1>4, <1>9
<1>11. Import \notin Seq(Plain)
  <2>1. PICK i \in 1..Len(Import) : Import[i] = Do("put", "users")
    BY <1>3, <1>10
  <2>2. Import[i] \notin Plain
    BY <2>1 DEF Plain, Do
  <2> QED
    BY <2>2
<1> QED
    BY <1>8, <1>10, <1>11 DEF importDB, S

LEMMA HandlersKeep ==
    ASSUME NEW h \in DOMAIN Handlers PROVE Handlers[h] \subseteq Paths(StepsOf(h), 0)
<1>1. Paths(Plain, 0) \subseteq Paths(StepsOf(h), 0) \/ h \in {"importDB", "dumpDB"}
  <2>1. h \in {"importDB", "dumpDB"} \/ Plain \subseteq StepsOf(h)
    BY DEF Plain, StepsOf
  <2> QED
    BY <2>1 DEF Paths
<1>2. CASE h = "importDB"
    BY <1>2, Imports DEF Handlers
<1>3. CASE h = "dumpDB"
    BY <1>3, Dumps DEF Handlers
<1>4. CASE h \notin {"importDB", "dumpDB"}
  <2> SUFFICES Handlers[h] \subseteq Paths(Plain, 0)
    BY <1>1, <1>4
  <2>1. \/ h \in {"vote", "finalize"}
        \/ h \in {"rankingByElectionsCreated", "rankingByVotes", "rankingOfElections",
                 "latestElectionsHandler", "rankingByReputation", "electionsByCommunityHandler",
                 "rankingByPoints"}
        \/ h \in {"listCommunitiesHandler", "communityHandler", "communityDelegationsHandler",
                 "profileHandler", "votersForElection", "remainingVotersForElection",
                 "censusFromDatabaseByElectionID", "censusFromDatabaseByRoot", "avatarHandler"}
        \/ h \in {"createElection", "showElection", "preview", "updloadAvatarHandler",
                 "channelHandler", "findChannelHandler", "registerWarpcastApiKey",
                 "whitelistHandler"}
    BY <1>4 DEF Handlers
  <2>2. CASE h \in {"vote", "finalize"}
    <3>1. Handlers["vote"] = {IncreaseVoteCount} /\ Handlers["finalize"] = {AddFinalResults}
        BY DEF Handlers
    <3> QED
        BY <2>2, <3>1, Writers
  <2>3. CASE h \in {"rankingByElectionsCreated", "rankingByVotes", "rankingOfElections",
                    "latestElectionsHandler", "rankingByReputation",
                    "electionsByCommunityHandler", "rankingByPoints"}
    <3>1. /\ Handlers["rankingByElectionsCreated"] = rankingByElectionsCreated
          /\ Handlers["rankingByVotes"] = rankingByVotes
          /\ Handlers["rankingOfElections"] = rankingOfElections
          /\ Handlers["latestElectionsHandler"] = latestElectionsHandler
          /\ Handlers["rankingByReputation"] = rankingByReputation
          /\ Handlers["electionsByCommunityHandler"] = electionsByCommunityHandler
          /\ Handlers["rankingByPoints"] = rankingByPoints
        BY DEF Handlers
    <3> QED
        BY <2>3, <3>1, Rankings
  <2>4. CASE h \in {"listCommunitiesHandler", "communityHandler",
                    "communityDelegationsHandler", "profileHandler", "votersForElection",
                    "remainingVotersForElection", "censusFromDatabaseByElectionID",
                    "censusFromDatabaseByRoot", "avatarHandler"}
    <3>1. /\ Handlers["listCommunitiesHandler"] = listCommunitiesHandler
          /\ Handlers["communityHandler"] = communityHandler
          /\ Handlers["communityDelegationsHandler"] = communityDelegationsHandler
          /\ Handlers["profileHandler"] = profileHandler
          /\ Handlers["votersForElection"] = votersForElection
          /\ Handlers["remainingVotersForElection"] = remainingVotersForElection
          /\ Handlers["censusFromDatabaseByElectionID"] = censusFromDatabaseByElectionID
          /\ Handlers["censusFromDatabaseByRoot"] = censusFromDatabaseByRoot
          /\ Handlers["avatarHandler"] = avatarHandler
        BY DEF Handlers
    <3> QED
        BY <2>4, <3>1, Documents
  <2>5. CASE h \in {"createElection", "showElection", "preview", "updloadAvatarHandler",
                    "channelHandler", "findChannelHandler", "registerWarpcastApiKey",
                    "whitelistHandler"}
    <3>1. /\ Handlers["createElection"] = createElection
          /\ Handlers["showElection"] = showElection /\ Handlers["preview"] = preview
          /\ Handlers["updloadAvatarHandler"] = updloadAvatarHandler
          /\ Handlers["channelHandler"] = channelHandler
          /\ Handlers["findChannelHandler"] = findChannelHandler
          /\ Handlers["registerWarpcastApiKey"] = registerWarpcastApiKey
          /\ Handlers["whitelistHandler"] = whitelistHandler
        BY DEF Handlers
    <3> QED
        BY <2>5, <3>1, Others
  <2> QED
    BY <2>1, <2>2, <2>3, <2>4, <2>5
<1> QED
    BY <1>2, <1>3, <1>4

-----------------------------------------------------------------------------
(* The invariant of the database.                                          *)

Copy == UNION {[D -> Nat] : D \in SUBSET Collections}
Request == [at : {"idle", "running", "done", "failed"}, handler : DOMAIN Handlers \cup {None},
            todo : Seq(Steps), copy : Copy, disturbed : BOOLEAN]

DatabaseTypeOK ==
    /\ store \in [Collections \cup {Strays} -> Nat]
    /\ pending \in Requests \cup {None}
    /\ readers \in [Requests -> Nat]
    /\ req \in [Requests -> Request]
    /\ dump \in Copy
    /\ faults \in Nat

\* What is left of the path leads from the mode that the lock shows to no lock.  Who may
\* write is alone.
InMode(r, m) ==
    /\ PathLeads(req[r].todo, m, 0)
    /\ readers[r] = (IF m > 0 THEN m ELSE 0)
    /\ pending = r <=> m < 0
    /\ m = Writing => \A s \in Requests : readers[s] = 0

KeepsToPath(r) ==
    IF req[r].at = "running"
    THEN /\ req[r].handler \in DOMAIN Handlers
         /\ req[r].todo \in Seq(StepsOf(req[r].handler))
         /\ \E m \in Int : InMode(r, m)
    ELSE readers[r] = 0 /\ pending # r

Disciplined == \A r \in Requests : KeepsToPath(r)

\* Without a lock nothing has been read and nobody is disturbed; dumps, and so what is
\* imported, are of the collections dumped.
Copies ==
    /\ \A r \in Requests :
          /\ readers[r] = 0 => ~req[r].disturbed
          /\ readers[r] = 0 /\ req[r].handler # "importDB" => req[r].copy = NoCopy
          /\ req[r].handler \in {"dumpDB", "importDB"} => DOMAIN req[r].copy \subseteq Dumped
    /\ DOMAIN dump \subseteq Dumped

\* What an import has not restored it is still to write.
Restoring ==
    \A r \in Requests :
        req[r].handler = "importDB" /\ ~req[r].disturbed
            => \A c \in DOMAIN req[r].copy \ {"results", "reputations"} :
                  \/ readers[r] > 0 /\ store[c] = req[r].copy[c]
                  \/ \E i \in 1..Len(req[r].todo) : req[r].todo[i] = Do("put", c)

DatabaseInvariant ==
    DatabaseTypeOK /\ Disciplined /\ Copies /\ SectionsAreSnapshots /\ Restoring

LEMMA CopyIs ==
    \A f : f \in Copy <=> f \in [DOMAIN f -> Nat] /\ DOMAIN f \subseteq Collections
    BY DEF Copy

\* A copy with one collection more, and with one less.
LEMMA CopyMore ==
    ASSUME NEW f \in Copy, NEW c \in Collections, store[c] \in Nat
    PROVE  /\ WithCollection(f, c) \in Copy /\ DOMAIN WithCollection(f, c) = DOMAIN f \cup {c}
           /\ \A d \in DOMAIN f \cup {c} :
                 WithCollection(f, c)[d] = IF d = c THEN store[c] ELSE f[d]
<1>1. f \in [DOMAIN f -> Nat] /\ DOMAIN f \subseteq Collections
    BY CopyIs
<1>2. WithCollection(f, c) \in [DOMAIN f \cup {c} -> Nat] /\ DOMAIN f \cup {c} \subseteq Collections
    BY <1>1 DEF WithCollection
<1>3. /\ DOMAIN WithCollection(f, c) = DOMAIN f \cup {c}
      /\ \A d \in DOMAIN f \cup {c} : WithCollection(f, c)[d] = IF d = c THEN store[c] ELSE f[d]
    BY DEF WithCollection
<1>4. WithCollection(f, c) \in Copy
    BY <1>2, <1>3, CopyIs
<1> QED
    BY <1>3, <1>4

LEMMA CopyLess ==
    ASSUME NEW f \in Copy, NEW c PROVE [d \in DOMAIN f \ {c} |-> f[d]] \in Copy
<1>1. f \in [DOMAIN f -> Nat] /\ DOMAIN f \subseteq Collections
    BY CopyIs
<1> DEFINE g == [d \in DOMAIN f \ {c} |-> f[d]]
<1>2. g \in [DOMAIN f \ {c} -> Nat] /\ DOMAIN g = DOMAIN f \ {c}
    BY <1>1
<1> HIDE DEF g
<1>3. g \in Copy
    BY <1>1, <1>2, CopyIs
<1> QED
    BY <1>3 DEF g

LEMMA NoCopyIs == NoCopy \in Copy /\ DOMAIN NoCopy = {}
<1>1. DOMAIN NoCopy = {} /\ NoCopy \in [{} -> Nat]
    BY DEF NoCopy
<1> QED
    BY <1>1, CopyIs

LEMMA IdleIs ==
    ASSUME NEW a
    PROVE  /\ LET i == [Idle EXCEPT !.at = a]
              IN  /\ i.at = a /\ i.handler = None /\ i.todo = <<>>
                  /\ i.copy = NoCopy /\ i.disturbed = FALSE
           /\ a \in {"idle", "running", "done", "failed"} => [Idle EXCEPT !.at = a] \in Request
<1>1. LET i == [Idle EXCEPT !.at = a]
      IN  /\ i.at = a /\ i.handler = None /\ i.todo = <<>>
          /\ i.copy = NoCopy /\ i.disturbed = FALSE
    BY DEF Idle
<1>2. a \in {"idle", "running", "done", "failed"} => [Idle EXCEPT !.at = a] \in Request
  <2>1. <<>> \in Seq(Steps) /\ NoCopy \in Copy
    BY NoCopyIs
  <2> QED
    BY <2>1 DEF Request, Idle
<1> QED
    BY <1>1, <1>2

-----------------------------------------------------------------------------
(* The steps.                                                              *)

LEMMA StepsOfAll == ASSUME NEW h PROVE StepsOf(h) \subseteq Steps /\ Seq(StepsOf(h)) \subseteq Seq(Steps)
    BY DEF StepsOf

\* What is known of a request that takes a step of its path.
LEMMA Acting ==
    ASSUME DatabaseTypeOK, Disciplined, NEW r \in Requests, NEW W, At(r, W)
    PROVE  LET q == req[r].todo
               h == req[r].handler
           IN  /\ req[r] \in Request /\ req[r].at = "running" /\ h \in DOMAIN Handlers
               /\ q \in Seq(StepsOf(h)) /\ q # <<>>
               /\ Head(q) \in StepsOf(h) /\ Head(q) \in Steps /\ Head(q).do \in W
               /\ Tail(q) \in Seq(StepsOf(h)) /\ Tail(q) \in Seq(Steps)
               /\ \E m, k \in Int : /\ InMode(r, m) /\ Leads(Head(q), m, k)
                                    /\ PathLeads(Tail(q), k, 0)
<1> DEFINE q == req[r].todo
           h == req[r].handler
<1>1. /\ req[r] \in Request /\ req[r].at = "running" /\ h \in DOMAIN Handlers
      /\ q \in Seq(StepsOf(h)) /\ q # <<>> /\ Head(q).do \in W
    BY DEF DatabaseTypeOK, Disciplined, KeepsToPath, At
<1>2. PICK m \in Int : InMode(r, m)
    BY <1>1 DEF Disciplined, KeepsToPath
<1>3. PathLeads(q, m, 0)
    BY <1>2 DEF InMode
<1> HIDE DEF q, h
<1>4. Head(q) \in StepsOf(h) /\ Tail(q) \in Seq(StepsOf(h))
    BY <1>1
<1>5. Head(q) \in Steps /\ Tail(q) \in Seq(Steps)
    BY <1>4, StepsOfAll
<1>6. PICK k \in Int : Leads(Head(q), m, k) /\ PathLeads(Tail(q), k, 0)
    BY <1>1, <1>3, RestLeads
<1> QED
    BY <1>1, <1>2, <1>4, <1>5, <1>6 DEF q, h

\* Where a step leads, verb by verb.
LEMMA Verb ==
    ASSUME DatabaseTypeOK, Disciplined, NEW r \in Requests, NEW W, At(r, W)
    PROVE  /\ On(r) = Head(req[r].todo).on
           /\ Head(req[r].todo).do \in {"must", "try", "collect", "write", "put"} => On(r) \in Collections
           /\ Head(req[r].todo).do = "put" <=>
                 req[r].handler = "importDB" /\ Head(req[r].todo).do \notin {"rlock", "runlock"}
           /\ req[r].handler = "dumpDB" /\ Head(req[r].todo).do \in {"must", "try", "collect"} =>
                 On(r) \in Dumped
<1>1. Head(req[r].todo) \in StepsOf(req[r].handler) /\ Head(req[r].todo) \in Steps
    BY Acting
<1> QED
    BY <1>1 DEF StepsOf, Steps, On

\* What a step does to the one who takes it: it goes on, or is through and holds no lock.
Advances(r) ==
    /\ req'[r].at = "running" /\ req'[r].handler = req[r].handler
    /\ req'[r].todo = Tail(req[r].todo)
EndsFree(r) ==
    /\ req'[r] = [Idle EXCEPT !.at = req'[r].at] /\ req'[r].at \in {"done", "failed"}
    /\ readers'[r] = 0 /\ pending' # r

\* The others keep their locks and paths; some may be disturbed.
OthersKeep(r) ==
    \A s \in Requests \ {r} :
        /\ readers'[s] = readers[s]
        /\ pending' = s <=> pending = s
        /\ req'[s].at = req[s].at /\ req'[s].handler = req[s].handler
        /\ req'[s].todo = req[s].todo /\ req'[s].copy = req[s].copy
        /\ req[s].disturbed => req'[s].disturbed
        /\ readers[s] = 0 => req'[s] = req[s]

LEMMA TypeStep ==
    ASSUME DatabaseTypeOK, Disciplined, [Next]_vars PROVE DatabaseTypeOK'
<1>1. CASE UNCHANGED vars
    BY <1>1 DEF vars, DatabaseTypeOK
<1>2. ASSUME NEW r \in Requests, NEW h \in Serves[r], Serve(r, h) PROVE DatabaseTypeOK'
  <2>1. h \in DOMAIN Handlers /\ dump \in Copy /\ NoCopy \in Copy
    BY DatabaseAssumption, NoCopyIs DEF DatabaseTypeOK
  <2>2. PICK path \in Handlers[h] :
           req' = [req EXCEPT ![r] = [Idle EXCEPT !.at = "running", !.handler = h, !.todo = path,
                                                  !.copy = IF path = Import THEN dump ELSE NoCopy]]
    BY <1>2 DEF Serve
  <2>3. path \in Seq(Steps)
    BY <2>1, HandlersKeep, StepsOfAll DEF Paths
  <2>4. [Idle EXCEPT !.at = "running", !.handler = h, !.todo = path,
                     !.copy = IF path = Import THEN dump ELSE NoCopy] \in Request
    BY <2>1, <2>3 DEF Request, Idle
  <2>5. req' \in [Requests -> Request]
    BY <2>2, <2>4 DEF DatabaseTypeOK
  <2> QED
    BY <1>2, <2>5 DEF DatabaseTypeOK, Serve
<1>3. ASSUME NEW r \in Requests, Step(r) PROVE DatabaseTypeOK'
  <2>1. ASSUME NEW W, At(r, W), Advance(r) PROVE req' \in [Requests -> Request]
    <3>1. Tail(req[r].todo) \in Seq(Steps) /\ req \in [Requests -> Request] /\ req[r] \in Request
        BY <2>1, Acting DEF DatabaseTypeOK
    <3>2. [req[r] EXCEPT !.todo = Tail(req[r].todo)] \in Request
        BY <3>1 DEF Request
    <3> QED
        BY <2>1, <3>1, <3>2 DEF Advance
  <2>2. ASSUME NEW a \in {"done", "failed"}, End(r, a) PROVE req' \in [Requests -> Request]
    BY <2>2, IdleIs DEF End, DatabaseTypeOK
  <2>3. ASSUME Abort(r), UNCHANGED store, dump' \in {dump, NoCopy}, faults' \in Nat
        PROVE  DatabaseTypeOK'
    <3>1. req' \in [Requests -> Request]
        BY <2>2, <2>3 DEF Abort
    <3>2. readers' \in [Requests -> Nat] /\ pending' \in Requests \cup {None} /\ dump' \in Copy
        BY <2>3, NoCopyIs DEF Abort, DatabaseTypeOK
    <3> QED
        BY <2>3, <3>1, <3>2 DEF DatabaseTypeOK
  <2>4. Fault => faults' \in Nat
    BY DEF Fault, DatabaseTypeOK
  <2>5. CASE Answer(r)
    BY <2>2, <2>5 DEF Answer, DatabaseTypeOK
  <2>6. CASE RLock(r) \/ Announce(r) \/ Drain(r) \/ Unlock(r) \/ Calls(r)
    <3>1. req' \in [Requests -> Request]
        BY <2>1, <2>6 DEF RLock, Announce, Drain, Unlock, Calls
    <3>2. readers' \in [Requests -> Nat]
        BY <2>6 DEF RLock, Announce, Drain, Unlock, Calls, DatabaseTypeOK
    <3>3. pending' \in Requests \cup {None} /\ UNCHANGED <<store, dump, faults>>
        BY <2>6 DEF RLock, Announce, Drain, Unlock, Calls, DatabaseTypeOK
    <3> QED
        BY <3>1, <3>2, <3>3 DEF DatabaseTypeOK
  <2>7. CASE RUnlock(r)
    <3>1. At(r, {"runlock"}) /\ req \in [Requests -> Request]
        BY <2>7 DEF RUnlock, DatabaseTypeOK
    <3>2. /\ Tail(req[r].todo) \in Seq(Steps) /\ req[r] \in Request /\ NoCopy \in Copy
          /\ req[r].copy \in Copy /\ req[r].disturbed \in BOOLEAN
        BY <3>1, Acting, NoCopyIs DEF Request
    <3>3. readers[r] > 0 /\ readers \in [Requests -> Nat]
      <4>1. PICK m, k \in Int : InMode(r, m) /\ Leads(Head(req[r].todo), m, k)
        BY <3>1, Acting
      <4>2. Head(req[r].todo).do = "runlock"
        BY <3>1, Acting
      <4> QED
        BY <4>1, <4>2 DEF InMode, Leads, DatabaseTypeOK
    <3>4. readers' \in [Requests -> Nat]
        BY <2>7, <3>3 DEF RUnlock
    <3>5. req' \in [Requests -> Request]
        BY <2>7, <3>1, <3>2 DEF RUnlock, Request
    <3>6. dump' \in Copy
        BY <2>7, <3>2 DEF RUnlock, DatabaseTypeOK
    <3> QED
        BY <2>7, <3>4, <3>5, <3>6 DEF RUnlock, DatabaseTypeOK
  <2>8. CASE Read(r)
    <3>1. At(r, {"must", "try", "collect"}) /\ req \in [Requests -> Request]
        BY <2>8 DEF Read, DatabaseTypeOK
    <3>2. On(r) \in Collections /\ Tail(req[r].todo) \in Seq(Steps) /\ req[r] \in Request
        BY <3>1, Acting, Verb
    <3>3. req[r].copy \in Copy /\ WithCollection(req[r].copy, On(r)) \in Copy
        BY <3>2, CopyMore DEF Request, DatabaseTypeOK
    <3>4. req' \in [Requests -> Request]
        BY <2>8, <3>1, <3>2, <3>3 DEF Read, Request
    <3> QED
        BY <2>8, <3>4 DEF Read, DatabaseTypeOK
  <2>9. CASE ReadFails(r)
    <3>1. CASE At(r, {"try"}) /\ Advance(r) /\ UNCHANGED <<pending, readers>>
        BY <2>1, <2>4, <2>9, <3>1 DEF ReadFails, DatabaseTypeOK
    <3>2. CASE Abort(r)
        BY <2>3, <2>4, <2>9, <3>2 DEF ReadFails
    <3> QED
        BY <2>9, <3>1, <3>2 DEF ReadFails
  <2>10. CASE CollectFails(r)
    <3>1. CASE Advance(r) /\ UNCHANGED <<pending, readers, dump>>
        BY <2>1, <2>4, <2>10, <3>1 DEF CollectFails, DatabaseTypeOK
    <3>2. CASE Abort(r) /\ dump' \in {dump, NoCopy}
        BY <2>3, <2>4, <2>10, <3>2 DEF CollectFails
    <3> QED
        BY <2>10, <3>1, <3>2 DEF CollectFails
  <2>11. CASE Change(r)
    <3>1. At(r, {"write"}) /\ Advance(r)
        BY <2>11 DEF Change
    <3>2. req' \in [Requests -> Request]
        BY <2>1, <3>1
    <3>3. On(r) \in Collections
        BY <3>1, Acting, Verb
    <3>4. store' \in [Collections \cup {Strays} -> Nat]
        BY <2>11, <3>3 DEF Change, DatabaseTypeOK
    <3> QED
        BY <2>11, <3>2, <3>4 DEF Change, DatabaseTypeOK
  <2>12. CASE ChangeFails(r)
    BY <2>3, <2>4, <2>12 DEF ChangeFails
  <2>13. CASE Put(r) \/ PutFails(r)
    <3>1. At(r, {"put"}) /\ req \in [Requests -> Request] /\ readers \in [Requests -> Nat]
        BY <2>13 DEF Put, PutFails, DatabaseTypeOK
    <3>2. /\ Tail(req[r].todo) \in Seq(Steps) /\ req[r].copy \in Copy
          /\ \A s \in Requests : req[s] \in Request /\ req[s].disturbed \in BOOLEAN
        BY <3>1, Acting DEF Request
    <3>3. CASE Put(r)
      <4>1. \A s \in Requests :
                /\ [req[s] EXCEPT !.todo = Tail(req[r].todo)] \in Request
                /\ [req[s] EXCEPT !.disturbed = req[s].disturbed \/ readers[s] > 0] \in Request
        BY <3>2 DEF Request
      <4>2. req' = [s \in Requests |->
                      IF s = r THEN [req[s] EXCEPT !.todo = Tail(@)]
                      ELSE [req[s] EXCEPT !.disturbed = @ \/ readers[s] > 0]]
        BY <3>3 DEF Put
      <4>3. req' \in [Requests -> Request]
        BY <4>1, <4>2
      <4>4. store' \in [Collections \cup {Strays} -> Nat]
        <5>1. On(r) \in DOMAIN req[r].copy => req[r].copy[On(r)] \in Nat
            BY <3>2, CopyIs
        <5> QED
            BY <3>3, <5>1 DEF Put, DatabaseTypeOK
      <4> QED
        BY <3>3, <4>3, <4>4 DEF Put, DatabaseTypeOK
    <3>4. CASE PutFails(r)
      <4>1. [c \in DOMAIN req[r].copy \ {On(r)} |-> req[r].copy[c]] \in Copy
        BY <3>2, CopyLess
      <4>2. req' \in [Requests -> Request]
        BY <3>1, <3>2, <3>4, <4>1 DEF PutFails, Request
      <4> QED
        BY <2>4, <3>4, <4>2 DEF PutFails, DatabaseTypeOK
    <3> QED
        BY <2>13, <3>3, <3>4
  <2> QED
    BY <1>3, <2>5, <2>6, <2>7, <2>8, <2>9, <2>10, <2>11, <2>12, <2>13 DEF Step
<1> QED
    BY <1>1, <1>2, <1>3 DEF Next

LEMMA Advanced ==
    ASSUME DatabaseTypeOK, NEW r \in Requests, NEW W, At(r, W), Advance(r)
    PROVE  /\ Advances(r)
           /\ req'[r].copy = req[r].copy /\ req'[r].disturbed = req[r].disturbed
           /\ \A s \in Requests \ {r} : req'[s] = req[s]
<1>1. req[r] \in Request /\ req \in [Requests -> Request] /\ req[r].at = "running"
    BY DEF DatabaseTypeOK, At
<1> QED
    BY <1>1 DEF Advance, Advances, Request

LEMMA Aborted ==
    ASSUME DatabaseTypeOK, NEW r \in Requests, Abort(r)
    PROVE  EndsFree(r) /\ OthersKeep(r) /\ readers' = [readers EXCEPT ![r] = 0]
<1>1. req \in [Requests -> Request] /\ readers \in [Requests -> Nat] /\ None # r
    BY DatabaseAssumption DEF DatabaseTypeOK
<1>2. req'[r] = [Idle EXCEPT !.at = "failed"] /\ req'[r].at = "failed"
    BY <1>1, IdleIs DEF Abort, End
<1>3. EndsFree(r)
    BY <1>1, <1>2 DEF Abort, EndsFree
<1>4. OthersKeep(r)
  <2>1. \A s \in Requests \ {r} : readers'[s] = readers[s] /\ req'[s] = req[s]
    BY <1>1 DEF Abort, End
  <2>2. \A s \in Requests \ {r} : pending' = s <=> pending = s
    BY <1>1, DatabaseAssumption DEF Abort
  <2> QED
    BY <2>1, <2>2 DEF OthersKeep
<1> QED
    BY <1>3, <1>4 DEF Abort

\* Every step of a request.
LEMMA Moves ==
    ASSUME DatabaseTypeOK, Disciplined, NEW r \in Requests, Step(r)
    PROVE  /\ OthersKeep(r)
           /\ \A s \in Requests : readers'[s] <= readers[s] \/ pending = None
           /\ \/ EndsFree(r)
              \/ Advances(r) /\ \E m \in Int : InMode(r, m)'
<1>1. /\ req \in [Requests -> Request] /\ readers \in [Requests -> Nat] /\ None \notin Requests
      /\ req[r] \in Request
    BY DatabaseAssumption DEF DatabaseTypeOK
<1> DEFINE Goal ==
             /\ OthersKeep(r)
             /\ \A s \in Requests : readers'[s] <= readers[s] \/ pending = None
             /\ EndsFree(r) \/ (Advances(r) /\ \E m \in Int : InMode(r, m)')
<1>2. CASE Answer(r)
  <2>1. PICK m \in Int : InMode(r, m)
    BY <1>2 DEF Answer, Disciplined, KeepsToPath
  <2>2. m = 0
    BY <1>2, <2>1, NothingLeads DEF Answer, InMode
  <2>3. readers[r] = 0 /\ pending # r
    BY <2>1, <2>2 DEF InMode
  <2>4. req'[r] = [Idle EXCEPT !.at = "done"] /\ req'[r].at = "done"
    BY <1>1, <1>2, IdleIs DEF Answer, End
  <2>5. EndsFree(r)
    BY <1>2, <2>3, <2>4 DEF Answer, EndsFree
  <2>6. OthersKeep(r)
    BY <1>1, <1>2 DEF Answer, End, OthersKeep
  <2> QED
    BY <1>1, <1>2, <2>5, <2>6 DEF Answer
<1>3. ASSUME Abort(r) PROVE Goal
  <2>1. \A s \in Requests : readers'[s] <= readers[s]
    BY <1>1, <1>3, Aborted
  <2> QED
    BY <1>3, <2>1, Aborted
\* One that goes on.
<1>4. ASSUME NEW W, At(r, W), Advances(r), OthersKeep(r),
             \A s \in Requests : readers'[s] <= readers[s] \/ pending = None,
             \A m, k \in Int :
                InMode(r, m) /\ Leads(Head(req[r].todo), m, k)
                  => /\ readers'[r] = (IF k > 0 THEN k ELSE 0)
                     /\ pending' = r <=> k < 0
                     /\ k = Writing => \A s \in Requests : readers'[s] = 0
      PROVE  Goal
  <2>1. PICK m, k \in Int :
           InMode(r, m) /\ Leads(Head(req[r].todo), m, k) /\ PathLeads(Tail(req[r].todo), k, 0)
    BY <1>4, Acting
  <2>2. InMode(r, k)'
    BY <1>4, <2>1 DEF InMode, Advances
  <2> QED
    BY <1>4, <2>2
\* One that leaves the lock alone.
<1>5. ASSUME NEW W, At(r, W), W \cap {"rlock", "runlock", "announce", "drain", "unlock"} = {},
             Advances(r), OthersKeep(r), UNCHANGED <<readers, pending>>
      PROVE  Goal
  <2>1. ASSUME NEW m \in Int, NEW k \in Int, InMode(r, m), Leads(Head(req[r].todo), m, k)
        PROVE  k = m
    BY <1>5, <2>1 DEF At, Leads
  <2>2. \A s \in Requests : readers'[s] <= readers[s]
    BY <1>1, <1>5
  <2> QED
    BY <1>4, <1>5, <2>1, <2>2 DEF InMode
<1>6. CASE RLock(r)
  <2>1. At(r, {"rlock"}) /\ Advance(r) /\ pending = None /\ pending' = None
    BY <1>6 DEF RLock
  <2>2. Advances(r) /\ \A s \in Requests \ {r} : req'[s] = req[s]
    BY <2>1, Advanced
  <2>3. OthersKeep(r) /\ readers'[r] = readers[r] + 1
    BY <1>1, <1>6, <2>2 DEF RLock, OthersKeep
  <2>4. ASSUME NEW m \in Int, NEW k \in Int, InMode(r, m), Leads(Head(req[r].todo), m, k)
        PROVE  m >= 0 /\ k = m + 1 /\ readers[r] = m
    BY <2>1, <2>4 DEF At, Leads, InMode
  <2> QED
    BY <1>1, <1>4, <2>1, <2>2, <2>3, <2>4 DEF Writing
<1>7. CASE RUnlock(r)
  <2>1. At(r, {"runlock"}) /\ pending' = pending
    BY <1>7 DEF RUnlock
  <2>2. Advances(r) /\ \A s \in Requests \ {r} : req'[s] = req[s]
    BY <1>1, <1>7 DEF RUnlock, Advances, Request, At
  <2>3. OthersKeep(r) /\ readers'[r] = readers[r] - 1
    BY <1>1, <1>7, <2>2 DEF RUnlock, OthersKeep
  <2>4. ASSUME NEW m \in Int, NEW k \in Int, InMode(r, m), Leads(Head(req[r].todo), m, k)
        PROVE  m > 0 /\ k = m - 1 /\ readers[r] = m /\ pending # r
    BY <2>1, <2>4 DEF At, Leads, InMode
  <2>5. ASSUME NEW s \in Requests PROVE readers'[s] <= readers[s]
    <3>1. readers[s] \in Nat /\ readers[r] \in Nat
        BY <1>1
    <3>2. readers'[r] <= readers[r]
        BY <2>3, <3>1
    <3>3. CASE s # r
      <4>1. readers'[s] = readers[s]
        BY <2>3, <3>3 DEF OthersKeep
      <4> QED
        BY <3>1, <4>1
    <3> QED
        BY <3>2, <3>3
  <2> QED
    BY <1>1, <1>4, <2>1, <2>2, <2>3, <2>4, <2>5 DEF Writing
<1>8. CASE Announce(r)
  <2>1. At(r, {"announce"}) /\ Advance(r) /\ pending = None /\ pending' = r /\ readers' = readers
    BY <1>8 DEF Announce
  <2>2. Advances(r) /\ OthersKeep(r)
    BY <1>1, <2>1, Advanced DEF OthersKeep
  <2>3. ASSUME NEW m \in Int, NEW k \in Int, InMode(r, m), Leads(Head(req[r].todo), m, k)
        PROVE  k = Waiting /\ readers[r] = 0
    BY <2>1, <2>3 DEF At, Leads, InMode
  <2> QED
    BY <1>1, <1>4, <2>1, <2>2, <2>3 DEF Waiting, Writing
<1>9. CASE Drain(r)
  <2>1. /\ At(r, {"drain"}) /\ Advance(r) /\ UNCHANGED <<readers, pending>>
        /\ \A s \in Requests : readers[s] = 0
    BY <1>9 DEF Drain
  <2>2. Advances(r) /\ OthersKeep(r)
    BY <1>1, <2>1, Advanced DEF OthersKeep
  <2>3. ASSUME NEW m \in Int, NEW k \in Int, InMode(r, m), Leads(Head(req[r].todo), m, k)
        PROVE  m = Waiting /\ k = Writing /\ pending = r
    BY <2>1, <2>3 DEF At, Leads, InMode, Waiting
  <2> QED
    BY <1>1, <1>4, <2>1, <2>2, <2>3 DEF Waiting, Writing
<1>10. CASE Unlock(r)
  <2>1. At(r, {"unlock"}) /\ Advance(r) /\ pending' = None /\ readers' = readers
    BY <1>10 DEF Unlock
  <2>2. ASSUME NEW m \in Int, NEW k \in Int, InMode(r, m), Leads(Head(req[r].todo), m, k)
        PROVE  m = Writing /\ k = 0 /\ pending = r /\ readers[r] = 0
    BY <2>1, <2>2 DEF At, Leads, InMode, Writing
  <2>3. pending = r
    BY <2>1, <2>2, Acting
  <2>4. Advances(r) /\ OthersKeep(r)
    BY <1>1, <2>1, <2>3, Advanced DEF OthersKeep
  <2> QED
    BY <1>1, <1>4, <2>1, <2>2, <2>4 DEF Writing
<1>11. CASE Read(r)
  <2>1. At(r, {"must", "try", "collect"}) /\ UNCHANGED <<readers, pending>>
    BY <1>11 DEF Read
  <2>2. Advances(r) /\ OthersKeep(r)
    BY <1>1, <1>11 DEF Read, Advances, OthersKeep, Request, At
  <2> QED
    BY <1>5, <2>1, <2>2
<1>12. CASE ReadFails(r)
  <2>1. CASE At(r, {"try"}) /\ Advance(r) /\ UNCHANGED <<pending, readers>>
    BY <1>1, <1>5, <2>1, Advanced DEF OthersKeep
  <2> QED
    BY <1>3, <1>12, <2>1 DEF ReadFails
<1>13. CASE CollectFails(r)
  <2>1. CASE At(r, {"collect"}) /\ Advance(r) /\ UNCHANGED <<pending, readers>>
    BY <1>1, <1>5, <2>1, Advanced DEF OthersKeep
  <2> QED
    BY <1>3, <1>13, <2>1 DEF CollectFails
<1>14. CASE Change(r)
  <2>1. At(r, {"write"}) /\ Advance(r) /\ UNCHANGED <<pending, readers>>
    BY <1>14 DEF Change
  <2> QED
    BY <1>1, <1>5, <2>1, Advanced DEF OthersKeep
<1>15. CASE ChangeFails(r)
    BY <1>3, <1>15 DEF ChangeFails
<1>16. CASE Put(r)
  <2>1. At(r, {"put"}) /\ UNCHANGED <<pending, readers>>
    BY <1>16 DEF Put
  <2>2. req' = [s \in Requests |->
                  IF s = r THEN [req[s] EXCEPT !.todo = Tail(@)]
                  ELSE [req[s] EXCEPT !.disturbed = @ \/ readers[s] > 0]]
    BY <1>16 DEF Put
  <2>3. Advances(r)
    BY <1>1, <2>1, <2>2 DEF Advances, Request, At
  <2>4. ASSUME NEW s \in Requests \ {r}
        PROVE  /\ req'[s].at = req[s].at /\ req'[s].handler = req[s].handler
               /\ req'[s].todo = req[s].todo /\ req'[s].copy = req[s].copy
               /\ req[s].disturbed => req'[s].disturbed
               /\ readers[s] = 0 => req'[s] = req[s]
    <3>1. req[s] \in Request /\ req'[s] = [req[s] EXCEPT !.disturbed = @ \/ readers[s] > 0]
        BY <1>1, <2>2
    <3> QED
        BY <3>1 DEF Request
  <2> QED
    BY <1>5, <2>1, <2>3, <2>4 DEF OthersKeep
<1>17. CASE PutFails(r)
  <2>1. At(r, {"put"}) /\ UNCHANGED <<pending, readers>>
    BY <1>17 DEF PutFails
  <2>2. Advances(r) /\ OthersKeep(r)
    BY <1>1, <1>17 DEF PutFails, Advances, OthersKeep, Request, At
  <2> QED
    BY <1>5, <2>1, <2>2
<1>18. CASE Calls(r)
  <2>1. At(r, {"call"}) /\ Advance(r) /\ UNCHANGED <<pending, readers>>
    BY <1>18 DEF Calls
  <2> QED
    BY <1>1, <1>5, <2>1, Advanced DEF OthersKeep
<1> QED
    BY <1>2, <1>6, <1>7, <1>8, <1>9, <1>10, <1>11, <1>12, <1>13, <1>14, <1>15, <1>16, <1>17, <1>18
    DEF Step

\* A request that comes in.
LEMMA Served ==
    ASSUME DatabaseTypeOK, Disciplined, NEW r \in Requests, NEW h \in Serves[r], Serve(r, h)
    PROVE  /\ OthersKeep(r) /\ UNCHANGED <<store, pending, readers, dump, faults>>
           /\ h \in DOMAIN Handlers /\ readers[r] = 0 /\ pending # r
           /\ req'[r].at = "running" /\ req'[r].handler = h /\ req'[r].todo \in Handlers[h]
           /\ req'[r].copy = (IF req'[r].todo = Import THEN dump ELSE NoCopy)
           /\ req'[r].disturbed = FALSE
<1>1. PICK path \in Handlers[h] :
         req' = [req EXCEPT ![r] = [Idle EXCEPT !.at = "running", !.handler = h, !.todo = path,
                                                !.copy = IF path = Import THEN dump ELSE NoCopy]]
    BY DEF Serve
<1>2. h \in DOMAIN Handlers /\ req \in [Requests -> Request]
    BY DatabaseAssumption DEF DatabaseTypeOK
<1>3. readers[r] = 0 /\ pending # r
    BY DEF Serve, Disciplined, KeepsToPath
<1> DEFINE new == [Idle EXCEPT !.at = "running", !.handler = h, !.todo = path,
                               !.copy = IF path = Import THEN dump ELSE NoCopy]
<1>4. /\ new.at = "running" /\ new.handler = h /\ new.todo = path
      /\ new.copy = (IF path = Import THEN dump ELSE NoCopy) /\ new.disturbed = FALSE
    BY DEF Idle
<1>5. req' = [req EXCEPT ![r] = new]
    BY <1>1
<1> HIDE DEF new
<1>6. req'[r] = new /\ \A s \in Requests \ {r} : req'[s] = req[s]
    BY <1>2, <1>5
<1>7. UNCHANGED <<store, pending, readers, dump, faults>>
    BY DEF Serve
<1> QED
    BY <1>2, <1>3, <1>4, <1>6, <1>7 DEF OthersKeep

LEMMA DisciplinedStep ==
    ASSUME DatabaseTypeOK, Disciplined, [Next]_vars PROVE Disciplined'
<1>1. CASE UNCHANGED vars
    BY <1>1 DEF vars, Disciplined, KeepsToPath, InMode
<1>2. \A s \in Requests : KeepsToPath(s) /\ req[s] \in Request /\ readers[s] \in Nat
    BY DEF Disciplined, DatabaseTypeOK
\* The others.
<1>3. ASSUME NEW r \in Requests, OthersKeep(r), readers'[r] \in Nat,
             readers'[r] <= readers[r] \/ pending = None, NEW s \in Requests \ {r}
      PROVE  KeepsToPath(s)'
  <2>1. /\ req'[s].at = req[s].at /\ req'[s].handler = req[s].handler
        /\ req'[s].todo = req[s].todo /\ readers'[s] = readers[s]
        /\ pending' = s <=> pending = s
    BY <1>2, <1>3 DEF OthersKeep, Request
  <2>2. CASE req[s].at = "running"
    <3>1. PICK m \in Int : InMode(s, m)
        BY <1>2, <2>2 DEF KeepsToPath
    <3>2. m = Writing => \A q \in Requests : readers'[q] = 0
      <4> SUFFICES ASSUME m = Writing, NEW q \in Requests PROVE readers'[q] = 0
        OBVIOUS
      <4>1. pending = s /\ \A p \in Requests : readers[p] = 0
        BY <3>1 DEF InMode, Writing
      <4>2. CASE q # r
        BY <1>3, <4>1, <4>2 DEF OthersKeep
      <4>3. CASE q = r
        <5>1. readers'[r] <= 0
            BY <1>3, <4>1, DatabaseAssumption
        <5> QED
            BY <1>3, <4>3, <5>1
      <4> QED
        BY <4>2, <4>3
    <3>3. InMode(s, m)'
        BY <2>1, <3>1, <3>2 DEF InMode
    <3> QED
        BY <1>2, <2>1, <2>2, <3>3 DEF KeepsToPath
  <2>3. CASE req[s].at # "running"
    <3>1. readers[s] = 0 /\ pending # s
        BY <1>2, <2>3 DEF KeepsToPath
    <3>2. req'[s] = req[s]
        BY <1>3, <3>1 DEF OthersKeep
    <3> QED
        BY <2>1, <2>3, <3>1, <3>2 DEF KeepsToPath
  <2> QED
    BY <2>2, <2>3
<1>4. DatabaseTypeOK'
    BY TypeStep
<1>5. ASSUME NEW r \in Requests, NEW h \in Serves[r], Serve(r, h) PROVE Disciplined'
  <2>1. /\ OthersKeep(r) /\ UNCHANGED <<pending, readers>> /\ h \in DOMAIN Handlers
        /\ readers[r] = 0 /\ pending # r
        /\ req'[r].at = "running" /\ req'[r].handler = h /\ req'[r].todo \in Handlers[h]
    BY <1>5, Served
  <2>2. req'[r].todo \in Seq(StepsOf(h)) /\ PathLeads(req'[r].todo, 0, 0)
    BY <2>1, HandlersKeep DEF Paths
  <2>3. InMode(r, 0)'
    BY <2>1, <2>2 DEF InMode, Writing
  <2>4. KeepsToPath(r)'
    BY <2>1, <2>2, <2>3 DEF KeepsToPath
  <2>5. readers'[r] \in Nat /\ readers'[r] <= readers[r]
    BY <1>2, <2>1
  <2>6. \A s \in Requests : KeepsToPath(s)'
    BY <1>3, <2>1, <2>4, <2>5
  <2> QED
    BY <2>6 DEF Disciplined
<1>6. ASSUME NEW r \in Requests, Step(r) PROVE Disciplined'
  <2>1. /\ OthersKeep(r) /\ (readers'[r] <= readers[r] \/ pending = None)
        /\ EndsFree(r) \/ (Advances(r) /\ \E m \in Int : InMode(r, m)')
    BY <1>6, Moves
  <2>2. readers'[r] \in Nat
    BY <1>4 DEF DatabaseTypeOK
  <2>3. ASSUME EndsFree(r) PROVE KeepsToPath(r)'
    <3>1. req'[r].at # "running"
        BY <2>3 DEF EndsFree
    <3> QED
        BY <2>3, <3>1 DEF EndsFree, KeepsToPath
  <2>4. ASSUME Advances(r), NEW m \in Int, InMode(r, m)' PROVE KeepsToPath(r)'
    <3>1. req[r].at = "running"
        BY <1>6 DEF Step, Answer, RLock, RUnlock, Announce, Drain, Unlock, Read, ReadFails,
                    CollectFails, Change, ChangeFails, Put, PutFails, Calls, At
    <3>3. CASE req[r].todo # <<>>
      <4>1. /\ req[r].handler \in DOMAIN Handlers
            /\ req[r].todo \in Seq(StepsOf(req[r].handler))
        BY <1>2, <3>1 DEF KeepsToPath
      <4>2. \A S : \A q \in Seq(S) : q # <<>> => Tail(q) \in Seq(S)
        OBVIOUS
      <4>3. Tail(req[r].todo) \in Seq(StepsOf(req[r].handler))
        BY <3>3, <4>1, <4>2
      <4> QED
        BY <2>4, <4>1, <4>3 DEF KeepsToPath, Advances
    <3>4. CASE req[r].todo = <<>>
      <4>1. Answer(r)
        BY <1>6, <3>4 DEF Step, RLock, RUnlock, Announce, Drain, Unlock, Read, ReadFails,
                          CollectFails, Change, ChangeFails, Put, PutFails, Calls, At
      <4>2. req'[r].at = "done"
        BY <4>1, IdleIs DEF Answer, End, DatabaseTypeOK
      <4> QED
        BY <2>4, <4>2 DEF Advances
    <3> QED
        BY <3>3, <3>4
  <2>5. \A s \in Requests : KeepsToPath(s)'
    BY <1>3, <2>1, <2>2, <2>3, <2>4
  <2> QED
    BY <2>5 DEF Disciplined
<1> QED
    BY <1>1, <1>5, <1>6 DEF Next

\* A step that touches no document.
Goes(r) ==
    /\ Advances(r) /\ UNCHANGED <<store, dump>>
    /\ req'[r].copy = req[r].copy /\ req'[r].disturbed = req[r].disturbed
    /\ readers'[r] = 0 => readers[r] = 0
    /\ req[r].todo # <<>> /\ Head(req[r].todo).do # "put"

LEMMA Kinds ==
    ASSUME DatabaseTypeOK, Disciplined, NEW r \in Requests, Step(r)
    PROVE  \/ EndsFree(r) /\ UNCHANGED store /\ dump' \in {dump, NoCopy}
           \/ Goes(r)
           \/ Read(r) \/ RUnlock(r) \/ Change(r) \/ Put(r) \/ PutFails(r)
<1>1. ASSUME NEW W, At(r, W), "put" \notin W, Advance(r), UNCHANGED <<store, dump>>,
             readers'[r] = 0 => readers[r] = 0
      PROVE  Goes(r)
    BY <1>1, Advanced DEF Goes, At
<1>2. CASE Answer(r)
  <2>1. ~Advances(r)
    <3>1. req'[r].at = "done"
        BY <1>2, IdleIs DEF Answer, End, DatabaseTypeOK
    <3> QED
        BY <3>1 DEF Advances
  <2> QED
    BY <1>2, <2>1, Moves DEF Answer
<1>3. CASE RLock(r)
  <2>1. readers'[r] # 0
    BY <1>3 DEF RLock, DatabaseTypeOK
  <2> QED
    BY <1>1, <1>3, <2>1 DEF RLock
<1>4. CASE Announce(r) \/ Drain(r) \/ Unlock(r) \/ Calls(r)
    BY <1>1, <1>4 DEF Announce, Drain, Unlock, Calls
<1>5. CASE ReadFails(r)
    BY <1>1, <1>5, Aborted DEF ReadFails
<1>6. CASE CollectFails(r)
    BY <1>1, <1>6, Aborted DEF CollectFails
<1>7. CASE ChangeFails(r)
    BY <1>7, Aborted DEF ChangeFails
<1> QED
    BY <1>2, <1>3, <1>4, <1>5, <1>6, <1>7 DEF Step

\* Who changes a collection under the lock is alone.
LEMMA ChangesAlone ==
    ASSUME DatabaseTypeOK, Disciplined, NEW r \in Requests, Change(r)
    PROVE  /\ On(r) \in Unlocked \/ \A s \in Requests : readers[s] = 0
           /\ On(r) \in Collections /\ req[r].handler # "importDB"
           /\ Advances(r) /\ readers' = readers /\ dump' = dump
           /\ req'[r].copy = req[r].copy /\ req'[r].disturbed = req[r].disturbed
           /\ \A s \in Requests \ {r} : req'[s] = req[s]
           /\ \A c \in Collections \ {On(r)} : store'[c] = store[c]
<1>1. At(r, {"write"}) /\ Advance(r)
    BY DEF Change
<1>2. Head(req[r].todo).do = "write" /\ Head(req[r].todo) \in StepsOf(req[r].handler)
    BY <1>1, Acting
<1>3. PICK m, k \in Int : InMode(r, m) /\ Leads(Head(req[r].todo), m, k)
    BY <1>1, Acting
<1>4. On(r) \in Unlocked \/ \A s \in Requests : readers[s] = 0
    BY <1>2, <1>3 DEF Leads, InMode, On
<1>5. On(r) \in Collections
    BY <1>1, <1>2, Verb
<1>6. req[r].handler # "importDB"
    BY <1>2 DEF StepsOf
<1>7. \A c \in Collections \ {On(r)} : store'[c] = store[c]
    BY <1>5 DEF Change, DatabaseTypeOK
<1>8. readers' = readers /\ dump' = dump
    BY DEF Change
<1> QED
    BY <1>1, <1>4, <1>5, <1>6, <1>7, <1>8, Advanced

\* A document that is read while the lock is held.
LEMMA ReadsMore ==
    ASSUME DatabaseTypeOK, Disciplined, NEW r \in Requests, Read(r)
    PROVE  /\ On(r) \in Collections /\ req[r].handler # "importDB"
           /\ req[r].handler = "dumpDB" => On(r) \in Dumped
           /\ Advances(r) /\ UNCHANGED <<readers, store, dump>>
           /\ req'[r].disturbed = req[r].disturbed
           /\ readers[r] = 0 => req'[r].copy = req[r].copy
           /\ readers[r] > 0 =>
                 /\ DOMAIN req'[r].copy = DOMAIN req[r].copy \cup {On(r)}
                 /\ \A c \in DOMAIN req[r].copy \cup {On(r)} :
                       req'[r].copy[c] = IF c = On(r) THEN store[c] ELSE req[r].copy[c]
<1>1. At(r, {"must", "try", "collect"}) /\ UNCHANGED <<readers, store, dump>>
    BY DEF Read
<1>2. /\ Head(req[r].todo).do \in {"must", "try", "collect"}
      /\ Head(req[r].todo) \in StepsOf(req[r].handler) /\ req[r] \in Request
    BY <1>1, Acting
<1>3. On(r) \in Collections /\ (req[r].handler = "dumpDB" => On(r) \in Dumped)
    BY <1>1, <1>2, Verb
<1>4. req[r].handler # "importDB"
    BY <1>2 DEF StepsOf
<1>5. /\ Advances(r) /\ req'[r].disturbed = req[r].disturbed
      /\ req'[r].copy = IF readers[r] > 0 THEN WithCollection(req[r].copy, On(r)) ELSE req[r].copy
    BY <1>1, <1>2 DEF Read, Advances, Request, DatabaseTypeOK, At
<1>6. store[On(r)] \in Nat /\ req[r].copy \in Copy
    BY <1>2, <1>3 DEF DatabaseTypeOK, Request
<1>7. /\ DOMAIN WithCollection(req[r].copy, On(r)) = DOMAIN req[r].copy \cup {On(r)}
      /\ \A c \in DOMAIN req[r].copy \cup {On(r)} :
            WithCollection(req[r].copy, On(r))[c] = IF c = On(r) THEN store[c] ELSE req[r].copy[c]
    BY <1>3, <1>6, CopyMore
<1> QED
    BY <1>1, <1>3, <1>4, <1>5, <1>7

\* The last lock that a reader releases.
LEMMA Releases ==
    ASSUME DatabaseTypeOK, Disciplined, NEW r \in Requests, RUnlock(r)
    PROVE  /\ Advances(r) /\ store' = store /\ readers[r] \in Nat /\ readers[r] > 0
           /\ readers'[r] = readers[r] - 1
           /\ Head(req[r].todo).do = "runlock" /\ req[r].todo # <<>>
           /\ req'[r].copy = (IF readers[r] = 1 THEN NoCopy ELSE req[r].copy)
           /\ readers[r] = 1 => ~req'[r].disturbed
           /\ readers[r] # 1 => req'[r].disturbed = req[r].disturbed
           /\ dump' = (IF req[r].handler = "dumpDB" THEN req[r].copy ELSE dump)
<1>1. At(r, {"runlock"}) /\ store' = store
    BY DEF RUnlock
<1>2. Head(req[r].todo).do = "runlock" /\ req[r].todo # <<>> /\ req[r] \in Request
    BY <1>1, Acting
<1>3. PICK m, k \in Int : InMode(r, m) /\ Leads(Head(req[r].todo), m, k)
    BY <1>1, Acting
<1>4. readers[r] \in Nat /\ readers[r] > 0
    BY <1>2, <1>3 DEF Leads, InMode
<1>5. readers'[r] = readers[r] - 1
    BY DEF RUnlock, DatabaseTypeOK
<1>6. /\ Advances(r)
      /\ req'[r].copy = (IF readers[r] = 1 THEN NoCopy ELSE req[r].copy)
      /\ req'[r].disturbed = (IF readers[r] = 1 THEN FALSE ELSE req[r].disturbed)
    BY <1>1, <1>2 DEF RUnlock, Advances, Request, DatabaseTypeOK, At
<1>7. dump' = (IF req[r].handler = "dumpDB" THEN req[r].copy ELSE dump)
    BY DEF RUnlock
<1> QED
    BY <1>1, <1>2, <1>4, <1>5, <1>6, <1>7

\* A document that is restored, or cannot be.
LEMMA Puts ==
    ASSUME DatabaseTypeOK, Disciplined, NEW r \in Requests, Put(r) \/ PutFails(r)
    PROVE  /\ On(r) \in Collections /\ req[r].handler = "importDB" /\ readers[r] > 0
           /\ req[r].todo # <<>> /\ Head(req[r].todo) = Do("put", On(r))
           /\ Advances(r) /\ UNCHANGED <<readers, dump>>
           /\ req'[r].disturbed = req[r].disturbed
           /\ Put(r) =>
                 /\ req'[r].copy = req[r].copy
                 /\ \A s \in Requests \ {r} : readers[s] > 0 => req'[s].disturbed
                 /\ \A c \in Collections \ {"reputations"} :
                       store'[c] = IF c = On(r) /\ c \in DOMAIN req[r].copy THEN req[r].copy[c]
                                   ELSE store[c]
           /\ PutFails(r) =>
                 /\ store' = store
                 /\ req'[r].copy = [c \in DOMAIN req[r].copy \ {On(r)} |-> req[r].copy[c]]
<1>1. At(r, {"put"}) /\ UNCHANGED <<readers, dump>>
    BY DEF Put, PutFails
<1>2. /\ Head(req[r].todo).do = "put" /\ req[r].todo # <<>> /\ req[r].at = "running"
      /\ Head(req[r].todo) \in Steps /\ req[r] \in Request
    BY <1>1, Acting
<1>3. On(r) \in Collections /\ req[r].handler = "importDB"
    BY <1>1, <1>2, Verb
<1>4. Head(req[r].todo) = Do("put", On(r))
    BY <1>2 DEF Steps, Do, On
<1>5. PICK m, k \in Int : InMode(r, m) /\ Leads(Head(req[r].todo), m, k)
    BY <1>1, Acting
<1>6. readers[r] > 0
    BY <1>2, <1>5 DEF Leads, InMode
<1>7. \A s \in Requests : req[s] \in Request
    BY DEF DatabaseTypeOK
<1>8. ASSUME Put(r)
      PROVE  /\ Advances(r) /\ req'[r].disturbed = req[r].disturbed /\ req'[r].copy = req[r].copy
             /\ \A s \in Requests \ {r} : readers[s] > 0 => req'[s].disturbed
             /\ \A c \in Collections \ {"reputations"} :
                   store'[c] = IF c = On(r) /\ c \in DOMAIN req[r].copy THEN req[r].copy[c]
                               ELSE store[c]
  <2>1. req' = [s \in Requests |->
                  IF s = r THEN [req[s] EXCEPT !.todo = Tail(@)]
                  ELSE [req[s] EXCEPT !.disturbed = @ \/ readers[s] > 0]]
    BY <1>8 DEF Put
  <2>2. req'[r] = [req[r] EXCEPT !.todo = Tail(@)]
    BY <2>1
  <2>3. \A s \in Requests \ {r} : req'[s] = [req[s] EXCEPT !.disturbed = @ \/ readers[s] > 0]
    BY <2>1
  <2>4. Advances(r) /\ req'[r].disturbed = req[r].disturbed /\ req'[r].copy = req[r].copy
    BY <1>2, <2>2 DEF Advances, Request
  <2>5. \A s \in Requests \ {r} : readers[s] > 0 => req'[s].disturbed
    BY <1>7, <2>3 DEF Request
  <2>6. "strays" \notin Collections
    BY DEF Collections
  <2>7. store' = [store EXCEPT ![Target(On(r))] =
                    IF On(r) \in DOMAIN req[r].copy THEN req[r].copy[On(r)] ELSE @]
    BY <1>8 DEF Put
  <2>8. ASSUME NEW c \in Collections \ {"reputations"}
        PROVE  store'[c] = IF c = On(r) /\ c \in DOMAIN req[r].copy THEN req[r].copy[c] ELSE store[c]
    <3>1. store \in [Collections \cup {Strays} -> Nat] /\ c # Strays
        BY <2>6 DEF DatabaseTypeOK, Strays
    <3>2. CASE On(r) = c
      <4>1. Target(On(r)) = c
        BY <3>2 DEF Target
      <4> QED
        BY <2>7, <3>1, <3>2, <4>1
    <3>3. CASE On(r) # c
      <4>1. Target(On(r)) # c
        BY <3>1, <3>3 DEF Target
      <4> QED
        BY <2>7, <3>1, <3>3, <4>1
    <3> QED
        BY <3>2, <3>3
  <2> QED
    BY <2>4, <2>5, <2>8
<1>9. ASSUME PutFails(r)
      PROVE  /\ Advances(r) /\ req'[r].disturbed = req[r].disturbed /\ store' = store
             /\ req'[r].copy = [c \in DOMAIN req[r].copy \ {On(r)} |-> req[r].copy[c]]
    BY <1>2, <1>7, <1>9 DEF PutFails, Advances, Request, DatabaseTypeOK
<1> QED
    BY <1>1, <1>2, <1>3, <1>4, <1>6, <1>8, <1>9

LEMMA StepTouches ==
    ASSUME DatabaseTypeOK, Disciplined, NEW r \in Requests, Step(r)
    PROVE  /\ OthersKeep(r)
           /\ \/ EndsFree(r) /\ UNCHANGED store /\ dump' \in {dump, NoCopy}
              \/ Goes(r) \/ Read(r) \/ RUnlock(r) \/ Change(r) \/ Put(r) \/ PutFails(r)
    BY Moves, Kinds

LEMMA CopiesStep ==
    ASSUME DatabaseTypeOK, Disciplined, Copies, [Next]_vars PROVE Copies'
<1> DEFINE C(s) == /\ readers[s] = 0 => ~req[s].disturbed
                   /\ readers[s] = 0 /\ req[s].handler # "importDB" => req[s].copy = NoCopy
                   /\ req[s].handler \in {"dumpDB", "importDB"} => DOMAIN req[s].copy \subseteq Dumped
<1>1. CASE UNCHANGED vars
    BY <1>1 DEF vars, Copies
<1>2. ASSUME NEW r \in Requests, OthersKeep(r), NEW s \in Requests \ {r} PROVE C(s)'
  <2>1. /\ readers'[s] = readers[s] /\ req'[s].handler = req[s].handler
        /\ req'[s].copy = req[s].copy
        /\ readers[s] = 0 => req'[s] = req[s]
    BY <1>2 DEF OthersKeep
  <2> QED
    BY <1>2, <2>1 DEF Copies
<1>3. ASSUME NEW r \in Requests, OthersKeep(r), C(r)', DOMAIN dump' \subseteq Dumped PROVE Copies'
  <2>1. \A s \in Requests : C(s)'
    BY <1>2, <1>3
  <2> QED
    BY <1>3, <2>1 DEF Copies
<1>4. DOMAIN dump \subseteq Dumped /\ DOMAIN NoCopy \subseteq Dumped
    BY NoCopyIs DEF Copies
<1>5. ASSUME NEW r \in Requests, NEW h \in Serves[r], Serve(r, h) PROVE Copies'
  <2>1. /\ OthersKeep(r) /\ dump' = dump /\ h \in DOMAIN Handlers
        /\ req'[r].handler = h /\ req'[r].todo \in Handlers[h]
        /\ req'[r].copy = (IF req'[r].todo = Import THEN dump ELSE NoCopy)
        /\ ~req'[r].disturbed
    BY <1>5, Served
  <2>2. h # "importDB" => req'[r].todo # Import
    <3>1. h # "importDB" => StepsOf(h) \subseteq Plain
        BY DEF StepsOf, Plain
    <3>2. req'[r].todo \in Seq(StepsOf(h))
        BY <2>1, HandlersKeep DEF Paths
    <3>3. \A S, T : S \subseteq T => Seq(S) \subseteq Seq(T)
        OBVIOUS
    <3>4. h # "importDB" => req'[r].todo \in Seq(Plain)
        BY <3>1, <3>2, <3>3
    <3> QED
        BY <3>4, Imports
  <2>3. C(r)'
    BY <1>4, <2>1, <2>2
  <2> QED
    BY <1>3, <1>4, <2>1, <2>3
<1>6. ASSUME NEW r \in Requests, Step(r) PROVE Copies'
  <2>1. C(r) /\ OthersKeep(r)
    BY <1>6, StepTouches DEF Copies
  <2>2. CASE EndsFree(r) /\ UNCHANGED store /\ dump' \in {dump, NoCopy}
    <3>1. req'[r].handler = None /\ req'[r].copy = NoCopy /\ ~req'[r].disturbed
        BY <2>2, IdleIs DEF EndsFree
    <3> QED
        BY <1>3, <1>4, <2>1, <2>2, <3>1
  <2>3. CASE Goes(r)
    BY <1>3, <1>4, <2>1, <2>3 DEF Goes, Advances
  <2>4. CASE Read(r)
    <3>1. /\ On(r) \in Collections /\ req[r].handler # "importDB"
          /\ req[r].handler = "dumpDB" => On(r) \in Dumped
          /\ Advances(r) /\ UNCHANGED <<readers, store, dump>>
          /\ req'[r].disturbed = req[r].disturbed
          /\ readers[r] = 0 => req'[r].copy = req[r].copy
          /\ readers[r] > 0 => DOMAIN req'[r].copy = DOMAIN req[r].copy \cup {On(r)}
        BY <2>4, ReadsMore
    <3>2. req'[r].handler = req[r].handler /\ readers[r] \in Nat
        BY <3>1 DEF Advances, DatabaseTypeOK
    <3>3. C(r)'
        BY <2>1, <3>1, <3>2
    <3> QED
        BY <1>3, <1>4, <2>1, <3>1, <3>3
  <2>5. CASE RUnlock(r)
    <3>1. /\ Advances(r) /\ readers[r] \in Nat /\ readers[r] > 0 /\ readers'[r] = readers[r] - 1
          /\ req'[r].copy = (IF readers[r] = 1 THEN NoCopy ELSE req[r].copy)
          /\ readers[r] = 1 => ~req'[r].disturbed
          /\ dump' = (IF req[r].handler = "dumpDB" THEN req[r].copy ELSE dump)
        BY <2>5, Releases
    <3>2. req'[r].handler = req[r].handler /\ (readers'[r] = 0 => readers[r] = 1)
        BY <3>1 DEF Advances
    <3>3. C(r)'
        BY <1>4, <2>1, <3>1, <3>2
    <3>4. DOMAIN dump' \subseteq Dumped
        BY <1>4, <2>1, <3>1
    <3> QED
        BY <1>3, <2>1, <3>3, <3>4
  <2>6. CASE Change(r)
    BY <1>3, <1>4, <2>1, <2>6, ChangesAlone DEF Advances
  <2>7. CASE Put(r) \/ PutFails(r)
    <3>1. /\ req[r].handler = "importDB" /\ readers[r] > 0 /\ readers[r] \in Nat
          /\ Advances(r) /\ UNCHANGED <<readers, dump>>
          /\ Put(r) => req'[r].copy = req[r].copy
          /\ PutFails(r) => req'[r].copy = [c \in DOMAIN req[r].copy \ {On(r)} |-> req[r].copy[c]]
        BY <2>7, Puts DEF DatabaseTypeOK
    <3>2. DOMAIN req'[r].copy \subseteq DOMAIN req[r].copy
        BY <2>7, <3>1
    <3>3. C(r)'
        BY <2>1, <3>1, <3>2 DEF Advances
    <3> QED
        BY <1>3, <1>4, <2>1, <3>1, <3>3
  <2> QED
    BY <1>6, <2>2, <2>3, <2>4, <2>5, <2>6, <2>7, StepTouches
<1> QED
    BY <1>1, <1>5, <1>6 DEF Next

LEMMA SectionsStep ==
    ASSUME DatabaseTypeOK, Disciplined, Copies, SectionsAreSnapshots, [Next]_vars
    PROVE  SectionsAreSnapshots'
<1> DEFINE S(s) == readers[s] > 0 /\ req[s].handler # "importDB" /\ ~req[s].disturbed
                     => \A c \in DOMAIN req[s].copy \ {"results", "authentications"} :
                           req[s].copy[c] = store[c]
<1>1. CASE UNCHANGED vars
    BY <1>1 DEF vars, SectionsAreSnapshots
<1>2. \A s \in Requests : /\ S(s) /\ req[s] \in Request /\ readers[s] \in Nat
                          /\ req[s].copy \in Copy /\ DOMAIN req[s].copy \subseteq Collections
    BY CopyIs DEF SectionsAreSnapshots, DatabaseTypeOK, Request
\* Those who read while another changes or restores documents.
<1>3. ASSUME NEW r \in Requests, OthersKeep(r),
             \/ store' = store
             \/ /\ \A c \in Collections \ {On(r)} : store'[c] = store[c]
                /\ On(r) \in Unlocked \/ \A s \in Requests : readers[s] = 0
             \/ \A s \in Requests \ {r} : readers[s] > 0 => req'[s].disturbed,
             NEW s \in Requests \ {r}
      PROVE  S(s)'
  <2>1. /\ readers'[s] = readers[s] /\ req'[s].handler = req[s].handler
        /\ req'[s].copy = req[s].copy
        /\ req[s].disturbed => req'[s].disturbed
    BY <1>3 DEF OthersKeep
  <2> SUFFICES ASSUME readers[s] > 0, req[s].handler # "importDB", ~req'[s].disturbed,
                      NEW c \in DOMAIN req[s].copy \ {"results", "authentications"}
               PROVE  req[s].copy[c] = store'[c]
    BY <2>1
  <2>2. req[s].copy[c] = store[c] /\ c \in Collections /\ c \notin Unlocked
    BY <1>2, <2>1 DEF Unlocked
  <2>3. store'[c] = store[c]
    BY <1>2, <1>3, <2>2
  <2> QED
    BY <2>2, <2>3
<1>4. ASSUME NEW r \in Requests, NEW h \in Serves[r], Serve(r, h) PROVE SectionsAreSnapshots'
  <2>1. OthersKeep(r) /\ store' = store /\ readers'[r] = 0
    BY <1>4, Served
  <2>2. \A s \in Requests : S(s)'
    BY <1>3, <2>1
  <2> QED
    BY <2>2 DEF SectionsAreSnapshots
<1>5. ASSUME NEW r \in Requests, Step(r) PROVE SectionsAreSnapshots'
  <2>1. OthersKeep(r)
    BY <1>5, StepTouches
  <2>2. CASE EndsFree(r) /\ UNCHANGED store
    <3>1. \A s \in Requests : S(s)'
        BY <1>3, <2>1, <2>2 DEF EndsFree
    <3> QED
        BY <3>1 DEF SectionsAreSnapshots
  <2>3. CASE Goes(r)
    <3>1. /\ store' = store /\ req'[r].handler = req[r].handler
          /\ req'[r].copy = req[r].copy /\ req'[r].disturbed = req[r].disturbed
        BY <2>3 DEF Goes, Advances
    <3>2. S(r)'
      <4>1. CASE readers[r] > 0
        BY <1>2, <3>1, <4>1
      <4>2. CASE readers[r] = 0
        BY <1>2, <3>1, <4>2, NoCopyIs DEF Copies
      <4> QED
        BY <1>2, <4>1, <4>2
    <3>3. \A s \in Requests : S(s)'
        BY <1>3, <2>1, <3>1, <3>2
    <3> QED
        BY <3>3 DEF SectionsAreSnapshots
  <2>4. CASE Read(r)
    <3>1. /\ On(r) \in Collections
          /\ Advances(r) /\ UNCHANGED <<readers, store, dump>>
          /\ req'[r].disturbed = req[r].disturbed
          /\ readers[r] > 0 =>
                /\ DOMAIN req'[r].copy = DOMAIN req[r].copy \cup {On(r)}
                /\ \A c \in DOMAIN req[r].copy \cup {On(r)} :
                      req'[r].copy[c] = IF c = On(r) THEN store[c] ELSE req[r].copy[c]
        BY <2>4, ReadsMore
    <3>2. S(r)'
      <4> SUFFICES ASSUME readers[r] > 0, req[r].handler # "importDB", ~req[r].disturbed,
                          NEW c \in DOMAIN req'[r].copy \ {"results", "authentications"}
                   PROVE  req'[r].copy[c] = store[c]
        BY <3>1 DEF Advances
      <4>1. c \in DOMAIN req[r].copy \cup {On(r)}
        BY <3>1
      <4>2. req'[r].copy[c] = IF c = On(r) THEN store[c] ELSE req[r].copy[c]
        BY <3>1, <4>1
      <4> QED
        BY <1>2, <4>1, <4>2
    <3>3. \A s \in Requests : S(s)'
        BY <1>3, <2>1, <3>1, <3>2
    <3> QED
        BY <3>3 DEF SectionsAreSnapshots
  <2>5. CASE RUnlock(r)
    <3>1. /\ Advances(r) /\ store' = store /\ readers[r] \in Nat /\ readers[r] > 0
          /\ readers'[r] = readers[r] - 1
          /\ req'[r].copy = (IF readers[r] = 1 THEN NoCopy ELSE req[r].copy)
          /\ readers[r] # 1 => req'[r].disturbed = req[r].disturbed
        BY <2>5, Releases
    <3>2. S(r)'
      <4>1. CASE readers[r] = 1
        BY <3>1, <4>1
      <4>2. CASE readers[r] # 1
        BY <1>2, <3>1, <4>2 DEF Advances
      <4> QED
        BY <4>1, <4>2
    <3>3. \A s \in Requests : S(s)'
        BY <1>3, <2>1, <3>1, <3>2
    <3> QED
        BY <3>3 DEF SectionsAreSnapshots
  <2>6. CASE Change(r)
    <3>1. /\ On(r) \in Unlocked \/ \A s \in Requests : readers[s] = 0
          /\ Advances(r) /\ readers' = readers
          /\ req'[r].copy = req[r].copy /\ req'[r].disturbed = req[r].disturbed
          /\ \A c \in Collections \ {On(r)} : store'[c] = store[c]
        BY <2>6, ChangesAlone
    <3>2. S(r)'
      <4> SUFFICES ASSUME readers[r] > 0, req[r].handler # "importDB", ~req[r].disturbed,
                          NEW c \in DOMAIN req[r].copy \ {"results", "authentications"}
                   PROVE  req[r].copy[c] = store'[c]
        BY <3>1 DEF Advances
      <4>1. c \in Collections /\ c \notin Unlocked /\ req[r].copy[c] = store[c]
        BY <1>2 DEF Unlocked
      <4>2. On(r) # c
        BY <3>1, <4>1
      <4> QED
        BY <3>1, <4>1, <4>2
    <3>3. \A s \in Requests : S(s)'
        BY <1>3, <2>1, <3>1, <3>2
    <3> QED
        BY <3>3 DEF SectionsAreSnapshots
  <2>7. CASE Put(r) \/ PutFails(r)
    <3>1. /\ req'[r].handler = "importDB"
          /\ store' = store \/ \A s \in Requests \ {r} : readers[s] > 0 => req'[s].disturbed
        BY <2>7, Puts DEF Advances
    <3>2. \A s \in Requests : S(s)'
        BY <1>3, <2>1, <3>1
    <3> QED
        BY <3>2 DEF SectionsAreSnapshots
  <2> QED
    BY <1>5, <2>2, <2>3, <2>4, <2>5, <2>6, <2>7, StepTouches
<1> QED
    BY <1>1, <1>4, <1>5 DEF Next

LEMMA RestoringStep ==
    ASSUME DatabaseTypeOK, Disciplined, Copies, Restoring, [Next]_vars PROVE Restoring'
<1> DEFINE ToPut(q, c) == \E i \in 1..Len(q) : q[i] = Do("put", c)
           W(s) == req[s].handler = "importDB" /\ ~req[s].disturbed
                     => \A c \in DOMAIN req[s].copy \ {"results", "reputations"} :
                           (readers[s] > 0 /\ store[c] = req[s].copy[c]) \/ ToPut(req[s].todo, c)
<1>1. CASE UNCHANGED vars
    BY <1>1 DEF vars, Restoring
<1>2. \A s \in Requests : /\ W(s) /\ req[s] \in Request /\ readers[s] \in Nat
                          /\ req[s].copy \in Copy /\ req[s].todo \in Seq(Steps)
                          /\ DOMAIN req[s].copy \subseteq Collections
                          /\ req[s].handler = "importDB" => DOMAIN req[s].copy \subseteq Dumped
    BY CopyIs DEF Restoring, DatabaseTypeOK, Request, Copies
<1>3. Unlocked \cap (Dumped \ {"results"}) = {}
    BY DEF Unlocked, Dumped, VoteCollections, OtherCollections
\* What is left to write after a step.
<1>4. ASSUME NEW q \in Seq(Steps), q # <<>>, NEW c, ToPut(q, c), Head(q) # Do("put", c)
      PROVE  ToPut(Tail(q), c)
  <2>1. PICK i \in 1..Len(q) : q[i] = Do("put", c)
    BY <1>4
  <2>2. i # 1
    BY <1>4, <2>1
  <2>3. i - 1 \in 1..Len(Tail(q)) /\ Tail(q)[i - 1] = q[i]
    BY <1>4, <2>1, <2>2
  <2> QED
    BY <2>1, <2>3
<1> HIDE DEF ToPut
\* The other imports.
<1>5. ASSUME NEW r \in Requests, OthersKeep(r),
             \/ store' = store
             \/ /\ \A c \in Collections \ {On(r)} : store'[c] = store[c]
                /\ On(r) \in Unlocked \/ \A s \in Requests : readers[s] = 0
             \/ \A s \in Requests \ {r} : readers[s] > 0 => req'[s].disturbed,
             NEW s \in Requests \ {r}
      PROVE  W(s)'
  <2>1. /\ readers'[s] = readers[s] /\ req'[s].handler = req[s].handler
        /\ req'[s].copy = req[s].copy /\ req'[s].todo = req[s].todo
        /\ req[s].disturbed => req'[s].disturbed
    BY <1>5 DEF OthersKeep
  <2> SUFFICES ASSUME req[s].handler = "importDB", ~req'[s].disturbed,
                      NEW c \in DOMAIN req[s].copy \ {"results", "reputations"}
               PROVE  (readers[s] > 0 /\ store'[c] = req[s].copy[c]) \/ ToPut(req[s].todo, c)
    BY <2>1
  <2>2. (readers[s] > 0 /\ store[c] = req[s].copy[c]) \/ ToPut(req[s].todo, c)
    BY <1>2, <2>1
  <2>3. c \in Collections /\ c \notin Unlocked
    BY <1>2, <1>3
  <2>4. readers[s] > 0 => store'[c] = store[c]
    BY <1>2, <1>5, <2>3
  <2> QED
    BY <2>2, <2>4
<1>6. ASSUME NEW r \in Requests, NEW h \in Serves[r], Serve(r, h) PROVE Restoring'
  <2>1. /\ OthersKeep(r) /\ store' = store /\ h \in DOMAIN Handlers
        /\ req'[r].handler = h /\ req'[r].todo \in Handlers[h]
        /\ req'[r].copy = (IF req'[r].todo = Import THEN dump ELSE NoCopy)
    BY <1>6, Served
  <2>2. W(r)'
    <3> SUFFICES ASSUME h = "importDB", NEW c \in DOMAIN req'[r].copy
                 PROVE  ToPut(req'[r].todo, c)
        BY <2>1
    <3>1. req'[r].todo = Import /\ c \in Dumped
        BY <2>1, NoCopyIs DEF Copies
    <3> QED
        BY <3>1, Imports DEF ToPut
  <2>3. \A s \in Requests : W(s)'
    BY <1>5, <2>1, <2>2
  <2> QED
    BY <2>3 DEF Restoring, ToPut
<1>7. ASSUME NEW r \in Requests, Step(r) PROVE Restoring'
  <2>1. OthersKeep(r)
    BY <1>7, StepTouches
  <2>2. CASE EndsFree(r) /\ UNCHANGED store
    <3>1. req'[r].handler = None
        BY <2>2, IdleIs DEF EndsFree
    <3>2. None # "importDB"
        BY DatabaseAssumption DEF Handlers
    <3>3. \A s \in Requests : W(s)'
        BY <1>5, <2>1, <2>2, <3>1, <3>2
    <3> QED
        BY <3>3 DEF Restoring, ToPut
  <2>3. CASE Goes(r)
    <3>1. /\ store' = store /\ req'[r].handler = req[r].handler
          /\ req'[r].copy = req[r].copy /\ req'[r].disturbed = req[r].disturbed
          /\ readers'[r] = 0 => readers[r] = 0
          /\ req'[r].todo = Tail(req[r].todo)
          /\ req[r].todo # <<>> /\ Head(req[r].todo).do # "put"
        BY <2>3 DEF Goes, Advances
    <3>2. readers'[r] \in Nat
        BY TypeStep DEF DatabaseTypeOK
    <3>3. W(r)'
      <4> SUFFICES ASSUME req[r].handler = "importDB", ~req[r].disturbed,
                          NEW c \in DOMAIN req[r].copy \ {"results", "reputations"}
                   PROVE  \/ readers'[r] > 0 /\ store[c] = req[r].copy[c]
                          \/ ToPut(Tail(req[r].todo), c)
        BY <3>1
      <4>1. (readers[r] > 0 /\ store[c] = req[r].copy[c]) \/ ToPut(req[r].todo, c)
        BY <1>2
      <4>2. Head(req[r].todo) # Do("put", c)
        BY <3>1 DEF Do
      <4>3. ToPut(req[r].todo, c) => ToPut(Tail(req[r].todo), c)
        BY <1>2, <1>4, <3>1, <4>2
      <4>4. readers[r] > 0 => readers'[r] > 0
        BY <1>2, <3>1, <3>2
      <4> QED
        BY <4>1, <4>3, <4>4
    <3>4. \A s \in Requests : W(s)'
        BY <1>5, <2>1, <3>1, <3>3
    <3> QED
        BY <3>4 DEF Restoring, ToPut
  <2>4. CASE Read(r)
    <3>1. req'[r].handler # "importDB" /\ store' = store
        BY <2>4, ReadsMore DEF Advances
    <3>2. \A s \in Requests : W(s)'
        BY <1>5, <2>1, <3>1
    <3> QED
        BY <3>2 DEF Restoring, ToPut
  <2>5. CASE RUnlock(r)
    <3>1. /\ store' = store /\ req'[r].handler = req[r].handler
          /\ req'[r].todo = Tail(req[r].todo)
          /\ readers[r] \in Nat /\ readers[r] > 0 /\ readers'[r] = readers[r] - 1
          /\ req[r].todo # <<>> /\ Head(req[r].todo).do = "runlock"
          /\ req'[r].copy = (IF readers[r] = 1 THEN NoCopy ELSE req[r].copy)
          /\ readers[r] # 1 => req'[r].disturbed = req[r].disturbed
        BY <2>5, Releases DEF Advances
    <3>2. CASE readers[r] = 1
      <4>1. W(r)'
        BY <3>1, <3>2, NoCopyIs
      <4>2. \A s \in Requests : W(s)'
        BY <1>5, <2>1, <3>1, <4>1
      <4> QED
        BY <4>2 DEF Restoring, ToPut
    <3>3. CASE readers[r] # 1
      <4>1. readers'[r] > 0 /\ req'[r].copy = req[r].copy
        BY <3>1, <3>3
      <4>2. ASSUME req[r].handler = "importDB", ~req[r].disturbed,
                   NEW c \in DOMAIN req[r].copy \ {"results", "reputations"}
            PROVE  store[c] = req[r].copy[c] \/ ToPut(Tail(req[r].todo), c)
        <5>1. (readers[r] > 0 /\ store[c] = req[r].copy[c]) \/ ToPut(req[r].todo, c)
            BY <1>2, <4>2
        <5>2. Head(req[r].todo) # Do("put", c)
            BY <3>1 DEF Do
        <5> QED
            BY <1>2, <1>4, <3>1, <5>1, <5>2
      <4>3. W(r)'
        BY <3>1, <3>3, <4>1, <4>2
      <4>4. \A s \in Requests : W(s)'
        BY <1>5, <2>1, <3>1, <4>3
      <4> QED
        BY <4>4 DEF Restoring, ToPut
    <3> QED
        BY <3>2, <3>3
  <2>6. CASE Change(r)
    <3>1. /\ On(r) \in Unlocked \/ \A s \in Requests : readers[s] = 0
          /\ req'[r].handler # "importDB"
          /\ \A c \in Collections \ {On(r)} : store'[c] = store[c]
        BY <2>6, ChangesAlone DEF Advances
    <3>2. \A s \in Requests : W(s)'
        BY <1>5, <2>1, <3>1
    <3> QED
        BY <3>2 DEF Restoring, ToPut
  <2>7. CASE Put(r)
    <3>1. /\ req[r].handler = "importDB" /\ readers[r] > 0 /\ readers'[r] = readers[r]
          /\ req'[r].handler = req[r].handler /\ req'[r].todo = Tail(req[r].todo)
          /\ req'[r].copy = req[r].copy /\ req'[r].disturbed = req[r].disturbed
          /\ req[r].todo # <<>> /\ Head(req[r].todo) = Do("put", On(r))
          /\ \A s \in Requests \ {r} : readers[s] > 0 => req'[s].disturbed
          /\ \A c \in Collections \ {"reputations"} :
                store'[c] = IF c = On(r) /\ c \in DOMAIN req[r].copy THEN req[r].copy[c]
                            ELSE store[c]
        BY <2>7, Puts DEF Advances
    <3>2. W(r)'
      <4> SUFFICES ASSUME ~req[r].disturbed,
                          NEW c \in DOMAIN req[r].copy \ {"results", "reputations"}
                   PROVE  store'[c] = req[r].copy[c] \/ ToPut(Tail(req[r].todo), c)
        BY <3>1
      <4>1. store[c] = req[r].copy[c] \/ ToPut(req[r].todo, c)
        BY <1>2, <3>1
      <4>2. store'[c] = IF c = On(r) THEN req[r].copy[c] ELSE store[c]
        BY <1>2, <3>1
      <4>3. CASE On(r) = c
        BY <4>2, <4>3
      <4>4. CASE On(r) # c
        <5>1. Head(req[r].todo) # Do("put", c)
            BY <3>1, <4>4 DEF Do
        <5>2. ToPut(req[r].todo, c) => ToPut(Tail(req[r].todo), c)
            BY <1>2, <1>4, <3>1, <5>1
        <5> QED
            BY <4>1, <4>2, <4>4, <5>2
      <4> QED
        BY <4>3, <4>4
    <3>3. \A s \in Requests : W(s)'
        BY <1>5, <2>1, <3>1, <3>2
    <3> QED
        BY <3>3 DEF Restoring, ToPut
  <2>8. CASE PutFails(r)
    <3>1. /\ req[r].handler = "importDB" /\ readers[r] > 0 /\ readers'[r] = readers[r]
          /\ req'[r].handler = req[r].handler /\ req'[r].todo = Tail(req[r].todo)
          /\ req'[r].copy = [c \in DOMAIN req[r].copy \ {On(r)} |-> req[r].copy[c]]
          /\ req'[r].disturbed = req[r].disturbed /\ store' = store
          /\ req[r].todo # <<>> /\ Head(req[r].todo) = Do("put", On(r))
        BY <2>8, Puts DEF Advances
    <3>2. W(r)'
      <4> SUFFICES ASSUME ~req[r].disturbed,
                          NEW c \in DOMAIN req'[r].copy \ {"results", "reputations"}
                   PROVE  store[c] = req'[r].copy[c] \/ ToPut(Tail(req[r].todo), c)
        BY <3>1
      <4>1. c \in DOMAIN req[r].copy /\ c # On(r) /\ req'[r].copy[c] = req[r].copy[c]
        BY <3>1
      <4>2. store[c] = req[r].copy[c] \/ ToPut(req[r].todo, c)
        BY <1>2, <3>1, <4>1
      <4>3. Head(req[r].todo) # Do("put", c)
        BY <3>1, <4>1 DEF Do
      <4>4. ToPut(req[r].todo, c) => ToPut(Tail(req[r].todo), c)
        BY <1>2, <1>4, <3>1, <4>3
      <4> QED
        BY <4>1, <4>2, <4>4
    <3>3. \A s \in Requests : W(s)'
        BY <1>5, <2>1, <3>1, <3>2
    <3> QED
        BY <3>3 DEF Restoring, ToPut
  <2> QED
    BY <1>7, <2>2, <2>3, <2>4, <2>5, <2>6, <2>7, <2>8, StepTouches
<1> QED
    BY <1>1, <1>6, <1>7 DEF Next

-----------------------------------------------------------------------------
(* The theorems.                                                           *)

LEMMA DatabaseInit == Init => DatabaseInvariant
<1> SUFFICES ASSUME Init PROVE DatabaseInvariant
    OBVIOUS
<1>1. /\ pending = None /\ readers = [r \in Requests |-> 0] /\ req = [r \in Requests |-> Idle]
      /\ store = [c \in Collections \cup {Strays} |-> 0] /\ dump = [c \in Dumped |-> 0]
      /\ faults = 0
    BY DEF Init
<1>2. /\ Idle.at = "idle" /\ Idle.handler = None /\ Idle.todo = <<>> /\ Idle.copy = NoCopy
      /\ ~Idle.disturbed
    BY DEF Idle
<1>3. <<>> \in Seq(Steps) /\ NoCopy \in Copy
    BY NoCopyIs
<1>4. Idle \in Request
    BY <1>3 DEF Request, Idle
<1>5. Dumped \subseteq Collections
    BY DEF Dumped, Collections, VoteCollections, OtherCollections
<1>6. dump \in Copy /\ DOMAIN dump = Dumped
    BY <1>1, <1>5, CopyIs
<1>7. DatabaseTypeOK
    BY <1>1, <1>4, <1>6 DEF DatabaseTypeOK
<1>8. Disciplined
    BY <1>1, <1>2, DatabaseAssumption DEF Disciplined, KeepsToPath
<1>9. Copies
    BY <1>1, <1>2, <1>6, NoCopyIs DEF Copies
<1>10. SectionsAreSnapshots
    BY <1>1 DEF SectionsAreSnapshots
<1>11. Restoring
    BY <1>1, <1>2, NoCopyIs DEF Restoring
<1> QED
    BY <1>7, <1>8, <1>9, <1>10, <1>11 DEF DatabaseInvariant

\* The invariant of the database holds always: whatever requests come in, in whatever
\* order they take the lock, and whichever of their steps fail.
THEOREM DatabaseInvariantAlways == Spec => []DatabaseInvariant
<1>1. DatabaseInvariant /\ [Next]_vars => DatabaseInvariant'
    BY TypeStep, DisciplinedStep, CopiesStep, SectionsStep, RestoringStep DEF DatabaseInvariant
<1> QED
    BY <1>1, DatabaseInit, PTL DEF Spec

\* Every request keeps to the discipline of keysLock (src/mongo): a path releases what it
\* takes, and a writer is alone with the collections of the lock.
THEOREM DisciplinedAlways == Spec => [](DatabaseTypeOK /\ Disciplined)
<1>1. DatabaseInvariant => DatabaseTypeOK /\ Disciplined
    BY DEF DatabaseInvariant
<1> QED
    BY <1>1, DatabaseInvariantAlways, PTL

\* What a reader has read under the lock stays so until it releases the lock, unless an
\* import writes meanwhile.
THEOREM SectionsAreSnapshotsAlways == Spec => []SectionsAreSnapshots
<1>1. DatabaseInvariant => SectionsAreSnapshots
    BY DEF DatabaseInvariant
<1> QED
    BY <1>1, DatabaseInvariantAlways, PTL

\* An import that ends undisturbed has restored every collection that it was given and
\* could write, except the reputations.
THEOREM ImportRestoresAlways == Spec => []ImportRestores
<1>1. DatabaseInvariant => ImportRestores
  <2> SUFFICES ASSUME DatabaseInvariant, NEW r \in Requests, req[r].handler = "importDB",
                      req[r].todo = <<Do("runlock", None)>>, ~req[r].disturbed,
                      NEW c \in DOMAIN req[r].copy \ {"results", "reputations"}
               PROVE  store[c] = req[r].copy[c]
    BY DEF ImportRestores
  <2>1. \/ store[c] = req[r].copy[c]
        \/ \E i \in 1..Len(req[r].todo) : req[r].todo[i] = Do("put", c)
    BY DEF DatabaseInvariant, Restoring
  <2>2. \A i \in 1..Len(req[r].todo) : req[r].todo[i] # Do("put", c)
    BY DEF Do
  <2> QED
    BY <2>1, <2>2
<1> QED
    BY <1>1, DatabaseInvariantAlways, PTL

-----------------------------------------------------------------------------
(* Sums.                                                                   *)

\* A set of numbers that is not empty has a least one.
LEMMA Least == ASSUME NEW T, T \subseteq Nat, T # {} PROVE \E n \in T : \A m \in T : n <= m
<1>1. PICK n \in T : \A m \in T : ~(<<m, n>> \in OpToRel(<, Nat))
    BY NatLessThanWellFounded, WFMin, Zenon
<1>2. \A m \in T : ~(m < n)
    BY <1>1 DEF OpToRel
<1> QED
    BY <1>2

\* A set that has zero, and with a number the next, has all.
LEMMA Induction ==
    ASSUME NEW S, 0 \in S, \A n \in Nat : n \in S => n + 1 \in S
    PROVE  \A n \in Nat : n \in S
<1> SUFFICES ASSUME Nat \ S # {} PROVE FALSE
    OBVIOUS
<1>1. PICK n \in Nat \ S : \A m \in Nat \ S : n <= m
    BY Least
<1>2. n - 1 \in Nat /\ ~(n <= n - 1) /\ (n - 1) + 1 = n
    BY <1>1
<1>3. n - 1 \in S
    BY <1>1, <1>2
<1> QED
    BY <1>1, <1>2, <1>3

\* A sum takes the elements of a set one by one.  g has the sums of the subsets of S that
\* have up to n elements.
First(s) == CHOOSE x \in s : TRUE
UpTo(S, n) == {s \in SUBSET S : Cardinality(s) <= n}
IsSum(f, W, g) ==
    g = [s \in W |-> IF s = {} THEN 0 ELSE f[First(s)] + g[s \ {First(s)}]]

LEMMA Smaller ==
    ASSUME NEW S, IsFiniteSet(S), NEW s \in SUBSET S, s # {}
    PROVE  /\ First(s) \in s /\ s \ {First(s)} \in SUBSET S
           /\ Cardinality(s) \in Nat /\ Cardinality(s \ {First(s)}) = Cardinality(s) - 1
           /\ Cardinality(s \ {First(s)}) \in Nat
<1>1. First(s) \in s
    BY DEF First
<1>2. IsFiniteSet(s)
    BY FS_Subset
<1> QED
    BY <1>1, <1>2, FS_RemoveElement, FS_CardinalityType, FS_Subset

LEMMA SumsUpTo ==
    ASSUME NEW S, IsFiniteSet(S), NEW f, NEW n \in Nat
    PROVE  \E g : IsSum(f, UpTo(S, n), g)
<1> DEFINE Good == {m \in Nat : \E g : IsSum(f, UpTo(S, m), g)}
<1>1. 0 \in Good
  <2> DEFINE g == [s \in UpTo(S, 0) |-> 0]
  <2>1. \A s \in UpTo(S, 0) : s = {}
    BY FS_EmptySet, FS_Subset, FS_CardinalityType DEF UpTo
  <2>2. g = [s \in UpTo(S, 0) |-> IF s = {} THEN 0 ELSE f[First(s)] + g[s \ {First(s)}]]
    BY <2>1
  <2>3. IsSum(f, UpTo(S, 0), g)
    BY <2>2 DEF IsSum
  <2> QED
    BY <2>3
<1>2. ASSUME NEW m \in Nat, m \in Good PROVE m + 1 \in Good
  <2>1. PICK g : g = [s \in UpTo(S, m) |-> IF s = {} THEN 0 ELSE f[First(s)] + g[s \ {First(s)}]]
    BY <1>2 DEF IsSum
  <2> DEFINE h == [s \in UpTo(S, m + 1) |-> IF s = {} THEN 0 ELSE f[First(s)] + g[s \ {First(s)}]]
  <2>2. ASSUME NEW s \in UpTo(S, m + 1), s # {}
        PROVE  s \ {First(s)} \in UpTo(S, m) /\ s \ {First(s)} \in UpTo(S, m + 1)
    BY <2>2, Smaller DEF UpTo
  <2>3. ASSUME NEW s \in UpTo(S, m), s \in UpTo(S, m + 1) PROVE h[s] = g[s]
    BY <2>1, <2>3
  <2>4. \A s \in UpTo(S, m + 1) : s # {} => h[s \ {First(s)}] = g[s \ {First(s)}]
    BY <2>2, <2>3
  <2>5. h = [s \in UpTo(S, m + 1) |-> IF s = {} THEN 0 ELSE f[First(s)] + h[s \ {First(s)}]]
    BY <2>4
  <2> HIDE DEF h
  <2>6. IsSum(f, UpTo(S, m + 1), h)
    BY <2>5 DEF IsSum
  <2> QED
    BY <2>6
<1> HIDE DEF Good
<1>3. n \in Good
    BY <1>1, <1>2, Induction
<1> QED
    BY <1>3 DEF Good


\* A sum of natural numbers is one, and takes its elements in any order.
Adds(f, g, t) == g[t] \in Nat /\ \A x \in t : g[t] = f[x] + g[t \ {x}]

LEMMA SumsAdd ==
    ASSUME NEW S, IsFiniteSet(S), NEW f, \A x \in S : f[x] \in Nat,
           NEW g, IsSum(f, SUBSET S, g), NEW s \in SUBSET S
    PROVE  g[{}] = 0 /\ Adds(f, g, s)
<1> DEFINE Good == {n \in Nat : \A t \in SUBSET S : Cardinality(t) <= n => Adds(f, g, t)}
<1>1. g[{}] = 0 /\ Adds(f, g, {})
    BY DEF IsSum, Adds
<1>2. \A t \in SUBSET S : IsFiniteSet(t) /\ Cardinality(t) \in Nat
    BY FS_Subset, FS_CardinalityType
<1>3. 0 \in Good
  <2>1. \A t \in SUBSET S : Cardinality(t) <= 0 => t = {}
    BY <1>2, FS_EmptySet
  <2> QED
    BY <1>1, <2>1
<1>4. ASSUME NEW n \in Nat, n \in Good PROVE n + 1 \in Good
  <2>1. ASSUME NEW t \in SUBSET S, Cardinality(t) <= n + 1, t # {} PROVE Adds(f, g, t)
    <3> DEFINE y == First(t)
    <3>1. y \in t /\ t \ {y} \in SUBSET S /\ Cardinality(t \ {y}) <= n
        BY <1>2, <2>1, Smaller
    <3>2. g[t] = f[y] + g[t \ {y}]
        BY <2>1 DEF IsSum
    <3>3. Adds(f, g, t \ {y})
        BY <1>4, <3>1
    <3> HIDE DEF y
    <3>4. g[t] \in Nat
        BY <3>1, <3>2, <3>3 DEF Adds
    <3>5. ASSUME NEW x \in t, x # y PROVE g[t] = f[x] + g[t \ {x}]
      <4> DEFINE u == (t \ {y}) \ {x}
      <4>1. g[t \ {y}] = f[x] + g[u]
        BY <3>3, <3>5 DEF Adds
      <4>2. t \ {x} \in SUBSET S /\ y \in t \ {x}
        BY <3>1, <3>5
      <4>3. IsFiniteSet(t) /\ Cardinality(t) \in Nat
        BY <1>2
      <4>4. Cardinality(t \ {x}) = Cardinality(t) - 1
        BY <4>3, FS_RemoveElement
      <4>5. Cardinality(t \ {x}) <= n
        BY <2>1, <4>3, <4>4
      <4>6. Adds(f, g, t \ {x})
        BY <1>4, <4>2, <4>5
      <4>7. (t \ {x}) \ {y} = u /\ u \in SUBSET S
        OBVIOUS
      <4>8. g[t \ {x}] = f[y] + g[u]
        BY <4>2, <4>6, <4>7 DEF Adds
      <4>9. Cardinality(u) <= n
        <5>1. IsFiniteSet(t \ {x}) /\ Cardinality(t \ {x}) \in Nat
            BY <1>2, <4>2
        <5>2. Cardinality((t \ {x}) \ {y}) = Cardinality(t \ {x}) - 1
            BY <4>2, <5>1, FS_RemoveElement
        <5>3. Cardinality(u) = Cardinality(t \ {x}) - 1
            BY <4>7, <5>2, Zenon
        <5> QED
            BY <4>5, <5>1, <5>3
      <4>10. g[u] \in Nat
        BY <1>4, <4>7, <4>9 DEF Adds
      <4>11. f[x] \in Nat /\ f[y] \in Nat
        BY <3>1
      <4> HIDE DEF u
      <4> QED
        BY <3>2, <4>1, <4>8, <4>10, <4>11
    <3> QED
        BY <3>2, <3>4, <3>5 DEF Adds
  <2> QED
    BY <1>1, <2>1
<1> HIDE DEF Good
<1>5. Cardinality(s) \in Good /\ Cardinality(s) \in Nat
    BY <1>2, <1>3, <1>4, Induction
<1> QED
    BY <1>1, <1>5 DEF Good

\* That of a set is no smaller than that of a subset.
LEMMA SumsGrow ==
    ASSUME NEW S, IsFiniteSet(S), NEW f, \A x \in S : f[x] \in Nat,
           NEW T \in SUBSET S, NEW g, IsSum(f, SUBSET S, g), NEW h, IsSum(f, SUBSET T, h)
    PROVE  g[S] \in Nat /\ h[T] \in Nat /\ h[T] <= g[S]
<1> DEFINE Grows(t) == g[t \cap T] <= g[t]
           Agree(t) == t \subseteq T => h[t] = g[t]
           Good == {n \in Nat : \A t \in SUBSET S : Cardinality(t) = n => Grows(t) /\ Agree(t)}
<1>1. \A t \in SUBSET S : IsFiniteSet(t) /\ Cardinality(t) \in Nat /\ Adds(f, g, t)
    BY FS_Subset, FS_CardinalityType, SumsAdd
<1>2. Grows({}) /\ Agree({})
  <2>1. g[{}] = 0 /\ {} \cap T = {}
    BY SumsAdd
  <2>2. h[{}] = 0
    BY DEF IsSum
  <2> QED
    BY <2>1, <2>2
<1>3. ASSUME NEW t \in SUBSET S, t # {}, Grows(t \ {First(t)}), Agree(t \ {First(t)})
      PROVE  Grows(t) /\ Agree(t)
  <2> DEFINE y == First(t)
  <2>1. y \in t /\ t \ {y} \in SUBSET S
    BY <1>3, Smaller
  <2>2. g[t] = f[y] + g[t \ {y}] /\ g[t \ {y}] \in Nat /\ f[y] \in Nat
    BY <1>1, <2>1 DEF Adds
  <2>3. Agree(t)
    <3>1. t \subseteq T => h[t] = f[y] + h[t \ {y}]
        BY <1>3 DEF IsSum
    <3> QED
        BY <1>3, <2>2, <3>1
  <2>4. g[(t \ {y}) \cap T] <= g[t \ {y}]
    BY <1>3
  <2> HIDE DEF y
  <2> DEFINE both == t \cap T
             rest == (t \ {y}) \cap T
  <2>5. both \in SUBSET S /\ rest \in SUBSET S
    OBVIOUS
  <2>6. CASE y \in T
    <3>1. y \in both /\ both \ {y} = rest
        BY <2>1, <2>6
    <3>2. g[both] = f[y] + g[both \ {y}]
        BY <1>1, <2>5, <3>1 DEF Adds
    <3>3. g[rest] \in Nat
        BY <1>1, <2>5 DEF Adds
    <3>4. g[rest] <= g[t \ {y}]
        BY <2>4
    <3> HIDE DEF both, rest
    <3>5. g[both] = f[y] + g[rest]
        BY <3>1, <3>2
    <3>6. g[both] <= g[t]
        BY <2>2, <3>3, <3>4, <3>5
    <3> QED
        BY <2>3, <3>6 DEF both
  <2>7. CASE y \notin T
    <3>1. both = rest
        BY <2>7
    <3>2. g[rest] \in Nat
        BY <1>1, <2>5 DEF Adds
    <3>3. g[rest] <= g[t \ {y}]
        BY <2>4
    <3> HIDE DEF both, rest
    <3>4. g[both] <= g[t]
        BY <2>2, <3>1, <3>2, <3>3
    <3> QED
        BY <2>3, <3>4 DEF both
  <2> QED
    BY <2>6, <2>7
<1> HIDE DEF Grows, Agree
<1>4. 0 \in Good
  <2>1. \A t \in SUBSET S : Cardinality(t) = 0 => t = {}
    BY <1>1, FS_EmptySet
  <2> QED
    BY <1>2, <2>1
<1>5. ASSUME NEW n \in Nat, n \in Good PROVE n + 1 \in Good
  <2> SUFFICES ASSUME NEW t \in SUBSET S, Cardinality(t) = n + 1 PROVE Grows(t) /\ Agree(t)
    OBVIOUS
  <2>1. t # {}
    <3>1. n + 1 # 0 /\ Cardinality({}) = 0
        BY FS_EmptySet
    <3> QED
        BY <3>1
  <2>2. t \ {First(t)} \in SUBSET S /\ Cardinality(t \ {First(t)}) = n
    BY <2>1, Smaller
  <2> QED
    BY <1>3, <1>5, <2>1, <2>2
<1> HIDE DEF Good
<1>6. \A n \in Nat : n \in Good
    BY <1>4, <1>5, Induction
<1>7. Grows(S) /\ Agree(T)
    BY <1>1, <1>6 DEF Good
<1>8. S \cap T = T /\ g[S] \in Nat /\ g[T] \in Nat
    BY <1>1 DEF Adds
<1> QED
    BY <1>7, <1>8 DEF Grows, Agree

\* The sums of the module are such sums.
Total(f, S) == MapThenSumSet(LAMBDA x : f[x], S)

LEMMA TotalIsASum ==
    ASSUME NEW S, IsFiniteSet(S), NEW f
    PROVE  \E g : IsSum(f, SUBSET S, g) /\ Total(f, S) = g[S]
<1> DEFINE c == CHOOSE g : g = [s \in SUBSET S |->
                    IF s = {} THEN 0
                    ELSE f[CHOOSE x \in s : TRUE] + g[s \ {CHOOSE x \in s : TRUE}]]
<1>1. UpTo(S, Cardinality(S)) = SUBSET S
    BY FS_Subset DEF UpTo
<1>2. \E g : IsSum(f, SUBSET S, g)
  <2>1. Cardinality(S) \in Nat
    BY FS_CardinalityType
  <2>2. \E g : IsSum(f, UpTo(S, Cardinality(S)), g)
    BY <2>1, SumsUpTo
  <2> QED
    BY <1>1, <2>2
<1>3. IsSum(f, SUBSET S, c)
    BY <1>2 DEF IsSum, First
<1>4. Total(f, S) = c[S]
    BY DEF Total, MapThenSumSet, MapThenFoldSet
<1> QED
    BY <1>3, <1>4

-----------------------------------------------------------------------------
(* The formulas.                                                           *)

LEMMA BoostersAre ==
    /\ Boosters = {"votecasterNFTPass", "votecasterLaunchNFT", "alphafrensFollower",
                   "votecasterFollower", "vocdoniFollower", "announcementRecasted", "kiwi",
                   "degenDAONFT", "haberdasheryNFT", "degen10k", "tokyoDAONFT",
                   "proxyStudioNFT", "proxy5", "nameDegen", "farcasterOGNFT", "moxiePass"}
    /\ \A b \in Boosters : Puntuaction[b] \in Nat
    /\ IsFiniteSet(Boosters)
<1>1. Boosters = {"votecasterNFTPass", "votecasterLaunchNFT", "alphafrensFollower",
                   "votecasterFollower", "vocdoniFollower", "announcementRecasted", "kiwi",
                   "degenDAONFT", "haberdasheryNFT", "degen10k", "tokyoDAONFT",
                   "proxyStudioNFT", "proxy5", "nameDegen", "farcasterOGNFT", "moxiePass"}
    BY DEF Boosters, Puntuaction
<1>2. \A b \in Boosters : Puntuaction[b] \in Nat
    BY <1>1 DEF Puntuaction
<1> DEFINE a == {"votecasterNFTPass", "votecasterLaunchNFT", "alphafrensFollower", "votecasterFollower"}
           b == {"vocdoniFollower", "announcementRecasted", "kiwi", "degenDAONFT"}
           c == {"haberdasheryNFT", "degen10k", "tokyoDAONFT", "proxyStudioNFT"}
           d == {"proxy5", "nameDegen", "farcasterOGNFT", "moxiePass"}
<1>3. ASSUME NEW w, NEW x, NEW y, NEW z PROVE IsFiniteSet({w, x, y, z})
  <2>1. \A S, e : IsFiniteSet(S) => IsFiniteSet(S \cup {e})
    BY FS_AddElement
  <2>2. IsFiniteSet({w})
    BY FS_Singleton
  <2>3. IsFiniteSet({w} \cup {x})
    BY <2>1, <2>2
  <2>4. IsFiniteSet(({w} \cup {x}) \cup {y})
    BY <2>1, <2>3
  <2>5. IsFiniteSet((({w} \cup {x}) \cup {y}) \cup {z})
    BY <2>1, <2>4
  <2>6. {w, x, y, z} \subseteq (({w} \cup {x}) \cup {y}) \cup {z}
    OBVIOUS
  <2> QED
    BY <2>5, <2>6, FS_Subset
<1>4. IsFiniteSet(a) /\ IsFiniteSet(b) /\ IsFiniteSet(c) /\ IsFiniteSet(d)
    BY <1>3
<1>5. Boosters \subseteq ((a \cup b) \cup c) \cup d
  <2> SUFFICES ASSUME NEW x \in Boosters PROVE x \in a \/ x \in b \/ x \in c \/ x \in d
    OBVIOUS
  <2> USE DEF Boosters
  <2> HIDE DEF Boosters
  <2> QED
    BY <1>1
<1> HIDE DEF a, b, c, d
<1>6. IsFiniteSet(((a \cup b) \cup c) \cup d)
    BY <1>4, FS_Union
<1>7. IsFiniteSet(Boosters)
    BY <1>5, <1>6, FS_Subset
<1> QED
    BY <1>1, <1>2, <1>7, Zenon

\* What more boosters are worth is no less, and capped.
LEMMA BoostersGrow ==
    ASSUME NEW G \in SUBSET Boosters, NEW F \in SUBSET G
    PROVE  /\ BoostersReputation(F) \in Nat /\ BoostersReputation(G) \in Nat
           /\ BoostersReputation(F) <= BoostersReputation(G) /\ BoostersReputation(G) <= 100
<1> DEFINE S == G \ {"proxyStudioNFT"}
           T == F \ {"proxyStudioNFT"}
<1>1. IsFiniteSet(S) /\ IsFiniteSet(T) /\ T \in SUBSET S /\ \A b \in S : Puntuaction[b] \in Nat
    BY BoostersAre, FS_Subset
<1>2. /\ Total(Puntuaction, S) \in Nat /\ Total(Puntuaction, T) \in Nat
      /\ Total(Puntuaction, T) <= Total(Puntuaction, S)
  <2> HIDE DEF S, T
  <2>1. PICK g : IsSum(Puntuaction, SUBSET S, g) /\ Total(Puntuaction, S) = g[S]
    BY <1>1, TotalIsASum
  <2>2. PICK h : IsSum(Puntuaction, SUBSET T, h) /\ Total(Puntuaction, T) = h[T]
    BY <1>1, TotalIsASum
  <2>3. g[S] \in Nat /\ h[T] \in Nat /\ h[T] <= g[S]
    BY <1>1, <2>1, <2>2, SumsGrow
  <2> QED
    BY <2>1, <2>2, <2>3
<1>3. /\ BoostersReputation(G) = Capped(Total(Puntuaction, S), 100)
      /\ BoostersReputation(F) = Capped(Total(Puntuaction, T), 100)
    BY DEF BoostersReputation, Total
<1> HIDE DEF S, T
<1> QED
    BY <1>2, <1>3 DEF Capped

Counts == [DOMAIN NoCounts -> Nat]

LEMMA CountsAre ==
    /\ DOMAIN NoCounts = {"followers", "elections", "votes", "participations", "communities"}
    /\ NoCounts \in Counts /\ \A f \in DOMAIN NoCounts : NoCounts[f] = 0
<1>1. DOMAIN NoCounts = {"followers", "elections", "votes", "participations", "communities"}
    BY DEF NoCounts
<1>2. \A f \in DOMAIN NoCounts : NoCounts[f] = 0
    BY <1>1 DEF NoCounts
<1>3. NoCounts \in Counts
    BY <1>1 DEF NoCounts, Counts
<1> QED
    BY <1>1, <1>2, <1>3

\* What more activity and more boosters are worth is no less, and at most 100.
LEMMA WorthGrows ==
    ASSUME NEW c \in Counts, NEW d \in Counts, \A f \in DOMAIN NoCounts : c[f] <= d[f],
           NEW G \in SUBSET Boosters, NEW F \in SUBSET G
    PROVE  /\ TotalReputation(c, F) \in Nat /\ TotalReputation(d, G) \in Nat
           /\ TotalReputation(c, F) <= TotalReputation(d, G) /\ TotalReputation(d, G) <= 100
<1>1. /\ c.followers \in Nat /\ c.elections \in Nat /\ c.votes \in Nat
      /\ c.participations \in Nat /\ c.communities \in Nat
      /\ d.followers \in Nat /\ d.elections \in Nat /\ d.votes \in Nat
      /\ d.participations \in Nat /\ d.communities \in Nat
    BY CountsAre DEF Counts
<1>2. /\ c.followers <= d.followers /\ c.elections <= d.elections /\ c.votes <= d.votes
      /\ c.participations <= d.participations /\ c.communities <= d.communities
    BY CountsAre
<1> DEFINE p == PonderateActivity(c)
           q == PonderateActivity(d)
<1>3. /\ p.followers \in Nat /\ q.followers \in Nat /\ p.followers <= q.followers
      /\ p.elections \in Nat /\ q.elections \in Nat /\ p.elections <= q.elections
      /\ p.votes \in Nat /\ q.votes \in Nat /\ p.votes <= q.votes
      /\ p.participations \in Nat /\ q.participations \in Nat /\ p.participations <= q.participations
      /\ p.communities \in Nat /\ q.communities \in Nat /\ p.communities <= q.communities
  <2>1. /\ p.followers = c.followers \div 2000 /\ q.followers = d.followers \div 2000
        /\ p.elections = Capped(c.elections \div 10, 10) /\ q.elections = Capped(d.elections \div 10, 10)
        /\ p.votes = Capped(c.votes \div 4, 25) /\ q.votes = Capped(d.votes \div 4, 25)
        /\ p.participations = Capped(c.participations \div 20, 45)
        /\ q.participations = Capped(d.participations \div 20, 45)
        /\ p.communities = Capped(c.communities * 2, 10) /\ q.communities = Capped(d.communities * 2, 10)
    BY DEF PonderateActivity
  <2> HIDE DEF p, q
  <2>2. ASSUME NEW m \in Nat, NEW n \in Nat, m <= n
        PROVE  /\ m \div 2000 \in Nat /\ n \div 2000 \in Nat /\ m \div 2000 <= n \div 2000
               /\ Capped(m \div 10, 10) \in Nat /\ Capped(n \div 10, 10) \in Nat
               /\ Capped(m \div 10, 10) <= Capped(n \div 10, 10)
               /\ Capped(m \div 4, 25) \in Nat /\ Capped(n \div 4, 25) \in Nat
               /\ Capped(m \div 4, 25) <= Capped(n \div 4, 25)
               /\ Capped(m \div 20, 45) \in Nat /\ Capped(n \div 20, 45) \in Nat
               /\ Capped(m \div 20, 45) <= Capped(n \div 20, 45)
               /\ Capped(m * 2, 10) \in Nat /\ Capped(n * 2, 10) \in Nat
               /\ Capped(m * 2, 10) <= Capped(n * 2, 10)
    BY <2>2 DEF Capped
  <2> QED
    BY <1>1, <1>2, <2>1, <2>2
<1>5. /\ ActivityReputation(c) \in Nat /\ ActivityReputation(d) \in Nat
      /\ ActivityReputation(c) <= ActivityReputation(d) /\ ActivityReputation(d) <= 100
  <2>1. /\ ActivityReputation(c) =
              Capped(p.followers + p.elections + p.votes + p.participations + p.communities, 100)
        /\ ActivityReputation(d) =
              Capped(q.followers + q.elections + q.votes + q.participations + q.communities, 100)
    BY DEF ActivityReputation
  <2> HIDE DEF p, q
  <2> QED
    BY <1>3, <2>1 DEF Capped
<1>4. /\ BoostersReputation(F) \in Nat /\ BoostersReputation(G) \in Nat
      /\ BoostersReputation(F) <= BoostersReputation(G) /\ BoostersReputation(G) <= 100
    BY BoostersGrow
<1> QED
    BY <1>4, <1>5 DEF TotalReputation

\* The most there has been of a count is one of the counts there have been.
LEMMA BestIs ==
    ASSUME UpdaterConstants, NEW n \in 1..Len(Levels), NEW f \in DOMAIN NoCounts
    PROVE  /\ Best(n)[f] \in {Levels[i][f] : i \in 1..n}
           /\ \A i \in 1..n : Levels[i][f] <= Best(n)[f]
<1> DEFINE Seen(m) == {Levels[i][f] : i \in 1..m}
           Good == {m \in Nat : m + 1 <= Len(Levels) =>
                        \E x \in Seen(m + 1) : \A y \in Seen(m + 1) : x >= y}
<1>1. Len(Levels) \in Nat /\ \A i \in 1..Len(Levels) : Levels[i][f] \in Nat
    BY DEF UpdaterConstants
<1>2. 0 \in Good
  <2>1. \A i \in 1..(0 + 1) : i = 1
    OBVIOUS
  <2>2. 0 + 1 <= Len(Levels) => Levels[1][f] \in Seen(0 + 1) /\ Levels[1][f] >= Levels[1][f]
    BY <1>1
  <2> QED
    BY <2>1, <2>2
<1>3. ASSUME NEW m \in Nat, m \in Good PROVE m + 1 \in Good
  <2> SUFFICES ASSUME (m + 1) + 1 <= Len(Levels)
               PROVE  \E x \in Seen((m + 1) + 1) : \A y \in Seen((m + 1) + 1) : x >= y
    BY <1>3
  <2>1. m + 1 <= Len(Levels)
    BY <1>1
  <2>2. PICK x \in Seen(m + 1) : \A y \in Seen(m + 1) : x >= y
    BY <1>3, <2>1
  <2> DEFINE z == Levels[m + 2][f]
  <2>3. x \in Nat /\ z \in Nat
    BY <1>1, <2>1
  <2>4. Seen((m + 1) + 1) = Seen(m + 1) \cup {z}
    <3>1. \A i : i \in 1..((m + 1) + 1) <=> i \in 1..(m + 1) \/ i = m + 2
        OBVIOUS
    <3> QED
        BY <3>1
  <2>5. \A y \in Seen(m + 1) : y \in Nat
    BY <1>1, <2>1
  <2> HIDE DEF Seen, z
  <2>6. CASE x >= z
    BY <2>2, <2>4, <2>6
  <2>7. CASE ~(x >= z)
    BY <2>2, <2>3, <2>4, <2>5, <2>7
  <2> QED
    BY <2>6, <2>7
<1> HIDE DEF Good
<1>4. n - 1 \in Good /\ (n - 1) + 1 = n /\ n <= Len(Levels)
  <2>1. n - 1 \in Nat /\ (n - 1) + 1 = n /\ n <= Len(Levels)
    BY <1>1
  <2> QED
    BY <1>2, <1>3, <2>1, Induction
<1>5. \E x \in Seen(n) : \A y \in Seen(n) : x >= y
    BY <1>4 DEF Good
<1>6. Best(n)[f] = CHOOSE x \in Seen(n) : \A y \in Seen(n) : x >= y
    BY DEF Best, Max
<1>7. /\ Best(n)[f] \in Seen(n)
      /\ \A y \in Seen(n) : Best(n)[f] >= y
  <2> HIDE DEF Seen
  <2> QED
    BY <1>5, <1>6
<1>8. \A i \in 1..n : i \in 1..Len(Levels)
    BY <1>1
<1>9. Best(n)[f] \in Nat
    BY <1>1, <1>7, <1>8
<1> QED
    BY <1>1, <1>7, <1>8, <1>9

\* It grows from level to level.
LEMMA BestGrows ==
    ASSUME UpdaterConstants, NEW n \in 1..Len(Levels), NEW m \in 1..Len(Levels), m <= n
    PROVE  /\ Best(m) \in Counts
           /\ \A f \in DOMAIN NoCounts : Best(m)[f] <= Best(n)[f]
<1>1. Len(Levels) \in Nat /\ \A i \in 1..Len(Levels), f \in DOMAIN NoCounts : Levels[i][f] \in Nat
    BY DEF UpdaterConstants
<1>2. ASSUME NEW f \in DOMAIN NoCounts PROVE Best(m)[f] \in Nat /\ Best(m)[f] <= Best(n)[f]
  <2>1. PICK i \in 1..m : Best(m)[f] = Levels[i][f]
    BY BestIs
  <2>2. i \in 1..n /\ i \in 1..Len(Levels)
    BY <1>1
  <2>3. Levels[i][f] <= Best(n)[f]
    BY <2>2, BestIs
  <2> QED
    BY <1>1, <2>1, <2>2, <2>3
<1>3. Best(m) = [f \in DOMAIN NoCounts |-> Best(m)[f]]
    BY DEF Best
<1> HIDE DEF Best
<1>4. Best(m) \in Counts
  <2> DEFINE b == Best(m)
  <2>1. b = [f \in DOMAIN NoCounts |-> b[f]] /\ \A f \in DOMAIN NoCounts : b[f] \in Nat
    BY <1>2, <1>3, Zenon
  <2> HIDE DEF b
  <2>2. b \in Counts
    BY <2>1 DEF Counts
  <2> QED
    BY <2>2 DEF b
<1> QED
    BY <1>2, <1>4

LEMMA LeastSize == ASSUME UpdaterConstants PROVE Min(Sizes) \in Sizes
    BY Least DEF UpdaterConstants, Min
-----------------------------------------------------------------------------
(* The invariant.                                                          *)

ProcSteps == {"idle", "queued", "caches", "rep", "blank", "activity", "boosters", "points",
          "commit", "constants", "total", "answered"}
Phases == {"sleep", "communities", "users", "totals", "rounded", "ended"}
Processes == Users \cup Communities \cup ProfileRequests

Reps == [counts : Counts, flags : SUBSET Boosters, total : Nat, points : Nat]
ComReps == [participation : Nat, size : Sizes \cup {0}, points : Nat]
Procs == [at : ProcSteps, user : Users \cup {Nothing}, level : 0..Len(Levels), rep : Reps]

ReputationTypeOK ==
    /\ level \in [Users -> 1..Len(Levels)]
    /\ holding \in [Gains -> [Users -> {"never", "held", "lost"}]]
    /\ size \in [Communities -> Sizes]
    /\ followers \in [FollowBoosters -> SUBSET Users]
    /\ holders \in [HolderBoosters -> SUBSET Users]
    /\ cached \in BOOLEAN
    /\ reps \in [Users -> Reps \cup {Nothing}]
    /\ comReps \in [Communities -> ComReps \cup {Nothing}]
    /\ loop \in Phases
    /\ proc \in [Processes -> Procs]
    /\ stopped \in BOOLEAN
    /\ failures \in Nat /\ changes \in Nat

\* The boosters a user has ever had.
Had(h, u) == {b \in Gains : h[b][u] # "never"}

\* What the updater knows of followers and holders has been true.
Known ==
    /\ \A b \in FollowBoosters : \A u \in followers[b] : b \in Had(holding, u)
    /\ \A b \in HolderBoosters : \A u \in holders[b] : b \in Had(holding, u)

\* A reputation u has earned.
Earned(l, h, u, r) ==
    /\ r.flags \subseteq Had(h, u)
    /\ r.total <= TotalReputation(Best(l[u]), Had(h, u))

StoredEarned == \A u \in Users : reps[u] # Nothing => Earned(level, holding, u, reps[u])

\* A process reads a level that its user has reached, keeps counts the user has reached,
\* and writes a reputation the user has earned.
AtLevel(l, q) == q.user \in Users /\ q.level \in 1..l[q.user]
Sound(l, h, q) ==
    /\ q.at \in {"caches", "rep", "blank", "activity"} => AtLevel(l, q)
    /\ q.at \in {"boosters", "points", "commit"} => q.user \in Users
    /\ (q.at = "boosters" /\ q.level # 0) =>
           \A f \in DOMAIN NoCounts : q.rep.counts[f] <= Best(l[q.user])[f]
    /\ q.at \in {"points", "commit"} => Earned(l, h, q.user, q.rep)
ProcsSound == \A p \in Users \cup ProfileRequests : Sound(level, holding, proc[p])

\* Nothing is queued between two rounds, and what waits for a slot can go on with it.
LoopSound ==
    /\ loop \in {"sleep", "communities", "ended"} => AllIdle
    /\ \A u \in Users : (proc[u].at = "queued" /\ loop = "totals") => AtLevel(level, proc[u])
    /\ \A c \in Communities :
           (proc[c].at = "total" \/ (proc[c].at = "queued" /\ loop = "rounded")) => comReps[c] # Nothing

ReputationInvariant ==
    ReputationTypeOK /\ Known /\ StoredEarned /\ ProcsSound /\ LoopSound

\* What a user has earned at least is worth no more than what the user has earned at most.
LEMMA HadIs ==
    ASSUME UpdaterConstants, ReputationTypeOK, NEW u \in Users
    PROVE  /\ Had(holding, u) \in SUBSET Boosters
           /\ level[u] \in 1..Len(Levels) /\ Len(Levels) \in Nat
           /\ Best(level[u]) \in Counts
           /\ TotalReputation(Best(level[u]), Had(holding, u)) \in Nat
           /\ TotalReputation(Best(level[u]), Had(holding, u)) <= 100
<1>1. Had(holding, u) \in SUBSET Boosters /\ Len(Levels) \in Nat
    BY DEF UpdaterConstants, Had
<1>2. level[u] \in 1..Len(Levels)
    BY DEF ReputationTypeOK
<1>3. Best(level[u]) \in Counts /\ level[u] <= level[u]
    BY <1>1, <1>2, BestGrows
<1>4. \A f \in DOMAIN NoCounts : Best(level[u])[f] <= Best(level[u])[f]
    BY <1>3 DEF Counts
<1> DEFINE b == Best(level[u])
           g == Had(holding, u)
<1>5. b \in Counts /\ (\A f \in DOMAIN NoCounts : b[f] <= b[f]) /\ g \in SUBSET Boosters
    BY <1>1, <1>3, <1>4
<1> HIDE DEF b, g
<1>6. TotalReputation(b, g) \in Nat /\ TotalReputation(b, g) <= 100
    BY <1>5, WorthGrows
<1> QED
    BY <1>1, <1>2, <1>3, <1>6 DEF b, g

\* What is earned stays earned while the user goes on.
LEMMA SoundGrows ==
    ASSUME UpdaterConstants, NEW l, NEW m, NEW h, NEW k,
           \A u \in Users : /\ l[u] \in 1..Len(Levels) /\ m[u] \in 1..Len(Levels) /\ l[u] <= m[u]
                            /\ Had(h, u) \subseteq Had(k, u)
    PROVE  /\ \A u \in Users : \A r \in Reps : Earned(l, h, u, r) => Earned(m, k, u, r)
           /\ \A q \in Procs : Sound(l, h, q) => Sound(m, k, q)
<1>1. ASSUME NEW u \in Users
      PROVE  /\ Best(l[u]) \in Counts /\ Best(m[u]) \in Counts
             /\ \A f \in DOMAIN NoCounts : Best(l[u])[f] <= Best(m[u])[f]
  <2>1. m[u] <= m[u]
    OBVIOUS
  <2> QED
    BY <2>1, BestGrows
<1>2. ASSUME NEW u \in Users, NEW r \in Reps, Earned(l, h, u, r) PROVE Earned(m, k, u, r)
  <2> DEFINE c == Best(l[u])
             d == Best(m[u])
             F == Had(h, u)
             G == Had(k, u)
  <2>1. c \in Counts /\ d \in Counts /\ \A f \in DOMAIN NoCounts : c[f] <= d[f]
    BY <1>1
  <2>2. G \in SUBSET Boosters /\ F \in SUBSET G
    BY DEF UpdaterConstants, Had
  <2>3. r.flags \subseteq F /\ r.total <= TotalReputation(c, F) /\ r.total \in Nat
    BY <1>2 DEF Earned, Reps
  <2> HIDE DEF c, d, F, G
  <2>4. /\ TotalReputation(c, F) \in Nat /\ TotalReputation(d, G) \in Nat
        /\ TotalReputation(c, F) <= TotalReputation(d, G)
    BY <2>1, <2>2, WorthGrows
  <2>5. r.flags \subseteq G /\ r.total <= TotalReputation(d, G)
    BY <2>2, <2>3, <2>4
  <2> QED
    BY <2>5 DEF Earned, d, G
<1>3. ASSUME NEW q \in Procs, Sound(l, h, q) PROVE Sound(m, k, q)
  <2>1. q.rep \in Reps /\ q.level \in 0..Len(Levels) /\ Len(Levels) \in Nat
    BY DEF Procs, UpdaterConstants
  <2>2. AtLevel(l, q) => AtLevel(m, q)
    BY <2>1 DEF AtLevel
  <2>3. (q.user \in Users /\ Earned(l, h, q.user, q.rep)) => Earned(m, k, q.user, q.rep)
    BY <1>2, <2>1
  <2>4. ASSUME q.user \in Users, NEW f \in DOMAIN NoCounts, q.rep.counts[f] <= Best(l[q.user])[f]
        PROVE  q.rep.counts[f] <= Best(m[q.user])[f]
    <3>1. /\ Best(l[q.user])[f] \in Nat /\ Best(m[q.user])[f] \in Nat
          /\ Best(l[q.user])[f] <= Best(m[q.user])[f]
        BY <1>1, <2>4 DEF Counts
    <3>2. q.rep.counts[f] \in Nat
        BY <2>1 DEF Reps, Counts
    <3> QED
        BY <2>4, <3>1, <3>2
  <2> QED
    BY <1>3, <2>2, <2>3, <2>4 DEF Sound
<1> QED
    BY <1>2, <1>3

\* A merge has the flags of both, and the total of one of them.
LEMMA MergedIs ==
    ASSUME NEW old \in Reps, NEW new \in Reps
    PROVE  /\ Merged(old, new) \in Reps
           /\ Merged(old, new).flags = old.flags \cup new.flags
           /\ Merged(old, new).total \in {old.total, new.total}
<1> DEFINE k == [f \in DOMAIN NoCounts |-> IfSet(old.counts[f], new.counts[f])]
<1>1. old.counts \in Counts /\ new.counts \in Counts
    BY DEF Reps
<1>2. k \in Counts
    BY <1>1 DEF Counts, IfSet
<1>3. Merged(old, new) = [counts |-> k, flags |-> old.flags \cup new.flags,
                          total |-> IfSet(old.total, new.total), points |-> IfSet(old.points, new.points)]
    BY DEF Merged
<1> HIDE DEF k
<1> QED
    BY <1>2, <1>3 DEF Reps, IfSet

LEMMA BlankIs == BlankRep \in Reps /\ BlankRep.flags = {} /\ BlankRep.total = 0
    BY CountsAre DEF BlankRep, Reps

LEMMA BlankEarned ==
    ASSUME UpdaterConstants, ReputationTypeOK, NEW u \in Users, NEW r, r.flags = {}, r.total = 0
    PROVE  Earned(level, holding, u, r)
    BY HadIs DEF Earned

\* Documents merged with what is earned are earned.
LEMMA Stores ==
    ASSUME UpdaterConstants, ReputationTypeOK, StoredEarned, NEW u \in Users,
           NEW new \in Reps, Earned(level, holding, u, new), SetForUser(u, new),
           UNCHANGED <<level, holding>>
    PROVE  reps' \in [Users -> Reps \cup {Nothing}] /\ StoredEarned'
<1> DEFINE old == IF reps[u] = Nothing THEN BlankRep ELSE reps[u]
<1>1. reps' = [reps EXCEPT ![u] = Merged(old, new)] /\ reps \in [Users -> Reps \cup {Nothing}]
    BY DEF SetForUser, Upserted, ReputationTypeOK
<1>2. old \in Reps /\ Earned(level, holding, u, old)
    BY <1>1, BlankIs, BlankEarned DEF StoredEarned
<1> HIDE DEF old
<1>3. Merged(old, new) \in Reps /\ Earned(level, holding, u, Merged(old, new))
    BY <1>2, MergedIs DEF Earned
<1> DEFINE mine == Merged(old, new)
<1>4. mine \in Reps /\ Earned(level, holding, u, mine) /\ reps' = [reps EXCEPT ![u] = mine]
    BY <1>1, <1>3
<1> HIDE DEF mine
<1>5. StoredEarned'
    BY <1>1, <1>4 DEF StoredEarned
<1> QED
    BY <1>1, <1>4, <1>5

LEMMA IdleProcIs ==
    ASSUME UpdaterConstants, NEW a \in ProcSteps
    PROVE  /\ [IdleProc EXCEPT !.at = a] \in Procs
           /\ [IdleProc EXCEPT !.at = a].at = a
    BY BlankIs DEF IdleProc, Procs, UpdaterConstants

\* The step of one process.  P is what becomes of it.
BecomesOf(p, P) ==
    /\ p \in Processes /\ P \in Procs /\ proc' = [proc EXCEPT ![p] = P]
    /\ proc[p].at \notin {"idle", "answered"} \/ p \in ProfileRequests
    /\ p \in Users \cup ProfileRequests => Sound(level, holding, P)
    /\ P.at # "queued"
    /\ (p \in Communities /\ P.at = "total") => comReps[p] # Nothing
StoresWell ==
    /\ reps' \in [Users -> Reps \cup {Nothing}] /\ StoredEarned'
    /\ comReps' \in [Communities -> ComReps \cup {Nothing}]
    /\ \A c \in Communities : comReps[c] # Nothing => comReps'[c] # Nothing
LearnsWell ==
    /\ followers' \in [FollowBoosters -> SUBSET Users] /\ holders' \in [HolderBoosters -> SUBSET Users]
    /\ cached' \in BOOLEAN /\ Known' /\ failures' \in Nat

LEMMA MoveKeeps ==
    ASSUME UpdaterConstants, ReputationInvariant, NEW p, NEW P, BecomesOf(p, P), StoresWell, LearnsWell,
           OnlyProc
    PROVE  ReputationInvariant'
<1>1. /\ level' = level /\ holding' = holding /\ size' = size /\ changes' = changes
      /\ loop' = loop /\ stopped' = stopped
    BY DEF OnlyProc, world
<1>2. /\ p \in Processes /\ P \in Procs /\ proc' = [proc EXCEPT ![p] = P]
      /\ proc \in [Processes -> Procs]
    BY DEF BecomesOf, ReputationInvariant, ReputationTypeOK
<1>3. proc' \in [Processes -> Procs] /\ proc'[p] = P /\ \A q \in Processes : q # p => proc'[q] = proc[q]
    BY <1>2
<1>4. ReputationTypeOK'
    BY <1>1, <1>3 DEF ReputationInvariant, ReputationTypeOK, StoresWell, LearnsWell
<1>5. ProcsSound'
  <2> SUFFICES ASSUME NEW q \in Users \cup ProfileRequests PROVE Sound(level, holding, proc'[q])
    BY <1>1 DEF ProcsSound
  <2>1. CASE q = p
    BY <1>3, <2>1 DEF BecomesOf
  <2>2. CASE q # p
    BY <1>3, <2>2 DEF Processes, ReputationInvariant, ProcsSound
  <2> QED
    BY <2>1, <2>2
<1>6. ASSUME loop \in {"sleep", "communities", "ended"} PROVE AllIdle'
  <2>1. \A i \in Items : proc[i].at = "idle" /\ i \in Processes
    BY <1>6 DEF ReputationInvariant, LoopSound, AllIdle, Items, Processes
  <2>2. \A i \in Items : i \notin ProfileRequests
    BY DEF Items, UpdaterConstants
  <2>3. \A i \in Items : i # p
    BY <2>1, <2>2 DEF BecomesOf
  <2> QED
    BY <1>3, <2>1, <2>3 DEF AllIdle
<1>7. ASSUME NEW u \in Users, proc'[u].at = "queued", loop = "totals" PROVE AtLevel(level, proc'[u])
  <2>1. u # p
    BY <1>3, <1>7 DEF BecomesOf
  <2>2. proc'[u] = proc[u]
    BY <1>3, <2>1 DEF Processes
  <2> QED
    BY <1>7, <2>2 DEF ReputationInvariant, LoopSound
<1>8. ASSUME NEW c \in Communities, proc'[c].at = "total" \/ (proc'[c].at = "queued" /\ loop = "rounded")
      PROVE  comReps'[c] # Nothing
  <2>1. CASE c = p
    BY <1>3, <1>8, <2>1 DEF BecomesOf, StoresWell
  <2>2. CASE c # p
    BY <1>3, <1>8, <2>2 DEF Processes, ReputationInvariant, LoopSound, StoresWell
  <2> QED
    BY <2>1, <2>2
<1>9. LoopSound'
    BY <1>1, <1>6, <1>7, <1>8 DEF LoopSound
<1> QED
    BY <1>4, <1>5, <1>9 DEF ReputationInvariant, StoresWell, LearnsWell

LEMMA StoresNothing ==
    ASSUME ReputationInvariant, UNCHANGED <<level, holding, reps>>
    PROVE  reps' \in [Users -> Reps \cup {Nothing}] /\ StoredEarned'
    BY DEF ReputationInvariant, ReputationTypeOK, StoredEarned

LEMMA ComStoresNothing ==
    ASSUME ReputationInvariant, UNCHANGED comReps
    PROVE  /\ comReps' \in [Communities -> ComReps \cup {Nothing}]
           /\ \A c \in Communities : comReps[c] # Nothing => comReps'[c] # Nothing
    BY DEF ReputationInvariant, ReputationTypeOK

LEMMA LearnsNothing ==
    ASSUME ReputationInvariant, UNCHANGED <<holding, caches>>, UNCHANGED failures \/ Failure
    PROVE  LearnsWell
<1>1. failures' \in Nat
    BY DEF Failure, ReputationInvariant, ReputationTypeOK
<1> QED
    BY <1>1 DEF LearnsWell, caches, Known, ReputationInvariant, ReputationTypeOK

\* The services tell of followers and holders of the moment.
LEMMA HeldIs ==
    ASSUME NEW b PROVE Held(b) \in SUBSET Users /\ \A u \in Held(b) : b \in Had(holding, u)
    BY DEF Held, Had

LEMMA FetchLearns ==
    ASSUME UpdaterConstants, ReputationInvariant, Fetch, UNCHANGED holding
    PROVE  LearnsWell
<1>1. PICK failing \in SUBSET (Gains \ {"degen10k"}) :
        /\ FetchFollowers(failing) /\ FetchHolders(failing) /\ cached' = TRUE
        /\ failures' = failures + Cardinality(failing)
    BY DEF Fetch
<1>2. IsFiniteSet(failing)
    BY BoostersAre, FS_Subset DEF UpdaterConstants
<1>3. failures' \in Nat
    BY <1>1, <1>2, FS_CardinalityType DEF ReputationInvariant, ReputationTypeOK
<1>4. /\ followers' \in [FollowBoosters -> SUBSET Users]
      /\ \A b \in FollowBoosters : \A u \in followers'[b] : b \in Had(holding, u)
    BY <1>1, HeldIs DEF FetchFollowers, ReputationInvariant, ReputationTypeOK, Known
<1>5. /\ holders' \in [HolderBoosters -> SUBSET Users]
      /\ \A b \in HolderBoosters : \A u \in holders'[b] : b \in Had(holding, u)
    BY <1>1, HeldIs DEF FetchHolders, ReputationInvariant, ReputationTypeOK, Known
<1> QED
    BY <1>1, <1>3, <1>4, <1>5 DEF LearnsWell, Known

LEMMA UserBoostersHad ==
    ASSUME UpdaterConstants, ReputationInvariant, NEW u \in Users
    PROVE  UserBoosters(u) \subseteq Had(holding, u)
    BY HeldIs DEF UserBoosters, ReputationInvariant, Known

-----------------------------------------------------------------------------
(* Points.                                                                 *)

LEMMA Times == ASSUME NEW m \in Nat, NEW n \in Nat PROVE m * n \in Nat
    OBVIOUS

LEMMA PointsAre ==
    ASSUME UpdaterConstants, NEW c \in Communities, NEW m \in Nat, NEW r \in Nat, NEW com \in ComReps
    PROVE  CommunityTotalPoints(CensusType[c], m, com.participation, com.size, r) \in Nat
<1> DEFINE p == com.participation
           z == com.size
           k == CASE CensusType[c] \in {"erc20", "nft"} -> 4
                  [] CensusType[c] = "channel"          -> 2
                  [] CensusType[c] = "followers"        -> 1
           rate == YieldRate(CensusType[c], p, z, r)
<1>1. CommunityTotalPoints(CensusType[c], m, p, z, r) = IF z = 0 THEN Garbage ELSE (rate * m) \div 50
    BY DEF CommunityTotalPoints
<1>2. p \in Nat /\ z \in Sizes \cup {0} /\ Garbage \in Nat
    BY DEF ComReps, UpdaterConstants
<1>3. k \in Nat
  <2>1. CensusType[c] \in {"erc20", "nft", "channel", "followers"}
    BY DEF UpdaterConstants
  <2> QED
    BY <2>1
<1>4. rate = (10 * p + Ln[z]) * r * k
    BY DEF YieldRate
<1> HIDE DEF p, z, k, rate
<1>5. ASSUME z # 0 PROVE rate \in Nat
  <2>1. Ln[z] \in Nat
    BY <1>2, <1>5 DEF UpdaterConstants
  <2>2. 10 * p + Ln[z] \in Nat
    BY <1>2, <2>1
  <2>3. (10 * p + Ln[z]) * r \in Nat
    BY <2>2, Times
  <2> QED
    BY <1>3, <1>4, <2>3, Times
<1>6. ASSUME z # 0 PROVE (rate * m) \div 50 \in Nat
  <2>1. rate * m \in Nat
    BY <1>5, <1>6, Times
  <2> DEFINE t == rate * m
  <2>2. t \in Nat
    BY <2>1
  <2> HIDE DEF t
  <2>3. t \div 50 \in Nat
    BY <2>2
  <2> QED
    BY <2>3 DEF t
<1>7. CommunityTotalPoints(CensusType[c], m, p, z, r) \in Nat
    BY <1>1, <1>2, <1>6
<1> QED
    BY <1>7 DEF p, z

Points(c, m, r) ==
    IF comReps[c] = Nothing THEN 0
    ELSE CommunityTotalPoints(CensusType[c], m, comReps[c].participation, comReps[c].size, r)

PointsOf(S, m, r) == MapThenSumSet(LAMBDA c : Points(c, m, r), S)

LEMMA PointsAdd ==
    ASSUME UpdaterConstants, ReputationTypeOK, NEW S \in SUBSET Communities, NEW m \in Nat, NEW r \in Nat
    PROVE  PointsOf(S, m, r) \in Nat
<1> DEFINE f == [c \in Communities |-> Points(c, m, r)]
           e == CHOOSE g : g = [s \in SUBSET S |->
                    IF s = {} THEN 0
                    ELSE Points(CHOOSE x \in s : TRUE, m, r) + g[s \ {CHOOSE x \in s : TRUE}]]
<1>1. PointsOf(S, m, r) = e[S]
    BY DEF PointsOf, MapThenSumSet, MapThenFoldSet
<1>2. \A c \in Communities : f[c] \in Nat
  <2>1. \A c \in Communities : comReps[c] # Nothing => comReps[c] \in ComReps
    BY DEF ReputationTypeOK
  <2>2. \A c \in Communities : Points(c, m, r) \in Nat
    BY <2>1, PointsAre DEF Points
  <2> QED
    BY <2>2
<1>3. IsFiniteSet(S)
    BY FS_Subset DEF UpdaterConstants
<1>4. \A s \in SUBSET S : s # {} => f[First(s)] = Points(CHOOSE x \in s : TRUE, m, r)
    BY DEF First
<1>5. PICK g : IsSum(f, SUBSET S, g)
    BY <1>3, TotalIsASum
<1>6. g = [s \in SUBSET S |->
            IF s = {} THEN 0
            ELSE Points(CHOOSE x \in s : TRUE, m, r) + g[s \ {CHOOSE x \in s : TRUE}]]
    BY <1>4, <1>5 DEF IsSum, First
<1>7. e = [s \in SUBSET S |->
            IF s = {} THEN 0
            ELSE Points(CHOOSE x \in s : TRUE, m, r) + e[s \ {CHOOSE x \in s : TRUE}]]
    BY <1>6
<1> HIDE DEF e
<1>8. IsSum(f, SUBSET S, e)
    BY <1>4, <1>7 DEF IsSum, First
<1> HIDE DEF f
<1>9. e[S] \in Nat
    BY <1>2, <1>3, <1>8, SumsAdd DEF Adds
<1> QED
    BY <1>1, <1>9

LEMMA UserPointsAre ==
    ASSUME UpdaterConstants, ReputationTypeOK, NEW u \in Users, NEW r \in Nat
    PROVE  UserPoints(u, r) \in Nat
<1> DEFINE x == PointsOf({c \in Communities : Owner[c] = u}, 7, r)
           y == PointsOf(CommunitiesByVoter(u), 3, r)
<1>1. x \in Nat
    BY PointsAdd
<1>2. y \in Nat
  <2>1. CommunitiesByVoter(u) \in SUBSET Communities
    BY DEF CommunitiesByVoter
  <2> QED
    BY <2>1, PointsAdd
<1>3. UserPoints(u, r) = (x + y) % (2 * Garbage)
    BY DEF UserPoints, PointsOf, Points
<1>4. Garbage \in Nat \ {0}
    BY DEF UpdaterConstants
<1> HIDE DEF x, y
<1> QED
    BY <1>1, <1>2, <1>3, <1>4

-----------------------------------------------------------------------------
(* The steps.                                                              *)

\* The world goes on.
LEMMA WorldKeeps ==
    ASSUME UpdaterConstants, ReputationInvariant, OnlyWorld,
           level' \in [Users -> 1..Len(Levels)], \A u \in Users : level[u] <= level'[u],
           holding' \in [Gains -> [Users -> {"never", "held", "lost"}]],
           \A b \in Gains, u \in Users : holding[b][u] # "never" => holding'[b][u] # "never",
           size' \in [Communities -> Sizes], changes' \in Nat
    PROVE  ReputationInvariant'
<1>1. /\ followers' = followers /\ holders' = holders /\ cached' = cached /\ reps' = reps
      /\ comReps' = comReps /\ loop' = loop /\ proc' = proc /\ stopped' = stopped /\ failures' = failures
    BY DEF OnlyWorld, caches
<1>2. ReputationTypeOK'
    BY <1>1 DEF ReputationInvariant, ReputationTypeOK
<1>3. \A u \in Users : Had(holding, u) \subseteq Had(holding', u)
    BY DEF Had
<1>4. Known'
  <2>1. /\ \A b \in FollowBoosters : followers[b] \subseteq Users
        /\ \A b \in HolderBoosters : holders[b] \subseteq Users
    BY DEF ReputationInvariant, ReputationTypeOK
  <2> QED
    BY <1>1, <1>3, <2>1 DEF ReputationInvariant, Known
<1>5. /\ \A u \in Users : \A r \in Reps : Earned(level, holding, u, r) => Earned(level', holding', u, r)
      /\ \A q \in Procs : Sound(level, holding, q) => Sound(level', holding', q)
  <2>1. \A u \in Users : level[u] \in 1..Len(Levels) /\ level'[u] \in 1..Len(Levels)
    BY DEF ReputationInvariant, ReputationTypeOK
  <2> QED
    BY <1>3, <2>1, SoundGrows
<1>6. StoredEarned'
  <2>1. \A u \in Users : reps[u] # Nothing => reps[u] \in Reps
    BY DEF ReputationInvariant, ReputationTypeOK
  <2> QED
    BY <1>1, <1>5, <2>1 DEF ReputationInvariant, StoredEarned
<1>7. ProcsSound'
  <2>1. \A p \in Users \cup ProfileRequests : proc[p] \in Procs
    BY DEF ReputationInvariant, ReputationTypeOK, Processes
  <2> QED
    BY <1>1, <1>5, <2>1 DEF ReputationInvariant, ProcsSound
<1>8. LoopSound'
  <2>1. \A u \in Users : AtLevel(level, proc[u]) => AtLevel(level', proc[u])
    <3>1. \A u \in Users : proc[u].level \in 0..Len(Levels) /\ Len(Levels) \in Nat
        BY DEF ReputationInvariant, ReputationTypeOK, Processes, Procs, UpdaterConstants
    <3>2. \A u \in Users : level[u] \in 1..Len(Levels) /\ level'[u] \in 1..Len(Levels)
        BY DEF ReputationInvariant, ReputationTypeOK
    <3> QED
        BY <3>1, <3>2 DEF AtLevel
  <2> QED
    BY <1>1, <2>1 DEF ReputationInvariant, LoopSound, AllIdle
<1> QED
    BY <1>2, <1>4, <1>6, <1>7, <1>8 DEF ReputationInvariant

LEMMA WorldIs ==
    ASSUME UpdaterConstants, ReputationInvariant
    PROVE  /\ level \in [Users -> 1..Len(Levels)] /\ Len(Levels) \in Nat
           /\ \A u \in Users : level[u] <= level[u]
           /\ holding \in [Gains -> [Users -> {"never", "held", "lost"}]]
           /\ size \in [Communities -> Sizes] /\ changes \in Nat
    BY DEF ReputationInvariant, ReputationTypeOK, UpdaterConstants

LEMMA ActKeeps ==
    ASSUME UpdaterConstants, ReputationInvariant, NEW u \in Users, Act(u)
    PROVE  ReputationInvariant'
<1>1. /\ OnlyWorld /\ changes' \in Nat /\ holding' = holding /\ size' = size
      /\ level' = [level EXCEPT ![u] = @ + 1] /\ level[u] < Len(Levels)
    BY WorldIs DEF Act, WorldChanges
<1>2. level' \in [Users -> 1..Len(Levels)] /\ \A v \in Users : level[v] <= level'[v]
    BY <1>1, WorldIs
<1> QED
    BY <1>1, <1>2, WorldIs, WorldKeeps

LEMMA HoldingKeeps ==
    ASSUME UpdaterConstants, ReputationInvariant, NEW u \in Users, NEW b \in Gains,
           Gain(u, b) \/ Lose(u, b)
    PROVE  ReputationInvariant'
<1>1. /\ OnlyWorld /\ changes' \in Nat /\ level' = level /\ size' = size
      /\ \E k \in {"held", "lost"} : holding' = [holding EXCEPT ![b][u] = k]
    BY WorldIs DEF Gain, Lose, WorldChanges
<1>2. holding' \in [Gains -> [Users -> {"never", "held", "lost"}]]
    BY <1>1, WorldIs
<1>3. \A d \in Gains, v \in Users : holding[d][v] # "never" => holding'[d][v] # "never"
    BY <1>1, WorldIs
<1> QED
    BY <1>1, <1>2, <1>3, WorldIs, WorldKeeps

LEMMA ResizeKeeps ==
    ASSUME UpdaterConstants, ReputationInvariant, NEW c \in Communities, NEW n \in Sizes, Resize(c, n)
    PROVE  ReputationInvariant'
<1>1. /\ OnlyWorld /\ changes' \in Nat /\ level' = level /\ holding' = holding
      /\ size' \in [Communities -> Sizes]
    BY WorldIs DEF Resize, WorldChanges
<1> QED
    BY <1>1, WorldIs, WorldKeeps

\* What a process that goes on, or is done, becomes.
LEMMA GoIs ==
    ASSUME ReputationInvariant, NEW p \in Processes, NEW a \in ProcSteps, Go(p, a)
    PROVE  \E P \in Procs : /\ proc' = [proc EXCEPT ![p] = P] /\ P.at = a
                            /\ P.user = proc[p].user /\ P.level = proc[p].level /\ P.rep = proc[p].rep
<1> DEFINE P == [proc[p] EXCEPT !.at = a]
<1>1. proc[p] \in Procs /\ proc \in [Processes -> Procs]
    BY DEF ReputationInvariant, ReputationTypeOK
<1>2. /\ P \in Procs /\ P.at = a
      /\ P.user = proc[p].user /\ P.level = proc[p].level /\ P.rep = proc[p].rep
    BY <1>1 DEF Procs
<1>3. proc' = [proc EXCEPT ![p] = P]
    BY DEF Go
<1> QED
    BY <1>2, <1>3

LEMMA DoneMoves ==
    ASSUME UpdaterConstants, ReputationInvariant, NEW p \in Processes, Done(p),
           proc[p].at \notin {"idle", "answered"}
    PROVE  \E P : BecomesOf(p, P)
<1> DEFINE a == IF p \in ProfileRequests THEN "answered" ELSE "idle"
           P == [IdleProc EXCEPT !.at = a]
<1>1. a \in ProcSteps /\ a \in {"answered", "idle"}
    BY DEF ProcSteps
<1>2. proc' = [proc EXCEPT ![p] = P]
    BY DEF Done
<1> HIDE DEF a
<1>3. P \in Procs /\ P.at = a
    BY <1>1, IdleProcIs
<1> HIDE DEF P
<1>4. Sound(level, holding, P)
    BY <1>1, <1>3 DEF Sound
<1>5. P.at # "queued" /\ P.at # "total"
    BY <1>1, <1>3
<1>6. BecomesOf(p, P)
    BY <1>2, <1>3, <1>4, <1>5 DEF BecomesOf
<1> QED
    BY <1>6

\* The process p is at a step of a computation, and its user is one.
LEMMA AtStep ==
    ASSUME ReputationInvariant, UpdaterConstants, NEW p \in Users \cup ProfileRequests
    PROVE  /\ p \in Processes /\ p \notin Communities /\ proc[p] \in Procs
           /\ Sound(level, holding, proc[p])
           /\ proc \in [Processes -> Procs]
    BY DEF ReputationInvariant, ReputationTypeOK, ProcsSound, Processes, UpdaterConstants

LEMMA ReadReputationKeeps ==
    ASSUME UpdaterConstants, ReputationInvariant, NEW p \in Users \cup ProfileRequests, ReadReputation(p)
    PROVE  ReputationInvariant'
<1>1. AtLevel(level, proc[p]) /\ proc[p].at = "rep" /\ proc[p] \in Procs /\ p \in Processes
    BY AtStep DEF ReadReputation, Sound
<1>2. \E P : BecomesOf(p, P)
  <2>1. CASE reps[proc[p].user] = Nothing
    <3>1. Go(p, "blank") /\ "blank" \in ProcSteps
        BY <2>1 DEF ReadReputation, ProcSteps
    <3>2. PICK P \in Procs : /\ proc' = [proc EXCEPT ![p] = P] /\ P.at = "blank"
                             /\ P.user = proc[p].user /\ P.level = proc[p].level
        BY <1>1, <3>1, GoIs
    <3>3. Sound(level, holding, P)
        BY <1>1, <3>2 DEF Sound, AtLevel
    <3>4. BecomesOf(p, P)
        BY <1>1, <3>2, <3>3 DEF BecomesOf
    <3> QED
        BY <3>4
  <2>2. CASE reps[proc[p].user] # Nothing
    <3> DEFINE r == reps[proc[p].user]
               P == [proc[p] EXCEPT !.at = "activity", !.rep = r]
    <3>1. r \in Reps
        BY <1>1, <2>2 DEF AtLevel, ReputationInvariant, ReputationTypeOK
    <3>2. proc' = [proc EXCEPT ![p] = P]
        BY <2>2 DEF ReadReputation
    <3> HIDE DEF r
    <3>3. /\ P \in Procs /\ P.at = "activity"
          /\ P.user = proc[p].user /\ P.level = proc[p].level
        BY <1>1, <3>1 DEF Procs, ProcSteps
    <3> HIDE DEF P
    <3>4. Sound(level, holding, P)
        BY <1>1, <3>3 DEF Sound, AtLevel
    <3>5. BecomesOf(p, P)
        BY <1>1, <3>2, <3>3, <3>4 DEF BecomesOf
    <3> QED
        BY <3>5
  <2> QED
    BY <2>1, <2>2
<1>3. OnlyProc /\ UNCHANGED <<level, holding, caches, reps, comReps, failures>>
    BY DEF ReadReputation, OnlyProc, world
<1> QED
    BY <1>2, <1>3, StoresNothing, ComStoresNothing, LearnsNothing, MoveKeeps DEF StoresWell

LEMMA SetBlankKeeps ==
    ASSUME UpdaterConstants, ReputationInvariant, NEW p \in Users \cup ProfileRequests, SetBlank(p)
    PROVE  ReputationInvariant'
<1>1. AtLevel(level, proc[p]) /\ proc[p].at = "blank" /\ p \in Processes
    BY AtStep DEF SetBlank, Sound
<1>2. \E P : BecomesOf(p, P)
    BY <1>1, DoneMoves DEF SetBlank
<1>3. OnlyProc /\ UNCHANGED <<level, holding, caches, comReps, failures>>
    BY DEF SetBlank, OnlyProc, world
<1>4. proc[p].user \in Users /\ SetForUser(proc[p].user, BlankRep) /\ BlankRep \in Reps
    BY <1>1, BlankIs DEF SetBlank, AtLevel
<1>5. Earned(level, holding, proc[p].user, BlankRep)
    BY <1>4, BlankIs, BlankEarned DEF ReputationInvariant
<1>6. reps' \in [Users -> Reps \cup {Nothing}] /\ StoredEarned'
    BY <1>3, <1>4, <1>5, Stores DEF ReputationInvariant
<1> QED
    BY <1>2, <1>3, <1>6, ComStoresNothing, LearnsNothing, MoveKeeps DEF StoresWell

LEMMA ReadActivityKeeps ==
    ASSUME UpdaterConstants, ReputationInvariant, NEW p \in Users \cup ProfileRequests, ReadActivity(p)
    PROVE  ReputationInvariant'
<1>1. AtLevel(level, proc[p]) /\ proc[p].at = "activity" /\ proc[p] \in Procs /\ p \in Processes
    BY AtStep DEF ReadActivity, Sound
<1>2. OnlyProc /\ UNCHANGED <<level, holding, caches, reps, comReps>> /\ (UNCHANGED failures \/ Failure)
    BY DEF ReadActivity, OnlyProc, world
<1>3. /\ level[proc[p].user] \in 1..Len(Levels) /\ Len(Levels) \in Nat
      /\ proc[p].level \in 1..level[proc[p].user]
    BY <1>1 DEF AtLevel, ReputationInvariant, ReputationTypeOK, UpdaterConstants
<1>4. /\ ActivityCounts(p) \in Counts
      /\ \A f \in DOMAIN NoCounts : ActivityCounts(p)[f] <= Best(level[proc[p].user])[f]
  <2>1. ASSUME NEW f \in DOMAIN NoCounts
        PROVE  \E i \in 1..level[proc[p].user] : ActivityCounts(p)[f] = Levels[i][f]
    <3>1. \/ ActivityCounts(p)[f] = Levels[level[proc[p].user]][f]
          \/ ActivityCounts(p)[f] = Levels[proc[p].level][f]
        BY DEF ActivityCounts
    <3>2. level[proc[p].user] \in 1..level[proc[p].user]
        BY <1>3
    <3> QED
        BY <1>3, <3>1, <3>2
  <2>2. \A f \in DOMAIN NoCounts : ActivityCounts(p)[f] <= Best(level[proc[p].user])[f]
    BY <1>3, <2>1, BestIs
  <2>3. \A f \in DOMAIN NoCounts : \A i \in 1..level[proc[p].user] : Levels[i][f] \in Nat
    BY <1>3 DEF UpdaterConstants
  <2>4. \A f \in DOMAIN NoCounts : ActivityCounts(p)[f] \in Nat
    BY <2>1, <2>3
  <2>5. ActivityCounts(p) = [f \in DOMAIN NoCounts |-> ActivityCounts(p)[f]]
    BY DEF ActivityCounts
  <2> DEFINE k == ActivityCounts(p)
  <2>6. k = [f \in DOMAIN NoCounts |-> k[f]] /\ \A f \in DOMAIN NoCounts : k[f] \in Nat
    BY <2>4, <2>5, Zenon
  <2> HIDE DEF k
  <2>7. k \in Counts
    BY <2>6 DEF Counts
  <2> QED
    BY <2>2, <2>7 DEF k
<1>5. \E P : BecomesOf(p, P)
  <2>1. CASE proc' = [proc EXCEPT ![p].at = "boosters", ![p].rep.counts = ActivityCounts(p)]
    <3> DEFINE k == ActivityCounts(p)
               P == [proc[p] EXCEPT !.at = "boosters", !.rep.counts = k]
    <3>1. k \in Counts /\ \A f \in DOMAIN NoCounts : k[f] <= Best(level[proc[p].user])[f]
        BY <1>4
    <3>2. proc' = [proc EXCEPT ![p] = P]
        BY <2>1
    <3> HIDE DEF k
    <3>3. /\ P \in Procs /\ P.at = "boosters" /\ P.user = proc[p].user /\ P.rep.counts = k
        BY <1>1, <3>1 DEF Procs, ProcSteps, Reps
    <3> HIDE DEF P
    <3>4. Sound(level, holding, P)
        BY <1>1, <3>1, <3>3 DEF Sound, AtLevel
    <3>5. BecomesOf(p, P)
        BY <1>1, <3>2, <3>3, <3>4 DEF BecomesOf
    <3> QED
        BY <3>5
  <2>2. CASE proc' = [proc EXCEPT ![p].at = "boosters", ![p].level = 0]
    <3> DEFINE P == [proc[p] EXCEPT !.at = "boosters", !.level = 0]
    <3>1. proc' = [proc EXCEPT ![p] = P]
        BY <2>2
    <3>2. /\ P \in Procs /\ P.at = "boosters" /\ P.user = proc[p].user /\ P.level = 0
      <4>1. 0 \in 0..Len(Levels)
        BY <1>3
      <4> QED
        BY <1>1, <4>1 DEF Procs, ProcSteps
    <3> HIDE DEF P
    <3>3. Sound(level, holding, P)
        BY <1>1, <3>2 DEF Sound, AtLevel
    <3>4. BecomesOf(p, P)
        BY <1>1, <3>1, <3>2, <3>3 DEF BecomesOf
    <3> QED
        BY <3>4
  <2> QED
    BY <2>1, <2>2 DEF ReadActivity
<1> QED
    BY <1>2, <1>5, StoresNothing, ComStoresNothing, LearnsNothing, MoveKeeps DEF StoresWell

LEMMA ReadBoostersKeeps ==
    ASSUME UpdaterConstants, ReputationInvariant, NEW p \in Users \cup ProfileRequests, ReadBoosters(p)
    PROVE  ReputationInvariant'
<1> DEFINE u == proc[p].user
           G == UserBoosters(u)
           k == IF proc[p].level = 0 THEN NoCounts ELSE proc[p].rep.counts
           t == TotalReputation(k, G)
           a == IF p \in ProfileRequests THEN "points" ELSE "commit"
           r == [proc[p].rep EXCEPT !.flags = G, !.total = t]
           P == [proc[p] EXCEPT !.at = a, !.level = 0, !.rep = r]
<1>1. u \in Users /\ proc[p].at = "boosters" /\ proc[p] \in Procs /\ p \in Processes
    BY AtStep DEF ReadBoosters, Sound
<1>2. OnlyProc /\ UNCHANGED <<level, holding, caches, reps, comReps, failures>>
    BY DEF ReadBoosters, OnlyProc, world
<1>3. proc' = [proc EXCEPT ![p] = P]
    BY DEF ReadBoosters
<1>4. a \in {"points", "commit"}
    OBVIOUS
<1>5. /\ Best(level[u]) \in Counts /\ Had(holding, u) \in SUBSET Boosters
      /\ G \subseteq Had(holding, u) /\ Len(Levels) \in Nat
    BY <1>1, HadIs, UserBoostersHad DEF ReputationInvariant
<1>6. k \in Counts /\ \A f \in DOMAIN NoCounts : k[f] <= Best(level[u])[f]
  <2>1. CASE proc[p].level = 0
    <3>1. k = NoCounts
        BY <2>1
    <3>2. \A f \in DOMAIN NoCounts : Best(level[u])[f] \in Nat
        BY <1>5 DEF Counts
    <3> QED
        BY <3>1, <3>2, CountsAre
  <2>2. CASE proc[p].level # 0
    <3>1. k = proc[p].rep.counts
        BY <2>2
    <3>2. \A f \in DOMAIN NoCounts : proc[p].rep.counts[f] <= Best(level[u])[f]
        BY <1>1, <2>2, AtStep DEF Sound
    <3> QED
        BY <1>1, <3>1, <3>2 DEF Procs, Reps
  <2> QED
    BY <2>1, <2>2
<1> HIDE DEF G, k
<1>7. t \in Nat /\ t <= TotalReputation(Best(level[u]), Had(holding, u))
  <2> DEFINE d == Best(level[u])
             F == Had(holding, u)
  <2>1. d \in Counts /\ F \in SUBSET Boosters /\ G \in SUBSET F
        /\ (\A f \in DOMAIN NoCounts : k[f] <= d[f]) /\ k \in Counts
    BY <1>5, <1>6
  <2> HIDE DEF d, F
  <2>2. TotalReputation(k, G) \in Nat /\ TotalReputation(k, G) <= TotalReputation(d, F)
    BY <2>1, WorthGrows
  <2> QED
    BY <2>2 DEF d, F
<1> HIDE DEF t, a
<1>8. /\ P \in Procs /\ P.at = a /\ P.user = u /\ P.level = 0
      /\ P.rep.flags = G /\ P.rep.total = t
  <2>1. r \in Reps /\ r.flags = G /\ r.total = t
    BY <1>1, <1>5, <1>7 DEF Procs, Reps
  <2> HIDE DEF r
  <2>2. 0 \in 0..Len(Levels) /\ a \in ProcSteps
    BY <1>4, <1>5 DEF ProcSteps
  <2> QED
    BY <1>1, <2>1, <2>2 DEF Procs
<1> HIDE DEF P
<1>9. Sound(level, holding, P)
    BY <1>1, <1>4, <1>5, <1>7, <1>8 DEF Sound, Earned
<1>10. P.at # "queued" /\ P.at # "total"
    BY <1>4, <1>8
<1>11. BecomesOf(p, P)
    BY <1>1, <1>3, <1>8, <1>9, <1>10 DEF BecomesOf
<1> QED
    BY <1>2, <1>11, StoresNothing, ComStoresNothing, LearnsNothing, MoveKeeps DEF StoresWell

LEMMA CommitKeeps ==
    ASSUME UpdaterConstants, ReputationInvariant, NEW p \in Users \cup ProfileRequests, Commit(p)
    PROVE  ReputationInvariant'
<1>1. /\ proc[p].user \in Users /\ proc[p].at = "commit" /\ p \in Processes
      /\ proc[p].rep \in Reps /\ Earned(level, holding, proc[p].user, proc[p].rep)
    BY AtStep DEF Commit, Sound, Procs
<1>2. \E P : BecomesOf(p, P)
    BY <1>1, DoneMoves DEF Commit
<1>3. OnlyProc /\ UNCHANGED <<level, holding, caches, comReps>> /\ (UNCHANGED failures \/ Failure)
    BY DEF Commit, OnlyProc, world
<1>4. reps' \in [Users -> Reps \cup {Nothing}] /\ StoredEarned'
  <2>1. CASE SetForUser(proc[p].user, proc[p].rep)
    BY <1>1, <1>3, <2>1, Stores DEF ReputationInvariant
  <2>2. CASE UNCHANGED reps
    BY <1>3, <2>2, StoresNothing
  <2> QED
    BY <2>1, <2>2 DEF Commit
<1> QED
    BY <1>2, <1>3, <1>4, ComStoresNothing, LearnsNothing, MoveKeeps DEF StoresWell

LEMMA UserReputationKeeps ==
    ASSUME UpdaterConstants, ReputationInvariant, NEW r \in ProfileRequests, NEW u \in Users, UserReputation(r, u)
    PROVE  ReputationInvariant'
<1> DEFINE P == [IdleProc EXCEPT !.at = "caches", !.user = u, !.level = level[u]]
<1>1. r \in Processes /\ r \notin Communities
    BY AtStep
<1>2. OnlyProc /\ UNCHANGED <<level, holding, caches, reps, comReps, failures>>
    BY DEF UserReputation, OnlyProc, world
<1>3. proc' = [proc EXCEPT ![r] = P]
    BY DEF UserReputation
<1>4. level[u] \in 1..Len(Levels) /\ level[u] \in 0..Len(Levels) /\ level[u] \in 1..level[u]
    BY HadIs DEF ReputationInvariant
<1>5. P \in Procs /\ P.at = "caches" /\ P.user = u /\ P.level = level[u]
    BY <1>4, BlankIs DEF IdleProc, Procs, ProcSteps
<1> HIDE DEF P
<1>6. Sound(level, holding, P)
    BY <1>4, <1>5 DEF Sound, AtLevel
<1>7. BecomesOf(r, P)
    BY <1>1, <1>3, <1>5, <1>6 DEF BecomesOf
<1> QED
    BY <1>2, <1>7, StoresNothing, ComStoresNothing, LearnsNothing, MoveKeeps DEF StoresWell

LEMMA EnsureCachedKeeps ==
    ASSUME UpdaterConstants, ReputationInvariant, NEW r \in ProfileRequests, EnsureCached(r)
    PROVE  ReputationInvariant'
<1>1. AtLevel(level, proc[r]) /\ proc[r].at = "caches" /\ r \in Processes
    BY AtStep DEF EnsureCached, Sound
<1>2. OnlyProc /\ UNCHANGED <<level, holding, reps, comReps>>
    BY DEF EnsureCached, OnlyProc, world
<1>3. LearnsWell
  <2>1. CASE Fetch
    BY <1>2, <2>1, FetchLearns
  <2>2. CASE UNCHANGED <<caches, failures>>
    BY <1>2, <2>2, LearnsNothing
  <2> QED
    BY <2>1, <2>2 DEF EnsureCached
<1>4. \E P : BecomesOf(r, P)
  <2>1. Go(r, "rep") /\ "rep" \in ProcSteps
    BY DEF EnsureCached, ProcSteps
  <2>2. PICK P \in Procs : /\ proc' = [proc EXCEPT ![r] = P] /\ P.at = "rep"
                           /\ P.user = proc[r].user /\ P.level = proc[r].level
    BY <1>1, <2>1, GoIs
  <2>3. Sound(level, holding, P)
    BY <1>1, <2>2 DEF Sound, AtLevel
  <2>4. BecomesOf(r, P)
    BY <1>1, <2>2, <2>3 DEF BecomesOf
  <2> QED
    BY <2>4
<1> QED
    BY <1>2, <1>3, <1>4, StoresNothing, ComStoresNothing, MoveKeeps DEF StoresWell

LEMMA ComputePointsKeeps ==
    ASSUME UpdaterConstants, ReputationInvariant, NEW r \in ProfileRequests, ComputePoints(r)
    PROVE  ReputationInvariant'
<1>1. /\ proc[r].user \in Users /\ proc[r].at = "points" /\ r \in Processes /\ proc[r] \in Procs
      /\ proc[r].rep \in Reps /\ Earned(level, holding, proc[r].user, proc[r].rep)
    BY AtStep DEF ComputePoints, Sound, Procs
<1>2. OnlyProc /\ UNCHANGED <<level, holding, caches, reps, comReps>> /\ (UNCHANGED failures \/ Failure)
    BY DEF ComputePoints, OnlyProc, world
<1>3. \E P : BecomesOf(r, P)
  <2>1. CASE Done(r)
    BY <1>1, <2>1, DoneMoves
  <2>2. CASE proc' = [proc EXCEPT ![r].at = "commit",
                                  ![r].rep.points = UserPoints(proc[r].user, proc[r].rep.total)]
    <3> DEFINE n == UserPoints(proc[r].user, proc[r].rep.total)
               k == [proc[r].rep EXCEPT !.points = n]
               P == [proc[r] EXCEPT !.at = "commit", !.rep = k]
    <3>1. n \in Nat
        BY <1>1, UserPointsAre DEF Reps, ReputationInvariant
    <3>2. proc' = [proc EXCEPT ![r] = P]
        BY <2>2
    <3> HIDE DEF n
    <3>3. k \in Reps /\ k.flags = proc[r].rep.flags /\ k.total = proc[r].rep.total
        BY <1>1, <3>1 DEF Reps
    <3> HIDE DEF k
    <3>4. P \in Procs /\ P.at = "commit" /\ P.user = proc[r].user /\ P.rep = k
        BY <1>1, <3>3 DEF Procs, ProcSteps
    <3> HIDE DEF P
    <3>5. Sound(level, holding, P)
        BY <1>1, <3>3, <3>4 DEF Sound, Earned
    <3>6. BecomesOf(r, P)
        BY <1>1, <3>2, <3>4, <3>5 DEF BecomesOf
    <3> QED
        BY <3>6
  <2> QED
    BY <2>1, <2>2 DEF ComputePoints
<1> QED
    BY <1>2, <1>3, StoresNothing, ComStoresNothing, LearnsNothing, MoveKeeps DEF StoresWell

\* The documents of communities.
LEMMA ComBlankIs ==
    ASSUME NEW m \in Nat, NEW n \in Sizes \cup {0}, NEW k \in Nat
    PROVE  /\ [BlankComRep EXCEPT !.participation = m, !.size = n] \in ComReps
           /\ [BlankComRep EXCEPT !.points = k] \in ComReps
    BY DEF BlankComRep, ComReps

LEMMA ComStores ==
    ASSUME UpdaterConstants, ReputationInvariant, NEW c \in Communities, NEW new \in ComReps,
           SetForCommunity(c, new)
    PROVE  /\ comReps' \in [Communities -> ComReps \cup {Nothing}]
           /\ \A d \in Communities : comReps[d] # Nothing => comReps'[d] # Nothing
<1> DEFINE old == IF comReps[c] = Nothing THEN BlankComRep ELSE comReps[c]
           P == [f \in DOMAIN BlankComRep |-> IfSet(old[f], new[f])]
<1>1. comReps' = [comReps EXCEPT ![c] = P] /\ comReps \in [Communities -> ComReps \cup {Nothing}]
    BY DEF SetForCommunity, ReputationInvariant, ReputationTypeOK
<1>2. old \in ComReps
    BY <1>1 DEF BlankComRep, ComReps
<1> HIDE DEF old
<1>3. P \in ComReps
  <2>1. DOMAIN BlankComRep = {"participation", "size", "points"}
    BY DEF BlankComRep
  <2> QED
    BY <1>2, <2>1 DEF ComReps, IfSet
<1> HIDE DEF P
<1>4. P # Nothing
  <2>1. Sizes \cup {0} \subseteq Nat /\ Nothing \notin [participation : Nat, size : Nat, points : Nat]
    BY DEF UpdaterConstants
  <2>2. P \in [participation : Nat, size : Nat, points : Nat]
    BY <1>3, <2>1 DEF ComReps
  <2> QED
    BY <2>1, <2>2, Zenon
<1> QED
    BY <1>1, <1>3, <1>4

LEMMA CommunityConstantsKeeps ==
    ASSUME UpdaterConstants, ReputationInvariant, NEW c \in Communities, CommunityConstants(c)
    PROVE  ReputationInvariant'
<1>1. c \in Processes /\ proc[c].at = "constants"
    BY DEF CommunityConstants, Processes
<1>2. OnlyProc /\ UNCHANGED <<level, holding, caches, reps>> /\ (UNCHANGED failures \/ Failure)
    BY DEF CommunityConstants, OnlyProc, world
<1>3. \E P : BecomesOf(c, P)
    BY <1>1, DoneMoves DEF CommunityConstants
<1>4. Participation(c) \in Nat /\ size[c] \in Sizes
  <2>1. Owner[c] \in Users /\ size[c] \in Sizes
    BY DEF UpdaterConstants, ReputationInvariant, ReputationTypeOK
  <2>2. level[Owner[c]] \in 1..Len(Levels)
    BY <2>1, HadIs DEF ReputationInvariant
  <2>3. \A i \in 1..Len(Levels) : Levels[i].participation \in Nat
    BY DEF UpdaterConstants
  <2> QED
    BY <2>1, <2>2, <2>3 DEF Participation
<1>5. /\ comReps' \in [Communities -> ComReps \cup {Nothing}]
      /\ \A d \in Communities : comReps[d] # Nothing => comReps'[d] # Nothing
  <2>1. CASE SetForCommunity(c, [BlankComRep EXCEPT !.participation = Participation(c), !.size = size[c]])
    <3>1. [BlankComRep EXCEPT !.participation = Participation(c), !.size = size[c]] \in ComReps
        BY <1>4, ComBlankIs
    <3> QED
        BY <2>1, <3>1, ComStores
  <2>2. CASE UNCHANGED comReps
    BY <2>2, ComStoresNothing
  <2> QED
    BY <2>1, <2>2 DEF CommunityConstants
<1> QED
    BY <1>2, <1>3, <1>5, StoresNothing, LearnsNothing, MoveKeeps DEF StoresWell

LEMMA CommunityPointsKeeps ==
    ASSUME UpdaterConstants, ReputationInvariant, NEW c \in Communities, CommunityPoints(c)
    PROVE  ReputationInvariant'
<1>1. c \in Processes /\ proc[c].at = "total"
    BY DEF CommunityPoints, Processes
<1>2. OnlyProc /\ UNCHANGED <<level, holding, caches, reps, failures>>
    BY DEF CommunityPoints, OnlyProc, world
<1>3. \E P : BecomesOf(c, P)
    BY <1>1, DoneMoves DEF CommunityPoints
<1>4. /\ comReps' \in [Communities -> ComReps \cup {Nothing}]
      /\ \A d \in Communities : comReps[d] # Nothing => comReps'[d] # Nothing
  <2>1. CASE reps[Owner[c]] = Nothing
    <3>1. UNCHANGED comReps
        BY <2>1 DEF CommunityPoints
    <3> QED
        BY <3>1, ComStoresNothing
  <2>2. CASE reps[Owner[c]] # Nothing
    <3> DEFINE n == CommunityTotalPoints(CensusType[c], 10, comReps[c].participation,
                                         comReps[c].size, reps[Owner[c]].total)
    <3>1. Owner[c] \in Users
        BY DEF UpdaterConstants
    <3>2. reps[Owner[c]].total \in Nat
        BY <2>2, <3>1 DEF ReputationInvariant, ReputationTypeOK, Reps
    <3>3. comReps[c] \in ComReps
        BY <1>1 DEF ReputationInvariant, ReputationTypeOK, LoopSound
    <3>4. n \in Nat
        BY <3>2, <3>3, PointsAre
    <3>5. SetForCommunity(c, [BlankComRep EXCEPT !.points = n])
        BY <2>2 DEF CommunityPoints
    <3> HIDE DEF n
    <3>6. [BlankComRep EXCEPT !.points = n] \in ComReps
        BY <3>4, ComBlankIs
    <3> QED
        BY <3>5, <3>6, ComStores
  <2> QED
    BY <2>1, <2>2
<1> QED
    BY <1>2, <1>3, <1>4, StoresNothing, LearnsNothing, MoveKeeps DEF StoresWell

LEMMA UpdateTotalKeeps ==
    ASSUME UpdaterConstants, ReputationInvariant, NEW u \in Users, UpdateTotal(u)
    PROVE  ReputationInvariant'
<1>1. u \in Processes /\ proc[u].at = "total" /\ proc[u] \in Procs
    BY AtStep DEF UpdateTotal
<1>2. OnlyProc /\ UNCHANGED <<level, holding, caches, comReps>> /\ (UNCHANGED failures \/ Failure)
    BY DEF UpdateTotal, OnlyProc, world
<1>3. \E P : BecomesOf(u, P)
    BY <1>1, DoneMoves DEF UpdateTotal
<1>4. reps' \in [Users -> Reps \cup {Nothing}] /\ StoredEarned'
  <2>1. CASE UNCHANGED reps
    BY <1>2, <2>1, StoresNothing
  <2>2. CASE SetForUser(u, [BlankRep EXCEPT !.points = UserPoints(u, proc[u].rep.total)])
    <3> DEFINE n == UserPoints(u, proc[u].rep.total)
               new == [BlankRep EXCEPT !.points = n]
    <3>1. n \in Nat
        BY <1>1, UserPointsAre DEF Procs, Reps, ReputationInvariant
    <3>2. SetForUser(u, new)
        BY <2>2
    <3> HIDE DEF n
    <3>3. new \in Reps /\ new.flags = {} /\ new.total = 0
        BY <3>1, BlankIs DEF Reps
    <3> HIDE DEF new
    <3>4. Earned(level, holding, u, new)
        BY <3>3, BlankEarned DEF ReputationInvariant
    <3> QED
        BY <1>2, <3>2, <3>3, <3>4, Stores DEF ReputationInvariant
  <2> QED
    BY <2>1, <2>2 DEF UpdateTotal
<1> QED
    BY <1>2, <1>3, <1>4, ComStoresNothing, LearnsNothing, MoveKeeps DEF StoresWell

\* The loop goes on to a phase.  N is what becomes of the processes.
LEMMA PhaseKeeps ==
    ASSUME UpdaterConstants, ReputationInvariant, UNCHANGED <<reps, comReps>>, OnlyLoop, LearnsWell,
           NEW N \in [Processes -> Procs], proc' = N, NEW phase \in Phases, loop' = phase,
           \A p \in ProfileRequests : N[p] = proc[p],
           \A i \in Items : N[i].at = "idle" \/ (N[i].at = "queued" /\ phase \in {"users", "totals", "rounded"}),
           \A u \in Users : (N[u].at = "queued" /\ phase = "totals") => AtLevel(level, N[u]),
           \A c \in Communities : (N[c].at = "queued" /\ phase = "rounded") => comReps[c] # Nothing
    PROVE  ReputationInvariant'
<1>1. /\ level' = level /\ holding' = holding /\ size' = size /\ changes' = changes /\ stopped' = stopped
      /\ reps' = reps /\ comReps' = comReps
    BY DEF OnlyLoop, world
<1>2. ReputationTypeOK'
    BY <1>1 DEF ReputationInvariant, ReputationTypeOK, LearnsWell
<1>3. StoredEarned'
    BY <1>1 DEF ReputationInvariant, StoredEarned
<1>4. ProcsSound'
  <2> SUFFICES ASSUME NEW q \in Users \cup ProfileRequests PROVE Sound(level, holding, N[q])
    BY <1>1 DEF ProcsSound
  <2>1. CASE q \in ProfileRequests
    BY <2>1 DEF ReputationInvariant, ProcsSound
  <2>2. CASE q \in Users
    <3>1. N[q].at \in {"idle", "queued"}
        BY <2>2 DEF Items
    <3> QED
        BY <3>1 DEF Sound
  <2> QED
    BY <2>1, <2>2
<1>5. LoopSound'
  <2>1. phase \in {"sleep", "communities", "ended"} => AllIdle'
    BY DEF AllIdle
  <2>2. \A c \in Communities : N[c].at # "total"
    BY DEF Items
  <2> QED
    BY <1>1, <2>1, <2>2 DEF LoopSound
<1> QED
    BY <1>2, <1>3, <1>4, <1>5 DEF ReputationInvariant, LearnsWell

LEMMA NoneQueued ==
    ASSUME UpdaterConstants, ReputationInvariant
    PROVE  /\ proc \in [Processes -> Procs]
           /\ AllIdle => \A i \in Items : proc[i].at = "idle"
           /\ Items \subseteq Processes /\ ProfileRequests \subseteq Processes /\ Items \cap ProfileRequests = {}
           /\ Users \subseteq Items /\ Communities \subseteq Items
    BY DEF ReputationInvariant, ReputationTypeOK, AllIdle, Items, Processes, UpdaterConstants

LEMMA RoundStepKeeps ==
    ASSUME UpdaterConstants, ReputationInvariant, LoopEnds \/ StartRound \/ EndRound
    PROVE  ReputationInvariant'
<1>1. /\ OnlyLoop /\ UNCHANGED <<level, holding, reps, comReps, proc>> /\ AllIdle
      /\ loop' \in {"ended", "communities", "sleep"}
    BY DEF LoopEnds, StartRound, EndRound, OnlyLoop, world, ReputationInvariant, LoopSound
<1>2. LearnsWell
  <2>1. CASE LoopEnds \/ EndRound
    <3>1. UNCHANGED <<holding, caches, failures>>
        BY <1>1, <2>1 DEF LoopEnds, EndRound
    <3> QED
        BY <3>1, LearnsNothing
  <2>2. CASE StartRound
    <3>1. Fetch /\ UNCHANGED holding
        BY <1>1, <2>2 DEF StartRound
    <3> QED
        BY <3>1, FetchLearns
  <2> QED
    BY <2>1, <2>2
<1>3. loop' \in Phases /\ \A i \in Items : proc[i].at = "idle"
    BY <1>1, NoneQueued DEF Phases
<1>4. /\ \A u \in Users : proc[u].at # "queued"
      /\ \A c \in Communities : proc[c].at # "queued"
    BY <1>3 DEF Items
<1> QED
    BY <1>1, <1>2, <1>3, <1>4, NoneQueued, PhaseKeeps

LEMMA UpdateCommunitiesConstantsKeeps ==
    ASSUME UpdaterConstants, ReputationInvariant, UpdateCommunitiesConstants
    PROVE  ReputationInvariant'
<1> DEFINE N == [p \in DOMAIN proc |-> IF p \in Communities THEN [IdleProc EXCEPT !.at = "queued"] ELSE proc[p]]
           Q == [IdleProc EXCEPT !.at = "queued"]
<1>1. /\ AllIdle /\ loop' = "users" /\ OnlyLoop /\ UNCHANGED <<level, holding, caches, reps, comReps>>
      /\ UNCHANGED failures \/ Failure
      /\ proc' = N \/ proc' = proc
    BY DEF UpdateCommunitiesConstants, Queue, OnlyLoop, world
<1>2. Q \in Procs /\ Q.at = "queued"
    BY IdleProcIs DEF ProcSteps
<1>3. /\ DOMAIN proc = Processes
      /\ \A p \in Processes : N[p] = IF p \in Communities THEN Q ELSE proc[p]
    BY NoneQueued
<1>4. N \in [Processes -> Procs]
  <2> HIDE DEF Q
  <2> QED
    BY <1>2, <1>3, NoneQueued
<1> HIDE DEF N, Q
<1>5. proc' \in [Processes -> Procs]
    BY <1>1, <1>4, NoneQueued
<1>6. \A p \in ProfileRequests : proc'[p] = proc[p]
    BY <1>1, <1>3, NoneQueued
<1>7. \A i \in Items : proc'[i].at = "idle" \/ proc'[i].at = "queued"
    BY <1>1, <1>2, <1>3, NoneQueued
<1>8. LearnsWell
    BY <1>1, LearnsNothing
<1>9. "users" \in Phases /\ "users" # "totals" /\ "users" # "rounded"
    BY DEF Phases
<1> QED
    BY <1>1, <1>5, <1>6, <1>7, <1>8, <1>9, PhaseKeeps

LEMMA UpdateUsersConstantsKeeps ==
    ASSUME UpdaterConstants, ReputationInvariant, UpdateUsersConstants
    PROVE  ReputationInvariant'
<1> DEFINE Q(u) == [IdleProc EXCEPT !.at = "queued", !.user = u, !.level = level[u]]
           N == [p \in DOMAIN proc |-> IF p \in ReputableUsers THEN Q(p) ELSE proc[p]]
<1>1. /\ AllIdle /\ loop' = "totals" /\ OnlyLoop /\ UNCHANGED <<level, holding, caches, reps, comReps>>
      /\ UNCHANGED failures \/ Failure
      /\ proc' = N \/ proc' = proc
    BY DEF UpdateUsersConstants, Queue, OnlyLoop, world
<1>2. ASSUME NEW u \in ReputableUsers
      PROVE  u \in Users /\ Q(u) \in Procs /\ Q(u).at = "queued" /\ AtLevel(level, Q(u))
  <2>1. u \in Users
    BY DEF ReputableUsers
  <2>2. level[u] \in 0..Len(Levels) /\ level[u] \in 1..level[u]
    BY <2>1, HadIs DEF ReputationInvariant
  <2>3. Q(u) \in Procs /\ Q(u).at = "queued" /\ Q(u).user = u /\ Q(u).level = level[u]
    BY <2>1, <2>2, BlankIs DEF IdleProc, Procs, ProcSteps
  <2> QED
    BY <2>1, <2>2, <2>3 DEF AtLevel
<1>3. /\ DOMAIN proc = Processes /\ N = [p \in Processes |-> N[p]]
      /\ \A p \in Processes : N[p] = IF p \in ReputableUsers THEN Q(p) ELSE proc[p]
    BY NoneQueued
<1> HIDE DEF N
<1> HIDE DEF Q
<1>4. N \in [Processes -> Procs]
    BY <1>2, <1>3, NoneQueued
<1>5. proc' \in [Processes -> Procs]
    BY <1>1, <1>4, NoneQueued
<1>6. \A p \in ProfileRequests : proc'[p] = proc[p]
    BY <1>1, <1>2, <1>3, NoneQueued
<1>7. /\ \A i \in Items : proc'[i].at = "idle" \/ proc'[i].at = "queued"
      /\ \A u \in Users : proc'[u].at = "queued" => AtLevel(level, proc'[u])
  <2>1. \A i \in Items : proc[i].at = "idle" /\ i \in Processes
    BY <1>1, NoneQueued
  <2>2. \A u \in Users : u \in Items
    BY NoneQueued
  <2>3. CASE proc' = N
    BY <1>2, <1>3, <2>1, <2>2, <2>3
  <2>4. CASE proc' = proc
    BY <2>1, <2>2, <2>4
  <2> QED
    BY <1>1, <2>3, <2>4
<1>8. LearnsWell
    BY <1>1, LearnsNothing
<1>9. "totals" \in Phases /\ "totals" # "rounded"
    BY DEF Phases
<1> QED
    BY <1>1, <1>5, <1>6, <1>7, <1>8, <1>9, PhaseKeeps

LEMMA UpdateTotalReputationsKeeps ==
    ASSUME UpdaterConstants, ReputationInvariant, UpdateTotalReputations
    PROVE  ReputationInvariant'
<1> DEFINE Q(i) == IF i \in Users THEN [IdleProc EXCEPT !.at = "queued", !.rep.total = reps[i].total]
                   ELSE [IdleProc EXCEPT !.at = "queued"]
           N == [p \in DOMAIN proc |-> IF p \in Reputations THEN Q(p) ELSE proc[p]]
<1>1. /\ AllIdle /\ loop' = "rounded" /\ OnlyLoop /\ UNCHANGED <<level, holding, caches, reps, comReps>>
      /\ UNCHANGED failures \/ Failure
      /\ proc' = N \/ proc' = proc
    BY DEF UpdateTotalReputations, Queue, OnlyLoop, world
<1>2. ASSUME NEW i \in Reputations
      PROVE  /\ i \in Items /\ Q(i) \in Procs /\ Q(i).at = "queued"
             /\ i \in Communities => comReps[i] # Nothing
  <2>1. i \in Items /\ (i \in Communities => comReps[i] # Nothing)
    BY DEF Reputations, Items, UpdaterConstants
  <2>2. CASE i \in Users
    <3> DEFINE t == reps[i].total
               r == [BlankRep EXCEPT !.total = t]
    <3>1. t \in Nat
      <4>1. reps[i] # Nothing
        BY <2>2 DEF Reputations, UpdaterConstants
      <4> QED
        BY <2>2, <4>1 DEF ReputationInvariant, ReputationTypeOK, Reps
    <3>2. Q(i) = [IdleProc EXCEPT !.at = "queued", !.rep = r]
        BY <2>2 DEF IdleProc
    <3> HIDE DEF t
    <3>3. r \in Reps
        BY <3>1, BlankIs DEF Reps
    <3> HIDE DEF r
    <3>4. 0 \in 0..Len(Levels)
        BY DEF UpdaterConstants
    <3>5. Q(i) \in Procs /\ Q(i).at = "queued"
      <4>1. /\ [IdleProc EXCEPT !.at = "queued", !.rep = r] \in Procs
            /\ [IdleProc EXCEPT !.at = "queued", !.rep = r].at = "queued"
        BY <3>3, <3>4 DEF IdleProc, Procs, ProcSteps
      <4> QED
        BY <3>2, <4>1
    <3> QED
        BY <2>1, <3>5
  <2>3. CASE i \notin Users
    BY <2>1, <2>3, IdleProcIs DEF ProcSteps
  <2> QED
    BY <2>2, <2>3
<1>3. /\ DOMAIN proc = Processes /\ N = [p \in Processes |-> N[p]]
      /\ \A p \in Processes : N[p] = IF p \in Reputations THEN Q(p) ELSE proc[p]
    BY NoneQueued
<1> HIDE DEF N
<1> HIDE DEF Q
<1>4. N \in [Processes -> Procs]
    BY <1>2, <1>3, NoneQueued
<1>5. proc' \in [Processes -> Procs]
    BY <1>1, <1>4, NoneQueued
<1>6. \A p \in ProfileRequests : proc'[p] = proc[p]
    BY <1>1, <1>2, <1>3, NoneQueued
<1>7. /\ \A i \in Items : proc'[i].at = "idle" \/ proc'[i].at = "queued"
      /\ \A c \in Communities : proc'[c].at = "queued" => comReps[c] # Nothing
  <2>1. \A i \in Items : proc[i].at = "idle" /\ i \in Processes
    BY <1>1, NoneQueued
  <2>2. \A c \in Communities : c \in Items
    BY NoneQueued
  <2>3. CASE proc' = N
    BY <1>2, <1>3, <2>1, <2>2, <2>3
  <2>4. CASE proc' = proc
    BY <2>1, <2>2, <2>4
  <2> QED
    BY <1>1, <2>3, <2>4
<1>8. LearnsWell
    BY <1>1, LearnsNothing
<1>9. "rounded" \in Phases /\ "totals" # "rounded"
    BY DEF Phases
<1> QED
    BY <1>1, <1>5, <1>6, <1>7, <1>8, <1>9, PhaseKeeps

LEMMA SpawnKeeps ==
    ASSUME UpdaterConstants, ReputationInvariant, NEW i \in Items, Spawn(i)
    PROVE  ReputationInvariant'
<1> DEFINE a == CASE loop = "users" -> "constants" [] loop = "totals" -> "rep" [] loop = "rounded" -> "total"
<1>1. proc[i].at = "queued" /\ i \in Processes /\ Go(i, a)
    BY NoneQueued DEF Spawn
<1>2. OnlyProc /\ UNCHANGED <<level, holding, caches, reps, comReps, failures>>
    BY DEF Spawn, OnlyProc, world
<1>3. loop \in {"users", "totals", "rounded"}
    BY <1>1 DEF ReputationInvariant, ReputationTypeOK, Phases, LoopSound, AllIdle
<1>4. /\ a \in {"constants", "rep", "total"}
      /\ a = "rep" => loop = "totals"
      /\ a = "total" => loop = "rounded"
    BY <1>3
<1> HIDE DEF a
<1>5. a \in ProcSteps
    BY <1>4 DEF ProcSteps
<1>6. PICK P \in Procs : /\ proc' = [proc EXCEPT ![i] = P] /\ P.at = a
                         /\ P.user = proc[i].user /\ P.level = proc[i].level
    BY <1>1, <1>5, GoIs
<1>7. i \in Users \cup ProfileRequests => i \in Users
    BY DEF Items, UpdaterConstants
<1>8. ASSUME i \in Users, a = "rep" PROVE AtLevel(level, P)
  <2>1. AtLevel(level, proc[i])
    BY <1>1, <1>4, <1>8 DEF ReputationInvariant, LoopSound
  <2> QED
    BY <1>6, <2>1 DEF AtLevel
<1>9. i \in Users => Sound(level, holding, P)
    BY <1>4, <1>6, <1>8 DEF Sound
<1>10. (i \in Communities /\ a = "total") => comReps[i] # Nothing
    BY <1>1, <1>4 DEF ReputationInvariant, LoopSound
<1>11. BecomesOf(i, P)
    BY <1>1, <1>4, <1>6, <1>7, <1>9, <1>10 DEF BecomesOf
<1> QED
    BY <1>2, <1>11, StoresNothing, ComStoresNothing, LearnsNothing, MoveKeeps DEF StoresWell

LEMMA SameKeeps ==
    ASSUME ReputationInvariant,
           UNCHANGED <<world, caches, reps, comReps, loop, proc, failures>>, stopped' \in BOOLEAN
    PROVE  ReputationInvariant'
<1>1. /\ level' = level /\ holding' = holding /\ size' = size /\ changes' = changes
      /\ followers' = followers /\ holders' = holders /\ cached' = cached /\ reps' = reps
      /\ comReps' = comReps /\ loop' = loop /\ proc' = proc /\ failures' = failures
    BY DEF world, caches
<1>2. ReputationTypeOK'
    BY <1>1 DEF ReputationInvariant, ReputationTypeOK
<1> QED
    BY <1>1, <1>2 DEF ReputationInvariant, Known, StoredEarned, ProcsSound, LoopSound, AllIdle

-----------------------------------------------------------------------------
(* The theorems.                                                           *)

LEMMA ReputationInitially == ASSUME UpdaterConstants, ReputationInit PROVE ReputationInvariant
<1>1. IdleProc \in Procs /\ IdleProc.at = "idle"
  <2>1. 0 \in 0..Len(Levels)
    BY DEF UpdaterConstants
  <2> QED
    BY <2>1, BlankIs DEF IdleProc, Procs, ProcSteps
<1>2. /\ proc \in [Processes -> Procs]
      /\ \A p \in Processes : proc[p].at = "idle"
    BY <1>1 DEF ReputationInit, Processes
<1>3. level \in [Users -> 1..Len(Levels)]
  <2>1. 1 \in 1..Len(Levels)
    BY DEF UpdaterConstants
  <2> QED
    BY <2>1 DEF ReputationInit
<1>4. size \in [Communities -> Sizes]
    BY LeastSize DEF ReputationInit
<1>5. ReputationTypeOK
    BY <1>2, <1>3, <1>4 DEF ReputationInit, ReputationTypeOK, Phases
<1>6. Known /\ StoredEarned
    BY DEF ReputationInit, Known, StoredEarned
<1>7. ProcsSound
    BY <1>2 DEF ProcsSound, Sound, Processes
<1>8. LoopSound
    BY <1>2 DEF LoopSound, AllIdle, Items, Processes, ReputationInit
<1> QED
    BY <1>5, <1>6, <1>7, <1>8 DEF ReputationInvariant

LEMMA ReputationKept ==
    ASSUME UpdaterConstants, ReputationInvariant, [ReputationNext]_reputationVars PROVE ReputationInvariant'
<1>1. ASSUME NEW u \in Users, Act(u) \/ (\E b \in Gains : Gain(u, b) \/ Lose(u, b))
      PROVE  ReputationInvariant'
    BY <1>1, ActKeeps, HoldingKeeps
<1>2. ASSUME NEW c \in Communities, NEW n \in Sizes, Resize(c, n) PROVE ReputationInvariant'
    BY <1>2, ResizeKeeps
<1>3. ASSUME NEW r \in ProfileRequests, NEW u \in Users, UserReputation(r, u) PROVE ReputationInvariant'
    BY <1>3, UserReputationKeeps
<1>4. ASSUME NEW r \in ProfileRequests, ServeProfile(r) PROVE ReputationInvariant'
    BY <1>4, EnsureCachedKeeps, ComputePointsKeeps DEF ServeProfile
<1>5. ASSUME NEW p \in Users \cup ProfileRequests, Compute(p) PROVE ReputationInvariant'
    BY <1>5, ReadReputationKeeps, SetBlankKeeps, ReadActivityKeeps, ReadBoostersKeeps, CommitKeeps
       DEF Compute
<1>6. ASSUME NEW c \in Communities, CommunityConstants(c) \/ CommunityPoints(c) PROVE ReputationInvariant'
    BY <1>6, CommunityConstantsKeeps, CommunityPointsKeeps
<1>7. ASSUME NEW u \in Users, UpdateTotal(u) PROVE ReputationInvariant'
    BY <1>7, UpdateTotalKeeps
<1>8. ASSUME NEW i \in Items, Spawn(i) PROVE ReputationInvariant'
    BY <1>8, SpawnKeeps
<1>9. ASSUME Round PROVE ReputationInvariant'
    BY <1>9, RoundStepKeeps, UpdateCommunitiesConstantsKeeps, UpdateUsersConstantsKeeps,
       UpdateTotalReputationsKeeps DEF Round
<1>10. ASSUME Stop PROVE ReputationInvariant'
    BY <1>10, SameKeeps DEF Stop
<1>11. ASSUME UNCHANGED reputationVars PROVE ReputationInvariant'
  <2>1. UNCHANGED <<world, caches, reps, comReps, loop, proc, failures>> /\ stopped' \in BOOLEAN
    BY <1>11 DEF reputationVars, world, caches, ReputationInvariant, ReputationTypeOK
  <2> QED
    BY <2>1, SameKeeps
<1> QED
    BY <1>1, <1>2, <1>3, <1>4, <1>5, <1>6, <1>7, <1>8, <1>9, <1>10, <1>11 DEF ReputationNext

\* However the rounds of the updater, its goroutines, the requests for profiles and
\* the failing services interleave, documents and processes hold reputations that were
\* earned, and nothing waits for a slot between two rounds (src/reputation).
THEOREM ReputationInvariantAlways == ReputationSpec => []ReputationInvariant
<1> USE UpdaterAssumption
<1>1. ReputationInit => ReputationInvariant
    BY ReputationInitially
<1>2. ReputationInvariant /\ [ReputationNext]_reputationVars => ReputationInvariant'
    BY ReputationKept
<1> QED
    BY <1>1, <1>2, PTL DEF ReputationSpec

\* No stored reputation exceeds what the user's activity at its best and the boosters
\* the user has ever had are worth, nor 100 (updateUserContants, UserReputation).
THEOREM ReputationEarnedAlways == ReputationSpec => []ReputationEarned
<1> USE UpdaterAssumption
<1>1. ReputationInvariant => ReputationEarned
  <2> SUFFICES ASSUME ReputationInvariant, NEW u \in Users, reps[u] # Nothing
               PROVE  /\ reps[u].total <= TotalReputation(Best(level[u]), Ever(u))
                      /\ reps[u].total <= 100 /\ reps[u].flags \subseteq Ever(u)
    BY DEF ReputationEarned
  <2> DEFINE w == TotalReputation(Best(level[u]), Had(holding, u))
  <2>1. Ever(u) = Had(holding, u)
    BY DEF Ever, Had
  <2>2. w \in Nat /\ w <= 100
    BY HadIs DEF ReputationInvariant
  <2>3. /\ reps[u].total \in Nat /\ reps[u].total <= w
        /\ reps[u].flags \subseteq Had(holding, u)
    BY DEF ReputationInvariant, ReputationTypeOK, Reps, StoredEarned, Earned
  <2> HIDE DEF w
  <2>4. reps[u].total <= 100
    BY <2>2, <2>3
  <2> QED
    BY <2>1, <2>3, <2>4 DEF w
<1> QED
    BY <1>1, ReputationInvariantAlways, PTL

-----------------------------------------------------------------------------
(* Where votes pass.                                                       *)

\* Delegations as the solver gets them: finitely many, between users.
Chains(ds) == IsFiniteSet(ds) /\ \A d \in ds : d.from \in Users /\ d.to \in Users

LEMMA ReachesSelf == ASSUME NEW ds, NEW u \in Users PROVE u \in Reachable(ds, u)
    BY DEF Reachable

LEMMA ReachesOn ==
    ASSUME NEW ds, NEW u, NEW d \in ds, d.from \in Reachable(ds, u), d.to \in Users
    PROVE  d.to \in Reachable(ds, u)
    BY DEF Reachable

LEMMA ReachesOnly ==
    ASSUME NEW ds, NEW u, NEW S \in SUBSET Users, u \in S, \A d \in ds : d.from \in S => d.to \in S
    PROVE  Reachable(ds, u) \subseteq S
    BY DEF Reachable

LEMMA ReachesUsers == ASSUME NEW ds, NEW u PROVE Reachable(ds, u) \in SUBSET Users
    BY DEF Reachable

LEMMA ReachesThrough ==
    ASSUME NEW ds, Chains(ds), NEW u, NEW v \in Reachable(ds, u)
    PROVE  Reachable(ds, v) \subseteq Reachable(ds, u)
<1>1. \A d \in ds : d.from \in Reachable(ds, u) => d.to \in Reachable(ds, u)
    BY ReachesOn DEF Chains
<1> QED
    BY <1>1, ReachesUsers, ReachesOnly

\* A vote that is delegated passes through the user, and on from the delegates.
LEMMA ReachesStep ==
    ASSUME NEW ds, Chains(ds), NEW u \in Users
    PROVE  Reachable(ds, u) = {u} \cup UNION {Reachable(ds, d.to) : d \in From(ds, u)}
<1> DEFINE S == {u} \cup UNION {Reachable(ds, d.to) : d \in From(ds, u)}
<1>1. S \in SUBSET Users
    BY ReachesUsers
<1>2. ASSUME NEW d \in ds, d.from \in S PROVE d.to \in S
  <2>1. d.to \in Users
    BY DEF Chains
  <2>2. CASE d.from = u
    BY <2>1, <2>2, ReachesSelf DEF From
  <2>3. CASE d.from # u
    <3>1. PICK e \in From(ds, u) : d.from \in Reachable(ds, e.to)
        BY <1>2, <2>3
    <3>2. d.to \in Reachable(ds, e.to)
        BY <2>1, <3>1, ReachesOn
    <3> QED
        BY <3>1, <3>2
  <2> QED
    BY <2>2, <2>3
<1>3. Reachable(ds, u) \subseteq S
    BY <1>1, <1>2, ReachesOnly
<1>4. S \subseteq Reachable(ds, u)
  <2>1. ASSUME NEW d \in From(ds, u) PROVE Reachable(ds, d.to) \subseteq Reachable(ds, u)
    <3>1. d \in ds /\ d.from = u /\ d.to \in Users
        BY DEF From, Chains
    <3>2. d.to \in Reachable(ds, u)
        BY <3>1, ReachesSelf, ReachesOn
    <3> QED
        BY <3>2, ReachesThrough
  <2> QED
    BY <2>1, ReachesSelf
<1> QED
    BY <1>3, <1>4

\* The delegations ahead of a user, and how many they are.
Ahead(ds, u) == {d \in ds : d.from \in Reachable(ds, u)}
Rank(ds, u) == Cardinality(Ahead(ds, u))

LEMMA RankIs ==
    ASSUME NEW ds, Chains(ds), NEW u
    PROVE  Rank(ds, u) \in Nat /\ Rank(ds, u) <= Cardinality(ds) /\ Cardinality(ds) \in Nat
<1>1. Ahead(ds, u) \in SUBSET ds
    BY DEF Ahead
<1> QED
    BY <1>1, FS_Subset, FS_CardinalityType DEF Chains, Rank

\* Fewer are ahead of a delegate, unless there is a circle.
LEMMA RankFalls ==
    ASSUME NEW ds, Chains(ds), ~Circular(ds), NEW u \in Users, NEW e \in From(ds, u)
    PROVE  e \in ds /\ e.from = u /\ e.to \in Users /\ Rank(ds, e.to) < Rank(ds, u)
<1>1. e \in ds /\ e.from = u /\ e.to \in Users
    BY DEF From, Chains
<1>2. e \in Ahead(ds, u)
    BY <1>1, ReachesSelf DEF Ahead
<1>3. e \notin Ahead(ds, e.to)
    BY <1>1 DEF Ahead, Circular
<1>4. Ahead(ds, e.to) \subseteq Ahead(ds, u)
  <2>1. e.to \in Reachable(ds, u)
    BY <1>1, ReachesSelf, ReachesOn
  <2> QED
    BY <2>1, ReachesThrough DEF Ahead
<1>5. IsFiniteSet(Ahead(ds, u)) /\ IsFiniteSet(Ahead(ds, u) \ {e})
    BY FS_Subset DEF Chains, Ahead
<1>6. Ahead(ds, e.to) \subseteq Ahead(ds, u) \ {e}
    BY <1>3, <1>4
<1>7. /\ Cardinality(Ahead(ds, u) \ {e}) = Cardinality(Ahead(ds, u)) - 1
      /\ Cardinality(Ahead(ds, u)) \in Nat
    BY <1>2, <1>5, FS_RemoveElement, FS_CardinalityType
<1>8. /\ Cardinality(Ahead(ds, e.to)) \in Nat
      /\ Cardinality(Ahead(ds, e.to)) <= Cardinality(Ahead(ds, u) \ {e})
    BY <1>5, <1>6, FS_Subset, FS_CardinalityType
<1> QED
    BY <1>1, <1>7, <1>8 DEF Rank

-----------------------------------------------------------------------------
(* The solver.                                                             *)

\* What becomes of one delegation, when g solves sets of them.
Part(ds, g, d) ==
    IF From(ds, d.to) = {} THEN {Alone(d)} ELSE {Along(d, n) : n \in g[From(ds, d.to)]}
Solves(ds, W, g) == g = [fs \in W |-> UNION {Part(ds, g, d) : d \in fs}]
\* The delegations with fewer than n ahead of them.
Near(ds, n) == {fs \in SUBSET ds : \A d \in fs : Rank(ds, d.to) < n}

LEMMA NearIs ==
    ASSUME NEW ds, Chains(ds), ~Circular(ds), NEW n \in Nat, NEW fs \in Near(ds, n + 1), NEW d \in fs
    PROVE  From(ds, d.to) \in Near(ds, n)
<1>1. d \in ds /\ Rank(ds, d.to) < n + 1 /\ d.to \in Users
    BY DEF Near, Chains
<1>2. \A e \in From(ds, d.to) : Rank(ds, e.to) < n
  <2> SUFFICES ASSUME NEW e \in From(ds, d.to) PROVE Rank(ds, e.to) < n
    OBVIOUS
  <2>1. Rank(ds, e.to) < Rank(ds, d.to) /\ Rank(ds, e.to) \in Nat /\ Rank(ds, d.to) \in Nat
    BY <1>1, RankFalls, RankIs
  <2> QED
    BY <1>1, <2>1
<1>3. From(ds, d.to) \in SUBSET ds
    BY DEF From
<1> QED
    BY <1>2, <1>3 DEF Near

LEMMA SolvesNear ==
    ASSUME NEW ds, Chains(ds), ~Circular(ds), NEW n \in Nat
    PROVE  \E g : Solves(ds, Near(ds, n), g)
<1> DEFINE Good == {m \in Nat : \E g : Solves(ds, Near(ds, m), g)}
<1>1. 0 \in Good
  <2> DEFINE g == [fs \in Near(ds, 0) |-> {}]
  <2>1. ASSUME NEW fs \in Near(ds, 0) PROVE UNION {Part(ds, g, d) : d \in fs} = {}
    <3>1. \A d \in fs : Rank(ds, d.to) < 0 /\ Rank(ds, d.to) \in Nat
        BY RankIs DEF Near
    <3>2. fs = {}
        BY <3>1
    <3> QED
        BY <3>2
  <2>2. g = [fs \in Near(ds, 0) |-> UNION {Part(ds, g, d) : d \in fs}]
    BY <2>1
  <2> HIDE DEF g
  <2>3. Solves(ds, Near(ds, 0), g)
    BY <2>2 DEF Solves
  <2> QED
    BY <2>3
<1>2. ASSUME NEW m \in Nat, m \in Good PROVE m + 1 \in Good
  <2>1. PICK g : g = [fs \in Near(ds, m) |-> UNION {Part(ds, g, d) : d \in fs}]
    BY <1>2 DEF Solves
  <2> DEFINE h == [fs \in Near(ds, m + 1) |-> UNION {Part(ds, g, d) : d \in fs}]
  <2>2. Near(ds, m) \subseteq Near(ds, m + 1)
    <3>1. \A d : Rank(ds, d.to) \in Nat
        BY RankIs
    <3> QED
        BY <3>1 DEF Near
  <2>3. ASSUME NEW fs \in Near(ds, m) PROVE h[fs] = g[fs]
    BY <2>1, <2>2
  <2>4. ASSUME NEW fs \in Near(ds, m + 1), NEW d \in fs PROVE Part(ds, h, d) = Part(ds, g, d)
    <3>1. h[From(ds, d.to)] = g[From(ds, d.to)]
        BY <2>3, NearIs
    <3> HIDE DEF h
    <3> QED
        BY <3>1 DEF Part
  <2>5. ASSUME NEW fs \in Near(ds, m + 1)
        PROVE  UNION {Part(ds, h, d) : d \in fs} = UNION {Part(ds, g, d) : d \in fs}
    <3> HIDE DEF h
    <3>1. {Part(ds, h, d) : d \in fs} = {Part(ds, g, d) : d \in fs}
        BY <2>4
    <3> QED
        BY <3>1
  <2>6. h = [fs \in Near(ds, m + 1) |-> UNION {Part(ds, h, d) : d \in fs}]
    BY <2>5
  <2> HIDE DEF h
  <2>7. Solves(ds, Near(ds, m + 1), h)
    BY <2>6 DEF Solves
  <2> QED
    BY <2>7
<1> HIDE DEF Good
<1>3. n \in Good
    BY <1>1, <1>2, Induction
<1> QED
    BY <1>3 DEF Good

\* Without a circle the solver has a result for any delegations: for each what it is alone,
\* or along the results for those of its delegate.
Solved(ds, d) ==
    IF From(ds, d.to) = {} THEN {Alone(d)}
    ELSE {Along(d, n) : n \in SolveNestedDelegations(ds, From(ds, d.to))}

LEMMA SolveIs ==
    ASSUME NEW ds, Chains(ds), ~Circular(ds), NEW fs \in SUBSET ds
    PROVE  SolveNestedDelegations(ds, fs) = UNION {Solved(ds, d) : d \in fs}
<1> DEFINE c == CHOOSE g : g = [s \in SUBSET ds |->
                    UNION {IF From(ds, d.to) = {} THEN {Alone(d)}
                           ELSE {Along(d, n) : n \in g[From(ds, d.to)]} : d \in s}]
<1>1. \A s : SolveNestedDelegations(ds, s) = c[s]
    BY DEF SolveNestedDelegations
<1>2. \E g : Solves(ds, SUBSET ds, g)
  <2>1. Cardinality(ds) + 1 \in Nat /\ \A d : Rank(ds, d.to) < Cardinality(ds) + 1
    BY RankIs
  <2>2. Near(ds, Cardinality(ds) + 1) = SUBSET ds
    BY <2>1 DEF Near
  <2>3. \E g : Solves(ds, Near(ds, Cardinality(ds) + 1), g)
    BY <2>1, SolvesNear
  <2> QED
    BY <2>2, <2>3
<1>3. c = [s \in SUBSET ds |-> UNION {Part(ds, c, d) : d \in s}]
    BY <1>2 DEF Solves, Part
<1> HIDE DEF c
<1>4. \A d \in ds : Part(ds, c, d) = Solved(ds, d)
    BY <1>1 DEF Part, Solved
<1>5. c[fs] = UNION {Part(ds, c, d) : d \in fs}
    BY <1>3
<1>6. {Part(ds, c, d) : d \in fs} = {Solved(ds, d) : d \in fs}
    BY <1>4
<1> QED
    BY <1>1, <1>5, <1>6

-----------------------------------------------------------------------------
(* Where votes end.                                                        *)

LEMMA EndsIs ==
    ASSUME NEW ds, Chains(ds), NEW u \in Users
    PROVE  /\ From(ds, u) = {} => Ends(ds, u) = {u}
           /\ From(ds, u) # {} => Ends(ds, u) = UNION {Ends(ds, d.to) : d \in From(ds, u)}
<1>1. Reachable(ds, u) = {u} \cup UNION {Reachable(ds, d.to) : d \in From(ds, u)}
    BY ReachesStep
<1>2. ASSUME From(ds, u) = {} PROVE Ends(ds, u) = {u}
    BY <1>1, <1>2 DEF Ends
<1>3. ASSUME From(ds, u) # {} PROVE Ends(ds, u) = UNION {Ends(ds, d.to) : d \in From(ds, u)}
    BY <1>1, <1>3 DEF Ends
<1> QED
    BY <1>2, <1>3

\* The ends the results have, and the delegators.
Tos(ns) == {n.to : n \in ns}

LEMMA AlongIs == ASSUME NEW d, NEW n
    PROVE  Alone(d).from = d.from /\ Alone(d).to = d.to /\ Along(d, n).from = d.from /\ Along(d, n).to = n.to
    BY DEF Alone, Along

LEMMA SolvedTos ==
    ASSUME NEW ds, NEW d
    PROVE  /\ \A n \in Solved(ds, d) : n.from = d.from
           /\ From(ds, d.to) = {} => Tos(Solved(ds, d)) = {d.to}
           /\ From(ds, d.to) # {} =>
                Tos(Solved(ds, d)) = Tos(SolveNestedDelegations(ds, From(ds, d.to)))
    BY AlongIs DEF Solved, Tos

\* The solver takes the delegations of a user to the ends of the user's vote.
LEMMA SolvesToEnds ==
    ASSUME NEW ds, Chains(ds), ~Circular(ds), NEW u \in Users, From(ds, u) # {}
    PROVE  Tos(SolveNestedDelegations(ds, From(ds, u))) = Ends(ds, u)
<1> DEFINE Ended(v) == From(ds, v) # {} => Tos(SolveNestedDelegations(ds, From(ds, v))) = Ends(ds, v)
           Good == {n \in Nat : \A v \in Users : Rank(ds, v) < n => Ended(v)}
<1>1. 0 \in Good
    BY RankIs
<1>2. ASSUME NEW n \in Nat, n \in Good PROVE n + 1 \in Good
  <2> SUFFICES ASSUME NEW v \in Users, Rank(ds, v) < n + 1, From(ds, v) # {}
               PROVE  Tos(SolveNestedDelegations(ds, From(ds, v))) = Ends(ds, v)
    BY <1>2
  <2> DEFINE fs == From(ds, v)
  <2>1. SolveNestedDelegations(ds, fs) = UNION {Solved(ds, d) : d \in fs}
    BY SolveIs DEF From
  <2>2. ASSUME NEW d \in fs PROVE Tos(Solved(ds, d)) = Ends(ds, d.to)
    <3>1. d.to \in Users /\ Rank(ds, d.to) < Rank(ds, v)
        BY RankFalls
    <3>2. Rank(ds, d.to) < n
        BY <3>1, RankIs
    <3>3. Ended(d.to)
        BY <1>2, <3>1, <3>2
    <3> QED
        BY <3>1, <3>3, EndsIs, SolvedTos
  <2>3. Ends(ds, v) = UNION {Ends(ds, d.to) : d \in fs}
    BY EndsIs
  <2> HIDE DEF fs
  <2>4. Tos(UNION {Solved(ds, d) : d \in fs}) = UNION {Tos(Solved(ds, d)) : d \in fs}
    BY DEF Tos
  <2>5. {Tos(Solved(ds, d)) : d \in fs} = {Ends(ds, d.to) : d \in fs}
    BY <2>2
  <2>6. Tos(SolveNestedDelegations(ds, fs)) = Ends(ds, v)
    BY <2>1, <2>3, <2>4, <2>5
  <2> QED
    BY <2>6 DEF fs
<1>3. \A n \in Nat : n \in Good
  <2> HIDE DEF Good
  <2> QED
    BY <1>1, <1>2, Induction
<1>4. Rank(ds, u) \in Nat /\ Rank(ds, u) + 1 \in Nat /\ Rank(ds, u) < Rank(ds, u) + 1
    BY RankIs
<1> QED
    BY <1>3, <1>4

\* Every delegation, to the ends of the delegate's vote.
LEMMA SolvedEnds ==
    ASSUME NEW ds, Chains(ds), ~Circular(ds), NEW d \in ds
    PROVE  Tos(Solved(ds, d)) = Ends(ds, d.to) /\ \A n \in Solved(ds, d) : n.from = d.from
<1>1. d.to \in Users
    BY DEF Chains
<1>2. From(ds, d.to) = {} => Tos(Solved(ds, d)) = Ends(ds, d.to)
    BY <1>1, SolvedTos, EndsIs
<1>3. From(ds, d.to) # {} => Tos(Solved(ds, d)) = Ends(ds, d.to)
    BY <1>1, SolvedTos, SolvesToEnds
<1> QED
    BY <1>2, <1>3, SolvedTos

\* What SolvedToTheEnd says of a community.
LEMMA SolvesAll ==
    ASSUME NEW ds, Chains(ds), ~Circular(ds)
    PROVE  {<<n.from, n.to>> : n \in SolveNestedDelegations(ds, ds)} =
               UNION {{d.from} \X Ends(ds, d.from) : d \in ds}
<1> DEFINE solved == SolveNestedDelegations(ds, ds)
           P == {<<n.from, n.to>> : n \in solved}
           Q == UNION {{d.from} \X Ends(ds, d.from) : d \in ds}
<1>1. solved = UNION {Solved(ds, d) : d \in ds}
    BY SolveIs
<1>2. ASSUME NEW d \in ds PROVE Ends(ds, d.from) = UNION {Ends(ds, e.to) : e \in From(ds, d.from)}
  <2>1. d \in From(ds, d.from) /\ d.from \in Users
    BY DEF From, Chains
  <2> QED
    BY <2>1, EndsIs
<1>3. ASSUME NEW n \in solved PROVE <<n.from, n.to>> \in Q
  <2>1. PICK d \in ds : n \in Solved(ds, d)
    BY <1>1
  <2>2. n.from = d.from /\ n.to \in Ends(ds, d.to)
    BY <2>1, SolvedEnds DEF Tos
  <2>3. d \in From(ds, d.from)
    BY DEF From
  <2>4. n.to \in Ends(ds, d.from)
    BY <1>2, <2>2, <2>3
  <2> QED
    BY <2>2, <2>4
<1>4. ASSUME NEW d \in ds, NEW v \in Ends(ds, d.from) PROVE <<d.from, v>> \in P
  <2>1. PICK e \in From(ds, d.from) : v \in Ends(ds, e.to)
    BY <1>2
  <2>2. e \in ds /\ e.from = d.from
    BY DEF From
  <2>3. PICK n \in Solved(ds, e) : n.to = v
    BY <2>1, <2>2, SolvedEnds DEF Tos
  <2>4. n.from = d.from /\ n \in solved
    BY <1>1, <2>2, <2>3, SolvedEnds
  <2> QED
    BY <2>3, <2>4
<1>5. P \subseteq Q
    BY <1>3
<1>6. Q \subseteq P
    BY <1>4
<1> QED
    BY <1>5, <1>6

-----------------------------------------------------------------------------
(* What closes a circle.                                                   *)

\* More delegations reach more.
LEMMA ReachesMore ==
    ASSUME NEW ds, NEW es, Chains(es), ds \subseteq es, NEW u \in Users
    PROVE  Reachable(ds, u) \subseteq Reachable(es, u)
<1>1. \A d \in ds : d.from \in Reachable(es, u) => d.to \in Reachable(es, u)
    BY ReachesOn DEF Chains
<1> QED
    BY <1>1, ReachesSelf, ReachesUsers, ReachesOnly

\* A new delegation closes a circle when the vote of its delegate comes by its delegator.
LEMMA Closes ==
    ASSUME NEW ds, Chains(ds), ~Circular(ds), NEW new, new.from \in Users, new.to \in Users
    PROVE  Circular(ds \cup {new}) <=> new.from \in Reachable(ds, new.to)
<1> DEFINE es == ds \cup {new}
           u == new.from
           v == new.to
<1>1. Chains(es)
    BY FS_AddElement DEF Chains
<1>2. ASSUME u \in Reachable(ds, v) PROVE Circular(es)
  <2>1. u \in Reachable(es, v)
    BY <1>1, <1>2, ReachesMore
  <2> QED
    BY <2>1 DEF Circular
<1>3. ASSUME Circular(es), u \notin Reachable(ds, v) PROVE FALSE
  <2>1. PICK d \in es : d.from \in Reachable(es, d.to)
    BY <1>3 DEF Circular
  <2>2. Chains(es) /\ d.to \in Users /\ v \in Users
    BY <1>1 DEF Chains
  \* The vote of v does not come by u, so the new delegation leads it nowhere new.
  <2>3. \A w \in Users : u \notin Reachable(ds, w) => Reachable(es, w) \subseteq Reachable(ds, w)
    <3> SUFFICES ASSUME NEW w \in Users, u \notin Reachable(ds, w)
                 PROVE  Reachable(es, w) \subseteq Reachable(ds, w)
        OBVIOUS
    <3>1. \A e \in es : e.from \in Reachable(ds, w) => e.to \in Reachable(ds, w)
        BY ReachesOn DEF Chains
    <3> QED
        BY <3>1, ReachesSelf, ReachesUsers, ReachesOnly
  <2>4. CASE d = new
    BY <1>3, <2>1, <2>2, <2>3, <2>4
  <2>5. CASE d # new
    <3>1. d \in ds /\ d.from \notin Reachable(ds, d.to)
        BY <2>5 DEF Circular
    <3>2. u \in Reachable(ds, d.to)
        BY <2>1, <2>2, <2>3, <3>1
    <3> DEFINE S == Reachable(ds, d.to) \cup Reachable(ds, v)
    <3>3. \A e \in es : e.from \in S => e.to \in S
        BY <2>2, ReachesOn, ReachesSelf DEF Chains
    <3>4. Reachable(es, d.to) \subseteq S
      <4>1. S \in SUBSET Users /\ d.to \in S
        BY <2>2, ReachesSelf, ReachesUsers
      <4> HIDE DEF S
      <4> QED
        BY <3>3, <4>1, ReachesOnly
    <3>5. d.from \in Reachable(ds, v)
        BY <2>1, <3>1, <3>4
    <3>6. d.to \in Reachable(ds, v)
        BY <2>2, <3>1, <3>5, ReachesOn
    <3>7. Reachable(ds, d.to) \subseteq Reachable(ds, v)
        BY <3>6, ReachesThrough
    <3> QED
        BY <1>3, <3>2, <3>7
  <2> QED
    BY <2>4, <2>5
<1> QED
    BY <1>2, <1>3

\* What CheckIsExact says of two users of a community.
LEMMA ChecksExactly ==
    ASSUME NEW c, NEW u \in Users, NEW v \in Users, u # v,
           Chains(CommunityDelegations(c)), ~Circular(CommunityDelegations(c)),
           From(CommunityDelegations(c), u) = {}
    PROVE  CircularDelegation(u, v, c) <=> u \in Reachable(CommunityDelegations(c), v)
<1> DEFINE ds == CommunityDelegations(c)
<1>1. CircularDelegation(u, v, c) <=> u \in Tos(SolveNestedDelegations(ds, From(ds, v)))
    BY DEF CircularDelegation, Tos
<1>2. CASE From(ds, v) = {}
  <2>1. SolveNestedDelegations(ds, From(ds, v)) = {}
    BY <1>2, SolveIs
  <2>2. Reachable(ds, v) = {v}
    BY <1>2, ReachesStep
  <2> QED
    BY <1>1, <2>1, <2>2 DEF Tos
<1>3. CASE From(ds, v) # {}
  <2>1. Tos(SolveNestedDelegations(ds, From(ds, v))) = Ends(ds, v)
    BY <1>3, SolvesToEnds
  <2> QED
    BY <1>1, <2>1 DEF Ends
<1> QED
    BY <1>2, <1>3

-----------------------------------------------------------------------------
(* Results are finitely many.                                              *)

\* A function takes finitely many elements to finitely many.
LEMMA Images ==
    ASSUME NEW S, IsFiniteSet(S), NEW f, f = [x \in S |-> f[x]]
    PROVE  IsFiniteSet({f[x] : x \in S})
<1> DEFINE T == {f[x] : x \in S}
<1>1. f \in [S -> T]
    OBVIOUS
<1>2. \A t \in T : \E x \in S : f[x] = t
    OBVIOUS
<1> HIDE DEF T
<1>3. f \in Surjection(S, T)
    BY <1>1, <1>2 DEF Surjection
<1>4. IsFiniteSet(T)
    BY <1>3, FS_Surjection
<1> QED
    BY <1>4 DEF T

LEMMA SolvesFinitely ==
    ASSUME NEW ds, Chains(ds), ~Circular(ds), NEW fs \in SUBSET ds
    PROVE  IsFiniteSet(SolveNestedDelegations(ds, fs))
<1> DEFINE Good == {n \in Nat : \A s \in Near(ds, n) : IsFiniteSet(SolveNestedDelegations(ds, s))}
<1>1. \A s \in SUBSET ds : /\ IsFiniteSet(s)
                           /\ SolveNestedDelegations(ds, s) = UNION {Solved(ds, d) : d \in s}
    BY SolveIs, FS_Subset DEF Chains
<1>2. 0 \in Good
  <2> SUFFICES ASSUME NEW s \in Near(ds, 0) PROVE IsFiniteSet(SolveNestedDelegations(ds, s))
    OBVIOUS
  <2>1. \A d \in s : Rank(ds, d.to) < 0 /\ Rank(ds, d.to) \in Nat
    BY RankIs DEF Near
  <2>2. s = {} /\ s \in SUBSET ds
    BY <2>1
  <2>3. SolveNestedDelegations(ds, s) = {}
    BY <1>1, <2>2
  <2> QED
    BY <2>3, FS_EmptySet
<1>3. ASSUME NEW n \in Nat, n \in Good PROVE n + 1 \in Good
  <2> SUFFICES ASSUME NEW s \in Near(ds, n + 1) PROVE IsFiniteSet(SolveNestedDelegations(ds, s))
    BY <1>3
  <2>1. ASSUME NEW d \in s PROVE IsFiniteSet(Solved(ds, d))
    <3>1. CASE From(ds, d.to) = {}
        BY <3>1, FS_Singleton DEF Solved
    <3>2. CASE From(ds, d.to) # {}
      <4>1. IsFiniteSet(SolveNestedDelegations(ds, From(ds, d.to)))
        BY <1>3, NearIs
      <4> DEFINE ms == SolveNestedDelegations(ds, From(ds, d.to))
                 f == [m \in ms |-> Along(d, m)]
      <4> HIDE DEF ms
      <4>2. f = [m \in ms |-> f[m]] /\ IsFiniteSet(ms)
        BY <4>1 DEF ms
      <4>3. {f[m] : m \in ms} = {Along(d, m) : m \in ms}
        OBVIOUS
      <4> HIDE DEF f
      <4>4. IsFiniteSet({f[m] : m \in ms})
        BY <4>2, Images
      <4>5. IsFiniteSet({Along(d, m) : m \in ms})
        BY <4>3, <4>4, Zenon
      <4> QED
        BY <3>2, <4>5 DEF Solved, ms
    <3> QED
        BY <3>1, <3>2
  <2>2. s \in SUBSET ds
    BY DEF Near
  <2>3. IsFiniteSet({Solved(ds, d) : d \in s})
    <3> DEFINE f == [d \in s |-> Solved(ds, d)]
    <3>1. f = [d \in s |-> f[d]] /\ IsFiniteSet(s)
        BY <1>1, <2>2
    <3>2. {f[d] : d \in s} = {Solved(ds, d) : d \in s}
        OBVIOUS
    <3> HIDE DEF f
    <3>3. IsFiniteSet({f[d] : d \in s})
        BY <3>1, Images
    <3> QED
        BY <3>2, <3>3, Zenon
  <2>4. IsFiniteSet(UNION {Solved(ds, d) : d \in s})
    BY <2>1, <2>3, FS_UNION
  <2> QED
    BY <1>1, <2>2, <2>4
<1> HIDE DEF Good
<1>4. \A n \in Nat : n \in Good
    BY <1>2, <1>3, Induction
<1>5. Cardinality(ds) + 1 \in Nat /\ \A d : Rank(ds, d.to) < Cardinality(ds) + 1
    BY RankIs
<1>6. fs \in Near(ds, Cardinality(ds) + 1)
    BY <1>5 DEF Near
<1> QED
    BY <1>4, <1>5, <1>6 DEF Good

-----------------------------------------------------------------------------
(* The invariant.                                                          *)

DelegationsInvariant == DelegationsTypeOK /\ IsFiniteSet(delegations)

LEMMA CommunityChains ==
    ASSUME DelegationsInvariant, NEW c
    PROVE  Chains(CommunityDelegations(c))
<1>1. CommunityDelegations(c) \in SUBSET delegations
    BY DEF CommunityDelegations
<1>2. \A d \in delegations : d.from \in Users /\ d.to \in Users
    BY DEF DelegationsInvariant, DelegationsTypeOK, Delegation
<1> QED
    BY <1>1, <1>2, FS_Subset DEF DelegationsInvariant, Chains

LEMMA WeightIs ==
    ASSUME NEW final, IsFiniteSet(final), NEW u
    PROVE  Weight(final, u) \in Nat
<1>1. Cardinality({n \in final : n.to = u}) \in Nat
    BY FS_Subset, FS_CardinalityType
<1> QED
    BY <1>1 DEF Weight

LEMMA DelegationsInitially ==
    ASSUME DelegationsAssumption, DelegationsInit PROVE DelegationsInvariant
    BY FS_EmptySet DEF DelegationsAssumption, DelegationsInit, DelegationsInvariant, DelegationsTypeOK

LEMMA CensusKeeps ==
    ASSUME DelegationsAssumption, DelegationsInvariant, NEW c \in Communities, CensusCommunity(c)
    PROVE  DelegationsInvariant'
<1> DEFINE ds == CommunityDelegations(c)
           final == SolveNestedDelegations(ds, ds)
           weights == [u \in Users |-> IF u \in Members[c] THEN Weight(final, u) ELSE 0]
<1>1. CASE ~Circular(ds) /\ census' = [census EXCEPT ![c] = weights]
           /\ UNCHANGED <<delegations, nextID, request, ballots, refused>>
  <2>1. IsFiniteSet(final)
    BY <1>1, CommunityChains, SolvesFinitely
  <2> HIDE DEF final
  <2>2. weights \in Weights
    BY <2>1, WeightIs DEF Weights
  <2> HIDE DEF weights
  <2> QED
    BY <1>1, <2>2 DEF DelegationsInvariant, DelegationsTypeOK
<1>2. CASE Overflow
    BY <1>2 DEF Overflow, DelegationsInvariant, DelegationsTypeOK
<1> QED
    BY <1>1, <1>2 DEF CensusCommunity

LEMMA DelegationsKept ==
    ASSUME DelegationsAssumption, DelegationsInvariant, [DelegationsNext]_delegationsVars
    PROVE  DelegationsInvariant'
<1> USE DEF DelegationsInvariant, DelegationsTypeOK
<1>1. ASSUME NEW r \in DelegationRequests, NEW u \in Users, NEW v \in Users, NEW c \in Communities,
             DelegateVote(r, u, v, c)
      PROVE  DelegationsInvariant'
    BY <1>1 DEF DelegateVote, Overflow
<1>2. ASSUME NEW r \in DelegationRequests, SetDelegation(r) PROVE DelegationsInvariant'
  <2> DEFINE new == [id |-> nextID, from |-> request[r].from, to |-> request[r].to,
                     community |-> request[r].community]
  <2>1. new \in Delegation
    <3>1. nextID \in 1..MaxDelegations
        BY <1>2 DEF SetDelegation, DelegationsAssumption
    <3>2. request[r] \in [from : Users, to : Users, community : Communities]
        BY <1>2 DEF SetDelegation
    <3> QED
        BY <3>1, <3>2 DEF Delegation
  <2>2. nextID + 1 \in 1..(MaxDelegations + 1)
    BY <1>2 DEF SetDelegation, DelegationsAssumption
  <2> HIDE DEF new
  <2>3. delegations' = delegations \cup {new}
    BY <1>2 DEF SetDelegation, new
  <2>4. IsFiniteSet(delegations')
    BY <2>3, FS_AddElement
  <2> QED
    BY <1>2, <2>1, <2>2, <2>3, <2>4 DEF SetDelegation
<1>3. ASSUME NEW d \in delegations, RemoveDelegation(d) PROVE DelegationsInvariant'
    BY <1>3, FS_RemoveElement DEF RemoveDelegation
<1>4. ASSUME NEW c \in Communities, CensusCommunity(c) PROVE DelegationsInvariant'
    BY <1>4, CensusKeeps
<1>5. ASSUME NEW u \in Users, NEW c \in Communities, Vote(u, c) PROVE DelegationsInvariant'
    BY <1>5 DEF Vote, Overflow
<1>6. CASE UNCHANGED delegationsVars
    BY <1>6 DEF delegationsVars
<1> QED
    BY <1>1, <1>2, <1>3, <1>4, <1>5, <1>6 DEF DelegationsNext

\* The delegations are always finitely many, between users.
THEOREM DelegationsInvariantAlways == DelegationsSpec => []DelegationsInvariant
<1>1. DelegationsInit => DelegationsInvariant
    BY DelegationsAssumption, DelegationsInitially
<1>2. DelegationsInvariant /\ [DelegationsNext]_delegationsVars => DelegationsInvariant'
    BY DelegationsAssumption, DelegationsKept
<1> QED
    BY <1>1, <1>2, PTL DEF DelegationsSpec

\* The check of delegateVoteHandler refuses exactly what would close a circle, for any number
\* of users and any history of delegations.
THEOREM CheckIsExactAlways == DelegationsSpec => []CheckIsExact
<1>1. ASSUME DelegationsInvariant PROVE CheckIsExact
  <2> SUFFICES ASSUME NEW c \in Communities, NEW u \in Users, NEW v \in Users, u # v,
                      From(CommunityDelegations(c), u) = {}, ~Circular(CommunityDelegations(c)),
                      NEW new, new = [id |-> nextID, from |-> u, to |-> v, community |-> c]
               PROVE  CircularDelegation(u, v, c) <=> Circular(CommunityDelegations(c) \cup {new})
    BY Zenon DEF CheckIsExact
  <2>1. new.from = u /\ new.to = v
    OBVIOUS
  <2>2. Chains(CommunityDelegations(c))
    BY <1>1, CommunityChains
  <2> QED
    BY <2>1, <2>2, ChecksExactly, Closes
<1> QED
    BY <1>1, DelegationsInvariantAlways, PTL

\* The solver takes every delegation to the ends of the chains, however long they are.
THEOREM SolvedToTheEndAlways == DelegationsSpec => []SolvedToTheEnd
<1>1. ASSUME DelegationsInvariant PROVE SolvedToTheEnd
  <2> SUFFICES ASSUME NEW c \in Communities, NEW ds, ds = CommunityDelegations(c), ~Circular(ds)
               PROVE  {<<n.from, n.to>> : n \in SolveNestedDelegations(ds, ds)} =
                          UNION {{d.from} \X Ends(ds, d.from) : d \in ds}
    BY Zenon DEF SolvedToTheEnd
  <2> QED
    BY <1>1, CommunityChains, SolvesAll
<1> QED
    BY <1>1, DelegationsInvariantAlways, PTL

-----------------------------------------------------------------------------
(* The census conserves votes.                                             *)

\* Nobody has delegated twice.
Once(ds) == \A u \in Users : Cardinality(From(ds, u)) <= 1

LEMMA OneFrom ==
    ASSUME NEW ds, Chains(ds), Once(ds), NEW d \in ds
    PROVE  From(ds, d.from) = {d}
<1> DEFINE fs == From(ds, d.from)
<1>1. d \in fs /\ IsFiniteSet(fs)
    BY FS_Subset DEF From, Chains
<1>2. Cardinality(fs) <= 1
    BY DEF Once, Chains
<1> HIDE DEF fs
<1>3. IsFiniteSet(fs \ {d}) /\ Cardinality(fs \ {d}) = Cardinality(fs) - 1
    BY <1>1, FS_RemoveElement
<1>4. Cardinality(fs) \in Nat /\ Cardinality(fs \ {d}) \in Nat
    BY <1>1, <1>3, FS_CardinalityType
<1>5. Cardinality(fs \ {d}) = 0
    BY <1>2, <1>3, <1>4
<1>6. fs \ {d} = {}
    BY <1>3, <1>5, FS_EmptySet
<1>7. fs = {d}
    BY <1>1, <1>6
<1> QED
    BY <1>7 DEF fs

\* Then a delegation has one result, and a vote one end.
HasOne(s) == \E n : s = {n}

LEMMA SolvesOne ==
    ASSUME NEW ds, Chains(ds), ~Circular(ds), Once(ds), NEW d \in ds
    PROVE  \E n : Solved(ds, d) = {n}
<1> DEFINE Good == {n \in Nat : \A e \in ds : Rank(ds, e.to) < n => HasOne(Solved(ds, e))}
<1>1. 0 \in Good
    BY RankIs
<1>2. ASSUME NEW n \in Nat, n \in Good PROVE n + 1 \in Good
  <2> SUFFICES ASSUME NEW e \in ds, Rank(ds, e.to) < n + 1 PROVE HasOne(Solved(ds, e))
    BY <1>2
  <2>1. CASE From(ds, e.to) = {}
    BY <2>1 DEF Solved, HasOne
  <2>2. CASE From(ds, e.to) # {}
    <3>1. PICK a \in From(ds, e.to) : TRUE
        BY <2>2
    <3>2. a \in ds /\ Rank(ds, a.to) < Rank(ds, e.to) /\ a.from = e.to
        BY RankFalls DEF Chains
    <3>3. Rank(ds, a.to) < n
        BY <3>2, RankIs
    <3>4. PICK m : Solved(ds, a) = {m}
        BY <1>2, <3>2, <3>3 DEF HasOne
    <3>5. From(ds, e.to) = {a}
        BY <3>2, OneFrom
    <3>6. SolveNestedDelegations(ds, {a}) = UNION {Solved(ds, x) : x \in {a}}
        BY <3>2, SolveIs
    <3>7. SolveNestedDelegations(ds, {a}) = {m}
        BY <3>4, <3>6
    <3>8. Solved(ds, e) = {Along(e, m)}
        BY <3>5, <3>7 DEF Solved
    <3> QED
        BY <3>8 DEF HasOne
  <2> QED
    BY <2>1, <2>2
<1>3. \A n \in Nat : n \in Good
  <2> HIDE DEF Good
  <2> QED
    BY <1>1, <1>2, Induction
<1>4. Rank(ds, d.to) \in Nat /\ Rank(ds, d.to) + 1 \in Nat /\ Rank(ds, d.to) < Rank(ds, d.to) + 1
    BY RankIs
<1> QED
    BY <1>3, <1>4 DEF HasOne

LEMMA EndsOne ==
    ASSUME NEW ds, Chains(ds), ~Circular(ds), Once(ds), NEW u \in Users
    PROVE  \E v : Ends(ds, u) = {v}
<1>1. CASE From(ds, u) = {}
    BY <1>1, EndsIs
<1>2. CASE From(ds, u) # {}
  <2>1. PICK d \in ds : d.from = u
    BY <1>2 DEF From
  <2>2. PICK n : Solved(ds, d) = {n}
    BY SolvesOne
  <2>3. Ends(ds, d.to) = {n.to}
    BY <2>2, SolvedEnds DEF Tos
  <2>4. From(ds, u) = {d}
    BY <2>1, OneFrom
  <2>5. Ends(ds, u) = UNION {Ends(ds, e.to) : e \in From(ds, u)}
    BY <1>2, EndsIs
  <2>6. Ends(ds, u) = Ends(ds, d.to)
    BY <2>4, <2>5
  <2> QED
    BY <2>3, <2>6
<1> QED
    BY <1>1, <1>2

\* The users whose votes end in a set of users.
EndIn(ds, S) == {u \in Users : Ends(ds, u) \cap S # {}}

\* Functions that take elements apart keep their number.
LEMMA SameSize ==
    ASSUME NEW S, IsFiniteSet(S), NEW f, f = [x \in S |-> f[x]],
           \A x, y \in S : f[x] = f[y] => x = y,
           NEW T, T = {f[x] : x \in S}
    PROVE  IsFiniteSet(T) /\ Cardinality(T) = Cardinality(S)
<1>1. f \in [S -> T]
    OBVIOUS
<1>2. \A t \in T : \E x \in S : f[x] = t
    OBVIOUS
<1>3. f \in Surjection(S, T)
    BY <1>1, <1>2 DEF Surjection
<1>4. f \in Injection(S, T)
    BY <1>1 DEF Injection, IsInjective
<1> QED
    BY <1>3, <1>4, FS_Surjection

\* The weight of a user is the number of votes that end there.
LEMMA WeightCounts ==
    ASSUME NEW ds, Chains(ds), ~Circular(ds), Once(ds), NEW final, final = SolveNestedDelegations(ds, ds),
           NEW m \in Users
    PROVE  IsFiniteSet(EndIn(ds, {m})) /\ Weight(final, m) = Cardinality(EndIn(ds, {m}))
<1> DEFINE here == {n \in final : n.to = m}
           froms == {n.from : n \in here}
<1>1. final = UNION {Solved(ds, d) : d \in ds} /\ IsFiniteSet(final)
    BY SolveIs, SolvesFinitely
<1>2. \A n \in final : \E d \in ds : Solved(ds, d) = {n} /\ n.from = d.from
    BY <1>1, SolvesOne, SolvedEnds
<1>3. \A d \in ds : \E n \in final : Solved(ds, d) = {n} /\ n.from = d.from /\ Ends(ds, d.from) = {n.to}
  <2> SUFFICES ASSUME NEW d \in ds
               PROVE  \E n \in final : Solved(ds, d) = {n} /\ n.from = d.from /\ Ends(ds, d.from) = {n.to}
    OBVIOUS
  <2>1. PICK n : Solved(ds, d) = {n}
    BY SolvesOne
  <2>2. n \in final /\ n.from = d.from /\ Ends(ds, d.to) = {n.to}
    BY <1>1, <2>1, SolvedEnds DEF Tos
  <2>3. From(ds, d.from) = {d} /\ d.from \in Users
    BY OneFrom DEF Chains
  <2>4. Ends(ds, d.from) = Ends(ds, d.to)
    <3>1. Ends(ds, d.from) = UNION {Ends(ds, e.to) : e \in From(ds, d.from)}
        BY <2>3, EndsIs
    <3> QED
        BY <2>3, <3>1
  <2> QED
    BY <2>1, <2>2, <2>4
<1>4. \A n, k \in here : n.from = k.from => n = k
  <2> SUFFICES ASSUME NEW n \in here, NEW k \in here, n.from = k.from PROVE n = k
    OBVIOUS
  <2>1. PICK d \in ds : Solved(ds, d) = {n} /\ n.from = d.from
    BY <1>2
  <2>2. PICK e \in ds : Solved(ds, e) = {k} /\ k.from = e.from
    BY <1>2
  <2>3. From(ds, d.from) = {d} /\ From(ds, e.from) = {e}
    BY OneFrom
  <2>4. d = e
    BY <2>1, <2>2, <2>3
  <2> QED
    BY <2>1, <2>2, <2>4
<1>5. IsFiniteSet(here)
    BY <1>1, FS_Subset
<1>6. IsFiniteSet(froms) /\ Cardinality(froms) = Cardinality(here)
  <2> DEFINE f == [n \in here |-> n.from]
  <2>1. froms = {f[n] : n \in here} /\ f = [n \in here |-> f[n]]
    OBVIOUS
  <2>2. \A n, k \in here : f[n] = f[k] => n = k
    BY <1>4
  <2> HIDE DEF f, here, froms
  <2> QED
    BY <1>5, <2>1, <2>2, SameSize
\* Those who delegated and end at m are the delegators of the results at m.
<1>7. \A u \in Users : From(ds, u) # {} => (u \in EndIn(ds, {m}) <=> u \in froms)
  <2> SUFFICES ASSUME NEW u \in Users, From(ds, u) # {} PROVE u \in EndIn(ds, {m}) <=> u \in froms
    OBVIOUS
  <2>1. PICK d \in ds : d.from = u
    BY DEF From
  <2>2. PICK n \in final : Solved(ds, d) = {n} /\ n.from = u /\ Ends(ds, u) = {n.to}
    BY <1>3, <2>1
  <2>3. u \in froms => n.to = m
    <3> SUFFICES ASSUME NEW k \in here, k.from = u PROVE n.to = m
        OBVIOUS
    <3>1. PICK e \in ds : Solved(ds, e) = {k} /\ k.from = e.from
        BY <1>2
    <3>2. From(ds, d.from) = {d} /\ From(ds, e.from) = {e}
        BY OneFrom
    <3> QED
        BY <2>1, <2>2, <3>1, <3>2
  <2> QED
    BY <2>2, <2>3 DEF EndIn
<1>8. \A u \in Users : From(ds, u) = {} => (u \notin froms /\ (u \in EndIn(ds, {m}) <=> u = m))
  <2> SUFFICES ASSUME NEW u \in Users, From(ds, u) = {} PROVE u \notin froms /\ (u \in EndIn(ds, {m}) <=> u = m)
    OBVIOUS
  <2>1. \A n \in final : n.from # u
    BY <1>2 DEF From
  <2>2. Ends(ds, u) = {u}
    BY EndsIs
  <2> QED
    BY <2>1, <2>2 DEF EndIn
<1>9. froms \subseteq Users /\ EndIn(ds, {m}) \subseteq Users
    BY <1>2 DEF Chains, EndIn
<1>10. CASE From(ds, m) = {}
  <2>1. EndIn(ds, {m}) = froms \cup {m} /\ m \notin froms
    BY <1>7, <1>8, <1>9, <1>10
  <2>2. \A n \in final : n.from # m
    BY <1>2, <1>10 DEF From
  <2>3. Weight(final, m) = 1 + Cardinality(here)
    BY <2>2 DEF Weight
  <2>4. Cardinality(froms) \in Nat
    BY <1>6, FS_CardinalityType
  <2> HIDE DEF froms, here
  <2>5. IsFiniteSet(froms \cup {m}) /\ Cardinality(froms \cup {m}) = Cardinality(froms) + 1
    BY <1>6, <2>1, FS_AddElement
  <2>6. Weight(final, m) = Cardinality(froms \cup {m})
    BY <1>6, <2>3, <2>4, <2>5
  <2> QED
    BY <2>1, <2>5, <2>6
<1>11. CASE From(ds, m) # {}
  <2>1. \A u \in Users : m \notin Ends(ds, u)
    BY <1>11 DEF Ends
  <2>2. EndIn(ds, {m}) = {}
    BY <2>1 DEF EndIn
  <2>3. froms = {}
    BY <1>7, <1>8, <1>9, <2>2
  <2>4. \E n \in final : n.from = m
    <3>1. PICK d \in ds : d.from = m
        BY <1>11 DEF From
    <3> QED
        BY <1>3, <3>1
  <2>5. here = {}
    BY <2>3
  <2>6. Weight(final, m) = 0
    BY <2>4, <2>5, FS_EmptySet DEF Weight
  <2> QED
    BY <2>2, <2>6, FS_EmptySet
<1> QED
    BY <1>10, <1>11

\* The weights of a census, and their sum over some users: the votes that end at members of it.
WeightsOf(M, final) == [u \in Users |-> IF u \in M THEN Weight(final, u) ELSE 0]

LEMMA WeightsSum ==
    ASSUME IsFiniteSet(Users), NEW ds, Chains(ds), ~Circular(ds), Once(ds),
           NEW final, final = SolveNestedDelegations(ds, ds), NEW M \in SUBSET Users
    PROVE  Total(WeightsOf(M, final), Users) = Cardinality(EndIn(ds, M))
<1> DEFINE w == WeightsOf(M, final)
<1>1. \A u \in Users : w[u] \in Nat /\ w[u] = IF u \in M THEN Weight(final, u) ELSE 0
  <2>1. IsFiniteSet(final)
    BY SolvesFinitely
  <2> QED
    BY <2>1, WeightIs DEF WeightsOf
<1> HIDE DEF w
<1>2. PICK g : IsSum(w, SUBSET Users, g) /\ Total(w, Users) = g[Users]
    BY TotalIsASum
<1>3. \A T \in SUBSET Users : g[{}] = 0 /\ Adds(w, g, T)
    BY <1>1, <1>2, SumsAdd
<1> DEFINE Summed(T) == g[T] = Cardinality(EndIn(ds, T \cap M))
           Good == {n \in Nat : \A T \in SUBSET Users : Cardinality(T) = n => Summed(T)}
<1>4. \A T \in SUBSET Users : IsFiniteSet(T) /\ Cardinality(T) \in Nat
    BY FS_Subset, FS_CardinalityType
<1>5. Summed({})
  <2>1. EndIn(ds, {} \cap M) = {}
    BY DEF EndIn
  <2> QED
    BY <1>3, <2>1, FS_EmptySet
<1>6. ASSUME NEW T \in SUBSET Users, NEW y \in T, Summed(T \ {y}) PROVE Summed(T)
  <2>1. g[T] = w[y] + g[T \ {y}]
    BY <1>3 DEF Adds
  <2> DEFINE rest == EndIn(ds, (T \ {y}) \cap M)
  <2>2. g[T \ {y}] = Cardinality(rest)
    BY <1>6
  <2>3. IsFiniteSet(rest) /\ Cardinality(rest) \in Nat
    BY FS_Subset, FS_CardinalityType DEF EndIn
  <2>4. CASE y \notin M
    <3>1. (T \ {y}) \cap M = T \cap M
        BY <2>4
    <3>2. w[y] = 0
        BY <1>1, <2>4
    <3> QED
        BY <2>1, <2>2, <2>3, <3>1, <3>2
  <2>5. CASE y \in M
    <3> DEFINE here == EndIn(ds, {y})
    <3>1. IsFiniteSet(here) /\ w[y] = Cardinality(here) /\ Cardinality(here) \in Nat
        BY <1>1, <2>5, WeightCounts, FS_CardinalityType
    <3>2. EndIn(ds, T \cap M) = rest \cup here
        BY <2>5 DEF EndIn
    <3>3. rest \cap here = {}
      <4> SUFFICES ASSUME NEW u \in Users, u \in rest, u \in here PROVE FALSE
        BY DEF EndIn
      <4>1. PICK v : Ends(ds, u) = {v}
        BY EndsOne
      <4> QED
        BY <4>1 DEF EndIn
    <3> HIDE DEF rest, here
    <3>4. Cardinality(rest \cup here) = Cardinality(rest) + Cardinality(here) - Cardinality(rest \cap here)
        BY <2>3, <3>1, FS_Union
    <3>5. Cardinality(rest \cap here) = 0
        BY <3>3, FS_EmptySet
    <3>6. g[T] = Cardinality(rest \cup here)
        BY <2>1, <2>2, <2>3, <3>1, <3>4, <3>5
    <3> QED
        BY <3>2, <3>6
  <2> QED
    BY <2>4, <2>5
<1> HIDE DEF Summed
<1>7. 0 \in Good
  <2>1. \A T \in SUBSET Users : Cardinality(T) = 0 => T = {}
    BY <1>4, FS_EmptySet
  <2> QED
    BY <1>5, <2>1
<1>8. ASSUME NEW n \in Nat, n \in Good PROVE n + 1 \in Good
  <2> SUFFICES ASSUME NEW T \in SUBSET Users, Cardinality(T) = n + 1 PROVE Summed(T)
    OBVIOUS
  <2>1. T # {}
    <3>1. n + 1 # 0 /\ Cardinality({}) = 0
        BY FS_EmptySet
    <3> QED
        BY <3>1
  <2>2. First(T) \in T /\ T \ {First(T)} \in SUBSET Users /\ Cardinality(T \ {First(T)}) = n
    BY <2>1, Smaller
  <2> QED
    BY <1>6, <1>8, <2>2
<1> HIDE DEF Good
<1>9. \A n \in Nat : n \in Good
    BY <1>7, <1>8, Induction
<1>10. Summed(Users)
    BY <1>4, <1>9 DEF Good
<1>11. Users \cap M = M
    OBVIOUS
<1> QED
    BY <1>2, <1>10, <1>11 DEF w, Summed

\* A census counts the vote of every user who ends at a member of it once, when nobody has
\* delegated twice, however many users and chains there are.
THEOREM CensusConservesVotesAlways == DelegationsSpec => CensusConservesVotes
<1>1. ASSUME DelegationsInvariant, [DelegationsNext]_delegationsVars, NEW c \in Communities,
             census[c] = Nil, census'[c] # Nil,
             \A u \in Users : Cardinality(From(CommunityDelegations(c), u)) <= 1
      PROVE  Total(census'[c], Users) =
                 Cardinality({u \in Users : Ends(CommunityDelegations(c), u) \cap Members[c] # {}})
  <2> DEFINE ds == CommunityDelegations(c)
             final == SolveNestedDelegations(ds, ds)
  <2>1. /\ DOMAIN census = Communities /\ Members[c] \in SUBSET Users /\ IsFiniteSet(Users)
        /\ Chains(ds) /\ Once(ds)
    BY <1>1, DelegationsAssumption, CommunityChains
       DEF DelegationsInvariant, DelegationsTypeOK, DelegationsAssumption, Once
  <2>2. CensusCommunity(c)
    <3>1. census' # census
        BY <1>1
    <3>2. \E b \in Communities : CensusCommunity(b)
        BY <1>1, <3>1 DEF DelegationsNext, DelegateVote, SetDelegation, RemoveDelegation, Vote,
                          Overflow, delegationsVars
    <3>3. PICK b \in Communities : CensusCommunity(b)
        BY <3>2
    <3>4. b = c
        BY <1>1, <2>1, <3>1, <3>3 DEF CensusCommunity, Overflow
    <3> QED
        BY <3>3, <3>4
  <2>3. ~Circular(ds) /\ census'[c] = WeightsOf(Members[c], final)
    BY <1>1, <2>1, <2>2 DEF CensusCommunity, Overflow, WeightsOf
  <2> HIDE DEF ds, final
  <2>4. Total(WeightsOf(Members[c], final), Users) = Cardinality(EndIn(ds, Members[c]))
    BY <2>1, <2>3, WeightsSum DEF final
  <2>5. Total(census'[c], Users) = Cardinality(EndIn(ds, Members[c]))
    BY <2>3, <2>4
  <2> QED
    BY <2>5 DEF EndIn, ds
<1>2. DelegationsInvariant /\ [DelegationsNext]_delegationsVars =>
        [\A c \in Communities :
          LET ds == CommunityDelegations(c)
          IN  /\ census[c] = Nil /\ census'[c] # Nil
              /\ \A u \in Users : Cardinality(From(ds, u)) <= 1
              => MapThenSumSet(LAMBDA u : census'[c][u], Users) =
                     Cardinality({u \in Users : Ends(ds, u) \cap Members[c] # {}})]_delegationsVars
    BY <1>1 DEF Total
<1> QED
    BY <1>2, DelegationsInvariantAlways, PTL DEF DelegationsSpec, CensusConservesVotes
=============================================================================
