------------------------- MODULE CommunityHubProofs -------------------------
(* Proofs of what CommunityHubProperties promises, for any contract and any *)
(* number of requests.                                                      *)
EXTENDS CommunityHubProperties, SequenceTheorems, TLAPS

-----------------------------------------------------------------------------
(* The conversions keep a community one, and its creator.                  *)

\* Fields may be replaced.
LEMMA Replaced ==
    ASSUME NEW c \in Community, NEW p \in 0..1, NEW a \in Admins
    PROVE  /\ [c EXCEPT !.permission = p, !.funds = p] \in Community
           /\ [c EXCEPT !.permission = p, !.funds = p].admins = c.admins
           /\ [c EXCEPT !.admins = a, !.permission = p, !.funds = p] \in Community
           /\ [c EXCEPT !.admins = a, !.permission = p, !.funds = p].admins = a
           /\ [c EXCEPT !.funds = p] \in Community
           /\ [c EXCEPT !.funds = p].admins = c.admins
BY DEF Community

\* What is stored is the community, of the same creator.
LEMMA StoredKeeps ==
    ASSUME NEW old \in Community \cup {Nil}, NEW c \in Community
    PROVE  Stored(old, c) \in Community /\ Stored(old, c).admins = c.admins
<1>1. HubToDB(c) \in Community /\ HubToDB(c).admins = c.admins
  <2>1. 0 \in 0..1 /\ c.admins \in Admins
    BY DEF Community
  <2> QED
    BY <2>1, Replaced DEF HubToDB
<1>2. CASE old = Nil
    BY <1>1, <1>2 DEF Stored
<1>3. CASE old # Nil
  <2>1. old.chat \in STRING \cup {Empty}
    BY <1>3 DEF Community
  <2>2. Stored(old, c) = [HubToDB(c) EXCEPT !.chat = IF @ = Empty THEN old.chat ELSE @]
    BY <1>3 DEF Stored, UpdateDocument
  <2> QED
    BY <1>1, <2>1, <2>2 DEF Community
<1> QED
    BY <1>2, <1>3

\* So is what is read back.
LEMMA DBToHubKeeps ==
    ASSUME NEW c \in Community
    PROVE  DBToHub(c) \in Community /\ DBToHub(c).admins.first = c.admins.first
<1> DEFINE a == [c.admins EXCEPT !.others = @ \ {c.admins.first}]
           zero == 0
<1>1. a \in Admins /\ a.first = c.admins.first
    BY DEF Community, Admins
<1>2. DBToHub(c) = [c EXCEPT !.admins = a, !.permission = zero, !.funds = zero]
    BY DEF DBToHub, Community, Admins
<1>3. zero \in 0..1
    OBVIOUS
<1> HIDE DEF a, zero
<1>4. /\ [c EXCEPT !.admins = a, !.permission = zero, !.funds = zero] \in Community
      /\ [c EXCEPT !.admins = a, !.permission = zero, !.funds = zero].admins = a
    BY <1>1, <1>3 DEF Community
<1> QED
    BY <1>1, <1>2, <1>4

\* New data joins old data of the same creator only, or names no admins.
LEMMA JoinKeeps ==
    ASSUME NEW old \in Community, NEW new,
           new.name \in STRING \cup {Empty}, new.image \in Images \cup {Empty},
           new.chat \in STRING \cup {Empty}, new.disabled \in BOOLEAN,
           new.census \in [type : CensusTypes, source : STRING \cup {Empty}],
           new.admins \in Admins \cup {Empty},
           Joinable(old, new), JoinCensus(old.census, new.census).source # Empty
    PROVE  Join(old, new) \in Community /\ Join(old, new).admins.first = old.admins.first
<1>1. KeepIfEmpty(old.name, new.name) \in STRING /\ KeepIfEmpty(old.image, new.image) \in Images
    BY DEF KeepIfEmpty, Community
<1>2. JoinCensus(old.census, new.census) \in Census
  <2>1. old.census.source \in STRING /\ new.census.source \in STRING \cup {Empty}
        /\ new.census.type \in CensusTypes
    BY DEF Community, Census
  <2>2. JoinCensus(old.census, new.census).source \in STRING \cup {Empty}
    BY <2>1 DEF JoinCensus
  <2> QED
    BY <2>1, <2>2 DEF JoinCensus, Census
<1>3. Join(old, new).admins \in Admins /\ Join(old, new).admins.first = old.admins.first
    BY DEF Join, Joinable, SameCreator, Community
<1>4. old.permission \in 0..1 /\ old.funds \in 0..1
    BY DEF Community
<1> QED
    BY <1>1, <1>2, <1>3, <1>4 DEF Join, Community

\* Communities join as they are.
LEMMA JoinCommunities ==
    ASSUME NEW old \in Community, NEW new \in Community, Joinable(old, new)
    PROVE  Join(old, new) \in Community /\ Join(old, new).admins.first = new.admins.first
<1>1. /\ new.name \in STRING /\ new.image \in Images /\ new.chat \in STRING \cup {Empty}
      /\ new.disabled \in BOOLEAN /\ new.census \in Census /\ new.admins \in Admins
      /\ old.census \in Census
    BY DEF Community
<1>2. JoinCensus(old.census, new.census).source = new.census.source
      /\ new.census.source # Empty
    BY <1>1, HubAssumption DEF JoinCensus, Census
<1>3. new.admins # Empty
    BY <1>1, HubAssumption
<1>4. new.admins.first = old.admins.first
    BY <1>3 DEF Joinable, SameCreator
<1> QED
    BY <1>1, <1>2, <1>4, JoinKeeps DEF Census

-----------------------------------------------------------------------------
(* Who writes what.                                                        *)

\* The contract, its transactions and the database have few writers.
LEMMA Writers ==
    ASSUME [Next]_vars
    PROVE  /\ \/ UNCHANGED chain \/ Mine
              \/ \E c \in Founded : CreateCommunity(c)
              \/ \E id \in IDs, c \in Managed : ManageCommunity(id, c)
           /\ UNCHANGED pool \/ Mine \/ \E r \in Requests : SetCommunity(r)
           /\ \/ UNCHANGED db
              \/ \E l \in Loops : AddCommunity(l) \/ UpdateCommunityToDB(l)
              \/ \E r \in Requests : Record(r)
<1>1. CASE \E c \in Founded : CreateCommunity(c)
    BY <1>1 DEF CreateCommunity
<1>2. CASE \E id \in IDs, c \in Managed : ManageCommunity(id, c)
    BY <1>2 DEF ManageCommunity
<1>3. CASE Mine
    BY <1>3 DEF Mine
<1>4. CASE SyncStep \/ ScanStep
    BY <1>4 DEF SyncStep, ScanStep, Sync, Scan, ReadContract, NotFound, ReadDB, ReadDBFails,
       AddCommunityToDB, AddCommunity, UpdateCommunityToDB, OnlyLoops, Loops
<1>5. CASE \E l \in Loops : LoopEnds(l) \/ LoopFails(l)
    BY <1>5 DEF LoopEnds, LoopFails, OnlyLoops
<1>6. CASE \E r \in Requests, ask \in Asks : SettingsHandler(r, ask)
    BY <1>6 DEF SettingsHandler, OnlyReqs
<1>7. CASE \E r \in Requests : RemoveAvatar(r) \/ UploadAvatar(r) \/ ReadForUpdate(r)
                               \/ TransactOpts(r) \/ RequestFails(r)
    BY <1>7 DEF RemoveAvatar, UploadAvatar, ReadForUpdate, TransactOpts, RequestFails, OnlyReqs
<1>8. CASE \E r \in Requests : SetCommunity(r) \/ Record(r)
    BY <1>8 DEF SetCommunity, Record, OnlyReqs
<1>9. CASE Stop \/ Restart \/ UNCHANGED vars
    BY <1>9 DEF Stop, Restart, vars
<1> QED
    BY <1>1, <1>2, <1>3, <1>4, <1>5, <1>6, <1>7, <1>8, <1>9 DEF Next

\* So have the logos, the nonce and the counters.
LEMMA OtherWriters ==
    ASSUME [Next]_vars
    PROVE  /\ \/ UNCHANGED avatars \/ \E c \in Founded : CreateCommunity(c)
              \/ \E r \in Requests : RemoveAvatar(r) \/ UploadAvatar(r)
           /\ UNCHANGED sent \/ \E r \in Requests : SetCommunity(r)
           /\ UNCHANGED changes \/ \E id \in IDs, c \in Managed : ManageCommunity(id, c)
           /\ UNCHANGED stopped \/ Stop \/ Restart
           /\ UNCHANGED crashes \/ Restart
<1>1. CASE \E c \in Founded : CreateCommunity(c)
    BY <1>1 DEF CreateCommunity
<1>2. CASE \E id \in IDs, c \in Managed : ManageCommunity(id, c)
    BY <1>2 DEF ManageCommunity
<1>3. CASE Mine
    BY <1>3 DEF Mine
<1>4. CASE SyncStep \/ ScanStep
    BY <1>4 DEF SyncStep, ScanStep, Sync, Scan, ReadContract, NotFound, ReadDB, ReadDBFails,
       AddCommunityToDB, AddCommunity, UpdateCommunityToDB, OnlyLoops
<1>5. CASE \E l \in Loops : LoopEnds(l) \/ LoopFails(l)
    BY <1>5 DEF LoopEnds, LoopFails, OnlyLoops
<1>6. CASE \E r \in Requests, ask \in Asks : SettingsHandler(r, ask)
    BY <1>6 DEF SettingsHandler, OnlyReqs
<1>7. CASE \E r \in Requests : ReadForUpdate(r) \/ TransactOpts(r) \/ Record(r) \/ RequestFails(r)
    BY <1>7 DEF ReadForUpdate, TransactOpts, Record, RequestFails, OnlyReqs
<1>8. CASE \E r \in Requests : RemoveAvatar(r) \/ UploadAvatar(r)
    BY <1>8 DEF RemoveAvatar, UploadAvatar, OnlyReqs
<1>9. CASE \E r \in Requests : SetCommunity(r)
    BY <1>9 DEF SetCommunity, OnlyReqs
<1>10. CASE Stop \/ Restart \/ UNCHANGED vars
    BY <1>10 DEF Stop, Restart, vars
<1> QED
    BY <1>1, <1>2, <1>3, <1>4, <1>5, <1>6, <1>7, <1>8, <1>9, <1>10 DEF Next

\* A community stays in the contract, with its creator.
LEMMA ChainStep == TypeOK /\ KeptInPool /\ [Next]_vars => ChainGrows
<1> SUFFICES ASSUME TypeOK, KeptInPool, [Next]_vars PROVE ChainGrows
    OBVIOUS
<1>1. chain \in Seq(Community) /\ pool \in Seq([id : IDs, data : Community])
    BY DEF TypeOK
<1>2. ASSUME NEW c \in Founded, CreateCommunity(c) PROVE ChainGrows
    BY <1>1, <1>2 DEF CreateCommunity, ChainGrows
<1>3. ASSUME NEW i \in IDs, NEW c \in Managed, ManageCommunity(i, c) PROVE ChainGrows
    BY <1>1, <1>3 DEF ManageCommunity, ChainGrows
<1>4. CASE Mine
  <2>1. 1 \in DOMAIN pool /\ Head(pool) = pool[1]
    BY <1>1, <1>4 DEF Mine
  <2>2. Head(pool).data.admins.first = chain[Head(pool).id].admins.first
    BY <2>1 DEF KeptInPool, OfChain
  <2> QED
    BY <1>1, <1>4, <2>2 DEF Mine, ChainGrows
<1>5. CASE UNCHANGED chain
    BY <1>5 DEF ChainGrows
<1> QED
    BY <1>2, <1>3, <1>4, <1>5, Writers

\* What is of the contract stays so.
LEMMA OfChainStays ==
    ASSUME ChainGrows, NEW id, NEW c, OfChain(id, c)
    PROVE  /\ id \in DOMAIN chain' /\ c \in Community
           /\ c.admins.first = chain'[id].admins.first
BY DEF ChainGrows, OfChain

-----------------------------------------------------------------------------
(* What is kept.                                                           *)

\* The database takes what the loops and the requests have.
LEMMA DBStep ==
    TypeOK /\ KeptInDB /\ KeptInLoops /\ KeptInRequests /\ ChainGrows /\ [Next]_vars
    => KeptInDB' /\ \A id \in IDs : db[id] \in Community => db'[id] \in Community
<1> SUFFICES ASSUME TypeOK, KeptInDB, KeptInLoops, KeptInRequests, ChainGrows, [Next]_vars,
                    NEW id \in IDs
             PROVE  /\ db'[id] \in Community => OfChain(id, db[id])'
                    /\ db[id] \in Community => db'[id] \in Community
    BY DEF KeptInDB
<1>1. db[id] \in Community => OfChain(id, db[id])
    BY DEF KeptInDB
<1>2. db \in [IDs -> Community \cup {Nil}]
    BY DEF TypeOK
<1>3. ASSUME NEW k, NEW c, OfChain(k, c),
             db' = [db EXCEPT ![k] = Stored(@, c)] \/ db' = [db EXCEPT ![k] = Stored(Nil, c)]
      PROVE  /\ db'[id] \in Community => OfChain(id, db[id])'
             /\ db[id] \in Community => db'[id] \in Community
  <2>1. CASE id # k
    BY <1>1, <1>2, <1>3, <2>1, OfChainStays DEF OfChain
  <2>2. CASE id = k
    <3>1. db'[id] = Stored(db[id], c) \/ db'[id] = Stored(Nil, c)
        BY <1>2, <1>3, <2>2
    <3>2. db'[id] \in Community /\ db'[id].admins = c.admins
        BY <1>2, <1>3, <3>1, StoredKeeps DEF OfChain
    <3>3. id \in DOMAIN chain' /\ c.admins.first = chain'[id].admins.first
        BY <1>3, <2>2, OfChainStays
    <3> QED
        BY <3>2, <3>3 DEF OfChain
  <2> QED
    BY <2>1, <2>2
<1>4. CASE UNCHANGED db
    BY <1>1, <1>4, OfChainStays DEF OfChain
<1>5. ASSUME NEW l \in Loops, AddCommunity(l)
      PROVE  UNCHANGED db \/ (/\ OfChain(loop[l].id, loop[l].data)
                              /\ db' = [db EXCEPT ![loop[l].id] = Stored(Nil, loop[l].data)])
    BY <1>5 DEF AddCommunity, KeptInLoops, LoopKeeps
<1>6. ASSUME NEW l \in Loops, UpdateCommunityToDB(l)
      PROVE  /\ OfChain(loop[l].id, loop[l].data)
             /\ db' = [db EXCEPT ![loop[l].id] = Stored(@, loop[l].data)]
    BY <1>6 DEF UpdateCommunityToDB, KeptInLoops, LoopKeeps
<1>7. ASSUME NEW r \in Requests, Record(r)
      PROVE  /\ OfChain(req[r].ask.id, req[r].data)
             /\ db' = [db EXCEPT ![req[r].ask.id] = Stored(@, req[r].data)]
    BY <1>7 DEF Record, KeptInRequests, RequestKeeps
<1> QED
    BY <1>3, <1>4, <1>5, <1>6, <1>7, Writers

\* A transaction carries what its request had.
LEMMA PoolStep ==
    TypeOK /\ KeptInPool /\ KeptInRequests /\ ChainGrows /\ [Next]_vars => KeptInPool'
<1> SUFFICES ASSUME TypeOK, KeptInPool, KeptInRequests, ChainGrows, [Next]_vars
             PROVE  KeptInPool'
    OBVIOUS
<1>1. pool \in Seq([id : IDs, data : Community])
    BY DEF TypeOK
<1>2. CASE UNCHANGED pool
    BY <1>2, OfChainStays DEF KeptInPool, OfChain
<1>3. CASE Mine
  <2>1. \A i \in DOMAIN pool' : i + 1 \in DOMAIN pool /\ pool'[i] = pool[i + 1]
    BY <1>1, <1>3 DEF Mine
  <2> QED
    BY <2>1, OfChainStays DEF KeptInPool, OfChain
<1>4. ASSUME NEW r \in Requests, SetCommunity(r) PROVE KeptInPool'
  <2>1. OfChain(req[r].ask.id, req[r].data)
    BY <1>4 DEF SetCommunity, KeptInRequests, RequestKeeps
  <2>2. ASSUME NEW i \in DOMAIN pool'
        PROVE  \/ i \in DOMAIN pool /\ pool'[i] = pool[i]
               \/ pool'[i].id = req[r].ask.id /\ pool'[i].data = req[r].data
    BY <1>1, <1>4, <2>2 DEF SetCommunity
  <2> QED
    BY <2>1, <2>2, OfChainStays DEF KeptInPool, OfChain
<1> QED
    BY <1>2, <1>3, <1>4, Writers

\* A loop that is done with one community goes to the next or sleeps.
LEMMA NextIDKeeps ==
    ASSUME NEW l \in Loops, loop \in [Loops -> LoopState]
    PROVE  NextID(l) \in LoopState /\ LoopKeeps(NextID(l))
<1>1. loop[l].id \in 0..MaxID + 1 /\ loop[l].next \in 0..MaxID + 1
    BY DEF LoopState
<1>2. MaxID \in Nat
    BY HubAssumption
<1>3. IdleLoop \in LoopState /\ LoopKeeps(IdleLoop)
    BY <1>2 DEF IdleLoop, LoopState, LoopAt, LoopKeeps
<1>4. ASSUME loop[l].id + 1 < loop[l].next
      PROVE  [at |-> "read", id |-> loop[l].id + 1, next |-> loop[l].next, data |-> Nil]
                \in LoopState
    BY <1>1, <1>2, <1>4 DEF LoopState, LoopAt
<1> QED
    BY <1>1, <1>2, <1>3, <1>4 DEF NextID, LoopKeeps

\* Where a loop goes, it has data of the contract.
LEMMA LoopMoves ==
    ASSUME TypeOK, KeptInDB, KeptInLoops, [Next]_vars
    PROVE  \/ UNCHANGED loop \/ Restart
           \/ \E l \in Loops, step \in LoopState : Go(l, step) /\ LoopKeeps(step)
<1> DEFINE Moves == \E l \in Loops, step \in LoopState : Go(l, step) /\ LoopKeeps(step)
<1>1. /\ loop \in [Loops -> LoopState] /\ db \in [IDs -> Community \cup {Nil}]
      /\ chain \in Seq(Community) /\ Len(chain) <= MaxID /\ MaxID \in Nat
      /\ Nil \notin Community
    BY HubAssumption DEF TypeOK
<1>2. NextContractID \in 1..MaxID + 1 /\ DOMAIN chain \subseteq IDs
    BY <1>1 DEF NextContractID, IDs
<1>3. \A l \in Loops : NextID(l) \in LoopState /\ LoopKeeps(NextID(l)) /\ LoopKeeps(loop[l])
    BY <1>1, NextIDKeeps DEF KeptInLoops
<1>4. ASSUME NEW l \in Loops, Go(l, NextID(l)) PROVE Moves
    BY <1>3, <1>4
<1>5. ASSUME NEW l \in Loops, NEW a \in {"add", "insert", "write"},
             OfChain(loop[l].id, loop[l].data), Go(l, [loop[l] EXCEPT !.at = a])
      PROVE  Moves
  <2>1. [loop[l] EXCEPT !.at = a] \in LoopState /\ LoopKeeps([loop[l] EXCEPT !.at = a])
    BY <1>1, <1>5 DEF LoopState, LoopAt, LoopKeeps
  <2> QED
    BY <1>5, <2>1
<1>6. ASSUME NEW l \in Loops, NEW a \in {"db", "add", "write"}, NEW c \in Community,
             OfChain(loop[l].id, c), Go(l, [loop[l] EXCEPT !.at = a, !.data = c])
      PROVE  Moves
  <2>1. /\ [loop[l] EXCEPT !.at = a, !.data = c] \in LoopState
        /\ LoopKeeps([loop[l] EXCEPT !.at = a, !.data = c])
    BY <1>1, <1>6 DEF LoopState, LoopAt, LoopKeeps
  <2> QED
    BY <1>6, <2>1
<1>7. ASSUME Sync PROVE Moves
  <2>1. [at |-> "read", id |-> 1, next |-> NextContractID, data |-> Nil] \in LoopState
    BY <1>1, <1>2 DEF LoopState, LoopAt
  <2> QED
    BY <1>7, <2>1 DEF Sync, Loops, LoopKeeps
<1>8. ASSUME Scan PROVE Moves
  <2>1. [at |-> "read", id |-> NextContractID, next |-> 0, data |-> Nil] \in LoopState
    BY <1>1, <1>2 DEF LoopState, LoopAt
  <2> QED
    BY <1>8, <2>1 DEF Scan, Loops, LoopKeeps
<1>9. ASSUME NEW l \in Loops, ReadContract(l) PROVE Moves
  <2>1. /\ chain[loop[l].id] \in Community /\ OfChain(loop[l].id, chain[loop[l].id])
    BY <1>1, <1>9 DEF ReadContract, Found, OfChain
  <2>2. \E a \in {"db", "add"} :
           Go(l, [loop[l] EXCEPT !.at = a, !.data = chain[loop[l].id]])
    BY <1>9 DEF ReadContract
  <2> QED
    BY <1>6, <2>1, <2>2
<1>10. ASSUME ReadDB PROVE Moves
  <2> DEFINE k == loop["sync"]
             old == DBToHub(db[k.id])
  <2>1. "sync" \in Loops
    BY DEF Loops
  <2>2. OfChain(k.id, k.data) /\ k.at = "db"
    BY <1>3, <1>10, <2>1 DEF ReadDB, LoopKeeps
  <2>3. CASE /\ db[k.id] # Nil /\ Joinable(old, k.data)
             /\ Go("sync", [k EXCEPT !.at = "write", !.data = Join(old, @)])
    <3>1. db[k.id] \in Community
        BY <1>1, <1>2, <2>2, <2>3 DEF OfChain
    <3>2. old \in Community /\ k.data \in Community
        BY <2>2, <3>1, DBToHubKeeps DEF OfChain
    <3>3. Join(old, k.data) \in Community /\ OfChain(k.id, Join(old, k.data))
        BY <2>2, <2>3, <3>2, JoinCommunities DEF OfChain
    <3>4. Go("sync", [k EXCEPT !.at = "write", !.data = Join(old, k.data)])
        BY <2>3
    <3> HIDE DEF old
    <3> QED
        BY <1>6, <2>1, <3>3, <3>4
  <2>4. CASE Go("sync", NextID("sync"))
    BY <1>4, <2>1, <2>4
  <2>5. CASE Go("sync", [k EXCEPT !.at = "add"])
    BY <1>5, <2>1, <2>2, <2>5
  <2> QED
    BY <1>10, <2>3, <2>4, <2>5 DEF ReadDB
<1>11. ASSUME ReadDBFails PROVE Moves
    BY <1>3, <1>5, <1>11 DEF ReadDBFails, Loops, LoopKeeps
<1>12. ASSUME NEW l \in Loops, AddCommunityToDB(l) PROVE Moves
  <2>1. OfChain(loop[l].id, loop[l].data)
    BY <1>3, <1>12 DEF AddCommunityToDB, LoopKeeps
  <2>2. \E a \in {"insert", "write"} : Go(l, [loop[l] EXCEPT !.at = a])
    BY <1>12 DEF AddCommunityToDB
  <2> QED
    BY <1>5, <2>1, <2>2
<1>13. ASSUME NEW l \in Loops,
              AddCommunity(l) \/ UpdateCommunityToDB(l) \/ LoopFails(l) \/ NotFound(l)
       PROVE  Moves
    BY <1>4, <1>13 DEF AddCommunity, UpdateCommunityToDB, LoopFails, NotFound
<1>14. ASSUME NEW l \in Loops, LoopEnds(l) PROVE Moves
  <2>1. [IdleLoop EXCEPT !.at = "ended"] \in LoopState
    BY <1>1 DEF LoopState, LoopAt, IdleLoop
  <2>2. [IdleLoop EXCEPT !.at = "ended"].at = "ended"
    BY DEF IdleLoop
  <2> QED
    BY <1>14, <2>1, <2>2 DEF LoopEnds, LoopKeeps
<1> HIDE DEF Moves
<1>a. "sync" \in Loops /\ "scan" \in Loops
    BY DEF Loops
<1>15. ASSUME SyncStep PROVE Moves
    BY <1>7, <1>9, <1>10, <1>11, <1>12, <1>13, <1>a, <1>15 DEF SyncStep
<1>16. ASSUME ScanStep PROVE Moves
    BY <1>8, <1>9, <1>12, <1>13, <1>a, <1>16 DEF ScanStep
<1>17. CASE \E c \in Founded : CreateCommunity(c)
    BY <1>17 DEF CreateCommunity
<1>18. CASE Mine \/ Stop \/ \E id \in IDs, c \in Managed : ManageCommunity(id, c)
    BY <1>18 DEF Mine, Stop, ManageCommunity
<1>19. CASE \E r \in Requests, ask \in Asks : SettingsHandler(r, ask)
    BY <1>19 DEF SettingsHandler, OnlyReqs
<1>20. CASE \E r \in Requests :
               \/ RemoveAvatar(r) \/ UploadAvatar(r) \/ ReadForUpdate(r) \/ TransactOpts(r)
               \/ SetCommunity(r) \/ Record(r) \/ RequestFails(r)
    BY <1>20 DEF RemoveAvatar, UploadAvatar, ReadForUpdate, TransactOpts, SetCommunity, Record,
       RequestFails, OnlyReqs
<1> QED
    BY <1>13, <1>14, <1>15, <1>16, <1>17, <1>18, <1>19, <1>20 DEF Next, vars, Moves

\* Where a request goes, it has data of a community, and of the contract in the end.
LEMMA RequestMoves ==
    ASSUME TypeOK, KeptInDB, KeptInRequests, [Next]_vars
    PROVE  \/ UNCHANGED req \/ Restart
           \/ \E r \in Requests, step \in ReqState : Set(r, step) /\ RequestKeeps(step)
<1> DEFINE Moves == \E r \in Requests, step \in ReqState : Set(r, step) /\ RequestKeeps(step)
<1>1. /\ req \in [Requests -> ReqState] /\ db \in [IDs -> Community \cup {Nil}]
      /\ chain \in Seq(Community) /\ sent \in Nat
      /\ Nil \notin Community /\ Nil \notin Asks
    BY HubAssumption DEF TypeOK
<1>2. IdleReq \in ReqState
    BY DEF IdleReq, ReqState, ReqAt
<1>3. \A r \in Requests : req[r] \in ReqState /\ RequestKeeps(req[r])
    BY <1>1 DEF KeptInRequests
<1>4. ASSUME NEW r \in Requests, Set(r, [IdleReq EXCEPT !.at = "done"]) PROVE Moves
  <2>1. [IdleReq EXCEPT !.at = "done"] \in ReqState /\ [IdleReq EXCEPT !.at = "done"].at = "done"
    BY <1>2 DEF ReqState, ReqAt
  <2> QED
    BY <1>4, <2>1 DEF RequestKeeps
<1>5. ASSUME NEW r \in Requests, NEW ask \in Asks, SettingsHandler(r, ask) PROVE Moves
  <2> DEFINE a == IF ask.image \in {Empty, db[ask.id].image} THEN "update" ELSE "avatar"
             c == [db[ask.id] EXCEPT !.disabled = IF ask.disabled = Nil THEN @ ELSE ask.disabled]
             step == [IdleReq EXCEPT !.at = a, !.ask = ask, !.data = c]
  <2>1. ask \in Settings
    BY HubAssumption
  <2>2. ask.id \in IDs /\ ask.image \in Images \cup {Empty} /\ ask.disabled \in BOOLEAN \cup {Nil}
    BY <2>1 DEF Settings
  <2>3. db[ask.id] \in Community
    BY <1>1, <1>5, <2>2 DEF SettingsHandler
  <2>4. c \in Community
    BY <2>2, <2>3 DEF Community
  <2>5. a \in {"update", "avatar"} /\ (a = "avatar" => ask.image \in Images)
    BY <2>2
  <2>6. Set(r, step)
    BY <1>5 DEF SettingsHandler
  <2> HIDE DEF a, c
  <2>7. step \in ReqState /\ step.at = a /\ step.ask = ask /\ step.data = c
    BY <1>2, <2>4, <2>5 DEF ReqState, ReqAt
  <2> HIDE DEF step
  <2> QED
    BY <2>3, <2>4, <2>5, <2>6, <2>7 DEF RequestKeeps
<1>6. ASSUME NEW r \in Requests, RemoveAvatar(r) \/ UploadAvatar(r) \/ SetCommunity(r) PROVE Moves
  <2>1. PICK a \in {"upload", "update", "record"} :
           /\ Set(r, [req[r] EXCEPT !.at = a])
           /\ a = "upload" => req[r].at = "avatar"
           /\ a = "update" => req[r].at = "upload"
           /\ a = "record" => req[r].at = "send"
    BY <1>6 DEF RemoveAvatar, UploadAvatar, SetCommunity
  <2> DEFINE step == [req[r] EXCEPT !.at = a]
  <2>2. step \in ReqState /\ step.at = a /\ step.ask = req[r].ask /\ step.data = req[r].data
    BY <1>3 DEF ReqState, ReqAt
  <2>3. RequestKeeps(step)
    BY <1>3, <2>1, <2>2 DEF RequestKeeps
  <2> QED
    BY <2>1, <2>2, <2>3
<1>7. ASSUME NEW r \in Requests, ReadForUpdate(r) PROVE Moves
  <2> DEFINE ask == req[r].ask
             new == [name |-> ask.name, image |-> ask.image, chat |-> ask.chat,
                     census |-> ask.census, admins |-> ask.admins,
                     disabled |-> req[r].data.disabled, permission |-> 0, funds |-> 0]
             old == DBToHub(db[ask.id])
             step == [req[r] EXCEPT !.at = "prepare", !.data = Join(old, new)]
  <2>1. ask \in Asks /\ req[r].data \in Community /\ db[ask.id] \in Community
    BY <1>3, <1>7 DEF ReadForUpdate, RequestKeeps
  <2>2. ask \in Settings
    BY <2>1, HubAssumption
  <2>3. old \in Community /\ old.admins.first = db[ask.id].admins.first
    BY <2>1, DBToHubKeeps
  <2>4. CASE Joinable(old, new) /\ Valid(Join(old, new)) /\ Set(r, step)
    <3>1. /\ new.name \in STRING \cup {Empty} /\ new.image \in Images \cup {Empty}
          /\ new.chat \in STRING \cup {Empty} /\ new.disabled \in BOOLEAN
          /\ new.census \in [type : CensusTypes, source : STRING \cup {Empty}]
          /\ new.admins \in Admins \cup {Empty}
        BY <2>1, <2>2 DEF Settings, Community
    <3>2. JoinCensus(old.census, new.census).source # Empty
        BY <2>4 DEF Valid, Join
    <3> HIDE DEF new, old
    <3>3. Join(old, new) \in Community /\ Join(old, new).admins.first = old.admins.first
        BY <2>3, <2>4, <3>1, <3>2, JoinKeeps
    <3>4. ask.id \in DOMAIN chain /\ Join(old, new).admins.first = chain[ask.id].admins.first
        BY <2>1, <2>2, <2>3, <3>3 DEF KeptInDB, OfChain, Settings
    <3>5. /\ step \in ReqState /\ step.at = "prepare" /\ step.ask = ask
          /\ step.data = Join(old, new)
        BY <1>3, <3>3 DEF ReqState, ReqAt
    <3> HIDE DEF ask, step
    <3>6. RequestKeeps(step)
        BY <2>1, <3>3, <3>4, <3>5 DEF RequestKeeps, OfChain
    <3> QED
        BY <2>4, <3>5, <3>6
  <2> QED
    BY <1>4, <1>7, <2>4 DEF ReadForUpdate
<1>8. ASSUME NEW r \in Requests, TransactOpts(r) PROVE Moves
  <2>1. PICK funds \in {0, chain[req[r].ask.id].funds} :
           Set(r, [req[r] EXCEPT !.at = "send", !.nonce = sent, !.data.funds = funds])
    BY <1>8 DEF TransactOpts
  <2>2. req[r].data \in Community /\ OfChain(req[r].ask.id, req[r].data)
        /\ req[r].ask \in Asks /\ db[req[r].ask.id] \in Community
    BY <1>3, <1>8 DEF TransactOpts, RequestKeeps
  <2>3. funds \in 0..1
    <3>1. chain[req[r].ask.id] \in Community
        BY <1>1, <2>2 DEF OfChain
    <3> QED
        BY <2>1, <3>1 DEF Community
  <2> DEFINE c == [req[r].data EXCEPT !.funds = funds]
             step == [req[r] EXCEPT !.at = "send", !.nonce = sent, !.data = c]
  <2>4. c \in Community /\ c.admins = req[r].data.admins
    BY <2>2, <2>3 DEF Community
  <2>5. Set(r, step)
    BY <1>3, <2>1 DEF ReqState
  <2> HIDE DEF c
  <2>6. step \in ReqState /\ step.at = "send" /\ step.ask = req[r].ask /\ step.data = c
    BY <1>1, <1>3, <2>4 DEF ReqState, ReqAt
  <2> HIDE DEF step
  <2>7. RequestKeeps(step)
    BY <2>2, <2>4, <2>6 DEF RequestKeeps, OfChain
  <2> QED
    BY <2>5, <2>6, <2>7
<1>9. ASSUME NEW r \in Requests, Record(r) \/ RequestFails(r) PROVE Moves
    BY <1>4, <1>9 DEF Record, RequestFails
<1> HIDE DEF Moves
<1>10. CASE SyncStep \/ ScanStep
    BY <1>10 DEF SyncStep, ScanStep, Sync, Scan, ReadContract, NotFound, ReadDB, ReadDBFails,
       AddCommunityToDB, AddCommunity, UpdateCommunityToDB, OnlyLoops
<1>11. CASE \E c \in Founded : CreateCommunity(c)
    BY <1>11 DEF CreateCommunity
<1>12. CASE Mine \/ Stop \/ \E id \in IDs, c \in Managed : ManageCommunity(id, c)
    BY <1>12 DEF Mine, Stop, ManageCommunity
<1>13. CASE \E l \in Loops : LoopEnds(l) \/ LoopFails(l)
    BY <1>13 DEF LoopEnds, LoopFails, OnlyLoops
<1> QED
    BY <1>5, <1>6, <1>7, <1>8, <1>9, <1>10, <1>11, <1>12, <1>13 DEF Next, vars, Moves

-----------------------------------------------------------------------------
(* The invariant is inductive.                                             *)

\* What the loops have stays of the contract.
LEMMA LoopStep ==
    TypeOK /\ KeptInDB /\ KeptInLoops /\ ChainGrows /\ [Next]_vars
    => loop' \in [Loops -> LoopState] /\ KeptInLoops'
<1> SUFFICES ASSUME TypeOK, KeptInDB, KeptInLoops, ChainGrows, [Next]_vars
             PROVE  loop' \in [Loops -> LoopState] /\ KeptInLoops'
    OBVIOUS
<1>1. loop \in [Loops -> LoopState] /\ \A l \in Loops : LoopKeeps(loop[l])
    BY DEF TypeOK, KeptInLoops
<1>2. ASSUME NEW k, LoopKeeps(k)
      PROVE  k.at \in {"db", "add", "insert", "write"} =>
                /\ k.id \in DOMAIN chain' /\ k.data \in Community
                /\ k.data.admins.first = chain'[k.id].admins.first
    BY <1>2, OfChainStays DEF LoopKeeps
<1>3. CASE UNCHANGED loop
    BY <1>1, <1>2, <1>3 DEF KeptInLoops, LoopKeeps, OfChain
<1>4. CASE Restart
  <2>1. IdleLoop \in LoopState /\ IdleLoop.at = "idle"
    BY HubAssumption DEF IdleLoop, LoopState, LoopAt
  <2>2. loop' = [l \in Loops |-> IdleLoop]
    BY <1>4 DEF Restart
  <2> QED
    BY <2>1, <2>2 DEF KeptInLoops, LoopKeeps
<1>5. ASSUME NEW l \in Loops, NEW step \in LoopState, Go(l, step), LoopKeeps(step)
      PROVE  loop' \in [Loops -> LoopState] /\ KeptInLoops'
  <2>1. loop' = [loop EXCEPT ![l] = step]
    BY <1>5 DEF Go
  <2>2. \A m \in Loops : loop'[m] = loop[m] \/ loop'[m] = step
    BY <1>1, <2>1
  <2> QED
    BY <1>1, <1>2, <1>5, <2>1, <2>2 DEF KeptInLoops, LoopKeeps, OfChain
<1> QED
    BY <1>3, <1>4, <1>5, LoopMoves

\* So does what the requests have, and their community stays in the database.
LEMMA RequestStep ==
    TypeOK /\ KeptInDB /\ KeptInRequests /\ KeptInLoops /\ ChainGrows /\ [Next]_vars
    => req' \in [Requests -> ReqState] /\ KeptInRequests'
<1> SUFFICES ASSUME TypeOK, KeptInDB, KeptInRequests, KeptInLoops, ChainGrows, [Next]_vars
             PROVE  req' \in [Requests -> ReqState] /\ KeptInRequests'
    OBVIOUS
<1>1. req \in [Requests -> ReqState] /\ \A r \in Requests : RequestKeeps(req[r])
    BY DEF TypeOK, KeptInRequests
<1>2. \A id \in IDs : db[id] \in Community => db'[id] \in Community
    BY DBStep
<1>3. ASSUME NEW k, RequestKeeps(k)
      PROVE  /\ k.at \notin {"idle", "done"} =>
                  k.ask \in Asks /\ k.data \in Community /\ db'[k.ask.id] \in Community
             /\ k.at \in {"avatar", "upload"} => k.ask.image \in Images
             /\ k.at \in {"prepare", "send", "record"} =>
                  /\ k.ask.id \in DOMAIN chain' /\ k.data \in Community
                  /\ k.data.admins.first = chain'[k.ask.id].admins.first
  <2>1. k.ask \in Asks => k.ask.id \in IDs
    BY HubAssumption DEF Settings
  <2> QED
    BY <1>2, <1>3, <2>1, OfChainStays DEF RequestKeeps
<1>4. CASE UNCHANGED req
    BY <1>1, <1>3, <1>4 DEF KeptInRequests, RequestKeeps, OfChain
<1>5. CASE Restart
  <2>1. IdleReq \in ReqState /\ IdleReq.at = "idle"
    BY DEF IdleReq, ReqState, ReqAt
  <2>2. [IdleReq EXCEPT !.at = "done"] \in ReqState /\ [IdleReq EXCEPT !.at = "done"].at = "done"
    BY <2>1 DEF ReqState, ReqAt
  <2>3. req' = [r \in Requests |-> IF req[r].at = "idle" THEN IdleReq
                                   ELSE [IdleReq EXCEPT !.at = "done"]]
    BY <1>5 DEF Restart
  <2>4. \A r \in Requests : req'[r] \in ReqState /\ req'[r].at \in {"idle", "done"}
    BY <2>1, <2>2, <2>3
  <2> QED
    BY <2>3, <2>4 DEF KeptInRequests, RequestKeeps
<1>6. ASSUME NEW r \in Requests, NEW step \in ReqState, Set(r, step), RequestKeeps(step)
      PROVE  req' \in [Requests -> ReqState] /\ KeptInRequests'
  <2>1. req' = [req EXCEPT ![r] = step]
    BY <1>6 DEF Set
  <2>2. \A q \in Requests : req'[q] = req[q] \/ req'[q] = step
    BY <1>1, <2>1
  <2> QED
    BY <1>1, <1>3, <1>6, <2>1, <2>2 DEF KeptInRequests, RequestKeeps, OfChain
<1> QED
    BY <1>4, <1>5, <1>6, RequestMoves

\* The contract and the database hold communities, and the server its logos.
LEMMA TypeStep == HubInvariant /\ [Next]_vars => TypeOK'
<1> SUFFICES ASSUME HubInvariant, [Next]_vars PROVE TypeOK'
    OBVIOUS
<1>1. TypeOK /\ KeptInDB /\ KeptInPool /\ KeptInLoops /\ KeptInRequests /\ ChainGrows
    BY ChainStep DEF HubInvariant
<1>2. loop' \in [Loops -> LoopState] /\ req' \in [Requests -> ReqState]
    BY <1>1, LoopStep, RequestStep
<1>3. /\ MaxID \in Nat /\ MaxChanges \in Nat /\ MaxCrashes \in Nat
      /\ Founded \subseteq Community /\ Managed \subseteq Community
    BY HubAssumption
<1>4. chain' \in Seq(Community) /\ Len(chain') <= MaxID
  <2>1. chain \in Seq(Community) /\ Len(chain) <= MaxID
    BY <1>1 DEF TypeOK
  <2>2. ASSUME NEW c \in Founded, CreateCommunity(c)
        PROVE  chain' \in Seq(Community) /\ Len(chain') <= MaxID
    BY <1>3, <2>1, <2>2 DEF CreateCommunity
  <2>3. ASSUME NEW id \in 1..Len(chain), NEW c \in Community, chain' = [chain EXCEPT ![id] = c]
        PROVE  chain' \in Seq(Community) /\ Len(chain') <= MaxID
    BY <2>1, <2>3, ExceptSeq
  <2>4. ASSUME NEW id \in IDs, NEW c \in Managed, ManageCommunity(id, c)
        PROVE  chain' \in Seq(Community) /\ Len(chain') <= MaxID
    BY <1>3, <2>1, <2>3, <2>4 DEF ManageCommunity
  <2>5. CASE Mine
    <3>1. pool \in Seq([id : IDs, data : Community]) /\ pool # <<>>
        BY <1>1, <2>5 DEF TypeOK, Mine
    <3>2. Head(pool) \in [id : IDs, data : Community]
        BY <3>1, HeadTailProperties
    <3>3. Head(pool).data \in Community
        BY <3>2
    <3>4. Head(pool).id \in 1..Len(chain)
      <4>1. Head(pool) = pool[1] /\ 1 \in DOMAIN pool
        BY <3>1
      <4> QED
        BY <1>1, <2>1, <4>1 DEF KeptInPool, OfChain
    <3> QED
        BY <2>1, <2>3, <2>5, <3>3, <3>4 DEF Mine
  <2> QED
    BY <2>1, <2>2, <2>4, <2>5, Writers
<1>5. pool' \in Seq([id : IDs, data : Community])
  <2>1. pool \in Seq([id : IDs, data : Community])
    BY <1>1 DEF TypeOK
  <2>2. ASSUME NEW r \in Requests, SetCommunity(r) PROVE pool' \in Seq([id : IDs, data : Community])
    <3>1. OfChain(req[r].ask.id, req[r].data) /\ req[r].ask \in Asks
        BY <1>1, <2>2 DEF SetCommunity, KeptInRequests, RequestKeeps
    <3>2. [id |-> req[r].ask.id, data |-> req[r].data] \in [id : IDs, data : Community]
        BY <3>1, HubAssumption DEF OfChain, Settings
    <3> QED
        BY <2>1, <2>2, <3>2 DEF SetCommunity
  <2>3. CASE Mine
    BY <2>1, <2>3 DEF Mine
  <2> QED
    BY <2>1, <2>2, <2>3, Writers
<1>6. db' \in [IDs -> Community \cup {Nil}]
  <2>1. db \in [IDs -> Community \cup {Nil}]
    BY <1>1 DEF TypeOK
  <2>2. ASSUME NEW k, NEW old \in {db[k], Nil}, NEW c \in Community, k \in IDs,
               db' = [db EXCEPT ![k] = Stored(old, c)]
        PROVE  db' \in [IDs -> Community \cup {Nil}]
    BY <2>1, <2>2, StoredKeeps
  <2>3. DOMAIN chain \subseteq IDs
    BY <1>1, <1>3 DEF TypeOK, IDs
  <2>4. ASSUME NEW l \in Loops, AddCommunity(l) \/ UpdateCommunityToDB(l)
        PROVE  db' \in [IDs -> Community \cup {Nil}]
    <3>1. OfChain(loop[l].id, loop[l].data)
        BY <1>1, <2>4 DEF AddCommunity, UpdateCommunityToDB, KeptInLoops, LoopKeeps
    <3> QED
        BY <2>1, <2>2, <2>3, <2>4, <3>1 DEF AddCommunity, UpdateCommunityToDB, OfChain
  <2>5. ASSUME NEW r \in Requests, Record(r) PROVE db' \in [IDs -> Community \cup {Nil}]
    <3>1. OfChain(req[r].ask.id, req[r].data)
        BY <1>1, <2>5 DEF Record, KeptInRequests, RequestKeeps
    <3> QED
        BY <2>2, <2>3, <2>5, <3>1 DEF Record, OfChain
  <2> QED
    BY <2>1, <2>4, <2>5, Writers
<1>7. avatars' \subseteq Images /\ sent' \in Nat
  <2>1. avatars \subseteq Images /\ sent \in Nat
    BY <1>1 DEF TypeOK
  <2>2. \A c \in Founded : c.image \in Images
    BY <1>3 DEF Community
  <2>3. \A r \in Requests : req[r].at = "upload" => req[r].ask.image \in Images
    BY <1>1 DEF KeptInRequests, RequestKeeps
  <2>4. ASSUME NEW r \in Requests, RemoveAvatar(r) \/ UploadAvatar(r) PROVE avatars' \subseteq Images
    BY <2>1, <2>3, <2>4 DEF RemoveAvatar, UploadAvatar
  <2>5. ASSUME NEW c \in Founded, CreateCommunity(c) PROVE avatars' \subseteq Images
    BY <2>1, <2>2, <2>5 DEF CreateCommunity
  <2>6. avatars' \subseteq Images
    BY <2>1, <2>4, <2>5, OtherWriters
  <2>7. sent' \in Nat
    <3>1. ASSUME NEW r \in Requests, SetCommunity(r) PROVE sent' = sent + 1
        BY <3>1 DEF SetCommunity
    <3>2. sent' = sent \/ sent' = sent + 1
        BY <3>1, OtherWriters
    <3> QED
        BY <2>1, <3>2
  <2> QED
    BY <2>6, <2>7
<1>8. stopped' \in BOOLEAN /\ changes' \in 0..MaxChanges /\ crashes' \in 0..MaxCrashes
  <2>1. stopped \in BOOLEAN /\ changes \in 0..MaxChanges /\ crashes \in 0..MaxCrashes
    BY <1>1 DEF TypeOK
  <2>2. stopped' \in BOOLEAN
    BY <2>1, OtherWriters DEF Stop, Restart
  <2>3. changes' \in 0..MaxChanges
    BY <1>3, <2>1, OtherWriters DEF ManageCommunity
  <2>4. crashes' \in 0..MaxCrashes
    <3>1. CASE Restart
        BY <1>3, <2>1, <3>1 DEF Restart
    <3>2. CASE UNCHANGED crashes
        BY <2>1, <3>2
    <3> QED
        BY <3>1, <3>2, OtherWriters
  <2> QED
    BY <2>2, <2>3, <2>4
<1> QED
    BY <1>2, <1>4, <1>5, <1>6, <1>7, <1>8 DEF TypeOK

\* It holds before there are communities.
LEMMA InitInvariant == Init => HubInvariant
<1> SUFFICES ASSUME Init PROVE HubInvariant
    OBVIOUS
<1>1. IdleLoop \in LoopState /\ IdleLoop.at = "idle" /\ IdleReq \in ReqState /\ IdleReq.at = "idle"
    BY HubAssumption DEF IdleLoop, LoopState, LoopAt, IdleReq, ReqState, ReqAt
<1>2. TypeOK
  <2>1. /\ chain \in Seq(Community) /\ Len(chain) <= MaxID
        /\ pool \in Seq([id : IDs, data : Community])
    <3>1. chain = <<>> /\ pool = <<>>
        BY DEF Init
    <3>2. MaxID \in Nat
        BY HubAssumption
    <3> QED
        BY <3>1, <3>2, EmptySeq
  <2>2. db \in [IDs -> Community \cup {Nil}] /\ avatars \subseteq Images /\ sent \in Nat
    BY DEF Init
  <2>3. loop \in [Loops -> LoopState] /\ req \in [Requests -> ReqState]
    BY <1>1 DEF Init
  <2>4. stopped \in BOOLEAN /\ changes \in 0..MaxChanges /\ crashes \in 0..MaxCrashes
    <3>1. stopped \in BOOLEAN /\ changes = 0 /\ crashes = 0
        BY DEF Init
    <3>2. 0 \in 0..MaxChanges /\ 0 \in 0..MaxCrashes
        BY HubAssumption
    <3> QED
        BY <3>1, <3>2
  <2> QED
    BY <2>1, <2>2, <2>3, <2>4 DEF TypeOK
<1>3. KeptInDB /\ KeptInPool /\ KeptInLoops /\ KeptInRequests
    BY <1>1, HubAssumption DEF Init, KeptInDB, KeptInPool, KeptInLoops, KeptInRequests, LoopKeeps,
       RequestKeeps
<1> QED
    BY <1>2, <1>3 DEF HubInvariant

\* It is inductive.
LEMMA StepInvariant == HubInvariant /\ [Next]_vars => HubInvariant'
<1> SUFFICES ASSUME HubInvariant, [Next]_vars PROVE HubInvariant'
    OBVIOUS
<1>1. TypeOK /\ KeptInDB /\ KeptInPool /\ KeptInLoops /\ KeptInRequests
    BY DEF HubInvariant
<1>2. ChainGrows
    BY <1>1, ChainStep
<1> QED
    BY <1>1, <1>2, TypeStep, DBStep, PoolStep, LoopStep, RequestStep DEF HubInvariant

-----------------------------------------------------------------------------
(* The theorems.                                                           *)

\* The database, and whatever is on its way to it or to the contract, has communities of
\* the contract and of their creators, for any number of communities and requests.
THEOREM HubInvariantHolds == Spec => []HubInvariant
<1> QED
    BY InitInvariant, StepInvariant, PTL DEF Spec

\* Communities, transactions, logos, loops and requests keep their types: what is joined
\* from old and new data is a community again.
THEOREM HubTypeCorrect == Spec => []TypeOK
<1>1. HubInvariant => TypeOK
    BY DEF HubInvariant
<1> QED
    BY <1>1, HubInvariantHolds, PTL

\* Every community in the database is one of the contract's.
THEOREM RegisteredAlways == Spec => []Registered
<1>1. HubInvariant => Registered
    BY DEF HubInvariant, TypeOK, KeptInDB, OfChain, Registered
<1> QED
    BY <1>1, HubInvariantHolds, PTL

\* The creator is the same in the contract, in the database and in the transactions.
THEOREM CreatorKeptAlways == Spec => []CreatorKept
<1>1. HubInvariant => CreatorKept
    BY DEF HubInvariant, TypeOK, KeptInDB, KeptInPool, OfChain, CreatorKept
<1> QED
    BY <1>1, HubInvariantHolds, PTL

\* No community is removed from the contract, nor given to another creator.
THEOREM ChainOnlyGrows == Spec => [][ChainGrows]_vars
<1>1. HubInvariant /\ [Next]_vars => ChainGrows
    BY ChainStep DEF HubInvariant
<1> QED
    BY <1>1, HubInvariantHolds, PTL DEF Spec
=============================================================================
