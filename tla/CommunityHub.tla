---------------------------- MODULE CommunityHub ----------------------------
(***************************************************************************)
(* The communities: a contract per chain holds them, the database holds a  *)
(* copy (communityhub/hub.go, contract.go, helpers.go).  Two loops bring   *)
(* the copy up to date; the admins of a community change it through the    *)
(* server (communities.go), which sends a transaction and then writes the  *)
(* copy.  One contract: those of other chains share only the loops.        *)
(***************************************************************************)
EXTENDS Naturals, Sequences, FiniteSets

CONSTANTS
    Users, Images,
    Requests,      \* requests for a change of settings
    Asks,          \* what they may ask for
    Founded,       \* the communities somebody may create on the contract ...
    Managed,       \* ... and the changes made there without this server
    MaxID,         \* bound: communities created
    MaxChanges,    \* bound: changes made on the contract directly
    MaxCrashes,    \* bound: restarts of the process
    Empty, Nil

VARIABLES
    chain,     \* the communities in the contract, in the order of their IDs
    pool,      \* transactions sent and not yet mined
    sent,      \* transactions ever sent: the next nonce
    db,        \* the communities collection
    avatars,   \* the avatars collection
    loop,      \* the two background loops
    req,
    stopped,   \* has Stop been called?
    changes, crashes

vars == <<chain, pool, sent, db, avatars, loop, req, stopped, changes, crashes>>

IDs == 1..MaxID
Loops == {"sync", "scan"}

CensusTypes == {"channel", "followers", "erc20", "nft"}
\* Channel and followers keep their source in one field, the tokens in another.
Slot(type) == IF type \in {"channel", "followers"} THEN "channel" ELSE "addresses"
Census == [type : CensusTypes, source : STRING]

\* The list of admins: the first is the creator; that of a request may be empty.
Admins == [first : Users, others : SUBSET Users]

\* HubCommunity.  Name and chat stand for the fields of their kind: a name is kept when
\* the new one is empty, a chat is not.
Community ==
    [name : STRING, image : Images, chat : STRING \cup {Empty}, census : Census,
     admins : Admins, disabled : BOOLEAN, permission : 0..1, funds : 0..1]

\* The body of a request (Community, types.go) and who sends it: what is not asked for is
\* empty.
Settings ==
    [id : IDs, user : Users, name : STRING \cup {Empty}, image : Images \cup {Empty},
     chat : STRING \cup {Empty},
     census : [type : CensusTypes, source : STRING \cup {Empty}],
     admins : Admins \cup {Empty}, disabled : BOOLEAN \cup {Nil}]

\* The contract keeps communities that have a name, a census and a creator.
ASSUME HubAssumption ==
    /\ MaxID \in Nat /\ MaxChanges \in Nat /\ MaxCrashes \in Nat
    /\ Founded \cup Managed \subseteq Community
    /\ Asks \subseteq Settings
    /\ Empty \notin STRING \cup Images \cup Admins
    /\ Nil \notin Community \cup Asks

\* ContractToHub, and the reading of the contract's answer: a community that was never
\* created has no name and no funds, and is not found.
NextContractID == Len(chain) + 1
Found(id) == id <= NextContractID /\ id \in DOMAIN chain

\* validateData and the checks of HubToContract and HubToDB
Valid(c) == c.name # Empty /\ c.census.source # Empty /\ c.admins # Empty

\* DBToHub: the database knows neither the permission to create elections nor the
\* funds; the creator comes first.
DBToHub(c) ==
    [c EXCEPT !.admins.others = @ \ {c.admins.first}, !.permission = 0, !.funds = 0]

HubToDB(c) == [c EXCEPT !.permission = 0, !.funds = 0]

\* Mutant: only what is not zero is updated, and FALSE is not.
UpdateNonZero(old, c) ==
    [c EXCEPT !.disabled = IF ~@ THEN old.disabled ELSE @,
              !.chat = IF @ = Empty THEN old.chat ELSE @]

\* dynamicUpdateDocument: the update leaves alone what is empty, but for the flags.
UpdateDocument(old, c) == [c EXCEPT !.chat = IF @ = Empty THEN old.chat ELSE @]

Stored(old, c) == IF old = Nil THEN HubToDB(c) ELSE UpdateDocument(old, HubToDB(c))

-----------------------------------------------------------------------------
(* joinCommunityData                                                       *)

KeepIfEmpty(old, new) == IF new = Empty THEN old ELSE new

JoinCensus(old, new) ==
    [type |-> new.type,
     source |-> IF new.source = Empty /\ Slot(new.type) = Slot(old.type)
                THEN old.source ELSE new.source]

\* Mutant: whoever is named first becomes the creator.
AnyCreator(old, new) == TRUE

\* The creator stays the first admin.
SameCreator(old, new) == new.admins = Empty \/ new.admins.first = old.admins.first

Join(old, new) ==
    [name |-> KeepIfEmpty(old.name, new.name),
     image |-> KeepIfEmpty(old.image, new.image),
     chat |-> new.chat,
     census |-> JoinCensus(old.census, new.census),
     admins |-> IF new.admins = Empty THEN old.admins ELSE new.admins,
     disabled |-> new.disabled,
     permission |-> old.permission, funds |-> old.funds]

Joinable(old, new) == Valid(old) /\ SameCreator(old, new)

-----------------------------------------------------------------------------
IdleLoop == [at |-> "idle", id |-> 0, next |-> 0, data |-> Nil]
IdleReq == [at |-> "idle", ask |-> Nil, nonce |-> 0, data |-> Nil]

LoopAt == {"idle", "read", "db", "add", "insert", "write", "ended"}
ReqAt == {"idle", "avatar", "upload", "update", "prepare", "send", "record", "done"}
LoopState == [at : LoopAt, id : 0..MaxID + 1, next : 0..MaxID + 1, data : Community \cup {Nil}]
ReqState == [at : ReqAt, ask : Asks \cup {Nil}, nonce : Nat, data : Community \cup {Nil}]

TypeOK ==
    /\ chain \in Seq(Community) /\ Len(chain) <= MaxID
    /\ pool \in Seq([id : IDs, data : Community])
    /\ sent \in Nat
    /\ db \in [IDs -> Community \cup {Nil}]
    /\ avatars \subseteq Images
    /\ loop \in [Loops -> LoopState]
    /\ req \in [Requests -> ReqState]
    /\ stopped \in BOOLEAN
    /\ changes \in 0..MaxChanges /\ crashes \in 0..MaxCrashes

Init ==
    /\ chain = <<>> /\ pool = <<>> /\ sent = 0
    /\ db = [id \in IDs |-> Nil]
    /\ avatars = {}
    /\ loop = [l \in Loops |-> IdleLoop]
    /\ req = [r \in Requests |-> IdleReq]
    /\ stopped = FALSE
    /\ changes = 0 /\ crashes = 0

-----------------------------------------------------------------------------
(* The contract, which others use too.                                     *)

\* A community is created; its logo was uploaded before (updloadAvatarHandler).
CreateCommunity(c) ==
    /\ Len(chain) < MaxID
    /\ chain' = Append(chain, c)
    /\ avatars' = avatars \cup {c.image}
    /\ UNCHANGED <<pool, sent, db, loop, req, stopped, changes, crashes>>

\* An admin changes the community with a wallet of its own; the creator stays.
ManageCommunity(id, c) ==
    /\ changes < MaxChanges
    /\ id \in DOMAIN chain
    /\ chain[id] # c /\ chain[id].admins.first = c.admins.first
    /\ changes' = changes + 1
    /\ chain' = [chain EXCEPT ![id] = c]
    /\ UNCHANGED <<pool, sent, db, avatars, loop, req, stopped, crashes>>

\* A transaction of this server is mined, or reverted.
Mine ==
    /\ pool # <<>>
    /\ LET t == Head(pool) IN chain' \in {chain, [chain EXCEPT ![t.id] = t.data]}
    /\ pool' = Tail(pool)
    /\ UNCHANGED <<sent, db, avatars, loop, req, stopped, changes, crashes>>

-----------------------------------------------------------------------------
(* The loops.                                                              *)

Go(l, step) == loop' = [loop EXCEPT ![l] = step]
OnlyLoops == UNCHANGED <<chain, pool, sent, avatars, req, stopped, changes, crashes>>

\* Done with one ID: the sync loop goes to the next, and sleeps after the last.
NextID(l) ==
    LET k == loop[l]
    IN  IF l = "scan" \/ k.id + 1 >= k.next THEN IdleLoop
        ELSE [at |-> "read", id |-> k.id + 1, next |-> k.next, data |-> Nil]

\* Mutant: the loop does not look at the context.
EndedNever(l) == FALSE

\* The context is cancelled: the check at the head of the loops.
Ended(l) == stopped

\* The sync loop also ends when it finds the database closed.
LoopEnds(l) ==
    /\ Ended(l)
    /\ loop[l].at \in IF l = "sync" THEN {"idle", "read", "db"} ELSE {"idle"}
    /\ Go(l, [IdleLoop EXCEPT !.at = "ended"])
    /\ UNCHANGED db /\ OnlyLoops

\* ScanNewCommunities looks for the community after the last one.
Scan ==
    /\ loop["scan"].at = "idle" /\ ~Ended("scan")
    /\ Go("scan", [at |-> "read", id |-> NextContractID, next |-> 0, data |-> Nil])
    /\ UNCHANGED db /\ OnlyLoops

\* SyncCommunities goes through those before the next one.
Sync ==
    /\ loop["sync"].at = "idle" /\ ~Ended("sync")
    /\ NextContractID > 1
    /\ Go("sync", [at |-> "read", id |-> 1, next |-> NextContractID, data |-> Nil])
    /\ UNCHANGED db /\ OnlyLoops

\* Mutant: an empty answer of the contract is taken for a community.
ReadAnything(l) ==
    LET k == loop[l] IN
    /\ k.at = "read" /\ k.id \in IDs
    /\ l = "sync" => ~Ended(l)
    /\ Go(l, [k EXCEPT !.at = IF l = "sync" THEN "db" ELSE "add",
                       !.data = IF Found(k.id) THEN chain[k.id]
                                ELSE CHOOSE c \in Founded : TRUE])
    /\ UNCHANGED db /\ OnlyLoops

\* HubContract.Community; the scanner validates, the other loop does not.
ReadContract(l) ==
    LET k == loop[l] IN
    /\ k.at = "read"
    /\ l = "sync" => ~Ended(l)
    /\ Found(k.id)
    /\ l = "scan" => Valid(chain[k.id])
    /\ Go(l, [k EXCEPT !.at = IF l = "sync" THEN "db" ELSE "add", !.data = chain[k.id]])
    /\ UNCHANGED db /\ OnlyLoops

NotFound(l) ==
    /\ loop[l].at = "read"
    /\ ~Found(loop[l].id)
    /\ Go(l, NextID(l))
    /\ UNCHANGED db /\ OnlyLoops

\* communityFromDB: a community that is there is joined with the contract's data.  An
\* error that does not say that the database is closed counts as not found.
ReadDB ==
    LET k == loop["sync"] IN
    /\ k.at = "db"
    /\ \/ /\ db[k.id] # Nil
          /\ Joinable(DBToHub(db[k.id]), k.data)
          /\ Go("sync", [k EXCEPT !.at = "write", !.data = Join(DBToHub(db[k.id]), @)])
       \/ /\ db[k.id] # Nil
          /\ ~Joinable(DBToHub(db[k.id]), k.data)
          /\ Go("sync", NextID("sync"))
       \/ /\ db[k.id] = Nil
          /\ Go("sync", [k EXCEPT !.at = "add"])
    /\ UNCHANGED db /\ OnlyLoops

ReadDBFails ==
    /\ loop["sync"].at = "db"
    /\ Go("sync", [loop["sync"] EXCEPT !.at = "add"])
    /\ UNCHANGED db /\ OnlyLoops

\* addCommunityToDB looks again, and inserts or updates.
AddCommunityToDB(l) ==
    LET k == loop[l] IN
    /\ k.at = "add"
    /\ Go(l, [k EXCEPT !.at = IF db[k.id] = Nil THEN "insert" ELSE "write"])
    /\ UNCHANGED db /\ OnlyLoops

\* The insertion fails if the other loop was faster.
AddCommunity(l) ==
    LET k == loop[l] IN
    /\ k.at = "insert"
    /\ db' = IF db[k.id] = Nil THEN [db EXCEPT ![k.id] = Stored(Nil, k.data)] ELSE db
    /\ Go(l, NextID(l))
    /\ OnlyLoops

UpdateCommunityToDB(l) ==
    LET k == loop[l] IN
    /\ k.at = "write"
    /\ db' = [db EXCEPT ![k.id] = Stored(@, k.data)]
    /\ Go(l, NextID(l))
    /\ OnlyLoops

\* Any of these calls fails; the loop logs it and goes on.
LoopFails(l) ==
    /\ loop[l].at \notin {"idle", "ended"}
    /\ Go(l, NextID(l))
    /\ UNCHANGED db /\ OnlyLoops

-----------------------------------------------------------------------------
(* A change of settings.                                                   *)

Set(r, step) == req' = [req EXCEPT ![r] = step]
OnlyReqs == UNCHANGED <<chain, loop, stopped, changes, crashes>>

\* communitySettingsHandler, for an admin; what is not asked for is taken from the
\* document read here.
SettingsHandler(r, ask) ==
    /\ req[r].at = "idle"
    /\ db[ask.id] # Nil
    /\ ask.user \in {db[ask.id].admins.first} \cup db[ask.id].admins.others
    /\ Set(r, [IdleReq EXCEPT !.at = IF ask.image \in {Empty, db[ask.id].image}
                                     THEN "update" ELSE "avatar",
                              !.ask = ask,
                              !.data = [db[ask.id] EXCEPT
                                          !.disabled = IF ask.disabled = Nil THEN @ ELSE ask.disabled]])
    /\ UNCHANGED <<pool, sent, db, avatars>> /\ OnlyReqs

\* The old logo is removed, and then the new one is stored.
RemoveAvatar(r) ==
    /\ req[r].at = "avatar"
    /\ avatars' = avatars \ {req[r].data.image}
    /\ Set(r, [req[r] EXCEPT !.at = "upload"])
    /\ UNCHANGED <<pool, sent, db>> /\ OnlyReqs

UploadAvatar(r) ==
    /\ req[r].at = "upload"
    /\ avatars' = avatars \cup {req[r].ask.image}
    /\ Set(r, [req[r] EXCEPT !.at = "update"])
    /\ UNCHANGED <<pool, sent, db>> /\ OnlyReqs

\* UpdateCommunity reads the database and joins what is asked for.
ReadForUpdate(r) ==
    LET ask == req[r].ask
        new == [name |-> ask.name, image |-> ask.image, chat |-> ask.chat,
                census |-> ask.census, admins |-> ask.admins,
                disabled |-> req[r].data.disabled, permission |-> 0, funds |-> 0]
        old == DBToHub(db[ask.id])
    IN  /\ req[r].at = "update"
        /\ IF Joinable(old, new) /\ Valid(Join(old, new))
           THEN Set(r, [req[r] EXCEPT !.at = "prepare", !.data = Join(old, new)])
           ELSE Set(r, [IdleReq EXCEPT !.at = "done"])
        /\ UNCHANGED <<pool, sent, db, avatars>> /\ OnlyReqs

\* authTransactOpts, and the funds the community has now: none, if they cannot be read.
TransactOpts(r) ==
    /\ req[r].at = "prepare"
    /\ \E funds \in {0, chain[req[r].ask.id].funds} :
          Set(r, [req[r] EXCEPT !.at = "send", !.nonce = sent, !.data.funds = funds])
    /\ UNCHANGED <<pool, sent, db, avatars>> /\ OnlyReqs

\* SetCommunity: the transaction is sent and not waited for.  A nonce that somebody
\* used meanwhile is refused.
SetCommunity(r) ==
    /\ req[r].at = "send"
    /\ req[r].nonce = sent
    /\ sent' = sent + 1
    /\ pool' = Append(pool, [id |-> req[r].ask.id, data |-> req[r].data])
    /\ Set(r, [req[r] EXCEPT !.at = "record"])
    /\ UNCHANGED <<db, avatars>> /\ OnlyReqs

Record(r) ==
    /\ req[r].at = "record"
    /\ db' = [db EXCEPT ![req[r].ask.id] = Stored(@, req[r].data)]
    /\ Set(r, [IdleReq EXCEPT !.at = "done"])
    /\ UNCHANGED <<pool, sent, avatars>> /\ OnlyReqs

RequestFails(r) ==
    /\ req[r].at \notin {"idle", "done"}
    /\ Set(r, [IdleReq EXCEPT !.at = "done"])
    /\ UNCHANGED <<pool, sent, db, avatars>> /\ OnlyReqs

-----------------------------------------------------------------------------
Stop ==
    /\ ~stopped
    /\ stopped' = TRUE
    /\ UNCHANGED <<chain, pool, sent, db, avatars, loop, req, changes, crashes>>

\* The process starts again; what was on its way is forgotten.
Restart ==
    /\ crashes < MaxCrashes
    /\ crashes' = crashes + 1
    /\ loop' = [l \in Loops |-> IdleLoop]
    /\ req' = [r \in Requests |-> IF req[r].at = "idle" THEN IdleReq
                                  ELSE [IdleReq EXCEPT !.at = "done"]]
    /\ stopped' = FALSE
    /\ UNCHANGED <<chain, pool, sent, db, avatars, changes>>

SyncStep ==
    \/ Sync \/ ReadContract("sync") \/ ReadDB \/ ReadDBFails
    \/ AddCommunityToDB("sync") \/ AddCommunity("sync") \/ UpdateCommunityToDB("sync")

ScanStep ==
    \/ Scan \/ ReadContract("scan") \/ NotFound("scan")
    \/ AddCommunityToDB("scan") \/ AddCommunity("scan") \/ UpdateCommunityToDB("scan")

Next ==
    \/ \E c \in Founded : CreateCommunity(c)
    \/ \E id \in IDs, c \in Managed : ManageCommunity(id, c)
    \/ Mine
    \/ SyncStep \/ ScanStep
    \/ \E l \in Loops : LoopEnds(l) \/ LoopFails(l)
    \/ \E r \in Requests, ask \in Asks : SettingsHandler(r, ask)
    \/ \E r \in Requests :
          \/ RemoveAvatar(r) \/ UploadAvatar(r) \/ ReadForUpdate(r) \/ TransactOpts(r)
          \/ SetCommunity(r) \/ Record(r) \/ RequestFails(r)
    \/ Stop \/ Restart

Spec == Init /\ [][Next]_vars

\* The loops run; each of their calls succeeds in the end, though any may fail.
FairSpec ==
    /\ Spec
    /\ WF_vars(Sync) /\ WF_vars(ScanStep)
    /\ \A l \in Loops : WF_vars(LoopEnds(l))
    /\ SF_vars(ReadDB) /\ SF_vars(AddCommunityToDB("sync")) /\ SF_vars(AddCommunity("sync"))
    /\ \A id \in IDs :
          /\ SF_vars(loop["sync"].id = id /\ ReadContract("sync"))
          /\ SF_vars(loop["sync"].id = id /\ UpdateCommunityToDB("sync"))
=============================================================================
