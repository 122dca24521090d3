------------------------------ MODULE Profiles ------------------------------
(***************************************************************************)
(* Users: how they get a token (auth.go, farcasterauth/auth.go,            *)
(* composer.go, mongo/authentication.go), and how the three loops of       *)
(* discover/discover.go fill in and refresh their documents                *)
(* (mongo/user.go).  Users are known by their FIDs, which are ordered.     *)
(***************************************************************************)
EXTENDS Naturals, FiniteSets, FiniteSetsExt

CONSTANTS
    LastFID,       \* the last registered FID
    Valid,         \* the FIDs that have a profile with all it needs
    Known,         \* the users of the database at the beginning, still without a profile
    People,        \* the users who sign in and vote
    Nonces,        \* authentication channels
    Requests,      \* verifications and composer actions; each makes one token at most
    PendingLimit,  \* of UsersWithPendingProfile
    UpdatedUsersByIteration,
    MaxVotes,      \* bound: votes of a user
    MaxFaults,     \* bound: calls that fail, answers without a profile, restarts
    None

VARIABLES
    channels,    \* authChannels: the nonces in the map ...
    completed,   \* ... and who has completed each channel, a matter of the relay
    req,
    endpoint,    \* the tokens the API accepts
    tokens,      \* the authentications collection: the tokens of each user
    users,       \* the users collection
    votes,       \* the votes each user has cast
    overlapped,  \* users with a vote counted in the middle of an update
    invalid,     \* FIDs without a profile, in the memory of the process
    loop,        \* the loops, and which update each is at
    startID,     \* where the sweep over the users goes on
    faults

vars == <<channels, completed, req, endpoint, tokens, users, votes, overlapped,
          invalid, loop, startID, faults>>
auth == <<channels, completed, req, endpoint, tokens>>
discovery == <<invalid, loop, startID>>

FIDs == 1..LastFID
Tokens == Requests

\* A document: has it a username, and how many votes does it count?
Document == [filled : BOOLEAN, votes : Nat]
Blank == [filled |-> FALSE, votes |-> 0]

\* What a loop is at, and what a request is at: authVerifyHandler asks the relay ("check"),
\* then AddAuthentication finds the user, adds it or stores the token.
Loops == {"pending", "existing", "index"}
LoopState == [at : {"idle", "next", "write"}, todo : SUBSET FIDs, fid : 0..LastFID, votes : Nat]
IdleLoop == [at |-> "idle", todo |-> {}, fid |-> 0, votes |-> 0]
ReqState == [at : {"idle", "check", "user", "add", "token", "done"},
             nonce : Nonces \cup {None}, fid : 0..LastFID, token : Tokens \cup {None}]
IdleReq == [at |-> "idle", nonce |-> None, fid |-> 0, token |-> None]

ASSUME ProfilesAssumption ==
    /\ LastFID \in Nat \ {0} /\ Valid \subseteq FIDs /\ Known \subseteq FIDs
    /\ People \subseteq FIDs
    /\ PendingLimit \in Nat \ {0} /\ UpdatedUsersByIteration \in Nat \ {0}
    /\ MaxFaults \in Nat
    /\ None \notin FIDs /\ None \notin Nonces /\ None \notin Requests /\ None \notin Document

Fault == faults < MaxFaults /\ faults' = faults + 1

Init ==
    /\ channels = {} /\ completed = [n \in Nonces |-> None]
    /\ req = [r \in Requests |-> IdleReq]
    /\ endpoint = {} /\ tokens = [u \in FIDs |-> {}]
    /\ users = [u \in FIDs |-> IF u \in Known THEN Blank ELSE None]
    /\ votes = [u \in FIDs |-> 0] /\ overlapped = {}
    /\ invalid = {} /\ startID \in FIDs
    /\ loop = [l \in Loops |-> IdleLoop]
    /\ faults = 0

-----------------------------------------------------------------------------
\* Authentication

\* A channel is created with the relay, which has a nonce of its own for each.
AuthLink(n) ==
    /\ n \notin channels /\ completed[n] = None
    /\ channels' = channels \cup {n}
    /\ UNCHANGED <<completed, req, endpoint, tokens, users, votes, overlapped,
                   discovery, faults>>

\* A user completes a channel with the wallet.
Complete(n, u) ==
    /\ n \in channels /\ completed[n] = None
    /\ completed' = [completed EXCEPT ![n] = u]
    /\ UNCHANGED <<channels, req, endpoint, tokens, users, votes, overlapped,
                   discovery, faults>>

Step(r, s) == req' = [req EXCEPT ![r] = s]
OnlyReq == UNCHANGED <<completed, votes, overlapped, discovery>>

\* authVerifyHandler finds the channel ...
AuthVerify(r, n) ==
    /\ req[r].at = "idle" /\ n \in channels
    /\ Step(r, [IdleReq EXCEPT !.at = "check", !.nonce = n])
    /\ UNCHANGED <<channels, endpoint, tokens, users, faults>> /\ OnlyReq

\* addAuthTokenFunc: the endpoint accepts the token, whatever the database says then.
AddAuthToken(r, n, u, t) ==
    /\ Step(r, [at |-> "user", nonce |-> n, fid |-> u, token |-> t])
    /\ endpoint' = endpoint \cup {t}

\* Mutant: a channel that nobody has completed is taken for one that the first user has.
CheckStatusAnyhow(r) ==
    LET u == completed[req[r].nonce] IN
    /\ req[r].at = "check"
    /\ AddAuthToken(r, req[r].nonce, IF u = None THEN 1 ELSE u, r)
    /\ UNCHANGED <<channels, tokens, users, faults>> /\ OnlyReq

\* ... and asks the relay.  Only a completed channel gives a user and a new token.
CheckStatus(r) ==
    LET u == completed[req[r].nonce] IN
    /\ req[r].at = "check"
    /\ \/ u # None /\ AddAuthToken(r, req[r].nonce, u, r)
       \/ u = None /\ Step(r, IdleReq) /\ UNCHANGED endpoint
    /\ UNCHANGED <<channels, tokens, users, faults>> /\ OnlyReq

\* composerActionHandler, for the user who signed the frame: a token of the user, or a
\* new one.
ComposerAction(r, u) ==
    /\ req[r].at = "idle"
    /\ \E t \in IF tokens[u] = {} THEN {r} ELSE tokens[u] : AddAuthToken(r, None, u, t)
    /\ UNCHANGED <<channels, tokens, users, faults>> /\ OnlyReq

\* AddAuthentication looks for the user, ...
FindUser(r) ==
    /\ req[r].at = "user"
    /\ \/ users[req[r].fid] # None /\ Step(r, [req[r] EXCEPT !.at = "token"]) /\ UNCHANGED faults
       \/ users[req[r].fid] = None /\ Step(r, [req[r] EXCEPT !.at = "add"]) /\ UNCHANGED faults
       \/ users[req[r].fid] # None /\ Fault /\ Step(r, [req[r] EXCEPT !.at = "add"])
    /\ UNCHANGED <<channels, endpoint, tokens, users>> /\ OnlyReq

\* The handler has answered: the channel of a verification is deleted.
Answered(r) ==
    /\ channels' = channels \ {req[r].nonce}
    /\ Step(r, [IdleReq EXCEPT !.at = "done"])

\* Mutant: the token is stored even if the user could not be added.
AddUserAnyhow(r) ==
    /\ req[r].at = "add" /\ Fault
    /\ Step(r, [req[r] EXCEPT !.at = "token"])
    /\ UNCHANGED <<channels, endpoint, tokens, users>> /\ OnlyReq

\* ... adds a blank one, unless somebody has been faster, and gives up if that fails; ...
AddUser(r) ==
    /\ req[r].at = "add"
    /\ \/ /\ users[req[r].fid] = None
          /\ users' = [users EXCEPT ![req[r].fid] = Blank]
          /\ Step(r, [req[r] EXCEPT !.at = "token"])
          /\ UNCHANGED <<channels, faults>>
       \/ users[req[r].fid] # None /\ Answered(r) /\ UNCHANGED <<users, faults>>
       \/ Fault /\ Answered(r) /\ UNCHANGED users
    /\ UNCHANGED <<endpoint, tokens>> /\ OnlyReq

\* ... and stores the token.  (The access profile created before it is left out: whether
\* that succeeds, nobody asks.)
AddToken(r) ==
    /\ req[r].at = "token"
    /\ \/ tokens' = [tokens EXCEPT ![req[r].fid] = @ \cup {req[r].token}] /\ UNCHANGED faults
       \/ Fault /\ UNCHANGED tokens
    /\ Answered(r)
    /\ UNCHANGED <<endpoint, users>> /\ OnlyReq

\* UserFromAuthToken, behind every handler for authenticated users
UserFromAuthToken(t) == {u \in FIDs : t \in tokens[u]}

-----------------------------------------------------------------------------
\* Votes, as far as the users' documents count them (mongo/votes.go)

Updating(u) == \E l \in Loops : loop[l].at = "write" /\ loop[l].fid = u

Vote(u) ==
    /\ users[u] # None /\ votes[u] < MaxVotes
    /\ votes' = [votes EXCEPT ![u] = @ + 1]
    /\ users' = [users EXCEPT ![u].votes = @ + 1]
    /\ overlapped' = IF Updating(u) THEN overlapped \cup {u} ELSE overlapped
    /\ UNCHANGED <<auth, discovery, faults>>

-----------------------------------------------------------------------------
\* Discovery

OnlyLoops == UNCHANGED <<auth, votes, overlapped>>

\* UsersWithPendingProfile: any of those without a username, up to the limit.
UsersWithPendingProfile ==
    LET pending == {u \in FIDs : users[u] # None /\ ~users[u].filled}
    IN  {s \in SUBSET pending : Cardinality(s) = Min({PendingLimit, Cardinality(pending)})}

RunPendingProfiles ==
    /\ loop["pending"].at = "idle"
    /\ \E s \in UsersWithPendingProfile :
          s # {} /\ loop' = [loop EXCEPT !["pending"] = [IdleLoop EXCEPT !.at = "next", !.todo = s]]
    /\ UNCHANGED <<users, invalid, startID, faults>> /\ OnlyLoops

\* UserIDs: those from the given one on, in their order, up to the limit.
UserIDs(start) ==
    LET from == {u \in FIDs : users[u] # None /\ u >= start}
    IN  {u \in from : Cardinality({v \in from : v < u}) < UpdatedUsersByIteration}

\* Mutant: the sweep does not begin again.
RunExistingOnce ==
    /\ loop["existing"].at = "idle" /\ UserIDs(startID) # {}
    /\ loop' = [loop EXCEPT !["existing"] = [IdleLoop EXCEPT !.at = "next", !.todo = UserIDs(startID)]]
    /\ UNCHANGED <<users, invalid, startID, faults>> /\ OnlyLoops

\* The sweep begins again at 0 when it finds no more users.
RunExistingProfilesUpdate ==
    /\ loop["existing"].at = "idle"
    /\ \/ /\ UserIDs(startID) # {}
          /\ loop' = [loop EXCEPT !["existing"] =
                        [IdleLoop EXCEPT !.at = "next", !.todo = UserIDs(startID)]]
          /\ UNCHANGED startID
       \/ /\ UserIDs(startID) = {} /\ startID # 0
          /\ startID' = 0 /\ UNCHANGED loop
    /\ UNCHANGED <<users, invalid, faults>> /\ OnlyLoops

\* runDiscoverProfilesFromRandomStart: its workers go through all FIDs, and never end.
RunDiscoverProfiles(u) ==
    /\ loop["index"].at = "idle"
    /\ loop' = [loop EXCEPT !["index"] = [IdleLoop EXCEPT !.at = "next", !.todo = {u}]]
    /\ UNCHANGED <<users, invalid, startID, faults>> /\ OnlyLoops

\* The next user of the list: the first, in the order of the sweep.
NextUsers(l) == {u \in loop[l].todo : l = "existing" => \A v \in loop[l].todo : u <= v}

\* Done with a user: the sweep goes on after the last one.
Updated(l, u) ==
    /\ loop' = [loop EXCEPT ![l] = IF loop[l].todo \ {u} = {} THEN IdleLoop
                                   ELSE [IdleLoop EXCEPT !.at = "next", !.todo = loop[l].todo \ {u}]]
    /\ startID' = IF l # "existing" THEN startID
                  ELSE IF loop[l].todo \ {u} = {} THEN u + 1 ELSE u

Count(u) == IF users[u] = None THEN 0 ELSE users[u].votes

\* updateUser: who is known to be invalid is passed over; who turns out to be is noted.
SkipInvalid(l) ==
    /\ loop[l].at = "next"
    /\ \E u \in NextUsers(l) :
         /\ \/ u \in invalid /\ UNCHANGED <<invalid, faults>>
            \/ u \notin invalid /\ u \notin Valid /\ invalid' = invalid \cup {u} /\ UNCHANGED faults
            \/ u \notin invalid /\ u \in Valid /\ Fault /\ invalid' = invalid \cup {u}
         /\ Updated(l, u)
    /\ UNCHANGED users /\ OnlyLoops

\* The profile and the addresses are fetched, and the counts of the document read.
ReadUser(l) ==
    /\ loop[l].at = "next"
    /\ \E u \in NextUsers(l) :
         /\ u \notin invalid /\ u \in Valid
         /\ loop' = [loop EXCEPT ![l] = [@ EXCEPT !.at = "write", !.fid = u, !.votes = Count(u)]]
    /\ UNCHANGED <<users, invalid, startID, faults>> /\ OnlyLoops

\* Mutant: the update writes what is zero, and no counts have been read.
UpdateUserZero(l) ==
    LET u == loop[l].fid IN
    /\ loop[l].at = "write"
    /\ users' = [users EXCEPT ![u] = [filled |-> TRUE, votes |-> 0]]
    /\ Updated(l, u)
    /\ UNCHANGED <<invalid, faults>> /\ OnlyLoops

\* The update makes a user that was not there, and leaves alone what is zero.
UpdateUser(l) ==
    LET k == loop[l] IN
    /\ k.at = "write"
    /\ users' = [users EXCEPT ![k.fid] =
                   [filled |-> TRUE, votes |-> IF k.votes = 0 THEN Count(k.fid) ELSE k.votes]]
    /\ Updated(l, k.fid)
    /\ UNCHANGED <<invalid, faults>> /\ OnlyLoops

\* The profile, the addresses or the signers cannot be had, or the write fails.
UpdateFails(l) ==
    /\ loop[l].at = "write" /\ Fault
    /\ Updated(l, loop[l].fid)
    /\ UNCHANGED <<users, invalid>> /\ OnlyLoops

-----------------------------------------------------------------------------
\* The process starts again: what is in memory is lost, and the tokens of the database
\* are accepted.
Restart ==
    /\ Fault
    /\ channels' = {} /\ invalid' = {}
    /\ req' = [r \in Requests |-> IF req[r].at = "idle" THEN IdleReq
                                  ELSE [IdleReq EXCEPT !.at = "done"]]
    /\ endpoint' = UNION {tokens[u] : u \in FIDs}
    /\ loop' = [l \in Loops |-> IdleLoop] /\ startID' \in FIDs
    /\ UNCHANGED <<completed, tokens, users, votes, overlapped>>

UpdateStep(l) == SkipInvalid(l) \/ ReadUser(l) \/ UpdateUser(l)

AuthStep(r) == CheckStatus(r) \/ FindUser(r) \/ AddUser(r) \/ AddToken(r)

Next ==
    \/ \E n \in Nonces : AuthLink(n) \/ \E u \in People : Complete(n, u)
    \/ \E r \in Requests, n \in Nonces : AuthVerify(r, n)
    \/ \E r \in Requests, u \in People : ComposerAction(r, u)
    \/ \E r \in Requests : AuthStep(r)
    \/ \E u \in People : Vote(u)
    \/ \E u \in FIDs : RunDiscoverProfiles(u)
    \/ RunPendingProfiles \/ RunExistingProfilesUpdate
    \/ \E l \in Loops : UpdateStep(l) \/ UpdateFails(l)
    \/ Restart

Spec == Init /\ [][Next]_vars

\* The sweep and the loop of pending profiles run.
FairSpec ==
    /\ Spec
    /\ WF_vars(RunExistingProfilesUpdate) /\ WF_vars(RunPendingProfiles)
    /\ \A l \in {"existing", "pending"} : WF_vars(UpdateStep(l))

-----------------------------------------------------------------------------
\* Properties

\* The state has the shape the code gives it.
TypeOK ==
    /\ channels \subseteq Nonces /\ completed \in [Nonces -> FIDs \cup {None}]
    /\ req \in [Requests -> ReqState]
    /\ endpoint \subseteq Tokens /\ tokens \in [FIDs -> SUBSET Tokens]
    /\ users \in [FIDs -> Document \cup {None}]
    /\ votes \in [FIDs -> Nat] /\ overlapped \subseteq FIDs /\ invalid \subseteq FIDs
    /\ loop \in [Loops -> LoopState] /\ startID \in 0..LastFID + 1
    /\ faults \in 0..MaxFaults

\* A verification gives a token to who has completed its channel and to nobody else
\* (authVerifyHandler, auth.go:43; CheckStatus, farcasterauth/auth.go:100), and a token is
\* one user's, whatever requests of the same channel or user overlap.
TokensAreOwn ==
    /\ \A r \in Requests :
         req[r].nonce # None /\ req[r].fid # 0 => completed[req[r].nonce] = req[r].fid
    /\ \A t \in Tokens : Cardinality(UserFromAuthToken(t)) <= 1

\* Whoever has a token in the database has a document there, and the API accepts the
\* token, also after a restart and whichever of the writes of AddAuthentication fails
\* (mongo/authentication.go:15, main.go:404).
TokensWork ==
    \A u \in FIDs : tokens[u] # {} => users[u] # None /\ tokens[u] \subseteq endpoint

\* A vote goes missing from the count of its user only if it was counted while one of the
\* loops was in the middle of an update of that user (updateUser, discover.go:148), and no
\* vote is counted twice.
VotesKept ==
    \A u \in FIDs : users[u] # None =>
        /\ users[u].votes <= votes[u]
        /\ u \notin overlapped => users[u].votes = votes[u]

\* Every user in the database gets a profile in the end, however many users without one
\* fill the list of pending profiles, unless an answer had no profile: that is not asked
\* for again until a restart (runExistingProfilesUpdate, discover.go:259).
ProfilesFilled ==
    \A u \in Valid : users[u] # None ~> (users[u] # None /\ users[u].filled) \/ u \in invalid

-----------------------------------------------------------------------------
(* Why the invariants hold.                                                *)

\* A request at work on a token has a user, who is there when the token is stored, and
\* the endpoint accepts the token already.
RequestsInOrder ==
    \A r \in Requests :
        /\ req[r].at \in {"user", "add", "token"} => req[r].fid \in FIDs /\ req[r].token \in endpoint
        /\ req[r].at = "token" => users[req[r].fid] # None
        /\ req[r].at = "check" => req[r].nonce \in Nonces

\* Those who have a token or are about to are one user at most, and nobody has the token
\* of a request that has not made it yet.
Holders(t) ==
    {u \in FIDs : t \in tokens[u]} \cup {req[r].fid : r \in {r \in Requests : req[r].token = t}}
OneHolder ==
    \A t \in Tokens :
        /\ \A u, v \in Holders(t) : u = v
        /\ req[t].at \in {"idle", "check"} => Holders(t) = {}

\* What a loop has read is what was counted, unless a vote came in between.
CountsInOrder ==
    \A u \in FIDs :
        /\ Count(u) <= votes[u] /\ (u \notin overlapped => Count(u) = votes[u])
        /\ \A l \in Loops :
             loop[l].at = "write" /\ loop[l].fid = u =>
                 /\ loop[l].votes <= votes[u]
                 /\ u \notin overlapped => loop[l].votes = votes[u]

\* A loop that writes has a user to write.
LoopsInOrder == \A l \in Loops : loop[l].at = "write" => loop[l].fid \in FIDs

ProfilesInvariant ==
    /\ TypeOK /\ RequestsInOrder /\ OneHolder /\ TokensAreOwn /\ TokensWork
    /\ LoopsInOrder /\ CountsInOrder
=============================================================================
