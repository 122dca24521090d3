--------------------------- MODULE ProfilesProofs ---------------------------
(* Proofs of what Profiles promises, for any number of users, requests,      *)
(* channels, votes and failures.                                             *)
EXTENDS Profiles, FiniteSetTheorems, TLAPS


-----------------------------------------------------------------------------
(* Steps of requests.                                                      *)

\* What a request becomes: it waits for the relay or is over, and knows no user; ...
Forgets(r, s) ==
    /\ s.fid = 0 /\ s.token = None /\ UNCHANGED <<tokens, endpoint>>
    /\ \/ s.at = "done"
       \/ s.at \in {"idle", "check"} /\ req[r].at \in {"idle", "check"}
    /\ s.at = "check" => s.nonce \in Nonces

\* ... it gets a user, with a new token or one of theirs; ...
Mints(r, s) ==
    /\ s.at = "user" /\ s.fid \in FIDs /\ s.token \in Tokens
    /\ s.nonce # None => s.nonce \in Nonces /\ completed[s.nonce] = s.fid
    /\ endpoint' = endpoint \cup {s.token} /\ UNCHANGED tokens
    /\ req[r].at \in {"idle", "check"}
    /\ s.token = r \/ s.token \in tokens[s.fid]

\* ... it goes on with both, when the user is there to the token; ...
GoesOn(r, s) ==
    /\ s.at \in {"add", "token"} /\ req[r].at \in {"user", "add"}
    /\ s.fid = req[r].fid /\ s.token = req[r].token /\ s.nonce = req[r].nonce
    /\ s.at = "token" => users'[s.fid] # None
    /\ UNCHANGED <<tokens, endpoint>>

\* ... or it has stored its token.
Stores(r, s) ==
    /\ req[r].at = "token" /\ s.at = "done" /\ s.fid = 0 /\ s.token = None
    /\ tokens' = [tokens EXCEPT ![req[r].fid] = @ \cup {req[r].token}] /\ UNCHANGED endpoint

\* A request that changes its step remains a request.
LEMMA AtChanges ==
    ASSUME NEW s \in ReqState, NEW at \in {"add", "token"}
    PROVE  /\ [s EXCEPT !.at = at] \in ReqState
           /\ [s EXCEPT !.at = at].at = at /\ [s EXCEPT !.at = at].fid = s.fid
           /\ [s EXCEPT !.at = at].token = s.token /\ [s EXCEPT !.at = at].nonce = s.nonce
BY DEF ReqState

\* Requests at rest know nobody, and wait for the relay with a channel.
LEMMA AtRest ==
    ASSUME NEW at \in {"idle", "done"}
    PROVE  /\ [IdleReq EXCEPT !.at = at] \in ReqState /\ IdleReq \in ReqState
           /\ [IdleReq EXCEPT !.at = at].at = at /\ [IdleReq EXCEPT !.at = at].fid = 0
           /\ [IdleReq EXCEPT !.at = at].token = None /\ [IdleReq EXCEPT !.at = at].nonce = None
           /\ IdleReq.at = "idle" /\ IdleReq.fid = 0 /\ IdleReq.token = None /\ IdleReq.nonce = None
BY ProfilesAssumption DEF IdleReq, ReqState

\* The answer to a request ends it.
LEMMA AnsweredMoves ==
    ASSUME NEW r \in Requests, Answered(r)
    PROVE  \E s \in ReqState : Step(r, s) /\ s.at = "done" /\ s.fid = 0 /\ s.token = None
<1>1. Step(r, [IdleReq EXCEPT !.at = "done"])
    BY DEF Answered
<1> QED
    BY <1>1, AtRest

\* Who gets a token is known.
LEMMA AddAuthTokenMoves ==
    ASSUME NEW r \in Requests, NEW n \in Nonces \cup {None}, NEW u \in FIDs, NEW t \in Tokens,
           AddAuthToken(r, n, u, t)
    PROVE  \E s \in ReqState :
              /\ Step(r, s) /\ s.at = "user" /\ s.nonce = n /\ s.fid = u /\ s.token = t
              /\ endpoint' = endpoint \cup {s.token}
<1> DEFINE s == [at |-> "user", nonce |-> n, fid |-> u, token |-> t]
<1>1. s \in ReqState
    BY ProfilesAssumption DEF ReqState, FIDs
<1> QED
    BY <1>1 DEF AddAuthToken

\* These are all the steps of requests.
LEMMA RequestMoves ==
    ASSUME TypeOK, RequestsInOrder, [Next]_vars
    PROVE  \/ Restart
           \/ UNCHANGED <<req, tokens, endpoint>>
           \/ \E r \in Requests, s \in ReqState :
                 /\ Step(r, s)
                 /\ Forgets(r, s) \/ Mints(r, s) \/ GoesOn(r, s) \/ Stores(r, s)
<1> DEFINE Moves(r) == \E s \in ReqState :
              /\ Step(r, s)
              /\ Forgets(r, s) \/ Mints(r, s) \/ GoesOn(r, s) \/ Stores(r, s)
<1> SUFFICES (\E r \in Requests : Moves(r)) \/ Restart \/ UNCHANGED <<req, tokens, endpoint>>
    OBVIOUS
<1>a. req \in [Requests -> ReqState] /\ completed \in [Nonces -> FIDs \cup {None}]
    BY DEF TypeOK
<1>1. ASSUME NEW r \in Requests, NEW n \in Nonces, AuthVerify(r, n) PROVE Moves(r)
  <2> DEFINE s == [IdleReq EXCEPT !.at = "check", !.nonce = n]
  <2>1. s \in ReqState /\ s.at = "check" /\ s.nonce = n /\ s.fid = 0 /\ s.token = None
    BY AtRest DEF ReqState
  <2>2. Step(r, s) /\ req[r].at = "idle" /\ UNCHANGED <<tokens, endpoint>>
    BY <1>1 DEF AuthVerify
  <2> QED
    BY <2>1, <2>2 DEF Forgets
<1>2. ASSUME NEW r \in Requests, NEW u \in People, ComposerAction(r, u) PROVE Moves(r)
  <2>1. u \in FIDs /\ tokens[u] \subseteq Tokens
    BY ProfilesAssumption DEF TypeOK
  <2>2. PICK t \in Tokens : AddAuthToken(r, None, u, t) /\ (t = r \/ t \in tokens[u])
    BY <1>2, <2>1 DEF ComposerAction, Tokens
  <2>3. PICK s \in ReqState :
           /\ Step(r, s) /\ s.at = "user" /\ s.nonce = None /\ s.fid = u /\ s.token = t
           /\ endpoint' = endpoint \cup {s.token}
    BY <2>1, <2>2, AddAuthTokenMoves
  <2>4. Mints(r, s)
    BY <1>2, <2>1, <2>2, <2>3 DEF Mints, ComposerAction
  <2> QED
    BY <2>3, <2>4
<1>3. ASSUME NEW r \in Requests, CheckStatus(r) PROVE Moves(r)
  <2>1. req[r].at = "check" /\ req[r].nonce \in Nonces /\ UNCHANGED tokens
    BY <1>3 DEF CheckStatus, RequestsInOrder
  <2>2. CASE completed[req[r].nonce] # None /\ AddAuthToken(r, req[r].nonce, completed[req[r].nonce], r)
    <3>1. completed[req[r].nonce] \in FIDs
        BY <1>a, <2>1, <2>2
    <3>2. PICK s \in ReqState :
             /\ Step(r, s) /\ s.at = "user" /\ s.nonce = req[r].nonce
             /\ s.fid = completed[req[r].nonce] /\ s.token = r
             /\ endpoint' = endpoint \cup {s.token}
        BY <2>1, <2>2, <3>1, AddAuthTokenMoves DEF Tokens
    <3>3. Mints(r, s)
        BY <2>1, <3>1, <3>2 DEF Mints, Tokens
    <3> QED
        BY <3>2, <3>3
  <2>3. CASE Step(r, IdleReq) /\ UNCHANGED endpoint
    BY <2>1, <2>3, AtRest DEF Forgets
  <2> QED
    BY <1>3, <2>2, <2>3 DEF CheckStatus
<1>4. ASSUME NEW r \in Requests, FindUser(r) PROVE Moves(r)
  <2>1. PICK at \in {"add", "token"} :
           Step(r, [req[r] EXCEPT !.at = at]) /\ (at = "token" => users[req[r].fid] # None)
    BY <1>4 DEF FindUser
  <2>2. req[r].at = "user" /\ UNCHANGED <<tokens, endpoint, users>>
    BY <1>4 DEF FindUser
  <2>3. GoesOn(r, [req[r] EXCEPT !.at = at])
    BY <1>a, <2>1, <2>2, AtChanges DEF GoesOn
  <2> QED
    BY <1>a, <2>1, <2>3, AtChanges
<1>5. ASSUME NEW r \in Requests, AddUser(r) PROVE Moves(r)
  <2>1. req[r].at = "add" /\ UNCHANGED <<tokens, endpoint>> /\ req[r].fid \in FIDs
    BY <1>5 DEF AddUser, RequestsInOrder
  <2>2. CASE /\ users' = [users EXCEPT ![req[r].fid] = Blank]
             /\ Step(r, [req[r] EXCEPT !.at = "token"])
    <3>1. users \in [FIDs -> Document \cup {None}]
        BY DEF TypeOK
    <3>2. users'[req[r].fid] = Blank
        BY <2>1, <2>2, <3>1
    <3>3. users'[req[r].fid] # None
      <4>1. Blank \in Document
        BY DEF Blank, Document
      <4> QED
        BY <3>2, <4>1, ProfilesAssumption
    <3>4. GoesOn(r, [req[r] EXCEPT !.at = "token"])
        BY <1>a, <2>1, <3>3, AtChanges DEF GoesOn
    <3> QED
        BY <1>a, <2>2, <3>4, AtChanges
  <2>3. CASE Answered(r)
    BY <2>1, <2>3, AnsweredMoves DEF Forgets
  <2> QED
    BY <1>5, <2>2, <2>3 DEF AddUser
<1>6. ASSUME NEW r \in Requests, AddToken(r) PROVE Moves(r)
  <2>1. PICK s \in ReqState : Step(r, s) /\ s.at = "done" /\ s.fid = 0 /\ s.token = None
    BY <1>6, AnsweredMoves DEF AddToken
  <2>2. Forgets(r, s) \/ Stores(r, s)
    BY <1>6, <2>1 DEF AddToken, Forgets, Stores
  <2> QED
    BY <2>1, <2>2
<1>7. CASE \E n \in Nonces : AuthLink(n) \/ \E u \in People : Complete(n, u)
    BY <1>7 DEF AuthLink, Complete
<1>8. CASE \E u \in People : Vote(u)
    BY <1>8 DEF Vote, auth
<1>9. CASE RunPendingProfiles \/ RunExistingProfilesUpdate \/ \E u \in FIDs : RunDiscoverProfiles(u)
    BY <1>9 DEF RunPendingProfiles, RunExistingProfilesUpdate, RunDiscoverProfiles, OnlyLoops, auth
<1>10. CASE \E l \in Loops : UpdateStep(l) \/ UpdateFails(l)
    BY <1>10 DEF UpdateStep, SkipInvalid, ReadUser, UpdateUser, UpdateFails, OnlyLoops, auth
<1>11. CASE UNCHANGED vars
    BY <1>11 DEF vars
<1> HIDE DEF Moves
<1> QED
    BY <1>1, <1>2, <1>3, <1>4, <1>5, <1>6, <1>7, <1>8, <1>9, <1>10, <1>11 DEF Next, AuthStep

\* Users stay, whoever writes their documents, and the relay does not change its mind.
LEMMA Stay ==
    ASSUME TypeOK, LoopsInOrder, RequestsInOrder, [Next]_vars
    PROVE  /\ \A u \in FIDs : users[u] # None => users'[u] # None
           /\ users' \in [FIDs -> Document \cup {None}]
           /\ completed' \in [Nonces -> FIDs \cup {None}]
           /\ \A n \in Nonces : completed[n] # None => completed'[n] = completed[n]
<1> DEFINE Kept == \/ UNCHANGED users
                   \/ \E u \in FIDs, d \in Document : users' = [users EXCEPT ![u] = d]
<1>a. /\ users \in [FIDs -> Document \cup {None}] /\ completed \in [Nonces -> FIDs \cup {None}]
      /\ loop \in [Loops -> LoopState]
    BY DEF TypeOK
<1>1. ASSUME NEW u \in People, Vote(u) PROVE Kept
  <2>1. u \in FIDs /\ users[u] \in Document /\ users' = [users EXCEPT ![u].votes = @ + 1]
    BY <1>1, <1>a, ProfilesAssumption DEF Vote
  <2>2. [users[u] EXCEPT !.votes = @ + 1] \in Document
    BY <2>1 DEF Document
  <2>3. users' = [users EXCEPT ![u] = [users[u] EXCEPT !.votes = @ + 1]]
    BY <2>1
  <2> QED
    BY <2>1, <2>2, <2>3
<1>2. ASSUME NEW l \in Loops, UpdateUser(l) PROVE Kept
  <2>1. loop[l].fid \in FIDs /\ loop[l].votes \in Nat /\ Count(loop[l].fid) \in Nat
    BY <1>2, <1>a DEF UpdateUser, LoopsInOrder, LoopState, Count, Document
  <2>2. [filled |-> TRUE, votes |-> IF loop[l].votes = 0 THEN Count(loop[l].fid) ELSE loop[l].votes]
           \in Document
    BY <2>1 DEF Document
  <2> QED
    BY <1>2, <2>1, <2>2 DEF UpdateUser
<1>3. ASSUME NEW r \in Requests, AddUser(r) PROVE Kept
  <2>1. Blank \in Document /\ req[r].fid \in FIDs
    BY <1>3 DEF Blank, Document, AddUser, RequestsInOrder
  <2> QED
    BY <1>3, <2>1 DEF AddUser
<1>4. ASSUME NEW r \in Requests, CheckStatus(r) \/ FindUser(r) \/ AddToken(r) PROVE Kept
    BY <1>4 DEF CheckStatus, FindUser, AddToken
<1>5. ASSUME NEW r \in Requests, NEW n \in Nonces, AuthVerify(r, n) PROVE Kept
    BY <1>5 DEF AuthVerify
<1>6. ASSUME NEW r \in Requests, NEW u \in People, ComposerAction(r, u) PROVE Kept
    BY <1>6 DEF ComposerAction
<1>7. ASSUME \E n \in Nonces : AuthLink(n) \/ \E u \in People : Complete(n, u) PROVE Kept
    BY <1>7 DEF AuthLink, Complete
<1>8. ASSUME RunPendingProfiles \/ RunExistingProfilesUpdate \/ \E u \in FIDs : RunDiscoverProfiles(u) PROVE Kept
    BY <1>8 DEF RunPendingProfiles, RunExistingProfilesUpdate, RunDiscoverProfiles
<1>9. ASSUME NEW l \in Loops, SkipInvalid(l) \/ ReadUser(l) \/ UpdateFails(l) PROVE Kept
    BY <1>9 DEF SkipInvalid, ReadUser, UpdateFails
<1>10. ASSUME Restart PROVE Kept
    BY <1>10 DEF Restart
<1>11. ASSUME UNCHANGED vars PROVE Kept
    BY <1>11 DEF vars
<1> HIDE DEF Kept
<1>12. Kept
    BY <1>1, <1>2, <1>3, <1>4, <1>5, <1>6, <1>7, <1>8, <1>9, <1>10, <1>11
    DEF Next, AuthStep, UpdateStep
<1>13. UNCHANGED completed \/ \E n \in Nonces, u \in People : Complete(n, u)
  <2>1. CASE \/ \E n \in Nonces : AuthLink(n)
             \/ \E r \in Requests, n \in Nonces : AuthVerify(r, n)
             \/ \E r \in Requests, u \in People : ComposerAction(r, u)
             \/ \E r \in Requests : AuthStep(r)
    BY <2>1 DEF AuthLink, AuthVerify, ComposerAction, AuthStep, CheckStatus, FindUser, AddUser,
       AddToken, OnlyReq
  <2>2. CASE \/ \E u \in People : Vote(u)
             \/ \E u \in FIDs : RunDiscoverProfiles(u)
             \/ RunPendingProfiles \/ RunExistingProfilesUpdate
             \/ \E l \in Loops : UpdateStep(l) \/ UpdateFails(l)
             \/ Restart
    BY <2>2 DEF Vote, auth, RunDiscoverProfiles, RunPendingProfiles, RunExistingProfilesUpdate,
       UpdateStep, SkipInvalid, ReadUser, UpdateUser, UpdateFails, OnlyLoops, Restart
  <2> QED
    BY <2>1, <2>2 DEF Next, vars
<1>14. /\ completed' \in [Nonces -> FIDs \cup {None}]
       /\ \A n \in Nonces : completed[n] # None => completed'[n] = completed[n]
    BY <1>a, <1>13, ProfilesAssumption DEF Complete
<1>15. /\ \A u \in FIDs : users[u] # None => users'[u] # None
       /\ users' \in [FIDs -> Document \cup {None}]
  <2>1. ASSUME NEW u \in FIDs, NEW d \in Document, users' = [users EXCEPT ![u] = d]
        PROVE  /\ \A v \in FIDs : users[v] # None => users'[v] # None
               /\ users' \in [FIDs -> Document \cup {None}]
    BY <2>1, <1>a, ProfilesAssumption
  <2> QED
    BY <1>a, <1>12, <2>1 DEF Kept
<1> QED
    BY <1>14, <1>15


-----------------------------------------------------------------------------
(* Steps of loops.                                                         *)

\* A loop that is done with a user goes on to another or rests.
LEMMA UpdatedMoves ==
    ASSUME TypeOK, NEW l \in Loops, NEW u \in FIDs, Updated(l, u)
    PROVE  /\ \E k \in LoopState : loop' = [loop EXCEPT ![l] = k] /\ k.at # "write"
           /\ startID' \in 0..LastFID + 1
<1>a. loop \in [Loops -> LoopState] /\ startID \in 0..LastFID + 1 /\ LastFID \in Nat
    BY ProfilesAssumption DEF TypeOK
<1>1. IdleLoop \in LoopState /\ IdleLoop.at # "write"
    BY <1>a DEF IdleLoop, LoopState
<1> DEFINE rest == loop[l].todo \ {u}
           next == [IdleLoop EXCEPT !.at = "next", !.todo = rest]
<1>2. next \in LoopState /\ next.at # "write"
  <2>1. rest \in SUBSET FIDs
    BY <1>a DEF LoopState
  <2> QED
    BY <1>1, <2>1 DEF LoopState
<1>3. loop' = [loop EXCEPT ![l] = IF rest = {} THEN IdleLoop ELSE next]
    BY DEF Updated
<1>4. startID' \in {startID, u, u + 1} /\ u \in 1..LastFID
    BY DEF Updated, FIDs
<1>5. startID' \in 0..LastFID + 1
    BY <1>a, <1>4
<1> HIDE DEF rest, next
<1> QED
    BY <1>1, <1>2, <1>3, <1>5

\* A loop begins a list, is done with a user, or has read the counts it will write.
LEMMA LoopMoves ==
    ASSUME TypeOK, LoopsInOrder, [Next]_vars
    PROVE  /\ \/ UNCHANGED loop
              \/ loop' = [l \in Loops |-> IdleLoop]
              \/ \E l \in Loops, k \in LoopState :
                    /\ loop' = [loop EXCEPT ![l] = k]
                    /\ k.at = "write" =>
                          /\ k.fid \in FIDs /\ k.votes = Count(k.fid)
                          /\ UNCHANGED <<users, votes, overlapped>>
           /\ startID' \in 0..LastFID + 1
<1> DEFINE Moves ==
              /\ \/ UNCHANGED loop
                 \/ loop' = [l \in Loops |-> IdleLoop]
                 \/ \E l \in Loops, k \in LoopState :
                       /\ loop' = [loop EXCEPT ![l] = k]
                       /\ k.at = "write" =>
                             /\ k.fid \in FIDs /\ k.votes = Count(k.fid)
                             /\ UNCHANGED <<users, votes, overlapped>>
              /\ startID' \in 0..LastFID + 1
<1> SUFFICES Moves
    OBVIOUS
<1>a. /\ loop \in [Loops -> LoopState] /\ startID \in 0..LastFID + 1 /\ LastFID \in Nat
      /\ users \in [FIDs -> Document \cup {None}]
    BY ProfilesAssumption DEF TypeOK
<1>b. \A u \in FIDs : Count(u) \in Nat
    BY <1>a DEF Count, Document
<1>c. ASSUME NEW l \in Loops, NEW s \in SUBSET FIDs, UNCHANGED startID,
             loop' = [loop EXCEPT ![l] = [IdleLoop EXCEPT !.at = "next", !.todo = s]]
      PROVE  Moves
  <2> DEFINE k == [IdleLoop EXCEPT !.at = "next", !.todo = s]
  <2>1. IdleLoop \in LoopState
    BY <1>a DEF IdleLoop, LoopState
  <2>2. k \in LoopState /\ k.at # "write"
    BY <2>1 DEF LoopState
  <2> HIDE DEF k
  <2>3. loop' = [loop EXCEPT ![l] = k]
    BY <1>c DEF k
  <2> QED
    BY <1>a, <1>c, <2>2, <2>3
<1>d. ASSUME NEW l \in Loops, NEW u \in FIDs, Updated(l, u) PROVE Moves
    BY <1>d, UpdatedMoves
<1>e. \A l \in Loops : NextUsers(l) \subseteq FIDs
    BY <1>a DEF NextUsers, LoopState
<1>1. CASE RunPendingProfiles
  <2>1. PICK s \in UsersWithPendingProfile :
           loop' = [loop EXCEPT !["pending"] = [IdleLoop EXCEPT !.at = "next", !.todo = s]]
    BY <1>1 DEF RunPendingProfiles
  <2>2. s \in SUBSET FIDs /\ "pending" \in Loops /\ UNCHANGED startID
    BY <1>1 DEF RunPendingProfiles, UsersWithPendingProfile, Loops
  <2> QED
    BY <2>1, <2>2, <1>c
<1>2. CASE RunExistingProfilesUpdate
  <2>1. UserIDs(startID) \in SUBSET FIDs /\ "existing" \in Loops
    BY DEF UserIDs, Loops
  <2>2. CASE UNCHANGED loop /\ startID' = 0
    BY <1>a, <2>2
  <2> QED
    BY <1>2, <1>c, <2>1, <2>2 DEF RunExistingProfilesUpdate
<1>3. ASSUME NEW u \in FIDs, RunDiscoverProfiles(u) PROVE Moves
  <2>1. {u} \in SUBSET FIDs /\ "index" \in Loops
    BY DEF Loops
  <2> QED
    BY <1>3, <1>c, <2>1 DEF RunDiscoverProfiles
<1>4. ASSUME NEW l \in Loops, SkipInvalid(l) PROVE Moves
    BY <1>4, <1>d, <1>e DEF SkipInvalid
<1>5. ASSUME NEW l \in Loops, ReadUser(l) PROVE Moves
  <2>1. PICK u \in NextUsers(l) :
           loop' = [loop EXCEPT ![l] = [loop[l] EXCEPT !.at = "write", !.fid = u, !.votes = Count(u)]]
    BY <1>5 DEF ReadUser
  <2> DEFINE k == [loop[l] EXCEPT !.at = "write", !.fid = u, !.votes = Count(u)]
  <2>2. u \in FIDs /\ u \in 0..LastFID /\ Count(u) \in Nat /\ loop[l] \in LoopState
    BY <1>a, <1>b, <1>e DEF FIDs
  <2>3. k \in LoopState /\ k.fid = u /\ k.votes = Count(u)
    BY <2>2 DEF LoopState
  <2> HIDE DEF k
  <2>4. loop' = [loop EXCEPT ![l] = k]
    BY <2>1 DEF k
  <2>5. UNCHANGED <<users, votes, overlapped, startID>>
    BY <1>5 DEF ReadUser, OnlyLoops
  <2> QED
    BY <1>a, <2>2, <2>3, <2>4, <2>5
<1>6. ASSUME NEW l \in Loops, UpdateUser(l) \/ UpdateFails(l) PROVE Moves
  <2>1. loop[l].fid \in FIDs /\ Updated(l, loop[l].fid)
    BY <1>6 DEF UpdateUser, UpdateFails, LoopsInOrder
  <2> QED
    BY <2>1, <1>d
<1>7. CASE Restart
    BY <1>7, <1>a DEF Restart, FIDs
<1>8. ASSUME UNCHANGED <<loop, startID>> PROVE Moves
    BY <1>8, <1>a
<1>9. CASE \/ \E n \in Nonces : AuthLink(n) \/ \E u \in People : Complete(n, u)
           \/ \E r \in Requests, n \in Nonces : AuthVerify(r, n)
           \/ \E r \in Requests, u \in People : ComposerAction(r, u)
           \/ \E r \in Requests : AuthStep(r)
           \/ \E u \in People : Vote(u)
    BY <1>8, <1>9 DEF AuthLink, Complete, AuthVerify, ComposerAction, AuthStep, CheckStatus,
       FindUser, AddUser, AddToken, OnlyReq, Vote, discovery
<1>10. CASE UNCHANGED vars
    BY <1>8, <1>10 DEF vars
<1> HIDE DEF Moves
<1> QED
    BY <1>1, <1>2, <1>3, <1>4, <1>5, <1>6, <1>7, <1>9, <1>10 DEF Next, UpdateStep

\* Only votes and updates change what is counted.
LEMMA CountMoves ==
    ASSUME TypeOK, [Next]_vars
    PROVE  \/ \E u \in People : Vote(u)
           \/ \E l \in Loops : UpdateUser(l)
           \/ UNCHANGED <<votes, overlapped>> /\ \A u \in FIDs : Count(u)' = Count(u)
<1>a. users \in [FIDs -> Document \cup {None}]
    BY DEF TypeOK
<1>1. ASSUME UNCHANGED users PROVE \A u \in FIDs : Count(u)' = Count(u)
    BY <1>1 DEF Count
<1>2. CASE \/ \E n \in Nonces : AuthLink(n) \/ \E u \in People : Complete(n, u)
           \/ \E r \in Requests, n \in Nonces : AuthVerify(r, n)
           \/ \E r \in Requests, u \in People : ComposerAction(r, u)
           \/ \E r \in Requests : CheckStatus(r) \/ FindUser(r) \/ AddToken(r)
           \/ Restart
    BY <1>1, <1>2 DEF AuthLink, Complete, AuthVerify, ComposerAction, CheckStatus,
       FindUser, AddToken, OnlyReq, Restart
<1>3. ASSUME NEW r \in Requests, AddUser(r)
      PROVE  UNCHANGED <<votes, overlapped>> /\ \A u \in FIDs : Count(u)' = Count(u)
  <2>1. \/ UNCHANGED users
        \/ users[req[r].fid] = None /\ users' = [users EXCEPT ![req[r].fid] = Blank]
    BY <1>3 DEF AddUser
  <2>2. Blank.votes = 0
    BY DEF Blank
  <2>3. \A u \in FIDs : Count(u)' = Count(u)
    BY <1>a, <2>1, <2>2 DEF Count
  <2> QED
    BY <1>3, <2>3 DEF AddUser, OnlyReq
<1>4. CASE \/ \E u \in FIDs : RunDiscoverProfiles(u)
           \/ RunPendingProfiles \/ RunExistingProfilesUpdate
           \/ \E l \in Loops : SkipInvalid(l) \/ ReadUser(l) \/ UpdateFails(l)
    BY <1>1, <1>4 DEF RunDiscoverProfiles, RunPendingProfiles, RunExistingProfilesUpdate,
       SkipInvalid, ReadUser, UpdateFails, OnlyLoops
<1>5. CASE UNCHANGED vars
    BY <1>1, <1>5 DEF vars
<1> QED
    BY <1>2, <1>3, <1>4, <1>5 DEF Next, AuthStep, UpdateStep


-----------------------------------------------------------------------------
(* The parts of the invariant.                                             *)

\* Every step keeps the types.
LEMMA TypeStep == TypeOK /\ RequestsInOrder /\ LoopsInOrder /\ [Next]_vars => TypeOK'
<1> SUFFICES ASSUME TypeOK, RequestsInOrder, LoopsInOrder, [Next]_vars PROVE TypeOK'
    OBVIOUS
<1>a. /\ req \in [Requests -> ReqState] /\ tokens \in [FIDs -> SUBSET Tokens]
      /\ endpoint \subseteq Tokens /\ loop \in [Loops -> LoopState] /\ LastFID \in Nat
    BY ProfilesAssumption DEF TypeOK
<1>1. /\ req' \in [Requests -> ReqState] /\ tokens' \in [FIDs -> SUBSET Tokens]
      /\ endpoint' \subseteq Tokens
  <2>1. CASE UNCHANGED <<req, tokens, endpoint>>
    BY <1>a, <2>1
  <2>2. CASE Restart
    BY <1>a, <2>2, AtRest DEF Restart
  <2>3. ASSUME NEW r \in Requests, NEW s \in ReqState, Step(r, s),
               Forgets(r, s) \/ Mints(r, s) \/ GoesOn(r, s)
        PROVE  /\ req' \in [Requests -> ReqState] /\ tokens' \in [FIDs -> SUBSET Tokens]
               /\ endpoint' \subseteq Tokens
    BY <1>a, <2>3 DEF Step, Forgets, Mints, GoesOn
  <2>4. ASSUME NEW r \in Requests, NEW s \in ReqState, Step(r, s), Stores(r, s)
        PROVE  /\ req' \in [Requests -> ReqState] /\ tokens' \in [FIDs -> SUBSET Tokens]
               /\ endpoint' \subseteq Tokens
    BY <1>a, <2>4 DEF Step, Stores, RequestsInOrder
  <2> QED
    BY <2>1, <2>2, <2>3, <2>4, RequestMoves
<1>2. loop' \in [Loops -> LoopState] /\ startID' \in 0..LastFID + 1
  <2>1. IdleLoop \in LoopState
    BY <1>a DEF IdleLoop, LoopState
  <2> QED
    BY <1>a, <2>1, LoopMoves
<1>3. channels' \subseteq Nonces
    BY DEF TypeOK, Next, vars, AuthStep, UpdateStep, AuthLink, Complete, AuthVerify,
       ComposerAction, CheckStatus, FindUser, AddUser, AddToken, Answered, Vote, auth,
       RunDiscoverProfiles, RunPendingProfiles, RunExistingProfilesUpdate, OnlyLoops,
       SkipInvalid, ReadUser, UpdateUser, UpdateFails, Restart
<1>4. votes' \in [FIDs -> Nat] /\ overlapped' \subseteq FIDs
  <2>1. ASSUME NEW u \in People, Vote(u) PROVE votes' \in [FIDs -> Nat] /\ overlapped' \subseteq FIDs
    BY <2>1, ProfilesAssumption DEF Vote, TypeOK
  <2>2. ASSUME NEW l \in Loops, UpdateUser(l) PROVE UNCHANGED <<votes, overlapped>>
    BY <2>2 DEF UpdateUser, OnlyLoops
  <2> QED
    BY <2>1, <2>2, CountMoves DEF TypeOK
<1>5. invalid' \subseteq FIDs
  <2>1. ASSUME NEW l \in Loops, SkipInvalid(l) PROVE invalid' \subseteq FIDs
    BY <1>a, <2>1 DEF SkipInvalid, NextUsers, LoopState, TypeOK
  <2> QED
    BY <2>1
    DEF TypeOK, Next, vars, AuthStep, UpdateStep, AuthLink, Complete, AuthVerify,
        ComposerAction, CheckStatus, FindUser, AddUser, AddToken, OnlyReq, discovery, Vote,
        RunDiscoverProfiles, RunPendingProfiles, RunExistingProfilesUpdate,
        ReadUser, UpdateUser, UpdateFails, Restart
<1>6. faults' \in 0..MaxFaults
  <2>1. UNCHANGED faults \/ Fault
    BY DEF Next, vars, AuthStep, UpdateStep, AuthLink, Complete, AuthVerify,
       ComposerAction, CheckStatus, FindUser, AddUser, AddToken, Vote,
       RunDiscoverProfiles, RunPendingProfiles, RunExistingProfilesUpdate,
       SkipInvalid, ReadUser, UpdateUser, UpdateFails, Restart
  <2> QED
    BY <2>1, ProfilesAssumption DEF TypeOK, Fault
<1> QED
    BY <1>1, <1>2, <1>3, <1>4, <1>5, <1>6, Stay DEF TypeOK

\* A request goes through its steps in order.
LEMMA RequestsStep ==
    TypeOK /\ RequestsInOrder /\ LoopsInOrder /\ [Next]_vars => RequestsInOrder'
<1> SUFFICES ASSUME TypeOK, RequestsInOrder, LoopsInOrder, [Next]_vars PROVE RequestsInOrder'
    OBVIOUS
<1>a. req \in [Requests -> ReqState] /\ \A u \in FIDs : users[u] # None => users'[u] # None
    BY Stay DEF TypeOK
<1>1. CASE UNCHANGED <<req, tokens, endpoint>>
    BY <1>a, <1>1 DEF RequestsInOrder
<1>2. CASE Restart
    BY <1>2, AtRest DEF Restart, RequestsInOrder
<1>3. ASSUME NEW r \in Requests, NEW s \in ReqState, Step(r, s),
             Forgets(r, s) \/ Mints(r, s) \/ GoesOn(r, s) \/ Stores(r, s)
      PROVE  RequestsInOrder'
  <2>1. \A q \in Requests : req'[q] = IF q = r THEN s ELSE req[q]
    BY <1>a, <1>3 DEF Step
  <2>2. endpoint \subseteq endpoint'
    BY <1>3 DEF Forgets, Mints, GoesOn, Stores
  <2>3. /\ s.at \in {"user", "add", "token"} => s.fid \in FIDs /\ s.token \in endpoint'
        /\ s.at = "token" => users'[s.fid] # None
        /\ s.at = "check" => s.nonce \in Nonces
    BY <1>3, <2>2 DEF Forgets, Mints, GoesOn, Stores, RequestsInOrder
  <2> QED
    BY <1>a, <2>1, <2>2, <2>3 DEF RequestsInOrder
<1> QED
    BY <1>1, <1>2, <1>3, RequestMoves

\* A token stays with its user, and only its request makes one.
LEMMA HolderStep == TypeOK /\ RequestsInOrder /\ OneHolder /\ [Next]_vars => OneHolder'
<1> SUFFICES ASSUME TypeOK, RequestsInOrder, OneHolder, [Next]_vars, NEW t \in Tokens
             PROVE  /\ \A u, v \in Holders(t)' : u = v
                    /\ req'[t].at \in {"idle", "check"} => Holders(t)' = {}
    BY DEF OneHolder
<1>a. /\ req \in [Requests -> ReqState] /\ tokens \in [FIDs -> SUBSET Tokens] /\ t \in Requests
      /\ None \notin Tokens
    BY ProfilesAssumption DEF TypeOK, Tokens
<1>b. ASSUME Holders(t)' \subseteq Holders(t),
             req'[t].at \in {"idle", "check"} => req[t].at \in {"idle", "check"}
      PROVE  /\ \A u, v \in Holders(t)' : u = v
             /\ req'[t].at \in {"idle", "check"} => Holders(t)' = {}
    BY <1>b DEF OneHolder
<1>1. CASE UNCHANGED <<req, tokens, endpoint>>
    BY <1>1, <1>b DEF Holders
<1>2. CASE Restart
  <2>1. \A r \in Requests : req'[r].token = None
    BY <1>2, AtRest DEF Restart
  <2>2. UNCHANGED tokens
    BY <1>2 DEF Restart
  <2>3. Holders(t)' \subseteq Holders(t)
    BY <1>a, <2>1, <2>2 DEF Holders
  <2>4. req'[t].at \in {"idle", "check"} => req[t].at = "idle"
    BY <1>a, <1>2, AtRest DEF Restart
  <2> QED
    BY <2>3, <2>4, <1>b
<1>3. ASSUME NEW r \in Requests, NEW s \in ReqState, Step(r, s)
      PROVE  /\ \A q \in Requests : req'[q] = IF q = r THEN s ELSE req[q]
             /\ UNCHANGED tokens =>
                   Holders(t)' \subseteq Holders(t) \cup (IF s.token = t THEN {s.fid} ELSE {})
  <2>1. \A q \in Requests : req'[q] = IF q = r THEN s ELSE req[q]
    BY <1>a, <1>3 DEF Step
  <2> QED
    BY <2>1 DEF Holders
<1>4. ASSUME NEW r \in Requests, NEW s \in ReqState, Step(r, s), Forgets(r, s)
      PROVE  /\ \A u, v \in Holders(t)' : u = v
             /\ req'[t].at \in {"idle", "check"} => Holders(t)' = {}
    BY <1>a, <1>b, <1>3, <1>4 DEF Forgets
<1>5. ASSUME NEW r \in Requests, NEW s \in ReqState, Step(r, s), GoesOn(r, s)
      PROVE  /\ \A u, v \in Holders(t)' : u = v
             /\ req'[t].at \in {"idle", "check"} => Holders(t)' = {}
  <2>1. s.token = t => s.fid \in Holders(t)
    BY <1>5 DEF GoesOn, Holders
  <2> QED
    BY <1>a, <1>b, <1>3, <1>5, <2>1 DEF GoesOn
<1>6. ASSUME NEW r \in Requests, NEW s \in ReqState, Step(r, s), Mints(r, s)
      PROVE  /\ \A u, v \in Holders(t)' : u = v
             /\ req'[t].at \in {"idle", "check"} => Holders(t)' = {}
  <2>1. CASE s.token # t \/ s.fid \in Holders(t)
    BY <1>a, <1>b, <1>3, <1>6, <2>1 DEF Mints
  <2>2. CASE s.token = t /\ s.fid \notin Holders(t)
    <3>1. t = r
        BY <1>6, <2>2 DEF Mints, Holders
    <3>2. Holders(t) = {}
        BY <1>6, <3>1 DEF Mints, OneHolder
    <3>3. Holders(t)' \subseteq {s.fid} /\ req'[t].at = "user"
        BY <1>3, <1>6, <2>2, <3>1, <3>2 DEF Mints
    <3> QED
        BY <3>3
  <2> QED
    BY <2>1, <2>2
<1>7. ASSUME NEW r \in Requests, NEW s \in ReqState, Step(r, s), Stores(r, s)
      PROVE  /\ \A u, v \in Holders(t)' : u = v
             /\ req'[t].at \in {"idle", "check"} => Holders(t)' = {}
  <2>1. req[r].fid \in FIDs
    BY <1>7 DEF Stores, RequestsInOrder
  <2>2. \A u \in FIDs : tokens'[u] = IF u = req[r].fid THEN tokens[u] \cup {req[r].token} ELSE tokens[u]
    BY <1>a, <1>7, <2>1 DEF Stores
  <2>3. s.token = None /\ s.at = "done"
    BY <1>7 DEF Stores
  <2>4. \A q \in Requests : req'[q] = IF q = r THEN s ELSE req[q]
    BY <1>3, <1>7
  <2>5. Holders(t)' \subseteq Holders(t)
    <3>1. ASSUME NEW u \in FIDs, t \in tokens'[u] PROVE u \in Holders(t)
        BY <2>2, <3>1 DEF Holders
    <3>2. ASSUME NEW q \in Requests, req'[q].token = t PROVE req'[q].fid \in Holders(t)
        BY <1>a, <2>3, <2>4, <3>2 DEF Holders
    <3> QED
        BY <3>1, <3>2 DEF Holders
  <2> QED
    BY <1>a, <1>b, <2>3, <2>4, <2>5
<1> QED
    BY <1>1, <1>2, <1>4, <1>5, <1>6, <1>7, RequestMoves

\* Who has verified remains who completed the channel.
LEMMA OwnStep ==
    TypeOK /\ RequestsInOrder /\ LoopsInOrder /\ OneHolder' /\ TokensAreOwn /\ [Next]_vars
    => TokensAreOwn'
<1> SUFFICES ASSUME TypeOK, RequestsInOrder, LoopsInOrder, OneHolder', TokensAreOwn, [Next]_vars
             PROVE  TokensAreOwn'
    OBVIOUS
<1> DEFINE Completed(r) ==
              req[r].nonce # None /\ req[r].fid # 0 => completed[req[r].nonce] = req[r].fid
<1>a. /\ req \in [Requests -> ReqState] /\ None \notin FIDs
      /\ \A n \in Nonces : completed[n] # None => completed'[n] = completed[n]
      /\ \A fid \in 0..LastFID : fid # 0 => fid \in FIDs
    BY Stay, ProfilesAssumption DEF TypeOK, FIDs
<1>b. \A r \in Requests : Completed(r)
    BY DEF TokensAreOwn
<1>c. ASSUME NEW r \in Requests, req'[r] = req[r] PROVE Completed(r)'
  <2>1. req[r].nonce \in Nonces \cup {None} /\ req[r].fid \in 0..LastFID
    BY <1>a DEF ReqState
  <2>2. req[r].nonce # None /\ req[r].fid # 0 => completed[req[r].nonce] # None
    BY <1>a, <1>b, <2>1
  <2> QED
    BY <1>a, <1>b, <1>c, <2>1, <2>2
<1> SUFFICES ASSUME NEW q \in Requests PROVE Completed(q)'
  <2>1. ASSUME NEW t \in Tokens PROVE Cardinality(UserFromAuthToken(t)') <= 1
    <3>1. \A u, v \in UserFromAuthToken(t)' : u = v
        BY DEF OneHolder, Holders, UserFromAuthToken
    <3>2. UserFromAuthToken(t)' = {} \/ \E u \in UserFromAuthToken(t)' : UserFromAuthToken(t)' = {u}
        BY <3>1
    <3> QED
        BY <3>2, FS_EmptySet, FS_Singleton
  <2> QED
    BY <2>1 DEF TokensAreOwn
<1>1. CASE UNCHANGED <<req, tokens, endpoint>>
    BY <1>1, <1>c
<1>2. CASE Restart
    BY <1>2, AtRest DEF Restart
<1>3. ASSUME NEW r \in Requests, NEW s \in ReqState, Step(r, s),
             Forgets(r, s) \/ Mints(r, s) \/ GoesOn(r, s) \/ Stores(r, s)
      PROVE  Completed(q)'
  <2>1. req'[q] = IF q = r THEN s ELSE req[q]
    BY <1>a, <1>3 DEF Step
  <2>2. CASE q = r /\ (Forgets(r, s) \/ Stores(r, s))
    BY <2>1, <2>2 DEF Forgets, Stores
  <2>3. CASE q = r /\ Mints(r, s)
    BY <1>a, <2>1, <2>3 DEF Mints
  <2>4. CASE q = r /\ GoesOn(r, s)
    <3>1. req'[q].nonce = req[q].nonce /\ req'[q].fid = req[q].fid
        BY <2>1, <2>4 DEF GoesOn
    <3>2. req[q].nonce \in Nonces \cup {None} /\ req[q].fid \in 0..LastFID
        BY <1>a DEF ReqState
    <3>3. req[q].nonce # None /\ req[q].fid # 0 => completed[req[q].nonce] # None
        BY <1>a, <1>b, <3>2
    <3> QED
        BY <1>a, <1>b, <3>1, <3>2, <3>3
  <2> QED
    BY <1>3, <1>c, <2>1, <2>2, <2>3, <2>4
<1> QED
    BY <1>1, <1>2, <1>3, RequestMoves

\* A token that is stored is accepted, of a user who is there.
LEMMA WorkStep ==
    TypeOK /\ RequestsInOrder /\ LoopsInOrder /\ TokensWork /\ [Next]_vars => TokensWork'
<1> SUFFICES ASSUME TypeOK, RequestsInOrder, LoopsInOrder, TokensWork, [Next]_vars
             PROVE  TokensWork'
    OBVIOUS
<1>a. tokens \in [FIDs -> SUBSET Tokens] /\ \A u \in FIDs : users[u] # None => users'[u] # None
    BY Stay DEF TypeOK
<1>1. CASE UNCHANGED <<req, tokens, endpoint>>
    BY <1>1, <1>a DEF TokensWork
<1>2. CASE Restart
    BY <1>2 DEF Restart, TokensWork
<1>3. ASSUME NEW r \in Requests, NEW s \in ReqState,
             Forgets(r, s) \/ Mints(r, s) \/ GoesOn(r, s)
      PROVE  TokensWork'
    BY <1>3, <1>a DEF Forgets, Mints, GoesOn, TokensWork
<1>4. ASSUME NEW r \in Requests, NEW s \in ReqState, Stores(r, s) PROVE TokensWork'
  <2>1. req[r].fid \in FIDs /\ req[r].token \in endpoint /\ users[req[r].fid] # None
    BY <1>4 DEF Stores, RequestsInOrder
  <2>2. /\ endpoint' = endpoint
        /\ \A u \in FIDs :
              tokens'[u] = IF u = req[r].fid THEN tokens[u] \cup {req[r].token} ELSE tokens[u]
    BY <1>a, <1>4, <2>1 DEF Stores
  <2> QED
    BY <1>a, <2>1, <2>2 DEF TokensWork
<1> QED
    BY <1>1, <1>2, <1>3, <1>4, RequestMoves

\* A loop that writes has a user.
LEMMA LoopsStep == TypeOK /\ LoopsInOrder /\ [Next]_vars => LoopsInOrder'
<1> SUFFICES ASSUME TypeOK, LoopsInOrder, [Next]_vars PROVE LoopsInOrder'
    OBVIOUS
<1>1. loop \in [Loops -> LoopState] /\ IdleLoop.at = "idle"
    BY DEF TypeOK, IdleLoop
<1>2. ASSUME NEW l \in Loops, NEW k \in LoopState, loop' = [loop EXCEPT ![l] = k],
             k.at = "write" => k.fid \in FIDs
      PROVE  LoopsInOrder'
    BY <1>1, <1>2 DEF LoopsInOrder
<1>3. CASE UNCHANGED loop
    BY <1>3 DEF LoopsInOrder
<1>4. CASE loop' = [l \in Loops |-> IdleLoop]
    BY <1>1, <1>4 DEF LoopsInOrder
<1> QED
    BY <1>2, <1>3, <1>4, LoopMoves

\* What is counted, and read, goes along with the votes.
LEMMA CountsStep == TypeOK /\ LoopsInOrder /\ CountsInOrder /\ [Next]_vars => CountsInOrder'
<1> SUFFICES ASSUME TypeOK, LoopsInOrder, CountsInOrder, [Next]_vars PROVE CountsInOrder'
    OBVIOUS
<1>a. /\ users \in [FIDs -> Document \cup {None}] /\ votes \in [FIDs -> Nat]
      /\ loop \in [Loops -> LoopState] /\ IdleLoop.at = "idle"
    BY DEF TypeOK, IdleLoop
<1>b. \A u \in FIDs : Count(u) \in Nat
    BY <1>a DEF Count, Document
<1>1. ASSUME NEW u \in People, Vote(u) PROVE CountsInOrder'
  <2>1. /\ u \in FIDs /\ users[u] # None
        /\ votes' = [votes EXCEPT ![u] = @ + 1] /\ users' = [users EXCEPT ![u].votes = @ + 1]
        /\ overlapped' = IF Updating(u) THEN overlapped \cup {u} ELSE overlapped
        /\ UNCHANGED loop
    BY <1>1, ProfilesAssumption DEF Vote, discovery
  <2>2. \A v \in FIDs : votes'[v] = IF v = u THEN votes[v] + 1 ELSE votes[v]
    BY <1>a, <2>1
  <2>3. \A v \in FIDs : Count(v)' = IF v = u THEN Count(v) + 1 ELSE Count(v)
    <3>1. users[u] \in Document
        BY <1>a, <2>1
    <3>2. users'[u] = [users[u] EXCEPT !.votes = @ + 1]
        BY <1>a, <2>1
    <3>3. users'[u].votes = users[u].votes + 1 /\ users'[u] \in Document
        BY <3>1, <3>2 DEF Document
    <3>4. users'[u] # None
        BY <3>3, ProfilesAssumption
    <3>5. \A v \in FIDs \ {u} : users'[v] = users[v]
        BY <1>a, <2>1
    <3> QED
        BY <2>1, <3>3, <3>4, <3>5 DEF Count
  <2>4. \A l \in Loops : loop[l].at = "write" /\ loop[l].fid = u => u \in overlapped'
    BY <2>1 DEF Updating
  <2>5. \A l \in Loops : loop[l].votes \in Nat
    BY <1>a DEF LoopState
  <2>6. overlapped \subseteq overlapped' /\ overlapped' \subseteq overlapped \cup {u}
    BY <2>1
  <2> QED
    BY <1>a, <1>b, <2>1, <2>2, <2>3, <2>4, <2>5, <2>6 DEF CountsInOrder
<1>2. ASSUME UNCHANGED <<votes, overlapped>>,
             \A u \in FIDs :
                Count(u)' <= votes[u] /\ (u \notin overlapped => Count(u)' = votes[u])
      PROVE  CountsInOrder'
  <2>1. ASSUME NEW u \in FIDs, NEW l \in Loops, loop'[l].at = "write", loop'[l].fid = u
        PROVE  loop'[l].votes <= votes[u] /\ (u \notin overlapped => loop'[l].votes = votes[u])
    <3>1. CASE loop'[l] = loop[l]
        BY <2>1, <3>1 DEF CountsInOrder
    <3>2. CASE loop'[l] = IdleLoop
        BY <1>a, <2>1, <3>2
    <3>3. CASE loop'[l].votes = Count(u)
        BY <3>3 DEF CountsInOrder
    <3> QED
        BY <1>a, <2>1, <3>1, <3>2, <3>3, LoopMoves
  <2> QED
    BY <1>2, <2>1 DEF CountsInOrder
<1>3. ASSUME NEW l \in Loops, UpdateUser(l) PROVE CountsInOrder'
  <2> DEFINE fid == loop[l].fid
             new == IF loop[l].votes = 0 THEN Count(fid) ELSE loop[l].votes
  <2>1. fid \in FIDs /\ loop[l].at = "write" /\ UNCHANGED <<votes, overlapped>>
    BY <1>3 DEF UpdateUser, LoopsInOrder, OnlyLoops
  <2>2. new <= votes[fid] /\ (fid \notin overlapped => new = votes[fid]) /\ new \in Nat
    BY <1>a, <1>b, <2>1 DEF CountsInOrder, LoopState
  <2>3. users' = [users EXCEPT ![fid] = [filled |-> TRUE, votes |-> new]]
    BY <1>3 DEF UpdateUser
  <2>4. [filled |-> TRUE, votes |-> new] # None
    <3>1. [filled |-> TRUE, votes |-> new] \in Document
        BY <2>2 DEF Document
    <3> QED
        BY <3>1, ProfilesAssumption
  <2> HIDE DEF fid, new
  <2>5. \A u \in FIDs : Count(u)' = IF u = fid THEN new ELSE Count(u)
    BY <1>a, <2>1, <2>3, <2>4 DEF Count
  <2> QED
    BY <1>2, <2>1, <2>2, <2>5 DEF CountsInOrder
<1> QED
    BY <1>1, <1>2, <1>3, CountMoves DEF CountsInOrder

-----------------------------------------------------------------------------
(* The theorems.                                                           *)

\* At the start nobody has a token, has voted or is being updated.
LEMMA InitInvariant == Init => ProfilesInvariant
<1> SUFFICES ASSUME Init PROVE ProfilesInvariant
    OBVIOUS
<1>1. /\ IdleReq \in ReqState /\ IdleReq.at = "idle" /\ IdleReq.fid = 0 /\ IdleReq.token = None
      /\ IdleReq.nonce = None
    BY AtRest
<1>2. IdleLoop \in LoopState /\ IdleLoop.at = "idle"
    BY ProfilesAssumption DEF IdleLoop, LoopState
<1>3. Blank \in Document /\ Blank # None /\ Blank.votes = 0
  <2>1. Blank \in Document /\ Blank.votes = 0
    BY DEF Blank, Document
  <2> QED
    BY <2>1, ProfilesAssumption
<1>4. /\ \A r \in Requests : req[r] = IdleReq
      /\ \A u \in FIDs : tokens[u] = {} /\ votes[u] = 0 /\ users[u] \in {Blank, None}
      /\ \A l \in Loops : loop[l] = IdleLoop
    BY DEF Init
<1>5. TypeOK
  <2>1. req \in [Requests -> ReqState] /\ loop \in [Loops -> LoopState]
    BY <1>1, <1>2 DEF Init
  <2>2. users \in [FIDs -> Document \cup {None}]
    BY <1>3 DEF Init
  <2>3. votes \in [FIDs -> Nat] /\ tokens \in [FIDs -> SUBSET Tokens]
    BY DEF Init
  <2>4. startID \in 0..LastFID + 1 /\ faults \in 0..MaxFaults
    BY ProfilesAssumption DEF Init, FIDs
  <2> QED
    BY <2>1, <2>2, <2>3, <2>4 DEF Init, TypeOK
<1>6. RequestsInOrder /\ LoopsInOrder
    BY <1>1, <1>2, <1>4 DEF RequestsInOrder, LoopsInOrder
<1>7. \A t \in Tokens : Holders(t) = {}
    BY <1>1, <1>4, ProfilesAssumption DEF Holders, Tokens
<1>8. OneHolder
    BY <1>7 DEF OneHolder
<1>9. TokensAreOwn
  <2>1. \A t \in Tokens : UserFromAuthToken(t) = {}
    BY <1>4 DEF UserFromAuthToken
  <2> QED
    BY <1>1, <1>4, <2>1, FS_EmptySet DEF TokensAreOwn
<1>10. TokensWork
    BY <1>4 DEF TokensWork
<1>11. CountsInOrder
    BY <1>2, <1>3, <1>4 DEF CountsInOrder, Count
<1> QED
    BY <1>5, <1>6, <1>8, <1>9, <1>10, <1>11 DEF ProfilesInvariant

\* Every step keeps the invariant.
LEMMA StepInvariant == ProfilesInvariant /\ [Next]_vars => ProfilesInvariant'
BY TypeStep, RequestsStep, HolderStep, OwnStep, WorkStep, LoopsStep, CountsStep
   DEF ProfilesInvariant

\* The inductive invariant: requests, tokens, loops and counts are in step.
THEOREM ProfilesInvariantHolds == Spec => []ProfilesInvariant
<1>1. Init => ProfilesInvariant
    BY InitInvariant
<1>2. ProfilesInvariant /\ [Next]_vars => ProfilesInvariant'
    BY StepInvariant
<1> QED
    BY <1>1, <1>2, PTL DEF Spec

\* The state has the shape the code gives it.
THEOREM ProfilesTypeCorrect == Spec => []TypeOK
<1>1. ProfilesInvariant => TypeOK
    BY DEF ProfilesInvariant
<1> QED
    BY <1>1, ProfilesInvariantHolds, PTL

\* auth.go:43: a verification is for who completed its channel, and a token is one
\* user's, however many verifications and composer actions overlap.
THEOREM TokensAreOwnAlways == Spec => []TokensAreOwn
<1>1. ProfilesInvariant => TokensAreOwn
    BY DEF ProfilesInvariant
<1> QED
    BY <1>1, ProfilesInvariantHolds, PTL

\* mongo/authentication.go:15: who has a token is a user and the API accepts it, whichever
\* writes fail and however often the process starts again.
THEOREM TokensWorkAlways == Spec => []TokensWork
<1>1. ProfilesInvariant => TokensWork
    BY DEF ProfilesInvariant
<1> QED
    BY <1>1, ProfilesInvariantHolds, PTL

\* discover.go:148: updates lose only votes that came in between, and count none twice.
THEOREM VotesKeptAlways == Spec => []VotesKept
<1>1. ProfilesInvariant => VotesKept
    BY DEF ProfilesInvariant, CountsInOrder, Count, VotesKept
<1> QED
    BY <1>1, ProfilesInvariantHolds, PTL
=============================================================================
