----------------------- MODULE CommunityHubProperties -----------------------
(* What the copy of the communities in the database promises.              *)
EXTENDS CommunityHub

\* A community in the database is one of the contract's: neither loop takes the empty
\* answer for an unknown ID for a community (Community, contract.go:81), and no request
\* creates one.
Registered == \A id \in IDs : db[id] # Nil => id \in DOMAIN chain

\* The creator is the same in the contract, in the database and in every transaction on
\* its way, whoever asks for other admins and however the loops overlap
\* (joinCommunityData, hub.go:454).
CreatorKept ==
    \A id \in IDs :
        /\ db[id] # Nil => db[id].admins.first = chain[id].admins.first
        /\ \A i \in DOMAIN pool :
              pool[i].id = id => pool[i].data.admins.first = chain[id].admins.first

\* The copy agrees with the contract.  A chat that was removed there stays in the
\* database, whose updates leave out what is empty (dynamicUpdateDocument).
Agrees(id) ==
    id \in DOMAIN chain =>
        /\ db[id] # Nil
        /\ LET c == chain[id] IN
              db[id] = [c EXCEPT !.permission = 0, !.funds = 0,
                                 !.chat = IF @ = Empty THEN db[id].chat ELSE @]

\* Whatever failed, was overwritten or was lost at a restart, the copy agrees with the
\* contract for good once nobody changes the communities (SyncCommunities, hub.go:171).
Converges == <>[](stopped \/ \A id \in IDs : Agrees(id))

\* Stop returns: both loops notice the cancelled context (hub.go:250).
StopReturns ==
    stopped ~> (~stopped \/ \A l \in Loops : loop[l].at = "ended")

-----------------------------------------------------------------------------
(* Why they hold: the inductive invariant.                                 *)

\* c is a community of the contract, of the creator that it has there.
OfChain(id, c) ==
    id \in DOMAIN chain /\ c \in Community /\ c.admins.first = chain[id].admins.first

\* So is all that the database keeps, and all that is on its way to the contract or to
\* the database.
KeptInDB == \A id \in IDs : db[id] \in Community => OfChain(id, db[id])
KeptInPool == \A i \in DOMAIN pool : OfChain(pool[i].id, pool[i].data)
LoopKeeps(k) == k.at \in {"db", "add", "insert", "write"} => OfChain(k.id, k.data)
KeptInLoops == \A l \in Loops : LoopKeeps(loop[l])
RequestKeeps(k) ==
    /\ k.at \notin {"idle", "done"} =>
          k.ask \in Asks /\ k.data \in Community /\ db[k.ask.id] \in Community
    /\ k.at \in {"avatar", "upload"} => k.ask.image \in Images
    /\ k.at \in {"prepare", "send", "record"} => OfChain(k.ask.id, k.data)
KeptInRequests == \A r \in Requests : RequestKeeps(req[r])

HubInvariant == TypeOK /\ KeptInDB /\ KeptInPool /\ KeptInLoops /\ KeptInRequests

\* No community leaves the contract, or gets another creator there.
ChainGrows ==
    \A id \in DOMAIN chain :
        id \in DOMAIN chain' /\ chain'[id].admins.first = chain[id].admins.first
=============================================================================
