------------------------- MODULE ResultsProperties -------------------------
(* What the life of the results of a poll must satisfy.                    *)
EXTENDS Results

\* What a copy of the chain's state, in a cache or in the hands of a handler,
\* says of the election however long ago it was made: it is not ahead of the
\* chain, and when it is final it is the chain's state.
Faithful(e, snap) ==
    /\ snap.tally <= chain[e].tally
    /\ snap.count <= chain[e].count
    /\ snap.final => snap = chain[e]

\* Results are never published ahead of the chain, and finalized results are
\* the last tally of an election that has ended, whichever of the handlers,
\* vote loops and finalizers wrote last (mongo/results.go:17 and 114).
PublishedTally ==
    \A e \in Elections :
        /\ results[e].tally <= chain[e].tally
        /\ results[e].stage = "finalized" =>
              chain[e].final /\ results[e].tally = chain[e].tally

\* The image stored with the final results shows the final tally, though images
\* are cached under a key that holds the vote count and not the tally
\* (imageframe/cache.go:15, results.go:131).
FinalImage ==
    \A e \in Elections :
        results[e].png # Nil =>
            results[e].stage = "finalized" /\ results[e].png = chain[e].tally

\* The hub holds results only of polls whose results are finalized in the
\* database, with the same tally: the settlement comes after the database, and
\* no later write takes it back (results.go:129-140).
HubAgrees ==
    \A c \in Communities, s \in Slots :
        hub[c][s] # Nil =>
            LET e == hub[c][s].question
            IN  /\ results[e].stage = "finalized"
                /\ results[e].tally = hub[c][s].tally
                /\ CommunityOf[e] = c

-----------------------------------------------------------------------------
(* What makes these hold: the invariant the proofs are by induction on.    *)

Finalizing == {"image", "wait", "addfinal", "settle"}

\* A handler holds a faithful copy; it finalizes only with the final one, settles
\* only what the database holds as finalized, and the image it has fetched shows
\* the final tally.
SoundTask(k) ==
    /\ Faithful(k.e, k.snap)
    /\ k.pc \in Finalizing => k.snap.final
    /\ k.pc = "settle" => results[k.e].stage = "finalized"
    /\ k.pc \in {"addfinal", "settle"} =>
          k.png = Nil \/ k.png = chain[k.e].tally

TasksSound == \A t \in Tasks : task[t] # Idle => SoundTask(task[t])

CacheSound ==
    \A e \in Elections : electionLRU[e] # Nil => Faithful(e, electionLRU[e])

\* An image under a final key shows the final tally, drawn or to be drawn.
ImagesSound ==
    \A i \in images \cup drawing :
        i.final => chain[i.election].final /\ i.tally = chain[i.election].tally

Safe ==
    /\ TasksSound /\ CacheSound /\ ImagesSound
    /\ PublishedTally /\ FinalImage /\ HubAgrees

-----------------------------------------------------------------------------
\* No step takes back finalized results or changes their tally, a late writer
\* of partial results or a second finalizer included (mongo/results.go:114).
FinalizedForever ==
    [][\A e \in Elections :
          results[e].stage = "finalized" =>
              /\ results'[e].stage = "finalized"
              /\ results'[e].tally = results[e].tally]_vars

\* The server implements the board of results.
Board == INSTANCE ResultsBoard WITH
            tally  <- [e \in Elections |-> chain[e].tally],
            closed <- [e \in Elections |-> chain[e].final],
            board  <- [e \in Elections |-> [stage |-> results[e].stage,
                                            tally |-> results[e].tally]]

\* Every behaviour of the server is one of the results board.
ImplementsBoard == Board!Spec

\* An election that has ended and has a results document is finalized in the
\* end, through failed fetches, failed writes, timeouts of the image service
\* and restarts (election_background.go:49).
EventuallyFinalized ==
    \A e \in Elections :
        chain[e].final /\ results[e].stage = "partial" /\ elections[e] = "stored"
            ~> results[e].stage = "finalized"

=============================================================================
