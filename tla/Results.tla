------------------------------ MODULE Results ------------------------------
(***************************************************************************)
(* How the results of a poll travel from the Vochain to the users: the     *)
(* election LRU cache of the web server, the "results" collection of the   *)
(* database, the images drawn by the image service, the background loop    *)
(* that finalizes elections, and the community hub contract the final      *)
(* results are settled into (results.go, election.go, vote.go,             *)
(* election_background.go, mongo/results.go, imageframe/).                 *)
(*                                                                         *)
(* A tally is abstracted to its version: every ballot the chain accepts    *)
(* makes a new one.  A ballot that overwrites an earlier one makes a new   *)
(* tally but leaves the vote count as it was, and the key of a results     *)
(* image holds the vote count only, so the two are kept apart.             *)
(***************************************************************************)
EXTENDS Naturals, FiniteSets

CONSTANTS
    Elections,      \* the elections of the instance
    Communities,    \* communities that have a contract in the hub
    CommunityOf,    \* the community an election was created for, or Nil
    Requests,       \* HTTP handlers, and the goroutines they leave behind
    Workers,        \* goroutines started by the background loop
    MaxTally,       \* bound: ballots the chain accepts in one election
    MaxPolls,       \* bound: rounds of the loop that follows a vote (10)
    MaxCrashes,     \* bound: restarts of the server
    MaxDrawing,     \* bound: images drawn at the same time
    MaxImages,      \* capacity of imagesLRU (2048)
    ZeroID,         \* the all zeros [32]byte, the key of a nil election ID
    Nil             \* an absent document, cache entry or image

Tally == 0..MaxTally
Tasks == Requests \cup Workers
Slots == Elections \cup {ZeroID}

\* What cli.Election returns: the vote count, the tally, and FinalResults.
Snapshot == [count : Tally, tally : Tally, final : BOOLEAN]

\* A document of the results collection ("absent": there is none).
Document == [stage : {"absent", "partial", "finalized"},
             tally : Tally,
             png   : Tally \cup {Nil}]

\* An image of the results LRU.  The first three fields are its key.
Image == [election : Elections, count : Tally, final : BOOLEAN, tally : Tally]

\* What the contract stores for a poll; the question identifies the poll.
HubResult == [question : Elections, tally : Tally]

ASSUME ConstantsAssumption ==
    /\ MaxTally \in Nat /\ MaxPolls \in Nat /\ MaxCrashes \in Nat
    /\ MaxDrawing \in Nat /\ MaxImages \in Nat \ {0}
    /\ Requests \cap Workers = {}
    /\ ZeroID \notin Elections
    /\ CommunityOf \in [Elections -> Communities \cup {Nil}]
    /\ Nil \notin Communities
    /\ Nil \notin Tally /\ Nil \notin Snapshot /\ Nil \notin HubResult

VARIABLES
    chain,       \* the Vochain's view of every election (external)
    elections,   \* the elections collection: has the document been saved?
    results,     \* the results collection
    electionLRU, \* vocdoniHandler.electionLRU
    images,      \* imagesLRU, restricted to the results images
    drawing,     \* requests under way at the image service
    hub,         \* the results stored by the community hub contract
    task,        \* handlers and goroutines of the server
    background,  \* finalizeElectionsAtBackround
    crashes

vars == <<chain, elections, results, electionLRU, images, drawing, hub, task,
          background, crashes>>

(***************************************************************************)
(* A task is one handler call.  pc is the step it does next:               *)
(*   election - v.election(id)             fill   - Add after a cache miss *)
(*   fetch    - v.cli.Election(id)         readdb - v.db.Election(id)      *)
(*   cache    - electionLRU.Add            partial - SetPartialResults     *)
(*   show     - resultsPNGfile                                             *)
(*   send     - the ballot is sent         poll   - the loop that follows  *)
(*   save, insert - saveElectionAndProfile                                 *)
(*   image    - ResultsImage               wait   - FromCache              *)
(*   addfinal - AddFinalResults            settle - the hub transaction    *)
(***************************************************************************)
Steps == {"election", "fill", "fetch", "readdb", "cache", "partial", "show", "send",
          "poll", "save", "insert", "image", "wait", "addfinal", "settle"}
Ops == {"view", "vote", "results", "info", "poll", "save", "finalize"}

Task == [pc : Steps, op : Ops, e : Elections, snap : Snapshot, db : BOOLEAN,
         seen : Tally, polls : 0..MaxPolls, png : Tally \cup {Nil}]

Idle == [pc |-> "idle"]
NoSnapshot == [count |-> 0, tally |-> 0, final |-> FALSE]

NewTask(op, pc, e) ==
    [pc |-> pc, op |-> op, e |-> e, snap |-> NoSnapshot, db |-> FALSE,
     seen |-> 0, polls |-> 0, png |-> Nil]

\* The document an absent results document is represented by.
NoResults == [stage |-> "absent", tally |-> 0, png |-> Nil]

TypeOK ==
    /\ chain \in [Elections -> Snapshot]
    /\ elections \in [Elections -> {"unsaved", "saving", "stored"}]
    /\ results \in [Elections -> Document]
    /\ electionLRU \in [Elections -> Snapshot \cup {Nil}]
    /\ images \in SUBSET Image
    /\ drawing \in SUBSET Image
    /\ hub \in [Communities -> [Slots -> HubResult \cup {Nil}]]
    /\ task \in [Tasks -> Task \cup {Idle}]
    /\ background \in [awake : BOOLEAN, todo : SUBSET Elections]
    /\ crashes \in 0..MaxCrashes

Asleep == [awake |-> FALSE, todo |-> {}]

Init ==
    /\ chain = [e \in Elections |-> NoSnapshot]
    /\ elections = [e \in Elections |-> "unsaved"]
    /\ results = [e \in Elections |-> NoResults]
    /\ electionLRU = [e \in Elections |-> Nil]
    /\ images = {}
    /\ drawing = {}
    /\ hub = [c \in Communities |-> [s \in Slots |-> Nil]]
    /\ task = [t \in Tasks |-> Idle]
    /\ background = Asleep
    /\ crashes = 0

-----------------------------------------------------------------------------
(* The Vochain (external): it accepts ballots until the election ends.     *)

ChainVote(e) ==
    /\ ~chain[e].final
    /\ chain[e].tally < MaxTally
    /\ \E overwrite \in BOOLEAN :
          /\ overwrite => chain[e].count > 0
          /\ chain' = [chain EXCEPT ![e] =
                [count |-> IF overwrite THEN @.count ELSE @.count + 1,
                 tally |-> @.tally + 1, final |-> FALSE]]
    /\ UNCHANGED <<elections, results, electionLRU, images, drawing, hub, task,
                   background, crashes>>

ChainEnd(e) ==
    /\ ~chain[e].final
    /\ chain' = [chain EXCEPT ![e].final = TRUE]
    /\ UNCHANGED <<elections, results, electionLRU, images, drawing, hub, task,
                   background, crashes>>

-----------------------------------------------------------------------------
(* Starting a request.                                                     *)

Begin(t, op, pc, e) ==
    /\ task[t] = Idle
    /\ task' = [task EXCEPT ![t] = NewTask(op, pc, e)]
    /\ UNCHANGED <<chain, results, electionLRU, images, drawing, hub,
                   background, crashes>>

\* checkIfElectionFinishedAndHandle: when a final image is stored it is sent
\* and the handler returns, so the handler goes on only when there is none.
NotFinished(e) == results[e].png = Nil

\* landing, info, showElection and the image previews only read the election.
View(t, e) ==
    /\ NotFinished(e)
    /\ Begin(t, "view", "election", e)
    /\ UNCHANGED elections

Vote(t, e) ==
    /\ NotFinished(e)
    /\ Begin(t, "vote", "election", e)
    /\ UNCHANGED elections

ShowResults(t, e) ==
    /\ NotFinished(e)
    /\ Begin(t, "results", "fetch", e)
    /\ UNCHANGED elections

\* electionFullInfo: finalized results are answered from the database.
FullInfo(t, e) ==
    /\ elections[e] = "stored"
    /\ results[e].stage # "finalized"
    /\ Begin(t, "info", "fetch", e)
    /\ UNCHANGED elections

\* The background process of createAndSaveElectionAndProfile.
CreateElection(t, e) ==
    /\ elections[e] = "unsaved"
    /\ elections' = [elections EXCEPT ![e] = "saving"]
    /\ Begin(t, "save", "fetch", e)

-----------------------------------------------------------------------------
(* Reading the election.                                                   *)

Finish(t) == task' = [task EXCEPT ![t] = Idle]
GoTo(t, pc) == task' = [task EXCEPT ![t].pc = pc]

\* The task goes on at pc with a copy of the election.
Hold(t, pc, snap) ==
    task' = [task EXCEPT ![t] = [@ EXCEPT !.pc = pc, !.snap = snap]]

\* The step after v.election has returned snap to the handler.
WithElection(t, snap) ==
    \/ task[t].op = "view" /\ Finish(t)
    \/ task[t].op = "vote" /\ snap.final /\ Finish(t)
    \/ task[t].op = "vote" /\ ~snap.final /\ Hold(t, "send", NoSnapshot)
    \/ task[t].op = "poll" /\ Hold(t, "cache", snap)

\* v.election: the cached election if there is one ...
CacheHit(t) ==
    /\ task[t].pc = "election"
    /\ electionLRU[task[t].e] # Nil
    /\ WithElection(t, electionLRU[task[t].e])
    /\ UNCHANGED <<chain, elections, results, electionLRU, images, drawing, hub,
                   background, crashes>>

\* ... otherwise the chain's ...
CacheMiss(t) ==
    /\ task[t].pc = "election"
    /\ electionLRU[task[t].e] = Nil
    /\ Hold(t, "fill", chain[task[t].e])
    /\ UNCHANGED <<chain, elections, results, electionLRU, images, drawing, hub,
                   background, crashes>>

\* ... which is added to the cache afterwards.
Fill(t) ==
    /\ task[t].pc = "fill"
    /\ electionLRU' = [electionLRU EXCEPT ![task[t].e] = task[t].snap]
    /\ WithElection(t, task[t].snap)
    /\ UNCHANGED <<chain, elections, results, images, drawing, hub, background,
                   crashes>>

\* v.cli.Election called directly, by results, electionFullInfo (through
\* updateAndFetchResultsFromDatabase) and waitForElection.
Fetch(t) ==
    /\ task[t].pc = "fetch"
    /\ \E next \in {<<"results", "readdb">>, <<"info", "cache">>, <<"save", "save">>} :
          task[t].op = next[1] /\ Hold(t, next[2], chain[task[t].e])
    /\ UNCHANGED <<chain, elections, results, electionLRU, images, drawing, hub,
                   background, crashes>>

\* Mutant: the results handler finalizes without looking at FinalResults.
ReadElectionUnchecked(t) ==
    /\ task[t].pc = "readdb"
    /\ \E found \in BOOLEAN :
          /\ found => elections[task[t].e] = "stored"
          /\ task' = [task EXCEPT ![t] = [@ EXCEPT !.db = found, !.pc = "image"]]
    /\ UNCHANGED <<chain, elections, results, electionLRU, images, drawing, hub,
                   background, crashes>>

\* The results handler reads the stored election, if it can, and branches.
ReadElection(t) ==
    /\ task[t].pc = "readdb"
    /\ \E found \in BOOLEAN :
          /\ found => elections[task[t].e] = "stored"
          /\ task' = [task EXCEPT ![t] =
                [@ EXCEPT !.db = found,
                          !.pc = IF task[t].snap.final THEN "image" ELSE "cache"]]
    /\ UNCHANGED <<chain, elections, results, electionLRU, images, drawing, hub,
                   background, crashes>>

-----------------------------------------------------------------------------
(* updateAndFetchResultsFromDatabase, and the image of partial results.    *)

CacheElection(t) ==
    /\ task[t].pc = "cache"
    /\ electionLRU' = [electionLRU EXCEPT ![task[t].e] = task[t].snap]
    /\ GoTo(t, "partial")
    /\ UNCHANGED <<chain, elections, results, images, drawing, hub, background,
                   crashes>>

\* Mutant: the filter of the update is the election ID alone.
AnyDocument(doc) == TRUE

\* The filter of the update.  On a finalized document it matches nothing and
\* the upsert fails on the duplicate _id.
NotFinalized(doc) == doc.stage # "finalized"

\* The polling loop goes on; the election it has read is dropped.
NextRound(t) == Hold(t, "poll", NoSnapshot)

AfterPartial(t) ==
    \/ task[t].op = "info" /\ Finish(t)
    \/ task[t].op = "poll" /\ NextRound(t)
    \/ task[t].op = "results" /\ GoTo(t, "show")

\* Mutant: the update sets the votes of any document and leaves "finalized".
SetVotesOnly(t) ==
    LET e == task[t].e
    IN  /\ task[t].pc = "partial"
        /\ results' = [results EXCEPT
                ![e].stage = IF @ = "absent" THEN "partial" ELSE @,
                ![e].tally = task[t].snap.tally]
        /\ AfterPartial(t)
        /\ UNCHANGED <<chain, elections, electionLRU, images, drawing, hub,
                       background, crashes>>

SetPartialResults(t) ==
    LET e == task[t].e
    IN  /\ task[t].pc = "partial"
        /\ \/ /\ NotFinalized(results[e])
              /\ results' = [results EXCEPT ![e] =
                    [@ EXCEPT !.stage = "partial", !.tally = task[t].snap.tally]]
              /\ AfterPartial(t)
           \/ \* an error: the handlers return it, the polling loop goes on
              /\ UNCHANGED results
              /\ IF task[t].op = "poll" THEN NextRound(t) ELSE Finish(t)
        /\ UNCHANGED <<chain, elections, electionLRU, images, drawing, hub,
                       background, crashes>>

\* ResultsImage: nothing is drawn when an image with the same key is cached.
ImageOf(e, snap) ==
    [election |-> e, count |-> snap.count, final |-> snap.final,
     tally |-> snap.tally]

\* Mutant: the key does not hold FinalResults.
SameElectionAndCount(i, j) == i.election = j.election /\ i.count = j.count

SameKey(i, j) ==
    i.election = j.election /\ i.count = j.count /\ i.final = j.final

\* A request beyond the bound fails at once.
ResultsImage(img) ==
    drawing' = IF \/ \E i \in images : SameKey(i, img)
                  \/ Cardinality(drawing) >= MaxDrawing
               THEN drawing
               ELSE drawing \cup {img}

ShowPartial(t) ==
    /\ task[t].pc = "show"
    /\ ResultsImage(ImageOf(task[t].e, task[t].snap))
    /\ Finish(t)
    /\ UNCHANGED <<chain, elections, results, electionLRU, images, hub,
                   background, crashes>>

-----------------------------------------------------------------------------
(* The image service (external) and the two LRU caches at their limits.    *)

\* imagesLRU.Add: the image takes the place of one with the same key or, when
\* the cache is full, of some other.
AddImage(img) ==
    LET kept == {i \in images : ~SameKey(i, img)}
    IN  IF Cardinality(kept) < MaxImages
        THEN images' = kept \cup {img}
        ELSE \E i \in kept : images' = (kept \ {i}) \cup {img}

DrawImage(img) ==
    /\ img \in drawing
    /\ drawing' = drawing \ {img}
    /\ AddImage(img)
    /\ UNCHANGED <<chain, elections, results, electionLRU, hub, task,
                   background, crashes>>

\* imagesHandler: an image that is not in the cache is answered with the final
\* one, which is kept under the key that was asked for, a partial one included.
ServeFinal(img) ==
    /\ results[img.election].png # Nil
    /\ img.tally = results[img.election].png
    /\ img.count <= chain[img.election].count
    /\ img.final => img.count = chain[img.election].count
    /\ ~ \E i \in images : SameKey(i, img)
    /\ AddImage(img)
    /\ UNCHANGED <<chain, elections, results, electionLRU, drawing, hub, task,
                   background, crashes>>

\* makeRequest gives up after five attempts.
DrawFails(img) ==
    /\ img \in drawing
    /\ drawing' = drawing \ {img}
    /\ UNCHANGED <<chain, elections, results, electionLRU, images, hub, task,
                   background, crashes>>

\* Images and elections of other kinds fill the caches too, so that an entry
\* may go at any time.
EvictImage(img) ==
    /\ img \in images
    /\ images' = images \ {img}
    /\ UNCHANGED <<chain, elections, results, electionLRU, drawing, hub, task,
                   background, crashes>>

EvictElection(e) ==
    /\ electionLRU[e] # Nil
    /\ electionLRU' = [electionLRU EXCEPT ![e] = Nil]
    /\ UNCHANGED <<chain, elections, results, images, drawing, hub, task,
                   background, crashes>>

-----------------------------------------------------------------------------
(* The rest of the vote handler, and of the creation of an election.       *)

\* The vote count is read (0 when that fails) and the ballot is sent; the
\* goroutine with the polling loop takes over.
SendVote(t) ==
    /\ task[t].pc = "send"
    /\ elections[task[t].e] = "stored"
    /\ \E voteCount \in {0, chain[task[t].e].count} :
          task' = [task EXCEPT ![t] = [NewTask("poll", "poll", task[t].e)
                                       EXCEPT !.seen = voteCount]]
    /\ UNCHANGED <<chain, elections, results, electionLRU, images, drawing, hub,
                   background, crashes>>

\* Mutant: the loop has no last round.
PollWithoutEnd(t) ==
    /\ task[t].pc = "poll"
    /\ task' = [task EXCEPT ![t].polls = @ + 1]
    /\ UNCHANGED <<chain, elections, results, electionLRU, images, drawing, hub,
                   background, crashes>>

\* One round: when the count (0 if it cannot be read) has grown, the election
\* is read, through the cache, and its results are stored.
Poll(t) ==
    /\ task[t].pc = "poll"
    /\ task[t].polls < MaxPolls
    /\ \E c \in {0, chain[task[t].e].count} :
          task' = [task EXCEPT ![t] =
             [@ EXCEPT !.polls = task[t].polls + 1,
                       !.pc = IF c > task[t].seen THEN "election" ELSE "poll"]]
    /\ UNCHANGED <<chain, elections, results, electionLRU, images, drawing, hub,
                   background, crashes>>

SaveElection(t) ==
    /\ task[t].pc = "save"
    /\ electionLRU' = [electionLRU EXCEPT ![task[t].e] = task[t].snap]
    /\ GoTo(t, "insert")
    /\ UNCHANGED <<chain, elections, results, images, drawing, hub, background,
                   crashes>>

AddElection(t) ==
    /\ task[t].pc = "insert"
    /\ elections' = [elections EXCEPT ![task[t].e] = "stored"]
    /\ Finish(t)
    /\ UNCHANGED <<chain, results, electionLRU, images, drawing, hub,
                   background, crashes>>

-----------------------------------------------------------------------------
(* finalizeElectionResults.                                                *)

RequestImage(t) ==
    /\ task[t].pc = "image"
    /\ ResultsImage(ImageOf(task[t].e, task[t].snap))
    /\ GoTo(t, "wait")
    /\ UNCHANGED <<chain, elections, results, electionLRU, images, hub,
                   background, crashes>>

\* FromCache: the image under the key, or nil when the 15 seconds are over first
\* (the timer may win even over an image that has just arrived).
FromCache(t) ==
    LET wanted == ImageOf(task[t].e, task[t].snap)
        found == {i.tally : i \in {j \in images : SameKey(j, wanted)}}
    IN  /\ task[t].pc = "wait"
        /\ \E png \in found \cup {Nil} :
              task' = [task EXCEPT ![t] = [@ EXCEPT !.pc = "addfinal", !.png = png]]
        /\ UNCHANGED <<chain, elections, results, electionLRU, images, drawing,
                       hub, background, crashes>>

\* The document is replaced, whatever it was.
FinalResults(t) ==
    [stage |-> "finalized", tally |-> task[t].snap.tally, png |-> task[t].png]

\* Mutant: the goroutine goes on when the database has failed.
AddFinalResultsIgnoringError(t) ==
    /\ task[t].pc = "addfinal"
    /\ \/ results' = [results EXCEPT ![task[t].e] = FinalResults(t)]
       \/ UNCHANGED results
    /\ IF task[t].db THEN GoTo(t, "settle") ELSE Finish(t)
    /\ UNCHANGED <<chain, elections, electionLRU, images, drawing, hub,
                   background, crashes>>

AddFinalResults(t) ==
    /\ task[t].pc = "addfinal"
    /\ results' = [results EXCEPT ![task[t].e] = FinalResults(t)]
    /\ IF task[t].db THEN GoTo(t, "settle") ELSE Finish(t)
    /\ UNCHANGED <<chain, elections, electionLRU, images, drawing, hub,
                   background, crashes>>

\* settleResultsIntoCommunityHub fills in every field of communityhub.HubResults
\* but ElectionID, which contract.SetResults copies into the key.
HubElectionID(e) == ZeroID

SettleResults(t) ==
    LET e == task[t].e
    IN  /\ task[t].pc = "settle"
        /\ hub' = IF CommunityOf[e] = Nil
                  THEN hub
                  ELSE [hub EXCEPT ![CommunityOf[e]][HubElectionID(e)] =
                           [question |-> e, tally |-> task[t].snap.tally]]
        /\ Finish(t)
        /\ UNCHANGED <<chain, elections, results, electionLRU, images, drawing,
                       background, crashes>>

\* Any call to the chain, the database or the hub may fail, and the polling
\* loop ends: the task is over.  The stores keep what it has written so far.
Abort(t) ==
    /\ \/ task[t].pc \in {"election", "fetch", "send", "insert", "addfinal",
                          "settle"}
       \/ task[t].pc = "poll" /\ task[t].polls = MaxPolls
    /\ Finish(t)
    /\ UNCHANGED <<chain, elections, results, electionLRU, images, drawing, hub,
                   background, crashes>>

-----------------------------------------------------------------------------
(* finalizeElectionsAtBackround, once every minute.                        *)

\* Mutant: only the documents without the field, and partial results have it.
ElectionsWithoutField == {}

\* ElectionsWithoutResults: the documents that are not finalized.
ElectionsWithoutResults == {e \in Elections : results[e].stage = "partial"}

BackgroundScan ==
    /\ ~background.awake
    /\ background' = [awake |-> TRUE, todo |-> ElectionsWithoutResults]
    /\ UNCHANGED <<chain, elections, results, electionLRU, images, drawing, hub,
                   task, crashes>>

BackgroundFinalize(w, e) ==
    /\ background.awake /\ e \in background.todo
    /\ task[w] = Idle
    /\ chain[e].final
    /\ elections[e] = "stored"
    /\ task' = [task EXCEPT ![w] = [NewTask("finalize", "image", e)
                                    EXCEPT !.snap = chain[e], !.db = TRUE]]
    /\ background' = [background EXCEPT !.todo = @ \ {e}]
    /\ UNCHANGED <<chain, elections, results, electionLRU, images, drawing, hub,
                   crashes>>

\* No endpoint answers, the election goes on, or it is not in the database.
BackgroundSkip(e) ==
    /\ background.awake /\ e \in background.todo
    /\ background' = [background EXCEPT !.todo = @ \ {e}]
    /\ UNCHANGED <<chain, elections, results, electionLRU, images, drawing, hub,
                   task, crashes>>

BackgroundSleep ==
    /\ background.awake /\ background.todo = {}
    /\ background' = Asleep
    /\ UNCHANGED <<chain, elections, results, electionLRU, images, drawing, hub,
                   task, crashes>>

\* The process stops and starts again: what was in memory is gone.
Restart ==
    /\ crashes < MaxCrashes
    /\ crashes' = crashes + 1
    /\ electionLRU' = [e \in Elections |-> Nil]
    /\ images' = {}
    /\ drawing' = {}
    /\ task' = [t \in Tasks |-> Idle]
    /\ background' = Asleep
    /\ UNCHANGED <<chain, elections, results, hub>>

-----------------------------------------------------------------------------
ChainNext == \E e \in Elections : ChainVote(e) \/ ChainEnd(e)

RequestNext ==
    \E t \in Requests, e \in Elections :
        View(t, e) \/ Vote(t, e) \/ ShowResults(t, e) \/ FullInfo(t, e)
                   \/ CreateElection(t, e)

TaskStep(t) ==
    \/ CacheHit(t) \/ CacheMiss(t) \/ Fill(t) \/ Fetch(t) \/ ReadElection(t)
    \/ CacheElection(t) \/ SetPartialResults(t) \/ ShowPartial(t)
    \/ SendVote(t) \/ Poll(t) \/ SaveElection(t) \/ AddElection(t)
    \/ RequestImage(t) \/ FromCache(t) \/ AddFinalResults(t) \/ SettleResults(t)

ImageNext ==
    \/ \E img \in drawing : DrawImage(img) \/ DrawFails(img)
    \/ \E img \in images : EvictImage(img)
    \/ \E img \in Image : ServeFinal(img)
    \/ \E e \in Elections : EvictElection(e)

BackgroundNext ==
    \/ BackgroundScan \/ BackgroundSleep
    \/ \E e \in Elections : BackgroundSkip(e)
    \/ \E w \in Workers, e \in Elections : BackgroundFinalize(w, e)

Next ==
    \/ ChainNext \/ RequestNext \/ ImageNext \/ BackgroundNext \/ Restart
    \/ \E t \in Tasks : TaskStep(t) \/ Abort(t)

Spec == Init /\ [][Next]_vars

(***************************************************************************)
(* The background loop runs for as long as the server does, its goroutines *)
(* are scheduled, and a call it makes again and again does not fail every  *)
(* time: the endpoints and the database come back.                         *)
(***************************************************************************)
Fairness ==
    /\ WF_vars(BackgroundScan) /\ WF_vars(BackgroundSleep)
    /\ \A e \in Elections : SF_vars(\E w \in Workers : BackgroundFinalize(w, e))
    /\ \A w \in Workers : /\ WF_vars(RequestImage(w)) /\ WF_vars(FromCache(w))
                          /\ SF_vars(AddFinalResults(w))
                          /\ WF_vars(SettleResults(w))

FairSpec == Spec /\ Fairness
=============================================================================
