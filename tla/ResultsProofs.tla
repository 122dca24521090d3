--------------------------- MODULE ResultsProofs ---------------------------
(***************************************************************************)
(* The safety properties of the results, for any number of elections,      *)
(* requests, goroutines, ballots, polling rounds and restarts.             *)
(***************************************************************************)
EXTENDS ResultsProperties, TLAPS

\* An election has no more votes than the ballots the chain has accepted; the
\* types need it, for a vote to keep the vote count within its bound.
VotesCounted == \A e \in Elections : chain[e].count <= chain[e].tally

-----------------------------------------------------------------------------
(* Types.                                                                  *)

\* A handler that has a step to do is a Task record.
LEMMA ActiveTask ==
    ASSUME TypeOK, NEW t \in Tasks, task[t].pc \in Steps
    PROVE  task[t] \in Task /\ task[t] # Idle
  <1>1. task[t] # Idle
    BY DEF Steps, Idle
  <1> QED
    BY <1>1 DEF TypeOK

\* A handler that has just started is a Task record.
LEMMA NewTaskType ==
    ASSUME NEW op \in Ops, NEW pc \in Steps, NEW e \in Elections
    PROVE  /\ NewTask(op, pc, e) \in Task
           /\ NewTask(op, pc, e).pc = pc
           /\ NewTask(op, pc, e).e = e
           /\ NewTask(op, pc, e).snap = NoSnapshot
           /\ NewTask(op, pc, e).png = Nil
  BY ConstantsAssumption DEF NewTask, Task, NoSnapshot, Snapshot, Tally

\* The image of an election is an image.
LEMMA ImageType ==
    ASSUME NEW e \in Elections, NEW snap \in Snapshot
    PROVE  ImageOf(e, snap) \in Image
  BY DEF ImageOf, Image, Snapshot

\* Init satisfies the type invariant.
LEMMA InitTypeOK == Init => TypeOK
  BY ConstantsAssumption
  DEF Init, TypeOK, NoSnapshot, Snapshot, NoResults, Document, Tally, Asleep

\* Steps of the chain, and the requests that arrive, keep the types.
LEMMA ArrivalTypeOK ==
    ASSUME TypeOK, VotesCounted, ChainNext \/ RequestNext
    PROVE  TypeOK'
  <1>1. ASSUME NEW e \in Elections, ChainVote(e) PROVE TypeOK'
    <2>1. chain[e].tally + 1 \in Tally /\ chain[e].count + 1 \in Tally
      BY <1>1, ConstantsAssumption
      DEF ChainVote, TypeOK, VotesCounted, Snapshot, Tally
    <2>2. chain' \in [Elections -> Snapshot]
      BY <1>1, <2>1 DEF ChainVote, TypeOK, Snapshot
    <2> QED
      BY <1>1, <2>2 DEF ChainVote, TypeOK
  <1>2. ASSUME NEW e \in Elections, ChainEnd(e) PROVE TypeOK'
    BY <1>2 DEF ChainEnd, TypeOK, Snapshot
  <1>3. ASSUME NEW t \in Requests, NEW e \in Elections, View(t, e)
        PROVE  TypeOK'
    BY <1>3, NewTaskType DEF View, Begin, TypeOK, Ops, Steps, Tasks
  <1>4. ASSUME NEW t \in Requests, NEW e \in Elections, Vote(t, e)
        PROVE  TypeOK'
    BY <1>4, NewTaskType DEF Vote, Begin, TypeOK, Ops, Steps, Tasks
  <1>5. ASSUME NEW t \in Requests, NEW e \in Elections, ShowResults(t, e)
        PROVE  TypeOK'
    BY <1>5, NewTaskType DEF ShowResults, Begin, TypeOK, Ops, Steps, Tasks
  <1>6. ASSUME NEW t \in Requests, NEW e \in Elections, FullInfo(t, e)
        PROVE  TypeOK'
    BY <1>6, NewTaskType DEF FullInfo, Begin, TypeOK, Ops, Steps, Tasks
  <1>7. ASSUME NEW t \in Requests, NEW e \in Elections, CreateElection(t, e)
        PROVE  TypeOK'
    BY <1>7, NewTaskType DEF CreateElection, Begin, TypeOK, Ops, Steps, Tasks
  <1> QED
    BY <1>1, <1>2, <1>3, <1>4, <1>5, <1>6, <1>7 DEF ChainNext, RequestNext

\* Steps of a handler keep the types.
LEMMA TaskTypeOK ==
    ASSUME TypeOK, NEW t \in Tasks, TaskStep(t) \/ Abort(t)
    PROVE  TypeOK'
  <1>a. NoSnapshot \in Snapshot
    BY ConstantsAssumption DEF NoSnapshot, Snapshot, Tally
  <1>b. ASSUME task[t] \in Task, NEW pc \in Steps, GoTo(t, pc)
        PROVE  task' \in [Tasks -> Task \cup {Idle}]
    BY <1>b DEF TypeOK, GoTo, Task
  <1>c. ASSUME task[t] \in Task, NEW pc \in Steps, NEW snap \in Snapshot,
               Hold(t, pc, snap)
        PROVE  task' \in [Tasks -> Task \cup {Idle}]
    <2>1. [task[t] EXCEPT !.pc = pc, !.snap = snap] \in Task
      BY <1>c DEF Task
    <2> QED
      BY <2>1, <1>c DEF TypeOK, Hold
  <1>d. ASSUME Finish(t) PROVE task' \in [Tasks -> Task \cup {Idle}]
    BY <1>d DEF TypeOK, Finish
  <1>e. ASSUME task[t] \in Task, NEW snap \in Snapshot, WithElection(t, snap)
        PROVE  task' \in [Tasks -> Task \cup {Idle}]
    BY <1>a, <1>c, <1>d, <1>e DEF WithElection, Steps
  <1>f. task[t] \in Task => task[t].e \in Elections /\ task[t].snap \in Snapshot
    BY DEF Task
  <1>1. CASE CacheHit(t)
    <2>1. task[t] \in Task /\ electionLRU[task[t].e] \in Snapshot
      BY <1>1, <1>f, ActiveTask DEF CacheHit, Steps, TypeOK
    <2> QED
      BY <1>1, <1>e, <2>1 DEF CacheHit, TypeOK
  <1>2. CASE CacheMiss(t)
    <2>1. task[t] \in Task /\ chain[task[t].e] \in Snapshot
      BY <1>2, <1>f, ActiveTask DEF CacheMiss, Steps, TypeOK
    <2> QED
      BY <1>2, <1>c, <2>1 DEF CacheMiss, TypeOK, Steps
  <1>3. CASE Fill(t)
    <2>1. task[t] \in Task
      BY <1>3, ActiveTask DEF Fill, Steps
    <2> QED
      BY <1>3, <1>e, <1>f, <2>1 DEF Fill, TypeOK
  <1>4. CASE Fetch(t)
    <2>1. task[t] \in Task /\ chain[task[t].e] \in Snapshot
      BY <1>4, <1>f, ActiveTask DEF Fetch, Steps, TypeOK
    <2>2. task' \in [Tasks -> Task \cup {Idle}]
      BY <1>4, <1>c, <2>1 DEF Fetch, Steps
    <2> QED
      BY <1>4, <2>2 DEF Fetch, TypeOK
  <1>5. CASE ReadElection(t)
    <2>1. task[t] \in Task
      BY <1>5, ActiveTask DEF ReadElection, Steps
    <2>2. PICK found \in BOOLEAN : task' = [task EXCEPT ![t] =
             [@ EXCEPT !.db = found,
                       !.pc = IF task[t].snap.final THEN "image" ELSE "cache"]]
      BY <1>5 DEF ReadElection
    <2>3. (IF task[t].snap.final THEN "image" ELSE "cache") \in Steps
      BY DEF Steps
    <2>4. \A pc \in Steps : [task[t] EXCEPT !.db = found, !.pc = pc] \in Task
      BY <2>1 DEF Task
    <2>5. task' \in [Tasks -> Task \cup {Idle}]
      BY <2>2, <2>3, <2>4 DEF TypeOK
    <2> QED
      BY <1>5, <2>5 DEF ReadElection, TypeOK
  <1>6. CASE CacheElection(t)
    <2>1. task[t] \in Task
      BY <1>6, ActiveTask DEF CacheElection, Steps
    <2> QED
      BY <1>6, <1>b, <1>f, <2>1 DEF CacheElection, TypeOK, Steps
  <1>7. CASE SetPartialResults(t)
    <2>1. task[t] \in Task
      BY <1>7, ActiveTask DEF SetPartialResults, Steps
    <2>2. task' \in [Tasks -> Task \cup {Idle}]
      BY <1>7, <1>a, <1>b, <1>c, <1>d, <2>1
      DEF SetPartialResults, AfterPartial, NextRound, Steps
    <2>3. results' \in [Elections -> Document]
      <3>1. results[task[t].e] \in Document /\ task[t].snap.tally \in Tally
        BY <1>f, <2>1 DEF TypeOK, Snapshot
      <3>2. [results[task[t].e] EXCEPT !.stage = "partial",
                                       !.tally = task[t].snap.tally] \in Document
        BY <3>1 DEF Document
      <3> QED
        BY <1>7, <3>2 DEF SetPartialResults, TypeOK
    <2> QED
      BY <1>7, <2>2, <2>3 DEF SetPartialResults, TypeOK
  <1>8. CASE ShowPartial(t)
    BY <1>8, ActiveTask, ImageType
    DEF ShowPartial, ResultsImage, Finish, TypeOK, Task, Steps
  <1>9. CASE SendVote(t)
    <2>1. task[t] \in Task
      BY <1>9, ActiveTask DEF SendVote, Steps
    <2>2. \A n \in {0, chain[task[t].e].count} : n \in Tally
      BY <1>f, <2>1, ConstantsAssumption DEF TypeOK, Snapshot, Tally
    <2>3. NewTask("poll", "poll", task[t].e) \in Task
      BY <1>f, <2>1, NewTaskType DEF Ops, Steps
    <2>4. \A n \in Tally :
             [NewTask("poll", "poll", task[t].e) EXCEPT !.seen = n] \in Task
      BY <2>3 DEF Task
    <2> QED
      BY <1>9, <2>2, <2>4 DEF SendVote, TypeOK
  <1>10. CASE Poll(t)
    <2>1. task[t] \in Task
      BY <1>10, ActiveTask DEF Poll, Steps
    <2>2. task[t].polls + 1 \in 0..MaxPolls
      BY <1>10, <2>1, ConstantsAssumption DEF Poll, Task
    <2>3. \A pc \in Steps :
             [task[t] EXCEPT !.polls = task[t].polls + 1, !.pc = pc] \in Task
      BY <2>1, <2>2 DEF Task
    <2>4. PICK c \in {0, chain[task[t].e].count} : task' = [task EXCEPT ![t] =
             [@ EXCEPT !.polls = task[t].polls + 1,
                       !.pc = IF c > task[t].seen THEN "election" ELSE "poll"]]
      BY <1>10 DEF Poll
    <2>5. (IF c > task[t].seen THEN "election" ELSE "poll") \in Steps
      BY DEF Steps
    <2> QED
      BY <1>10, <2>3, <2>4, <2>5 DEF Poll, TypeOK
  <1>11. CASE SaveElection(t)
    <2>1. task[t] \in Task
      BY <1>11, ActiveTask DEF SaveElection, Steps
    <2> QED
      BY <1>11, <1>b, <1>f, <2>1 DEF SaveElection, TypeOK, Steps
  <1>12. CASE AddElection(t)
    BY <1>12, ActiveTask DEF AddElection, Finish, TypeOK, Task, Steps
  <1>13. CASE RequestImage(t)
    <2>1. task[t] \in Task
      BY <1>13, ActiveTask DEF RequestImage, Steps
    <2>2. drawing' \in SUBSET Image
      BY <1>13, <1>f, <2>1, ImageType DEF RequestImage, ResultsImage, TypeOK
    <2> QED
      BY <1>13, <1>b, <2>1, <2>2 DEF RequestImage, TypeOK, Steps
  <1>14. CASE FromCache(t)
    <2>1. task[t] \in Task
      BY <1>14, ActiveTask DEF FromCache, Steps
    <2>2. \A i \in images : i.tally \in Tally
      BY DEF TypeOK, Image
    <2>3. \A png \in Tally \cup {Nil} :
             [task[t] EXCEPT !.pc = "addfinal", !.png = png] \in Task
      BY <2>1 DEF Task, Steps
    <2>4. PICK png \in Tally \cup {Nil} :
             task' = [task EXCEPT ![t] = [@ EXCEPT !.pc = "addfinal", !.png = png]]
      BY <1>14, <2>2 DEF FromCache
    <2>5. task' \in [Tasks -> Task \cup {Idle}]
      BY <2>3, <2>4 DEF TypeOK
    <2> QED
      BY <1>14, <2>5 DEF FromCache, TypeOK
  <1>15. CASE AddFinalResults(t)
    <2>1. task[t] \in Task
      BY <1>15, ActiveTask DEF AddFinalResults, Steps
    <2>2. FinalResults(t) \in Document
      BY <2>1 DEF FinalResults, Document, Task, Snapshot
    <2>3. task' \in [Tasks -> Task \cup {Idle}]
      BY <1>15, <1>b, <1>d, <2>1 DEF AddFinalResults, Steps
    <2> QED
      BY <1>15, <1>f, <2>1, <2>2, <2>3 DEF AddFinalResults, TypeOK
  <1>16. CASE SettleResults(t)
    BY <1>16, ActiveTask, ConstantsAssumption
    DEF SettleResults, HubElectionID, Finish, TypeOK, Slots, HubResult, Task, Steps,
        Snapshot
  <1>17. CASE Abort(t)
    BY <1>17 DEF Abort, Finish, TypeOK
  <1> QED
    BY <1>1, <1>2, <1>3, <1>4, <1>5, <1>6, <1>7, <1>8, <1>9, <1>10, <1>11,
       <1>12, <1>13, <1>14, <1>15, <1>16, <1>17 DEF TaskStep

\* The image service, the caches, the background loop and a restart keep the
\* types.
LEMMA ServiceTypeOK ==
    ASSUME TypeOK, ImageNext \/ BackgroundNext \/ Restart
    PROVE  TypeOK'
  <1>1. ASSUME NEW img \in drawing, DrawImage(img) PROVE TypeOK'
    BY <1>1 DEF DrawImage, AddImage, TypeOK
  <1>2. ASSUME NEW img \in drawing, DrawFails(img) PROVE TypeOK'
    BY <1>2 DEF DrawFails, TypeOK
  <1>3. ASSUME NEW img \in images, EvictImage(img) PROVE TypeOK'
    BY <1>3 DEF EvictImage, TypeOK
  <1>4. ASSUME NEW img \in Image, ServeFinal(img) PROVE TypeOK'
    BY <1>4 DEF ServeFinal, AddImage, TypeOK
  <1>5. ASSUME NEW e \in Elections, EvictElection(e) PROVE TypeOK'
    BY <1>5 DEF EvictElection, TypeOK
  <1>6. CASE BackgroundScan
    BY <1>6 DEF BackgroundScan, ElectionsWithoutResults, TypeOK
  <1>7. CASE BackgroundSleep
    BY <1>7 DEF BackgroundSleep, Asleep, TypeOK
  <1>8. ASSUME NEW e \in Elections, BackgroundSkip(e) PROVE TypeOK'
    BY <1>8 DEF BackgroundSkip, TypeOK
  <1>9. ASSUME NEW w \in Workers, NEW e \in Elections, BackgroundFinalize(w, e)
        PROVE  TypeOK'
    <2>1. NewTask("finalize", "image", e) \in Task
      BY NewTaskType DEF Ops, Steps
    <2>2. [NewTask("finalize", "image", e)
             EXCEPT !.snap = chain[e], !.db = TRUE] \in Task
      BY <2>1 DEF Task, TypeOK
    <2>3. task' \in [Tasks -> Task \cup {Idle}]
      BY <1>9, <2>2 DEF BackgroundFinalize, TypeOK, Tasks
    <2> QED
      BY <1>9, <2>3 DEF BackgroundFinalize, TypeOK
  <1>10. CASE Restart
    BY <1>10, ConstantsAssumption DEF Restart, Asleep, TypeOK
  <1> QED
    BY <1>1, <1>2, <1>3, <1>4, <1>5, <1>6, <1>7, <1>8, <1>9, <1>10
    DEF ImageNext, BackgroundNext

\* A handler does not change the chain.
LEMMA TaskChain ==
    ASSUME NEW t \in Tasks, TaskStep(t) \/ Abort(t)
    PROVE  UNCHANGED chain
  BY DEF TaskStep, CacheHit, CacheMiss, Fill, Fetch, ReadElection, CacheElection,
         SetPartialResults, ShowPartial, SendVote, Poll, SaveElection, AddElection,
         RequestImage, FromCache, AddFinalResults, SettleResults, Abort

\* Only a ballot changes the counts, and it counts in both.
LEMMA VotesCountedStep ==
    ASSUME TypeOK, VotesCounted, [Next]_vars
    PROVE  VotesCounted'
  <1>1. ASSUME NEW e \in Elections, ChainVote(e) PROVE VotesCounted'
    BY <1>1, ConstantsAssumption DEF ChainVote, VotesCounted, TypeOK, Snapshot, Tally
  <1>2. ASSUME NEW e \in Elections, ChainEnd(e) PROVE VotesCounted'
    BY <1>2 DEF ChainEnd, VotesCounted, TypeOK, Snapshot
  <1>3. ASSUME UNCHANGED chain PROVE VotesCounted'
    BY <1>3 DEF VotesCounted
  <1>4. ASSUME ~ChainNext PROVE UNCHANGED chain
    <2>1. RequestNext \/ ImageNext \/ BackgroundNext \/ Restart => UNCHANGED chain
      BY DEF RequestNext, View, Vote, ShowResults, FullInfo, CreateElection, Begin,
             ImageNext, DrawImage, DrawFails, EvictImage, ServeFinal, EvictElection,
             BackgroundNext, BackgroundScan, BackgroundSleep, BackgroundSkip,
             BackgroundFinalize, Restart
    <2> QED
      BY <1>4, <2>1, TaskChain DEF Next, vars
  <1> QED
    BY <1>1, <1>2, <1>3, <1>4 DEF ChainNext

\* Every variable keeps its type in every state of the server, whatever the
\* handlers, the loop, the image service and the restarts do (results.go,
\* election.go, vote.go, election_background.go).
THEOREM TypeCorrect == Spec => []TypeOK
  <1>1. Init => TypeOK /\ VotesCounted
    BY InitTypeOK, ConstantsAssumption DEF Init, VotesCounted, NoSnapshot
  <1>2. TypeOK /\ VotesCounted /\ [Next]_vars => TypeOK' /\ VotesCounted'
    <2> SUFFICES ASSUME TypeOK, VotesCounted, [Next]_vars
                 PROVE  TypeOK' /\ VotesCounted'
      OBVIOUS
    <2>1. VotesCounted'
      BY VotesCountedStep
    <2>2. ASSUME UNCHANGED vars PROVE TypeOK'
      BY <2>2 DEF vars, TypeOK
    <2>3. ASSUME Next PROVE TypeOK'
      BY <2>3, ArrivalTypeOK, TaskTypeOK, ServiceTypeOK DEF Next
    <2> QED
      BY <2>1, <2>2, <2>3
  <1> QED
    BY <1>1, <1>2, PTL DEF Spec

-----------------------------------------------------------------------------
(* Who writes what.                                                        *)

\* The chain, the database, the caches and the hub each have few writers.
LEMMA Writers ==
    ASSUME [Next]_vars
    PROVE  /\ UNCHANGED chain \/ ChainNext
           /\ \/ UNCHANGED results
              \/ \E t \in Tasks : SetPartialResults(t) \/ AddFinalResults(t)
           /\ \/ UNCHANGED electionLRU
              \/ \E t \in Tasks : Fill(t) \/ CacheElection(t) \/ SaveElection(t)
              \/ \E e \in Elections : EvictElection(e)
              \/ Restart
           /\ \/ UNCHANGED <<images, drawing>>
              \/ \E t \in Tasks : ShowPartial(t) \/ RequestImage(t)
              \/ ImageNext
              \/ Restart
           /\ \/ UNCHANGED hub
              \/ \E t \in Tasks : SettleResults(t)
  <1>1. CASE UNCHANGED vars
    BY <1>1 DEF vars
  <1>2. CASE ChainNext
    BY <1>2 DEF ChainNext, ChainVote, ChainEnd
  <1>3. CASE RequestNext
    BY <1>3 DEF RequestNext, View, Vote, ShowResults, FullInfo, CreateElection, Begin
  <1>4. CASE ImageNext
    BY <1>4 DEF ImageNext, DrawImage, DrawFails, EvictImage, ServeFinal, EvictElection
  <1>5. CASE BackgroundNext
    BY <1>5 DEF BackgroundNext, BackgroundScan, BackgroundSleep, BackgroundSkip,
                BackgroundFinalize
  <1>6. CASE Restart
    BY <1>6 DEF Restart
  <1>7. ASSUME NEW t \in Tasks, TaskStep(t) \/ Abort(t)
        PROVE  /\ UNCHANGED chain
               /\ UNCHANGED results \/ SetPartialResults(t) \/ AddFinalResults(t)
               /\ \/ UNCHANGED electionLRU
                  \/ Fill(t) \/ CacheElection(t) \/ SaveElection(t)
               /\ UNCHANGED <<images, drawing>> \/ ShowPartial(t) \/ RequestImage(t)
               /\ UNCHANGED hub \/ SettleResults(t)
    <2>1. CASE \/ CacheHit(t) \/ CacheMiss(t) \/ Fetch(t) \/ ReadElection(t)
               \/ SendVote(t) \/ Poll(t) \/ AddElection(t) \/ FromCache(t) \/ Abort(t)
      BY <2>1 DEF CacheHit, CacheMiss, Fetch, ReadElection, SendVote, Poll, AddElection,
                  FromCache, Abort
    <2>2. CASE Fill(t) \/ CacheElection(t) \/ SaveElection(t)
      BY <2>2 DEF Fill, CacheElection, SaveElection
    <2>3. CASE SetPartialResults(t) \/ AddFinalResults(t)
      BY <2>3 DEF SetPartialResults, AddFinalResults
    <2>4. CASE ShowPartial(t) \/ RequestImage(t)
      BY <2>4 DEF ShowPartial, RequestImage
    <2>5. CASE SettleResults(t)
      BY <2>5 DEF SettleResults
    <2> QED
      BY <1>7, <2>1, <2>2, <2>3, <2>4, <2>5 DEF TaskStep
  <1>8. CASE \E t \in Tasks : TaskStep(t) \/ Abort(t)
    BY <1>7, <1>8
  <1> QED
    BY <1>1, <1>2, <1>3, <1>4, <1>5, <1>6, <1>8 DEF Next

\* Elections only grow until they end, and finalized results stay as they are.
ChainGrows ==
    \A e \in Elections :
        /\ chain[e].tally <= chain'[e].tally
        /\ chain[e].count <= chain'[e].count
        /\ chain[e].final => chain'[e] = chain[e]

ResultsKept ==
    \A e \in Elections :
        results[e].stage = "finalized" =>
            results'[e].stage = "finalized" /\ results'[e].tally = results[e].tally

\* Every step of the system lets elections only grow.
LEMMA ChainGrowsStep ==
    ASSUME TypeOK, [Next]_vars
    PROVE  ChainGrows
  <1>1. ASSUME UNCHANGED chain PROVE ChainGrows
    BY <1>1, ConstantsAssumption DEF ChainGrows, TypeOK, Snapshot, Tally
  <1>2. ASSUME NEW e \in Elections, ChainVote(e) PROVE ChainGrows
    BY <1>2, ConstantsAssumption DEF ChainVote, ChainGrows, TypeOK, Snapshot, Tally
  <1>3. ASSUME NEW e \in Elections, ChainEnd(e) PROVE ChainGrows
    BY <1>3, ConstantsAssumption DEF ChainEnd, ChainGrows, TypeOK, Snapshot, Tally
  <1> QED
    BY <1>1, <1>2, <1>3, Writers DEF ChainNext

\* A handler that has a step to do is sound.
LEMMA ActiveSound ==
    ASSUME TypeOK, TasksSound, NEW t \in Tasks, task[t].pc \in Steps
    PROVE  /\ task[t] \in Task
           /\ task[t].e \in Elections
           /\ task[t].snap \in Snapshot
           /\ SoundTask(task[t])
  BY ActiveTask DEF TasksSound, Task

\* Every step keeps finalized results: partial results do not replace them, and
\* a second finalizer writes the same tally.
LEMMA ResultsKeptStep ==
    ASSUME TypeOK, Safe, [Next]_vars
    PROVE  ResultsKept
  <1>1. ASSUME UNCHANGED results PROVE ResultsKept
    BY <1>1 DEF ResultsKept
  <1>2. ASSUME NEW t \in Tasks, SetPartialResults(t) PROVE ResultsKept
    BY <1>2, ActiveSound DEF SetPartialResults, NotFinalized, ResultsKept, TypeOK, Steps, Safe
  <1>3. ASSUME NEW t \in Tasks, AddFinalResults(t) PROVE ResultsKept
    <2>1. task[t].e \in Elections /\ SoundTask(task[t]) /\ task[t].pc = "addfinal"
      BY <1>3, ActiveSound DEF AddFinalResults, Steps, Safe
    <2>2. task[t].snap = chain[task[t].e]
      BY <2>1 DEF SoundTask, Faithful, Finalizing
    <2> QED
      BY <1>3, <2>1, <2>2
      DEF AddFinalResults, FinalResults, ResultsKept, Safe, PublishedTally, TypeOK
  <1> QED
    BY <1>1, <1>2, <1>3, Writers

-----------------------------------------------------------------------------
(* The invariant.                                                          *)

\* A faithful copy stays faithful.
LEMMA FaithfulPersists ==
    ASSUME TypeOK, TypeOK', ChainGrows, NEW e \in Elections, NEW snap \in Snapshot,
           Faithful(e, snap)
    PROVE  Faithful(e, snap)'
  BY ConstantsAssumption DEF ChainGrows, Faithful, TypeOK, Snapshot, Tally

\* A sound handler that does nothing stays sound.
LEMMA SoundPersists ==
    ASSUME TypeOK, TypeOK', ChainGrows, ResultsKept, NEW k \in Task, SoundTask(k)
    PROVE  SoundTask(k)'
  <1>1. k.e \in Elections /\ k.snap \in Snapshot
    BY DEF Task
  <1>2. Faithful(k.e, k.snap)'
    BY <1>1, FaithfulPersists DEF SoundTask
  <1>3. k.snap.final => chain'[k.e] = chain[k.e]
    BY <1>1 DEF SoundTask, Faithful, ChainGrows
  <1> QED
    BY <1>1, <1>2, <1>3 DEF SoundTask, ResultsKept, Finalizing

\* The elections in the cache are faithful after every step.
LEMMA CacheSoundStep ==
    ASSUME TypeOK, TypeOK', Safe, [Next]_vars
    PROVE  CacheSound'
  <1>1. ChainGrows
    BY ChainGrowsStep
  <1>2. ASSUME NEW e \in Elections, electionLRU[e] # Nil
        PROVE  Faithful(e, electionLRU[e])'  \/ electionLRU'[e] # electionLRU[e]
    BY <1>1, <1>2, FaithfulPersists DEF Safe, CacheSound, TypeOK
  <1>3. CASE UNCHANGED electionLRU
    BY <1>2, <1>3 DEF CacheSound
  <1>4. ASSUME NEW t \in Tasks, Fill(t) \/ CacheElection(t) \/ SaveElection(t)
        PROVE  CacheSound'
    <2>1. task[t].pc \in Steps
      BY <1>4 DEF Fill, CacheElection, SaveElection, Steps
    <2>2. /\ task[t].e \in Elections /\ task[t].snap \in Snapshot
          /\ Faithful(task[t].e, task[t].snap)
      BY <2>1, ActiveSound DEF Safe, SoundTask
    <2>3. electionLRU' = [electionLRU EXCEPT ![task[t].e] = task[t].snap]
      BY <1>4 DEF Fill, CacheElection, SaveElection
    <2>4. UNCHANGED chain
      BY <1>4 DEF Fill, CacheElection, SaveElection
    <2> QED
      BY <2>2, <2>3, <2>4 DEF Safe, CacheSound, Faithful, TypeOK
  <1>5. ASSUME NEW e \in Elections, EvictElection(e) PROVE CacheSound'
    BY <1>5 DEF EvictElection, Safe, CacheSound, Faithful, TypeOK
  <1>6. CASE Restart
    BY <1>6 DEF Restart, CacheSound
  <1> QED
    BY <1>3, <1>4, <1>5, <1>6, Writers

\* Images under a final key show the final tally after every step.
LEMMA ImagesSoundStep ==
    ASSUME TypeOK, TypeOK', Safe, [Next]_vars
    PROVE  ImagesSound'
  <1> DEFINE Shows(i) ==
         i.final => chain[i.election].final /\ i.tally = chain[i.election].tally
  <1>1. \A i \in images \cup drawing : Shows(i)'
    BY ChainGrowsStep DEF ChainGrows, Safe, ImagesSound, TypeOK, Image
  <1>2. SUFFICES ASSUME NEW i \in images' \cup drawing', i \notin images \cup drawing
                 PROVE  Shows(i)'
    BY <1>1 DEF ImagesSound
  <1>3. ASSUME NEW t \in Tasks, ShowPartial(t) \/ RequestImage(t)
        PROVE  Shows(i)'
    <2>1. task[t].pc \in Steps
      BY <1>3 DEF ShowPartial, RequestImage, Steps
    <2>2. Faithful(task[t].e, task[t].snap)
      BY <2>1, ActiveSound DEF Safe, SoundTask
    <2>3. i = ImageOf(task[t].e, task[t].snap) /\ UNCHANGED chain
      BY <1>2, <1>3 DEF ShowPartial, RequestImage, ResultsImage
    <2> QED
      BY <2>2, <2>3 DEF Faithful, ImageOf
  <1>4. ASSUME ImageNext PROVE Shows(i)'
    <2>1. PICK img \in Image : ServeFinal(img) /\ i = img
      BY <1>2, <1>4 DEF ImageNext, DrawImage, DrawFails, EvictImage, EvictElection,
                        ServeFinal, AddImage
    <2> QED
      BY <2>1 DEF ServeFinal, Safe, FinalImage, PublishedTally, Image
  <1>5. ASSUME Restart PROVE Shows(i)'
    BY <1>2, <1>5 DEF Restart
  <1> QED
    BY <1>2, <1>3, <1>4, <1>5, Writers

\* What is published stays within the chain's tally, and an image is stored only
\* with final results it shows.
LEMMA PublishedStep ==
    ASSUME TypeOK, TypeOK', Safe, [Next]_vars
    PROVE  PublishedTally' /\ FinalImage'
  <1>1. ChainGrows
    BY ChainGrowsStep
  <1>2. ASSUME UNCHANGED results PROVE PublishedTally' /\ FinalImage'
    BY <1>1, <1>2, ConstantsAssumption
    DEF ChainGrows, Safe, PublishedTally, FinalImage, TypeOK, Document, Snapshot, Tally
  <1>3. ASSUME NEW t \in Tasks, SetPartialResults(t)
        PROVE  PublishedTally' /\ FinalImage'
    <2>1. task[t].e \in Elections /\ Faithful(task[t].e, task[t].snap)
      BY <1>3, ActiveSound DEF SetPartialResults, Steps, Safe, SoundTask
    <2>2. UNCHANGED chain
      BY <1>3 DEF SetPartialResults
    <2>3. CASE UNCHANGED results
      BY <1>2, <2>3
    <2>4. CASE results' # results
      <3>1. /\ results[task[t].e].stage # "finalized"
            /\ results' = [results EXCEPT ![task[t].e] =
                  [@ EXCEPT !.stage = "partial", !.tally = task[t].snap.tally]]
        BY <1>3, <2>4 DEF SetPartialResults, NotFinalized
      <3>2. /\ results'[task[t].e].stage = "partial"
            /\ results'[task[t].e].tally = task[t].snap.tally
            /\ results'[task[t].e].png = Nil
        BY <2>1, <3>1 DEF TypeOK, Document, Safe, FinalImage
      <3>3. \A e \in Elections \ {task[t].e} : results'[e] = results[e]
        BY <3>1 DEF TypeOK
      <3> QED
        BY <2>1, <2>2, <3>2, <3>3 DEF Faithful, Safe, PublishedTally, FinalImage
    <2> QED
      BY <2>3, <2>4
  <1>4. ASSUME NEW t \in Tasks, AddFinalResults(t)
        PROVE  PublishedTally' /\ FinalImage'
    <2>1. /\ task[t].e \in Elections /\ task[t].snap \in Snapshot
          /\ SoundTask(task[t]) /\ task[t].pc = "addfinal"
      BY <1>4, ActiveSound DEF AddFinalResults, Steps, Safe
    <2>2. /\ task[t].snap = chain[task[t].e] /\ task[t].snap.final
          /\ task[t].png = Nil \/ task[t].png = chain[task[t].e].tally
      BY <2>1 DEF SoundTask, Faithful, Finalizing
    <2>3. UNCHANGED chain /\ results' = [results EXCEPT ![task[t].e] = FinalResults(t)]
      BY <1>4 DEF AddFinalResults
    <2> QED
      BY <2>1, <2>2, <2>3, ConstantsAssumption
      DEF FinalResults, Safe, PublishedTally, FinalImage, TypeOK, Snapshot, Tally
  <1> QED
    BY <1>2, <1>3, <1>4, Writers

\* The hub is written only with what the database holds as finalized, and the
\* database keeps it.
LEMMA HubAgreesStep ==
    ASSUME TypeOK, TypeOK', Safe, [Next]_vars
    PROVE  HubAgrees'
  <1>1. ASSUME UNCHANGED hub PROVE HubAgrees'
    BY <1>1, ResultsKeptStep DEF ResultsKept, Safe, HubAgrees, TypeOK, HubResult
  <1>2. ASSUME NEW t \in Tasks, SettleResults(t) PROVE HubAgrees'
    <2>1. /\ task[t].e \in Elections /\ task[t].snap \in Snapshot
          /\ SoundTask(task[t]) /\ task[t].pc = "settle"
      BY <1>2, ActiveSound DEF SettleResults, Steps, Safe
    <2>2. /\ results[task[t].e].stage = "finalized"
          /\ results[task[t].e].tally = task[t].snap.tally
      BY <2>1 DEF SoundTask, Faithful, Finalizing, Safe, PublishedTally
    <2>3. CASE CommunityOf[task[t].e] = Nil
      BY <1>1, <1>2, <2>3 DEF SettleResults
    <2>4. CASE CommunityOf[task[t].e] # Nil
      <3>1. CommunityOf[task[t].e] \in Communities /\ ZeroID \in Slots
        BY <2>1, <2>4, ConstantsAssumption DEF Slots
      <3>2. /\ UNCHANGED results
            /\ hub' = [hub EXCEPT ![CommunityOf[task[t].e]][ZeroID] =
                         [question |-> task[t].e, tally |-> task[t].snap.tally]]
        BY <1>2, <2>4 DEF SettleResults, HubElectionID
      <3>3. \A c \in Communities, s \in Slots :
               \/ hub'[c][s] = hub[c][s]
               \/ /\ c = CommunityOf[task[t].e]
                  /\ hub'[c][s] = [question |-> task[t].e, tally |-> task[t].snap.tally]
        BY <3>1, <3>2 DEF TypeOK
      <3> QED
        BY <2>1, <2>2, <3>2, <3>3 DEF Safe, HubAgrees
    <2> QED
      BY <2>3, <2>4
  <1> QED
    BY <1>1, <1>2, Writers

\* The handler that has done a step is sound or has ended.
LEMMA TaskSoundStep ==
    ASSUME TypeOK, TypeOK', Safe, NEW t \in Tasks, TaskStep(t) \/ Abort(t), [Next]_vars
    PROVE  task'[t] = Idle \/ SoundTask(task[t])'
  <1>1. UNCHANGED chain
    BY TaskChain
  <1>3. /\ NoSnapshot \in Snapshot
        /\ \A e \in Elections : Faithful(e, NoSnapshot) /\ Faithful(e, chain[e])
    BY ConstantsAssumption DEF NoSnapshot, Faithful, TypeOK, Snapshot, Tally
  <1>4. ASSUME task[t].pc \in Steps, NEW pc \in Steps \ Finalizing,
               NEW snap \in Snapshot, Faithful(task[t].e, snap), Hold(t, pc, snap)
        PROVE  SoundTask(task[t])'
    <2>1. task[t] \in Task
      BY <1>4, ActiveTask
    <2>2. task'[t] = [task[t] EXCEPT !.pc = pc, !.snap = snap]
      BY <1>4 DEF Hold, TypeOK
    <2>3. task'[t].e = task[t].e /\ task'[t].snap = snap /\ task'[t].pc = pc
      BY <2>1, <2>2 DEF Task
    <2> QED
      BY <1>1, <1>4, <2>3 DEF SoundTask, Finalizing, Faithful
  <1>5. ASSUME task[t].pc \in Steps, NEW pc \in Steps, GoTo(t, pc),
               pc \in Finalizing => task[t].snap.final,
               pc \notin {"addfinal", "settle"}
        PROVE  SoundTask(task[t])'
    <2>1. /\ task[t] \in Task /\ task[t].e \in Elections
          /\ task[t].snap \in Snapshot /\ Faithful(task[t].e, task[t].snap)
      BY <1>5, ActiveSound DEF Safe, SoundTask
    <2>2. task'[t] = [task[t] EXCEPT !.pc = pc]
      BY <1>5 DEF GoTo, TypeOK
    <2>3. task'[t].e = task[t].e /\ task'[t].snap = task[t].snap /\ task'[t].pc = pc
      BY <2>1, <2>2 DEF Task
    <2> QED
      BY <1>1, <1>5, <2>1, <2>3 DEF SoundTask, Faithful
  <1>6. ASSUME task[t].pc \in Steps, NEW snap \in Snapshot, Faithful(task[t].e, snap),
               WithElection(t, snap)
        PROVE  task'[t] = Idle \/ SoundTask(task[t])'
    <2>1. task[t].e \in Elections
      BY <1>6, ActiveSound DEF Safe
    <2> QED
      BY <1>3, <1>4, <1>6, <2>1
      DEF WithElection, Finish, TypeOK, Steps, Finalizing
  <1>7. ASSUME task[t].pc \in Steps
        PROVE  /\ task[t] \in Task /\ task[t].e \in Elections
               /\ task[t].snap \in Snapshot /\ Faithful(task[t].e, task[t].snap)
               /\ SoundTask(task[t])
    BY <1>7, ActiveSound DEF Safe, SoundTask
  <1>8. CASE CacheHit(t)
    <2>1. task[t].pc \in Steps
      BY <1>8 DEF CacheHit, Steps
    <2>2. /\ electionLRU[task[t].e] \in Snapshot
          /\ Faithful(task[t].e, electionLRU[task[t].e])
      BY <1>7, <1>8, <2>1 DEF CacheHit, Safe, CacheSound, TypeOK
    <2> QED
      BY <1>6, <1>8, <2>1, <2>2 DEF CacheHit
  <1>9. CASE CacheMiss(t) \/ Fetch(t)
    <2>1. task[t].pc \in Steps
      BY <1>9 DEF CacheMiss, Fetch, Steps
    <2>2. chain[task[t].e] \in Snapshot /\ Faithful(task[t].e, chain[task[t].e])
      BY <1>3, <1>7, <2>1 DEF TypeOK
    <2> QED
      BY <1>4, <1>9, <2>1, <2>2 DEF CacheMiss, Fetch, Steps, Finalizing
  <1>10. CASE Fill(t)
    <2>1. task[t].pc \in Steps
      BY <1>10 DEF Fill, Steps
    <2> QED
      BY <1>6, <1>7, <1>10, <2>1 DEF Fill
  <1>11. CASE ReadElection(t)
    <2>1. task[t].pc \in Steps
      BY <1>11 DEF ReadElection, Steps
    <2>2. PICK found \in BOOLEAN : task' = [task EXCEPT ![t] =
             [@ EXCEPT !.db = found,
                       !.pc = IF task[t].snap.final THEN "image" ELSE "cache"]]
      BY <1>11 DEF ReadElection
    <2>3. /\ task'[t].e = task[t].e /\ task'[t].snap = task[t].snap
          /\ task'[t].pc = IF task[t].snap.final THEN "image" ELSE "cache"
      BY <1>7, <2>1, <2>2 DEF TypeOK, Task
    <2> QED
      BY <1>1, <1>7, <2>1, <2>3 DEF SoundTask, Faithful, Finalizing
  <1>12. CASE CacheElection(t) \/ SaveElection(t)
    <2>1. task[t].pc \in Steps
      BY <1>12 DEF CacheElection, SaveElection, Steps
    <2> QED
      BY <1>5, <1>12, <2>1 DEF CacheElection, SaveElection, Steps, Finalizing
  <1>13. CASE SetPartialResults(t)
    <2>1. task[t].pc \in Steps
      BY <1>13 DEF SetPartialResults, Steps
    <2> QED
      BY <1>3, <1>4, <1>5, <1>7, <1>13, <2>1
      DEF SetPartialResults, AfterPartial, NextRound, Finish, TypeOK, Steps, Finalizing
  <1>14. CASE ShowPartial(t) \/ AddElection(t) \/ SettleResults(t) \/ Abort(t)
    BY <1>14 DEF ShowPartial, AddElection, SettleResults, Abort, Finish, TypeOK
  <1>15. CASE SendVote(t)
    <2>1. task[t].pc \in Steps
      BY <1>15 DEF SendVote, Steps
    <2>2. PICK n \in {0, chain[task[t].e].count} : task' = [task EXCEPT ![t] =
             [NewTask("poll", "poll", task[t].e) EXCEPT !.seen = n]]
      BY <1>15 DEF SendVote
    <2>3. /\ NewTask("poll", "poll", task[t].e) \in Task
          /\ NewTask("poll", "poll", task[t].e).e = task[t].e
          /\ NewTask("poll", "poll", task[t].e).pc = "poll"
          /\ NewTask("poll", "poll", task[t].e).snap = NoSnapshot
      BY <1>7, <2>1, NewTaskType DEF Ops, Steps
    <2>4. task'[t].e = task[t].e /\ task'[t].snap = NoSnapshot /\ task'[t].pc = "poll"
      BY <2>2, <2>3 DEF TypeOK, Task
    <2> QED
      BY <1>1, <1>3, <1>7, <2>1, <2>4 DEF SoundTask, Finalizing, Faithful
  <1>16. CASE Poll(t)
    <2>1. task[t].pc \in Steps
      BY <1>16 DEF Poll, Steps
    <2>2. PICK c \in {0, chain[task[t].e].count} : task' = [task EXCEPT ![t] =
             [@ EXCEPT !.polls = task[t].polls + 1,
                       !.pc = IF c > task[t].seen THEN "election" ELSE "poll"]]
      BY <1>16 DEF Poll
    <2>3. /\ task'[t].e = task[t].e /\ task'[t].snap = task[t].snap
          /\ task'[t].pc \in {"election", "poll"}
      BY <1>7, <2>1, <2>2 DEF TypeOK, Task
    <2> QED
      BY <1>1, <1>7, <2>1, <2>3 DEF SoundTask, Faithful, Finalizing
  <1>17. CASE RequestImage(t)
    <2>1. task[t].pc \in Steps /\ task[t].pc \in Finalizing
      BY <1>17 DEF RequestImage, Steps, Finalizing
    <2> QED
      BY <1>5, <1>7, <1>17, <2>1 DEF RequestImage, Steps, SoundTask
  <1>18. CASE FromCache(t)
    <2>1. task[t].pc \in Steps /\ task[t].pc \in Finalizing
      BY <1>18 DEF FromCache, Steps, Finalizing
    <2>2. task[t].snap.final /\ task[t].snap = chain[task[t].e]
      BY <1>7, <2>1 DEF SoundTask, Faithful
    <2>3. PICK png : /\ task' = [task EXCEPT ![t] =
                                    [@ EXCEPT !.pc = "addfinal", !.png = png]]
                     /\ \/ png = Nil
                        \/ \E i \in images : /\ SameKey(i, ImageOf(task[t].e, task[t].snap))
                                              /\ png = i.tally
      BY <1>18 DEF FromCache
    <2>4. png = Nil \/ png = chain[task[t].e].tally
      BY <2>2, <2>3 DEF SameKey, ImageOf, Safe, ImagesSound
    <2>5. /\ task'[t].e = task[t].e /\ task'[t].snap = task[t].snap
          /\ task'[t].pc = "addfinal" /\ task'[t].png = png
      BY <1>7, <2>1, <2>3 DEF TypeOK, Task
    <2> QED
      BY <1>1, <1>7, <2>1, <2>2, <2>4, <2>5 DEF SoundTask, Faithful
  <1>19. CASE AddFinalResults(t)
    <2>1. task[t].pc \in Steps /\ task[t].pc = "addfinal"
      BY <1>19 DEF AddFinalResults, Steps
    <2>2. results'[task[t].e].stage = "finalized"
      BY <1>7, <1>19, <2>1 DEF AddFinalResults, FinalResults, TypeOK
    <2>3. CASE Finish(t)
      BY <2>3 DEF Finish, TypeOK
    <2>4. CASE GoTo(t, "settle")
      <3>1. /\ task'[t].e = task[t].e /\ task'[t].snap = task[t].snap
            /\ task'[t].pc = "settle" /\ task'[t].png = task[t].png
        BY <1>7, <2>1, <2>4 DEF GoTo, TypeOK, Task
      <3> QED
        BY <1>1, <1>7, <2>1, <2>2, <3>1 DEF SoundTask, Faithful, Finalizing
    <2> QED
      BY <1>19, <2>3, <2>4 DEF AddFinalResults
  <1> QED
    BY <1>8, <1>9, <1>10, <1>11, <1>12, <1>13, <1>14, <1>15, <1>16, <1>17, <1>18,
       <1>19 DEF TaskStep

\* Every handler stays sound.
LEMMA TasksSoundStep ==
    ASSUME TypeOK, TypeOK', Safe, [Next]_vars
    PROVE  TasksSound'
  <1>1. ChainGrows /\ ResultsKept
    BY ChainGrowsStep, ResultsKeptStep
  <1>2. ASSUME NEW u \in Tasks, task'[u] # Idle, task'[u] = task[u]
        PROVE  SoundTask(task[u])'
    <2>1. task[u] \in Task /\ SoundTask(task[u])
      BY <1>2 DEF Safe, TasksSound, TypeOK
    <2>2. \A k \in Task : SoundTask(k) => SoundTask(k)'
      BY <1>1, SoundPersists
    <2> QED
      BY <1>2, <2>1, <2>2 DEF SoundTask, Faithful
  <1>3. ASSUME NEW t \in Tasks, task'[t] = Idle \/ SoundTask(task[t])',
               \A u \in Tasks \ {t} : task'[u] = task[u]
        PROVE  TasksSound'
    BY <1>2, <1>3 DEF TasksSound
  <1>4. ASSUME UNCHANGED task PROVE TasksSound'
    BY <1>2, <1>4 DEF TasksSound
  <1>5. ASSUME RequestNext PROVE TasksSound'
    <2>1. PICK t \in Requests, e \in Elections, op \in Ops, pc \in Steps \ Finalizing :
             Begin(t, op, pc, e)
      BY <1>5 DEF RequestNext, View, Vote, ShowResults, FullInfo, CreateElection,
                  Ops, Steps, Finalizing
    <2>2. task' = [task EXCEPT ![t] = NewTask(op, pc, e)] /\ t \in Tasks
      BY <2>1 DEF Begin, Tasks
    <2>3. /\ task'[t].pc = pc /\ task'[t].e = e /\ task'[t].snap = NoSnapshot
      BY <2>2, NewTaskType DEF TypeOK
    <2>4. SoundTask(task[t])'
      BY <2>3, ConstantsAssumption
      DEF SoundTask, Faithful, NoSnapshot, TypeOK, Snapshot, Tally, Finalizing
    <2> QED
      BY <1>3, <2>2, <2>4 DEF TypeOK
  <1>6. ASSUME NEW w \in Workers, NEW e \in Elections, BackgroundFinalize(w, e)
        PROVE  TasksSound'
    <2>1. /\ task' = [task EXCEPT ![w] = [NewTask("finalize", "image", e)
                                          EXCEPT !.snap = chain[e], !.db = TRUE]]
          /\ w \in Tasks /\ chain[e].final /\ UNCHANGED chain
      BY <1>6 DEF BackgroundFinalize, Tasks
    <2>2. /\ NewTask("finalize", "image", e) \in Task
          /\ NewTask("finalize", "image", e).pc = "image"
          /\ NewTask("finalize", "image", e).e = e
      BY NewTaskType DEF Ops, Steps
    <2>3. task'[w].pc = "image" /\ task'[w].e = e /\ task'[w].snap = chain[e]
      BY <2>1, <2>2 DEF TypeOK, Task
    <2>4. SoundTask(task[w])'
      BY <2>1, <2>3, ConstantsAssumption
      DEF SoundTask, Faithful, TypeOK, Snapshot, Tally
    <2> QED
      BY <1>3, <2>1, <2>4 DEF TypeOK
  <1>7. ASSUME NEW t \in Tasks, TaskStep(t) \/ Abort(t) PROVE TasksSound'
    <2>1. \A u \in Tasks \ {t} : task'[u] = task[u]
      BY <1>7
      DEF TaskStep, CacheHit, CacheMiss, Fill, Fetch, ReadElection, CacheElection,
          SetPartialResults, ShowPartial, SendVote, Poll, SaveElection, AddElection,
          RequestImage, FromCache, AddFinalResults, SettleResults, Abort, WithElection,
          AfterPartial, NextRound, Hold, GoTo, Finish, TypeOK
    <2> QED
      BY <1>3, <1>7, <2>1, TaskSoundStep
  <1>8. ASSUME Restart PROVE TasksSound'
    BY <1>8 DEF Restart, TasksSound
  <1>9. ASSUME \/ ChainNext \/ ImageNext \/ BackgroundScan \/ BackgroundSleep
               \/ \E e \in Elections : BackgroundSkip(e)
        PROVE  UNCHANGED task
    BY <1>9 DEF ChainNext, ChainVote, ChainEnd, ImageNext, DrawImage, DrawFails,
                EvictImage, ServeFinal, EvictElection, BackgroundScan, BackgroundSleep,
                BackgroundSkip
  <1> QED
    BY <1>4, <1>5, <1>6, <1>7, <1>8, <1>9 DEF Next, BackgroundNext, vars

\* The invariant is inductive.
LEMMA SafeStep == TypeOK /\ TypeOK' /\ Safe /\ [Next]_vars => Safe'
  BY TasksSoundStep, CacheSoundStep, ImagesSoundStep, PublishedStep, HubAgreesStep DEF Safe

\* It holds at the start.
LEMMA InitSafe == Init => Safe
  BY ConstantsAssumption
  DEF Init, Safe, TasksSound, CacheSound, ImagesSound, PublishedTally, FinalImage,
      HubAgrees, NoResults, NoSnapshot

\* The server keeps the invariant, whatever is interleaved with whatever
\* (results.go:109-142, mongo/results.go:15-36 and 112-146).
THEOREM SafeAlways == Spec => []Safe
  <1>1. TypeOK /\ Safe /\ [Next]_vars /\ TypeOK' => Safe'
    BY SafeStep
  <1> QED
    BY <1>1, InitSafe, TypeCorrect, PTL DEF Spec

\* Published results are never ahead of the chain, and finalized results are the
\* last tally of an election that has ended (mongo/results.go:15-36, 112-146).
THEOREM PublishedTallyAlways == Spec => []PublishedTally
  <1>1. Safe => PublishedTally
    BY DEF Safe
  <1> QED
    BY <1>1, SafeAlways, PTL

\* The image stored with final results shows the final tally, though it is looked
\* up by vote count (imageframe/cache.go:13-34, results.go:129-133).
THEOREM FinalImageAlways == Spec => []FinalImage
  <1>1. Safe => FinalImage
    BY DEF Safe
  <1> QED
    BY <1>1, SafeAlways, PTL

\* The hub holds only what the database holds as finalized (results.go:129-140).
THEOREM HubAgreesAlways == Spec => []HubAgrees
  <1>1. Safe => HubAgrees
    BY DEF Safe
  <1> QED
    BY <1>1, SafeAlways, PTL

\* No step takes back finalized results or changes their tally
\* (mongo/results.go:15-36, 112-146).
THEOREM FinalizedForeverAlways == Spec => FinalizedForever
  <1>1. TypeOK /\ Safe /\ [Next]_vars =>
           [\A e \in Elections :
               results[e].stage = "finalized" =>
                   /\ results'[e].stage = "finalized"
                   /\ results'[e].tally = results[e].tally]_vars
    BY ResultsKeptStep DEF ResultsKept
  <1> QED
    BY <1>1, SafeAlways, TypeCorrect, PTL DEF Spec, FinalizedForever

-----------------------------------------------------------------------------
(* Refinement.                                                             *)

\* A document of the collection, and what the board shows of it.
Shown(doc) == [stage |-> doc.stage, tally |-> doc.tally]

\* A step of the server is a step of the board or leaves it as it is.
LEMMA BoardStep ==
    ASSUME TypeOK, Safe, [Next]_vars
    PROVE  [Board!Next]_(Board!boardVars)
  <1> DEFINE tally == [e \in Elections |-> chain[e].tally]
             closed == [e \in Elections |-> chain[e].final]
             board == [e \in Elections |-> Shown(results[e])]
  <1>1. CASE UNCHANGED <<chain, results>>
    BY <1>1 DEF Board!boardVars
  <1>2. ASSUME NEW e \in Elections, ChainVote(e) PROVE Board!Count(e)
    <2>1. tally' = [tally EXCEPT ![e] = @ + 1] /\ closed' = closed
      <3>1. /\ chain'[e].tally = chain[e].tally + 1
            /\ chain'[e].final = FALSE /\ chain[e].final = FALSE
            /\ \A x \in Elections \ {e} : chain'[x] = chain[x]
        BY <1>2 DEF ChainVote, TypeOK, Snapshot
      <3> QED
        BY <3>1
    <2>2. UNCHANGED results
      BY <1>2 DEF ChainVote
    <2> QED
      BY <1>2, <2>1, <2>2 DEF Board!Count, ChainVote
  <1>3. ASSUME NEW e \in Elections, ChainEnd(e) PROVE Board!Close(e)
    <2>1. closed' = [closed EXCEPT ![e] = TRUE] /\ tally' = tally
      BY <1>3 DEF ChainEnd, TypeOK, Snapshot
    <2>2. UNCHANGED results
      BY <1>3 DEF ChainEnd
    <2> QED
      BY <1>3, <2>1, <2>2 DEF Board!Close, ChainEnd
  <1>4. ASSUME NEW t \in Tasks, SetPartialResults(t), results' # results
        PROVE  \E e \in Elections, n \in 0..MaxTally : Board!PublishPartial(e, n)
    <2>1. /\ task[t].e \in Elections /\ task[t].snap \in Snapshot
          /\ Faithful(task[t].e, task[t].snap)
      BY <1>4, ActiveSound DEF SetPartialResults, Steps, Safe, SoundTask
    <2>2. PICK e \in Elections, n \in 0..MaxTally :
             e = task[t].e /\ n = task[t].snap.tally /\ n <= tally[e]
      BY <2>1 DEF Snapshot, Tally, Faithful
    <2>3. /\ results[e].stage # "finalized"
          /\ results' = [results EXCEPT ![e] =
                [@ EXCEPT !.stage = "partial", !.tally = n]]
          /\ UNCHANGED chain
      BY <1>4, <2>2 DEF SetPartialResults, NotFinalized
    <2>4. board' = [board EXCEPT ![e] = [stage |-> "partial", tally |-> n]]
      <3>1. /\ results'[e].stage = "partial" /\ results'[e].tally = n
            /\ \A x \in Elections \ {e} : results'[x] = results[x]
        BY <2>3 DEF TypeOK, Document
      <3> QED
        BY <3>1 DEF Shown
    <2>5. Board!PublishPartial(e, n)
      BY <2>2, <2>3, <2>4 DEF Board!PublishPartial, Shown
    <2> QED
      BY <2>5
  <1>5. ASSUME NEW t \in Tasks, AddFinalResults(t)
        PROVE  \E e \in Elections : Board!PublishFinal(e)
    <2>1. task[t].e \in Elections /\ SoundTask(task[t]) /\ task[t].pc = "addfinal"
      BY <1>5, ActiveSound DEF AddFinalResults, Steps, Safe
    <2>2. task[t].snap = chain[task[t].e] /\ chain[task[t].e].final
      BY <2>1 DEF SoundTask, Faithful, Finalizing
    <2>3. PICK e \in Elections : e = task[t].e
      BY <2>1
    <2>4. UNCHANGED chain /\ results' = [results EXCEPT ![e] = FinalResults(t)]
      BY <1>5, <2>3 DEF AddFinalResults
    <2>5. board' = [board EXCEPT ![e] = [stage |-> "finalized", tally |-> tally[e]]]
      BY <2>2, <2>3, <2>4 DEF Shown, FinalResults, TypeOK
    <2>6. Board!PublishFinal(e)
      BY <2>2, <2>3, <2>4, <2>5 DEF Board!PublishFinal, Shown
    <2> QED
      BY <2>6
  <1>6. CASE ChainNext
    BY <1>2, <1>3, <1>6 DEF ChainNext, Board!Next
  <1>7. ASSUME NEW t \in Tasks, SetPartialResults(t) \/ AddFinalResults(t)
        PROVE  [Board!Next]_(Board!boardVars)
    <2>1. CASE SetPartialResults(t) /\ UNCHANGED results
      BY <1>1, <2>1 DEF SetPartialResults
    <2> QED
      BY <1>4, <1>5, <1>7, <2>1 DEF Board!Next
  <1> QED
    BY <1>1, <1>6, <1>7, Writers

\* The server implements the board of results: whatever it does, its results
\* collection behaves as one board that shows a tally the election has had, or
\* its last one and that for good (results.go:109-142, 236-269).
THEOREM Refinement == Spec => ImplementsBoard
  <1>1. Init => Board!Init
    BY DEF Init, Board!Init, NoSnapshot, NoResults
  <1>2. TypeOK /\ Safe /\ [Next]_vars => [Board!Next]_(Board!boardVars)
    BY BoardStep
  <1> QED
    BY <1>1, <1>2, SafeAlways, TypeCorrect, PTL DEF Spec, ImplementsBoard, Board!Spec
=============================================================================
