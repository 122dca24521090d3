---------------------------- MODULE CensusProofs ----------------------------
(* Proofs about the building of a census, for any users, limits and reports. *)
EXTENDS CensusProperties, TLAPS

-----------------------------------------------------------------------------
(* The plans.                                                              *)

\* A plan looks the participants up in one step, which creates the census next; only the
\* first step may fetch.
LEMMA PlanShape ==
    ASSUME NEW k \in Sources
    PROVE  /\ DOMAIN Plan[k] = 1..Len(Plan[k]) /\ Len(Plan[k]) \in 2..3
           /\ \A i \in DOMAIN Plan[k] : Plan[k][i] \in {"fetch", "fids", "records", "create"}
           /\ \A i \in DOMAIN Plan[k] : Plan[k][i] = "fetch" => i = 1
           /\ \A i \in DOMAIN Plan[k] : Plan[k][i] = "create" <=> i = Len(Plan[k])
           /\ \A i, j \in DOMAIN Plan[k] :
                 Plan[k][i] \in {"fids", "records"} /\ Plan[k][j] \in {"fids", "records"} => i = j
<1>1. k \in {"csv", "tokens", "channel", "followers", "alfafrens"}
    BY DEF Sources, Plan
<1>2. CASE k = "csv"
    BY <1>2 DEF Plan
<1>3. CASE k = "tokens"
    BY <1>3 DEF Plan
<1>4. CASE k = "channel"
    BY <1>4 DEF Plan
<1>5. CASE k = "followers"
    BY <1>5 DEF Plan
<1>6. CASE k = "alfafrens"
    BY <1>6 DEF Plan
<1> QED
    BY <1>1, <1>2, <1>3, <1>4, <1>5, <1>6

-----------------------------------------------------------------------------
(* Types.                                                                  *)

\* The builder may be anywhere in the plan ...
LEMMA BuilderMoves ==
    ASSUME NEW b \in Builder, NEW i \in 0..3,
           NEW a \in {"idle", "followers", "step", "sending", "pending", "first", "second",
                      "done", "refused"}
    PROVE  [b EXCEPT !.at = a] \in Builder /\ [b EXCEPT !.at = a, !.step = i] \in Builder
BY DEF Builder

\* ... with a set of users to look up or to publish, ...
LEMMA BuilderHolds ==
    ASSUME NEW b \in Builder, NEW s \in SUBSET Users
    PROVE  [b EXCEPT !.todo = s] \in Builder /\ [b EXCEPT !.participants = s] \in Builder
BY DEF Builder

\* ... and with a census.
LEMMA BuilderCreates ==
    ASSUME NEW b \in Builder
    PROVE  [b EXCEPT !.created = TRUE] \in Builder
BY DEF Builder

\* The entries, documents and goroutines that are made.
LEMMA NewTypes ==
    /\ NewInfo \in Info /\ ErrorInfo \in Info /\ ReadyInfo \in Info
    /\ NewDoc \in Doc
    /\ NoTracker \in Tracker /\ NewTracker \in Tracker
    /\ NewBuilder \in Builder /\ NewCollector \in Collector
<1>1. NewInfo \in Info /\ ErrorInfo \in Info /\ ReadyInfo \in Info
    BY DEF NewInfo, ErrorInfo, ReadyInfo, Info
<1>2. NewDoc \in Doc
    BY DEF NewDoc, Doc
<1>3. NoTracker \in Tracker
    BY <1>1 DEF NoTracker, Tracker
<1>4. NewTracker \in Tracker
    BY <1>3 DEF NewTracker, Tracker
<1>5. NewBuilder \in Builder
    BY CensusAssumption DEF NewBuilder, Builder
<1>6. NewCollector \in Collector
    BY DEF NewCollector, Collector
<1> QED
    BY <1>1, <1>2, <1>3, <1>4, <1>5, <1>6

\* A step of the plan begins, ends, and is reported to.
LEMMA BeginTypes ==
    ASSUME tracker \in [Steps -> Tracker], NEW b \in Builder, NEW i \in Steps, Begin(b, i)
    PROVE  builder' \in Builder /\ tracker' \in [Steps -> Tracker]
<1>1. builder' \in Builder
  <2>1. i \in 0..3 /\ builder' = [b EXCEPT !.at = "step", !.step = i]
    BY DEF Begin, Steps
  <2> QED
    BY <2>1, BuilderMoves
<1>2. ASSUME NEW j \in Steps PROVE [tracker[j] EXCEPT !.open = FALSE] \in Tracker
    BY DEF Tracker
<1> QED
    BY <1>1, <1>2, NewTypes DEF Begin

LEMMA EndTypes ==
    ASSUME tracker \in [Steps -> Tracker], NEW b \in Builder, End(b)
    PROVE  builder' \in Builder /\ tracker' \in [Steps -> Tracker]
BY DEF End, Tracker

LEMMA ReceiveTypes ==
    ASSUME tracker \in [Steps -> Tracker], NEW i \in Steps, NEW p \in 0..100, Receive(i, p)
    PROVE  tracker' \in [Steps -> Tracker]
<1>1. [tracker[i] EXCEPT !.at = "got", !.p = p] \in Tracker
    BY DEF Tracker
<1>2. tracker' = [tracker EXCEPT ![i] = [tracker[i] EXCEPT !.at = "got", !.p = p]]
    BY DEF Receive
<1> QED
    BY <1>1, <1>2

\* The progress of the whole plan is a percentage, too.
LEMMA ProgressTypes ==
    ASSUME NEW i \in Steps, NEW p \in 0..100, source \in Sources, i <= Len(Plan[source])
    PROVE  Progress(i, p) \in 0..100
<1>1. \/ Counted(i).total = 2 /\ Counted(i).step \in 1..2
      \/ Counted(i).total = 3 /\ Counted(i).step \in 1..3
    BY PlanShape DEF Counted, Steps, Plan
<1>2. CASE Counted(i).total = 2 /\ Counted(i).step \in 1..2
  <2>1. PICK n \in 1..2 : n = Counted(i).step
    BY <1>2
  <2>2. Progress(i, p) = (n - 1) * (100 \div 2) + (p \div 2)
    BY <1>2, <2>1 DEF Progress
  <2>3. 100 \div 2 = 50 /\ p \div 2 \in 0..50
    OBVIOUS
  <2> QED
    BY <2>2, <2>3
<1>3. CASE Counted(i).total = 3 /\ Counted(i).step \in 1..3
  <2>1. PICK n \in 1..3 : n = Counted(i).step
    BY <1>3
  <2>2. Progress(i, p) = (n - 1) * (100 \div 3) + (p \div 3)
    BY <1>3, <2>1 DEF Progress
  <2>3. 100 \div 3 = 33 /\ p \div 3 \in 0..33
    OBVIOUS
  <2> QED
    BY <2>2, <2>3
<1> QED
    BY <1>1, <1>2, <1>3

\* Every step keeps the types.
LEMMA TypeStep ==
    TypeOK /\ Placed /\ Fanned /\ Collected /\ Documented /\ [Next]_vars => TypeOK'
<1> SUFFICES ASSUME TypeOK, Placed, Fanned, Collected, Documented, [Next]_vars PROVE TypeOK'
    OBVIOUS
<1>a. builder \in Builder
    BY DEF TypeOK
<1>b. tracker \in [Steps -> Tracker]
    BY DEF TypeOK
<1>c. builder.at \in Live =>
        /\ source \in Sources /\ builder.step \in Steps
        /\ builder.step \in DOMAIN Plan[source]
        /\ Kind \in {"fetch", "fids", "records"} => builder.step + 1 \in Steps
    BY PlanShape DEF Placed, Kind, Steps
<1>d. 1 \in Steps /\ 0 \in 0..3
    BY DEF Steps
<1>1. ASSUME NEW k \in Sources, Request(k) PROVE TypeOK'
  <2>1. builder' \in Builder /\ tracker' \in [Steps -> Tracker]
    BY <1>1, <1>a, <1>b, <1>d, BuilderMoves, BeginTypes DEF Request
  <2> QED
    BY <1>1, <2>1, NewTypes DEF Request, TypeOK
<1>2. ASSUME NEW k \in Sources, RequestFails(k) PROVE TypeOK'
  <2>1. builder' \in Builder
    BY <1>2, <1>a, <1>d, BuilderMoves DEF RequestFails
  <2> QED
    BY <1>2, <2>1, NewTypes DEF RequestFails, TypeOK
<1>3. CASE UserFollowers
  <2>1. builder' \in Builder /\ tracker' \in [Steps -> Tracker]
    BY <1>3, <1>a, <1>b, <1>d, BuilderMoves, BeginTypes DEF UserFollowers
  <2> QED
    BY <1>3, <2>1, NewTypes DEF UserFollowers, TypeOK
<1>4. CASE Report
  <2>1. builder' \in Builder
    <3>1. builder.sent + 1 \in 0..MaxProgress
        BY <1>4, <1>a, CensusAssumption DEF Report, Builder
    <3>2. builder' = [builder EXCEPT !.at = "sending", !.sent = builder.sent + 1]
        BY <1>4 DEF Report
    <3> QED
        BY <1>a, <3>1, <3>2 DEF Builder
  <2> QED
    BY <1>4, <2>1 DEF Report, TypeOK
<1>5. ASSUME NEW p \in Percents, SendProgress(p) PROVE TypeOK'
  <2>1. builder' \in Builder
    BY <1>5, <1>a, <1>d, BuilderMoves DEF SendProgress
  <2>2. tracker' \in [Steps -> Tracker]
    BY <1>5, <1>b, <1>c, CensusAssumption, ReceiveTypes DEF SendProgress, Live
  <2> QED
    BY <1>5, <2>1, <2>2 DEF SendProgress, TypeOK
<1>6. CASE Fetched
  <2>1. builder' \in Builder /\ tracker' \in [Steps -> Tracker]
    BY <1>6, <1>a, <1>b, <1>c, BeginTypes DEF Fetched, Doing, Live
  <2> QED
    BY <1>6, <2>1 DEF Fetched, TypeOK
<1>7. CASE StepFails
  <2>1. builder' \in Builder /\ tracker' \in [Steps -> Tracker]
    BY <1>7, <1>a, <1>b, <1>d, BuilderMoves, EndTypes DEF StepFails
  <2> QED
    BY <1>7, <2>1, NewTypes DEF StepFails, TypeOK
<1>8. CASE CreateCensus
  <2>1. [builder EXCEPT !.at = "first", !.created = TRUE] \in Builder
    BY <1>a, <1>d, BuilderMoves, BuilderCreates
  <2>2. builder' \in Builder /\ tracker' \in [Steps -> Tracker]
    BY <1>8, <1>b, <2>1, EndTypes DEF CreateCensus
  <2> QED
    BY <1>8, <2>2 DEF CreateCensus, TypeOK
<1>9. CASE Publish /\ died = "no"
  <2>1. builder' \in Builder
    BY <1>9, <1>a, <1>d, BuilderMoves DEF Publish
  <2>2. doc' \in Doc \cup {doc}
    <3>1. doc \in Doc
        BY <1>9 DEF Publish, Placed, Documented, TypeOK
    <3>2. builder.participants \in SUBSET Users
        BY <1>a DEF Builder
    <3> QED
        BY <1>9, <3>1, <3>2 DEF Publish, Doc
  <2> QED
    BY <1>9, <2>1, <2>2, NewTypes DEF Publish, TypeOK
<1>10. CASE FidsCollected
  <2>1. [builder EXCEPT !.participants = slice["participants"]] \in Builder
    BY <1>a, BuilderHolds DEF TypeOK, Channels
  <2>2. builder' \in Builder /\ tracker' \in [Steps -> Tracker]
    BY <1>10, <1>a, <1>b, <1>c, <1>d, <2>1, BuilderMoves, BeginTypes, EndTypes
       DEF FidsCollected, Doing, Live
  <2> QED
    BY <1>10, <2>2, NewTypes DEF FidsCollected, TypeOK
<1>11. CASE RecordsCollected
  <2>1. builder' \in Builder
    <3>1. slice["pending"] \in SUBSET Users
        BY DEF TypeOK, Channels
    <3> QED
        BY <1>11, <1>a, <1>d, <3>1, BuilderMoves, BuilderHolds DEF RecordsCollected
  <2> QED
    BY <1>11, <2>1 DEF RecordsCollected, TypeOK
<1>12. ASSUME NEW u \in Users, FetchPending(u) PROVE TypeOK'
  <2>1. builder' \in Builder
    <3>1. builder.todo \ {u} \in SUBSET Users
        BY <1>a DEF Builder
    <3> QED
        BY <1>12, <1>a, <3>1, BuilderHolds DEF FetchPending
  <2> QED
    BY <1>12, <2>1 DEF FetchPending, TypeOK, Channels
<1>13. CASE RecordsReturned
  <2>1. [builder EXCEPT !.participants = slice["participants"]] \in Builder
    BY <1>a, BuilderHolds DEF TypeOK, Channels
  <2>2. builder.at = "pending" => Kind = "records"
    BY DEF Placed
  <2>3. builder' \in Builder /\ tracker' \in [Steps -> Tracker]
    BY <1>13, <1>a, <1>b, <1>c, <2>1, <2>2, BeginTypes DEF RecordsReturned, Live
  <2> QED
    BY <1>13, <2>3 DEF RecordsReturned, TypeOK
<1>14. ASSUME NEW i \in Steps, TrackerLoad(i) PROVE TypeOK'
  <2>1. tracker' \in [Steps -> Tracker]
    BY <1>14, <1>b, NewTypes DEF TrackerLoad, Tracker, NoTracker, TypeOK
  <2> QED
    BY <1>14, <2>1 DEF TrackerLoad, TypeOK
<1>15. ASSUME NEW i \in Steps, TrackerStore(i) PROVE TypeOK'
  <2>1. tracker' \in [Steps -> Tracker]
    BY <1>15, <1>b, NewTypes DEF TrackerStore, Tracker, NoTracker
  <2>2. Progress(i, tracker[i].p) \in 0..100
    <3>1. source \in Sources /\ i \in DOMAIN Plan[source]
        BY <1>15 DEF TrackerStore, Placed
    <3>2. i <= Len(Plan[source])
        BY <3>1, PlanShape DEF Steps
    <3>3. tracker[i].p \in 0..100
        BY <1>b DEF Tracker
    <3> QED
        BY <3>1, <3>2, <3>3, ProgressTypes
  <2>3. queue' \in Info
    BY <1>15, <1>b, <2>2 DEF TrackerStore, Tracker, Info
  <2> QED
    BY <1>15, <2>1, <2>3 DEF TrackerStore, TypeOK
<1>16. ASSUME NEW i \in Steps, TrackerEnd(i) PROVE TypeOK'
  <2>1. tracker' \in [Steps -> Tracker]
    BY <1>16, <1>b DEF TrackerEnd, Tracker
  <2> QED
    BY <1>16, <2>1 DEF TrackerEnd, TypeOK
<1>17. ASSUME NEW u \in Users, Spawn(u) PROVE TypeOK'
    BY <1>17 DEF Spawn, TypeOK
<1>18. ASSUME NEW u \in Users, WorkerDrops(u) PROVE TypeOK'
    BY <1>18 DEF WorkerDrops, LastSteps, TypeOK
<1>19. ASSUME NEW u \in Users, NEW c \in Channels, WorkerSends(u, c) PROVE TypeOK'
  <2>1. collector' \in [Channels -> Collector]
    <3>1. collector \in [Channels -> Collector]
        BY DEF TypeOK
    <3>2. [collector[c] EXCEPT !.at = "got", !.item = u] \in Collector
        BY <3>1 DEF Collector
    <3>3. collector' = [collector EXCEPT ![c] = [collector[c] EXCEPT !.at = "got", !.item = u]]
        BY <1>19 DEF WorkerSends
    <3> QED
        BY <3>1, <3>2, <3>3
  <2>2. worker' \in [Users -> {"new", "running", "progress", "done"}] /\ found' \in SUBSET Users
    BY <1>19 DEF WorkerSends, LastSteps, TypeOK
  <2> QED
    BY <1>19, <2>1, <2>2 DEF WorkerSends, TypeOK
<1>20. ASSUME NEW u \in Users, NEW p \in Percents, WorkerReports(u, p) PROVE TypeOK'
  <2>1. builder.at \in Live
    BY <1>20 DEF WorkerReports, Fanned, Doing, Live
  <2>2. tracker' \in [Steps -> Tracker]
    BY <1>20, <1>b, <1>c, <2>1, CensusAssumption, ReceiveTypes DEF WorkerReports
  <2> QED
    BY <1>20, <2>2 DEF WorkerReports, TypeOK
<1>21. ASSUME NEW c \in Channels, CollectorRead(c) PROVE TypeOK'
    BY <1>21 DEF CollectorRead, Collector, TypeOK
<1>22. ASSUME NEW c \in Channels, CollectorWrite(c) PROVE TypeOK'
  <2>1. collector' \in [Channels -> Collector]
    BY <1>22 DEF CollectorWrite, Collector, TypeOK
  <2>2. collector[c].item \in Users
    BY <1>22 DEF CollectorWrite, Collected
  <2>3. slice' \in [Channels -> SUBSET Users]
    BY <1>22, <2>2 DEF CollectorWrite, Collector, TypeOK
  <2> QED
    BY <1>22, <2>1, <2>3 DEF CollectorWrite, TypeOK
<1>23. CASE TickerTicks
    BY <1>23 DEF TickerTicks, TypeOK
<1>24. ASSUME NEW i \in Steps, NEW p \in Percents, TickerSends(i, p) PROVE TypeOK'
  <2>1. tracker' \in [Steps -> Tracker]
    BY <1>24, <1>b, CensusAssumption, ReceiveTypes DEF TickerSends
  <2> QED
    BY <1>24, <2>1 DEF TickerSends, TypeOK
<1>25. CASE CensusQueueInfo /\ died = "no"
  <2>1. doc \in Doc
    BY <1>25 DEF CensusQueueInfo, Placed, Documented, TypeOK
  <2>2. doc' \in Doc
    BY <1>25, <2>1 DEF CensusQueueInfo, Doc
  <2> QED
    BY <1>25, <2>2 DEF CensusQueueInfo, TypeOK
<1>26. CASE Crash
    BY <1>26, NewTypes DEF Crash, Dies, TypeOK
<1>27. CASE Panic
    BY <1>27, NewTypes DEF Panic, Dies, TypeOK
<1>28. CASE UNCHANGED vars
    BY <1>28 DEF vars, TypeOK
<1> QED
    BY <1>1, <1>2, <1>3, <1>4, <1>5, <1>6, <1>7, <1>8, <1>9, <1>10, <1>11, <1>12, <1>13, <1>14,
       <1>15, <1>16, <1>17, <1>18, <1>19, <1>20, <1>21, <1>22, <1>23, <1>24, <1>25, <1>26, <1>27,
       <1>28 DEF Next, RequestNext, BuilderStep, TrackerStep, WorkerStep, CollectorStep, TickerStep

-----------------------------------------------------------------------------
(* The parts of the invariant.                                             *)

\* A step of the plan that begins is the one the builder is at.
LEMMA PlacedBegin ==
    ASSUME TypeOK, NEW b \in Builder, NEW i \in Steps, Begin(b, i),
           source' \in Sources, i \in DOMAIN Plan[source'],
           \A j \in Steps : tracker[j].at # "none" => j \in DOMAIN Plan[source'] /\ j <= i
    PROVE  Placed'
<1>1. builder'.at = "step" /\ builder'.step = i
    BY DEF Begin, Builder
<1>2. \A j \in Steps : tracker'[j] = IF j = i THEN NewTracker
                                     ELSE [tracker[j] EXCEPT !.open = FALSE]
    BY DEF Begin
<1>3. \A j \in Steps : /\ tracker'[j].open <=> j = i
                       /\ tracker'[j].at # "none" => j = i \/ tracker[j].at # "none"
    BY <1>2 DEF NewTracker, NoTracker, Tracker, TypeOK
<1> QED
    BY <1>1, <1>3, NothingIsNil DEF Placed, Live, Steps

\* Beginning a step and ending one leave the copies of the entry alone.
LEMMA CopiesKept ==
    ASSUME TypeOK, Outcome, NEW b \in Builder, NEW i \in Steps, Begin(b, i) \/ End(b)
    PROVE  \A j \in Steps : /\ ~tracker'[j].ci.root
                            /\ tracker'[j].ci.error => tracker[j].ci.error
<1> SUFFICES ASSUME NEW j \in Steps
             PROVE  ~tracker'[j].ci.root /\ (tracker'[j].ci.error => tracker[j].ci.error)
    OBVIOUS
<1>1. ~tracker[j].ci.root
    BY DEF Outcome
<1>2. tracker'[j] = NewTracker \/ tracker'[j] = [tracker[j] EXCEPT !.open = FALSE]
                                \/ tracker'[j] = tracker[j]
    BY DEF Begin, End, TypeOK
<1>3. ~NewTracker.ci.root /\ ~NewTracker.ci.error
    BY DEF NewTracker, NoTracker, NewInfo
<1> QED
    BY <1>1, <1>2, <1>3 DEF TypeOK, Tracker

\* The builder stays where its plan takes it.
LEMMA PlacedStep ==
    TypeOK /\ Placed /\ [Next]_vars => Placed'
<1> SUFFICES ASSUME TypeOK, Placed, [Next]_vars PROVE Placed'
    OBVIOUS
<1>1. ASSUME NEW k \in Sources, Request(k) PROVE Placed'
  <2>1. \A j \in Steps : tracker[j].at = "none"
    BY <1>1, NothingIsNil DEF Request, Placed
  <2>2. 1 \in Steps /\ 1 \in DOMAIN Plan[k]
    BY PlanShape DEF Steps
  <2>3. CASE k = "followers"
    BY <1>1, <2>1, <2>3, NothingIsNil DEF Request, Placed, Live, Builder, TypeOK
  <2>4. CASE k # "followers"
    BY <1>1, <2>1, <2>2, <2>4, PlacedBegin DEF Request, TypeOK
  <2> QED
    BY <2>3, <2>4
<1>2. ASSUME NEW k \in Sources, RequestFails(k) PROVE Placed'
    BY <1>2, PlanShape, NothingIsNil DEF RequestFails, Placed, TypeOK, Live, Steps, Builder,
       Tracker, NewInfo, NewDoc, Kind
<1>3. CASE UserFollowers
  <2>1. CASE Begin(builder, 1)
    <3>1. source \in Sources /\ 1 \in Steps
        BY <1>3, NothingIsNil DEF UserFollowers, Placed, TypeOK, Steps
    <3>2. 1 \in DOMAIN Plan[source]
        BY <3>1, PlanShape
    <3>3. \A j \in Steps : tracker[j].at # "none" => j \in DOMAIN Plan[source] /\ j <= 1
        BY <1>3 DEF UserFollowers, Placed, Steps
    <3> QED
        BY <1>3, <2>1, <3>1, <3>2, <3>3, PlacedBegin DEF UserFollowers, TypeOK
  <2>2. CASE ~Begin(builder, 1)
    BY <1>3, <2>2, NothingIsNil DEF UserFollowers, Placed, Live, Builder, TypeOK
  <2> QED
    BY <2>1, <2>2
<1>4. CASE Report
    BY <1>4, PlanShape, NothingIsNil DEF Report, Placed, TypeOK, Live, Steps, Builder,
       Tracker, Doing, Kind
<1>5. ASSUME NEW p \in Percents, SendProgress(p) PROVE Placed'
    BY <1>5, PlanShape, NothingIsNil DEF SendProgress, Placed, TypeOK, Live, Steps, Builder,
       Tracker, Receive, Kind
<1>6. CASE Fetched
  <2>1. source \in Sources /\ builder.step \in DOMAIN Plan[source]
    BY <1>6 DEF Fetched, Doing, Placed, Live
  <2>2. /\ builder.step \in Nat /\ builder.step + 1 \in Steps
        /\ builder.step + 1 \in DOMAIN Plan[source]
    BY <1>6, <2>1, PlanShape DEF Fetched, Doing, Kind, Steps, Placed
  <2>3. \A j \in Steps : tracker[j].at # "none" =>
           j \in DOMAIN Plan[source] /\ j <= builder.step + 1
    BY <2>2 DEF Placed, Steps
  <2> QED
    BY <1>6, <2>1, <2>2, <2>3, PlacedBegin DEF Fetched, TypeOK
<1>7. CASE StepFails
    BY <1>7, PlanShape, NothingIsNil DEF StepFails, Placed, TypeOK, Live, Steps, Builder,
       Tracker, ErrorInfo, End, Doing, Kind
<1>8. CASE CreateCensus
    BY <1>8, PlanShape, NothingIsNil DEF CreateCensus, Placed, TypeOK, Live, Steps, Builder,
       Tracker, End, Doing, Kind
<1>9. CASE Publish
    BY <1>9, PlanShape, NothingIsNil DEF Publish, Placed, TypeOK, Live, Steps, Builder,
       Tracker, ReadyInfo, Kind
<1>10. CASE FidsCollected
  <2>1. source \in Sources /\ builder.step \in DOMAIN Plan[source]
    BY <1>10 DEF FidsCollected, Doing, Placed, Live
  <2>2. /\ builder.step \in Nat /\ builder.step + 1 \in Steps
        /\ builder.step + 1 \in DOMAIN Plan[source]
    BY <1>10, <2>1, PlanShape DEF FidsCollected, Doing, Kind, Steps, Placed
  <2>3. \A j \in Steps : tracker[j].at # "none" =>
           j \in DOMAIN Plan[source] /\ j <= builder.step + 1
    BY <2>2 DEF Placed, Steps
  <2>4. [builder EXCEPT !.participants = slice["participants"]] \in Builder
    BY BuilderHolds DEF TypeOK, Channels
  <2>5. CASE slice["participants"] # {}
    BY <1>10, <2>1, <2>2, <2>3, <2>4, <2>5, PlacedBegin DEF FidsCollected, TypeOK
  <2>6. CASE slice["participants"] = {}
    BY <1>10, <2>1, <2>6, NothingIsNil DEF FidsCollected, End, Placed, Live, Builder, Tracker, TypeOK
  <2> QED
    BY <2>5, <2>6
<1>11. CASE RecordsCollected
    BY <1>11, PlanShape, NothingIsNil DEF RecordsCollected, Placed, TypeOK, Live, Steps,
       Builder, Tracker, Doing, Kind
<1>12. ASSUME NEW u \in Users, FetchPending(u) PROVE Placed'
    BY <1>12, PlanShape, NothingIsNil DEF FetchPending, Placed, TypeOK, Live, Steps,
       Builder, Tracker, Kind
<1>13. CASE RecordsReturned
  <2>1. source \in Sources /\ builder.step \in DOMAIN Plan[source]
    BY <1>13 DEF RecordsReturned, Doing, Placed, Live
  <2>2. /\ builder.step \in Nat /\ builder.step + 1 \in Steps
        /\ builder.step + 1 \in DOMAIN Plan[source]
    BY <1>13, <2>1, PlanShape DEF RecordsReturned, Doing, Kind, Steps, Placed
  <2>3. \A j \in Steps : tracker[j].at # "none" =>
           j \in DOMAIN Plan[source] /\ j <= builder.step + 1
    BY <2>2 DEF Placed, Steps
  <2>4. [builder EXCEPT !.participants = slice["participants"]] \in Builder
    BY BuilderHolds DEF TypeOK, Channels
  <2> QED
    BY <1>13, <2>1, <2>2, <2>3, <2>4, PlacedBegin DEF RecordsReturned, TypeOK
<1>14. ASSUME NEW i \in Steps, TrackerLoad(i) PROVE Placed'
    BY <1>14, PlanShape, NothingIsNil DEF TrackerLoad, Placed, TypeOK, Live, Steps, Builder,
       Tracker, NoTracker, NewInfo, Kind
<1>15. ASSUME NEW i \in Steps, TrackerStore(i) PROVE Placed'
    BY <1>15, PlanShape, NothingIsNil DEF TrackerStore, Placed, TypeOK, Live, Steps,
       Builder, Tracker, NoTracker, NewInfo, Kind
<1>16. ASSUME NEW i \in Steps, TrackerEnd(i) PROVE Placed'
    BY <1>16, PlanShape, NothingIsNil DEF TrackerEnd, Placed, TypeOK, Live, Steps, Builder,
       Tracker, Kind
<1>17. ASSUME NEW u \in Users, Spawn(u) PROVE Placed'
    BY <1>17, PlanShape, NothingIsNil DEF Spawn, Placed, TypeOK, Live, Steps, Builder,
       Tracker, Doing, Kind
<1>18. ASSUME NEW u \in Users, WorkerDrops(u) PROVE Placed'
    BY <1>18, PlanShape, NothingIsNil DEF WorkerDrops, Placed, TypeOK, Live, Steps, Builder,
       Tracker, Kind, LastSteps
<1>19. ASSUME NEW u \in Users, NEW c \in Channels, WorkerSends(u, c) PROVE Placed'
    BY <1>19, PlanShape, NothingIsNil DEF WorkerSends, Placed, TypeOK, Live, Steps, Builder,
       Tracker, Kind, LastSteps
<1>20. ASSUME NEW u \in Users, NEW p \in Percents, WorkerReports(u, p) PROVE Placed'
    BY <1>20, PlanShape, NothingIsNil DEF WorkerReports, Placed, TypeOK, Live, Steps,
       Builder, Tracker, Receive, Kind
<1>21. ASSUME NEW c \in Channels, CollectorRead(c) PROVE Placed'
    BY <1>21, PlanShape, NothingIsNil DEF CollectorRead, Placed, TypeOK, Live, Steps,
       Builder, Tracker, Kind
<1>22. ASSUME NEW c \in Channels, CollectorWrite(c) PROVE Placed'
    BY <1>22, PlanShape, NothingIsNil DEF CollectorWrite, Placed, TypeOK, Live, Steps,
       Builder, Tracker, Kind
<1>23. CASE TickerTicks
    BY <1>23, PlanShape, NothingIsNil DEF TickerTicks, Placed, TypeOK, Live, Steps, Builder,
       Tracker, Kind
<1>24. ASSUME NEW i \in Steps, NEW p \in Percents, TickerSends(i, p) PROVE Placed'
    BY <1>24, PlanShape, NothingIsNil DEF TickerSends, Placed, TypeOK, Live, Steps, Builder,
       Tracker, Receive, Kind
<1>25. CASE CensusQueueInfo
    BY <1>25, PlanShape, NothingIsNil DEF CensusQueueInfo, Placed, TypeOK, Live, Steps,
       Builder, Tracker, Kind
<1>26. CASE Crash
    BY <1>26, PlanShape, NothingIsNil DEF Crash, Placed, TypeOK, Live, Steps, Builder,
       Tracker, NewBuilder, NoTracker, NewInfo, NewCollector, Kind, Dies
<1>27. CASE Panic
    BY <1>27, PlanShape, NothingIsNil DEF Panic, Placed, TypeOK, Live, Steps, Builder,
       Tracker, NewBuilder, NoTracker, NewInfo, NewCollector, Kind, Dies
<1>28. CASE UNCHANGED vars
    BY <1>28 DEF vars, Placed, TypeOK, Live, Steps, Builder, Tracker, Kind
<1> QED
    BY <1>1, <1>2, <1>3, <1>4, <1>5, <1>6, <1>7, <1>8, <1>9, <1>10, <1>11, <1>12, <1>13,
       <1>14, <1>15, <1>16, <1>17, <1>18, <1>19, <1>20, <1>21, <1>22, <1>23, <1>24, <1>25,
       <1>26, <1>27, <1>28 DEF Next, RequestNext, BuilderStep, TrackerStep, WorkerStep,
       CollectorStep, TickerStep

\* The builder waits for all the workers it started.
LEMMA FannedStep ==
    TypeOK /\ Placed /\ Fanned /\ [Next]_vars => Fanned'
<1> SUFFICES ASSUME TypeOK, Placed, Fanned, [Next]_vars PROVE Fanned'
    OBVIOUS
<1>1. ASSUME NEW k \in Sources, Request(k) PROVE Fanned'
  <2>1. builder.at \in {"idle", "followers"} /\ builder.step = 0
    BY <1>1 DEF Request, Placed
  <2>2. \A u \in Users : worker[u] \notin {"running", "progress"}
    BY <2>1 DEF Fanned, Doing
  <2>3. builder'.at # "pending" /\ builder'.step \in {0, 1}
    <3>1. CASE Begin(builder, 1)
        BY <3>1 DEF Begin, Builder, TypeOK
    <3>2. CASE \E a \in {"followers", "done"} : builder' = [builder EXCEPT !.at = a]
        BY <2>1, <3>2 DEF Builder, TypeOK
    <3> QED
        BY <1>1, <3>1, <3>2 DEF Request
  <2> QED
    BY <1>1, <2>2, <2>3 DEF Request, Fanned, Returned, Steps
<1>2. ASSUME NEW k \in Sources, RequestFails(k) PROVE Fanned'
    BY <1>2, PlanShape, NothingIsNil DEF RequestFails, Fanned, Placed, TypeOK, Returned,
       Collecting, Waited, Live, Builder, Tracker, Steps, NewInfo, NewDoc, Doing, Kind
<1>3. CASE UserFollowers
  <2>1. builder.at \in {"idle", "followers"} /\ builder.step = 0
    BY <1>3 DEF UserFollowers, Placed
  <2>2. \A u \in Users : worker[u] \notin {"running", "progress"}
    BY <2>1 DEF Fanned, Doing
  <2>3. builder'.at # "pending" /\ builder'.step \in {0, 1}
    <3>1. CASE Begin(builder, 1)
        BY <3>1 DEF Begin, Builder, TypeOK
    <3>2. CASE \E a \in {"followers", "done"} : builder' = [builder EXCEPT !.at = a]
        BY <2>1, <3>2 DEF Builder, TypeOK
    <3> QED
        BY <1>3, <3>1, <3>2 DEF UserFollowers
  <2> QED
    BY <1>3, <2>2, <2>3 DEF UserFollowers, Fanned, Returned, Steps
<1>4. CASE Report
    BY <1>4, PlanShape, NothingIsNil DEF Report, Fanned, Placed, TypeOK, Returned,
       Collecting, Waited, Live, Builder, Tracker, Steps, Doing, Kind
<1>5. ASSUME NEW p \in Percents, SendProgress(p) PROVE Fanned'
    BY <1>5, PlanShape, NothingIsNil DEF SendProgress, Fanned, Placed, TypeOK, Returned,
       Collecting, Waited, Live, Builder, Tracker, Steps, Receive, Doing, Kind
<1>6. CASE Fetched
    BY <1>6, PlanShape, NothingIsNil DEF Fetched, Fanned, Placed, TypeOK, Returned,
       Collecting, Waited, Live, Builder, Tracker, Steps, NewTracker, NoTracker, NewInfo,
       Begin, Doing, Kind
<1>7. CASE StepFails
    BY <1>7, PlanShape, NothingIsNil DEF StepFails, Fanned, Placed, TypeOK, Returned,
       Collecting, Waited, Live, Builder, Tracker, Steps, ErrorInfo, End, Doing, Kind
<1>8. CASE CreateCensus
    BY <1>8, PlanShape, NothingIsNil DEF CreateCensus, Fanned, Placed, TypeOK, Returned,
       Collecting, Waited, Live, Builder, Tracker, Steps, End, Doing, Kind
<1>9. CASE Publish
    BY <1>9, PlanShape, NothingIsNil DEF Publish, Fanned, Placed, TypeOK, Returned,
       Collecting, Waited, Live, Builder, Tracker, Steps, ReadyInfo, Doing, Kind
<1>10. CASE FidsCollected
    BY <1>10, PlanShape, NothingIsNil DEF FidsCollected, Fanned, Placed, TypeOK, Returned,
       Collecting, Waited, Live, Builder, Tracker, Steps, NewTracker, NoTracker, NewInfo,
       ErrorInfo, Begin, End, Doing, Kind
<1>11. CASE RecordsCollected
    BY <1>11, PlanShape, NothingIsNil DEF RecordsCollected, Fanned, Placed, TypeOK,
       Returned, Collecting, Waited, Live, Builder, Tracker, Steps, Doing, Kind
<1>12. ASSUME NEW u \in Users, FetchPending(u) PROVE Fanned'
    BY <1>12, PlanShape, NothingIsNil DEF FetchPending, Fanned, Placed, TypeOK, Returned,
       Collecting, Waited, Live, Builder, Tracker, Steps, Doing, Kind
<1>13. CASE RecordsReturned
    BY <1>13, PlanShape, NothingIsNil DEF RecordsReturned, Fanned, Placed, TypeOK, Returned,
       Collecting, Waited, Live, Builder, Tracker, Steps, NewTracker, NoTracker, NewInfo,
       Begin, Doing, Kind
<1>14. ASSUME NEW i \in Steps, TrackerLoad(i) PROVE Fanned'
    BY <1>14, PlanShape, NothingIsNil DEF TrackerLoad, Fanned, Placed, TypeOK, Returned,
       Collecting, Waited, Live, Builder, Tracker, Steps, NoTracker, NewInfo, Doing, Kind
<1>15. ASSUME NEW i \in Steps, TrackerStore(i) PROVE Fanned'
    BY <1>15, PlanShape, NothingIsNil DEF TrackerStore, Fanned, Placed, TypeOK, Returned,
       Collecting, Waited, Live, Builder, Tracker, Steps, NoTracker, NewInfo, Doing, Kind
<1>16. ASSUME NEW i \in Steps, TrackerEnd(i) PROVE Fanned'
    BY <1>16, PlanShape, NothingIsNil DEF TrackerEnd, Fanned, Placed, TypeOK, Returned,
       Collecting, Waited, Live, Builder, Tracker, Steps, Doing, Kind
<1>17. ASSUME NEW u \in Users, Spawn(u) PROVE Fanned'
    BY <1>17, PlanShape, NothingIsNil DEF Spawn, Fanned, Placed, TypeOK, Returned,
       Collecting, Waited, Live, Builder, Tracker, Steps, Doing, Kind
<1>18. ASSUME NEW u \in Users, WorkerDrops(u) PROVE Fanned'
    BY <1>18, PlanShape, NothingIsNil DEF WorkerDrops, Fanned, Placed, TypeOK, Returned,
       Collecting, Waited, Live, Builder, Tracker, Steps, Doing, Kind, LastSteps
<1>19. ASSUME NEW u \in Users, NEW c \in Channels, WorkerSends(u, c) PROVE Fanned'
    BY <1>19, PlanShape, NothingIsNil DEF WorkerSends, Fanned, Placed, TypeOK, Returned,
       Collecting, Waited, Live, Builder, Tracker, Steps, Doing, Kind, LastSteps
<1>20. ASSUME NEW u \in Users, NEW p \in Percents, WorkerReports(u, p) PROVE Fanned'
    BY <1>20, PlanShape, NothingIsNil DEF WorkerReports, Fanned, Placed, TypeOK, Returned,
       Collecting, Waited, Live, Builder, Tracker, Steps, Receive, Doing, Kind
<1>21. ASSUME NEW c \in Channels, CollectorRead(c) PROVE Fanned'
    BY <1>21, PlanShape, NothingIsNil DEF CollectorRead, Fanned, Placed, TypeOK, Returned,
       Collecting, Waited, Live, Builder, Tracker, Steps, Doing, Kind
<1>22. ASSUME NEW c \in Channels, CollectorWrite(c) PROVE Fanned'
    BY <1>22, PlanShape, NothingIsNil DEF CollectorWrite, Fanned, Placed, TypeOK, Returned,
       Collecting, Waited, Live, Builder, Tracker, Steps, Doing, Kind
<1>23. CASE TickerTicks
    BY <1>23, PlanShape, NothingIsNil DEF TickerTicks, Fanned, Placed, TypeOK, Returned,
       Collecting, Waited, Live, Builder, Tracker, Steps, Doing, Kind
<1>24. ASSUME NEW i \in Steps, NEW p \in Percents, TickerSends(i, p) PROVE Fanned'
    BY <1>24, PlanShape, NothingIsNil DEF TickerSends, Fanned, Placed, TypeOK, Returned,
       Collecting, Waited, Live, Builder, Tracker, Steps, Receive, Doing, Kind
<1>25. CASE CensusQueueInfo
    BY <1>25, PlanShape, NothingIsNil DEF CensusQueueInfo, Fanned, Placed, TypeOK, Returned,
       Collecting, Waited, Live, Builder, Tracker, Steps, Doing, Kind
<1>26. CASE Crash
    BY <1>26, PlanShape, NothingIsNil DEF Crash, Fanned, Placed, TypeOK, Returned,
       Collecting, Waited, Live, Builder, Tracker, Steps, NewBuilder, NoTracker, NewInfo,
       NewCollector, Doing, Kind, Dies
<1>27. CASE Panic
    BY <1>27, PlanShape, NothingIsNil DEF Panic, Fanned, Placed, TypeOK, Returned,
       Collecting, Waited, Live, Builder, Tracker, Steps, NewBuilder, NoTracker, NewInfo,
       NewCollector, Doing, Kind, Dies
<1>28. CASE UNCHANGED vars
    BY <1>28 DEF vars, Fanned, Placed, TypeOK, Returned, Collecting, Waited, Live, Builder,
       Tracker, Steps, Doing, Kind
<1> QED
    BY <1>1, <1>2, <1>3, <1>4, <1>5, <1>6, <1>7, <1>8, <1>9, <1>10, <1>11, <1>12, <1>13,
       <1>14, <1>15, <1>16, <1>17, <1>18, <1>19, <1>20, <1>21, <1>22, <1>23, <1>24, <1>25,
       <1>26, <1>27, <1>28 DEF Next, RequestNext, BuilderStep, TrackerStep, WorkerStep,
       CollectorStep, TickerStep

\* Ticks are for records.
LEMMA TicksStep ==
    TypeOK /\ Placed /\ Fanned /\ TicksOnlyOverRecords /\ [Next]_vars
    => TicksOnlyOverRecords'
<1> SUFFICES ASSUME TypeOK, Placed, Fanned, TicksOnlyOverRecords, [Next]_vars
             PROVE  TicksOnlyOverRecords'
    OBVIOUS
<1>1. ASSUME NEW k \in Sources, Request(k) PROVE TicksOnlyOverRecords'
    BY <1>1, PlanShape, NothingIsNil DEF Request, TicksOnlyOverRecords, Placed, NewTracker,
       NoTracker, NewInfo, NewDoc, Begin, Kind
<1>2. ASSUME NEW k \in Sources, RequestFails(k) PROVE TicksOnlyOverRecords'
    BY <1>2, PlanShape, NothingIsNil DEF RequestFails, TicksOnlyOverRecords, Placed,
       NewInfo, NewDoc, Kind
<1>3. CASE UserFollowers
    BY <1>3, PlanShape, NothingIsNil DEF UserFollowers, TicksOnlyOverRecords, Placed,
       NewTracker, NoTracker, NewInfo, ErrorInfo, Begin, Kind
<1>4. CASE Report
    BY <1>4, PlanShape, NothingIsNil DEF Report, TicksOnlyOverRecords, Placed, Doing, Kind
<1>5. ASSUME NEW p \in Percents, SendProgress(p) PROVE TicksOnlyOverRecords'
    BY <1>5, PlanShape, NothingIsNil DEF SendProgress, TicksOnlyOverRecords, Placed,
       Receive, Kind
<1>6. CASE Fetched
    BY <1>6, PlanShape, NothingIsNil DEF Fetched, TicksOnlyOverRecords, Placed, NewTracker,
       NoTracker, NewInfo, Begin, Doing, Kind
<1>7. CASE StepFails
    BY <1>7, PlanShape, NothingIsNil DEF StepFails, TicksOnlyOverRecords, Placed, ErrorInfo,
       End, Doing, Kind
<1>8. CASE CreateCensus
    BY <1>8, PlanShape, NothingIsNil DEF CreateCensus, TicksOnlyOverRecords, Placed, End,
       Doing, Kind
<1>9. CASE Publish
    BY <1>9, PlanShape, NothingIsNil DEF Publish, TicksOnlyOverRecords, Placed, ReadyInfo,
       Kind
<1>10. CASE FidsCollected
    BY <1>10, PlanShape, NothingIsNil DEF FidsCollected, TicksOnlyOverRecords, Placed,
       NewTracker, NoTracker, NewInfo, ErrorInfo, Begin, End, Doing, Kind
<1>11. CASE RecordsCollected
    BY <1>11, PlanShape, NothingIsNil DEF RecordsCollected, TicksOnlyOverRecords, Placed,
       Doing, Kind
<1>12. ASSUME NEW u \in Users, FetchPending(u) PROVE TicksOnlyOverRecords'
    BY <1>12, PlanShape, NothingIsNil DEF FetchPending, TicksOnlyOverRecords, Placed, Kind
<1>13. CASE RecordsReturned
    BY <1>13, PlanShape, NothingIsNil DEF RecordsReturned, TicksOnlyOverRecords, Placed,
       NewTracker, NoTracker, NewInfo, Begin, Kind
<1>14. ASSUME NEW i \in Steps, TrackerLoad(i) PROVE TicksOnlyOverRecords'
    BY <1>14, PlanShape, NothingIsNil DEF TrackerLoad, TicksOnlyOverRecords, Placed,
       NoTracker, NewInfo, Kind
<1>15. ASSUME NEW i \in Steps, TrackerStore(i) PROVE TicksOnlyOverRecords'
    BY <1>15, PlanShape, NothingIsNil DEF TrackerStore, TicksOnlyOverRecords, Placed,
       NoTracker, NewInfo, Kind
<1>16. ASSUME NEW i \in Steps, TrackerEnd(i) PROVE TicksOnlyOverRecords'
    BY <1>16, PlanShape, NothingIsNil DEF TrackerEnd, TicksOnlyOverRecords, Placed, Kind
<1>17. ASSUME NEW u \in Users, Spawn(u) PROVE TicksOnlyOverRecords'
    BY <1>17, PlanShape, NothingIsNil DEF Spawn, TicksOnlyOverRecords, Placed, Doing, Kind
<1>18. ASSUME NEW u \in Users, WorkerDrops(u) PROVE TicksOnlyOverRecords'
    BY <1>18, PlanShape, NothingIsNil DEF WorkerDrops, TicksOnlyOverRecords, Placed, Kind,
       LastSteps
<1>19. ASSUME NEW u \in Users, NEW c \in Channels, WorkerSends(u, c) PROVE TicksOnlyOverRecords'
    BY <1>19, PlanShape, NothingIsNil DEF WorkerSends, TicksOnlyOverRecords, Placed, Kind,
       LastSteps
<1>20. ASSUME NEW u \in Users, NEW p \in Percents, WorkerReports(u, p) PROVE TicksOnlyOverRecords'
    BY <1>20, PlanShape, NothingIsNil DEF WorkerReports, TicksOnlyOverRecords, Placed,
       Receive, Kind
<1>21. ASSUME NEW c \in Channels, CollectorRead(c) PROVE TicksOnlyOverRecords'
    BY <1>21, PlanShape, NothingIsNil DEF CollectorRead, TicksOnlyOverRecords, Placed, Kind
<1>22. ASSUME NEW c \in Channels, CollectorWrite(c) PROVE TicksOnlyOverRecords'
    BY <1>22, PlanShape, NothingIsNil DEF CollectorWrite, TicksOnlyOverRecords, Placed, Kind
<1>23. CASE TickerTicks
    BY <1>23, PlanShape, NothingIsNil DEF TickerTicks, TicksOnlyOverRecords, Placed,
       Collecting, Kind
<1>24. ASSUME NEW i \in Steps, NEW p \in Percents, TickerSends(i, p) PROVE TicksOnlyOverRecords'
    BY <1>24, PlanShape, NothingIsNil DEF TickerSends, TicksOnlyOverRecords, Placed,
       Collecting, Receive, Kind
<1>25. CASE CensusQueueInfo
    BY <1>25, PlanShape, NothingIsNil DEF CensusQueueInfo, TicksOnlyOverRecords, Placed,
       Kind
<1>26. CASE Crash
    BY <1>26, PlanShape, NothingIsNil DEF Crash, TicksOnlyOverRecords, Placed, NewBuilder,
       NoTracker, NewInfo, NewCollector, Kind, Dies
<1>27. CASE Panic
  <2>1. PICK i \in Steps : Collecting(i) /\ ~tracker[i].open
    BY <1>27 DEF Panic
  <2>2. source \in Sources /\ i \in DOMAIN Plan[source] /\ Plan[source][i] \in {"fids", "records"}
    BY <2>1, NothingIsNil DEF Collecting, Placed
  <2>3. CASE ticker = "sending"
    BY <1>27, <2>3 DEF Panic, Dies, TicksOnlyOverRecords
  <2>4. CASE \E u \in Users : worker[u] = "progress"
    <3>1. builder.at \in Live /\ Plan[source][builder.step] \in {"fids", "records"}
        BY <2>4 DEF Fanned, Doing, Kind, Live
    <3>2. builder.step \in DOMAIN Plan[source]
        BY <3>1 DEF Placed
    <3>3. i = builder.step
        BY <2>2, <3>1, <3>2, PlanShape
    <3> QED
        BY <2>1, <3>1, <3>3 DEF Placed
  <2> QED
    BY <1>27, <2>3, <2>4 DEF Panic, Reporting
<1>28. CASE UNCHANGED vars
    BY <1>28 DEF vars, TicksOnlyOverRecords, Placed, Kind
<1> QED
    BY <1>1, <1>2, <1>3, <1>4, <1>5, <1>6, <1>7, <1>8, <1>9, <1>10, <1>11, <1>12, <1>13,
       <1>14, <1>15, <1>16, <1>17, <1>18, <1>19, <1>20, <1>21, <1>22, <1>23, <1>24, <1>25,
       <1>26, <1>27, <1>28 DEF Next, RequestNext, BuilderStep, TrackerStep, WorkerStep,
       CollectorStep, TickerStep

\* The collector loses nobody before the last.
LEMMA CollectedStep ==
    TypeOK /\ Collected /\ [Next]_vars => Collected'
<1> SUFFICES ASSUME TypeOK, Collected, [Next]_vars PROVE Collected'
    OBVIOUS
<1>1. ASSUME NEW k \in Sources, Request(k) PROVE Collected'
    BY <1>1 DEF Request, Collected, TypeOK, Channels, Collector, NewTracker, NoTracker,
       NewInfo, NewDoc, Begin
<1>2. ASSUME NEW k \in Sources, RequestFails(k) PROVE Collected'
    BY <1>2 DEF RequestFails, Collected, TypeOK, Channels, Collector, NewInfo, NewDoc
<1>3. CASE UserFollowers
    BY <1>3 DEF UserFollowers, Collected, TypeOK, Channels, Collector, NewTracker,
       NoTracker, NewInfo, ErrorInfo, Begin
<1>4. CASE Report
    BY <1>4 DEF Report, Collected, TypeOK, Channels, Collector, Doing, Kind
<1>5. ASSUME NEW p \in Percents, SendProgress(p) PROVE Collected'
    BY <1>5 DEF SendProgress, Collected, TypeOK, Channels, Collector, Receive
<1>6. CASE Fetched
    BY <1>6 DEF Fetched, Collected, TypeOK, Channels, Collector, NewTracker, NoTracker,
       NewInfo, Begin, Doing, Kind
<1>7. CASE StepFails
    BY <1>7 DEF StepFails, Collected, TypeOK, Channels, Collector, ErrorInfo, End, Doing,
       Kind
<1>8. CASE CreateCensus
    BY <1>8 DEF CreateCensus, Collected, TypeOK, Channels, Collector, End, Doing, Kind
<1>9. CASE Publish
    BY <1>9 DEF Publish, Collected, TypeOK, Channels, Collector, ReadyInfo
<1>10. CASE FidsCollected
    BY <1>10 DEF FidsCollected, Collected, TypeOK, Channels, Collector, NewTracker,
       NoTracker, NewInfo, ErrorInfo, Begin, End, Doing, Kind
<1>11. CASE RecordsCollected
    BY <1>11 DEF RecordsCollected, Collected, TypeOK, Channels, Collector, Doing, Kind
<1>12. ASSUME NEW u \in Users, FetchPending(u) PROVE Collected'
    BY <1>12 DEF FetchPending, Collected, TypeOK, Channels, Collector
<1>13. CASE RecordsReturned
    BY <1>13 DEF RecordsReturned, Collected, TypeOK, Channels, Collector, NewTracker,
       NoTracker, NewInfo, Begin
<1>14. ASSUME NEW i \in Steps, TrackerLoad(i) PROVE Collected'
    BY <1>14 DEF TrackerLoad, Collected, TypeOK, Channels, Collector, NoTracker, NewInfo
<1>15. ASSUME NEW i \in Steps, TrackerStore(i) PROVE Collected'
    BY <1>15 DEF TrackerStore, Collected, TypeOK, Channels, Collector, NoTracker, NewInfo
<1>16. ASSUME NEW i \in Steps, TrackerEnd(i) PROVE Collected'
    BY <1>16 DEF TrackerEnd, Collected, TypeOK, Channels, Collector
<1>17. ASSUME NEW u \in Users, Spawn(u) PROVE Collected'
    BY <1>17 DEF Spawn, Collected, TypeOK, Channels, Collector, Doing, Kind
<1>18. ASSUME NEW u \in Users, WorkerDrops(u) PROVE Collected'
    BY <1>18 DEF WorkerDrops, Collected, TypeOK, Channels, Collector, Kind, LastSteps
<1>19. ASSUME NEW u \in Users, NEW c \in Channels, WorkerSends(u, c) PROVE Collected'
    BY <1>19 DEF WorkerSends, Collected, TypeOK, Channels, Collector, Kind, LastSteps
<1>20. ASSUME NEW u \in Users, NEW p \in Percents, WorkerReports(u, p) PROVE Collected'
    BY <1>20 DEF WorkerReports, Collected, TypeOK, Channels, Collector, Receive
<1>21. ASSUME NEW c \in Channels, CollectorRead(c) PROVE Collected'
    BY <1>21 DEF CollectorRead, Collected, TypeOK, Channels, Collector
<1>22. ASSUME NEW c \in Channels, CollectorWrite(c) PROVE Collected'
    BY <1>22 DEF CollectorWrite, Collected, TypeOK, Channels, Collector
<1>23. CASE TickerTicks
    BY <1>23 DEF TickerTicks, Collected, TypeOK, Channels, Collector
<1>24. ASSUME NEW i \in Steps, NEW p \in Percents, TickerSends(i, p) PROVE Collected'
    BY <1>24 DEF TickerSends, Collected, TypeOK, Channels, Collector, Receive
<1>25. CASE CensusQueueInfo
    BY <1>25 DEF CensusQueueInfo, Collected, TypeOK, Channels, Collector
<1>26. CASE Crash
    BY <1>26 DEF Crash, Collected, TypeOK, Channels, Collector, NewBuilder, NoTracker,
       NewInfo, NewCollector, Dies
<1>27. CASE Panic
    BY <1>27 DEF Panic, Collected, TypeOK, Channels, Collector, NewBuilder, NoTracker,
       NewInfo, NewCollector, Dies
<1>28. CASE UNCHANGED vars
    BY <1>28 DEF vars, Collected, TypeOK, Channels, Collector
<1> QED
    BY <1>1, <1>2, <1>3, <1>4, <1>5, <1>6, <1>7, <1>8, <1>9, <1>10, <1>11, <1>12, <1>13,
       <1>14, <1>15, <1>16, <1>17, <1>18, <1>19, <1>20, <1>21, <1>22, <1>23, <1>24, <1>25,
       <1>26, <1>27, <1>28 DEF Next, RequestNext, BuilderStep, TrackerStep, WorkerStep,
       CollectorStep, TickerStep

\* No outcome is made up.
LEMMA OutcomeStep ==
    TypeOK /\ Placed /\ Outcome /\ [Next]_vars => Outcome'
<1> SUFFICES ASSUME TypeOK, Placed, Outcome, [Next]_vars PROVE Outcome'
    OBVIOUS
<1>1. ASSUME NEW k \in Sources, Request(k) PROVE Outcome'
  <2>1. builder.at = "idle" /\ ~builder.created /\ \A j \in Steps : ~tracker[j].ci.error
    BY <1>1 DEF Request, Placed, Outcome
  <2>2. builder'.at \in {"followers", "step"} /\ ~builder'.created
    BY <1>1, <2>1 DEF Request, Begin, Builder, TypeOK
  <2>3. \A j \in Steps : ~tracker'[j].ci.root /\ ~tracker'[j].ci.error
    <3>1. 1 \in Steps
        BY DEF Steps
    <3>2. CASE k = "followers"
        BY <1>1, <2>1, <3>2 DEF Request, Outcome
    <3>3. CASE k # "followers"
        BY <1>1, <2>1, <3>1, <3>3, CopiesKept DEF Request, TypeOK
    <3> QED
        BY <3>2, <3>3
  <2> QED
    BY <1>1, <2>2, <2>3 DEF Request, Outcome, NewInfo
<1>2. ASSUME NEW k \in Sources, RequestFails(k) PROVE Outcome'
  <2>1. builder.at = "idle" /\ ~builder.created /\ \A j \in Steps : ~tracker[j].ci.error
    BY <1>2 DEF RequestFails, Placed, Outcome
  <2>2. builder'.at = "refused" /\ ~builder'.created
    BY <1>2, <2>1 DEF RequestFails, Builder, TypeOK
  <2>3. queue' = Nil \/ queue' = NewInfo
    BY <1>2 DEF RequestFails
  <2> QED
    BY <1>2, <2>1, <2>2, <2>3 DEF RequestFails, Outcome, NewInfo
<1>3. CASE UserFollowers
  <2>1. ~builder.created /\ \A j \in Steps : ~tracker[j].ci.error
    BY <1>3 DEF UserFollowers, Outcome
  <2>2. CASE Begin(builder, 1) /\ UNCHANGED queue
    <3>1. 1 \in Steps
        BY DEF Steps
    <3>2. \A j \in Steps : ~tracker'[j].ci.root /\ ~tracker'[j].ci.error
        BY <2>1, <2>2, <3>1, CopiesKept DEF TypeOK
    <3>3. builder'.at = "step" /\ ~builder'.created
        BY <2>1, <2>2 DEF Begin, Builder, TypeOK
    <3> QED
        BY <1>3, <2>2, <3>2, <3>3 DEF UserFollowers, Outcome
  <2>3. CASE /\ queue' = ErrorInfo
             /\ builder' = [builder EXCEPT !.at = "done"]
             /\ UNCHANGED tracker
    <3>1. builder'.at = "done" /\ ~builder'.created
        BY <2>1, <2>3 DEF Builder, TypeOK
    <3> QED
        BY <2>1, <2>3, <3>1 DEF Outcome, ErrorInfo
  <2> QED
    BY <1>3, <2>2, <2>3 DEF UserFollowers
<1>4. CASE Report
    BY <1>4 DEF Report, Outcome, TypeOK, Builder, Tracker, Info, Doing, Kind
<1>5. ASSUME NEW p \in Percents, SendProgress(p) PROVE Outcome'
    BY <1>5 DEF SendProgress, Outcome, TypeOK, Builder, Tracker, Info, Receive
<1>6. CASE Fetched
    BY <1>6 DEF Fetched, Outcome, TypeOK, Builder, Tracker, Info, NewTracker, NoTracker,
       NewInfo, Begin, Doing, Kind
<1>7. CASE StepFails
    BY <1>7 DEF StepFails, Outcome, TypeOK, Builder, Tracker, Info, ErrorInfo, End, Doing,
       Kind
<1>8. CASE CreateCensus
    BY <1>8 DEF CreateCensus, Outcome, TypeOK, Builder, Tracker, Info, End, Doing, Kind
<1>9. CASE Publish
    BY <1>9 DEF Publish, Outcome, TypeOK, Builder, Tracker, Info, ReadyInfo
<1>10. CASE FidsCollected
  <2>1. builder.at = "step" /\ ~builder.created /\ \A j \in Steps : ~tracker[j].ci.error
    BY <1>10 DEF FidsCollected, Doing, Outcome
  <2>2. CASE slice["participants"] # {}
    <3>1. [builder EXCEPT !.participants = slice["participants"]] \in Builder
        BY BuilderHolds DEF TypeOK, Channels
    <3>2. builder.step + 1 \in Steps
        <4>1. source \in Sources /\ builder.step \in DOMAIN Plan[source]
            BY <2>1 DEF Placed, Live
        <4> QED
            BY <1>10, <4>1, PlanShape DEF FidsCollected, Doing, Kind, Steps
    <3>3. \A j \in Steps : ~tracker'[j].ci.root /\ ~tracker'[j].ci.error
        BY <1>10, <2>1, <2>2, <3>1, <3>2, CopiesKept DEF FidsCollected
    <3>4. builder'.at = "step" /\ ~builder'.created
        BY <1>10, <2>1, <2>2 DEF FidsCollected, Begin, Builder, TypeOK
    <3> QED
        BY <1>10, <2>1, <2>2, <3>3, <3>4 DEF FidsCollected, Outcome
  <2>3. CASE slice["participants"] = {}
    BY <1>10, <2>1, <2>3 DEF FidsCollected, End, Outcome, ErrorInfo, Builder, Tracker, TypeOK
  <2> QED
    BY <2>2, <2>3
<1>11. CASE RecordsCollected
    BY <1>11 DEF RecordsCollected, Outcome, TypeOK, Builder, Tracker, Info, Doing, Kind
<1>12. ASSUME NEW u \in Users, FetchPending(u) PROVE Outcome'
    BY <1>12 DEF FetchPending, Outcome, TypeOK, Builder, Tracker, Info
<1>13. CASE RecordsReturned
    BY <1>13 DEF RecordsReturned, Outcome, TypeOK, Builder, Tracker, Info, NewTracker,
       NoTracker, NewInfo, Begin
<1>14. ASSUME NEW i \in Steps, TrackerLoad(i) PROVE Outcome'
    BY <1>14 DEF TrackerLoad, Outcome, TypeOK, Builder, Tracker, Info, NoTracker, NewInfo
<1>15. ASSUME NEW i \in Steps, TrackerStore(i) PROVE Outcome'
    BY <1>15 DEF TrackerStore, Outcome, TypeOK, Builder, Tracker, Info, NoTracker, NewInfo
<1>16. ASSUME NEW i \in Steps, TrackerEnd(i) PROVE Outcome'
    BY <1>16 DEF TrackerEnd, Outcome, TypeOK, Builder, Tracker, Info
<1>17. ASSUME NEW u \in Users, Spawn(u) PROVE Outcome'
    BY <1>17 DEF Spawn, Outcome, TypeOK, Builder, Tracker, Info, Doing, Kind
<1>18. ASSUME NEW u \in Users, WorkerDrops(u) PROVE Outcome'
    BY <1>18 DEF WorkerDrops, Outcome, TypeOK, Builder, Tracker, Info, Kind, LastSteps
<1>19. ASSUME NEW u \in Users, NEW c \in Channels, WorkerSends(u, c) PROVE Outcome'
    BY <1>19 DEF WorkerSends, Outcome, TypeOK, Builder, Tracker, Info, Kind, LastSteps
<1>20. ASSUME NEW u \in Users, NEW p \in Percents, WorkerReports(u, p) PROVE Outcome'
    BY <1>20 DEF WorkerReports, Outcome, TypeOK, Builder, Tracker, Info, Receive
<1>21. ASSUME NEW c \in Channels, CollectorRead(c) PROVE Outcome'
    BY <1>21 DEF CollectorRead, Outcome, TypeOK, Builder, Tracker, Info
<1>22. ASSUME NEW c \in Channels, CollectorWrite(c) PROVE Outcome'
    BY <1>22 DEF CollectorWrite, Outcome, TypeOK, Builder, Tracker, Info
<1>23. CASE TickerTicks
    BY <1>23 DEF TickerTicks, Outcome, TypeOK, Builder, Tracker, Info
<1>24. ASSUME NEW i \in Steps, NEW p \in Percents, TickerSends(i, p) PROVE Outcome'
    BY <1>24 DEF TickerSends, Outcome, TypeOK, Builder, Tracker, Info, Receive
<1>25. CASE CensusQueueInfo
    BY <1>25 DEF CensusQueueInfo, Outcome, TypeOK, Builder, Tracker, Info
<1>26. CASE Crash
    BY <1>26 DEF Crash, Outcome, TypeOK, Builder, Tracker, Info, NewBuilder, NoTracker,
       NewInfo, NewCollector, Dies
<1>27. CASE Panic
    BY <1>27 DEF Panic, Outcome, TypeOK, Builder, Tracker, Info, NewBuilder, NoTracker,
       NewInfo, NewCollector, Dies
<1>28. CASE UNCHANGED vars
    BY <1>28 DEF vars, Outcome, TypeOK, Builder, Tracker, Info
<1> QED
    BY <1>1, <1>2, <1>3, <1>4, <1>5, <1>6, <1>7, <1>8, <1>9, <1>10, <1>11, <1>12, <1>13,
       <1>14, <1>15, <1>16, <1>17, <1>18, <1>19, <1>20, <1>21, <1>22, <1>23, <1>24, <1>25,
       <1>26, <1>27, <1>28 DEF Next, RequestNext, BuilderStep, TrackerStep, WorkerStep,
       CollectorStep, TickerStep

\* The document stays.
LEMMA DocumentedStep ==
    TypeOK /\ Placed /\ Documented /\ [Next]_vars => Documented'
<1> SUFFICES ASSUME TypeOK, Placed, Documented, [Next]_vars PROVE Documented'
    OBVIOUS
<1>1. ASSUME NEW k \in Sources, Request(k) PROVE Documented'
    BY <1>1, NothingIsNil DEF Request, Documented, Placed, TypeOK, Doc, Builder, NewTracker,
       NoTracker, NewInfo, NewDoc, Begin, Kind
<1>2. ASSUME NEW k \in Sources, RequestFails(k) PROVE Documented'
    BY <1>2, NothingIsNil DEF RequestFails, Documented, Placed, TypeOK, Doc, Builder,
       NewInfo, NewDoc, Kind
<1>3. CASE UserFollowers
    BY <1>3, NothingIsNil DEF UserFollowers, Documented, Placed, TypeOK, Doc, Builder,
       NewTracker, NoTracker, NewInfo, ErrorInfo, Begin, Kind
<1>4. CASE Report
    BY <1>4, NothingIsNil DEF Report, Documented, Placed, TypeOK, Doc, Builder, Doing, Kind
<1>5. ASSUME NEW p \in Percents, SendProgress(p) PROVE Documented'
    BY <1>5, NothingIsNil DEF SendProgress, Documented, Placed, TypeOK, Doc, Builder,
       Receive, Kind
<1>6. CASE Fetched
    BY <1>6, NothingIsNil DEF Fetched, Documented, Placed, TypeOK, Doc, Builder, NewTracker,
       NoTracker, NewInfo, Begin, Doing, Kind
<1>7. CASE StepFails
    BY <1>7, NothingIsNil DEF StepFails, Documented, Placed, TypeOK, Doc, Builder,
       ErrorInfo, End, Doing, Kind
<1>8. CASE CreateCensus
    BY <1>8, NothingIsNil DEF CreateCensus, Documented, Placed, TypeOK, Doc, Builder, End,
       Doing, Kind
<1>9. CASE Publish
    BY <1>9, NothingIsNil DEF Publish, Documented, Placed, TypeOK, Doc, Builder, ReadyInfo,
       Kind
<1>10. CASE FidsCollected
    BY <1>10, NothingIsNil DEF FidsCollected, Documented, Placed, TypeOK, Doc, Builder,
       NewTracker, NoTracker, NewInfo, ErrorInfo, Begin, End, Doing, Kind
<1>11. CASE RecordsCollected
    BY <1>11, NothingIsNil DEF RecordsCollected, Documented, Placed, TypeOK, Doc, Builder,
       Doing, Kind
<1>12. ASSUME NEW u \in Users, FetchPending(u) PROVE Documented'
    BY <1>12, NothingIsNil DEF FetchPending, Documented, Placed, TypeOK, Doc, Builder, Kind
<1>13. CASE RecordsReturned
    BY <1>13, NothingIsNil DEF RecordsReturned, Documented, Placed, TypeOK, Doc, Builder,
       NewTracker, NoTracker, NewInfo, Begin, Kind
<1>14. ASSUME NEW i \in Steps, TrackerLoad(i) PROVE Documented'
    BY <1>14, NothingIsNil DEF TrackerLoad, Documented, Placed, TypeOK, Doc, Builder,
       NoTracker, NewInfo, Kind
<1>15. ASSUME NEW i \in Steps, TrackerStore(i) PROVE Documented'
    BY <1>15, NothingIsNil DEF TrackerStore, Documented, Placed, TypeOK, Doc, Builder,
       NoTracker, NewInfo, Kind
<1>16. ASSUME NEW i \in Steps, TrackerEnd(i) PROVE Documented'
    BY <1>16, NothingIsNil DEF TrackerEnd, Documented, Placed, TypeOK, Doc, Builder, Kind
<1>17. ASSUME NEW u \in Users, Spawn(u) PROVE Documented'
    BY <1>17, NothingIsNil DEF Spawn, Documented, Placed, TypeOK, Doc, Builder, Doing, Kind
<1>18. ASSUME NEW u \in Users, WorkerDrops(u) PROVE Documented'
    BY <1>18, NothingIsNil DEF WorkerDrops, Documented, Placed, TypeOK, Doc, Builder, Kind,
       LastSteps
<1>19. ASSUME NEW u \in Users, NEW c \in Channels, WorkerSends(u, c) PROVE Documented'
    BY <1>19, NothingIsNil DEF WorkerSends, Documented, Placed, TypeOK, Doc, Builder, Kind,
       LastSteps
<1>20. ASSUME NEW u \in Users, NEW p \in Percents, WorkerReports(u, p) PROVE Documented'
    BY <1>20, NothingIsNil DEF WorkerReports, Documented, Placed, TypeOK, Doc, Builder,
       Receive, Kind
<1>21. ASSUME NEW c \in Channels, CollectorRead(c) PROVE Documented'
    BY <1>21, NothingIsNil DEF CollectorRead, Documented, Placed, TypeOK, Doc, Builder, Kind
<1>22. ASSUME NEW c \in Channels, CollectorWrite(c) PROVE Documented'
    BY <1>22, NothingIsNil DEF CollectorWrite, Documented, Placed, TypeOK, Doc, Builder,
       Kind
<1>23. CASE TickerTicks
    BY <1>23, NothingIsNil DEF TickerTicks, Documented, Placed, TypeOK, Doc, Builder, Kind
<1>24. ASSUME NEW i \in Steps, NEW p \in Percents, TickerSends(i, p) PROVE Documented'
    BY <1>24, NothingIsNil DEF TickerSends, Documented, Placed, TypeOK, Doc, Builder,
       Receive, Kind
<1>25. CASE CensusQueueInfo
    BY <1>25, NothingIsNil DEF CensusQueueInfo, Documented, Placed, TypeOK, Doc, Builder,
       Kind
<1>26. CASE Crash
    BY <1>26, NothingIsNil DEF Crash, Documented, Placed, TypeOK, Doc, Builder, NewBuilder,
       NoTracker, NewInfo, NewCollector, Kind, Dies
<1>27. CASE Panic
    BY <1>27, NothingIsNil DEF Panic, Documented, Placed, TypeOK, Doc, Builder, NewBuilder,
       NoTracker, NewInfo, NewCollector, Kind, Dies
<1>28. CASE UNCHANGED vars
    BY <1>28 DEF vars, Documented, Placed, TypeOK, Doc, Builder, Kind
<1> QED
    BY <1>1, <1>2, <1>3, <1>4, <1>5, <1>6, <1>7, <1>8, <1>9, <1>10, <1>11, <1>12, <1>13,
       <1>14, <1>15, <1>16, <1>17, <1>18, <1>19, <1>20, <1>21, <1>22, <1>23, <1>24, <1>25,
       <1>26, <1>27, <1>28 DEF Next, RequestNext, BuilderStep, TrackerStep, WorkerStep,
       CollectorStep, TickerStep

\* What the step returned has all participants but the collector's last.
LEMMA LostStep ==
    TypeOK /\ Placed /\ Fanned /\ Collected /\ LostAtMostLast /\ [Next]_vars
    => LostAtMostLast'
<1> SUFFICES ASSUME TypeOK, Placed, Fanned, Collected, LostAtMostLast, [Next]_vars
             PROVE  LostAtMostLast'
    OBVIOUS
<1>1. ASSUME NEW k \in Sources, Request(k) PROVE LostAtMostLast'
  <2>1. builder.at \in {"idle", "followers"} /\ builder.step = 0
    BY <1>1 DEF Request, Placed
  <2>2. builder'.step \in {0, 1}
    <3>1. CASE Begin(builder, 1)
        BY <3>1 DEF Begin, Builder, TypeOK
    <3>2. CASE \E a \in {"followers", "done", "refused"} : builder' = [builder EXCEPT !.at = a]
        BY <2>1, <3>2 DEF Builder, TypeOK
    <3> QED
        BY <1>1, <3>1, <3>2 DEF Request
  <2> QED
    BY <2>2 DEF LostAtMostLast, Returned, Steps
<1>2. ASSUME NEW k \in Sources, RequestFails(k) PROVE LostAtMostLast'
  <2>1. builder.at \in {"idle", "followers"} /\ builder.step = 0
    BY <1>2 DEF RequestFails, Placed
  <2>2. builder'.step \in {0, 1}
    <3>1. CASE Begin(builder, 1)
        BY <3>1 DEF Begin, Builder, TypeOK
    <3>2. CASE \E a \in {"followers", "done", "refused"} : builder' = [builder EXCEPT !.at = a]
        BY <2>1, <3>2 DEF Builder, TypeOK
    <3> QED
        BY <1>2, <3>1, <3>2 DEF RequestFails
  <2> QED
    BY <2>2 DEF LostAtMostLast, Returned, Steps
<1>3. CASE UserFollowers
  <2>1. builder.at \in {"idle", "followers"} /\ builder.step = 0
    BY <1>3 DEF UserFollowers, Placed
  <2>2. builder'.step \in {0, 1}
    <3>1. CASE Begin(builder, 1)
        BY <3>1 DEF Begin, Builder, TypeOK
    <3>2. CASE \E a \in {"followers", "done", "refused"} : builder' = [builder EXCEPT !.at = a]
        BY <2>1, <3>2 DEF Builder, TypeOK
    <3> QED
        BY <1>3, <3>1, <3>2 DEF UserFollowers
  <2> QED
    BY <2>2 DEF LostAtMostLast, Returned, Steps
<1>4. CASE Report
    BY <1>4, PlanShape, NothingIsNil DEF Report, LostAtMostLast, Returned, Collecting,
       TypeOK, Steps, Builder, Tracker, Channels, Collector, Doing, Kind
<1>5. ASSUME NEW p \in Percents, SendProgress(p) PROVE LostAtMostLast'
    BY <1>5, PlanShape, NothingIsNil DEF SendProgress, LostAtMostLast, Returned, Collecting,
       TypeOK, Steps, Builder, Tracker, Channels, Collector, Receive
<1>6. CASE Fetched
    BY <1>6, PlanShape, NothingIsNil DEF Fetched, LostAtMostLast, Returned, Collecting,
       TypeOK, Steps, Builder, Tracker, Channels, Collector, NewTracker, NoTracker, NewInfo,
       Begin, Doing, Kind
<1>7. CASE StepFails
    BY <1>7, PlanShape, NothingIsNil DEF StepFails, LostAtMostLast, Returned, Collecting,
       TypeOK, Steps, Builder, Tracker, Channels, Collector, ErrorInfo, End, Doing, Kind
<1>8. CASE CreateCensus
    BY <1>8, PlanShape, NothingIsNil DEF CreateCensus, LostAtMostLast, Returned, Collecting,
       TypeOK, Steps, Builder, Tracker, Channels, Collector, End, Doing, Kind
<1>9. CASE Publish
    BY <1>9, PlanShape, NothingIsNil DEF Publish, LostAtMostLast, Returned, Collecting,
       TypeOK, Steps, Builder, Tracker, Channels, Collector, ReadyInfo
<1>10. CASE FidsCollected
  <2>1. CASE Begin([builder EXCEPT !.participants = slice["participants"]], builder.step + 1)
    <3>1. builder'.participants = slice["participants"]
        BY <2>1 DEF Begin, Builder, TypeOK
    <3> QED
        BY <1>10, <3>1 DEF FidsCollected, LostAtMostLast, Collected
  <2>2. CASE End([builder EXCEPT !.at = "done"])
    <3>1. /\ builder'.step = builder.step /\ builder'.participants = builder.participants
          /\ \A i \in Steps : tracker'[i].at = tracker[i].at
        BY <2>2 DEF End, Builder, Tracker, TypeOK
    <3> QED
        BY <1>10, <3>1 DEF FidsCollected, LostAtMostLast, Returned, Collecting
  <2> QED
    BY <1>10, <2>1, <2>2 DEF FidsCollected
<1>11. CASE RecordsCollected
    BY <1>11, PlanShape, NothingIsNil DEF RecordsCollected, LostAtMostLast, Returned,
       Collecting, TypeOK, Waited, Steps, Builder, Tracker, Channels, Collector, Doing, Kind
<1>12. ASSUME NEW u \in Users, FetchPending(u) PROVE LostAtMostLast'
    BY <1>12, PlanShape, NothingIsNil DEF FetchPending, LostAtMostLast, Returned,
       Collecting, TypeOK, Steps, Builder, Tracker, Channels, Collector
<1>13. CASE RecordsReturned
  <2>1. CASE Begin([builder EXCEPT !.participants = slice["participants"]], builder.step + 1)
    <3>1. builder'.participants = slice["participants"]
        BY <2>1 DEF Begin, Builder, TypeOK
    <3> QED
        BY <1>13, <3>1 DEF RecordsReturned, LostAtMostLast, Collected
  <2> QED
    BY <1>13, <2>1 DEF RecordsReturned
<1>14. ASSUME NEW i \in Steps, TrackerLoad(i) PROVE LostAtMostLast'
    BY <1>14, PlanShape, NothingIsNil DEF TrackerLoad, LostAtMostLast, Returned, Collecting,
       TypeOK, Steps, Builder, Tracker, Channels, Collector, NoTracker, NewInfo
<1>15. ASSUME NEW i \in Steps, TrackerStore(i) PROVE LostAtMostLast'
    BY <1>15, PlanShape, NothingIsNil DEF TrackerStore, LostAtMostLast, Returned,
       Collecting, TypeOK, Steps, Builder, Tracker, Channels, Collector, NoTracker, NewInfo
<1>16. ASSUME NEW i \in Steps, TrackerEnd(i) PROVE LostAtMostLast'
    BY <1>16, PlanShape, NothingIsNil DEF TrackerEnd, LostAtMostLast, Returned, Collecting,
       TypeOK, Steps, Builder, Tracker, Channels, Collector
<1>17. ASSUME NEW u \in Users, Spawn(u) PROVE LostAtMostLast'
    BY <1>17, PlanShape, NothingIsNil DEF Spawn, LostAtMostLast, Returned, Collecting,
       TypeOK, Steps, Builder, Tracker, Channels, Collector, Doing, Kind
<1>18. ASSUME NEW u \in Users, WorkerDrops(u) PROVE LostAtMostLast'
    BY <1>18, PlanShape, NothingIsNil DEF WorkerDrops, LostAtMostLast, Returned, Collecting,
       TypeOK, Steps, Builder, Tracker, Channels, Collector, Kind, LastSteps
<1>19. ASSUME NEW u \in Users, NEW c \in Channels, WorkerSends(u, c) PROVE LostAtMostLast'
    BY <1>19, PlanShape, NothingIsNil DEF WorkerSends, LostAtMostLast, Returned, Collecting,
       TypeOK, Steps, Builder, Tracker, Channels, Collector, Kind, LastSteps
<1>20. ASSUME NEW u \in Users, NEW p \in Percents, WorkerReports(u, p) PROVE LostAtMostLast'
    BY <1>20, PlanShape, NothingIsNil DEF WorkerReports, LostAtMostLast, Returned,
       Collecting, TypeOK, Steps, Builder, Tracker, Channels, Collector, Receive
<1>21. ASSUME NEW c \in Channels, CollectorRead(c) PROVE LostAtMostLast'
    BY <1>21, PlanShape, NothingIsNil DEF CollectorRead, LostAtMostLast, Returned,
       Collecting, TypeOK, Steps, Builder, Tracker, Channels, Collector
<1>22. ASSUME NEW c \in Channels, CollectorWrite(c) PROVE LostAtMostLast'
    BY <1>22, PlanShape, NothingIsNil DEF CollectorWrite, LostAtMostLast, Returned,
       Collecting, TypeOK, Steps, Builder, Tracker, Channels, Collector
<1>23. CASE TickerTicks
    BY <1>23, PlanShape, NothingIsNil DEF TickerTicks, LostAtMostLast, Returned, Collecting,
       TypeOK, Steps, Builder, Tracker, Channels, Collector
<1>24. ASSUME NEW i \in Steps, NEW p \in Percents, TickerSends(i, p) PROVE LostAtMostLast'
    BY <1>24, PlanShape, NothingIsNil DEF TickerSends, LostAtMostLast, Returned, Collecting,
       TypeOK, Steps, Builder, Tracker, Channels, Collector, Receive
<1>25. CASE CensusQueueInfo
    BY <1>25, PlanShape, NothingIsNil DEF CensusQueueInfo, LostAtMostLast, Returned,
       Collecting, TypeOK, Steps, Builder, Tracker, Channels, Collector
<1>26. CASE Crash
    BY <1>26, PlanShape, NothingIsNil DEF Crash, LostAtMostLast, Returned, Collecting,
       TypeOK, Steps, Builder, Tracker, Channels, Collector, NewBuilder, NoTracker, NewInfo,
       NewCollector, Dies
<1>27. CASE Panic
    BY <1>27, PlanShape, NothingIsNil DEF Panic, LostAtMostLast, Returned, Collecting,
       TypeOK, Steps, Builder, Tracker, Channels, Collector, NewBuilder, NoTracker, NewInfo,
       NewCollector, Dies
<1>28. CASE UNCHANGED vars
    BY <1>28 DEF vars, LostAtMostLast, Returned, Collecting, TypeOK, Steps, Builder,
       Tracker, Channels, Collector
<1> QED
    BY <1>1, <1>2, <1>3, <1>4, <1>5, <1>6, <1>7, <1>8, <1>9, <1>10, <1>11, <1>12, <1>13,
       <1>14, <1>15, <1>16, <1>17, <1>18, <1>19, <1>20, <1>21, <1>22, <1>23, <1>24, <1>25,
       <1>26, <1>27, <1>28 DEF Next, RequestNext, BuilderStep, TrackerStep, WorkerStep,
       CollectorStep, TickerStep

\* The client is told what is so.
LEMMA AnswersStep ==
    TypeOK /\ Placed /\ Outcome /\ Documented /\ AnswersAreTrue /\ [Next]_vars
    => AnswersAreTrue'
<1> SUFFICES ASSUME TypeOK, Placed, Outcome, Documented, AnswersAreTrue, [Next]_vars
             PROVE  AnswersAreTrue'
    OBVIOUS
<1>1. ASSUME NEW k \in Sources, Request(k), died = "no" PROVE AnswersAreTrue'
  <2>1. answer = "none"
    BY <1>1 DEF Request, AnswersAreTrue, TypeOK, Placed, Outcome, Next
  <2>2. doc' = Nil \/ doc' = NewDoc
    BY <1>1 DEF Request
  <2> QED
    BY <1>1, <2>1, <2>2 DEF Request, AnswersAreTrue, NewDoc
<1>2. ASSUME NEW k \in Sources, RequestFails(k), died = "no" PROVE AnswersAreTrue'
  <2>1. answer = "none"
    BY <1>2 DEF RequestFails, AnswersAreTrue, TypeOK, Placed, Outcome, Next
  <2>2. doc' = Nil \/ doc' = NewDoc
    BY <1>2 DEF RequestFails
  <2> QED
    BY <1>2, <2>1, <2>2 DEF RequestFails, AnswersAreTrue, NewDoc
<1>3. CASE UserFollowers /\ died = "no"
  <2>1. answer = "none" /\ UNCHANGED <<doc, answer>>
    BY <1>3 DEF UserFollowers, AnswersAreTrue, Outcome, TypeOK
  <2> QED
    BY <1>3, <2>1 DEF UserFollowers, AnswersAreTrue
<1>4. CASE Report /\ died = "no"
    BY <1>4, NothingIsNil DEF Report, AnswersAreTrue, TypeOK, Builder, Doc, Doing, Kind
<1>5. ASSUME NEW p \in Percents, SendProgress(p), died = "no" PROVE AnswersAreTrue'
    BY <1>5, NothingIsNil DEF SendProgress, AnswersAreTrue, TypeOK, Builder, Doc, Receive
<1>6. CASE Fetched /\ died = "no"
    BY <1>6, NothingIsNil DEF Fetched, AnswersAreTrue, TypeOK, Builder, Doc, NewTracker,
       NoTracker, NewInfo, Begin, Doing, Kind
<1>7. CASE StepFails /\ died = "no"
    BY <1>7, NothingIsNil DEF StepFails, AnswersAreTrue, TypeOK, Builder, Doc, ErrorInfo,
       End, Doing, Kind
<1>8. CASE CreateCensus /\ died = "no"
    BY <1>8, NothingIsNil DEF CreateCensus, AnswersAreTrue, TypeOK, Builder, Doc, End,
       Doing, Kind
<1>9. CASE Publish /\ died = "no"
  <2>1. builder.created /\ builder.participants # {}
    BY <1>9 DEF Publish, Outcome
  <2>2. builder'.created /\ builder'.participants # {}
    BY <1>9, <2>1 DEF Publish, Builder, TypeOK
  <2>3. doc \in Doc
    BY <1>9, NothingIsNil DEF Publish, Documented, Placed, TypeOK
  <2>4. doc' \in {doc, [doc EXCEPT !.participants = builder.participants]}
    BY <1>9 DEF Publish
  <2>5. doc'.root = doc.root
    BY <2>3, <2>4 DEF Doc
  <2>6. UNCHANGED <<answer, died>> /\ doc # Nil
    BY <1>9, <2>3, NothingIsNil DEF Publish
  <2> QED
    BY <2>1, <2>2, <2>5, <2>6 DEF AnswersAreTrue
<1>10. CASE FidsCollected /\ died = "no"
    BY <1>10, NothingIsNil DEF FidsCollected, AnswersAreTrue, TypeOK, Builder, Doc,
       NewTracker, NoTracker, NewInfo, ErrorInfo, Begin, End, Doing, Kind
<1>11. CASE RecordsCollected /\ died = "no"
    BY <1>11, NothingIsNil DEF RecordsCollected, AnswersAreTrue, TypeOK, Builder, Doc,
       Doing, Kind
<1>12. ASSUME NEW u \in Users, FetchPending(u), died = "no" PROVE AnswersAreTrue'
    BY <1>12, NothingIsNil DEF FetchPending, AnswersAreTrue, TypeOK, Builder, Doc
<1>13. CASE RecordsReturned /\ died = "no"
  <2>1. answer = "none" /\ UNCHANGED <<doc, answer>>
    BY <1>13 DEF RecordsReturned, AnswersAreTrue, Outcome, TypeOK
  <2> QED
    BY <1>13, <2>1 DEF RecordsReturned, AnswersAreTrue
<1>14. ASSUME NEW i \in Steps, TrackerLoad(i), died = "no" PROVE AnswersAreTrue'
    BY <1>14, NothingIsNil DEF TrackerLoad, AnswersAreTrue, TypeOK, Builder, Doc, NoTracker,
       NewInfo
<1>15. ASSUME NEW i \in Steps, TrackerStore(i), died = "no" PROVE AnswersAreTrue'
    BY <1>15, NothingIsNil DEF TrackerStore, AnswersAreTrue, TypeOK, Builder, Doc,
       NoTracker, NewInfo
<1>16. ASSUME NEW i \in Steps, TrackerEnd(i), died = "no" PROVE AnswersAreTrue'
    BY <1>16, NothingIsNil DEF TrackerEnd, AnswersAreTrue, TypeOK, Builder, Doc
<1>17. ASSUME NEW u \in Users, Spawn(u), died = "no" PROVE AnswersAreTrue'
    BY <1>17, NothingIsNil DEF Spawn, AnswersAreTrue, TypeOK, Builder, Doc, Doing, Kind
<1>18. ASSUME NEW u \in Users, WorkerDrops(u), died = "no" PROVE AnswersAreTrue'
    BY <1>18, NothingIsNil DEF WorkerDrops, AnswersAreTrue, TypeOK, Builder, Doc
<1>19. ASSUME NEW u \in Users, NEW c \in Channels, WorkerSends(u, c), died = "no" PROVE AnswersAreTrue'
    BY <1>19, NothingIsNil DEF WorkerSends, AnswersAreTrue, TypeOK, Builder, Doc, Kind
<1>20. ASSUME NEW u \in Users, NEW p \in Percents, WorkerReports(u, p), died = "no" PROVE AnswersAreTrue'
    BY <1>20, NothingIsNil DEF WorkerReports, AnswersAreTrue, TypeOK, Builder, Doc, Receive
<1>21. ASSUME NEW c \in Channels, CollectorRead(c), died = "no" PROVE AnswersAreTrue'
    BY <1>21, NothingIsNil DEF CollectorRead, AnswersAreTrue, TypeOK, Builder, Doc
<1>22. ASSUME NEW c \in Channels, CollectorWrite(c), died = "no" PROVE AnswersAreTrue'
    BY <1>22, NothingIsNil DEF CollectorWrite, AnswersAreTrue, TypeOK, Builder, Doc
<1>23. CASE TickerTicks /\ died = "no"
    BY <1>23, NothingIsNil DEF TickerTicks, AnswersAreTrue, TypeOK, Builder, Doc
<1>24. ASSUME NEW i \in Steps, NEW p \in Percents, TickerSends(i, p), died = "no" PROVE AnswersAreTrue'
    BY <1>24, NothingIsNil DEF TickerSends, AnswersAreTrue, TypeOK, Builder, Doc, Receive
<1>25. CASE CensusQueueInfo /\ died = "no"
  <2>1. UNCHANGED <<queue, builder, died>> /\ answer = "none" /\ queue # Nil
    BY <1>25 DEF CensusQueueInfo
  <2>2. CASE queue.error /\ answer' = "error" /\ UNCHANGED doc
    BY <2>1, <2>2 DEF Outcome, AnswersAreTrue
  <2>3. CASE queue.root /\ answer' = "ready"
    BY <2>1, <2>3 DEF Outcome, AnswersAreTrue
  <2> QED
    BY <1>25, <2>2, <2>3 DEF CensusQueueInfo
<1>26. CASE Crash /\ died = "no"
    BY <1>26, NothingIsNil DEF Crash, AnswersAreTrue, TypeOK, Builder, Doc, NewBuilder,
       NoTracker, NewInfo, Dies
<1>27. CASE Panic /\ died = "no"
    BY <1>27, NothingIsNil DEF Panic, AnswersAreTrue, TypeOK, Builder, Doc, NewBuilder,
       NoTracker, NewInfo, Dies
<1>28. CASE UNCHANGED vars
    BY <1>28 DEF vars, AnswersAreTrue, TypeOK, Builder, Doc
<1> QED
    BY <1>1, <1>2, <1>3, <1>4, <1>5, <1>6, <1>7, <1>8, <1>9, <1>10, <1>11, <1>12, <1>13,
       <1>14, <1>15, <1>16, <1>17, <1>18, <1>19, <1>20, <1>21, <1>22, <1>23, <1>24, <1>25,
       <1>26, <1>27, <1>28 DEF Next, RequestNext, BuilderStep, TrackerStep, WorkerStep,
       CollectorStep, TickerStep

-----------------------------------------------------------------------------
(* The theorems.                                                           *)

\* The invariant holds before the census is asked for.
LEMMA InitInvariant == Init => CensusInvariant
<1> SUFFICES ASSUME Init PROVE CensusInvariant
    OBVIOUS
<1>1. TypeOK
  <2>1. queue = Nil /\ doc = Nil /\ source = Nil
    BY DEF Init
  <2>2. NoTracker \in Tracker /\ NewBuilder \in Builder /\ NewCollector \in Collector
    BY NewTypes
  <2> QED
    BY <2>1, <2>2 DEF Init, TypeOK
<1>2. Placed /\ Fanned /\ TicksOnlyOverRecords
    BY NothingIsNil DEF Init, Placed, Fanned, TicksOnlyOverRecords, Live, Returned, Collecting,
       NewBuilder, NoTracker, Doing
<1>3. Collected /\ Outcome /\ Documented
    BY NothingIsNil DEF Init, Collected, Outcome, Documented, NewCollector, NewBuilder,
       NoTracker, NewInfo, Channels
<1>4. LostAtMostLast /\ AnswersAreTrue
    BY DEF Init, LostAtMostLast, AnswersAreTrue, Returned, Collecting
<1> QED
    BY <1>1, <1>2, <1>3, <1>4 DEF CensusInvariant

\* It is inductive.
LEMMA StepInvariant == CensusInvariant /\ [Next]_vars => CensusInvariant'
<1> SUFFICES ASSUME CensusInvariant, [Next]_vars PROVE CensusInvariant'
    OBVIOUS
<1>1. /\ TypeOK /\ Placed /\ Fanned /\ TicksOnlyOverRecords /\ Collected
      /\ Outcome /\ Documented /\ LostAtMostLast /\ AnswersAreTrue
    BY DEF CensusInvariant
<1>2. TypeOK' /\ Placed' /\ Fanned'
    BY <1>1, TypeStep, PlacedStep, FannedStep
<1>3. TicksOnlyOverRecords' /\ Collected' /\ Outcome' /\ Documented'
    BY <1>1, TicksStep, CollectedStep, OutcomeStep, DocumentedStep
<1>4. LostAtMostLast' /\ AnswersAreTrue'
    BY <1>1, LostStep, AnswersStep
<1> QED
    BY <1>2, <1>3, <1>4 DEF CensusInvariant

\* The conjunction of all parts holds in every state of a census, however many users,
\* workers at a time and reports there are.
THEOREM CensusInvariantHolds == Spec => []CensusInvariant
<1> QED
    BY InitInvariant, StepInvariant, PTL DEF Spec

\* The entry, the document, the goroutines and their channels keep their types: the
\* progress that is stored stays within 0..100 although it adds up those of the steps.
THEOREM CensusTypeCorrect == Spec => []TypeOK
<1>1. CensusInvariant => TypeOK
    BY DEF CensusInvariant
<1> QED
    BY <1>1, CensusInvariantHolds, PTL

\* At most the participant that the collector received last is missing in the census.
THEOREM LostAtMostLastAlways == Spec => []LostAtMostLast
<1>1. CensusInvariant => LostAtMostLast
    BY DEF CensusInvariant
<1> QED
    BY <1>1, CensusInvariantHolds, PTL

\* No send on a closed channel ends the process, but over records.
THEOREM PanicsOnlyOverRecordsAlways == Spec => []PanicsOnlyOverRecords
<1>1. CensusInvariant => PanicsOnlyOverRecords
    BY DEF CensusInvariant, TicksOnlyOverRecords, PanicsOnlyOverRecords
<1> QED
    BY <1>1, CensusInvariantHolds, PTL

\* The client is told of the outcome the census really had.
THEOREM AnswersAreTrueAlways == Spec => []AnswersAreTrue
<1>1. CensusInvariant => AnswersAreTrue
    BY DEF CensusInvariant
<1> QED
    BY <1>1, CensusInvariantHolds, PTL
=============================================================================
