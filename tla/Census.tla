------------------------------- MODULE Census -------------------------------
(***************************************************************************)
(* How a census is built in the background (census.go): the goroutine that *)
(* goes through the steps of its source, the goroutines that copy the      *)
(* progress of each step into backgroundQueue, the fan-out that looks up   *)
(* the participants and collects them over unbuffered channels, the census *)
(* document, and the client that asks for the outcome.  One census: those  *)
(* of others share nothing with it but the process.                        *)
(*                                                                         *)
(* A send on an unbuffered channel and its receive are one step, taken     *)
(* when the receiver is back at its receive.                               *)
(***************************************************************************)
EXTENDS Naturals, Sequences, FiniteSets

CONSTANTS
    Users,       \* the users (or addresses) that the source yields
    Limit,       \* the capacity of concurrencyLimit (10)
    Percents,    \* the progress that a step reports of itself
    MaxProgress, \* bound: reports of the steps that fetch or create
    Nil

ASSUME CensusAssumption ==
    /\ Limit \in Nat \ {0} /\ MaxProgress \in Nat
    /\ Percents \subseteq 0..100
    /\ Nil \notin Users

VARIABLES
    source,     \* what the census is made from, Nil before the request
    queue,      \* the CensusInfo in backgroundQueue, or Nil
    doc,        \* the census document, or Nil
    builder,    \* the goroutine that builds the census
    tracker,    \* the progress goroutine and channel of each step
    ticker,     \* the progress goroutine of processCensusRecords
    worker,     \* the goroutine that looks up each user
    collector,  \* the goroutines that receive participants and pending addresses
    found,      \* all participants that were received (history)
    slice,      \* what those have collected
    answer,     \* what the client was told in the end
    died        \* how the process ended, if it did

vars == <<source, queue, doc, builder, tracker, ticker, worker, collector, found,
          slice, answer, died>>

\* The steps of each source.
Plan == [csv       |-> <<"records", "create">>,
         tokens    |-> <<"fetch", "records", "create">>,
         channel   |-> <<"fetch", "fids", "create">>,
         followers |-> <<"fids", "create">>,
         alfafrens |-> <<"fetch", "fids", "create">>]
Sources == DOMAIN Plan
Steps == 1..3
Channels == {"participants", "pending"}

\* CensusInfo.
Info == [root : BOOLEAN, error : BOOLEAN, progress : 0..100]
NewInfo == [root |-> FALSE, error |-> FALSE, progress |-> 0]
ErrorInfo == [root |-> FALSE, error |-> TRUE, progress |-> 0]
ReadyInfo == [root |-> TRUE, error |-> FALSE, progress |-> 0]

\* The document has no participants before the census is published.
Doc == [participants : (SUBSET Users) \cup {Nil}, root : BOOLEAN]
NewDoc == [participants |-> Nil, root |-> FALSE]

ASSUME NothingIsNil == Nil \notin Sources /\ Nil \notin Info /\ Nil \notin Doc

Builder == [at : {"idle", "followers", "step", "sending", "pending", "first", "second",
                  "done", "refused"},
            step : 0..3, sent : 0..MaxProgress, todo : SUBSET Users,
            participants : SUBSET Users, created : BOOLEAN]
NewBuilder == [at |-> "idle", step |-> 0, sent |-> 0, todo |-> {},
               participants |-> {}, created |-> FALSE]

Tracker == [at : {"none", "receive", "got", "loaded", "done"}, open : BOOLEAN,
            p : 0..100, ci : Info]
NoTracker == [at |-> "none", open |-> FALSE, p |-> 0, ci |-> NewInfo]
NewTracker == [NoTracker EXCEPT !.at = "receive", !.open = TRUE]

Collector == [at : {"receive", "got", "read"}, item : Users \cup {Nil},
              base : SUBSET Users]
NewCollector == [at |-> "receive", item |-> Nil, base |-> {}]

TypeOK ==
    /\ source \in Sources \cup {Nil}
    /\ queue = Nil \/ queue \in Info
    /\ doc = Nil \/ doc \in Doc
    /\ builder \in Builder
    /\ tracker \in [Steps -> Tracker]
    /\ ticker \in {"select", "sending"}
    /\ worker \in [Users -> {"new", "running", "progress", "done"}]
    /\ collector \in [Channels -> Collector] /\ found \in SUBSET Users
    /\ slice \in [Channels -> SUBSET Users]
    /\ answer \in {"none", "error", "ready"}
    /\ died \in {"no", "crash", "panic"}

Init ==
    /\ source = Nil /\ queue = Nil /\ doc = Nil
    /\ builder = NewBuilder
    /\ tracker = [i \in Steps |-> NoTracker]
    /\ ticker = "select"
    /\ worker = [u \in Users |-> "new"]
    /\ collector = [c \in Channels |-> NewCollector]
    /\ found = {}
    /\ slice = [c \in Channels |-> {}]
    /\ answer = "none"
    /\ died = "no"

-----------------------------------------------------------------------------
(* trackStepProgress.                                                      *)

Kind == Plan[source][builder.step]
Doing(kinds) == builder.at = "step" /\ Kind \in kinds

\* The builder goes on with step i: its channel is made, that of the step before is
\* closed, and a goroutine starts to receive.
Begin(b, i) ==
    /\ builder' = [b EXCEPT !.at = "step", !.step = i]
    /\ tracker' = [j \in Steps |-> IF j = i THEN NewTracker
                                   ELSE [tracker[j] EXCEPT !.open = FALSE]]

\* The last step is over.
End(b) ==
    /\ builder' = b
    /\ tracker' = [tracker EXCEPT ![builder.step].open = FALSE]

\* A report of step i is received.
Receive(i, p) ==
    /\ tracker[i].open /\ tracker[i].at = "receive"
    /\ tracker' = [tracker EXCEPT ![i].at = "got", ![i].p = p]

\* The goroutine loads the entry of the census ...
TrackerLoad(i) ==
    /\ tracker[i].at = "got"
    /\ tracker' = [tracker EXCEPT ![i] =
          IF queue = Nil \/ queue.root
          THEN [NoTracker EXCEPT !.at = "done", !.open = tracker[i].open]
          ELSE [@ EXCEPT !.at = "loaded", !.ci = queue]]
    /\ UNCHANGED <<source, queue, doc, builder, ticker, worker, collector, found, slice,
                   answer, died>>

\* Which step of how many; the steps of alfafrens are counted anew after the first.
Counted(i) ==
    IF source = "alfafrens" /\ i > 1 THEN [step |-> i - 1, total |-> 2]
                                     ELSE [step |-> i, total |-> Len(Plan[source])]

Progress(i, p) ==
    (Counted(i).step - 1) * (100 \div Counted(i).total) + (p \div Counted(i).total)

\* Mutant: the goroutine takes one report only.
TrackerStoreOnce(i) ==
    /\ tracker[i].at = "loaded"
    /\ queue' = [tracker[i].ci EXCEPT !.progress = Progress(i, tracker[i].p)]
    /\ tracker' = [tracker EXCEPT ![i].at = "done"]
    /\ UNCHANGED <<source, doc, builder, ticker, worker, collector, found, slice, answer, died>>

\* ... and stores it back, with the progress.
TrackerStore(i) ==
    /\ tracker[i].at = "loaded"
    /\ queue' = [tracker[i].ci EXCEPT !.progress = Progress(i, tracker[i].p)]
    /\ tracker' = [tracker EXCEPT ![i] =
          [NoTracker EXCEPT !.at = "receive", !.open = tracker[i].open]]
    /\ UNCHANGED <<source, doc, builder, ticker, worker, collector, found, slice, answer, died>>

TrackerEnd(i) ==
    /\ tracker[i].at = "receive" /\ ~tracker[i].open
    /\ tracker' = [tracker EXCEPT ![i].at = "done"]
    /\ UNCHANGED <<source, queue, doc, builder, ticker, worker, collector, found, slice,
                   answer, died>>

-----------------------------------------------------------------------------
(* The request and its steps.                                              *)

\* The handlers make the entry and the document and start the goroutine; that of the
\* followers asks for them first, without tracking.
Request(k) ==
    /\ source = Nil
    /\ source' = k
    /\ queue' = NewInfo
    /\ doc' = NewDoc
    /\ IF k = "followers"
       THEN builder' = [builder EXCEPT !.at = "followers"] /\ UNCHANGED tracker
       ELSE Begin(builder, 1)
    /\ UNCHANGED <<ticker, worker, collector, found, slice, answer, died>>

\* The document, or the channel of alfafrens, cannot be had: some have made the entry.
RequestFails(k) ==
    /\ source = Nil
    /\ source' = k
    /\ queue' = IF k \in {"csv", "channel", "alfafrens"} THEN NewInfo ELSE Nil
    /\ doc' \in {Nil} \cup {NewDoc : j \in {k} \cap {"alfafrens"}}
    /\ builder' = [builder EXCEPT !.at = "refused"]
    /\ UNCHANGED <<tracker, ticker, worker, collector, found, slice, answer, died>>

UserFollowers ==
    /\ builder.at = "followers"
    /\ \/ /\ Begin(builder, 1)
          /\ UNCHANGED queue
       \/ /\ queue' = ErrorInfo
          /\ builder' = [builder EXCEPT !.at = "done"]
          /\ UNCHANGED tracker
    /\ UNCHANGED <<source, doc, ticker, worker, collector, found, slice, answer, died>>

\* A step that fetches or creates is about to report, and blocks until it is heard.
Report ==
    /\ Doing({"fetch", "create"})
    /\ builder.sent < MaxProgress
    /\ builder' = [builder EXCEPT !.at = "sending", !.sent = @ + 1]
    /\ UNCHANGED <<source, queue, doc, tracker, ticker, worker, collector, found, slice,
                   answer, died>>

SendProgress(p) ==
    /\ builder.at = "sending"
    /\ Receive(builder.step, p)
    /\ builder' = [builder EXCEPT !.at = "step"]
    /\ UNCHANGED <<source, queue, doc, ticker, worker, collector, found, slice, answer, died>>

\* The source has yielded its users.
Fetched ==
    /\ Doing({"fetch"})
    /\ Begin(builder, builder.step + 1)
    /\ UNCHANGED <<source, queue, doc, ticker, worker, collector, found, slice, answer, died>>

\* Mutant: the error is logged only.
StepFailsUnnoticed ==
    /\ Doing({"create"})
    /\ End([builder EXCEPT !.at = "first"])
    /\ UNCHANGED <<source, queue, doc, ticker, worker, collector, found, slice, answer, died>>

\* A step fails.  That of records does so before it starts its workers or when the
\* users it has found cannot be saved; that of fids never.
StepFails ==
    /\ Doing({"fetch", "records", "create"}) \/ builder.at = "pending"
    /\ Kind = "records" /\ builder.at = "step" => \A u \in Users : worker[u] = "new"
    /\ End([builder EXCEPT !.at = "done"])
    /\ queue' = ErrorInfo
    /\ UNCHANGED <<source, doc, ticker, worker, collector, found, slice, answer, died>>

\* CreateCensus publishes a census of the participants, if there are any.
CreateCensus ==
    /\ Doing({"create"})
    /\ builder.participants # {}
    /\ End([builder EXCEPT !.at = "first", !.created = TRUE])
    /\ UNCHANGED <<source, queue, doc, ticker, worker, collector, found, slice, answer, died>>

\* The entry and the document get the outcome, the entry first but for followers.
\* That the document cannot be written is logged only.
Publish ==
    /\ builder.at \in {"first", "second"}
    /\ IF (builder.at = "first") = (source = "followers")
       THEN /\ doc' \in {doc, [doc EXCEPT !.participants = builder.participants]}
            /\ UNCHANGED queue
       ELSE /\ queue' = ReadyInfo
            /\ UNCHANGED doc
    /\ builder' = [builder EXCEPT !.at = IF @ = "first" THEN "second" ELSE "done"]
    /\ UNCHANGED <<source, tracker, ticker, worker, collector, found, slice, answer, died>>

-----------------------------------------------------------------------------
(* farcasterCensusFromFids and processCensusRecords: the fan-out.          *)

Spawn(u) ==
    /\ Doing({"fids", "records"})
    /\ worker[u] = "new"
    /\ Cardinality({v \in Users : worker[v] \in {"running", "progress"}}) < Limit
    /\ worker' = [worker EXCEPT ![u] = "running"]
    /\ UNCHANGED <<source, queue, doc, builder, tracker, ticker, collector, found, slice,
                   answer, died>>

\* What a worker does last: one of fids may have progress to report.
LastSteps == {"done"} \cup {"progress" : k \in {Kind} \cap {"fids"}}

\* No weight, no signer, or an error of the database.
WorkerDrops(u) ==
    /\ worker[u] = "running"
    /\ \E next \in LastSteps : worker' = [worker EXCEPT ![u] = next]
    /\ UNCHANGED <<source, queue, doc, builder, tracker, ticker, collector, found, slice,
                   answer, died>>

\* The user is a participant, or an address that the database does not know.
WorkerSends(u, c) ==
    /\ worker[u] = "running"
    /\ c = "pending" => Kind = "records"
    /\ collector[c].at = "receive"
    /\ collector' = [collector EXCEPT ![c].at = "got", ![c].item = u]
    /\ found' = IF c = "participants" THEN found \cup {u} ELSE found
    /\ \E next \in LastSteps : worker' = [worker EXCEPT ![u] = next]
    /\ UNCHANGED <<source, queue, doc, builder, tracker, ticker, slice, answer, died>>

WorkerReports(u, p) ==
    /\ worker[u] = "progress"
    /\ Receive(builder.step, p)
    /\ worker' = [worker EXCEPT ![u] = "done"]
    /\ UNCHANGED <<source, queue, doc, builder, ticker, collector, found, slice, answer, died>>

\* append: the slice is read ...
CollectorRead(c) ==
    /\ collector[c].at = "got"
    /\ collector' = [collector EXCEPT ![c].at = "read", ![c].base = slice[c]]
    /\ UNCHANGED <<source, queue, doc, builder, tracker, ticker, worker, found, slice,
                   answer, died>>

\* ... and written, whatever has become of it meanwhile.
CollectorWrite(c) ==
    /\ collector[c].at = "read"
    /\ slice' = [slice EXCEPT ![c] = collector[c].base \cup {collector[c].item}]
    /\ collector' = [collector EXCEPT ![c].at = "receive", ![c].base = {}]
    /\ UNCHANGED <<source, queue, doc, builder, tracker, ticker, worker, found, answer,
                   died>>

\* Mutant: a worker is done with the wait group before it reports.
WaitedBeforeReport == \A u \in Users : worker[u] \in {"progress", "done"}

\* Mutant: nobody waits for the workers.
NotWaited == \A u \in Users : worker[u] # "new"

\* wg.Wait()
Waited == \A u \in Users : worker[u] = "done"

\* farcasterCensusFromFids returns what is collected; nobody waits for the collector.
FidsCollected ==
    /\ Doing({"fids"})
    /\ Waited
    /\ \/ /\ slice["participants"] # {}
          /\ Begin([builder EXCEPT !.participants = slice["participants"]],
                   builder.step + 1)
          /\ UNCHANGED queue
       \/ /\ slice["participants"] = {}
          /\ End([builder EXCEPT !.at = "done"])
          /\ queue' = ErrorInfo
    /\ UNCHANGED <<source, doc, ticker, worker, collector, found, slice, answer, died>>

\* processCensusRecords looks the pending addresses up elsewhere, one after the other.
RecordsCollected ==
    /\ Doing({"records"})
    /\ Waited
    /\ builder' = [builder EXCEPT !.at = "pending", !.todo = slice["pending"]]
    /\ UNCHANGED <<source, queue, doc, tracker, ticker, worker, collector, found, slice,
                   answer, died>>

FetchPending(u) ==
    /\ builder.at = "pending" /\ u \in builder.todo
    /\ builder' = [builder EXCEPT !.todo = @ \ {u}]
    /\ slice' \in {slice, [slice EXCEPT !["participants"] = @ \cup {u}]}
    /\ UNCHANGED <<source, queue, doc, tracker, ticker, worker, collector, found, answer, died>>

RecordsReturned ==
    /\ builder.at = "pending" /\ builder.todo = {}
    /\ Begin([builder EXCEPT !.participants = slice["participants"]], builder.step + 1)
    /\ UNCHANGED <<source, queue, doc, ticker, worker, collector, found, slice, answer, died>>

\* The step that fans out, once it has begun.
Collecting(i) == source # Nil /\ tracker[i].at # "none" /\ Plan[source][i] \in {"fids", "records"}

\* The goroutine of processCensusRecords that reports every two seconds, from when the
\* workers are started.  Its context is cancelled when the step returns, and it ends
\* (it stays at its select here), unless it has taken the tick: that it does so once
\* more when both are ready is the same.
TickerTicks ==
    /\ ticker = "select"
    /\ \E i \in Steps : Collecting(i) /\ Plan[source][i] = "records"
    /\ \E u \in Users : worker[u] # "new"
    /\ ticker' = "sending"
    /\ UNCHANGED <<source, queue, doc, builder, tracker, worker, collector, found, slice,
                   answer, died>>

TickerSends(i, p) ==
    /\ ticker = "sending" /\ Collecting(i)
    /\ Receive(i, p)
    /\ ticker' = "select"
    /\ UNCHANGED <<source, queue, doc, builder, worker, collector, found, slice, answer, died>>

-----------------------------------------------------------------------------
(* The client, and the end of the process.                                 *)

\* censusQueueInfo: an error or the census, which gets its root in the database then;
\* otherwise the client asks again.
CensusQueueInfo ==
    /\ answer = "none" /\ builder.at # "refused"
    /\ queue # Nil
    /\ \/ queue.error /\ answer' = "error" /\ UNCHANGED doc
       \/ queue.root /\ answer' = "ready" /\ doc' = [doc EXCEPT !.root = TRUE]
    /\ UNCHANGED <<source, queue, builder, tracker, ticker, worker, collector, found, slice, died>>

\* What was in memory is lost.
Dies(how) ==
    /\ died' = how
    /\ queue' = Nil
    /\ tracker' = [i \in Steps |-> NoTracker]
    /\ ticker' = "select"
    /\ worker' = [u \in Users |-> "new"]
    /\ collector' = [c \in Channels |-> NewCollector]
    /\ slice' = [c \in Channels |-> {}]
    /\ builder' = NewBuilder
    /\ found' = {}
    /\ UNCHANGED <<source, doc, answer>>

Crash == Dies("crash")

\* A goroutine is sending on a channel that has been closed.
Reporting ==
    {u \in Users : worker[u] = "progress"} \cup {Nil : t \in {ticker} \cap {"sending"}}

Panic ==
    /\ \E i \in Steps : Collecting(i) /\ ~tracker[i].open
    /\ Reporting # {}
    /\ Dies("panic")

RequestNext == \E k \in Sources : Request(k) \/ RequestFails(k)

BuilderStep ==
    \/ UserFollowers \/ Report \/ Fetched \/ StepFails \/ CreateCensus \/ Publish
    \/ FidsCollected \/ RecordsCollected \/ RecordsReturned
    \/ \E p \in Percents : SendProgress(p)
    \/ \E u \in Users : FetchPending(u)

TrackerStep(i) == TrackerLoad(i) \/ TrackerStore(i) \/ TrackerEnd(i)

WorkerStep(u) ==
    \/ Spawn(u) \/ WorkerDrops(u)
    \/ \E c \in Channels : WorkerSends(u, c)
    \/ \E p \in Percents : WorkerReports(u, p)

CollectorStep(c) == CollectorRead(c) \/ CollectorWrite(c)

TickerStep ==
    \/ TickerTicks
    \/ \E i \in Steps, p \in Percents : TickerSends(i, p)

Next ==
    /\ died = "no"
    /\ \/ RequestNext \/ BuilderStep \/ TickerStep \/ CensusQueueInfo \/ Crash \/ Panic
       \/ \E i \in Steps : TrackerStep(i)
       \/ \E u \in Users : WorkerStep(u)
       \/ \E c \in Channels : CollectorStep(c)

Spec == Init /\ [][Next]_vars

(***************************************************************************)
(* The goroutines are scheduled, and the calls they make return.  Nothing  *)
(* is assumed of the ticker and of the client.                             *)
(***************************************************************************)
Fairness ==
    /\ WF_vars(died = "no" /\ BuilderStep)
    /\ \A i \in Steps : WF_vars(died = "no" /\ TrackerStep(i))
    /\ \A u \in Users : WF_vars(died = "no" /\ WorkerStep(u))
    /\ \A c \in Channels : WF_vars(died = "no" /\ CollectorStep(c))

FairSpec == Spec /\ Fairness
=============================================================================
