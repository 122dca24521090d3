-------------------------- MODULE CensusProperties --------------------------
(* What building a census must satisfy.                                    *)
EXTENDS Census

\* The step that looks up the participants has returned them.
Returned ==
    \E i \in Steps : Collecting(i) /\ i < builder.step

\* Nobody waits for the collector, so that the participant it received last may be
\* missing in the census: that one, and never another, however workers, collector and
\* the look-up of pending addresses interleave (census.go:1070-1083, 1146-1149).
LostAtMostLast ==
    Returned => found \ {collector["participants"].item} \subseteq builder.participants

\* The goroutine that reports every two seconds may meet a closed channel, which ends
\* the process; the workers and steps never do (census.go:1139-1149, 1187-1190, 1298).
PanicsOnlyOverRecords ==
    died = "panic" => \E i \in DOMAIN Plan[source] : Plan[source][i] = "records"

\* The progress goroutines write back old copies of the entry and may hide the outcome,
\* but they make none up: the client is told of a census that was created from some
\* participants, or of the failure of one that was not (census.go:504-541, 1170-1184).
AnswersAreTrue ==
    died = "no" =>
        /\ answer = "ready" => builder.created /\ builder.participants # {}
        /\ answer = "error" => builder.at = "done" /\ ~builder.created
        /\ doc # Nil /\ doc.root => answer = "ready"

\* Steps and workers block on channels without a buffer until their progress is heard,
\* and the goroutine that hears it may return early; all the same every census that
\* was asked for is finished or given up, unless the process ends (census.go:1160-1191).
BuilderFinishes ==
    source # Nil ~> builder.at \in {"done", "refused"} \/ died # "no"

-----------------------------------------------------------------------------
(* Why they hold: the inductive invariant.                                 *)

\* The builder is at a step of the plan, and the channel of that step alone is open:
\* whoever reports to a step still running finds its channel open.
Live == {"step", "sending", "pending"}
Placed ==
    /\ source = Nil => builder.at = "idle" /\ queue = Nil
    /\ builder.at \in {"idle", "followers"} => builder.step = 0
    /\ builder.at \in Live => source \in Sources /\ builder.step \in DOMAIN Plan[source]
    /\ builder.at = "pending" => Kind = "records"
    /\ \A i \in Steps : tracker[i].open <=> builder.at \in Live /\ i = builder.step
    /\ \A i \in Steps : tracker[i].at # "none" =>
          source \in Sources /\ i \in DOMAIN Plan[source] /\ i <= builder.step

\* Workers are busy only during the step that started them, which waits for all.
Fanned ==
    /\ (\E u \in Users : worker[u] \in {"running", "progress"}) => Doing({"fids", "records"})
    /\ Returned \/ builder.at = "pending" => Waited

\* The tick is taken, and the process panics, over records only.
TicksOnlyOverRecords ==
    ticker = "sending" \/ died = "panic" =>
        source \in Sources /\ \E i \in DOMAIN Plan[source] : Plan[source][i] = "records"

\* The collector has all participants that were received, but for the one it is at.
Collected ==
    LET k == collector["participants"] IN
    /\ \A c \in Channels : collector[c].at # "receive" => collector[c].item \in Users
    /\ found \ {k.item} \subseteq slice["participants"]
    /\ k.at = "receive" => found \subseteq slice["participants"]
    /\ k.at = "read" => found \ {k.item} \subseteq k.base

\* The builder has an outcome once it is over, and the copies of the entry that the
\* progress goroutines hold tell of none that is not so.
Outcome ==
    /\ builder.created => builder.at \in {"first", "second", "done"} /\ builder.participants # {}
    /\ builder.at \in {"first", "second"} => builder.created
    /\ queue # Nil =>
          /\ queue.root => builder.created
          /\ queue.error => builder.at = "done" /\ ~builder.created
    /\ \A i \in Steps :
          /\ ~tracker[i].ci.root
          /\ tracker[i].ci.error => builder.at = "done" /\ ~builder.created

\* A census in the making has its document.
Documented ==
    died = "no" /\ source \in Sources /\ builder.at # "refused" => doc \in Doc

CensusInvariant ==
    /\ TypeOK /\ Placed /\ Fanned /\ TicksOnlyOverRecords /\ Collected
    /\ Outcome /\ Documented
    /\ LostAtMostLast /\ AnswersAreTrue
=============================================================================
