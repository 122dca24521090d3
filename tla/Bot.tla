-------------------------------- MODULE Bot --------------------------------
(***************************************************************************)
(* The bot: it asks a Farcaster client for the casts that mention it,      *)
(* hands them one by one to a goroutine that creates the polls and mutes   *)
(* the authors they ask for (bot/, votebot.go).  The client is a hub,      *)
(* which is asked for all mentions, or Neynar, which calls a webhook       *)
(* (farcasterapi/).                                                        *)
(***************************************************************************)
EXTENDS Naturals, Sequences, FiniteSets, SequencesExt

CONSTANTS
    Casts,           \* the casts that mention the bot: time, author, text, parent ...
    MinOptions, MaxOptions, MinDuration, MaxDuration,
    MaxElectionDuration,
    MaxRedeliveries, \* bound: webhook calls for a cast, besides the first
    MaxFaults,       \* bound: calls that fail
    None

VARIABLES
    client,
    arrived,     \* per cast, how often it reached the hub or the webhook
    newCasts,    \* Neynar's queue, from times to casts
    lastCast, loop, batch,
    consumer,    \* what the goroutine in votebot.go does, and with which message
    handled,     \* per cast, how often it got there
    elections,   \* polls created: cast and poll
    replies, muted,
    stopped, panicked, faults

vars == <<client, arrived, newCasts, lastCast, loop, batch, consumer, handled, elections,
          replies, muted, stopped, panicked, faults>>
service == <<client, arrived, newCasts>>
outcome == <<elections, replies, muted>>

Times == {c.time : c \in Casts}

Fault == faults < MaxFaults /\ faults' = faults + 1

-----------------------------------------------------------------------------
\* ParseString.  A line is blank, text, an option or a number of hours.

Blank == [is |-> "blank"]
Text == [is |-> "text"]
Option == [is |-> "option"]
Hours(n) == [is |-> "hours", hours |-> n]
Lines == [is : {"blank", "text", "option"}] \cup [is : {"hours"}, hours : Nat]
IsHours(line) == line.is = "hours"

Start == [question |-> FALSE, options |-> 0, over |-> FALSE, error |-> FALSE,
          duration |-> MaxElectionDuration]

\* The parser goes over a line.  Lines before the first option are the question; the first
\* line after an option that is not one is the duration, and the last read.
Line(state, line) ==
    IF state.over \/ line.is = "blank" THEN state
    ELSE IF line.is = "option"
         THEN IF state.options >= MaxOptions
              THEN [state EXCEPT !.over = TRUE, !.error = TRUE]
              ELSE [state EXCEPT !.options = @ + 1]
    ELSE IF state.options = 0 THEN [state EXCEPT !.question = TRUE]
    ELSE IF IsHours(line) /\ line.hours >= MinDuration /\ line.hours <= MaxDuration
         THEN [state EXCEPT !.over = TRUE, !.duration = line.hours]
         ELSE [state EXCEPT !.over = TRUE, !.error = TRUE]

\* The parser after each number of lines
Parsed(lines) ==
    LET after[i \in 0..Len(lines)] ==
            IF i = 0 THEN Start ELSE Line(after[i - 1], lines[i])
    IN  after

ParseString(lines) ==
    LET end == Parsed(lines)[Len(lines)]
    IN  IF end.error \/ ~end.question \/ end.options < MinOptions
        THEN None
        ELSE [options |-> end.options, duration |-> end.duration]

-----------------------------------------------------------------------------
\* The clients

\* A cast as the client hands it on.  The hub gives every mention, with the bot's name
\* taken off the front of its text; if another user it mentions cannot be looked up
\* the text is empty.  Neynar takes for mentions those that do not begin with the
\* bot's name.
Messages ==
    [cast : Casts, mention : BOOLEAN, lines : {c.lines : c \in Casts} \cup {<<>>}, mute : BOOLEAN]
Message(c, mention, lines, mute) ==
    [cast |-> c, mention |-> mention, lines |-> lines, mute |-> mute]
FromHub(c) == Message(c, TRUE, c.lines, c.mute)
FromHubEmpty(c) == Message(c, TRUE, <<>>, FALSE)
ParseCastData(c) == Message(c, ~c.prefixed, c.lines, c.mute /\ ~c.prefixed)

ASSUME BotAssumption ==
    /\ IsFiniteSet(Casts)
    /\ \A c \in Casts :
          /\ c.time \in Nat /\ c.prefixed \in BOOLEAN /\ c.mute \in BOOLEAN
          /\ c.lines \in Seq(Lines)
    /\ MinOptions \in Nat /\ MaxOptions \in Nat /\ MinDuration \in Nat /\ MaxDuration \in Nat
    /\ MaxElectionDuration \in Nat /\ MaxRedeliveries \in Nat /\ MaxFaults \in Nat
    /\ None \notin Casts /\ None \notin Messages /\ None \notin [options : Nat, duration : Nat]

\* Neynar gives its replies no time: timeout 0, and the context is over at once.
CanReply == client = "hub"

Init ==
    /\ client \in {"hub", "neynar"}
    /\ arrived = [c \in Casts |-> 0]
    /\ newCasts = [t \in Times |-> None]
    /\ lastCast = 0 /\ loop = "fetching" /\ batch = <<>>
    /\ consumer = [step |-> "idle", msg |-> None]
    /\ handled = [c \in Casts |-> 0]
    /\ elections = {} /\ replies = {} /\ muted = {}
    /\ stopped = FALSE /\ panicked = FALSE /\ faults = 0

\* A cast reaches the hub, in any order ...
Published(c) ==
    /\ client = "hub" /\ arrived[c] = 0
    /\ arrived' = [arrived EXCEPT ![c] = 1]
    /\ UNCHANGED <<client, newCasts, lastCast, loop, batch, consumer, handled, outcome,
                   stopped, panicked, faults>>

\* ... or the webhook, at least once.  The queue holds one cast per second.
WebhookHandler(c) ==
    /\ client = "neynar" /\ arrived[c] <= MaxRedeliveries
    /\ arrived' = [arrived EXCEPT ![c] = @ + 1]
    /\ newCasts' = [newCasts EXCEPT ![c.time] = c]
    /\ UNCHANGED <<client, lastCast, loop, batch, consumer, handled, outcome, stopped,
                   panicked, faults>>

\* Mutant: the newest cast is asked for again.
NewMentionsAgain ==
    IF client = "hub" THEN {c \in Casts : arrived[c] > 0 /\ c.time >= lastCast}
    ELSE {newCasts[t] : t \in {t \in Times : newCasts[t] # None /\ t >= lastCast}}

\* What a client has for the bot
NewMentions ==
    IF client = "hub" THEN {c \in Casts : arrived[c] > 0 /\ c.time > lastCast}
    ELSE {newCasts[t] : t \in {t \in Times : newCasts[t] # None /\ t > lastCast}}

\* Neynar's time is that of the last cast in the order of a Go map, any of them.
LastTimes(casts) ==
    LET times == {c.time : c \in casts}
    IN  IF casts = {} THEN {lastCast}
        ELSE IF client = "hub" THEN {t \in times : \A s \in times : s <= t}
        ELSE times

-----------------------------------------------------------------------------
\* The bot's loop

\* LastMentions.  The casts come in any order.  An error is tried again at once.
LastMentions ==
    /\ loop = "fetching" /\ ~stopped
    /\ \E time \in LastTimes(NewMentions) : lastCast' = time
    /\ \E order \in SetToSeqs(NewMentions) :
         \/ /\ client = "hub" /\ UNCHANGED faults
            /\ batch' = [i \in DOMAIN order |-> FromHub(order[i])]
         \/ /\ client = "hub" /\ order # <<>> /\ Fault
            /\ batch' = [i \in DOMAIN order |->
                           IF i = 1 THEN FromHubEmpty(order[i]) ELSE FromHub(order[i])]
         \/ /\ client = "neynar" /\ UNCHANGED faults
            /\ batch' = [i \in DOMAIN order |-> ParseCastData(order[i])]
    /\ newCasts' = [t \in Times |-> None]
    /\ loop' = "sending"
    /\ UNCHANGED <<client, arrived, consumer, handled, outcome, stopped, panicked>>

\* Mutant: only the first message is sent.
DeliverFirst ==
    /\ loop = "sending" /\ batch # <<>> /\ ~stopped
    /\ consumer.step = "idle"
    /\ consumer' = [step |-> "poll", msg |-> Head(batch)]
    /\ handled' = [handled EXCEPT ![Head(batch).cast] = @ + 1]
    /\ batch' = <<>>
    /\ UNCHANGED <<service, lastCast, loop, outcome, stopped, panicked, faults>>

\* The channel has no buffer: a message is sent when the consumer takes it.
Deliver ==
    /\ loop = "sending" /\ batch # <<>> /\ ~stopped
    /\ consumer.step = "idle"
    /\ consumer' = [step |-> "poll", msg |-> Head(batch)]
    /\ handled' = [handled EXCEPT ![Head(batch).cast] = @ + 1]
    /\ batch' = Tail(batch)
    /\ UNCHANGED <<service, lastCast, loop, outcome, stopped, panicked, faults>>

\* The cooldown
Tick ==
    /\ loop = "sending" /\ batch = <<>>
    /\ loop' = "fetching"
    /\ UNCHANGED <<service, lastCast, batch, consumer, handled, outcome, stopped, panicked, faults>>

\* Stop cancels the context and closes the channel ...
Stop ==
    /\ ~stopped /\ stopped' = TRUE
    /\ UNCHANGED <<service, lastCast, loop, batch, consumer, handled, outcome, panicked, faults>>

\* ... on which a loop in the middle of its messages panics; elsewhere it returns.
LoopEnds ==
    /\ stopped /\ loop # "ended" /\ ~panicked
    /\ panicked' = (batch # <<>>)
    /\ loop' = "ended"
    /\ UNCHANGED <<service, lastCast, batch, consumer, handled, outcome, stopped, faults>>

-----------------------------------------------------------------------------
\* The goroutine in votebot.go

Continue(step) == consumer' = [consumer EXCEPT !.step = step]
Done == consumer' = [step |-> "idle", msg |-> None]

\* PollMessageHandler: a poll whose author cannot be looked up is dropped.
PollMessageHandler ==
    /\ consumer.step = "poll" /\ ~panicked
    /\ LET isPoll == consumer.msg.mention /\ ParseString(consumer.msg.lines) # None
       IN  \/ isPoll /\ Continue("create") /\ UNCHANGED faults
           \/ isPoll /\ Fault /\ Continue("mute")
           \/ ~isPoll /\ Continue("mute") /\ UNCHANGED faults
    /\ UNCHANGED <<service, lastCast, loop, batch, handled, outcome, stopped, panicked>>

\* pollToCast: createAndSaveElectionAndProfile ...
CreateElection ==
    /\ consumer.step = "create" /\ ~panicked
    /\ \/ /\ Continue("reply") /\ UNCHANGED faults
          /\ elections' = elections \cup
               {[cast |-> consumer.msg.cast, poll |-> ParseString(consumer.msg.lines)]}
       \/ Fault /\ Done /\ UNCHANGED elections
    /\ UNCHANGED <<service, lastCast, loop, batch, handled, replies, muted, stopped, panicked>>

\* ... and ReplyWithPollURL; a short URL is not needed for it.
ReplyWithPollURL ==
    /\ consumer.step = "reply" /\ ~panicked
    /\ Done
    /\ \/ CanReply /\ replies' = replies \cup {consumer.msg.cast} /\ UNCHANGED faults
       \/ CanReply /\ Fault /\ UNCHANGED replies
       \/ ~CanReply /\ UNCHANGED <<replies, faults>>
    /\ UNCHANGED <<service, lastCast, loop, batch, handled, elections, muted, stopped, panicked>>

\* MuteRequestHandler looks up the author of the request and its parent ...
MuteRequestHandler ==
    /\ consumer.step = "mute" /\ ~panicked
    /\ LET m == consumer.msg
           isMute == m.mention /\ m.mute /\ m.cast.parent # None
       IN  \/ isMute /\ Continue("muting") /\ UNCHANGED faults
           \/ isMute /\ Fault /\ Done
           \/ ~isMute /\ Done /\ UNCHANGED faults
    /\ UNCHANGED <<service, lastCast, loop, batch, handled, outcome, stopped, panicked>>

\* ... which holds the URL of a poll, whose creator is muted for that author.
MutePollCreator ==
    /\ consumer.step = "muting" /\ ~panicked
    /\ Done
    /\ \/ /\ muted' = muted \cup {<<consumer.msg.cast.author, consumer.msg.cast.parent>>}
          /\ UNCHANGED faults
       \/ Fault /\ UNCHANGED muted
    /\ UNCHANGED <<service, lastCast, loop, batch, handled, elections, replies, stopped, panicked>>

Consume ==
    \/ PollMessageHandler \/ CreateElection \/ ReplyWithPollURL
    \/ MuteRequestHandler \/ MutePollCreator

Next ==
    \/ \E c \in Casts : Published(c) \/ WebhookHandler(c)
    \/ LastMentions \/ Deliver \/ Tick \/ Stop \/ LoopEnds
    \/ Consume

Spec == Init /\ [][Next]_vars

\* The two goroutines run; casts need not arrive.
FairSpec ==
    /\ Spec
    /\ WF_vars(LastMentions) /\ WF_vars(Deliver) /\ WF_vars(Tick) /\ WF_vars(LoopEnds)
    /\ WF_vars(Consume)

-----------------------------------------------------------------------------
\* Properties

\* The state has the shape the code gives it.
TypeOK ==
    /\ client \in {"hub", "neynar"}
    /\ arrived \in [Casts -> Nat] /\ handled \in [Casts -> Nat]
    /\ newCasts \in [Times -> Casts \cup {None}] /\ lastCast \in {0} \cup Times
    /\ loop \in {"fetching", "sending", "ended"} /\ batch \in Seq(Messages)
    /\ consumer \in [step : {"idle", "poll", "create", "reply", "mute", "muting"},
                     msg : Messages \cup {None}]
    /\ stopped \in BOOLEAN /\ panicked \in BOOLEAN /\ faults \in 0..MaxFaults

\* No cast is handled more often than it came ("ensuring no cast is missed or duplicated",
\* bot.go:30): a hub's casts once, whatever their order, and Neynar's once per call of the
\* webhook, although the loop asks over and over.
NotDuplicated == \A c \in Casts : handled[c] <= arrived[c]

\* No cast that a client offers is missed, unless another one of the same second came to
\* Neynar's queue, or the bot stops.
Offered(c) == c \in NewMentions
NotMissed ==
    \A c \in Casts :
        Offered(c) ~> \/ handled[c] > 0
                      \/ stopped
                      \/ \E d \in Casts \ {c} : d.time = c.time /\ arrived[d] > 0

\* Every election is made of a poll in the documented format (ParseString,
\* poll.go:61): a question, no fewer and no more options than allowed, each on a line of
\* its own, and a duration in range or none, whatever the text of the cast.
OptionLines(lines) == {i \in 1..Len(lines) : lines[i].is = "option"}
Documented(lines, poll) ==
    /\ poll.options \in MinOptions..MaxOptions
    /\ poll.options <= Cardinality(OptionLines(lines))
    /\ poll.duration \in (MinDuration..MaxDuration) \cup {MaxElectionDuration}
    /\ \E i \in 1..Len(lines) : lines[i].is \notin {"blank", "option"}
ElectionsDocumented ==
    \A e \in elections : e.cast \in Casts /\ Documented(e.cast.lines, e.poll)

-----------------------------------------------------------------------------
(* Why these hold.                                                         *)

InBatch(c) == {i \in 1..Len(batch) : batch[i].cast = c}
InQueue(c) == {t \in Times : newCasts[t] = c}

\* A cast is in the batch once, and in the queue at its time.
InPlace ==
    /\ loop = "fetching" => batch = <<>>
    /\ \A i, j \in 1..Len(batch) : batch[i].cast = batch[j].cast => i = j
    /\ \A t \in Times : newCasts[t] # None => newCasts[t].time = t

\* Each time a cast came it is queued, to be sent, or handled, at most.
Accounted ==
    \A c \in Casts :
        handled[c] + (IF InBatch(c) = {} THEN 0 ELSE 1) + (IF InQueue(c) = {} THEN 0 ELSE 1)
            <= arrived[c]

\* The hub is asked for what is newer than all that was sent or is to be.
HubOnce ==
    client = "hub" =>
        /\ \A c \in Casts :
              /\ arrived[c] <= 1 /\ InQueue(c) = {}
              /\ handled[c] > 0 \/ InBatch(c) # {} => c.time <= lastCast

\* A message has the text of its cast or none, and a poll is made of one that parses.
Read ==
    /\ \A i \in 1..Len(batch) : batch[i].lines \in {batch[i].cast.lines, <<>>}
    /\ consumer.step = "idle" <=> consumer.msg = None
    /\ consumer.msg # None => consumer.msg.lines \in {consumer.msg.cast.lines, <<>>}
    /\ consumer.step = "create" => ParseString(consumer.msg.lines) # None

BotInvariant ==
    /\ TypeOK /\ InPlace /\ Accounted /\ HubOnce /\ Read /\ ElectionsDocumented
=============================================================================
