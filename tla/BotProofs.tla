----------------------------- MODULE BotProofs -----------------------------
(* Proofs of what Bot promises: of the parser, for every text; of the loop,  *)
(* for any casts, calls of the webhook and failures.                         *)
EXTENDS Bot, FiniteSetTheorems, SequenceTheorems, WellFoundedInduction, TLAPS

-----------------------------------------------------------------------------
(* Induction, over a set of numbers.                                       *)

\* A set of numbers that is not empty has a least one.
LEMMA Least == ASSUME NEW T, T \subseteq Nat, T # {} PROVE \E n \in T : \A m \in T : n <= m
<1>1. PICK n \in T : \A m \in T : ~(<<m, n>> \in OpToRel(<, Nat))
    BY NatLessThanWellFounded, WFMin, Zenon
<1>2. \A m \in T : ~(m < n)
    BY <1>1 DEF OpToRel
<1> QED
    BY <1>2

\* A set that has zero, and with a number the next, has all.
LEMMA Induction ==
    ASSUME NEW S, 0 \in S, \A n \in Nat : n \in S => n + 1 \in S
    PROVE  \A n \in Nat : n \in S
<1> SUFFICES ASSUME Nat \ S # {} PROVE FALSE
    OBVIOUS
<1>1. PICK n \in Nat \ S : \A m \in Nat \ S : n <= m
    BY Least
<1>2. n - 1 \in Nat /\ ~(n <= n - 1) /\ (n - 1) + 1 = n
    BY <1>1
<1>3. n - 1 \in S
    BY <1>1, <1>2
<1> QED
    BY <1>1, <1>2, <1>3

-----------------------------------------------------------------------------
(* The parser.                                                             *)

\* The parser is at each line where the line before took it.
IsParsed(lines, n, f) ==
    f = [i \in 0..n |-> IF i = 0 THEN Start ELSE Line(f[i - 1], lines[i])]

\* It gets as far as the text goes.
LEMMA ParserRuns ==
    ASSUME NEW lines \in Seq(Lines)
    PROVE  IsParsed(lines, Len(lines), Parsed(lines))
<1>1. ASSUME NEW n \in Nat PROVE \E f : IsParsed(lines, n, f)
  <2> DEFINE S == {m \in Nat : \E f : IsParsed(lines, m, f)}
  <2>1. 0 \in S
    <3> DEFINE f == [i \in 0..0 |-> Start]
    <3>1. f = [i \in 0..0 |-> IF i = 0 THEN Start ELSE Line(f[i - 1], lines[i])]
        OBVIOUS
    <3> QED
        BY <3>1 DEF IsParsed
  <2>2. ASSUME NEW m \in Nat, m \in S PROVE m + 1 \in S
    <3>1. PICK f : f = [i \in 0..m |-> IF i = 0 THEN Start ELSE Line(f[i - 1], lines[i])]
        BY <2>2 DEF IsParsed
    <3> DEFINE g == [i \in 0..(m + 1) |-> IF i = m + 1 THEN Line(f[m], lines[i]) ELSE f[i]]
    <3>2. g = [i \in 0..(m + 1) |-> IF i = 0 THEN Start ELSE Line(g[i - 1], lines[i])]
      <4>1. ASSUME NEW i \in 0..(m + 1)
            PROVE  g[i] = IF i = 0 THEN Start ELSE Line(g[i - 1], lines[i])
        <5>1. CASE i = m + 1
            BY <5>1
        <5>2. CASE i = 0
            BY <3>1, <5>2
        <5>3. CASE i # 0 /\ i # m + 1
          <6>1. i \in 0..m /\ i - 1 \in 0..m /\ i - 1 \in 0..(m + 1) /\ i - 1 # m + 1
            BY <5>3
          <6>2. g[i] = f[i] /\ g[i - 1] = f[i - 1]
            BY <5>3, <6>1
          <6> QED
            BY <3>1, <5>3, <6>1, <6>2
        <5> QED
            BY <5>1, <5>2, <5>3
      <4> QED
        BY <4>1
    <3> HIDE DEF g
    <3>3. IsParsed(lines, m + 1, g)
        BY <3>2 DEF IsParsed
    <3> QED
        BY <3>3
  <2> HIDE DEF S
  <2>3. n \in S
    BY <2>1, <2>2, Induction
  <2> QED
    BY <2>3 DEF S
<1>2. \E f : IsParsed(lines, Len(lines), f)
    BY <1>1
<1> QED
    BY <1>2 DEF IsParsed, Parsed

\* What the parser knows after a number of lines.
ParserState ==
    [question : BOOLEAN, options : Nat, over : BOOLEAN, error : BOOLEAN, duration : Nat]
OptionsIn(lines, n) == {i \in 1..n : lines[i].is = "option"}
Knows(lines, n, state) ==
    /\ state \in ParserState
    /\ state.options <= MaxOptions /\ state.options <= Cardinality(OptionsIn(lines, n))
    /\ state.duration \in (MinDuration..MaxDuration) \cup {MaxElectionDuration}
    /\ state.question => \E i \in 1..n : lines[i].is \notin {"blank", "option"}

\* The options are counted as the text goes on.
LEMMA OptionsGrow ==
    ASSUME NEW lines \in Seq(Lines), NEW n \in Nat
    PROVE  /\ Cardinality(OptionsIn(lines, n)) \in Nat
           /\ Cardinality(OptionsIn(lines, n + 1)) =
                Cardinality(OptionsIn(lines, n)) + (IF lines[n + 1].is = "option" THEN 1 ELSE 0)
<1>1. IsFiniteSet(OptionsIn(lines, n)) /\ Cardinality(OptionsIn(lines, n)) \in Nat
  <2>1. IsFiniteSet(1..n)
    BY FS_Interval
  <2>2. OptionsIn(lines, n) \subseteq 1..n
    BY DEF OptionsIn
  <2> QED
    BY <2>1, <2>2, FS_Subset, FS_CardinalityType
<1>2. CASE lines[n + 1].is = "option"
  <2>1. OptionsIn(lines, n + 1) = OptionsIn(lines, n) \cup {n + 1}
    BY <1>2 DEF OptionsIn
  <2>2. n + 1 \notin OptionsIn(lines, n)
    BY DEF OptionsIn
  <2>3. Cardinality(OptionsIn(lines, n) \cup {n + 1}) = Cardinality(OptionsIn(lines, n)) + 1
    BY <1>1, <2>2, FS_AddElement
  <2> QED
    BY <1>1, <1>2, <2>1, <2>3
<1>3. CASE lines[n + 1].is # "option"
  <2>1. OptionsIn(lines, n + 1) = OptionsIn(lines, n)
    BY <1>3 DEF OptionsIn
  <2> QED
    BY <1>1, <1>3, <2>1
<1> QED
    BY <1>2, <1>3

\* A line adds to what the parser knows no more than it says.
LEMMA LineKnows ==
    ASSUME NEW lines \in Seq(Lines), NEW n \in Nat, n + 1 \in 1..Len(lines), NEW state,
           Knows(lines, n, state)
    PROVE  Knows(lines, n + 1, Line(state, lines[n + 1]))
<1> DEFINE line == lines[n + 1]
           new == Line(state, line)
<1>1. line \in Lines
    OBVIOUS
<1>2. state \in ParserState
    BY DEF Knows
<1>3. /\ MinOptions \in Nat /\ MaxOptions \in Nat /\ MinDuration \in Nat /\ MaxDuration \in Nat
    BY BotAssumption
<1>4. /\ Cardinality(OptionsIn(lines, n)) \in Nat
      /\ Cardinality(OptionsIn(lines, n + 1)) =
            Cardinality(OptionsIn(lines, n)) + (IF line.is = "option" THEN 1 ELSE 0)
    BY OptionsGrow
<1>5. \A i \in 1..n : i \in 1..(n + 1)
    OBVIOUS
<1>6. n + 1 \in 1..(n + 1)
    OBVIOUS
<1> HIDE DEF line
<1>7. ASSUME NEW s \in ParserState, s.duration = state.duration, s.question = state.question,
             \/ s.options = state.options
             \/ line.is = "option" /\ s.options = state.options + 1 /\ state.options < MaxOptions
      PROVE  Knows(lines, n + 1, s)
    BY <1>2, <1>3, <1>4, <1>5, <1>7 DEF Knows, ParserState
<1>8. CASE state.over \/ line.is = "blank"
  <2>1. new = state
    BY <1>8 DEF Line
  <2> QED
    BY <1>2, <1>7, <2>1 DEF line
<1>9. CASE ~(state.over \/ line.is = "blank") /\ line.is = "option"
  <2>1. CASE state.options >= MaxOptions
    <3>1. new = [state EXCEPT !.over = TRUE, !.error = TRUE]
        BY <1>9, <2>1 DEF Line
    <3>2. new \in ParserState /\ new.duration = state.duration /\ new.question = state.question
          /\ new.options = state.options
        BY <1>2, <3>1 DEF ParserState
    <3> QED
        BY <3>2, <1>7 DEF line
  <2>2. CASE ~(state.options >= MaxOptions)
    <3>1. new = [state EXCEPT !.options = @ + 1]
        BY <1>9, <2>2 DEF Line
    <3>2. new \in ParserState /\ new.duration = state.duration /\ new.question = state.question
          /\ new.options = state.options + 1 /\ state.options < MaxOptions
        BY <1>2, <1>3, <2>2, <3>1 DEF ParserState
    <3> QED
        BY <1>9, <3>2, <1>7 DEF line
  <2> QED
    BY <2>1, <2>2
<1>10. CASE ~(state.over \/ line.is = "blank") /\ line.is # "option" /\ state.options = 0
  <2>1. new = [state EXCEPT !.question = TRUE]
    BY <1>10 DEF Line
  <2>2. new \in ParserState /\ new.duration = state.duration /\ new.options = state.options
    BY <1>2, <2>1 DEF ParserState
  <2>3. lines[n + 1].is \notin {"blank", "option"}
    BY <1>10 DEF line
  <2>4. \E i \in 1..(n + 1) : lines[i].is \notin {"blank", "option"}
    BY <1>6, <2>3
  <2> HIDE DEF new
  <2>5. Knows(lines, n + 1, new)
    BY <1>2, <1>3, <1>4, <2>2, <2>4 DEF Knows, ParserState
  <2> QED
    BY <2>5 DEF new, line
<1>11. CASE ~(state.over \/ line.is = "blank") /\ line.is # "option" /\ state.options # 0
  <2>1. CASE IsHours(line) /\ line.hours >= MinDuration /\ line.hours <= MaxDuration
    <3>1. new = [state EXCEPT !.over = TRUE, !.duration = line.hours]
        BY <1>11, <2>1 DEF Line
    <3>2. line.hours \in Nat
        BY <1>1, <2>1 DEF Lines, IsHours
    <3>3. /\ new \in ParserState /\ new.question = state.question /\ new.options = state.options
          /\ new.duration = line.hours
        BY <1>2, <3>1, <3>2 DEF ParserState
    <3> HIDE DEF new
    <3>4. Knows(lines, n + 1, new)
        BY <1>2, <1>3, <1>4, <1>5, <2>1, <3>2, <3>3 DEF Knows, ParserState
    <3> QED
        BY <3>4 DEF new, line
  <2>2. CASE ~(IsHours(line) /\ line.hours >= MinDuration /\ line.hours <= MaxDuration)
    <3>1. new = [state EXCEPT !.over = TRUE, !.error = TRUE]
        BY <1>11, <2>2 DEF Line
    <3>2. new \in ParserState /\ new.duration = state.duration /\ new.question = state.question
          /\ new.options = state.options
        BY <1>2, <3>1 DEF ParserState
    <3> QED
        BY <3>2, <1>7 DEF line
  <2> QED
    BY <2>1, <2>2
<1> QED
    BY <1>8, <1>9, <1>10, <1>11

\* ParseString, poll.go:61: what it makes of any text is a poll in the documented format,
\* and it makes none of an empty text.
LEMMA ParsedIsDocumented ==
    ASSUME NEW lines \in Seq(Lines), ParseString(lines) # None
    PROVE  Documented(lines, ParseString(lines)) /\ lines # <<>>
<1> DEFINE after == Parsed(lines)
           end == after[Len(lines)]
<1>1. Len(lines) \in Nat
    OBVIOUS
<1>2. after = [i \in 0..Len(lines) |-> IF i = 0 THEN Start ELSE Line(after[i - 1], lines[i])]
    BY ParserRuns DEF IsParsed
<1> HIDE DEF after
<1>3. ASSUME NEW n \in Nat PROVE n <= Len(lines) => Knows(lines, n, after[n])
  <2> DEFINE S == {m \in Nat : m <= Len(lines) => Knows(lines, m, after[m])}
  <2>1. 0 \in S
    <3>1. after[0] = Start
        BY <1>1, <1>2
    <3>2. OptionsIn(lines, 0) = {} /\ Cardinality(OptionsIn(lines, 0)) = 0
        BY FS_EmptySet DEF OptionsIn
    <3>3. Knows(lines, 0, Start)
        BY <3>2, BotAssumption DEF Knows, ParserState, Start
    <3> QED
        BY <3>1, <3>3
  <2>2. ASSUME NEW m \in Nat, m \in S PROVE m + 1 \in S
    <3>1. ASSUME m + 1 <= Len(lines) PROVE Knows(lines, m + 1, after[m + 1])
      <4>1. Knows(lines, m, after[m]) /\ m + 1 \in 1..Len(lines) /\ m + 1 \in 0..Len(lines)
        BY <1>1, <2>2, <3>1
      <4>2. after[m + 1] = Line(after[m], lines[m + 1])
        BY <1>2, <4>1
      <4> QED
        BY <4>1, <4>2, LineKnows
    <3> QED
        BY <3>1
  <2> HIDE DEF S
  <2>3. n \in S
    BY <2>1, <2>2, Induction
  <2> QED
    BY <2>3 DEF S
<1>4. Knows(lines, Len(lines), end)
    BY <1>1, <1>3
<1>5. /\ end.question /\ ~(end.options < MinOptions)
      /\ ParseString(lines) = [options |-> end.options, duration |-> end.duration]
    BY DEF ParseString, after
<1> HIDE DEF end
<1>6. end.options \in Nat /\ end.options \in MinOptions..MaxOptions
    BY <1>4, <1>5, BotAssumption DEF Knows, ParserState
<1>7. /\ ParseString(lines).options = end.options
      /\ ParseString(lines).duration = end.duration
    BY <1>5
<1>8. Documented(lines, ParseString(lines))
    BY <1>4, <1>5, <1>6, <1>7 DEF Documented, Knows, OptionLines, OptionsIn
<1> QED
    BY <1>1, <1>8 DEF Documented

-----------------------------------------------------------------------------
(* The parts of the invariant.                                             *)

\* The casts the clients have are casts, and a message is of one of them.
LEMMA Offers ==
    ASSUME TypeOK
    PROVE  /\ NewMentions \subseteq Casts
           /\ \A c \in Casts : FromHub(c) \in Messages /\ FromHubEmpty(c) \in Messages
                               /\ ParseCastData(c) \in Messages
           /\ \A c \in Casts : /\ FromHub(c).cast = c /\ FromHub(c).lines = c.lines
                               /\ FromHubEmpty(c).cast = c /\ FromHubEmpty(c).lines = <<>>
                               /\ ParseCastData(c).cast = c /\ ParseCastData(c).lines = c.lines
<1>1. NewMentions \subseteq Casts
    BY DEF TypeOK, NewMentions
<1>2. \A c \in Casts : FromHub(c) \in Messages /\ FromHubEmpty(c) \in Messages
                       /\ ParseCastData(c) \in Messages
    BY BotAssumption DEF FromHub, FromHubEmpty, ParseCastData, Message, Messages
<1> QED
    BY <1>1, <1>2 DEF FromHub, FromHubEmpty, ParseCastData, Message

\* A batch is of the casts the client had, each once and with its text or none.
LEMMA Fetches ==
    ASSUME TypeOK, LastMentions
    PROVE  /\ batch' \in Seq(Messages)
           /\ \A i, j \in 1..Len(batch') : batch'[i].cast = batch'[j].cast => i = j
           /\ \A i \in 1..Len(batch') :
                 /\ batch'[i].cast \in NewMentions
                 /\ batch'[i].lines \in {batch'[i].cast.lines, <<>>}
<1>1. PICK order \in SetToSeqs(NewMentions) :
         \/ batch' = [i \in DOMAIN order |-> FromHub(order[i])]
         \/ batch' = [i \in DOMAIN order |->
                        IF i = 1 THEN FromHubEmpty(order[i]) ELSE FromHub(order[i])]
         \/ batch' = [i \in DOMAIN order |-> ParseCastData(order[i])]
    BY DEF LastMentions
<1> DEFINE n == Cardinality(NewMentions)
<1>2. /\ order \in [1..n -> NewMentions]
      /\ \A i, j \in 1..n : i # j => order[i] # order[j]
    BY DEF SetToSeqs
<1>3. DOMAIN order = 1..n
    BY <1>2
<1>6. n \in Nat
    BY BotAssumption, Offers, FS_Subset, FS_CardinalityType
<1> HIDE DEF n
<1>4. \A i \in 1..n : order[i] \in NewMentions /\ order[i] \in Casts
    BY <1>2, Offers
<1>5. ASSUME NEW i \in 1..n
      PROVE  /\ batch'[i] \in Messages /\ batch'[i].cast = order[i]
             /\ batch'[i].lines \in {order[i].lines, <<>>}
  <2>1. batch'[i] \in {FromHub(order[i]), FromHubEmpty(order[i]), ParseCastData(order[i])}
    BY <1>1, <1>3
  <2> QED
    BY <1>4, <2>1, Offers
<1>7. batch' = [i \in 1..n |-> batch'[i]]
    BY <1>1, <1>3
<1>8. batch' \in Seq(Messages) /\ Len(batch') = n
    BY <1>5, <1>6, <1>7
<1> QED
    BY <1>2, <1>4, <1>5, <1>8

\* The loop's message is the first of the batch, and the rest keeps its order.
LEMMA Delivers ==
    ASSUME TypeOK, batch # <<>>
    PROVE  /\ Head(batch) \in Messages /\ Head(batch) = batch[1] /\ 1 \in 1..Len(batch)
           /\ Tail(batch) \in Seq(Messages)
           /\ \A i \in 1..Len(Tail(batch)) :
                 i + 1 \in 1..Len(batch) /\ Tail(batch)[i] = batch[i + 1]
           /\ \A i \in 1..Len(batch) : i # 1 => i - 1 \in 1..Len(Tail(batch))
BY HeadTailProperties DEF TypeOK

\* Every step keeps the types.
LEMMA TypeStep == TypeOK /\ [Next]_vars => TypeOK'
<1> SUFFICES ASSUME TypeOK, [Next]_vars PROVE TypeOK'
    OBVIOUS
<1>a. UNCHANGED faults \/ Fault => faults' \in 0..MaxFaults
    BY BotAssumption DEF TypeOK, Fault
<1>b. /\ consumer \in [step : {"idle", "poll", "create", "reply", "mute", "muting"},
                       msg : Messages \cup {None}]
      /\ arrived \in [Casts -> Nat] /\ handled \in [Casts -> Nat]
    BY DEF TypeOK
<1>1. ASSUME NEW c \in Casts, Published(c) PROVE TypeOK'
    BY <1>1 DEF Published, TypeOK, outcome
<1>2. ASSUME NEW c \in Casts, WebhookHandler(c) PROVE TypeOK'
  <2>1. arrived' \in [Casts -> Nat]
    BY <1>2, <1>b DEF WebhookHandler
  <2>2. newCasts' \in [Times -> Casts \cup {None}]
    BY <1>2 DEF WebhookHandler, TypeOK
  <2> QED
    BY <1>2, <2>1, <2>2 DEF WebhookHandler, TypeOK, outcome
<1>3. CASE LastMentions
  <2>1. batch' \in Seq(Messages)
    BY <1>3, Fetches
  <2>2. lastCast' \in {0} \cup Times
    BY <1>3, Offers DEF LastMentions, LastTimes, Times, TypeOK
  <2>3. newCasts' \in [Times -> Casts \cup {None}]
    BY <1>3 DEF LastMentions
  <2>4. UNCHANGED faults \/ Fault
    BY <1>3 DEF LastMentions
  <2> QED
    BY <1>3, <1>a, <2>1, <2>2, <2>3, <2>4 DEF LastMentions, TypeOK, outcome
<1>4. CASE Deliver
  <2>1. Head(batch) \in Messages /\ Tail(batch) \in Seq(Messages) /\ Head(batch).cast \in Casts
    BY <1>4, Delivers DEF Deliver, Messages
  <2>2. handled' \in [Casts -> Nat]
    BY <1>4, <1>b, <2>1 DEF Deliver
  <2>3. consumer' \in [step : {"idle", "poll", "create", "reply", "mute", "muting"},
                       msg : Messages \cup {None}]
    BY <1>4, <2>1 DEF Deliver
  <2> QED
    BY <1>4, <2>1, <2>2, <2>3 DEF Deliver, TypeOK, service, outcome
<1>5. CASE Tick \/ Stop \/ LoopEnds
    BY <1>5 DEF Tick, Stop, LoopEnds, TypeOK, service, outcome
<1>6. CASE Consume
  <2>1. Done \/ \E step \in {"create", "mute", "reply", "muting"} : Continue(step)
    BY <1>6 DEF Consume, PollMessageHandler, CreateElection, ReplyWithPollURL,
       MuteRequestHandler, MutePollCreator
  <2>2. consumer' \in [step : {"idle", "poll", "create", "reply", "mute", "muting"},
                       msg : Messages \cup {None}]
    BY <1>b, <2>1 DEF Done, Continue
  <2>3. UNCHANGED faults \/ Fault
    BY <1>6 DEF Consume, PollMessageHandler, CreateElection, ReplyWithPollURL,
       MuteRequestHandler, MutePollCreator
  <2>4. UNCHANGED <<service, lastCast, loop, batch, handled, stopped, panicked>>
    BY <1>6 DEF Consume, PollMessageHandler, CreateElection, ReplyWithPollURL,
       MuteRequestHandler, MutePollCreator
  <2> QED
    BY <1>a, <2>2, <2>3, <2>4 DEF TypeOK, service
<1>7. CASE UNCHANGED vars
    BY <1>7 DEF vars, TypeOK
<1> QED
    BY <1>1, <1>2, <1>3, <1>4, <1>5, <1>6, <1>7 DEF Next

\* What the consumer does leaves the casts where they are.
LEMMA ConsumerStays ==
    ASSUME Consume \/ Stop
    PROVE  UNCHANGED <<client, arrived, newCasts, lastCast, loop, batch, handled>>
BY DEF Consume, PollMessageHandler, CreateElection, ReplyWithPollURL, MuteRequestHandler,
   MutePollCreator, Stop, service

\* Batches and queues keep their order.
LEMMA InPlaceStep == TypeOK /\ InPlace /\ [Next]_vars => InPlace'
<1> SUFFICES ASSUME TypeOK, InPlace, [Next]_vars PROVE InPlace'
    OBVIOUS
<1>a. newCasts \in [Times -> Casts \cup {None}]
    BY DEF TypeOK
<1>1. ASSUME NEW c \in Casts, Published(c) PROVE InPlace'
    BY <1>1 DEF Published, InPlace
<1>2. ASSUME NEW c \in Casts, WebhookHandler(c) PROVE InPlace'
  <2>1. /\ UNCHANGED <<loop, batch>>
        /\ \A t \in Times : newCasts'[t] = newCasts[t] \/ (newCasts'[t] = c /\ t = c.time)
    BY <1>a, <1>2 DEF WebhookHandler
  <2> QED
    BY <2>1 DEF InPlace
<1>3. CASE LastMentions
  <2>1. loop' = "sending" /\ \A t \in Times : newCasts'[t] = None
    BY <1>3 DEF LastMentions
  <2> QED
    BY <1>3, <2>1, Fetches DEF InPlace
<1>4. CASE Deliver
  <2>1. batch # <<>> /\ batch' = Tail(batch) /\ loop' = "sending" /\ newCasts' = newCasts
    BY <1>4 DEF Deliver, service
  <2>2. ASSUME NEW i \in 1..Len(batch'), NEW j \in 1..Len(batch'), batch'[i].cast = batch'[j].cast
        PROVE  i = j
    <3>1. /\ i + 1 \in 1..Len(batch) /\ j + 1 \in 1..Len(batch)
          /\ batch[i + 1].cast = batch[j + 1].cast
        BY <2>1, <2>2, Delivers
    <3>2. i + 1 = j + 1
        BY <3>1 DEF InPlace
    <3> QED
        BY <3>2
  <2> QED
    BY <2>1, <2>2 DEF InPlace
<1>5. CASE Tick \/ LoopEnds
    BY <1>5 DEF Tick, LoopEnds, service, InPlace
<1>6. CASE Consume \/ Stop
    BY <1>6, ConsumerStays DEF InPlace
<1>7. CASE UNCHANGED vars
    BY <1>7 DEF vars, InPlace
<1> QED
    BY <1>1, <1>2, <1>3, <1>4, <1>5, <1>6, <1>7 DEF Next

\* A cast goes from the queue to the batch and from there to the consumer, once for each
\* time it came; the hub's casts come once, because it is asked for newer ones only.
LEMMA AccountedStep ==
    TypeOK /\ InPlace /\ Accounted /\ HubOnce /\ [Next]_vars => Accounted' /\ HubOnce'
<1> SUFFICES ASSUME TypeOK, InPlace, Accounted, HubOnce, [Next]_vars
             PROVE  Accounted' /\ HubOnce'
    OBVIOUS
<1>a. /\ newCasts \in [Times -> Casts \cup {None}] /\ lastCast \in Nat /\ client' = client
      /\ arrived \in [Casts -> Nat] /\ handled \in [Casts -> Nat] /\ batch \in Seq(Messages)
  <2>1. lastCast \in Nat
    BY BotAssumption DEF TypeOK, Times
  <2>2. client' = client
    BY ConsumerStays
    DEF Next, vars, Published, WebhookHandler, LastMentions, Deliver, Tick, LoopEnds, service
  <2> QED
    BY <2>1, <2>2 DEF TypeOK
<1>b. \A c \in Casts :
         arrived[c] \in Nat /\ handled[c] \in Nat /\ c.time \in Nat /\ c.time \in Times
    BY <1>a, BotAssumption DEF Times
<1>c. ASSUME UNCHANGED <<batch, newCasts, handled, lastCast>>,
             \A c \in Casts : arrived[c] <= arrived'[c] /\ arrived'[c] \in Nat,
             client = "hub" => \A c \in Casts : arrived'[c] <= 1
      PROVE  Accounted' /\ HubOnce'
  <2>1. \A c \in Casts : InBatch(c)' = InBatch(c) /\ InQueue(c)' = InQueue(c)
    BY <1>c DEF InBatch, InQueue
  <2>2. HubOnce'
    BY <1>a, <1>c, <2>1 DEF HubOnce
  <2>3. ASSUME NEW c \in Casts
        PROVE  handled'[c] + (IF InBatch(c)' = {} THEN 0 ELSE 1)
                 + (IF InQueue(c)' = {} THEN 0 ELSE 1) <= arrived'[c]
    BY <1>b, <1>c, <2>1 DEF Accounted
  <2> QED
    BY <2>2, <2>3 DEF Accounted
<1>1. ASSUME NEW c \in Casts, Published(c) PROVE Accounted' /\ HubOnce'
  <2>1. \A d \in Casts : arrived'[d] = IF d = c THEN 1 ELSE arrived[d]
    BY <1>1, <1>a DEF Published
  <2>2. arrived[c] = 0 /\ client = "hub" /\ UNCHANGED <<batch, newCasts, handled, lastCast>>
    BY <1>1 DEF Published
  <2>3. \A d \in Casts : arrived[d] <= 1
    BY <2>2 DEF HubOnce
  <2> QED
    BY <1>b, <1>c, <2>1, <2>2, <2>3
<1>2. ASSUME NEW c \in Casts, WebhookHandler(c) PROVE Accounted' /\ HubOnce'
  <2>1. \A d \in Casts : arrived'[d] = IF d = c THEN arrived[c] + 1 ELSE arrived[d]
    BY <1>2, <1>a DEF WebhookHandler
  <2>2. client = "neynar" /\ UNCHANGED <<batch, handled>>
    BY <1>2 DEF WebhookHandler
  <2>3. \A d \in Casts \ {c} : InQueue(d)' \subseteq InQueue(d)
    <3>1. \A t \in Times : newCasts'[t] = newCasts[t] \/ newCasts'[t] = c
        BY <1>2, <1>a DEF WebhookHandler
    <3> QED
        BY <3>1 DEF InQueue
  <2>4. \A d \in Casts : InBatch(d)' = InBatch(d)
    BY <2>2 DEF InBatch
  <2>5. ASSUME NEW d \in Casts
        PROVE  handled'[d] + (IF InBatch(d)' = {} THEN 0 ELSE 1)
                 + (IF InQueue(d)' = {} THEN 0 ELSE 1) <= arrived'[d]
    <3>1. handled[d] + (IF InBatch(d) = {} THEN 0 ELSE 1) + (IF InQueue(d) = {} THEN 0 ELSE 1)
             <= arrived[d]
        BY DEF Accounted
    <3>2. CASE d = c
        BY <1>b, <2>1, <2>2, <2>4, <3>1, <3>2
    <3>3. CASE d # c
        BY <1>b, <2>1, <2>2, <2>3, <2>4, <3>1, <3>3
    <3> QED
        BY <3>2, <3>3
  <2> QED
    BY <1>a, <2>2, <2>5 DEF Accounted, HubOnce
<1>3. CASE LastMentions
  <2>1. batch = <<>> /\ UNCHANGED <<arrived, handled>> /\ \A t \in Times : newCasts'[t] = None
    BY <1>3 DEF LastMentions, InPlace
  <2>2. \A c \in Casts : InQueue(c)' = {}
    BY <2>1, BotAssumption DEF InQueue
  <2>3. \A c \in Casts : InBatch(c)' # {} => c \in NewMentions
    BY <1>3, Fetches DEF InBatch
  <2>4. \A c \in NewMentions :
           IF client = "hub" THEN arrived[c] > 0 /\ c.time > lastCast ELSE InQueue(c) # {}
    BY DEF NewMentions, InQueue
  <2>5. \A c \in NewMentions : handled[c] < arrived[c]
    <3> SUFFICES ASSUME NEW c \in NewMentions PROVE handled[c] < arrived[c]
        OBVIOUS
    <3>1. c \in Casts
        BY Offers
    <3>2. CASE client = "hub"
      <4>1. ~(handled[c] > 0)
        BY <1>a, <1>b, <2>4, <3>1, <3>2 DEF HubOnce
      <4> QED
        BY <1>b, <2>4, <3>1, <3>2, <4>1
    <3>3. CASE client # "hub"
        BY <1>b, <2>4, <3>1, <3>3 DEF Accounted
    <3> QED
        BY <3>2, <3>3
  <2>6. ASSUME NEW c \in Casts
        PROVE  handled'[c] + (IF InBatch(c)' = {} THEN 0 ELSE 1)
                 + (IF InQueue(c)' = {} THEN 0 ELSE 1) <= arrived'[c]
    <3>1. handled[c] <= arrived[c]
        BY <1>b DEF Accounted
    <3> QED
        BY <1>b, <2>1, <2>2, <2>3, <2>5, <3>1
  <2>7. ASSUME client = "hub"
        PROVE  /\ lastCast' \in Nat /\ lastCast <= lastCast'
               /\ \A c \in NewMentions : c.time <= lastCast'
    <3>1. CASE NewMentions = {}
        BY <1>3, <1>a, <3>1 DEF LastMentions, LastTimes
    <3>2. CASE NewMentions # {}
      <4>1. lastCast' \in {c.time : c \in NewMentions}
            /\ \A t \in {c.time : c \in NewMentions} : t <= lastCast'
        BY <1>3, <2>7, <3>2 DEF LastMentions, LastTimes
      <4>2. PICK c \in NewMentions : lastCast' = c.time
        BY <4>1
      <4>3. c.time > lastCast /\ c.time \in Nat
        BY <1>b, <2>4, <2>7, Offers
      <4> QED
        BY <1>a, <4>1, <4>2, <4>3
    <3> QED
        BY <3>1, <3>2
  <2>8. HubOnce'
    <3> SUFFICES ASSUME client = "hub", NEW c \in Casts
                 PROVE  /\ arrived'[c] <= 1 /\ InQueue(c)' = {}
                        /\ handled'[c] > 0 \/ InBatch(c)' # {} => c.time <= lastCast'
        BY <1>a DEF HubOnce
    <3>1. arrived[c] <= 1 /\ (handled[c] > 0 => c.time <= lastCast)
        BY DEF HubOnce
    <3> QED
        BY <1>a, <1>b, <2>1, <2>2, <2>3, <2>7, <3>1
  <2> QED
    BY <2>6, <2>8 DEF Accounted
<1>4. CASE Deliver
  <2>0. Head(batch).cast \in Casts /\ Head(batch) = batch[1] /\ 1 \in 1..Len(batch)
    BY <1>4, Delivers DEF Deliver, Messages
  <2> PICK h \in Casts : h = Head(batch).cast
    BY <2>0
  <2>1. /\ batch # <<>> /\ batch' = Tail(batch) /\ UNCHANGED <<arrived, newCasts, lastCast>>
        /\ handled' = [handled EXCEPT ![h] = @ + 1]
    BY <1>4 DEF Deliver, service
  <2>2. h \in Casts /\ h = batch[1].cast /\ 1 \in 1..Len(batch)
    BY <2>0
  <2>3. InBatch(h) # {}
    BY <2>2 DEF InBatch
  <2>4. InBatch(h)' = {}
    <3> SUFFICES ASSUME NEW i \in 1..Len(batch'), batch'[i].cast = h PROVE FALSE
        BY DEF InBatch
    <3>1. i + 1 \in 1..Len(batch) /\ batch[i + 1].cast = batch[1].cast
        BY <2>1, <2>2, Delivers
    <3>2. i + 1 = 1
        BY <2>2, <3>1 DEF InPlace
    <3> QED
        BY <3>1, <3>2
  <2>5. \A c \in Casts : InBatch(c) = {} => InBatch(c)' = {}
    <3>1. ASSUME NEW c \in Casts, NEW i \in InBatch(c)' PROVE i + 1 \in InBatch(c)
      <4>1. i \in 1..Len(batch') /\ batch'[i].cast = c
        BY <3>1 DEF InBatch
      <4>2. i + 1 \in 1..Len(batch) /\ batch[i + 1].cast = c
        BY <2>1, <4>1, Delivers
      <4> QED
        BY <4>2 DEF InBatch
    <3> QED
        BY <3>1
  <2>6. \A c \in Casts : InQueue(c)' = InQueue(c)
    BY <2>1 DEF InQueue
  <2>7. \A c \in Casts : handled'[c] = IF c = h THEN handled[c] + 1 ELSE handled[c]
    BY <1>a, <2>1, <2>2
  <2>8. ASSUME NEW c \in Casts
        PROVE  handled'[c] + (IF InBatch(c)' = {} THEN 0 ELSE 1)
                 + (IF InQueue(c)' = {} THEN 0 ELSE 1) <= arrived'[c]
    <3>1. handled[c] + (IF InBatch(c) = {} THEN 0 ELSE 1) + (IF InQueue(c) = {} THEN 0 ELSE 1)
             <= arrived[c]
        BY DEF Accounted
    <3> QED
        BY <1>b, <2>1, <2>3, <2>4, <2>5, <2>6, <2>7, <3>1
  <2>9. HubOnce'
    <3> SUFFICES ASSUME client = "hub", NEW c \in Casts
                 PROVE  /\ arrived'[c] <= 1 /\ InQueue(c)' = {}
                        /\ handled'[c] > 0 \/ InBatch(c)' # {} => c.time <= lastCast'
        BY <1>a DEF HubOnce
    <3>1. /\ arrived[c] <= 1 /\ InQueue(c) = {}
          /\ handled[c] > 0 \/ InBatch(c) # {} => c.time <= lastCast
        BY DEF HubOnce
    <3>2. arrived'[c] <= 1 /\ InQueue(c)' = {} /\ lastCast' = lastCast
        BY <2>1, <2>6, <3>1
    <3>3. handled'[c] > 0 \/ InBatch(c)' # {} => handled[c] > 0 \/ InBatch(c) # {}
        BY <2>3, <2>5, <2>7
    <3> QED
        BY <3>1, <3>2, <3>3
  <2> QED
    BY <2>8, <2>9 DEF Accounted
<1>5. CASE Tick \/ LoopEnds \/ Consume \/ Stop
  <2>1. UNCHANGED <<batch, newCasts, handled, lastCast, arrived>>
    BY <1>5, ConsumerStays DEF Tick, LoopEnds, service
  <2> QED
    BY <1>b, <1>c, <2>1 DEF HubOnce
<1>6. CASE UNCHANGED vars
    BY <1>b, <1>c, <1>6 DEF vars, HubOnce
<1> QED
    BY <1>1, <1>2, <1>3, <1>4, <1>5, <1>6 DEF Next

\* A message keeps the text the client gave it, and a poll to create parses.
LEMMA ReadStep == TypeOK /\ Read /\ [Next]_vars => Read'
<1> SUFFICES ASSUME TypeOK, Read, [Next]_vars PROVE Read'
    OBVIOUS
<1> DEFINE TextOf(m) == m.lines \in {m.cast.lines, <<>>}
           Busy == consumer.msg # None => TextOf(consumer.msg)
           Creates == consumer.step = "create" => ParseString(consumer.msg.lines) # None
           Rests == consumer.step = "idle" <=> consumer.msg = None
           Batched == \A i \in 1..Len(batch) : TextOf(batch[i])
<1>a. /\ consumer \in [step : {"idle", "poll", "create", "reply", "mute", "muting"},
                       msg : Messages \cup {None}]
      /\ None \notin Messages
    BY BotAssumption DEF TypeOK
<1>b. Batched /\ Rests /\ Busy /\ Creates
    BY DEF Read
<1>c. Read' <=> Batched' /\ Rests' /\ Busy' /\ Creates'
    BY DEF Read
<1>1. ASSUME UNCHANGED <<batch, consumer>> PROVE Read'
    BY <1>1 DEF Read
<1>2. CASE LastMentions
  <2>1. UNCHANGED consumer
    BY <1>2 DEF LastMentions
  <2>2. Batched'
    BY <1>2, Fetches
  <2> QED
    BY <2>1, <2>2 DEF Read
<1>3. CASE Deliver
  <2>1. /\ batch # <<>> /\ batch' = Tail(batch)
        /\ consumer' = [step |-> "poll", msg |-> Head(batch)]
    BY <1>3 DEF Deliver
  <2>2. Head(batch) \in Messages /\ TextOf(Head(batch))
    BY <1>b, <2>1, Delivers
  <2>3. Batched'
    <3> SUFFICES ASSUME NEW i \in 1..Len(batch') PROVE TextOf(batch'[i])
        OBVIOUS
    <3>1. i + 1 \in 1..Len(batch) /\ batch'[i] = batch[i + 1]
        BY <2>1, Delivers
    <3> QED
        BY <1>b, <3>1
  <2>4. consumer'.step = "poll" /\ consumer'.msg = Head(batch) /\ Head(batch) # None
    BY <1>a, <2>1, <2>2
  <2>5. Rests' /\ Creates'
    BY <2>4
  <2>6. Busy'
    BY <2>2, <2>4
  <2> HIDE DEF Batched, Rests, Busy, Creates
  <2> QED
    BY <1>c, <2>3, <2>5, <2>6
<1>4. CASE Consume
  <2>1. batch' = batch /\ consumer.step # "idle"
    BY <1>4 DEF Consume, PollMessageHandler, CreateElection, ReplyWithPollURL,
       MuteRequestHandler, MutePollCreator
  <2>2. \/ Done
        \/ \E step \in {"mute", "reply", "muting"} : Continue(step)
        \/ Continue("create") /\ ParseString(consumer.msg.lines) # None
    BY <1>4 DEF Consume, PollMessageHandler, CreateElection, ReplyWithPollURL,
       MuteRequestHandler, MutePollCreator
  <2>3. CASE Done
    <3>1. consumer'.step = "idle" /\ consumer'.msg = None
        BY <2>3 DEF Done
    <3> QED
        BY <2>1, <3>1 DEF Read
  <2>4. ASSUME NEW step \in {"create", "mute", "reply", "muting"}, Continue(step),
               step = "create" => ParseString(consumer.msg.lines) # None
        PROVE  Read'
    <3>1. consumer'.step = step /\ consumer'.msg = consumer.msg
        BY <1>a, <2>4 DEF Continue
    <3> QED
        BY <2>1, <2>4, <3>1 DEF Read
  <2> QED
    BY <2>2, <2>3, <2>4
<1>5. CASE Tick \/ Stop \/ LoopEnds
    BY <1>1, <1>5 DEF Tick, Stop, LoopEnds
<1>6. ASSUME NEW c \in Casts, Published(c) \/ WebhookHandler(c) PROVE Read'
    BY <1>1, <1>6 DEF Published, WebhookHandler
<1>7. CASE UNCHANGED vars
    BY <1>1, <1>7 DEF vars
<1> QED
    BY <1>2, <1>3, <1>4, <1>5, <1>6, <1>7 DEF Next

\* An election is made of the text of its cast, which is then no empty one.
LEMMA ElectionsDocumentedStep ==
    TypeOK /\ Read /\ ElectionsDocumented /\ [Next]_vars => ElectionsDocumented'
<1> SUFFICES ASSUME TypeOK, Read, ElectionsDocumented, [Next]_vars PROVE ElectionsDocumented'
    OBVIOUS
<1>1. CASE CreateElection /\ elections' # elections
  <2> DEFINE m == consumer.msg
             e == [cast |-> m.cast, poll |-> ParseString(m.lines)]
  <2>1. consumer.step = "create" /\ elections' = elections \cup {e}
    BY <1>1 DEF CreateElection
  <2>2. m \in Messages /\ m.lines \in {m.cast.lines, <<>>} /\ ParseString(m.lines) # None
    BY <2>1 DEF Read, TypeOK
  <2>3. m.cast \in Casts
    BY <2>2 DEF Messages
  <2>4. m.cast.lines \in Seq(Lines)
    BY <2>3, BotAssumption
  <2>5. m.lines \in Seq(Lines)
    BY <2>2, <2>4, EmptySeq
  <2>6. Documented(m.lines, ParseString(m.lines)) /\ m.lines # <<>>
    BY <2>2, <2>5, ParsedIsDocumented
  <2>7. m.lines = m.cast.lines
    BY <2>2, <2>6
  <2>8. e.cast = m.cast /\ e.poll = ParseString(m.lines)
    OBVIOUS
  <2>9. e.cast \in Casts /\ Documented(e.cast.lines, e.poll)
    BY <2>3, <2>6, <2>7, <2>8
  <2> HIDE DEF e
  <2> QED
    BY <2>1, <2>9 DEF ElectionsDocumented
<1>2. CASE UNCHANGED elections
    BY <1>2 DEF ElectionsDocumented
<1>3. UNCHANGED elections \/ CreateElection
    BY DEF Next, vars, outcome, Published, WebhookHandler, LastMentions, Deliver, Tick, Stop,
       LoopEnds, Consume, PollMessageHandler, ReplyWithPollURL, MuteRequestHandler,
       MutePollCreator
<1> QED
    BY <1>1, <1>2, <1>3

-----------------------------------------------------------------------------
(* The theorems.                                                           *)

LEMMA InitInvariant == Init => BotInvariant
<1> SUFFICES ASSUME Init PROVE BotInvariant
    OBVIOUS
<1>1. /\ batch = <<>> /\ Len(batch) = 0 /\ batch \in Seq(Messages) /\ 0 \in 0..MaxFaults
      /\ elections = {} /\ consumer.step = "idle" /\ consumer.msg = None
    BY BotAssumption DEF Init
<1>2. TypeOK
  <2>1. consumer \in [step : {"idle", "poll", "create", "reply", "mute", "muting"},
                      msg : Messages \cup {None}]
    BY DEF Init
  <2> QED
    BY <1>1, <2>1 DEF Init, TypeOK
<1>3. \A c \in Casts : InBatch(c) = {}
    BY <1>1 DEF InBatch
<1>4. \A c \in Casts : InQueue(c) = {}
    BY BotAssumption DEF InQueue, Init
<1>5. \A c \in Casts : arrived[c] = 0 /\ handled[c] = 0
    BY DEF Init
<1>6. InPlace
    BY <1>1 DEF Init, InPlace
<1>7. Accounted
    BY <1>3, <1>4, <1>5 DEF Accounted
<1>8. HubOnce
    BY <1>3, <1>4, <1>5 DEF HubOnce
<1>9. Read /\ ElectionsDocumented
    BY <1>1 DEF Read, ElectionsDocumented
<1> QED
    BY <1>2, <1>6, <1>7, <1>8, <1>9 DEF BotInvariant

LEMMA StepInvariant == BotInvariant /\ [Next]_vars => BotInvariant'
BY TypeStep, InPlaceStep, AccountedStep, ReadStep, ElectionsDocumentedStep DEF BotInvariant

\* The bot keeps its invariant: Bot, votebot.go.
THEOREM BotInvariantHolds == Spec => []BotInvariant
BY InitInvariant, StepInvariant, PTL DEF Spec

\* The state of the bot has the shape the code gives it.
THEOREM BotTypeCorrect == Spec => []TypeOK
<1>1. BotInvariant => TypeOK
    BY DEF BotInvariant
<1> QED
    BY <1>1, BotInvariantHolds, PTL

\* bot.go:30: no cast is handled more often than it came.
THEOREM NotDuplicatedAlways == Spec => []NotDuplicated
<1>1. BotInvariant => NotDuplicated
  <2> SUFFICES ASSUME BotInvariant, NEW c \in Casts PROVE handled[c] <= arrived[c]
    BY DEF NotDuplicated
  <2>1. arrived[c] \in Nat /\ handled[c] \in Nat
    BY DEF BotInvariant, TypeOK
  <2>2. handled[c] + (IF InBatch(c) = {} THEN 0 ELSE 1) + (IF InQueue(c) = {} THEN 0 ELSE 1)
           <= arrived[c]
    BY DEF BotInvariant, Accounted
  <2> QED
    BY <2>1, <2>2
<1> QED
    BY <1>1, BotInvariantHolds, PTL

\* votebot.go, poll.go:61: every election is made of a poll in the documented format,
\* whatever the casts say, and in whatever order and how often they come.
THEOREM ElectionsDocumentedAlways == Spec => []ElectionsDocumented
<1>1. BotInvariant => ElectionsDocumented
    BY DEF BotInvariant
<1> QED
    BY <1>1, BotInvariantHolds, PTL
=============================================================================
