---------------------------- MODULE ClientProofs ----------------------------
(***************************************************************************)
(* Proofs about Exchange: the client of mode E and one of the exit node's   *)
(* sessions, for any number of goroutines, requests, frames and windows.    *)
(***************************************************************************)
EXTENDS Exchange, TLAPS

SP == INSTANCE ExchangeProofs WITH
  Trace <- {Id}, Stream <- {Mine}, MaxSessions <- 1, MaxSize <- MaxUp

-----------------------------------------------------------------------------
(* The inductive invariant *)

\* Who waits for an answer holds em and has none yet; between two exchanges there is
\* neither a request nor a frame of a response.
Turns ==
  /\ \A x \in Thread : cpc[x] = "doing" => ~resp /\ reply # "none"
  /\ cpc["reader"] # "idle" /\ \A x \in Writer : cpc[x] \notin {"read", "gate", "body", "got"}
  /\ resp => reply \in {"ok", "ended", "cut"}
  /\ em = None /\ ~resp => reply = "none"
  /\ ~cclosed /\ reply = "none" => body = 0
  /\ closing = "wait" => cclosed

\* The exit node serves the client's one request, and how far it is agrees with what
\* of the answer has come.
Served ==
  /\ Watched => \A h \in Handler : h # via => hpc[h] = "idle"
  /\ via = None => reply \notin {"wait", "ok"}
  /\ via # None =>
       /\ reply \in {"wait", "ok", "ended", "cut"}
       /\ hpc[via] = "idle" <=> reply \in {"ended", "cut"}
       /\ reply = "wait" => hpc[via] # "flush"
       /\ reply = "ok" => hpc[via] \in {"flush", "ending", "failed"}

\* What a request has in hand, in each of its places.
Carried == \A h \in Handler :
  /\ hpc[h] = "idle" => fed[h] = 0 /\ req[h].size = 0
  /\ hpc[h] # "idle" => at[h] = Mine
  /\ fed[h] <= req[h].size
  /\ hpc[h] = "push" => fed[h] < req[h].size
  /\ hpc[h] \in {"flush", "ending"} => fed[h] = req[h].size
  /\ hpc[h] = "failed" => life[Mine] # "open"

\* The exit waits for the window that is under way or for the next.
Spans ==
  /\ Watched => (inFlight[Mine] <=> via # None /\ hpc[via] \in Server!Holding)
  /\ Watched /\ reply # "refused" =>
       nextSpan[Mine] = IF via # None /\ hpc[via] = "begin" THEN seq ELSE seq + 1
  /\ via # None /\ hpc[via] = "begin" => req[via].span = seq

\* Only a session that is over is not in the registry.
Registered ==
  /\ trace[Mine] = Id
  /\ life[Mine] # "closed" => reg[Id] = Mine
  /\ reply = "refused" => life[Mine] = "closed"

ClientInv ==
  /\ ClientTypeOK /\ pending <= accepted
  /\ Turns /\ Served /\ Carried /\ Spans /\ Registered /\ FramesExact

-----------------------------------------------------------------------------
(* What the client's steps have in common *)

\* An exchange begins with em free and nothing of the last one left.
Starts(x) ==
  /\ em = None /\ ~resp /\ ~cclosed /\ cpc[x] \in {"force", "read", "gate"}
  /\ StartExchange(x) /\ pollEmpty' \in BOOLEAN

\* A step that moves a goroutine or em, and no frame.
Quiet ==
  /\ UNCHANGED <<serverVars, wireVars, batchVars, pushed, got>>
  /\ cclosed => cclosed'

QuietStep ==
  \/ \E x \in Thread : \/ Answered(x) \/ WriteRefused(x) \/ Park(x) \/ ForceClosed(x)
                       \/ ParkClosed(x)
  \/ ReadClosed \/ ReadGate \/ ReadMore \/ GateClosed \/ FrameDone \/ CloseStart
  \/ Poll /\ Quiet

\* Every step is one of these.
LEMMA StepCases ==
  ASSUME ClientInv, Next
  PROVE  \/ \E x \in Thread : Starts(x) \/ WriteFrame(x) \/ ExchangeFails(x)
         \/ QuietStep
         \/ ReadFrame \/ WindowDone \/ WindowBroken \/ CloseEnd
         \/ \E h \in Handler : HandlerStep(h) \/ HandlerBreaks(h)
         \/ SessionStep \/ SessionInput \/ Unregister
<1> USE DEF Thread
<1>1. ASSUME NEW x \in Writer, SenderRuns(x)
      PROVE  QuietStep \/ Starts(x)
  BY <1>1 DEF SenderRuns, QuietStep, ForceExchange, Starts, ClientInv, ClientTypeOK
<1>2. ReaderRuns => QuietStep \/ Starts("reader") \/ ReadFrame \/ WindowDone
  <2>1. Poll => Starts("reader") \/ (Poll /\ Quiet)
    <3>1. CASE ~resp /\ ~cclosed /\ StartExchange("reader") /\ Poll
      BY <3>1 DEF Poll, Starts
    <3>2. CASE UNCHANGED <<serverVars, wireVars, batchVars, closeVars, pushed, got>> /\ Poll
      BY <3>2 DEF Quiet, closeVars
    <3> QED
      BY <3>1, <3>2 DEF Poll
  <2>2. ReadStart => Starts("reader")
    BY DEF ReadStart, Starts, ClientInv, ClientTypeOK
  <2> QED
    BY <2>1, <2>2 DEF ReaderRuns, QuietStep
<1>3. EndRuns => (\E x \in Thread : ExchangeFails(x)) \/ WindowBroken \/ CloseEnd \/ Unregister
  BY DEF EndRuns, FailureSeen
<1>4. Environment =>
        \/ \E x \in Thread : WriteFrame(x) \/ ExchangeFails(x)
        \/ QuietStep \/ WindowBroken \/ SessionInput
        \/ \E h \in Handler : HandlerBreaks(h)
  BY DEF Environment, QuietStep
<1> QED
  BY <1>1, <1>2, <1>3, <1>4 DEF Next

LEMMA QuietSteps ==
  ASSUME QuietStep
  PROVE  Quiet
<1> USE DEF Quiet, batchVars, wireVars, closeVars, pollVars, Over
<1>1. ASSUME NEW x \in Thread,
             Answered(x) \/ WriteRefused(x) \/ Park(x) \/ ForceClosed(x) \/ ParkClosed(x)
      PROVE  Quiet
  BY <1>1 DEF Answered, WriteRefused, Park, ForceClosed, ParkClosed
<1>2. ReadClosed \/ ReadGate \/ ReadMore \/ GateClosed \/ FrameDone \/ CloseStart => Quiet
  BY DEF ReadClosed, ReadGate, ReadMore, GateClosed, FrameDone, CloseStart
<1> QED
  BY <1>1, <1>2 DEF QuietStep

-----------------------------------------------------------------------------
(* The exit node's steps keep its types *)

\* What ExchangeProofs shows of the exit node is about this one: its definitions and
\* those of Server are the same.
LEMMA SameTypes ==
  /\ SP!TypeOK <=> Server!TypeOK
  /\ SP!TypeOK' <=> Server!TypeOK'
BY DEF SP!TypeOK, Server!TypeOK, SP!Frame, Server!Frame, SP!Span, Server!Span,
  SP!Holding, Server!Holding, SP!Verdict, Server!Verdict

LEMMA SameRequest ==
  ASSUME NEW h \in Handler
  PROVE  /\ Server!BeginWindow(h) => SP!BeginWindow(h)
         /\ Server!RefuseWindow(h) => SP!RefuseWindow(h)
         /\ Server!DrainFrame(h) => SP!DrainFrame(h)
         /\ Server!DrainPush(h) => SP!DrainPush(h)
         /\ Server!DrainClosed(h) => SP!DrainClosed(h)
         /\ Server!DrainEnd(h) => SP!DrainEnd(h)
         /\ Server!FlushFrame(h) => SP!FlushFrame(h)
         /\ Server!FlushEnd(h) => SP!FlushEnd(h)
         /\ Server!EndWindow(h) => SP!EndWindow(h)
         /\ Server!DrainBroken(h) => SP!DrainBroken(h)
         /\ Server!HeadersLost(h) => SP!HeadersLost(h)
         /\ Server!FlushFails(h) => SP!FlushFails(h)
BY DEF
  Server!BeginWindow, SP!BeginWindow, Server!RefuseWindow, SP!RefuseWindow,
  Server!DrainFrame, SP!DrainFrame, Server!DrainPush, SP!DrainPush,
  Server!DrainClosed, SP!DrainClosed, Server!DrainEnd, SP!DrainEnd,
  Server!FlushFrame, SP!FlushFrame, Server!FlushEnd, SP!FlushEnd, Server!EndWindow,
  SP!EndWindow, Server!DrainBroken, SP!DrainBroken, Server!HeadersLost,
  SP!HeadersLost, Server!FlushFails, SP!FlushFails, Server!Abandon, SP!Abandon,
  Server!CloseStream, SP!CloseStream, Server!Forget, SP!Forget, Server!NoRequest,
  SP!NoRequest, Server!windowRest, SP!windowRest, Server!stream, SP!stream,
  Server!slot, SP!slot, Server!queues, SP!queues, Server!session, SP!session

LEMMA SameSession ==
  ASSUME NEW s \in {Mine}
  PROVE  /\ Server!ReadFrame(s) => SP!ReadFrame(s)
         /\ Server!Deliver(s) => SP!Deliver(s)
         /\ Server!Owe(s) => SP!Owe(s)
         /\ Server!Answer(s) => SP!Answer(s)
         /\ Server!AnswerClosed(s) => SP!AnswerClosed(s)
         /\ Server!ReadClosed(s) => SP!ReadClosed(s)
         /\ Server!EndSession(s) => SP!EndSession(s)
         /\ Server!Write(s) => SP!Write(s)
         /\ Server!WriteClosed(s) => SP!WriteClosed(s)
         /\ Server!WriterJoins(s) => SP!WriterJoins(s)
         /\ Server!WriteStart(s) => SP!WriteStart(s)
         /\ Server!WriterStops(s) => SP!WriterStops(s)
         /\ Server!Unregister(s) => SP!Unregister(s)
BY DEF
  Server!ReadFrame, SP!ReadFrame, Server!Deliver, SP!Deliver, Server!Owe, SP!Owe,
  Server!Answer, SP!Answer, Server!AnswerClosed, SP!AnswerClosed, Server!ReadClosed,
  SP!ReadClosed, Server!EndSession, SP!EndSession, Server!Write, SP!Write,
  Server!WriteClosed, SP!WriteClosed, Server!WriterJoins, SP!WriterJoins,
  Server!WriteStart, SP!WriteStart, Server!WriterStops, SP!WriterStops,
  Server!Unregister, SP!Unregister, Server!Accounted, SP!Accounted, Server!Arm,
  SP!Arm, Server!Record, SP!Record, Server!CloseStream, SP!CloseStream,
  Server!sessionRest, SP!sessionRest, Server!answerRest, SP!answerRest,
  Server!writerRest, SP!writerRest, Server!handler, SP!handler, Server!slot,
  SP!slot, Server!queues, SP!queues, Server!session, SP!session

\* One session for one trace id is an exit node ExchangeServer admits.
LEMMA ServerAssumption == SP!ExchangeAssumption
<1>1. <<Id>> \in Seq({Id}) /\ \A t \in {Id} : \E n \in 1..Len(<<Id>>) : <<Id>>[n] = t
  OBVIOUS
<1>2. SP!IsFiniteSet({Id})
  BY <1>1 DEF SP!IsFiniteSet
<1> QED
  BY <1>2, ClientAssumption DEF SP!ExchangeAssumption

\* The steps of a request, and of the session, keep the exit node's types.
LEMMA RequestTyped ==
  ASSUME Server!TypeOK, Carried, NEW h \in Handler, HandlerStep(h) \/ HandlerBreaks(h)
  PROVE  Server!TypeOK'
<1>1. SP!TypeOK /\ SP!FedBehind
  BY SameTypes DEF SP!FedBehind, Carried
<1>2. SP!HandlerRuns(h) \/ SP!DrainBroken(h) \/ SP!HeadersLost(h) \/ SP!FlushFails(h)
  BY SameRequest DEF HandlerStep, HandlerBreaks, Server!HandlerRuns, SP!HandlerRuns
<1> QED
  BY <1>1, <1>2, ServerAssumption, SameTypes, SP!HandlerTyped

LEMMA SessionTyped ==
  ASSUME Server!TypeOK, Carried, SessionStep \/ SessionInput \/ Unregister
  PROVE  Server!TypeOK'
<1>1. SP!TypeOK /\ SP!FedBehind
  BY SameTypes DEF SP!FedBehind, Carried
<1>2. \/ SP!ReaderRuns(Mine) \/ SP!WriterRuns(Mine) \/ SP!Unregister(Mine)
      \/ SP!WriteStart(Mine) \/ SP!WriterStops(Mine)
  BY SameSession DEF SessionStep, SessionInput, Unregister, Server!WriterRuns,
    SP!ReaderRuns, SP!WriterRuns
<1> QED
  BY <1>1, <1>2, ServerAssumption, SameTypes, SP!SessionTyped

-----------------------------------------------------------------------------
(* The steps of the request that is being served *)

\* It is the client's, it finds the client's session, and it has not ended.
LEMMA RequestKnown ==
  ASSUME ClientInv, NEW h \in Handler, HandlerStep(h) \/ HandlerBreaks(h)
  PROVE  /\ via = h /\ via # None /\ hpc[h] # "idle" /\ at[h] = Mine
         /\ reply \in {"wait", "ok"} /\ ~Server!RefuseWindow(h)
         /\ Watched /\ UNCHANGED <<clientVars, pushed>> /\ Respond(h)
<1>1. hpc[h] # "idle" /\ Watched /\ Respond(h) /\ UNCHANGED <<clientVars, pushed>>
  BY DEF HandlerStep, HandlerBreaks, Server!HandlerRuns, Server!BeginWindow,
    Server!RefuseWindow, Server!DrainFrame, Server!DrainPush, Server!DrainClosed,
    Server!DrainEnd, Server!FlushFrame, Server!FlushEnd, Server!EndWindow,
    Server!DrainBroken, Server!HeadersLost, Server!FlushFails
<1>2. via = h /\ via # None /\ at[h] = Mine
  BY <1>1, ClientAssumption DEF ClientInv, Served, Carried
<1>3. reply \in {"wait", "ok"}
  BY <1>1, <1>2 DEF ClientInv, Served
<1>4. ~Server!RefuseWindow(h)
  BY <1>1, <1>2, <1>3 DEF ClientInv, Spans, Server!RefuseWindow, Server!Holding
<1> QED
  BY <1>1, <1>2, <1>3, <1>4

\* What it answers leaves no goroutine without its answer.
LEMMA RequestTurns ==
  ASSUME ClientInv, NEW h \in Handler, HandlerStep(h) \/ HandlerBreaks(h), Server!TypeOK'
  PROVE  /\ ClientTypeOK' /\ Turns' /\ (pending <= accepted)'
         /\ hpc'[h] # "idle" => reply' = IF hpc'[h] = "flush" THEN "ok" ELSE reply
         /\ hpc'[h] = "idle" /\ hpc[h] # "begin" => reply' \in {"ended", "cut"}
         /\ body' = IF hpc[h] = "flush" /\ hpc'[h] = "flush" THEN body + 1 ELSE body
<1>1. /\ hpc'[h] # "idle" => reply' = IF hpc'[h] = "flush" THEN "ok" ELSE reply
      /\ hpc'[h] = "idle" /\ hpc[h] # "begin" => reply' \in {"ended", "cut"}
      /\ body' = IF hpc[h] = "flush" /\ hpc'[h] = "flush" THEN body + 1 ELSE body
  BY RequestKnown DEF Respond, Verdict
<1>2. hpc[h] = "begin" => hpc'[h] # "idle"
  BY RequestKnown DEF HandlerStep, HandlerBreaks, Server!HandlerRuns, Server!BeginWindow,
    Server!DrainFrame, Server!DrainPush, Server!DrainClosed,
    Server!DrainEnd, Server!FlushFrame, Server!FlushEnd, Server!EndWindow,
    Server!DrainBroken, Server!HeadersLost, Server!FlushFails,
    ClientInv, ClientTypeOK, Server!TypeOK
<1>3. ClientTypeOK' /\ (pending <= accepted)'
  BY <1>1, <1>2, RequestKnown DEF ClientInv, ClientTypeOK, clientVars, batchVars, pollVars,
    closeVars, Reply
<1>4. Turns'
  BY <1>1, <1>2, RequestKnown DEF ClientInv, ClientTypeOK, Turns, clientVars, batchVars,
    closeVars, Served
<1> QED
  BY <1>1, <1>3, <1>4

\* A frame that leaves the request's hand for the queue is still counted once.
LEMMA FrameMoves ==
  ASSUME via # None, via' = via, fed[via] \in Nat, req[via].size \in Nat, pending \in Nat,
         inbound[Mine] \in Seq(Server!Frame), taken[Mine] \in Seq(Server!Frame),
         fed'[via] = fed[via] + 1, Len(inbound'[Mine]) = Len(inbound[Mine]) + 1,
         UNCHANGED <<req, taken, outbound, life, cclosed, accepted, pending, pushed, got, body>>,
         FramesExact
  PROVE  FramesExact'
<1>1. Alive' => Alive
  BY DEF Alive
<1> DEFINE queue == Len(inbound[Mine])
           read == Len(taken[Mine])
           size == req[via].size
           done == fed[via]
<1>2. pending \in Nat /\ queue \in Nat /\ read \in Nat /\ size \in Nat /\ done \in Nat
  OBVIOUS
<1>3. /\ Len(inbound'[Mine]) = queue + 1 /\ fed'[via] = done + 1
      /\ Alive' => accepted = pending + (size - done) + queue + read
  BY <1>1 DEF FramesExact
<1> HIDE DEF queue, read, size, done
<1>4. pending + (size - done) + queue + read
        = pending + (size - (done + 1)) + (queue + 1) + read
  BY <1>2
<1>5. Alive' => accepted = pending + (size - (done + 1)) + (queue + 1) + read
  BY <1>3, <1>4
<1>6. Alive' => pushed = got + body + (IF outbound[Mine] THEN 1 ELSE 0)
  BY <1>1 DEF FramesExact
<1> QED
  BY <1>3, <1>5, <1>6 DEF FramesExact, read, size

LEMMA RequestSteps ==
  ASSUME ClientInv, NEW h \in Handler, HandlerStep(h) \/ HandlerBreaks(h)
  PROVE  ClientInv'
<1> DEFINE Kept == Served' /\ Carried' /\ Spans' /\ Registered' /\ FramesExact'
<1>1. Server!TypeOK'
  BY RequestTyped DEF ClientInv, ClientTypeOK
<1>2. /\ ClientTypeOK' /\ Turns' /\ (pending <= accepted)'
      /\ hpc'[h] # "idle" => reply' = IF hpc'[h] = "flush" THEN "ok" ELSE reply
      /\ hpc'[h] = "idle" /\ hpc[h] # "begin" => reply' \in {"ended", "cut"}
      /\ body' = IF hpc[h] = "flush" /\ hpc'[h] = "flush" THEN body + 1 ELSE body
  BY <1>1, RequestTurns
<1>3. /\ via = h /\ via # None /\ at[h] = Mine
      /\ reply \in {"wait", "ok"} /\ Watched
      /\ UNCHANGED <<em, cpc, resp, via, pending, seq, accepted, cclosed, got, pushed>>
  BY RequestKnown DEF clientVars, batchVars, closeVars
<1> USE DEF ClientInv, ClientTypeOK, Server!TypeOK, Server!stream, Server!slot,
        Server!queues, Server!session, Server!Holding
<1>4. CASE Server!BeginWindow(h)
  <2> USE <1>1, <1>2, <1>3, <1>4 DEF Server!BeginWindow
  <2>1. Served' /\ Registered'
    BY DEF Served, Registered, Watched
  <2>2. Carried'
    BY DEF Carried, Served
  <2>3. Spans'
    BY DEF Spans, Served, Watched
  <2>4. FramesExact'
    BY DEF FramesExact, Alive, Carried, Served
  <2> QED
    BY <2>1, <2>2, <2>3, <2>4
<1>5. CASE Server!DrainFrame(h)
  <2> USE <1>1, <1>2, <1>3, <1>5
      DEF Server!DrainFrame, Server!Abandon, Server!CloseStream, Server!windowRest
  <2>1. Served' /\ Registered'
    BY DEF Served, Registered, Watched
  <2>2. Carried'
    BY DEF Carried, Served
  <2>3. Spans'
    BY DEF Spans, Served, Watched
  <2>4. FramesExact'
    BY DEF FramesExact, Alive, Carried, Served
  <2> QED
    BY <2>1, <2>2, <2>3, <2>4
<1>6. CASE Server!DrainPush(h)
  <2> USE <1>1, <1>2, <1>3, <1>6 DEF Server!DrainPush, Server!windowRest
  <2>1. Served' /\ Registered'
    BY DEF Served, Registered, Watched
  <2>2. Carried'
    BY DEF Carried, Served
  <2>3. Spans'
    BY DEF Spans, Served, Watched
  <2>4. FramesExact'
    <3>1. inbound[Mine] \in Seq(Server!Frame) /\ h \in Handler
      OBVIOUS
    <3>2. Len(inbound'[Mine]) = Len(inbound[Mine]) + 1 /\ Len(inbound[Mine]) \in Nat
      BY <3>1
    <3>3. /\ fed'[h] = fed[h] + 1 /\ fed[h] \in Nat /\ req[h].size \in Nat
          /\ body' = body /\ life' = life /\ UNCHANGED <<req, taken, outbound>>
      OBVIOUS
    <3>4. taken[Mine] \in Seq(Server!Frame) /\ pending \in Nat /\ FramesExact
      OBVIOUS
    <3> QED
      BY <3>1, <3>2, <3>3, <3>4, FrameMoves
  <2> QED
    BY <2>1, <2>2, <2>3, <2>4
<1>7. CASE Server!DrainClosed(h)
  <2> USE <1>1, <1>2, <1>3, <1>7
      DEF Server!DrainClosed, Server!Abandon, Server!CloseStream, Server!windowRest
  <2>1. Served' /\ Registered'
    BY DEF Served, Registered, Watched
  <2>2. Carried'
    BY DEF Carried, Served
  <2>3. Spans'
    BY DEF Spans, Served, Watched
  <2>4. FramesExact'
    BY DEF FramesExact, Alive, Carried, Served
  <2> QED
    BY <2>1, <2>2, <2>3, <2>4
<1>8. CASE Server!DrainEnd(h)
  <2> USE <1>1, <1>2, <1>3, <1>8 DEF Server!DrainEnd, Server!queues, Server!windowRest
  <2>1. Served' /\ Registered'
    BY DEF Served, Registered, Watched
  <2>2. Carried'
    BY DEF Carried, Served
  <2>3. Spans'
    BY DEF Spans, Served, Watched
  <2>4. FramesExact'
    BY DEF FramesExact, Alive, Carried, Served
  <2> QED
    BY <2>1, <2>2, <2>3, <2>4
<1>9. CASE Server!FlushFrame(h)
  <2> USE <1>1, <1>2, <1>3, <1>9 DEF Server!FlushFrame, Server!windowRest
  <2>1. Served' /\ Registered'
    BY DEF Served, Registered, Watched
  <2>2. Carried'
    BY DEF Carried, Served
  <2>3. Spans'
    BY DEF Spans, Served, Watched
  <2>4. FramesExact'
    BY DEF FramesExact, Alive, Carried, Served
  <2> QED
    BY <2>1, <2>2, <2>3, <2>4
<1>10. CASE Server!FlushEnd(h)
  <2> USE <1>1, <1>2, <1>3, <1>10 DEF Server!FlushEnd, Server!queues, Server!windowRest
  <2>1. Served' /\ Registered'
    BY DEF Served, Registered, Watched
  <2>2. Carried'
    BY DEF Carried, Served
  <2>3. Spans'
    BY DEF Spans, Served, Watched
  <2>4. FramesExact'
    BY DEF FramesExact, Alive, Carried, Served
  <2> QED
    BY <2>1, <2>2, <2>3, <2>4
<1>11. CASE Server!EndWindow(h)
  <2> USE <1>1, <1>2, <1>3, <1>11 DEF Server!EndWindow, Server!Forget, Server!NoRequest
  <2>1. Served' /\ Registered'
    BY DEF Served, Registered, Watched
  <2>2. Carried'
    BY DEF Carried, Served
  <2>3. Spans'
    BY DEF Spans, Served, Watched
  <2>4. FramesExact'
    BY DEF FramesExact, Alive, Carried, Served
  <2> QED
    BY <2>1, <2>2, <2>3, <2>4
<1>12. CASE Server!DrainBroken(h)
  <2> USE <1>1, <1>2, <1>3, <1>12
      DEF Server!DrainBroken, Server!Abandon, Server!CloseStream, Server!queues, Server!windowRest
  <2>1. Served' /\ Registered'
    BY DEF Served, Registered, Watched
  <2>2. Carried'
    BY DEF Carried, Served
  <2>3. Spans'
    BY DEF Spans, Served, Watched
  <2>4. FramesExact'
    BY DEF FramesExact, Alive, Carried, Served
  <2> QED
    BY <2>1, <2>2, <2>3, <2>4
<1>13. CASE Server!HeadersLost(h)
  <2> USE <1>1, <1>2, <1>3, <1>13 DEF Server!HeadersLost, Server!queues, Server!windowRest
  <2>1. Served' /\ Registered'
    BY DEF Served, Registered, Watched
  <2>2. Carried'
    BY DEF Carried, Served
  <2>3. Spans'
    BY DEF Spans, Served, Watched
  <2>4. FramesExact'
    BY DEF FramesExact, Alive, Carried, Served
  <2> QED
    BY <2>1, <2>2, <2>3, <2>4
<1>14. CASE Server!FlushFails(h)
  <2> USE <1>1, <1>2, <1>3, <1>14
      DEF Server!FlushFails, Server!Abandon, Server!CloseStream, Server!windowRest
  <2>1. Served' /\ Registered'
    BY DEF Served, Registered, Watched
  <2>2. Carried'
    BY DEF Carried, Served
  <2>3. Spans'
    BY DEF Spans, Served, Watched
  <2>4. FramesExact'
    BY DEF FramesExact, Alive, Carried, Served
  <2> QED
    BY <2>1, <2>2, <2>3, <2>4
<1> QED
  BY <1>4, <1>5, <1>6, <1>7, <1>8, <1>9, <1>10, <1>11, <1>12, <1>13, <1>14,
    <1>1, <1>2, RequestKnown
  DEF HandlerStep, HandlerBreaks, Server!HandlerRuns

-----------------------------------------------------------------------------
(* The session's steps *)

\* What the session pops it has taken.
LEMMA PopCounted ==
  ASSUME NEW q \in Seq(Server!Frame), NEW t \in Seq(Server!Frame), q # <<>>
  PROVE  Len(Tail(q)) + Len(Append(t, Head(q))) = Len(q) + Len(t)
<1>1. Len(Tail(q)) = Len(q) - 1 /\ Len(Append(t, Head(q))) = Len(t) + 1
  OBVIOUS
<1>2. Len(q) \in Nat /\ Len(t) \in Nat
  OBVIOUS
<1> QED
  BY <1>1, <1>2

\* What the client can tell of them.
SessionSeen ==
  /\ UNCHANGED <<clientVars, reply, body, hpc, req, at, fed, nextSpan, inFlight, trace>>
  /\ life[Mine] # "open" => life'[Mine] # "open"
  /\ life'[Mine] # "closed" => reg' = reg
  /\ life[Mine] = "closed" => life'[Mine] = "closed"
  /\ outbound[Mine] => outbound'[Mine]
  /\ pushed' = IF outbound'[Mine] /\ ~outbound[Mine] THEN pushed + 1 ELSE pushed
  /\ Len(inbound'[Mine]) + Len(taken'[Mine]) = Len(inbound[Mine]) + Len(taken[Mine])
  /\ outbound'[Mine] # outbound[Mine] => UNCHANGED <<life, inbound>>
  /\ \/ Len(taken'[Mine]) = Len(taken[Mine])
     \/ Len(taken'[Mine]) = Len(taken[Mine]) + 1 /\ life' = life

\* ... and nothing else changes.
LEMMA SessionSteps ==
  ASSUME ClientInv, SessionStep \/ SessionInput \/ Unregister
  PROVE  SessionSeen
<1> USE DEF ClientInv, ClientTypeOK, Server!TypeOK, SessionSeen, Server!handler,
        Server!slot, Server!queues, Server!session, Server!sessionRest,
        Server!answerRest, Server!writerRest
<1>1. Pushed /\ UNCHANGED <<clientVars, reply, body>>
  BY DEF SessionStep, SessionInput, Unregister, Pushed
<1>2. CASE Server!ReadFrame(Mine)
  <2>1. inbound[Mine] \in Seq(Server!Frame) /\ taken[Mine] \in Seq(Server!Frame)
    OBVIOUS
  <2>2. Len(Tail(inbound[Mine])) + Len(Append(taken[Mine], Head(inbound[Mine])))
          = Len(inbound[Mine]) + Len(taken[Mine])
    BY <1>2, <2>1, PopCounted DEF Server!ReadFrame
  <2>3. /\ inbound'[Mine] = Tail(inbound[Mine])
        /\ taken'[Mine] = Append(taken[Mine], Head(inbound[Mine]))
    BY <1>2 DEF Server!ReadFrame
  <2>4. Len(taken'[Mine]) = Len(taken[Mine]) + 1
    BY <2>1, <2>3
  <2> QED
    BY <1>1, <1>2, <2>2, <2>3, <2>4 DEF Server!ReadFrame, Pushed
<1>3. CASE Server!Deliver(Mine)
  BY <1>1, <1>3 DEF Server!Deliver, Server!Accounted, Server!Arm, Pushed
<1>4. CASE Server!Owe(Mine)
  BY <1>1, <1>4 DEF Server!Owe, Server!Accounted, Pushed
<1>5. CASE Server!Answer(Mine)
  BY <1>1, <1>5 DEF Server!Answer, Server!Arm, Pushed
<1>6. CASE Server!AnswerClosed(Mine)
  BY <1>1, <1>6 DEF Server!AnswerClosed, Server!Record, Pushed
<1>7. CASE Server!ReadClosed(Mine)
  BY <1>1, <1>7 DEF Server!ReadClosed, Server!Record, Pushed
<1>8. CASE Server!EndSession(Mine)
  BY <1>1, <1>8 DEF Server!EndSession, Server!CloseStream, Pushed
<1>9. CASE Server!Write(Mine)
  BY <1>1, <1>9 DEF Server!Write, Pushed
<1>10. CASE Server!WriteClosed(Mine)
  BY <1>1, <1>10 DEF Server!WriteClosed, Server!Record, Pushed
<1>11. CASE Server!WriterJoins(Mine)
  BY <1>1, <1>11 DEF Server!WriterJoins, Pushed
<1>12. CASE Server!WriteStart(Mine)
  BY <1>1, <1>12 DEF Server!WriteStart, Pushed
<1>13. CASE Server!WriterStops(Mine)
  BY <1>1, <1>13 DEF Server!WriterStops, Server!CloseStream, Server!Record, Pushed
<1>14. CASE Server!Unregister(Mine)
  BY <1>1, <1>14 DEF Server!Unregister, Pushed
<1> QED
  BY <1>2, <1>3, <1>4, <1>5, <1>6, <1>7, <1>8, <1>9, <1>10, <1>11, <1>12, <1>13, <1>14
  DEF SessionStep, SessionInput, Unregister, Server!WriterRuns

LEMMA SessionKeeps ==
  ASSUME ClientInv, SessionStep \/ SessionInput \/ Unregister
  PROVE  ClientInv'
<1>1. SessionSeen /\ Server!TypeOK'
  BY SessionSteps, SessionTyped DEF ClientInv, ClientTypeOK
<1> USE <1>1 DEF ClientInv, SessionSeen, clientVars, batchVars, pollVars, closeVars
<1>2. ClientTypeOK' /\ Turns' /\ (pending <= accepted)'
  BY DEF ClientTypeOK, Turns
<1>3. Served' /\ Spans'
  BY DEF Served, Spans, Watched
<1>4. Carried' /\ Registered'
  BY DEF Carried, Registered
<1>5. FramesExact'
  <2> DEFINE hand == IF via = None THEN 0 ELSE req[via].size - fed[via]
             queue == Len(inbound[Mine])
             read == Len(taken[Mine])
             queue1 == Len(inbound'[Mine])
             read1 == Len(taken'[Mine])
  <2>1. /\ pending \in Int /\ hand \in Int /\ queue \in Int /\ read \in Int
        /\ queue1 \in Int /\ read1 \in Int
    BY DEF ClientTypeOK, Server!TypeOK
  <2>2. /\ hand' = hand /\ queue1 + read1 = queue + read
        /\ UNCHANGED <<pending, accepted, got, body>>
    OBVIOUS
  <2>3. Alive' => Alive
    BY DEF Alive
  <2>4. /\ FramesExact <=> (Alive => /\ accepted = pending + hand + queue + read
                                   /\ pushed = got + body + (IF outbound[Mine] THEN 1 ELSE 0))
        /\ FramesExact' <=> (Alive' => /\ accepted' = pending' + hand' + queue1 + read1
                                     /\ pushed' = got' + body' + (IF outbound'[Mine] THEN 1 ELSE 0))
    BY Zenon DEF FramesExact
  <2>5. Alive' => accepted = pending + hand + queue1 + read1
    <3>0. FramesExact
      OBVIOUS
    <3> HIDE DEF hand, queue, read, queue1, read1, SessionSeen, ClientInv
    <3>1. pending + hand + queue1 + read1 = pending + hand + queue + read
      BY <2>1, <2>2
    <3> QED
      BY <2>3, <2>4, <3>0, <3>1, Zenon
  <2>6. Alive' => pushed' = got + body + (IF outbound'[Mine] THEN 1 ELSE 0)
    BY <2>3 DEF FramesExact, ClientTypeOK
  <2> HIDE DEF hand, queue1, read1
  <2> QED
    BY <2>2, <2>4, <2>5, <2>6
<1> QED
  BY <1>1, <1>2, <1>3, <1>4, <1>5

-----------------------------------------------------------------------------
(* The client's steps *)

\* The exit node's types do not see them.
LEMMA ServerStill ==
  ASSUME Server!TypeOK, UNCHANGED serverVars
  PROVE  Server!TypeOK'
BY DEF serverVars, Server!TypeOK

\* A step that moves no frame.
LEMMA QuietKeeps ==
  ASSUME ClientInv, QuietStep
  PROVE  ClientInv'
<1>1. Quiet /\ Server!TypeOK'
  BY QuietSteps, ServerStill DEF Quiet, ClientInv, ClientTypeOK
<1> USE <1>1, ClientAssumption DEF ClientInv, Quiet, serverVars, wireVars, batchVars, Thread
<1>2. ClientTypeOK' /\ Turns'
  <2> USE DEF ClientTypeOK, Turns, Over, closeVars, pollVars
  <2>1. ASSUME NEW x \in Thread, Answered(x)
        PROVE  ClientTypeOK' /\ Turns'
    BY <2>1 DEF Answered
  <2>2. ASSUME NEW x \in Thread,
               WriteRefused(x) \/ Park(x) \/ ForceClosed(x) \/ ParkClosed(x)
        PROVE  ClientTypeOK' /\ Turns'
    BY <2>2 DEF WriteRefused, Park, ForceClosed, ParkClosed
  <2>3. CASE ReadClosed \/ ReadGate \/ GateClosed \/ FrameDone
    BY <2>3 DEF ReadClosed, ReadGate, GateClosed, FrameDone
  <2>4. CASE ReadMore
    BY <2>4 DEF ReadMore
  <2>5. CASE CloseStart
    BY <2>5 DEF CloseStart
  <2>6. CASE Poll
    <3>1. ~StartExchange("reader")
      BY DEF StartExchange
    <3>2. CASE ~resp
      <4>1. /\ cpc' = [cpc EXCEPT !["reader"] = "over"] /\ cpc["reader"] = "gate"
            /\ UNCHANGED <<em, resp, hadBody, gotFrame, cclosed, closing>> /\ pollEmpty' = FALSE
        BY <2>6, <3>1, <3>2 DEF Poll
      <4>2. ClientTypeOK'
        BY <3>2, <4>1
      <4>3. Turns'
        BY <3>2, <4>1
      <4> QED
        BY <4>2, <4>3
    <3>3. CASE resp
      <4>1. /\ em' = "reader" /\ cpc' = [cpc EXCEPT !["reader"] = "body"] /\ em = None
            /\ UNCHANGED <<resp, hadBody, gotFrame, cclosed, closing>> /\ pollEmpty' = FALSE
        BY <2>6, <3>3 DEF Poll
      <4>2. ClientTypeOK'
        BY <3>3, <4>1
      <4>3. Turns'
        BY <3>3, <4>1
      <4> QED
        BY <4>2, <4>3
    <3> QED
      BY <3>2, <3>3
  <2> QED
    BY <2>1, <2>2, <2>3, <2>4, <2>5, <2>6 DEF QuietStep
<1>3. Served' /\ Spans'
  BY DEF Served, Spans, Watched
<1>4. Carried' /\ Registered'
  BY DEF Carried, Registered
<1>5. FramesExact'
  BY DEF FramesExact, Alive
<1> QED
  BY <1>2, <1>3, <1>4, <1>5

\* A frame joins the batch.
LEMMA WriteKeeps ==
  ASSUME ClientInv, NEW x \in Thread, WriteFrame(x)
  PROVE  ClientInv'
<1>1. Server!TypeOK'
  BY ServerStill DEF WriteFrame, ClientInv, ClientTypeOK
<1> USE <1>1, ClientAssumption
    DEF WriteFrame, ClientInv, serverVars, wireVars, closeVars, pollVars, Thread, Home
<1>2. ClientTypeOK' /\ Turns' /\ (pending <= accepted)'
  BY DEF ClientTypeOK, Turns
<1>3. Served' /\ Spans'
  BY DEF Served, Spans, Watched
<1>4. Carried' /\ Registered'
  BY DEF Carried, Registered
<1>5. FramesExact'
  <2> DEFINE hand == IF via = None THEN 0 ELSE req[via].size - fed[via]
             queue == Len(inbound[Mine])
             read == Len(taken[Mine])
  <2>1. /\ pending \in Int /\ hand \in Int /\ queue \in Int /\ read \in Int
        /\ pending' = pending + 1 /\ accepted' = accepted + 1
    BY DEF ClientTypeOK, Server!TypeOK
  <2>2. /\ FramesExact <=> (Alive => /\ accepted = pending + hand + queue + read
                                   /\ pushed = got + body + (IF outbound[Mine] THEN 1 ELSE 0))
        /\ FramesExact' <=> (Alive => /\ accepted' = pending' + hand + queue + read
                                    /\ pushed = got + body + (IF outbound[Mine] THEN 1 ELSE 0))
    BY DEF FramesExact, Alive
  <2> HIDE DEF hand, queue, read
  <2>3. pending + 1 + hand + queue + read = pending + hand + queue + read + 1
    BY <2>1
  <2> QED
    BY <2>1, <2>2, <2>3
<1> QED
  BY <1>2, <1>3, <1>4, <1>5

\* An exchange that fails ends the client.
LEMMA FailureKeeps ==
  ASSUME ClientInv, NEW x \in Thread, ExchangeFails(x)
  PROVE  ClientInv'
<1>1. Server!TypeOK'
  BY ServerStill DEF ExchangeFails, ClientInv, ClientTypeOK
<1> USE <1>1, ClientAssumption
    DEF ExchangeFails, Fail, ClientInv, serverVars, batchVars, pollVars, Thread
<1>2. ClientTypeOK' /\ Turns' /\ (pending <= accepted)'
  BY DEF ClientTypeOK, Turns, Reply
<1>3. Served' /\ Spans' /\ Carried' /\ Registered' /\ FramesExact'
  BY DEF Served, Spans, Carried, Registered, FramesExact, Alive, Watched
<1> QED
  BY <1>2, <1>3

\* A frame of the response is read.
LEMMA ReadKeeps ==
  ASSUME ClientInv, ReadFrame
  PROVE  ClientInv'
<1>1. Server!TypeOK'
  BY ServerStill DEF ReadFrame, ClientInv, ClientTypeOK
<1> USE <1>1, ClientAssumption
    DEF ReadFrame, ClientInv, serverVars, batchVars, closeVars, Thread
<1>2. ClientTypeOK' /\ Turns' /\ (pending <= accepted)'
  BY DEF ClientTypeOK, Turns
<1>3. Served' /\ Spans' /\ Carried' /\ Registered'
  BY DEF Served, Spans, Carried, Registered, Watched
<1>4. FramesExact'
  BY DEF FramesExact, Alive, ClientTypeOK
<1> QED
  BY <1>2, <1>3, <1>4

\* A response that has ended is let go of, with the request that is over.
LEMMA DoneKeeps ==
  ASSUME ClientInv, WindowDone
  PROVE  ClientInv'
<1>1. Server!TypeOK'
  BY ServerStill DEF WindowDone, ClientInv, ClientTypeOK
<1> USE <1>1, ClientAssumption
    DEF WindowDone, ClientInv, serverVars, batchVars, closeVars, Thread
<1>2. ClientTypeOK' /\ Turns' /\ (pending <= accepted)'
  BY DEF ClientTypeOK, Turns, Unpark, Reply
<1>3. via # None => hpc[via] = "idle" /\ req[via].size = 0 /\ fed[via] = 0
  BY DEF Served, Carried, ClientTypeOK
<1>4. Served' /\ Carried' /\ Registered'
  BY <1>3 DEF Served, Carried, Registered, Watched
<1>5. Spans'
  BY <1>3 DEF Spans, Served, Watched, Server!Holding
<1>6. FramesExact'
  BY <1>3 DEF FramesExact, Alive
<1> QED
  BY <1>2, <1>4, <1>5, <1>6

\* A response that breaks, and Close: the client is over.
LEMMA EndKeeps ==
  ASSUME ClientInv, WindowBroken \/ CloseEnd
  PROVE  ClientInv'
<1>1. Server!TypeOK' /\ cclosed' /\ via' = None
  BY ServerStill DEF WindowBroken, CloseEnd, ClientInv, ClientTypeOK, Turns
<1> USE <1>1, ClientAssumption DEF ClientInv, serverVars, batchVars, pollVars, Thread
<1>2. CASE WindowBroken
  <2>1. ClientTypeOK' /\ Turns' /\ (pending <= accepted)'
    BY <1>2 DEF WindowBroken, ClientTypeOK, Turns, Unpark, Reply
  <2>2. Served' /\ Spans' /\ Carried' /\ Registered' /\ FramesExact'
    BY <1>2 DEF WindowBroken, Served, Spans, Carried, Registered, FramesExact, Alive, Watched
  <2> QED
    BY <2>1, <2>2
<1>3. CASE CloseEnd
  <2>1. ClientTypeOK' /\ Turns' /\ (pending <= accepted)'
    BY <1>3 DEF CloseEnd, ClientTypeOK, Turns, Reply
  <2>2. Served' /\ Spans' /\ Carried' /\ Registered' /\ FramesExact'
    BY <1>3 DEF CloseEnd, Served, Spans, Carried, Registered, FramesExact, Alive, Watched,
      Turns
  <2> QED
    BY <2>1, <2>2
<1> QED
  BY <1>2, <1>3

\* A new exchange: the batch becomes a request, which the exit has been waiting for.
LEMMA StartKeeps ==
  ASSUME ClientInv, NEW x \in Thread, Starts(x)
  PROVE  ClientInv'
<1> USE ClientAssumption DEF ClientInv, Thread
<1>1. reply = "none" /\ via = None /\ body = 0 /\ Watched
  BY DEF Starts, Turns, Served, Watched
<1>4. hadBody' \in BOOLEAN /\ gotFrame' = FALSE /\ pollEmpty' \in BOOLEAN
  <2>1. (pending > 0) \in BOOLEAN
    OBVIOUS
  <2>2. hadBody' = (pending > 0)
    BY Zenon DEF Starts, StartExchange
  <2> QED
    BY <2>1, <2>2, Zenon DEF Starts, StartExchange
<1>2. CASE reg[Id] = None
  <2>1. /\ UNCHANGED serverVars /\ via' = None /\ reply' = "refused" /\ life[Mine] = "closed"
        /\ UNCHANGED <<cclosed, accepted, pushed, got, resp, closing>> /\ body' = 0
        /\ pending' = 0 /\ seq' = seq + 1 /\ em' = x /\ cpc' = [cpc EXCEPT ![x] = "doing"]
        /\ hadBody' \in BOOLEAN /\ gotFrame' = FALSE /\ pollEmpty' \in BOOLEAN
        /\ seq < MaxSpan /\ Server!TypeOK'
    BY <1>2, <1>4, ServerStill DEF Starts, StartExchange, Registered, closeVars, ClientTypeOK
  <2>2. ClientTypeOK'
    <3> USE <2>1, <1>1
    <3>1. \A y \in Thread : cpc'[y] \in {"doing", "body"} <=> em' = y
      BY DEF ClientTypeOK, Starts
    <3>2. cpc'["reader"] \in {"body", "got", "force", "park"} => resp'
      BY DEF ClientTypeOK, Starts
    <3>3. /\ cclosed' \in BOOLEAN /\ resp' \in BOOLEAN
      BY DEF ClientTypeOK
    <3>4. /\ em' \in Thread \cup {None} /\ via' \in Handler \cup {None}
          /\ cpc' \in [Thread -> {"read", "gate", "body", "got", "idle", "force",
                                 "park", "doing", "over"}]
          /\ reply' \in Reply /\ body' \in Nat /\ pending' \in 0..MaxUp /\ seq' \in 2..MaxSpan
          /\ closing' \in {"no", "wait", "done"}
          /\ accepted' \in 0..MaxUp /\ pushed' \in Nat /\ got' \in Nat
      BY DEF ClientTypeOK, Reply
    <3> QED
      BY <1>4, <3>1, <3>2, <3>3, <3>4, Zenon DEF ClientTypeOK
  <2>5. Turns' /\ (pending <= accepted)'
    BY <2>1, <1>1 DEF ClientTypeOK, Turns, Starts
  <2>3. Served' /\ Spans'
    BY <2>1, <1>1 DEF Served, Spans, Watched, serverVars
  <2>4. Carried' /\ Registered' /\ FramesExact'
    BY <2>1, <1>1 DEF Carried, Registered, FramesExact, Alive, serverVars
  <2> QED
    BY <2>2, <2>3, <2>4, <2>5
<1>3. CASE reg[Id] # None
  <2>1. PICK h \in Handler : via' = h /\ Server!Continue(h, Id, seq + 1, pending)
    BY <1>3 DEF Starts, StartExchange
  <2>2. /\ hpc[h] = "idle" /\ hpc' = [hpc EXCEPT ![h] = "begin"]
        /\ req' = [req EXCEPT ![h] = [span |-> seq + 1, size |-> pending]]
        /\ at' = [at EXCEPT ![h] = Mine] /\ reg[Id] = Mine
        /\ UNCHANGED <<reg, life, trace, nextSpan, inFlight, inbound, inBytes, outbound, taken,
                       relaying, rpc, wpc, timer, firing, timedOut, reaped, verdict, fed>>
    BY <2>1 DEF Server!Continue, Server!Request, Server!stream, Server!slot, Server!queues,
      ClientTypeOK, Server!TypeOK
  <2>3. /\ reply' = "wait" /\ seq < MaxSpan
        /\ UNCHANGED <<cclosed, accepted, pushed, got, resp, closing>> /\ body' = 0
        /\ pending' = 0 /\ seq' = seq + 1 /\ em' = x /\ cpc' = [cpc EXCEPT ![x] = "doing"]
        /\ hadBody' \in BOOLEAN /\ gotFrame' = FALSE /\ pollEmpty' \in BOOLEAN
    BY <1>3, <1>4 DEF Starts, StartExchange, closeVars
  <2> USE <1>1, <2>1, <2>2, <2>3
  <2>4. Server!TypeOK'
    BY DEF ClientTypeOK, Server!TypeOK, Server!Span
  <2>9. ClientTypeOK'
    <3>1. \A y \in Thread : cpc'[y] \in {"doing", "body"} <=> em' = y
      BY DEF ClientTypeOK, Starts
    <3>2. cpc'["reader"] \in {"body", "got", "force", "park"} => resp'
      BY DEF ClientTypeOK, Starts
    <3>3. /\ cclosed' \in BOOLEAN /\ resp' \in BOOLEAN
      BY DEF ClientTypeOK
    <3>4. /\ em' \in Thread \cup {None} /\ via' \in Handler \cup {None}
          /\ cpc' \in [Thread -> {"read", "gate", "body", "got", "idle", "force",
                                 "park", "doing", "over"}]
          /\ reply' \in Reply /\ body' \in Nat /\ pending' \in 0..MaxUp /\ seq' \in 2..MaxSpan
          /\ closing' \in {"no", "wait", "done"}
          /\ accepted' \in 0..MaxUp /\ pushed' \in Nat /\ got' \in Nat
      BY DEF ClientTypeOK, Reply
    <3> QED
      BY <1>4, <3>1, <3>2, <3>3, <3>4, <2>4, Zenon DEF ClientTypeOK
  <2>5. Turns' /\ (pending <= accepted)'
    BY <2>4 DEF ClientTypeOK, Turns, Starts
  <2>6. Served' /\ Spans'
    BY DEF Served, Spans, Watched, Server!Holding, ClientTypeOK, Server!TypeOK
  <2>7. Carried' /\ Registered'
    BY DEF Carried, Registered, ClientTypeOK, Server!TypeOK
  <2>8. FramesExact'
    <3>1. req'[h].size = pending /\ fed'[h] = 0 /\ pending \in Nat
      BY DEF Carried, ClientTypeOK, Server!TypeOK
    <3> DEFINE queue == Len(inbound[Mine])
               read == Len(taken[Mine])
    <3>2. queue \in Nat /\ read \in Nat /\ accepted \in Nat
      BY DEF ClientTypeOK, Server!TypeOK
    <3>3. /\ FramesExact <=> (Alive => /\ accepted = pending + 0 + queue + read
                                     /\ pushed = got + body + (IF outbound[Mine] THEN 1 ELSE 0))
          /\ FramesExact' <=> (Alive => /\ accepted = 0 + (pending - 0) + queue + read
                                      /\ pushed = got + body + (IF outbound[Mine] THEN 1 ELSE 0))
      BY <3>1 DEF FramesExact, Alive
    <3> HIDE DEF queue, read
    <3>4. pending + 0 + queue + read = 0 + (pending - 0) + queue + read
      BY <3>1, <3>2
    <3> QED
      BY <3>3, <3>4
  <2> QED
    BY <2>5, <2>6, <2>7, <2>8, <2>9
<1> QED
  BY <1>2, <1>3

-----------------------------------------------------------------------------
(* The theorems *)

LEMMA Begins == Init => ClientInv
<1> SUFFICES ASSUME Init PROVE ClientInv
  OBVIOUS
<1> USE ClientAssumption DEF Init, Thread
<1>1. Server!TypeOK
  BY DEF Server!TypeOK, Server!Holding, Server!Verdict, Server!Span
<1>2. ClientTypeOK
  <2>1. \A x \in Thread : cpc[x] \in {"doing", "body"} <=> em = x
    BY DEF Home
  <2>2. cpc["reader"] \in {"body", "got", "force", "park"} => resp
    BY DEF Home
  <2>3. /\ hadBody \in BOOLEAN /\ gotFrame \in BOOLEAN /\ pollEmpty \in BOOLEAN
        /\ cclosed \in BOOLEAN /\ resp \in BOOLEAN
    OBVIOUS
  <2>4. /\ em \in Thread \cup {None} /\ via \in Handler \cup {None}
        /\ cpc \in [Thread -> {"read", "gate", "body", "got", "idle", "force",
                              "park", "doing", "over"}]
        /\ reply \in Reply /\ body \in Nat /\ pending \in 0..MaxUp /\ seq \in 2..MaxSpan
        /\ closing \in {"no", "wait", "done"}
        /\ accepted \in 0..MaxUp /\ pushed \in Nat /\ got \in Nat
    BY DEF Home, Reply
  <2> QED
    BY <1>1, <2>1, <2>2, <2>3, <2>4, Zenon DEF ClientTypeOK
<1>4. Turns /\ pending <= accepted
  BY DEF Turns, Home
<1>3. Served /\ Carried /\ Spans /\ Registered /\ FramesExact
  BY DEF Served, Carried, Spans, Registered, FramesExact, Alive
<1> QED
  BY <1>2, <1>3, <1>4 DEF ClientInv

LEMMA StepKeeps ==
  ASSUME ClientInv, [Next]_vars
  PROVE  ClientInv'
<1>1. CASE Next
  BY <1>1, StepCases, StartKeeps, WriteKeeps, FailureKeeps, QuietKeeps, ReadKeeps, DoneKeeps,
    EndKeeps, RequestSteps, SessionKeeps
<1>2. CASE UNCHANGED vars
  <2>1. UNCHANGED <<serverVars, em, cpc, resp, via, reply, body, pending, seq, accepted, hadBody,
                    gotFrame, pollEmpty, cclosed, closing, pushed, got>>
    BY <1>2 DEF vars, wireVars, batchVars, pollVars, closeVars
  <2>2. Server!TypeOK'
    BY <2>1, ServerStill DEF ClientInv, ClientTypeOK
  <2> USE <2>1, <2>2 DEF ClientInv, serverVars
  <2>3. ClientTypeOK' /\ Turns'
    BY DEF ClientTypeOK, Turns
  <2>4. Served' /\ Carried' /\ Spans' /\ Registered' /\ FramesExact'
    BY DEF Served, Carried, Spans, Registered, FramesExact, Alive, Watched
  <2> QED
    BY <2>3, <2>4
<1> QED
  BY <1>1, <1>2

\* ClientInv holds throughout.
LEMMA ClientInvariant == Spec => []ClientInv
BY Begins, StepKeeps, PTL DEF Spec

\* However many goroutines write, whichever of them starts the next window, and however
\* slowly the exit drains, flushes or delivers it: no frame of a live session is lost
\* or doubled, in either direction (writeTunnelMsg, startExchangeLocked, readTunnelMsg;
\* drain, flushWindow).
THEOREM FramesCounted == Spec => []FramesExact
BY ClientInvariant, PTL DEF ClientInv

\* A client that starts its windows under em, one after the other's end, is never
\* refused by a session that is alive (startExchangeLocked; accept, beginWindow).
THEOREM ClientAdmitted == Spec => []ConformingAdmitted
<1>1. ClientInv => ConformingAdmitted
  BY DEF ClientInv, Registered, ConformingAdmitted
<1> QED
  BY <1>1, ClientInvariant, PTL

\* The composition leaves the exit node as it is: every step of client and exit together
\* is a step of ExchangeServer, or none of its variables moves.  What the client sends
\* is a request with a span and a size that ExchangeServer counts with.
THEOREM ServerDriven == Spec => [][Server!Next]_Server!vars
<1>1. ASSUME ClientInv, [Next]_vars
      PROVE  [Server!Next]_Server!vars
  <2> USE DEF serverVars, Server!vars, Server!stream, Server!slot, Server!queues,
          Server!session, Server!handler
  <2>1. ASSUME NEW x \in Thread, Starts(x), reg[Id] # None
        PROVE  Server!Next
    <3>1. PICK h \in Handler : Server!Continue(h, Id, seq + 1, pending)
      BY <2>1 DEF Starts, StartExchange
    <3>2. seq + 1 \in Server!Span /\ pending \in 0..MaxUp
      BY <1>1, <2>1, ClientAssumption
         DEF Starts, StartExchange, ClientInv, ClientTypeOK, Server!Span
    <3> QED
      BY <3>1, <3>2 DEF Server!Next
  <2>2. ASSUME NEW x \in Thread, Starts(x), reg[Id] = None
        PROVE  UNCHANGED serverVars
    BY <2>2 DEF Starts, StartExchange
  <2>3. ASSUME NEW h \in Handler, HandlerStep(h) \/ HandlerBreaks(h)
        PROVE  Server!Next
    BY <2>3 DEF HandlerStep, HandlerBreaks, Server!Next
  <2>4. SessionStep \/ SessionInput \/ Unregister => Server!Next
    BY DEF SessionStep, SessionInput, Unregister, Server!Next, Server!ReaderRuns
  <2>5. \/ \E x \in Thread : WriteFrame(x) \/ ExchangeFails(x)
        \/ ReadFrame \/ WindowDone \/ WindowBroken \/ CloseEnd
        => UNCHANGED serverVars
    BY DEF WriteFrame, ExchangeFails, ReadFrame, WindowDone, WindowBroken, CloseEnd
  <2>6. QuietStep => UNCHANGED serverVars
    BY QuietSteps DEF Quiet
  <2>7. CASE UNCHANGED vars
    BY <2>7 DEF vars
  <2>8. CASE Next
    BY <1>1, <2>8, StepCases, <2>1, <2>2, <2>3, <2>4, <2>5, <2>6
  <2> QED
    BY <1>1, <2>7, <2>8
<1> QED
  BY <1>1, ClientInvariant, PTL DEF Spec

-----------------------------------------------------------------------------
(* The windows together are a carrier *)

Hand == IF via = None THEN 0 ELSE req[via].size - fed[via]

\* The counts are numbers, and while both ends are alive they add up.
Counted ==
  /\ Hand \in Nat /\ pending \in Nat /\ Len(inbound[Mine]) \in Nat /\ body \in Nat
  /\ UpFlight = pending + Hand + Len(inbound[Mine])
  /\ UpFlight \in Nat /\ DownFlight \in Nat
  /\ accepted \in Nat /\ pushed \in Nat /\ got \in Nat /\ Len(taken[Mine]) \in Nat
  /\ Alive => accepted = UpFlight + Len(taken[Mine]) /\ pushed = DownFlight + got

\* From the invariant, in this state and in the next.
LEMMA FlightCounts == ClientInv => Counted
<1> SUFFICES ASSUME ClientInv PROVE Counted
  OBVIOUS
<1> USE DEF ClientInv, ClientTypeOK, Server!TypeOK
<1>1. Hand \in Nat
  <2>1. ASSUME via # None PROVE req[via].size \in Nat /\ fed[via] \in Nat /\ fed[via] <= req[via].size
    BY <2>1 DEF Carried
  <2> QED
    BY <2>1 DEF Hand
<1>2. /\ pending \in Nat /\ Len(inbound[Mine]) \in Nat /\ body \in Nat /\ accepted \in Nat
      /\ pushed \in Nat /\ got \in Nat /\ Len(taken[Mine]) \in Nat
  BY ClientAssumption
<1>3. UpFlight = pending + Hand + Len(inbound[Mine])
  BY DEF UpFlight, Hand
<1>4. DownFlight \in Nat
  BY <1>2 DEF DownFlight
<1>5. Alive => accepted = UpFlight + Len(taken[Mine]) /\ pushed = DownFlight + got
  <2> SUFFICES ASSUME Alive
               PROVE  accepted = UpFlight + Len(taken[Mine]) /\ pushed = DownFlight + got
    OBVIOUS
  <2>1. accepted = pending + Hand + Len(inbound[Mine]) + Len(taken[Mine])
    BY DEF FramesExact, Hand
  <2>2. pushed = got + body + (IF outbound[Mine] THEN 1 ELSE 0)
    BY DEF FramesExact
  <2>3. pushed = DownFlight + got
    BY <1>2, <2>2 DEF DownFlight
  <2> QED
    BY <1>3, <2>1, <2>3
<1> QED
  BY <1>1, <1>2, <1>3, <1>4, <1>5 DEF Counted

LEMMA CountsNext == ClientInv' => Counted'
BY FlightCounts, PTL

\* What a step may do to the frames of one direction.
SameUp == UNCHANGED <<accepted, UpFlight, Len(taken[Mine])>>
SameDown == UNCHANGED <<pushed, DownFlight, got>>
Fewer ==
  /\ UNCHANGED <<accepted, Len(taken[Mine]), pushed, got>>
  /\ UpFlight' <= UpFlight /\ DownFlight' <= DownFlight

StreamStep ==
  \/ Fewer /\ ~Alive'
  \/ (Alive' <=> Alive) /\ SameDown /\ SameUp
  \/ /\ Alive' <=> Alive
     /\ SameDown
     /\ \/ accepted' = accepted + 1 /\ UpFlight' = UpFlight + 1 /\ UNCHANGED Len(taken[Mine])
        \/ /\ UpFlight > 0 /\ UpFlight' = UpFlight - 1
           /\ Len(taken[Mine])' = Len(taken[Mine]) + 1 /\ UNCHANGED accepted
  \/ /\ Alive' <=> Alive
     /\ SameUp
     /\ \/ pushed' = pushed + 1 /\ DownFlight' = DownFlight + 1 /\ UNCHANGED got
        \/ DownFlight > 0 /\ DownFlight' = DownFlight - 1 /\ got' = got + 1 /\ UNCHANGED pushed

\* What is left of a sum when one part of it stays, and when one moves to the other.
LEMMA SumFixed ==
  ASSUME NEW m \in Nat, NEW a \in Nat, NEW b \in Nat, a + m = b + m
  PROVE  a = b
OBVIOUS

LEMMA SumFixedLeft ==
  ASSUME NEW m \in Nat, NEW a \in Nat, NEW b \in Nat, m + a = m + b
  PROVE  a = b
OBVIOUS

LEMMA SumMoved ==
  ASSUME NEW m \in Nat, NEW a \in Nat, NEW b \in Nat, a + (m + 1) = b + m
  PROVE  b > 0 /\ a = b - 1
OBVIOUS

\* A step that changes no count of what was written or read.
LEMMA Uncounted ==
  ASSUME ClientInv, ClientInv', Alive' => Alive,
         UNCHANGED <<accepted, Len(taken[Mine]), pushed, got>>,
         UpFlight' <= UpFlight, DownFlight' <= DownFlight
  PROVE  StreamStep
<1> DEFINE read == Len(taken[Mine])
<1>1. /\ UpFlight \in Nat /\ DownFlight \in Nat /\ got \in Nat /\ read \in Nat
      /\ Alive => accepted = UpFlight + read /\ pushed = DownFlight + got
  BY FlightCounts DEF Counted
<1>2. /\ UpFlight' \in Nat /\ DownFlight' \in Nat
      /\ Alive' => accepted' = UpFlight' + read' /\ pushed' = DownFlight' + got'
  BY CountsNext DEF Counted
<1>3. accepted' = accepted /\ read' = read /\ pushed' = pushed /\ got' = got
  OBVIOUS
<1>4. CASE Alive'
  <2> HIDE DEF read
  <2>1. UpFlight' + read = UpFlight + read /\ DownFlight' + got = DownFlight + got
    BY <1>1, <1>2, <1>3, <1>4, Zenon
  <2>2. UpFlight' = UpFlight /\ DownFlight' = DownFlight
    BY <1>1, <1>2, <2>1, SumFixed, Zenon
  <2> QED
    BY <1>3, <1>4, <2>2, Zenon DEF StreamStep, SameUp, SameDown, read
<1>5. CASE ~Alive'
  BY <1>5, Zenon DEF StreamStep, Fewer
<1> QED
  BY <1>4, <1>5

LEMMA StartStreams ==
  ASSUME ClientInv, ClientInv', NEW x \in Thread, Starts(x)
  PROVE  StreamStep
<1> DEFINE queue == Len(inbound[Mine])
<1>1. via = None /\ body = 0
  BY DEF ClientInv, Starts, Turns, Served
<1>2. pending' = 0 /\ body' = 0 /\ UNCHANGED <<accepted, pushed, got, cclosed>>
  BY DEF Starts, StartExchange, closeVars
<1>3. pending \in Nat /\ queue \in Nat
  BY FlightCounts DEF Counted
<1>4. UpFlight = pending + 0 + queue
  BY <1>1 DEF UpFlight
<1>5. UNCHANGED <<inbound, taken, outbound, life>> /\ UpFlight' \in {0 + 0 + queue, 0 + pending + queue}
  <2>1. CASE reg[Id] = None
    <3>1. via' = None /\ UNCHANGED serverVars
      BY <2>1 DEF Starts, StartExchange
    <3>2. UNCHANGED <<inbound, taken, outbound, life>>
      BY <3>1 DEF serverVars
    <3> QED
      BY <1>2, <3>1, <3>2 DEF UpFlight
  <2>2. CASE reg[Id] # None
    <3>1. PICK h \in Handler : via' = h /\ Server!Continue(h, Id, seq + 1, pending)
      BY <2>2 DEF Starts, StartExchange
    <3>2. UNCHANGED <<inbound, taken, outbound, life>>
      BY <3>1 DEF Server!Continue, Server!Request, Server!stream, Server!queues, Server!slot,
         Server!session
    <3>3. req'[h].size = pending /\ fed'[h] = 0
      BY <3>1 DEF Server!Continue, Server!Request, Carried, ClientInv, ClientTypeOK, Server!TypeOK
    <3>4. via' # None
      BY <3>1, ClientAssumption
    <3>5. UpFlight' = 0 + (pending - 0) + queue
      BY <1>2, <3>1, <3>2, <3>3, <3>4 DEF UpFlight
    <3> QED
      BY <1>3, <3>2, <3>5
  <2> QED
    BY <2>1, <2>2
<1>6. UpFlight' <= UpFlight
  <2>1. 0 + 0 + queue <= pending + 0 + queue /\ 0 + pending + queue <= pending + 0 + queue
    BY <1>3
  <2> QED
    BY <1>4, <1>5, <2>1, Zenon
<1>7. DownFlight' <= DownFlight
  BY <1>1, <1>2, <1>5 DEF DownFlight
<1> QED
  BY <1>2, <1>5, <1>6, <1>7, Uncounted DEF Alive

LEMMA WriteStreams ==
  ASSUME ClientInv, NEW x \in Thread, WriteFrame(x)
  PROVE  StreamStep
<1>1. /\ accepted' = accepted + 1 /\ pending' = pending + 1
      /\ UNCHANGED <<via, body, req, fed, inbound, taken, outbound, life, cclosed, pushed, got>>
  BY DEF WriteFrame, serverVars, wireVars, closeVars
<1>2. pending \in Nat /\ Hand \in Nat /\ Len(inbound[Mine]) \in Nat
  BY FlightCounts DEF Counted
<1>3. UpFlight = pending + Hand + Len(inbound[Mine])
  BY FlightCounts DEF Counted
<1>4. UpFlight' = (pending + 1) + Hand + Len(inbound[Mine])
  BY <1>1 DEF UpFlight, Hand
<1>5. (pending + 1) + Hand + Len(inbound[Mine]) = (pending + Hand + Len(inbound[Mine])) + 1
  <2> DEFINE queue == Len(inbound[Mine])
  <2>1. pending \in Nat /\ Hand \in Nat /\ queue \in Nat
    BY <1>2
  <2> HIDE DEF queue
  <2>2. (pending + 1) + Hand + queue = (pending + Hand + queue) + 1
    BY <2>1
  <2> QED
    BY <2>2 DEF queue
<1>6. SameDown /\ (Alive' <=> Alive)
  BY <1>1 DEF SameDown, DownFlight, Alive
<1>7. UpFlight' = UpFlight + 1
  BY <1>3, <1>4, <1>5, Zenon
<1> QED
  BY <1>1, <1>6, <1>7 DEF StreamStep

LEMMA ReadStreams ==
  ASSUME ClientInv, ReadFrame
  PROVE  StreamStep
<1>1. /\ body > 0 /\ body' = body - 1 /\ got' = got + 1
      /\ UNCHANGED <<via, pending, req, fed, inbound, taken, outbound, life, cclosed, pushed, accepted>>
  BY DEF ReadFrame, serverVars, batchVars, closeVars
<1>2. SameUp /\ (Alive' <=> Alive)
  BY <1>1 DEF SameUp, UpFlight, Alive
<1>3. body \in Nat
  BY FlightCounts DEF Counted
<1>4. DownFlight > 0 /\ DownFlight' = DownFlight - 1
  BY <1>1, <1>3 DEF DownFlight
<1> QED
  BY <1>1, <1>2, <1>4 DEF StreamStep

\* A client that lets go of an exchange gives up what is left of it, and no more.
LEMMA LetGoStreams ==
  ASSUME ClientInv, ClientInv', UNCHANGED <<serverVars, accepted, pending, pushed, got>>,
         cclosed => cclosed', via' \in {via, None}, body' \in {body, 0}
  PROVE  StreamStep
<1> DEFINE queue == Len(inbound[Mine])
           slot == IF outbound[Mine] THEN 1 ELSE 0
<1>1. UNCHANGED <<req, fed, inbound, taken, outbound, life>>
  BY DEF serverVars
<1>2. Hand \in Nat /\ pending \in Nat /\ queue \in Nat /\ body \in Nat /\ slot \in Nat
  BY FlightCounts DEF Counted
<1>3. UpFlight' <= UpFlight
  <2>1. UpFlight = pending + Hand + queue
    BY FlightCounts DEF Counted
  <2>2. UpFlight' \in {pending + Hand + queue, pending + 0 + queue}
    BY <1>1 DEF UpFlight, Hand
  <2>3. pending + Hand + queue <= pending + Hand + queue /\ pending + 0 + queue <= pending + Hand + queue
    BY <1>2
  <2> QED
    BY <2>1, <2>2, <2>3, Zenon
<1>4. DownFlight' <= DownFlight
  <2>1. DownFlight = body + slot /\ DownFlight' \in {body + slot, 0 + slot}
    BY <1>1 DEF DownFlight
  <2>2. body + slot <= body + slot /\ 0 + slot <= body + slot
    BY <1>2
  <2> QED
    BY <2>1, <2>2, Zenon
<1>5. Alive' => Alive
  BY <1>1 DEF Alive
<1> QED
  BY <1>1, <1>3, <1>4, <1>5, Uncounted

LEMMA RequestStreams ==
  ASSUME ClientInv, ClientInv', NEW h \in Handler, HandlerStep(h) \/ HandlerBreaks(h)
  PROVE  StreamStep
<1>1. /\ via = h /\ via' = h /\ via # None
      /\ UNCHANGED <<accepted, pending, pushed, got, cclosed>>
      /\ body' = IF hpc[h] = "flush" /\ hpc'[h] = "flush" THEN body + 1 ELSE body
  <2>1. Server!TypeOK'
    BY RequestTyped DEF ClientInv, ClientTypeOK
  <2> QED
    BY <2>1, RequestKnown, RequestTurns DEF clientVars, batchVars, closeVars
<1> DEFINE size == req[h].size
           done == fed[h]
           queue == Len(inbound[Mine])
<1>2. /\ size \in Nat /\ done \in Nat /\ done <= size /\ queue \in Nat /\ pending \in Nat
      /\ body \in Nat
  <2>1. size \in Nat /\ done \in Nat /\ done <= size
    <3>1. size \in 0..MaxUp /\ done \in 0..MaxUp
      BY DEF ClientInv, ClientTypeOK, Server!TypeOK
    <3>2. done <= size
      BY DEF ClientInv, Carried
    <3> QED
      BY <3>1, <3>2, ClientAssumption
  <2>2. queue \in Nat /\ pending \in Nat /\ body \in Nat
    BY FlightCounts DEF Counted
  <2> QED
    BY <2>1, <2>2
<1>3. Hand = size - done /\ Hand' = size' - done'
  BY <1>1 DEF Hand
<1>4. /\ UNCHANGED taken
      /\ life[Mine] # "open" => life'[Mine] # "open"
      /\ \/ UNCHANGED <<size, done, queue>>
         \/ size' = size /\ done' = done + 1 /\ queue' = queue + 1
         \/ size' = 0 /\ done' = 0 /\ UNCHANGED queue
      /\ \/ UNCHANGED outbound /\ ~(hpc[h] = "flush" /\ hpc'[h] = "flush")
         \/ outbound[Mine] /\ ~outbound'[Mine]
  <2>1. at[h] = Mine
    BY RequestKnown
  <2> USE <2>1 DEF ClientInv, ClientTypeOK, Server!TypeOK, Server!stream, Server!slot,
          Server!queues, Server!session, Server!windowRest
  <2>2. CASE Server!BeginWindow(h)
    BY <2>2 DEF Server!BeginWindow
  <2>3. CASE Server!DrainFrame(h)
    BY <2>3 DEF Server!DrainFrame, Server!Abandon, Server!CloseStream
  <2>4. CASE Server!DrainPush(h)
    <3>1. inbound[Mine] \in Seq(Server!Frame)
      OBVIOUS
    <3>2. queue' = queue + 1
      BY <2>4, <3>1 DEF Server!DrainPush
    <3> HIDE DEF queue
    <3> QED
      BY <2>4, <3>2 DEF Server!DrainPush
  <2>5. CASE Server!DrainClosed(h)
    BY <2>5 DEF Server!DrainClosed, Server!Abandon, Server!CloseStream
  <2>6. CASE Server!DrainEnd(h)
    BY <2>6 DEF Server!DrainEnd
  <2>7. CASE Server!FlushFrame(h)
    BY <2>7 DEF Server!FlushFrame
  <2>8. CASE Server!FlushEnd(h)
    BY <2>8 DEF Server!FlushEnd
  <2>9. CASE Server!EndWindow(h)
    BY <2>9 DEF Server!EndWindow, Server!Forget, Server!NoRequest
  <2>10. CASE Server!DrainBroken(h)
    BY <2>10 DEF Server!DrainBroken, Server!Abandon, Server!CloseStream
  <2>11. CASE Server!HeadersLost(h)
    BY <2>11 DEF Server!HeadersLost
  <2>12. CASE Server!FlushFails(h)
    BY <2>12 DEF Server!FlushFails, Server!Abandon, Server!CloseStream
  <2> QED
    BY <2>2, <2>3, <2>4, <2>5, <2>6, <2>7, <2>8, <2>9, <2>10, <2>11, <2>12, RequestKnown
    DEF HandlerStep, HandlerBreaks, Server!HandlerRuns
<1>5. UpFlight' <= UpFlight
  <2>1. UpFlight = pending + (size - done) + queue
    BY <1>1 DEF UpFlight
  <2>2. UpFlight' = pending + (size' - done') + queue'
    BY <1>1 DEF UpFlight
  <2> HIDE DEF size, done, queue
  <2>3. UpFlight' \in {pending + (size - done) + queue, pending + (size - (done + 1)) + (queue + 1),
                       pending + (0 - 0) + queue}
    BY <1>4, <2>2, Zenon
  <2>4. /\ pending + (size - done) + queue <= pending + (size - done) + queue
        /\ pending + (size - (done + 1)) + (queue + 1) <= pending + (size - done) + queue
        /\ pending + (0 - 0) + queue <= pending + (size - done) + queue
    BY <1>2
  <2> QED
    BY <2>1, <2>3, <2>4, Zenon
<1>6. DownFlight' <= DownFlight
  BY <1>1, <1>2, <1>4 DEF DownFlight
<1>7. Alive' => Alive
  BY <1>1, <1>4 DEF Alive
<1> QED
  BY <1>1, <1>4, <1>5, <1>6, <1>7, Uncounted

LEMMA SessionStreams ==
  ASSUME ClientInv, ClientInv', SessionStep \/ SessionInput \/ Unregister
  PROVE  StreamStep
<1> DEFINE queue == Len(inbound[Mine])
           read == Len(taken[Mine])
<1>1. SessionSeen
  BY SessionSteps
<1>2. UNCHANGED <<accepted, pending, via, body, req, fed, cclosed, got>>
  BY <1>1 DEF SessionSeen, clientVars, batchVars, closeVars
<1>3. /\ UpFlight = pending + Hand + queue /\ UpFlight' = pending + Hand + queue'
      /\ Hand \in Nat /\ pending \in Nat /\ queue \in Nat /\ queue' \in Nat /\ read \in Nat
      /\ body \in Nat /\ pushed \in Nat
  BY <1>2, FlightCounts, CountsNext DEF Counted, UpFlight, Hand
<1>4. queue' + read' = queue + read
  BY <1>1 DEF SessionSeen
<1>5. Alive' => Alive
  BY <1>1, <1>2 DEF Alive, SessionSeen
<1>6. ASSUME read' = read
      PROVE  queue' = queue /\ UpFlight' = UpFlight
  <2> HIDE DEF queue, read
  <2>1. queue' = queue
    BY <1>3, <1>4, <1>6, SumFixed, Zenon
  <2> QED
    BY <1>3, <2>1, Zenon
<1>7. CASE read' = read /\ outbound'[Mine] = outbound[Mine]
  <2>1. DownFlight' = DownFlight /\ pushed' = pushed
    BY <1>1, <1>2, <1>7 DEF DownFlight, SessionSeen
  <2>2. UpFlight \in Nat /\ DownFlight \in Nat
    BY FlightCounts DEF Counted
  <2>3. UpFlight <= UpFlight /\ DownFlight <= DownFlight
    BY <2>2
  <2>4. UpFlight' <= UpFlight /\ DownFlight' <= DownFlight
    BY <1>6, <1>7, <2>1, <2>3, Zenon
  <2> QED
    BY <1>2, <1>5, <1>7, <2>1, <2>4, Uncounted
<1>8. CASE outbound'[Mine] # outbound[Mine]
  <2>1. life' = life /\ inbound' = inbound
    BY <1>1, <1>8 DEF SessionSeen
  <2>2. read' = read
    <3>1. queue' = queue
      BY <2>1
    <3>2. read' \in Nat
      BY CountsNext DEF Counted
    <3> HIDE DEF queue, read
    <3>3. queue + read' = queue + read
      BY <1>4, <3>1, Zenon
    <3> QED
      BY <1>3, <3>2, <3>3, SumFixedLeft, Zenon
  <2>3. outbound'[Mine] /\ ~outbound[Mine]
    BY <1>1, <1>8 DEF SessionSeen, ClientInv, ClientTypeOK, Server!TypeOK
  <2>4. pushed' = pushed + 1
    BY <1>1, <2>3 DEF SessionSeen
  <2>5. DownFlight' = DownFlight + 1
    BY <1>2, <1>3, <2>3 DEF DownFlight
  <2>6. SameUp /\ (Alive' <=> Alive)
    BY <1>2, <1>6, <2>1, <2>2 DEF SameUp, Alive
  <2> QED
    BY <1>2, <2>4, <2>5, <2>6 DEF StreamStep
<1>9. CASE read' # read /\ outbound'[Mine] = outbound[Mine]
  <2>1. read' = read + 1 /\ life' = life
    BY <1>1, <1>9 DEF SessionSeen
  <2>2. UpFlight > 0 /\ UpFlight' = UpFlight - 1
    <3> HIDE DEF queue, read
    <3>1. queue' + (read + 1) = queue + read
      BY <1>4, <2>1, Zenon
    <3>2. queue > 0 /\ queue' = queue - 1
      BY <1>3, <3>1, SumMoved, Zenon
    <3>3. UpFlight' = pending + Hand + (queue - 1)
      BY <1>3, <3>2, Zenon
    <3>4. pending + Hand + queue > 0
          /\ pending + Hand + (queue - 1) = (pending + Hand + queue) - 1
      BY <1>3, <3>2
    <3> QED
      BY <1>3, <3>3, <3>4, Zenon
  <2>3. DownFlight' = DownFlight /\ pushed' = pushed
    BY <1>1, <1>2, <1>9 DEF DownFlight, SessionSeen
  <2>4. SameDown /\ (Alive' <=> Alive)
    BY <1>2, <2>1, <2>3 DEF SameDown, Alive
  <2> QED
    BY <1>2, <2>1, <2>2, <2>4 DEF StreamStep
<1> QED
  BY <1>7, <1>8, <1>9

LEMMA StepStreams ==
  ASSUME ClientInv, [Next]_vars
  PROVE  StreamStep
<1>1. ClientInv'
  BY StepKeeps
<1> USE DEF batchVars, wireVars, closeVars
<1>2. ASSUME NEW x \in Thread, Starts(x) \/ WriteFrame(x) \/ ExchangeFails(x)
      PROVE  StreamStep
  <2>1. CASE ExchangeFails(x)
    BY <1>1, <2>1, LetGoStreams DEF ExchangeFails, Fail
  <2> QED
    BY <1>1, <1>2, <2>1, StartStreams, WriteStreams
<1>3. QuietStep => StreamStep
  BY <1>1, QuietSteps, LetGoStreams DEF Quiet
<1>4. WindowDone => StreamStep
  BY <1>1, LetGoStreams DEF WindowDone
<1>5. WindowBroken => StreamStep
  BY <1>1, LetGoStreams DEF WindowBroken
<1>6. CloseEnd => StreamStep
  BY <1>1, LetGoStreams DEF CloseEnd
<1>7. UNCHANGED vars => StreamStep
  BY <1>1, LetGoStreams DEF vars
<1> QED
  BY <1>1, <1>2, <1>3, <1>4, <1>5, <1>6, <1>7, StepCases, ReadStreams, RequestStreams,
    SessionStreams

\* In the terms of TunnelStream.
LEMMA StreamMaps ==
  ASSUME StreamStep, UpFlight \in Nat, DownFlight \in Nat, UpFlight' \in Nat, DownFlight' \in Nat
  PROVE  [Carrier!Next]_Carrier!vars
<1> DEFINE w == [e \in {"client", "exit"} |-> IF e = "client" THEN accepted ELSE pushed]
           f == [e \in {"client", "exit"} |-> IF e = "client" THEN UpFlight ELSE DownFlight]
           r == [e \in {"client", "exit"} |-> IF e = "client" THEN Len(taken[Mine]) ELSE got]
<1> USE DEF Carrier!End
<1>1. CASE Fewer /\ ~Alive'
  <2>1. w' = w /\ r' = r
    BY <1>1 DEF Fewer
  <2>2. UpFlight' \in 0..f["client"] /\ DownFlight' \in 0..f["exit"]
    BY <1>1 DEF Fewer
  <2>3. Carrier!Close
    BY <1>1, <2>1, <2>2 DEF Carrier!Close
  <2> QED
    BY <2>3 DEF Carrier!Next
<1>2. CASE (Alive' <=> Alive) /\ SameDown /\ SameUp
  BY <1>2 DEF SameDown, SameUp, Carrier!vars
<1>3. CASE /\ Alive' <=> Alive
           /\ SameDown /\ UNCHANGED Len(taken[Mine])
           /\ accepted' = accepted + 1 /\ UpFlight' = UpFlight + 1
  BY <1>3 DEF SameDown, Carrier!Next, Carrier!writeTunnelMsg
<1>4. CASE /\ Alive' <=> Alive
           /\ SameDown /\ UNCHANGED accepted
           /\ UpFlight > 0 /\ UpFlight' = UpFlight - 1
           /\ Len(taken[Mine])' = Len(taken[Mine]) + 1
  BY <1>4 DEF SameDown, Carrier!Next, Carrier!readTunnelMsg
<1>5. CASE /\ Alive' <=> Alive
           /\ SameUp /\ UNCHANGED got
           /\ pushed' = pushed + 1 /\ DownFlight' = DownFlight + 1
  BY <1>5 DEF SameUp, Carrier!Next, Carrier!writeTunnelMsg
<1>6. CASE /\ Alive' <=> Alive
           /\ SameUp /\ UNCHANGED pushed
           /\ DownFlight > 0 /\ DownFlight' = DownFlight - 1 /\ got' = got + 1
  BY <1>6 DEF SameUp, Carrier!Next, Carrier!readTunnelMsg
<1> QED
  BY <1>1, <1>2, <1>3, <1>4, <1>5, <1>6 DEF StreamStep

\* Mode E is a carrier like the others: however the windows follow each other, fail or
\* cross with a close, every frame is read once at the other end, and none is lost before
\* the session ends (CarriesFrames: windowStream, exchangeStream; tunnelStream).
THEOREM CarrierImplemented == Spec => CarriesFrames
<1>1. Init => Carrier!Init
  <2> SUFFICES ASSUME Init PROVE Carrier!Init
    OBVIOUS
  <2>1. UpFlight = 0 /\ DownFlight = 0 /\ Len(taken[Mine]) = 0 /\ Alive
    BY DEF Init, UpFlight, DownFlight, Alive
  <2> QED
    BY <2>1 DEF Init, Carrier!Init, Carrier!End
<1>2. ClientInv /\ ClientInv' /\ [Next]_vars => [Carrier!Next]_Carrier!vars
  BY StepStreams, StreamMaps, FlightCounts, CountsNext DEF Counted
<1> QED
  BY <1>1, <1>2, ClientInvariant, PTL DEF Spec, CarriesFrames, Carrier!Spec
=============================================================================
