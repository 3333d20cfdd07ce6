--------------------------- MODULE ExchangeProofs ---------------------------
(***************************************************************************)
(* Proofs about ExchangeServer, for any number of trace ids, sessions and   *)
(* concurrent requests, and any sizes of windows and queues.                *)
(***************************************************************************)
EXTENDS ExchangeServer, FiniteSetTheorems, SequenceTheorems, TLAPS

-----------------------------------------------------------------------------
(* Queues *)

\* What a push and a pop do to a queue.
LEMMA QueueFacts ==
  ASSUME NEW q \in Seq(Frame), NEW f \in Frame
  PROVE  /\ Append(q, f) \in Seq(Frame) /\ Len(Append(q, f)) = Len(q) + 1
         /\ q # <<>> => /\ Head(q) \in Frame /\ Tail(q) \in Seq(Frame)
                        /\ Len(Tail(q)) = Len(q) - 1
         /\ Len(q) \in Nat
OBVIOUS

-----------------------------------------------------------------------------
(* Type correctness *)

\* The two queues and the rest of the state are typed apart: only DrainPush and
\* ReadFrame touch the queues.
QueuesOK ==
  /\ inbound \in [Stream -> Seq(Frame)]
  /\ \A s \in Stream : Len(inbound[s]) <= InCap
  /\ taken \in [Stream -> Seq(Frame)]

LifeOK ==
  /\ reg \in [Trace -> Stream \cup {None}]
  /\ life \in [Stream -> {"unborn", "open", "closing", "closed"}]
  /\ trace \in [Stream -> Trace \cup {None}]

SlotOK ==
  /\ nextSpan \in [Stream -> 1..(MaxSpan + 1)]
  /\ inFlight \in [Stream -> BOOLEAN]

SessionOK ==
  /\ inBytes \in [Stream -> Int]
  /\ outbound \in [Stream -> BOOLEAN]
  /\ relaying \in [Stream -> BOOLEAN]
  /\ rpc \in [Stream -> {"read", "popped", "answer", "violate", "over", "done"}]
  /\ wpc \in [Stream -> {"idle", "write", "done"}]
  /\ timer \in [Stream -> BOOLEAN]
  /\ firing \in [Stream -> BOOLEAN]
  /\ timedOut \in [Stream -> BOOLEAN]
  /\ reaped \in [Stream -> BOOLEAN]
  /\ verdict \in [Stream -> Verdict]

HandlerOK ==
  /\ hpc \in [Handler -> {"idle", "begin"} \cup Holding]
  /\ req \in [Handler -> [span : Span, size : 0..MaxSize]]
  /\ at \in [Handler -> Stream \cup {None}]
  /\ fed \in [Handler -> 0..MaxSize]

\* The parts make up TypeOK.
LEMMA TypeParts ==
  /\ TypeOK <=> QueuesOK /\ LifeOK /\ SlotOK /\ SessionOK /\ HandlerOK
  /\ TypeOK' <=> QueuesOK' /\ LifeOK' /\ SlotOK' /\ SessionOK' /\ HandlerOK'
BY DEF TypeOK, QueuesOK, LifeOK, SlotOK, SessionOK, HandlerOK

\* A request comes in, whatever session it turns out to be for.
LEMMA RequestTyped ==
  ASSUME TypeOK, FedBehind, NEW h \in Handler, NEW sp \in Span, NEW n \in 0..MaxSize,
         Request(h, sp, n), at' \in [Handler -> Stream \cup {None}]
  PROVE  /\ HandlerOK' /\ FedBehind' /\ QueuesOK' /\ SlotOK'
         /\ inBytes' = inBytes /\ outbound' = outbound
BY TypeParts DEF QueuesOK, SlotOK, HandlerOK, FedBehind, Request, Holding, slot, queues

\* Close's first half.
LEMMA CloseTyped ==
  ASSUME TypeOK, NEW s \in Stream \cup {None}, CloseStream(s)
  PROVE  /\ life' \in [Stream -> {"unborn", "open", "closing", "closed"}]
         /\ timer' \in [Stream -> BOOLEAN]
BY DEF TypeOK, CloseStream

\* The steps of a request.  DrainPush needs FedBehind: it numbers the frame it
\* admits.
LEMMA HandlerTyped ==
  ASSUME TypeOK, FedBehind, NEW h \in Handler,
         HandlerRuns(h) \/ DrainBroken(h) \/ HeadersLost(h) \/ FlushFails(h)
  PROVE  TypeOK' /\ FedBehind'
<1> USE DEF stream, slot, queues, session, handler
<1>1. CASE BeginWindow(h)
  <2>1. \A s \in Stream : s = at[h] => nextSpan[s] + 1 \in 1..(MaxSpan + 1)
    BY <1>1, ExchangeAssumption DEF TypeOK, Span, BeginWindow
  <2>2. QueuesOK' /\ LifeOK' /\ SlotOK'
    BY <1>1, ExchangeAssumption, <2>1 DEF TypeOK, QueuesOK, LifeOK, SlotOK, BeginWindow
  <2>3. SessionOK'
    BY <1>1, ExchangeAssumption, <2>1 DEF TypeOK, SessionOK, BeginWindow
  <2>4. HandlerOK' /\ FedBehind'
    BY <1>1, ExchangeAssumption DEF TypeOK, HandlerOK, FedBehind, Holding, BeginWindow
  <2>5. QED
    BY <2>2, <2>3, <2>4, TypeParts
<1>2. CASE RefuseWindow(h)
  <2>1. QueuesOK' /\ LifeOK' /\ SlotOK'
    BY <1>2, ExchangeAssumption DEF TypeOK, QueuesOK, LifeOK, SlotOK, RefuseWindow,
      Forget
  <2>2. SessionOK'
    BY <1>2, ExchangeAssumption DEF TypeOK, SessionOK, RefuseWindow, Forget
  <2>3. HandlerOK' /\ FedBehind'
    BY <1>2, ExchangeAssumption DEF TypeOK, HandlerOK, FedBehind, Holding, NoRequest,
      Span, RefuseWindow, Forget
  <2>4. QED
    BY <2>1, <2>2, <2>3, TypeParts
<1>3. CASE DrainFrame(h)
  <2>1. /\ life' \in [Stream -> {"unborn", "open", "closing", "closed"}]
        /\ timer' \in [Stream -> BOOLEAN]
    BY <1>3, CloseTyped DEF TypeOK, DrainFrame, Abandon
  <2>2. inBytes' \in [Stream -> Int]
    <3>1. \A s \in Stream : inBytes[s] + 1 \in Int
      BY DEF TypeOK
    <3>2. inBytes' = [inBytes EXCEPT ![at[h]] = inBytes[at[h]] + 1]
      BY <1>3 DEF DrainFrame
    <3>3. QED
      BY <3>1, <3>2 DEF TypeOK
  <2>3. QueuesOK' /\ LifeOK' /\ SlotOK'
    BY <1>3, ExchangeAssumption, <2>1, <2>2 DEF TypeOK, QueuesOK, LifeOK, SlotOK,
      DrainFrame, windowRest
  <2>4. SessionOK'
    BY <1>3, ExchangeAssumption, <2>1, <2>2 DEF TypeOK, SessionOK, DrainFrame,
      windowRest
  <2>5. HandlerOK' /\ FedBehind'
    BY <1>3, ExchangeAssumption DEF TypeOK, HandlerOK, FedBehind, Holding, DrainFrame,
      windowRest, Abandon
  <2>6. QED
    BY <2>3, <2>4, <2>5, TypeParts
<1>4. CASE DrainClosed(h)
  <2>1. /\ life' \in [Stream -> {"unborn", "open", "closing", "closed"}]
        /\ timer' \in [Stream -> BOOLEAN]
    BY <1>4, CloseTyped DEF TypeOK, DrainClosed, Abandon
  <2>2. inBytes' \in [Stream -> Int]
    <3>1. \A s \in Stream : inBytes[s] - 1 \in Int
      BY DEF TypeOK
    <3>2. inBytes' = [inBytes EXCEPT ![at[h]] = inBytes[at[h]] - 1]
      BY <1>4 DEF DrainClosed
    <3>3. QED
      BY <3>1, <3>2 DEF TypeOK
  <2>3. QueuesOK' /\ LifeOK' /\ SlotOK'
    BY <1>4, ExchangeAssumption, <2>1, <2>2 DEF TypeOK, QueuesOK, LifeOK, SlotOK,
      DrainClosed, windowRest
  <2>4. SessionOK'
    BY <1>4, ExchangeAssumption, <2>1, <2>2 DEF TypeOK, SessionOK, DrainClosed,
      windowRest
  <2>5. HandlerOK' /\ FedBehind'
    BY <1>4, ExchangeAssumption DEF TypeOK, HandlerOK, FedBehind, Holding, DrainClosed,
      windowRest, Abandon
  <2>6. QED
    BY <2>3, <2>4, <2>5, TypeParts
<1>5. CASE DrainBroken(h)
  BY <1>5, CloseTyped DEF TypeOK, FedBehind, Holding, DrainBroken, windowRest, Abandon
<1>6. CASE DrainEnd(h)
  BY <1>6 DEF TypeOK, FedBehind, Holding, DrainEnd, windowRest
<1>7. CASE HeadersLost(h)
  BY <1>7 DEF TypeOK, FedBehind, Holding, HeadersLost, windowRest
<1>8. CASE FlushFrame(h)
  BY <1>8 DEF TypeOK, FedBehind, Holding, FlushFrame, windowRest
<1>9. CASE FlushFails(h)
  <2>1. /\ life' \in [Stream -> {"unborn", "open", "closing", "closed"}]
        /\ timer' \in [Stream -> BOOLEAN]
    BY <1>9, CloseTyped DEF TypeOK, FlushFails, Abandon
  <2>2. QueuesOK' /\ LifeOK' /\ SlotOK'
    BY <1>9, ExchangeAssumption, <2>1 DEF TypeOK, QueuesOK, LifeOK, SlotOK, FlushFails,
      windowRest
  <2>3. SessionOK'
    BY <1>9, ExchangeAssumption, <2>1 DEF TypeOK, SessionOK, FlushFails, windowRest
  <2>4. HandlerOK' /\ FedBehind'
    BY <1>9, ExchangeAssumption DEF TypeOK, HandlerOK, FedBehind, Holding, FlushFails,
      windowRest, Abandon
  <2>5. QED
    BY <2>2, <2>3, <2>4, TypeParts
<1>10. CASE FlushEnd(h)
  BY <1>10 DEF TypeOK, FedBehind, Holding, FlushEnd, windowRest
<1>11. CASE EndWindow(h)
  <2>1. QueuesOK' /\ LifeOK' /\ SlotOK'
    BY <1>11, ExchangeAssumption DEF TypeOK, QueuesOK, LifeOK, SlotOK, EndWindow, Forget
  <2>2. SessionOK'
    BY <1>11, ExchangeAssumption DEF TypeOK, SessionOK, EndWindow, Forget
  <2>3. HandlerOK' /\ FedBehind'
    BY <1>11, ExchangeAssumption DEF TypeOK, HandlerOK, FedBehind, Holding, NoRequest,
      Span, EndWindow, Forget
  <2>4. QED
    BY <2>1, <2>2, <2>3, TypeParts
<1>12. CASE DrainPush(h)
  <2> DEFINE f == [span |-> req[h].span, k |-> fed[h] + 1, of |-> req[h].size]
  <2>1. f \in Frame
    <3>1. /\ fed[h] \in Nat /\ req[h].span \in Span /\ req[h].size \in 0..MaxSize
          /\ fed[h] < req[h].size
      BY <1>12 DEF DrainPush, FedBehind, TypeOK
    <3>2. fed[h] + 1 \in 1..MaxSize /\ req[h].size \in 1..MaxSize
      BY <3>1, ExchangeAssumption
    <3>3. QED
      BY <3>1, <3>2 DEF Frame
  <2>2. \A q \in Seq(Frame) : /\ Append(q, f) \in Seq(Frame)
                              /\ Len(Append(q, f)) = Len(q) + 1
                              /\ Len(q) \in Nat
    BY <2>1, QueueFacts
  <2>3. /\ inbound' = [inbound EXCEPT ![at[h]] = Append(@, f)]
        /\ Len(inbound[at[h]]) < InCap
    BY <1>12 DEF DrainPush
  <2> HIDE DEF f
  <2>4. inbound' \in [Stream -> Seq(Frame)] /\ \A s \in Stream : Len(inbound'[s]) <= InCap
    <3>1. \A s \in Stream : inbound'[s] = IF s = at[h] THEN Append(inbound[s], f)
                                                  ELSE inbound[s]
      BY <2>3 DEF TypeOK
    <3>2. \A s \in Stream : /\ inbound'[s] \in Seq(Frame)
                             /\ Len(inbound'[s]) <= InCap
      BY <2>2, <2>3, <3>1, ExchangeAssumption DEF TypeOK
    <3>3. QED
      BY <2>3, <3>2 DEF TypeOK
  <2>5. QueuesOK' /\ LifeOK' /\ SlotOK' /\ SessionOK'
    BY <1>12, <2>4 DEF TypeOK, QueuesOK, LifeOK, SlotOK, SessionOK, DrainPush, windowRest
  <2>6. fed[h] + 1 \in 0..MaxSize
    BY <1>12, ExchangeAssumption DEF DrainPush, FedBehind, TypeOK
  <2>7. HandlerOK' /\ FedBehind'
    BY <1>12, <2>6 DEF TypeOK, HandlerOK, FedBehind, Holding, DrainPush, windowRest
  <2>8. QED
    BY <2>5, <2>7, TypeParts
<1>13. QED
  BY <1>1, <1>2, <1>3, <1>4, <1>5, <1>6, <1>7, <1>8, <1>9, <1>10, <1>11, <1>12 DEF
    HandlerRuns

\* The steps of a session's goroutines and of its timer.
LEMMA SessionTyped ==
  ASSUME TypeOK, FedBehind, NEW s \in Stream,
         \/ ReaderRuns(s) \/ WriterRuns(s) \/ TimerRuns(s) \/ Unregister(s)
         \/ WriteStart(s) \/ WriterStops(s)
  PROVE  TypeOK' /\ FedBehind'
<1> USE DEF stream, slot, queues, session, handler
<1>1. CASE Deliver(s)
  BY <1>1 DEF TypeOK, FedBehind, Deliver, Accounted, Arm, sessionRest
<1>2. CASE Owe(s)
  BY <1>2 DEF TypeOK, FedBehind, Owe, Accounted, sessionRest
<1>3. CASE Conclude(s)
  BY <1>3 DEF TypeOK, FedBehind, Verdict, Conclude, Accounted, Record, sessionRest
<1>4. CASE Violate(s)
  BY <1>4, CloseTyped DEF TypeOK, FedBehind, Violate, Accounted, sessionRest
<1>5. CASE Violated(s)
  BY <1>5 DEF TypeOK, FedBehind, Verdict, Violated, Record, sessionRest
<1>6. CASE Answer(s)
  BY <1>6 DEF TypeOK, FedBehind, Answer, Arm, answerRest, sessionRest
<1>7. CASE AnswerRefused(s)
  BY <1>7 DEF TypeOK, FedBehind, Verdict, AnswerRefused, Record, answerRest, sessionRest
<1>8. CASE AnswerClosed(s)
  BY <1>8 DEF TypeOK, FedBehind, Verdict, AnswerClosed, Record, answerRest, sessionRest
<1>9. CASE ReadClosed(s)
  BY <1>9 DEF TypeOK, FedBehind, Verdict, ReadClosed, Record, answerRest, sessionRest
<1>10. CASE EndSession(s)
  BY <1>10, CloseTyped DEF TypeOK, FedBehind, EndSession, sessionRest
<1>11. CASE Write(s)
  BY <1>11 DEF TypeOK, FedBehind, Write, writerRest, sessionRest
<1>12. CASE WriteClosed(s)
  BY <1>12 DEF TypeOK, FedBehind, Verdict, WriteClosed, Record, writerRest, sessionRest
<1>13. CASE WriterJoins(s)
  BY <1>13 DEF TypeOK, FedBehind, WriterJoins, writerRest, sessionRest
<1>14. CASE TimerFires(s)
  BY <1>14 DEF TypeOK, FedBehind, TimerFires
<1>15. CASE TimerCloses(s)
  BY <1>15, CloseTyped DEF TypeOK, FedBehind, TimerCloses
<1>16. CASE Unregister(s)
  BY <1>16 DEF TypeOK, FedBehind, Unregister
<1>17. CASE WriteStart(s)
  BY <1>17 DEF TypeOK, FedBehind, WriteStart, writerRest, sessionRest
<1>18. CASE WriterStops(s)
  BY <1>18, CloseTyped DEF TypeOK, FedBehind, Verdict, WriterStops, Record, writerRest,
    sessionRest
<1>19. CASE ReadFrame(s)
  <2>1. inbound[s] \in Seq(Frame) /\ inbound[s] # <<>> /\ taken[s] \in Seq(Frame)
    BY <1>19 DEF ReadFrame, TypeOK
  <2>2. /\ Tail(inbound[s]) \in Seq(Frame)
        /\ Len(Tail(inbound[s])) = Len(inbound[s]) - 1 /\ Len(inbound[s]) \in Nat
        /\ Append(taken[s], Head(inbound[s])) \in Seq(Frame)
    BY <2>1, QueueFacts
  <2>3. QueuesOK'
    BY <1>19, <2>2, ExchangeAssumption DEF QueuesOK, TypeOK, ReadFrame
  <2>4. LifeOK' /\ SlotOK' /\ SessionOK' /\ HandlerOK' /\ FedBehind'
    BY <1>19 DEF LifeOK, SlotOK, SessionOK, HandlerOK, TypeOK, FedBehind, ReadFrame, sessionRest
  <2>5. QED
    BY <2>3, <2>4, TypeParts
<1>20. QED
  BY <1>1, <1>2, <1>3, <1>4, <1>5, <1>6, <1>7, <1>8, <1>9, <1>10, <1>11, <1>12, <1>13,
    <1>14, <1>15, <1>16, <1>17, <1>18, <1>19 DEF ReaderRuns, WriterRuns, TimerRuns

\* The state always has the type TypeOK gives it; in particular a queue never
\* holds more than its capacity and no window beyond the last span is admitted.
THEOREM TypeCorrect == Spec => [](TypeOK /\ FedBehind)
<1>1. Init => TypeOK /\ FedBehind
  <2> SUFFICES ASSUME Init PROVE TypeOK /\ FedBehind
    OBVIOUS
  <2>1. QueuesOK
    BY ExchangeAssumption DEF Init, QueuesOK
  <2>2. LifeOK /\ SlotOK /\ SessionOK /\ HandlerOK /\ FedBehind
    BY ExchangeAssumption
       DEF Init, LifeOK, SlotOK, SessionOK, HandlerOK, FedBehind, Verdict, NoRequest, Span
  <2>3. QED
    BY <2>1, <2>2, TypeParts
<1>2. ASSUME TypeOK, FedBehind, [Next]_vars
      PROVE  TypeOK' /\ FedBehind'
  <2>1. ASSUME NEW h \in Handler, NEW t \in Trace, NEW sp \in Span, NEW n \in 0..MaxSize,
               Continue(h, t, sp, n)
        PROVE  TypeOK' /\ FedBehind'
    <3>1. at' \in [Handler -> Stream \cup {None}] /\ Request(h, sp, n)
      BY <1>2, <2>1 DEF TypeOK, Continue
    <3>2. HandlerOK' /\ FedBehind' /\ QueuesOK' /\ SlotOK' /\ inBytes' = inBytes
          /\ outbound' = outbound
      BY <1>2, <3>1, RequestTyped
    <3>3. LifeOK' /\ SessionOK'
      BY <1>2, <2>1, <3>2, TypeParts DEF LifeOK, SessionOK, Continue, Request, stream
    <3>4. QED
      BY <3>2, <3>3, TypeParts
  <2>2. ASSUME NEW h \in Handler, NEW t \in Trace, NEW sp \in Span, NEW n \in 0..MaxSize,
               Mint(h, t, sp, n)
        PROVE  TypeOK' /\ FedBehind'
    <3>1. at' \in [Handler -> Stream \cup {None}] /\ Request(h, sp, n)
      BY <1>2, <2>2 DEF TypeOK, Mint
    <3>2. HandlerOK' /\ FedBehind' /\ QueuesOK' /\ SlotOK' /\ inBytes' = inBytes
          /\ outbound' = outbound
      BY <1>2, <3>1, RequestTyped
    <3>3. LifeOK' /\ SessionOK'
      BY <1>2, <2>2, <3>2, TypeParts DEF LifeOK, SessionOK, Mint, Arm, Request
    <3>4. QED
      BY <3>2, <3>3, TypeParts
  <2>3. CASE UNCHANGED vars
    BY <1>2, <2>3 DEF vars, stream, slot, queues, session, handler, TypeOK, FedBehind
  <2>4. QED
    BY <1>2, <2>1, <2>2, <2>3, HandlerTyped, SessionTyped DEF Next
<1>3. QED
  BY <1>1, <1>2, PTL DEF Spec

-----------------------------------------------------------------------------
(* One window at a time *)

\* A step that takes and frees no slot.
LEMMA SlotQuiet ==
  ASSUME SlotHeld, UNCHANGED inFlight,
         \A h \in Handler : hpc[h] \in Holding <=> hpc'[h] \in Holding,
         \A h \in Handler : hpc[h] \in Holding => at'[h] = at[h]
  PROVE  SlotHeld'
BY DEF SlotHeld

\* beginWindow takes a free slot.
LEMMA SlotTaken ==
  ASSUME TypeOK, SlotHeld, NEW h \in Handler, BeginWindow(h)
  PROVE  SlotHeld'
<1>1. /\ hpc[h] \notin Holding /\ hpc'[h] \in Holding
      /\ \A g \in Handler \ {h} : hpc'[g] = hpc[g]
      /\ at' = at
  BY DEF TypeOK, BeginWindow, Holding
<1>2. /\ at[h] \in Stream => ~inFlight[at[h]] /\ inFlight'[at[h]]
      /\ \A s \in Stream : s # at[h] => inFlight'[s] = inFlight[s]
  BY DEF TypeOK, BeginWindow
<1>3. QED
  BY <1>1, <1>2 DEF SlotHeld

\* endWindow frees the slot of the one request that holds it.
LEMMA SlotFreed ==
  ASSUME TypeOK, SlotHeld, NEW h \in Handler, EndWindow(h)
  PROVE  SlotHeld'
<1>1. /\ hpc[h] \in Holding /\ hpc'[h] \notin Holding
      /\ \A g \in Handler \ {h} : hpc'[g] = hpc[g] /\ at'[g] = at[g]
  BY DEF TypeOK, EndWindow, Forget, Holding
<1>2. /\ at[h] \in Stream => ~inFlight'[at[h]]
      /\ \A s \in Stream : s # at[h] => inFlight'[s] = inFlight[s]
  BY DEF TypeOK, EndWindow
<1>3. QED
  BY <1>1, <1>2 DEF SlotHeld

\* What the goroutines behind the channels leave to the handlers, and what they
\* may do to the registry.
LEMMA SessionKeepsSlots ==
  ASSUME NEW s \in Stream,
         \/ ReaderRuns(s) \/ WriterRuns(s) \/ TimerRuns(s) \/ Unregister(s)
         \/ WriteStart(s) \/ WriterStops(s)
  PROVE  UNCHANGED <<slot, handler>>
BY DEF ReaderRuns, WriterRuns, TimerRuns, ReadFrame, Deliver, Owe, Conclude, Violate, Violated, Answer,
       AnswerRefused, AnswerClosed, ReadClosed, EndSession, Write, WriteClosed, WriterJoins,
       TimerFires, TimerCloses, Unregister, WriteStart, WriterStops, Accounted, answerRest,
       writerRest, sessionRest

\* A session changes no registry entry but through Unregister: all else it does
\* to its own life is Close (modee.go, Close before it takes the registry's lock).
LEMMA SessionKeepsEntries ==
  ASSUME NEW s \in Stream, ~Unregister(s),
         \/ ReaderRuns(s) \/ WriterRuns(s) \/ TimerRuns(s) \/ Unregister(s)
         \/ WriteStart(s) \/ WriterStops(s)
  PROVE  UNCHANGED <<trace, reg>> /\ (UNCHANGED life \/ CloseStream(s))
BY DEF ReaderRuns, WriterRuns, TimerRuns, ReadFrame, Deliver, Owe, Conclude, Violate, Violated, Answer,
       AnswerRefused, AnswerClosed, ReadClosed, EndSession, Write, WriteClosed, WriterJoins,
       TimerFires, TimerCloses, WriteStart, WriterStops, Accounted, answerRest,
       writerRest, sessionRest, stream

\* A session's slot is held by exactly one request, from beginWindow to
\* endWindow: no two windows of a session are served at once.
THEOREM OneWindow == Spec => []SlotHeld
<1>1. Init => SlotHeld
  BY DEF Init, SlotHeld, Holding
<1>2. ASSUME TypeOK, SlotHeld, [Next]_vars
      PROVE  SlotHeld'
  <2>1. ASSUME NEW h \in Handler, NEW t \in Trace, NEW sp \in Span, NEW n \in 0..MaxSize,
               Continue(h, t, sp, n) \/ Mint(h, t, sp, n)
        PROVE  SlotHeld'
    <3>1. /\ hpc[h] = "idle" /\ hpc' = [hpc EXCEPT ![h] = "begin"]
          /\ UNCHANGED inFlight
      BY <2>1 DEF Continue, Mint, Request, slot
    <3>2. \A g \in Handler \ {h} : at'[g] = at[g]
      BY <1>2, <2>1 DEF Continue, Mint, TypeOK
    <3>3. QED
      BY <1>2, <3>1, <3>2, SlotQuiet DEF TypeOK, Holding
  <2>2. ASSUME NEW h \in Handler,
               HandlerRuns(h) \/ DrainBroken(h) \/ HeadersLost(h) \/ FlushFails(h)
        PROVE  SlotHeld'
    <3> USE DEF slot
    <3>1. CASE BeginWindow(h)
      BY <1>2, <3>1, SlotTaken
    <3>2. CASE EndWindow(h)
      BY <1>2, <3>2, SlotFreed
    <3>3. CASE RefuseWindow(h)
      BY <1>2, <3>3, SlotQuiet DEF TypeOK, RefuseWindow, Forget, Holding
    <3>4. CASE \/ DrainFrame(h) \/ DrainPush(h) \/ DrainClosed(h) \/ DrainEnd(h)
               \/ FlushFrame(h) \/ FlushEnd(h)
               \/ DrainBroken(h) \/ HeadersLost(h) \/ FlushFails(h)
      <4>1. /\ hpc[h] \in Holding /\ UNCHANGED <<inFlight, at>>
            /\ hpc' = hpc \/ \E p \in Holding : hpc' = [hpc EXCEPT ![h] = p]
        BY <3>4 DEF DrainFrame, DrainPush, DrainClosed, DrainEnd, FlushFrame, FlushEnd,
                    DrainBroken, HeadersLost, FlushFails, Abandon, windowRest, Holding
      <4>2. QED
        BY <1>2, <4>1, SlotQuiet DEF TypeOK
    <3>5. QED
      BY <2>2, <3>1, <3>2, <3>3, <3>4 DEF HandlerRuns
  <2>3. ASSUME NEW s \in Stream,
               \/ ReaderRuns(s) \/ WriterRuns(s) \/ TimerRuns(s) \/ Unregister(s)
               \/ WriteStart(s) \/ WriterStops(s)
        PROVE  SlotHeld'
    <3>1. UNCHANGED <<slot, handler>>
      BY <2>3, SessionKeepsSlots
    <3>2. QED
      BY <1>2, <3>1, SlotQuiet DEF slot, handler
  <2>4. CASE UNCHANGED vars
    BY <1>2, <2>4, SlotQuiet DEF vars, slot, handler
  <2>5. QED
    BY <1>2, <2>1, <2>2, <2>3, <2>4 DEF Next
<1>3. QED
  BY <1>1, <1>2, TypeCorrect, PTL DEF Spec

-----------------------------------------------------------------------------
(* The registry *)

RegistryInv == EntryTraced /\ RegistryExact

\* A step that leaves the entries alone may begin to close sessions.
LEMMA RegistryQuiet ==
  ASSUME TypeOK, RegistryInv, UNCHANGED <<trace, reg>>,
         \A s \in Stream : life'[s] = life[s] \/ (life[s] = "open" /\ life'[s] = "closing")
  PROVE  RegistryInv'
<1>1. EntryTraced'
  BY DEF RegistryInv, EntryTraced
<1>2. \A s \in Stream : life[s] \in {"open", "closing"} <=> life'[s] \in {"open", "closing"}
  OBVIOUS
<1>3. RegistryExact'
  BY <1>2 DEF RegistryInv, RegistryExact
<1>4. QED
  BY <1>1, <1>3 DEF RegistryInv

\* Close may begin to close an open session and does nothing else to any life.
LEMMA CloseQuiet ==
  ASSUME TypeOK, NEW s \in Stream \cup {None}, CloseStream(s), NEW u \in Stream
  PROVE  life'[u] = life[u] \/ (life[u] = "open" /\ life'[u] = "closing")
BY DEF TypeOK, CloseStream

\* accept mints: one more entry, for a trace id that had none.
LEMMA RegistryGrows ==
  ASSUME TypeOK, RegistryInv, NEW h \in Handler, NEW t \in Trace, NEW sp \in Span,
         NEW n \in 0..MaxSize, Mint(h, t, sp, n)
  PROVE  RegistryInv'
<1> DEFINE Entries == {u \in Trace : reg[u] # None}
<1>1. PICK s \in Stream :
        /\ life[s] = "unborn" /\ life' = [life EXCEPT ![s] = "open"]
        /\ trace' = [trace EXCEPT ![s] = t] /\ reg' = [reg EXCEPT ![t] = s]
  BY DEF Mint
<1>2. reg[t] = None /\ Cardinality(Entries) < MaxSessions
  BY DEF Mint
<1>3. EntryTraced'
  BY <1>1 DEF RegistryInv, EntryTraced, TypeOK
<1>4. ASSUME NEW u \in Stream
      PROVE  /\ life'[u] \in {"open", "closing"} => reg'[trace'[u]] = u
             /\ \A v \in Trace :
                  reg'[v] = u => trace'[u] = v /\ life'[u] \in {"open", "closing"}
  <2>1. CASE u = s
    <3>1. \A v \in Trace : reg[v] # s
      BY <1>1 DEF RegistryInv, RegistryExact
    <3>2. QED
      BY <1>1, <2>1, <3>1 DEF TypeOK
  <2>2. CASE u # s
    <3>1. life'[u] = life[u] /\ trace'[u] = trace[u]
      BY <1>1, <2>2 DEF TypeOK
    <3>2. life[u] \in {"open", "closing"} => trace[u] \in Trace /\ reg[trace[u]] = u
      BY DEF RegistryInv, RegistryExact, EntryTraced
    <3>3. life[u] \in {"open", "closing"} => trace[u] # t
      BY <1>2, <3>2, ExchangeAssumption
    <3>4. QED
      BY <1>1, <2>2, <3>1, <3>2, <3>3 DEF TypeOK, RegistryInv, RegistryExact
  <2>3. QED
    BY <2>1, <2>2
<1>5. Cardinality({u \in Trace : reg'[u] # None}) <= MaxSessions
  <2>1. {u \in Trace : reg'[u] # None} = Entries \cup {t}
    BY <1>1, ExchangeAssumption DEF TypeOK
  <2>2. IsFiniteSet(Entries) /\ Cardinality(Entries) \in Nat /\ t \notin Entries
    BY <1>2, ExchangeAssumption, FS_Subset, FS_CardinalityType
  <2>3. Cardinality(Entries \cup {t}) = Cardinality(Entries) + 1
    BY <2>2, FS_AddElement
  <2>4. QED
    BY <1>2, <2>1, <2>2, <2>3, ExchangeAssumption
<1>6. QED
  BY <1>3, <1>4, <1>5 DEF RegistryInv, RegistryExact

\* The end of Close: the entry goes, and no other.
LEMMA RegistryShrinks ==
  ASSUME TypeOK, RegistryInv, NEW s \in Stream, Unregister(s)
  PROVE  RegistryInv'
<1>1. /\ life[s] = "closing" /\ life' = [life EXCEPT ![s] = "closed"]
      /\ reg' = [t \in Trace |-> IF t = trace[s] /\ reg[t] = s THEN None ELSE reg[t]]
      /\ trace' = trace
  BY DEF Unregister
<1>2. EntryTraced'
  BY <1>1 DEF RegistryInv, EntryTraced, TypeOK
<1>3. ASSUME NEW u \in Stream
      PROVE  /\ life'[u] \in {"open", "closing"} => reg'[trace'[u]] = u
             /\ \A v \in Trace :
                  reg'[v] = u => trace'[u] = v /\ life'[u] \in {"open", "closing"}
  <2>1. life[u] \in {"open", "closing"} => trace[u] \in Trace /\ reg[trace[u]] = u
    BY DEF RegistryInv, RegistryExact, EntryTraced
  <2>2. \A v \in Trace : reg[v] = u => trace[u] = v /\ life[u] \in {"open", "closing"}
    BY DEF RegistryInv, RegistryExact
  <2>3. CASE u = s
    BY <1>1, <2>2, <2>3, ExchangeAssumption DEF TypeOK
  <2>4. CASE u # s
    BY <1>1, <2>1, <2>2, <2>4, ExchangeAssumption DEF TypeOK
  <2>5. QED
    BY <2>3, <2>4
<1>4. Cardinality({t \in Trace : reg'[t] # None}) <= MaxSessions
  <2> DEFINE Entries == {t \in Trace : reg[t] # None}
             Left == {t \in Trace : reg'[t] # None}
  <2>1. Left \subseteq Entries
    BY <1>1
  <2>2. IsFiniteSet(Entries) /\ Cardinality(Left) <= Cardinality(Entries)
        /\ Cardinality(Left) \in Nat /\ Cardinality(Entries) \in Nat
    BY <2>1, ExchangeAssumption, FS_Subset, FS_CardinalityType
  <2>3. Cardinality(Entries) <= MaxSessions
    BY DEF RegistryInv, RegistryExact
  <2>4. QED
    BY <2>2, <2>3, ExchangeAssumption
<1>5. QED
  BY <1>2, <1>3, <1>4 DEF RegistryInv, RegistryExact

\* The registry maps each live session's trace id to that session and nothing
\* else, and never holds more than MaxSessions of them, whatever requests and
\* teardowns interleave.
THEOREM RegistryCorrect == Spec => []RegistryExact
<1>1. Init => RegistryInv
  <2> SUFFICES ASSUME Init PROVE RegistryInv
    OBVIOUS
  <2>1. EntryTraced
    BY DEF Init, EntryTraced
  <2>2. {t \in Trace : reg[t] # None} = {}
    BY DEF Init
  <2>3. Cardinality({t \in Trace : reg[t] # None}) <= MaxSessions
    BY <2>2, FS_EmptySet, ExchangeAssumption
  <2>4. QED
    BY <2>1, <2>3, ExchangeAssumption DEF Init, RegistryInv, RegistryExact
<1>2. ASSUME TypeOK, RegistryInv, [Next]_vars
      PROVE  RegistryInv'
  <2> USE DEF stream
  <2>1. ASSUME NEW h \in Handler, NEW t \in Trace, NEW sp \in Span, NEW n \in 0..MaxSize,
               Continue(h, t, sp, n) \/ Mint(h, t, sp, n)
        PROVE  RegistryInv'
    BY <1>2, <2>1, RegistryGrows, RegistryQuiet DEF Continue
  <2>2. ASSUME NEW h \in Handler,
               HandlerRuns(h) \/ DrainBroken(h) \/ HeadersLost(h) \/ FlushFails(h)
        PROVE  RegistryInv'
    <3>1. UNCHANGED <<trace, reg>> /\ (UNCHANGED life \/ CloseStream(at[h]))
      BY <2>2 DEF HandlerRuns, BeginWindow, RefuseWindow, DrainFrame, DrainPush, DrainClosed,
                  DrainEnd, FlushFrame, FlushEnd, EndWindow, DrainBroken, HeadersLost,
                  FlushFails, Abandon, windowRest
    <3>2. at[h] \in Stream \cup {None}
      BY <1>2 DEF TypeOK
    <3>3. QED
      BY <1>2, <3>1, <3>2, CloseQuiet, RegistryQuiet
  <2>3. ASSUME NEW s \in Stream,
               \/ ReaderRuns(s) \/ WriterRuns(s) \/ TimerRuns(s) \/ Unregister(s)
               \/ WriteStart(s) \/ WriterStops(s)
        PROVE  RegistryInv'
    <3>1. CASE Unregister(s)
      BY <1>2, <3>1, RegistryShrinks
    <3>2. CASE ~Unregister(s)
      <4>1. UNCHANGED <<trace, reg>> /\ (UNCHANGED life \/ CloseStream(s))
        BY <2>3, <3>2, SessionKeepsEntries
      <4>2. QED
        BY <1>2, <4>1, CloseQuiet, RegistryQuiet
    <3>3. QED
      BY <3>1, <3>2
  <2>4. CASE UNCHANGED vars
    BY <1>2, <2>4, RegistryQuiet DEF vars
  <2>5. QED
    BY <1>2, <2>1, <2>2, <2>3, <2>4 DEF Next
<1>3. QED
  BY <1>1, <1>2, TypeCorrect, PTL DEF Spec, RegistryInv
=============================================================================
