---------------------------- MODULE WindowProofs ----------------------------
(***************************************************************************)
(* Proofs about what a session of ExchangeServer is given: the byte budget  *)
(* of its inbound queue, and the order in which it sees the windows.        *)
(***************************************************************************)
EXTENDS ExchangeProofs

-----------------------------------------------------------------------------
(* The byte budget *)

\* Nothing has happened to a session that was not minted yet.
UnbornClean == \A s \in Stream : life[s] = "unborn" =>
  /\ inbound[s] = <<>> /\ taken[s] = <<>> /\ inBytes[s] = 0 /\ rpc[s] = "read"
  /\ \A h \in Handler : at[h] # s

\* Request h has a frame for s in its hand.
InHand(h, s) == at[h] = s /\ hpc[h] = "push"

\* The three places a charged frame of s can be in.
Charged(s) ==
  Len(inbound[s]) + (IF rpc[s] = "popped" THEN 1 ELSE 0)
                  + (IF \E h \in Handler : InHand(h, s) THEN 1 ELSE 0)

BudgetInv == \A s \in Stream : life[s] = "open" => inBytes[s] = Charged(s)

\* The slot of a session is held once, so at most one frame is in hand, and the
\* budget of the runs is the one proved about.
LEMMA HandCounted ==
  ASSUME SlotHeld, BudgetInv
  PROVE  BudgetExact
<1>1. \A s \in Stream :
        Cardinality({h \in Handler : at[h] = s /\ hpc[h] = "push"})
          = IF \E h \in Handler : InHand(h, s) THEN 1 ELSE 0
  <2> TAKE s \in Stream
  <2>1. CASE \E h \in Handler : InHand(h, s)
    <3>1. PICK h \in Handler : InHand(h, s)
      BY <2>1
    <3>2. {g \in Handler : at[g] = s /\ hpc[g] = "push"} = {h}
      BY <3>1 DEF SlotHeld, InHand, Holding
    <3>3. QED
      BY <2>1, <3>2, FS_Singleton
  <2>2. CASE ~\E h \in Handler : InHand(h, s)
    <3>1. {h \in Handler : at[h] = s /\ hpc[h] = "push"} = {}
      BY <2>2 DEF InHand
    <3>2. QED
      BY <2>2, <3>1, FS_EmptySet
  <2>3. QED
    BY <2>1, <2>2
<1>2. QED
  BY <1>1 DEF BudgetExact, BudgetInv, Charged

\* A session no step touches.
Untouched(s) ==
  /\ inbound'[s] = inbound[s] /\ taken'[s] = taken[s] /\ inBytes'[s] = inBytes[s]
  /\ rpc'[s] = rpc[s]
  /\ \A h \in Handler : InHand(h, s) <=> InHand(h, s)'

\* What Close, and everything else but accept, can do to lives.
NoneBorn == \A s \in Stream :
  /\ life'[s] = "open" => life[s] = "open"
  /\ life'[s] = "unborn" <=> life[s] = "unborn"

\* Close ends lives and begins none.
LEMMA CloseBearsNone ==
  ASSUME TypeOK, NEW s \in Stream \cup {None}, CloseStream(s)
  PROVE  NoneBorn
BY DEF TypeOK, CloseStream, NoneBorn

\* A session no step touches keeps its budget.
LEMMA BudgetUntouched ==
  ASSUME NEW s \in Stream, Untouched(s), life'[s] = "open" => life[s] = "open",
         life[s] = "open" => inBytes[s] = Charged(s)
  PROVE  life'[s] = "open" => inBytes'[s] = Charged(s)'
<1>1. (\E h \in Handler : InHand(h, s)) <=> (\E h \in Handler : InHand(h, s))'
  BY DEF Untouched
<1>2. Charged(s)' = Charged(s)
  BY <1>1 DEF Charged, Untouched
<1>3. QED
  BY <1>2 DEF Untouched

\* The steps of a request reach no session but its own.
LEMMA HandlerLeavesOthers ==
  ASSUME TypeOK, NEW h \in Handler, NEW s \in Stream, s # at[h],
         HandlerRuns(h) \/ DrainBroken(h) \/ HeadersLost(h) \/ FlushFails(h)
  PROVE  Untouched(s)
<1> USE DEF TypeOK, Untouched, InHand, queues, session, slot, windowRest, Abandon, Forget
<1>1. CASE BeginWindow(h) \/ RefuseWindow(h) \/ EndWindow(h)
  BY <1>1, ExchangeAssumption DEF BeginWindow, RefuseWindow, EndWindow
<1>2. CASE DrainFrame(h) \/ DrainClosed(h)
  BY <1>2 DEF DrainFrame, DrainClosed
<1>3. CASE DrainPush(h)
  BY <1>3 DEF DrainPush
<1>4. CASE \/ DrainEnd(h) \/ FlushFrame(h) \/ FlushEnd(h)
           \/ DrainBroken(h) \/ HeadersLost(h) \/ FlushFails(h)
  BY <1>4 DEF DrainEnd, FlushFrame, FlushEnd, DrainBroken, HeadersLost, FlushFails
<1>5. QED
  BY <1>1, <1>2, <1>3, <1>4 DEF HandlerRuns

\* No step of a request past accept brings a session to life.
LEMMA HandlerBearsNone ==
  ASSUME TypeOK, NEW h \in Handler,
         HandlerRuns(h) \/ DrainBroken(h) \/ HeadersLost(h) \/ FlushFails(h)
  PROVE  NoneBorn
<1>1. UNCHANGED life \/ CloseStream(at[h])
  BY DEF HandlerRuns, BeginWindow, RefuseWindow, DrainFrame, DrainPush, DrainClosed,
         DrainEnd, FlushFrame, FlushEnd, EndWindow, DrainBroken, HeadersLost,
         FlushFails, Abandon, windowRest, stream
<1>2. at[h] \in Stream \cup {None}
  BY DEF TypeOK
<1>3. QED
  BY <1>1, <1>2, CloseBearsNone DEF NoneBorn

\* A request charges a frame when it takes it into its hand, and drops the charge
\* or passes it on with the frame.
LEMMA HandlerKeepsBudget ==
  ASSUME TypeOK, SlotHeld, NEW h \in Handler, NEW s \in Stream, s = at[h],
         life[s] = "open" => inBytes[s] = Charged(s),
         life'[s] = "open" => life[s] = "open",
         HandlerRuns(h) \/ DrainBroken(h) \/ HeadersLost(h) \/ FlushFails(h)
  PROVE  life'[s] = "open" => inBytes'[s] = Charged(s)'
<1> USE DEF TypeOK
<1> SUFFICES ASSUME life'[s] = "open"
             PROVE  inBytes'[s] = Charged(s)'
  OBVIOUS
<1>0. inBytes[s] = Charged(s) /\ inBytes[s] \in Int /\ Len(inbound[s]) \in Nat
      /\ inbound[s] \in Seq(Frame)
  OBVIOUS
<1>1. ASSUME Untouched(s) PROVE inBytes'[s] = Charged(s)'
  BY <1>1, BudgetUntouched
<1>2. CASE BeginWindow(h) \/ RefuseWindow(h) \/ EndWindow(h)
  <2>1. Untouched(s)
    BY <1>2, ExchangeAssumption DEF BeginWindow, RefuseWindow, EndWindow, Untouched,
       InHand, queues, session, slot, Forget
  <2>2. QED
    BY <1>1, <2>1
<1>3. CASE \/ DrainEnd(h) \/ FlushFrame(h) \/ FlushEnd(h)
           \/ DrainBroken(h) \/ HeadersLost(h) \/ FlushFails(h)
  <2>1. Untouched(s)
    BY <1>3 DEF DrainEnd, FlushFrame, FlushEnd, DrainBroken, HeadersLost, FlushFails,
       Untouched, InHand, queues, windowRest, Abandon
  <2>2. QED
    BY <1>1, <2>1
<1>4. CASE DrainFrame(h)
  <2>1. hpc' = [hpc EXCEPT ![h] = "push"]
    BY <1>4 DEF DrainFrame, Abandon, CloseStream
  <2>2. ~\E g \in Handler : InHand(g, s)
    BY <1>4 DEF DrainFrame, SlotHeld, InHand, Holding
  <2>3. (\E g \in Handler : InHand(g, s))'
    BY <1>4, <2>1 DEF DrainFrame, windowRest, InHand
  <2>4. inbound'[s] = inbound[s] /\ rpc'[s] = rpc[s] /\ inBytes'[s] = inBytes[s] + 1
    BY <1>4 DEF DrainFrame, windowRest
  <2>5. Charged(s) = Len(inbound[s]) + (IF rpc[s] = "popped" THEN 1 ELSE 0) + 0
    BY ONLY <2>2, Zenon DEF Charged
  <2>6. Charged(s)' = Len(inbound'[s]) + (IF rpc'[s] = "popped" THEN 1 ELSE 0) + 1
    BY ONLY <2>3, Zenon DEF Charged
  <2>7. QED
    BY ONLY <1>0, <2>4, <2>5, <2>6
<1>5. CASE DrainPush(h)
  <2>1. hpc' = [hpc EXCEPT ![h] = "drain"] /\ at' = at /\ hpc[h] = "push"
    BY <1>5 DEF DrainPush, windowRest
  <2>2. \E g \in Handler : InHand(g, s)
    BY <2>1 DEF InHand
  <2>3. ~(\E g \in Handler : InHand(g, s))'
    BY <2>1 DEF SlotHeld, InHand, Holding
  <2>4. rpc'[s] = rpc[s] /\ inBytes'[s] = inBytes[s]
    BY <1>5 DEF DrainPush, windowRest
  <2>5. PICK f : inbound'[s] = Append(inbound[s], f)
    BY <1>5 DEF DrainPush
  <2>6. Len(inbound'[s]) = Len(inbound[s]) + 1
    BY <1>0, <2>5
  <2>7. Charged(s) = Len(inbound[s]) + (IF rpc[s] = "popped" THEN 1 ELSE 0) + 1
    BY ONLY <2>2, Zenon DEF Charged
  <2>8. Charged(s)' = Len(inbound'[s]) + (IF rpc'[s] = "popped" THEN 1 ELSE 0) + 0
    BY ONLY <2>3, Zenon DEF Charged
  <2>9. CASE rpc[s] = "popped"
    BY ONLY <1>0, <2>4, <2>6, <2>7, <2>8, <2>9
  <2>10. CASE rpc[s] # "popped"
    BY ONLY <1>0, <2>4, <2>6, <2>7, <2>8, <2>10
  <2>11. QED
    BY <2>9, <2>10
<1>6. CASE DrainClosed(h)
  BY <1>6 DEF DrainClosed
<1>7. QED
  BY <1>2, <1>3, <1>4, <1>5, <1>6 DEF HandlerRuns

\* What the goroutines behind the channels of s can do at once.
SessionStep(s) ==
  \/ ReaderRuns(s) \/ WriterRuns(s) \/ TimerRuns(s) \/ Unregister(s)
  \/ WriteStart(s) \/ WriterStops(s)

\* A pop, and the frame taken off the budget.
Pops(s) ==
  /\ life[s] # "unborn" /\ rpc[s] = "read" /\ rpc'[s] = "popped" /\ inbound[s] # <<>>
  /\ taken'[s] = Append(taken[s], Head(inbound[s])) /\ inbound'[s] = Tail(inbound[s])
  /\ inBytes'[s] = inBytes[s]

TakesOff(s) ==
  /\ rpc[s] = "popped" /\ rpc'[s] # "popped"
  /\ taken'[s] = taken[s] /\ inbound'[s] = inbound[s] /\ inBytes'[s] = inBytes[s] - 1

\* Every other step moves no frame.
Idles(s) ==
  /\ taken'[s] = taken[s] /\ inbound'[s] = inbound[s] /\ inBytes'[s] = inBytes[s]
  /\ rpc[s] = "popped" <=> rpc'[s] = "popped"
  /\ rpc[s] = "read" /\ life[s] = "unborn" => rpc'[s] = "read"

\* A session's own step pops a frame, takes one off the budget, or moves none.
LEMMA SessionMoves ==
  ASSUME TypeOK, NEW s \in Stream, SessionStep(s)
  PROVE  Pops(s) \/ TakesOff(s) \/ Idles(s)
<1> USE DEF TypeOK, queues, session
<1>1. CASE ReadFrame(s)
  BY <1>1 DEF ReadFrame, Pops
<1>2. CASE Deliver(s) \/ Owe(s) \/ Conclude(s) \/ Violate(s)
  BY <1>2 DEF Deliver, Owe, Conclude, Violate, Accounted, TakesOff
<1>3. CASE Violated(s) \/ Answer(s) \/ AnswerRefused(s) \/ AnswerClosed(s) \/ ReadClosed(s)
  BY <1>3 DEF Violated, Answer, AnswerRefused, AnswerClosed, ReadClosed, answerRest, Idles
<1>4. CASE EndSession(s) \/ Unregister(s)
  BY <1>4 DEF EndSession, Unregister, Idles
<1>5. CASE WriterRuns(s) \/ TimerRuns(s) \/ WriteStart(s) \/ WriterStops(s)
  BY <1>5 DEF WriterRuns, TimerRuns, Write, WriteClosed, WriterJoins, TimerFires, TimerCloses,
     WriteStart, WriterStops, writerRest, Idles
<1>6. QED
  BY <1>1, <1>2, <1>3, <1>4, <1>5 DEF SessionStep, ReaderRuns

\* A session's goroutines reach no other session.
LEMMA SessionLeavesOthers ==
  ASSUME TypeOK, NEW s \in Stream, SessionStep(s), NEW t \in Stream \ {s}
  PROVE  Untouched(t)
<1> USE DEF TypeOK, queues, session
<1>0. UNCHANGED handler
  BY SessionKeepsSlots DEF SessionStep
<1>1. inbound'[t] = inbound[t] /\ taken'[t] = taken[t] /\ inBytes'[t] = inBytes[t]
      /\ rpc'[t] = rpc[t]
  BY DEF SessionStep, ReaderRuns, WriterRuns, TimerRuns, ReadFrame, Deliver, Owe, Conclude,
     Violate, Violated, Answer, AnswerRefused, AnswerClosed, ReadClosed, EndSession, Write,
     WriteClosed, WriterJoins, TimerFires, TimerCloses, Unregister, WriteStart, WriterStops,
     Accounted, answerRest, writerRest, sessionRest
<1>2. QED
  BY <1>0, <1>1 DEF Untouched, InHand, handler

\* Nor do they bring one to life.
LEMMA SessionBearsNone ==
  ASSUME TypeOK, NEW s \in Stream, SessionStep(s)
  PROVE  NoneBorn
<1>1. CASE Unregister(s)
  BY <1>1 DEF Unregister, NoneBorn, TypeOK
<1>2. CASE ~Unregister(s)
  <2>1. UNCHANGED life \/ CloseStream(s)
    BY <1>2, SessionKeepsEntries DEF SessionStep
  <2>2. QED
    BY <2>1, CloseBearsNone DEF NoneBorn
<1>3. QED
  BY <1>1, <1>2

\* A pop moves the charge from the queue to the reader's hand; the reader drops
\* it.
LEMMA SessionKeepsBudget ==
  ASSUME TypeOK, NEW s \in Stream, SessionStep(s), inBytes[s] = Charged(s)
  PROVE  inBytes'[s] = Charged(s)'
<1>0. inBytes[s] \in Int /\ inbound[s] \in Seq(Frame)
  BY DEF TypeOK
<1>1. UNCHANGED handler
  BY SessionKeepsSlots DEF SessionStep
<1>2. (\E h \in Handler : InHand(h, s))' <=> (\E h \in Handler : InHand(h, s))
  BY <1>1 DEF handler, InHand
<1> DEFINE Hand == IF \E h \in Handler : InHand(h, s) THEN 1 ELSE 0
<1>3. Hand \in Nat
  OBVIOUS
<1>4. /\ Charged(s) = Len(inbound[s]) + (IF rpc[s] = "popped" THEN 1 ELSE 0) + Hand
      /\ Charged(s)' = Len(inbound'[s]) + (IF rpc'[s] = "popped" THEN 1 ELSE 0) + Hand
  BY ONLY <1>2, Zenon DEF Charged
<1> HIDE DEF Hand
<1>5. CASE Pops(s)
  <2>1. Len(inbound'[s]) = Len(inbound[s]) - 1 /\ Len(inbound[s]) \in Nat
    BY <1>0, <1>5, QueueFacts DEF Pops
  <2>2. rpc[s] # "popped" /\ rpc'[s] = "popped" /\ inBytes'[s] = inBytes[s]
    BY <1>5 DEF Pops
  <2>3. inBytes[s] = Len(inbound[s]) + 0 + Hand /\ Charged(s)' = Len(inbound'[s]) + 1 + Hand
    BY <1>4, <2>2
  <2>4. QED
    BY ONLY <1>0, <1>3, <2>1, <2>2, <2>3
<1>6. CASE TakesOff(s)
  <2>1. Len(inbound'[s]) = Len(inbound[s]) /\ Len(inbound[s]) \in Nat
    BY <1>0, <1>6, QueueFacts DEF TakesOff
  <2>2. rpc[s] = "popped" /\ rpc'[s] # "popped" /\ inBytes'[s] = inBytes[s] - 1
    BY <1>6 DEF TakesOff
  <2>3. inBytes[s] = Len(inbound[s]) + 1 + Hand /\ Charged(s)' = Len(inbound'[s]) + 0 + Hand
    BY <1>4, <2>2
  <2>4. QED
    BY ONLY <1>0, <1>3, <2>1, <2>2, <2>3
<1>7. CASE Idles(s)
  BY <1>4, <1>7 DEF Idles
<1>8. QED
  BY <1>5, <1>6, <1>7, SessionMoves

\* accept finds a session that was minted, or mints one nothing has happened to.
LEMMA AcceptMoves ==
  ASSUME TypeOK, RegistryExact, NEW h \in Handler, NEW t \in Trace, NEW sp \in Span,
         NEW n \in 0..MaxSize, Continue(h, t, sp, n) \/ Mint(h, t, sp, n)
  PROVE  /\ \A s \in Stream : Untouched(s)
         /\ \A s \in Stream : life[s] # life'[s] => life[s] = "unborn" /\ life'[s] = "open"
         /\ at'[h] \in Stream /\ life'[at'[h]] # "unborn"
         /\ \A g \in Handler \ {h} : at'[g] = at[g]
         /\ hpc[h] = "idle" /\ hpc' = [hpc EXCEPT ![h] = "begin"]
<1> USE DEF TypeOK
<1>1. /\ hpc[h] = "idle" /\ hpc' = [hpc EXCEPT ![h] = "begin"]
      /\ UNCHANGED <<inbound, taken, inBytes, rpc>>
  BY DEF Continue, Mint, Request, queues
<1>2. \A g \in Handler \ {h} : at'[g] = at[g]
  BY DEF Continue, Mint
<1>3. \A s \in Stream : Untouched(s)
  BY <1>1, <1>2 DEF Untouched, InHand
<1>4. CASE Continue(h, t, sp, n)
  <2>1. reg[t] \in Stream /\ at'[h] = reg[t] /\ life' = life
    BY <1>4 DEF Continue, stream
  <2>2. life[reg[t]] \in {"open", "closing"}
    BY <2>1 DEF RegistryExact
  <2>3. QED
    BY <1>1, <1>2, <1>3, <2>1, <2>2
<1>5. CASE Mint(h, t, sp, n)
  <2>1. PICK s \in Stream : /\ life[s] = "unborn" /\ life' = [life EXCEPT ![s] = "open"]
                            /\ at' = [at EXCEPT ![h] = s]
    BY <1>5 DEF Mint
  <2>2. QED
    BY <1>1, <1>2, <1>3, <2>1
<1>6. QED
  BY <1>4, <1>5

BornInv == UnbornClean /\ BudgetInv

\* A minted session starts with an exact budget: nothing charged, nothing queued.
LEMMA AcceptKeepsBudget ==
  ASSUME TypeOK, RegistryExact, BornInv, NEW h \in Handler, NEW t \in Trace, NEW sp \in Span,
         NEW n \in 0..MaxSize, Continue(h, t, sp, n) \/ Mint(h, t, sp, n)
  PROVE  BornInv'
<1>1. UnbornClean'
  BY AcceptMoves DEF BornInv, UnbornClean, Untouched
<1>2. ASSUME NEW s \in Stream, life'[s] = "open"
      PROVE  inBytes'[s] = Charged(s)'
  <2>1. inBytes[s] = Charged(s)
    <3>1. CASE life[s] = "open"
      BY <3>1 DEF BornInv, BudgetInv
    <3>2. CASE life[s] # "open"
      <4>1. life[s] = "unborn"
        BY <1>2, <3>2, AcceptMoves
      <4>2. inBytes[s] = 0 /\ inbound[s] = <<>> /\ rpc[s] = "read"
            /\ ~\E g \in Handler : InHand(g, s)
        BY <4>1 DEF BornInv, UnbornClean, InHand
      <4>3. Charged(s) = Len(inbound[s]) + 0 + 0
        BY <4>2 DEF Charged
      <4>4. QED
        BY <4>2, <4>3
    <3>3. QED
      BY <3>1, <3>2
  <2>2. Untouched(s)
    BY AcceptMoves
  <2>3. (\E g \in Handler : InHand(g, s)) <=> (\E g \in Handler : InHand(g, s))'
    BY <2>2 DEF Untouched
  <2>4. QED
    BY <2>1, <2>2, <2>3 DEF Untouched, Charged
<1>3. QED
  BY <1>1, <1>2 DEF BornInv, BudgetInv

\* BornInv is inductive next to the facts of ExchangeProofs.
THEOREM BudgetInvariant == Spec => []BornInv
<1>1. Init => BornInv
  <2> SUFFICES ASSUME Init PROVE BornInv
    OBVIOUS
  <2>1. None \notin Stream
    BY ExchangeAssumption
  <2>2. UnbornClean
    BY <2>1 DEF Init, UnbornClean
  <2>3. BudgetInv
    BY DEF Init, BudgetInv
  <2>4. QED
    BY <2>2, <2>3 DEF BornInv
<1>2. ASSUME TypeOK, SlotHeld, RegistryExact, BornInv, [Next]_vars
      PROVE  BornInv'
  <2>1. ASSUME NEW h \in Handler, NEW t \in Trace, NEW sp \in Span, NEW n \in 0..MaxSize,
               Continue(h, t, sp, n) \/ Mint(h, t, sp, n)
        PROVE  BornInv'
    BY <1>2, <2>1, AcceptKeepsBudget
  <2>2. ASSUME NEW h \in Handler,
               HandlerRuns(h) \/ DrainBroken(h) \/ HeadersLost(h) \/ FlushFails(h)
        PROVE  BornInv'
    <3>1. NoneBorn
      BY <1>2, <2>2, HandlerBearsNone
    <3>2. \A s \in Stream \ {at[h]} : Untouched(s)
      BY <1>2, <2>2, HandlerLeavesOthers
    <3>3. \A g \in Handler : at'[g] = at[g] \/ at'[g] = None
      BY <1>2, <2>2 DEF TypeOK, HandlerRuns, BeginWindow, RefuseWindow, DrainFrame, DrainPush,
         DrainClosed, DrainEnd, FlushFrame, FlushEnd, EndWindow, DrainBroken, HeadersLost,
         FlushFails, Abandon, Forget, windowRest
    <3>4. UnbornClean'
      <4> SUFFICES ASSUME NEW s \in Stream, life'[s] = "unborn"
                   PROVE  /\ inbound'[s] = <<>> /\ taken'[s] = <<>> /\ inBytes'[s] = 0
                          /\ rpc'[s] = "read" /\ \A g \in Handler : at'[g] # s
        BY DEF UnbornClean
      <4>1. life[s] = "unborn"
        BY <3>1 DEF NoneBorn
      <4>2. /\ inbound[s] = <<>> /\ taken[s] = <<>> /\ inBytes[s] = 0 /\ rpc[s] = "read"
            /\ \A g \in Handler : at[g] # s
        BY <1>2, <4>1 DEF BornInv, UnbornClean
      <4>3. Untouched(s)
        BY <3>2, <4>2
      <4>4. \A g \in Handler : at'[g] # s
        BY <3>3, <4>2, ExchangeAssumption
      <4>5. QED
        BY <4>2, <4>3, <4>4 DEF Untouched
    <3>5. ASSUME NEW s \in Stream
          PROVE  life'[s] = "open" => inBytes'[s] = Charged(s)'
      <4>1. /\ life[s] = "open" => inBytes[s] = Charged(s)
            /\ life'[s] = "open" => life[s] = "open"
        BY <1>2, <3>1 DEF BornInv, BudgetInv, NoneBorn
      <4>2. CASE s = at[h]
        BY <1>2, <2>2, <4>1, <4>2, HandlerKeepsBudget
      <4>3. CASE s # at[h]
        BY <3>2, <4>1, <4>3, BudgetUntouched
      <4>4. QED
        BY <4>2, <4>3
    <3>6. QED
      BY <3>4, <3>5 DEF BornInv, BudgetInv
  <2>3. ASSUME NEW s \in Stream, SessionStep(s)
        PROVE  BornInv'
    <3>1. NoneBorn
      BY <1>2, <2>3, SessionBearsNone
    <3>2. \A t \in Stream \ {s} : Untouched(t)
      BY <1>2, <2>3, SessionLeavesOthers
    <3>3. UNCHANGED at
      BY <2>3, SessionKeepsSlots DEF SessionStep, handler
    <3>4. UnbornClean'
      <4> SUFFICES ASSUME NEW t \in Stream, life'[t] = "unborn"
                   PROVE  /\ inbound'[t] = <<>> /\ taken'[t] = <<>> /\ inBytes'[t] = 0
                          /\ rpc'[t] = "read" /\ \A g \in Handler : at'[g] # t
        BY DEF UnbornClean
      <4>1. life[t] = "unborn"
        BY <3>1 DEF NoneBorn
      <4>2. /\ inbound[t] = <<>> /\ taken[t] = <<>> /\ inBytes[t] = 0 /\ rpc[t] = "read"
            /\ \A g \in Handler : at[g] # t
        BY <1>2, <4>1 DEF BornInv, UnbornClean
      <4>3. CASE t = s
        <5>1. Idles(s)
          BY <1>2, <2>3, <4>1, <4>2, <4>3, SessionMoves DEF Pops, TakesOff
        <5>2. QED
          BY <3>3, <4>1, <4>2, <4>3, <5>1 DEF Idles
      <4>4. CASE t # s
        BY <3>2, <3>3, <4>2, <4>4 DEF Untouched
      <4>5. QED
        BY <4>3, <4>4
    <3>5. ASSUME NEW t \in Stream
          PROVE  life'[t] = "open" => inBytes'[t] = Charged(t)'
      <4>1. /\ life[t] = "open" => inBytes[t] = Charged(t)
            /\ life'[t] = "open" => life[t] = "open"
        BY <1>2, <3>1 DEF BornInv, BudgetInv, NoneBorn
      <4>2. CASE t = s
        BY <1>2, <2>3, <4>1, <4>2, SessionKeepsBudget
      <4>3. CASE t # s
        BY <3>2, <4>1, <4>3, BudgetUntouched
      <4>4. QED
        BY <4>2, <4>3
    <3>6. QED
      BY <3>4, <3>5 DEF BornInv, BudgetInv
  <2>4. CASE UNCHANGED vars
    <3>1. \A s \in Stream : Untouched(s)
      BY <2>4 DEF vars, queues, session, handler, Untouched, InHand
    <3>2. BudgetInv'
      BY <1>2, <2>4, <3>1, BudgetUntouched DEF vars, stream, BornInv, BudgetInv
    <3>3. UnbornClean'
      BY <1>2, <2>4 DEF vars, stream, queues, session, handler, BornInv, UnbornClean
    <3>4. QED
      BY <3>2, <3>3 DEF BornInv
  <2>5. QED
    BY <1>2, <2>1, <2>2, <2>3, <2>4 DEF Next, SessionStep
<1>3. QED
  BY <1>1, <1>2, TypeCorrect, OneWindow, RegistryCorrect, PTL DEF Spec

\* Whatever queue, handler and session do to each other, the budget of a live
\* session is exactly the frames that are queued, in a hand or being taken off.
THEOREM BudgetCorrect == Spec => []BudgetExact
<1>1. SlotHeld /\ BornInv => BudgetExact
  BY HandCounted DEF BornInv
<1>2. QED
  BY <1>1, BudgetInvariant, OneWindow, PTL

-----------------------------------------------------------------------------
(* The order of the windows *)

\* A pop moves a frame from the queue to what was taken, a push adds one behind
\* both.
LEMMA LogPop ==
  ASSUME NEW S, NEW q \in Seq(S), NEW p \in Seq(S), p # <<>>
  PROVE  Append(q, Head(p)) \o Tail(p) = q \o p
<1>1. Head(p) \in S /\ Tail(p) \in Seq(S) /\ Len(Tail(p)) = Len(p) - 1
      /\ \A i \in 1..Len(Tail(p)) : Tail(p)[i] = p[i + 1]
  BY HeadTailProperties
<1>2. Len(p) \in Nat \ {0} /\ Len(q) \in Nat /\ Head(p) = p[1]
  BY EmptySeq, LenProperties
<1> DEFINE a == Append(q, Head(p))
<1>3. /\ a \in Seq(S) /\ Len(a) = Len(q) + 1 /\ a[Len(q) + 1] = p[1]
      /\ \A i \in 1..Len(q) : a[i] = q[i]
  BY <1>1, <1>2, AppendProperties
<1> HIDE DEF a
<1>4. /\ a \o Tail(p) \in Seq(S) /\ Len(a \o Tail(p)) = Len(a) + Len(Tail(p))
      /\ \A i \in 1..(Len(a) + Len(Tail(p))) :
           (a \o Tail(p))[i] = IF i <= Len(a) THEN a[i] ELSE Tail(p)[i - Len(a)]
  BY <1>1, <1>3, ConcatProperties
<1>5. /\ q \o p \in Seq(S) /\ Len(q \o p) = Len(q) + Len(p)
      /\ \A i \in 1..(Len(q) + Len(p)) :
           (q \o p)[i] = IF i <= Len(q) THEN q[i] ELSE p[i - Len(q)]
  BY ConcatProperties
<1>6. Len(a \o Tail(p)) = Len(q \o p)
  BY <1>1, <1>2, <1>3, <1>4, <1>5
<1>7. ASSUME NEW i \in 1..Len(a \o Tail(p))
      PROVE  (a \o Tail(p))[i] = (q \o p)[i]
  <2>1. i \in 1..(Len(a) + Len(Tail(p))) /\ i \in 1..(Len(q) + Len(p)) /\ i \in Int
    BY <1>4, <1>5, <1>6
  <2>2. /\ (a \o Tail(p))[i] = IF i <= Len(a) THEN a[i] ELSE Tail(p)[i - Len(a)]
        /\ (q \o p)[i] = IF i <= Len(q) THEN q[i] ELSE p[i - Len(q)]
    BY <1>4, <1>5, <2>1
  <2>3. CASE i \in 1..Len(q)
    BY <1>2, <1>3, <2>2, <2>3
  <2>4. CASE i = Len(q) + 1
    BY <1>2, <1>3, <2>2, <2>4
  <2>5. CASE i > Len(q) + 1
    <3>1. i - Len(a) \in 1..Len(Tail(p)) /\ i - Len(a) + 1 = i - Len(q)
      BY <1>1, <1>2, <1>3, <2>1, <2>5
    <3>2. Tail(p)[i - Len(a)] = p[i - Len(q)]
      BY <1>1, <3>1
    <3>3. ~(i <= Len(a)) /\ ~(i <= Len(q))
      BY <1>2, <1>3, <2>1, <2>5
    <3>4. QED
      BY <2>2, <3>2, <3>3
  <2>6. QED
    BY <1>2, <2>1, <2>3, <2>4, <2>5
<1>8. a \o Tail(p) = q \o p
  BY <1>4, <1>5, <1>6, <1>7, SeqEqual
<1>9. QED
  BY <1>8 DEF a

\* A frame pushed is the newest of all that was given.
LEMMA LogPush ==
  ASSUME NEW S, NEW q \in Seq(S), NEW p \in Seq(S), NEW e \in S
  PROVE  q \o Append(p, e) = Append(q \o p, e)
<1>1. <<e>> \in Seq(S) /\ q \o p \in Seq(S)
  BY ConcatProperties
<1>2. Append(p, e) = p \o <<e>> /\ Append(q \o p, e) = (q \o p) \o <<e>>
  BY <1>1, AppendIsConcat
<1>3. QED
  BY <1>1, <1>2, ConcatAssociative

\* All a session was ever given, and the newest of it.
Log(s) == taken[s] \o inbound[s]
Newest(s) == Log(s)[Len(Log(s))]

\* What a session was given are frames.
LEMMA LogTyped ==
  ASSUME TypeOK, NEW s \in Stream
  PROVE  Log(s) \in Seq(Frame)
BY ConcatProperties DEF TypeOK, Log

\* Every frame of l follows the one before.
Chain(s, l) ==
  /\ l # <<>> => l[1].k = 1
  /\ \A i \in 1..(Len(l) - 1) : Follows(s, l[i], l[i + 1])

\* The last window of a live session is complete ...
Complete(s) == Log(s) # <<>> /\ life[s] = "open" => Newest(s).k = Newest(s).of

\* ... unless request h, in the slot, is still feeding one: its frames are the
\* newest, its span is newer than all else.
Serves(h, s) == at[h] = s /\ hpc[h] \in Holding

Feeds(h, s) ==
  /\ req[h].span = nextSpan[s] - 1
  /\ hpc[h] \in {"flush", "ending"} => fed[h] = req[h].size
  /\ hpc[h] = "failed" => life[s] # "open"
  /\ fed[h] > 0 =>
       Log(s) # <<>> /\ Newest(s) = [span |-> req[h].span, k |-> fed[h], of |-> req[h].size]
  /\ fed[h] = 0 => (Log(s) # <<>> => Newest(s).span < req[h].span) /\ Complete(s)

OrderAt(s) ==
  /\ Chain(s, Log(s))
  /\ Log(s) # <<>> => Newest(s).span < nextSpan[s]
  /\ \A h \in Handler : Serves(h, s) => Feeds(h, s)
  /\ (\A h \in Handler : ~Serves(h, s)) => Complete(s)

\* A request that has not begun has fed nothing.
Unfed == \A h \in Handler : hpc[h] \in {"idle", "begin"} => fed[h] = 0

OrderInv == Unfed /\ \A s \in Stream : OrderAt(s)

\* A log in order stays so with a frame that follows its newest.
LEMMA ChainGrows ==
  ASSUME NEW s, NEW l \in Seq(Frame), NEW f \in Frame, Chain(s, l),
         l = <<>> => f.k = 1, l # <<>> => Follows(s, l[Len(l)], f)
  PROVE  Chain(s, Append(l, f))
<1> DEFINE m == Append(l, f)
<1>1. /\ m \in Seq(Frame) /\ Len(m) = Len(l) + 1 /\ m[Len(l) + 1] = f
      /\ \A i \in 1..Len(l) : m[i] = l[i]
  BY AppendProperties
<1>2. Len(l) \in Nat /\ (l = <<>> <=> Len(l) = 0)
  OBVIOUS
<1> HIDE DEF m
<1>3. m[1].k = 1
  <2>1. CASE l = <<>>
    BY <1>1, <1>2, <2>1
  <2>2. CASE l # <<>>
    BY <1>1, <1>2, <2>2 DEF Chain
  <2>3. QED
    BY <2>1, <2>2
<1>4. ASSUME NEW i \in 1..(Len(m) - 1)
      PROVE  Follows(s, m[i], m[i + 1])
  <2>1. CASE i = Len(l)
    <3>1. m[i] = l[Len(l)] /\ m[i + 1] = f /\ l # <<>>
      BY <1>1, <1>2, <2>1
    <3>2. QED
      BY <3>1
  <2>2. CASE i # Len(l)
    <3>1. i \in 1..(Len(l) - 1) /\ i \in 1..Len(l) /\ i + 1 \in 1..Len(l)
      BY <1>1, <1>2, <2>2
    <3>2. m[i] = l[i] /\ m[i + 1] = l[i + 1]
      BY <1>1, <3>1
    <3>3. QED
      BY <3>1, <3>2 DEF Chain
  <2>3. QED
    BY <2>1, <2>2
<1>5. QED
  BY <1>3, <1>4 DEF Chain, m

\* What a step that gives s nothing may do to the requests it serves.
HoldsOn(h, s) ==
  /\ req'[h] = req[h] /\ fed'[h] = fed[h]
  /\ \/ hpc'[h] = hpc[h]
     \/ hpc'[h] \in {"flush", "ending"} /\ fed[h] = req[h].size
     \/ hpc'[h] = "failed" /\ life'[s] # "open"
     \/ hpc'[h] \in {"drain", "push"}

\* A session comes to life with nothing given.
BornEmpty(s) ==
  life'[s] = "open" =>
    life[s] = "open" \/ (Log(s) = <<>> /\ \A h \in Handler : ~Serves(h, s))

\* A step that gives a session nothing, and changes its request only as HoldsOn
\* allows, keeps its order.
LEMMA OrderStays ==
  ASSUME NEW s \in Stream, OrderAt(s), Log(s)' = Log(s), nextSpan'[s] = nextSpan[s],
         BornEmpty(s),
         \A h \in Handler : Serves(h, s)' <=> Serves(h, s),
         \A h \in Handler : Serves(h, s) => HoldsOn(h, s)
  PROVE  OrderAt(s)'
<1>1. Newest(s)' = Newest(s)
  BY DEF Newest
<1>2. Complete(s) => Complete(s)'
  BY <1>1 DEF Complete, BornEmpty
<1>3. Chain(s, Log(s))'
  BY DEF OrderAt, Chain, Follows, BornEmpty
<1>4. ASSUME NEW h \in Handler, Serves(h, s)' PROVE Feeds(h, s)'
  <2>1. Serves(h, s) /\ Feeds(h, s) /\ HoldsOn(h, s)
    BY <1>4 DEF OrderAt
  <2>2. life'[s] = "open" => life[s] = "open"
    BY <2>1 DEF BornEmpty
  <2>3. req'[h].span = nextSpan'[s] - 1
    BY <2>1 DEF Feeds, HoldsOn
  <2>4. hpc'[h] \in {"flush", "ending"} => fed'[h] = req'[h].size
    BY <2>1 DEF Feeds, HoldsOn
  <2>5. hpc'[h] = "failed" => life'[s] # "open"
    BY <2>1, <2>2 DEF Feeds, HoldsOn
  <2>6. fed'[h] > 0 => Log(s)' # <<>>
          /\ Newest(s)' = [span |-> req'[h].span, k |-> fed'[h], of |-> req'[h].size]
    BY <1>1, <2>1 DEF Feeds, HoldsOn
  <2>7. fed'[h] = 0 => (Log(s)' # <<>> => Newest(s)'.span < req'[h].span) /\ Complete(s)'
    BY <1>1, <1>2, <2>1 DEF Feeds, HoldsOn
  <2>8. QED
    BY <2>3, <2>4, <2>5, <2>6, <2>7 DEF Feeds
<1>5. (\A h \in Handler : ~Serves(h, s))' => Complete(s)'
  BY <1>2 DEF OrderAt
<1>6. Log(s)' # <<>> => Newest(s)'.span < nextSpan'[s]
  BY <1>1 DEF OrderAt
<1>7. QED
  BY <1>3, <1>4, <1>5, <1>6 DEF OrderAt

\* beginWindow: the window is the next, and the last one was whole.
LEMMA OrderBegins ==
  ASSUME TypeOK, SlotHeld, Unfed, NEW h \in Handler, NEW s \in Stream, s = at[h],
         OrderAt(s), BeginWindow(h)
  PROVE  OrderAt(s)'
<1>1. /\ hpc[h] = "begin" /\ ~inFlight[s] /\ req[h].span = nextSpan[s] /\ fed[h] = 0
      /\ nextSpan'[s] = nextSpan[s] + 1 /\ nextSpan[s] \in Int
      /\ hpc' = [hpc EXCEPT ![h] = "drain"]
      /\ UNCHANGED <<life, taken, inbound, req, at, fed>>
  BY DEF BeginWindow, TypeOK, Unfed, stream, queues
<1>2. \A g \in Handler : ~Serves(g, s)
  BY <1>1 DEF SlotHeld, Serves
<1>3. \A g \in Handler : Serves(g, s)' => g = h
  BY <1>1, <1>2 DEF Serves, TypeOK
<1>4. Serves(h, s)'
  BY <1>1 DEF Serves, Holding, TypeOK
<1>5. Log(s)' = Log(s) /\ Newest(s)' = Newest(s)
  BY <1>1 DEF Log, Newest
<1>6. Complete(s) /\ Complete(s)'
  BY <1>1, <1>2, <1>5 DEF OrderAt, Complete
<1>7. Log(s) # <<>> => Newest(s).span < nextSpan[s] /\ Newest(s).span \in Int
  <2> SUFFICES ASSUME Log(s) # <<>> PROVE Newest(s).span < nextSpan[s] /\ Newest(s).span \in Int
    OBVIOUS
  <2>1. Newest(s) \in Frame
    BY LogTyped, EmptySeq, ElementOfSeq DEF Newest
  <2>2. QED
    BY <2>1 DEF OrderAt, Frame, Span
<1>8. Chain(s, Log(s))'
  BY <1>1, <1>5 DEF OrderAt, Chain, Follows
<1>9. Feeds(h, s)'
  <2>1. req'[h].span = nextSpan'[s] - 1
    BY <1>1
  <2>2. hpc'[h] = "drain" /\ fed'[h] = 0
    BY <1>1 DEF TypeOK
  <2>3. Log(s)' # <<>> => Newest(s)'.span < req'[h].span
    BY <1>1, <1>5, <1>7
  <2>4. QED
    BY <1>6, <2>1, <2>2, <2>3 DEF Feeds
<1>10. Log(s)' # <<>> => Newest(s)'.span < nextSpan'[s]
  BY <1>1, <1>5, <1>7
<1>11. QED
  BY <1>3, <1>4, <1>8, <1>9, <1>10 DEF OrderAt

\* endWindow: what it leaves is whole, or the session over.
LEMMA OrderEnds ==
  ASSUME TypeOK, SlotHeld, NEW h \in Handler, NEW s \in Stream, s = at[h],
         OrderAt(s), EndWindow(h)
  PROVE  OrderAt(s)'
<1>1. /\ hpc[h] = "ending" \/ (hpc[h] = "failed" /\ life[s] = "closed")
      /\ hpc'[h] = "idle" /\ at'[h] = None
      /\ \A g \in Handler \ {h} : hpc'[g] = hpc[g] /\ at'[g] = at[g]
      /\ UNCHANGED <<life, taken, inbound, nextSpan>>
  BY DEF EndWindow, Forget, TypeOK, stream, queues
<1>2. Serves(h, s) /\ Feeds(h, s)
  BY <1>1 DEF OrderAt, Serves, Holding
<1>3. \A g \in Handler : ~Serves(g, s)'
  BY <1>1, <1>2 DEF SlotHeld, Serves, Holding
<1>4. Log(s)' = Log(s) /\ Newest(s)' = Newest(s)
  BY <1>1 DEF Log, Newest
<1>5. Complete(s)
  <2>1. CASE hpc[h] = "failed"
    BY <1>2, <2>1 DEF Feeds, Complete
  <2>2. CASE hpc[h] = "ending" /\ fed[h] = 0
    BY <1>2, <2>2 DEF Feeds
  <2>3. CASE hpc[h] = "ending" /\ fed[h] # 0
    <3>1. fed[h] > 0 /\ fed[h] = req[h].size
      BY <1>2, <2>3, ExchangeAssumption DEF Feeds, TypeOK
    <3>2. Newest(s) = [span |-> req[h].span, k |-> fed[h], of |-> req[h].size]
      BY <1>2, <3>1 DEF Feeds
    <3>3. QED
      BY <3>1, <3>2 DEF Complete
  <2>4. QED
    BY <1>1, <2>1, <2>2, <2>3
<1>6. Complete(s)' /\ Chain(s, Log(s))'
  BY <1>1, <1>4, <1>5 DEF OrderAt, Complete, Chain, Follows
<1>7. QED
  BY <1>1, <1>3, <1>4, <1>6 DEF OrderAt

\* A push: the frame is the next of the window the slot was given to.
LEMMA OrderGrows ==
  ASSUME TypeOK, FedBehind, SlotHeld, NEW h \in Handler, NEW s \in Stream, s = at[h],
         OrderAt(s), DrainPush(h)
  PROVE  OrderAt(s)'
<1> DEFINE f == [span |-> req[h].span, k |-> fed[h] + 1, of |-> req[h].size]
<1>1. /\ hpc[h] = "push" /\ fed'[h] = fed[h] + 1 /\ hpc'[h] = "drain"
      /\ inbound'[s] = Append(inbound[s], f)
      /\ \A g \in Handler \ {h} : hpc'[g] = hpc[g]
      /\ UNCHANGED <<life, taken, nextSpan, req, at>>
  BY DEF DrainPush, TypeOK, windowRest, slot
<1>2. Serves(h, s) /\ Feeds(h, s)
  BY <1>1 DEF OrderAt, Serves, Holding
<1>3. /\ fed[h] \in Nat /\ req[h].size \in Int /\ fed[h] < req[h].size
      /\ f \in Frame /\ nextSpan[s] \in Int /\ req[h].span \in Int
  BY <1>1, ExchangeAssumption DEF TypeOK, FedBehind, Frame, Span
<1>4. \A g \in Handler : Serves(g, s)' => g = h
  BY <1>1, <1>2 DEF SlotHeld, Serves
<1>5. Serves(h, s)'
  BY <1>1 DEF Serves, Holding
<1> HIDE DEF f
<1>6. Log(s)' = Append(Log(s), f)
  <2>1. taken[s] \in Seq(Frame) /\ inbound[s] \in Seq(Frame)
    BY DEF TypeOK
  <2>2. f \in Frame
    BY <1>3
  <2>3. taken[s] \o Append(inbound[s], f) = Append(taken[s] \o inbound[s], f)
    <3>1. \A q, p \in Seq(Frame), e \in Frame : q \o Append(p, e) = Append(q \o p, e)
      BY LogPush
    <3>2. QED
      BY ONLY <2>1, <2>2, <3>1, Zenon
  <2>4. taken'[s] = taken[s] /\ inbound'[s] = Append(inbound[s], f)
    BY <1>1
  <2>5. Log(s)' = taken'[s] \o inbound'[s]
    BY DEF Log
  <2>6. Log(s) = taken[s] \o inbound[s]
    BY DEF Log
  <2>7. QED
    BY ONLY <2>3, <2>4, <2>5, <2>6
<1>7. Log(s) \in Seq(Frame)
  BY LogTyped
<1>8. Log(s)' # <<>> /\ Newest(s)' = f
  BY <1>3, <1>6, <1>7, AppendProperties DEF Newest
<1>9. Log(s) = <<>> => f.k = 1
  BY <1>2, <1>3 DEF Feeds, f
<1>10. Log(s) # <<>> => Follows(s, Newest(s), f)
  <2>1. CASE fed[h] > 0
    BY <1>2, <2>1 DEF Feeds, Follows, f
  <2>2. CASE fed[h] = 0
    <3> SUFFICES ASSUME Log(s) # <<>> PROVE Follows(s, Newest(s), f)
      OBVIOUS
    <3>1. Newest(s).span < req[h].span /\ Complete(s)
      BY <1>2, <2>2 DEF Feeds
    <3>2. Newest(s).span \in Int
      <4>1. Newest(s) \in Frame
        BY <1>7, EmptySeq, ElementOfSeq DEF Newest
      <4>2. QED
        BY <4>1 DEF Frame, Span
    <3>3. f.span = req[h].span /\ f.k = 1
      BY <2>2 DEF f
    <3>4. QED
      BY <1>3, <3>1, <3>2, <3>3 DEF Follows, Complete
  <2>3. QED
    BY <1>3, <2>1, <2>2
<1>11. Chain(s, Append(Log(s), f))
  BY <1>3, <1>7, <1>9, <1>10, ChainGrows DEF OrderAt, Newest
<1>12. Chain(s, Log(s))'
  <2>1. life' = life
    BY <1>1
  <2>2. QED
    BY <1>6, <1>11, <2>1 DEF Chain, Follows
<1>13. f = [span |-> req'[h].span, k |-> fed'[h], of |-> req'[h].size]
  BY <1>1 DEF f
<1>14. fed'[h] > 0
  BY <1>1, <1>3
<1>15. Feeds(h, s)'
  <2>1. req'[h].span = nextSpan'[s] - 1
    BY <1>1, <1>2 DEF Feeds
  <2>2. QED
    BY <1>1, <1>8, <1>13, <1>14, <2>1 DEF Feeds
<1>16. Newest(s)'.span < nextSpan'[s]
  <2>1. Newest(s)'.span = req[h].span
    BY <1>8 DEF f
  <2>2. req[h].span = nextSpan[s] - 1 /\ nextSpan'[s] = nextSpan[s]
    BY <1>1, <1>2 DEF Feeds
  <2>3. QED
    BY <1>3, <2>1, <2>2
<1>17. QED
  BY <1>4, <1>5, <1>12, <1>15, <1>16 DEF OrderAt

\* The other steps of a request give its session nothing.
LEMMA OrderHeld ==
  ASSUME TypeOK, NEW h \in Handler, NEW s \in Stream, s = at[h], OrderAt(s),
         \/ DrainFrame(h) \/ DrainClosed(h) \/ DrainEnd(h) \/ FlushFrame(h) \/ FlushEnd(h)
         \/ DrainBroken(h) \/ HeadersLost(h) \/ FlushFails(h)
  PROVE  OrderAt(s)'
<1>1. /\ hpc[h] \in Holding
      /\ \A g \in Handler \ {h} : hpc'[g] = hpc[g]
      /\ UNCHANGED <<taken, inbound, nextSpan, req, at, fed>>
  BY DEF DrainFrame, DrainClosed, DrainEnd, FlushFrame, FlushEnd, DrainBroken, HeadersLost,
     FlushFails, Abandon, windowRest, slot, queues, Holding, TypeOK
<1>2. Serves(h, s) /\ Feeds(h, s)
  BY <1>1 DEF OrderAt, Serves
<1>3. life'[s] = "open" => life[s] = "open"
  BY HandlerBearsNone DEF NoneBorn, HandlerRuns
<1>4. hpc'[h] \in Holding /\ HoldsOn(h, s)
  <2>1. CASE DrainFrame(h) /\ hpc'[h] = "push"
    BY <1>1, <2>1 DEF HoldsOn, Holding
  <2>2. CASE \/ DrainFrame(h) /\ hpc'[h] # "push"
             \/ DrainClosed(h) \/ DrainBroken(h) \/ FlushFails(h)
    <3>1. Abandon(h)
      BY <2>2 DEF DrainFrame, DrainClosed, DrainBroken, FlushFails, TypeOK
    <3>2. hpc'[h] = "failed" /\ life'[s] # "open"
      BY <3>1 DEF Abandon, CloseStream, TypeOK
    <3>3. QED
      BY <1>1, <3>2 DEF HoldsOn, Holding
  <2>3. CASE DrainEnd(h) \/ HeadersLost(h)
    <3>1. hpc'[h] \in {"flush", "ending"} /\ fed[h] = req[h].size
      BY <2>3 DEF DrainEnd, HeadersLost, TypeOK
    <3>2. QED
      BY <1>1, <3>1 DEF HoldsOn, Holding
  <2>4. CASE FlushFrame(h)
    BY <1>1, <2>4 DEF FlushFrame, HoldsOn
  <2>5. CASE FlushEnd(h)
    <3>1. hpc[h] = "flush" /\ hpc'[h] = "ending"
      BY <2>5 DEF FlushEnd, TypeOK
    <3>2. fed[h] = req[h].size
      BY <1>2, <3>1 DEF Feeds
    <3>3. QED
      BY <1>1, <3>1, <3>2 DEF HoldsOn, Holding
  <2>6. QED
    BY <2>1, <2>2, <2>3, <2>4, <2>5
<1>5. \A g \in Handler : Serves(g, s)' <=> Serves(g, s)
  BY <1>1, <1>4 DEF Serves
<1>6. \A g \in Handler : HoldsOn(g, s)
  BY <1>1, <1>4 DEF HoldsOn
<1>7. Log(s)' = Log(s) /\ nextSpan'[s] = nextSpan[s]
  BY <1>1 DEF Log
<1>8. QED
  BY <1>3, <1>5, <1>6, <1>7, OrderStays DEF BornEmpty

\* A request is not served by the session it does not hold, and keeps every
\* other session's order.
LEMMA OrderElsewhere ==
  ASSUME TypeOK, NEW h \in Handler, NEW s \in Stream, OrderAt(s),
         HandlerRuns(h) \/ DrainBroken(h) \/ HeadersLost(h) \/ FlushFails(h),
         s # at[h] \/ RefuseWindow(h)
  PROVE  OrderAt(s)'
<1>1. /\ \A g \in Handler \ {h} :
           hpc'[g] = hpc[g] /\ at'[g] = at[g] /\ req'[g] = req[g] /\ fed'[g] = fed[g]
      /\ at'[h] = at[h] \/ at'[h] = None
  BY DEF TypeOK, HandlerRuns, BeginWindow, RefuseWindow, DrainFrame, DrainPush, DrainClosed,
     DrainEnd, FlushFrame, FlushEnd, EndWindow, DrainBroken, HeadersLost, FlushFails, Abandon,
     Forget, windowRest
<1>2. ~Serves(h, s) /\ ~Serves(h, s)'
  <2>1. CASE s # at[h]
    BY <1>1, <2>1, ExchangeAssumption DEF Serves
  <2>2. CASE RefuseWindow(h)
    BY <2>2, ExchangeAssumption DEF RefuseWindow, Forget, Serves, Holding, TypeOK
  <2>3. QED
    BY <2>1, <2>2
<1>3. Log(s)' = Log(s) /\ nextSpan'[s] = nextSpan[s]
  <2>1. CASE s # at[h]
    <3>1. Untouched(s)
      BY <2>1, HandlerLeavesOthers
    <3>2. nextSpan'[s] = nextSpan[s]
      BY <2>1 DEF TypeOK, HandlerRuns, BeginWindow, RefuseWindow, DrainFrame, DrainPush,
         DrainClosed, DrainEnd, FlushFrame, FlushEnd, EndWindow, DrainBroken, HeadersLost,
         FlushFails, windowRest, slot
    <3>3. QED
      BY <3>1, <3>2 DEF Untouched, Log
  <2>2. CASE RefuseWindow(h)
    BY <2>2 DEF RefuseWindow, slot, queues, Log
  <2>3. QED
    BY <2>1, <2>2
<1>4. BornEmpty(s)
  BY HandlerBearsNone DEF NoneBorn, BornEmpty
<1>5. \A g \in Handler : Serves(g, s)' <=> Serves(g, s)
  BY <1>1, <1>2 DEF Serves
<1>6. \A g \in Handler : Serves(g, s) => HoldsOn(g, s)
  BY <1>1, <1>2 DEF HoldsOn
<1>7. QED
  BY <1>3, <1>4, <1>5, <1>6, OrderStays

\* Together: every step of a request keeps the order of every session.
LEMMA HandlerKeepsOrder ==
  ASSUME TypeOK, FedBehind, SlotHeld, OrderInv, NEW h \in Handler,
         HandlerRuns(h) \/ DrainBroken(h) \/ HeadersLost(h) \/ FlushFails(h)
  PROVE  OrderInv'
<1>1. Unfed'
  BY ExchangeAssumption DEF OrderInv, Unfed, TypeOK, HandlerRuns, BeginWindow,
     RefuseWindow, DrainFrame, DrainPush, DrainClosed, DrainEnd, FlushFrame, FlushEnd, EndWindow, DrainBroken,
     HeadersLost, FlushFails, Abandon, Forget, windowRest
<1>2. ASSUME NEW s \in Stream PROVE OrderAt(s)'
  <2>1. OrderAt(s) /\ Unfed
    BY DEF OrderInv
  <2>2. CASE s # at[h] \/ RefuseWindow(h)
    BY <2>1, <2>2, OrderElsewhere
  <2>3. CASE s = at[h] /\ BeginWindow(h)
    BY <2>1, <2>3, OrderBegins
  <2>4. CASE s = at[h] /\ EndWindow(h)
    BY <2>1, <2>4, OrderEnds
  <2>5. CASE s = at[h] /\ DrainPush(h)
    BY <2>1, <2>5, OrderGrows
  <2>6. CASE /\ s = at[h]
             /\ \/ DrainFrame(h) \/ DrainClosed(h) \/ DrainEnd(h) \/ FlushFrame(h)
                \/ FlushEnd(h) \/ DrainBroken(h) \/ HeadersLost(h) \/ FlushFails(h)
    BY <2>1, <2>6, OrderHeld
  <2>7. QED
    BY <2>2, <2>3, <2>4, <2>5, <2>6 DEF HandlerRuns
<1>3. QED
  BY <1>1, <1>2 DEF OrderInv

\* A session changes its own log only by moving a frame within it.
LEMMA SessionKeepsOrder ==
  ASSUME TypeOK, OrderInv, NEW s \in Stream, SessionStep(s)
  PROVE  OrderInv'
<1>1. UNCHANGED <<nextSpan, hpc, req, at, fed>>
  BY SessionKeepsSlots DEF SessionStep, slot, handler
<1>2. Unfed'
  BY <1>1 DEF OrderInv, Unfed
<1>3. ASSUME NEW t \in Stream PROVE OrderAt(t)'
  <2>1. Log(t)' = Log(t)
    <3>1. CASE t # s
      BY <3>1, SessionLeavesOthers DEF Untouched, Log
    <3>2. CASE t = s /\ Pops(s)
      <4>1. taken[s] \in Seq(Frame) /\ inbound[s] \in Seq(Frame)
        BY DEF TypeOK
      <4>2. /\ inbound[s] # <<>> /\ taken'[s] = Append(taken[s], Head(inbound[s]))
            /\ inbound'[s] = Tail(inbound[s])
        BY <3>2 DEF Pops
      <4>3. Append(taken[s], Head(inbound[s])) \o Tail(inbound[s]) = taken[s] \o inbound[s]
        BY <4>1, <4>2, LogPop
      <4>4. QED
        BY <3>2, <4>2, <4>3 DEF Log
    <3>3. CASE t = s /\ (TakesOff(s) \/ Idles(s))
      BY <3>3 DEF TakesOff, Idles, Log
    <3>4. QED
      BY <3>1, <3>2, <3>3, SessionMoves
  <2>2. BornEmpty(t)
    BY SessionBearsNone DEF NoneBorn, BornEmpty
  <2>3. /\ \A h \in Handler : Serves(h, t)' <=> Serves(h, t)
        /\ \A h \in Handler : HoldsOn(h, t)
    BY <1>1 DEF Serves, HoldsOn
  <2>4. QED
    BY <1>1, <2>1, <2>2, <2>3, OrderStays DEF OrderInv
<1>4. QED
  BY <1>2, <1>3 DEF OrderInv

\* accept gives a session nothing; one it mints was given nothing before.
LEMMA AcceptKeepsOrder ==
  ASSUME TypeOK, RegistryExact, UnbornClean, OrderInv, NEW h \in Handler, NEW t \in Trace,
         NEW sp \in Span, NEW n \in 0..MaxSize, Continue(h, t, sp, n) \/ Mint(h, t, sp, n)
  PROVE  OrderInv'
<1>1. /\ UNCHANGED <<nextSpan, fed>>
      /\ \A g \in Handler \ {h} : req'[g] = req[g]
  BY DEF Continue, Mint, Request, slot, TypeOK
<1>2. /\ hpc[h] = "idle" /\ hpc'[h] = "begin"
      /\ \A g \in Handler \ {h} : hpc'[g] = hpc[g] /\ at'[g] = at[g]
  BY AcceptMoves DEF TypeOK
<1>3. Unfed'
  BY <1>1, <1>2 DEF OrderInv, Unfed
<1>4. ASSUME NEW s \in Stream PROVE OrderAt(s)'
  <2>1. Log(s)' = Log(s)
    BY AcceptMoves DEF Untouched, Log
  <2>2. BornEmpty(s)
    <3> SUFFICES ASSUME life'[s] = "open", life[s] # "open"
                 PROVE  Log(s) = <<>> /\ \A g \in Handler : ~Serves(g, s)
      BY DEF BornEmpty
    <3>1. life[s] = "unborn"
      BY AcceptMoves
    <3>2. inbound[s] = <<>> /\ taken[s] = <<>> /\ \A g \in Handler : at[g] # s
      BY <3>1 DEF UnbornClean
    <3>3. QED
      BY <3>2 DEF Log, Serves
  <2>3. \A g \in Handler : Serves(g, s)' <=> Serves(g, s)
    BY <1>2 DEF Serves, Holding
  <2>4. \A g \in Handler : Serves(g, s) => HoldsOn(g, s)
    BY <1>1, <1>2 DEF Serves, HoldsOn, Holding
  <2>5. QED
    BY <1>1, <2>1, <2>2, <2>3, <2>4, OrderStays DEF OrderInv
<1>5. QED
  BY <1>3, <1>4 DEF OrderInv

\* However windows are repeated, overlapped, refused or broken off, a session is
\* given every window once, whole and in span order.
THEOREM OrderCorrect == Spec => []WindowOrder
<1>1. Init => OrderInv
  <2> SUFFICES ASSUME Init PROVE OrderInv
    OBVIOUS
  <2>1. \A s \in Stream : Log(s) = <<>>
    BY DEF Init, Log
  <2>2. \A s \in Stream : Chain(s, Log(s))
    <3> TAKE s \in Stream
    <3>1. Log(s) = <<>> /\ Len(<<>>) = 0
      BY <2>1
    <3>2. 1..(0 - 1) = {}
      OBVIOUS
    <3>3. QED
      BY <3>1, <3>2 DEF Chain
  <2>3. \A s \in Stream, h \in Handler : ~Serves(h, s)
    BY DEF Init, Serves, Holding
  <2>4. Unfed
    BY DEF Init, Unfed
  <2>5. QED
    BY <2>1, <2>2, <2>3, <2>4 DEF OrderInv, OrderAt, Complete
<1>2. ASSUME TypeOK, FedBehind, SlotHeld, RegistryExact, BornInv, OrderInv, [Next]_vars
      PROVE  OrderInv'
  <2>1. ASSUME NEW h \in Handler, NEW t \in Trace, NEW sp \in Span, NEW n \in 0..MaxSize,
               Continue(h, t, sp, n) \/ Mint(h, t, sp, n)
        PROVE  OrderInv'
    BY <1>2, <2>1, AcceptKeepsOrder DEF BornInv
  <2>2. ASSUME NEW h \in Handler,
               HandlerRuns(h) \/ DrainBroken(h) \/ HeadersLost(h) \/ FlushFails(h)
        PROVE  OrderInv'
    BY <1>2, <2>2, HandlerKeepsOrder
  <2>3. ASSUME NEW s \in Stream, SessionStep(s)
        PROVE  OrderInv'
    BY <1>2, <2>3, SessionKeepsOrder
  <2>4. CASE UNCHANGED vars
    <3>1. UNCHANGED <<life, inbound, taken, nextSpan, hpc, req, at, fed>>
      BY <2>4 DEF vars, stream, slot, queues, handler
    <3>2. \A s \in Stream : OrderAt(s)'
      <4> TAKE s \in Stream
      <4>1. Log(s)' = Log(s) /\ BornEmpty(s)
        BY <3>1 DEF Log, BornEmpty
      <4>2. \A h \in Handler : (Serves(h, s)' <=> Serves(h, s)) /\ HoldsOn(h, s)
        BY <3>1 DEF Serves, HoldsOn
      <4>3. QED
        BY <1>2, <3>1, <4>1, <4>2, OrderStays DEF OrderInv
    <3>3. QED
      BY <1>2, <3>1, <3>2 DEF OrderInv, Unfed
  <2>5. QED
    BY <1>2, <2>1, <2>2, <2>3, <2>4 DEF Next, SessionStep
<1>3. OrderInv => WindowOrder
  BY DEF OrderInv, OrderAt, Chain, Log, WindowOrder
<1>4. QED
  BY <1>1, <1>2, <1>3, TypeCorrect, OneWindow, RegistryCorrect, BudgetInvariant, PTL DEF Spec
=============================================================================
