---------------------------- MODULE RelayProofs -----------------------------
(***************************************************************************)
(* Proofs about Relay, for any number of chunks, any carrier capacity and   *)
(* any combination of failures.                                             *)
(***************************************************************************)
EXTENDS Relay, SequenceTheorems, TLAPS

-----------------------------------------------------------------------------
(* Sequences *)

\* Reading off the front.
LEMMA TailFacts ==
  ASSUME NEW S, NEW s \in Seq(S), s # <<>>
  PROVE  /\ Head(s) \in S
         /\ Head(s) = s[1]
         /\ Tail(s) \in Seq(S)
         /\ Len(Tail(s)) = Len(s) - 1
         /\ \A k \in 1..Len(Tail(s)) : Tail(s)[k] = s[k + 1]
OBVIOUS

\* Writing at the end.
LEMMA AppendFacts ==
  ASSUME NEW S, NEW s \in Seq(S), NEW e \in S
  PROVE  /\ Append(s, e) \in Seq(S)
         /\ Len(Append(s, e)) = Len(s) + 1
         /\ \A k \in 1..Len(s) : Append(s, e)[k] = s[k]
         /\ Append(s, e)[Len(s) + 1] = e
OBVIOUS

\* Losing the last element.
LEMMA FrontFacts ==
  ASSUME NEW S, NEW s \in Seq(S), s # <<>>
  PROVE  /\ SubSeq(s, 1, Len(s) - 1) \in Seq(S)
         /\ Len(SubSeq(s, 1, Len(s) - 1)) = Len(s) - 1
         /\ \A k \in 1..(Len(s) - 1) : SubSeq(s, 1, Len(s) - 1)[k] = s[k]
<1> DEFINE l == Len(s) - 1
<1>1. l \in Int /\ l >= 0 /\ \A k \in 1..l : s[k] \in S
  OBVIOUS
<1> HIDE DEF l
<1>2. /\ SubSeq(s, 1, l) \in Seq(S)
      /\ Len(SubSeq(s, 1, l)) = IF 1 <= l THEN l - 1 + 1 ELSE 0
      /\ \A k \in 1..(l - 1 + 1) : SubSeq(s, 1, l)[k] = s[1 + k - 1]
  BY <1>1, SubSeqProperties
<1>3. /\ Len(SubSeq(s, 1, l)) = l
      /\ \A k \in 1..l : SubSeq(s, 1, l)[k] = s[k]
  BY <1>1, <1>2
<1>4. QED
  BY <1>2, <1>3 DEF l

\* Length and emptiness.
LEMMA LenFacts ==
  ASSUME NEW S, NEW s \in Seq(S)
  PROVE  Len(s) \in Nat /\ (s = <<>> <=> Len(s) = 0)
OBVIOUS

\* The empty sequence.
LEMMA EmptyFacts ==
  ASSUME NEW S
  PROVE  <<>> \in Seq(S) /\ Len(<<>>) = 0
OBVIOUS

-----------------------------------------------------------------------------
(* Type correctness *)

\* What a teardown, a test of both flags, a read and a write of the carrier do
\* to the types, whichever goroutine performs them.
LEMMA StopTyped ==
  ASSUME TypeOK, NEW n \in Node, NEW o \in Outcome, StopWith(n, o)
  PROVE  /\ wire' \in [Node -> Seq(Frame)]
         /\ \A m \in Node : Len(wire'[m]) <= WireCap
         /\ reset' \in [Node -> BOOLEAN]
         /\ stopped' \in [Node -> BOOLEAN]
         /\ outcome' \in [Node -> Outcome \cup {"none"}]
  BY RelayAssumption, EmptyFacts DEF TypeOK, StopWith, Node, Peer

\* A test of both flags leaves the types alone.
LEMMA BothTyped ==
  ASSUME TypeOK, NEW n \in Node, BothClosed(n)
  PROVE  /\ wire' \in [Node -> Seq(Frame)]
         /\ \A m \in Node : Len(wire'[m]) <= WireCap
         /\ reset' \in [Node -> BOOLEAN]
         /\ stopped' \in [Node -> BOOLEAN]
         /\ outcome' \in [Node -> Outcome \cup {"none"}]
<1>1. CASE localEOF[n] /\ peerClosed[n]
  BY <1>1, StopTyped DEF BothClosed, Outcome
<1>2. CASE ~(localEOF[n] /\ peerClosed[n])
  BY <1>2 DEF BothClosed, TypeOK
<1>3. QED
  BY <1>1, <1>2

\* So does a read of the carrier ...
LEMMA ConsumeTyped ==
  ASSUME TypeOK, NEW n \in Node, Readable(n), Consume(n)
  PROVE  /\ wire' \in [Node -> Seq(Frame)]
         /\ \A m \in Node : Len(wire'[m]) <= WireCap
         /\ NextFrame(n) \in Frame
<1>1. Peer(n) \in Node /\ wire[Peer(n)] \in Seq(Frame) /\ wire[Peer(n)] # <<>>
  BY DEF TypeOK, Readable, Node, Peer
<1>2. QED
  BY <1>1, TailFacts, RelayAssumption DEF TypeOK, Consume, NextFrame

\* ... and a write to it.
LEMMA SendTyped ==
  ASSUME TypeOK, NEW n \in Node, NEW t \in FrameType, NEW p \in Nat, SendOK(n, t, p)
  PROVE  /\ wire' \in [Node -> Seq(Frame)]
         /\ \A m \in Node : Len(wire'[m]) <= WireCap
         /\ reset' \in [Node -> BOOLEAN]
         /\ UNCHANGED <<outcome, stopped>>
<1> DEFINE f == [type |-> t, pos |-> p]
<1>1. f \in Frame
  BY DEF Frame
<1>2. wire[n] \in Seq(Frame) /\ Append(wire[n], f) \in Seq(Frame)
      /\ Len(Append(wire[n], f)) = Len(wire[n]) + 1
  BY <1>1, AppendFacts DEF TypeOK
<1>3. CASE ~stopped[Peer(n)]
  <2>1. wire' = [wire EXCEPT ![n] = Append(wire[n], f)] /\ Len(wire[n]) < WireCap
    BY <1>3 DEF SendOK
  <2>2. reset' \in [Node -> BOOLEAN]
    BY <1>3 DEF SendOK, TypeOK
  <2> HIDE DEF f
  <2>3. wire' \in [Node -> Seq(Frame)]
    BY <1>2, <2>1 DEF TypeOK
  <2>4. ASSUME NEW m \in Node PROVE Len(wire'[m]) <= WireCap
    <3>1. Len(wire[n]) \in Nat /\ Len(wire[n]) + 1 <= WireCap
      BY <1>2, <2>1, RelayAssumption DEF TypeOK
    <3>2. CASE m = n
      BY <1>2, <2>1, <3>1, <3>2 DEF TypeOK
    <3>3. CASE m # n
      BY <2>1, <3>3 DEF TypeOK
    <3>4. QED
      BY <3>2, <3>3
  <2>5. QED
    BY <2>2, <2>3, <2>4 DEF SendOK
<1>4. CASE stopped[Peer(n)]
  BY <1>4 DEF TypeOK, SendOK
<1>5. QED
  BY <1>3, <1>4

\* Every state has the type TypeOK gives it; in particular the carrier never holds
\* more than its capacity and no end sends what its application did not write.
THEOREM TypeCorrect == Spec => []TypeOK
<1>1. Init => TypeOK
  <2> SUFFICES ASSUME Init PROVE TypeOK
    OBVIOUS
  <2>1. wire \in [Node -> Seq(Frame)] /\ \A n \in Node : Len(wire[n]) <= WireCap
    BY EmptyFacts, RelayAssumption DEF Init
  <2>2. received \in [Node -> Seq(Nat)]
    BY EmptyFacts DEF Init
  <2>3. \A n \in Node : sent[n] <= written[n] /\ written[n] <= MaxChunk[n]
    BY RelayAssumption DEF Init
  <2>4. QED
    BY <2>1, <2>2, <2>3 DEF Init, TypeOK
<1>2. ASSUME TypeOK, [Next]_vars
      PROVE  TypeOK'
  <2>1. ASSUME NEW n \in Node, ReaderDeliverErr(n) PROVE TypeOK'
    BY <2>1, <1>2, StopTyped DEF TypeOK, ReaderDeliverErr, Outcome, readerRest, pumpRest, keepRest, app
  <2>2. ASSUME NEW n \in Node, ReaderAnswerErr(n) PROVE TypeOK'
    BY <2>2, <1>2, StopTyped DEF TypeOK, ReaderAnswerErr, Outcome, readerRest, pumpRest, keepRest, app
  <2>3. ASSUME NEW n \in Node, ReaderRefuse(n) PROVE TypeOK'
    BY <2>3, <1>2, StopTyped DEF TypeOK, ReaderRefuse, Outcome, readerRest, pumpRest, keepRest, app
  <2>4. ASSUME NEW n \in Node, ReaderEnd(n) PROVE TypeOK'
    BY <2>4, <1>2, StopTyped DEF TypeOK, ReaderEnd, EndOutcome, Outcome, readerRest, pumpRest, keepRest, app
  <2>5. ASSUME NEW n \in Node, ReaderIdle(n) PROVE TypeOK'
    BY <2>5, <1>2, StopTyped DEF TypeOK, ReaderIdle, Outcome, readerRest, pumpRest, keepRest, app
  <2>6. ASSUME NEW n \in Node, PumpDataErr(n) PROVE TypeOK'
    BY <2>6, <1>2, StopTyped DEF TypeOK, PumpDataErr, Outcome, readerRest, pumpRest, keepRest, app
  <2>7. ASSUME NEW n \in Node, PumpLocalErr(n) PROVE TypeOK'
    BY <2>7, <1>2, StopTyped DEF TypeOK, PumpLocalErr, Outcome, readerRest, pumpRest, keepRest, app
  <2>8. ASSUME NEW n \in Node, KeepalivePingErr(n) PROVE TypeOK'
    BY <2>8, <1>2, StopTyped DEF TypeOK, KeepalivePingErr, Outcome, readerRest, pumpRest, keepRest, app
  <2>9. ASSUME NEW n \in Node, ReaderBoth(n) PROVE TypeOK'
    BY <2>9, <1>2, BothTyped, AppendFacts DEF TypeOK, ReaderBoth, readerRest, pumpRest, app
  <2>10. ASSUME NEW n \in Node, PumpBoth(n) PROVE TypeOK'
    BY <2>10, <1>2, BothTyped, AppendFacts DEF TypeOK, PumpBoth, readerRest, pumpRest, app
  <2>11. ASSUME NEW n \in Node, ReaderDeliver(n) PROVE TypeOK'
    BY <2>11, <1>2, BothTyped, AppendFacts DEF TypeOK, ReaderDeliver, readerRest, pumpRest, app
  <2>12. ASSUME NEW n \in Node, ReaderData(n) PROVE TypeOK'
    BY <2>12, <1>2, ConsumeTyped DEF TypeOK, ReaderData, Frame, readerRest, app
  <2>13. ASSUME NEW n \in Node, ReaderClose(n) PROVE TypeOK'
    BY <2>13, <1>2, ConsumeTyped DEF TypeOK, ReaderClose, Frame, readerRest, app
  <2>14. ASSUME NEW n \in Node, ReaderPing(n) \/ ReaderViolation(n) PROVE TypeOK'
    BY <2>14, <1>2, ConsumeTyped DEF TypeOK, ReaderPing, ReaderViolation, Frame, readerRest, app
  <2>15. ASSUME NEW n \in Node, ReaderPong(n) PROVE TypeOK'
    BY <2>15, <1>2, ConsumeTyped DEF TypeOK, ReaderPong, Frame, readerRest, app
  <2>16. ASSUME NEW n \in Node, ReaderAnswer(n) PROVE TypeOK'
    BY <2>16, <1>2, SendTyped DEF TypeOK, ReaderAnswer, FrameType, readerRest, pumpRest, keepRest, app
  <2>17. ASSUME NEW n \in Node, PumpData(n) PROVE TypeOK'
    <3>1. sent[n] + 1 \in Nat /\ sent[n] + 1 <= written[n]
      BY <2>17, <1>2 DEF TypeOK, PumpData
    <3>2. \A m \in Node : sent'[m] <= written'[m] /\ written'[m] <= MaxChunk[m]
      BY <2>17, <3>1, <1>2 DEF TypeOK, PumpData, pumpRest, app
    <3>3. QED
      BY <2>17, <3>1, <3>2, <1>2, SendTyped DEF TypeOK, PumpData, FrameType, pumpRest, app
  <2>18. ASSUME NEW n \in Node, PumpClose(n) PROVE TypeOK'
    BY <2>18, <1>2, SendTyped DEF TypeOK, PumpClose, FrameType, readerRest, pumpRest, keepRest, app
  <2>19. ASSUME NEW n \in Node, KeepalivePing(n) PROVE TypeOK'
    BY <2>19, <1>2, SendTyped DEF TypeOK, KeepalivePing, FrameType, readerRest, pumpRest, keepRest, app
  <2>20. ASSUME NEW n \in Node, Stray(n) PROVE TypeOK'
    BY <2>20, <1>2, SendTyped DEF TypeOK, Stray, FrameType, readerRest, pumpRest, keepRest, app
  <2>21. ASSUME NEW n \in Node, ReaderAborted(n) PROVE TypeOK'
    BY <2>21, <1>2, RelayAssumption DEF TypeOK, ReaderAborted, readerRest, pumpRest, keepRest, app, control
  <2>22. ASSUME NEW n \in Node, PumpCloseErr(n) PROVE TypeOK'
    BY <2>22, <1>2, RelayAssumption DEF TypeOK, PumpCloseErr, readerRest, pumpRest, keepRest, app, control
  <2>23. ASSUME NEW n \in Node, PumpAborted(n) PROVE TypeOK'
    BY <2>23, <1>2, RelayAssumption DEF TypeOK, PumpAborted, readerRest, pumpRest, keepRest, app, control
  <2>24. ASSUME NEW n \in Node, KeepaliveDone(n) PROVE TypeOK'
    BY <2>24, <1>2, RelayAssumption DEF TypeOK, KeepaliveDone, readerRest, pumpRest, keepRest, app, control
  <2>25. ASSUME NEW n \in Node, AppWrite(n) PROVE TypeOK'
    BY <2>25, <1>2, RelayAssumption DEF TypeOK, AppWrite, readerRest, pumpRest, keepRest, app, control
  <2>26. ASSUME NEW n \in Node, AppShutdown(n) PROVE TypeOK'
    BY <2>26, <1>2, RelayAssumption DEF TypeOK, AppShutdown, readerRest, pumpRest, keepRest, app, control
  <2>27. ASSUME NEW n \in Node, LoseTail(n) PROVE TypeOK'
    <3>1. wire[n] \in Seq(Frame) /\ SubSeq(wire[n], 1, Len(wire[n]) - 1) \in Seq(Frame)
          /\ Len(SubSeq(wire[n], 1, Len(wire[n]) - 1)) = Len(wire[n]) - 1
      BY <1>2, <2>27, FrontFacts DEF TypeOK, LoseTail
    <3>2. wire' \in [Node -> Seq(Frame)] /\ \A m \in Node : Len(wire'[m]) <= WireCap
      BY <1>2, <2>27, <3>1, RelayAssumption DEF TypeOK, LoseTail
    <3>3. QED
      BY <1>2, <2>27, <3>2 DEF TypeOK, LoseTail, app, control
  <2>28. CASE Break
    BY <2>28, <1>2 DEF TypeOK, Break, app, control
  <2>29. CASE UNCHANGED vars
    BY <2>29, <1>2 DEF TypeOK, vars
  <2>30. QED
    BY <1>2, <2>1, <2>2, <2>3, <2>4, <2>5, <2>6, <2>7, <2>8, <2>9, <2>10, <2>11, <2>12, <2>13, <2>14, <2>15, <2>16, <2>17, <2>18, <2>19, <2>20, <2>21, <2>22, <2>23, <2>24, <2>25, <2>26, <2>27, <2>28, <2>29
       DEF Next, ReaderRuns, PumpRuns, KeepaliveRuns, Environment, Finished
<1>3. QED
  BY <1>1, <1>2, PTL DEF Spec
-----------------------------------------------------------------------------
(* The frames of one direction *)

\* No frame, nothing to continue.
LEMMA ChainEmpty ==
  ASSUME NEW t \in Nat, NEW s \in Nat, t <= s
  PROVE  Chain(<<>>, t, s)
BY EmptyFacts DEF Chain

\* Reading the first frame.
LEMMA ChainTail ==
  ASSUME NEW w \in Seq(Frame), NEW t \in Nat, NEW s \in Nat,
         w # <<>>, Chain(w, t, s)
  PROVE  /\ w[1] \in Frame
         /\ w[1].pos = t + Data(w[1]) /\ w[1].pos <= s
         /\ Chain(Tail(w), t + Data(w[1]), s)
         /\ Complete(w, t, s) => Complete(Tail(w), t + Data(w[1]), s)
<1>1. /\ Tail(w) \in Seq(Frame) /\ Len(w) \in Nat \ {0}
      /\ Len(Tail(w)) = Len(w) - 1
      /\ \A k \in 1..Len(Tail(w)) : Tail(w)[k] = w[k + 1]
      /\ w[1] \in Frame
  BY TailFacts
<1>2. w[1].pos = t + Data(w[1]) /\ w[1].pos <= s
  BY <1>1 DEF Chain
<1>3. Data(w[1]) \in Nat
  BY DEF Data
<1> DEFINE v == Tail(w)
           u == t + Data(w[1])
<1>4. /\ v \in Seq(Frame) /\ Len(v) \in Nat /\ Len(v) = Len(w) - 1
      /\ \A k \in 1..Len(v) : v[k] = w[k + 1]
      /\ u = w[1].pos /\ u <= s
      /\ v = <<>> <=> Len(v) = 0
  <2>1. v \in Seq(Frame)
    BY <1>1
  <2> HIDE DEF v
  <2>2. Len(v) \in Nat /\ (v = <<>> <=> Len(v) = 0)
    BY <2>1, LenFacts
  <2> USE DEF v
  <2>3. QED
    BY <1>1, <1>2, <2>2
<1> HIDE DEF v, u
<1>5. v # <<>> => v[1].pos = u + Data(v[1])
  <2> SUFFICES ASSUME v # <<>> PROVE v[1].pos = u + Data(v[1])
    OBVIOUS
  <2>1. 1 \in 1..(Len(w) - 1) /\ v[1] = w[1 + 1]
    BY <1>1, <1>4
  <2>2. QED
    BY <2>1, <1>4 DEF Chain
<1>6. ASSUME NEW k \in 1..(Len(v) - 1) PROVE v[k + 1].pos = v[k].pos + Data(v[k + 1])
  <2>1. k \in 1..Len(v) /\ k + 1 \in 1..Len(v) /\ k + 1 \in 1..(Len(w) - 1)
    BY <1>1, <1>4
  <2>2. v[k] = w[k + 1] /\ v[k + 1] = w[(k + 1) + 1]
    BY <2>1, <1>4
  <2>3. QED
    BY <2>1, <2>2 DEF Chain
<1>7. ASSUME NEW k \in 1..Len(v) PROVE v[k].pos <= s
  <2>1. k + 1 \in 1..Len(w) /\ v[k] = w[k + 1]
    BY <1>1, <1>4
  <2>2. QED
    BY <2>1 DEF Chain
<1>8. Chain(v, u, s)
  BY <1>4, <1>5, <1>6, <1>7 DEF Chain
<1>9. Complete(w, t, s) => Complete(v, u, s)
  <2> SUFFICES ASSUME Complete(w, t, s) PROVE Complete(v, u, s)
    OBVIOUS
  <2>1. w[Len(w)].pos = s
    BY DEF Complete
  <2>2. CASE v = <<>>
    <3>1. Len(w) = 1
      <4>1. Len(v) = 0
        BY <2>2, <1>4, Zenon
      <4>2. Len(w) \in Nat /\ Len(v) = Len(w) - 1
        BY <1>1, <1>4, Zenon
      <4>3. QED
        BY <4>1, <4>2
    <3>2. u = s
      BY <2>1, <3>1, <1>4
    <3>3. QED
      BY <2>2, <3>2 DEF Complete
  <2>3. CASE v # <<>>
    <3>1. Len(v) \in 1..Len(v) /\ Len(v) + 1 = Len(w)
      BY <2>3, <1>1, <1>4
    <3>2. v[Len(v)] = w[Len(w)]
      BY <3>1, <1>4
    <3>3. QED
      BY <2>1, <2>3, <3>2 DEF Complete
  <2>4. QED
    BY <2>2, <2>3
<1>10. QED
  BY <1>1, <1>2, <1>8, <1>9 DEF v, u

\* Writing a frame that continues a complete stream.
LEMMA ChainAppend ==
  ASSUME NEW w \in Seq(Frame), NEW t \in Nat, NEW s \in Nat, NEW f \in Frame,
         Chain(w, t, s), Complete(w, t, s), f.pos = s + Data(f)
  PROVE  /\ Chain(Append(w, f), t, f.pos)
         /\ Complete(Append(w, f), t, f.pos)
<1> DEFINE v == Append(w, f)
<1>1. /\ v \in Seq(Frame) /\ Len(w) \in Nat /\ Len(v) = Len(w) + 1
      /\ \A k \in 1..Len(w) : v[k] = w[k]
      /\ v[Len(w) + 1] = f
      /\ w = <<>> => Len(w) = 0
      /\ w # <<>> => Len(w) # 0
      /\ v # <<>>
  BY AppendFacts
<1>2. Data(f) \in Nat /\ f.pos \in Nat /\ s <= f.pos /\ t <= f.pos
  BY DEF Data, Frame, Chain
<1> HIDE DEF v
<1>3. v[1].pos = t + Data(v[1])
  <2>1. CASE w = <<>>
    BY <2>1, <1>1 DEF Complete
  <2>2. CASE w # <<>>
    BY <2>2, <1>1 DEF Chain
  <2>3. QED
    BY <2>1, <2>2
<1>4. ASSUME NEW k \in 1..(Len(v) - 1) PROVE v[k + 1].pos = v[k].pos + Data(v[k + 1])
  <2>1. CASE k = Len(w)
    <3>1. v[k] = w[Len(w)] /\ v[k + 1] = f /\ w # <<>>
      BY <2>1, <1>1
    <3>2. w[Len(w)].pos = s
      BY <3>1 DEF Complete
    <3>3. QED
      BY <3>1, <3>2
  <2>2. CASE k # Len(w)
    <3>1. k \in 1..(Len(w) - 1) /\ k \in 1..Len(w) /\ k + 1 \in 1..Len(w)
      BY <2>2, <1>1
    <3>2. v[k] = w[k] /\ v[k + 1] = w[k + 1]
      BY <3>1, <1>1
    <3>3. QED
      BY <3>1, <3>2 DEF Chain
  <2>3. QED
    BY <2>1, <2>2
<1>5. ASSUME NEW k \in 1..Len(v) PROVE v[k].pos <= f.pos
  <2>1. CASE k = Len(w) + 1
    BY <2>1, <1>1, <1>2
  <2>2. CASE k # Len(w) + 1
    <3>1. k \in 1..Len(w) /\ v[k] = w[k] /\ w[k] \in Frame
      BY <2>2, <1>1
    <3>2. w[k].pos <= s /\ w[k].pos \in Nat
      BY <3>1 DEF Chain, Frame
    <3>3. QED
      BY <3>1, <3>2, <1>2
  <2>3. QED
    BY <2>1, <2>2
<1>6. Chain(v, t, f.pos)
  BY <1>2, <1>3, <1>4, <1>5 DEF Chain
<1>7. Complete(v, t, f.pos)
  BY <1>1 DEF Complete
<1>8. QED
  BY <1>6, <1>7 DEF v

\* Losing the last frame; writing to nobody.
LEMMA ChainFront ==
  ASSUME NEW w \in Seq(Frame), NEW t \in Nat, NEW s \in Nat,
         w # <<>>, Chain(w, t, s)
  PROVE  Chain(SubSeq(w, 1, Len(w) - 1), t, s)
<1> DEFINE v == SubSeq(w, 1, Len(w) - 1)
<1>1. /\ v \in Seq(Frame) /\ Len(v) \in Nat /\ Len(w) \in Nat
      /\ Len(v) = Len(w) - 1
      /\ \A k \in 1..Len(v) : v[k] = w[k]
      /\ v # <<>> => Len(v) # 0
  <2>1. v \in Seq(Frame) /\ Len(v) = Len(w) - 1 /\ Len(w) \in Nat
        /\ \A k \in 1..(Len(w) - 1) : v[k] = w[k]
    BY FrontFacts, LenFacts
  <2> HIDE DEF v
  <2>2. Len(v) \in Nat /\ (v = <<>> <=> Len(v) = 0)
    BY <2>1, LenFacts
  <2>3. QED
    BY <2>1, <2>2
<1> HIDE DEF v
<1>2. v # <<>> => v[1].pos = t + Data(v[1])
  BY <1>1 DEF Chain
<1>3. ASSUME NEW k \in 1..(Len(v) - 1) PROVE v[k + 1].pos = v[k].pos + Data(v[k + 1])
  <2>1. k \in 1..(Len(w) - 1) /\ k \in 1..Len(v) /\ k + 1 \in 1..Len(v)
    BY <1>1
  <2>2. v[k] = w[k] /\ v[k + 1] = w[k + 1]
    BY <2>1, <1>1
  <2>3. QED
    BY <2>1, <2>2 DEF Chain
<1>4. ASSUME NEW k \in 1..Len(v) PROVE v[k].pos <= s
  BY <1>1 DEF Chain
<1>5. Chain(v, t, s)
  BY <1>2, <1>3, <1>4 DEF Chain
<1>6. QED
  BY <1>5 DEF v

\* More may be sent than the frames on the wire account for.
LEMMA ChainGrow ==
  ASSUME NEW w \in Seq(Frame), NEW t \in Nat, NEW s \in Nat, Chain(w, t, s)
  PROVE  Chain(w, t, s + 1)
<1>1. ASSUME NEW k \in 1..Len(w) PROVE w[k].pos <= s + 1
  <2>1. w[k] \in Frame
    OBVIOUS
  <2>2. w[k].pos \in Nat /\ w[k].pos <= s
    BY <2>1 DEF Frame, Chain
  <2>3. QED
    BY <2>2
<1>2. QED
  BY <1>1 DEF Chain
-----------------------------------------------------------------------------
(* What each class of step does to the invariant *)

\* There are two ends.
LEMMA NodeFacts ==
  ASSUME NEW n \in Node
  PROVE  /\ Peer(n) \in Node /\ Peer(n) # n /\ Peer(Peer(n)) = n
         /\ \A m \in Node : m = n \/ m = Peer(n)
BY DEF Node, Peer

\* What a reader has taken is what it delivered, and one more if it holds one.
LEMMA TakenFacts ==
  ASSUME TypeOK, NEW n \in Node
  PROVE  /\ Taken(n) \in Nat /\ Len(received[n]) \in Nat /\ sent[n] \in Nat
         /\ wire[n] \in Seq(Frame) /\ received[n] \in Seq(Nat)
         /\ rpc[n] # "data" => Taken(n) = Len(received[n])
         /\ rpc[n] = "data" => Taken(n) = Len(received[n]) + 1
<1>1. received[n] \in Seq(Nat) /\ sent[n] \in Nat /\ wire[n] \in Seq(Frame)
  BY DEF TypeOK
<1>2. Len(received[n]) \in Nat
  BY <1>1, LenFacts
<1>3. CASE rpc[n] = "data"
  <2>1. Taken(n) = Len(received[n]) + 1
    BY <1>3 DEF Taken
  <2>2. QED
    BY <1>1, <1>2, <1>3, <2>1
<1>4. CASE rpc[n] # "data"
  <2>1. Taken(n) = Len(received[n])
    BY <1>2, <1>4 DEF Taken
  <2>2. QED
    BY <1>1, <1>2, <1>4, <2>1
<1>5. QED
  BY <1>3, <1>4

\* Steps that leave the carrier, the streams and the verdicts alone.
LEMMA QuietStep ==
  ASSUME TypeOK, IInv,
         UNCHANGED <<wire, sent, received, peerClosed, outcome, stopped, held>>,
         \A m \in Node : rpc'[m] = "data" <=> rpc[m] = "data",
         \A m \in Node : rpc'[m] = "done" => rpc[m] = "done" \/ stopped[m],
         broken => broken',
         \A m \in Node : StreamOver(m) => StreamOver(m)'
  PROVE  IInv'
<1> SUFFICES ASSUME NEW n \in Node
             PROVE  StreamInv(n)' /\ ReaderInv(n)' /\ EndInv(n)'
  BY DEF IInv
<1>1. Peer(n) \in Node /\ StreamInv(n) /\ ReaderInv(n) /\ EndInv(n)
  BY NodeFacts DEF IInv
<1>2. Taken(Peer(n))' = Taken(Peer(n))
  BY <1>1 DEF Taken
<1>3. StreamInv(n)'
  <2>1. (CloseOnWire(n) \/ peerClosed[Peer(n)])' <=> CloseOnWire(n) \/ peerClosed[Peer(n)]
    BY DEF CloseOnWire
  <2>2. Live(n)' => Live(n)
    BY DEF Live
  <2>3. Chain(wire[n], Taken(Peer(n)), sent[n])' <=> Chain(wire[n], Taken(Peer(n)), sent[n])
    BY <1>2 DEF Chain
  <2>4. Complete(wire[n], Taken(Peer(n)), sent[n])' <=> Complete(wire[n], Taken(Peer(n)), sent[n])
    BY <1>2 DEF Complete
  <2>5. QED
    BY <1>1, <2>1, <2>2, <2>3, <2>4 DEF StreamInv
<1>4. ReaderInv(n)'
  BY <1>1 DEF ReaderInv
<1>5. EndInv(n)'
  BY <1>1 DEF EndInv
<1>6. QED
  BY <1>3, <1>4, <1>5

\* A teardown.
LEMMA StopStep ==
  ASSUME TypeOK, IInv, NEW n \in Node, NEW o \in Outcome, StopWith(n, o),
         UNCHANGED <<sent, received, peerClosed, broken, written, finished>>,
         o = "closed" => peerClosed[n],
         \A m \in Node : rpc'[m] = "data" => rpc[m] = "data" /\ held'[m] = held[m],
         \A m \in Node : m # n => rpc'[m] = rpc[m],
         \A m \in Node : ppc[m] # "read" => ppc'[m] # "read"
  PROVE  IInv'
<1> DEFINE p == Peer(n)
<1>1. /\ p \in Node /\ p # n /\ Peer(p) = n
      /\ \A m \in Node : m = n \/ m = p
  BY NodeFacts
<1> HIDE DEF p
<1>2. /\ StreamInv(n) /\ ReaderInv(n) /\ EndInv(n)
      /\ StreamInv(p) /\ ReaderInv(p) /\ EndInv(p)
  BY <1>1 DEF IInv
<1>3. /\ wire' = [wire EXCEPT ![p] = <<>>]
      /\ stopped' = [stopped EXCEPT ![n] = TRUE]
      /\ outcome' = [outcome EXCEPT ![n] = IF @ = "none" THEN o ELSE @]
  BY DEF StopWith, p
<1>4. wire'[p] = <<>> /\ wire'[n] = wire[n]
  BY <1>1, <1>3 DEF TypeOK
<1>5. stopped'[n] /\ stopped'[p] = stopped[p]
  BY <1>1, <1>3 DEF TypeOK
<1>6. /\ outcome'[n] = (IF outcome[n] = "none" THEN o ELSE outcome[n])
      /\ outcome'[p] = outcome[p]
  BY <1>1, <1>3 DEF TypeOK
<1>7. \A m \in Node : StreamOver(m) => StreamOver(m)'
  BY DEF StreamOver
<1>8. ~Live(n)' /\ ~Live(p)'
  BY <1>1, <1>5 DEF Live, p
<1>9. StreamInv(n)'
  <2>1. Taken(p)' = Taken(p)
    BY <1>1 DEF Taken
  <2>2. Chain(wire[n], Taken(p), sent[n])'
    BY <1>2, <1>4, <2>1 DEF StreamInv, Chain, p
  <2>3. (CloseOnWire(n) \/ peerClosed[p]) => StreamOver(n)
    BY <1>2 DEF StreamInv, p
  <2>4. (CloseOnWire(n) \/ peerClosed[p])' => CloseOnWire(n) \/ peerClosed[p]
    BY <1>4 DEF CloseOnWire
  <2>5. (\A k \in 1..Len(wire[n]) : wire[n][k].type = "CLOSE" => wire[n][k].pos = sent[n])'
    BY <1>2, <1>4 DEF StreamInv
  <2>6. (peerClosed[p] => rpc[p] # "data" /\ Len(received[p]) = sent[n])'
    BY <1>1, <1>2 DEF StreamInv, p
  <2>7. QED
    BY <1>7, <1>8, <2>2, <2>3, <2>4, <2>5, <2>6 DEF StreamInv, p
<1>10. StreamInv(p)'
  <2>1. /\ Taken(n) \in Nat /\ Len(received[n]) \in Nat /\ sent[p] \in Nat
        /\ rpc[n] # "data" => Taken(n) = Len(received[n])
        /\ rpc[n] = "data" => Taken(n) = Len(received[n]) + 1
    BY <1>1, TakenFacts
  <2>2. Taken(n) <= sent[p]
    BY <1>1, <1>2 DEF StreamInv, Chain
  <2>3. Taken(n)' \in Nat /\ Taken(n)' <= sent[p]
    <3>1. CASE rpc'[n] = "data"
      BY <3>1, <2>1, <2>2 DEF Taken
    <3>2. CASE rpc'[n] # "data"
      <4>1. Taken(n)' = Len(received[n])
        BY <3>2, <2>1 DEF Taken
      <4>2. QED
        BY <4>1, <2>1, <2>2
    <3>3. QED
      BY <3>1, <3>2
  <2>4. Chain(<<>>, Taken(n)', sent[p])
    BY <2>1, <2>3, ChainEmpty
  <2>5. Chain(wire[p], Taken(n), sent[p])'
    BY <2>4, <1>4 DEF Chain
  <2>6. ~CloseOnWire(p)'
    BY <1>4, EmptyFacts DEF CloseOnWire
  <2>7. peerClosed[n] => StreamOver(p)
    BY <1>1, <1>2 DEF StreamInv
  <2>8. (\A k \in 1..Len(wire[p]) : wire[p][k].type = "CLOSE" => wire[p][k].pos = sent[p])'
    BY <1>4, EmptyFacts
  <2>9. (peerClosed[n] => rpc[n] # "data" /\ Len(received[n]) = sent[p])'
    BY <1>1, <1>2 DEF StreamInv
  <2>10. QED
    BY <1>1, <1>7, <1>8, <2>5, <2>6, <2>7, <2>8, <2>9 DEF StreamInv
<1>11. \A m \in Node : ReaderInv(m)'
  BY DEF ReaderInv, IInv
<1>12. EndInv(n)' /\ EndInv(p)'
  BY <1>1, <1>2, <1>5, <1>6 DEF EndInv, Outcome
<1>13. QED
  BY <1>1, <1>9, <1>10, <1>11, <1>12 DEF IInv
\* The next frame.
LEMMA ReadStep ==
  ASSUME TypeOK, IInv, NEW n \in Node, Readable(n), Consume(n),
         UNCHANGED <<sent, received, outcome, stopped, broken, ppc, written, finished>>,
         \A m \in Node : m # n => rpc'[m] = rpc[m] /\ held'[m] = held[m],
         NextFrame(n).type = "DATA" =>
           rpc'[n] = "data" /\ held'[n] = NextFrame(n).pos /\ UNCHANGED peerClosed,
         NextFrame(n).type # "DATA" => rpc'[n] \notin {"data", "done"},
         NextFrame(n).type = "CLOSE" => peerClosed' = [peerClosed EXCEPT ![n] = TRUE],
         NextFrame(n).type # "CLOSE" => UNCHANGED peerClosed
  PROVE  IInv'
<1> DEFINE p == Peer(n)
           f == NextFrame(n)
           w == wire[p]
<1>1. /\ p \in Node /\ p # n /\ Peer(p) = n
      /\ \A m \in Node : m = n \/ m = p
  BY NodeFacts
<1>2. rpc[n] = "read" /\ ~stopped[n] /\ w # <<>>
  BY DEF Readable
<1>3. /\ Len(received[n]) \in Nat /\ Taken(n) = Len(received[n])
      /\ sent[p] \in Nat /\ w \in Seq(Frame) /\ Len(w) \in Nat
  BY <1>1, <1>2, TakenFacts, LenFacts
<1>4. f = w[1] /\ wire' = [wire EXCEPT ![p] = Tail(w)]
  BY <1>2, <1>3, TailFacts DEF Consume, NextFrame
<1> HIDE DEF p, f
<1>5. wire'[p] = Tail(w) /\ wire'[n] = wire[n]
  BY <1>1, <1>4 DEF TypeOK
<1>6. /\ StreamInv(n) /\ ReaderInv(n) /\ EndInv(n)
      /\ StreamInv(p) /\ ReaderInv(p) /\ EndInv(p)
  BY <1>1 DEF IInv
<1>7. Chain(w, Len(received[n]), sent[p])
  BY <1>1, <1>3, <1>6 DEF StreamInv
<1>8. Live(p) => Complete(w, Len(received[n]), sent[p])
  BY <1>1, <1>3, <1>6 DEF StreamInv
<1>9. /\ f \in Frame /\ f.pos = Len(received[n]) + Data(f) /\ f.pos <= sent[p]
      /\ Chain(Tail(w), Len(received[n]) + Data(f), sent[p])
      /\ Live(p) => Complete(Tail(w), Len(received[n]) + Data(f), sent[p])
  <2> HIDE DEF w
  <2>1. QED
    BY <1>2, <1>3, <1>4, <1>7, <1>8, ChainTail
<1>10. Taken(n)' = Len(received[n]) + Data(f)
  <2>1. CASE f.type = "DATA"
    <3>1. rpc'[n] = "data" /\ received' = received
      BY <2>1 DEF f
    <3>2. QED
      BY <2>1, <3>1 DEF Taken, Data
  <2>2. CASE f.type # "DATA"
    <3>1. rpc'[n] # "data" /\ received' = received
      BY <2>2 DEF f
    <3>2. QED
      BY <2>2, <3>1 DEF Taken, Data
  <2>3. QED
    BY <2>1, <2>2
<1>11. \A m \in Node : (StreamOver(m) <=> StreamOver(m)') /\ (Live(m)' <=> Live(m))
  BY DEF StreamOver, Live
<1>12. peerClosed[n] => f.type # "DATA"
  <2>1. peerClosed[n] => Len(received[n]) = sent[p]
    BY <1>1, <1>6 DEF StreamInv
  <2>2. f.type = "DATA" => Len(received[n]) + 1 <= sent[p]
    BY <1>9 DEF Data
  <2>3. QED
    BY <1>3, <2>1, <2>2
<1>13. f.type = "CLOSE" => StreamOver(p) /\ Len(received[n]) = sent[p]
  <2> SUFFICES ASSUME f.type = "CLOSE" PROVE StreamOver(p) /\ Len(received[n]) = sent[p]
    OBVIOUS
  <2>1. 1 \in 1..Len(w) /\ w[1].type = "CLOSE"
    BY <1>2, <1>3, <1>4, LenFacts
  <2>2. StreamOver(p)
    BY <1>1, <1>6, <2>1 DEF StreamInv, CloseOnWire
  <2>3. w[1].pos = sent[p]
    BY <1>6, <2>1 DEF StreamInv
  <2>4. f.pos = Len(received[n])
    BY <1>3, <1>9 DEF Data
  <2>5. QED
    BY <1>4, <2>2, <2>3, <2>4
<1>14. peerClosed'[n] => peerClosed[n] \/ f.type = "CLOSE"
  BY DEF TypeOK, f
<1>15. peerClosed'[p] = peerClosed[p]
  BY <1>1 DEF TypeOK
<1>16. StreamInv(n)'
  <2>1. rpc'[p] = rpc[p] /\ received' = received /\ sent' = sent
    BY <1>1
  <2>2. Taken(p)' = Taken(p)
    BY <2>1 DEF Taken
  <2>3. Chain(wire[n], Taken(p), sent[n])' /\ (Live(n)' => Complete(wire[n], Taken(p), sent[n])')
    BY <1>5, <1>6, <1>11, <2>1, <2>2 DEF StreamInv, Chain, Complete, p
  <2>4. (CloseOnWire(n) \/ peerClosed[p])' => StreamOver(n)'
    BY <1>5, <1>6, <1>11, <1>15 DEF StreamInv, CloseOnWire, p
  <2>5. (\A k \in 1..Len(wire[n]) : wire[n][k].type = "CLOSE" => wire[n][k].pos = sent[n])'
    BY <1>5, <1>6, <2>1 DEF StreamInv
  <2>6. (peerClosed[p] => rpc[p] # "data" /\ Len(received[p]) = sent[n])'
    BY <1>6, <1>15, <2>1 DEF StreamInv, p
  <2>7. QED
    BY <2>3, <2>4, <2>5, <2>6 DEF StreamInv, p
<1>17. StreamInv(p)'
  <2>1. Chain(wire[p], Taken(n), sent[p])' /\ (Live(p)' => Complete(wire[p], Taken(n), sent[p])')
    BY <1>1, <1>5, <1>9, <1>10, <1>11 DEF Chain, Complete
  <2>2. /\ Tail(w) \in Seq(Frame) /\ Len(Tail(w)) = Len(w) - 1
        /\ \A k \in 1..Len(Tail(w)) : Tail(w)[k] = w[k + 1]
    BY <1>2, <1>3, TailFacts
  <2>3. ASSUME NEW k \in 1..Len(Tail(w)), Tail(w)[k].type = "CLOSE"
        PROVE  CloseOnWire(p) /\ Tail(w)[k].pos = sent[p]
    <3>1. k + 1 \in 1..Len(w) /\ Tail(w)[k] = w[k + 1]
      BY <1>3, <2>2
    <3>2. QED
      BY <1>6, <2>3, <3>1 DEF CloseOnWire, StreamInv
  <2>4. (CloseOnWire(p) \/ peerClosed[n])' => StreamOver(p)'
    <3>1. CloseOnWire(p)' => CloseOnWire(p)
      BY <1>5, <2>3 DEF CloseOnWire
    <3>2. QED
      BY <1>1, <1>6, <1>11, <1>13, <1>14, <3>1 DEF StreamInv
  <2>5. (\A k \in 1..Len(wire[p]) : wire[p][k].type = "CLOSE" => wire[p][k].pos = sent[p])'
    BY <1>5, <2>3
  <2>6. (peerClosed[n] => rpc[n] # "data" /\ Len(received[n]) = sent[p])'
    <3>1. peerClosed[n] => Len(received[n]) = sent[p]
      BY <1>1, <1>6 DEF StreamInv
    <3>2. f.type # "DATA" => rpc'[n] # "data"
      BY DEF f
    <3>3. QED
      BY <1>12, <1>13, <1>14, <3>1, <3>2
  <2>7. QED
    BY <1>1, <2>1, <2>4, <2>5, <2>6 DEF StreamInv
<1>18. ReaderInv(n)'
  <2>1. rpc'[n] = "data" => held'[n] = Len(received[n]) + 1
    <3>1. rpc'[n] = "data" => f.type = "DATA" /\ held'[n] = f.pos
      BY DEF f
    <3>2. QED
      BY <1>9, <3>1 DEF Data
  <2>2. QED
    BY <1>6, <2>1 DEF ReaderInv
<1>19. ReaderInv(p)'
  BY <1>1, <1>6 DEF ReaderInv
<1>20. EndInv(n)'
  <2>1. rpc'[n] # "done"
    BY DEF f
  <2>2. peerClosed[n] => peerClosed'[n]
    BY DEF TypeOK
  <2>3. QED
    BY <1>6, <2>1, <2>2 DEF EndInv
<1>21. EndInv(p)'
  BY <1>1, <1>6, <1>15 DEF EndInv
<1>22. QED
  BY <1>1, <1>16, <1>17, <1>18, <1>19, <1>20, <1>21 DEF IInv

\* A frame written: DATA by the pump before its end of stream, CLOSE behind the
\* last chunk, and any other frame, repeating the position.
LEMMA SendStep ==
  ASSUME TypeOK, IInv, NEW n \in Node, NEW t \in FrameType,
         SendOK(n, t, IF t = "DATA" THEN sent[n] + 1 ELSE sent[n]),
         UNCHANGED <<received, peerClosed, broken, held, written, finished>>,
         \A m \in Node : rpc'[m] = "data" <=> rpc[m] = "data",
         \A m \in Node : rpc'[m] = "done" <=> rpc[m] = "done",
         \A m \in Node : ppc[m] # "read" => ppc'[m] # "read",
         t = "DATA" => sent' = [sent EXCEPT ![n] = @ + 1] /\ ppc[n] = "read",
         t # "DATA" => UNCHANGED sent,
         t = "CLOSE" => StreamOver(n)'
  PROVE  IInv'
<1> DEFINE p == Peer(n)
           w == wire[n]
           s == sent'[n]
           f == [type |-> t, pos |-> s]
<1>1. /\ p \in Node /\ p # n /\ Peer(p) = n
      /\ \A m \in Node : m = n \/ m = p
  BY NodeFacts
<1>2. /\ Len(received[p]) \in Nat /\ Taken(p) \in Nat
      /\ sent[n] \in Nat /\ w \in Seq(Frame) /\ Len(w) \in Nat
  BY <1>1, TakenFacts, LenFacts
<1>3. /\ s = (IF t = "DATA" THEN sent[n] + 1 ELSE sent[n])
      /\ s = sent[n] + Data(f) /\ s \in Nat
      /\ sent'[p] = sent[p]
  BY <1>1, <1>2 DEF TypeOK, Data
<1>4. f \in Frame /\ f.pos = s /\ f.type = t
  BY <1>3 DEF Frame
<1>5. /\ ~stopped[n] /\ ~broken
      /\ UNCHANGED <<outcome, stopped>>
      /\ \/ ~stopped[p] /\ wire' = [wire EXCEPT ![n] = Append(w, f)]
         \/ stopped[p] /\ UNCHANGED wire
  BY <1>3 DEF SendOK, p
<1> HIDE DEF p, f
<1>6. wire'[p] = wire[p]
  BY <1>1, <1>5 DEF TypeOK
<1>7. /\ StreamInv(n) /\ ReaderInv(n) /\ EndInv(n)
      /\ StreamInv(p) /\ ReaderInv(p) /\ EndInv(p)
  BY <1>1 DEF IInv
<1>8. \A m \in Node : Taken(m)' = Taken(m)
  BY DEF Taken
<1>9. \A m \in Node : Live(m)' <=> Live(m)
  BY <1>5 DEF Live
<1>10. StreamOver(n) => t # "DATA" /\ StreamOver(n)'
  BY DEF StreamOver
<1>11. StreamOver(p) => StreamOver(p)'
  BY <1>1, <1>3 DEF StreamOver
<1>12. Chain(w, Taken(p), sent[n]) /\ (Live(n) => Complete(w, Taken(p), sent[n]))
  BY <1>7 DEF StreamInv, p
<1>13. Chain(wire[n], Taken(p), sent[n])' /\ (Live(n) => Complete(wire[n], Taken(p), sent[n])')
  <2>1. CASE ~stopped[p]
    <3>1. wire'[n] = Append(w, f) /\ Live(n)
      BY <1>5, <2>1 DEF TypeOK, Live, p
    <3>2. Chain(Append(w, f), Taken(p), s) /\ Complete(Append(w, f), Taken(p), s)
      <4> HIDE DEF w, s
      <4>1. QED
        BY <1>2, <1>3, <1>4, <1>12, <3>1, ChainAppend
    <3>3. QED
      BY <1>1, <1>8, <3>1, <3>2 DEF Chain, Complete
  <2>2. CASE stopped[p]
    <3>1. wire'[n] = w /\ ~Live(n)
      BY <1>5, <2>2 DEF Live, p
    <3>2. Chain(w, Taken(p), s)
      <4>1. s = sent[n] \/ s = sent[n] + 1
        BY <1>3
      <4> HIDE DEF w, s
      <4>2. QED
        BY <1>2, <1>12, <4>1, ChainGrow
    <3>3. QED
      BY <1>1, <1>8, <3>1, <3>2 DEF Chain
  <2>3. QED
    BY <2>1, <2>2
<1>14. \A k \in 1..Len(wire'[n]) :
         \/ k \in 1..Len(w) /\ wire'[n][k] = w[k]
         \/ wire'[n][k] = f
  <2>1. CASE ~stopped[p]
    <3>1. wire'[n] = Append(w, f)
      BY <1>5, <2>1 DEF TypeOK
    <3>2. QED
      <4> HIDE DEF w
      <4>1. QED
        BY <1>2, <1>4, <3>1, AppendFacts
  <2>2. CASE stopped[p]
    BY <1>5, <2>2
  <2>3. QED
    BY <2>1, <2>2
<1>15. (CloseOnWire(n) \/ peerClosed[p])' => StreamOver(n)'
  <2>1. CloseOnWire(n)' => CloseOnWire(n) \/ t = "CLOSE"
    BY <1>4, <1>14 DEF CloseOnWire
  <2>2. CloseOnWire(n) \/ peerClosed[p] => StreamOver(n)
    BY <1>7 DEF StreamInv, p
  <2>3. QED
    BY <1>10, <2>1, <2>2
<1>16. (\A k \in 1..Len(wire[n]) : wire[n][k].type = "CLOSE" => wire[n][k].pos = sent[n])'
  <2> SUFFICES ASSUME NEW k \in 1..Len(wire'[n]), wire'[n][k].type = "CLOSE"
               PROVE  wire'[n][k].pos = s
    OBVIOUS
  <2>1. CASE wire'[n][k] = f
    BY <1>4, <2>1
  <2>2. CASE k \in 1..Len(w) /\ wire'[n][k] = w[k]
    <3>1. CloseOnWire(n) /\ w[k].pos = sent[n]
      BY <1>7, <2>2 DEF StreamInv, CloseOnWire
    <3>2. t # "DATA"
      BY <1>7, <1>10, <3>1 DEF StreamInv
    <3>3. QED
      BY <1>3, <2>2, <3>1, <3>2
  <2>3. QED
    BY <1>14, <2>1, <2>2
<1>17. (peerClosed[p] => rpc[p] # "data" /\ Len(received[p]) = sent[n])'
  <2>1. peerClosed[p] => StreamOver(n) /\ rpc[p] # "data" /\ Len(received[p]) = sent[n]
    BY <1>7 DEF StreamInv, p
  <2>2. QED
    BY <1>1, <1>3, <1>10, <2>1
<1>18. StreamInv(n)'
  BY <1>9, <1>13, <1>15, <1>16, <1>17 DEF StreamInv, p
<1>19. StreamInv(p)'
  <2>1. Chain(wire[p], Taken(n), sent[p])' /\ (Live(p)' => Complete(wire[p], Taken(n), sent[p])')
    BY <1>1, <1>3, <1>6, <1>7, <1>8, <1>9 DEF StreamInv, Chain, Complete
  <2>2. (CloseOnWire(p) \/ peerClosed[n])' => StreamOver(p)'
    BY <1>1, <1>6, <1>7, <1>11 DEF StreamInv, CloseOnWire
  <2>3. (\A k \in 1..Len(wire[p]) : wire[p][k].type = "CLOSE" => wire[p][k].pos = sent[p])'
    BY <1>3, <1>6, <1>7 DEF StreamInv
  <2>4. (peerClosed[n] => rpc[n] # "data" /\ Len(received[n]) = sent[p])'
    BY <1>1, <1>3, <1>7 DEF StreamInv
  <2>5. QED
    BY <1>1, <2>1, <2>2, <2>3, <2>4 DEF StreamInv
<1>20. \A m \in Node : ReaderInv(m)'
  BY DEF ReaderInv, IInv
<1>21. \A m \in Node : EndInv(m)'
  BY <1>5 DEF EndInv, IInv
<1>22. QED
  BY <1>1, <1>18, <1>19, <1>20, <1>21 DEF IInv
\* The chunk in hand reaches the local connection: the peer's CLOSE is still to
\* come, so the test of both flags finds nothing.
LEMMA DeliverStep ==
  ASSUME TypeOK, IInv, NEW n \in Node, ReaderDeliver(n)
  PROVE  IInv'
<1> DEFINE p == Peer(n)
<1>1. /\ p \in Node /\ p # n /\ Peer(p) = n
      /\ \A m \in Node : m = n \/ m = p
  BY NodeFacts
<1>2. /\ StreamInv(n) /\ ReaderInv(n) /\ EndInv(n)
      /\ StreamInv(p) /\ ReaderInv(p) /\ EndInv(p)
  BY <1>1 DEF IInv
<1>3. /\ received[n] \in Seq(Nat) /\ Len(received[n]) \in Nat /\ held[n] \in Nat
      /\ Taken(n) = Len(received[n]) + 1
  BY TakenFacts DEF ReaderDeliver, TypeOK
<1>4. held[n] = Len(received[n]) + 1 /\ ~peerClosed[n]
  BY <1>1, <1>2 DEF ReaderDeliver, ReaderInv, StreamInv
<1> HIDE DEF p
<1>5. /\ UNCHANGED <<wire, outcome, stopped, sent, peerClosed, broken, ppc, finished, written>>
      /\ received' = [received EXCEPT ![n] = Append(@, held[n])]
      /\ rpc' = [rpc EXCEPT ![n] = "read"]
      /\ held' = [held EXCEPT ![n] = 0]
  BY <1>4 DEF ReaderDeliver, BothClosed, readerRest, app
<1>6. /\ received'[n] = Append(received[n], held[n]) /\ received'[p] = received[p]
      /\ rpc'[n] = "read" /\ rpc'[p] = rpc[p] /\ held'[p] = held[p]
  BY <1>1, <1>5 DEF TypeOK
<1>7. /\ Len(received'[n]) = Len(received[n]) + 1
      /\ \A k \in 1..Len(received[n]) : received'[n][k] = received[n][k]
      /\ received'[n][Len(received[n]) + 1] = held[n]
  BY <1>3, <1>6, AppendFacts
<1>8. Taken(n)' = Taken(n) /\ Taken(p)' = Taken(p)
  <2>1. Taken(n)' = Len(received'[n])
    BY <1>3, <1>6, <1>7 DEF Taken
  <2>2. QED
    BY <1>3, <1>6, <1>7, <2>1 DEF Taken
<1>9. \A m \in Node : /\ CloseOnWire(m)' <=> CloseOnWire(m)
                      /\ StreamOver(m)' <=> StreamOver(m)
                      /\ Live(m)' <=> Live(m)
  BY <1>5 DEF CloseOnWire, StreamOver, Live
<1>10. StreamInv(n)'
  <2>1. Chain(wire[n], Taken(p), sent[n])' /\ (Live(n)' => Complete(wire[n], Taken(p), sent[n])')
    BY <1>2, <1>5, <1>8, <1>9 DEF StreamInv, Chain, Complete, p
  <2>2. QED
    BY <1>2, <1>5, <1>6, <1>9, <2>1 DEF StreamInv, p
<1>11. StreamInv(p)'
  <2>1. Chain(wire[p], Taken(n), sent[p])' /\ (Live(p)' => Complete(wire[p], Taken(n), sent[p])')
    BY <1>1, <1>2, <1>5, <1>8, <1>9 DEF StreamInv, Chain, Complete
  <2>2. QED
    BY <1>1, <1>2, <1>4, <1>5, <1>9, <2>1 DEF StreamInv
<1>12. ReaderInv(n)'
  <2>1. ASSUME NEW k \in 1..Len(received'[n]) PROVE received'[n][k] = k
    <3>1. CASE k = Len(received[n]) + 1
      BY <1>4, <1>7, <3>1
    <3>2. CASE k # Len(received[n]) + 1
      <4>1. k \in 1..Len(received[n])
        BY <1>3, <1>7, <3>2
      <4>2. QED
        BY <1>2, <1>7, <4>1 DEF ReaderInv
    <3>3. QED
      BY <3>1, <3>2
  <2>2. QED
    BY <1>6, <2>1 DEF ReaderInv
<1>13. ReaderInv(p)'
  BY <1>2, <1>6 DEF ReaderInv
<1>14. EndInv(n)' /\ EndInv(p)'
  BY <1>2, <1>5, <1>6 DEF EndInv
<1>15. QED
  BY <1>1, <1>10, <1>11, <1>12, <1>13, <1>14 DEF IInv

\* A frame lost with a connection: its stream is no longer complete, and what
\* is left of it is still in order.
LEMMA LoseStep ==
  ASSUME TypeOK, IInv, NEW n \in Node, LoseTail(n)
  PROVE  IInv'
<1> DEFINE p == Peer(n)
           w == wire[n]
           v == SubSeq(w, 1, Len(w) - 1)
<1>1. /\ p \in Node /\ p # n /\ Peer(p) = n
      /\ \A m \in Node : m = n \/ m = p
  BY NodeFacts
<1>2. /\ StreamInv(n) /\ ReaderInv(n) /\ EndInv(n)
      /\ StreamInv(p) /\ ReaderInv(p) /\ EndInv(p)
  BY <1>1 DEF IInv
<1>3. /\ w \in Seq(Frame) /\ Len(w) \in Nat /\ w # <<>>
      /\ Taken(p) \in Nat /\ sent[n] \in Nat
  BY <1>1, TakenFacts, LenFacts DEF LoseTail
<1>4. /\ UNCHANGED <<rpc, held, received, outcome, stopped, sent, peerClosed, broken, ppc,
                     finished, written>>
      /\ wire' = [wire EXCEPT ![n] = v]
      /\ ~Live(n)'
  BY DEF LoseTail, control, app, Live
<1> HIDE DEF p
<1>5. wire'[n] = v /\ wire'[p] = wire[p]
  BY <1>1, <1>4 DEF TypeOK
<1>6. Len(v) = Len(w) - 1 /\ \A k \in 1..(Len(w) - 1) : v[k] = w[k]
  BY <1>3, FrontFacts
<1>7. Chain(v, Taken(p), sent[n])
  <2>1. Chain(w, Taken(p), sent[n])
    BY <1>2 DEF StreamInv, p
  <2> HIDE DEF w
  <2>2. QED
    BY <1>3, <2>1, ChainFront
<1>8. \A m \in Node : /\ Taken(m)' = Taken(m)
                      /\ StreamOver(m)' <=> StreamOver(m)
                      /\ Live(m)' <=> Live(m)
  BY <1>4 DEF Taken, StreamOver, Live
<1>9. \A k \in 1..Len(v) : k \in 1..Len(w) /\ v[k] = w[k]
  <2> HIDE DEF v, w
  <2>1. QED
    BY <1>3, <1>6
<1>10. StreamInv(n)'
  <2>1. Chain(wire[n], Taken(p), sent[n])'
    BY <1>1, <1>4, <1>5, <1>7, <1>8 DEF Chain
  <2>2. CloseOnWire(n)' => CloseOnWire(n)
    BY <1>5, <1>9 DEF CloseOnWire
  <2>3. (\A k \in 1..Len(wire[n]) : wire[n][k].type = "CLOSE" => wire[n][k].pos = sent[n])'
    BY <1>2, <1>4, <1>5, <1>9 DEF StreamInv
  <2>4. QED
    BY <1>2, <1>4, <1>8, <2>1, <2>2, <2>3 DEF StreamInv, p
<1>11. StreamInv(p)'
  <2>1. Chain(wire[p], Taken(n), sent[p])' /\ (Live(p)' => Complete(wire[p], Taken(n), sent[p])')
    BY <1>1, <1>2, <1>4, <1>5, <1>8 DEF StreamInv, Chain, Complete
  <2>2. CloseOnWire(p)' <=> CloseOnWire(p)
    BY <1>5 DEF CloseOnWire
  <2>3. QED
    BY <1>1, <1>2, <1>4, <1>5, <1>8, <2>1, <2>2 DEF StreamInv
<1>12. \A m \in Node : ReaderInv(m)' /\ EndInv(m)'
  BY <1>4 DEF ReaderInv, EndInv, IInv
<1>13. QED
  BY <1>1, <1>10, <1>11, <1>12 DEF IInv

\* The invariant holds throughout.
THEOREM Invariance == Spec => []IInv
<1>1. Init => IInv
  <2> SUFFICES ASSUME Init, NEW n \in Node
               PROVE  StreamInv(n) /\ ReaderInv(n) /\ EndInv(n)
    BY DEF IInv
  <2>1. /\ wire[n] = <<>> /\ received[Peer(n)] = <<>> /\ rpc[Peer(n)] = "read"
        /\ sent[n] = 0 /\ ~peerClosed[Peer(n)]
    BY NodeFacts DEF Init
  <2>2. Taken(Peer(n)) = 0
    BY <2>1, EmptyFacts DEF Taken
  <2>3. Chain(<<>>, 0, 0)
    BY ChainEmpty
  <2>4. StreamInv(n)
    BY <2>1, <2>2, <2>3, EmptyFacts DEF StreamInv, Complete, CloseOnWire
  <2>5. ReaderInv(n) /\ EndInv(n)
    BY EmptyFacts DEF Init, ReaderInv, EndInv
  <2>6. QED
    BY <2>4, <2>5
<1>2. ASSUME TypeOK, IInv, [Next]_vars
      PROVE  IInv'
  <2>1. ASSUME NEW n \in Node, ReaderData(n) PROVE IInv'
    BY <2>1, <1>2, ReadStep DEF ReaderData, readerRest, app, TypeOK
  <2>2. ASSUME NEW n \in Node, ReaderClose(n) PROVE IInv'
    BY <2>2, <1>2, ReadStep DEF ReaderClose, readerRest, app, TypeOK
  <2>3. ASSUME NEW n \in Node, ReaderPing(n) \/ ReaderViolation(n) PROVE IInv'
    BY <2>3, <1>2, ReadStep DEF ReaderPing, ReaderViolation, readerRest, app, TypeOK
  <2>4. ASSUME NEW n \in Node, ReaderPong(n) PROVE IInv'
    BY <2>4, <1>2, ReadStep DEF ReaderPong, readerRest, app, TypeOK
  <2>5. ASSUME NEW n \in Node, ReaderAnswer(n) PROVE IInv'
    BY <2>5, <1>2, SendStep DEF ReaderAnswer, readerRest, app, TypeOK, FrameType
  <2>6. ASSUME NEW n \in Node, KeepalivePing(n) PROVE IInv'
    BY <2>6, <1>2, SendStep DEF KeepalivePing, keepRest, app, TypeOK, FrameType
  <2>7. ASSUME NEW n \in Node, Stray(n) PROVE IInv'
    BY <2>7, <1>2, SendStep DEF Stray, keepRest, app, TypeOK, FrameType
  <2>8. ASSUME NEW n \in Node, PumpData(n) PROVE IInv'
    BY <2>8, <1>2, SendStep DEF PumpData, pumpRest, app, FrameType
  <2>9. ASSUME NEW n \in Node, PumpClose(n) PROVE IInv'
    <3>1. StreamOver(n)' /\ \A m \in Node : ppc[m] # "read" => ppc'[m] # "read"
      BY <2>9, <1>2 DEF PumpClose, AtEOF, pumpRest, app, TypeOK, StreamOver
    <3>2. QED
      BY <2>9, <3>1, <1>2, SendStep DEF PumpClose, pumpRest, app, FrameType
  <2>10. ASSUME NEW n \in Node, ReaderDeliverErr(n) PROVE IInv'
    BY <2>10, <1>2, StopStep DEF ReaderDeliverErr, readerRest, app, TypeOK, Outcome
  <2>11. ASSUME NEW n \in Node, ReaderAnswerErr(n) PROVE IInv'
    BY <2>11, <1>2, StopStep DEF ReaderAnswerErr, readerRest, app, TypeOK, Outcome
  <2>12. ASSUME NEW n \in Node, ReaderRefuse(n) PROVE IInv'
    BY <2>12, <1>2, StopStep DEF ReaderRefuse, readerRest, app, TypeOK, Outcome
  <2>13. ASSUME NEW n \in Node, ReaderEnd(n) PROVE IInv'
    BY <2>13, <1>2, StopStep DEF ReaderEnd, readerRest, EndOutcome, app, TypeOK, Outcome
  <2>14. ASSUME NEW n \in Node, ReaderIdle(n) PROVE IInv'
    BY <2>14, <1>2, StopStep DEF ReaderIdle, readerRest, app, TypeOK, Outcome
  <2>15. ASSUME NEW n \in Node, PumpDataErr(n) PROVE IInv'
    BY <2>15, <1>2, StopStep DEF PumpDataErr, pumpRest, app, TypeOK, Outcome
  <2>16. ASSUME NEW n \in Node, PumpLocalErr(n) PROVE IInv'
    BY <2>16, <1>2, StopStep DEF PumpLocalErr, pumpRest, app, TypeOK, Outcome
  <2>17. ASSUME NEW n \in Node, KeepalivePingErr(n) PROVE IInv'
    BY <2>17, <1>2, StopStep DEF KeepalivePingErr, keepRest, app, TypeOK, Outcome
  <2>18. ASSUME NEW n \in Node, ReaderBoth(n) PROVE IInv'
    <3>1. CASE localEOF[n] /\ peerClosed[n]
      BY <2>18, <3>1, <1>2, StopStep DEF ReaderBoth, BothClosed, readerRest, app, TypeOK, Outcome
    <3>2. CASE ~(localEOF[n] /\ peerClosed[n])
      <4>1. \A m \in Node : StreamOver(m) => StreamOver(m)'
        BY <2>18, <1>2 DEF ReaderBoth, readerRest, app, TypeOK, StreamOver
      <4>2. QED
        BY <2>18, <3>2, <4>1, <1>2, QuietStep DEF ReaderBoth, BothClosed, readerRest, app, TypeOK
    <3>3. QED
      BY <3>1, <3>2
  <2>19. ASSUME NEW n \in Node, PumpBoth(n) PROVE IInv'
    <3>1. CASE localEOF[n] /\ peerClosed[n]
      BY <2>19, <3>1, <1>2, StopStep DEF PumpBoth, BothClosed, pumpRest, app, TypeOK, Outcome
    <3>2. CASE ~(localEOF[n] /\ peerClosed[n])
      <4>1. \A m \in Node : StreamOver(m) => StreamOver(m)'
        BY <2>19, <1>2 DEF PumpBoth, pumpRest, app, TypeOK, StreamOver
      <4>2. QED
        BY <2>19, <3>2, <4>1, <1>2, QuietStep DEF PumpBoth, BothClosed, pumpRest, app, TypeOK
    <3>3. QED
      BY <3>1, <3>2
  <2>20. ASSUME NEW n \in Node, ReaderAborted(n) PROVE IInv'
    <3>1. \A m \in Node : StreamOver(m) => StreamOver(m)'
      BY <2>20, <1>2 DEF ReaderAborted, readerRest, app, TypeOK, StreamOver
    <3>2. QED
      BY <2>20, <3>1, <1>2, QuietStep DEF ReaderAborted, readerRest, app, TypeOK
  <2>21. ASSUME NEW n \in Node, PumpCloseErr(n) PROVE IInv'
    <3>1. \A m \in Node : StreamOver(m) => StreamOver(m)'
      BY <2>21, <1>2 DEF PumpCloseErr, pumpRest, AtEOF, app, TypeOK, StreamOver
    <3>2. QED
      BY <2>21, <3>1, <1>2, QuietStep DEF PumpCloseErr, pumpRest, AtEOF, app, TypeOK
  <2>22. ASSUME NEW n \in Node, PumpAborted(n) PROVE IInv'
    <3>1. \A m \in Node : StreamOver(m) => StreamOver(m)'
      BY <2>22, <1>2 DEF PumpAborted, pumpRest, app, TypeOK, StreamOver
    <3>2. QED
      BY <2>22, <3>1, <1>2, QuietStep DEF PumpAborted, pumpRest, app, TypeOK
  <2>23. ASSUME NEW n \in Node, KeepaliveDone(n) PROVE IInv'
    <3>1. \A m \in Node : StreamOver(m) => StreamOver(m)'
      BY <2>23, <1>2 DEF KeepaliveDone, keepRest, app, TypeOK, StreamOver
    <3>2. QED
      BY <2>23, <3>1, <1>2, QuietStep DEF KeepaliveDone, keepRest, app, TypeOK
  <2>24. ASSUME NEW n \in Node, AppWrite(n) PROVE IInv'
    <3>1. \A m \in Node : StreamOver(m) => StreamOver(m)'
      BY <2>24, <1>2 DEF AppWrite, control, app, TypeOK, StreamOver
    <3>2. QED
      BY <2>24, <3>1, <1>2, QuietStep DEF AppWrite, control, app, TypeOK
  <2>25. ASSUME NEW n \in Node, AppShutdown(n) PROVE IInv'
    <3>1. \A m \in Node : StreamOver(m) => StreamOver(m)'
      BY <2>25, <1>2 DEF AppShutdown, control, app, TypeOK, StreamOver
    <3>2. QED
      BY <2>25, <3>1, <1>2, QuietStep DEF AppShutdown, control, app, TypeOK
  <2>26. CASE Break
    <3>1. \A m \in Node : StreamOver(m) => StreamOver(m)'
      BY <2>26 DEF Break, app, control, StreamOver
    <3>2. QED
      BY <2>26, <3>1, <1>2, QuietStep DEF Break, app, control
  <2>27. CASE UNCHANGED vars
    <3>1. \A m \in Node : StreamOver(m) => StreamOver(m)'
      BY <2>27 DEF vars, StreamOver
    <3>2. QED
      BY <2>27, <3>1, <1>2, QuietStep DEF vars
  <2>28. ASSUME NEW n \in Node, ReaderDeliver(n) PROVE IInv'
    BY <2>28, <1>2, DeliverStep
  <2>29. ASSUME NEW n \in Node, LoseTail(n) PROVE IInv'
    BY <2>29, <1>2, LoseStep
  <2>30. QED
    BY <1>2, <2>1, <2>2, <2>3, <2>4, <2>5, <2>6, <2>7, <2>8, <2>9, <2>10, <2>11, <2>12, <2>13, <2>14, <2>15, <2>16, <2>17, <2>18, <2>19, <2>20, <2>21, <2>22, <2>23, <2>24, <2>25, <2>26, <2>27, <2>28, <2>29
       DEF Next, ReaderRuns, PumpRuns, KeepaliveRuns, Environment, Finished
<1>3. QED
  BY <1>1, <1>2, TypeCorrect, PTL DEF Spec

-----------------------------------------------------------------------------
(* What it says of the code *)

\* Order and exactness of both streams, for any failures.
THEOREM StreamsInOrder == Spec => []InOrder
<1>1. TypeOK /\ IInv => InOrder
  <2> SUFFICES ASSUME TypeOK, IInv, NEW n \in Node
               PROVE  /\ Len(received[n]) <= sent[Peer(n)]
                      /\ \A k \in 1..Len(received[n]) : received[n][k] = k
    BY DEF InOrder
  <2>1. Peer(n) \in Node /\ Peer(Peer(n)) = n /\ StreamInv(Peer(n)) /\ ReaderInv(n)
    BY NodeFacts DEF IInv
  <2>2. /\ Len(received[n]) \in Nat /\ sent[Peer(n)] \in Nat
        /\ Taken(n) = Len(received[n]) \/ Taken(n) = Len(received[n]) + 1
    BY <2>1, TakenFacts
  <2>3. Taken(n) <= sent[Peer(n)]
    BY <2>1 DEF StreamInv, Chain
  <2>4. QED
    BY <2>1, <2>2, <2>3 DEF ReaderInv
<1>2. QED
  BY <1>1, TypeCorrect, Invariance, PTL

\* A half-close is never passed on, nor a session recorded "closed", ahead of
\* data that is still to come.
THEOREM CloseComesLast == Spec => []CleanEnd
<1>1. IInv => CleanEnd
  <2> SUFFICES ASSUME IInv, NEW n \in Node
               PROVE  /\ outcome[n] = "closed" => peerClosed[n]
                      /\ peerClosed[n] => /\ finished[Peer(n)]
                                          /\ Len(received[n]) = written[Peer(n)]
    BY DEF CleanEnd
  <2>1. Peer(n) \in Node /\ Peer(Peer(n)) = n /\ StreamInv(Peer(n)) /\ EndInv(n)
    BY NodeFacts DEF IInv
  <2>2. QED
    BY <2>1 DEF StreamInv, StreamOver, EndInv
<1>2. QED
  BY <1>1, Invariance, PTL

\* relay() always has an outcome to return.
THEOREM OutcomeRecorded == Spec => []OutcomeChosen
<1>1. IInv => OutcomeChosen
  BY DEF IInv, EndInv, OutcomeChosen, Terminated
<1>2. QED
  BY <1>1, Invariance, PTL
-----------------------------------------------------------------------------
(* Refinement: the pump implements BytePipe.                                *)

\* A CLOSE is sent only for an application that has shut its write side.
EOFInv == \A n \in Node : localEOF[n] => finished[n]

\* Only the pump's two ways to send CLOSE set the flag, and no application takes
\* its end of stream back.
LEMMA EOFBehindApplication == Spec => []EOFInv
<1>1. Init => EOFInv
  BY DEF Init, EOFInv
<1>2. ASSUME TypeOK, EOFInv, [Next]_vars
      PROVE  EOFInv'
  <2>1. ASSUME NEW n \in Node, ReaderRuns(n) PROVE UNCHANGED <<localEOF, finished>>
    BY <2>1 DEF ReaderRuns, ReaderData, ReaderDeliverErr, ReaderClose, ReaderBoth, ReaderPing,
                ReaderAnswer, ReaderAnswerErr, ReaderPong, ReaderViolation, ReaderRefuse,
                ReaderAborted, ReaderEnd, readerRest, app
  <2>2. ASSUME NEW n \in Node, PumpRuns(n)
        PROVE  /\ UNCHANGED finished
               /\ UNCHANGED localEOF
                  \/ (finished[n] /\ localEOF' = [localEOF EXCEPT ![n] = TRUE])
    BY <2>2 DEF PumpRuns, PumpData, PumpDataErr, PumpClose, PumpCloseErr, PumpBoth, PumpAborted,
                AtEOF, pumpRest, app
  <2>3. ASSUME NEW n \in Node, KeepaliveRuns(n) PROVE UNCHANGED <<localEOF, finished>>
    BY <2>3 DEF KeepaliveRuns, KeepalivePing, KeepalivePingErr, KeepaliveDone, keepRest, app
  <2>4. ASSUME NEW n \in Node, Environment(n)
        PROVE  /\ UNCHANGED localEOF
               /\ UNCHANGED finished \/ finished' = [finished EXCEPT ![n] = TRUE]
    BY <2>4 DEF Environment, ReaderDeliver, ReaderDeliverErr, ReaderIdle, PumpLocalErr, AppWrite,
                AppShutdown, Stray, LoseTail, readerRest, pumpRest, app, control
  <2>5. CASE Break \/ Finished \/ UNCHANGED vars
    BY <1>2, <2>5 DEF Break, Finished, vars, app, control, EOFInv
  <2>6. QED
    BY <1>2, <2>1, <2>2, <2>3, <2>4, <2>5 DEF Next, EOFInv, TypeOK
<1>3. QED
  BY <1>1, <1>2, TypeCorrect, PTL DEF Spec

\* What the applications see of a step: nothing ...
LEMMA QuietMaps ==
  ASSUME UNCHANGED <<written, finished, received, peerClosed, outcome>>
  PROVE  UNCHANGED Pipe!vars
BY DEF Pipe!vars

\* ... or the end of the session at one end.
LEMMA StopMaps ==
  ASSUME TypeOK, NEW n \in Node, NEW o \in Outcome, StopWith(n, o),
         UNCHANGED <<written, finished, received, peerClosed>>,
         o = "closed" => peerClosed[n] /\ finished[n]
  PROVE  Pipe!Next \/ UNCHANGED Pipe!vars
<1>1. CASE outcome[n] # "none"
  BY <1>1, QuietMaps DEF TypeOK, StopWith
<1>2. CASE outcome[n] = "none" /\ o = "closed"
  BY <1>2 DEF TypeOK, StopWith, Pipe!Next, Pipe!Close, Pipe!Node, Node
<1>3. CASE outcome[n] = "none" /\ o # "closed"
  BY <1>3 DEF TypeOK, StopWith, Outcome, Pipe!Next, Pipe!Fail, Pipe!Node, Node
<1>4. QED
  BY <1>1, <1>2, <1>3

\* bothClosed() ends it only when both streams have.
LEMMA BothMaps ==
  ASSUME TypeOK, EOFInv, NEW n \in Node, BothClosed(n),
         UNCHANGED <<written, finished, received, peerClosed>>
  PROVE  Pipe!Next \/ UNCHANGED Pipe!vars
<1>1. CASE localEOF[n] /\ peerClosed[n]
  BY <1>1, StopMaps DEF BothClosed, EOFInv, Outcome
<1>2. CASE ~(localEOF[n] /\ peerClosed[n])
  BY <1>2, QuietMaps DEF BothClosed
<1>3. QED
  BY <1>1, <1>2

\* The chunk in the reader's hand is the next one of the peer's stream.
LEMMA DeliverMaps ==
  ASSUME TypeOK, IInv, NEW n \in Node, ReaderDeliver(n)
  PROVE  Pipe!Next
<1>1. Peer(n) \in Node /\ Peer(Peer(n)) = n /\ StreamInv(Peer(n)) /\ ReaderInv(n) /\ EndInv(n)
  BY NodeFacts DEF IInv
<1>2. rpc[n] = "data" /\ ~stopped[n] /\ received' = [received EXCEPT ![n] = Append(@, held[n])]
      /\ BothClosed(n) /\ UNCHANGED <<written, finished, peerClosed>>
  BY DEF ReaderDeliver, readerRest, app
<1>3. ~peerClosed[n] /\ outcome[n] = "none" /\ held[n] = Len(received[n]) + 1
  BY <1>1, <1>2 DEF StreamInv, ReaderInv, EndInv
<1>4. UNCHANGED outcome
  BY <1>2, <1>3 DEF BothClosed
<1>5. Len(received[n]) < written[Peer(n)]
  <2>1. /\ Len(received[n]) \in Nat /\ sent[Peer(n)] \in Nat /\ written[Peer(n)] \in Nat
        /\ sent[Peer(n)] <= written[Peer(n)]
    BY <1>1, TakenFacts DEF TypeOK
  <2>2. Taken(n) = Len(received[n]) + 1
    BY <1>2 DEF Taken
  <2>3. Taken(n) <= sent[Peer(n)]
    BY <1>1 DEF StreamInv, Chain
  <2>4. QED
    BY <2>1, <2>2, <2>3
<1>6. Pipe!Deliver(n)
  <2>1. Pipe!Peer(n) = Peer(n)
    BY DEF Pipe!Peer, Peer
  <2>2. received' = [received EXCEPT ![n] = Append(received[n], Len(received[n]) + 1)]
    BY <1>2, <1>3
  <2>3. QED
    BY <1>2, <1>3, <1>4, <1>5, <2>1, <2>2 DEF Pipe!Deliver
<1>7. QED
  BY <1>6 DEF Pipe!Next, Pipe!Node, Node

\* The peer's CLOSE is read behind its last chunk.
LEMMA CloseMaps ==
  ASSUME TypeOK, IInv, IInv', NEW n \in Node, ReaderClose(n)
  PROVE  Pipe!Next \/ UNCHANGED Pipe!vars
<1>1. peerClosed' = [peerClosed EXCEPT ![n] = TRUE]
      /\ UNCHANGED <<written, finished, received, outcome, sent, ppc>>
  BY DEF ReaderClose, readerRest, app
<1>2. peerClosed'[n]
  BY <1>1 DEF TypeOK
<1>3. Peer(n) \in Node /\ Peer(Peer(n)) = n /\ StreamInv(Peer(n))'
  BY NodeFacts DEF IInv
<1>4. finished[Peer(n)] /\ Len(received[n]) = written[Peer(n)]
  BY <1>1, <1>2, <1>3 DEF StreamInv, StreamOver
<1>5. CASE peerClosed[n]
  BY <1>1, <1>5, QuietMaps DEF TypeOK
<1>6. CASE ~peerClosed[n]
  BY <1>1, <1>4, <1>6
     DEF Pipe!Next, Pipe!EndOfStream, Pipe!Peer, Peer, Pipe!Node, Node
<1>7. QED
  BY <1>5, <1>6

\* relay() at both ends, with any carrier capacity and any failures, implements
\* the pair of byte streams of BytePipe.
THEOREM ImplementsPipe == Spec => PipeSpec
<1>1. Init => Pipe!Init
  BY DEF Init, Pipe!Init, Pipe!Node, Node
<1>2. ASSUME TypeOK, IInv, IInv', EOFInv, [Next]_vars
      PROVE  [Pipe!Next]_(Pipe!vars)
  <2> SUFFICES Pipe!Next \/ UNCHANGED Pipe!vars
    OBVIOUS
  <2>1. ASSUME NEW n \in Node, ReaderRuns(n) \/ ReaderDeliver(n) \/ ReaderDeliverErr(n) \/ ReaderIdle(n)
        PROVE  Pipe!Next \/ UNCHANGED Pipe!vars
    <3>1. CASE \/ ReaderData(n) \/ ReaderPing(n) \/ ReaderAnswer(n) \/ ReaderPong(n)
               \/ ReaderViolation(n) \/ ReaderAborted(n)
      BY <3>1, QuietMaps DEF ReaderData, ReaderPing, ReaderAnswer, ReaderPong, ReaderViolation,
                             ReaderAborted, SendOK, readerRest, app
    <3>2. CASE ReaderDeliverErr(n) \/ ReaderAnswerErr(n) \/ ReaderRefuse(n) \/ ReaderIdle(n)
      BY <1>2, <3>2, StopMaps DEF ReaderDeliverErr, ReaderAnswerErr, ReaderRefuse, ReaderIdle,
                                  Outcome, readerRest, app
    <3>3. CASE ReaderEnd(n)
      BY <1>2, <3>3, StopMaps DEF ReaderEnd, EndOutcome, Outcome, readerRest, app
    <3>4. CASE ReaderBoth(n)
      BY <1>2, <3>4, BothMaps DEF ReaderBoth, readerRest, app
    <3>5. CASE ReaderDeliver(n)
      BY <1>2, <3>5, DeliverMaps
    <3>6. CASE ReaderClose(n)
      BY <1>2, <3>6, CloseMaps
    <3>7. QED
      BY <2>1, <3>1, <3>2, <3>3, <3>4, <3>5, <3>6 DEF ReaderRuns
  <2>2. ASSUME NEW n \in Node, PumpRuns(n) \/ PumpLocalErr(n)
        PROVE  Pipe!Next \/ UNCHANGED Pipe!vars
    <3>1. CASE PumpData(n) \/ PumpClose(n) \/ PumpCloseErr(n) \/ PumpAborted(n)
      BY <3>1, QuietMaps DEF PumpData, PumpClose, PumpCloseErr, PumpAborted, SendOK, pumpRest, app
    <3>2. CASE PumpDataErr(n) \/ PumpLocalErr(n)
      BY <1>2, <3>2, StopMaps DEF PumpDataErr, PumpLocalErr, Outcome, pumpRest, app
    <3>3. CASE PumpBoth(n)
      BY <1>2, <3>3, BothMaps DEF PumpBoth, pumpRest, app
    <3>4. QED
      BY <2>2, <3>1, <3>2, <3>3 DEF PumpRuns
  <2>3. ASSUME NEW n \in Node, KeepaliveRuns(n)
        PROVE  Pipe!Next \/ UNCHANGED Pipe!vars
    <3>1. CASE KeepalivePing(n) \/ KeepaliveDone(n)
      BY <3>1, QuietMaps DEF KeepalivePing, KeepaliveDone, SendOK, keepRest, app
    <3>2. CASE KeepalivePingErr(n)
      BY <1>2, <3>2, StopMaps DEF KeepalivePingErr, Outcome, keepRest, app
    <3>3. QED
      BY <2>3, <3>1, <3>2 DEF KeepaliveRuns
  <2>4. ASSUME NEW n \in Node, AppWrite(n) \/ AppShutdown(n)
        PROVE  Pipe!Next
    BY <2>4 DEF AppWrite, AppShutdown, control, Pipe!Next, Pipe!Write, Pipe!Shutdown,
                Pipe!Node, Node
  <2>5. ASSUME NEW n \in Node, Stray(n) \/ LoseTail(n)
        PROVE  UNCHANGED Pipe!vars
    BY <2>5, QuietMaps DEF Stray, LoseTail, SendOK, app, control
  <2>6. CASE Break \/ Finished \/ UNCHANGED vars
    BY <2>6, QuietMaps DEF Break, Finished, vars, app, control
  <2>7. QED
    BY <1>2, <2>1, <2>2, <2>3, <2>4, <2>5, <2>6 DEF Next, Environment
<1>3. QED
  BY <1>1, <1>2, TypeCorrect, Invariance, EOFBehindApplication, PTL
     DEF Spec, PipeSpec, Pipe!Spec
=============================================================================
