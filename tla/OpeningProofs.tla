--------------------------- MODULE OpeningProofs ----------------------------
(***************************************************************************)
(* Proofs about Opening, for any addresses, ports, policy and requests, and *)
(* any number of rungs given up half-way; about Front, for any names,       *)
(* tokens, key lists and bound on the keys; and about RelaySupervisor, for  *)
(* any number of runs of the script, calls, crashes and deaths.             *)
(***************************************************************************)
EXTENDS Opening, Front, RelaySupervisor, TLAPS

-----------------------------------------------------------------------------
(* The inductive invariant *)

\* No rung has been settled on before openTunnel, and one has from there on, for a
\* request that names a target.
Climbing == {"idle", "greeting", "alpn", "post", "posted", "ws", "upgrade"}
Settling ==
  /\ node \in Climbing => use = "none" /\ answer = "none"
  /\ node \notin Climbing \cup {"done"} => use \in Mode
  /\ node \notin {"idle", "greeting", "done"} \/ use # "none" =>
       ask.form \in {"name", "literal", "malformed"}

\* The carriers that may be open.
Held ==
  CASE node = "posted" -> {"C"}
    [] node = "upgrade" -> {"D"}
    [] node \in (Climbing \ {"posted", "upgrade"}) \cup {"done"} -> {}
    [] OTHER -> {use}
Ladder == \A m \in Mode : carrier[m] = "open" => m \in Held

\* A rung that was not settled on has carried nothing: its session, if there is one,
\* waits for a HELLO.
Stray ==
  /\ \A m \in Mode : m # use =>
       /\ up[m] = <<>> /\ down[m] = <<>>
       /\ exit[m] \in {"none", "hello", "over"}
       /\ target[m] = "none" /\ outcome[m] = "protocol-error"
  /\ use # "E" => batch = <<>> /\ parked = <<>> /\ window = "none" /\ exit["E"] = "none"

\* What a session dials has passed the policy, and its outcome says what became of it.
Passed == ask.form = "name" /\ ask.port \in PolicyPorts
Judged(m) ==
  /\ exit[m] \in {"lookup", "dial"} => Passed
  /\ exit[m] = "dial" => Allowed(pinned[m])
  /\ exit[m] \notin {"closing", "over", "relay"} =>
       target[m] = "none" /\ outcome[m] = "protocol-error"
  /\ exit[m] = "relay" => outcome[m] = "relayed"
  /\ outcome[m] = "relayed" => Passed /\ Allowed(pinned[m]) /\ target[m] # "none"
  /\ outcome[m] \in Reason => target[m] = "none"
  /\ outcome[m] = "invalid-target" => ask.form = "malformed"
Judgement == \A m \in Mode : Judged(m)

\* What the relay node is told is the session's outcome.
Says(m) ==
  {"HELLO_OK"} \cup (IF outcome[m] = "relayed" THEN {"CONNECTED"} ELSE {})
               \cup (IF outcome[m] \in Reason THEN {outcome[m]} ELSE {})
Honest ==
  /\ \A m \in Mode : down[m] \in Seq(Says(m))
  /\ parked \in Seq(Says("E"))

\* And so is what it tells the application.
Joined == {"clear", "accept", "early", "relay"}
Believed ==
  /\ node \in Joined => outcome[use] = "relayed"
  /\ node = "fail" /\ why \in Reason => outcome[use] = why
  /\ answer # "none" => node \in {"early", "relay", "done"}
  /\ answer \in Accepted => use \in Mode /\ outcome[use] = "relayed"
  /\ answer \in {"403", "rep2"} => use \in Mode /\ outcome[use] \in DeniedReason
  /\ answer \in {"400", "rep8"} => ask.form # "name"

OpeningInv ==
  /\ OpeningTypeOK /\ Settling /\ Ladder /\ Stray /\ Judgement /\ Honest /\ Believed

-----------------------------------------------------------------------------
(* Which steps change what *)

\* The exit node's sessions are touched by their own steps only.
LEMMA ExitQuiet ==
  ASSUME [OpeningNext]_openingVars,
         ~PostArrives, ~UpgradeArrives, ~WindowArrives, ~EndExit, ~ExitDeadline,
         \A m \in Mode : ~Hello(m), \A m \in Mode : ~Connect(m),
         \A m \in Mode : ~ExitReadFails(m), \A m \in Mode : ~Lookup(m),
         \A m \in Mode : ~Dial(m), \A m \in Mode : ~ExitRelayEnds(m)
  PROVE  UNCHANGED exitSession
BY DEF ReadSOCKS, Tell, SocksReplyOf, Probe, ladderRest, PostAnswered, PostOpens,
     PostFails, WsConnects, WsUnreached, Demote, UpgradeDone, UpgradeFails, SendHello,
     Send, SendFails, Fail, tunnelRest, ReceiveHelloOK, Receive, SendConnect,
     ReceiveConnected, ReceiveConnectErr, ReadFails, ClearDeadline, Refuse,
     CloseCarrier, HttpStatus, SocksRep, Accept, replyRest, AcceptFails, SendEarly,
     StartWindow, exchangeRest, WindowOver, Leaves, DeadlinePasses, RelayEnds,
     WindowCut, WindowRefused, FlushParked, FlushEnds, HandleConnect, Arrive,
     HandleSOCKS, Break, Direct, OpeningNext, NodeRuns, WindowRuns, ExitRuns,
     openingVars, exitSession

\* Frames and windows are touched by sends, receptions and the exchange.
LEMMA WireQuiet ==
  ASSUME [OpeningNext]_openingVars,
         ~SendHello, ~ReceiveHelloOK, ~SendConnect, ~ReceiveConnected,
         ~ReceiveConnectErr, ~ReadFails, ~SendEarly, ~StartWindow, ~WindowOver,
         ~WindowArrives, ~WindowRefused, ~FlushParked, ~FlushEnds, ~WindowCut,
         \A m \in Mode : ~Break(m), \A m \in Mode : ~Hello(m),
         \A m \in Mode : ~Connect(m), \A m \in Mode : ~Lookup(m),
         \A m \in Mode : ~Dial(m)
  PROVE  UNCHANGED <<wire, exchange>>
BY DEF ReadSOCKS, Tell, SocksReplyOf, Probe, ladderRest, PostAnswered, PostOpens,
     PostFails, WsConnects, WsUnreached, Demote, UpgradeDone, UpgradeFails,
     ClearDeadline, tunnelRest, Refuse, CloseCarrier, HttpStatus, SocksRep, Accept,
     replyRest, AcceptFails, Leaves, PostArrives, UpgradeArrives, DeadlinePasses, Fail,
     RelayEnds, EndExit, exitRest, ExitDeadline, HandleConnect, Arrive, HandleSOCKS,
     ExitReadFails, Return, ExitRelayEnds, OpeningNext, NodeRuns, WindowRuns, ExitRuns,
     openingVars, wire, exchange, application, ladder, exitSession

\* The relay node's state is touched by its own steps only.
LEMMA LadderQuiet ==
  ASSUME [OpeningNext]_openingVars,
         ~ReadSOCKS, ~Probe, ~PostAnswered, ~PostOpens, ~PostFails, ~WsConnects,
         ~WsUnreached, ~UpgradeDone, ~UpgradeFails, ~SendHello, ~ReceiveHelloOK,
         ~SendConnect, ~ReceiveConnected, ~ReceiveConnectErr, ~ReadFails,
         ~ClearDeadline, ~Refuse, ~Accept, ~AcceptFails, ~SendEarly, ~Leaves,
         ~DeadlinePasses, ~RelayEnds, \A a \in Asked : ~HandleConnect(a),
         \A a \in Asked : ~HandleSOCKS(a)
  PROVE  UNCHANGED <<application, ladder, carrier>>
BY DEF StartWindow, exchangeRest, WindowOver, PostArrives, ladderRest, UpgradeArrives,
     WindowCut, EndExit, exitRest, ExitDeadline, WindowArrives, WindowRefused,
     FlushParked, FlushEnds, Break, Direct, Hello, Take, Put, Move, Return, Connect,
     FailConnect, PutFails, ExitReadFails, Lookup, Dial, ExitRelayEnds, OpeningNext,
     NodeRuns, WindowRuns, ExitRuns, openingVars, application, ladder, wire, exchange

-----------------------------------------------------------------------------
(* Types *)

\* What is said on the wire, and what is a reason.
LEMMA Vocabulary ==
  /\ "C" \in Mode /\ "D" \in Mode /\ "E" \in Mode
  /\ "HELLO" \in FrameUp /\ "CONNECT" \in FrameUp /\ "DATA" \in FrameUp
  /\ "HELLO_OK" \in FrameDown /\ "CONNECTED" \in FrameDown /\ Reason \subseteq FrameDown
  /\ {"invalid-target", "target-ip-literal", "port-denied", "egress-denied",
      "resolve-failed", "dial-failed"} \subseteq Reason
BY DEF Mode, FrameUp, FrameDown, Reason, DeniedReason

\* A function to sequences stays one when one of them grows or shrinks.
LEMMA AppendTyped ==
  ASSUME NEW I, NEW S, NEW q \in [I -> Seq(S)], NEW i \in I, NEW e \in S
  PROVE  [q EXCEPT ![i] = Append(@, e)] \in [I -> Seq(S)]
<1>1. Append(q[i], e) \in Seq(S)
  OBVIOUS
<1> QED
  BY <1>1, Zenon

LEMMA TailTyped ==
  ASSUME NEW I, NEW S, NEW q \in [I -> Seq(S)], NEW i \in I, q[i] # <<>>
  PROVE  [q EXCEPT ![i] = Tail(@)] \in [I -> Seq(S)]
<1>1. Tail(q[i]) \in Seq(S)
  OBVIOUS
<1> QED
  BY <1>1, Zenon

LEMMA SendTyped ==
  ASSUME OpeningTypeOK, use \in Mode, NEW f \in FrameUp, Send(f)
  PROVE  up' \in [Mode -> Seq(FrameUp)] /\ batch' \in Seq(FrameUp)
<1> USE DEF OpeningTypeOK, WireTypeOK
<1>1. batch \in Seq(FrameUp) /\ up \in [Mode -> Seq(FrameUp)]
  OBVIOUS
<1>2. CASE use = "E"
  <2>1. Append(batch, f) \in Seq(FrameUp)
    BY <1>1
  <2> QED
    BY <1>1, <1>2, <2>1, Zenon DEF Send
<1>3. CASE use # "E"
  <2>1. [up EXCEPT ![use] = Append(@, f)] \in [Mode -> Seq(FrameUp)]
    BY <1>1, AppendTyped
  <2>2. up' = up \/ up' = [up EXCEPT ![use] = Append(@, f)]
    BY <1>1, <1>3 DEF Send
  <2> QED
    BY <1>1, <1>3, <2>1, <2>2, Zenon DEF Send
<1> QED
  BY <1>2, <1>3

LEMMA ReceiveTyped ==
  ASSUME OpeningTypeOK, use \in Mode, NEW f, Receive(f)
  PROVE  down' \in [Mode -> Seq(FrameDown)]
BY TailTyped DEF Receive, OpeningTypeOK, WireTypeOK

LEMMA TakeTyped ==
  ASSUME OpeningTypeOK, NEW m \in Mode, NEW f, Take(m, f)
  PROVE  up' \in [Mode -> Seq(FrameUp)]
BY TailTyped DEF Take, OpeningTypeOK, WireTypeOK

LEMMA PutTyped ==
  ASSUME OpeningTypeOK, NEW m \in Mode, NEW f \in FrameDown, Put(m, f) \/ PutFails(m)
  PROVE  down' \in [Mode -> Seq(FrameDown)] /\ parked' \in Seq(FrameDown)
<1> USE DEF OpeningTypeOK, WireTypeOK
<1>1. parked \in Seq(FrameDown) /\ down \in [Mode -> Seq(FrameDown)]
  OBVIOUS
<1>2. CASE PutFails(m)
  BY <1>1, <1>2 DEF PutFails
<1>3. CASE Put(m, f) /\ m = "E"
  <2>1. <<f>> \in Seq(FrameDown)
    OBVIOUS
  <2> QED
    BY <1>1, <1>3, <2>1, Zenon DEF Put
<1>4. CASE Put(m, f) /\ m # "E"
  <2>1. [down EXCEPT ![m] = Append(@, f)] \in [Mode -> Seq(FrameDown)]
    BY <1>1, AppendTyped
  <2>2. down' = down \/ down' = [down EXCEPT ![m] = Append(@, f)]
    BY <1>1, <1>4 DEF Put
  <2> QED
    BY <1>1, <1>4, <2>1, <2>2, Zenon DEF Put
<1> QED
  BY <1>2, <1>3, <1>4

\* What passes a step of a session's answer is typed.
LEMMA AnswerTyped ==
  ASSUME OpeningTypeOK, NEW m \in Mode, NEW r \in Reason, FailConnect(m, r)
  PROVE  down' \in [Mode -> Seq(FrameDown)] /\ parked' \in Seq(FrameDown)
BY PutTyped, Vocabulary DEF FailConnect

LEMMA WireTyped ==
  ASSUME OpeningTypeOK, use \in Mode \/ node \in Climbing \cup {"done"},
         [OpeningNext]_openingVars
  PROVE  WireTypeOK'
<1>0. WireTypeOK
  BY DEF OpeningTypeOK
<1> USE DEF WireTypeOK
<1>1. CASE SendHello \/ SendConnect
  <2>1. use \in Mode
    BY <1>1 DEF SendHello, SendConnect, Climbing
  <2>2. up' \in [Mode -> Seq(FrameUp)] /\ batch' \in Seq(FrameUp)
    BY <1>0, <1>1, <2>1, SendTyped, Vocabulary DEF SendHello, SendConnect
  <2> QED
    BY <1>0, <1>1, <2>2 DEF SendHello, SendConnect, tunnelRest
<1>2. CASE SendEarly
  <2>1. use \in Mode
    BY <1>2 DEF SendEarly, Climbing
  <2>2. up' \in [Mode -> Seq(FrameUp)] /\ batch' \in Seq(FrameUp)
    BY <1>0, <1>2, <2>1, SendTyped, Vocabulary DEF SendEarly
  <2> QED
    BY <1>0, <1>2, <2>2 DEF SendEarly, replyRest
<1>3. CASE ReceiveHelloOK \/ ReceiveConnected \/ ReceiveConnectErr
  <2>1. use \in Mode
    BY <1>3 DEF ReceiveHelloOK, ReceiveConnected, ReceiveConnectErr, Climbing
  <2>2. down' \in [Mode -> Seq(FrameDown)]
    BY <1>3, <2>1, ReceiveTyped DEF ReceiveHelloOK, ReceiveConnected, ReceiveConnectErr
  <2> QED
    BY <1>0, <1>3, <2>2
    DEF ReceiveHelloOK, ReceiveConnected, ReceiveConnectErr, tunnelRest, exchange
<1>4. CASE ReadFails
  BY <1>0, <1>4 DEF ReadFails, wire, tunnelRest
<1>5. CASE StartWindow \/ WindowOver \/ WindowRefused \/ FlushEnds \/ WindowCut
  BY <1>0, <1>5
  DEF StartWindow, WindowOver, WindowRefused, FlushEnds, WindowCut, exchangeRest
<1>6. CASE WindowArrives
  <2>1. [up EXCEPT !["E"] = @ \o batch] \in [Mode -> Seq(FrameUp)]
    <3>1. up["E"] \o batch \in Seq(FrameUp)
      BY <1>0, Vocabulary
    <3> QED
      BY <1>0, <3>1, Zenon
  <2>2. <<>> \in Seq(FrameUp)
    OBVIOUS
  <2> QED
    BY <1>0, <1>6, <2>1, <2>2 DEF WindowArrives, exchangeRest
<1>7. CASE FlushParked
  <2>1. [down EXCEPT !["E"] = @ \o parked] \in [Mode -> Seq(FrameDown)]
    <3>1. down["E"] \o parked \in Seq(FrameDown)
      BY <1>0, Vocabulary
    <3> QED
      BY <1>0, <3>1, Zenon
  <2>2. <<>> \in Seq(FrameDown)
    OBVIOUS
  <2> QED
    BY <1>0, <1>7, <2>1, <2>2 DEF FlushParked, exchangeRest
<1>8. ASSUME NEW m \in Mode, Break(m)
      PROVE  WireTypeOK'
  BY <1>0, <1>8 DEF Break, exchange
<1>9. ASSUME NEW m \in Mode, Hello(m)
      PROVE  WireTypeOK'
  <2>1. up' \in [Mode -> Seq(FrameUp)]
    BY <1>9, TakeTyped DEF Hello
  <2>2. down' \in [Mode -> Seq(FrameDown)] /\ parked' \in Seq(FrameDown)
    BY <1>0, <1>9, PutTyped, Vocabulary DEF Hello
  <2> QED
    BY <1>0, <1>9, <2>1, <2>2 DEF Hello, exitRest
<1>10. ASSUME NEW m \in Mode, Connect(m)
       PROVE  WireTypeOK'
  <2>1. up' \in [Mode -> Seq(FrameUp)]
    BY <1>10, TakeTyped DEF Connect
  <2>2. \/ \E r \in Reason : FailConnect(m, r)
        \/ UNCHANGED <<down, parked>>
    BY <1>10, Vocabulary DEF Connect
  <2>3. down' \in [Mode -> Seq(FrameDown)] /\ parked' \in Seq(FrameDown)
    BY <1>0, <2>2, AnswerTyped
  <2> QED
    BY <1>0, <1>10, <2>1, <2>3 DEF Connect, exitRest
<1>11. ASSUME NEW m \in Mode, Lookup(m)
       PROVE  WireTypeOK'
  <2>2. \/ \E r \in Reason : FailConnect(m, r)
        \/ UNCHANGED <<down, parked>>
    BY <1>11, Vocabulary DEF Lookup
  <2>3. down' \in [Mode -> Seq(FrameDown)] /\ parked' \in Seq(FrameDown)
    BY <1>0, <2>2, AnswerTyped
  <2> QED
    BY <1>0, <1>11, <2>3 DEF Lookup, exitRest
<1>12. ASSUME NEW m \in Mode, Dial(m)
       PROVE  WireTypeOK'
  <2>1. \/ \E r \in Reason : FailConnect(m, r)
        \/ Put(m, "CONNECTED") \/ PutFails(m)
    BY <1>12, Vocabulary DEF Dial
  <2>2. down' \in [Mode -> Seq(FrameDown)] /\ parked' \in Seq(FrameDown)
    BY <1>0, <2>1, AnswerTyped, PutTyped, Vocabulary
  <2> QED
    BY <1>0, <1>12, <2>2 DEF Dial, exitRest
<1> QED
  <2>1. CASE UNCHANGED <<wire, exchange>>
    BY <1>0, <2>1 DEF wire, exchange
  <2> QED
    BY <1>1, <1>2, <1>3, <1>4, <1>5, <1>6, <1>7, <1>8, <1>9, <1>10, <1>11, <1>12, <2>1,
       WireQuiet

LEMMA ExitTyped ==
  ASSUME OpeningTypeOK, [OpeningNext]_openingVars
  PROVE  ExitTypeOK'
<1>0. ExitTypeOK
  BY DEF OpeningTypeOK
<1> USE DEF ExitTypeOK
<1>1. CASE PostArrives
  BY <1>0, <1>1 DEF PostArrives, Exit
<1>2. CASE UpgradeArrives
  BY <1>0, <1>2 DEF UpgradeArrives, Exit
<1>3. CASE WindowArrives
  BY <1>0, <1>3 DEF WindowArrives, Exit
<1>4. CASE EndExit
  BY <1>0, <1>4 DEF EndExit, Exit
<1>5. CASE ExitDeadline
  BY <1>0, <1>5 DEF ExitDeadline
<1> DEFINE Step(m) == exit' \in [Mode -> Exit] /\ shut' \in [Mode -> BOOLEAN]
<1>6. ASSUME NEW m \in Mode, NEW pc \in Exit, Move(m, pc)
      PROVE  Step(m)
  BY <1>0, <1>6 DEF Move
<1>7. ASSUME NEW m \in Mode, Return(m)
      PROVE  Step(m)
  BY <1>0, <1>6, <1>7 DEF Return, Exit
<1>8. ASSUME NEW m \in Mode, NEW r \in Reason, FailConnect(m, r)
      PROVE  Step(m) /\ outcome' \in [Mode -> {"protocol-error", "relayed"} \cup Reason]
  BY <1>0, <1>7, <1>8 DEF FailConnect
<1>9. ASSUME NEW m \in Mode, Hello(m)
      PROVE  ExitTypeOK'
  BY <1>0, <1>6, <1>7, <1>9 DEF Hello, Exit
<1>10. ASSUME NEW m \in Mode, Connect(m)
       PROVE  ExitTypeOK'
  <2>1. \/ \E r \in Reason : FailConnect(m, r)
        \/ Move(m, "lookup") /\ UNCHANGED outcome
    BY <1>10, Vocabulary DEF Connect
  <2> QED
    BY <1>0, <1>6, <1>8, <1>10, <2>1 DEF Connect, Exit
<1>11. ASSUME NEW m \in Mode, ExitReadFails(m)
       PROVE  ExitTypeOK'
  BY <1>0, <1>7, <1>11 DEF ExitReadFails
<1>12. ASSUME NEW m \in Mode, Lookup(m)
       PROVE  ExitTypeOK'
  <2>1. CASE \E r \in Reason : FailConnect(m, r) /\ UNCHANGED pinned
    BY <1>0, <1>8, <1>12, <2>1 DEF Lookup
  <2>2. CASE \E a \in Addr : pinned' = [pinned EXCEPT ![m] = a] /\ Move(m, "dial") /\ UNCHANGED outcome
    BY <1>0, <1>6, <1>12, <2>2 DEF Lookup, Exit
  <2>3. ASSUME NEW n \in 1..2, NEW ips \in [1..n -> Addr], NEW i \in 1..n
        PROVE  ips[i] \in Addr
    OBVIOUS
  <2> QED
    BY <1>12, <2>1, <2>2, <2>3, Vocabulary, Zenon DEF Lookup
<1>13. ASSUME NEW m \in Mode, Dial(m)
       PROVE  ExitTypeOK'
  BY <1>0, <1>6, <1>7, <1>8, <1>13, Vocabulary DEF Dial, Exit
<1>14. ASSUME NEW m \in Mode, ExitRelayEnds(m)
       PROVE  ExitTypeOK'
  BY <1>0, <1>14 DEF ExitRelayEnds, Exit
<1> QED
  <2>1. CASE UNCHANGED exitSession
    BY <1>0, <2>1 DEF exitSession
  <2> QED
    BY <1>1, <1>2, <1>3, <1>4, <1>5, <1>9, <1>10, <1>11, <1>12, <1>13, <1>14, <2>1, ExitQuiet

LEMMA LadderTyped ==
  ASSUME OpeningTypeOK, [OpeningNext]_openingVars
  PROVE  LadderTypeOK'
<1>0. LadderTypeOK
  BY DEF OpeningTypeOK
<1> USE <1>0, Vocabulary DEF LadderTypeOK, Node, Refusal
<1>1. ASSUME NEW a \in Asked, HandleConnect(a)
      PROVE  LadderTypeOK'
  BY <1>1 DEF HandleConnect, Arrive
<1>2. ASSUME NEW a \in Asked, HandleSOCKS(a)
      PROVE  LadderTypeOK'
  BY <1>2 DEF HandleSOCKS, Arrive
<1>3. CASE ReadSOCKS
  BY <1>3 DEF ReadSOCKS, application, Tell, SocksReplyOf
<1>4. CASE Leaves
  BY <1>4 DEF Leaves, ladder
<1>5. CASE Probe \/ PostAnswered \/ PostOpens \/ PostFails
  BY <1>5 DEF Probe, PostAnswered, PostOpens, PostFails, ladderRest, application
<1>6. CASE WsConnects \/ WsUnreached \/ UpgradeDone \/ UpgradeFails
  BY <1>6 DEF WsConnects, WsUnreached, Demote, UpgradeDone, UpgradeFails, ladderRest, application
<1>7. CASE SendHello \/ SendConnect
  BY <1>7 DEF SendHello, SendConnect, Fail, tunnelRest, application
<1>8. CASE ReceiveHelloOK \/ ReceiveConnected \/ ReceiveConnectErr \/ ReadFails
  BY <1>8
  DEF ReceiveHelloOK, ReceiveConnected, ReceiveConnectErr, ReadFails, Fail, tunnelRest, application
<1>9. CASE DeadlinePasses
  <2>1. carrier' \in [Mode -> {"none", "open", "closed"}]
    BY <1>9 DEF DeadlinePasses
  <2>2. node' \in Node /\ why' \in {"none", "unavailable"} \cup Reason /\ armed' \in BOOLEAN
    BY <1>9 DEF DeadlinePasses, Fail
  <2> QED
    BY <1>9, <2>1, <2>2, Zenon DEF DeadlinePasses, application
<1>10. CASE ClearDeadline
  BY <1>10 DEF ClearDeadline, tunnelRest, application
<1>11. CASE Refuse
  BY <1>11 DEF Refuse, CloseCarrier, Tell, HttpStatus, SocksRep, application
<1>12. CASE Accept \/ AcceptFails
  BY <1>12 DEF Accept, AcceptFails, CloseCarrier, replyRest, application
<1>13. CASE SendEarly \/ RelayEnds
  BY <1>13 DEF SendEarly, RelayEnds, CloseCarrier, replyRest, application
<1> QED
  <2>1. CASE UNCHANGED <<application, ladder, carrier>>
    BY <2>1 DEF application, ladder
  <2> QED
    BY <1>1, <1>2, <1>3, <1>4, <1>5, <1>6, <1>7, <1>8, <1>9, <1>10, <1>11, <1>12, <1>13,
       <2>1, LadderQuiet

-----------------------------------------------------------------------------
(* The ladder *)

\* Settling and Ladder together: a rung is settled on once, and what is open is held.
LEMMA LadderKept ==
  ASSUME OpeningTypeOK, Settling, Ladder, [OpeningNext]_openingVars
  PROVE  Settling' /\ Ladder'
<1>0. LadderTypeOK
  BY DEF OpeningTypeOK
<1> USE <1>0, Vocabulary DEF Settling, Ladder, Held, Climbing, LadderTypeOK
<1>1. ASSUME NEW a \in Asked, HandleConnect(a) \/ HandleSOCKS(a)
      PROVE  Settling' /\ Ladder'
  BY <1>1, OpeningAssumption DEF Ask, BadSocks, HandleConnect, HandleSOCKS, Arrive
<1>2. CASE ReadSOCKS
  BY <1>2 DEF ReadSOCKS, application
<1>3. CASE Leaves
  BY <1>3 DEF Leaves, ladder
<1>4. CASE Probe \/ PostAnswered \/ PostOpens \/ PostFails
  BY <1>4 DEF Probe, PostAnswered, PostOpens, PostFails, ladderRest, application
<1>5. CASE WsConnects \/ UpgradeDone
  BY <1>5 DEF WsConnects, UpgradeDone, ladderRest, application
<1>6. CASE WsUnreached \/ UpgradeFails
  BY <1>6 DEF WsUnreached, UpgradeFails, Demote, ladderRest, application
<1>7. CASE SendHello \/ SendConnect
  BY <1>7 DEF SendHello, SendConnect, Fail, tunnelRest, application
<1>8. CASE ReceiveHelloOK \/ ReceiveConnected \/ ReceiveConnectErr \/ ReadFails
  BY <1>8
  DEF ReceiveHelloOK, ReceiveConnected, ReceiveConnectErr, ReadFails, Fail, tunnelRest, application
<1>9. CASE DeadlinePasses
  BY <1>9 DEF DeadlinePasses, Fail, application
<1>10. CASE ClearDeadline
  BY <1>10 DEF ClearDeadline, tunnelRest, application
<1>11. CASE Refuse
  BY <1>11 DEF Refuse, CloseCarrier, application
<1>12. CASE Accept
  BY <1>12 DEF Accept, replyRest, application
<1>13. CASE AcceptFails \/ RelayEnds
  BY <1>13 DEF AcceptFails, RelayEnds, CloseCarrier, replyRest, application
<1>14. CASE SendEarly
  BY <1>14 DEF SendEarly, CloseCarrier, replyRest, application
<1> QED
  <2>1. CASE UNCHANGED <<application, ladder, carrier>>
    BY <2>1 DEF application, ladder
  <2> QED
    BY <1>1, <1>2, <1>3, <1>4, <1>5, <1>6, <1>7, <1>8, <1>9, <1>10, <1>11, <1>12, <1>13,
       <1>14, <2>1, LadderQuiet

-----------------------------------------------------------------------------
(* Rungs that were given up *)

LEMMA UseQuiet ==
  ASSUME [OpeningNext]_openingVars, ~PostOpens, ~UpgradeDone, ~WsUnreached, ~UpgradeFails
  PROVE  use' = use
<1>1. ASSUME UNCHANGED <<application, ladder, carrier>>
      PROVE  use' = use
  BY <1>1 DEF ladder
<1> QED
  BY <1>1, LadderQuiet
  DEF HandleConnect, HandleSOCKS, Arrive, ReadSOCKS, Probe, PostAnswered, PostFails,
      WsConnects, SendHello, SendConnect, ReceiveHelloOK, ReceiveConnected,
      ReceiveConnectErr, ReadFails, ClearDeadline, Refuse, Accept, AcceptFails, SendEarly,
      Leaves, DeadlinePasses, RelayEnds, ladderRest, tunnelRest, replyRest, ladder

\* What a step does to a rung that was not settled on: it is met, or it ends.
LEMMA StrayKept ==
  ASSUME OpeningTypeOK, Settling, Stray, [OpeningNext]_openingVars
  PROVE  Stray'
<1>0. WireTypeOK /\ ExitTypeOK
  BY DEF OpeningTypeOK
<1> USE <1>0, Vocabulary DEF Settling, Climbing, Stray, WireTypeOK, ExitTypeOK
<1>1. CASE PostOpens \/ UpgradeDone \/ WsUnreached \/ UpgradeFails
  <2>1. use = "none" /\ UNCHANGED <<wire, exchange, exitSession>>
    BY <1>1 DEF PostOpens, UpgradeDone, WsUnreached, UpgradeFails, Demote, ladderRest
  <2>2. UNCHANGED <<up, down, batch, parked, window, exit, target, outcome>>
    BY <2>1 DEF wire, exchange, exitSession
  <2>3. \A m \in Mode : m # use
    BY <2>1 DEF Mode
  <2> QED
    BY <2>1, <2>2, <2>3
<1>2. CASE SendHello \/ SendConnect
  BY <1>2 DEF SendHello, SendConnect, Send, tunnelRest, exitSession
<1>3. CASE SendEarly
  BY <1>3 DEF SendEarly, Send, replyRest, exitSession
<1>4. CASE ReceiveHelloOK \/ ReceiveConnected \/ ReceiveConnectErr
  BY <1>4
  DEF ReceiveHelloOK, ReceiveConnected, ReceiveConnectErr, Receive, tunnelRest, exchange,
      exitSession
<1>5. CASE ReadFails
  BY <1>5 DEF ReadFails, tunnelRest, wire, exitSession
<1>6. CASE StartWindow \/ WindowOver \/ WindowRefused \/ FlushEnds \/ WindowCut
  BY <1>6
  DEF StartWindow, WindowOver, WindowRefused, FlushEnds, WindowCut, exchangeRest, ladder,
      exitSession
<1>7. CASE WindowArrives \/ FlushParked
  BY <1>7 DEF WindowArrives, FlushParked, exchangeRest, ladder, exitSession
<1>8. CASE PostArrives \/ UpgradeArrives
  <2>1. use = "none" /\ UNCHANGED <<wire, exchange, use, target, outcome>>
    BY <1>8 DEF PostArrives, UpgradeArrives, ladderRest
  <2>2. UNCHANGED <<up, down, batch, parked, window>>
    BY <2>1 DEF wire, exchange
  <2>3. PICK n \in {"C", "D"} : exit' = [exit EXCEPT ![n] = "hello"]
    BY <1>8 DEF PostArrives, UpgradeArrives
  <2> QED
    BY <2>1, <2>2, <2>3
<1>9. CASE EndExit \/ ExitDeadline
  BY <1>9 DEF EndExit, ExitDeadline, exitRest, ladder, wire
<1>10. ASSUME NEW m \in Mode, Break(m)
       PROVE  Stray'
  BY <1>10 DEF Break, ladder, exchange, exitSession
<1>11. ASSUME NEW m \in Mode, ExitReadFails(m)
       PROVE  Stray'
  BY <1>11 DEF ExitReadFails, Return, Move, exitRest, ladder, wire
\* Any other step of a session is one of the rung settled on.
<1>12. ASSUME NEW m \in Mode, Hello(m) \/ Connect(m) \/ Lookup(m) \/ Dial(m) \/ ExitRelayEnds(m)
       PROVE  m = use
  BY <1>12 DEF Hello, Connect, Lookup, Dial, ExitRelayEnds, Take
<1>13. ASSUME NEW m \in Mode, Hello(m)
       PROVE  Stray'
  BY <1>12, <1>13
  DEF Hello, Take, Put, Move, Return, exitRest, ladder
<1>14. ASSUME NEW m \in Mode, Connect(m)
       PROVE  Stray'
  BY <1>12, <1>14
  DEF Connect, FailConnect, Take, Put, PutFails, Move, Return, exitRest, ladder
<1>15. ASSUME NEW m \in Mode, Lookup(m)
       PROVE  Stray'
  <2>1. m = use /\ UNCHANGED <<use, up, target, batch, window>>
    BY <1>12, <1>15 DEF Lookup, exitRest, ladder
  <2>2. \/ \E r \in Reason : FailConnect(m, r)
        \/ Move(m, "dial") /\ UNCHANGED <<outcome, down, parked>>
    BY <1>15, Vocabulary DEF Lookup
  <2> QED
    BY <2>1, <2>2 DEF FailConnect, Put, PutFails, Move, Return
<1>16. ASSUME NEW m \in Mode, Dial(m)
       PROVE  Stray'
  <2>1. m = use /\ UNCHANGED <<use, up, batch, window>>
    BY <1>12, <1>16 DEF Dial, exitRest, ladder
  <2>2. \A n \in Mode : n # m => down'[n] = down[n]
    BY <1>16 DEF Dial, FailConnect, Put, PutFails
  <2>3. m # "E" => parked' = parked
    BY <1>16 DEF Dial, FailConnect, Put, PutFails
  <2>4. \A n \in Mode : n # m => exit'[n] = exit[n]
    BY <1>16 DEF Dial, FailConnect, Move, Return
  <2>5. \A n \in Mode : n # m => target'[n] = target[n] /\ outcome'[n] = outcome[n]
    BY <1>16 DEF Dial, FailConnect
  <2> QED
    BY <2>1, <2>2, <2>3, <2>4, <2>5 DEF Mode
<1>17. ASSUME NEW m \in Mode, ExitRelayEnds(m)
       PROVE  Stray'
  BY <1>12, <1>17 DEF ExitRelayEnds, exitRest, ladder, wire
<1> QED
  <2>1. CASE UNCHANGED <<use, wire, exchange, exitSession>>
    BY <2>1 DEF wire, exchange, exitSession
  <2> QED
    BY <1>1, <1>2, <1>3, <1>4, <1>5, <1>6, <1>7, <1>8, <1>9, <1>10, <1>11, <1>13, <1>14,
       <1>15, <1>16, <1>17, <2>1, UseQuiet, WireQuiet, ExitQuiet

-----------------------------------------------------------------------------
(* Outcomes *)

LEMMA AskQuiet ==
  ASSUME [OpeningNext]_openingVars, \A a \in Asked : ~HandleConnect(a) /\ ~HandleSOCKS(a)
  PROVE  ask' = ask
<1>1. ASSUME UNCHANGED <<application, ladder, carrier>>
      PROVE  ask' = ask
  BY <1>1 DEF application
<1> QED
  BY <1>1, LadderQuiet
  DEF ReadSOCKS, Probe, PostAnswered, PostOpens, PostFails, WsConnects, WsUnreached,
      UpgradeDone, UpgradeFails, Demote, SendHello, SendConnect, ReceiveHelloOK,
      ReceiveConnected, ReceiveConnectErr, ReadFails, ClearDeadline, Refuse, Accept,
      AcceptFails, SendEarly, Leaves, DeadlinePasses, RelayEnds, ladderRest, tunnelRest,
      replyRest, application

\* A session passes the policy before it dials, and dials before it reports success.
LEMMA JudgementKept ==
  ASSUME OpeningTypeOK, Settling, Stray, Judgement, [OpeningNext]_openingVars
  PROVE  Judgement'
<1>0. ExitTypeOK
  BY DEF OpeningTypeOK
<1> USE <1>0, Vocabulary DEF Judgement, ExitTypeOK
<1>1. ASSUME NEW a \in Asked, HandleConnect(a) \/ HandleSOCKS(a)
      PROVE  Judgement'
  <2>1. use = "none" /\ UNCHANGED <<exit, pinned, target, outcome>>
    BY <1>1 DEF HandleConnect, HandleSOCKS, Arrive, exitSession, Settling, Climbing
  <2>2. \A m \in Mode : exit[m] \in {"none", "hello", "over"} /\ outcome[m] = "protocol-error"
    BY <2>1 DEF Stray, Mode
  <2> QED
    BY <2>1, <2>2 DEF Judged, Passed, Reason, DeniedReason
<1>2. ASSUME UNCHANGED <<ask, exit, pinned, target, outcome>>
      PROVE  Judgement'
  BY <1>2 DEF Judged, Passed
\* The steps of one session, its request unchanged; the others keep their judgement.
<1>3. ASSUME NEW m \in Mode, UNCHANGED ask, Judged(m)',
             \A n \in Mode \ {m} : exit'[n] = exit[n] /\ pinned'[n] = pinned[n]
                                   /\ target'[n] = target[n] /\ outcome'[n] = outcome[n]
      PROVE  Judgement'
  BY <1>3 DEF Judged, Passed
<1>4. CASE PostArrives \/ UpgradeArrives
  <2>1. PICK n \in {"C", "D"} : exit[n] = "none" /\ exit' = [exit EXCEPT ![n] = "hello"]
    BY <1>4 DEF PostArrives, UpgradeArrives
  <2>2. UNCHANGED <<ask, pinned, target, outcome>>
    BY <1>4 DEF PostArrives, UpgradeArrives, ladderRest, application
  <2>3. n \in Mode /\ Judged(n)
    BY <2>1
  <2>4. Judged(n)'
    BY <2>1, <2>2, <2>3 DEF Judged, Passed
  <2> QED
    BY <1>3, <2>1, <2>2, <2>3, <2>4
<1>5. CASE WindowArrives \/ EndExit
  <2>1. /\ \/ exit["E"] = "none" /\ exit' = [exit EXCEPT !["E"] = "hello"]
           \/ exit["E"] = "closing" /\ exit' = [exit EXCEPT !["E"] = "over"]
           \/ exit' = [exit EXCEPT !["E"] = @]
        /\ UNCHANGED <<ask, pinned, target, outcome>>
    BY <1>5 DEF WindowArrives, EndExit, exchangeRest, exitRest, application
  <2>2. Judged("E")
    OBVIOUS
  <2>3. Judged("E")'
    BY <2>1, <2>2 DEF Judged, Passed
  <2> QED
    BY <1>3, <2>1, <2>3
<1>6. CASE ExitDeadline
  BY <1>2, <1>6 DEF ExitDeadline, exitRest, application
\* A session that was not judged yet gives up.
<1>7. ASSUME NEW m \in Mode, Return(m)
      PROVE  exit'[m] \in {"closing", "over"} /\ \A n \in Mode \ {m} : exit'[n] = exit[n]
  BY <1>7 DEF Return, Move
<1>8. ASSUME NEW m \in Mode, exit[m] \in {"connect", "lookup", "dial"}, NEW r \in Reason,
             FailConnect(m, r), UNCHANGED <<ask, pinned, target>>,
             r = "invalid-target" => ask.form = "malformed"
      PROVE  Judgement'
  <2>1. Judged(m)
    OBVIOUS
  <2>2. outcome'[m] = r /\ \A n \in Mode \ {m} : outcome'[n] = outcome[n]
    BY <1>8 DEF FailConnect
  <2>3. exit'[m] \in {"closing", "over"} /\ \A n \in Mode \ {m} : exit'[n] = exit[n]
    BY <1>7, <1>8 DEF FailConnect
  <2>4. Judged(m)'
    BY <1>8, <2>1, <2>2, <2>3 DEF Judged, Passed, Reason, DeniedReason
  <2> QED
    BY <1>3, <1>8, <2>2, <2>3, <2>4
<1>9. ASSUME NEW m \in Mode, Hello(m) \/ ExitReadFails(m)
      PROVE  Judgement'
  <2>1. exit[m] \in {"hello", "connect"} /\ UNCHANGED <<ask, pinned, target, outcome>>
    BY <1>9 DEF Hello, ExitReadFails, exitRest, application
  <2>2. exit'[m] \in {"connect", "closing", "over"} /\ \A n \in Mode \ {m} : exit'[n] = exit[n]
    BY <1>7, <1>9 DEF Hello, ExitReadFails, Move
  <2>3. Judged(m)
    OBVIOUS
  <2>4. Judged(m)'
    BY <2>1, <2>2, <2>3 DEF Judged, Passed, Reason, DeniedReason
  <2> QED
    BY <1>3, <2>1, <2>2, <2>4
<1>10. ASSUME NEW m \in Mode, Connect(m)
       PROVE  Judgement'
  <2>1. exit[m] = "connect" /\ UNCHANGED <<ask, pinned, target>>
    BY <1>10 DEF Connect, exitRest, application
  <2>2. \/ /\ FailConnect(m, "invalid-target") /\ ask.form = "malformed"
        \/ FailConnect(m, "target-ip-literal") \/ FailConnect(m, "port-denied")
        \/ Move(m, "lookup") /\ UNCHANGED outcome
    BY <1>10 DEF Connect
  <2>3. CASE FailConnect(m, "invalid-target") /\ ask.form = "malformed"
    BY <1>8, <2>1, <2>3
  <2>4. CASE FailConnect(m, "target-ip-literal") \/ FailConnect(m, "port-denied")
    BY <1>8, <2>1, <2>4
  <2>5. CASE Move(m, "lookup") /\ UNCHANGED outcome /\ Passed
    <3>1. Judged(m)
      OBVIOUS
    <3>2. exit'[m] = "lookup" /\ \A n \in Mode \ {m} : exit'[n] = exit[n]
      BY <2>5 DEF Move
    <3>3. Judged(m)'
      BY <2>1, <2>5, <3>1, <3>2 DEF Judged, Passed
    <3> QED
      BY <1>3, <2>1, <2>5, <3>2, <3>3
  <2> QED
    <3>1. use # "none" /\ ask.form \in {"name", "literal", "malformed"}
      BY <2>1 DEF Stray, Settling, Mode
    <3> QED
      BY <1>10, <2>3, <2>4, <2>5, <3>1 DEF Connect, Passed
<1>11. ASSUME NEW m \in Mode, Lookup(m)
       PROVE  Judgement'
  <2>1. exit[m] = "lookup" /\ UNCHANGED <<ask, target>>
    BY <1>11 DEF Lookup, exitRest, application
  <2>2. CASE \E r \in {"resolve-failed", "egress-denied"} : FailConnect(m, r) /\ UNCHANGED pinned
    BY <1>8, <2>1, <2>2
  <2>3. CASE \E a : /\ Allowed(a) /\ pinned' = [pinned EXCEPT ![m] = a]
                    /\ Move(m, "dial") /\ UNCHANGED outcome
    <3>1. Judged(m)
      OBVIOUS
    <3>2. exit'[m] = "dial" /\ \A n \in Mode \ {m} : exit'[n] = exit[n]
      BY <2>3 DEF Move
    <3>3. Allowed(pinned'[m]) /\ \A n \in Mode \ {m} : pinned'[n] = pinned[n]
      BY <2>3
    <3>4. Judged(m)'
      BY <2>1, <2>3, <3>1, <3>2, <3>3 DEF Judged, Passed, Allowed, Reason, DeniedReason
    <3> QED
      BY <1>3, <2>1, <2>3, <3>2, <3>3, <3>4
  <2>4. ASSUME ~\E r \in {"resolve-failed", "egress-denied"} : FailConnect(m, r) /\ UNCHANGED pinned
        PROVE  \E a : /\ Allowed(a) /\ pinned' = [pinned EXCEPT ![m] = a]
                      /\ Move(m, "dial") /\ UNCHANGED outcome
    <3>1. \E n \in 1..2 : \E ips \in [1..n -> Addr] :
            \E i \in {j \in 1..n : Allowed(ips[j])} :
              /\ pinned' = [pinned EXCEPT ![m] = ips[i]]
              /\ Move(m, "dial") /\ UNCHANGED outcome
      BY <1>11, <2>4 DEF Lookup
    <3> QED
      BY <3>1, Zenon
  <2> QED
    BY <2>2, <2>3, <2>4
<1>12. ASSUME NEW m \in Mode, Dial(m)
       PROVE  Judgement'
  <2>1. exit[m] = "dial" /\ UNCHANGED <<ask, pinned>> /\ Judged(m)
    BY <1>12 DEF Dial, exitRest, application
  <2>2. CASE FailConnect(m, "dial-failed") /\ UNCHANGED target
    BY <1>8, <2>1, <2>2
  <2>3. CASE /\ Move(m, "relay")
             /\ target' = [target EXCEPT ![m] = "open"]
             /\ outcome' = [outcome EXCEPT ![m] = "relayed"]
    <3>1. /\ exit'[m] = "relay" /\ target'[m] = "open" /\ outcome'[m] = "relayed"
          /\ \A n \in Mode \ {m} :
               exit'[n] = exit[n] /\ target'[n] = target[n] /\ outcome'[n] = outcome[n]
      BY <2>3 DEF Move
    <3>2. Judged(m)'
      BY <2>1, <3>1 DEF Judged, Passed, Allowed, Reason, DeniedReason
    <3> QED
      BY <1>3, <2>1, <3>1, <3>2
  <2>4. CASE Return(m) /\ target' = [target EXCEPT ![m] = "closed"] /\ UNCHANGED outcome
    <3>1. /\ exit'[m] \in {"closing", "over"} /\ target'[m] = "closed"
          /\ \A n \in Mode \ {m} : exit'[n] = exit[n] /\ target'[n] = target[n]
      BY <1>7, <2>4
    <3>2. Judged(m)'
      BY <2>1, <2>4, <3>1 DEF Judged, Passed, Allowed, Reason, DeniedReason
    <3> QED
      BY <1>3, <2>1, <2>4, <3>1, <3>2
  <2> QED
    BY <1>12, <2>2, <2>3, <2>4 DEF Dial
<1>13. ASSUME NEW m \in Mode, ExitRelayEnds(m)
       PROVE  Judgement'
  <2>1. exit[m] = "relay" /\ UNCHANGED <<ask, pinned, outcome>> /\ Judged(m)
    BY <1>13 DEF ExitRelayEnds, exitRest, application
  <2>2. /\ exit'[m] = "over" /\ target'[m] = "closed"
        /\ \A n \in Mode \ {m} : exit'[n] = exit[n] /\ target'[n] = target[n]
    BY <1>13 DEF ExitRelayEnds
  <2>3. Judged(m)'
    BY <2>1, <2>2 DEF Judged, Passed, Allowed, Reason, DeniedReason
  <2> QED
    BY <1>3, <2>1, <2>2, <2>3
<1> QED
  <2>1. CASE UNCHANGED <<ask, exitSession>>
    BY <1>2, <2>1 DEF exitSession
  <2> QED
    BY <1>1, <1>4, <1>5, <1>6, <1>9, <1>10, <1>11, <1>12, <1>13, <2>1, AskQuiet, ExitQuiet

-----------------------------------------------------------------------------
(* What is said of an outcome *)

\* A session has one outcome.
LEMMA OutcomeOnce ==
  ASSUME OpeningTypeOK, Judgement, [OpeningNext]_openingVars,
         NEW n \in Mode, outcome[n] # "protocol-error"
  PROVE  outcome'[n] = outcome[n]
<1>0. ExitTypeOK
  BY DEF OpeningTypeOK
<1> USE <1>0 DEF ExitTypeOK, Judgement
<1>1. Judged(n)
  OBVIOUS
<1>2. ASSUME NEW m \in Mode, Connect(m) \/ Lookup(m) \/ Dial(m)
      PROVE  outcome'[n] = outcome[n]
  <2>1. exit[m] \in {"connect", "lookup", "dial"}
    BY <1>2 DEF Connect, Lookup, Dial
  <2>2. m # n
    BY <1>1, <2>1 DEF Judged
  <2>3. UNCHANGED outcome \/ \E r : outcome' = [outcome EXCEPT ![m] = r]
    BY <1>2 DEF Connect, Lookup, Dial, FailConnect
  <2> QED
    BY <2>2, <2>3
<1>3. CASE UNCHANGED exitSession
  BY <1>3 DEF exitSession
<1> QED
  BY <1>2, <1>3, ExitQuiet
  DEF PostArrives, UpgradeArrives, WindowArrives, EndExit, ExitDeadline, Hello, ExitReadFails,
      ExitRelayEnds

LEMMA SeqWider ==
  ASSUME NEW S, NEW T, S \subseteq T, NEW q \in Seq(S)
  PROVE  q \in Seq(T)
OBVIOUS

\* What may be said goes on to be said.
LEMMA SaysWider ==
  ASSUME OpeningTypeOK, Judgement, Honest, [OpeningNext]_openingVars
  PROVE  /\ \A m \in Mode : Says(m) \subseteq Says(m)' /\ down[m] \in Seq(Says(m)')
         /\ parked \in Seq(Says("E")')
<1>1. ASSUME NEW m \in Mode
      PROVE  Says(m) \subseteq Says(m)'
  BY <1>1, OutcomeOnce DEF Says, Reason, DeniedReason
<1> QED
  BY <1>1, SeqWider, Vocabulary DEF Honest

LEMMA PutHonest ==
  ASSUME OpeningTypeOK, Judgement, Honest, [OpeningNext]_openingVars,
         NEW m \in Mode, NEW f \in Says(m)', Put(m, f) \/ PutFails(m)
  PROVE  Honest'
<1>0. WireTypeOK
  BY DEF OpeningTypeOK
<1>1. ASSUME NEW n \in Mode, down'[n] = down[n]
      PROVE  down'[n] \in Seq(Says(n)')
  BY <1>1, SaysWider
<1>2. CASE PutFails(m)
  BY <1>2, SaysWider DEF PutFails, Honest
<1>3. CASE Put(m, f) /\ m = "E"
  <2>1. <<f>> \in Seq(Says("E")')
    BY <1>3
  <2> QED
    BY <1>1, <1>3, <2>1 DEF Put, Honest
<1>4. CASE Put(m, f) /\ m # "E"
  <2>1. Append(down[m], f) \in Seq(Says(m)')
    BY SaysWider
  <2>2. down'[m] = down[m] \/ down'[m] = Append(down[m], f)
    BY <1>0, <1>4 DEF Put, WireTypeOK
  <2>3. /\ \A n \in Mode \ {m} : down'[n] = down[n]
        /\ parked' = parked
    BY <1>0, <1>4 DEF Put, WireTypeOK
  <2> QED
    BY <1>1, <2>1, <2>2, <2>3, SaysWider DEF Honest
<1> QED
  BY <1>2, <1>3, <1>4

LEMMA HonestKept ==
  ASSUME OpeningTypeOK, Judgement, Honest, [OpeningNext]_openingVars,
         use \in Mode \/ node \in Climbing \cup {"done"}
  PROVE  Honest'
<1>0. WireTypeOK /\ ExitTypeOK
  BY DEF OpeningTypeOK
<1>1. CASE UNCHANGED <<down, parked>>
  BY <1>1, SaysWider DEF Honest
<1>2. CASE ReceiveHelloOK \/ ReceiveConnected \/ ReceiveConnectErr
  <2>1. use \in Mode /\ parked' = parked
    BY <1>2 DEF ReceiveHelloOK, ReceiveConnected, ReceiveConnectErr, Climbing, exchange
  <2>2. PICK m \in Mode : down[m] # <<>> /\ down' = [down EXCEPT ![m] = Tail(@)]
    <3>1. \E f : Receive(f)
      BY <1>2 DEF ReceiveHelloOK, ReceiveConnected, ReceiveConnectErr
    <3> QED
      BY <2>1, <3>1 DEF Receive
  <2>3. Tail(down[m]) \in Seq(Says(m)')
    <3>1. down[m] \in Seq(Says(m)')
      BY SaysWider
    <3> QED
      BY <2>2, <3>1
  <2>4. \A n \in Mode : down'[n] = IF n = m THEN Tail(down[m]) ELSE down[n]
    BY <1>0, <2>2 DEF WireTypeOK
  <2> QED
    BY <2>1, <2>3, <2>4, SaysWider DEF Honest
<1>3. CASE FlushParked
  <2>1. down["E"] \o parked \in Seq(Says("E")') /\ <<>> \in Seq(Says("E")')
    BY SaysWider, Vocabulary
  <2>2. /\ down'["E"] = down["E"] \o parked /\ parked' = <<>>
        /\ \A n \in Mode \ {"E"} : down'[n] = down[n]
    BY <1>0, <1>3, Vocabulary DEF FlushParked, WireTypeOK
  <2> QED
    BY <2>1, <2>2, SaysWider DEF Honest
<1>4. ASSUME NEW m \in Mode, Hello(m)
      PROVE  Honest'
  <2>1. "HELLO_OK" \in Says(m)'
    BY DEF Says
  <2> QED
    BY <1>1, <1>4, <2>1, PutHonest DEF Hello
<1>5. ASSUME NEW m \in Mode, NEW r \in Reason, FailConnect(m, r)
      PROVE  Honest'
  <2>1. r \in Says(m)'
    BY <1>0, <1>5 DEF FailConnect, Says, ExitTypeOK, Reason, DeniedReason
  <2> QED
    BY <1>5, <2>1, PutHonest DEF FailConnect
<1>6. ASSUME NEW m \in Mode, Connect(m) \/ Lookup(m)
      PROVE  Honest'
  <2>1. UNCHANGED <<down, parked>> \/ \E r \in Reason : FailConnect(m, r)
    BY <1>6, Vocabulary DEF Connect, Lookup
  <2> QED
    BY <1>1, <1>5, <2>1
<1>7. ASSUME NEW m \in Mode, Dial(m)
      PROVE  Honest'
  <2>1. CASE Put(m, "CONNECTED") /\ outcome' = [outcome EXCEPT ![m] = "relayed"]
    <3>1. "CONNECTED" \in Says(m)'
      BY <1>0, <2>1 DEF Says, ExitTypeOK
    <3> QED
      BY <2>1, <3>1, PutHonest
  <2>2. CASE PutFails(m)
    BY <1>1, <2>2 DEF PutFails
  <2>3. CASE FailConnect(m, "dial-failed")
    BY <1>5, <2>3, Vocabulary
  <2> QED
    BY <1>7, <2>1, <2>2, <2>3 DEF Dial
<1> QED
  <2>1. CASE UNCHANGED <<wire, exchange>>
    BY <1>1, <2>1 DEF wire, exchange
  <2>2. ASSUME \/ SendHello \/ SendConnect \/ ReadFails \/ SendEarly \/ StartWindow \/ WindowOver
               \/ WindowArrives \/ WindowRefused \/ FlushEnds \/ WindowCut
               \/ \E m \in Mode : Break(m)
        PROVE  UNCHANGED <<down, parked>>
    BY <2>2
    DEF SendHello, SendConnect, ReadFails, SendEarly, StartWindow, WindowOver, WindowArrives,
        WindowRefused, FlushEnds, WindowCut, Break, replyRest, wire, exchange
  <2> QED
    BY <1>1, <1>2, <1>3, <1>4, <1>6, <1>7, <2>1, <2>2, WireQuiet

-----------------------------------------------------------------------------
(* What the application hears *)

\* The next frame was said by the session.
LEMMA HeadSaid ==
  ASSUME Honest, NEW f, use \in Mode, Receive(f)
  PROVE  f \in Says(use)
<1>1. down[use] \in Seq(Says(use)) /\ down[use] # <<>> /\ f = Head(down[use])
  BY DEF Honest, Receive
<1>2. ASSUME NEW S, NEW q \in Seq(S), q # <<>>
      PROVE  Head(q) \in S
  BY <1>2
<1> QED
  BY <1>1, <1>2

LEMMA HeardKept ==
  ASSUME OpeningTypeOK, Settling, Stray, Judgement, Honest, Believed, [OpeningNext]_openingVars
  PROVE  Believed'
<1>0. LadderTypeOK /\ ExitTypeOK
  BY DEF OpeningTypeOK
<1> USE <1>0, Vocabulary
<1> DEFINE Told == {"early", "relay", "done"}
\* Steps after which the same is said of the same rung.
<1>1. ASSUME UNCHANGED <<ask, why, answer, use>>, node' \in Joined => node \in Joined,
             node' = "fail" => node = "fail" \/ why \notin Reason,
             node' \in Told \/ node \notin Told
      PROVE  Believed'
  <2>1. ASSUME use \in Mode, outcome[use] # "protocol-error"
        PROVE  outcome'[use] = outcome[use]
    BY <2>1, OutcomeOnce
  <2>2. node \in Joined \cup {"fail"} => use \in Mode
    BY DEF Joined, Settling, Climbing
  <2>3. "protocol-error" \notin Reason /\ DeniedReason \subseteq Reason
    BY DEF Reason, DeniedReason
  <2> QED
    BY <1>1, <2>1, <2>2, <2>3 DEF Believed
\* Nothing has been told yet.
<1>2. ASSUME answer' = "none", node' \notin Joined,
             node' = "fail" => why' \notin Reason
      PROVE  Believed'
  BY <1>2 DEF Believed, Accepted
<1>3. node \notin Told => answer = "none"
  BY DEF Believed
<1>4. ASSUME NEW a \in Asked, HandleConnect(a) \/ HandleSOCKS(a)
      PROVE  Believed'
  <2>1. answer = "none" /\ ask' = a
    BY <1>3, <1>4 DEF HandleConnect, HandleSOCKS, Arrive
  <2> QED
    BY <1>4, <2>1 DEF HandleConnect, HandleSOCKS, Believed, Accepted, Joined
<1>5. CASE ReadSOCKS
  BY <1>3, <1>5
  DEF ReadSOCKS, Tell, SocksReplyOf, application, Believed, Accepted, Joined
<1>6. CASE Probe \/ PostAnswered \/ PostOpens \/ PostFails \/ WsConnects \/ WsUnreached
           \/ UpgradeDone \/ UpgradeFails
  <2>1. answer' = "none" /\ node' \in {"post", "posted", "ws", "upgrade", "hello"}
    BY <1>3, <1>6
    DEF Probe, PostAnswered, PostOpens, PostFails, WsConnects, WsUnreached, UpgradeDone,
        UpgradeFails, Demote, ladderRest
  <2> QED
    BY <1>2, <2>1 DEF Joined
<1>7. CASE SendHello \/ SendConnect \/ ReceiveHelloOK \/ ReadFails
  <2>1. /\ answer' = "none"
        /\ \/ node' \in {"helloOK", "connected", "connect"}
           \/ node' = "fail" /\ why' = "unavailable"
    BY <1>3, <1>7 DEF SendHello, SendConnect, ReceiveHelloOK, ReadFails, Fail
  <2> QED
    BY <1>2, <2>1 DEF Joined, Reason, DeniedReason
<1>8. CASE ReceiveConnected
  <2>1. use \in Mode /\ outcome[use] = "relayed"
    <3>1. use \in Mode
      BY <1>8 DEF ReceiveConnected, Settling, Climbing
    <3>2. "CONNECTED" \in Says(use)
      BY <1>8, <3>1, HeadSaid DEF ReceiveConnected
    <3> QED
      BY <3>1, <3>2 DEF Says, Reason, DeniedReason
  <2>2. answer' = "none" /\ node' = "clear" /\ UNCHANGED <<use, outcome>>
    BY <1>3, <1>8 DEF ReceiveConnected, tunnelRest, exitSession
  <2> QED
    BY <2>1, <2>2 DEF Believed, Accepted, Joined
<1>9. CASE ReceiveConnectErr
  <2>1. use \in Mode
    BY <1>9 DEF ReceiveConnectErr, Settling, Climbing
  <2>2. PICK r \in Reason : Receive(r) /\ Fail(r)
    BY <1>9 DEF ReceiveConnectErr
  <2>3. r \in Says(use)
    BY <2>1, <2>2, HeadSaid
  <2>4. outcome[use] = r
    BY <2>3 DEF Says, Reason, DeniedReason
  <2>5. answer' = "none" /\ UNCHANGED <<use, outcome>>
    BY <1>3, <1>9, <2>2 DEF ReceiveConnectErr, tunnelRest, exitSession
  <2> QED
    BY <2>2, <2>4, <2>5 DEF Fail, Believed, Accepted, Joined
<1>10. CASE DeadlinePasses
  <2>1. CASE use = "D"
    BY <1>2, <1>3, <1>10, <2>1 DEF DeadlinePasses, Fail, Joined, Reason, DeniedReason
  <2>2. CASE use # "D"
    BY <1>1, <1>10, <2>2 DEF DeadlinePasses, application
  <2> QED
    BY <2>1, <2>2
<1>11. CASE Leaves \/ ClearDeadline
  BY <1>1, <1>11 DEF Leaves, ClearDeadline, ladder, tunnelRest, application, Joined
<1>12. CASE Refuse
  <2>1. use \in Mode /\ UNCHANGED <<ask, use, outcome>> /\ node = "fail" /\ node' = "done"
    BY <1>12 DEF Refuse, Settling, Climbing, application, exitSession
  <2>2. why \in Reason => outcome[use] = why
    BY <2>1 DEF Believed
  <2>3. why = "invalid-target" => ask.form # "name"
    BY <2>1, <2>2 DEF Judgement, Judged
  <2>4. /\ answer' \in {"403", "rep2"} => why \in DeniedReason
        /\ answer' \in {"400", "rep8"} => why = "invalid-target"
        /\ answer' \notin Accepted
    BY <1>12 DEF Refuse, Tell, HttpStatus, SocksRep, Accepted, DeniedReason
  <2> QED
    BY <2>1, <2>2, <2>3, <2>4 DEF Believed, Joined, Reason
<1>13. CASE Accept
  <2>1. use \in Mode /\ outcome[use] = "relayed" /\ UNCHANGED <<ask, use, outcome>>
    BY <1>13 DEF Accept, Believed, Joined, Settling, Climbing, replyRest, application, exitSession
  <2> QED
    BY <1>13, <2>1 DEF Accept, Believed, Joined, Accepted
<1>14. CASE AcceptFails
  BY <1>14 DEF AcceptFails, Believed, Joined, Accepted, replyRest
<1>15. CASE SendEarly \/ RelayEnds
  BY <1>1, <1>15 DEF SendEarly, RelayEnds, replyRest, application, Joined
<1> QED
  <2>1. CASE UNCHANGED <<application, ladder, carrier>>
    BY <1>1, <2>1 DEF application, ladder
  <2> QED
    BY <1>4, <1>5, <1>6, <1>7, <1>8, <1>9, <1>10, <1>11, <1>12, <1>13, <1>14, <1>15, <2>1,
       LadderQuiet

-----------------------------------------------------------------------------
(* Theorems *)

\* The state of an opening is typed, and what each end believes of the other is so.
THEOREM OpeningInvariance == OpeningSpec => []OpeningInv
<1>1. OpeningInit => OpeningInv
  <2> SUFFICES ASSUME OpeningInit PROVE OpeningInv
    OBVIOUS
  <2>1. OpeningTypeOK
    <3>1. LadderTypeOK
      BY DEF OpeningInit, LadderTypeOK, Node
    <3>2. WireTypeOK
      <4>1. ASSUME NEW S PROVE <<>> \in Seq(S)
        OBVIOUS
      <4> QED
        BY <4>1, Zenon DEF OpeningInit, WireTypeOK
    <3>3. ExitTypeOK
      BY Zenon DEF OpeningInit, ExitTypeOK, Exit
    <3> QED
      BY <3>1, <3>2, <3>3 DEF OpeningTypeOK
  <2>2. Settling /\ Ladder /\ Believed
    BY DEF OpeningInit, Settling, Climbing, Ladder, Held, Believed, Joined, Accepted, NoAsk
  <2>3. Stray /\ Judgement
    BY Vocabulary DEF OpeningInit, Stray, Judgement, Judged, Reason, DeniedReason
  <2>4. Honest
    <3>1. ASSUME NEW S PROVE <<>> \in Seq(S)
      OBVIOUS
    <3> QED
      BY <3>1 DEF OpeningInit, Honest
  <2> QED
    BY <2>1, <2>2, <2>3, <2>4 DEF OpeningInv
<1>2. OpeningInv /\ [OpeningNext]_openingVars => OpeningInv'
  <2> SUFFICES ASSUME OpeningInv, [OpeningNext]_openingVars PROVE OpeningInv'
    OBVIOUS
  <2> USE DEF OpeningInv
  <2>1. use \in Mode \/ node \in Climbing \cup {"done"}
    BY DEF Settling
  <2>2. OpeningTypeOK'
    BY <2>1, LadderTyped, WireTyped, ExitTyped DEF OpeningTypeOK
  <2>3. Settling' /\ Ladder'
    BY LadderKept
  <2>4. Stray'
    BY StrayKept
  <2>5. Judgement'
    BY JudgementKept
  <2>6. Honest'
    BY <2>1, HonestKept
  <2>7. Believed'
    BY HeardKept
  <2> QED
    BY <2>2, <2>3, <2>4, <2>5, <2>6, <2>7
<1> QED
  BY <1>1, <1>2, PTL DEF OpeningSpec

\* No rung leaves a carrier behind (dialTransport, openTunnel's deferred Close, and the
\* closes of the two front ends): whatever is open is held by the request's own rung.
THEOREM CarriersClosed == OpeningSpec => []NoCarrierLeft
<1>1. OpeningInv => NoCarrierLeft
  BY DEF OpeningInv, Ladder, Held, Climbing, NoCarrierLeft
<1> QED
  BY <1>1, OpeningInvariance, PTL

\* The application is told what happened: success only for a target that passed the
\* policy and was dialled, a denial only where nothing was dialled on any rung
\* (httpStatusForTunnelErr, socksRepForTunnelErr, runSession).
THEOREM AnswersTrue == OpeningSpec => []AnswerTrue
<1>1. OpeningInv => AnswerTrue
  <2> SUFFICES ASSUME OpeningInv PROVE AnswerTrue
    OBVIOUS
  <2> USE DEF OpeningInv
  <2>1. \A m \in Mode : target[m] # "none" => m = use
    BY DEF Stray
  <2>2. ASSUME answer \in Accepted
        PROVE  /\ outcome[use] = "relayed" /\ target[use] # "none"
               /\ ask.form = "name" /\ ask.port \in PolicyPorts /\ Allowed(pinned[use])
    BY <2>2 DEF Believed, Judgement, Judged, Passed
  <2>3. ASSUME answer \in {"403", "rep2"}
        PROVE  outcome[use] \in DeniedReason /\ \A m \in Mode : target[m] = "none"
    <3>1. use \in Mode /\ outcome[use] \in DeniedReason /\ target[use] = "none"
      BY <2>3 DEF Believed, Judgement, Judged, Reason
    <3> QED
      BY <2>1, <3>1
  <2> QED
    BY <2>1, <2>2, <2>3 DEF Believed, AnswerTrue
<1> QED
  BY <1>1, OpeningInvariance, PTL

-----------------------------------------------------------------------------
(* The front: what a start arms, and whom the dispatch turns away *)

\* A node that serves was started, with this configuration, by the code that refuses.
Armed == server.up => server = Started(config)

\* What a start never lets through: an armed node has no provider under the reserved
\* name, and its keys are those the operator listed.
LEMMA StartedArmed ==
  ASSUME NEW c, Started(c).up, Started(c).vpn
  PROVE  /\ "vpn" \notin Started(c).providers
         /\ Started(c).keys = TokensOf(c)
  BY DEF Started, NotUp, TunnelEnabled

LEMMA StartedRecord ==
  ASSUME NEW c, Started(c).up
  PROVE  Started(c) = [up |-> TRUE, providers |-> c.allowHosts, vpn |-> shouldArmTunnel(c),
                       keys |-> IF shouldArmTunnel(c) THEN TokensOf(c) ELSE {}]
  BY DEF Started, NotUp

LEMMA ArmedInvariant == FrontSpec => []Armed
<1>1. FrontInit => Armed
  BY DEF FrontInit, Armed, NotUp
<1>2. Armed /\ [FrontNext]_frontVars => Armed'
  BY DEF Armed, FrontNext, StartExit, frontVars, Started
<1> QED
  BY <1>1, <1>2, PTL DEF FrontSpec

\* The tunnel's path answers strangers, on an armed node, as an unlisted path does.
LEMMA StrangerTurnedAway ==
  ASSUME NEW c, Started(c).up, Started(c).vpn,
         NEW r \in FrontRequest, isTunnelPath(r),
         ~(/\ r.auth \in TokensOf(c)
           /\ \/ r.upgrade = "v13"
              \/ r.post /\ r.upgrade = "none" /\ r.traceparent # "malformed")
  PROVE  serveTunnel(Started(c), r) = "funnel404"
<1>1. Started(c).keys = TokensOf(c)
  BY StartedArmed
<1>2. CASE r.auth \notin TokensOf(c)
  BY <1>1, <1>2 DEF serveTunnel, matchOperatorKey
<1>3. CASE r.auth \in TokensOf(c)
  <2>1. r.upgrade # "v13" /\ ~(r.post /\ r.upgrade = "none" /\ r.traceparent # "malformed")
    BY <1>3
  <2> QED
    BY <1>1, <1>3, <2>1 DEF serveTunnel, matchOperatorKey
<1> QED
  BY <1>2, <1>3

\* And whoever is entitled is taken into the tunnel.
LEMMA EntitledServed ==
  ASSUME NEW c, Started(c).up, Started(c).vpn,
         NEW r \in FrontRequest, isTunnelPath(r), r.auth \in TokensOf(c),
         \/ r.upgrade = "v13"
         \/ r.post /\ r.upgrade = "none" /\ r.traceparent # "malformed"
  PROVE  serveTunnel(Started(c), r) \in {"post", "window", "switched"}
<1>1. Started(c).keys = TokensOf(c)
  BY StartedArmed
<1>2. r.traceparent \in {"absent", "malformed", "valid"}
  BY DEF FrontRequest
<1> QED
  BY <1>1, <1>2 DEF serveTunnel, matchOperatorKey

\* Whoever is not entitled cannot tell an armed exit node from an unarmed one, whatever
\* it was configured with (Camouflaged: main, enableTunnel, ServeHTTP, serveTunnel).
THEOREM CamouflageHolds == FrontSpec => []Camouflaged
<1>1. Armed => Camouflaged
  <2> SUFFICES ASSUME Armed, server.up, NEW r \in FrontRequest
               PROVE  /\ ~Entitled(r) =>
                           ServeHTTP(server, r) = ServeHTTP([server EXCEPT !.vpn = FALSE], r)
                      /\ Entitled(r) /\ server.vpn =>
                           ServeHTTP(server, r) \in {"post", "window", "switched"}
    BY DEF Camouflaged
  <2> DEFINE unarmed == [server EXCEPT !.vpn = FALSE]
  <2>1. server = Started(config) /\ Started(config).up
    BY DEF Armed
  <2>2. unarmed.vpn = FALSE /\ unarmed.providers = server.providers
    BY <2>1, StartedRecord
  <2>3. CASE ~(server.vpn /\ isTunnelPath(r))
    BY <2>2, <2>3 DEF ServeHTTP, Entitled
  <2>4. CASE server.vpn /\ isTunnelPath(r)
    <3>1. ServeHTTP(server, r) = serveTunnel(server, r)
      BY <2>4 DEF ServeHTTP
    <3>2. "vpn" \notin server.providers
      BY <2>1, <2>4, StartedArmed
    <3>3. ServeHTTP(unarmed, r) = "funnel404"
      BY <2>2, <2>4, <3>2 DEF ServeHTTP, isTunnelPath
    <3>4. ~Entitled(r) => serveTunnel(server, r) = "funnel404"
      BY <2>1, <2>4, StrangerTurnedAway DEF Entitled
    <3>5. Entitled(r) => serveTunnel(server, r) \in {"post", "window", "switched"}
      BY <2>1, <2>4, EntitledServed DEF Entitled
    <3> QED
      BY <3>1, <3>3, <3>4, <3>5
  <2> QED
    BY <2>3, <2>4
<1> QED
  BY <1>1, ArmedInvariant, PTL

-----------------------------------------------------------------------------
(* The runs of vpn-relay.sh *)

\* An address handed to a child goes on having a relay, one that is up or is started
\* again, unless a run is just putting another in its place or the case is one the
\* script does not guard against.  This is what may never be lost for AddressServed
\* to come true; that the relay then binds is left to fairness.
AddressKept ==
  \A c \in Invocation : spc[c] \in {"export", "child"} =>
    \/ Unguarded(c)
    \/ \E r \in Process : /\ proc[r] # "none" /\ desc[r].kept
                          /\ desc[r].tunnel = call[c].tunnel /\ desc[r].upstream # "self"
    \/ backend = "container" /\ \E d \in Invocation : spc[d] = "launch"

ScriptPlace == {"idle", "probe", "start", "remove", "launch", "wait", "export", "child", "attached",
          "left", "ended"}

SupervisorTyped ==
  /\ backend \in {"container", "native"} /\ call \in Calls
  /\ spc \in [Invocation -> ScriptPlace]
  /\ env = [c \in Invocation |-> env[c]]
  /\ proc \in [Process -> {"none", "starting", "up", "down"}]
  /\ desc = [r \in Process |-> desc[r]]

\* Only a chain that does not name its own listener goes on to start a relay; a run that
\* has not begun names none.
Guarded ==
  \A c \in Invocation :
    /\ spc[c] = "idle" => env[c].socks # "self"
    /\ spc[c] \in {"remove", "launch"} /\ call[c].mode = "chain" => ~SelfChained(env[c])
    /\ spc[c] = "remove" => backend = "container"
    /\ spc[c] = "attached" => call[c].mode = "serve"

\* What a process was started with is what some run asked for, and that of a chain stays.
StartedBy(r, d) ==
  /\ spc[d] # "idle" /\ desc[r] = Description(d)
  /\ call[d].mode = "chain" => ~SelfChained(env[d]) /\ proc[r] # "none"
Owned ==
  \A r \in Process : proc[r] # "none" \/ desc[r] # Absent => \E d \in Invocation : StartedBy(r, d)

\* A handed address has some relay, or a run that is about to start one.
Handled ==
  \A c \in Invocation : spc[c] \in {"export", "child"} =>
    \/ Unguarded(c)
    \/ \E r \in Process : proc[r] # "none"
    \/ backend = "container" /\ \E d \in Invocation : spc[d] = "launch"

SupervisorInv == SupervisorTyped /\ Guarded /\ Owned /\ Handled

LEMMA DescriptionSays ==
  ASSUME NEW c
  PROVE  /\ Description(c).by = c /\ Description(c).tunnel = call[c].tunnel
         /\ Description(c).upstream = Upstream(env[c])
         /\ call[c].mode = "chain" => Description(c).kept
<1>1. /\ Description(c).by = c /\ Description(c).tunnel = call[c].tunnel
      /\ Description(c).upstream = Upstream(env[c])
  BY DEF Description
<1>2. Description(c).kept = (call[c].mode = "chain")
  BY DEF Description
<1> QED
  BY <1>1, <1>2

\* Which run asked for what, and what is not guarded against, is settled once it has begun.
LEMMA RunsStay ==
  ASSUME SupervisorInv, [SupervisorNext]_supervisorVars
  PROVE  /\ backend' = backend /\ call' = call
         /\ \A d \in Invocation : spc[d] # "idle" =>
              spc'[d] # "idle" /\ env'[d] = env[d] /\ Description(d)' = Description(d)
         /\ \A d \in Invocation : spc[d] = "left" => spc'[d] = "left"
         /\ \A c \in Invocation : Unguarded(c) => Unguarded(c)'
<1> USE DEF SupervisorInv, SupervisorTyped
<1>1. backend' = backend /\ call' = call
  BY DEF SupervisorNext, supervisorVars, ScriptRuns, BeginRun, FirstProbe, StartRelay, RemoveBox,
     RunBox, RunFails, LaunchNative, WaitReady, Export, Kill, Bind, Crash, Respawn, Interrupt,
     SquatterEnds
<1>2. ASSUME NEW d \in Invocation, spc[d] # "idle"
      PROVE  spc'[d] # "idle" /\ env'[d] = env[d] /\ (spc[d] = "left" => spc'[d] = "left")
  <2>1. CASE UNCHANGED <<spc, env>>
    BY <1>2, <2>1
  <2>2. ASSUME NEW c \in Invocation, BeginRun(c) PROVE c # d /\ spc'[d] = spc[d] /\ env'[d] = env[d]
    BY <1>2, <2>2 DEF BeginRun
  <2>3. ASSUME NEW c \in Invocation, FirstProbe(c)
        PROVE  spc'[d] # "idle" /\ env' = env /\ (spc[d] = "left" => spc'[d] = "left")
    BY <1>2, <2>3 DEF FirstProbe, ProbeState, Heard
  <2>4. ASSUME NEW c \in Invocation, WaitReady(c)
        PROVE  spc'[d] # "idle" /\ env' = env /\ (spc[d] = "left" => spc'[d] = "left")
    BY <1>2, <2>4 DEF WaitReady, ProbeState, Heard
  <2>5. ASSUME NEW c \in Invocation,
               StartRelay(c) \/ RemoveBox(c) \/ RunBox(c) \/ RunFails(c) \/ LaunchNative(c)
                 \/ Export(c) \/ Kill(c) \/ Interrupt(c)
        PROVE  spc'[d] # "idle" /\ env' = env /\ (spc[d] = "left" => spc'[d] = "left")
    BY <1>2, <2>5 DEF StartRelay, RemoveBox, RunBox, RunFails, LaunchNative, Export, Kill, Interrupt,
       Moves, Launched
  <2>6. ASSUME NEW r \in Process, Bind(r) \/ Crash(r) \/ Respawn(r) PROVE UNCHANGED <<spc, env>>
    BY <2>6 DEF Bind, Crash, Respawn
  <2>7. SquatterEnds \/ UNCHANGED supervisorVars => UNCHANGED <<spc, env>>
    BY DEF SquatterEnds, supervisorVars
  <2> QED
    BY <1>2, <2>1, <2>2, <2>3, <2>4, <2>5, <2>6, <2>7 DEF SupervisorNext, ScriptRuns
<1>3. ASSUME NEW d \in Invocation, spc[d] # "idle" PROVE Description(d)' = Description(d)
  BY <1>1, <1>2, <1>3 DEF Description, Upstream
<1>4. ASSUME NEW c \in Invocation, Unguarded(c) PROVE Unguarded(c)'
  BY <1>1, <1>2, <1>4 DEF Unguarded, Guarded
<1> QED
  BY <1>1, <1>2, <1>3, <1>4

LEMMA SupervisorTypes ==
  ASSUME SupervisorInv, [SupervisorNext]_supervisorVars
  PROVE  SupervisorTyped'
<1>1. backend' \in {"container", "native"} /\ call' \in Calls
  BY RunsStay DEF SupervisorInv, SupervisorTyped
<1> USE DEF SupervisorInv, SupervisorTyped, ScriptPlace
<1>2. ASSUME NEW c \in Invocation, BeginRun(c) PROVE SupervisorTyped'
  BY <1>1, <1>2 DEF BeginRun
<1>3. ASSUME NEW c \in Invocation, FirstProbe(c) PROVE SupervisorTyped'
  BY <1>1, <1>3 DEF FirstProbe, ProbeState, Heard
<1>4. ASSUME NEW c \in Invocation, WaitReady(c) PROVE SupervisorTyped'
  BY <1>1, <1>4 DEF WaitReady, ProbeState, Heard
<1>5. ASSUME NEW c \in Invocation, StartRelay(c) \/ RunFails(c) \/ Export(c) \/ Kill(c)
      PROVE  SupervisorTyped'
  BY <1>1, <1>5 DEF StartRelay, RunFails, Export, Kill, Moves
<1>6. ASSUME NEW c \in Invocation, RemoveBox(c) PROVE SupervisorTyped'
  BY <1>1, <1>6 DEF RemoveBox, Moves, Process
<1>7. ASSUME NEW c \in Invocation, RunBox(c) PROVE SupervisorTyped'
  BY <1>1, <1>7 DEF RunBox, Moves, Launched, Process
<1>8. ASSUME NEW c \in Invocation, LaunchNative(c) PROVE SupervisorTyped'
  BY <1>1, <1>8 DEF LaunchNative, Moves, Launched, Process
<1>9. ASSUME NEW c \in Invocation, Interrupt(c) PROVE SupervisorTyped'
  BY <1>1, <1>9 DEF Interrupt, Moves
<1>10. ASSUME NEW r \in Process, Bind(r) \/ Crash(r) \/ Respawn(r) PROVE SupervisorTyped'
  BY <1>1, <1>10 DEF Bind, Crash, Respawn, Ended
<1>11. ASSUME SquatterEnds \/ UNCHANGED supervisorVars PROVE SupervisorTyped'
  BY <1>1, <1>11 DEF SquatterEnds, supervisorVars
<1> QED
  BY <1>2, <1>3, <1>4, <1>5, <1>6, <1>7, <1>8, <1>9, <1>10, <1>11 DEF SupervisorNext, ScriptRuns

LEMMA GuardedKept ==
  ASSUME SupervisorInv, [SupervisorNext]_supervisorVars
  PROVE  Guarded'
<1> SUFFICES ASSUME NEW c \in Invocation
             PROVE  /\ spc'[c] = "idle" => env'[c].socks # "self"
                    /\ spc'[c] \in {"remove", "launch"} /\ call'[c].mode = "chain" => ~SelfChained(env'[c])
                    /\ spc'[c] = "remove" => backend' = "container"
                    /\ spc'[c] = "attached" => call'[c].mode = "serve"
  BY DEF Guarded, SelfChained
<1>0. backend' = backend /\ call' = call /\ (spc[c] # "idle" => env'[c] = env[c])
  BY RunsStay
<1>1. call[c].mode \in {"chain", "serve"} /\ backend \in {"container", "native"}
  BY SupervisorAssumption DEF SupervisorInv, SupervisorTyped
<1>6. ASSUME spc'[c] = "idle" PROVE env'[c].socks # "self"
  <2>1. spc[c] = "idle" /\ env[c].socks # "self"
    BY <1>6, RunsStay DEF SupervisorInv, Guarded
  <2>2. ASSUME NEW d \in Invocation, BeginRun(d) PROVE env'[c] = env[c]
    BY <1>6, <2>2 DEF BeginRun, SupervisorInv, SupervisorTyped
  <2>3. ASSUME NEW d \in Invocation, ScriptRuns(d) \/ Kill(d) \/ Interrupt(d) PROVE env' = env
    BY <2>3 DEF ScriptRuns, FirstProbe, StartRelay, RemoveBox, RunBox, RunFails, LaunchNative,
       WaitReady, Export, Kill, Interrupt
  <2>4. ASSUME NEW r \in Process, Bind(r) \/ Crash(r) \/ Respawn(r) PROVE env' = env
    BY <2>4 DEF Bind, Crash, Respawn
  <2>5. SquatterEnds \/ UNCHANGED supervisorVars => env' = env
    BY DEF SquatterEnds, supervisorVars
  <2> QED
    BY <2>1, <2>2, <2>3, <2>4, <2>5 DEF SupervisorNext
<1>2. /\ spc[c] \in {"remove", "launch"} /\ call[c].mode = "chain" => ~SelfChained(env[c])
      /\ spc[c] = "remove" => backend = "container"
      /\ spc[c] = "attached" => call[c].mode = "serve"
  BY DEF SupervisorInv, Guarded
<1>3. spc \in [Invocation -> ScriptPlace]
  BY DEF SupervisorInv, SupervisorTyped
<1>4. CASE spc'[c] = spc[c]
  BY <1>0, <1>2, <1>4, <1>6 DEF SelfChained
<1>5. CASE spc'[c] # spc[c]
  <2>1. \/ BeginRun(c) \/ FirstProbe(c) \/ StartRelay(c) \/ RemoveBox(c) \/ RunBox(c) \/ RunFails(c)
        \/ LaunchNative(c) \/ WaitReady(c) \/ Export(c) \/ Kill(c) \/ Interrupt(c)
    <3>1. ASSUME NEW d \in Invocation, d # c,
                 \/ BeginRun(d) \/ FirstProbe(d) \/ StartRelay(d) \/ WaitReady(d) \/ Kill(d)
          PROVE  spc'[c] = spc[c]
      BY <1>3, <3>1 DEF BeginRun, FirstProbe, StartRelay, WaitReady, Kill, ProbeState, Heard
    <3>2. ASSUME NEW d \in Invocation, d # c,
                 \/ RemoveBox(d) \/ RunBox(d) \/ RunFails(d) \/ LaunchNative(d) \/ Export(d) \/ Interrupt(d)
          PROVE  spc'[c] = spc[c]
      BY <1>3, <3>2 DEF RemoveBox, RunBox, RunFails, LaunchNative, Export, Interrupt, Moves
    <3>3. ASSUME NEW r \in Process, Bind(r) \/ Crash(r) \/ Respawn(r) PROVE spc' = spc
      BY <3>3 DEF Bind, Crash, Respawn
    <3>4. SquatterEnds \/ UNCHANGED supervisorVars => spc' = spc
      BY DEF SquatterEnds, supervisorVars
    <3> QED
      BY <1>5, <3>1, <3>2, <3>3, <3>4 DEF SupervisorNext, ScriptRuns
  <2>2. CASE BeginRun(c)
    BY <1>0, <1>1, <1>3, <2>2 DEF BeginRun
  <2>3. CASE StartRelay(c)
    BY <1>0, <1>1, <1>3, <2>3 DEF StartRelay, SelfChained
  <2>4. CASE FirstProbe(c) \/ WaitReady(c)
    BY <1>3, <2>4 DEF FirstProbe, WaitReady, ProbeState, Heard
  <2>5. CASE RemoveBox(c)
    BY <1>0, <1>2, <1>3, <2>5 DEF RemoveBox, Moves, SelfChained
  <2>6. CASE RunBox(c) \/ LaunchNative(c)
    BY <1>0, <1>1, <1>3, <2>6 DEF RunBox, LaunchNative, Moves, Launched
  <2>7. CASE RunFails(c) \/ Export(c) \/ Kill(c) \/ Interrupt(c)
    BY <1>3, <2>7 DEF RunFails, Export, Kill, Interrupt, Moves
  <2> QED
    BY <1>6, <2>1, <2>2, <2>3, <2>4, <2>5, <2>6, <2>7
<1> QED
  BY <1>4, <1>5

\* A process a step leaves alone, or lets end or start without a loop's losing it, goes on
\* being what its run asked for.
LEMMA StartedStays ==
  ASSUME SupervisorInv, [SupervisorNext]_supervisorVars, NEW r \in Process, NEW d \in Invocation,
         StartedBy(r, d), desc'[r] = desc[r],
         call[d].mode = "chain" /\ proc[r] # "none" => proc'[r] # "none"
  PROVE  StartedBy(r, d)'
BY RunsStay DEF StartedBy, SelfChained

LEMMA OwnedKept ==
  ASSUME SupervisorInv, [SupervisorNext]_supervisorVars
  PROVE  Owned'
<1> SUFFICES ASSUME NEW r \in Process, proc'[r] # "none" \/ desc'[r] # Absent
             PROVE  \E d \in Invocation : StartedBy(r, d)'
  BY DEF Owned
<1>1. ASSUME desc'[r] = desc[r], proc[r] = "none" => proc'[r] = "none",
             \A d \in Invocation : call[d].mode = "chain" /\ StartedBy(r, d) => proc'[r] # "none"
      PROVE  \E d \in Invocation : StartedBy(r, d)'
  BY <1>1, StartedStays DEF SupervisorInv, Owned, StartedBy
<1>2. CASE proc' = proc /\ desc' = desc
  BY <1>1, <1>2 DEF StartedBy
<1>3. ASSUME NEW c \in Invocation, RemoveBox(c) PROVE \E d \in Invocation : StartedBy(r, d)'
  <2>1. r # "box" /\ proc'[r] = proc[r] /\ desc'[r] = desc[r]
    BY <1>3 DEF RemoveBox, SupervisorInv, SupervisorTyped
  <2> QED
    BY <1>1, <2>1 DEF StartedBy
<1>4. ASSUME NEW c \in Invocation, NEW q \in Process, spc[c] = "launch", spc'[c] # "idle",
             proc' = [proc EXCEPT ![q] = "starting"], desc' = [desc EXCEPT ![q] = Description(c)]
      PROVE  \E d \in Invocation : StartedBy(r, d)'
  <2>1. CASE r = q
    <3>1. proc'[r] = "starting" /\ desc'[r] = Description(c)
      BY <1>4, <2>1 DEF SupervisorInv, SupervisorTyped
    <3>2. call[c].mode = "chain" => ~SelfChained(env[c])
      BY <1>4 DEF SupervisorInv, Guarded
    <3>3. Description(c)' = Description(c) /\ call' = call /\ env'[c] = env[c]
      BY <1>4, RunsStay
    <3> QED
      BY <1>4, <3>1, <3>2, <3>3 DEF StartedBy, SelfChained
  <2>2. CASE r # q
    <3>1. proc'[r] = proc[r] /\ desc'[r] = desc[r]
      BY <1>4, <2>2 DEF SupervisorInv, SupervisorTyped
    <3> QED
      BY <1>1, <3>1 DEF StartedBy
  <2> QED
    BY <2>1, <2>2
<1>5. ASSUME NEW c \in Invocation, RunBox(c) PROVE \E d \in Invocation : StartedBy(r, d)'
  <2>1. spc[c] = "launch" /\ spc'[c] # "idle" /\ "box" \in Process
    BY <1>5 DEF RunBox, Moves, Launched, Process, SupervisorInv, SupervisorTyped
  <2> QED
    BY <1>4, <1>5, <2>1 DEF RunBox
<1>6. ASSUME NEW c \in Invocation, LaunchNative(c) PROVE \E d \in Invocation : StartedBy(r, d)'
  <2>1. spc[c] = "launch" /\ spc'[c] # "idle" /\ c \in Process
    BY <1>6 DEF LaunchNative, Moves, Launched, Process, SupervisorInv, SupervisorTyped
  <2> QED
    BY <1>4, <1>6, <2>1 DEF LaunchNative
<1>7. ASSUME NEW c \in Invocation, Interrupt(c) PROVE \E d \in Invocation : StartedBy(r, d)'
  <2>1. /\ desc'[r] = desc[r]
        /\ proc'[r] = IF desc[r] # Absent /\ desc[r].by = c THEN "none" ELSE proc[r]
        /\ call[c].mode = "serve"
    BY <1>7 DEF Interrupt, Moves, SupervisorInv, Guarded
  <2>2. ASSUME NEW d \in Invocation, call[d].mode = "chain", StartedBy(r, d) PROVE proc'[r] # "none"
    BY <2>1, <2>2 DEF StartedBy, Description
  <2> QED
    BY <1>1, <2>1, <2>2
<1>8. ASSUME NEW q \in Process, Bind(q) \/ Crash(q) \/ Respawn(q)
      PROVE  \E d \in Invocation : StartedBy(r, d)'
  <2>1. desc' = desc /\ (r # q => proc'[r] = proc[r]) /\ proc[q] # "none"
    BY <1>8 DEF Bind, Crash, Respawn, Listens, SupervisorInv, SupervisorTyped
  <2>2. ASSUME desc[q].kept PROVE proc'[q] # "none"
    BY <1>8, <2>2 DEF Bind, Crash, Respawn, Ended, SupervisorInv, SupervisorTyped
  <2>3. ASSUME NEW d \in Invocation, call[d].mode = "chain", StartedBy(r, d) PROVE proc'[r] # "none"
    BY <2>1, <2>2, <2>3, DescriptionSays DEF StartedBy
  <2> QED
    BY <1>1, <2>1, <2>3
<1>9. ASSUME NEW c \in Invocation,
             BeginRun(c) \/ FirstProbe(c) \/ StartRelay(c) \/ RunFails(c) \/ WaitReady(c) \/ Export(c)
               \/ Kill(c)
      PROVE  proc' = proc /\ desc' = desc
  BY <1>9 DEF BeginRun, FirstProbe, StartRelay, RunFails, WaitReady, Export, Kill
<1>10. SquatterEnds \/ UNCHANGED supervisorVars => proc' = proc /\ desc' = desc
  BY DEF SquatterEnds, supervisorVars
<1> QED
  BY <1>2, <1>3, <1>5, <1>6, <1>7, <1>8, <1>9, <1>10 DEF SupervisorNext, ScriptRuns

\* Without a serve and the like, a process that was started stays until a run removes it.
LEMMA ProcessStays ==
  ASSUME SupervisorInv, [SupervisorNext]_supervisorVars, NEW c \in Invocation, ~Unguarded(c)',
         NEW r \in Process, proc[r] # "none" \/ desc[r] # Absent
  PROVE  /\ proc[r] # "none"
         /\ \/ proc'[r] # "none"
            \/ backend = "container" /\ \E d \in Invocation : spc'[d] = "launch"
<1>1. ~Unguarded(c)
  BY RunsStay
<1>2. PICK d \in Invocation : StartedBy(r, d)
  BY DEF SupervisorInv, Owned
<1>3. call[d].mode = "chain"
  BY <1>1, <1>2, SupervisorAssumption DEF Unguarded, StartedBy, SupervisorInv, SupervisorTyped
<1>4. proc[r] # "none" /\ desc[r].kept /\ desc[r].by = d
  BY <1>2, <1>3, DescriptionSays DEF StartedBy
<1> USE DEF SupervisorInv, SupervisorTyped
<1>5. CASE proc' = proc
  BY <1>4, <1>5
<1>6. ASSUME NEW e \in Invocation, RemoveBox(e) PROVE backend = "container" /\ spc'[e] = "launch"
  BY <1>6 DEF RemoveBox, Moves, Guarded
<1>7. ASSUME NEW e \in Invocation, RunBox(e) \/ LaunchNative(e) PROVE proc'[r] # "none"
  BY <1>4, <1>7 DEF RunBox, LaunchNative
<1>8. ASSUME NEW e \in Invocation, Interrupt(e) PROVE proc'[r] # "none"
  <2>1. call[e].mode = "serve"
    BY <1>8 DEF Interrupt, Moves, Guarded
  <2> QED
    BY <1>3, <1>4, <1>8, <2>1 DEF Interrupt
<1>9. ASSUME NEW q \in Process, Bind(q) \/ Crash(q) \/ Respawn(q) PROVE proc'[r] # "none"
  BY <1>4, <1>9 DEF Bind, Crash, Respawn, Ended
<1>10. ASSUME NEW e \in Invocation,
             BeginRun(e) \/ FirstProbe(e) \/ StartRelay(e) \/ RunFails(e) \/ WaitReady(e) \/ Export(e)
               \/ Kill(e)
      PROVE  proc' = proc
  BY <1>10 DEF BeginRun, FirstProbe, StartRelay, RunFails, WaitReady, Export, Kill
<1>11. SquatterEnds \/ UNCHANGED supervisorVars => proc' = proc
  BY DEF SquatterEnds, supervisorVars
<1> QED
  BY <1>4, <1>5, <1>6, <1>7, <1>8, <1>9, <1>10, <1>11 DEF SupervisorNext, ScriptRuns

\* A run about to start a relay starts it, finds another one there, or dies on the way.
LEMMA LaunchEnds ==
  ASSUME SupervisorInv, [SupervisorNext]_supervisorVars, NEW c \in Invocation, ~Unguarded(c)',
         NEW d \in Invocation, spc[d] = "launch", backend = "container"
  PROVE  spc'[d] = "launch" \/ \E r \in Process : proc'[r] # "none"
<1> USE DEF SupervisorInv, SupervisorTyped
<1>0. "box" \in Process
  BY DEF Process
<1>1. CASE spc'[d] = spc[d]
  BY <1>1
<1>2. CASE spc'[d] # spc[d]
  <2>1. RunBox(d) \/ RunFails(d) \/ LaunchNative(d) \/ Kill(d)
    <3>1. ASSUME NEW e \in Invocation,
                 \/ BeginRun(e) \/ FirstProbe(e) \/ StartRelay(e) \/ WaitReady(e)
          PROVE  spc'[d] = spc[d]
      BY <3>1 DEF BeginRun, FirstProbe, StartRelay, WaitReady, ProbeState, Heard
    <3>2. ASSUME NEW e \in Invocation,
                 \/ RemoveBox(e) \/ Export(e) \/ Interrupt(e)
                 \/ d # e /\ (RunBox(e) \/ RunFails(e) \/ LaunchNative(e) \/ Kill(e))
          PROVE  spc'[d] = spc[d]
      BY <3>2 DEF RemoveBox, RunBox, RunFails, LaunchNative, Export, Interrupt, Moves, Kill
    <3>3. ASSUME NEW r \in Process, Bind(r) \/ Crash(r) \/ Respawn(r) PROVE spc' = spc
      BY <3>3 DEF Bind, Crash, Respawn
    <3>4. SquatterEnds \/ UNCHANGED supervisorVars => spc' = spc
      BY DEF SquatterEnds, supervisorVars
    <3> QED
      BY <1>2, <3>1, <3>2, <3>3, <3>4 DEF SupervisorNext, ScriptRuns
  <2>2. CASE RunBox(d)
    BY <1>0, <2>2 DEF RunBox
  <2>3. CASE LaunchNative(d)
    BY <2>3 DEF LaunchNative
  <2>4. spc'[d] # "left"
    BY DEF Unguarded
  <2>5. CASE RunFails(d)
    <3>1. desc["box"] # Absent /\ proc' = proc
      BY <2>4, <2>5 DEF RunFails, Moves
    <3>2. proc["box"] # "none"
      BY <1>0, <3>1, ProcessStays
    <3> QED
      BY <1>0, <3>1, <3>2
  <2>6. CASE Kill(d)
    BY <2>4, <2>6 DEF Kill
  <2> QED
    BY <2>1, <2>2, <2>3, <2>5, <2>6
<1> QED
  BY <1>1, <1>2

LEMMA HandledKept ==
  ASSUME SupervisorInv, [SupervisorNext]_supervisorVars
  PROVE  Handled'
<1> SUFFICES ASSUME NEW c \in Invocation, spc'[c] \in {"export", "child"}, ~Unguarded(c)'
             PROVE  \/ \E r \in Process : proc'[r] # "none"
                    \/ backend' = "container" /\ \E d \in Invocation : spc'[d] = "launch"
  BY DEF Handled
<1>0. backend' = backend /\ ~Unguarded(c)
  BY RunsStay
<1>1. ASSUME NEW r \in Process, proc[r] # "none"
      PROVE  \/ \E q \in Process : proc'[q] # "none"
             \/ backend' = "container" /\ \E d \in Invocation : spc'[d] = "launch"
  BY <1>0, <1>1, ProcessStays
<1>2. CASE spc[c] \in {"export", "child"}
  <2>1. CASE \E r \in Process : proc[r] # "none"
    BY <1>1, <2>1
  <2>2. CASE backend = "container" /\ \E d \in Invocation : spc[d] = "launch"
    BY <1>0, <2>2, LaunchEnds
  <2> QED
    BY <1>0, <1>2, <2>1, <2>2 DEF SupervisorInv, Handled
<1>3. CASE spc[c] \notin {"export", "child"}
  <2>1. FirstProbe(c) \/ WaitReady(c)
    <3> USE DEF SupervisorInv, SupervisorTyped
    <3>1. ASSUME NEW e \in Invocation, c # e, FirstProbe(e) \/ WaitReady(e) PROVE spc'[c] = spc[c]
      BY <3>1 DEF FirstProbe, WaitReady, ProbeState, Heard
    <3>2. ASSUME NEW e \in Invocation, BeginRun(e) \/ StartRelay(e)
          PROVE  spc'[c] = spc[c] \/ spc'[c] \notin {"export", "child"}
      BY <3>2 DEF BeginRun, StartRelay
    <3>3. ASSUME NEW e \in Invocation,
                 RemoveBox(e) \/ RunBox(e) \/ RunFails(e) \/ LaunchNative(e) \/ Export(e)
                   \/ Interrupt(e) \/ Kill(e)
          PROVE  spc'[c] = spc[c] \/ spc'[c] \notin {"export", "child"}
      BY <1>3, <3>3 DEF RemoveBox, RunBox, RunFails, LaunchNative, Export, Interrupt, Moves, Kill,
         Launched
    <3>4. ASSUME NEW r \in Process, Bind(r) \/ Crash(r) \/ Respawn(r) PROVE spc' = spc
      BY <3>4 DEF Bind, Crash, Respawn
    <3>5. SquatterEnds \/ UNCHANGED supervisorVars => spc' = spc
      BY DEF SquatterEnds, supervisorVars
    <3> QED
      BY <1>3, <3>1, <3>2, <3>3, <3>4, <3>5 DEF SupervisorNext, ScriptRuns
  <2>2. 0 \in ProbeState(c)
    <3> USE DEF SupervisorInv, SupervisorTyped
    <3>1. CASE FirstProbe(c)
      BY <1>3, <3>1 DEF FirstProbe, ProbeState, Heard
    <3>2. CASE WaitReady(c)
      BY <1>3, <3>2 DEF WaitReady, ProbeState, Heard
    <3> QED
      BY <2>1, <3>1, <3>2
  <2>3. \E r \in Process : Listens(r)
    BY <2>2 DEF ProbeState, Heard
  <2>4. \E r \in Process : proc[r] # "none"
    BY <2>3 DEF Listens
  <2> QED
    BY <1>1, <2>4
<1> QED
  BY <1>2, <1>3

\* What the runs and their relays keep at every step (SupervisorInv).
THEOREM SupervisorInvariance == SupervisorSpec => []SupervisorInv
<1>1. SupervisorInit => SupervisorInv
  BY DEF SupervisorInit, SupervisorInv, SupervisorTyped, Guarded, Owned, Handled, ScriptPlace,
     NoVariables
<1>2. SupervisorInv /\ [SupervisorNext]_supervisorVars => SupervisorInv'
  BY SupervisorTypes, GuardedKept, OwnedKept, HandledKept DEF SupervisorInv
<1> QED
  BY <1>1, <1>2, PTL DEF SupervisorSpec

\* An address that was handed out has a relay of its tunnel which is started again and does
\* not ride itself, one about to be started in its place, or a case vpn-relay.sh leaves
\* unguarded, whatever else runs, dies or crashes (AddressKept).
THEOREM AddressStays == SupervisorSpec => []AddressKept
<1>1. SupervisorInv => AddressKept
  <2> SUFFICES ASSUME SupervisorInv, NEW c \in Invocation, ~Unguarded(c),
                      NEW r \in Process, proc[r] # "none"
               PROVE  /\ desc[r].kept /\ desc[r].tunnel = call[c].tunnel
                      /\ desc[r].upstream # "self"
    BY DEF AddressKept, SupervisorInv, Handled
  <2>1. PICK d \in Invocation : StartedBy(r, d)
    BY DEF SupervisorInv, Owned
  <2>2. spc[d] # "idle" /\ desc[r] = Description(d)
    BY <2>1 DEF StartedBy
  <2>3. call[d].mode = "chain" /\ call[d].tunnel = call[c].tunnel /\ env[d].socks # "self"
    BY <2>2, SupervisorAssumption DEF Unguarded, SupervisorInv, SupervisorTyped
  <2>4. env[d].https # "self"
    BY <2>1, <2>3 DEF StartedBy, SelfChained
  <2> QED
    BY <2>2, <2>3, <2>4, DescriptionSays DEF Upstream
<1> QED
  BY <1>1, SupervisorInvariance, PTL
=============================================================================
