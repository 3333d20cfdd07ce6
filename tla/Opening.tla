------------------------------ MODULE Opening -------------------------------
(***************************************************************************)
(* The opening of one tunnel, from the application's request to the first   *)
(* byte: the front ends and openTunnel on the relay node (relaynode.go,     *)
(* over modec.go, websocket.go, modee.go and relaychain.go) and the         *)
(* preamble of runSession with the egress policy on the exit node           *)
(* (tunnelserver.go, egress.go).                                            *)
(*                                                                          *)
(* The relay node tries the carriers in rank order: C, one POST over h2; D, *)
(* a WebSocket; E, windows of separate requests.  A rung that fails may     *)
(* leave a session behind on the exit node, so each rung has one of its     *)
(* own.  Time is left out: a deadline that runs may pass at any moment, and *)
(* one that is waited for does.  On D, and on the exit node on C, whose     *)
(* POST arrives over HTTP/1.1, a deadline fails the pending read; on the    *)
(* relay node's C and E and the exit node's E it is a timer that closes the *)
(* stream.  A cleartext tunnel URL is the case where no ALPN probe says h2. *)
(***************************************************************************)
EXTENDS Integers, Sequences, FiniteSets

CONSTANTS
  Addr,         \* addresses names resolve to
  DenyTable,    \* those within defaultDenyCidrs
  OptedIn,      \* those within egress.allowCidrs
  Port,         \* ports asked for
  Asked,        \* the requests applications make, of Ask
  PolicyPorts,  \* the policy's ports
  NoAddr,       \* no address pinned
  MaxStray      \* bound: rungs given up with a session of theirs on the exit node

Mode == {"C", "D", "E"}

\* "malformed" is what splitConnectTarget refuses, port 0 included; the rest of
\* BadSocks are SOCKS requests that end before a target is known.
BadSocks == {"mute", "garbage", "nomethod", "command", "address"}
Ask ==
  [front : {"http"}, form : {"name", "literal", "malformed"}, port : Port]
  \cup [front : {"socks"}, form : {"name", "literal", "malformed"} \cup BadSocks, port : Port]
NoAsk == [front |-> "none"]

ASSUME OpeningAssumption == NoAddr \notin Addr /\ Asked \subseteq Ask /\ MaxStray \in Nat

\* CONNECT_ERR reasons.
DeniedReason == {"egress-denied", "port-denied", "target-ip-literal"}
Reason == DeniedReason \cup {"invalid-target", "resolve-failed", "dial-failed"}

VARIABLES
  ask,      \* what the application asked for
  silent,   \* the endpoint accepts connections and never answers in TLS
  gone,     \* the application has hung up, or its SOCKS connection's deadline
            \* has passed
  node,     \* where the relay node is with the request
  why,      \* what openTunnel failed with
  answer,   \* what the application was told
  use,      \* the rung dialTransport settled on, or "none"
  armed,    \* openTunnel's read deadline runs
  carrier,  \* carrier[m]: the relay node's end: "none", "open", "closed"
  broken,   \* broken[m]: nothing crosses the connection any more
  up, down, \* up[m], down[m]: frames on their way
  batch,    \* E: frames of the next window
  window,   \* E: where the exchange is
  parked,   \* E: the exit node's one-frame slot
  exit,     \* exit[m]: where runSession is
  shut,     \* shut[m]: the exit node's stream is closed
  pinned,   \* pinned[m]: the address dialValidated chose
  target,   \* target[m]: the connection to it: "none", "open", "closed"
  outcome   \* outcome[m]: runSession's outcome

application == <<ask, silent, gone>>
ladder == <<node, why, answer, use, armed>>
wire == <<broken, up, down>>
exchange == <<batch, window, parked>>
exitSession == <<exit, shut, pinned, target, outcome>>
openingVars == <<application, ladder, carrier, wire, exchange, exitSession>>

\* The states between the front end and the carrier, and behind it.
Node == {"idle", "greeting", "alpn", "post", "posted", "ws", "upgrade", "hello", "helloOK",
         "connect", "connected", "clear", "fail", "accept", "early", "relay", "done"}
Exit == {"none", "hello", "connect", "lookup", "dial", "relay", "closing", "over"}
Refusal == {"400", "403", "500", "502", "rep1", "rep2", "rep7", "rep8", "nomethod"}
FrameUp == {"HELLO", "CONNECT", "DATA"}
FrameDown == {"HELLO_OK", "CONNECTED"} \cup Reason

LadderTypeOK ==
  /\ ask \in Asked \cup {NoAsk}
  /\ silent \in BOOLEAN /\ gone \in BOOLEAN
  /\ node \in Node
  /\ why \in {"none", "unavailable"} \cup Reason
  /\ answer \in {"none", "lost", "200", "rep0"} \cup Refusal
  /\ use \in Mode \cup {"none"}
  /\ armed \in BOOLEAN
  /\ carrier \in [Mode -> {"none", "open", "closed"}]

WireTypeOK ==
  /\ broken \in [Mode -> BOOLEAN]
  /\ up \in [Mode -> Seq(FrameUp)]
  /\ down \in [Mode -> Seq(FrameDown)]
  /\ batch \in Seq(FrameUp)
  /\ window \in {"none", "sent", "flush", "ended", "refused", "cut"}
  /\ parked \in Seq(FrameDown)

ExitTypeOK ==
  /\ exit \in [Mode -> Exit]
  /\ shut \in [Mode -> BOOLEAN]
  /\ pinned \in [Mode -> Addr \cup {NoAddr}]
  /\ target \in [Mode -> {"none", "open", "closed"}]
  /\ outcome \in [Mode -> {"protocol-error", "relayed"} \cup Reason]

OpeningTypeOK == LadderTypeOK /\ WireTypeOK /\ ExitTypeOK

OpeningInit ==
  /\ ask = NoAsk /\ silent = FALSE /\ gone = FALSE
  /\ node = "idle" /\ why = "none" /\ answer = "none" /\ use = "none" /\ armed = FALSE
  /\ carrier = [m \in Mode |-> "none"]
  /\ broken = [m \in Mode |-> FALSE]
  /\ up = [m \in Mode |-> <<>>] /\ down = [m \in Mode |-> <<>>]
  /\ batch = <<>> /\ window = "none" /\ parked = <<>>
  /\ exit = [m \in Mode |-> "none"] /\ shut = [m \in Mode |-> FALSE]
  /\ pinned = [m \in Mode |-> NoAddr] /\ target = [m \in Mode |-> "none"]
  /\ outcome = [m \in Mode |-> "protocol-error"]

-----------------------------------------------------------------------------
(* The front ends, up to openTunnel *)

\* The request comes; the endpoint is one that answers or one that does not.
Arrive(a) ==
  /\ node = "idle"
  /\ ask' = a
  /\ silent' \in BOOLEAN
  /\ UNCHANGED <<gone, why, use, armed, carrier, wire, exchange, exitSession>>

\* handleConnect: a target that is not host:port is refused here.
HandleConnect(a) ==
  /\ Arrive(a) /\ a.front = "http"
  /\ IF a.form = "malformed"
     THEN node' = "done" /\ answer' = "400"
     ELSE node' = "alpn" /\ UNCHANGED answer

\* handleSOCKS: the connection's deadline starts.
HandleSOCKS(a) ==
  /\ Arrive(a) /\ a.front = "socks"
  /\ node' = "greeting" /\ UNCHANGED answer

\* What is written to an application that is gone may be lost.
Tell(r) == answer' = r \/ (gone /\ answer' = "lost")

SocksReplyOf == [nomethod |-> "nomethod", command |-> "rep7", address |-> "rep8", literal |-> "rep8"]

ReadSOCKS ==
  /\ node = "greeting"
  /\ \/ /\ ask.form \in {"name", "malformed"} /\ ~gone
        /\ node' = "alpn" /\ UNCHANGED answer
     \/ /\ ask.form \in DOMAIN SocksReplyOf
        /\ Tell(SocksReplyOf[ask.form])
        /\ node' = "done"
     \* Not SOCKS 5, hung up, or too slow: closed without a word.
     \/ /\ ask.form = "garbage" \/ gone
        /\ answer' = "lost" /\ node' = "done"
  /\ UNCHANGED <<application, why, use, armed, carrier, wire, exchange, exitSession>>

\* It hangs up, or has used up its ten seconds; elsewhere nobody notices, so that
\* it might as well do so later.
Leaves ==
  /\ node \in {"greeting", "fail", "accept"} \/ (node = "ws" /\ silent)
  /\ ~gone
  /\ gone' = TRUE
  /\ UNCHANGED <<ask, silent, ladder, carrier, wire, exchange, exitSession>>

-----------------------------------------------------------------------------
(* dialTransport: the ladder *)

ladderRest == <<application, why, answer, armed, wire>>

\* r.Context() ends with the application's connection; SOCKS has no such context.
Cancelled == ask.front = "http" /\ gone

\* alpnNegotiate, which bounds itself: h2, another protocol, or an error.
Probe ==
  /\ node = "alpn"
  /\ node' \in IF silent THEN {"ws"} ELSE {"post", "ws"}
  /\ UNCHANGED <<use, carrier, exchange, exitSession, ladderRest>>

\* serveTunnelPOST: authenticated, the session begins with the response.
PostArrives ==
  /\ node = "post" /\ exit["C"] = "none"
  /\ exit' = [exit EXCEPT !["C"] = "hello"]
  /\ UNCHANGED <<node, use, carrier, exchange, shut, pinned, target, outcome, ladderRest>>

\* openPOST: a response, of this session or the camouflage 404 ...
PostAnswered ==
  /\ node = "post"
  /\ node' = "posted" /\ carrier' = [carrier EXCEPT !["C"] = "open"]
  /\ UNCHANGED <<use, exchange, exitSession, ladderRest>>

\* ... which is a carrier if it is a 200 on h2 ...
PostOpens ==
  /\ node = "posted" /\ exit["C"] # "none"
  /\ use' = "C" /\ node' = "hello"
  /\ UNCHANGED <<carrier, exchange, exitSession, ladderRest>>

\* A rung may be given up with a session of its own already running.
MayStray(m) ==
  exit[m] = "none" \/ Cardinality({n \in Mode \ {m} : exit[n] # "none"}) < MaxStray

\* ... and is closed otherwise, as after an error or a timeout.
PostFails ==
  /\ node \in {"post", "posted"} /\ MayStray("C")
  /\ node' = "ws" /\ carrier' = [carrier EXCEPT !["C"] = "closed"]
  /\ UNCHANGED <<use, exchange, exitSession, ladderRest>>

\* wsDial: TCP and TLS, the handshake of which only the context bounds ...
WsConnects ==
  /\ node = "ws" /\ ~silent
  /\ node' = "upgrade" /\ carrier' = [carrier EXCEPT !["D"] = "open"]
  /\ UNCHANGED <<use, exchange, exitSession, ladderRest>>

\* openExchange touches no network: E opens whenever D has failed.
Demote(end) ==
  /\ carrier' = [carrier EXCEPT !["D"] = end, !["E"] = "open"]
  /\ use' = "E" /\ node' = "hello"
  /\ UNCHANGED <<exchange, exitSession, ladderRest>>

WsUnreached == node = "ws" /\ (~silent \/ Cancelled) /\ Demote("none")

\* ... then the upgrade, under a deadline: serveTunnel hijacks and answers 101 ...
UpgradeArrives ==
  /\ node = "upgrade" /\ exit["D"] = "none"
  /\ exit' = [exit EXCEPT !["D"] = "hello"]
  /\ UNCHANGED <<node, use, carrier, exchange, shut, pinned, target, outcome, ladderRest>>

UpgradeDone ==
  /\ node = "upgrade" /\ exit["D"] # "none"
  /\ use' = "D" /\ node' = "hello"
  /\ UNCHANGED <<carrier, exchange, exitSession, ladderRest>>

\* ... or the connection is closed.
UpgradeFails == node = "upgrade" /\ MayStray("D") /\ Demote("closed")

-----------------------------------------------------------------------------
(* openTunnel *)

Direct == {"C", "D"}

\* sendFrame on the relay node.
Send(f) ==
  /\ carrier[use] = "open"
  /\ IF use = "E"
     THEN batch' = Append(batch, f) /\ UNCHANGED up
     ELSE /\ up' = [up EXCEPT ![use] = IF broken[use] THEN @ ELSE Append(@, f)]
          /\ UNCHANGED batch
SendFails ==
  \/ carrier[use] = "closed"
  \/ use \in Direct /\ shut[use] /\ ~broken[use]

\* readTunnelFrame on the relay node.
Receive(f) ==
  /\ down[use] # <<>> /\ Head(down[use]) = f
  /\ IF use = "E" THEN window \in {"flush", "ended"} ELSE carrier[use] = "open"
  /\ down' = [down EXCEPT ![use] = Tail(@)]
\* On E only a close between windows, a refused or a lost one is noticed.
ReceiveFails ==
  IF use = "E"
  THEN \/ window = "none" /\ carrier["E"] = "closed"
       \/ window \in {"refused", "cut"}
  ELSE carrier[use] = "closed" \/ (shut[use] /\ ~broken[use] /\ down[use] = <<>>)

Fail(r) == why' = r /\ node' = "fail"

tunnelRest == <<application, use, carrier, broken, exitSession>>

\* Faulty variant: HELLO goes out before the deadline is set.
SendHelloUnbounded ==
  /\ node = "hello"
  /\ \/ Send("HELLO") /\ node' = "helloOK" /\ UNCHANGED why
     \/ SendFails /\ Fail("unavailable") /\ UNCHANGED <<up, batch>>
  /\ UNCHANGED <<answer, armed, down, window, parked, tunnelRest>>

\* One deadline for HELLO_OK and CONNECTED together.
SendHello ==
  /\ node = "hello"
  /\ armed' = TRUE
  /\ \/ Send("HELLO") /\ node' = "helloOK" /\ UNCHANGED why
     \/ SendFails /\ Fail("unavailable") /\ UNCHANGED <<up, batch>>
  /\ UNCHANGED <<answer, down, window, parked, tunnelRest>>

SendConnect ==
  /\ node = "connect"
  /\ \/ Send("CONNECT") /\ node' = "connected" /\ UNCHANGED why
     \/ SendFails /\ Fail("unavailable") /\ UNCHANGED <<up, batch>>
  /\ UNCHANGED <<answer, armed, down, window, parked, tunnelRest>>

ReceiveHelloOK ==
  /\ node = "helloOK" /\ Receive("HELLO_OK")
  /\ node' = "connect"
  /\ UNCHANGED <<why, answer, armed, up, exchange, tunnelRest>>

ReceiveConnected ==
  /\ node = "connected" /\ Receive("CONNECTED")
  /\ node' = "clear"
  /\ UNCHANGED <<why, answer, armed, up, exchange, tunnelRest>>

\* connectRejectedError.
ReceiveConnectErr ==
  /\ node = "connected" /\ \E r \in Reason : Receive(r) /\ Fail(r)
  /\ UNCHANGED <<answer, armed, up, exchange, tunnelRest>>

ReadFails ==
  /\ node \in {"helloOK", "connected"} /\ ReceiveFails
  /\ Fail("unavailable")
  /\ window' = IF use = "E" THEN "none" ELSE window
  /\ UNCHANGED <<answer, armed, wire, batch, parked, tunnelRest>>

\* The deadline: an error of the read on D, elsewhere a timer that closes.
DeadlinePasses ==
  /\ armed
  /\ IF use = "D"
     THEN node \in {"helloOK", "connected"} /\ Fail("unavailable") /\ UNCHANGED <<armed, carrier>>
     ELSE armed' = FALSE /\ carrier' = [carrier EXCEPT ![use] = "closed"] /\ UNCHANGED <<node, why>>
  /\ UNCHANGED <<application, answer, use, wire, exchange, exitSession>>

\* The relay owns the deadlines from here.
ClearDeadline ==
  /\ node = "clear"
  /\ armed' = FALSE /\ node' = "accept"
  /\ UNCHANGED <<why, answer, wire, exchange, tunnelRest>>

CloseCarrier == carrier' = [carrier EXCEPT ![use] = "closed"]

-----------------------------------------------------------------------------
(* The answer to the application *)

replyRest == <<application, why, use, armed, broken, down, window, parked, exitSession>>

\* Faulty variant: every rejection counts as the policy's.
SocksRepAny(r) ==
  IF r # "unavailable" THEN "rep2" ELSE "rep1"

\* httpStatusForTunnelErr and socksRepForTunnelErr.
HttpStatus(r) ==
  IF r \in DeniedReason THEN "403" ELSE IF r = "invalid-target" THEN "400" ELSE "502"
SocksRep(r) ==
  IF r \in DeniedReason THEN "rep2" ELSE IF r = "invalid-target" THEN "rep8" ELSE "rep1"

\* Faulty variant: a failed opening keeps its carrier.
RefuseOpen ==
  /\ node = "fail"
  /\ armed' = FALSE
  /\ Tell(IF ask.front = "http" THEN HttpStatus(why) ELSE SocksRep(why))
  /\ node' = "done"
  /\ UNCHANGED <<application, why, use, carrier, wire, exchange, exitSession>>

\* The deferred Close of openTunnel, then the answer.
Refuse ==
  /\ node = "fail"
  /\ CloseCarrier /\ armed' = FALSE
  /\ Tell(IF ask.front = "http" THEN HttpStatus(why) ELSE SocksRep(why))
  /\ node' = "done"
  /\ UNCHANGED <<application, why, use, wire, exchange, exitSession>>

Accept ==
  /\ node = "accept"
  /\ answer' = IF ask.front = "http" THEN "200" ELSE "rep0"
  /\ node' \in IF ask.front = "http" THEN {"early", "relay"} ELSE {"relay"}
  /\ UNCHANGED <<carrier, up, batch, replyRest>>

\* The connection cannot be taken over, or the application has gone: the tunnel
\* is closed again.
AcceptFails ==
  /\ node = "accept"
  /\ \/ ask.front = "http" /\ answer' = "500"
     \/ gone /\ answer' = "lost"
  /\ CloseCarrier /\ node' = "done"
  /\ UNCHANGED <<up, batch, replyRest>>

\* Bytes the application sent along with its CONNECT go first.
SendEarly ==
  /\ node = "early"
  /\ \/ Send("DATA") /\ node' = "relay" /\ UNCHANGED carrier
     \/ SendFails /\ CloseCarrier /\ node' = "done" /\ UNCHANGED <<up, batch>>
  /\ UNCHANGED <<answer, replyRest>>

\* relay has returned, for whatever reason: it closed both ends.
RelayEnds ==
  /\ node = "relay"
  /\ CloseCarrier /\ node' = "done"
  /\ UNCHANGED <<answer, up, batch, replyRest>>

-----------------------------------------------------------------------------
(* Mode E: windowStream's exchanges and serveTunnelExchange *)

exchangeRest == <<application, ladder, carrier, broken>>

\* The pending batch, or a poll: the reader drives the exchanges.
StartWindow ==
  /\ use = "E" /\ window = "none" /\ carrier["E"] = "open"
  /\ node \in {"helloOK", "connected"}
  /\ window' = "sent"
  /\ UNCHANGED <<batch, parked, up, down, exitSession, exchangeRest>>

\* accept and drain: the first window mints the session, later ones find it.
WindowArrives ==
  /\ window = "sent" /\ ~silent /\ ~shut["E"]
  /\ exit' = [exit EXCEPT !["E"] = IF @ = "none" THEN "hello" ELSE @]
  /\ up' = [up EXCEPT !["E"] = @ \o batch]
  /\ batch' = <<>> /\ window' = "flush"
  /\ UNCHANGED <<parked, down, shut, pinned, target, outcome, exchangeRest>>

\* The camouflage 404: no such session any more, no room or no credential for a
\* new one.
WindowRefused ==
  /\ window = "sent" /\ ~silent /\ (shut["E"] \/ exit["E"] = "none")
  /\ window' = "refused"
  /\ UNCHANGED <<batch, parked, up, down, exitSession, exchangeRest>>

\* flushWindow.
FlushParked ==
  /\ window = "flush" /\ parked # <<>>
  /\ down' = [down EXCEPT !["E"] = @ \o parked]
  /\ parked' = <<>>
  /\ UNCHANGED <<batch, window, up, exitSession, exchangeRest>>
FlushEnds ==
  /\ window = "flush" /\ (parked = <<>> \/ shut["E"])
  /\ window' = "ended"
  /\ UNCHANGED <<batch, parked, up, down, exitSession, exchangeRest>>

\* The response is read to its end.
WindowOver ==
  /\ window = "ended" /\ down["E"] = <<>> /\ node \in {"helloOK", "connected"}
  /\ window' = "none"
  /\ UNCHANGED <<batch, parked, up, down, exitSession, exchangeRest>>

\* The request or the response is lost; it is not repeated.
WindowCut ==
  /\ window \in {"sent", "flush"} /\ node \in {"helloOK", "connected"}
  /\ window' = "cut"
  /\ UNCHANGED <<batch, parked, up, down, exitSession, exchangeRest>>

\* C and D: the connection goes dead, without a word to either end.
Break(m) ==
  /\ m \in Direct /\ carrier[m] = "open" /\ ~broken[m] /\ node # "relay"
  /\ broken' = [broken EXCEPT ![m] = TRUE]
  /\ UNCHANGED <<application, ladder, carrier, up, down, exchange, exitSession>>

-----------------------------------------------------------------------------
(* The exit node: runSession *)

exitRest == <<application, ladder, carrier, broken, batch, window>>

\* sendFrame on the exit node.  On E both branches of select may be ready.
Put(m, f) ==
  IF m = "E"
  THEN parked = <<>> /\ parked' = <<f>> /\ UNCHANGED down
  ELSE /\ down' = [down EXCEPT ![m] =
                    IF carrier[m] = "closed" \/ broken[m] THEN @ ELSE Append(@, f)]
       /\ UNCHANGED parked
PutFails(m) ==
  /\ IF m = "E" THEN shut["E"] ELSE carrier[m] = "closed" /\ ~broken[m]
  /\ UNCHANGED <<down, parked>>

Move(m, pc) == exit' = [exit EXCEPT ![m] = pc] /\ UNCHANGED shut
\* runSession returns: the deferred Close.  Only on E, where windows go on coming,
\* does anyone meet the session in between.
Return(m) ==
  IF m = "E" THEN Move(m, "closing")
  ELSE exit' = [exit EXCEPT ![m] = "over"] /\ shut' = [shut EXCEPT ![m] = TRUE]

\* readTunnelFrame on the exit node.
Take(m, f) ==
  /\ up[m] # <<>> /\ Head(up[m]) = f
  /\ up' = [up EXCEPT ![m] = Tail(@)]

\* HELLO, and HELLO_OK; or its version is another, or the answer cannot be sent.
Hello(m) ==
  /\ exit[m] = "hello" /\ Take(m, "HELLO")
  /\ \/ Put(m, "HELLO_OK") /\ Move(m, "connect")
     \/ Return(m) /\ UNCHANGED <<down, parked>>
  /\ UNCHANGED <<pinned, target, outcome, exitRest>>

\* The stream ends, breaks or is silent for its ten seconds.
ExitReadFails(m) ==
  /\ exit[m] \in {"hello", "connect"}
  /\ m = "E" => shut["E"]
  /\ Return(m)
  /\ UNCHANGED <<pinned, target, outcome, wire, parked, exitRest>>

\* E: the deadline closes the session, in the dial too.
ExitDeadline ==
  /\ exit["E"] \notin {"none", "relay", "over"} /\ ~shut["E"]
  /\ shut' = [shut EXCEPT !["E"] = TRUE]
  /\ UNCHANGED <<exit, pinned, target, outcome, wire, parked, exitRest>>

\* failConnect; the error of the write is dropped.
FailConnect(m, r) ==
  /\ outcome' = [outcome EXCEPT ![m] = r]
  /\ Put(m, r) \/ PutFails(m)
  /\ Return(m)

\* CONNECT: splitConnectTarget, parseIPLiteral and allowPort, in this order.
Connect(m) ==
  /\ exit[m] = "connect" /\ Take(m, "CONNECT")
  /\ CASE ask.form = "malformed" -> FailConnect(m, "invalid-target")
       [] ask.form = "literal" -> FailConnect(m, "target-ip-literal")
       [] ask.form = "name" /\ ask.port \notin PolicyPorts -> FailConnect(m, "port-denied")
       [] OTHER -> Move(m, "lookup") /\ UNCHANGED <<outcome, down, parked>>
  /\ UNCHANGED <<pinned, target, exitRest>>

\* allowAddr: denied by default, an explicit allow wins.
Allowed(a) == a \notin DenyTable \/ a \in OptedIn

\* dialValidated looks the name up once and pins the first address allowed.
Lookup(m) ==
  /\ exit[m] = "lookup"
  /\ \/ FailConnect(m, "resolve-failed") /\ UNCHANGED pinned
     \/ \E n \in 1..2 : \E ips \in [1..n -> Addr] :
          LET ok == {i \in 1..n : Allowed(ips[i])} IN
          IF ok = {}
          THEN FailConnect(m, "egress-denied") /\ UNCHANGED pinned
          ELSE /\ \E i \in ok : (\A j \in ok : i <= j) /\ pinned' = [pinned EXCEPT ![m] = ips[i]]
               /\ Move(m, "dial") /\ UNCHANGED <<outcome, down, parked>>
  /\ UNCHANGED <<target, up, exitRest>>

\* The pinned address is dialled; a CONNECTED that cannot be sent closes it again.
Dial(m) ==
  /\ exit[m] = "dial"
  /\ \/ /\ Put(m, "CONNECTED") /\ Move(m, "relay")
        /\ target' = [target EXCEPT ![m] = "open"]
        /\ outcome' = [outcome EXCEPT ![m] = "relayed"]
     \/ /\ PutFails(m) /\ Return(m)
        /\ target' = [target EXCEPT ![m] = "closed"] /\ UNCHANGED outcome
     \/ FailConnect(m, "dial-failed") /\ UNCHANGED target
  /\ UNCHANGED <<pinned, up, exitRest>>

\* The Close of a session on E.
EndExit ==
  /\ exit["E"] = "closing"
  /\ exit' = [exit EXCEPT !["E"] = "over"] /\ shut' = [shut EXCEPT !["E"] = TRUE]
  /\ UNCHANGED <<pinned, target, outcome, wire, parked, exitRest>>

\* relay has returned: stream and target are closed.
ExitRelayEnds(m) ==
  /\ exit[m] = "relay"
  /\ exit' = [exit EXCEPT ![m] = "over"] /\ shut' = [shut EXCEPT ![m] = TRUE]
  /\ target' = [target EXCEPT ![m] = "closed"]
  /\ UNCHANGED <<pinned, outcome, wire, parked, exitRest>>

-----------------------------------------------------------------------------
(* Specification *)

NodeRuns ==
  \/ ReadSOCKS
  \/ Probe \/ PostAnswered \/ PostOpens \/ PostFails
  \/ WsConnects \/ WsUnreached \/ UpgradeDone \/ UpgradeFails
  \/ SendHello \/ ReceiveHelloOK \/ SendConnect \/ ReceiveConnected \/ ReceiveConnectErr
  \/ ReadFails \/ ClearDeadline
  \/ Refuse \/ Accept \/ AcceptFails \/ SendEarly
  \/ StartWindow \/ WindowOver
WindowRuns == WindowArrives \/ WindowRefused \/ FlushParked \/ FlushEnds
ExitRuns(m) ==
  \/ Hello(m) \/ Connect(m) \/ ExitReadFails(m) \/ Lookup(m) \/ Dial(m)

OpeningNext ==
  \/ \E a \in Asked : HandleConnect(a) \/ HandleSOCKS(a)
  \/ Leaves \/ PostArrives \/ UpgradeArrives
  \/ NodeRuns \/ DeadlinePasses \/ RelayEnds
  \/ WindowRuns \/ WindowCut
  \/ \E m \in Mode : Break(m) \/ ExitRuns(m) \/ ExitRelayEnds(m)
  \/ EndExit \/ ExitDeadline

OpeningSpec == OpeningInit /\ [][OpeningNext]_openingVars

\* A relay notices at last that the other end has gone.
ExitRelayNotices(m) == carrier[m] = "closed" /\ ExitRelayEnds(m)

OpeningFairness ==
  /\ WF_openingVars(NodeRuns) /\ WF_openingVars(DeadlinePasses)
  /\ WF_openingVars(ask.front = "socks" /\ Leaves)
  /\ WF_openingVars(WindowRuns \/ (silent /\ WindowCut))
  /\ \A m \in Mode : WF_openingVars(ExitRuns(m)) /\ WF_openingVars(ExitRelayNotices(m))
  /\ WF_openingVars(EndExit) /\ WF_openingVars(ExitDeadline)
OpeningFairSpec == OpeningSpec /\ OpeningFairness

-----------------------------------------------------------------------------
(* Properties *)

Accepted == {"200", "rep0"}

\* The application is told what happened.  Success: on the carrier it is joined
\* to, a session dialled the name it asked for, on a port and at an address the
\* policy allows.  A refusal by policy: the exit node said so, and nothing was
\* dialled for it on any rung (httpStatusForTunnelErr, socksRepForTunnelErr,
\* "fail-closed is structural", relaynode.go:13-17).
AnswerTrue ==
  /\ answer \in Accepted =>
       /\ outcome[use] = "relayed" /\ target[use] # "none"
       /\ ask.form = "name" /\ ask.port \in PolicyPorts /\ Allowed(pinned[use])
  /\ answer \in {"403", "rep2"} =>
       outcome[use] \in DeniedReason /\ \A m \in Mode : target[m] = "none"
  /\ answer \in {"400", "rep8"} => ask.form # "name"
  /\ \A m, n \in Mode : target[m] # "none" /\ target[n] # "none" => m = n

\* No rung leaves a carrier behind: under a running relay only its own is open, and
\* none once the application has its refusal or the relay is over (dialTransport,
\* openTunnel's deferred Close, the closes of handleConnect and handleSOCKS).
NoCarrierLeft ==
  /\ node = "relay" => \A m \in Mode : carrier[m] = "open" => m = use
  /\ node = "done" => \A m \in Mode : carrier[m] # "open"

Settled == node \in {"idle", "relay", "done"}

\* Sessions on the exit node whose other end is closed.
Abandoned == {m \in Mode : carrier[m] = "closed"
                /\ (exit[m] \notin {"none", "over"} \/ target[m] = "open")}

\* With an endpoint that answers in TLS every request comes to its relay or its
\* refusal, and a session the relay node has turned away from ends, its target
\* closed ("every idle stretch in the protocol is bounded", tunnelserver.go:33-34).
OpeningEnds ==
  ~silent /\ ~(Settled /\ Abandoned = {}) ~> Settled /\ Abandoned = {}

\* "A black-holed endpoint ends in an error, not a goroutine parked on a read"
\* (websocket.go:170-173).
Answered == ~Settled ~> Settled
=============================================================================
