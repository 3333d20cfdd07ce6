------------------------------- MODULE Relay --------------------------------
(***************************************************************************)
(* relay.go: the byte pump behind one established tunnel session.  The same *)
(* function runs at both ends ("relay": the local node the application      *)
(* connected to; "exit": the node that dialled the target); between them    *)
(* lies one carrier, here a bounded FIFO of frames per direction, the way   *)
(* mode D (websocket.go) and mode C over HTTP/2 (modec.go) provide it:      *)
(* closing it frees whoever is parked in it.                                *)
(*                                                                          *)
(* Each end runs three goroutines: Reader (tunnel to local connection),     *)
(* Pump (local connection to tunnel) and Keepalive.  They share stop(),     *)
(* which closes `done`, the carrier and the local connection, and the       *)
(* first-wins outcome.  setOutcome and the stop() after it are one step:    *)
(* no statement lies between them.                                          *)
(*                                                                          *)
(* A chunk is what one local.Read returned; it is named by its position in  *)
(* the stream.  Every frame carries pos, the number of chunks its sender    *)
(* had put on the carrier when it was written (a history field: nothing in  *)
(* a guard reads it, except that a DATA frame's pos names its chunk).       *)
(***************************************************************************)
EXTENDS Integers, Sequences

CONSTANTS
  MaxChunk,   \* bound: MaxChunk[n] is how many chunks the application at n writes
  WireCap,    \* frames the carrier holds per direction before a write blocks
  FaultSets   \* the sets of failures a behaviour may draw its own from

\* break: the path between the nodes dies; tail: written frames are lost with
\* the connection; local: a local connection breaks; idle: nothing arrives for
\* the idle window; stall: a blocked write outlives its deadline; stray: the
\* peer writes a frame this phase does not know.
FaultKind == {"break", "local", "idle", "stall", "stray", "tail"}

Node == {"relay", "exit"}
Peer(n) == IF n = "relay" THEN "exit" ELSE "relay"

ASSUME RelayAssumption ==
  /\ MaxChunk \in [Node -> Nat]
  /\ WireCap \in Nat \ {0}
  /\ FaultSets \subseteq SUBSET FaultKind

FrameType == {"DATA", "CLOSE", "PING", "PONG", "OTHER"}
Frame == [type : FrameType, pos : Nat]
Outcome == {"closed", "idle-timeout", "peer-disconnected", "local-error",
            "protocol-error"}

VARIABLES
  faults,      \* the failures that may happen in this behaviour (constant)
  wire,        \* wire[n]: frames n wrote that the other end has not read
  broken,      \* the network under the carrier is gone
  reset,       \* reset[n]: n's write side of the carrier is dead
  rpc,         \* rpc[n]: where n's reader is
  held,        \* held[n]: the chunk n's reader holds while rpc[n] = "data"
  ppc,         \* ppc[n]: where n's pump is
  kpc,         \* kpc[n]: where n's keepalive is
  sent,        \* sent[n]: chunks n's pump has written to the carrier
  received,    \* received[n]: chunks written to n's local connection
  localEOF,    \* localEOF[n]: n sent CLOSE (or tried to)
  peerClosed,  \* peerClosed[n]: n read the peer's CLOSE
  stopped,     \* stopped[n]: stop() has run at n
  outcome,     \* outcome[n]: the recorded outcome, "none" before the first
  written,     \* written[n]: chunks the application at n has written
  finished     \* finished[n]: that application has shut its write side

app == <<faults, written, finished>>
vars == <<faults, wire, broken, reset, rpc, held, ppc, kpc, sent, received, localEOF,
          peerClosed, stopped, outcome, written, finished>>

TypeOK ==
  /\ faults \in FaultSets
  /\ wire \in [Node -> Seq(Frame)]
  /\ \A n \in Node : Len(wire[n]) <= WireCap
  /\ broken \in BOOLEAN
  /\ reset \in [Node -> BOOLEAN]
  /\ rpc \in [Node -> {"read", "data", "pong", "both", "refuse", "done"}]
  /\ held \in [Node -> Nat]
  /\ ppc \in [Node -> {"read", "both", "done"}]
  /\ kpc \in [Node -> {"tick", "done"}]
  /\ sent \in [Node -> Nat]
  /\ received \in [Node -> Seq(Nat)]
  /\ localEOF \in [Node -> BOOLEAN]
  /\ peerClosed \in [Node -> BOOLEAN]
  /\ stopped \in [Node -> BOOLEAN]
  /\ outcome \in [Node -> Outcome \cup {"none"}]
  /\ written \in [Node -> Nat]
  /\ \A n \in Node : sent[n] <= written[n] /\ written[n] <= MaxChunk[n]
  /\ finished \in [Node -> BOOLEAN]

Init ==
  /\ faults \in FaultSets
  /\ wire = [n \in Node |-> <<>>]
  /\ broken = FALSE
  /\ reset = [n \in Node |-> FALSE]
  /\ rpc = [n \in Node |-> "read"]
  /\ held = [n \in Node |-> 0]
  /\ ppc = [n \in Node |-> "read"]
  /\ kpc = [n \in Node |-> "tick"]
  /\ sent = [n \in Node |-> 0]
  /\ received = [n \in Node |-> <<>>]
  /\ localEOF = [n \in Node |-> FALSE]
  /\ peerClosed = [n \in Node |-> FALSE]
  /\ stopped = [n \in Node |-> FALSE]
  /\ outcome = [n \in Node |-> "none"]
  /\ written = [n \in Node |-> 0]
  /\ finished = [n \in Node |-> FALSE]

-----------------------------------------------------------------------------
(* The carrier and the shared teardown *)

\* setOutcome(o); stop().  What the peer had written and n had not read is
\* discarded (a frame n had already buffered can no longer be answered, nor
\* its bytes delivered), and closing a connection with unread bytes resets it: the peer's
\* next write fails.
StopWith(n, o) ==
  /\ outcome' = [outcome EXCEPT ![n] = IF @ = "none" THEN o ELSE @]
  /\ stopped' = [stopped EXCEPT ![n] = TRUE]
  /\ reset' = [reset EXCEPT ![Peer(n)] =
                 @ \/ (~stopped[n] /\ wire[Peer(n)] # <<>>)]
  /\ wire' = [wire EXCEPT ![Peer(n)] = <<>>]

\* Faulty variant: a carrier that queues without a bound.
SendOKUnbounded(n, t, p) ==
  /\ ~stopped[n] /\ ~broken /\ ~reset[n]
  /\ wire' = [wire EXCEPT ![n] = Append(@, [type |-> t, pos |-> p])]
  /\ UNCHANGED <<outcome, stopped, reset>>

\* A write that succeeds.  Once the peer has closed its end the bytes go
\* nowhere and the answer is a reset.
SendOK(n, t, p) ==
  /\ ~stopped[n] /\ ~broken /\ ~reset[n]
  /\ UNCHANGED <<outcome, stopped>>
  /\ \/ /\ ~stopped[Peer(n)]
        /\ Len(wire[n]) < WireCap
        /\ wire' = [wire EXCEPT ![n] = Append(@, [type |-> t, pos |-> p])]
        /\ UNCHANGED reset
     \/ /\ stopped[Peer(n)]
        /\ reset' = [reset EXCEPT ![n] = TRUE]
        /\ UNCHANGED wire

\* A write that fails: own end closed, network gone, peer's end reset, or the
\* per-write deadline expired against a peer that does not drain.
SendFails(n) ==
  \/ stopped[n] \/ broken \/ reset[n]
  \/ "stall" \in faults /\ Len(wire[n]) = WireCap

\* Faulty variant: either half-close ends the session.
BothClosedEither(n) ==
  IF localEOF[n] \/ peerClosed[n]
  THEN StopWith(n, "closed")
  ELSE UNCHANGED <<wire, outcome, stopped, reset>>

\* bothClosed(): read both flags, end the session when both are set.
BothClosed(n) ==
  IF localEOF[n] /\ peerClosed[n]
  THEN StopWith(n, "closed")
  ELSE UNCHANGED <<wire, outcome, stopped, reset>>

-----------------------------------------------------------------------------
(* Reader: tunnel -> local *)

readerRest == <<ppc, kpc, sent, localEOF, app, broken>>

\* readTunnelMsg: the next frame, while the own end of the carrier is open.
Readable(n) == rpc[n] = "read" /\ ~stopped[n] /\ wire[Peer(n)] # <<>>
NextFrame(n) == Head(wire[Peer(n)])
Consume(n) == wire' = [wire EXCEPT ![Peer(n)] = Tail(@)]

\* A DATA frame: the reader now holds its payload.
ReaderData(n) ==
  /\ Readable(n) /\ NextFrame(n).type = "DATA"
  /\ Consume(n)
  /\ rpc' = [rpc EXCEPT ![n] = "data"]
  /\ held' = [held EXCEPT ![n] = NextFrame(n).pos]
  /\ UNCHANGED <<received, peerClosed, outcome, stopped, reset, readerRest>>

\* Faulty variant: a partial write is repeated from its first byte.
ReaderDeliverTwice(n) ==
  /\ rpc[n] = "data" /\ ~stopped[n]
  /\ received' = [received EXCEPT ![n] = @ \o <<held[n], held[n]>>]
  /\ held' = [held EXCEPT ![n] = 0]
  /\ rpc' = [rpc EXCEPT ![n] = "read"]
  /\ BothClosed(n)
  /\ UNCHANGED <<peerClosed, readerRest>>

\* writeAll(local), with the application taking the bytes.
ReaderDeliver(n) ==
  /\ rpc[n] = "data" /\ ~stopped[n]
  /\ received' = [received EXCEPT ![n] = Append(@, held[n])]
  /\ held' = [held EXCEPT ![n] = 0]
  /\ rpc' = [rpc EXCEPT ![n] = "read"]
  /\ BothClosed(n)
  /\ UNCHANGED <<peerClosed, readerRest>>

\* The local connection fails under the write, or stop() has closed it.
ReaderDeliverErr(n) ==
  /\ rpc[n] = "data"
  /\ stopped[n] \/ "local" \in faults
  /\ StopWith(n, "local-error")
  /\ held' = [held EXCEPT ![n] = 0]
  /\ rpc' = [rpc EXCEPT ![n] = "done"]
  /\ UNCHANGED <<received, peerClosed, readerRest>>

\* The peer's CLOSE: half-close the local connection and remember it.
ReaderClose(n) ==
  /\ Readable(n) /\ NextFrame(n).type = "CLOSE"
  /\ Consume(n)
  /\ peerClosed' = [peerClosed EXCEPT ![n] = TRUE]
  /\ rpc' = [rpc EXCEPT ![n] = "both"]
  /\ UNCHANGED <<held, received, outcome, stopped, reset, readerRest>>

ReaderBoth(n) ==
  /\ rpc[n] = "both"
  /\ BothClosed(n)
  /\ rpc' = [rpc EXCEPT ![n] = "read"]
  /\ UNCHANGED <<held, received, peerClosed, readerRest>>

ReaderPing(n) ==
  /\ Readable(n) /\ NextFrame(n).type = "PING"
  /\ Consume(n)
  /\ rpc' = [rpc EXCEPT ![n] = "pong"]
  /\ UNCHANGED <<held, received, peerClosed, outcome, stopped, reset, readerRest>>

\* The answer to a PING shares the carrier with the pump and the keepalive and
\* blocks with them: the reader reads nothing meanwhile.
ReaderAnswer(n) ==
  /\ rpc[n] = "pong"
  /\ SendOK(n, "PONG", sent[n])
  /\ rpc' = [rpc EXCEPT ![n] = "both"]
  /\ UNCHANGED <<held, received, peerClosed, readerRest>>

ReaderAnswerErr(n) ==
  /\ rpc[n] = "pong"
  /\ SendFails(n)
  /\ StopWith(n, "peer-disconnected")
  /\ rpc' = [rpc EXCEPT ![n] = "done"]
  /\ UNCHANGED <<held, received, peerClosed, readerRest>>

\* PONG is evidence of activity only.
ReaderPong(n) ==
  /\ Readable(n) /\ NextFrame(n).type = "PONG"
  /\ Consume(n)
  /\ rpc' = [rpc EXCEPT ![n] = "both"]
  /\ UNCHANGED <<held, received, peerClosed, outcome, stopped, reset, readerRest>>

\* A frame of the session preamble, or one that does not decode.
ReaderViolation(n) ==
  /\ Readable(n) /\ NextFrame(n).type = "OTHER"
  /\ Consume(n)
  /\ rpc' = [rpc EXCEPT ![n] = "refuse"]
  /\ UNCHANGED <<held, received, peerClosed, outcome, stopped, reset, readerRest>>

\* protocolViolation() first puts the carrier's own close frame behind what is
\* queued, or fails to; to the peer that frame is the end of the carrier.
ReaderRefuse(n) ==
  /\ rpc[n] = "refuse"
  /\ SendFails(n) \/ stopped[Peer(n)] \/ Len(wire[n]) < WireCap
  /\ StopWith(n, "protocol-error")
  /\ rpc' = [rpc EXCEPT ![n] = "done"]
  /\ UNCHANGED <<held, received, peerClosed, readerRest>>

\* readTunnelMsg fails: stop() closed the own end ...
ReaderAborted(n) ==
  /\ rpc[n] = "read" /\ stopped[n]
  /\ rpc' = [rpc EXCEPT ![n] = "done"]
  /\ UNCHANGED <<wire, held, received, peerClosed, outcome, stopped, reset,
                 readerRest>>

\* What a read error is recorded as: EOF is a disconnect, a kernel timeout an
\* idle reap, and any other error, a reset or a frame cut short, the default.
EndOutcome(n) ==
  {"peer-disconnected"}
    \cup (IF broken THEN {"idle-timeout"} ELSE {})
    \cup (IF broken \/ reset[n] THEN {"protocol-error"} ELSE {})

\* ... the peer's end is gone and nothing is left to read ...
ReaderEnd(n) ==
  /\ rpc[n] = "read" /\ ~stopped[n]
  /\ wire[Peer(n)] = <<>>
  /\ stopped[Peer(n)] \/ broken
  /\ \E o \in EndOutcome(n) : StopWith(n, o)
  /\ rpc' = [rpc EXCEPT ![n] = "done"]
  /\ UNCHANGED <<held, received, peerClosed, readerRest>>

\* ... or nothing was readable for the whole idle window.
ReaderIdle(n) ==
  /\ "idle" \in faults
  /\ rpc[n] = "read" /\ ~stopped[n]
  /\ wire[Peer(n)] = <<>>
  /\ StopWith(n, "idle-timeout")
  /\ rpc' = [rpc EXCEPT ![n] = "done"]
  /\ UNCHANGED <<held, received, peerClosed, readerRest>>

-----------------------------------------------------------------------------
(* Pump: local -> tunnel.  A chunk that was read and not yet sent is, to    *)
(* everyone else, a chunk not yet read: the read and the send are one step. *)

pumpRest == <<rpc, held, kpc, received, peerClosed, app, broken>>

PumpData(n) ==
  /\ ppc[n] = "read" /\ ~stopped[n]
  /\ sent[n] < written[n]
  /\ SendOK(n, "DATA", sent[n] + 1)
  /\ sent' = [sent EXCEPT ![n] = @ + 1]
  /\ UNCHANGED <<ppc, localEOF, pumpRest>>

PumpDataErr(n) ==
  /\ ppc[n] = "read"
  /\ sent[n] < written[n]
  /\ SendFails(n)
  /\ StopWith(n, "peer-disconnected")
  /\ ppc' = [ppc EXCEPT ![n] = "done"]
  /\ UNCHANGED <<sent, localEOF, pumpRest>>

\* Faulty variant: the end of stream overtakes bytes not yet sent.
AtEOFEarly(n) == ppc[n] = "read" /\ ~stopped[n] /\ finished[n]

\* local.Read returns EOF: the application shut its write side and everything
\* it wrote has been read.  CLOSE goes out, then localEOF is set.
AtEOF(n) == ppc[n] = "read" /\ ~stopped[n] /\ finished[n] /\ sent[n] = written[n]

PumpClose(n) ==
  /\ AtEOF(n)
  /\ SendOK(n, "CLOSE", sent[n])
  /\ localEOF' = [localEOF EXCEPT ![n] = TRUE]
  /\ ppc' = [ppc EXCEPT ![n] = "both"]
  /\ UNCHANGED <<sent, pumpRest>>

\* The error of that write is ignored; localEOF is set all the same.  The
\* buffered writer keeps the error for whoever writes next.
PumpCloseErr(n) ==
  /\ AtEOF(n)
  /\ SendFails(n)
  /\ reset' = [reset EXCEPT ![n] = TRUE]
  /\ localEOF' = [localEOF EXCEPT ![n] = TRUE]
  /\ ppc' = [ppc EXCEPT ![n] = "both"]
  /\ UNCHANGED <<wire, sent, outcome, stopped, pumpRest>>

PumpBoth(n) ==
  /\ ppc[n] = "both"
  /\ BothClosed(n)
  /\ ppc' = [ppc EXCEPT ![n] = "done"]
  /\ UNCHANGED <<sent, localEOF, pumpRest>>

\* Faulty variant: stop() leaves the local connection open.
PumpAbortedLate(n) ==
  /\ ppc[n] = "read" /\ stopped[n] /\ finished[n]
  /\ ppc' = [ppc EXCEPT ![n] = "done"]
  /\ UNCHANGED <<wire, sent, localEOF, outcome, stopped, reset, pumpRest>>

\* local.Read fails: stop() closed the connection, or it broke.
PumpAborted(n) ==
  /\ ppc[n] = "read" /\ stopped[n]
  /\ ppc' = [ppc EXCEPT ![n] = "done"]
  /\ UNCHANGED <<wire, sent, localEOF, outcome, stopped, reset, pumpRest>>

PumpLocalErr(n) ==
  /\ "local" \in faults
  /\ ppc[n] = "read" /\ ~stopped[n]
  /\ StopWith(n, "local-error")
  /\ ppc' = [ppc EXCEPT ![n] = "done"]
  /\ UNCHANGED <<sent, localEOF, pumpRest>>

-----------------------------------------------------------------------------
(* Keepalive *)

keepRest == <<rpc, held, ppc, sent, received, localEOF, peerClosed, app, broken>>

\* Bound: no second PING while the first is still on the carrier.
PingDue(n) ==
  \/ stopped[n] \/ stopped[Peer(n)] \/ broken \/ reset[n]
  \/ \A k \in 1..Len(wire[n]) : wire[n][k].type # "PING"

KeepalivePing(n) ==
  /\ kpc[n] = "tick"
  /\ PingDue(n)
  /\ SendOK(n, "PING", sent[n])
  /\ UNCHANGED <<kpc, keepRest>>

\* Faulty variant: a failed PING ends the keepalive and nothing else.
KeepalivePingErrQuiet(n) ==
  /\ kpc[n] = "tick"
  /\ PingDue(n)
  /\ SendFails(n)
  /\ kpc' = [kpc EXCEPT ![n] = "done"]
  /\ UNCHANGED <<wire, outcome, stopped, reset, keepRest>>

KeepalivePingErr(n) ==
  /\ kpc[n] = "tick"
  /\ PingDue(n)
  /\ SendFails(n)
  /\ StopWith(n, "peer-disconnected")
  /\ kpc' = [kpc EXCEPT ![n] = "done"]
  /\ UNCHANGED <<keepRest>>

\* <-done
KeepaliveDone(n) ==
  /\ kpc[n] = "tick" /\ stopped[n]
  /\ kpc' = [kpc EXCEPT ![n] = "done"]
  /\ UNCHANGED <<wire, outcome, stopped, reset, keepRest>>

-----------------------------------------------------------------------------
(* The applications and the environment *)

control == <<rpc, held, ppc, kpc, sent, received, localEOF, peerClosed,
             stopped, outcome>>

AppWrite(n) ==
  /\ ~finished[n] /\ ~stopped[n]
  /\ written[n] < MaxChunk[n]
  /\ written' = [written EXCEPT ![n] = @ + 1]
  /\ UNCHANGED <<faults, finished, wire, broken, reset, control>>

AppShutdown(n) ==
  /\ ~finished[n] /\ ~stopped[n]
  /\ finished' = [finished EXCEPT ![n] = TRUE]
  /\ UNCHANGED <<faults, written, wire, broken, reset, control>>

\* The path between the nodes dies.
Break ==
  /\ "break" \in faults
  /\ ~broken
  /\ broken' = TRUE
  /\ UNCHANGED <<wire, reset, app, control>>

\* A peer of another make writes a frame the relay phase does not know.
Stray(n) ==
  /\ "stray" \in faults
  /\ SendOK(n, "OTHER", sent[n])
  /\ UNCHANGED <<rpc, held, ppc, kpc, sent, received, localEOF, peerClosed,
                 app, broken>>

\* Frames an end had written but the network had not delivered are lost with
\* the connection.
LoseTail(n) ==
  /\ "tail" \in faults
  /\ stopped[n] \/ broken
  /\ wire[n] # <<>>
  /\ wire' = [wire EXCEPT ![n] = SubSeq(@, 1, Len(@) - 1)]
  /\ UNCHANGED <<broken, reset, app, control>>

Terminated(n) == rpc[n] = "done" /\ ppc[n] = "done" /\ kpc[n] = "done"

\* relay() has returned at both ends; nothing is left to happen.
Finished ==
  /\ \A n \in Node : Terminated(n)
  /\ UNCHANGED vars

\* What the Go scheduler runs as soon as it can.  Handing bytes to the local
\* connection is not among it, for the application may stop reading for ever.
ReaderRuns(n) ==
  \/ ReaderData(n) \/ (stopped[n] /\ ReaderDeliverErr(n))
  \/ ReaderClose(n) \/ ReaderBoth(n)
  \/ ReaderPing(n) \/ ReaderAnswer(n) \/ ReaderAnswerErr(n) \/ ReaderPong(n)
  \/ ReaderViolation(n) \/ ReaderRefuse(n) \/ ReaderAborted(n) \/ ReaderEnd(n)

PumpRuns(n) ==
  \/ PumpData(n) \/ PumpDataErr(n) \/ PumpClose(n) \/ PumpCloseErr(n)
  \/ PumpBoth(n) \/ PumpAborted(n)

KeepaliveRuns(n) == KeepalivePing(n) \/ KeepalivePingErr(n) \/ KeepaliveDone(n)

\* What the applications and the environment may do and need not.
Environment(n) ==
  \/ ReaderDeliver(n) \/ ReaderDeliverErr(n) \/ ReaderIdle(n) \/ PumpLocalErr(n)
  \/ AppWrite(n) \/ AppShutdown(n) \/ Stray(n) \/ LoseTail(n)

Next ==
  \/ \E n \in Node : ReaderRuns(n) \/ PumpRuns(n) \/ KeepaliveRuns(n)
  \/ \E n \in Node : Environment(n)
  \/ Break
  \/ Finished

Fairness == \A n \in Node :
  /\ WF_vars(ReaderRuns(n))
  /\ WF_vars(PumpRuns(n))
  /\ WF_vars(KeepaliveRuns(n))

Spec == Init /\ [][Next]_vars
FairSpec == Spec /\ Fairness

-----------------------------------------------------------------------------
(* Properties *)

\* Every application is given the other one's chunks in order, each once, with
\* nothing invented: the frames of three goroutines interleave on the carrier
\* without disturbing the stream (relay.go, sendFrame under the write mutex).
InOrder == \A n \in Node :
  /\ Len(received[n]) <= sent[Peer(n)]
  /\ \A k \in 1..Len(received[n]) : received[n][k] = k

\* A half-close is passed on, and "closed" is recorded, only behind the last
\* byte the other application wrote before its own end of stream, in spite of
\* breaks, resets and lost tails.
CleanEnd == \A n \in Node :
  /\ outcome[n] = "closed" => peerClosed[n]
  /\ peerClosed[n] => /\ finished[Peer(n)]
                      /\ Len(received[n]) = written[Peer(n)]

\* "Unreachable in practice (every exit path sets one)": relay() never falls
\* back to a default outcome (relay.go, the lines behind wg.Wait).
OutcomeChosen == \A n \in Node : Terminated(n) => outcome[n] # "none"

\* stop() gets every goroutine of its end out of whatever it is parked in.
StopJoins == \A n \in Node : stopped[n] ~> Terminated(n)

\* The end of one side is the end of the other: no session outlives its peer,
\* even with an application that no longer reads.
PeerFollows == \A n \in Node : stopped[n] ~> Terminated(Peer(n))

\* The pump implements the pair of streams it promises.
Pipe == INSTANCE BytePipe WITH
  eof <- peerClosed,
  verdict <- [n \in Node |-> IF outcome[n] = "none" THEN "open"
                             ELSE IF outcome[n] = "closed" THEN "closed"
                             ELSE "failed"]
PipeSpec == Pipe!Spec

\* relay.go:54-56: an HTTP client that finished its request body must still
\* read the response.  Without any failure, an end that is done has been given
\* the whole of its peer's stream.
ResponseSurvives == \A n \in Node :
  Terminated(n) => Len(received[n]) = written[Peer(n)]
-----------------------------------------------------------------------------
(* The inductive invariant behind InOrder, CleanEnd and OutcomeChosen.      *)

\* Chunks the reader of n has taken off the carrier: delivered, or in hand.
Taken(n) == Len(received[n]) + (IF rpc[n] = "data" THEN 1 ELSE 0)

Data(f) == IF f.type = "DATA" THEN 1 ELSE 0

\* The frames w of a stream of which t chunks were taken and s were sent: each
\* frame's pos continues the one before it.
Chain(w, t, s) ==
  /\ t <= s
  /\ w # <<>> => w[1].pos = t + Data(w[1])
  /\ \A k \in 1..(Len(w) - 1) : w[k + 1].pos = w[k].pos + Data(w[k + 1])
  /\ \A k \in 1..Len(w) : w[k].pos <= s

\* ... and no frame at the end of w is missing.
Complete(w, t, s) == IF w = <<>> THEN t = s ELSE w[Len(w)].pos = s

Live(n) == ~stopped[n] /\ ~stopped[Peer(n)] /\ ~broken

CloseOnWire(n) == \E k \in 1..Len(wire[n]) : wire[n][k].type = "CLOSE"

\* n has written its CLOSE: its stream is over.
StreamOver(n) == ppc[n] # "read" /\ finished[n] /\ sent[n] = written[n]

StreamInv(n) ==
  /\ Chain(wire[n], Taken(Peer(n)), sent[n])
  /\ Live(n) => Complete(wire[n], Taken(Peer(n)), sent[n])
  /\ CloseOnWire(n) \/ peerClosed[Peer(n)] => StreamOver(n)
  /\ \A k \in 1..Len(wire[n]) : wire[n][k].type = "CLOSE" => wire[n][k].pos = sent[n]
  /\ peerClosed[Peer(n)] => rpc[Peer(n)] # "data" /\ Len(received[Peer(n)]) = sent[n]

ReaderInv(n) ==
  /\ rpc[n] = "data" => held[n] = Len(received[n]) + 1
  /\ \A k \in 1..Len(received[n]) : received[n][k] = k

EndInv(n) ==
  /\ stopped[n] <=> outcome[n] # "none"
  /\ rpc[n] = "done" => stopped[n]
  /\ outcome[n] = "closed" => peerClosed[n]

IInv == \A n \in Node : StreamInv(n) /\ ReaderInv(n) /\ EndInv(n)
=============================================================================
