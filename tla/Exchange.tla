------------------------------ MODULE Exchange ------------------------------
(***************************************************************************)
(* modee.go, both sides: one windowStream of the relay node over the        *)
(* exit node's ExchangeServer.  The client batches the frames of its        *)
(* goroutines into windows, one POST at a time, and reads frames off the    *)
(* response; an idle session polls.                                         *)
(*                                                                          *)
(* The goroutines of relay() meet in the lock em.  The reader holds it      *)
(* while it waits for a response or for bytes of one; a writer that fills   *)
(* the batch forces an exchange, and waits on exchangeDone while another    *)
(* one's response is not read to its end.                                   *)
(*                                                                          *)
(* A session begins here when the handshake is over: two windows have been  *)
(* answered and the reader has just taken CONNECTED.  Frames are counted,   *)
(* each weighing one unit of the batch.                                     *)
(***************************************************************************)
EXTENDS Integers, Sequences

CONSTANTS
  Id, Mine,     \* the trace id and its session on the exit node
  Handler, None,
  Writer,       \* the relay's pump and keepalive
  FlushAt,      \* exchangeWindowBytes, in frames
  MaxUp,        \* bound: frames the client's goroutines write
  MaxDown,      \* bound: frames down after which the exit starts no other
  MaxSpan, InCap, ByteCap

Thread == Writer \cup {"reader"}

ASSUME ClientAssumption ==
  /\ "reader" \notin Writer
  /\ FlushAt \in Nat \ {0} /\ MaxUp \in Nat /\ MaxDown \in Nat
  /\ MaxSpan \in Nat /\ MaxSpan > 2
  /\ InCap \in Nat \ {0} /\ ByteCap \in Nat \ {0}
  /\ None \notin Thread \cup Handler \cup {Mine}

VARIABLES
  reg, life, trace, nextSpan, inFlight, inbound, inBytes, outbound, taken,
  relaying, rpc, wpc, timer, firing, timedOut, reaped, verdict,
  hpc, req, at, fed,   \* the exit node: see ExchangeServer
  em,          \* the goroutine that holds em, or None
  cpc,         \* cpc[x]: where goroutine x is
  resp,        \* w.resp # nil
  via,         \* the request being served for the current exchange, or None
  reply,       \* its response: "none", "wait", "ok" (headers are out),
               \* "ended", "refused" (404), "cut"
  body,        \* frames of that response the reader has not read
  pending,     \* frames of the batch
  seq,         \* the span of the last window
  hadBody, gotFrame, pollEmpty,  \* curHadBody, curGotFrame, lastPollEmpty
  cclosed,     \* closed is closed
  closing,     \* Close: "no", "wait" (for em), "done"
  accepted,    \* frames writeTunnelMsg took (history)
  pushed,      \* frames the exit parked in its slot (history)
  got          \* frames readTunnelMsg returned (history)

serverVars == <<reg, life, trace, nextSpan, inFlight, inbound, inBytes, outbound,
                taken, relaying, rpc, wpc, timer, firing, timedOut, reaped, verdict,
                hpc, req, at, fed>>
wireVars == <<via, reply, body>>
batchVars == <<pending, seq, accepted>>
pollVars == <<hadBody, gotFrame, pollEmpty>>
closeVars == <<cclosed, closing>>
vars == <<serverVars, em, cpc, resp, wireVars, batchVars, pollVars, closeVars,
          pushed, got>>

Server == INSTANCE ExchangeServer WITH
  Trace <- {Id}, Stream <- {Mine}, MaxSessions <- 1, MaxSize <- MaxUp

Reply == {"none", "wait", "ok", "ended", "refused", "cut"}
Home(x) == IF x = "reader" THEN "read" ELSE "idle"

ClientTypeOK ==
  /\ Server!TypeOK
  /\ em \in Thread \cup {None}
  /\ cpc \in [Thread -> {"read", "gate", "body", "got", "idle", "force",
                         "park", "doing", "over"}]
  /\ \A x \in Thread : cpc[x] \in {"doing", "body"} <=> em = x
  /\ cpc["reader"] \in {"body", "got", "force", "park"} => resp
  /\ resp \in BOOLEAN
  /\ via \in Handler \cup {None}
  /\ reply \in Reply
  /\ body \in Nat
  /\ pending \in 0..MaxUp
  /\ seq \in 2..MaxSpan
  /\ hadBody \in BOOLEAN /\ gotFrame \in BOOLEAN /\ pollEmpty \in BOOLEAN
  /\ cclosed \in BOOLEAN
  /\ closing \in {"no", "wait", "done"}
  /\ accepted \in 0..MaxUp /\ pushed \in Nat /\ got \in Nat

Init ==
  /\ reg = [t \in {Id} |-> Mine]
  /\ life = [s \in {Mine} |-> "open"]
  /\ trace = [s \in {Mine} |-> Id]
  /\ nextSpan = [s \in {Mine} |-> 3]
  /\ inFlight = [s \in {Mine} |-> FALSE]
  /\ inbound = [s \in {Mine} |-> <<>>]
  /\ inBytes = [s \in {Mine} |-> 0]
  /\ outbound = [s \in {Mine} |-> FALSE]
  /\ taken = [s \in {Mine} |-> <<>>]
  /\ relaying = [s \in {Mine} |-> TRUE]
  /\ rpc = [s \in {Mine} |-> "read"]
  /\ wpc = [s \in {Mine} |-> "idle"]
  /\ timer = [s \in {Mine} |-> TRUE]
  /\ firing = [s \in {Mine} |-> FALSE]
  /\ timedOut = [s \in {Mine} |-> FALSE]
  /\ reaped = [s \in {Mine} |-> FALSE]
  /\ verdict = [s \in {Mine} |-> "none"]
  /\ hpc = [h \in Handler |-> "idle"]
  /\ req = [h \in Handler |-> [span |-> 1, size |-> 0]]
  /\ at = [h \in Handler |-> None]
  /\ fed = [h \in Handler |-> 0]
  /\ em = None
  /\ cpc = [x \in Thread |-> Home(x)]
  /\ resp = TRUE
  /\ via = None
  /\ reply = "ended"
  /\ body = 0
  /\ pending = 0
  /\ seq = 2
  /\ hadBody = TRUE /\ gotFrame = TRUE /\ pollEmpty = FALSE
  /\ cclosed = FALSE
  /\ closing = "no"
  /\ accepted = 0 /\ pushed = 0 /\ got = 0

-----------------------------------------------------------------------------
(* Starting an exchange *)

\* Faulty variant: the batch is sent and kept.
StartExchangeKeep(x) ==
  /\ seq < MaxSpan
  /\ seq' = seq + 1
  /\ pending' = pending
  /\ hadBody' = (pending > 0)
  /\ gotFrame' = FALSE
  /\ em' = x
  /\ cpc' = [cpc EXCEPT ![x] = "doing"]
  /\ body' = 0
  /\ IF reg[Id] = None
     THEN via' = None /\ reply' = "refused" /\ UNCHANGED serverVars
     ELSE /\ reply' = "wait"
          /\ \E h \in Handler : via' = h /\ Server!Continue(h, Id, seq + 1, pending)
  /\ UNCHANGED <<resp, accepted, closeVars, pushed, got>>

\* startExchangeLocked: the batch goes out as window seq+1, and x waits for the
\* answer with em in its hands.  No entry for the trace id is a 404 at once.
StartExchange(x) ==
  /\ seq < MaxSpan
  /\ seq' = seq + 1
  /\ pending' = 0
  /\ hadBody' = (pending > 0)
  /\ gotFrame' = FALSE
  /\ em' = x
  /\ cpc' = [cpc EXCEPT ![x] = "doing"]
  /\ body' = 0
  /\ IF reg[Id] = None
     THEN via' = None /\ reply' = "refused" /\ UNCHANGED serverVars
     ELSE /\ reply' = "wait"
          /\ \E h \in Handler : via' = h /\ Server!Continue(h, Id, seq + 1, pending)
  /\ UNCHANGED <<resp, accepted, closeVars, pushed, got>>

\* A goroutine of relay() meets an error: it is done, and stop() closes.
Fail(x) ==
  /\ cpc' = [cpc EXCEPT ![x] = "over"]
  /\ cclosed' = TRUE
  /\ closing' = IF closing = "no" THEN "wait" ELSE closing

Over(x) ==
  /\ cpc' = [cpc EXCEPT ![x] = "over"]
  /\ UNCHANGED <<serverVars, em, resp, wireVars, batchVars, pollVars, closeVars,
                 pushed, got>>

\* client.Do returns with a 200: a writer leaves the response to the reader.
Answered(x) ==
  /\ cpc[x] = "doing" /\ reply \in {"ok", "ended"}
  /\ resp' = TRUE
  /\ IF x = "reader"
     THEN cpc' = [cpc EXCEPT ![x] = "body"] /\ UNCHANGED em
     ELSE cpc' = [cpc EXCEPT ![x] = "idle"] /\ em' = None
  /\ UNCHANGED <<serverVars, wireVars, batchVars, pollVars, closeVars, pushed, got>>

\* ... or fails: another status, no headers in time, or the network at any time.
ExchangeFails(x) ==
  /\ cpc[x] = "doing" /\ reply \notin {"ok", "ended"}
  /\ Fail(x)
  /\ em' = None
  /\ via' = None /\ reply' = "none"
  /\ UNCHANGED <<serverVars, resp, body, batchVars, pollVars, pushed, got>>

-----------------------------------------------------------------------------
(* Writers, and the reader when it answers a PING *)

\* writeTunnelMsg: the frame joins the batch; a full batch forces an exchange.
WriteFrame(x) ==
  /\ cpc[x] \in {"idle", "got"} /\ ~cclosed
  /\ accepted < MaxUp
  /\ accepted' = accepted + 1
  /\ pending' = pending + 1
  /\ cpc' = [cpc EXCEPT ![x] = IF pending + 1 >= FlushAt THEN "force" ELSE Home(x)]
  /\ UNCHANGED <<serverVars, em, resp, wireVars, seq, pollVars, closeVars, pushed, got>>

WriteRefused(x) == cpc[x] \in {"idle", "got"} /\ cclosed /\ Over(x)

\* forceExchange between two windows (never the reader: while it handles a frame
\* there is a response) ...
ForceExchange(x) ==
  /\ cpc[x] = "force" /\ em = None /\ ~cclosed
  /\ ~resp
  /\ StartExchange(x)
  /\ UNCHANGED pollEmpty

\* ... or while a response is being read: park until its end.
Park(x) ==
  /\ cpc[x] = "force" /\ em = None
  /\ resp
  /\ cpc' = [cpc EXCEPT ![x] = "park"]
  /\ UNCHANGED <<serverVars, em, resp, wireVars, batchVars, pollVars, closeVars,
                 pushed, got>>

ForceClosed(x) == cpc[x] = "force" /\ em = None /\ ~resp /\ cclosed /\ Over(x)

\* Faulty variant: a parked writer listens to exchangeDone only.
ParkClosedNever(x) == cpc[x] = "park" /\ cclosed /\ ~resp /\ Over(x)

ParkClosed(x) == cpc[x] = "park" /\ cclosed /\ Over(x)

-----------------------------------------------------------------------------
(* Reader *)

\* readTunnelMsg, top of its loop: the session is over, ...
ReadClosed == cpc["reader"] = "read" /\ em = None /\ cclosed /\ Over("reader")

\* There is something to ask for: a batch, or news after the last poll had some.
PollDue == pending > 0 \/ ~pollEmpty

\* ... or its last poll was empty: one tick of backoff, without em, ...
ReadGate ==
  /\ cpc["reader"] = "read" /\ em = None /\ ~cclosed
  /\ ~resp /\ ~PollDue
  /\ cpc' = [cpc EXCEPT !["reader"] = "gate"]
  /\ UNCHANGED <<serverVars, em, resp, wireVars, batchVars, pollVars, closeVars,
                 pushed, got>>

\* ... or an exchange is due, ...
ReadStart ==
  /\ cpc["reader"] = "read" /\ em = None /\ ~cclosed
  /\ ~resp /\ PollDue
  /\ StartExchange("reader")
  /\ UNCHANGED pollEmpty

\* ... or a response is there to read.
ReadMore ==
  /\ cpc["reader"] = "read" /\ em = None /\ ~cclosed
  /\ resp
  /\ em' = "reader"
  /\ cpc' = [cpc EXCEPT !["reader"] = "body"]
  /\ UNCHANGED <<serverVars, resp, wireVars, batchVars, pollVars, closeVars, pushed, got>>

\* awaitWake: the session's end is the end of the wait ...
GateClosed == cpc["reader"] = "gate" /\ cclosed /\ Over("reader")

\* Faulty variant: the marker survives the wait and the reader waits again.
PollStuck ==
  /\ cpc["reader"] = "gate" /\ em = None
  /\ cpc' = [cpc EXCEPT !["reader"] = "read"]
  /\ UNCHANGED <<serverVars, em, resp, wireVars, batchVars, pollVars, closeVars,
                 pushed, got>>

\* ... and so are a write and the tick: whichever comes, back under em the marker
\* is cleared; a writer may have started an exchange.
Poll ==
  /\ cpc["reader"] = "gate" /\ em = None
  /\ pollEmpty' = FALSE
  /\ \/ ~resp /\ ~cclosed /\ StartExchange("reader")
     \/ /\ ~resp /\ cclosed
        /\ cpc' = [cpc EXCEPT !["reader"] = "over"]
        /\ UNCHANGED <<serverVars, em, resp, wireVars, batchVars, hadBody, gotFrame,
                       closeVars, pushed, got>>
     \/ /\ resp
        /\ em' = "reader"
        /\ cpc' = [cpc EXCEPT !["reader"] = "body"]
        /\ UNCHANGED <<serverVars, resp, wireVars, batchVars, hadBody, gotFrame,
                       closeVars, pushed, got>>

\* A frame of the response.
ReadFrame ==
  /\ cpc["reader"] = "body" /\ body > 0
  /\ body' = body - 1
  /\ got' = got + 1
  /\ gotFrame' = TRUE
  /\ em' = None
  /\ cpc' = [cpc EXCEPT !["reader"] = "got"]
  /\ UNCHANGED <<serverVars, resp, via, reply, batchVars, hadBody, pollEmpty,
                 closeVars, pushed>>

\* Whoever is parked on exchangeDone tries again.
Unpark == [x \in Thread |-> IF cpc[x] = "park" THEN "force" ELSE cpc[x]]

\* The response has ended: close it out and loop.
WindowDone ==
  /\ cpc["reader"] = "body" /\ body = 0 /\ reply = "ended"
  /\ resp' = FALSE
  /\ via' = None /\ reply' = "none"
  /\ pollEmpty' = (~hadBody /\ ~gotFrame)
  /\ hadBody' = FALSE /\ gotFrame' = FALSE
  /\ em' = None
  /\ cpc' = [Unpark EXCEPT !["reader"] = "read"]
  /\ UNCHANGED <<serverVars, body, batchVars, closeVars, pushed, got>>

\* ... or broken.
WindowBroken ==
  /\ cpc["reader"] = "body"
  /\ resp' = FALSE
  /\ via' = None /\ reply' = "none" /\ body' = 0
  /\ pollEmpty' = (~hadBody /\ ~gotFrame)
  /\ hadBody' = FALSE /\ gotFrame' = FALSE
  /\ em' = None
  /\ cpc' = [Unpark EXCEPT !["reader"] = "over"]
  /\ cclosed' = TRUE
  /\ closing' = IF closing = "no" THEN "wait" ELSE closing
  /\ UNCHANGED <<serverVars, batchVars, pushed, got>>

\* The relay's reader has handed the frame on; a PING it answers by WriteFrame.
FrameDone ==
  /\ cpc["reader"] = "got"
  /\ cpc' = [cpc EXCEPT !["reader"] = "read"]
  /\ UNCHANGED <<serverVars, em, resp, wireVars, batchVars, pollVars, closeVars,
                 pushed, got>>

-----------------------------------------------------------------------------
(* Close *)

\* The idle deadline, or stop() for a reason of the local side.
CloseStart ==
  /\ ~cclosed
  /\ cclosed' = TRUE /\ closing' = "wait"
  /\ UNCHANGED <<serverVars, em, cpc, resp, wireVars, batchVars, pollVars, pushed, got>>

\* ... takes em to close the response's body.
CloseEnd ==
  /\ closing = "wait" /\ em = None
  /\ closing' = "done"
  /\ via' = None /\ body' = 0 /\ reply' = IF resp THEN "cut" ELSE reply
  /\ UNCHANGED <<serverVars, em, cpc, resp, batchVars, pollVars, cclosed, pushed, got>>

-----------------------------------------------------------------------------
(* The exit node *)

clientVars == <<em, cpc, resp, via, batchVars, pollVars, closeVars, got>>

\* What the end of request h means to its client: a 404, a response cut short, or
\* one that ended.  A window that failed before its headers ends in an empty 200.
Verdict(h) ==
  IF hpc[h] = "begin" THEN "refused"
  ELSE IF hpc[h] = "ending" /\ reply = "wait" THEN "cut"
  ELSE IF hpc[h] = "failed" /\ reply = "ok" THEN "cut"
  ELSE "ended"

Respond(h) ==
  IF h # via THEN UNCHANGED <<reply, body>>
  ELSE /\ reply' = IF hpc'[h] = "flush" THEN "ok"
                   ELSE IF hpc'[h] = "idle" THEN Verdict(h)
                   ELSE reply
       /\ body' = IF hpc[h] = "flush" /\ hpc'[h] = "flush" THEN body + 1 ELSE body

\* A client that is over and has let go of its last exchange sees nothing more of
\* the exit node, and a closed session has left the registry: what is still to
\* come there is ExchangeServer's matter.
Watched == via # None \/ ~cclosed
Live == life[Mine] # "closed"

HandlerStep(h) ==
  /\ Watched
  /\ Server!HandlerRuns(h) /\ Respond(h)
  /\ UNCHANGED <<clientVars, pushed>>

HandlerBreaks(h) ==
  /\ Watched
  /\ Server!DrainBroken(h) \/ Server!HeadersLost(h) \/ Server!FlushFails(h)
  /\ Respond(h)
  /\ UNCHANGED <<clientVars, pushed>>

Pushed ==
  /\ pushed' = IF outbound'[Mine] /\ ~outbound[Mine] THEN pushed + 1 ELSE pushed
  /\ UNCHANGED <<clientVars, reply, body>>

\* The session behind the channels, as far as a client that keeps to the protocol
\* can tell its steps apart.
SessionStep ==
  /\ Watched /\ Live
  /\ \/ Server!ReadFrame(Mine) \/ Server!Deliver(Mine)
     \/ pushed < MaxDown /\ Server!Owe(Mine)
     \/ Server!Answer(Mine) \/ Server!AnswerClosed(Mine) \/ Server!ReadClosed(Mine)
     \/ Server!EndSession(Mine)
     \/ Server!WriterRuns(Mine)
  /\ Pushed

\* The target's bytes or a tick; the end of the session, by the target's, standing
\* for the other ways to Close.
SessionInput ==
  /\ Watched /\ Live
  /\ \/ pushed < MaxDown /\ Server!WriteStart(Mine)
     \/ Server!WriterStops(Mine)
  /\ Pushed

Unregister == Watched /\ Server!Unregister(Mine) /\ Pushed

-----------------------------------------------------------------------------
(* Specification *)


\* A goroutine on its way through writeTunnelMsg.
SenderRuns(x) == ForceExchange(x) \/ Park(x) \/ ForceClosed(x) \/ ParkClosed(x) \/ Answered(x)

ReaderRuns ==
  \/ Park("reader") \/ ParkClosed("reader") \/ Answered("reader")
  \/ ReadClosed \/ ReadGate \/ ReadStart \/ ReadMore
  \/ GateClosed \/ Poll
  \/ ReadFrame \/ WindowDone \/ FrameDone

\* A refused or broken exchange is noticed, one without headers timed out.
FailureSeen ==
  \/ \E x \in Thread : reply \in {"wait", "refused", "cut"} /\ ExchangeFails(x)
  \/ reply = "cut" /\ WindowBroken

\* The steps that end one side or the other; a session takes few of them.
EndRuns == FailureSeen \/ CloseEnd \/ Unregister

Environment ==
  \/ \E x \in Thread : WriteFrame(x) \/ WriteRefused(x) \/ ExchangeFails(x)
  \/ WindowBroken
  \/ CloseStart
  \/ \E h \in Handler : HandlerBreaks(h)
  \/ SessionInput

Next ==
  \/ ReaderRuns \/ \E x \in Writer : SenderRuns(x)
  \/ EndRuns
  \/ \E h \in Handler : HandlerStep(h)
  \/ SessionStep
  \/ Environment

\* Every goroutine and every connection goes on by itself; frames, faults and the
\* idle deadlines of either side come when they come.
Fairness ==
  /\ WF_vars(ReaderRuns)
  /\ \A x \in Writer : WF_vars(SenderRuns(x))
  /\ WF_vars(EndRuns)
  /\ \A h \in Handler : WF_vars(HandlerStep(h))
  /\ WF_vars(SessionStep)

Spec == Init /\ [][Next]_vars
FairSpec == Spec /\ Fairness

-----------------------------------------------------------------------------
(* Properties *)

Alive == ~cclosed /\ life[Mine] = "open"

\* No frame is lost or doubled between the client's goroutines and the session.  Up,
\* what they wrote is in the batch, in a window, in the exit's queue or taken from it,
\* whichever of force, poll and answer sent it (writeTunnelMsg, startExchangeLocked;
\* drain).  Down, what the exit parked in its slot is there, in the response being
\* read, or read: no response is dropped for the next (flushWindow, readTunnelMsg).
FramesExact ==
  Alive =>
    /\ accepted = pending + (IF via = None THEN 0 ELSE req[via].size - fed[via])
                   + Len(inbound[Mine]) + Len(taken[Mine])
    /\ pushed = got + body + (IF outbound[Mine] THEN 1 ELSE 0)

\* Where a frame is between its two ends: up, in the batch, in what the window has not
\* handed on yet, or queued; down, in the slot or in the response.
UpFlight ==
  pending + (IF via = None THEN 0 ELSE req[via].size - fed[via]) + Len(inbound[Mine])
DownFlight == body + (IF outbound[Mine] THEN 1 ELSE 0)

\* The windows together are one carrier: whatever starts, ends, refuses or cuts short an
\* exchange, a frame is read at the other end once, and lost only with the session, even
\* while one end has closed and the other does not know (windowStream and
\* tunnelExchangeStream, the two ends of tunnelStream in mode E).
Carrier == INSTANCE TunnelStream WITH
  written <- [e \in {"client", "exit"} |-> IF e = "client" THEN accepted ELSE pushed],
  flight <- [e \in {"client", "exit"} |-> IF e = "client" THEN UpFlight ELSE DownFlight],
  read <- [e \in {"client", "exit"} |-> IF e = "client" THEN Len(taken[Mine]) ELSE got],
  over <- ~Alive
CarriesFrames == Carrier!Spec

\* The client never loses a live session to the sequence check: whichever
\* goroutine starts the next window, it is the one beginWindow waits for, and the
\* slot is free again (beginWindow, endWindow; startExchangeLocked).
ConformingAdmitted == reply = "refused" => life[Mine] # "open"

\* The reader never waits for the end of the response it is itself reading
\* ("park on the exchange-completion signal instead of holding em across a round
\* trip the reader needs to finish", modee.go, forceExchange).
ReaderNeverParks == cpc["reader"] # "park"

\* What the exit has to say is fetched from an idle client too: the backoff is a
\* gate and not a terminal state (readTunnelMsg).
PushDelivered ==
  outbound[Mine] /\ Alive
    ~> ~outbound[Mine] \/ ~Alive \/ ~ReaderNeverParks \/ seq = MaxSpan

\* Close returns and releases every goroutine, wherever they wait: for em, for a
\* response, for exchangeDone or for a tick (Close, setReadDeadline).
CloseEnds ==
  cclosed ~> closing = "done" /\ \A x \in Thread : cpc[x] \in {"idle", "over"}
=============================================================================
