--------------------------- MODULE ExchangeServer ---------------------------
(***************************************************************************)
(* modee.go, server side: the exit node's half of mode E, where a tunnel    *)
(* session is a sequence of independent HTTP requests ("windows").  A       *)
(* registry maps trace ids to sessions; net/http runs every request in a    *)
(* goroutine of its own (a Handler), so duplicates, stragglers and windows  *)
(* out of sequence meet at the registry, at the sequence slot of the        *)
(* session and at its two channels.  Behind the channels each session has a *)
(* reader (runSession, later the relay's) and a writer (the relay's pump    *)
(* and keepalive), and an AfterFunc timer stands in for the read deadline.  *)
(*                                                                          *)
(* Every request here is authenticated and carries a well-formed            *)
(* traceparent; one that is answered with the camouflage 404 changes        *)
(* nothing.  Every frame weighs one unit of the byte budget.                *)
(***************************************************************************)
EXTENDS Integers, Sequences, FiniteSets

CONSTANTS
  Trace,        \* trace ids that clients use
  Stream,       \* bound: the session objects that may be minted
  Handler,      \* bound: requests being served at once
  None,         \* no stream
  MaxSessions,  \* maxExchangeSessions
  MaxSpan,      \* bound: spans that windows carry
  MaxSize,      \* bound: frames in one window
  InCap,        \* capacity of the inbound channel
  ByteCap       \* inboundWindowCap, in frames

ASSUME ExchangeAssumption ==
  /\ None \notin Stream
  /\ IsFiniteSet(Trace)
  /\ MaxSessions \in Nat \ {0} /\ MaxSpan \in Nat \ {0} /\ MaxSize \in Nat
  /\ InCap \in Nat \ {0} /\ ByteCap \in Nat \ {0}

Span == 1..MaxSpan
\* The k-th of a window's `of` frames.
Frame == [span : Span, k : 1..MaxSize, of : 1..MaxSize]

VARIABLES
  reg,        \* byTrace: the session of each trace id, or None
  life,       \* life[s]: "unborn", "open", "closing" (closed is closed, the
              \* entry not yet deleted), "closed"
  trace,      \* trace[s]: the trace id s was minted for, or None
  nextSpan,   \* nextSpan[s]: the only span beginWindow admits
  inFlight,   \* inFlight[s]: a window is being served
  inbound,    \* inbound[s]: admitted frames
  inBytes,    \* inBytes[s]: frames charged against the cap
  outbound,   \* outbound[s]: the one-frame slot is full
  taken,      \* taken[s]: frames the session has popped (history)
  relaying,   \* relaying[s]: CONNECTED is out, the relay's goroutines run
  rpc,        \* rpc[s]: where the session's reader is
  wpc,        \* wpc[s]: where its writer is
  timer,      \* timer[s]: the read deadline is armed
  firing,     \* firing[s]: its function has begun and not yet closed s
  timedOut,   \* timedOut[s]: the flag that function sets
  reaped,     \* reaped[s]: it was the deadline that closed s (history)
  verdict,    \* verdict[s]: the outcome recorded first
  hpc,        \* hpc[h]: where request h is
  req,        \* req[h]: its span and its number of frames
  at,         \* at[h]: the session accept found, or None
  fed         \* fed[h]: frames of its body admitted so far

stream == <<life, trace, reg>>
slot == <<nextSpan, inFlight>>
queues == <<inbound, inBytes, outbound, taken>>
session == <<relaying, rpc, wpc, timer, firing, timedOut, reaped, verdict>>
handler == <<hpc, req, at, fed>>
vars == <<stream, slot, queues, session, handler>>

Verdict == {"none", "idle-timeout", "peer-disconnected", "other"}
NoRequest == [span |-> 1, size |-> 0]
\* The states of a request that owns its session's slot.
Holding == {"drain", "push", "flush", "ending", "failed"}

TypeOK ==
  /\ reg \in [Trace -> Stream \cup {None}]
  /\ life \in [Stream -> {"unborn", "open", "closing", "closed"}]
  /\ trace \in [Stream -> Trace \cup {None}]
  /\ nextSpan \in [Stream -> 1..(MaxSpan + 1)]
  /\ inFlight \in [Stream -> BOOLEAN]
  /\ inbound \in [Stream -> Seq(Frame)]
  /\ \A s \in Stream : Len(inbound[s]) <= InCap
  /\ inBytes \in [Stream -> Int]
  /\ outbound \in [Stream -> BOOLEAN]
  /\ taken \in [Stream -> Seq(Frame)]
  /\ relaying \in [Stream -> BOOLEAN]
  /\ rpc \in [Stream -> {"read", "popped", "answer", "violate", "over", "done"}]
  /\ wpc \in [Stream -> {"idle", "write", "done"}]
  /\ timer \in [Stream -> BOOLEAN]
  /\ firing \in [Stream -> BOOLEAN]
  /\ timedOut \in [Stream -> BOOLEAN]
  /\ reaped \in [Stream -> BOOLEAN]
  /\ verdict \in [Stream -> Verdict]
  /\ hpc \in [Handler -> {"idle", "begin"} \cup Holding]
  /\ req \in [Handler -> [span : Span, size : 0..MaxSize]]
  /\ at \in [Handler -> Stream \cup {None}]
  /\ fed \in [Handler -> 0..MaxSize]

Init ==
  /\ reg = [t \in Trace |-> None]
  /\ life = [s \in Stream |-> "unborn"]
  /\ trace = [s \in Stream |-> None]
  /\ nextSpan = [s \in Stream |-> 1]
  /\ inFlight = [s \in Stream |-> FALSE]
  /\ inbound = [s \in Stream |-> <<>>]
  /\ inBytes = [s \in Stream |-> 0]
  /\ outbound = [s \in Stream |-> FALSE]
  /\ taken = [s \in Stream |-> <<>>]
  /\ relaying = [s \in Stream |-> FALSE]
  /\ rpc = [s \in Stream |-> "read"]
  /\ wpc = [s \in Stream |-> "idle"]
  /\ timer = [s \in Stream |-> FALSE]
  /\ firing = [s \in Stream |-> FALSE]
  /\ timedOut = [s \in Stream |-> FALSE]
  /\ reaped = [s \in Stream |-> FALSE]
  /\ verdict = [s \in Stream |-> "none"]
  /\ hpc = [h \in Handler |-> "idle"]
  /\ req = [h \in Handler |-> NoRequest]
  /\ at = [h \in Handler |-> None]
  /\ fed = [h \in Handler |-> 0]

-----------------------------------------------------------------------------
(* The end of a session *)

\* Close, up to close(closed): once, by whoever comes first.
CloseStream(s) ==
  IF life[s] = "open"
  THEN /\ life' = [life EXCEPT ![s] = "closing"]
       /\ timer' = [timer EXCEPT ![s] = FALSE]
  ELSE UNCHANGED <<life, timer>>

\* ... and the rest of it, under the registry's lock.  Every caller of Close
\* waits for this step.
Unregister(s) ==
  /\ life[s] = "closing"
  /\ life' = [life EXCEPT ![s] = "closed"]
  /\ reg' = [t \in Trace |-> IF t = trace[s] /\ reg[t] = s THEN None ELSE reg[t]]
  /\ UNCHANGED <<trace, slot, queues, session, handler>>

\* Faulty variant: the old timer is stopped and no new one armed.
ArmNever(s) ==
  /\ timer' = [timer EXCEPT ![s] = FALSE]
  /\ timedOut' = [timedOut EXCEPT ![s] = FALSE]

\* setReadDeadline: Stop the old timer, clear the flag, arm a new one.
Arm(s) ==
  /\ timer' = [timer EXCEPT ![s] = TRUE]
  /\ timedOut' = [timedOut EXCEPT ![s] = FALSE]

\* setOutcome: the first one stays.
Record(s, v) == verdict' = [verdict EXCEPT ![s] = IF @ = "none" THEN v ELSE @]

\* The timer's function: raise the flag ...
TimerFires(s) ==
  /\ timer[s]
  /\ timer' = [timer EXCEPT ![s] = FALSE]
  /\ firing' = [firing EXCEPT ![s] = TRUE]
  /\ timedOut' = [timedOut EXCEPT ![s] = TRUE]
  /\ UNCHANGED <<stream, slot, queues, relaying, rpc, wpc, reaped, verdict, handler>>

\* ... and close.
TimerCloses(s) ==
  /\ firing[s]
  /\ firing' = [firing EXCEPT ![s] = FALSE]
  /\ reaped' = [reaped EXCEPT ![s] = @ \/ life[s] = "open"]
  /\ CloseStream(s)
  /\ UNCHANGED <<reg, trace, slot, queues, relaying, rpc, wpc, timedOut, verdict, handler>>

-----------------------------------------------------------------------------
(* A window, request h *)

Request(h, sp, n) ==
  /\ hpc[h] = "idle"
  /\ hpc' = [hpc EXCEPT ![h] = "begin"]
  /\ req' = [req EXCEPT ![h] = [span |-> sp, size |-> n]]
  /\ UNCHANGED <<fed, slot, queues, relaying, rpc, wpc, firing, reaped, verdict>>

\* accept, an entry exists: the window continues that session.
Continue(h, t, sp, n) ==
  /\ Request(h, sp, n)
  /\ reg[t] # None
  /\ at' = [at EXCEPT ![h] = reg[t]]
  /\ UNCHANGED <<stream, timer, timedOut>>

\* Faulty variant: a repeated first window replaces the live session.
MintAnyway(h, t, sp, n) ==
  /\ Request(h, sp, n)
  /\ sp = 1
  /\ Cardinality({u \in Trace : reg[u] # None}) <= MaxSessions
  /\ \E s \in Stream :
       /\ life[s] = "unborn"
       /\ life' = [life EXCEPT ![s] = "open"]
       /\ trace' = [trace EXCEPT ![s] = t]
       /\ reg' = [reg EXCEPT ![t] = s]
       /\ at' = [at EXCEPT ![h] = s]
       /\ Arm(s)

\* accept, no entry: the first span mints a session and starts runSession.
Mint(h, t, sp, n) ==
  /\ Request(h, sp, n)
  /\ reg[t] = None
  /\ sp = 1
  /\ Cardinality({u \in Trace : reg[u] # None}) < MaxSessions
  /\ \E s \in Stream :
       /\ life[s] = "unborn"
       /\ life' = [life EXCEPT ![s] = "open"]
       /\ trace' = [trace EXCEPT ![s] = t]
       /\ reg' = [reg EXCEPT ![t] = s]
       /\ at' = [at EXCEPT ![h] = s]
       /\ Arm(s)

\* The handler is done with the request.
Forget(h) ==
  /\ hpc' = [hpc EXCEPT ![h] = "idle"]
  /\ req' = [req EXCEPT ![h] = NoRequest]
  /\ at' = [at EXCEPT ![h] = None]
  /\ fed' = [fed EXCEPT ![h] = 0]

\* Faulty variant: any span is admitted while the slot is free.
BeginWindowAnySpan(h) ==
  /\ hpc[h] = "begin"
  /\ ~inFlight[at[h]]
  /\ inFlight' = [inFlight EXCEPT ![at[h]] = TRUE]
  /\ nextSpan' = [nextSpan EXCEPT ![at[h]] = @ + 1]
  /\ hpc' = [hpc EXCEPT ![h] = "drain"]
  /\ UNCHANGED <<stream, queues, session, req, at, fed>>

\* Faulty variant: the next span is admitted while a window is in flight.
BeginWindowOverlap(h) ==
  /\ hpc[h] = "begin"
  /\ req[h].span = nextSpan[at[h]]
  /\ inFlight' = [inFlight EXCEPT ![at[h]] = TRUE]
  /\ nextSpan' = [nextSpan EXCEPT ![at[h]] = @ + 1]
  /\ hpc' = [hpc EXCEPT ![h] = "drain"]
  /\ UNCHANGED <<stream, queues, session, req, at, fed>>

\* beginWindow: the slot is free and the span is the next one.
BeginWindow(h) ==
  /\ hpc[h] = "begin"
  /\ ~inFlight[at[h]] /\ req[h].span = nextSpan[at[h]]
  /\ inFlight' = [inFlight EXCEPT ![at[h]] = TRUE]
  /\ nextSpan' = [nextSpan EXCEPT ![at[h]] = @ + 1]
  /\ hpc' = [hpc EXCEPT ![h] = "drain"]
  /\ UNCHANGED <<stream, queues, session, req, at, fed>>

\* ... or the camouflage 404.
RefuseWindow(h) ==
  /\ hpc[h] = "begin"
  /\ inFlight[at[h]] \/ req[h].span # nextSpan[at[h]]
  /\ Forget(h)
  /\ UNCHANGED <<stream, slot, queues, session>>

windowRest == <<trace, reg, slot, relaying, rpc, wpc, firing, timedOut, reaped,
                verdict, req, at>>

\* The error paths of drain and flushWindow close the session.
Abandon(h) ==
  /\ CloseStream(at[h])
  /\ hpc' = [hpc EXCEPT ![h] = "failed"]

\* drain: a frame is read off the body and charged against the cap.
DrainFrame(h) ==
  /\ hpc[h] = "drain" /\ fed[h] < req[h].size
  /\ inBytes' = [inBytes EXCEPT ![at[h]] = @ + 1]
  /\ IF inBytes[at[h]] + 1 > ByteCap
     THEN Abandon(h)
     ELSE hpc' = [hpc EXCEPT ![h] = "push"] /\ UNCHANGED <<life, timer>>
  /\ UNCHANGED <<inbound, outbound, taken, fed, windowRest>>

\* The select of drain: the frame is admitted, when the queue has room ...
DrainPush(h) ==
  /\ hpc[h] = "push"
  /\ Len(inbound[at[h]]) < InCap
  /\ inbound' = [inbound EXCEPT ![at[h]] =
       Append(@, [span |-> req[h].span, k |-> fed[h] + 1, of |-> req[h].size])]
  /\ fed' = [fed EXCEPT ![h] = @ + 1]
  /\ hpc' = [hpc EXCEPT ![h] = "drain"]
  /\ UNCHANGED <<life, timer, inBytes, outbound, taken, windowRest>>

\* Faulty variant: a plain channel send, deaf to the end of the session.
DrainClosedNever(h) ==
  /\ hpc[h] = "push" /\ life[at[h]] # "open" /\ Len(inbound[at[h]]) < InCap
  /\ inBytes' = [inBytes EXCEPT ![at[h]] = @ - 1]
  /\ Abandon(h)
  /\ UNCHANGED <<inbound, outbound, taken, fed, windowRest>>

\* ... or the session is over.
DrainClosed(h) ==
  /\ hpc[h] = "push" /\ life[at[h]] # "open"
  /\ inBytes' = [inBytes EXCEPT ![at[h]] = @ - 1]
  /\ Abandon(h)
  /\ UNCHANGED <<inbound, outbound, taken, fed, windowRest>>

\* The body breaks off, or holds what is not a frame.
DrainBroken(h) ==
  /\ hpc[h] = "drain"
  /\ Abandon(h)
  /\ UNCHANGED <<queues, fed, windowRest>>

\* The body's end: the response headers go out.
DrainEnd(h) ==
  /\ hpc[h] = "drain" /\ fed[h] = req[h].size
  /\ hpc' = [hpc EXCEPT ![h] = "flush"]
  /\ UNCHANGED <<life, timer, queues, fed, windowRest>>

\* ... or cannot: the handler returns and leaves the session as it is.
HeadersLost(h) ==
  /\ hpc[h] = "drain" /\ fed[h] = req[h].size
  /\ hpc' = [hpc EXCEPT ![h] = "ending"]
  /\ UNCHANGED <<life, timer, queues, fed, windowRest>>

\* flushWindow: what the slot holds goes into the response ...
FlushFrame(h) ==
  /\ hpc[h] = "flush" /\ outbound[at[h]]
  /\ outbound' = [outbound EXCEPT ![at[h]] = FALSE]
  /\ UNCHANGED <<life, timer, inbound, inBytes, taken, hpc, fed, windowRest>>

\* ... unless the client is gone or stopped draining ...
FlushFails(h) ==
  /\ hpc[h] = "flush" /\ outbound[at[h]]
  /\ outbound' = [outbound EXCEPT ![at[h]] = FALSE]
  /\ Abandon(h)
  /\ UNCHANGED <<inbound, inBytes, taken, fed, windowRest>>

\* ... until the slot is empty or the session over.
FlushEnd(h) ==
  /\ hpc[h] = "flush"
  /\ ~outbound[at[h]] \/ life[at[h]] # "open"
  /\ hpc' = [hpc EXCEPT ![h] = "ending"]
  /\ UNCHANGED <<life, timer, queues, fed, windowRest>>

\* Faulty variant: the handler returns without endWindow.
EndWindowNever(h) ==
  /\ hpc[h] = "ending" \/ (hpc[h] = "failed" /\ life[at[h]] = "closed")
  /\ Forget(h)
  /\ UNCHANGED <<stream, slot, queues, session>>

\* The deferred endWindow; after an error, once Close has returned.
EndWindow(h) ==
  /\ hpc[h] = "ending" \/ (hpc[h] = "failed" /\ life[at[h]] = "closed")
  /\ inFlight' = [inFlight EXCEPT ![at[h]] = FALSE]
  /\ Forget(h)
  /\ UNCHANGED <<stream, nextSpan, queues, session>>

-----------------------------------------------------------------------------
(* The session behind the channels: runSession and the relay's reader *)

sessionRest == <<trace, reg, slot, firing, reaped, handler>>

\* readTunnelMsg pops a frame; with the session over as well, select may still
\* choose it.
ReadFrame(s) ==
  /\ life[s] # "unborn" /\ rpc[s] = "read" /\ inbound[s] # <<>>
  /\ taken' = [taken EXCEPT ![s] = Append(@, Head(inbound[s]))]
  /\ inbound' = [inbound EXCEPT ![s] = Tail(@)]
  /\ rpc' = [rpc EXCEPT ![s] = "popped"]
  /\ UNCHANGED <<life, timer, timedOut, inBytes, outbound, relaying, wpc, verdict,
                 sessionRest>>

\* Faulty variant: a popped frame stays on the budget.
AccountedLeak(s) ==
  /\ rpc[s] = "popped"
  /\ UNCHANGED inBytes
  /\ UNCHANGED <<inbound, outbound, taken, relaying, wpc, sessionRest>>

Accounted(s) ==
  /\ rpc[s] = "popped"
  /\ inBytes' = [inBytes EXCEPT ![s] = @ - 1]
  /\ UNCHANGED <<inbound, outbound, taken, relaying, wpc, sessionRest>>

\* The frame is taken off the budget.  DATA and the like: read on ...
Deliver(s) ==
  /\ Accounted(s) /\ relaying[s]
  /\ rpc' = [rpc EXCEPT ![s] = "read"]
  /\ Arm(s)
  /\ UNCHANGED <<life, verdict>>

\* ... HELLO, CONNECT and PING are owed an answer ...
Owe(s) ==
  /\ Accounted(s)
  /\ rpc' = [rpc EXCEPT ![s] = "answer"]
  /\ UNCHANGED <<life, timer, timedOut, verdict>>

\* ... one may be the last: the second half-close, bytes the target refuses, or,
\* in the handshake, a frame out of place ...
Conclude(s) ==
  /\ Accounted(s)
  /\ rpc' = [rpc EXCEPT ![s] = "over"]
  /\ Record(s, "other")
  /\ UNCHANGED <<life, timer, timedOut>>

\* ... and out of place in the relay it is a violation, which is Close ...
Violate(s) ==
  /\ Accounted(s) /\ relaying[s]
  /\ CloseStream(s)
  /\ rpc' = [rpc EXCEPT ![s] = "violate"]
  /\ UNCHANGED <<timedOut, verdict>>

\* ... and only then an outcome.
Violated(s) ==
  /\ rpc[s] = "violate" /\ life[s] = "closed"
  /\ rpc' = [rpc EXCEPT ![s] = "over"]
  /\ Record(s, "other")
  /\ UNCHANGED <<life, timer, timedOut, queues, relaying, wpc, sessionRest>>

\* writeTunnelMsg parks the answer in the slot.  After CONNECTED the relay
\* takes over; after CONNECT_ERR the session is over.
answerRest == <<life, inbound, inBytes, taken, wpc, sessionRest>>

Answer(s) ==
  /\ rpc[s] = "answer" /\ ~outbound[s]
  /\ outbound' = [outbound EXCEPT ![s] = TRUE]
  /\ rpc' = [rpc EXCEPT ![s] = "read"]
  /\ relaying' \in {relaying, [relaying EXCEPT ![s] = TRUE]}
  /\ Arm(s)
  /\ UNCHANGED <<verdict, answerRest>>

AnswerRefused(s) ==
  /\ rpc[s] = "answer" /\ ~outbound[s] /\ ~relaying[s]
  /\ outbound' = [outbound EXCEPT ![s] = TRUE]
  /\ rpc' = [rpc EXCEPT ![s] = "over"]
  /\ Record(s, "other")
  /\ UNCHANGED <<relaying, timer, timedOut, answerRest>>

\* Closed under the answer: the relay calls it a disconnect.
AnswerClosed(s) ==
  /\ rpc[s] = "answer" /\ life[s] # "open"
  /\ rpc' = [rpc EXCEPT ![s] = "over"]
  /\ Record(s, IF relaying[s] THEN "peer-disconnected" ELSE "other")
  /\ UNCHANGED <<relaying, timer, timedOut, outbound, answerRest>>

\* Closed under the read: a timeout if the flag says so.
ReadClosed(s) ==
  /\ rpc[s] = "read" /\ life[s] \in {"closing", "closed"}
  /\ rpc' = [rpc EXCEPT ![s] = "over"]
  /\ Record(s, IF ~relaying[s] THEN "other"
               ELSE IF timedOut[s] THEN "idle-timeout" ELSE "peer-disconnected")
  /\ UNCHANGED <<relaying, timer, timedOut, outbound, answerRest>>

\* The deferred Close of runSession, or stop().
EndSession(s) ==
  /\ rpc[s] = "over"
  /\ CloseStream(s)
  /\ rpc' = [rpc EXCEPT ![s] = "done"]
  /\ UNCHANGED <<relaying, wpc, timedOut, verdict, queues, sessionRest>>

-----------------------------------------------------------------------------
(* The relay's pump and keepalive *)

writerRest == <<relaying, rpc, timedOut, inbound, inBytes, taken, sessionRest>>

\* A chunk from the target, or a tick.
WriteStart(s) ==
  /\ relaying[s] /\ wpc[s] = "idle" /\ rpc[s] # "done"
  /\ wpc' = [wpc EXCEPT ![s] = "write"]
  /\ UNCHANGED <<life, timer, outbound, verdict, writerRest>>

Write(s) ==
  /\ wpc[s] = "write" /\ ~outbound[s]
  /\ outbound' = [outbound EXCEPT ![s] = TRUE]
  /\ wpc' = [wpc EXCEPT ![s] = "idle"]
  /\ UNCHANGED <<life, timer, verdict, writerRest>>

WriteClosed(s) ==
  /\ wpc[s] = "write" /\ life[s] # "open"
  /\ wpc' = [wpc EXCEPT ![s] = "done"]
  /\ Record(s, "peer-disconnected")
  /\ UNCHANGED <<life, timer, outbound, writerRest>>

\* The target's connection ends or breaks: stop().
WriterStops(s) ==
  /\ relaying[s] /\ wpc[s] = "idle" /\ rpc[s] # "done"
  /\ CloseStream(s)
  /\ wpc' = [wpc EXCEPT ![s] = "done"]
  /\ Record(s, "other")
  /\ UNCHANGED <<outbound, writerRest>>

WriterJoins(s) ==
  /\ wpc[s] = "idle" /\ rpc[s] = "done"
  /\ wpc' = [wpc EXCEPT ![s] = "done"]
  /\ UNCHANGED <<life, timer, outbound, verdict, writerRest>>

-----------------------------------------------------------------------------
(* Specification *)

\* What runs by itself once a request is in: its client goes on sending the
\* body or breaks it off.
HandlerRuns(h) ==
  \/ BeginWindow(h) \/ RefuseWindow(h)
  \/ DrainFrame(h) \/ DrainPush(h) \/ DrainClosed(h) \/ DrainEnd(h)
  \/ FlushFrame(h) \/ FlushEnd(h) \/ EndWindow(h)

ReaderRuns(s) ==
  \/ ReadFrame(s) \/ Deliver(s) \/ Owe(s) \/ Conclude(s)
  \/ Violate(s) \/ Violated(s)
  \/ Answer(s) \/ AnswerRefused(s) \/ AnswerClosed(s) \/ ReadClosed(s)
  \/ EndSession(s)

WriterRuns(s) == Write(s) \/ WriteClosed(s) \/ WriterJoins(s)

TimerRuns(s) == TimerFires(s) \/ TimerCloses(s)

Next ==
  \/ \E h \in Handler, t \in Trace, sp \in Span, n \in 0..MaxSize :
       Continue(h, t, sp, n) \/ Mint(h, t, sp, n)
  \/ \E h \in Handler :
       HandlerRuns(h) \/ DrainBroken(h) \/ HeadersLost(h) \/ FlushFails(h)
  \/ \E s \in Stream :
       \/ ReaderRuns(s) \/ WriterRuns(s) \/ TimerRuns(s) \/ Unregister(s)
       \/ WriteStart(s) \/ WriterStops(s)

Fairness ==
  /\ \A h \in Handler : WF_vars(HandlerRuns(h))
  /\ \A s \in Stream : /\ WF_vars(ReaderRuns(s)) /\ WF_vars(WriterRuns(s))
                       /\ WF_vars(TimerRuns(s)) /\ WF_vars(Unregister(s))

Spec == Init /\ [][Next]_vars
FairSpec == Spec /\ Fairness

-----------------------------------------------------------------------------
(* Properties *)

\* The registry never holds a session twice, never loses or replaces a live one
\* and never keeps a dead one, and never grows beyond its bound ("never evicts a
\* live session", modee.go, maxExchangeSessions; accept, Close).
RegistryExact ==
  /\ \A s \in Stream :
       /\ life[s] \in {"open", "closing"} => reg[trace[s]] = s
       /\ \A t \in Trace : reg[t] = s => trace[s] = t /\ life[s] \in {"open", "closing"}
  /\ Cardinality({t \in Trace : reg[t] # None}) <= MaxSessions

\* The slot is taken exactly while one request is between beginWindow and
\* endWindow: two windows of a session never write responses at once, however
\* clients and intermediaries repeat and overlap requests.
SlotHeld == \A s \in Stream :
  /\ \A g, h \in Handler :
       at[g] = s /\ at[h] = s /\ hpc[g] \in Holding /\ hpc[h] \in Holding => g = h
  /\ inFlight[s] <=> \E h \in Handler : at[h] = s /\ hpc[h] \in Holding

\* b may follow a in what the session is given: the next frame of the window, or
\* the first of a later one; a window is left incomplete only by a session that
\* is over.
Follows(s, a, b) ==
  IF b.span = a.span
  THEN b.k = a.k + 1 /\ b.of = a.of
  ELSE b.span > a.span /\ b.k = 1 /\ (life[s] = "open" => a.k = a.of)

\* The session sees every window once, whole and in span order.
WindowOrder == \A s \in Stream :
  LET log == taken[s] \o inbound[s] IN
  /\ log # <<>> => log[1].k = 1
  /\ \A i \in 1..(Len(log) - 1) : Follows(s, log[i], log[i + 1])

\* The byte budget is exact while the session lives: what is queued, in a
\* handler's hand or popped and not yet taken off.  Nothing is charged twice and
\* nothing leaks.
BudgetExact == \A s \in Stream :
  life[s] = "open" =>
    inBytes[s] = Len(inbound[s])
                 + (IF rpc[s] = "popped" THEN 1 ELSE 0)
                 + Cardinality({h \in Handler : at[h] = s /\ hpc[h] = "push"})

\* Every request is answered, even when queue, slot and session block each other
\* in a ring: the deadline breaks it.
WindowEnds == \A h \in Handler : hpc[h] # "idle" ~> hpc[h] = "idle"

\* "runSession always reaches its deferred Close", so every entry is removed and
\* the registry needs no janitor (modee.go, exchangeSessions).
SessionReaped == \A s \in Stream : life[s] = "open" ~> life[s] = "closed"

\* The deadline reaches a session without a socket "through Close"
\* (modee.go:705-708), as on the other carriers that "mirror" it: a read past its
\* window "tears the session down and reports the idle timeout it was"
\* (modec.go:130-131, modee.go:164-165).  So once the deadline has closed a
\* running relay, a lost peer is not what gets recorded.
ReapReported == [][\A s \in Stream :
  reaped[s] /\ timedOut[s] /\ relaying[s] /\ verdict[s] = "none"
    => verdict'[s] # "peer-disconnected"]_vars
-----------------------------------------------------------------------------
(* What the proofs of SlotHeld and RegistryExact rest on besides.           *)

\* A frame in hand is one of its window's.
FedBehind == \A h \in Handler : hpc[h] = "push" => fed[h] < req[h].size

\* A live session was minted for some trace id.
EntryTraced == \A s \in Stream : life[s] \in {"open", "closing"} => trace[s] \in Trace
=============================================================================
