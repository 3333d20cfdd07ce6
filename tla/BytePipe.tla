------------------------------ MODULE BytePipe ------------------------------
(***************************************************************************)
(* What one established tunnel session promises the two applications at    *)
(* its ends, whatever carrier (WebSocket, one HTTP exchange, or a sequence  *)
(* of them) moves the frames: a pair of independent byte streams.  Each     *)
(* stream is delivered in order and without loss up to the point where the  *)
(* session stops; an orderly end of stream is announced only behind the     *)
(* last byte; and an end may call the session "closed" only when both       *)
(* streams have ended (relay.go, the outcome vocabulary; docs/d073,         *)
(* VPN-R18 and VPN-R19).                                                    *)
(***************************************************************************)
EXTENDS Naturals, Sequences

CONSTANT MaxChunk   \* bound: chunks the application at each end writes

Node == {"relay", "exit"}
Peer(n) == IF n = "relay" THEN "exit" ELSE "relay"

VARIABLES
  written,    \* written[n]: chunks the application at n has written so far
  finished,   \* finished[n]: that application has shut its write side
  received,   \* received[n]: the chunks the application at n was given
  eof,        \* eof[n]: the application at n was told the stream has ended
  verdict     \* verdict[n]: "open", "closed" or "failed"

vars == <<written, finished, received, eof, verdict>>

Init ==
  /\ written = [n \in Node |-> 0]
  /\ finished = [n \in Node |-> FALSE]
  /\ received = [n \in Node |-> <<>>]
  /\ eof = [n \in Node |-> FALSE]
  /\ verdict = [n \in Node |-> "open"]

Write(n) ==
  /\ ~finished[n]
  /\ written[n] < MaxChunk[n]
  /\ written' = [written EXCEPT ![n] = @ + 1]
  /\ UNCHANGED <<finished, received, eof, verdict>>

Shutdown(n) ==
  /\ ~finished[n]
  /\ finished' = [finished EXCEPT ![n] = TRUE]
  /\ UNCHANGED <<written, received, eof, verdict>>

\* The next chunk of the peer's stream, and no other, reaches the application.
Deliver(n) ==
  /\ verdict[n] = "open"
  /\ ~eof[n]
  /\ Len(received[n]) < written[Peer(n)]
  /\ received' = [received EXCEPT ![n] = Append(@, Len(@) + 1)]
  /\ UNCHANGED <<written, finished, eof, verdict>>

\* End of stream follows the last chunk.
EndOfStream(n) ==
  /\ ~eof[n]
  /\ finished[Peer(n)]
  /\ Len(received[n]) = written[Peer(n)]
  /\ eof' = [eof EXCEPT ![n] = TRUE]
  /\ UNCHANGED <<written, finished, received, verdict>>

Close(n) ==
  /\ verdict[n] = "open"
  /\ eof[n]
  /\ finished[n]
  /\ verdict' = [verdict EXCEPT ![n] = "closed"]
  /\ UNCHANGED <<written, finished, received, eof>>

Fail(n) ==
  /\ verdict[n] = "open"
  /\ verdict' = [verdict EXCEPT ![n] = "failed"]
  /\ UNCHANGED <<written, finished, received, eof>>

Next == \E n \in Node :
  \/ Write(n) \/ Shutdown(n) \/ Deliver(n)
  \/ EndOfStream(n) \/ Close(n) \/ Fail(n)

Spec == Init /\ [][Next]_vars
=============================================================================
