---------------------------- MODULE TunnelStream ----------------------------
(***************************************************************************)
(* What a session asks of the carrier below it, whichever mode that is (the *)
(* interface tunnelStream): a frame written at one end is read at the other *)
(* once or, when the carrier is over, perhaps never.  The order of frames   *)
(* is BytePipe's and WindowOrder's matter; here they are counted.           *)
(***************************************************************************)
EXTENDS Naturals

End == {"client", "exit"}

VARIABLES
  written,   \* written[e]: frames that end e has written
  flight,    \* flight[e]: those of them that are under way
  read,      \* read[e]: those of them that the other end has read
  over       \* one of the ends has closed the carrier, or it broke

vars == <<written, flight, read, over>>

Init ==
  /\ written = [e \in End |-> 0]
  /\ flight = [e \in End |-> 0]
  /\ read = [e \in End |-> 0]
  /\ over = FALSE

\* An end that has not heard of the other one's close goes on writing.
writeTunnelMsg(e) ==
  /\ written' = [written EXCEPT ![e] = @ + 1]
  /\ flight' = [flight EXCEPT ![e] = @ + 1]
  /\ UNCHANGED <<read, over>>

\* What has arrived is read before the end is noticed.
readTunnelMsg(e) ==
  /\ flight[e] > 0
  /\ flight' = [flight EXCEPT ![e] = @ - 1]
  /\ read' = [read EXCEPT ![e] = @ + 1]
  /\ UNCHANGED <<written, over>>

\* Frames get lost with the carrier, and only then.
Close ==
  /\ over' = TRUE
  /\ \E up \in 0..flight["client"], down \in 0..flight["exit"] :
       flight' = [e \in End |-> IF e = "client" THEN up ELSE down]
  /\ UNCHANGED <<written, read>>

Next == Close \/ \E e \in End : writeTunnelMsg(e) \/ readTunnelMsg(e)

Spec == Init /\ [][Next]_vars
=============================================================================
