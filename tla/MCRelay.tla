------------------------------ MODULE MCRelay -------------------------------
(* Values for model checking Relay. *)
EXTENDS Relay

\* One kind of failure per behaviour.  The write deadline is on with all but the
\* break: every carrier has one, and without it two ends that each owe a PONG to
\* a full carrier wait for each other for ever.
OneFault == {{"stall", f} : f \in {"local", "idle", "stray"}}
              \cup {{"break", "tail"}}
SlowOrBroken == {{"stall"}, {"break"}}
NoFault == {{}}

Both == [n \in Node |-> 1]
TargetOnly == [n \in Node |-> IF n = "exit" THEN 1 ELSE 0]
=============================================================================
