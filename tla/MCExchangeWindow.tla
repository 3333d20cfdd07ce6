-------------------------- MODULE MCExchangeWindow --------------------------
(* Two families of runs of ExchangeServer in one search, told apart by tag:   *)
(* "registry", trace ids that compete for entries with windows without        *)
(* frames, and "window", one session with overlapping and repeated windows.   *)
EXTENDS ExchangeServer, TLC

CONSTANTS theTrace, theStream   \* those of the "window" family

VARIABLE tag

MCInit == Init /\ tag \in {"registry", "window"}
OneSession ==
  /\ \A t \in Trace \ {theTrace} : reg'[t] = None
  /\ \A s \in Stream \ {theStream} : life'[s] = "unborn"
Without == \A h \in Handler : req'[h].size = 0
MCNext ==
  /\ Next
  /\ IF tag = "registry" THEN Without ELSE OneSession
  /\ UNCHANGED tag
MCSpec == MCInit /\ [][MCNext]_<<vars, tag>>

Symmetry == Permutations(Handler)
=============================================================================
