----------------------------- MODULE MCOpening ------------------------------
(* Values for Opening, and the ring of one window and its session (ExchangeServer) *)
(* beside it.  They share no state here: one runs while the other rests.           *)
EXTENDS Opening, ExchangeServer

CONSTANTS public, private, opted

Asks(front, form, port) == [front |-> front, form |-> form, port |-> port]
MCAsked ==
  {Asks("http", form, 443) : form \in {"name", "literal", "malformed"}}
  \cup {Asks("http", "name", 22)}
  \cup {Asks("socks", form, 443) : form \in {"name", "literal", "malformed"} \cup BadSocks}

OpeningRests == node = "idle"
ExchangeRests == \A s \in Stream : life[s] = "unborn"

MCInit == OpeningInit /\ Init
MCNext ==
  \/ OpeningNext /\ ExchangeRests /\ UNCHANGED vars
  \/ Next /\ OpeningRests /\ UNCHANGED openingVars
MCSpec == MCInit /\ [][MCNext]_<<openingVars, vars>> /\ OpeningFairness /\ Fairness
=============================================================================
