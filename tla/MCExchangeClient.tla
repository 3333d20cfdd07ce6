-------------------------- MODULE MCExchangeClient --------------------------
(* Values for model checking Exchange. *)
EXTENDS Exchange
=============================================================================
