------------------------------- MODULE Front --------------------------------
(* The exit node's front: what main arms at start-up (shouldArmTunnel, enableTunnel,   *)
(* operatorKeysFromEnv) and where ServeHTTP sends a request.  What becomes of a tunnel *)
(* request behind the dispatch is Opening and ExchangeServer; what a provider answers  *)
(* is the provider's.  A request is the headers the dispatch looks at.                 *)
EXTENDS Naturals, Sequences

CONSTANTS
  Name,       \* allowlist hosts, "vpn" among them
  KeyList,    \* what VPN_OPERATOR_KEYS may hold: lists of an id and a token
  Token,
  Short,      \* tokens of less than sixteen bytes
  MaxKeys     \* maxOperatorKeys

ASSUME FrontAssumption ==
  /\ "vpn" \in Name /\ Short \subseteq Token /\ MaxKeys \in Nat
  /\ \A l \in KeyList : \A i \in 1..Len(l) : l[i].token \in Token

VARIABLES
  config,  \* the configuration and the environment of the last start
  server   \* the process: refused, or its providers and the keys it armed with

frontVars == <<config, server>>

\* enabled is absent, true or false; garbage is a VPN_OPERATOR_KEYS that is no object.
NodeConfig ==
  [allowHosts : SUBSET Name, enabled : {"absent", "true", "false"}, token : BOOLEAN,
   keys : KeyList, garbage : BOOLEAN, egress : BOOLEAN]

\* auth is "none" without a Bearer scheme.
FrontRequest ==
  [path : {<<>>} \cup {<<n>> : n \in Name} \cup {<<n, "rest">> : n \in Name} \cup {<<"other">>},
   auth : {"none"} \cup Token \cup {"guess"}, post : BOOLEAN,
   upgrade : {"none", "malformed", "v13"}, traceparent : {"absent", "malformed", "valid"}]

NotUp == [up |-> FALSE, providers |-> {}, vpn |-> FALSE, keys |-> {}]
NotConfigured == [allowHosts |-> {}, enabled |-> "absent", token |-> FALSE, keys |-> <<>>,
                  garbage |-> FALSE, egress |-> TRUE]

FrontInit == config = NotConfigured /\ server = NotUp

-----------------------------------------------------------------------------
(* Start-up *)

TokensOf(c) == {c.keys[i].token : i \in 1..Len(c.keys)}

operatorCredentialInEnv(c) == c.token \/ c.garbage \/ c.keys # <<>>

shouldArmTunnel(c) ==
  IF c.enabled = "absent" THEN operatorCredentialInEnv(c) ELSE c.enabled = "true"

\* decodeOperatorKeys and operatorKeysFromEnv: no repeated id, at least one key, no more
\* than the cap, none that is too short.
KeysAccepted(c) ==
  /\ ~c.garbage
  /\ \A i, j \in 1..Len(c.keys) : c.keys[i].id = c.keys[j].id => i = j
  /\ c.keys # <<>> /\ Len(c.keys) <= MaxKeys
  /\ \A i \in 1..Len(c.keys) : c.keys[i].token \notin Short

\* Faulty variant: a provider may carry the reserved name.
TunnelEnabledClash(c) == KeysAccepted(c) /\ c.egress

TunnelEnabled(c) == KeysAccepted(c) /\ "vpn" \notin c.allowHosts /\ c.egress

\* The process refuses to start without a provider, or to arm what it cannot hold.
Started(c) ==
  IF c.allowHosts = {} \/ (shouldArmTunnel(c) /\ ~TunnelEnabled(c)) THEN NotUp
  ELSE [up |-> TRUE, providers |-> c.allowHosts, vpn |-> shouldArmTunnel(c),
        keys |-> IF shouldArmTunnel(c) THEN TokensOf(c) ELSE {}]

\* The operator starts it, and again with another configuration where it refused.
StartExit ==
  /\ ~server.up
  /\ \E c \in NodeConfig :
       /\ config' = c
       /\ server' = Started(c)

FrontNext == StartExit

FrontSpec == FrontInit /\ [][FrontNext]_frontVars

-----------------------------------------------------------------------------
(* Dispatch *)

matchOperatorKey(s, r) == r.auth \in s.keys

isTunnelPath(r) == r.path = <<"vpn">>

\* The credential first, then the shape.
serveTunnel(s, r) ==
  IF ~matchOperatorKey(s, r) THEN "funnel404"
  ELSE IF r.post /\ r.upgrade = "none"
  THEN IF r.traceparent = "absent" THEN "post"
       ELSE IF r.traceparent = "valid" THEN "window" ELSE "funnel404"
  ELSE IF r.upgrade = "v13" THEN "switched" ELSE "funnel404"

ServeHTTP(s, r) ==
  IF s.vpn /\ isTunnelPath(r) THEN serveTunnel(s, r)
  ELSE IF r.path # <<>> /\ r.path[1] \in s.providers THEN r.path[1] ELSE "funnel404"

-----------------------------------------------------------------------------
(* Properties *)

\* A request of the tunnel, with a credential of those the operator listed.
Entitled(r) ==
  /\ isTunnelPath(r)
  /\ r.auth \in TokensOf(config)
  /\ \/ r.upgrade = "v13"
     \/ r.post /\ r.upgrade = "none" /\ r.traceparent # "malformed"

\* Whoever is not entitled cannot tell an armed exit node from one that never heard of
\* the tunnel: every request of theirs is dispatched as that one would (VPN-R2, VPN-R34);
\* and whoever is gets no answer of a provider.
Camouflaged ==
  server.up =>
    \A r \in FrontRequest :
      LET answer == ServeHTTP(server, r)
      IN /\ ~Entitled(r) => answer = ServeHTTP([server EXCEPT !.vpn = FALSE], r)
         /\ Entitled(r) /\ server.vpn => answer \in {"post", "window", "switched"}
=============================================================================
