------------------------------- MODULE Routes -------------------------------
(***************************************************************************)
(* coding-agent/route-probe.mjs and check-routed-artifacts.mjs without the *)
(* network: the reverse-proxy bases, the client routes under them, and the *)
(* two forms, canonical and routed, in which an artifact carries the URLs  *)
(* of its providers.                                                       *)
(***************************************************************************)
EXTENDS Naturals, Sequences, SequencesExt

CONSTANTS
  Nothing,
  Unset,       \* a variable that is not in the environment
  Upstream,    \* PROVIDER_BASE_URLS: provider id to its canonical URL
  FactId       \* OPENCODE_PROVIDER_FACT_IDS: artifact id to provider id

\* A configured entry is Nothing (blank) or [scheme, host]; "degenerate" is the scheme of
\* "https:/", which parsing alone would accept.  A URL is the base it is under (Nothing for
\* none), a host and a path; a path is cut where one string can end inside another, a
\* piece of a segment being marked by joined.
URL(under, host, path) == [under |-> under, host |-> host, path |-> path]
Seg(s) == [text |-> s, joined |-> FALSE]
Joined(s) == [text |-> s, joined |-> TRUE]
Path == Seq([text : STRING, joined : BOOLEAN])

ASSUME RouteAssumption == \A id \in DOMAIN Upstream : Upstream[id].path \in Path

isUsableProxyBase(e) == e.scheme \in {"http", "https"} /\ e.host # Nothing

\* The entries that can be used, in their order: usable[i] is those of the first i.
reverseProxyBaseUrls(env) ==
  LET usable[i \in 0..Len(env)] ==
        IF i = 0 THEN <<>>
        ELSE IF env[i] # Nothing /\ isUsableProxyBase(env[i]) THEN Append(usable[i - 1], env[i])
        ELSE usable[i - 1]
  IN usable[Len(env)]

\* Nothing where it throws.
reverseProxyBaseUrl(env) ==
  IF reverseProxyBaseUrls(env) = <<>> THEN Nothing ELSE reverseProxyBaseUrls(env)[1]

providerRouteUrl(base, id) == URL(base, Upstream[id].host, Upstream[id].path)

\* An override is Unset, Nothing (set and empty) or an entry.
relayCandidates(host, env, override) ==
  IF override # Unset
  THEN IF override # Nothing /\ isUsableProxyBase(override)
       THEN <<URL(override, Nothing, <<>>)>> ELSE <<>>
  ELSE LET bases == reverseProxyBaseUrls(env)
       IN [i \in DOMAIN bases |-> URL(bases[i], host, <<>>)]

StartsWith(url, up) == url.under = Nothing /\ url.host = up.host /\ IsPrefix(up.path, url.path)

\* Nothing where it throws: no row, under the base already, or not the row's upstream.
routeUrlFromCanonical(base, id, url) ==
  IF id \notin DOMAIN Upstream THEN Nothing
  ELSE IF url.under = base \/ ~StartsWith(url, Upstream[id]) THEN Nothing
  ELSE LET suffix == SubSeq(url.path, Len(Upstream[id].path) + 1, Len(url.path))
           route == providerRouteUrl(base, id)
       IN [route EXCEPT !.path = @ \o suffix]

-----------------------------------------------------------------------------
(* Documents: artifact id to URL, Nothing for a provider without one. *)
Fact(id) == IF id \in DOMAIN FactId THEN FactId[id] ELSE id

\* The values that the rewrite maps to Nothing are those it throws on.
rewriteProviderUrls(doc, base) ==
  [id \in DOMAIN doc |->
     IF doc[id] = Nothing THEN [throws |-> FALSE, url |-> Nothing]
     ELSE LET url == routeUrlFromCanonical(base, Fact(id), doc[id])
          IN [throws |-> url = Nothing, url |-> url]]

installedViolations(doc, base) == {id \in DOMAIN doc : doc[id] # Nothing /\ doc[id].under # base}

committedViolations(doc) ==
  {id \in DOMAIN doc :
     /\ doc[id] # Nothing
     /\ \/ Fact(id) \notin DOMAIN Upstream
        \/ ~StartsWith(doc[id], Upstream[Fact(id)])
        \/ LET n == Len(Upstream[Fact(id)].path)
           IN Len(doc[id].path) > n /\ doc[id].path[n + 1].joined}

\* installRouted: the routed document, or Nothing where it throws.
installRouted(doc, base) ==
  LET mapped == rewriteProviderUrls(doc, base)
      routed == [id \in DOMAIN doc |-> mapped[id].url]
  IN IF \E id \in DOMAIN doc : mapped[id].throws THEN Nothing
     ELSE IF installedViolations(routed, base) # {} THEN Nothing ELSE routed
=============================================================================
