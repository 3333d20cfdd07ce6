----------------------------- MODULE RouteProbe -----------------------------
(***************************************************************************)
(* coding-agent/route-probe.mjs, catalog-facts.mjs and                      *)
(* refresh-models-dev.mjs on the network: a generator walks the candidates  *)
(* of a provider's route, of a catalog or of a relayed document, one after  *)
(* another, and takes the first that delivers.  Every request may be         *)
(* answered by anyone in any way, or not at all.                            *)
(***************************************************************************)
EXTENDS Routes, FiniteSets

CONSTANTS
  Environment,  \* bound: what REVERSE_PROXY_BASE_URLS may hold
  Override,     \* bound: what MODELS_DEV_RELAY_URL may hold
  Answer,       \* bound: answers: [status (Nothing is none), json, rows (Nothing is no list)]
  Stripped,     \* a name without its models/ prefix, Nothing if nothing is left
  Wanted,       \* the ids a catalog must serve one of (accept)
  Required,     \* REQUIRED_PROVIDERS
  MIN_PROVIDERS,
  MaxJobs       \* bound: probes of a run

ASSUME ProbeAssumption ==
  /\ Nothing \notin Answer /\ Nothing # 200
  /\ \A e \in Environment : e \in Seq({e[i] : i \in DOMAIN e})

Cache == {"provider", "catwalk"}
Kind == {"routes", "candidates", "catalog"} \cup Cache

VARIABLES
  env, tlsOff,   \* the environment of the run
  ppc,           \* "idle", "next", "asked", "again"
  job,           \* what is probed: its kind, the provider, the candidates
  cand,          \* the candidate
  heard,         \* heard[i]: what candidate i last answered, or Nothing (history)
  wire,          \* the URLs a request was sent to (history)
  outcome,       \* the candidate that won and what it yields; lost where none did
  facts,         \* the two facts caches
  catalog,       \* the models.dev catalog
  probes
probeVars == <<env, tlsOff, ppc, job, cand, heard, wire, outcome, facts, catalog, probes>>

NoJob == [kind |-> "routes", provider |-> Nothing, urls |-> <<>>]
Lost == [won |-> 0, result |-> "none", entries |-> {}]

ProbeInit ==
  /\ env \in Environment /\ tlsOff \in BOOLEAN
  /\ ppc = "idle" /\ job = NoJob /\ cand = 0 /\ heard = <<>> /\ wire = {}
  /\ outcome = Lost
  /\ facts = [c \in Cache |-> {"committed"}] /\ catalog = {"committed"}
  /\ probes = 0

Candidates(kind, id, override) ==
  LET bases == reverseProxyBaseUrls(env)
  IN CASE kind = "routes" -> [i \in DOMAIN bases |-> providerRouteUrl(bases[i], id)]
       [] kind = "candidates" -> [i \in DOMAIN bases |-> URL(bases[i], Nothing, <<>>)]
       [] kind = "provider" -> relayCandidates(Upstream[id].host, env, Unset)
       [] kind = "catwalk" -> relayCandidates("catwalk.charm.land", env, Unset)
       [] OTHER -> relayCandidates("models.dev", env, override)

ProbeBegins ==
  /\ ppc = "idle" /\ probes < MaxJobs
  /\ \E kind \in Kind, id \in DOMAIN Upstream, override \in Override :
       LET urls == Candidates(kind, id, override)
       IN /\ job' = [kind |-> kind, provider |-> id, urls |-> urls]
          /\ heard' = [i \in DOMAIN urls |-> Nothing]
  /\ ppc' = "next" /\ cand' = 1 /\ wire' = {} /\ outcome' = Lost /\ probes' = probes + 1
  /\ UNCHANGED <<env, tlsOff, facts, catalog>>

tlsUnverifiable(url) == tlsOff /\ url.under.scheme = "https"

\* The base decides; fetchCatalog of refresh-models-dev.mjs does not ask.
Refused(url) == job.kind # "catalog" /\ tlsUnverifiable(url)

Exhausted ==
  /\ ppc = "next" /\ cand > Len(job.urls)
  /\ ppc' = "idle"
  /\ UNCHANGED <<env, tlsOff, job, cand, heard, wire, outcome, facts, catalog, probes>>

SkipUnverifiable ==
  /\ ppc = "next" /\ cand <= Len(job.urls) /\ Refused(job.urls[cand])
  /\ cand' = cand + 1
  /\ UNCHANGED <<env, tlsOff, ppc, job, heard, wire, outcome, facts, catalog, probes>>

Ask ==
  /\ ppc = "next" /\ cand <= Len(job.urls) /\ ~Refused(job.urls[cand])
  /\ ppc' = "asked"
  /\ wire' = wire \cup {job.urls[cand]}
  /\ UNCHANGED <<env, tlsOff, job, cand, heard, outcome, facts, catalog, probes>>

Ok(a) == a.status = 200

\* A listing at /models has a second place to be, /v1/models.
EndsV1(url) == url.path # <<>> /\ Last(url.path).text = "v1"

AskAgain(a) ==
  /\ ppc = "asked" /\ job.kind \in {"routes", "candidates"}
  /\ a.status = 404 /\ ~EndsV1(job.urls[cand])
  /\ ppc' = "again"
  /\ UNCHANGED <<env, tlsOff, job, cand, heard, wire, outcome, facts, catalog, probes>>

\* fetchModelEntries: the ids of the rows, a name standing in for a missing one.
Listed(rows) ==
  {IF r.id # Nothing THEN r.id ELSE IF r.name = Nothing THEN Nothing ELSE Stripped[r.name] : r \in rows} \ {Nothing}

AUTH_REJECTED_STATUSES == {401, 403}
DEAD_ROUTE_STATUSES == {404, 502, 504}

\* Faulty variant: only the proxy's own failures are dead routes.
probeRouteLoose(a) ==
  IF Ok(a) /\ a.rows # Nothing THEN [usable |-> TRUE, result |-> "ok", entries |-> Listed(a.rows)]
  ELSE IF Ok(a) \/ a.status \in {Nothing, 502, 504}
  THEN [usable |-> FALSE, result |-> "unreachable", entries |-> {}]
  ELSE [usable |-> TRUE, entries |-> {},
        result |-> IF a.status \in AUTH_REJECTED_STATUSES THEN "auth" ELSE "reachable"]

\* An answer without a status and an ok one without a list end alike.
probeRoute(a) ==
  IF Ok(a) /\ a.rows # Nothing THEN [usable |-> TRUE, result |-> "ok", entries |-> Listed(a.rows)]
  ELSE IF Ok(a) \/ a.status = Nothing \/ a.status \in DEAD_ROUTE_STATUSES
  THEN [usable |-> FALSE, result |-> "unreachable", entries |-> {}]
  ELSE [usable |-> TRUE, entries |-> {},
        result |-> IF a.status \in AUTH_REJECTED_STATUSES THEN "auth" ELSE "reachable"]

probeCandidate(a) ==
  LET ids == IF Ok(a) /\ a.rows # Nothing THEN Listed(a.rows) ELSE {}
  IN [usable |-> ids \cap Wanted # {}, result |-> "ok", entries |-> ids]

\* The first answer that is ok ends the walk, whatever it holds; relayFetch, unlike
\* fetchCatalog, parses it first.
relayFetch(a) ==
  [usable |-> Ok(a) /\ (a.json \/ job.kind = "catalog"), result |-> "ok",
   entries |-> IF Ok(a) /\ a.rows # Nothing THEN {r.id : r \in a.rows} ELSE {}]

Judged(a) ==
  CASE job.kind = "routes" -> probeRoute(a)
    [] job.kind = "candidates" -> probeCandidate(a)
    [] OTHER -> relayFetch(a)

\* refreshProviderFacts and refreshCatwalkFacts: a list with a record, if the cache can
\* be written; else the last good copy stays.
factsRefreshed(verdict) ==
  IF job.kind \in Cache /\ verdict.usable /\ verdict.entries # {}
  THEN facts' \in {facts, [facts EXCEPT ![job.kind] = verdict.entries]} ELSE UNCHANGED facts

\* main of refresh-models-dev.mjs.
catalogRefreshed(verdict) ==
  IF /\ job.kind = "catalog" /\ verdict.usable
     /\ Required \subseteq verdict.entries /\ Cardinality(verdict.entries) >= MIN_PROVIDERS
  THEN catalog' = verdict.entries ELSE UNCHANGED catalog

Answered(a) ==
  /\ \/ ppc = "again"
     \/ /\ ppc = "asked"
        /\ ~(a.status = 404 /\ job.kind \in {"routes", "candidates"} /\ ~EndsV1(job.urls[cand]))
  /\ heard' = [heard EXCEPT ![cand] = a]
  /\ LET verdict == Judged(a)
     IN /\ IF verdict.usable
           THEN /\ ppc' = "idle" /\ UNCHANGED cand
                /\ outcome' = [won |-> cand, result |-> verdict.result, entries |-> verdict.entries]
           ELSE ppc' = "next" /\ cand' = cand + 1 /\ UNCHANGED outcome
        /\ factsRefreshed(verdict)
        /\ catalogRefreshed(verdict)
  /\ UNCHANGED <<env, tlsOff, job, wire, probes>>

ProbeNext ==
  \/ ProbeBegins \/ Exhausted \/ SkipUnverifiable \/ Ask
  \/ \E a \in Answer : AskAgain(a) \/ Answered(a)

ProbeSpec == ProbeInit /\ [][ProbeNext]_probeVars
-----------------------------------------------------------------------------
\* What a candidate's last answer shows of it: the listing, or that the provider is there.
Delivered(a) ==
  /\ a # Nothing /\ a.status # Nothing
  /\ CASE job.kind = "routes" ->
            a.status \notin {404, 502, 504} /\ (a.status = 200 => a.rows # Nothing)
       [] job.kind = "candidates" -> a.status = 200 /\ a.rows # Nothing
       [] job.kind \in Cache -> a.status = 200 /\ a.json
       [] OTHER -> a.status = 200

\* A probe takes the first candidate that delivered and stops there, and yields a listing
\* only from an ok answer; no probe sends a request, or the bearer in it, to an https base
\* while certificates are not verified; and neither cache is ever replaced by an empty
\* list, an error page or a catalog without the providers the generators read ("keeping
\* last good cache").
RouteTrusted ==
  /\ outcome.won # 0 =>
       /\ Delivered(heard[outcome.won])
       /\ outcome.entries # {} => Ok(heard[outcome.won])
       /\ \A j \in 1..Len(heard) :
            /\ j > outcome.won => heard[j] = Nothing
            /\ j < outcome.won /\ Delivered(heard[j]) =>
                 job.kind = "candidates" /\ Listed(heard[j].rows) \cap Wanted = {}
  /\ tlsOff /\ job.kind # "catalog" => \A url \in wire : url.under.scheme = "http"
  /\ \A c \in Cache : facts[c] # {}
  /\ catalog = {"committed"} \/ Required \subseteq catalog
=============================================================================
