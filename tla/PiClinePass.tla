------------------------------ MODULE PiClinePass ------------------------------
(***************************************************************************)
(* pi-cline-pass: the lineup comes from two published sources, the table of *)
(* Cline's docs and the cline-pass slice of models.dev (sources.mjs), and   *)
(* is shaped like the others' (merge.mjs).  A slice maps keys to records.    *)
(* Rows, levels and Nil as in PiHyper; modalities are sets.                 *)
(***************************************************************************)
EXTENDS Naturals, FiniteSets

CONSTANTS
  Nil,
  Prefixed,   \* the ids in the namespace the subscription bills under
  Embedding,  \* the ids that contain the word
  LINEUP      \* CLINE_PASS_LINEUP: the committed fallback

PI_THINKING_LEVELS == {"off", "minimal", "low", "medium", "high", "xhigh", "max"}
EFFORT_TO_PI(level) == IF level = "off" THEN "none" ELSE level

\* CLINE_PASS_COMPAT: for the provider in models.json, for every model where it is
\* registered.
COMPAT == [supportsDeveloperRole |-> FALSE]

\* The values of every effort option; options of another type do not count.
effortValues(record) ==
  LET values == UNION {o.values : o \in {p \in record.reasoning_options : p.type = "effort"}}
  IN IF values = {} THEN Nil ELSE values

thinkingLevelMapFor(efforts) ==
  IF efforts = Nil THEN Nil
  ELSE [l \in PI_THINKING_LEVELS |->
          IF EFFORT_TO_PI(l) \in efforts THEN EFFORT_TO_PI(l) ELSE Nil]

ZeroCost == [input |-> 0, output |-> 0, cacheRead |-> 0, cacheWrite |-> 0]
OrZero(v) == IF v = Nil THEN 0 ELSE v

piCost(cost) ==
  LET price == [f \in DOMAIN cost |-> OrZero(cost[f])]
  IN IF price = ZeroCost THEN Nil ELSE price

toCost(cost) ==
  IF cost = Nil THEN Nil
  ELSE piCost([input |-> cost.input, output |-> cost.output,
               cacheRead |-> cost.cache_read, cacheWrite |-> cost.cache_write])

num(v) == IF v \in Nat THEN v ELSE Nil

\* Only published dimensions are judged.
laysWithinPiModalities(input, output) ==
  /\ input \in {Nil, {}} \/ "text" \in input
  /\ output \in {Nil, {}} \/ output \subseteq {"text"}

toInput(input) ==
  LET kept == IF input = Nil THEN {} ELSE input \cap {"text", "image"}
  IN IF kept = {} THEN {"text"} ELSE kept

shapeRow(r) ==
  IF \/ r.id \in {Nil, ""}
     \/ r.family = "text-embedding" \/ r.id \in Embedding
     \/ ~laysWithinPiModalities(r.input, r.output)
  THEN Nil
  ELSE [id |-> r.id, input |-> toInput(r.input), contextWindow |-> num(r.context),
        maxTokens |-> num(r.limit), reasoning |-> r.reasoning, efforts |-> effortValues(r),
        thinkingLevelMap |-> thinkingLevelMapFor(effortValues(r)), cost |-> toCost(r.cost)]

\* Faulty variant: a record that carries an id of its own is published under it.
shapeCatalogBody(records, allowlist) ==
  {shapeRow([records[k] EXCEPT !.id = IF @ = Nil THEN k ELSE @]) :
     k \in DOMAIN records \cap Prefixed \cap allowlist} \ {Nil}

\* The key is the identity, never the id in the record.
shapeCatalog(records, allowlist) ==
  {shapeRow([records[k] EXCEPT !.id = k]) :
     k \in DOMAIN records \cap Prefixed \cap allowlist} \ {Nil}

Or(v, default) == IF v = Nil THEN default ELSE v
Levels(m) == IF m.reasoning THEN m.thinkingLevelMap ELSE Nil

toPiModel(m) ==
  [id |-> m.id, reasoning |-> m.reasoning, input |-> m.input,
   contextWindow |-> Or(m.contextWindow, 128000), maxTokens |-> Or(m.maxTokens, 16384),
   cost |-> m.cost, thinkingLevelMap |-> Levels(m)]

toExtensionModel(m) ==
  [id |-> m.id, reasoning |-> m.reasoning, input |-> m.input,
   contextWindow |-> Or(m.contextWindow, 128000), maxTokens |-> Or(m.maxTokens, 16384),
   cost |-> Or(m.cost, ZeroCost), compat |-> COMPAT, thinkingLevelMap |-> Levels(m)]

providerBlock(models) == [compat |-> COMPAT, models |-> {toPiModel(m) : m \in models}]
seedSource(models) == [aliases |-> <<>>, models |-> {toExtensionModel(m) : m \in models}]

fetchCatalogSlice(answer) ==
  IF ~answer.ok \/ answer.slice = Nil \/ DOMAIN answer.slice = {} THEN Nil ELSE answer.slice

\* The ids of the ## Models table, Nil without the section or without a prefixed id.
parseClinePassDocs(table) ==
  IF table = Nil \/ table \cap Prefixed = {} THEN Nil ELSE table \cap Prefixed

\* Never throws.
fetchDocsIds(answer) == IF ~answer.docsOk THEN Nil ELSE parseClinePassDocs(answer.table)

\* CLINE_PASS_MATCH_FLOOR: four fifths of the docs table must be in the slice.
resolveAllowlist(docsIds, records) ==
  LET keys == DOMAIN records \cap Prefixed
  IN IF docsIds = Nil \/ 5 * Cardinality(docsIds \cap keys) < 4 * Cardinality(docsIds)
     THEN LINEUP
     ELSE docsIds \cup keys

withSeed(models, seed) ==
  {toExtensionModel(m) : m \in models} \cup {s \in seed : \A m \in models : m.id # s.id}
=============================================================================
