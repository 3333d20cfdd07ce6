------------------------------ MODULE PiSynthetic ------------------------------
(***************************************************************************)
(* pi-synthetic: from the rows of the provider's /models listing to the two *)
(* projections of its lineup (merge.mjs), and the fetch in front of it      *)
(* (sources.mjs).  Rows, levels and Nil as in PiHyper; modalities and        *)
(* features are sets.  A price is a number of dollars per token, or a text.  *)
(***************************************************************************)
EXTENDS Naturals

CONSTANTS
  Nil,
  ALIAS_TIER_IDS, \* the category tiers
  Unsupported,    \* the ids of the families the surface does not serve
  Hf,             \* Hf[m]: the listing's id of the model a row says it serves
  Spelled         \* Spelled[t]: the number a text spells, behind a dollar sign or not

PI_THINKING_LEVELS == {"off", "minimal", "low", "medium", "high", "xhigh", "max"}
EFFORT_TO_PI(level) == IF level = "off" THEN "none" ELSE level

\* The id, the published name, and the target of an alias in parentheses.
displayNameFor(id, published, target) ==
  [base |-> IF published = Nil THEN id ELSE published, target |-> target]
isAliasName(id, name, target) == name = displayNameFor(id, Nil, target)

thinkingLevelMapFor(efforts) ==
  IF efforts = Nil THEN Nil
  ELSE [l \in PI_THINKING_LEVELS |->
          IF EFFORT_TO_PI(l) \in efforts THEN EFFORT_TO_PI(l) ELSE Nil]

ZeroCost == [input |-> 0, output |-> 0, cacheRead |-> 0, cacheWrite |-> 0]

\* A partial block is no block here.
piCost(cost) ==
  IF (\E f \in DOMAIN cost : cost[f] = Nil) \/ cost = ZeroCost THEN Nil ELSE cost

laysWithinPiModalities(input, output) ==
  /\ input \in {Nil, {}} \/ "text" \in input
  /\ output \in {Nil, {}} \/ output \subseteq {"text"}

toInput(input) ==
  LET kept == IF input = Nil THEN {} ELSE input \cap {"text", "image"}
  IN IF kept = {} THEN {"text"} ELSE kept

num(v) ==
  IF v \in DOMAIN Spelled THEN Spelled[v] ELSE IF v \in Nat THEN v ELSE Nil
perMillion(v) == IF num(v) = Nil THEN Nil ELSE 1000000 * num(v)

aliasTarget(row) ==
  IF row.hugging_face_id = Nil \/ Hf[row.hugging_face_id] = row.id THEN Nil
  ELSE Hf[row.hugging_face_id]

effortsOf(row) == IF row.efforts \in {Nil, {}} THEN Nil ELSE row.efforts

shapeRow(row) ==
  IF row.id \in {Nil, ""} \/ ~laysWithinPiModalities(row.input, row.output) THEN Nil
  ELSE LET efforts == effortsOf(row)
       IN [id |-> row.id, pointsAt |-> aliasTarget(row),
           name |-> displayNameFor(row.id, row.display_name, aliasTarget(row)),
           input |-> toInput(row.input), contextWindow |-> num(row.context_length),
           maxTokens |-> num(row.max_output_length),
           reasoning |-> \/ row.features # Nil /\ "reasoning" \in row.features
                         \/ efforts # Nil /\ \E e \in efforts : e # "none",
           efforts |-> efforts, thinkingLevelMap |-> thinkingLevelMapFor(efforts),
           cost |-> piCost([input |-> perMillion(row.pricing.prompt),
                            output |-> perMillion(row.pricing.completion),
                            cacheRead |-> perMillion(row.pricing.input_cache_reads),
                            cacheWrite |-> perMillion(row.pricing.input_cache_writes)])]

shapeListing(rows) == {shapeRow(r) : r \in rows} \ {Nil}

\* The tiers that point at a model, and where.
aliasMap(models) ==
  LET tiers == {m \in models : m.pointsAt # Nil /\ m.id \in ALIAS_TIER_IDS}
  IN [t \in {m.id : m \in tiers} |-> {m.pointsAt : m \in {x \in tiers : x.id = t}}]

Or(v, default) == IF v = Nil THEN default ELSE v
Levels(m) == IF m.reasoning THEN m.thinkingLevelMap ELSE Nil

toPiModel(m) ==
  [id |-> m.id, name |-> m.name, reasoning |-> m.reasoning, input |-> m.input,
   contextWindow |-> Or(m.contextWindow, 128000), maxTokens |-> Or(m.maxTokens, 16384),
   cost |-> m.cost, thinkingLevelMap |-> Levels(m)]

toExtensionModel(m) ==
  [id |-> m.id, name |-> m.name, reasoning |-> m.reasoning, input |-> m.input,
   contextWindow |-> Or(m.contextWindow, 128000), maxTokens |-> Or(m.maxTokens, 16384),
   cost |-> Or(m.cost, ZeroCost), compat |-> [supportsReasoningEffort |-> m.efforts # Nil],
   thinkingLevelMap |-> Levels(m)]

providerBlock(models) == [compat |-> Nil, models |-> {toPiModel(m) : m \in models}]
seedSource(models) ==
  [aliases |-> aliasMap(models), models |-> {toExtensionModel(m) : m \in models}]

fetchListing(answer) ==
  LET kept == IF answer.body = "other" THEN {}
              ELSE {r \in answer.rows : r.id # Nil /\ r.id \notin Unsupported}
  IN IF ~answer.ok \/ kept = {} THEN Nil ELSE kept

withSeed(models, seed) ==
  {toExtensionModel(m) : m \in models} \cup {s \in seed : \A m \in models : m.id # s.id}
=============================================================================
