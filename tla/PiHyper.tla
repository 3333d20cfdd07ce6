-------------------------------- MODULE PiHyper --------------------------------
(***************************************************************************)
(* pi-hyper: from the rows of the provider's /provider document to the two  *)
(* projections of its lineup (merge.mjs), and the fetch in front of it      *)
(* (sources.mjs).  A lineup is a set of models: the code sorts by id.  Nil   *)
(* is undefined, and what a throwing function returns.  A row's levels, in   *)
(* lower case, are a set, Nil when the row has no array.                     *)
(***************************************************************************)
EXTENDS Naturals

CONSTANT Nil

PI_THINKING_LEVELS == {"off", "minimal", "low", "medium", "high", "xhigh", "max"}

\* The first key of EFFORT_TO_PI with that level; the key off is never reached.
EFFORT_TO_PI(level) == IF level = "off" THEN "none" ELSE level

ON_OFF_THINKING_LEVEL_MAP ==
  [l \in PI_THINKING_LEVELS |-> IF l \in {"off", "max"} THEN l ELSE Nil]

effortValues(row) == IF row.reasoning_levels = {} THEN Nil ELSE row.reasoning_levels

\* Faulty variant: a level that was not published gets its own name as wire value.
thinkingLevelMapForNamed(efforts) ==
  IF efforts = Nil THEN Nil
  ELSE [l \in PI_THINKING_LEVELS |-> EFFORT_TO_PI(l)]

thinkingLevelMapFor(efforts) ==
  IF efforts = Nil THEN Nil
  ELSE [l \in PI_THINKING_LEVELS |->
          IF EFFORT_TO_PI(l) \in efforts THEN EFFORT_TO_PI(l) ELSE Nil]

ZeroCost == [input |-> 0, output |-> 0, cacheRead |-> 0, cacheWrite |-> 0]
OrZero(v) == IF v = Nil THEN 0 ELSE v

\* Missing prices are zero, and a block of zeros is no block.
piCost(cost) ==
  LET price == [f \in DOMAIN cost |-> OrZero(cost[f])]
  IN IF price = ZeroCost THEN Nil ELSE price

\* What a cached input costs is the price of a cache write.
toCost(row) ==
  piCost([input |-> row.price.in, output |-> row.price.out,
          cacheRead |-> row.price.out_cached, cacheWrite |-> row.price.in_cached])

num(v) == IF v \in Nat THEN v ELSE Nil

toInput(row) == IF row.supports_attachments THEN {"text", "image"} ELSE {"text"}

\* An enum decides the map; a reasoner without one can be turned on and off.
shapeRow(row) ==
  LET map == thinkingLevelMapFor(effortValues(row))
  IN IF row.id \in {Nil, ""} THEN Nil
     ELSE [id |-> row.id, input |-> toInput(row), contextWindow |-> num(row.context_window),
           maxTokens |-> num(row.default_max_tokens), reasoning |-> row.can_reason,
           efforts |-> effortValues(row), cost |-> toCost(row),
           thinkingLevelMap |-> IF ~row.can_reason THEN Nil
                                ELSE IF map = Nil THEN ON_OFF_THINKING_LEVEL_MAP ELSE map]

shapeCatalog(rows) == {shapeRow(r) : r \in rows} \ {Nil}

compatFor(m) == [thinkingFormat |-> "deepseek", supportsReasoningEffort |-> m.efforts # Nil]

Or(v, default) == IF v = Nil THEN default ELSE v
Levels(m) == IF m.reasoning THEN m.thinkingLevelMap ELSE Nil

\* The entry of models.json: no price, no block.
toPiModel(m) ==
  [id |-> m.id, reasoning |-> m.reasoning, input |-> m.input,
   contextWindow |-> Or(m.contextWindow, 128000), maxTokens |-> Or(m.maxTokens, 16384),
   compat |-> compatFor(m), cost |-> m.cost, thinkingLevelMap |-> Levels(m)]

\* The entry the extension registers: always a price block.
toExtensionModel(m) ==
  [id |-> m.id, reasoning |-> m.reasoning, input |-> m.input,
   contextWindow |-> Or(m.contextWindow, 128000), maxTokens |-> Or(m.maxTokens, 16384),
   compat |-> compatFor(m), cost |-> Or(m.cost, ZeroCost), thinkingLevelMap |-> Levels(m)]

\* generate.mjs: what the two artifacts hold.
providerBlock(models) == [compat |-> Nil, models |-> {toPiModel(m) : m \in models}]
seedSource(models) == [aliases |-> <<>>, models |-> {toExtensionModel(m) : m \in models}]

\* The one request.  An answer has its rows in an array, in a member of the payload, or
\* nowhere.
fetchCatalog(answer) ==
  LET kept == IF answer.body = "other" THEN {} ELSE {r \in answer.rows : r.id # Nil}
  IN IF ~answer.ok \/ kept = {} THEN Nil ELSE kept

\* index.ts: the fresh rows, and the committed ones they do not name.
withSeed(models, seed) ==
  {toExtensionModel(m) : m \in models} \cup {s \in seed : \A m \in models : m.id # s.id}
=============================================================================
