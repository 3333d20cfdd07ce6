-------------------------------- MODULE PiVerboo --------------------------------
(***************************************************************************)
(* pi-verboo: from the rows of the provider's /models listing to the two    *)
(* projections of its lineup (merge.mjs), and the fetch in front of it      *)
(* (sources.mjs).  Rows, levels and Nil as in PiHyper; the listing has no   *)
(* prices.  A row's reasoning is Nil when it has none, else the levels of    *)
(* its enum, Nil among them when the object carries no array.                *)
(***************************************************************************)
EXTENDS Naturals

CONSTANT Nil

PI_THINKING_LEVELS == {"off", "minimal", "low", "medium", "high", "xhigh", "max"}
EFFORT_TO_PI(level) == IF level = "off" THEN "none" ELSE level

effortValues(row) ==
  IF row.reasoning = Nil \/ row.reasoning.effort_levels \in {Nil, {}} THEN Nil
  ELSE row.reasoning.effort_levels

thinkingLevelMapFor(efforts) ==
  IF efforts = Nil THEN Nil
  ELSE [l \in PI_THINKING_LEVELS |->
          IF EFFORT_TO_PI(l) \in efforts THEN EFFORT_TO_PI(l) ELSE Nil]

num(v) == IF v \in Nat THEN v ELSE Nil

toInput(row) == IF row.vision THEN {"text", "image"} ELSE {"text"}

\* A row reasons when it carries the object, whatever is in it.
shapeRow(row) ==
  IF row.id \in {Nil, ""} THEN Nil
  ELSE [id |-> row.id, input |-> toInput(row), contextWindow |-> num(row.context_window),
        reasoning |-> row.reasoning # Nil, efforts |-> effortValues(row),
        thinkingLevelMap |-> thinkingLevelMapFor(effortValues(row))]

shapeListing(rows) == {shapeRow(r) : r \in rows} \ {Nil}

Or(v, default) == IF v = Nil THEN default ELSE v
Levels(m) == IF m.reasoning THEN m.thinkingLevelMap ELSE Nil

toPiModel(m) ==
  [id |-> m.id, reasoning |-> m.reasoning, input |-> m.input, maxTokens |-> Nil,
   contextWindow |-> Or(m.contextWindow, 128000), cost |-> Nil, thinkingLevelMap |-> Levels(m)]

toExtensionModel(m) ==
  [id |-> m.id, reasoning |-> m.reasoning, input |-> m.input, maxTokens |-> 16384,
   contextWindow |-> Or(m.contextWindow, 128000), thinkingLevelMap |-> Levels(m),
   cost |-> [input |-> 0, output |-> 0, cacheRead |-> 0, cacheWrite |-> 0]]

providerBlock(models) == [compat |-> Nil, models |-> {toPiModel(m) : m \in models}]
seedSource(models) == [aliases |-> <<>>, models |-> {toExtensionModel(m) : m \in models}]

fetchListing(answer) ==
  LET kept == IF answer.body = "other" THEN {} ELSE {r \in answer.rows : r.id # Nil}
  IN IF ~answer.ok \/ kept = {} THEN Nil ELSE kept

\* Faulty variant: the committed rows are dropped once the provider has answered.
withSeedFresh(models, seed) == {toExtensionModel(m) : m \in models}

withSeed(models, seed) ==
  {toExtensionModel(m) : m \in models} \cup {s \in seed : \A m \in models : m.id # s.id}
=============================================================================
