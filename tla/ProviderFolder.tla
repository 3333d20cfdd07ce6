----------------------------- MODULE ProviderFolder -----------------------------
(***************************************************************************)
(* One provider folder: its generator, which fetches the lineup and writes  *)
(* the two committed artifacts (generate.mjs over lib/artifact.mjs), and     *)
(* its extension in pi, which is seeded from one of them and refreshed from  *)
(* the same source (index.ts).  The provider changes what it serves while    *)
(* both run.  A generator can be killed; pi can be restarted.                *)
(***************************************************************************)
EXTENDS Naturals, FiniteSets

CONSTANTS
  Nil, Prefixed, Embedding, LINEUP, ALIAS_TIER_IDS, Unsupported, Hf, Spelled,
  Folder,      \* the provider folders
  Answers,     \* Answers[f]: what the provider of f may answer
  Torn,        \* a file that was not written to its end
  MaxServes,   \* bound: changes of the provider's answer
  MaxRuns,     \* bound: generator runs
  MaxRefreshes \* bound: refreshes of pi

Hyper == INSTANCE PiHyper
Verboo == INSTANCE PiVerboo
Cline == INSTANCE PiClinePass
Synth == INSTANCE PiSynthetic

Artifact == {"models.json", "models.js"}

\* Nil is none of the values it stands beside; a record of the slice has an id and its
\* options, and a table is finite.
ASSUME FolderAssumption ==
  /\ Folder \subseteq {"pi-hyper", "pi-verboo", "pi-synthetic", "pi-cline-pass"}
  /\ Nil # 0 /\ Nil \notin {"seed", "store", "fresh"} /\ Nil # Hyper!ZeroCost
  /\ Nil \notin [Hyper!PI_THINKING_LEVELS -> Hyper!PI_THINKING_LEVELS \cup {"none", Nil}]
  /\ "pi-cline-pass" \in Folder => \A a \in Answers["pi-cline-pass"] :
       /\ a.table = Nil \/ IsFiniteSet(a.table)
       /\ a.slice # Nil => \A k \in DOMAIN a.slice : {"id", "reasoning_options"} \subseteq DOMAIN a.slice[k]

\* An answer of the source; of the two sources of pi-cline-pass, the slice first.
Fetched(f, answer) ==
  CASE f = "pi-hyper" -> Hyper!fetchCatalog(answer)
    [] f = "pi-verboo" -> Verboo!fetchListing(answer)
    [] f = "pi-synthetic" -> Synth!fetchListing(answer)
    [] OTHER -> Cline!fetchCatalogSlice(answer)

\* The lineup of what was fetched; docs is the answer when the second source was read.
Lineup(f, got, docs) ==
  CASE f = "pi-hyper" -> Hyper!shapeCatalog(got)
    [] f = "pi-verboo" -> Verboo!shapeListing(got)
    [] f = "pi-synthetic" -> Synth!shapeListing(got)
    [] OTHER -> Cline!shapeCatalog(got, Cline!resolveAllowlist(Cline!fetchDocsIds(docs), got))

renderArtifacts(f, models) ==
  LET both(block, seed) == [a \in Artifact |-> IF a = "models.json" THEN block ELSE seed]
  IN CASE f = "pi-hyper" -> both(Hyper!providerBlock(models), Hyper!seedSource(models))
       [] f = "pi-verboo" -> both(Verboo!providerBlock(models), Verboo!seedSource(models))
       [] f = "pi-synthetic" -> both(Synth!providerBlock(models), Synth!seedSource(models))
       [] OTHER -> both(Cline!providerBlock(models), Cline!seedSource(models))

WithSeed(f, models, s) ==
  CASE f = "pi-hyper" -> Hyper!withSeed(models, s)
    [] f = "pi-verboo" -> Verboo!withSeed(models, s)
    [] f = "pi-synthetic" -> Synth!withSeed(models, s)
    [] OTHER -> Cline!withSeed(models, s)

VARIABLES
  folder, served,   \* the folder, and what its provider answers now
  said,             \* the answers so far (history)
  gen,              \* the generator: its step, what it fetched, what it writes, exit code
  disk, temp,       \* the two artifacts and their temporary files
  pi,               \* pi: the seed it loaded, what is registered and from where, its snapshot
  refresh           \* the refresh under way
folderVars == <<folder, served, said, gen, disk, temp, pi, refresh>>

NoRun == [pc |-> "idle", check |-> FALSE, got |-> Nil, out |-> Nil, file |-> "models.json",
          exit |-> Nil, runs |-> 0]
NoRefresh == [pc |-> "idle", got |-> Nil, count |-> 0]

\* The artifacts of an earlier run are committed, with models in them.
FolderInit ==
  /\ folder \in Folder
  /\ served \in {a \in Answers[folder] :
                   /\ Fetched(folder, a) # Nil
                   /\ Lineup(folder, Fetched(folder, a), a) # {}}
  /\ said = {served}
  /\ gen = NoRun
  /\ disk = renderArtifacts(folder, Lineup(folder, Fetched(folder, served), served))
  /\ temp = [a \in Artifact |-> Nil]
  /\ pi = [seed |-> {}, models |-> {}, from |-> Nil, stored |-> Nil, fresh |-> FALSE]
  /\ refresh = NoRefresh

Serve ==
  /\ Cardinality(said) <= MaxServes
  /\ \E a \in Answers[folder] : served' = a /\ said' = said \cup {a}
  /\ UNCHANGED <<folder, gen, disk, temp, pi, refresh>>

(* The generator.  main fetches, shapes, and compares or writes. *)
Exit(code) == [gen EXCEPT !.pc = "idle", !.exit = code]

FetchSource ==
  /\ gen.pc = "idle" /\ gen.runs < MaxRuns
  /\ \E check \in BOOLEAN :
       LET got == Fetched(folder, served)
           begun == [NoRun EXCEPT !.check = check, !.runs = gen.runs + 1]
       IN gen' = IF got = Nil THEN [begun EXCEPT !.exit = 1]
                 ELSE [begun EXCEPT !.pc = "shape", !.got = got]
  /\ UNCHANGED <<folder, served, said, disk, temp, pi, refresh>>

\* Only pi-cline-pass refuses a lineup without a model.
Shape ==
  /\ gen.pc = "shape"
  /\ LET models == Lineup(folder, gen.got, served)
         out == renderArtifacts(folder, models)
     IN gen' = IF folder = "pi-cline-pass" /\ models = {} THEN Exit(1)
               ELSE [gen EXCEPT !.out = out, !.pc = IF gen.check THEN "compare" ELSE "write"]
  /\ UNCHANGED <<folder, served, said, disk, temp, pi, refresh>>

alreadyCommitted(a) == disk[a] = gen.out[a]

Compare ==
  /\ gen.pc = "compare"
  /\ gen' = Exit(IF \A a \in Artifact : alreadyCommitted(a) THEN 0 ELSE 1)
  /\ UNCHANGED <<folder, served, said, disk, temp, pi, refresh>>

\* writeArtifact: the temporary file, to its end or not, then the rename.
WriteTemp(a) ==
  /\ gen.pc = "write" /\ gen.file = a
  /\ \/ temp' = [temp EXCEPT ![a] = gen.out[a]] /\ gen' = [gen EXCEPT !.pc = "rename"]
     \/ temp' = [temp EXCEPT ![a] = Torn] /\ gen' = Exit(1)
  /\ UNCHANGED <<folder, served, said, disk, pi, refresh>>

\* models.js comes after models.json.
Wrote(a) ==
  IF a = "models.json" THEN [gen EXCEPT !.pc = "write", !.file = "models.js"] ELSE Exit(0)

\* Faulty variant: the bytes go to the live file.
RenameNoTemp(a) ==
  /\ gen.pc = "rename" /\ gen.file = a
  /\ \/ disk' = [disk EXCEPT ![a] = gen.out[a]] /\ gen' = Wrote(a)
     \/ disk' = [disk EXCEPT ![a] = Torn] /\ gen' = Exit(1)
  /\ UNCHANGED <<folder, served, said, temp, pi, refresh>>

Rename(a) ==
  /\ gen.pc = "rename" /\ gen.file = a
  /\ disk' = [disk EXCEPT ![a] = temp[a]] /\ temp' = [temp EXCEPT ![a] = Nil]
  /\ gen' = Wrote(a)
  /\ UNCHANGED <<folder, served, said, pi, refresh>>

\* A killed run exits with no code and leaves its temporary file behind.
Kill ==
  /\ gen.pc # "idle"
  /\ gen' = Exit(Nil)
  /\ \E t \in {temp} \cup {[temp EXCEPT ![a] = Torn] : a \in IF gen.pc = "write" THEN {gen.file} ELSE {}} : temp' = t
  /\ UNCHANGED <<folder, served, said, disk, pi, refresh>>

(* The extension. *)
LoadExtension ==
  /\ refresh.pc = "idle" /\ disk["models.js"] # Torn
  /\ LET s == disk["models.js"].models
     IN pi' = [pi EXCEPT !.seed = s, !.models = s, !.from = "seed"]
  /\ UNCHANGED <<folder, served, said, gen, disk, temp, refresh>>

\* pi's snapshot, passed back as it is; without one, what is registered stays.
fromStore(p) ==
  IF p.stored \in {Nil, {}} THEN p ELSE [p EXCEPT !.models = p.stored, !.from = "store"]

RefreshBegins ==
  /\ refresh.pc = "idle" /\ pi.from # Nil /\ refresh.count < MaxRefreshes
  /\ \E allowNetwork \in BOOLEAN :
       IF allowNetwork /\ ~(pi.stored # Nil /\ pi.fresh)
       THEN /\ refresh' = [pc |-> "fetch", got |-> Nil, count |-> refresh.count + 1]
            /\ UNCHANGED pi
       ELSE /\ refresh' = [refresh EXCEPT !.count = @ + 1]
            /\ pi' = fromStore(pi)
  /\ UNCHANGED <<folder, served, said, gen, disk, temp>>

RefreshFetched ==
  /\ refresh.pc = "fetch"
  /\ LET got == Fetched(folder, served)
     IN IF got = Nil
        THEN refresh' = [refresh EXCEPT !.pc = "idle"] /\ pi' = fromStore(pi)
        ELSE refresh' = [refresh EXCEPT !.pc = "publish", !.got = got] /\ UNCHANGED pi
  /\ UNCHANGED <<folder, served, said, gen, disk, temp>>

\* pi registers what it is given and keeps it as its snapshot.
RefreshPublishes ==
  /\ refresh.pc = "publish"
  /\ LET list == WithSeed(folder, Lineup(folder, refresh.got, served), pi.seed)
     IN pi' = [pi EXCEPT !.models = list, !.from = "fresh", !.stored = list, !.fresh = TRUE]
  /\ refresh' = [refresh EXCEPT !.pc = "idle", !.got = Nil]
  /\ UNCHANGED <<folder, served, said, gen, disk, temp>>

\* The signal is aborted: the refresh throws and nothing is registered.
RefreshAborts ==
  /\ refresh.pc # "idle"
  /\ refresh' = [refresh EXCEPT !.pc = "idle", !.got = Nil]
  /\ UNCHANGED <<folder, served, said, gen, disk, temp, pi>>

\* MODEL_STORE_TTL_MS has passed.
storeIsFreshEnds ==
  /\ pi.fresh
  /\ pi' = [pi EXCEPT !.fresh = FALSE]
  /\ UNCHANGED <<folder, served, said, gen, disk, temp, refresh>>

FolderNext ==
  \/ Serve \/ FetchSource \/ Shape \/ Compare \/ Kill
  \/ \E a \in Artifact : WriteTemp(a) \/ Rename(a)
  \/ LoadExtension \/ RefreshBegins \/ RefreshFetched \/ RefreshPublishes \/ RefreshAborts
  \/ storeIsFreshEnds

FolderSpec == FolderInit /\ [][FolderNext]_folderVars
-----------------------------------------------------------------------------
Entries == disk["models.json"].models \cup disk["models.js"].models \cup pi.models
           \cup (IF pi.stored = Nil THEN {} ELSE pi.stored)
Ids(models) == {m.id : m \in models}
Rows(answer) == IF folder = "pi-cline-pass" THEN {} ELSE answer.rows
Records(answer) == IF folder # "pi-cline-pass" \/ answer.slice = Nil THEN <<>> ELSE answer.slice

\* A committed artifact is at every moment the whole rendering of something the provider
\* served, whatever run failed or was killed, and a run or a check that exits 0 leaves
\* both of them on the lineup it fetched ("a failed run leaves it untouched", the atomic
\* writer's contract).
CommittedIsWhole ==
  /\ \A a \in Artifact : \E x, y \in said :
       /\ Fetched(folder, x) # Nil
       /\ disk[a] = renderArtifacts(folder, Lineup(folder, Fetched(folder, x), y))[a]
  /\ gen.exit = 0 => disk = gen.out

\* What pi has registered keeps standing: a refresh, whether it failed, found nothing or
\* was answered from an old snapshot, never leaves a provider that had models without
\* one; a row of the seed survives an answer that omits it; and every registered model
\* has the price block pi dereferences.
ProviderStands ==
  /\ pi.seed # {} => pi.models # {}
  /\ pi.from = "fresh" => Ids(pi.seed) \subseteq Ids(pi.models)
  /\ \A m \in pi.models : m.cost # Nil

\* The efforts a row publishes for its id, and all the provider has published for one.
RowEfforts(r) ==
  CASE folder = "pi-hyper" -> IF r.reasoning_levels \in {Nil, {}} THEN {"off", "max"}
                              ELSE r.reasoning_levels
    [] folder = "pi-verboo" -> IF r.reasoning = Nil \/ r.reasoning.effort_levels = Nil
                               THEN {} ELSE r.reasoning.effort_levels
    [] OTHER -> IF r.efforts = Nil THEN {} ELSE r.efforts
Published(id) ==
  (UNION {RowEfforts(r) : r \in {x \in UNION {Rows(a) : a \in said} : x.id = id}})
  \cup (UNION {UNION {o.values : o \in Records(a)[id].reasoning_options} :
                a \in {x \in said : id \in DOMAIN Records(x)}})

\* No artifact, snapshot or registered model, old or new, sends a wire value for a
\* thinking level that the provider never published for that model; a model of pi-hyper
\* without an enum can be turned off and on.
LevelsPublished ==
  \A m \in Entries : m.thinkingLevelMap # Nil =>
    \A l \in DOMAIN m.thinkingLevelMap :
      m.thinkingLevelMap[l] # Nil => m.thinkingLevelMap[l] \in Published(m.id)

\* Whatever either source serves, at either moment it is read, pi-cline-pass publishes no
\* id outside the namespace the subscription bills under, no embedding endpoint, never
\* an empty lineup, and an id outside the committed lineup only when the docs table and
\* the slice agreed.
SubscriptionContract ==
  folder = "pi-cline-pass" =>
    /\ \A a \in Artifact : disk[a].models # {}
    /\ \A m \in Entries :
         /\ m.id \in Prefixed \ Embedding
         /\ \/ m.id \in LINEUP
            \/ \E x, y \in said :
                 LET keys == DOMAIN Records(x) \cap Prefixed
                     docs == y.table \cap Prefixed
                 IN /\ y.docsOk /\ y.table # Nil
                    /\ m.id \in keys
                    /\ 5 * Cardinality(docs \cap keys) >= 4 * Cardinality(docs)
=============================================================================
