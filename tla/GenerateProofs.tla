---------------------------- MODULE GenerateProofs ----------------------------
(***************************************************************************)
(* Proofs about what writes and serves lineups: ProviderFolder, for any     *)
(* answers of the four providers and any number of runs and refreshes;      *)
(* Watchdogs, for any interval, providers and openings; RouteProbe, for any *)
(* environment, candidates and replies; AgentInstall, for any hosts,        *)
(* generated documents and number of installations and deaths; BuildAll,    *)
(* for any hosts, requests and output of the children.                      *)
(***************************************************************************)
EXTENDS BuildAll, AgentInstall, RouteProbe, Watchdogs, ProviderFolder,
        SequenceTheorems, FiniteSetTheorems, WellFoundedInduction, TLAPS

-----------------------------------------------------------------------------
(* The generator, the provider and the extension of one folder *)

\* What the projections keep of a shaped model.
EntryOf(e, m) ==
  e.id = m.id /\ e.thinkingLevelMap = (IF m.reasoning THEN m.thinkingLevelMap ELSE Nil)

\* What one folder's projections and its withSeed do with the models they are given.
Projects(models, block, seed) ==
  /\ \A e \in block.models : \E m \in models : EntryOf(e, m)
  /\ \A e \in seed.models : e.cost # Nil /\ \E m \in models : EntryOf(e, m)
  /\ models # {} => block.models # {} /\ seed.models # {}
Seeds(models, s, list) ==
  /\ \A e \in list \ s : e.cost # Nil /\ \E m \in models : EntryOf(e, m)
  /\ Ids(s) \subseteq Ids(list)

LEMMA HyperProjects ==
  ASSUME NEW models, NEW s
  PROVE  /\ Projects(models, Hyper!providerBlock(models), Hyper!seedSource(models))
         /\ Seeds(models, s, Hyper!withSeed(models, s))
<1>1. \A m \in models : EntryOf(Hyper!toPiModel(m), m)
  BY DEF EntryOf, Hyper!toPiModel, Hyper!Levels
<1>2. \A m \in models : EntryOf(Hyper!toExtensionModel(m), m) /\ Hyper!toExtensionModel(m).cost # Nil
  BY FolderAssumption DEF EntryOf, Hyper!toExtensionModel, Hyper!Levels, Hyper!Or, Hyper!ZeroCost
<1>3. Projects(models, Hyper!providerBlock(models), Hyper!seedSource(models))
  BY <1>1, <1>2 DEF Projects, Hyper!providerBlock, Hyper!seedSource
<1>4. Seeds(models, s, Hyper!withSeed(models, s))
  BY <1>2 DEF Seeds, Ids, EntryOf, Hyper!withSeed
<1> QED
  BY <1>3, <1>4

LEMMA VerbooProjects ==
  ASSUME NEW models, NEW s
  PROVE  /\ Projects(models, Verboo!providerBlock(models), Verboo!seedSource(models))
         /\ Seeds(models, s, Verboo!withSeed(models, s))
<1>1. \A m \in models : EntryOf(Verboo!toPiModel(m), m)
  BY DEF EntryOf, Verboo!toPiModel, Verboo!Levels
<1>2. \A m \in models : EntryOf(Verboo!toExtensionModel(m), m) /\ Verboo!toExtensionModel(m).cost # Nil
  BY FolderAssumption DEF EntryOf, Verboo!toExtensionModel, Verboo!Levels, Hyper!ZeroCost
<1>3. Projects(models, Verboo!providerBlock(models), Verboo!seedSource(models))
  BY <1>1, <1>2 DEF Projects, Verboo!providerBlock, Verboo!seedSource
<1>4. Seeds(models, s, Verboo!withSeed(models, s))
  BY <1>2 DEF Seeds, Ids, EntryOf, Verboo!withSeed
<1> QED
  BY <1>3, <1>4

LEMMA SynthProjects ==
  ASSUME NEW models, NEW s
  PROVE  /\ Projects(models, Synth!providerBlock(models), Synth!seedSource(models))
         /\ Seeds(models, s, Synth!withSeed(models, s))
<1>1. \A m \in models : EntryOf(Synth!toPiModel(m), m)
  BY DEF EntryOf, Synth!toPiModel, Synth!Levels
<1>2. \A m \in models : EntryOf(Synth!toExtensionModel(m), m) /\ Synth!toExtensionModel(m).cost # Nil
  BY FolderAssumption DEF EntryOf, Synth!toExtensionModel, Synth!Levels, Synth!Or, Synth!ZeroCost, Hyper!ZeroCost
<1>3. Projects(models, Synth!providerBlock(models), Synth!seedSource(models))
  BY <1>1, <1>2 DEF Projects, Synth!providerBlock, Synth!seedSource
<1>4. Seeds(models, s, Synth!withSeed(models, s))
  BY <1>2 DEF Seeds, Ids, EntryOf, Synth!withSeed
<1> QED
  BY <1>3, <1>4

LEMMA ClineProjects ==
  ASSUME NEW models, NEW s
  PROVE  /\ Projects(models, Cline!providerBlock(models), Cline!seedSource(models))
         /\ Seeds(models, s, Cline!withSeed(models, s))
<1>1. \A m \in models : EntryOf(Cline!toPiModel(m), m)
  BY DEF EntryOf, Cline!toPiModel, Cline!Levels
<1>2. \A m \in models : EntryOf(Cline!toExtensionModel(m), m) /\ Cline!toExtensionModel(m).cost # Nil
  BY FolderAssumption DEF EntryOf, Cline!toExtensionModel, Cline!Levels, Cline!Or, Cline!ZeroCost, Hyper!ZeroCost
<1>3. Projects(models, Cline!providerBlock(models), Cline!seedSource(models))
  BY <1>1, <1>2 DEF Projects, Cline!providerBlock, Cline!seedSource
<1>4. Seeds(models, s, Cline!withSeed(models, s))
  BY <1>2 DEF Seeds, Ids, EntryOf, Cline!withSeed
<1> QED
  BY <1>3, <1>4

LEMMA FolderProjects ==
  ASSUME NEW f, NEW models, NEW s
  PROVE  LET r == renderArtifacts(f, models)
         IN /\ r = [a \in Artifact |-> r[a]]
            /\ Projects(models, r["models.json"], r["models.js"])
            /\ Seeds(models, s, WithSeed(f, models, s))
<1> DEFINE r == renderArtifacts(f, models)
<1>1. ASSUME NEW block, NEW seed, Projects(models, block, seed),
             r = [a \in Artifact |-> IF a = "models.json" THEN block ELSE seed]
      PROVE  r = [a \in Artifact |-> r[a]] /\ Projects(models, r["models.json"], r["models.js"])
  <2> HIDE DEF r
  <2>1. r["models.json"] = block /\ r["models.js"] = seed
    BY <1>1 DEF Artifact
  <2> QED
    BY <1>1, <2>1
<1>2. CASE f = "pi-hyper"
  <2>1. r = [a \in Artifact |-> IF a = "models.json" THEN Hyper!providerBlock(models) ELSE Hyper!seedSource(models)]
    BY <1>2 DEF renderArtifacts
  <2>2. WithSeed(f, models, s) = Hyper!withSeed(models, s)
    BY <1>2 DEF WithSeed
  <2> HIDE DEF r
  <2>3. r = [a \in Artifact |-> r[a]] /\ Projects(models, r["models.json"], r["models.js"])
    BY <1>1, <2>1, HyperProjects
  <2> QED
    BY <2>2, <2>3, HyperProjects DEF r
<1>3. CASE f = "pi-verboo"
  <2>1. r = [a \in Artifact |-> IF a = "models.json" THEN Verboo!providerBlock(models) ELSE Verboo!seedSource(models)]
    BY <1>3 DEF renderArtifacts
  <2>2. WithSeed(f, models, s) = Verboo!withSeed(models, s)
    BY <1>3 DEF WithSeed
  <2> HIDE DEF r
  <2>3. r = [a \in Artifact |-> r[a]] /\ Projects(models, r["models.json"], r["models.js"])
    BY <1>1, <2>1, VerbooProjects
  <2> QED
    BY <2>2, <2>3, VerbooProjects DEF r
<1>4. CASE f = "pi-synthetic"
  <2>1. r = [a \in Artifact |-> IF a = "models.json" THEN Synth!providerBlock(models) ELSE Synth!seedSource(models)]
    BY <1>4 DEF renderArtifacts
  <2>2. WithSeed(f, models, s) = Synth!withSeed(models, s)
    BY <1>4 DEF WithSeed
  <2> HIDE DEF r
  <2>3. r = [a \in Artifact |-> r[a]] /\ Projects(models, r["models.json"], r["models.js"])
    BY <1>1, <2>1, SynthProjects
  <2> QED
    BY <2>2, <2>3, SynthProjects DEF r
<1>5. CASE f \notin {"pi-hyper", "pi-verboo", "pi-synthetic"}
  <2>1. r = [a \in Artifact |-> IF a = "models.json" THEN Cline!providerBlock(models) ELSE Cline!seedSource(models)]
    BY <1>5 DEF renderArtifacts
  <2>2. WithSeed(f, models, s) = Cline!withSeed(models, s)
    BY <1>5 DEF WithSeed
  <2> HIDE DEF r
  <2>3. r = [a \in Artifact |-> r[a]] /\ Projects(models, r["models.json"], r["models.js"])
    BY <1>1, <2>1, ClineProjects
  <2> QED
    BY <2>2, <2>3, ClineProjects DEF r
<1> QED
  BY <1>2, <1>3, <1>4, <1>5

-----------------------------------------------------------------------------
\* What is shaped from an answer of the source, its second source read later.
FromSource(models) ==
  \E x, y \in said :
    /\ Fetched(folder, x) # Nil
    /\ models = Lineup(folder, Fetched(folder, x), y)

\* An entry that stands somewhere was shaped from answers that were given.
Sourced(e) == \E models : FromSource(models) /\ \E m \in models : EntryOf(e, m)

\* A whole rendering; pi-cline-pass never writes one without a model.
Whole(r) ==
  \E models : /\ FromSource(models) /\ r = renderArtifacts(folder, models)
              /\ folder = "pi-cline-pass" => models # {}

FolderTyped ==
  /\ folder \in Folder /\ served \in said /\ said \subseteq Answers[folder]
  /\ gen.pc \in {"idle", "shape", "compare", "write", "rename"} /\ gen.file \in Artifact
  /\ DOMAIN gen = {"pc", "check", "got", "out", "file", "exit", "runs"}
  /\ disk = [a \in Artifact |-> disk[a]] /\ temp = [a \in Artifact |-> temp[a]]
  /\ DOMAIN pi = {"seed", "models", "from", "stored", "fresh"}
  /\ refresh.pc \in {"idle", "fetch", "publish"} /\ DOMAIN refresh = {"pc", "got", "count"}

Got(got) == \E x \in said : Fetched(folder, x) # Nil /\ got = Fetched(folder, x)

\* What the generator holds at each of its steps.
Generating ==
  /\ gen.pc = "shape" => Got(gen.got) /\ gen.file = "models.json"
  /\ gen.pc \in {"compare", "write", "rename"} => Whole(gen.out)
  /\ gen.pc = "rename" => temp[gen.file] = gen.out[gen.file]
  /\ gen.pc \in {"write", "rename"} /\ gen.file = "models.js" =>
       disk["models.json"] = gen.out["models.json"]
  /\ gen.pc # "idle" => gen.exit = Nil
  /\ gen.exit = 0 => disk = gen.out

CommittedWhole == \A a \in Artifact : \E r : Whole(r) /\ disk[a] = r[a]

Stored == IF pi.stored = Nil THEN {} ELSE pi.stored

\* What pi holds, registered or stored.
Registering ==
  /\ \A e \in pi.seed \cup pi.models \cup Stored : e.cost # Nil /\ Sourced(e)
  /\ pi.seed # {} => pi.models # {}
  /\ pi.from = "fresh" => Ids(pi.seed) \subseteq Ids(pi.models)
  /\ refresh.pc = "publish" => Got(refresh.got)

FolderInv == FolderTyped /\ Generating /\ CommittedWhole /\ Registering

\* said only grows, so what comes from it goes on coming from it.
LEMMA SourcesStay ==
  ASSUME said \subseteq said', folder' = folder
  PROVE  /\ \A got : Got(got) => Got(got)'
         /\ \A models : FromSource(models) => FromSource(models)'
         /\ \A r : Whole(r) => Whole(r)'
         /\ \A e : Sourced(e) => Sourced(e)'
<1>1. \A got : Got(got) => Got(got)'
  BY DEF Got
<1>2. \A models : FromSource(models) => FromSource(models)'
  BY DEF FromSource
<1> QED
  BY <1>1, <1>2 DEF Whole, Sourced

\* A rendering is a function of the two artifacts, and every entry of it has a source.
LEMMA WholeEntries ==
  ASSUME NEW r, Whole(r)
  PROVE  /\ r = [a \in Artifact |-> r[a]]
         /\ \A a \in Artifact : \A e \in r[a].models : Sourced(e)
         /\ \A e \in r["models.js"].models : e.cost # Nil
         /\ folder = "pi-cline-pass" => \A a \in Artifact : r[a].models # {}
<1>1. PICK models : /\ FromSource(models) /\ r = renderArtifacts(folder, models)
                    /\ folder = "pi-cline-pass" => models # {}
  BY DEF Whole
<1>2. r = [a \in Artifact |-> r[a]] /\ Projects(models, r["models.json"], r["models.js"])
  BY <1>1, FolderProjects
<1> QED
  BY <1>1, <1>2 DEF Projects, Sourced, Artifact

LEMMA FolderBegins == FolderInit => FolderInv
<1> SUFFICES ASSUME FolderInit PROVE FolderInv
  OBVIOUS
<1> DEFINE models == Lineup(folder, Fetched(folder, served), served)
<1>1. FromSource(models) /\ models # {} /\ disk = renderArtifacts(folder, models)
  BY DEF FolderInit, FromSource
<1> HIDE DEF models
<1>2. Whole(disk)
  BY <1>1 DEF Whole
<1>3. disk = [a \in Artifact |-> disk[a]]
  BY <1>2, WholeEntries
<1>4. FolderTyped
  BY <1>3 DEF FolderInit, FolderTyped, NoRun, NoRefresh, Artifact
<1>5. Generating
  BY FolderAssumption DEF FolderInit, Generating, NoRun
<1>6. CommittedWhole
  BY <1>2 DEF CommittedWhole
<1>7. Registering
  BY FolderAssumption DEF FolderInit, Registering, Stored, NoRefresh
<1> QED
  BY <1>4, <1>5, <1>6, <1>7 DEF FolderInv

\* A step of the generator leaves what pi holds alone, and the other way round.
LEMMA GeneratorApart ==
  ASSUME FolderInv, UNCHANGED <<folder, said, pi, refresh>>
  PROVE  Registering'
  BY DEF FolderInv, Registering, Stored, Sourced, FromSource, Got

LEMMA ExtensionApart ==
  ASSUME FolderInv, UNCHANGED <<folder, said, gen, disk, temp>>
  PROVE  Generating' /\ CommittedWhole'
  BY DEF FolderInv, Generating, CommittedWhole, Whole, FromSource, Got

LEMMA GeneratorSteps ==
  ASSUME FolderInv, \/ FetchSource \/ Shape \/ Compare \/ Kill
                    \/ \E a \in Artifact : WriteTemp(a) \/ Rename(a)
  PROVE  FolderInv'
<1>1. FolderTyped /\ Generating /\ CommittedWhole /\ Registering
  BY DEF FolderInv
<1>2. UNCHANGED <<folder, served, said, pi, refresh>>
  BY DEF FetchSource, Shape, Compare, Kill, WriteTemp, Rename
<1>3. Registering'
  BY <1>2, GeneratorApart
<1>4. /\ \A got : Got(got) => Got(got)'
      /\ \A r : Whole(r) => Whole(r)'
  BY <1>2, SourcesStay
<1>5. Nil # 0
  BY FolderAssumption
<1>6. CASE FetchSource
  <2>1. PICK check \in BOOLEAN :
          gen' = IF Fetched(folder, served) = Nil
                 THEN [[NoRun EXCEPT !.check = check, !.runs = gen.runs + 1] EXCEPT !.exit = 1]
                 ELSE [[NoRun EXCEPT !.check = check, !.runs = gen.runs + 1]
                         EXCEPT !.pc = "shape", !.got = Fetched(folder, served)]
    BY <1>6 DEF FetchSource
  <2>2. /\ gen'.file = "models.json" /\ DOMAIN gen' = DOMAIN NoRun
        /\ \/ gen'.pc = "idle" /\ gen'.exit = 1
           \/ gen'.pc = "shape" /\ gen'.exit = Nil /\ gen'.got = Fetched(folder, served)
              /\ Fetched(folder, served) # Nil
    BY <2>1 DEF NoRun, Artifact
  <2>3. disk' = disk /\ temp' = temp
    BY <1>6 DEF FetchSource
  <2>4. FolderTyped'
    BY <1>1, <1>2, <2>2, <2>3 DEF FolderTyped, NoRun, Artifact
  <2>5. gen'.pc = "shape" => Got(gen.got)'
    BY <1>1, <1>2, <2>2 DEF FolderTyped, Got
  <2>6. Generating'
    BY <1>5, <2>2, <2>5 DEF Generating, NoRun
  <2>7. CommittedWhole'
    BY <1>1, <1>4, <2>3 DEF CommittedWhole
  <2> QED
    BY <1>3, <2>4, <2>6, <2>7 DEF FolderInv
<1>7. CASE Shape
  <2> DEFINE models == Lineup(folder, gen.got, served)
  <2>1. /\ gen.pc = "shape" /\ disk' = disk /\ temp' = temp
        /\ gen' = IF folder = "pi-cline-pass" /\ models = {} THEN [gen EXCEPT !.pc = "idle", !.exit = 1]
                  ELSE [gen EXCEPT !.out = renderArtifacts(folder, models),
                                   !.pc = IF gen.check THEN "compare" ELSE "write"]
    BY <1>7 DEF Shape, Exit
  <2>2. FromSource(models)
    BY <1>1, <2>1 DEF FolderTyped, Generating, Got, FromSource
  <2>3. (folder = "pi-cline-pass" /\ models = {}) \/ Whole(renderArtifacts(folder, models))
    BY <2>2 DEF Whole
  <2> HIDE DEF models
  <2>4. /\ gen'.file = gen.file /\ DOMAIN gen' = DOMAIN gen
        /\ \/ gen'.pc = "idle" /\ gen'.exit = 1
           \/ gen'.pc \in {"compare", "write"} /\ gen'.exit = gen.exit /\ Whole(gen'.out)
    BY <1>1, <2>1, <2>3 DEF FolderTyped
  <2>5. FolderTyped'
    BY <1>1, <1>2, <2>1, <2>4 DEF FolderTyped
  <2>6. gen'.pc \in {"compare", "write"} => Whole(gen.out)'
    BY <1>2, <2>4 DEF Whole, FromSource
  <2>7. gen'.file = "models.json"
    BY <1>1, <2>1, <2>4 DEF Generating
  <2>8. Generating'
    BY <1>1, <1>5, <2>1, <2>4, <2>6, <2>7 DEF Generating
  <2>9. CommittedWhole'
    BY <1>1, <1>4, <2>1 DEF CommittedWhole
  <2> QED
    BY <1>3, <2>5, <2>8, <2>9 DEF FolderInv
<1>8. CASE Compare
  <2>1. /\ gen.pc = "compare" /\ disk' = disk /\ temp' = temp
        /\ gen' = [gen EXCEPT !.pc = "idle", !.exit = IF \A a \in Artifact : alreadyCommitted(a) THEN 0 ELSE 1]
    BY <1>8 DEF Compare, Exit
  <2>2. /\ gen'.pc = "idle" /\ gen'.file = gen.file /\ DOMAIN gen' = DOMAIN gen /\ gen'.out = gen.out
        /\ gen'.exit = 0 => \A a \in Artifact : disk[a] = gen.out[a]
    BY <1>1, <2>1 DEF FolderTyped, alreadyCommitted
  <2>3. gen.out = [a \in Artifact |-> gen.out[a]]
    BY <1>1, <2>1, WholeEntries DEF Generating
  <2>4. gen'.exit = 0 => disk = gen.out
    BY <1>1, <2>2, <2>3 DEF FolderTyped
  <2>5. FolderTyped'
    BY <1>1, <1>2, <2>1, <2>2 DEF FolderTyped
  <2>6. Generating'
    BY <2>1, <2>2, <2>4 DEF Generating
  <2>7. CommittedWhole'
    BY <1>1, <1>4, <2>1 DEF CommittedWhole
  <2> QED
    BY <1>3, <2>5, <2>6, <2>7 DEF FolderInv
<1>9. CASE Kill
  <2>1. gen' = [gen EXCEPT !.pc = "idle", !.exit = Nil] /\ disk' = disk
    BY <1>9 DEF Kill, Exit
  <2>2. gen'.pc = "idle" /\ gen'.file = gen.file /\ DOMAIN gen' = DOMAIN gen /\ gen'.exit = Nil
    BY <1>1, <2>1 DEF FolderTyped
  <2>3. temp' = [a \in Artifact |-> temp'[a]]
    BY <1>1, <1>9 DEF FolderTyped, Kill
  <2>4. FolderTyped'
    BY <1>1, <1>2, <2>1, <2>2, <2>3 DEF FolderTyped
  <2>5. Generating'
    BY <1>5, <2>2 DEF Generating
  <2>6. CommittedWhole'
    BY <1>1, <1>4, <2>1 DEF CommittedWhole
  <2> QED
    BY <1>3, <2>4, <2>5, <2>6 DEF FolderInv
<1>10. ASSUME NEW a \in Artifact, WriteTemp(a)
       PROVE  FolderInv'
  <2>1. /\ gen.pc = "write" /\ gen.file = a /\ disk' = disk
        /\ \/ temp' = [temp EXCEPT ![a] = gen.out[a]] /\ gen' = [gen EXCEPT !.pc = "rename"]
           \/ temp' = [temp EXCEPT ![a] = Torn] /\ gen' = [gen EXCEPT !.pc = "idle", !.exit = 1]
    BY <1>10 DEF WriteTemp, Exit
  <2>2. /\ gen'.file = gen.file /\ DOMAIN gen' = DOMAIN gen /\ gen'.out = gen.out
        /\ \/ gen'.pc = "rename" /\ gen'.exit = gen.exit /\ temp'[a] = gen.out[a]
           \/ gen'.pc = "idle" /\ gen'.exit = 1
    BY <1>1, <2>1 DEF FolderTyped
  <2>3. temp' = [b \in Artifact |-> temp'[b]]
    BY <1>1, <2>1 DEF FolderTyped
  <2>4. FolderTyped'
    BY <1>1, <1>2, <2>1, <2>2, <2>3 DEF FolderTyped
  <2>5. Generating'
    BY <1>1, <1>4, <1>5, <2>1, <2>2 DEF Generating
  <2>6. CommittedWhole'
    BY <1>1, <1>4, <2>1 DEF CommittedWhole
  <2> QED
    BY <1>3, <2>4, <2>5, <2>6 DEF FolderInv
<1>11. ASSUME NEW a \in Artifact, Rename(a)
       PROVE  FolderInv'
  <2>1. /\ gen.pc = "rename" /\ gen.file = a
        /\ disk' = [disk EXCEPT ![a] = temp[a]] /\ temp' = [temp EXCEPT ![a] = Nil]
        /\ gen' = IF a = "models.json" THEN [gen EXCEPT !.pc = "write", !.file = "models.js"]
                  ELSE [gen EXCEPT !.pc = "idle", !.exit = 0]
    BY <1>11 DEF Rename, Wrote, Exit
  <2>2. /\ disk' = [b \in Artifact |-> disk'[b]] /\ temp' = [b \in Artifact |-> temp'[b]]
        /\ disk'[a] = gen.out[a] /\ \A b \in Artifact : b # a => disk'[b] = disk[b]
    BY <1>1, <2>1 DEF FolderTyped, Generating
  <2>3. /\ gen'.file = "models.js" /\ DOMAIN gen' = DOMAIN gen /\ gen'.out = gen.out
        /\ \/ a = "models.json" /\ gen'.pc = "write" /\ gen'.exit = gen.exit
           \/ a = "models.js" /\ gen'.pc = "idle" /\ gen'.exit = 0
    BY <1>1, <2>1 DEF FolderTyped, Artifact
  <2>4. Whole(gen.out) /\ gen.out = [b \in Artifact |-> gen.out[b]]
    BY <1>1, <2>1, WholeEntries DEF Generating
  <2>5. a = "models.js" => disk' = gen.out
    <3>1. a = "models.js" => \A b \in Artifact : disk'[b] = gen.out[b]
      BY <1>1, <2>1, <2>2 DEF Generating, Artifact
    <3> QED
      BY <2>2, <2>4, <3>1
  <2>6. FolderTyped'
    BY <1>1, <1>2, <2>2, <2>3 DEF FolderTyped, Artifact
  <2>7. Generating'
    BY <1>1, <1>4, <1>5, <2>1, <2>2, <2>3, <2>4, <2>5 DEF Generating
  <2>8. CommittedWhole'
    BY <1>1, <1>4, <2>2, <2>4 DEF CommittedWhole
  <2> QED
    BY <1>3, <2>6, <2>7, <2>8 DEF FolderInv
<1> QED
  BY <1>6, <1>7, <1>8, <1>9, <1>10, <1>11

\* A list pi may register: the seed, what it stored, or what it has fetched.
LEMMA ExtensionSteps ==
  ASSUME FolderInv, \/ LoadExtension \/ RefreshBegins \/ RefreshFetched \/ RefreshPublishes
                    \/ RefreshAborts \/ storeIsFreshEnds
  PROVE  FolderInv'
<1>1. FolderTyped /\ Generating /\ CommittedWhole /\ Registering
  BY DEF FolderInv
<1>2. UNCHANGED <<folder, served, said, gen, disk, temp>>
  BY DEF LoadExtension, RefreshBegins, RefreshFetched, RefreshPublishes, RefreshAborts,
     storeIsFreshEnds
<1>3. Generating' /\ CommittedWhole'
  BY <1>2, ExtensionApart
<1>4. /\ \A got : Got(got) => Got(got)'
      /\ \A e : Sourced(e) => Sourced(e)'
  BY <1>2, SourcesStay
<1>5. Nil \notin {"seed", "store", "fresh"}
  BY FolderAssumption
<1>6. CASE LoadExtension
  <2> DEFINE s == disk["models.js"].models
  <2>1. PICK r : Whole(r) /\ disk["models.js"] = r["models.js"]
    BY <1>1 DEF CommittedWhole, Artifact
  <2>2. \A e \in s : Sourced(e) /\ e.cost # Nil
    BY <2>1, WholeEntries DEF Artifact
  <2>3. pi' = [pi EXCEPT !.seed = s, !.models = s, !.from = "seed"] /\ refresh' = refresh
    BY <1>6 DEF LoadExtension
  <2> HIDE DEF s
  <2>4. /\ pi'.seed = s /\ pi'.models = s /\ pi'.from = "seed" /\ pi'.stored = pi.stored
        /\ DOMAIN pi' = DOMAIN pi
    BY <1>1, <2>3 DEF FolderTyped
  <2>5. Registering'
    BY <1>1, <1>4, <2>2, <2>3, <2>4 DEF Registering, Stored
  <2>6. FolderTyped'
    BY <1>1, <1>2, <2>3, <2>4 DEF FolderTyped
  <2> QED
    BY <1>3, <2>5, <2>6 DEF FolderInv
<1>7. ASSUME pi' = fromStore(pi), refresh'.pc = "publish" => Got(refresh.got)',
             refresh'.pc \in {"idle", "fetch", "publish"}, DOMAIN refresh' = DOMAIN refresh
      PROVE  FolderInv'
  <2>1. \/ pi' = pi
        \/ pi.stored \notin {Nil, {}} /\ pi' = [pi EXCEPT !.models = pi.stored, !.from = "store"]
    BY <1>7 DEF fromStore
  <2>2. /\ pi'.seed = pi.seed /\ pi'.stored = pi.stored /\ DOMAIN pi' = DOMAIN pi
        /\ \/ pi'.models = pi.models /\ pi'.from = pi.from
           \/ pi.stored \notin {Nil, {}} /\ pi'.models = Stored /\ pi'.from = "store"
    BY <1>1, <2>1 DEF FolderTyped, Stored
  <2>3. Stored' = Stored
    BY <2>2 DEF Stored
  <2>4. \A e \in pi'.seed \cup pi'.models \cup Stored' : e.cost # Nil /\ Sourced(e)'
    BY <1>1, <1>4, <2>2, <2>3 DEF Registering
  <2>5. pi'.seed # {} => pi'.models # {}
    BY <1>1, <2>2 DEF Registering, Stored
  <2>6. Registering'
    BY <1>1, <1>7, <2>2, <2>4, <2>5 DEF Registering
  <2>7. FolderTyped'
    BY <1>1, <1>2, <1>7, <2>2 DEF FolderTyped
  <2> QED
    BY <1>3, <2>6, <2>7 DEF FolderInv
<1>8. ASSUME pi'.seed = pi.seed, pi'.models = pi.models, pi'.from = pi.from, pi'.stored = pi.stored,
             DOMAIN pi' = DOMAIN pi,
             refresh'.pc = "publish" => Got(refresh.got)',
             refresh'.pc \in {"idle", "fetch", "publish"}, DOMAIN refresh' = DOMAIN refresh
      PROVE  FolderInv'
  <2>1. Registering'
    BY <1>1, <1>4, <1>8 DEF Registering, Stored
  <2>2. FolderTyped'
    BY <1>1, <1>2, <1>8 DEF FolderTyped
  <2> QED
    BY <1>3, <2>1, <2>2 DEF FolderInv
<1>9. CASE RefreshBegins
  <2>1. \/ refresh' = [pc |-> "fetch", got |-> Nil, count |-> refresh.count + 1] /\ pi' = pi
        \/ refresh' = [refresh EXCEPT !.count = @ + 1] /\ pi' = fromStore(pi)
    BY <1>9 DEF RefreshBegins
  <2>2. refresh.pc = "idle"
    BY <1>9 DEF RefreshBegins
  <2>3. refresh'.pc \in {"fetch", "idle"} /\ DOMAIN refresh' = DOMAIN refresh
    BY <1>1, <2>1, <2>2 DEF FolderTyped
  <2> QED
    BY <1>7, <1>8, <2>1, <2>3
<1>10. CASE RefreshFetched
  <2>1. \/ refresh' = [refresh EXCEPT !.pc = "idle"] /\ pi' = fromStore(pi)
        \/ /\ Fetched(folder, served) # Nil /\ pi' = pi
           /\ refresh' = [refresh EXCEPT !.pc = "publish", !.got = Fetched(folder, served)]
    BY <1>10 DEF RefreshFetched
  <2>2. CASE refresh' = [refresh EXCEPT !.pc = "idle"] /\ pi' = fromStore(pi)
    <3>1. refresh'.pc = "idle" /\ DOMAIN refresh' = DOMAIN refresh
      BY <1>1, <2>2 DEF FolderTyped
    <3> QED
      BY <1>7, <2>2, <3>1
  <2>3. CASE /\ Fetched(folder, served) # Nil /\ pi' = pi
             /\ refresh' = [refresh EXCEPT !.pc = "publish", !.got = Fetched(folder, served)]
    <3>1. /\ refresh'.pc = "publish" /\ DOMAIN refresh' = DOMAIN refresh
          /\ refresh'.got = Fetched(folder, served)
      BY <1>1, <2>3 DEF FolderTyped
    <3>2. Got(refresh.got)'
      BY <1>1, <1>2, <2>3, <3>1 DEF FolderTyped, Got
    <3> QED
      BY <1>8, <2>3, <3>1, <3>2
  <2> QED
    BY <2>1, <2>2, <2>3
<1>11. CASE RefreshPublishes
  <2> DEFINE models == Lineup(folder, refresh.got, served)
             list == WithSeed(folder, models, pi.seed)
  <2>1. /\ refresh.pc = "publish" /\ refresh' = [refresh EXCEPT !.pc = "idle", !.got = Nil]
        /\ pi' = [pi EXCEPT !.models = list, !.from = "fresh", !.stored = list, !.fresh = TRUE]
    BY <1>11 DEF RefreshPublishes
  <2>2. FromSource(models)
    BY <1>1, <2>1 DEF FolderTyped, Registering, Got, FromSource
  <2>3. Seeds(models, pi.seed, list)
    BY FolderProjects
  <2> HIDE DEF models, list
  <2>4. \A e \in list : e.cost # Nil /\ Sourced(e)
    BY <1>1, <2>2, <2>3 DEF Seeds, Registering, Sourced
  <2>5. Ids(pi.seed) \subseteq Ids(list)
    BY <2>3 DEF Seeds
  <2>6. pi.seed # {} => list # {}
    BY <2>5 DEF Ids
  <2>7. /\ pi'.seed = pi.seed /\ pi'.models = list /\ pi'.from = "fresh" /\ pi'.stored = list
        /\ DOMAIN pi' = DOMAIN pi /\ refresh'.pc = "idle" /\ DOMAIN refresh' = DOMAIN refresh
    BY <1>1, <2>1 DEF FolderTyped
  <2>8. Registering'
    BY <1>1, <1>4, <2>4, <2>5, <2>6, <2>7 DEF Registering, Stored
  <2>9. FolderTyped'
    BY <1>1, <1>2, <2>7 DEF FolderTyped
  <2> QED
    BY <1>3, <2>8, <2>9 DEF FolderInv
<1>12. CASE RefreshAborts
  <2>1. refresh' = [refresh EXCEPT !.pc = "idle", !.got = Nil] /\ pi' = pi
    BY <1>12 DEF RefreshAborts
  <2>2. refresh'.pc = "idle" /\ DOMAIN refresh' = DOMAIN refresh
    BY <1>1, <2>1 DEF FolderTyped
  <2> QED
    BY <1>8, <2>1, <2>2
<1>13. CASE storeIsFreshEnds
  <2>1. refresh' = refresh /\ pi' = [pi EXCEPT !.fresh = FALSE]
    BY <1>13 DEF storeIsFreshEnds
  <2>2. /\ pi'.seed = pi.seed /\ pi'.models = pi.models /\ pi'.from = pi.from /\ pi'.stored = pi.stored
        /\ DOMAIN pi' = DOMAIN pi
    BY <1>1, <2>1 DEF FolderTyped
  <2>3. refresh'.pc = "publish" => Got(refresh.got)'
    BY <1>1, <1>4, <2>1 DEF Registering
  <2> QED
    BY <1>1, <1>8, <2>1, <2>2, <2>3 DEF FolderTyped
<1> QED
  BY <1>6, <1>9, <1>10, <1>11, <1>12, <1>13

LEMMA FolderSteps == FolderInv /\ [FolderNext]_folderVars => FolderInv'
<1> SUFFICES ASSUME FolderInv, [FolderNext]_folderVars PROVE FolderInv'
  OBVIOUS
<1>1. ASSUME said \subseteq said', served' \in said', said' \subseteq Answers[folder],
             UNCHANGED <<folder, gen, disk, temp, pi, refresh>>
      PROVE  FolderInv'
  <2>1. /\ \A got : Got(got) => Got(got)'
        /\ \A r : Whole(r) => Whole(r)'
        /\ \A e : Sourced(e) => Sourced(e)'
    BY <1>1, SourcesStay
  <2>2. FolderTyped'
    BY <1>1 DEF FolderInv, FolderTyped
  <2>3. Generating'
    BY <1>1, <2>1 DEF FolderInv, Generating
  <2>4. CommittedWhole'
    BY <1>1, <2>1 DEF FolderInv, CommittedWhole
  <2>5. Registering'
    BY <1>1, <2>1 DEF FolderInv, Registering, Stored
  <2> QED
    BY <2>2, <2>3, <2>4, <2>5 DEF FolderInv
<1>2. CASE Serve
  BY <1>1, <1>2 DEF Serve, FolderInv, FolderTyped
<1>3. CASE UNCHANGED folderVars
  BY <1>1, <1>3 DEF folderVars, FolderInv, FolderTyped
<1> QED
  BY <1>2, <1>3, GeneratorSteps, ExtensionSteps DEF FolderNext

\* Between any two steps of generator, provider and extension, FolderInv holds.
THEOREM FolderInvariance == FolderSpec => []FolderInv
  BY FolderBegins, FolderSteps, PTL DEF FolderSpec

\* Whatever run failed or was killed, a committed artifact is a whole rendering, and status
\* 0 means both are the one the run has fetched.
THEOREM CommittedStaysWhole == FolderSpec => []CommittedIsWhole
<1>1. FolderInv => CommittedIsWhole
  BY DEF FolderInv, Generating, CommittedWhole, Whole, FromSource, CommittedIsWhole
<1> QED
  BY <1>1, FolderInvariance, PTL

\* No refresh, seed or snapshot leaves pi without what it had.
THEOREM ProviderStaysUp == FolderSpec => []ProviderStands
<1>1. FolderInv => ProviderStands
  BY DEF FolderInv, Registering, ProviderStands
<1> QED
  BY <1>1, FolderInvariance, PTL

-----------------------------------------------------------------------------
\* What a row, or a record of the slice, lists is published for its id.
LEMMA RowPublishes ==
  ASSUME NEW x \in said, NEW row \in Rows(x)
  PROVE  RowEfforts(row) \subseteq Published(row.id)
<1> DEFINE rows == {y \in UNION {Rows(a) : a \in said} : y.id = row.id}
<1>1. RowEfforts(row) \in {RowEfforts(r) : r \in rows}
  OBVIOUS
<1>2. UNION {RowEfforts(r) : r \in rows} \subseteq Published(row.id)
  BY DEF Published
<1> QED
  BY <1>1, <1>2

LEMMA RecordPublishes ==
  ASSUME NEW x \in said, NEW k \in DOMAIN Records(x), NEW o \in Records(x)[k].reasoning_options
  PROVE  o.values \subseteq Published(k)
<1> DEFINE listed(a) == UNION {p.values : p \in Records(a)[k].reasoning_options}
           naming == {y \in said : k \in DOMAIN Records(y)}
           rows == UNION {RowEfforts(r) : r \in {y \in UNION {Rows(a) : a \in said} : y.id = k}}
<1>1. Published(k) = rows \cup UNION {listed(a) : a \in naming}
  BY DEF Published
<1> HIDE DEF rows
<1>2. listed(x) \in {listed(a) : a \in naming}
  OBVIOUS
<1>3. o.values \subseteq listed(x)
  OBVIOUS
<1> HIDE DEF listed
<1> QED
  BY <1>1, <1>2, <1>3

\* A model's map sends, for a level, nothing or one of the efforts published for its id.
MapPublished(m) ==
  m.thinkingLevelMap # Nil =>
    \A l \in DOMAIN m.thinkingLevelMap :
      m.thinkingLevelMap[l] # Nil => m.thinkingLevelMap[l] \in Published(m.id)

LEMMA HyperLevels ==
  ASSUME folder = "pi-hyper", NEW x \in said, Hyper!fetchCatalog(x) # Nil,
         NEW m \in Hyper!shapeCatalog(Hyper!fetchCatalog(x))
  PROVE  MapPublished(m)
<1>1. PICK row \in x.rows : m = Hyper!shapeRow(row) /\ m # Nil
  BY DEF Hyper!fetchCatalog, Hyper!shapeCatalog
<1> DEFINE efforts == Hyper!effortValues(row)
           map == Hyper!thinkingLevelMapFor(efforts)
<1>2. /\ m.id = row.id
      /\ m.thinkingLevelMap = IF ~row.can_reason THEN Nil
                              ELSE IF map = Nil THEN Hyper!ON_OFF_THINKING_LEVEL_MAP ELSE map
  <2> HIDE DEF map
  <2> QED
    BY <1>1 DEF Hyper!shapeRow, map
<1>3. RowEfforts(row) \subseteq Published(m.id)
  BY <1>1, <1>2, RowPublishes DEF Rows
<1>4. CASE efforts = Nil
  <2>1. map = Nil /\ RowEfforts(row) = {"off", "max"}
    BY <1>4 DEF Hyper!thinkingLevelMapFor, Hyper!effortValues, RowEfforts
  <2> HIDE DEF map
  <2>2. m.thinkingLevelMap # Nil => m.thinkingLevelMap = Hyper!ON_OFF_THINKING_LEVEL_MAP
    BY <1>2, <2>1
  <2> QED
    BY <1>3, <2>1, <2>2 DEF MapPublished, Hyper!ON_OFF_THINKING_LEVEL_MAP
<1>5. CASE efforts # Nil
  <2>1. map = [k \in Hyper!PI_THINKING_LEVELS |->
                IF Hyper!EFFORT_TO_PI(k) \in efforts THEN Hyper!EFFORT_TO_PI(k) ELSE Nil]
    BY <1>5 DEF Hyper!thinkingLevelMapFor
  <2>2. map \in [Hyper!PI_THINKING_LEVELS -> Hyper!PI_THINKING_LEVELS \cup {"none", Nil}]
    BY <2>1 DEF Hyper!EFFORT_TO_PI
  <2>3. map # Nil
    BY <2>2, FolderAssumption
  <2>4. efforts = RowEfforts(row)
    BY <1>5 DEF Hyper!effortValues, RowEfforts
  <2>5. m.thinkingLevelMap # Nil => m.thinkingLevelMap = map
    BY <1>2, <2>3
  <2> QED
    BY <1>3, <2>1, <2>4, <2>5 DEF MapPublished
<1> QED
  BY <1>4, <1>5

LEMMA VerbooLevels ==
  ASSUME folder = "pi-verboo", NEW x \in said, Verboo!fetchListing(x) # Nil,
         NEW m \in Verboo!shapeListing(Verboo!fetchListing(x))
  PROVE  MapPublished(m)
<1>1. PICK row \in x.rows : m = Verboo!shapeRow(row) /\ m # Nil
  BY DEF Verboo!fetchListing, Verboo!shapeListing
<1> DEFINE efforts == Verboo!effortValues(row)
           map == Verboo!thinkingLevelMapFor(efforts)
<1>2. m.id = row.id /\ m.thinkingLevelMap = map
  <2> HIDE DEF map
  <2> QED
    BY <1>1 DEF Verboo!shapeRow, map
<1>3. RowEfforts(row) \subseteq Published(m.id)
  BY <1>1, <1>2, RowPublishes DEF Rows
<1>4. efforts = Nil => map = Nil
  BY DEF Verboo!thinkingLevelMapFor
<1>5. efforts # Nil =>
        /\ efforts = RowEfforts(row)
        /\ map = [k \in Verboo!PI_THINKING_LEVELS |->
                   IF Verboo!EFFORT_TO_PI(k) \in efforts THEN Verboo!EFFORT_TO_PI(k) ELSE Nil]
  BY DEF Verboo!thinkingLevelMapFor, Verboo!effortValues, RowEfforts
<1> HIDE DEF efforts, map
<1> QED
  BY <1>2, <1>3, <1>4, <1>5 DEF MapPublished

LEMMA SynthLevels ==
  ASSUME folder = "pi-synthetic", NEW x \in said, Synth!fetchListing(x) # Nil,
         NEW m \in Synth!shapeListing(Synth!fetchListing(x))
  PROVE  MapPublished(m)
<1>1. PICK row \in x.rows : m = Synth!shapeRow(row) /\ m # Nil
  BY DEF Synth!fetchListing, Synth!shapeListing
<1> DEFINE efforts == Synth!effortsOf(row)
           map == Synth!thinkingLevelMapFor(efforts)
<1>2. m.id = row.id /\ m.thinkingLevelMap = map
  <2> HIDE DEF map
  <2> QED
    BY <1>1 DEF Synth!shapeRow, map
<1>3. RowEfforts(row) \subseteq Published(m.id)
  BY <1>1, <1>2, RowPublishes DEF Rows
<1>4. efforts = Nil => map = Nil
  BY DEF Synth!thinkingLevelMapFor
<1>5. efforts # Nil =>
        /\ efforts = RowEfforts(row)
        /\ map = [k \in Synth!PI_THINKING_LEVELS |->
                   IF Synth!EFFORT_TO_PI(k) \in efforts THEN Synth!EFFORT_TO_PI(k) ELSE Nil]
  BY DEF Synth!thinkingLevelMapFor, Synth!effortsOf, RowEfforts
<1> HIDE DEF efforts, map
<1> QED
  BY <1>2, <1>3, <1>4, <1>5 DEF MapPublished

\* The record a model of pi-cline-pass was shaped from.
LEMMA ClineShapes ==
  ASSUME folder = "pi-cline-pass", folder \in Folder, said \subseteq Answers[folder],
         NEW x \in said, Cline!fetchCatalogSlice(x) # Nil, NEW allowed,
         NEW m \in Cline!shapeCatalog(Cline!fetchCatalogSlice(x), allowed)
  PROVE  /\ m.id \in DOMAIN Records(x) \cap Prefixed \cap allowed /\ m.id \notin Embedding
         /\ m.thinkingLevelMap
              = Cline!thinkingLevelMapFor(Cline!effortValues(Records(x)[m.id]))
<1>1. x.slice # Nil /\ Records(x) = x.slice /\ Cline!fetchCatalogSlice(x) = x.slice
  BY DEF Cline!fetchCatalogSlice, Records
<1>2. PICK k \in DOMAIN Records(x) \cap Prefixed \cap allowed :
        m = Cline!shapeRow([Records(x)[k] EXCEPT !.id = k]) /\ m # Nil
  BY <1>1 DEF Cline!shapeCatalog
<1> DEFINE record == Records(x)[k]
           r == [record EXCEPT !.id = k]
<1>3. {"id", "reasoning_options"} \subseteq DOMAIN record
  BY <1>1, FolderAssumption
<1> HIDE DEF record
<1>4. r.id = k /\ r.reasoning_options = record.reasoning_options
  BY <1>3
<1> HIDE DEF r
<1>5. m = Cline!shapeRow(r) /\ m # Nil
  BY <1>2 DEF r, record
<1>6. /\ m.id = r.id /\ r.id \notin Embedding
      /\ m.thinkingLevelMap = Cline!thinkingLevelMapFor(Cline!effortValues(r))
  BY <1>5 DEF Cline!shapeRow
<1>7. Cline!effortValues(r) = Cline!effortValues(record)
  BY <1>4 DEF Cline!effortValues
<1> QED
  BY <1>2, <1>4, <1>6, <1>7 DEF record

LEMMA ClineLevels ==
  ASSUME folder = "pi-cline-pass", folder \in Folder, said \subseteq Answers[folder],
         NEW x \in said, Cline!fetchCatalogSlice(x) # Nil, NEW allowed,
         NEW m \in Cline!shapeCatalog(Cline!fetchCatalogSlice(x), allowed)
  PROVE  MapPublished(m)
<1> DEFINE record == Records(x)[m.id]
           efforts == Cline!effortValues(record)
           map == Cline!thinkingLevelMapFor(efforts)
<1>1. m.id \in DOMAIN Records(x) /\ m.thinkingLevelMap = map
  BY ClineShapes
<1>2. efforts # Nil => efforts \subseteq Published(m.id)
  <2>1. \A o \in record.reasoning_options : o.values \subseteq Published(m.id)
    BY <1>1, RecordPublishes
  <2> HIDE DEF record
  <2> QED
    BY <2>1 DEF Cline!effortValues
<1>3. efforts = Nil => map = Nil
  BY DEF Cline!thinkingLevelMapFor
<1>4. efforts # Nil =>
        map = [k \in Cline!PI_THINKING_LEVELS |->
                IF Cline!EFFORT_TO_PI(k) \in efforts THEN Cline!EFFORT_TO_PI(k) ELSE Nil]
  BY DEF Cline!thinkingLevelMapFor
<1> HIDE DEF efforts, map
<1> QED
  BY <1>1, <1>2, <1>3, <1>4 DEF MapPublished

LEMMA LineupLevels ==
  ASSUME FolderTyped, NEW models, FromSource(models), NEW m \in models
  PROVE  MapPublished(m)
<1>1. PICK x \in said, y \in said : Fetched(folder, x) # Nil /\ m \in Lineup(folder, Fetched(folder, x), y)
  BY DEF FromSource
<1>2. folder \in Folder /\ said \subseteq Answers[folder]
  BY DEF FolderTyped
<1>3. folder \in {"pi-hyper", "pi-verboo", "pi-synthetic", "pi-cline-pass"}
  BY <1>2, FolderAssumption
<1>4. CASE folder = "pi-hyper"
  BY <1>1, <1>4, HyperLevels DEF Fetched, Lineup
<1>5. CASE folder = "pi-verboo"
  BY <1>1, <1>5, VerbooLevels DEF Fetched, Lineup
<1>6. CASE folder = "pi-synthetic"
  BY <1>1, <1>6, SynthLevels DEF Fetched, Lineup
<1>7. CASE folder = "pi-cline-pass"
  BY <1>1, <1>2, <1>7, ClineLevels DEF Fetched, Lineup
<1> QED
  BY <1>3, <1>4, <1>5, <1>6, <1>7

\* Everything that stands in an artifact, a snapshot or pi has its source.
LEMMA EntriesSourced ==
  ASSUME FolderInv, NEW e \in Entries
  PROVE  Sourced(e)
<1>1. CASE \E a \in Artifact : e \in disk[a].models
  <2>1. PICK a \in Artifact : e \in disk[a].models
    BY <1>1
  <2>2. PICK r : Whole(r) /\ disk[a] = r[a]
    BY DEF FolderInv, CommittedWhole
  <2> QED
    BY <2>1, <2>2, WholeEntries
<1>2. CASE e \in pi.models \cup Stored
  BY <1>2 DEF FolderInv, Registering
<1> QED
  BY <1>1, <1>2 DEF Entries, Stored, Artifact

\* What no artifact, snapshot or registered model ever sends: a wire value for a thinking
\* level that the provider has not published for that model.
THEOREM LevelsStayPublished == FolderSpec => []LevelsPublished
<1>1. FolderInv => LevelsPublished
  <2> SUFFICES ASSUME FolderInv, NEW e \in Entries PROVE MapPublished(e)
    BY DEF LevelsPublished, MapPublished
  <2>1. PICK models : FromSource(models) /\ \E m \in models : EntryOf(e, m)
    BY EntriesSourced DEF Sourced
  <2>2. PICK m \in models : EntryOf(e, m)
    BY <2>1
  <2>3. MapPublished(m)
    BY <2>1, LineupLevels DEF FolderInv
  <2> QED
    BY <2>2, <2>3 DEF EntryOf, MapPublished
<1> QED
  BY <1>1, FolderInvariance, PTL

\* resolveAllowlist: an id outside the committed lineup needs both sources' agreement.
LEMMA OneCardinality == ASSUME NEW S PROVE Cline!Cardinality(S) = Cardinality(S)
  BY DEF Cline!Cardinality, Cardinality

LEMMA AllowlistAgrees ==
  ASSUME NEW y, NEW records, y.table = Nil \/ IsFiniteSet(y.table),
         NEW k \in Cline!resolveAllowlist(Cline!fetchDocsIds(y), records),
         k \in DOMAIN records \cap Prefixed
  PROVE  \/ k \in LINEUP
         \/ LET keys == DOMAIN records \cap Prefixed
                docs == y.table \cap Prefixed
            IN /\ y.docsOk /\ y.table # Nil /\ k \in keys
               /\ 5 * Cardinality(docs \cap keys) >= 4 * Cardinality(docs)
<1> DEFINE keys == DOMAIN records \cap Prefixed
           ids == Cline!fetchDocsIds(y)
           docs == y.table \cap Prefixed
<1>1. CASE ids = Nil \/ 5 * Cardinality(ids \cap keys) < 4 * Cardinality(ids)
  BY <1>1, OneCardinality DEF Cline!resolveAllowlist
<1>2. CASE ids # Nil /\ ~(5 * Cardinality(ids \cap keys) < 4 * Cardinality(ids))
  <2>1. y.docsOk /\ y.table # Nil /\ ids = docs
    BY <1>2 DEF Cline!fetchDocsIds, Cline!parseClinePassDocs
  <2>2. IsFiniteSet(docs) /\ IsFiniteSet(docs \cap keys)
    BY <2>1, FS_Intersection
  <2>3. Cardinality(docs) \in Nat /\ Cardinality(docs \cap keys) \in Nat
    BY <2>2, FS_CardinalityType
  <2> HIDE DEF docs, keys, ids
  <2>4. 5 * Cardinality(docs \cap keys) >= 4 * Cardinality(docs)
    BY <1>2, <2>1, <2>3
  <2> QED
    BY <2>1, <2>4 DEF docs, keys
<1> QED
  BY <1>1, <1>2

\* What pi-cline-pass commits, stores and registers stays within the subscription, at
\* whatever moments the two sources were read.
THEOREM SubscriptionKept == FolderSpec => []SubscriptionContract
<1>1. FolderInv => SubscriptionContract
  <2> SUFFICES ASSUME FolderInv, folder = "pi-cline-pass" PROVE SubscriptionContract
    BY DEF SubscriptionContract
  <2>1. \A a \in Artifact : disk[a].models # {}
    BY WholeEntries DEF FolderInv, CommittedWhole
  <2>2. folder \in Folder /\ said \subseteq Answers[folder]
    BY DEF FolderInv, FolderTyped
  <2>3. ASSUME NEW e \in Entries
        PROVE  /\ e.id \in Prefixed \ Embedding
               /\ \/ e.id \in LINEUP
                  \/ \E x, y \in said :
                       LET keys == DOMAIN Records(x) \cap Prefixed
                           docs == y.table \cap Prefixed
                       IN /\ y.docsOk /\ y.table # Nil
                          /\ e.id \in keys
                          /\ 5 * Cardinality(docs \cap keys) >= 4 * Cardinality(docs)
    <3>1. PICK models : FromSource(models) /\ \E m \in models : EntryOf(e, m)
      BY EntriesSourced DEF Sourced
    <3>2. PICK x \in said, y \in said :
            Fetched(folder, x) # Nil /\ models = Lineup(folder, Fetched(folder, x), y)
      BY <3>1 DEF FromSource
    <3>3. /\ Cline!fetchCatalogSlice(x) # Nil
          /\ models = Cline!shapeCatalog(Cline!fetchCatalogSlice(x),
                         Cline!resolveAllowlist(Cline!fetchDocsIds(y), Cline!fetchCatalogSlice(x)))
      BY <3>2 DEF Fetched, Lineup
    <3>4. PICK m \in models : e.id = m.id
      BY <3>1 DEF EntryOf
    <3>5. Records(x) = Cline!fetchCatalogSlice(x)
      BY <3>3 DEF Records, Cline!fetchCatalogSlice
    <3>6. /\ e.id \in DOMAIN Records(x) \cap Prefixed /\ e.id \notin Embedding
          /\ e.id \in Cline!resolveAllowlist(Cline!fetchDocsIds(y), Records(x))
      BY <2>2, <3>3, <3>4, <3>5, ClineShapes
    <3>7. y.table = Nil \/ IsFiniteSet(y.table)
      BY <2>2, FolderAssumption
    <3> QED
      BY <3>6, <3>7, AllowlistAgrees
  <2> QED
    BY <2>1, <2>3 DEF SubscriptionContract
<1> QED
  BY <1>1, FolderInvariance, PTL

-----------------------------------------------------------------------------
(* The watchdogs of pi's providers *)

\* The places of an opening whose provider was tried.
Reached == {"waiting", "confirmed", "warned", "aborted"}

WatchTyped ==
  /\ wnow \in Nat /\ wnow >= INTERVAL
  /\ last \in [Watched -> Nat]
  /\ open \in [Opens -> Reached \cup {"closed", "quiet", "early"}]
  /\ begun \in [Opens -> [provider : Watched \cup {"none"}, at : Nat, force : BOOLEAN]]

\* An attempt is no later than the last one of its provider, and mistral had its key.
Recorded ==
  \A o \in Opens : open[o] \in Reached =>
    /\ begun[o].provider \in Watched
    /\ begun[o].at <= last[begun[o].provider]
    /\ begun[o].provider = "mistral" => keyed

\* What lastAttemptAt holds is when some opening tried that provider.
Attempted ==
  \A p \in Watched :
    /\ last[p] <= wnow
    /\ last[p] # 0 => \E q \in Opens : /\ open[q] \in Reached
                                       /\ begun[q].provider = p /\ begun[q].at = last[p]

\* Attempts at one provider without force are an interval apart, warned or not.
Apart ==
  \A o, q \in Opens :
    /\ o # q /\ open[o] \in Reached /\ open[q] \in Reached
    /\ begun[o].provider = begun[q].provider
    /\ ~begun[o].force /\ ~begun[q].force
    => begun[o].at >= begun[q].at + INTERVAL \/ begun[q].at >= begun[o].at + INTERVAL

\* An opening within the interval has another one's attempt behind it.
Excused ==
  \A o \in Opens : open[o] = "early" =>
    \E q \in Opens \ {o} :
      /\ open[q] \in Reached
      /\ begun[q].provider = begun[o].provider
      /\ begun[q].at <= begun[o].at /\ begun[o].at < begun[q].at + INTERVAL

WatchInv == WatchTyped /\ Recorded /\ Attempted /\ Apart /\ Excused

LEMMA WatchBegins == WatchInit => WatchInv
  BY WatchAssumption DEF WatchInit, WatchInv, WatchTyped, Recorded, Attempted, Apart, Excused,
     Reached, NotBegun

\* An opening that waits, or ends, is one that was tried before.
LEMMA OpeningMoves ==
  ASSUME WatchInv, NEW o \in Opens, open[o] = "waiting",
         NEW how \in Reached, open' = [open EXCEPT ![o] = how],
         UNCHANGED <<wnow, keyed, last, begun>>
  PROVE  WatchInv'
<1>1. \A q \in Opens : open'[q] \in Reached <=> open[q] \in Reached
  BY DEF WatchInv, WatchTyped, Reached
<1>2. \A q \in Opens : open'[q] = "early" => open[q] = "early"
  BY DEF WatchInv, WatchTyped, Reached
<1>3. WatchTyped'
  BY DEF WatchInv, WatchTyped, Reached
<1>4. (Recorded /\ Attempted /\ Apart)'
  BY <1>1 DEF WatchInv, Recorded, Attempted, Apart
<1>5. Excused'
  BY <1>1, <1>2 DEF WatchInv, Excused
<1> QED
  BY <1>3, <1>4, <1>5 DEF WatchInv

\* An attempt.
LEMMA AttemptKeeps ==
  ASSUME WatchInv, NEW o \in Opens, NEW p \in Watched, NEW force \in BOOLEAN,
         open[o] = "closed", Observable(p), force \/ wnow >= DueAt(p),
         Attempt(p, o, force), UNCHANGED <<wnow, keyed>>
  PROVE  WatchInv'
<1>1. /\ WatchTyped /\ Recorded /\ Attempted /\ Apart /\ Excused
  BY DEF WatchInv
<1>2. WatchTyped'
  BY <1>1, Zenon DEF WatchTyped, Attempt, Reached
<1>3. /\ \A q \in Opens \ {o} : open'[q] = open[q] /\ begun'[q] = begun[q]
      /\ open'[o] = "waiting" /\ begun'[o].provider = p /\ begun'[o].at = wnow
      /\ \A r \in Watched \ {p} : last'[r] = last[r]
      /\ last'[p] = wnow
  BY <1>1 DEF WatchTyped, Attempt
<1>4. begun'[o].force = force
  BY <1>1, Zenon DEF WatchTyped, Attempt
<1>5. open[o] \notin Reached /\ open'[o] \in Reached
  BY <1>3 DEF Reached
<1>6. Recorded'
  BY <1>1, <1>3, <1>5 DEF WatchTyped, Recorded, Attempted, Observable, Attempt
<1>7. Attempted'
  <2>1. ASSUME NEW r \in Watched
        PROVE  /\ last'[r] <= wnow'
               /\ last'[r] # 0 => \E q \in Opens : /\ open'[q] \in Reached
                                   /\ begun'[q].provider = r /\ begun'[q].at = last'[r]
    <3>1. CASE r = p
      BY <3>1, <1>1, <1>3, <1>5 DEF WatchTyped
    <3>2. CASE r # p
      <4>1. last'[r] = last[r] /\ last[r] <= wnow
        BY <3>2, <1>1, <1>3 DEF Attempted
      <4>2. ASSUME last[r] # 0
            PROVE  \E q \in Opens : /\ open'[q] \in Reached
                                    /\ begun'[q].provider = r /\ begun'[q].at = last[r]
        <5>1. PICK q \in Opens : open[q] \in Reached /\ begun[q].provider = r /\ begun[q].at = last[r]
          BY <4>2, <1>1 DEF Attempted
        <5> QED
          BY <5>1, <1>3, <1>5
      <4> QED
        BY <4>1, <4>2
    <3> QED
      BY <3>1, <3>2
  <2> QED
    BY <2>1 DEF Attempted
<1>8. Apart'
  <2>1. ASSUME NEW q \in Opens, q # o, open[q] \in Reached, begun[q].provider = p, ~force
        PROVE  wnow >= begun[q].at + INTERVAL
    BY <2>1, <1>1, WatchAssumption DEF WatchTyped, Recorded, DueAt
  <2>2. ASSUME NEW x \in Opens, NEW q \in Opens, x # q, open'[x] \in Reached, open'[q] \in Reached,
               begun'[x].provider = begun'[q].provider, ~begun'[x].force, ~begun'[q].force
        PROVE  begun'[x].at >= begun'[q].at + INTERVAL \/ begun'[q].at >= begun'[x].at + INTERVAL
    <3>1. CASE x # o /\ q # o
      BY <3>1, <2>2, <1>1, <1>3 DEF Apart
    <3>2. CASE x = o
      BY <3>2, <2>1, <2>2, <1>3, <1>4
    <3>3. CASE q = o
      BY <3>3, <2>1, <2>2, <1>3, <1>4
    <3> QED
      BY <3>1, <3>2, <3>3
  <2> QED
    BY <2>2, Zenon DEF Apart
<1>9. Excused'
  <2>1. ASSUME NEW x \in Opens, open'[x] = "early"
        PROVE  \E q \in Opens \ {x} :
                 /\ open'[q] \in Reached
                 /\ begun'[q].provider = begun'[x].provider
                 /\ begun'[q].at <= begun'[x].at /\ begun'[x].at < begun'[q].at + INTERVAL
    <3>1. x # o /\ open[x] = "early"
      BY <2>1, <1>3
    <3>2. PICK q \in Opens \ {x} : /\ open[q] \in Reached
                                   /\ begun[q].provider = begun[x].provider
                                   /\ begun[q].at <= begun[x].at /\ begun[x].at < begun[q].at + INTERVAL
      BY <3>1, <1>1 DEF Excused
    <3> QED
      BY <3>1, <3>2, <1>3, <1>5
  <2> QED
    BY <2>1 DEF Excused
<1> QED
  BY <1>2, <1>6, <1>7, <1>8, <1>9 DEF WatchInv

\* An opening that is not to try: it may not, or it is too early.
LEMMA RestKeeps ==
  ASSUME WatchInv, NEW o \in Opens, NEW p \in Watched, NEW force \in BOOLEAN,
         open[o] = "closed",
         NEW how \in {"early", "quiet"}, how = "early" => Observable(p) /\ ~force /\ wnow < DueAt(p),
         open' = [open EXCEPT ![o] = how],
         begun' = [begun EXCEPT ![o] = [provider |-> p, at |-> wnow, force |-> force]],
         UNCHANGED <<wnow, keyed, last>>
  PROVE  WatchInv'
<1>1. /\ WatchTyped /\ Recorded /\ Attempted /\ Apart /\ Excused
  BY DEF WatchInv
<1>2. WatchTyped'
  BY <1>1, Zenon DEF WatchTyped, Reached
<1>3. /\ \A q \in Opens \ {o} : open'[q] = open[q] /\ begun'[q] = begun[q]
      /\ open'[o] = how /\ begun'[o].provider = p /\ begun'[o].at = wnow
  BY <1>1 DEF WatchTyped
<1>4. \A q \in Opens : open'[q] \in Reached <=> open[q] \in Reached
  BY <1>3 DEF Reached
<1>5. \A q \in Opens : open[q] \in Reached => begun'[q] = begun[q]
  BY <1>3 DEF Reached
<1>6. (Recorded /\ Attempted /\ Apart)'
  BY <1>1, <1>4, <1>5 DEF Recorded, Attempted, Apart
<1>7. Excused'
  <2>1. ASSUME NEW x \in Opens, open'[x] = "early"
        PROVE  \E q \in Opens \ {x} :
                 /\ open'[q] \in Reached
                 /\ begun'[q].provider = begun'[x].provider
                 /\ begun'[q].at <= begun'[x].at /\ begun'[x].at < begun'[q].at + INTERVAL
    <3>1. CASE x # o
      <4>1. PICK q \in Opens \ {x} : /\ open[q] \in Reached
                                     /\ begun[q].provider = begun[x].provider
                                     /\ begun[q].at <= begun[x].at /\ begun[x].at < begun[q].at + INTERVAL
        BY <3>1, <2>1, <1>1, <1>3 DEF Excused
      <4> QED
        BY <4>1, <3>1, <1>3, <1>4, <1>5
    <3>2. CASE x = o
      <4>1. wnow < last[p] + INTERVAL /\ last[p] # 0
        BY <3>2, <2>1, <1>1, <1>3, WatchAssumption DEF WatchTyped, DueAt
      <4>2. PICK q \in Opens : open[q] \in Reached /\ begun[q].provider = p /\ begun[q].at = last[p]
        BY <4>1, <1>1 DEF Attempted
      <4>3. last[p] <= wnow
        BY <1>1 DEF Attempted
      <4>4. q # o
        BY <4>2 DEF Reached
      <4> QED
        BY <4>1, <4>2, <4>3, <4>4, <3>2, <1>3, <1>4, <1>5
    <3> QED
      BY <3>1, <3>2
  <2> QED
    BY <2>1 DEF Excused
<1> QED
  BY <1>2, <1>6, <1>7 DEF WatchInv

LEMMA WatchSteps == WatchInv /\ [WatchNext]_watchVars => WatchInv'
<1> SUFFICES ASSUME WatchInv, [WatchNext]_watchVars PROVE WatchInv'
  OBVIOUS
<1>1. CASE WatchTick
  <2>1. WatchTyped'
    BY <1>1, WatchAssumption DEF WatchInv, WatchTyped, WatchTick
  <2>2. (Recorded /\ Attempted /\ Apart /\ Excused)'
    BY <1>1 DEF WatchInv, WatchTyped, WatchTick, Recorded, Attempted, Apart, Excused
  <2> QED
    BY <2>1, <2>2 DEF WatchInv
<1>2. ASSUME NEW o \in Opens, NEW p \in Watched, RefreshModels(p, o)
      PROVE  WatchInv'
  <2>1. PICK allowNetwork \in BOOLEAN, force \in BOOLEAN :
          IF allowNetwork /\ Observable(p) /\ (force \/ wnow >= DueAt(p))
          THEN Attempt(p, o, force)
          ELSE /\ open' = [open EXCEPT ![o] = IF allowNetwork /\ Observable(p) THEN "early" ELSE "quiet"]
               /\ begun' = [begun EXCEPT ![o] = [provider |-> p, at |-> wnow, force |-> force]]
               /\ UNCHANGED last
    BY <1>2, Zenon DEF RefreshModels
  <2>2. open[o] = "closed" /\ UNCHANGED <<wnow, keyed>>
    BY <1>2 DEF RefreshModels
  <2>3. CASE allowNetwork /\ Observable(p) /\ (force \/ wnow >= DueAt(p))
    BY <2>1, <2>2, <2>3, AttemptKeeps, Zenon
  <2>4. CASE ~(allowNetwork /\ Observable(p) /\ (force \/ wnow >= DueAt(p)))
    <3> DEFINE how == IF allowNetwork /\ Observable(p) THEN "early" ELSE "quiet"
    <3>1. /\ open' = [open EXCEPT ![o] = how]
          /\ begun' = [begun EXCEPT ![o] = [provider |-> p, at |-> wnow, force |-> force]]
          /\ UNCHANGED last
      BY <2>1, <2>4, Zenon
    <3>2. how \in {"early", "quiet"} /\ (how = "early" => Observable(p) /\ ~force /\ ~(wnow >= DueAt(p)))
      BY <2>4
    <3>3. ~(wnow >= DueAt(p)) => wnow < DueAt(p)
      BY WatchAssumption DEF WatchInv, WatchTyped, DueAt
    <3> HIDE DEF how
    <3> QED
      BY <2>2, <3>1, <3>2, <3>3, RestKeeps, Zenon
  <2> QED
    BY <2>3, <2>4
<1>3. ASSUME NEW o \in Opens, ListingAnswers(o)
      PROVE  WatchInv'
  BY <1>3, OpeningMoves DEF ListingAnswers, fetchListingCount, Reached
<1>4. ASSUME NEW o \in Opens, WatchAborts(o)
      PROVE  WatchInv'
  BY <1>4, OpeningMoves DEF WatchAborts, Reached
<1>5. CASE UNCHANGED watchVars
  BY <1>5 DEF watchVars, WatchInv, WatchTyped, Recorded, Attempted, Apart, Excused
<1> QED
  BY <1>1, <1>2, <1>3, <1>4, <1>5 DEF WatchNext

\* Whichever listings are slow and however openings overlap, an unforced warning about a
\* provider is the only one of its interval, and silence has an attempt behind it.
THEOREM WarnedOnce == WatchSpec => []WarnedOncePerInterval
<1>1. WatchInv => WarnedOncePerInterval
  BY DEF WatchInv, Recorded, Apart, Excused, Reached, WarnedOncePerInterval
<1> QED
  BY <1>1, WatchBegins, WatchSteps, PTL DEF WatchSpec

-----------------------------------------------------------------------------
(* The probe of a route *)

IsSequence(s) == s \in Seq({s[i] : i \in DOMAIN s})

ProbeTyped ==
  /\ env \in Environment
  /\ ppc \in {"idle", "next", "asked", "again"} /\ cand \in Nat
  /\ job.kind \in Kind /\ IsSequence(job.urls)
  /\ heard \in Seq(Answer \cup {Nothing}) /\ Len(heard) = Len(job.urls)
  /\ facts \in [Cache -> {facts[c] : c \in Cache}]

\* What was asked so far did not deliver, or a catalog without a wanted id.
Passed(j) ==
  Delivered(heard[j]) => job.kind = "candidates" /\ Listed(heard[j].rows) \cap Wanted = {}

\* A walk under way: nothing has won, and nothing is heard from the candidate on.
Walking ==
  ppc # "idle" =>
    /\ cand >= 1 /\ outcome = Lost
    /\ ppc # "next" => cand <= Len(job.urls)
    /\ \A j \in 1..Len(heard) :
         /\ j >= cand => heard[j] = Nothing
         /\ j < cand => Passed(j)

Settled ==
  outcome.won # 0 =>
    /\ Delivered(heard[outcome.won])
    /\ outcome.entries # {} => Ok(heard[outcome.won])
    /\ \A j \in 1..Len(heard) :
         /\ j > outcome.won => heard[j] = Nothing
         /\ j < outcome.won => Passed(j)

\* A candidate is under a base that parses as http or https.
Schemed ==
  job.kind # "catalog" =>
    \A i \in 1..Len(job.urls) : job.urls[i].under.scheme \in {"http", "https"}

BearerKept == tlsOff /\ job.kind # "catalog" => \A url \in wire : url.under.scheme = "http"

CachesKept ==
  /\ \A c \in Cache : facts[c] # {}
  /\ catalog = {"committed"} \/ Required \subseteq catalog

ProbeInv == ProbeTyped /\ Walking /\ Settled /\ Schemed /\ BearerKept /\ CachesKept

\* What is made from a sequence place by place is a sequence of the same length.
LEMMA MappedSequence ==
  ASSUME NEW S, NEW s \in Seq(S), NEW t, t = [i \in DOMAIN s |-> t[i]]
  PROVE  IsSequence(t) /\ Len(t) = Len(s)
<1>1. Len(s) \in Nat /\ DOMAIN s = 1..Len(s)
  BY LenProperties
<1>2. t \in [1..Len(s) -> {t[i] : i \in DOMAIN t}]
  BY <1>1
<1> QED
  BY <1>1, <1>2 DEF IsSequence

\* Induction: a set of numbers that is not empty has a least one.
LEMMA LeastNatural ==
  ASSUME NEW T \in SUBSET Nat, T # {}
  PROVE  \E n \in T : \A m \in T : n <= m
<1>1. PICK n \in T : \A m \in T : <<m, n>> \notin OpToRel(<, Nat)
  BY NatLessThanWellFounded, WFMin
<1>2. \A m \in T : ~ (m < n)
  BY <1>1 DEF OpToRel
<1> QED
  BY <1>2

\* The filter of the bases: what F holds of the first i entries, and F for the first n.
Usable(e) == e # Nothing /\ isUsableProxyBase(e)
Filtered(s, F, i) ==
  IF i = 0 THEN <<>> ELSE IF Usable(s[i]) THEN Append(F[i - 1], s[i]) ELSE F[i - 1]
Filters(s, F, n) == F = [i \in 0..n |-> Filtered(s, F, i)]

LEMMA FilterExists ==
  ASSUME NEW s, NEW n \in Nat
  PROVE  \E F : Filters(s, F, n)
<1> DEFINE Without == {m \in Nat : ~ \E F : Filters(s, F, m)}
<1> SUFFICES ASSUME Without # {} PROVE FALSE
  OBVIOUS
<1>1. PICK m \in Without : \A k \in Without : m <= k
  BY LeastNatural
<1>2. CASE m = 0
  <2> DEFINE F == [i \in 0..0 |-> <<>>]
  <2>1. Filters(s, F, 0)
    BY DEF Filters, Filtered
  <2> QED
    BY <1>1, <1>2, <2>1
<1>3. CASE m # 0
  <2>1. PICK G : Filters(s, G, m - 1)
    BY <1>1, <1>3
  <2> DEFINE F == [i \in 0..m |-> IF i < m THEN G[i] ELSE Filtered(s, G, m)]
  <2>2. m \in Nat /\ m >= 1
    BY <1>1, <1>3
  <2>3. ASSUME NEW i \in 0..m PROVE F[i] = Filtered(s, F, i)
    <3>1. i = 0 \/ F[i - 1] = G[i - 1]
      BY <2>2
    <3>2. CASE i < m
      <4>1. i \in 0..(m - 1)
        BY <2>2, <3>2
      <4>2. F[i] = Filtered(s, G, i)
        BY <2>1, <3>2, <4>1 DEF Filters
      <4> HIDE DEF F
      <4> QED
        BY <3>1, <4>2 DEF Filtered
    <3>3. CASE i = m
      BY <2>2, <3>1, <3>3 DEF Filtered
    <3> QED
      BY <2>2, <3>2, <3>3
  <2>4. Filters(s, F, m)
    BY <2>3 DEF Filters
  <2> QED
    BY <1>1, <2>4
<1> QED
  BY <1>2, <1>3

LEMMA FilterKeeps ==
  ASSUME NEW S, NEW s \in Seq(S)
  PROVE  reverseProxyBaseUrls(s) \in Seq({e \in S : Usable(e)})
<1> DEFINE n == Len(s)
           Left == Seq({e \in S : Usable(e)})
           U == CHOOSE F : Filters(s, F, n)
<1>1. n \in Nat /\ \A i \in 1..n : s[i] \in S
  BY LenProperties, ElementOfSeq
<1>2. reverseProxyBaseUrls(s) = U[n]
  BY DEF reverseProxyBaseUrls, Filters, Filtered, Usable
<1>3. Filters(s, U, n)
  BY <1>1, FilterExists
<1> HIDE DEF n, U
<1> DEFINE Wrong == {i \in Nat : i <= n /\ U[i] \notin Left}
<1>4. ASSUME Wrong # {} PROVE FALSE
  <2>1. PICK i \in Wrong : \A k \in Wrong : i <= k
    BY <1>4, LeastNatural
  <2>2. U[i] = Filtered(s, U, i)
    BY <1>1, <1>3, <2>1 DEF Filters
  <2>3. i # 0 => U[i - 1] \in Left
    BY <1>1, <2>1
  <2>4. i # 0 => s[i] \in S
    BY <1>1, <2>1
  <2>5. U[i] \in Left
    <3>1. CASE i = 0
      BY <2>2, <3>1, EmptySeq DEF Filtered
    <3>2. CASE i # 0 /\ Usable(s[i])
      <4>1. s[i] \in {e \in S : Usable(e)}
        BY <2>4, <3>2
      <4> QED
        BY <2>2, <2>3, <3>2, <4>1, AppendProperties DEF Filtered
    <3>3. CASE i # 0 /\ ~Usable(s[i])
      BY <2>2, <2>3, <3>3 DEF Filtered
    <3> QED
      BY <3>1, <3>2, <3>3
  <2> QED
    BY <2>1, <2>5
<1> QED
  BY <1>1, <1>2, <1>4

LEMMA BasesUsable ==
  ASSUME NEW e \in Environment
  PROVE  LET bases == reverseProxyBaseUrls(e)
         IN /\ \E S : bases \in Seq(S)
            /\ \A i \in DOMAIN bases : bases[i].scheme \in {"http", "https"}
<1> DEFINE bases == reverseProxyBaseUrls(e)
           Good == {x \in {e[i] : i \in DOMAIN e} : Usable(x)}
<1>1. bases \in Seq(Good)
  BY ProbeAssumption, FilterKeeps
<1> HIDE DEF bases
<1>2. \A i \in DOMAIN bases : bases[i] \in Good
  BY <1>1, ElementOfSeq, LenProperties
<1>3. \A b \in Good : b.scheme \in {"http", "https"}
  BY DEF Usable, isUsableProxyBase
<1> HIDE DEF Good
<1> QED
  BY <1>1, <1>2, <1>3 DEF bases

\* Every walk but the catalog's is over bases that can be used.
LEMMA CandidatesUsable ==
  ASSUME ProbeTyped, NEW kind \in Kind, NEW id, NEW override
  PROVE  LET urls == Candidates(kind, id, override)
         IN /\ IsSequence(urls)
            /\ kind # "catalog" =>
                 \A i \in 1..Len(urls) : urls[i].under.scheme \in {"http", "https"}
<1> DEFINE bases == reverseProxyBaseUrls(env)
           urls == Candidates(kind, id, override)
<1>1. PICK S : bases \in Seq(S)
  BY BasesUsable DEF ProbeTyped
<1>2. \A i \in DOMAIN bases : bases[i].scheme \in {"http", "https"}
  BY BasesUsable DEF ProbeTyped
<1>3. ASSUME NEW t, t = [i \in DOMAIN bases |-> t[i]], \A i \in DOMAIN bases : t[i].under = bases[i]
      PROVE  IsSequence(t) /\ \A i \in 1..Len(t) : t[i].under.scheme \in {"http", "https"}
  <2>1. IsSequence(t) /\ Len(t) = Len(bases)
    BY <1>1, <1>3, MappedSequence
  <2>2. DOMAIN bases = 1..Len(t)
    BY <1>1, <2>1, LenProperties
  <2> QED
    BY <1>2, <1>3, <2>1, <2>2
<1>4. CASE kind \in {"routes", "candidates"} \cup Cache
  <2>1. urls = [i \in DOMAIN bases |-> urls[i]] /\ \A i \in DOMAIN bases : urls[i].under = bases[i]
    <3>1. CASE kind = "routes"
      <4>1. urls = [i \in DOMAIN bases |-> providerRouteUrl(bases[i], id)]
        BY <3>1 DEF Candidates
      <4> QED
        BY <4>1 DEF providerRouteUrl, URL
    <3>2. CASE kind = "candidates"
      <4>1. urls = [i \in DOMAIN bases |-> URL(bases[i], Nothing, <<>>)]
        BY <3>2 DEF Candidates
      <4> QED
        BY <4>1 DEF URL
    <3>3. CASE kind = "provider"
      <4>1. urls = [i \in DOMAIN bases |-> URL(bases[i], Upstream[id].host, <<>>)]
        BY <3>3 DEF Candidates, relayCandidates
      <4> QED
        BY <4>1 DEF URL
    <3>4. CASE kind = "catwalk"
      <4>1. urls = [i \in DOMAIN bases |-> URL(bases[i], "catwalk.charm.land", <<>>)]
        BY <3>4 DEF Candidates, relayCandidates
      <4> QED
        BY <4>1 DEF URL
    <3> QED
      BY <1>4, <3>1, <3>2, <3>3, <3>4 DEF Cache
  <2> HIDE DEF urls, bases
  <2>2. IsSequence(urls) /\ \A i \in 1..Len(urls) : urls[i].under.scheme \in {"http", "https"}
    BY <2>1, <1>3
  <2> QED
    BY <2>2 DEF urls
<1>5. CASE kind = "catalog"
  <2>1. urls = relayCandidates("models.dev", env, override)
    BY <1>5 DEF Candidates
  <2>2. CASE override = Unset
    <3>1. urls = [i \in DOMAIN bases |-> URL(bases[i], "models.dev", <<>>)]
      BY <2>1, <2>2 DEF relayCandidates
    <3> HIDE DEF urls, bases
    <3>2. urls = [i \in DOMAIN bases |-> urls[i]] /\ \A i \in DOMAIN bases : urls[i].under = bases[i]
      BY <3>1 DEF URL
    <3>3. IsSequence(urls)
      BY <3>2, <1>3
    <3> QED
      BY <1>5, <3>3 DEF urls
  <2>3. CASE override # Unset
    <3>1. \/ urls = <<URL(override, Nothing, <<>>)>>
          \/ urls = <<>>
      BY <2>1, <2>3 DEF relayCandidates
    <3> HIDE DEF urls
    <3>2. \A u : IsSequence(<<u>>) /\ IsSequence(<<>>)
      BY DEF IsSequence
    <3>3. IsSequence(urls)
      BY <3>1, <3>2, Zenon
    <3> QED
      BY <1>5, <3>3 DEF urls
  <2> QED
    BY <2>2, <2>3
<1> QED
  BY <1>4, <1>5 DEF Kind

LEMMA ProbeStarts == ProbeInit => ProbeInv
<1> SUFFICES ASSUME ProbeInit PROVE ProbeInv
  OBVIOUS
<1>1. ProbeTyped
  <2>1. job.kind \in Kind /\ job.urls = <<>>
    BY DEF ProbeInit, NoJob, Kind
  <2>2. IsSequence(<<>>)
    BY DEF IsSequence
  <2> QED
    BY <2>1, <2>2 DEF ProbeInit, ProbeTyped
<1>2. Walking /\ Settled /\ BearerKept /\ CachesKept
  BY DEF ProbeInit, Walking, Settled, BearerKept, CachesKept, Lost
<1>3. Schemed
  BY DEF ProbeInit, NoJob, Schemed
<1> QED
  BY <1>1, <1>2, <1>3 DEF ProbeInv

\* A verdict is usable where the candidate delivered, catalogs without a wanted id apart.
LEMMA JudgedRight ==
  ASSUME NEW a \in Answer, job.kind \in Kind
  PROVE  /\ Judged(a).usable => Delivered(a)
         /\ ~Judged(a).usable /\ Delivered(a) =>
              job.kind = "candidates" /\ Listed(a.rows) \cap Wanted = {}
         /\ Judged(a).usable /\ Judged(a).entries # {} => Ok(a)
<1>1. a # Nothing /\ Nothing # 200
  BY ProbeAssumption
<1>2. CASE job.kind = "routes"
  <2>1. Judged(a) = probeRoute(a)
    BY <1>2 DEF Judged
  <2>2. Delivered(a) <=> /\ a.status # Nothing /\ a.status \notin {404, 502, 504}
                         /\ a.status = 200 => a.rows # Nothing
    BY <1>1, <1>2 DEF Delivered, Cache
  <2>3. probeRoute(a).usable <=> /\ a.status # Nothing /\ a.status \notin {404, 502, 504}
                                 /\ a.status = 200 => a.rows # Nothing
    BY <1>1 DEF probeRoute, Ok, DEAD_ROUTE_STATUSES
  <2>4. probeRoute(a).entries # {} => Ok(a)
    BY DEF probeRoute
  <2> QED
    BY <2>1, <2>2, <2>3, <2>4
<1>3. CASE job.kind = "candidates"
  <2>1. Judged(a) = probeCandidate(a)
    BY <1>3 DEF Judged
  <2>2. Delivered(a) <=> Ok(a) /\ a.rows # Nothing
    BY <1>1, <1>3 DEF Delivered, Ok, Cache
  <2>3. probeCandidate(a).usable <=> Ok(a) /\ a.rows # Nothing /\ Listed(a.rows) \cap Wanted # {}
    BY DEF probeCandidate
  <2> QED
    BY <1>3, <2>1, <2>2, <2>3
<1>4. CASE job.kind \in Cache
  <2>1. Judged(a) = relayFetch(a)
    BY <1>4 DEF Judged, Cache
  <2>2. Delivered(a) <=> Ok(a) /\ a.json
    BY <1>1, <1>4 DEF Delivered, Ok, Cache
  <2>3. relayFetch(a).usable <=> Ok(a) /\ a.json
    BY <1>4 DEF relayFetch, Cache
  <2> QED
    BY <2>1, <2>2, <2>3
<1>5. CASE job.kind = "catalog"
  <2>1. Judged(a) = relayFetch(a)
    BY <1>5 DEF Judged
  <2>2. Delivered(a) <=> Ok(a)
    BY <1>1, <1>5 DEF Delivered, Ok, Cache
  <2>3. relayFetch(a).usable <=> Ok(a)
    BY <1>5 DEF relayFetch
  <2> QED
    BY <2>1, <2>2, <2>3
<1> QED
  BY <1>2, <1>3, <1>4, <1>5 DEF Kind

LEMMA HeardTyped ==
  ASSUME ProbeTyped
  PROVE  /\ Len(job.urls) \in Nat /\ DOMAIN heard = 1..Len(heard) /\ Len(heard) = Len(job.urls)
         /\ \A j \in 1..Len(heard) : heard[j] \in Answer \cup {Nothing}
  BY LenProperties, ElementOfSeq DEF ProbeTyped, IsSequence

LEMMA ProbeWalks == ProbeInv /\ [ProbeNext]_probeVars => ProbeInv'
<1> SUFFICES ASSUME ProbeInv, [ProbeNext]_probeVars PROVE ProbeInv'
  OBVIOUS
<1>0. ProbeTyped /\ Walking /\ Settled /\ Schemed /\ BearerKept /\ CachesKept
  BY DEF ProbeInv
<1>1. CASE ProbeBegins
  <2>1. PICK kind \in Kind, id \in DOMAIN Upstream, override \in Override :
          /\ job' = [kind |-> kind, provider |-> id, urls |-> Candidates(kind, id, override)]
          /\ heard' = [i \in DOMAIN Candidates(kind, id, override) |-> Nothing]
    BY <1>1 DEF ProbeBegins
  <2> DEFINE urls == Candidates(kind, id, override)
  <2>2. /\ IsSequence(urls)
        /\ kind # "catalog" => \A i \in 1..Len(urls) : urls[i].under.scheme \in {"http", "https"}
    BY <1>0, CandidatesUsable
  <2> HIDE DEF urls
  <2>3. job'.kind = kind /\ job'.urls = urls
    BY <2>1 DEF urls
  <2>4. Len(urls) \in Nat /\ DOMAIN urls = 1..Len(urls)
    BY <2>2, LenProperties DEF IsSequence
  <2>5. heard' = [i \in 1..Len(urls) |-> Nothing]
    BY <2>1, <2>4 DEF urls
  <2>6. heard' \in Seq(Answer \cup {Nothing}) /\ Len(heard') = Len(urls)
    BY <2>4, <2>5
  <2>7. /\ UNCHANGED <<env, tlsOff, facts, catalog>>
        /\ ppc' = "next" /\ cand' = 1 /\ wire' = {} /\ outcome' = Lost
    BY <1>1 DEF ProbeBegins
  <2>8. ProbeTyped'
    BY <1>0, <2>2, <2>3, <2>6, <2>7 DEF ProbeTyped
  <2>9. Walking'
    BY <2>4, <2>5, <2>6, <2>7 DEF Walking
  <2>10. Settled' /\ BearerKept' /\ CachesKept'
    BY <1>0, <2>7 DEF Settled, BearerKept, CachesKept, Lost
  <2>11. Schemed'
    BY <2>2, <2>3 DEF Schemed
  <2> QED
    BY <2>8, <2>9, <2>10, <2>11 DEF ProbeInv
<1>2. CASE Exhausted
  BY <1>0, <1>2 DEF Exhausted, ProbeInv, ProbeTyped, Walking, Settled, Schemed, BearerKept,
     CachesKept, Passed, Delivered, Lost
<1>3. CASE SkipUnverifiable
  <2>1. /\ UNCHANGED <<env, tlsOff, ppc, job, heard, wire, outcome, facts, catalog>>
        /\ ppc = "next" /\ cand' = cand + 1 /\ cand <= Len(job.urls)
    BY <1>3 DEF SkipUnverifiable
  <2>2. ProbeTyped' /\ Settled' /\ Schemed' /\ BearerKept' /\ CachesKept'
    BY <1>0, <2>1 DEF ProbeTyped, Settled, Schemed, BearerKept, CachesKept, Passed, Delivered
  <2>3. Walking'
    <3>1. \A j \in 1..Len(heard) : heard[j] = Nothing => ~Delivered(heard[j])
      BY DEF Delivered
    <3>2. \A j \in 1..Len(heard) : Passed(j)' <=> Passed(j)
      BY <2>1 DEF Passed, Delivered
    <3>3. Len(heard) \in Nat
      BY <1>0, HeardTyped
    <3> QED
      BY <1>0, <2>1, <3>1, <3>2, <3>3 DEF Walking, Passed, ProbeTyped
  <2> QED
    BY <2>2, <2>3 DEF ProbeInv
<1>4. CASE Ask
  <2>1. /\ UNCHANGED <<env, tlsOff, job, cand, heard, outcome, facts, catalog>>
        /\ ppc = "next" /\ ppc' = "asked" /\ cand <= Len(job.urls)
        /\ ~Refused(job.urls[cand]) /\ wire' = wire \cup {job.urls[cand]}
    BY <1>4 DEF Ask
  <2>2. ProbeTyped' /\ Settled' /\ Schemed' /\ CachesKept'
    BY <1>0, <2>1 DEF ProbeTyped, Settled, Schemed, CachesKept, Passed, Delivered
  <2>3. Walking'
    BY <1>0, <2>1 DEF Walking, Passed, Delivered
  <2>4. BearerKept'
    <3>1. cand \in 1..Len(job.urls)
      BY <1>0, <2>1, HeardTyped DEF Walking, ProbeTyped
    <3> QED
      BY <1>0, <2>1, <3>1 DEF BearerKept, Schemed, Refused, tlsUnverifiable
  <2> QED
    BY <2>2, <2>3, <2>4 DEF ProbeInv
<1>5. ASSUME NEW a \in Answer, AskAgain(a)
      PROVE  ProbeInv'
  <2>1. /\ UNCHANGED <<env, tlsOff, job, cand, heard, wire, outcome, facts, catalog>>
        /\ ppc = "asked" /\ ppc' = "again"
    BY <1>5 DEF AskAgain
  <2>2. ProbeTyped' /\ Settled' /\ Schemed' /\ BearerKept' /\ CachesKept'
    BY <1>0, <2>1 DEF ProbeTyped, Settled, Schemed, BearerKept, CachesKept, Passed, Delivered
  <2>3. Walking'
    BY <1>0, <2>1 DEF Walking, Passed, Delivered
  <2> QED
    BY <2>2, <2>3 DEF ProbeInv
<1>6. ASSUME NEW a \in Answer, Answered(a)
      PROVE  ProbeInv'
  <2> DEFINE verdict == Judged(a)
  <2>1. /\ UNCHANGED <<env, tlsOff, job, wire>>
        /\ ppc \in {"asked", "again"} /\ heard' = [heard EXCEPT ![cand] = a]
    BY <1>6 DEF Answered
  <2>2. \/ /\ verdict.usable /\ ppc' = "idle" /\ cand' = cand
           /\ outcome' = [won |-> cand, result |-> verdict.result, entries |-> verdict.entries]
        \/ ~verdict.usable /\ ppc' = "next" /\ cand' = cand + 1 /\ outcome' = outcome
    BY <1>6 DEF Answered
  <2>3. factsRefreshed(verdict) /\ catalogRefreshed(verdict)
    BY <1>6 DEF Answered
  <2>4. /\ verdict.usable => Delivered(a)
        /\ ~verdict.usable /\ Delivered(a) =>
             job.kind = "candidates" /\ Listed(a.rows) \cap Wanted = {}
        /\ verdict.usable /\ verdict.entries # {} => Ok(a)
    BY <1>0, JudgedRight DEF ProbeTyped
  <2> HIDE DEF verdict
  <2>5. /\ cand \in 1..Len(heard) /\ Len(heard) \in Nat /\ cand \in Nat
        /\ heard \in [1..Len(heard) -> Answer \cup {Nothing}]
    BY <1>0, <2>1, HeardTyped DEF Walking, ProbeTyped
  <2>6. /\ heard' \in Seq(Answer \cup {Nothing}) /\ Len(heard') = Len(heard)
        /\ heard'[cand] = a /\ \A j \in 1..Len(heard) : j # cand => heard'[j] = heard[j]
    BY <2>1, <2>5
  <2>7. /\ facts' \in [Cache -> {facts'[c] : c \in Cache}]
        /\ \A c \in Cache : facts'[c] # {}
    BY <1>0, <2>3 DEF factsRefreshed, ProbeTyped, CachesKept
  <2>8. catalog' = {"committed"} \/ Required \subseteq catalog'
    BY <1>0, <2>3 DEF catalogRefreshed, CachesKept
  <2>9. ProbeTyped'
    BY <1>0, <2>1, <2>2, <2>5, <2>6, <2>7 DEF ProbeTyped
  <2>10. \A x : Delivered(x)' <=> Delivered(x)
    BY <2>1 DEF Delivered
  <2>11. \A j \in 1..Len(heard) : j < cand => Passed(j)'
    BY <1>0, <2>1, <2>5, <2>6, <2>10 DEF Walking, Passed
  <2>12. Walking'
    <3>1. CASE ~verdict.usable
      <4>1. PICK c \in 1..Len(heard) : c = cand
        BY <2>5
      <4>2. Passed(c)'
        BY <2>1, <2>4, <2>6, <2>10, <3>1, <4>1 DEF Passed
      <4>3. \A j \in 1..Len(heard) : j < c + 1 => Passed(j)'
        BY <2>5, <2>11, <4>1, <4>2
      <4>4. \A j \in 1..Len(heard) : j >= c + 1 => heard'[j] = Nothing
        BY <1>0, <2>1, <2>5, <2>6, <4>1 DEF Walking
      <4>5. cand' = c + 1 /\ ppc' = "next" /\ outcome' = Lost
        BY <1>0, <2>1, <2>2, <3>1, <4>1 DEF Walking
      <4> QED
        BY <2>5, <2>6, <4>1, <4>3, <4>4, <4>5 DEF Walking
    <3>2. CASE verdict.usable
      BY <2>2, <3>2 DEF Walking
    <3> QED
      BY <3>1, <3>2
  <2>13. Settled'
    <3>1. CASE verdict.usable
      BY <1>0, <2>1, <2>2, <2>4, <2>5, <2>6, <2>10, <2>11, <3>1 DEF Settled, Walking
    <3>2. CASE ~verdict.usable
      BY <1>0, <2>1, <2>2, <3>2 DEF Settled, Walking, Lost
    <3> QED
      BY <3>1, <3>2
  <2>14. Schemed' /\ BearerKept' /\ CachesKept'
    BY <1>0, <2>1, <2>7, <2>8 DEF Schemed, BearerKept, CachesKept
  <2> QED
    BY <2>9, <2>12, <2>13, <2>14 DEF ProbeInv
<1>7. CASE UNCHANGED probeVars
  BY <1>0, <1>7 DEF probeVars, ProbeInv, ProbeTyped, Walking, Settled, Schemed, BearerKept,
     CachesKept, Passed, Delivered
<1> QED
  BY <1>1, <1>2, <1>3, <1>4, <1>5, <1>6, <1>7 DEF ProbeNext

\* At every step the walk's candidates, bearer and caches are what ProbeInv says.
THEOREM ProbeInvariance == ProbeSpec => []ProbeInv
  BY ProbeStarts, ProbeWalks, PTL DEF ProbeSpec

\* Whatever the candidates answer, the walk takes the first that delivers, and neither
\* the bearer nor a cache suffers from one that does not.
THEOREM RoutesTrusted == ProbeSpec => []RouteTrusted
<1>1. ProbeInv => RouteTrusted
  BY DEF ProbeInv, Settled, Passed, BearerKept, CachesKept, RouteTrusted
<1> QED
  BY <1>1, ProbeInvariance, PTL

-----------------------------------------------------------------------------
(* The installation of the agent's configuration *)

\* A document with no base in it, which may be committed.
Canonical(doc) == \A id \in DOMAIN doc : doc[id] # Nothing => doc[id].under = Nothing

LEMMA PrefixOfConcat ==
  ASSUME NEW S, NEW s \in Seq(S), NEW t \in Seq(S)
  PROVE  IsPrefix(s, s \o t)
<1>1. Len(s) <= Len(s \o t) /\ s \o t \in Seq(S)
  BY ConcatProperties, LenProperties
<1>2. SubSeq(s, 1, Len(s)) = s
  BY SubSeqFull
<1>3. SubSeq(s \o t, 1, Len(s)) = s
  OBVIOUS
<1> QED
  BY <1>1, <1>2, <1>3 DEF IsPrefix

LEMMA RestOfSequence ==
  ASSUME NEW S, NEW s \in Seq(S), NEW n \in Nat
  PROVE  SubSeq(s, n + 1, Len(s)) \in Seq(S)
<1>1. \A i \in (n + 1)..Len(s) : s[i] \in S
  BY ElementOfSeq
<1> QED
  BY <1>1, SubSeqProperties

\* A URL that is rewritten was its row's upstream, and leads there through the base.
LEMMA RewrittenLeads ==
  ASSUME NEW base, NEW id, NEW url, url.path \in Path,
         routeUrlFromCanonical(base, id, url) # Nothing
  PROVE  LET route == routeUrlFromCanonical(base, id, url)
         IN /\ id \in DOMAIN Upstream /\ url.under = Nothing
            /\ route.under = base /\ route.host = Upstream[id].host
            /\ IsPrefix(Upstream[id].path, route.path)
<1> DEFINE up == Upstream[id].path
           suffix == SubSeq(url.path, Len(up) + 1, Len(url.path))
<1>1. id \in DOMAIN Upstream /\ StartsWith(url, Upstream[id])
  BY DEF routeUrlFromCanonical
<1>2. up \in Path /\ suffix \in Path
  <2>1. up \in Path
    BY <1>1, RouteAssumption
  <2> HIDE DEF up
  <2>2. Len(up) \in Nat
    BY <2>1, LenProperties DEF Path
  <2> QED
    BY <2>1, <2>2, RestOfSequence DEF Path
<1>3. routeUrlFromCanonical(base, id, url) =
        [under |-> base, host |-> Upstream[id].host, path |-> up \o suffix]
  BY <1>1 DEF routeUrlFromCanonical, providerRouteUrl, URL
<1>4. IsPrefix(up, up \o suffix)
  BY <1>2, PrefixOfConcat DEF Path
<1> QED
  BY <1>1, <1>3, <1>4 DEF StartsWith

LEMMA InstalledLeads ==
  ASSUME NEW base, NEW doc,
         \A id \in DOMAIN doc : doc[id] # Nothing => doc[id].path \in Path,
         installRouted(doc, base) # Nothing
  PROVE  /\ DOMAIN installRouted(doc, base) = DOMAIN doc
         /\ Leads(installRouted(doc, base), base)
         /\ Canonical(doc)
<1> DEFINE mapped == rewriteProviderUrls(doc, base)
           routed == [id \in DOMAIN doc |-> mapped[id].url]
<1>1. installRouted(doc, base) = routed /\ \A id \in DOMAIN doc : ~mapped[id].throws
  BY Zenon DEF installRouted
<1>2. ASSUME NEW id \in DOMAIN doc, doc[id] # Nothing
      PROVE  /\ routed[id] = routeUrlFromCanonical(base, Fact(id), doc[id])
             /\ routed[id] # Nothing
  BY <1>1, <1>2 DEF rewriteProviderUrls
<1>3. ASSUME NEW id \in DOMAIN doc, doc[id] = Nothing
      PROVE  routed[id] = Nothing
  BY <1>3 DEF rewriteProviderUrls
<1>4. Leads(routed, base)
  BY <1>2, <1>3, RewrittenLeads DEF Leads
<1>5. Canonical(doc)
  BY <1>2, RewrittenLeads DEF Canonical
<1> QED
  BY <1>1, <1>4, <1>5

-----------------------------------------------------------------------------
\* The stages behind the two generators and behind the two installs.
Installed == {"snapshot", "opencode", "ocinstall", "occommit", "end"}
Merged == {"default", "install"} \cup Installed

InstallTyped ==
  /\ stage \in {"idle", "settings", "mcp", "catalog", "pi"} \cup Merged
  /\ DOMAIN agent = {"settings", "mcp", "models", "oc"}
  /\ DOMAIN tree = {"models", "oc", "catalog"}
  /\ DOMAIN out = {"models", "overlay", "oc", "catalog"}
  /\ agent.mcp \in ServerFile \cup {Nothing, Broken}
  /\ stage # "idle" => code = Nothing

\* What the operator wrote is there.
Kept ==
  \A n \in owned : /\ agent.mcp # Nothing
                   /\ n \in DOMAIN agent.mcp /\ agent.mcp[n] = "operator"

\* What the generators left in the run's output.
Produced ==
  /\ stage \in Merged => out.models \in Generated \ {Nothing}
  /\ stage \in {"ocinstall", "occommit"} => out.oc \in GeneratedOc /\ ~SkipsOpencode

\* Whatever is installed, by this run or an earlier one, was routed by its run.
Led ==
  /\ agent.models # Nothing => DOMAIN agent.models # {} /\ \E b \in used : Leads(agent.models, b)
  /\ agent.oc # Nothing => \E b \in used : Leads(agent.oc, b)

Uncredited == \A doc \in {tree.models, tree.oc} \ {TornFile} : Canonical(doc)

\* What this run has installed and committed so far.
ThisRun ==
  /\ stage \in Installed =>
       /\ agent.models = Routed(out.models) /\ agent.models # Nothing
       /\ Leads(agent.models, reverseProxyBaseUrl(base0)) /\ Canonical(out.models)
  /\ stage \in Installed \ {"snapshot"} /\ ~host.termux /\ host.writable =>
       tree.models \in {out.models, TornFile}
  /\ stage = "occommit" => Canonical(out.oc)
  /\ stage = "occommit" \/ (stage = "end" /\ ~SkipsOpencode) =>
       Leads(agent.oc, reverseProxyBaseUrl(base0))

\* A run that exited 0 has left behind what it installed.
LastRun ==
  code = 0 =>
    /\ agent.models # Nothing /\ Leads(agent.models, reverseProxyBaseUrl(base0))
    /\ ~SkipsOpencode => Leads(agent.oc, reverseProxyBaseUrl(base0))
    /\ ~host.termux /\ host.writable /\ tree.models # TornFile =>
         Routed(tree.models) = agent.models

InstallInv == InstallTyped /\ Kept /\ Produced /\ Led /\ Uncredited /\ ThisRun /\ LastRun

LEMMA RoutedLeads ==
  ASSUME NEW doc \in Generated \cup GeneratedOc, doc # Nothing, Routed(doc) # Nothing
  PROVE  /\ DOMAIN Routed(doc) = DOMAIN doc
         /\ Leads(Routed(doc), reverseProxyBaseUrl(base0))
         /\ Canonical(doc)
<1>1. Routed(doc) = installRouted(doc, reverseProxyBaseUrl(base0))
  BY Zenon DEF Routed
<1>2. \A id \in DOMAIN doc : doc[id] # Nothing => doc[id].path \in Path
  BY InstallAssumption
<1> QED
  BY <1>1, <1>2, InstalledLeads

LEMMA ServerFiles ==
  /\ \A f \in ServerFile : \E S \in SUBSET (Servers \cup Defaults) : f \in [S -> {"operator", "default"}]
  /\ \A S \in SUBSET (Servers \cup Defaults) : [S -> {"operator", "default"}] \subseteq ServerFile
  BY DEF ServerFile

LEMMA InstallBegins == InstallInit => InstallInv
<1> SUFFICES ASSUME InstallInit PROVE InstallInv
  OBVIOUS
<1>1. <<>> \in ServerFile
  <2>1. <<>> \in [{} -> {"operator", "default"}]
    OBVIOUS
  <2>2. {} \in SUBSET (Servers \cup Defaults)
    OBVIOUS
  <2> QED
    BY <2>1, <2>2, ServerFiles
<1>2. InstallTyped
  BY <1>1 DEF InstallInit, InstallTyped, NoOutput
<1>3. Canonical(<<>>)
  BY DEF Canonical
<1>4. Kept /\ Produced /\ Led /\ Uncredited
  BY <1>3 DEF InstallInit, Kept, Produced, Led, Uncredited, Merged, Installed
<1>5. ThisRun /\ LastRun
  BY InstallAssumption DEF InstallInit, ThisRun, LastRun, Installed
<1> QED
  BY <1>2, <1>4, <1>5 DEF InstallInv

LEMMA InstallTypeKept == InstallInv /\ [InstallNext]_installVars => InstallTyped' /\ Kept'
<1> SUFFICES ASSUME InstallInv, [InstallNext]_installVars PROVE InstallTyped' /\ Kept'
  OBVIOUS
<1> USE DEF InstallInv, InstallTyped, Kept, Merged, Installed
<1>1. CASE OperatorEdits
  <2>1. PICK n \in Servers \ owned :
          /\ agent' = [agent EXCEPT !.mcp = [m \in DOMAIN agent.mcp \cup {n} |->
                                                IF m = n THEN "operator" ELSE agent.mcp[m]]]
          /\ owned' = owned \cup {n}
    BY <1>1 DEF OperatorEdits
  <2>2. agent.mcp \in ServerFile
    BY <1>1 DEF OperatorEdits
  <2>3. PICK S \in SUBSET (Servers \cup Defaults) : agent.mcp \in [S -> {"operator", "default"}]
    BY <2>2, ServerFiles
  <2>4. agent'.mcp \in [S \cup {n} -> {"operator", "default"}]
    BY <2>1, <2>3
  <2>5. agent'.mcp \in ServerFile
    BY <2>4, ServerFiles
  <2>6. agent'.mcp # Nothing
    BY <2>5, InstallAssumption
  <2>7. \A m \in owned : agent'.mcp[m] = "operator"
    BY <2>1
  <2>8. n \in DOMAIN agent'.mcp /\ agent'.mcp[n] = "operator" /\ owned \subseteq DOMAIN agent'.mcp
    BY <2>1
  <2>9. stage' = stage /\ code' = code /\ tree' = tree /\ out' = out
    BY <1>1 DEF OperatorEdits
  <2> QED
    BY <2>1, <2>5, <2>6, <2>7, <2>8, <2>9
<1>2. CASE InstallMcp
  <2> DEFINE there == IF agent.mcp = Nothing THEN <<>> ELSE agent.mcp
             merged == [n \in Defaults \cup DOMAIN there |->
                          IF n \in DOMAIN there THEN there[n] ELSE "default"]
  <2>1. CASE agent.mcp = Broken \/ ~host.source
    BY <1>2, <2>1 DEF InstallMcp, At, runRest
  <2>2. CASE ~(agent.mcp = Broken \/ ~host.source)
    <3>1. agent' = [agent EXCEPT !.mcp = merged]
      BY <1>2, <2>2 DEF InstallMcp
    <3>2. PICK S \in SUBSET (Servers \cup Defaults) : there \in [S -> {"operator", "default"}]
      <4>1. CASE agent.mcp = Nothing
        <5>1. there \in [{} -> {"operator", "default"}]
          BY <4>1
        <5> QED
          BY <5>1
      <4>2. CASE agent.mcp # Nothing
        BY <4>2, <2>2, ServerFiles
      <4> QED
        BY <4>1, <4>2
    <3>3. merged \in [Defaults \cup S -> {"operator", "default"}]
      BY <3>2
    <3>4. merged \in ServerFile
      BY <3>3, ServerFiles
    <3>5. merged # Nothing
      BY <3>4, InstallAssumption
    <3>6. \A n \in owned : n \in DOMAIN merged /\ merged[n] = "operator"
      OBVIOUS
    <3> HIDE DEF merged
    <3> QED
      BY <1>2, <3>1, <3>4, <3>5, <3>6 DEF InstallMcp, At, runRest
  <2> QED
    BY <2>1, <2>2
<1>3. CASE RunBegins \/ RunEnds
  BY <1>3 DEF RunBegins, RunEnds, NoOutput, At, runRest
<1>4. CASE \/ InstallSettings \/ RefreshCatalog \/ DefaultModel \/ DefaultModelFails
           \/ GeneratePiFails \/ RunDies
  BY <1>4 DEF InstallSettings, RefreshCatalog, DefaultModel, DefaultModelFails,
     GeneratePiFails, RunDies, At, Fails, runRest
<1>5. CASE GeneratePi \/ GenerateOpencode
  BY <1>5 DEF GeneratePi, GenerateOpencode, At, runRest
<1>6. CASE \/ InstallModels \/ InstallModelsFails \/ refreshCommittedSnapshot
           \/ InstallOpencode \/ InstallOpencodeFails
  BY <1>6 DEF InstallModels, InstallModelsFails, refreshCommittedSnapshot,
     InstallOpencode, InstallOpencodeFails, At, Fails, runRest
<1>7. CASE NoOpencode \/ GenerateOpencodeFails \/ CommitOpencode
  BY <1>7 DEF NoOpencode, GenerateOpencodeFails, CommitOpencode, At, Fails, runRest
<1>8. CASE UNCHANGED installVars
  BY <1>8 DEF installVars
<1> QED
  BY <1>1, <1>2, <1>3, <1>4, <1>5, <1>6, <1>7, <1>8 DEF InstallNext

\* A stage of a run that installs nothing and takes nothing away.
LEMMA StagePasses ==
  ASSUME InstallInv, UNCHANGED <<host, base0, owned, used, tree>>,
         agent'.models = agent.models, agent'.oc = agent.oc, out'.models = out.models, out'.oc = out.oc,
         stage' \in {"settings", "mcp", "catalog", "pi", "default", "install"} \ {stage} \/ stage' = "idle",
         code' # 0, stage' \in Merged => stage \in Merged
  PROVE  (Produced /\ Led /\ Uncredited /\ ThisRun /\ LastRun)'
  BY DEF InstallInv, Produced, Led, Uncredited, ThisRun, LastRun, Merged, Installed, SkipsOpencode

LEMMA InstallKept ==
  InstallInv /\ [InstallNext]_installVars => (Produced /\ Led /\ Uncredited /\ ThisRun /\ LastRun)'
<1> SUFFICES ASSUME InstallInv, [InstallNext]_installVars
             PROVE  (Produced /\ Led /\ Uncredited /\ ThisRun /\ LastRun)'
  OBVIOUS
<1>1. Nothing \notin {0, 1}
  BY InstallAssumption
<1>2. CASE OperatorEdits \/ UNCHANGED installVars
  <2>1. /\ UNCHANGED <<host, stage, base0, tree, out, code, used>>
        /\ agent'.models = agent.models /\ agent'.oc = agent.oc
    BY <1>2 DEF OperatorEdits, installVars, InstallInv, InstallTyped
  <2> QED
    BY <2>1 DEF InstallInv, Produced, Led, Uncredited, ThisRun, LastRun, SkipsOpencode, Routed
<1>3. CASE RunBegins
  BY <1>1, <1>3 DEF RunBegins, InstallInv, Produced, Led, Uncredited, ThisRun, LastRun,
     Merged, Installed
<1>4. CASE InstallSettings \/ InstallMcp \/ DefaultModel
  <2>1. /\ UNCHANGED <<host, base0, owned, used, tree, out, code>>
        /\ agent'.models = agent.models /\ agent'.oc = agent.oc
        /\ stage \in {"settings", "mcp", "default"}
        /\ stage' = IF stage = "settings" THEN "mcp" ELSE IF stage = "mcp" THEN "catalog" ELSE "install"
    BY <1>4 DEF InstallSettings, InstallMcp, DefaultModel, At, runRest, InstallInv, InstallTyped
  <2>2. code' # 0
    BY <2>1, <1>1 DEF InstallInv, InstallTyped
  <2> QED
    BY <2>1, <2>2, StagePasses DEF Merged, Installed
<1>5. CASE RefreshCatalog
  <2>1. /\ UNCHANGED <<host, base0, owned, used, agent, code>>
        /\ tree'.models = tree.models /\ tree'.oc = tree.oc
        /\ out'.models = out.models /\ out'.oc = out.oc
        /\ stage = "catalog" /\ stage' = "pi"
    BY <1>5 DEF RefreshCatalog, At, runRest, InstallInv, InstallTyped
  <2>2. code' # 0
    BY <2>1, <1>1 DEF InstallInv, InstallTyped
  <2> QED
    BY <2>1, <2>2 DEF InstallInv, Produced, Led, Uncredited, ThisRun, LastRun, Merged, Installed
<1>6. CASE GeneratePi
  <2>1. /\ UNCHANGED <<host, base0, owned, used, agent, tree, code>>
        /\ out'.models \in Generated \ {Nothing}
        /\ stage = "pi" /\ stage' = "default"
    BY <1>6 DEF GeneratePi, At, runRest, InstallInv, InstallTyped
  <2>2. code' # 0
    BY <2>1, <1>1 DEF InstallInv, InstallTyped
  <2> QED
    BY <2>1, <2>2 DEF InstallInv, Produced, Led, Uncredited, ThisRun, LastRun, Merged, Installed
<1>7. CASE \/ GeneratePiFails \/ DefaultModelFails \/ InstallModelsFails
           \/ GenerateOpencodeFails \/ InstallOpencodeFails
  <2>1. /\ UNCHANGED <<host, base0, owned, used, agent, tree, out>>
        /\ stage' = "idle" /\ code' = 1
    BY <1>7 DEF GeneratePiFails, DefaultModelFails, InstallModelsFails, GenerateOpencodeFails,
       InstallOpencodeFails, Fails, runRest
  <2> QED
    BY <2>1, StagePasses DEF Merged, Installed
<1>8. CASE InstallModels
  <2>1. /\ UNCHANGED <<host, base0, owned, tree, out, code>>
        /\ agent'.models = Routed(out.models) /\ agent'.oc = agent.oc
        /\ stage = "install" /\ stage' = "snapshot"
        /\ DOMAIN out.models # {} /\ Routed(out.models) # Nothing
        /\ used' = used \cup {reverseProxyBaseUrl(base0)}
    BY <1>8 DEF InstallModels, UsesBase, At, runRest, InstallInv, InstallTyped
  <2>2. code' # 0
    BY <2>1, <1>1 DEF InstallInv, InstallTyped
  <2>3. out.models \in Generated \ {Nothing}
    BY <2>1 DEF InstallInv, Produced, Merged
  <2>4. /\ DOMAIN Routed(out.models) = DOMAIN out.models
        /\ Leads(Routed(out.models), reverseProxyBaseUrl(base0))
        /\ Canonical(out.models)
    BY <2>1, <2>3, RoutedLeads
  <2>5. Routed(out.models)' = Routed(out.models)
    BY <2>1 DEF Routed
  <2>6. Produced' /\ Uncredited' /\ LastRun'
    BY <2>1, <2>2, <2>3 DEF InstallInv, Produced, Uncredited, LastRun
  <2>7. Led'
    BY <2>1, <2>4 DEF InstallInv, Led
  <2>8. ThisRun'
    BY <2>1, <2>4, <2>5 DEF InstallInv, ThisRun, Installed
  <2> QED
    BY <2>6, <2>7, <2>8
<1>9. CASE refreshCommittedSnapshot
  <2>1. /\ UNCHANGED <<host, base0, owned, agent, out, code, used>>
        /\ stage = "snapshot" /\ stage' = "opencode"
        /\ tree'.oc = tree.oc
        /\ ~host.termux /\ host.writable => tree'.models \in {out.models, TornFile}
        /\ ~(~host.termux /\ host.writable) => tree'.models = tree.models
    BY <1>9 DEF refreshCommittedSnapshot, At, runRest, InstallInv, InstallTyped
  <2>2. code' # 0
    BY <2>1, <1>1 DEF InstallInv, InstallTyped
  <2>3. Produced' /\ Led' /\ LastRun'
    BY <2>1, <2>2 DEF InstallInv, Produced, Led, LastRun, Merged, Installed
  <2>4. Uncredited'
    BY <2>1 DEF InstallInv, Uncredited, ThisRun, Installed
  <2>5. ThisRun'
    BY <2>1 DEF InstallInv, ThisRun, Installed, Routed
  <2> QED
    BY <2>3, <2>4, <2>5
<1>10. CASE NoOpencode
  <2>1. /\ UNCHANGED <<host, base0, owned, agent, tree, out, code, used>>
        /\ stage = "opencode" /\ stage' = "end" /\ SkipsOpencode
    BY <1>10 DEF NoOpencode, At, runRest
  <2>2. code' # 0
    BY <2>1, <1>1 DEF InstallInv, InstallTyped
  <2> QED
    BY <2>1, <2>2 DEF InstallInv, Produced, Led, Uncredited, ThisRun, LastRun, Merged, Installed,
       SkipsOpencode, Routed
<1>11. CASE GenerateOpencode
  <2>1. /\ UNCHANGED <<host, base0, owned, agent, tree, code, used>>
        /\ stage = "opencode" /\ stage' = "ocinstall" /\ ~SkipsOpencode
        /\ out'.oc \in GeneratedOc /\ out'.models = out.models
    BY <1>11 DEF GenerateOpencode, At, runRest, InstallInv, InstallTyped
  <2>2. code' # 0
    BY <2>1, <1>1 DEF InstallInv, InstallTyped
  <2> QED
    BY <2>1, <2>2 DEF InstallInv, Produced, Led, Uncredited, ThisRun, LastRun, Merged, Installed,
       SkipsOpencode, Routed
<1>12. CASE InstallOpencode
  <2>1. /\ UNCHANGED <<host, base0, owned, tree, out, code>>
        /\ agent'.oc = Routed(out.oc) /\ agent'.models = agent.models
        /\ stage = "ocinstall" /\ stage' = "occommit"
        /\ Routed(out.oc) # Nothing
        /\ used' = used \cup {reverseProxyBaseUrl(base0)}
    BY <1>12 DEF InstallOpencode, UsesBase, At, runRest, InstallInv, InstallTyped
  <2>2. code' # 0
    BY <2>1, <1>1 DEF InstallInv, InstallTyped
  <2>3. out.oc \in GeneratedOc /\ out.oc # Nothing
    BY <2>1, InstallAssumption DEF InstallInv, Produced
  <2>4. Leads(Routed(out.oc), reverseProxyBaseUrl(base0)) /\ Canonical(out.oc)
    BY <2>1, <2>3, RoutedLeads
  <2>5. Produced' /\ Uncredited' /\ LastRun'
    BY <2>1, <2>2, <2>3 DEF InstallInv, Produced, Uncredited, LastRun, Merged, Installed, SkipsOpencode
  <2>6. Led'
    BY <2>1, <2>4 DEF InstallInv, Led
  <2>7. ThisRun'
    BY <2>1, <2>4 DEF InstallInv, ThisRun, Installed, Routed
  <2> QED
    BY <2>5, <2>6, <2>7
<1>13. CASE CommitOpencode
  <2>1. /\ UNCHANGED <<host, base0, owned, agent, out, code, used>>
        /\ stage = "occommit" /\ stage' = "end"
        /\ tree'.models = tree.models /\ tree'.oc \in {tree.oc, out.oc, TornFile}
    BY <1>13 DEF CommitOpencode, At, runRest, InstallInv, InstallTyped
  <2>2. code' # 0
    BY <2>1, <1>1 DEF InstallInv, InstallTyped
  <2>3. Produced' /\ Led' /\ LastRun'
    BY <2>1, <2>2 DEF InstallInv, Produced, Led, LastRun, Merged, Installed
  <2>4. Uncredited'
    BY <2>1 DEF InstallInv, Uncredited, ThisRun
  <2>5. ThisRun'
    BY <2>1 DEF InstallInv, ThisRun, Installed, Routed
  <2> QED
    BY <2>3, <2>4, <2>5
<1>14. CASE RunEnds
  <2>1. /\ UNCHANGED <<host, base0, owned, agent, tree, used>>
        /\ stage = "end" /\ stage' = "idle" /\ code' = 0
    BY <1>14 DEF RunEnds, At, runRest
  <2> QED
    BY <2>1 DEF InstallInv, Produced, Led, Uncredited, ThisRun, LastRun, Merged, Installed,
       SkipsOpencode, Routed
<1>15. CASE RunDies
  <2>1. /\ UNCHANGED <<host, base0, owned, agent, out, code, used>>
        /\ stage # "idle" /\ stage' = "idle"
        /\ tree'.models \in {tree.models, TornFile} /\ tree'.oc \in {tree.oc, TornFile}
    BY <1>15 DEF RunDies, runRest, InstallInv, InstallTyped
  <2>2. code' # 0
    BY <2>1, <1>1 DEF InstallInv, InstallTyped
  <2> QED
    BY <2>1, <2>2 DEF InstallInv, Produced, Led, Uncredited, ThisRun, LastRun, Merged, Installed
<1> QED
  BY <1>2, <1>3, <1>4, <1>5, <1>6, <1>7, <1>8, <1>9, <1>10, <1>11, <1>12, <1>13, <1>14, <1>15
  DEF InstallNext

\* Between any two stages, and after any death, InstallInv holds.
THEOREM InstallInvariance == InstallSpec => []InstallInv
<1>1. InstallInv /\ [InstallNext]_installVars => InstallInv'
  BY InstallTypeKept, InstallKept DEF InstallInv
<1> QED
  BY <1>1, InstallBegins, PTL DEF InstallSpec

\* Whatever stage failed or died and however the bases changed, what stands on the host is
\* routed, what is committed carries no base, and the operator's servers are there.
THEOREM RoutedHost == InstallSpec => []HostRouted
<1>1. InstallInv => HostRouted
  BY DEF InstallInv, Led, Uncredited, Canonical, LastRun, Kept, HostRouted
<1> QED
  BY <1>1, InstallInvariance, PTL

-----------------------------------------------------------------------------
(* The build: targets, their children and their logs *)

\* Induction up to n, for a set of numbers.
LEMMA UpTo ==
  ASSUME NEW n \in Nat, NEW T, 0 \in T, \A i \in 1..n : i - 1 \in T => i \in T
  PROVE  \A i \in 0..n : i \in T
<1> DEFINE Left == {i \in Nat : i <= n /\ i \notin T}
<1>1. ASSUME Left # {} PROVE FALSE
  <2>1. PICK i \in Left : \A k \in Left : i <= k
    BY <1>1, LeastNatural
  <2>2. i \in 1..n /\ i - 1 \in Nat /\ i - 1 <= n
    BY <2>1
  <2>3. i - 1 \in T
    BY <2>1, <2>2
  <2> QED
    BY <2>1, <2>2, <2>3
<1> QED
  BY <1>1

\* The recursion of Selected.
OrderBody(chosen, F, i) == IF i = 0 THEN <<>> ELSE IF BuildOrder[i] \in chosen THEN Append(F[i - 1], BuildOrder[i]) ELSE F[i - 1]
OrderSays(chosen, F, n) == F = [i \in 0..n |-> OrderBody(chosen, F, i)]

LEMMA OrderExists ==
  ASSUME NEW chosen, NEW n \in Nat
  PROVE  \E F : OrderSays(chosen, F, n)
<1> DEFINE Some(m) == \E F : OrderSays(chosen, F, m)
           T == {m \in 0..n : Some(m)}
<1>1. 0 \in T
  <2> DEFINE F == [i \in 0..0 |-> <<>>]
  <2>1. OrderSays(chosen, F, 0)
    BY DEF OrderSays, OrderBody
  <2> HIDE DEF F
  <2> QED
    BY <2>1
<1>2. ASSUME NEW m \in 1..n, m - 1 \in T PROVE m \in T
  <2>1. PICK G : OrderSays(chosen, G, m - 1)
    BY <1>2
  <2> DEFINE F == [i \in 0..m |-> IF i < m THEN G[i] ELSE OrderBody(chosen, G, m)]
  <2>2. ASSUME NEW i \in 0..m PROVE F[i] = OrderBody(chosen, F, i)
    <3>1. i = 0 \/ F[i - 1] = G[i - 1]
      OBVIOUS
    <3>2. CASE i < m
      <4>1. i \in 0..(m - 1)
        BY <3>2
      <4>2. F[i] = OrderBody(chosen, G, i)
        BY <2>1, <3>2, <4>1 DEF OrderSays
      <4> HIDE DEF F
      <4> QED
        BY <3>1, <4>2 DEF OrderBody
    <3>3. CASE i = m
      <4>1. F[i] = OrderBody(chosen, G, m)
        BY <3>3
      <4> HIDE DEF F
      <4> QED
        BY <3>1, <3>3, <4>1 DEF OrderBody
    <3> QED
      BY <3>2, <3>3
  <2>3. F = [i \in 0..m |-> F[i]]
    OBVIOUS
  <2> HIDE DEF F
  <2>4. OrderSays(chosen, F, m)
    BY <2>2, <2>3 DEF OrderSays
  <2> QED
    BY <2>4
<1> HIDE DEF T
<1>3. \A i \in 0..n : i \in T
  BY <1>1, <1>2, UpTo
<1>4. Some(n)
  BY <1>3 DEF T
<1> QED
  BY <1>4

\* The recursion of Feed.
ReadBody(buffer, chunk, F, i) == IF i = 0 THEN buffer ELSE Reads(F[i - 1], chunk[i])
ReadSays(buffer, chunk, F, n) == F = [i \in 0..n |-> ReadBody(buffer, chunk, F, i)]

LEMMA ReadExists ==
  ASSUME NEW buffer, NEW chunk, NEW n \in Nat
  PROVE  \E F : ReadSays(buffer, chunk, F, n)
<1> DEFINE Some(m) == \E F : ReadSays(buffer, chunk, F, m)
           T == {m \in 0..n : Some(m)}
<1>1. 0 \in T
  <2> DEFINE F == [i \in 0..0 |-> buffer]
  <2>1. ReadSays(buffer, chunk, F, 0)
    BY DEF ReadSays, ReadBody
  <2> HIDE DEF F
  <2> QED
    BY <2>1
<1>2. ASSUME NEW m \in 1..n, m - 1 \in T PROVE m \in T
  <2>1. PICK G : ReadSays(buffer, chunk, G, m - 1)
    BY <1>2
  <2> DEFINE F == [i \in 0..m |-> IF i < m THEN G[i] ELSE ReadBody(buffer, chunk, G, m)]
  <2>2. ASSUME NEW i \in 0..m PROVE F[i] = ReadBody(buffer, chunk, F, i)
    <3>1. i = 0 \/ F[i - 1] = G[i - 1]
      OBVIOUS
    <3>2. CASE i < m
      <4>1. i \in 0..(m - 1)
        BY <3>2
      <4>2. F[i] = ReadBody(buffer, chunk, G, i)
        BY <2>1, <3>2, <4>1 DEF ReadSays
      <4> HIDE DEF F
      <4> QED
        BY <3>1, <4>2 DEF ReadBody
    <3>3. CASE i = m
      <4>1. F[i] = ReadBody(buffer, chunk, G, m)
        BY <3>3
      <4> HIDE DEF F
      <4> QED
        BY <3>1, <3>3, <4>1 DEF ReadBody
    <3> QED
      BY <3>2, <3>3
  <2>3. F = [i \in 0..m |-> F[i]]
    OBVIOUS
  <2> HIDE DEF F
  <2>4. ReadSays(buffer, chunk, F, m)
    BY <2>2, <2>3 DEF ReadSays
  <2> QED
    BY <2>4
<1> HIDE DEF T
<1>3. \A i \in 0..n : i \in T
  BY <1>1, <1>2, UpTo
<1>4. Some(n)
  BY <1>3 DEF T
<1> QED
  BY <1>4

\* The recursion of LogOf.
LogBody(text, F, i) == IF i = 0 THEN <<>> ELSE IF EndsLine(text, i) THEN Logged(F[i - 1], LineBefore(text, i)) ELSE F[i - 1]
LogSays(text, F, n) == F = [i \in 0..n |-> LogBody(text, F, i)]

LEMMA LogExists ==
  ASSUME NEW text, NEW n \in Nat
  PROVE  \E F : LogSays(text, F, n)
<1> DEFINE Some(m) == \E F : LogSays(text, F, m)
           T == {m \in 0..n : Some(m)}
<1>1. 0 \in T
  <2> DEFINE F == [i \in 0..0 |-> <<>>]
  <2>1. LogSays(text, F, 0)
    BY DEF LogSays, LogBody
  <2> HIDE DEF F
  <2> QED
    BY <2>1
<1>2. ASSUME NEW m \in 1..n, m - 1 \in T PROVE m \in T
  <2>1. PICK G : LogSays(text, G, m - 1)
    BY <1>2
  <2> DEFINE F == [i \in 0..m |-> IF i < m THEN G[i] ELSE LogBody(text, G, m)]
  <2>2. ASSUME NEW i \in 0..m PROVE F[i] = LogBody(text, F, i)
    <3>1. i = 0 \/ F[i - 1] = G[i - 1]
      OBVIOUS
    <3>2. CASE i < m
      <4>1. i \in 0..(m - 1)
        BY <3>2
      <4>2. F[i] = LogBody(text, G, i)
        BY <2>1, <3>2, <4>1 DEF LogSays
      <4> HIDE DEF F
      <4> QED
        BY <3>1, <4>2 DEF LogBody
    <3>3. CASE i = m
      <4>1. F[i] = LogBody(text, G, m)
        BY <3>3
      <4> HIDE DEF F
      <4> QED
        BY <3>1, <3>3, <4>1 DEF LogBody
    <3> QED
      BY <3>2, <3>3
  <2>3. F = [i \in 0..m |-> F[i]]
    OBVIOUS
  <2> HIDE DEF F
  <2>4. LogSays(text, F, m)
    BY <2>2, <2>3 DEF LogSays
  <2> QED
    BY <2>4
<1> HIDE DEF T
<1>3. \A i \in 0..n : i \in T
  BY <1>1, <1>2, UpTo
<1>4. Some(n)
  BY <1>3 DEF T
<1> QED
  BY <1>4

\* A text: what a child may write.
Text(o) == Len(o) \in Nat /\ o = [i \in 1..Len(o) |-> o[i]]

LEMMA TextSequence == ASSUME NEW o, Text(o) PROVE o \in Seq({o[i] : i \in 1..Len(o)})
BY DEF Text

\* The log of the first i characters, and of the end as one more.
Log(text) == CHOOSE F : LogSays(text, F, Len(text) + 1)
LEMMA LogGrows ==
  ASSUME NEW text, Text(text)
  PROVE  /\ Log(text)[0] = <<>>
         /\ \A i \in 1..(Len(text) + 1) :
              Log(text)[i] = IF EndsLine(text, i) THEN Logged(Log(text)[i - 1], LineBefore(text, i))
                             ELSE Log(text)[i - 1]
         /\ LogOf(text) = Log(text)[Len(text) + 1]
<1> DEFINE n == Len(text) + 1
           F == Log(text)
<1>1. n \in Nat
  BY DEF Text
<1>2. \E G : LogSays(text, G, n)
  BY <1>1, LogExists
<1>3. LogSays(text, F, n)
  BY <1>2 DEF Log
<1>4. LogOf(text) = F[n]
  BY DEF LogOf, Log, LogSays, LogBody
<1>5. \A i \in 0..n : F[i] = LogBody(text, F, i)
  <2> HIDE DEF F, n
  <2> QED
    BY <1>3 DEF LogSays
<1>6. F[0] = <<>>
  BY <1>1, <1>5 DEF LogBody
<1>7. ASSUME NEW i \in 1..n
      PROVE  F[i] = IF EndsLine(text, i) THEN Logged(F[i - 1], LineBefore(text, i)) ELSE F[i - 1]
  <2>1. i \in 0..n /\ i # 0
    BY <1>1
  <2> QED
    BY <1>5, <2>1 DEF LogBody
<1> QED
  BY <1>4, <1>6, <1>7

\* Where the line before i begins.
Cut(text, i, j) ==
  /\ j \in 0..(i - 1) /\ (j = 0 \/ text[j] = "\n")
  /\ \A k \in (j + 1)..(i - 1) : text[k] # "\n"

LEMMA CutLine ==
  ASSUME NEW text, NEW i \in Nat \ {0}, NEW j, Cut(text, i, j)
  PROVE  LineBefore(text, i) = SubSeq(text, j + 1, i - 1)
<1> DEFINE c == CHOOSE k \in 0..(i - 1) : /\ k = 0 \/ text[k] = "\n"
                                          /\ \A m \in (k + 1)..(i - 1) : text[m] # "\n"
<1>1. Cut(text, i, c)
  BY DEF Cut
<1>2. LineBefore(text, i) = SubSeq(text, c + 1, i - 1)
  BY DEF LineBefore
<1> HIDE DEF c
<1>3. c = j
  BY <1>1 DEF Cut
<1> QED
  BY <1>2, <1>3

LEMMA CutMoves ==
  ASSUME NEW text, NEW i \in Nat \ {0}, NEW j, Cut(text, i, j)
  PROVE  Cut(text, i + 1, IF text[i] = "\n" THEN i ELSE j)
<1>1. CASE text[i] = "\n"
  BY <1>1 DEF Cut
<1>2. CASE text[i] # "\n"
  BY <1>2 DEF Cut
<1> QED
  BY <1>1, <1>2

LEMMA CutExists ==
  ASSUME NEW text, NEW n \in Nat
  PROVE  \A i \in 0..n : \E j : Cut(text, i + 1, j)
<1> DEFINE Some(i) == \E j : Cut(text, i + 1, j)
           T == {i \in 0..n : Some(i)}
<1>1. 0 \in T
  <2>1. Cut(text, 0 + 1, 0)
    BY DEF Cut
  <2> QED
    BY <2>1
<1>2. ASSUME NEW i \in 1..n, i - 1 \in T PROVE i \in T
  <2>1. PICK j : Cut(text, (i - 1) + 1, j)
    BY <1>2
  <2>2. (i - 1) + 1 = i /\ i \in Nat \ {0} /\ i \in 0..n
    OBVIOUS
  <2>3. Cut(text, i, j)
    BY <2>1, <2>2
  <2>4. Cut(text, i + 1, IF text[i] = "\n" THEN i ELSE j)
    BY <2>2, <2>3, CutMoves
  <2>5. Some(i)
    BY <2>4
  <2> QED
    BY <2>2, <2>5
<1> HIDE DEF T
<1>3. \A i \in 0..n : i \in T
  BY <1>1, <1>2, UpTo
<1> QED
  BY <1>3 DEF T

LEMMA FirstLine ==
  ASSUME NEW text, Text(text) PROVE LineBefore(text, 1) = <<>>
<1>1. Cut(text, 1, 0)
  BY DEF Cut
<1>2. LineBefore(text, 1) = SubSeq(text, 0 + 1, 1 - 1)
  BY <1>1, CutLine
<1> QED
  BY <1>2, TextSequence, SubSeqEmpty

\* A character that is no break joins the line, a break ends it.
LEMMA LineGrows ==
  ASSUME NEW text, Text(text), NEW i \in 1..Len(text)
  PROVE  LineBefore(text, i + 1) =
           IF text[i] = "\n" THEN <<>> ELSE Append(LineBefore(text, i), text[i])
<1> DEFINE V == {text[k] : k \in 1..Len(text)}
<1>1. text \in Seq(V) /\ Len(text) \in Nat
  BY TextSequence DEF Text
<1>2. i \in Nat \ {0} /\ i + 1 \in Nat \ {0} /\ i - 1 \in 0..Len(text) /\ (i - 1) + 1 = i /\ (i + 1) - 1 = i
  BY <1>1
<1>3. PICK j : Cut(text, i, j)
  <2>1. \E j : Cut(text, (i - 1) + 1, j)
    BY <1>1, <1>2, CutExists
  <2> QED
    BY <1>2, <2>1
<1> HIDE DEF V
<1>4. CASE text[i] = "\n"
  <2>1. Cut(text, i + 1, i)
    BY <1>2, <1>3, <1>4, CutMoves
  <2>2. LineBefore(text, i + 1) = SubSeq(text, i + 1, (i + 1) - 1)
    BY <1>2, <2>1, CutLine
  <2>3. SubSeq(text, i + 1, i) = <<>>
    BY <1>1, <1>2, SubSeqEmpty
  <2> QED
    BY <1>2, <1>4, <2>2, <2>3
<1>5. CASE text[i] # "\n"
  <2>1. Cut(text, i + 1, j)
    BY <1>2, <1>3, <1>5, CutMoves
  <2>2. LineBefore(text, i + 1) = SubSeq(text, j + 1, i)
    BY <1>2, <2>1, CutLine
  <2>3. LineBefore(text, i) = SubSeq(text, j + 1, i - 1)
    BY <1>2, <1>3, CutLine
  <2>4. j \in Nat /\ j + 1 \in 1..Len(text) /\ i \in (j + 1)..Len(text)
    BY <1>1, <1>2, <1>3 DEF Cut
  <2>5. SubSeq(text, j + 1, i) = Append(SubSeq(text, j + 1, i - 1), text[i])
    BY <1>1, <2>4, SubSeqRecursiveSecond
  <2> QED
    BY <1>5, <2>2, <2>3, <2>5
<1> QED
  BY <1>4, <1>5

\* What a stream's reader holds when it has read f characters of a text.
Held(text, f) == [part |-> LineBefore(text, f + 1), log |-> Log(text)[f]]

\* One character more.
LEMMA HeldReads ==
  ASSUME NEW text, Text(text), NEW f \in 0..(Len(text) - 1)
  PROVE  Reads(Held(text, f), text[f + 1]) = Held(text, f + 1)
<1>1. Len(text) \in Nat /\ f + 1 \in 1..Len(text) /\ f + 1 \in 1..(Len(text) + 1) /\ (f + 1) - 1 = f
      /\ f + 1 # Len(text) + 1
  BY DEF Text
<1>2. Log(text)[f + 1] = IF EndsLine(text, f + 1) THEN Logged(Log(text)[f], LineBefore(text, f + 1))
                         ELSE Log(text)[f]
  BY <1>1, LogGrows
<1>3. EndsLine(text, f + 1) <=> text[f + 1] = "\n"
  BY <1>1 DEF EndsLine
<1>4. LineBefore(text, (f + 1) + 1) =
        IF text[f + 1] = "\n" THEN <<>> ELSE Append(LineBefore(text, f + 1), text[f + 1])
  BY <1>1, LineGrows
<1> QED
  BY <1>2, <1>3, <1>4 DEF Held, Reads

\* A chunk of n characters, wherever the chunks are cut.
LEMMA HeldFeeds ==
  ASSUME NEW text, Text(text), NEW f \in Nat, NEW n \in Nat, f + n <= Len(text)
  PROVE  Feed(Held(text, f), SubSeq(text, f + 1, f + n)) = Held(text, f + n)
<1> DEFINE V == {text[k] : k \in 1..Len(text)}
           chunk == SubSeq(text, f + 1, f + n)
           b == Held(text, f)
<1>1. text \in Seq(V) /\ Len(text) \in Nat
  BY TextSequence DEF Text
<1>2. Len(chunk) = n /\ \A i \in 1..n : chunk[i] = text[f + i]
  <2>1. n = 0 \/ (f + 1 \in 1..Len(text) /\ f + n \in (f + 1)..Len(text))
    BY <1>1
  <2> HIDE DEF V
  <2>2. CASE n = 0
    BY <1>1, <2>2, SubSeqEmpty
  <2>3. CASE f + 1 \in 1..Len(text) /\ f + n \in (f + 1)..Len(text)
    BY <1>1, <2>3, SubSeqProperties
  <2> QED
    BY <2>1, <2>2, <2>3
<1>3. PICK F : ReadSays(b, chunk, F, n)
  BY ReadExists
<1> HIDE DEF V, chunk, b
<1>4. Feed(b, chunk) = (CHOOSE G : ReadSays(b, chunk, G, n))[n]
  BY <1>2 DEF Feed, ReadSays, ReadBody
<1> DEFINE G == CHOOSE H : ReadSays(b, chunk, H, n)
<1>5. ReadSays(b, chunk, G, n)
  BY <1>3
<1> HIDE DEF G
<1>6. \A i \in 0..n : G[i] = ReadBody(b, chunk, G, i)
  BY <1>5 DEF ReadSays
<1> DEFINE T == {i \in 0..n : G[i] = Held(text, f + i)}
<1>7. 0 \in T
  <2>1. G[0] = b /\ f + 0 = f
    BY <1>6 DEF ReadBody
  <2> QED
    BY <2>1 DEF b
<1>8. ASSUME NEW i \in 1..n, i - 1 \in T PROVE i \in T
  <2>1. i \in 0..n /\ i # 0 /\ f + (i - 1) \in 0..(Len(text) - 1) /\ f + i = (f + (i - 1)) + 1
    BY <1>1
  <2>2. G[i] = Reads(G[i - 1], text[f + i])
    BY <1>2, <1>6, <2>1 DEF ReadBody
  <2>3. G[i - 1] = Held(text, f + (i - 1))
    BY <1>8
  <2>4. Reads(Held(text, f + (i - 1)), text[(f + (i - 1)) + 1]) = Held(text, (f + (i - 1)) + 1)
    BY <2>1, HeldReads
  <2>5. G[i] = Held(text, f + i)
    BY <2>1, <2>2, <2>3, <2>4
  <2> QED
    BY <2>1, <2>5
<1> HIDE DEF T
<1>9. \A i \in 0..n : i \in T
  BY <1>7, <1>8, UpTo
<1>10. n \in T
  BY <1>9
<1> QED
  BY <1>4, <1>10 DEF T, G, b, chunk

\* What is left when a stream ends is its last line.
LEMMA HeldEnds ==
  ASSUME NEW text, Text(text)
  PROVE  Logged(Held(text, Len(text)).log, Held(text, Len(text)).part) = LogOf(text)
<1>1. Len(text) + 1 \in 1..(Len(text) + 1) /\ (Len(text) + 1) - 1 = Len(text)
  BY DEF Text
<1>2. EndsLine(text, Len(text) + 1)
  BY DEF EndsLine
<1>3. LogOf(text) = Logged(Log(text)[Len(text)], LineBefore(text, Len(text) + 1))
  BY <1>1, <1>2, LogGrows
<1> QED
  BY <1>3 DEF Held

\* A child that wrote nothing has an empty log, whether its streams ended or not.
LEMMA NothingLogged == ASSUME NEW log PROVE Logged(log, <<>>) = log
<1>1. DOMAIN <<>> = {}
  OBVIOUS
<1>2. collapseRedrawFrames(<<>>) = <<>>
  BY <1>1 DEF collapseRedrawFrames
<1> QED
  BY <1>2 DEF Logged

LEMMA HeldNothing ==
  ASSUME NEW text, Text(text)
  PROVE  /\ Held(text, 0) = [part |-> <<>>, log |-> <<>>]
         /\ Len(text) = 0 => LogOf(text) = <<>>
<1>1. Held(text, 0) = [part |-> <<>>, log |-> <<>>]
  BY FirstLine, LogGrows DEF Held
<1>2. ASSUME Len(text) = 0 PROVE LogOf(text) = <<>>
  BY <1>1, <1>2, HeldEnds, NothingLogged
<1> QED
  BY <1>1, <1>2

\* What is selected: targets, none twice, provisioning in front on a Termux host.
Chosen(f, s) ==
  /\ s \in Seq(Target)
  /\ \A i, j \in 1..Len(s) : s[i] = s[j] => i = j
  /\ f.termux => Len(s) # 0 /\ s[1] = Provisioning

\* Of the first n of the order.
Before(s, n) == \A i \in 1..Len(s) : \E k \in 1..n : s[i] = BuildOrder[k]
LEMMA OrderInjective ==
  /\ \A i \in 1..5 : BuildOrder[i] \in Target
  /\ \A i, j \in 1..5 : BuildOrder[i] = BuildOrder[j] => i = j
  /\ BuildOrder[1] = Provisioning /\ Len(BuildOrder) = 5
<1>1. /\ BuildOrder[1] = "termux-provisioning" /\ BuildOrder[2] = "coding-agent-image"
      /\ BuildOrder[3] = "llama-swap-image" /\ BuildOrder[4] = "llm-reverse-proxy-image"
      /\ BuildOrder[5] = "llm-reverse-proxy-native" /\ Len(BuildOrder) = 5
  BY DEF BuildOrder, Provisioning, Native
<1>2. \A i \in 1..5 : i = 1 \/ i = 2 \/ i = 3 \/ i = 4 \/ i = 5
  OBVIOUS
<1>3. \A i \in 1..5 : BuildOrder[i] \in Target
  BY <1>1, <1>2 DEF Target, Images, Provisioning, Native
<1>4. ASSUME NEW i \in 1..5, NEW j \in 1..5, BuildOrder[i] = BuildOrder[j] PROVE i = j
  BY <1>1, <1>2, <1>4
<1> QED
  BY <1>1, <1>3, <1>4 DEF Provisioning

LEMMA SelectedChosen ==
  ASSUME NEW f, f.termux \in BOOLEAN, NEW names
  PROVE  Chosen(f, Selected(f, names))
<1> DEFINE chosen == {t \in Registered(f) : t = Provisioning \/ names = {} \/ t \in names}
           F == CHOOSE G : OrderSays(chosen, G, 5)
<1>1. f.termux => Provisioning \in chosen
  BY DEF Registered
<1>2. OrderSays(chosen, F, 5)
  BY OrderExists
<1>3. Selected(f, names) = F[5]
  BY OrderInjective DEF Selected, OrderSays, OrderBody
<1> HIDE DEF chosen, F
<1>4. \A i \in 0..5 : F[i] = OrderBody(chosen, F, i)
  BY <1>2 DEF OrderSays
<1> DEFINE Good(i) == /\ F[i] \in Seq(Target) /\ Before(F[i], i)
                      /\ \A k, m \in 1..Len(F[i]) : F[i][k] = F[i][m] => k = m
                      /\ i # 0 /\ f.termux => Len(F[i]) # 0 /\ F[i][1] = Provisioning
           T == {i \in 0..5 : Good(i)}
<1>5. 0 \in T
  <2>1. F[0] = <<>>
    BY <1>4 DEF OrderBody
  <2>2. Len(F[0]) = 0 /\ F[0] \in Seq(Target)
    BY <2>1, EmptySeq
  <2>3. 0 \in 0..5 /\ 1..0 = {}
    OBVIOUS
  <2>4. Good(0)
    BY <2>2, <2>3 DEF Before
  <2> QED
    BY <2>3, <2>4
<1>6. ASSUME NEW i \in 1..5, i - 1 \in T PROVE i \in T
  <2> DEFINE s == F[i - 1]
             x == BuildOrder[i]
  <2>1. /\ s \in Seq(Target) /\ Before(s, i - 1)
        /\ \A k, m \in 1..Len(s) : s[k] = s[m] => k = m
        /\ i - 1 # 0 /\ f.termux => Len(s) # 0 /\ s[1] = Provisioning
    BY <1>6
  <2>2. i \in 0..5 /\ i # 0 /\ F[i] = IF x \in chosen THEN Append(s, x) ELSE s
    BY <1>4 DEF OrderBody
  <2>3. x \in Target /\ \A k \in 1..5 : BuildOrder[k] = x => k = i
    BY OrderInjective
  <2>4. i = 1 => x = Provisioning
    BY OrderInjective
  <2> HIDE DEF s, x
  <2>5. \A k \in 1..Len(s) : s[k] # x
    BY <2>1, <2>2, <2>3 DEF Before
  <2>6. Len(s) \in Nat
    BY <2>1, LenProperties
  <2>7. CASE x \in chosen
    <3>1. F[i] = Append(s, x)
      BY <2>2, <2>7
    <3>2. /\ F[i] \in Seq(Target) /\ Len(F[i]) = Len(s) + 1
          /\ \A k \in 1..Len(s) : F[i][k] = s[k]
          /\ F[i][Len(s) + 1] = x
      BY <2>1, <2>3, <3>1, AppendProperties
    <3>3. Before(F[i], i)
      BY <2>1, <2>2, <2>6, <3>2 DEF Before, x
    <3>4. \A k, m \in 1..Len(F[i]) : F[i][k] = F[i][m] => k = m
      BY <2>1, <2>5, <2>6, <3>2
    <3>5. f.termux => F[i][1] = Provisioning
      <4>1. CASE i = 1
        <5>1. Before(s, 0)
          BY <2>1, <4>1
        <5>2. Len(s) = 0
          BY <2>6, <5>1 DEF Before
        <5> QED
          BY <2>4, <3>2, <4>1, <5>2
      <4>2. CASE i # 1
        BY <2>1, <2>6, <3>2, <4>2
      <4> QED
        BY <4>1, <4>2
    <3>6. Good(i)
      BY <2>6, <3>2, <3>3, <3>4, <3>5
    <3> QED
      BY <2>2, <3>6
  <2>8. CASE x \notin chosen
    <3>1. F[i] = s
      BY <2>2, <2>8
    <3>2. Before(s, i)
      BY <2>1, <2>2 DEF Before
    <3>3. i = 1 => ~f.termux
      BY <1>1, <2>4, <2>8
    <3>4. Good(i)
      BY <2>1, <3>1, <3>2, <3>3
    <3> QED
      BY <2>2, <3>4
  <2> QED
    BY <2>7, <2>8
<1> HIDE DEF T
<1>7. \A i \in 0..5 : i \in T
  BY <1>5, <1>6, UpTo
<1>8. Good(5)
  BY <1>7 DEF T
<1> QED
  BY <1>3, <1>8 DEF Chosen

BuildTyped ==
  /\ machine \in HostFacts /\ bphase \in {"start", "run", "over"}
  /\ selected \in Seq(Target) /\ \A i, j \in 1..Len(selected) : selected[i] = selected[j] => i = j
  /\ state \in [Target -> {"waiting", "running", "ok", "failed"}]
  /\ fed \in [Target -> [Stream -> Nat]]
  /\ partial = [t \in Target |-> [s \in Stream |-> partial[t][s]]]
  /\ lines = [t \in Target |-> [s \in Stream |-> lines[t][s]]]
  /\ folders \in Seq(BOOLEAN) /\ Len(folders) <= 3

\* What is decided before any child runs, and what the end says.
Idle == \A t \in Target : state[t] = "waiting"
Deciding ==
  /\ bphase = "start" => selected = <<>> /\ status = 0
  /\ bphase = "run" => selected # <<>> /\ status = 0
  /\ selected = <<>> => Idle
  /\ selected # <<>> => folders = <<>> /\ status \notin {91, 94}
  /\ selected # <<>> /\ machine.termux => selected[1] = Provisioning
  /\ \A t \in Target : state[t] # "waiting" => \E i \in 1..Len(selected) : selected[i] = t
  /\ bphase = "over" /\ status = 0 /\ folders = <<>> =>
       selected # <<>> /\ \A i \in 1..Len(selected) : state[selected[i]] = "ok"
  /\ bphase = "over" /\ folders # <<>> =>
       Len(folders) = 3 /\ (status = 0 <=> \A i \in 1..3 : folders[i])

\* A serial host's targets have ended up to the one that runs.
InTurn ==
  Serial(machine) =>
    \A i \in 1..Len(selected) : state[selected[i]] # "waiting" => \A j \in 1..(i - 1) : Ended(selected[j])

\* A reader holds what the characters read so far say.
Reading ==
  \A t \in Target, s \in Stream :
    /\ fed[t][s] <= Len(Output[t][s])
    /\ state[t] = "waiting" => fed[t][s] = 0
    /\ ~Ended(t) => [part |-> partial[t][s], log |-> lines[t][s]] = Held(Output[t][s], fed[t][s])
    /\ Ended(t) /\ AllRead(t) => lines[t][s] = LogOf(Output[t][s])

BuildInv == BuildTyped /\ Deciding /\ InTurn /\ Reading

LEMMA OutputText == \A t \in Target, s \in Stream : Text(Output[t][s])
BY BuildAssumption DEF BuildAssumption, Text

LEMMA HostTermux == machine \in HostFacts => machine.termux \in BOOLEAN
BY BuildAssumption DEF BuildAssumption

LEMMA BuildBegins == BuildInit => BuildInv
<1> SUFFICES ASSUME BuildInit PROVE BuildInv
  OBVIOUS
<1>1. /\ machine \in HostFacts /\ bphase = "start" /\ selected = <<>> /\ status = 0 /\ folders = <<>>
      /\ state = [t \in Target |-> "waiting"]
      /\ fed = [t \in Target |-> [s \in Stream |-> 0]]
      /\ partial = [t \in Target |-> [s \in Stream |-> <<>>]]
      /\ lines = [t \in Target |-> [s \in Stream |-> <<>>]]
  BY DEF BuildInit
<1>2. BuildTyped
  <2>1. Len(selected) = 0 /\ Len(folders) = 0 /\ selected \in Seq(Target) /\ folders \in Seq(BOOLEAN)
    BY <1>1, EmptySeq
  <2> QED
    BY <1>1, <2>1 DEF BuildTyped
<1>3. Idle
  BY <1>1 DEF Idle
<1>4. Deciding
  BY <1>1, <1>3 DEF Deciding, Idle
<1>5. InTurn
  <2>1. Len(selected) = 0
    BY <1>1
  <2> QED
    BY <2>1 DEF InTurn
<1>6. ASSUME NEW t \in Target, NEW s \in Stream
      PROVE  /\ fed[t][s] <= Len(Output[t][s])
             /\ state[t] = "waiting" => fed[t][s] = 0
             /\ ~Ended(t) => [part |-> partial[t][s], log |-> lines[t][s]] = Held(Output[t][s], fed[t][s])
             /\ Ended(t) /\ AllRead(t) => lines[t][s] = LogOf(Output[t][s])
  <2>1. Text(Output[t][s])
    BY OutputText
  <2>2. Held(Output[t][s], 0) = [part |-> <<>>, log |-> <<>>]
    BY <2>1, HeldNothing
  <2>3. Len(Output[t][s]) \in Nat
    BY <2>1 DEF Text
  <2>4. fed[t][s] = 0 /\ partial[t][s] = <<>> /\ lines[t][s] = <<>> /\ state[t] = "waiting"
    BY <1>1
  <2> QED
    BY <2>2, <2>3, <2>4 DEF Ended
<1>7. Reading
  BY <1>6 DEF Reading
<1> QED
  BY <1>2, <1>4, <1>5, <1>7 DEF BuildInv

\* Where no child moved and nothing was read, the order and the readers stand.
LEMMA ReadersStay ==
  ASSUME Reading, UNCHANGED <<fed, partial, lines, state>> PROVE Reading'
<1>1. \A t : Ended(t)' = Ended(t) /\ AllRead(t)' = AllRead(t)
  BY DEF Ended, AllRead
<1> QED
  BY <1>1 DEF Reading

LEMMA SelectKeeps == BuildInv /\ Select => BuildInv'
<1> SUFFICES ASSUME BuildInv, Select PROVE BuildInv'
  OBVIOUS
<1> DEFINE chosen == Selected(machine, asked')
<1>1. /\ bphase = "start" /\ folders = <<>> /\ machine' = machine /\ state' = state /\ folders' = folders
      /\ fed' = fed /\ partial' = partial /\ lines' = lines
  BY DEF Select, outputVars
<1>2. \/ bphase' = "over" /\ status' \in {91, 94} /\ selected' = selected
      \/ bphase' = "run" /\ selected' = chosen /\ chosen # <<>> /\ status' = status
  BY DEF Select
<1>3. selected = <<>> /\ status = 0 /\ Idle /\ machine \in HostFacts
  BY <1>1 DEF BuildInv, Deciding, BuildTyped
<1>4. Chosen(machine, chosen)
  <2>1. machine.termux \in BOOLEAN
    BY <1>3, HostTermux
  <2> QED
    BY <2>1, SelectedChosen
<1> HIDE DEF chosen
<1>5. /\ selected' \in Seq(Target)
      /\ \A i, j \in 1..Len(selected') : selected'[i] = selected'[j] => i = j
      /\ selected' # <<>> /\ machine.termux => selected'[1] = Provisioning
  <2>1. Len(<<>>) = 0 /\ <<>> \in Seq(Target)
    BY EmptySeq
  <2>2. CASE selected' = <<>>
    BY <2>1, <2>2
  <2>3. CASE selected' = chosen
    BY <1>4, <2>3 DEF Chosen
  <2> QED
    BY <1>2, <1>3, <2>2, <2>3
<1>6. BuildTyped'
  BY <1>1, <1>2, <1>5 DEF BuildInv, BuildTyped
<1>7. Idle'
  BY <1>1, <1>3 DEF Idle
<1>8. Deciding'
  BY <1>1, <1>2, <1>3, <1>5, <1>7 DEF Deciding, Idle
<1>9. InTurn'
  <2>1. \A i \in 1..Len(selected') : selected'[i] \in Target
    BY <1>5
  <2> QED
    BY <1>7, <2>1 DEF InTurn, Idle
<1>10. Reading'
  BY <1>1, ReadersStay DEF BuildInv
<1> QED
  BY <1>6, <1>8, <1>9, <1>10 DEF BuildInv

\* A target whose turn it is begins, or one that runs ends.
LEMMA StateMoves ==
  ASSUME BuildInv, NEW n \in 1..Len(selected), NEW v \in {"running", "ok", "failed"},
         ~Ended(selected[n]), state[selected[n]] = "waiting" => MayBegin(n),
         state' = [state EXCEPT ![selected[n]] = v],
         UNCHANGED <<machine, bphase, selected, status, folders>>
  PROVE  /\ state' \in [Target -> {"waiting", "running", "ok", "failed"}]
         /\ Deciding' /\ InTurn'
<1> DEFINE u == selected[n]
<1>1. BuildTyped /\ Deciding /\ InTurn
  BY DEF BuildInv
<1>2. selected \in Seq(Target) /\ Len(selected) \in Nat /\ u \in Target
      /\ \A i \in 1..Len(selected) : selected[i] \in Target /\ (selected[i] = u => i = n)
  BY <1>1, LenProperties DEF BuildTyped
<1>3. state \in [Target -> {"waiting", "running", "ok", "failed"}]
  BY <1>1 DEF BuildTyped
<1>4. state'[u] = v /\ \A t \in Target : t # u => state'[t] = state[t]
  BY <1>2, <1>3
<1>5. selected # <<>>
  BY <1>2
<1>6. state' \in [Target -> {"waiting", "running", "ok", "failed"}]
  BY <1>2, <1>3
<1>7. Deciding'
  <2>1. \A t \in Target : state'[t] # "waiting" => \E i \in 1..Len(selected) : selected[i] = t
    BY <1>1, <1>2, <1>4 DEF Deciding
  <2>2. ~(bphase = "over" /\ status = 0 /\ folders = <<>>)
    <3>1. ASSUME bphase = "over", status = 0, folders = <<>> PROVE state[u] = "ok"
      BY <1>1, <3>1 DEF Deciding
    <3> QED
      BY <3>1 DEF Ended
  <2> HIDE DEF u
  <2>3. /\ bphase = "start" => selected = <<>> /\ status = 0
        /\ bphase = "run" => selected # <<>> /\ status = 0
        /\ selected # <<>> => folders = <<>> /\ status \notin {91, 94}
        /\ selected # <<>> /\ machine.termux => selected[1] = Provisioning
        /\ bphase = "over" /\ folders # <<>> =>
             Len(folders) = 3 /\ (status = 0 <=> \A i \in 1..3 : folders[i])
    BY <1>1 DEF Deciding
  <2> QED
    BY <1>5, <2>1, <2>2, <2>3 DEF Deciding
<1>8. InTurn'
  <2> SUFFICES ASSUME Serial(machine), NEW i \in 1..Len(selected), state'[selected[i]] # "waiting",
                      NEW j \in 1..(i - 1)
               PROVE  state'[selected[j]] \in {"ok", "failed"}
    BY DEF InTurn, Ended
  <2>1. j \in 1..Len(selected) /\ j # i
    BY <1>2
  <2>2. state[selected[j]] \in {"ok", "failed"}
    <3>1. CASE state[selected[i]] # "waiting"
      BY <1>1, <3>1 DEF InTurn, Ended
    <3>2. CASE state[selected[i]] = "waiting"
      <4>1. selected[i] = u
        BY <1>2, <1>4, <3>2
      <4>2. i = n
        BY <1>2, <4>1
      <4> QED
        BY <3>2, <4>2 DEF MayBegin, Ended
    <3> QED
      BY <3>1, <3>2
  <2>3. selected[j] # u
    BY <2>2 DEF Ended
  <2> QED
    BY <1>2, <1>4, <2>1, <2>2, <2>3
<1> QED
  BY <1>6, <1>7, <1>8

\* A child that runs is a selected target's.
LEMMA RunningSelected ==
  ASSUME BuildInv, NEW t \in Target, state[t] # "waiting"
  PROVE  \E n \in 1..Len(selected) : selected[n] = t
BY DEF BuildInv, Deciding

LEMMA BeginKeeps == ASSUME BuildInv, NEW i \in 1..Cardinality(Target), TargetBegins(i) PROVE BuildInv'
<1> DEFINE u == selected[i]
           v == IF u = Native /\ ~goToolchainReady(machine) THEN "failed" ELSE "running"
<1>1. /\ bphase = "run" /\ i <= Len(selected) /\ state[u] = "waiting" /\ MayBegin(i)
      /\ state' = [state EXCEPT ![u] = v]
      /\ machine' = machine /\ bphase' = bphase /\ selected' = selected /\ status' = status
      /\ folders' = folders /\ fed' = fed /\ partial' = partial /\ lines' = lines
  BY DEF TargetBegins, outputVars
<1>2. BuildTyped /\ Reading
  BY DEF BuildInv
<1>3. selected \in Seq(Target) /\ Len(selected) \in Nat /\ state \in [Target -> {"waiting", "running", "ok", "failed"}]
  BY <1>2, LenProperties DEF BuildTyped
<1>4. i \in 1..Len(selected) /\ u \in Target
  <2>1. IsFiniteSet(Target)
    <3>1. IsFiniteSet(Images)
      <4>1. IsFiniteSet({"coding-agent-image"} \cup {"llama-swap-image"} \cup {"llm-reverse-proxy-image"})
        BY FS_Singleton, FS_Union
      <4>2. Images = {"coding-agent-image"} \cup {"llama-swap-image"} \cup {"llm-reverse-proxy-image"}
        BY DEF Images
      <4> QED
        BY <4>1, <4>2
    <3>2. IsFiniteSet({Provisioning}) /\ IsFiniteSet({Native})
      BY FS_Singleton
    <3>3. Target = Images \cup ({Provisioning} \cup {Native})
      BY DEF Target
    <3> QED
      BY <3>1, <3>2, <3>3, FS_Union
  <2>2. Cardinality(Target) \in Nat
    BY <2>1, FS_CardinalityType
  <2> QED
    BY <1>1, <1>3, <2>2, ElementOfSeq
<1>5. ~Ended(u)
  BY <1>1 DEF Ended
<1>6. v \in {"running", "ok", "failed"}
  OBVIOUS
<1> HIDE DEF v
<1>7. /\ state' \in [Target -> {"waiting", "running", "ok", "failed"}]
      /\ Deciding' /\ InTurn'
  BY <1>1, <1>4, <1>5, <1>6, StateMoves
<1>8. BuildTyped'
  BY <1>1, <1>2, <1>7 DEF BuildTyped
<1>9. Reading'
  <2> SUFFICES ASSUME NEW t \in Target, NEW s \in Stream
               PROVE  /\ fed[t][s] <= Len(Output[t][s])
                      /\ state'[t] = "waiting" => fed[t][s] = 0
                      /\ state'[t] \notin {"ok", "failed"} =>
                           [part |-> partial[t][s], log |-> lines[t][s]] = Held(Output[t][s], fed[t][s])
                      /\ state'[t] \in {"ok", "failed"} /\ AllRead(t) => lines[t][s] = LogOf(Output[t][s])
    BY <1>1 DEF Reading, Ended, AllRead
  <2>1. CASE t # u
    <3>1. state'[t] = state[t]
      BY <1>1, <1>3, <1>4, <2>1
    <3> QED
      BY <1>2, <3>1 DEF Reading, Ended
  <2>2. CASE t = u
    <3>1. /\ fed[t][s] = 0 /\ fed[t][s] <= Len(Output[t][s])
          /\ [part |-> partial[t][s], log |-> lines[t][s]] = Held(Output[t][s], 0)
      BY <1>1, <1>2, <1>5, <2>2 DEF Reading
    <3>2. state'[t] = v
      BY <1>1, <1>3, <1>4, <2>2
    <3>3. Text(Output[t][s])
      BY OutputText
    <3>4. AllRead(t) => Len(Output[t][s]) = 0
      BY <3>1 DEF AllRead
    <3>5. lines[t][s] = <<>>
      BY <3>1, <3>3, HeldNothing
    <3>6. AllRead(t) => lines[t][s] = LogOf(Output[t][s])
      BY <3>3, <3>4, <3>5, HeldNothing
    <3> QED
      BY <1>6, <3>1, <3>2, <3>6
  <2> QED
    BY <2>1, <2>2
<1> QED
  BY <1>7, <1>8, <1>9 DEF BuildInv

LEMMA ChunkKeeps ==
  ASSUME BuildInv, NEW u \in Target, NEW r \in Stream, NEW n \in 1..MaxChunk, ChunkArrives(u, r, n)
  PROVE  BuildInv'
<1> DEFINE text == Output[u][r]
           f == fed[u][r]
           b == Feed([part |-> partial[u][r], log |-> lines[u][r]], SubSeq(text, f + 1, f + n))
<1>1. /\ state[u] = "running" /\ f + n <= Len(text)
      /\ partial' = [partial EXCEPT ![u][r] = b.part] /\ lines' = [lines EXCEPT ![u][r] = b.log]
      /\ fed' = [fed EXCEPT ![u][r] = f + n]
      /\ UNCHANGED <<machine, bphase, selected, state, status, folders>>
  BY DEF ChunkArrives
<1>2. BuildTyped /\ Deciding /\ InTurn /\ Reading
  BY DEF BuildInv
<1>3. MaxChunk \in Nat /\ Text(text)
  BY BuildAssumption, OutputText DEF BuildAssumption
<1>4. n \in Nat /\ f \in Nat
  BY <1>2, <1>3 DEF BuildTyped
<1>5. [part |-> partial[u][r], log |-> lines[u][r]] = Held(text, f)
  BY <1>1, <1>2 DEF Reading, Ended
<1>6. b = Held(text, f + n)
  BY <1>1, <1>3, <1>4, <1>5, HeldFeeds
<1> HIDE DEF b
<1>7. [part |-> b.part, log |-> b.log] = Held(text, f + n)
  BY <1>6 DEF Held
<1>8. /\ fed \in [Target -> [Stream -> Nat]]
      /\ partial = [t \in Target |-> [s \in Stream |-> partial[t][s]]]
      /\ lines = [t \in Target |-> [s \in Stream |-> lines[t][s]]]
  BY <1>2 DEF BuildTyped
<1>9. /\ fed'[u][r] = f + n /\ partial'[u][r] = b.part /\ lines'[u][r] = b.log
      /\ \A t \in Target, s \in Stream : t # u \/ s # r =>
           fed'[t][s] = fed[t][s] /\ partial'[t][s] = partial[t][s] /\ lines'[t][s] = lines[t][s]
  BY <1>1, <1>8
<1>10. /\ fed' \in [Target -> [Stream -> Nat]]
       /\ partial' = [t \in Target |-> [s \in Stream |-> partial'[t][s]]]
       /\ lines' = [t \in Target |-> [s \in Stream |-> lines'[t][s]]]
  <2>1. fed' \in [Target -> [Stream -> Nat]]
    <3>1. f + n \in Nat
      BY <1>4
    <3> HIDE DEF f, text
    <3> QED
      BY <1>1, <1>8, <3>1
  <2> HIDE DEF f, text
  <2>2. partial' = [t \in Target |-> [s \in Stream |-> partial'[t][s]]]
    BY <1>1, <1>8
  <2>3. lines' = [t \in Target |-> [s \in Stream |-> lines'[t][s]]]
    BY <1>1, <1>8
  <2> QED
    BY <2>1, <2>2, <2>3
<1>11. BuildTyped'
  BY <1>1, <1>2, <1>10 DEF BuildTyped
<1>12. Deciding' /\ InTurn'
  BY <1>1, <1>2 DEF Deciding, Idle, InTurn, Ended
<1>13. Reading'
  <2> SUFFICES ASSUME NEW t \in Target, NEW s \in Stream
               PROVE  /\ fed'[t][s] <= Len(Output[t][s])
                      /\ state[t] = "waiting" => fed'[t][s] = 0
                      /\ ~Ended(t) =>
                           [part |-> partial'[t][s], log |-> lines'[t][s]] = Held(Output[t][s], fed'[t][s])
                      /\ Ended(t) /\ AllRead(t)' => lines'[t][s] = LogOf(Output[t][s])
    BY <1>1 DEF Reading, Ended
  <2>1. CASE t # u \/ s # r
    <3>1. fed'[t][s] = fed[t][s] /\ partial'[t][s] = partial[t][s] /\ lines'[t][s] = lines[t][s]
      BY <1>9, <2>1
    <3>2. Ended(t) => t # u
      BY <1>1 DEF Ended
    <3>3. Ended(t) /\ AllRead(t)' => AllRead(t)
      BY <1>9, <3>2 DEF AllRead
    <3> QED
      BY <1>2, <3>1, <3>3 DEF Reading
  <2>2. CASE t = u /\ s = r
    <3>1. [part |-> partial'[t][s], log |-> lines'[t][s]] = Held(Output[t][s], fed'[t][s])
      BY <1>7, <1>9, <2>2
    <3>2. ~Ended(t) /\ state[t] # "waiting" /\ fed'[t][s] <= Len(Output[t][s])
      BY <1>1, <1>9, <2>2 DEF Ended
    <3> QED
      BY <3>1, <3>2
  <2> QED
    BY <2>1, <2>2
<1> QED
  BY <1>11, <1>12, <1>13 DEF BuildInv

\* A child that runs ends, with its last lines logged.
LEMMA CloseKeeps ==
  ASSUME BuildInv, NEW u \in Target, NEW ok \in BOOLEAN, ChildCloses(u, ok) PROVE BuildInv'
<1> DEFINE v == IF ok THEN "ok" ELSE "failed"
           logs == [s \in Stream |-> Logged(lines[u][s], partial[u][s])]
<1>1. /\ state[u] = "running" /\ AllRead(u)
      /\ lines' = [lines EXCEPT ![u] = logs] /\ state' = [state EXCEPT ![u] = v]
      /\ UNCHANGED <<machine, bphase, selected, fed, partial, status, folders>>
  BY DEF ChildCloses
<1>2. BuildTyped /\ Reading
  BY DEF BuildInv
<1>3. PICK n \in 1..Len(selected) : selected[n] = u
  BY <1>1, RunningSelected
<1>4. ~Ended(u) /\ v \in {"running", "ok", "failed"}
  BY <1>1 DEF Ended
<1>5. \A s \in Stream : logs[s] = LogOf(Output[u][s])
  <2> SUFFICES ASSUME NEW s \in Stream PROVE Logged(lines[u][s], partial[u][s]) = LogOf(Output[u][s])
    OBVIOUS
  <2>1. Text(Output[u][s])
    BY OutputText
  <2>2. [part |-> partial[u][s], log |-> lines[u][s]] = Held(Output[u][s], Len(Output[u][s]))
    BY <1>1, <1>2, <1>4 DEF Reading, AllRead
  <2>3. Held(Output[u][s], Len(Output[u][s])).log = lines[u][s]
        /\ Held(Output[u][s], Len(Output[u][s])).part = partial[u][s]
    BY <2>2
  <2> QED
    BY <2>1, <2>3, HeldEnds
<1> HIDE DEF v
<1>6. /\ state' \in [Target -> {"waiting", "running", "ok", "failed"}]
      /\ Deciding' /\ InTurn'
  BY <1>1, <1>3, <1>4, StateMoves
<1>7. /\ lines = [t \in Target |-> [s \in Stream |-> lines[t][s]]]
      /\ state \in [Target -> {"waiting", "running", "ok", "failed"}]
  BY <1>2 DEF BuildTyped
<1>8. /\ lines' = [t \in Target |-> [s \in Stream |-> lines'[t][s]]]
      /\ lines'[u] = logs /\ \A t \in Target : t # u => lines'[t] = lines[t] /\ state'[t] = state[t]
  BY <1>1, <1>7
<1>9. BuildTyped'
  BY <1>1, <1>2, <1>6, <1>8 DEF BuildTyped
<1> HIDE DEF logs
<1>10. Reading'
  <2> SUFFICES ASSUME NEW t \in Target, NEW s \in Stream
               PROVE  /\ fed[t][s] <= Len(Output[t][s])
                      /\ state'[t] = "waiting" => fed[t][s] = 0
                      /\ state'[t] \notin {"ok", "failed"} =>
                           [part |-> partial[t][s], log |-> lines'[t][s]] = Held(Output[t][s], fed[t][s])
                      /\ state'[t] \in {"ok", "failed"} /\ AllRead(t) => lines'[t][s] = LogOf(Output[t][s])
    BY <1>1 DEF Reading, Ended, AllRead
  <2>1. CASE t # u
    BY <1>2, <1>8, <2>1 DEF Reading, Ended
  <2>2. CASE t = u
    <3>1. state'[t] \in {"ok", "failed"}
      BY <1>1, <1>7, <2>2 DEF v
    <3>2. fed[t][s] <= Len(Output[t][s])
      BY <1>2 DEF Reading
    <3> QED
      BY <1>5, <1>8, <2>2, <3>1, <3>2
  <2> QED
    BY <2>1, <2>2
<1> QED
  BY <1>6, <1>9, <1>10 DEF BuildInv

LEMMA SpawnKeeps == ASSUME BuildInv, NEW u \in Target, SpawnFails(u) PROVE BuildInv'
<1>1. /\ state[u] = "running" /\ \A s \in Stream : fed[u][s] = 0
      /\ state' = [state EXCEPT ![u] = "failed"]
      /\ UNCHANGED <<machine, bphase, selected, fed, partial, lines, status, folders>>
  BY DEF SpawnFails, outputVars
<1>2. BuildTyped /\ Reading
  BY DEF BuildInv
<1>3. PICK n \in 1..Len(selected) : selected[n] = u
  BY <1>1, RunningSelected
<1>4. ~Ended(u)
  BY <1>1 DEF Ended
<1>5. /\ state' \in [Target -> {"waiting", "running", "ok", "failed"}]
      /\ Deciding' /\ InTurn'
  BY <1>1, <1>3, <1>4, StateMoves
<1>6. BuildTyped'
  BY <1>1, <1>2, <1>5 DEF BuildTyped
<1>7. state \in [Target -> {"waiting", "running", "ok", "failed"}]
  BY <1>2 DEF BuildTyped
<1>8. Reading'
  <2> SUFFICES ASSUME NEW t \in Target, NEW s \in Stream
               PROVE  /\ fed[t][s] <= Len(Output[t][s])
                      /\ state'[t] = "waiting" => fed[t][s] = 0
                      /\ state'[t] \notin {"ok", "failed"} =>
                           [part |-> partial[t][s], log |-> lines[t][s]] = Held(Output[t][s], fed[t][s])
                      /\ state'[t] \in {"ok", "failed"} /\ AllRead(t) => lines[t][s] = LogOf(Output[t][s])
    BY <1>1 DEF Reading, Ended, AllRead
  <2>1. CASE t # u
    <3>1. state'[t] = state[t]
      BY <1>1, <1>7, <2>1
    <3> QED
      BY <1>2, <3>1 DEF Reading, Ended
  <2>2. CASE t = u
    <3>1. state'[t] = "failed"
      BY <1>1, <1>7, <2>2
    <3>2. /\ fed[t][s] = 0 /\ fed[t][s] <= Len(Output[t][s])
          /\ [part |-> partial[t][s], log |-> lines[t][s]] = Held(Output[t][s], 0)
      BY <1>1, <1>2, <1>4, <2>2 DEF Reading
    <3>3. Text(Output[t][s])
      BY OutputText
    <3>4. AllRead(t) => Len(Output[t][s]) = 0
      BY <3>2 DEF AllRead
    <3>5. AllRead(t) => lines[t][s] = LogOf(Output[t][s])
      BY <3>2, <3>3, <3>4, HeldNothing
    <3> QED
      BY <3>1, <3>2, <3>5
  <2> QED
    BY <2>1, <2>2
<1> QED
  BY <1>5, <1>6, <1>8 DEF BuildInv

LEMMA EndsKeep == BuildInv /\ BuildEnds => BuildInv'
<1> SUFFICES ASSUME BuildInv, BuildEnds PROVE BuildInv'
  OBVIOUS
<1>1. /\ bphase = "run" /\ bphase' = "over" /\ \A i \in DOMAIN selected : Ended(selected[i])
      /\ status' = IF \E i \in DOMAIN selected : state[selected[i]] = "failed" THEN 1 ELSE 0
      /\ UNCHANGED <<machine, selected, state, fed, partial, lines, folders>>
  BY DEF BuildEnds, outputVars
<1>2. BuildTyped /\ Deciding /\ InTurn /\ Reading
  BY DEF BuildInv
<1>3. selected # <<>> /\ folders = <<>> /\ DOMAIN selected = 1..Len(selected)
  <2>1. selected # <<>> /\ selected \in Seq(Target)
    BY <1>1, <1>2 DEF Deciding, BuildTyped
  <2> QED
    BY <1>2, <2>1, LenProperties DEF Deciding
<1>4. status' = 0 => \A i \in 1..Len(selected) : state[selected[i]] = "ok"
  BY <1>1, <1>3 DEF Ended
<1>5. status' \in {0, 1}
  BY <1>1
<1>6. BuildTyped'
  BY <1>1, <1>2 DEF BuildTyped
<1>7. Deciding'
  <2>1. /\ selected # <<>> /\ machine.termux => selected[1] = Provisioning
        /\ \A t \in Target : state[t] # "waiting" => \E i \in 1..Len(selected) : selected[i] = t
    BY <1>2 DEF Deciding
  <2> QED
    BY <1>1, <1>3, <1>4, <1>5, <2>1 DEF Deciding, Idle
<1>8. InTurn'
  BY <1>1, <1>2 DEF InTurn, Ended
<1>9. Reading'
  BY <1>1, <1>2, ReadersStay
<1> QED
  BY <1>6, <1>7, <1>8, <1>9 DEF BuildInv

LEMMA GenerateKeeps == BuildInv /\ (GenerateFolder \/ GenerateEnds) => BuildInv'
<1> SUFFICES ASSUME BuildInv, GenerateFolder \/ GenerateEnds PROVE BuildInv'
  OBVIOUS
<1>1. /\ bphase = "start"
      /\ UNCHANGED <<machine, selected, state, fed, partial, lines>>
  BY DEF GenerateFolder, GenerateEnds, outputVars
<1>2. BuildTyped /\ Deciding /\ InTurn /\ Reading
  BY DEF BuildInv
<1>3. selected = <<>> /\ status = 0 /\ Idle
  BY <1>1, <1>2 DEF Deciding
<1>4. InTurn'
  BY <1>1, <1>2 DEF InTurn, Ended
<1>5. Reading'
  BY <1>1, <1>2, ReadersStay
<1>6. folders \in Seq(BOOLEAN) /\ Len(folders) \in Nat
  BY <1>2, LenProperties DEF BuildTyped
<1>7. Len(FOLDERS) = 3
  BY DEF FOLDERS
<1>8. CASE GenerateFolder
  <2>1. /\ Len(folders) < 3 /\ bphase' = "start" /\ status' = status
        /\ \E ok \in BOOLEAN : folders' = Append(folders, ok)
    BY <1>1, <1>7, <1>8 DEF GenerateFolder
  <2>2. folders' \in Seq(BOOLEAN) /\ Len(folders') <= 3
    BY <1>6, <2>1, AppendProperties
  <2>3. BuildTyped'
    BY <1>1, <1>2, <2>1, <2>2 DEF BuildTyped
  <2>4. Deciding'
    BY <1>1, <1>3, <2>1 DEF Deciding, Idle
  <2> QED
    BY <1>4, <1>5, <2>3, <2>4 DEF BuildInv
<1>9. CASE GenerateEnds
  <2>1. /\ Len(folders) = 3 /\ bphase' = "over" /\ folders' = folders
        /\ status' = IF \E i \in DOMAIN folders : ~folders[i] THEN 1 ELSE 0
    BY <1>7, <1>9 DEF GenerateEnds
  <2>2. DOMAIN folders = 1..3 /\ folders # <<>>
    <3>1. DOMAIN folders = 1..Len(folders)
      BY <1>6, LenProperties
    <3>2. folders # <<>>
      BY <1>6, <2>1, EmptySeq
    <3> QED
      BY <2>1, <3>1, <3>2
  <2>3. status' = 0 <=> \A i \in 1..3 : folders[i]
    BY <2>1, <2>2
  <2>4. status' \in {0, 1}
    BY <2>1
  <2>5. BuildTyped'
    <3>1. UNCHANGED <<machine, selected, state, fed, partial, lines, folders>> /\ bphase' = "over"
      BY <1>1, <2>1
    <3> QED
      BY <1>2, <3>1 DEF BuildTyped
  <2>6. Deciding'
    BY <1>1, <1>3, <2>1, <2>2, <2>3, <2>4 DEF Deciding, Idle
  <2> QED
    BY <1>4, <1>5, <2>5, <2>6 DEF BuildInv
<1> QED
  BY <1>8, <1>9

LEMMA BuildSteps == BuildInv /\ [BuildNext]_buildVars => BuildInv'
<1> SUFFICES ASSUME BuildInv, [BuildNext]_buildVars PROVE BuildInv'
  OBVIOUS
<1>1. CASE Select
  BY <1>1, SelectKeeps
<1>2. CASE \E i \in 1..Cardinality(Target) : TargetBegins(i)
  BY <1>2, BeginKeeps
<1>3. ASSUME NEW t \in Target, NEW s \in Stream, NEW n \in 1..MaxChunk, ChunkArrives(t, s, n)
      PROVE  BuildInv'
  BY <1>3, ChunkKeeps
<1>4. ASSUME NEW t \in Target, NEW ok \in BOOLEAN, ChildCloses(t, ok) PROVE BuildInv'
  BY <1>4, CloseKeeps
<1>5. ASSUME NEW t \in Target, SpawnFails(t) PROVE BuildInv'
  BY <1>5, SpawnKeeps
<1>6. CASE BuildEnds
  BY <1>6, EndsKeep
<1>7. CASE GenerateFolder \/ GenerateEnds
  BY <1>7, GenerateKeeps
<1>8. CASE UNCHANGED buildVars
  <2>1. UNCHANGED <<machine, bphase, selected, state, fed, partial, lines, status, folders>>
    BY <1>8 DEF buildVars
  <2>2. Reading'
    BY <2>1, ReadersStay DEF BuildInv
  <2>3. BuildTyped' /\ Deciding' /\ InTurn'
    BY <2>1 DEF BuildInv, BuildTyped, Deciding, Idle, InTurn, Ended
  <2> QED
    BY <2>2, <2>3 DEF BuildInv
<1> QED
  BY <1>1, <1>2, <1>3, <1>4, <1>5, <1>6, <1>7, <1>8 DEF BuildNext

\* BuildInv holds throughout, for any hosts, requests and output.
THEOREM BuildInvariance == BuildSpec => []BuildInv
<1> QED
  BY BuildBegins, BuildSteps, PTL DEF BuildSpec

\* A build tells what it did: its exit status, what it starts and when, and the log of
\* each target, however the children's output is cut into chunks and interleaved.
THEOREM BuildSays == BuildSpec => []BuildTells
<1>1. BuildInv => BuildTells
  <2> SUFFICES ASSUME BuildInv PROVE BuildTells
    OBVIOUS
  <2>1. BuildTyped /\ Deciding /\ InTurn /\ Reading
    BY DEF BuildInv
  <2>2. DOMAIN selected = 1..Len(selected) /\ \A i \in 1..Len(selected) : selected[i] \in Target
    BY <2>1, LenProperties DEF BuildTyped
  <2>3. bphase = "over" /\ status = 0 /\ folders = <<>> =>
          selected # <<>> /\ \A i \in DOMAIN selected : state[selected[i]] = "ok"
    BY <2>1, <2>2 DEF Deciding
  <2>4. status \in {91, 94} => \A t \in Target : state[t] = "waiting"
    BY <2>1 DEF Deciding, Idle
  <2>5. ASSUME Serial(machine) PROVE Cardinality({t \in Target : state[t] = "running"}) <= 1
    <3> DEFINE R == {t \in Target : state[t] = "running"}
    <3>1. ASSUME NEW t \in R, NEW u \in R PROVE t = u
      <4>1. PICK i \in 1..Len(selected) : selected[i] = t
        BY <2>1, <3>1 DEF Deciding
      <4>2. PICK j \in 1..Len(selected) : selected[j] = u
        BY <2>1, <3>1 DEF Deciding
      <4>3. ~Ended(t) /\ ~Ended(u) /\ state[t] # "waiting" /\ state[u] # "waiting"
        BY <3>1 DEF Ended
      <4>4. ~(i < j) /\ ~(j < i)
        BY <2>1, <2>5, <4>1, <4>2, <4>3 DEF InTurn
      <4> QED
        BY <4>1, <4>2, <4>4
    <3> HIDE DEF R
    <3>2. CASE R = {}
      BY <3>2, FS_EmptySet DEF R
    <3>3. CASE R # {}
      <4>1. PICK t \in R : TRUE
        BY <3>3
      <4>2. R = {t}
        BY <3>1, <4>1
      <4>3. Cardinality(R) = 1
        BY <4>2, FS_Singleton
      <4> QED
        BY <4>3 DEF R
    <3> QED
      BY <3>2, <3>3
  <2>6. ASSUME machine.termux, NEW t \in Target \ {Provisioning}, state[t] # "waiting"
        PROVE  Ended(Provisioning)
    <3>1. PICK i \in 1..Len(selected) : selected[i] = t
      BY <2>1, <2>6 DEF Deciding
    <3>2. selected # <<>> /\ Len(selected) \in Nat
      BY <2>1, <3>1, LenProperties DEF BuildTyped
    <3>3. selected[1] = Provisioning
      BY <2>1, <2>6, <3>2 DEF Deciding
    <3>4. 1 \in 1..(i - 1)
      BY <3>1, <3>2, <3>3
    <3>5. Serial(machine)
      BY <2>6 DEF Serial
    <3> QED
      BY <2>1, <2>6, <3>1, <3>3, <3>4, <3>5 DEF InTurn
  <2>7. \A t \in Target, s \in Stream : Ended(t) /\ AllRead(t) => lines[t][s] = LogOf(Output[t][s])
    BY <2>1 DEF Reading
  <2>8. ASSUME bphase = "over", folders # <<>>
        PROVE  status = 0 <=> folders = [i \in DOMAIN FOLDERS |-> TRUE]
    <3>1. DOMAIN FOLDERS = 1..3
      BY DEF FOLDERS
    <3>2. folders \in Seq(BOOLEAN) /\ Len(folders) = 3 /\ (status = 0 <=> \A i \in 1..3 : folders[i])
      BY <2>1, <2>8 DEF Deciding, BuildTyped
    <3>3. folders \in [1..3 -> BOOLEAN]
      BY <3>2, LenProperties
    <3>4. ASSUME \A i \in 1..3 : folders[i] PROVE folders = [i \in 1..3 |-> TRUE]
      BY <3>3, <3>4, Zenon
    <3>5. ASSUME folders = [i \in 1..3 |-> TRUE] PROVE \A i \in 1..3 : folders[i]
      BY <3>5
    <3> QED
      BY <3>1, <3>2, <3>4, <3>5
  <2> QED
    BY <2>3, <2>4, <2>5, <2>6, <2>7, <2>8 DEF BuildTells
<1> QED
  BY <1>1, BuildInvariance, PTL
=============================================================================
