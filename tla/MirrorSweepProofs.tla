-------------------------- MODULE MirrorSweepProofs --------------------------
(***************************************************************************)
(* Proofs about MirrorSweep, for any farm, any hosts and any command line.  *)
(***************************************************************************)
EXTENDS MirrorSweep, SequenceTheorems, TLAPS

-----------------------------------------------------------------------------
(* The inductive invariant *)

\* The options are a command line's.
OptionsTyped == o \in Options

\* No mirror is kept twice.
KeptDistinct == \A i, j \in 1..Len(kept) : kept[i] = kept[j] => i = j

Settled == {"start", "probe", "group"}

\* The groups: non-empty, one for a host, every mirror in one place of one group.
Grouped ==
  /\ phase \in {"start", "probe"} => lanes = <<>>
  /\ \A i \in 1..Len(lanes) : Len(lanes[i].repos) > 0
  /\ \A i, j \in 1..Len(lanes) : lanes[i].key = lanes[j].key => i = j

Placed ==
  /\ \A i, j \in 1..Len(lanes) :
       \A m \in 1..Len(lanes[i].repos), n \in 1..Len(lanes[j].repos) :
         lanes[i].repos[m] = lanes[j].repos[n] => i = j /\ m = n
  /\ phase = "group" =>
       \A i \in 1..Len(lanes) : \A m \in 1..Len(lanes[i].repos) :
         \E x \in 1..Len(kept) : x < next /\ lanes[i].repos[m] = kept[x]

\* A worker at work holds an item of its phase that is behind the cursor and no other
\* worker's.
Holding ==
  \A w \in Worker :
    /\ wpc[w] = "probe" => phase = "probe" /\ at[w] \in 1..Len(kept)
    /\ Maintains(w) =>
         /\ phase \in {"sweep", "done"}
         /\ at[w] \in 1..Len(lanes) /\ at[w] < next
         /\ pos[w] \in 1..Len(lanes[at[w]].repos)
         /\ \A v \in Worker : Maintains(v) /\ at[v] = at[w] => v = w

\* A free gate has had its interval.
Rests == \A k \in Key : ~gate[k] => rested[k]

\* What is still to be maintained has not been reported.
Fresh ==
  /\ phase \in Settled => \A r \in Repo : verdict[r] # "ok"
  /\ phase = "sweep" =>
       \A i \in 1..Len(lanes) : i >= next =>
         \A n \in 1..Len(lanes[i].repos) : verdict[lanes[i].repos[n]] # "ok"
  /\ \A w \in Worker : Maintains(w) =>
       /\ \A n \in 1..Len(lanes[at[w]].repos) :
            n >= pos[w] => verdict[lanes[at[w]].repos[n]] # "ok"
       /\ wpc[w] = "graph" => pack[Mirror(w)] = "bitmap"

IInv ==
  SweepTypeOK /\ OptionsTyped /\ KeptDistinct /\ Grouped /\ Placed /\ Holding /\ Rests
  /\ Fresh /\ OkMeansSearchable

\* The steps of maintainOne.
Maintenance(w) ==
  \/ NoFetch(w) \/ FetchStart(w) \/ (\E ok \in GitEnds : FetchEnds(w, ok)) \/ RestEnds(w)
  \/ Configured(w) \/ Collected(w) \/ Repacked(w) \/ GraphWritten(w) \/ OptimizeFails(w)

-----------------------------------------------------------------------------
(* Lemmas about the operators *)

\* Every mirror has a group key.
LEMMA KeyTyped ==
  ASSUME SweepTypeOK, NEW r \in Repo
  PROVE  KeyOf(r) \in Key
BY SweepAssumption DEF SweepTypeOK, KeyOf, Key

\* The filter yields distinct mirrors.
LEMMA FilteredDistinct ==
  ASSUME NEW c, NEW s \in Seq(Repo), Filtered(c, s)
  PROVE  \A i, j \in 1..Len(s) : s[i] = s[j] => i = j
<1>1. PICK order \in [1..Len(s) -> 1..Len(Repos)] :
        /\ \A i, j \in 1..Len(s) : i < j => order[i] < order[j]
        /\ s = [i \in 1..Len(s) |-> Repos[order[i]]]
  BY DEF Filtered
<1>2. SUFFICES ASSUME NEW i \in 1..Len(s), NEW j \in 1..Len(s), s[i] = s[j]
               PROVE  i = j
  OBVIOUS
<1>3. s[i] = Repos[order[i]] /\ s[j] = Repos[order[j]]
  BY <1>1
<1>4. order[i] = order[j]
  BY <1>1, <1>2, <1>3, SweepAssumption
<1>5. i \in Int /\ j \in Int /\ order[i] \in Int /\ order[j] \in Int
  BY <1>1
<1>6. QED
  BY <1>1, <1>4, <1>5

\* Where a maintaining worker is.
LEMMA WorkTyped ==
  ASSUME SweepTypeOK, Holding, NEW w \in Worker, Maintains(w)
  PROVE  /\ at[w] \in 1..Len(lanes) /\ lanes[at[w]] \in Lane
         /\ Group(w) \in Key /\ Mirror(w) \in Repo
         /\ lanes[at[w]].repos \in Seq(Repo)
         /\ Len(lanes[at[w]].repos) \in Nat
<1>1. /\ at[w] \in 1..Len(lanes)
      /\ pos[w] \in 1..Len(lanes[at[w]].repos)
  BY DEF Holding
<1>2. lanes[at[w]] \in Lane
  BY <1>1, ElementOfSeq DEF SweepTypeOK
<1>3. lanes[at[w]].key \in Key /\ lanes[at[w]].repos \in Seq(Repo)
  BY <1>2 DEF Lane
<1>4. Mirror(w) \in Repo
  BY <1>1, <1>3, ElementOfSeq DEF Mirror
<1>5. QED
  BY <1>1, <1>2, <1>3, <1>4, LenProperties DEF Group

\* What a step of maintainOne does to the workers: the one that takes it goes on with its
\* target, with a later one of its group, or is idle.
LEMMA MaintenanceFrame ==
  ASSUME SweepTypeOK, Holding, NEW w \in Worker, Maintenance(w)
  PROVE  /\ Maintains(w)
         /\ UNCHANGED workRest
         /\ at' \in [Worker -> Nat] /\ pos' \in [Worker -> Nat]
         /\ wpc' \in [Worker -> {"idle", "probe", "target", "fetch", "rest", "config", "gc",
                                 "repack", "graph", "over"}]
         /\ verdict' \in [Repo -> {"none", "ok", "failed"}]
         /\ \A v \in Worker : v # w => wpc'[v] = wpc[v] /\ at'[v] = at[v] /\ pos'[v] = pos[v]
         /\ wpc'[w] # "probe"
         /\ \/ wpc'[w] = "idle"
            \/ at'[w] = at[w] /\ pos'[w] = pos[w] /\ verdict' = verdict
            \/ /\ at'[w] = at[w] /\ pos'[w] = pos[w] + 1 /\ wpc'[w] = "target"
               /\ pos[w] < Len(lanes[at[w]].repos)
         /\ \A r \in Repo : r # Mirror(w) => verdict'[r] = verdict[r]
<1>1. Maintains(w)
  BY DEF Maintenance, Maintains, NoFetch, FetchStart, FetchEnds, RestEnds, Configured,
         Collected, Repacked, GraphWritten, OptimizeFails
<1>2. UNCHANGED workRest
  BY DEF Maintenance, optimizeRest, NoFetch, FetchStart, FetchEnds, RestEnds, Configured,
         Collected, Repacked, GraphWritten, OptimizeFails
<1>3. \/ \E where \in {"fetch", "rest", "config", "gc", "repack", "graph"} : Goto(w, where)
      \/ \E v \in {"ok", "failed"} : Report(w, v)
  BY DEF Maintenance, NoFetch, FetchStart, FetchEnds, RestEnds, Configured,
         Collected, Repacked, GraphWritten, OptimizeFails, Aligned
<1>4. Mirror(w) \in Repo
  BY <1>1, WorkTyped
<1>5. CASE \E where \in {"fetch", "rest", "config", "gc", "repack", "graph"} : Goto(w, where)
  BY <1>1, <1>2, <1>5 DEF Goto, SweepTypeOK
<1>6. CASE \E v \in {"ok", "failed"} : Report(w, v)
  <2>1. PICK v \in {"ok", "failed"} : Report(w, v)
    BY <1>6
  <2>2. verdict' = [verdict EXCEPT ![Mirror(w)] = v]
    BY <2>1 DEF Report
  <2>3. /\ verdict' \in [Repo -> {"none", "ok", "failed"}]
        /\ \A r \in Repo : r # Mirror(w) => verdict'[r] = verdict[r]
    BY <2>2, <1>4 DEF SweepTypeOK
  <2>4. CASE pos[w] < Len(lanes[at[w]].repos)
    <3>1. /\ pos' = [pos EXCEPT ![w] = @ + 1]
          /\ wpc' = [wpc EXCEPT ![w] = "target"]
          /\ at' = at
      BY <2>1, <2>4 DEF Report
    <3>2. /\ pos \in [Worker -> Nat] /\ at \in [Worker -> Nat]
          /\ wpc \in [Worker -> {"idle", "probe", "target", "fetch", "rest", "config", "gc",
                                 "repack", "graph", "over"}]
      BY DEF SweepTypeOK
    <3>3. /\ pos' \in [Worker -> Nat] /\ pos'[w] = pos[w] + 1
          /\ \A u \in Worker : u # w => pos'[u] = pos[u]
      BY <3>1, <3>2
    <3>4. /\ wpc' \in [Worker -> {"idle", "probe", "target", "fetch", "rest", "config", "gc",
                                  "repack", "graph", "over"}]
          /\ wpc'[w] = "target"
          /\ \A u \in Worker : u # w => wpc'[u] = wpc[u]
      BY <3>1, <3>2
    <3>5. QED
      BY <1>1, <1>2, <2>3, <2>4, <3>1, <3>2, <3>3, <3>4
  <2>5. CASE ~(pos[w] < Len(lanes[at[w]].repos))
    <3>1. /\ at' = [at EXCEPT ![w] = 0]
          /\ wpc' = [wpc EXCEPT ![w] = "idle"]
          /\ pos' = pos
      BY <2>1, <2>5 DEF Report
    <3>2. /\ pos \in [Worker -> Nat] /\ at \in [Worker -> Nat]
          /\ wpc \in [Worker -> {"idle", "probe", "target", "fetch", "rest", "config", "gc",
                                 "repack", "graph", "over"}]
      BY DEF SweepTypeOK
    <3>3. at' \in [Worker -> Nat] /\ \A u \in Worker : u # w => at'[u] = at[u]
      BY <3>1, <3>2
    <3>4. /\ wpc' \in [Worker -> {"idle", "probe", "target", "fetch", "rest", "config", "gc",
                                  "repack", "graph", "over"}]
          /\ wpc'[w] = "idle"
          /\ \A u \in Worker : u # w => wpc'[u] = wpc[u]
      BY <3>1, <3>2
    <3>5. QED
      BY <1>1, <1>2, <2>3, <3>1, <3>2, <3>3, <3>4
  <2>6. QED
    BY <2>4, <2>5
<1>7. QED
  BY <1>3, <1>5, <1>6

\* The grouping loop's step: one group gains the mirror, or it is a new one's first.
LEMMA GroupNextFacts ==
  ASSUME SweepTypeOK, GroupNext
  PROVE  LET r == kept[next]
         IN /\ next \in 1..Len(kept) /\ r \in Repo
            /\ lanes' \in Seq(Lane)
            /\ \/ \E i \in 1..Len(lanes) :
                    /\ Len(lanes') = Len(lanes) /\ lanes[i].key = KeyOf(r)
                    /\ lanes'[i].key = lanes[i].key
                    /\ lanes'[i].repos = Append(lanes[i].repos, r)
                    /\ \A j \in 1..Len(lanes) : j # i => lanes'[j] = lanes[j]
               \/ /\ Len(lanes') = Len(lanes) + 1
                  /\ \A j \in 1..Len(lanes) : lanes'[j] = lanes[j] /\ lanes[j].key # KeyOf(r)
                  /\ lanes'[Len(lanes) + 1].key = KeyOf(r)
                  /\ lanes'[Len(lanes) + 1].repos = <<r>>
<1> DEFINE r == kept[next]
<1>1. next \in 1..Len(kept)
  BY DEF GroupNext, SweepTypeOK
<1>2. r \in Repo
  BY <1>1, ElementOfSeq DEF SweepTypeOK
<1>3. KeyOf(r) \in Key
  BY <1>2, KeyTyped
<1> DEFINE lane == {i \in 1..Len(lanes) : lanes[i].key = KeyOf(r)}
<1>4. \/ \E i \in lane : lanes' = [lanes EXCEPT ![i].repos = Append(@, r)]
      \/ lane = {} /\ lanes' = Append(lanes, [key |-> KeyOf(r), repos |-> <<r>>])
  BY DEF GroupNext
<1> HIDE DEF r
<1>5. ASSUME NEW i \in lane, lanes' = [lanes EXCEPT ![i].repos = Append(@, r)]
      PROVE  /\ lanes' \in Seq(Lane)
             /\ Len(lanes') = Len(lanes)
             /\ lanes'[i].key = lanes[i].key
             /\ lanes'[i].repos = Append(lanes[i].repos, r)
             /\ \A j \in 1..Len(lanes) : j # i => lanes'[j] = lanes[j]
  <2> DEFINE new == [lanes[i] EXCEPT !.repos = Append(lanes[i].repos, r)]
  <2>1. lanes[i] \in Lane
    BY ElementOfSeq DEF SweepTypeOK
  <2>2. Append(lanes[i].repos, r) \in Seq(Repo)
    BY <1>2, <2>1 DEF Lane
  <2>3. new \in Lane /\ new.key = lanes[i].key /\ new.repos = Append(lanes[i].repos, r)
    BY <2>1, <2>2 DEF Lane
  <2>4. lanes' = [lanes EXCEPT ![i] = new]
    BY <1>5
  <2> HIDE DEF new
  <2>5. lanes \in Seq(Lane) /\ i \in 1..Len(lanes)
    BY DEF SweepTypeOK
  <2>6. /\ lanes' \in Seq(Lane) /\ Len(lanes') = Len(lanes)
        /\ \A j \in 1..Len(lanes) : lanes'[j] = IF j = i THEN new ELSE lanes[j]
    BY <2>3, <2>4, <2>5, ExceptSeq
  <2>7. QED
    BY <2>3, <2>5, <2>6
<1>6. ASSUME lane = {}, lanes' = Append(lanes, [key |-> KeyOf(r), repos |-> <<r>>])
      PROVE  /\ lanes' \in Seq(Lane)
             /\ Len(lanes') = Len(lanes) + 1
             /\ \A j \in 1..Len(lanes) : lanes'[j] = lanes[j] /\ lanes[j].key # KeyOf(r)
             /\ lanes'[Len(lanes) + 1].key = KeyOf(r)
             /\ lanes'[Len(lanes) + 1].repos = <<r>>
  <2> DEFINE new == [key |-> KeyOf(r), repos |-> <<r>>]
  <2>1. new \in Lane /\ new.key = KeyOf(r) /\ new.repos = <<r>>
    BY <1>2, <1>3 DEF Lane
  <2>2. lanes' = Append(lanes, new)
    BY <1>6
  <2> HIDE DEF new
  <2>3. lanes \in Seq(Lane)
    BY DEF SweepTypeOK
  <2>4. /\ lanes' \in Seq(Lane) /\ Len(lanes') = Len(lanes) + 1
        /\ \A j \in 1..Len(lanes) : lanes'[j] = lanes[j]
        /\ lanes'[Len(lanes) + 1] = new
    BY <2>1, <2>2, <2>3
  <2>5. \A j \in 1..Len(lanes) : lanes[j].key # KeyOf(r)
    BY <1>6
  <2>6. QED
    BY <2>1, <2>4, <2>5
<1>7. CASE \E i \in lane : lanes' = [lanes EXCEPT ![i].repos = Append(@, r)]
  BY <1>1, <1>2, <1>5, <1>7 DEF r
<1>8. CASE lane = {} /\ lanes' = Append(lanes, [key |-> KeyOf(r), repos |-> <<r>>])
  BY <1>1, <1>2, <1>6, <1>8 DEF r
<1>9. QED
  BY <1>4, <1>7, <1>8

-----------------------------------------------------------------------------
(* The typing invariant *)

\* The initial state is typed.
LEMMA InitTyped == SweepInit => SweepTypeOK /\ OptionsTyped
<1> SUFFICES ASSUME SweepInit PROVE SweepTypeOK /\ OptionsTyped
  OBVIOUS
<1>1. kept \in Seq(Repo) /\ lanes \in Seq(Lane)
  BY EmptySeq DEF SweepInit
<1>2. OptionsTyped
  BY DEF SweepInit, OptionsTyped, Options
<1>3. SweepTypeOK
  BY <1>1, SweepAssumption DEF SweepInit, SweepTypeOK
<1>4. QED
  BY <1>2, <1>3

\* A step of maintainOne keeps the types.
LEMMA MaintenanceTyped ==
  ASSUME SweepTypeOK, Holding, NEW w \in Worker, Maintenance(w)
  PROVE  SweepTypeOK'
<1>1. /\ UNCHANGED workRest
      /\ at' \in [Worker -> Nat] /\ pos' \in [Worker -> Nat]
      /\ wpc' \in [Worker -> {"idle", "probe", "target", "fetch", "rest", "config", "gc",
                              "repack", "graph", "over"}]
      /\ verdict' \in [Repo -> {"none", "ok", "failed"}]
      /\ Group(w) \in Key /\ Mirror(w) \in Repo
  BY MaintenanceFrame, WorkTyped
<1>2. /\ fetched' \in [Worker -> BOOLEAN] /\ exitCode' \in {0, 1}
  BY DEF Maintenance, SweepTypeOK, optimizeRest, GitEnds, NoFetch, FetchStart, FetchEnds, RestEnds,
         Configured, Collected, Repacked, GraphWritten, OptimizeFails
<1>3. gate' \in [Key -> BOOLEAN] /\ rested' \in [Key -> BOOLEAN]
  BY <1>1 DEF Maintenance, SweepTypeOK, optimizeRest, Paced, NoFetch, FetchStart, FetchEnds, RestEnds,
         Configured, Collected, Repacked, GraphWritten, OptimizeFails
<1>4. /\ pack' \in [Repo -> {"loose", "packed", "bitmap"}]
      /\ graph' \in [Repo -> {"none", "plain", "bloom"}]
  <2> USE <1>1 DEF SweepTypeOK, sweepGit
  <2>1. CASE NoFetch(w) \/ FetchStart(w) \/ RestEnds(w) \/ Configured(w) \/ OptimizeFails(w)
    BY <2>1 DEF NoFetch, FetchStart, RestEnds, Configured, OptimizeFails
  <2>2. ASSUME NEW ok, FetchEnds(w, ok)
        PROVE  /\ pack' \in [Repo -> {"loose", "packed", "bitmap"}]
               /\ graph' \in [Repo -> {"none", "plain", "bloom"}]
    <3>1. CASE ok
      BY <2>2, <3>1 DEF FetchEnds
    <3>2. CASE ~ok
      BY <2>2, <3>2 DEF FetchEnds
    <3>3. QED
      BY <3>1, <3>2
  <2>3. CASE Collected(w)
    BY <2>3 DEF Collected
  <2>4. CASE Repacked(w)
    BY <2>4 DEF Repacked
  <2>5. CASE GraphWritten(w)
    BY <2>5 DEF GraphWritten
  <2>6. QED
    BY <2>1, <2>2, <2>3, <2>4, <2>5 DEF Maintenance
<1>5. QED
  BY <1>1, <1>2, <1>3, <1>4 DEF SweepTypeOK, workRest, sweepMain

\* What the discovery keeps.
LEMMA DiscoverFacts ==
  ASSUME Discover
  PROVE  kept' \in Seq(Repo) /\ Filtered(o', kept') /\ o' \in Options
<1>1. o' \in Options
  BY SweepAssumption DEF Discover
<1>2. PICK n \in 0..Len(Repos) : kept' \in {s \in [1..n -> Repo] : Filtered(o', s)}
  BY DEF Discover
<1>3. n \in Nat /\ kept' \in [1..n -> Repo]
  BY <1>2, SweepAssumption
<1>4. QED
  BY <1>1, <1>2, <1>3, SeqDef

\* Every step keeps the typing; the moves of the workers rest on Holding, by which
\* what a worker points at is there.
LEMMA StepTyped ==
  ASSUME SweepTypeOK, OptionsTyped, Holding, [SweepNext]_sweepVars
  PROVE  SweepTypeOK' /\ OptionsTyped'
<1>0. /\ GroupNext => lanes' \in Seq(Lane) /\ next' \in Nat \ {0}
      /\ \A w \in Worker : Maintenance(w) => SweepTypeOK' /\ UNCHANGED o
  <2>1. ASSUME GroupNext PROVE lanes' \in Seq(Lane) /\ next' = next + 1 /\ next \in Nat
    BY <2>1, GroupNextFacts DEF GroupNext, SweepTypeOK
  <2>2. QED
    BY <2>1, MaintenanceTyped, MaintenanceFrame DEF workRest, sweepMain
<1> USE DEF SweepTypeOK, OptionsTyped, sweepMain, poolVars, laneVars, sweepGit
<1>1. CASE Abort
  BY <1>1 DEF Abort
<1>2. CASE Discover
  <2>1. kept' \in Seq(Repo) /\ o' \in Options /\ url' \in [Repo -> Url \cup {NoUrl}]
    BY <1>2, DiscoverFacts, SweepAssumption DEF Discover
  <2>2. QED
    BY <1>2, <2>1 DEF Discover
<1>3. CASE ProbesEnd
  BY <1>3 DEF ProbesEnd
<1>4. CASE GroupNext
  BY <1>0, <1>4 DEF GroupNext
<1>5. CASE GroupsEnd
  BY <1>5 DEF GroupsEnd
<1>6. CASE SweepEnd
  BY <1>6 DEF SweepEnd
<1>7. ASSUME NEW w \in Worker, Take(w) PROVE SweepTypeOK' /\ OptionsTyped'
  BY <1>7 DEF Take
<1>8. ASSUME NEW w \in Worker, Drained(w) PROVE SweepTypeOK' /\ OptionsTyped'
  BY <1>8 DEF Drained
<1>9. ASSUME NEW w \in Worker, Probed(w) PROVE SweepTypeOK' /\ OptionsTyped'
  <2>1. at[w] \in 1..Len(kept)
    BY <1>9 DEF Probed, Holding
  <2>2. kept[at[w]] \in Repo
    BY <2>1, ElementOfSeq
  <2>3. found' \in [Repo -> Url \cup {NoUrl}]
    BY <1>9, <2>2 DEF Probed
  <2>4. QED
    BY <1>9, <2>3 DEF Probed
<1>10. ASSUME NEW w \in Worker, Maintenance(w) PROVE SweepTypeOK' /\ OptionsTyped'
  BY <1>0, <1>10
<1>11. CASE UNCHANGED sweepVars
  BY <1>11 DEF sweepVars
<1>12. QED
  BY <1>1, <1>2, <1>3, <1>4, <1>5, <1>6, <1>7, <1>8, <1>9, <1>10, <1>11
     DEF SweepNext, MainRuns, WorkerRuns, Maintenance

-----------------------------------------------------------------------------
(* The groups *)

\* The mirrors discovery keeps are distinct, and no later step touches them.
LEMMA KeptStep ==
  ASSUME SweepTypeOK, KeptDistinct, Holding, [SweepNext]_sweepVars
  PROVE  KeptDistinct'
<1>1. CASE Discover
  BY <1>1, DiscoverFacts, FilteredDistinct DEF KeptDistinct
<1>2. CASE kept' = kept
  BY <1>2 DEF KeptDistinct
<1>3. \A w \in Worker : Maintenance(w) => kept' = kept
  BY MaintenanceFrame DEF workRest, sweepMain
<1>4. QED
  BY <1>1, <1>2, <1>3 DEF SweepNext, MainRuns, WorkerRuns, Maintenance, sweepVars, sweepMain,
     Abort, ProbesEnd, GroupNext, GroupsEnd, SweepEnd, Take, Drained, Probed

\* The groups change in the grouping loop alone.
LEMMA LanesFrame ==
  ASSUME SweepTypeOK, Holding, [SweepNext]_sweepVars, ~GroupNext
  PROVE  /\ lanes' = lanes
         /\ phase' \in {"start", "probe"} => phase \in {"start", "probe"}
         /\ phase' = "group" =>
              /\ kept' = kept
              /\ (phase = "group" /\ next' = next) \/ phase = "probe"
<1>1. ASSUME NEW w \in Worker, Maintenance(w) PROVE UNCHANGED <<phase, next, lanes, kept>>
  BY <1>1, MaintenanceFrame DEF workRest, sweepMain
<1>2. ASSUME NEW w \in Worker, Take(w) \/ Drained(w) \/ Probed(w)
      PROVE  /\ UNCHANGED <<phase, lanes, kept>>
             /\ phase = "group" => next' = next
  BY <1>2 DEF Take, Drained, Probed, laneVars, sweepMain
<1>3. CASE Abort \/ Discover
  BY <1>3 DEF Abort, Discover, laneVars, sweepMain
<1>4. CASE ProbesEnd \/ GroupsEnd \/ SweepEnd
  BY <1>4 DEF ProbesEnd, GroupsEnd, SweepEnd, laneVars, sweepMain
<1>5. CASE UNCHANGED sweepVars
  BY <1>5 DEF sweepVars, sweepMain
<1>6. ASSUME NEW w \in Worker, WorkerRuns(w)
      PROVE  Maintenance(w) \/ Take(w) \/ Drained(w) \/ Probed(w)
  BY <1>6 DEF WorkerRuns, Maintenance
<1>7. QED
  BY <1>1, <1>2, <1>3, <1>4, <1>5, <1>6 DEF SweepNext, MainRuns

\* Grouping puts each kept mirror into one lane, one lane per host and at most
\* once (groupBy over the filtered list).
LEMMA GroupedStep ==
  ASSUME SweepTypeOK, KeptDistinct, Grouped, Placed, Holding, [SweepNext]_sweepVars
  PROVE  Grouped' /\ Placed'
<1>1. CASE ~GroupNext
  <2>1. /\ lanes' = lanes
        /\ phase' \in {"start", "probe"} => phase \in {"start", "probe"}
        /\ phase' = "group" =>
             /\ kept' = kept
             /\ (phase = "group" /\ next' = next) \/ phase = "probe"
    BY <1>1, LanesFrame
  <2>2. Grouped'
    BY <2>1 DEF Grouped
  <2>3. Placed'
    BY <2>1 DEF Grouped, Placed
  <2>4. QED
    BY <2>2, <2>3
<1>2. CASE GroupNext
  <2> DEFINE r == kept[next]
  <2>1. next \in 1..Len(kept) /\ r \in Repo /\ lanes' \in Seq(Lane)
    BY <1>2, GroupNextFacts
  <2>2. /\ phase = "group" /\ phase' = "group" /\ kept' = kept /\ next' = next + 1
        /\ next \in Nat
    BY <1>2 DEF GroupNext, sweepMain, SweepTypeOK
  <2>3. \A i \in 1..Len(lanes) : lanes[i] \in Lane /\ lanes[i].repos \in Seq(Repo)
    <3>1. \A i \in 1..Len(lanes) : lanes[i] \in Lane
      BY ElementOfSeq DEF SweepTypeOK
    <3>2. QED
      BY <3>1 DEF Lane
  <2>4. Len(lanes) \in Nat /\ Len(kept) \in Nat
    BY DEF SweepTypeOK
  \* The mirror is in no group yet.
  <2>5. \A i \in 1..Len(lanes) : \A m \in 1..Len(lanes[i].repos) : lanes[i].repos[m] # r
    BY <2>1, <2>2, <2>4 DEF Placed, KeptDistinct
  <2>9. \A i, j \in 1..Len(lanes) :
          \A m \in 1..Len(lanes[i].repos), n \in 1..Len(lanes[j].repos) :
            lanes[i].repos[m] = lanes[j].repos[n] => i = j /\ m = n
    BY DEF Placed
  <2>10. \A i \in 1..Len(lanes) : \A m \in 1..Len(lanes[i].repos) :
           \E x \in 1..Len(kept) : x < next /\ lanes[i].repos[m] = kept[x]
    BY <2>2 DEF Placed
  <2>11. kept[next] = r
    OBVIOUS
  <2>6. ASSUME NEW g \in 1..Len(lanes), Len(lanes') = Len(lanes), lanes[g].key = KeyOf(r),
               lanes'[g].key = lanes[g].key, lanes'[g].repos = Append(lanes[g].repos, r),
               \A j \in 1..Len(lanes) : j # g => lanes'[j] = lanes[j]
        PROVE  Grouped' /\ Placed'
    <3> HIDE DEF r
    <3> DEFINE L == lanes[g].repos
    <3>1. /\ L \in Seq(Repo) /\ Len(L) \in Nat /\ Len(Append(L, r)) = Len(L) + 1
          /\ \A m \in 1..Len(L) : Append(L, r)[m] = L[m]
          /\ Append(L, r)[Len(L) + 1] = r
      <4>1. L \in Seq(Repo) /\ r \in Repo
        BY <2>1, <2>3
      <4> HIDE DEF L
      <4>2. QED
        BY ONLY <4>1, AppendProperties
    <3>2. Grouped'
      <4>1. \A i \in 1..Len(lanes) : lanes'[i].key = lanes[i].key
        BY <2>6
      <4>2. \A i \in 1..Len(lanes) : Len(lanes'[i].repos) > 0
        <5>1. Len(lanes'[g].repos) > 0
          BY <2>6, <3>1
        <5> HIDE DEF L
        <5>2. QED
          BY <2>6, <5>1 DEF Grouped
      <4> HIDE DEF L
      <4>3. \A i, j \in 1..Len(lanes') : lanes'[i].key = lanes'[j].key => i = j
        BY <2>6, <4>1 DEF Grouped
      <4>4. \A i \in 1..Len(lanes') : Len(lanes'[i].repos) > 0
        BY <2>6, <4>2
      <4>5. QED
        BY <2>2, <4>3, <4>4 DEF Grouped
    <3>3. \A i \in 1..Len(lanes) : \A m \in 1..Len(lanes'[i].repos) :
            \/ m \in 1..Len(lanes[i].repos) /\ lanes'[i].repos[m] = lanes[i].repos[m]
            \/ i = g /\ m = Len(L) + 1 /\ lanes'[i].repos[m] = r
      <4> TAKE i \in 1..Len(lanes)
      <4> TAKE m \in 1..Len(lanes'[i].repos)
      <4>1. CASE i # g
        BY <2>6, <4>1
      <4>2. CASE i = g
        <5>1. lanes'[i].repos = Append(L, r)
          BY <2>6, <4>2
        <5>2. m \in 1..(Len(L) + 1)
          BY <3>1, <5>1
        <5>3. m \in 1..Len(L) \/ m = Len(L) + 1
          BY <3>1, <5>2
        <5>4. CASE m \in 1..Len(L)
          BY <3>1, <4>2, <5>1, <5>4
        <5>5. CASE m = Len(L) + 1
          BY <3>1, <4>2, <5>1, <5>5
        <5>6. QED
          BY <5>3, <5>4, <5>5
      <4>3. QED
        BY <4>1, <4>2
    <3>4. Placed'
      <4>1. ASSUME NEW i \in 1..Len(lanes), NEW j \in 1..Len(lanes),
                   NEW m \in 1..Len(lanes'[i].repos), NEW n \in 1..Len(lanes'[j].repos),
                   lanes'[i].repos[m] = lanes'[j].repos[n]
            PROVE  i = j /\ m = n
        <5>1. CASE lanes'[i].repos[m] = r
          <6>1. i = g /\ m = Len(L) + 1
            BY <2>5, <5>1, <3>3
          <6>2. j = g /\ n = Len(L) + 1
            BY <2>5, <4>1, <5>1, <3>3
          <6>3. QED
            BY <6>1, <6>2
        <5>2. CASE lanes'[i].repos[m] # r
          <6>1. /\ i \in 1..Len(lanes) /\ m \in 1..Len(lanes[i].repos)
                /\ lanes'[i].repos[m] = lanes[i].repos[m]
            BY <4>1, <5>2, <3>3
          <6>2. /\ j \in 1..Len(lanes) /\ n \in 1..Len(lanes[j].repos)
                /\ lanes'[j].repos[n] = lanes[j].repos[n]
            BY <4>1, <5>2, <3>3
          <6>3. lanes[i].repos[m] = lanes[j].repos[n]
            BY <4>1, <6>1, <6>2
          <6>4. \A x \in 1..Len(lanes[i].repos), y \in 1..Len(lanes[j].repos) :
                  lanes[i].repos[x] = lanes[j].repos[y] => i = j /\ x = y
            BY <2>9, <6>1, <6>2
          <6>5. QED
            BY <6>1, <6>2, <6>3, <6>4
        <5>3. QED
          BY <5>1, <5>2
      <4>2. ASSUME NEW i \in 1..Len(lanes), NEW m \in 1..Len(lanes'[i].repos)
            PROVE  \E x \in 1..Len(kept) : x < next + 1 /\ lanes'[i].repos[m] = kept[x]
        <5>1. CASE lanes'[i].repos[m] = r
          <6>1. next < next + 1
            BY <2>2
          <6>2. QED
            BY <2>1, <2>11, <5>1, <6>1
        <5>2. CASE lanes'[i].repos[m] # r
          <6>1. PICK x \in 1..Len(kept) : x < next /\ lanes'[i].repos[m] = kept[x]
            BY <2>10, <5>2, <3>3
          <6>2. x < next + 1
            BY <2>2, <2>4, <6>1
          <6>3. QED
            BY <6>1, <6>2
        <5>3. QED
          BY <5>1, <5>2
      <4>3. \A i, j \in 1..Len(lanes') :
              \A m \in 1..Len(lanes'[i].repos), n \in 1..Len(lanes'[j].repos) :
                lanes'[i].repos[m] = lanes'[j].repos[n] => i = j /\ m = n
        <5> HIDE DEF L
        <5> QED
          BY <2>6, <4>1
      <4>4. \A i \in 1..Len(lanes') : \A m \in 1..Len(lanes'[i].repos) :
              \E x \in 1..Len(kept') : x < next' /\ lanes'[i].repos[m] = kept'[x]
        <5> HIDE DEF L
        <5> QED
          BY <2>2, <2>6, <4>2
      <4>5. QED
        BY ONLY <4>3, <4>4 DEF Placed
    <3>5. QED
      BY <3>2, <3>4
  <2>7. ASSUME Len(lanes') = Len(lanes) + 1,
               \A j \in 1..Len(lanes) : lanes'[j] = lanes[j] /\ lanes[j].key # KeyOf(r),
               lanes'[Len(lanes) + 1].key = KeyOf(r), lanes'[Len(lanes) + 1].repos = <<r>>
        PROVE  Grouped' /\ Placed'
    <3> HIDE DEF r
    <3> DEFINE g == Len(lanes) + 1
    <3>1. Len(<<r>>) = 1 /\ <<r>>[1] = r
      OBVIOUS
    <3>2. \A i \in 1..Len(lanes') : i \in 1..Len(lanes) \/ i = g
      BY <2>4, <2>7
    <3>3. Grouped'
      <4>1. \A i \in 1..Len(lanes') : Len(lanes'[i].repos) > 0
        <5>1. \A i \in 1..Len(lanes) : Len(lanes'[i].repos) > 0
          BY <2>7 DEF Grouped
        <5>2. lanes'[g].repos = <<r>>
          BY <2>7
        <5>3. Len(lanes'[g].repos) > 0
          BY <3>1, <5>2
        <5>4. QED
          BY <3>2, <5>1, <5>3
      <4>2. \A i, j \in 1..Len(lanes') : lanes'[i].key = lanes'[j].key => i = j
        BY <2>7, <3>2 DEF Grouped
      <4>3. QED
        BY <2>2, <4>1, <4>2 DEF Grouped
    <3>4. \A i \in 1..Len(lanes') : \A m \in 1..Len(lanes'[i].repos) :
            \/ /\ i \in 1..Len(lanes) /\ m \in 1..Len(lanes[i].repos)
               /\ lanes'[i].repos[m] = lanes[i].repos[m]
            \/ i = g /\ m = 1 /\ lanes'[i].repos[m] = r
      <4> TAKE i \in 1..Len(lanes')
      <4> TAKE m \in 1..Len(lanes'[i].repos)
      <4>1. CASE i \in 1..Len(lanes)
        <5>1. lanes'[i] = lanes[i]
          BY <2>7, <4>1
        <5>2. QED
          BY <4>1, <5>1
      <4>2. CASE i = g
        <5>1. lanes'[i].repos = <<r>>
          BY <2>7, <4>2
        <5>2. m \in 1..1
          BY <3>1, <5>1
        <5>3. m = 1
          BY <5>2
        <5>4. QED
          BY <3>1, <4>2, <5>1, <5>3
      <4>3. QED
        BY <3>2, <4>1, <4>2
    <3>5. Placed'
      <4>1. ASSUME NEW i \in 1..Len(lanes'), NEW j \in 1..Len(lanes'),
                   NEW m \in 1..Len(lanes'[i].repos), NEW n \in 1..Len(lanes'[j].repos),
                   lanes'[i].repos[m] = lanes'[j].repos[n]
            PROVE  i = j /\ m = n
        <5>1. CASE lanes'[i].repos[m] = r
          <6>1. i = g /\ m = 1
            BY <2>5, <5>1, <3>4
          <6>2. j = g /\ n = 1
            BY <2>5, <4>1, <5>1, <3>4
          <6>3. QED
            BY <6>1, <6>2
        <5>2. CASE lanes'[i].repos[m] # r
          <6>1. /\ i \in 1..Len(lanes) /\ m \in 1..Len(lanes[i].repos)
                /\ lanes'[i].repos[m] = lanes[i].repos[m]
            BY <4>1, <5>2, <3>4
          <6>2. /\ j \in 1..Len(lanes) /\ n \in 1..Len(lanes[j].repos)
                /\ lanes'[j].repos[n] = lanes[j].repos[n]
            BY <4>1, <5>2, <3>4
          <6>3. lanes[i].repos[m] = lanes[j].repos[n]
            BY <4>1, <6>1, <6>2
          <6>4. \A x \in 1..Len(lanes[i].repos), y \in 1..Len(lanes[j].repos) :
                  lanes[i].repos[x] = lanes[j].repos[y] => i = j /\ x = y
            BY <2>9, <6>1, <6>2
          <6>5. QED
            BY <6>1, <6>2, <6>3, <6>4
        <5>3. QED
          BY <5>1, <5>2
      <4>2. ASSUME NEW i \in 1..Len(lanes'), NEW m \in 1..Len(lanes'[i].repos)
            PROVE  \E x \in 1..Len(kept) : x < next + 1 /\ lanes'[i].repos[m] = kept[x]
        <5>1. CASE lanes'[i].repos[m] = r
          <6>1. next < next + 1
            BY <2>2
          <6>2. QED
            BY <2>1, <2>11, <5>1, <6>1
        <5>2. CASE lanes'[i].repos[m] # r
          <6>1. PICK x \in 1..Len(kept) : x < next /\ lanes'[i].repos[m] = kept[x]
            BY <2>10, <5>2, <3>4
          <6>2. x < next + 1
            BY <2>2, <2>4, <6>1
          <6>3. QED
            BY <6>1, <6>2
        <5>3. QED
          BY <5>1, <5>2
      <4>3. QED
        BY <2>2, <4>1, <4>2 DEF Placed
    <3>6. QED
      BY <3>3, <3>5
  <2>8. QED
    BY <1>2, GroupNextFacts, <2>6, <2>7
<1>3. QED
  BY <1>1, <1>2

-----------------------------------------------------------------------------
(* The workers *)

\* Out of the two pools all workers are idle or over.
LEMMA Quiet ==
  ASSUME Holding
  PROVE  /\ phase \notin {"sweep", "done"} => \A w \in Worker : ~Maintains(w)
         /\ phase # "probe" => \A w \in Worker : wpc[w] # "probe"
BY DEF Holding

\* A worker that holds its item still holds it while lanes and kept stand still and the
\* cursor does not go back.
LEMMA StillHolding ==
  ASSUME SweepTypeOK, Holding, UNCHANGED <<phase, lanes, kept>>, next' \in Int, next' >= next,
         NEW w \in Worker, wpc'[w] = wpc[w], at'[w] = at[w], pos'[w] = pos[w]
  PROVE  /\ wpc'[w] = "probe" => phase' = "probe" /\ at'[w] \in 1..Len(kept')
         /\ Maintains(w)' =>
              /\ phase' \in {"sweep", "done"}
              /\ at'[w] \in 1..Len(lanes') /\ at'[w] < next'
              /\ pos'[w] \in 1..Len(lanes'[at'[w]].repos)
<1>1. next \in Int /\ at[w] \in Int
  BY DEF SweepTypeOK
<1>2. wpc[w] = "probe" => phase = "probe" /\ at[w] \in 1..Len(kept)
  BY DEF Holding
<1>3. Maintains(w)' => Maintains(w)
  BY DEF Maintains
<1>4. Maintains(w) =>
        /\ phase \in {"sweep", "done"}
        /\ at[w] \in 1..Len(lanes) /\ at[w] < next
        /\ pos[w] \in 1..Len(lanes[at[w]].repos)
  BY DEF Holding
<1>5. QED
  BY <1>1, <1>2, <1>3, <1>4

\* Holding from its parts.
LEMMA HoldingFromParts ==
  ASSUME \A w \in Worker :
           /\ wpc'[w] = "probe" => phase' = "probe" /\ at'[w] \in 1..Len(kept')
           /\ Maintains(w)' =>
                /\ phase' \in {"sweep", "done"}
                /\ at'[w] \in 1..Len(lanes') /\ at'[w] < next'
                /\ pos'[w] \in 1..Len(lanes'[at'[w]].repos),
         \A v, w \in Worker : Maintains(v)' /\ Maintains(w)' /\ at'[v] = at'[w] => v = w
  PROVE  Holding'
BY DEF Holding

\* A worker that takes the next item holds one no other worker holds.
LEMMA TakeHolding ==
  ASSUME SweepTypeOK, Grouped, Holding, NEW w \in Worker, Take(w)
  PROVE  Holding'
<1>1. /\ phase \in {"probe", "sweep"} /\ next <= Items /\ next \in Nat \ {0}
      /\ wpc[w] = "idle" /\ next' = next + 1
      /\ UNCHANGED <<phase, lanes, kept>>
  BY DEF Take, SweepTypeOK, sweepMain
<1>2. /\ at' = [at EXCEPT ![w] = next]
      /\ wpc' = [wpc EXCEPT ![w] = IF phase = "probe" THEN "probe" ELSE "target"]
      /\ pos' = [pos EXCEPT ![w] = 1]
  BY DEF Take
<1>3. /\ at'[w] = next /\ pos'[w] = 1
      /\ wpc'[w] = IF phase = "probe" THEN "probe" ELSE "target"
      /\ \A v \in Worker : v # w => wpc'[v] = wpc[v] /\ at'[v] = at[v] /\ pos'[v] = pos[v]
  BY <1>2 DEF SweepTypeOK
<1>4. Len(lanes) \in Nat /\ Len(kept) \in Nat
  BY DEF SweepTypeOK
<1>5. CASE phase = "probe"
  <2>1. next \in 1..Len(kept)
    BY <1>1, <1>4, <1>5 DEF Items
  <2>2. \A v \in Worker : ~Maintains(v)
    BY <1>5, Quiet
  <2>3. \A v \in Worker : ~Maintains(v)'
    BY <1>3, <1>5, <2>2 DEF Maintains
  <2>4. \A v \in Worker : wpc'[v] = "probe" => phase' = "probe" /\ at'[v] \in 1..Len(kept')
    BY <1>1, <1>3, <1>5, <2>1 DEF Holding
  <2>5. QED
    BY <2>3, <2>4, HoldingFromParts
<1>6. CASE phase = "sweep"
  <2>1. next \in 1..Len(lanes)
    BY <1>1, <1>4, <1>6 DEF Items
  <2>2. 1 \in 1..Len(lanes[next].repos)
    <3>1. lanes[next] \in Lane
      BY <2>1, ElementOfSeq DEF SweepTypeOK
    <3>2. lanes[next].repos \in Seq(Repo)
      BY <3>1 DEF Lane
    <3>3. Len(lanes[next].repos) > 0 /\ Len(lanes[next].repos) \in Nat
      BY <2>1, <3>2 DEF Grouped
    <3>4. QED
      BY <3>3
  <2>3. wpc'[w] = "target" /\ next < next'
    BY <1>1, <1>3, <1>6
  <2>4. ASSUME NEW v \in Worker
        PROVE  /\ wpc'[v] = "probe" => phase' = "probe" /\ at'[v] \in 1..Len(kept')
               /\ Maintains(v)' =>
                    /\ phase' \in {"sweep", "done"}
                    /\ at'[v] \in 1..Len(lanes') /\ at'[v] < next'
                    /\ pos'[v] \in 1..Len(lanes'[at'[v]].repos)
    <3>1. CASE v = w
      BY <1>1, <1>3, <1>6, <2>1, <2>2, <2>3, <3>1
    <3>2. CASE v # w
      BY <1>1, <1>3, <3>2, StillHolding
    <3>3. QED
      BY <3>1, <3>2
  <2>5. ASSUME NEW u \in Worker, NEW v \in Worker, Maintains(u)', Maintains(v)', at'[u] = at'[v]
        PROVE  u = v
    <3>1. \A x \in Worker : x # w /\ Maintains(x)' => at'[x] = at[x] /\ at[x] < next /\ at[x] \in Int
      BY <1>3 DEF Maintains, Holding, SweepTypeOK
    <3>2. u = w <=> v = w
      BY <1>1, <1>3, <2>5, <3>1
    <3>3. CASE u # w
      <4>1. Maintains(u) /\ Maintains(v) /\ at[u] = at[v]
        BY <1>3, <2>5, <3>2, <3>3 DEF Maintains
      <4>2. QED
        BY <4>1 DEF Holding
    <3>4. QED
      BY <3>2, <3>3
  <2>6. QED
    BY <2>4, <2>5, HoldingFromParts
<1>7. QED
  BY <1>1, <1>5, <1>6

\* A worker at work goes on holding its lane, or leaves it for good.
LEMMA MaintenanceHolding ==
  ASSUME SweepTypeOK, Grouped, Holding, NEW w \in Worker, Maintenance(w)
  PROVE  Holding'
<1>1. /\ Maintains(w) /\ UNCHANGED workRest /\ wpc'[w] # "probe"
      /\ \A v \in Worker : v # w => wpc'[v] = wpc[v] /\ at'[v] = at[v] /\ pos'[v] = pos[v]
      /\ \/ wpc'[w] = "idle"
         \/ at'[w] = at[w] /\ pos'[w] = pos[w]
         \/ at'[w] = at[w] /\ pos'[w] = pos[w] + 1 /\ pos[w] < Len(lanes[at[w]].repos)
  BY MaintenanceFrame
<1>2. UNCHANGED <<phase, lanes, kept, next>> /\ next \in Int
  BY <1>1 DEF workRest, sweepMain, SweepTypeOK
<1>3. /\ phase \in {"sweep", "done"}
      /\ at[w] \in 1..Len(lanes) /\ at[w] < next
      /\ pos[w] \in 1..Len(lanes[at[w]].repos)
      /\ Len(lanes[at[w]].repos) \in Nat
  BY <1>1, WorkTyped DEF Holding
<1>4. Maintains(w)' =>
        at'[w] = at[w] /\ pos'[w] \in 1..Len(lanes[at[w]].repos)
  BY <1>1, <1>3 DEF Maintains
<1>5. ASSUME NEW v \in Worker
      PROVE  /\ wpc'[v] = "probe" => phase' = "probe" /\ at'[v] \in 1..Len(kept')
             /\ Maintains(v)' =>
                  /\ phase' \in {"sweep", "done"}
                  /\ at'[v] \in 1..Len(lanes') /\ at'[v] < next'
                  /\ pos'[v] \in 1..Len(lanes'[at'[v]].repos)
  <2>1. CASE v = w
    BY <1>1, <1>2, <1>3, <1>4, <2>1
  <2>2. CASE v # w
    <3>1. next' \in Int /\ next' >= next
      BY <1>2
    <3>2. QED
      BY <1>1, <1>2, <2>2, <3>1, StillHolding
  <2>3. QED
    BY <2>1, <2>2
<1>6. \A u, v \in Worker : Maintains(u)' /\ Maintains(v)' /\ at'[u] = at'[v] => u = v
  <2>1. \A v \in Worker : Maintains(v)' => Maintains(v) /\ at'[v] = at[v]
    BY <1>1, <1>4 DEF Maintains
  <2>2. QED
    BY <2>1 DEF Holding
<1>7. QED
  BY <1>5, <1>6, HoldingFromParts

\* Together: no step lets two workers hold one item.
LEMMA HoldingStep ==
  ASSUME SweepTypeOK, Grouped, Holding, [SweepNext]_sweepVars
  PROVE  Holding'
<1>1. CASE Abort \/ Discover \/ GroupNext \/ GroupsEnd
  <2>1. phase \in {"start", "group"} /\ wpc' = wpc
    BY <1>1 DEF Abort, Discover, GroupNext, GroupsEnd, poolVars
  <2>2. \A w \in Worker : ~Maintains(w) /\ wpc[w] # "probe"
    BY <2>1, Quiet
  <2>3. \A w \in Worker : ~Maintains(w)' /\ wpc'[w] # "probe"
    BY <2>1, <2>2 DEF Maintains
  <2>4. QED
    BY <2>3, HoldingFromParts
<1>2. CASE ProbesEnd
  <2>1. \A w \in Worker : ~Maintains(w)' /\ wpc'[w] # "probe"
    BY <1>2 DEF ProbesEnd, Maintains
  <2>2. QED
    BY <2>1, HoldingFromParts
<1>3. CASE SweepEnd
  <2>1. phase = "sweep" /\ phase' = "done" /\ UNCHANGED <<next, at, wpc, lanes, pos>>
    BY <1>3 DEF SweepEnd, poolVars, laneVars
  <2>2. \A w \in Worker : (Maintains(w)' <=> Maintains(w)) /\ wpc'[w] # "probe"
    BY <2>1, Quiet DEF Maintains
  <2>3. QED
    BY <2>1, <2>2, HoldingFromParts DEF Holding
<1>4. ASSUME NEW w \in Worker, Drained(w) \/ Probed(w) PROVE Holding'
  <2>1. /\ wpc'[w] \in {"idle", "over"} /\ UNCHANGED <<phase, next, lanes, kept, pos>>
        /\ \A v \in Worker : v # w => wpc'[v] = wpc[v] /\ at'[v] = at[v]
        /\ next \in Int
    BY <1>4 DEF Drained, Probed, laneVars, sweepMain, SweepTypeOK
  <2>2. ASSUME NEW v \in Worker
        PROVE  /\ wpc'[v] = "probe" => phase' = "probe" /\ at'[v] \in 1..Len(kept')
               /\ Maintains(v)' =>
                    /\ phase' \in {"sweep", "done"}
                    /\ at'[v] \in 1..Len(lanes') /\ at'[v] < next'
                    /\ pos'[v] \in 1..Len(lanes'[at'[v]].repos)
    <3>1. CASE v = w
      BY <2>1, <3>1 DEF Maintains
    <3>2. CASE v # w
      <4>1. /\ next' \in Int /\ next' >= next
            /\ wpc'[v] = wpc[v] /\ at'[v] = at[v] /\ pos'[v] = pos[v]
        BY <2>1, <3>2
      <4>2. QED
        BY <2>1, <4>1, StillHolding
    <3>3. QED
      BY <3>1, <3>2
  <2>3. \A v \in Worker : Maintains(v)' => Maintains(v) /\ at'[v] = at[v]
    BY <2>1 DEF Maintains
  <2>4. QED
    BY <2>2, <2>3, HoldingFromParts DEF Holding
<1>5. CASE UNCHANGED sweepVars
  BY <1>5 DEF sweepVars, sweepMain, Holding, Maintains
<1>6. QED
  BY <1>1, <1>2, <1>3, <1>4, <1>5, TakeHolding, MaintenanceHolding
     DEF SweepNext, MainRuns, WorkerRuns, Maintenance

-----------------------------------------------------------------------------
(* The gates *)

\* A gate is freed only once its interval has passed.
LEMMA RestsStep ==
  ASSUME SweepTypeOK, Holding, Rests, [SweepNext]_sweepVars
  PROVE  Rests'
<1>1. ASSUME NEW w \in Worker, FetchStart(w) PROVE Rests'
  BY <1>1 DEF FetchStart, Rests, SweepTypeOK
<1>2. ASSUME NEW w \in Worker, RestEnds(w) PROVE Rests'
  BY <1>2 DEF RestEnds, Rests, SweepTypeOK
<1>3. CASE UNCHANGED <<gate, rested>>
  BY <1>3 DEF Rests
<1>4. QED
  BY <1>1, <1>2, <1>3 DEF SweepNext, MainRuns, WorkerRuns, sweepVars, laneVars, optimizeRest,
     Abort, Discover, ProbesEnd, GroupNext, GroupsEnd, SweepEnd, Take, Drained, Probed,
     NoFetch, FetchEnds, Configured, Collected, Repacked, GraphWritten, OptimizeFails

-----------------------------------------------------------------------------
(* The verdicts *)

\* What a step of maintainOne does to the mirrors.
LEMMA MaintenanceMirror ==
  ASSUME SweepTypeOK, Holding, NEW w \in Worker, Maintenance(w)
  PROVE  /\ \A r \in Repo : r # Mirror(w) => pack'[r] = pack[r] /\ graph'[r] = graph[r]
         /\ wpc'[w] = "graph" => pack'[Mirror(w)] = "bitmap"
         /\ verdict'[Mirror(w)] = "ok" /\ verdict[Mirror(w)] # "ok" /\ o.optimize =>
              wpc[w] = "graph" /\ pack' = pack /\ graph'[Mirror(w)] = "bloom"
<1>1. Maintains(w) /\ Mirror(w) \in Repo
  BY MaintenanceFrame, WorkTyped
<1> DEFINE M == Mirror(w)
<1> HIDE DEF M
<1>2. \A v : Report(w, v) => verdict'[M] = v /\ wpc'[w] # "graph"
  <2>1. ASSUME NEW v, Report(w, v) PROVE verdict'[M] = v /\ wpc'[w] # "graph"
    <3>1. verdict'[M] = v
      BY <1>1, <2>1 DEF Report, SweepTypeOK, M
    <3>2. wpc'[w] # "graph"
      BY <2>1 DEF Report, SweepTypeOK
    <3>3. QED
      BY <3>1, <3>2
  <2>2. QED
    BY <2>1
<1>3. \A where : Goto(w, where) => verdict' = verdict /\ wpc'[w] = where
  BY DEF Goto, SweepTypeOK
<1>4. Aligned(w) => wpc'[w] # "graph" /\ (o.optimize => verdict' = verdict)
  BY <1>2, <1>3 DEF Aligned
<1>5. M \in Repo /\ M = Mirror(w)
  BY <1>1 DEF M
<1>6. CASE NoFetch(w)
  BY <1>4, <1>5, <1>6 DEF NoFetch, sweepGit
<1>7. CASE FetchStart(w)
  BY <1>3, <1>5, <1>7 DEF FetchStart, sweepGit
<1>8. ASSUME NEW ok \in GitEnds, FetchEnds(w, ok)
      PROVE  /\ \A r \in Repo : r # M => pack'[r] = pack[r] /\ graph'[r] = graph[r]
             /\ wpc'[w] # "graph" /\ verdict' = verdict
  <2>1. wpc'[w] = "rest" /\ verdict' = verdict
    BY <1>3, <1>8 DEF FetchEnds
  <2>2. CASE ok
    BY <1>5, <1>8, <2>1, <2>2 DEF FetchEnds, SweepTypeOK
  <2>3. CASE ~ok
    BY <1>8, <2>1, <2>3 DEF FetchEnds, sweepGit
  <2>4. QED
    BY <2>2, <2>3
<1>9. CASE RestEnds(w)
  BY <1>2, <1>4, <1>5, <1>9 DEF RestEnds, sweepGit
<1>10. CASE Configured(w)
  BY <1>3, <1>5, <1>10 DEF Configured, sweepGit
<1>11. CASE Collected(w)
  BY <1>3, <1>5, <1>11 DEF Collected, SweepTypeOK
<1>12. CASE Repacked(w)
  BY <1>3, <1>5, <1>12 DEF Repacked, SweepTypeOK
<1>13. CASE GraphWritten(w)
  BY <1>2, <1>5, <1>13 DEF GraphWritten, SweepTypeOK
<1>14. CASE OptimizeFails(w)
  BY <1>2, <1>5, <1>14 DEF OptimizeFails, sweepGit
<1>15. QED
  BY <1>5, <1>6, <1>7, <1>8, <1>9, <1>10, <1>11, <1>12, <1>13, <1>14 DEF Maintenance

\* A worker's step writes the outcome of the mirror it holds and no other.
LEMMA MaintenanceFresh ==
  ASSUME SweepTypeOK, Placed, Holding, Fresh, OkMeansSearchable, NEW w \in Worker,
         Maintenance(w)
  PROVE  Fresh' /\ OkMeansSearchable'
<1> DEFINE M == Mirror(w)
<1>1. /\ Maintains(w) /\ UNCHANGED <<phase, lanes, next, o>>
      /\ \A v \in Worker : v # w => wpc'[v] = wpc[v] /\ at'[v] = at[v] /\ pos'[v] = pos[v]
      /\ \/ wpc'[w] = "idle"
         \/ at'[w] = at[w] /\ pos'[w] = pos[w] /\ verdict' = verdict
         \/ at'[w] = at[w] /\ pos'[w] = pos[w] + 1 /\ wpc'[w] = "target"
      /\ \A r \in Repo : r # M => verdict'[r] = verdict[r]
  BY MaintenanceFrame DEF workRest, sweepMain
<1>2. /\ phase \in {"sweep", "done"}
      /\ at[w] \in 1..Len(lanes) /\ at[w] < next /\ pos[w] \in 1..Len(lanes[at[w]].repos)
      /\ \A v \in Worker : Maintains(v) /\ at[v] = at[w] => v = w
  BY <1>1 DEF Holding
<1>3. M = lanes[at[w]].repos[pos[w]] /\ M \in Repo
  BY <1>1, WorkTyped DEF Mirror
<1>4. /\ \A r \in Repo : r # M => pack'[r] = pack[r] /\ graph'[r] = graph[r]
      /\ wpc'[w] = "graph" => pack'[M] = "bitmap"
      /\ verdict'[M] = "ok" /\ verdict[M] # "ok" /\ o.optimize =>
           wpc[w] = "graph" /\ pack' = pack /\ graph'[M] = "bloom"
  BY MaintenanceMirror
<1>5. /\ verdict[M] # "ok"
      /\ wpc[w] = "graph" => pack[M] = "bitmap"
  BY <1>1, <1>2, <1>3 DEF Fresh, SweepTypeOK
<1> HIDE DEF M
<1>6. OkMeansSearchable'
  <2>1. ASSUME NEW r \in Repo, verdict'[r] = "ok", o'.optimize
        PROVE  pack'[r] = "bitmap" /\ graph'[r] = "bloom"
    <3>1. CASE r = M
      BY <1>1, <1>4, <1>5, <2>1, <3>1
    <3>2. CASE r # M
      BY <1>1, <1>4, <2>1, <3>2 DEF OkMeansSearchable
    <3>3. QED
      BY <3>1, <3>2
  <2>2. QED
    BY <2>1 DEF OkMeansSearchable
\* The other places of the groups hold other mirrors.
<1>7. \A i \in 1..Len(lanes) : \A n \in 1..Len(lanes[i].repos) :
        /\ lanes[i].repos[n] \in Repo
        /\ i # at[w] \/ n # pos[w] =>
             lanes[i].repos[n] # M /\ verdict'[lanes[i].repos[n]] = verdict[lanes[i].repos[n]]
  <2>1. ASSUME NEW i \in 1..Len(lanes), NEW n \in 1..Len(lanes[i].repos)
        PROVE  lanes[i].repos[n] \in Repo
    <3>1. lanes[i] \in Lane
      BY ElementOfSeq DEF SweepTypeOK
    <3>2. lanes[i].repos \in Seq(Repo)
      BY <3>1 DEF Lane
    <3>3. QED
      BY <3>2, ElementOfSeq
  <2>2. ASSUME NEW i \in 1..Len(lanes), NEW n \in 1..Len(lanes[i].repos),
               i # at[w] \/ n # pos[w]
        PROVE  lanes[i].repos[n] # M
    <3>1. \A m \in 1..Len(lanes[at[w]].repos) :
            lanes[i].repos[n] = lanes[at[w]].repos[m] => i = at[w] /\ n = m
      BY <1>2 DEF Placed
    <3>2. QED
      BY <1>2, <1>3, <2>2, <3>1
  <2>3. QED
    BY <1>1, <2>1, <2>2
<1>8. ASSUME NEW v \in Worker, Maintains(v)'
      PROVE  /\ \A n \in 1..Len(lanes'[at'[v]].repos) :
                  n >= pos'[v] => verdict'[lanes'[at'[v]].repos[n]] # "ok"
             /\ wpc'[v] = "graph" => pack'[Mirror(v)'] = "bitmap"
  <2>1. CASE v = w
    <3>1. at'[w] = at[w] /\ lanes' = lanes /\ wpc'[w] # "idle"
      BY <1>1, <1>8, <2>1 DEF Maintains
    <3>2. CASE pos'[w] = pos[w] /\ verdict' = verdict
      <4>1. Mirror(w)' = M
        BY <1>3, <3>1, <3>2 DEF Mirror
      <4>2. \A n \in 1..Len(lanes[at[w]].repos) :
              n >= pos[w] => verdict[lanes[at[w]].repos[n]] # "ok"
        BY <1>1 DEF Fresh
      <4>3. QED
        BY <1>4, <2>1, <3>1, <3>2, <4>1, <4>2
    <3>3. CASE pos'[w] = pos[w] + 1 /\ wpc'[w] = "target"
      <4>1. pos[w] \in Int
        BY <1>2
      <4>2. \A n \in 1..Len(lanes[at[w]].repos) :
              n >= pos[w] => verdict[lanes[at[w]].repos[n]] # "ok"
        BY <1>1 DEF Fresh
      <4>3. \A n \in 1..Len(lanes[at[w]].repos) :
              n >= pos[w] + 1 => verdict'[lanes[at[w]].repos[n]] # "ok"
        BY <1>2, <1>7, <4>1, <4>2
      <4>4. QED
        BY <2>1, <3>1, <3>3, <4>3
    <3>4. QED
      BY <1>1, <3>1, <3>2, <3>3
  <2>2. CASE v # w
    <3>1. Maintains(v) /\ at'[v] = at[v] /\ pos'[v] = pos[v] /\ wpc'[v] = wpc[v] /\ lanes' = lanes
      BY <1>1, <1>8, <2>2 DEF Maintains
    <3>2. at[v] # at[w] /\ at[v] \in 1..Len(lanes) /\ pos[v] \in 1..Len(lanes[at[v]].repos)
      BY <1>2, <2>2, <3>1 DEF Holding
    <3>3. \A n \in 1..Len(lanes[at[v]].repos) :
            verdict'[lanes[at[v]].repos[n]] = verdict[lanes[at[v]].repos[n]]
      BY <1>7, <3>2
    <3>4. Mirror(v)' = Mirror(v) /\ Mirror(v) \in Repo /\ Mirror(v) # M
      BY <1>7, <3>1, <3>2 DEF Mirror
    <3>5. /\ \A n \in 1..Len(lanes[at[v]].repos) :
               n >= pos[v] => verdict[lanes[at[v]].repos[n]] # "ok"
          /\ wpc[v] = "graph" => pack[Mirror(v)] = "bitmap"
      BY <3>1 DEF Fresh
    <3>6. QED
      BY <1>4, <3>1, <3>3, <3>4, <3>5
  <2>3. QED
    BY <2>1, <2>2
<1>9. ASSUME phase' = "sweep", NEW i \in 1..Len(lanes'), i >= next'
      PROVE  \A n \in 1..Len(lanes'[i].repos) : verdict'[lanes'[i].repos[n]] # "ok"
  <2>1. /\ phase = "sweep" /\ lanes' = lanes /\ next' = next /\ next \in Int
        /\ at[w] \in Int /\ i \in Int
    BY <1>1, <1>2, <1>9 DEF SweepTypeOK
  <2>2. i # at[w]
    BY <1>2, <1>9, <2>1
  <2>3. \A n \in 1..Len(lanes[i].repos) : verdict[lanes[i].repos[n]] # "ok"
    BY <1>9, <2>1 DEF Fresh
  <2>4. QED
    BY <1>7, <1>9, <2>1, <2>2, <2>3
<1>10. phase' \notin Settled
  BY <1>1, <1>2 DEF Settled
<1>11. Fresh'
  BY <1>8, <1>9, <1>10 DEF Fresh
<1>12. QED
  BY <1>6, <1>11

\* Every other step leaves the verdicts alone.
LEMMA FreshStep ==
  ASSUME SweepTypeOK, Grouped, Placed, Holding, Fresh, OkMeansSearchable,
         [SweepNext]_sweepVars
  PROVE  Fresh' /\ OkMeansSearchable'
<1>1. CASE Abort \/ Discover \/ GroupNext \/ ProbesEnd \/ GroupsEnd
  <2>1. /\ phase \in Settled /\ UNCHANGED <<verdict, pack, graph>>
        /\ Discover \/ wpc' = wpc \/ ProbesEnd
    BY <1>1 DEF Abort, Discover, GroupNext, ProbesEnd, GroupsEnd, poolVars, sweepGit, Settled
  <2>2. \A r \in Repo : verdict'[r] # "ok"
    BY <2>1 DEF Fresh
  <2>3. \A w \in Worker : ~Maintains(w)
    BY <2>1, Quiet DEF Settled
  <2>4. \A w \in Worker : ~Maintains(w)'
    BY <1>1, <2>3 DEF Abort, Discover, GroupNext, ProbesEnd, GroupsEnd, poolVars, Maintains
  <2>5. phase' = "sweep" => lanes' = lanes
    BY <1>1 DEF Abort, Discover, GroupNext, ProbesEnd, GroupsEnd, laneVars
  <2>6. \A i \in 1..Len(lanes) : \A n \in 1..Len(lanes[i].repos) : lanes[i].repos[n] \in Repo
    <3>1. \A i \in 1..Len(lanes) : lanes[i] \in Lane
      BY ElementOfSeq DEF SweepTypeOK
    <3>2. \A i \in 1..Len(lanes) : lanes[i].repos \in Seq(Repo)
      BY <3>1 DEF Lane
    <3>3. QED
      BY <3>2, ElementOfSeq
  <2>7. Fresh'
    BY <2>2, <2>4, <2>5, <2>6 DEF Fresh
  <2>8. QED
    BY <2>2, <2>7 DEF OkMeansSearchable
<1>2. ASSUME NEW w \in Worker, Take(w) PROVE Fresh' /\ OkMeansSearchable'
  <2>1. /\ UNCHANGED <<phase, lanes, o, verdict, pack, graph>> /\ phase \in {"probe", "sweep"}
        /\ next' = next + 1 /\ next \in Nat /\ next <= Items
    BY <1>2 DEF Take, sweepMain, sweepGit, SweepTypeOK
  <2>2. /\ at'[w] = next /\ pos'[w] = 1
        /\ wpc'[w] = IF phase = "probe" THEN "probe" ELSE "target"
        /\ \A v \in Worker : v # w => wpc'[v] = wpc[v] /\ at'[v] = at[v] /\ pos'[v] = pos[v]
    BY <1>2 DEF Take, SweepTypeOK
  <2>3. CASE phase = "probe"
    <3>1. \A v \in Worker : ~Maintains(v)'
      BY <2>2, <2>3, Quiet DEF Maintains
    <3>2. QED
      BY <2>1, <2>3, <3>1 DEF Fresh, OkMeansSearchable, Settled
  <2>4. CASE phase = "sweep"
    <3>1. /\ next \in 1..Len(lanes) /\ wpc'[w] = "target"
      <4>1. Len(lanes) \in Nat /\ next \in Nat \ {0}
        BY DEF SweepTypeOK
      <4>2. QED
        BY <2>1, <2>2, <2>4, <4>1 DEF Items
    <3>2. \A i \in 1..Len(lanes) : i >= next =>
            \A n \in 1..Len(lanes[i].repos) : verdict[lanes[i].repos[n]] # "ok"
      BY <2>4 DEF Fresh
    <3>3. ASSUME NEW v \in Worker, Maintains(v)'
          PROVE  /\ \A n \in 1..Len(lanes'[at'[v]].repos) :
                      n >= pos'[v] => verdict'[lanes'[at'[v]].repos[n]] # "ok"
                 /\ wpc'[v] = "graph" => pack'[Mirror(v)'] = "bitmap"
      <4>1. CASE v = w
        BY <2>1, <2>2, <3>1, <3>2, <4>1
      <4>2. CASE v # w
        <5>1. /\ Maintains(v) /\ at'[v] = at[v] /\ pos'[v] = pos[v] /\ wpc'[v] = wpc[v]
              /\ Mirror(v)' = Mirror(v)
          BY <2>1, <2>2, <3>3, <4>2 DEF Maintains, Mirror
        <5>2. QED
          BY <2>1, <5>1 DEF Fresh
      <4>3. QED
        BY <4>1, <4>2
    <3>4. \A i \in 1..Len(lanes') : i >= next' =>
            \A n \in 1..Len(lanes'[i].repos) : verdict'[lanes'[i].repos[n]] # "ok"
      BY <2>1, <3>2
    <3>5. Fresh'
      BY <2>1, <2>4, <3>3, <3>4 DEF Fresh, Settled
    <3>6. QED
      BY <2>1, <3>5 DEF OkMeansSearchable
  <2>5. QED
    BY <2>1, <2>3, <2>4
<1>3. ASSUME NEW w \in Worker, Drained(w) \/ Probed(w) PROVE Fresh' /\ OkMeansSearchable'
  <2>1. /\ UNCHANGED <<phase, next, lanes, pos, o, verdict, pack, graph>>
        /\ wpc'[w] \in {"idle", "over"}
        /\ \A v \in Worker : v # w => wpc'[v] = wpc[v] /\ at'[v] = at[v]
    BY <1>3 DEF Drained, Probed, sweepMain, laneVars, sweepGit, SweepTypeOK
  <2>2. \A v \in Worker : Maintains(v)' =>
          /\ Maintains(v) /\ at'[v] = at[v] /\ wpc'[v] = wpc[v] /\ Mirror(v)' = Mirror(v)
    BY <2>1 DEF Maintains, Mirror
  <2>3. QED
    BY <2>1, <2>2 DEF Fresh, OkMeansSearchable
<1>4. CASE SweepEnd \/ UNCHANGED sweepVars
  <2>1. /\ UNCHANGED <<next, at, wpc, lanes, pos, o, verdict, pack, graph>>
        /\ phase' = phase \/ phase' = "done"
    BY <1>4 DEF SweepEnd, sweepVars, sweepMain, poolVars, laneVars, sweepGit
  <2>2. \A v \in Worker : (Maintains(v)' <=> Maintains(v)) /\ Mirror(v)' = Mirror(v)
    BY <2>1 DEF Maintains, Mirror
  <2>3. QED
    BY <2>1, <2>2 DEF Fresh, OkMeansSearchable, Settled
<1>5. QED
  BY <1>1, <1>2, <1>3, <1>4, MaintenanceFresh DEF SweepNext, MainRuns, WorkerRuns, Maintenance

-----------------------------------------------------------------------------
(* Theorems *)

\* IInv holds initially ...
LEMMA InitInvariant == SweepInit => IInv
<1> SUFFICES ASSUME SweepInit PROVE IInv
  OBVIOUS
<1>1. SweepTypeOK /\ OptionsTyped
  BY InitTyped
<1>2. Len(kept) = 0 /\ Len(lanes) = 0 /\ phase = "start" /\ lanes = <<>>
  BY DEF SweepInit
<1>3. \A w \in Worker : ~Maintains(w) /\ wpc[w] # "probe"
  BY DEF SweepInit, Maintains
<1>4. KeptDistinct /\ Grouped /\ Placed
  BY <1>2 DEF KeptDistinct, Grouped, Placed
<1>5. Holding
  BY <1>3 DEF Holding
<1>6. Rests
  BY DEF SweepInit, Rests
<1>7. Fresh
  BY <1>2, <1>3 DEF SweepInit, Fresh
<1>8. OkMeansSearchable
  BY DEF SweepInit, OkMeansSearchable
<1>9. QED
  BY <1>1, <1>4, <1>5, <1>6, <1>7, <1>8 DEF IInv

\* ... and every step keeps it.
LEMMA StepInvariant == IInv /\ [SweepNext]_sweepVars => IInv'
<1> SUFFICES ASSUME IInv, [SweepNext]_sweepVars PROVE IInv'
  OBVIOUS
<1> USE DEF IInv
<1>1. SweepTypeOK' /\ OptionsTyped'
  BY StepTyped
<1>2. KeptDistinct' /\ Grouped' /\ Placed'
  BY KeptStep, GroupedStep
<1>3. Holding' /\ Rests'
  BY HoldingStep, RestsStep
<1>4. Fresh' /\ OkMeansSearchable'
  BY FreshStep
<1>5. QED
  BY <1>1, <1>2, <1>3, <1>4

\* The inductive invariant of a sweep, for any number of mirrors, hosts and workers.
THEOREM SweepInvariant == SweepSpec => []IInv
<1>1. SweepInit => IInv
  BY InitInvariant
<1>2. IInv /\ [SweepNext]_sweepVars => IInv'
  BY StepInvariant
<1>3. QED
  BY <1>1, <1>2, PTL DEF SweepSpec

\* Every variable of a sweep keeps its type (maintain-mirrors.mjs, main and maintainOne).
THEOREM SweepTyped == SweepSpec => []SweepTypeOK
<1>1. IInv => SweepTypeOK
  BY DEF IInv
<1>2. QED
  BY <1>1, SweepInvariant, PTL

\* No two workers maintain mirrors of one host, however the pool hands the groups out
\* (maintain-mirrors.mjs, main: "a host never has two jobs in flight").
THEOREM HostsApart == SweepSpec => []OneJobPerHost
<1>1. IInv => OneJobPerHost
  <2> SUFFICES ASSUME IInv, NEW v \in Worker, NEW w \in Worker, Maintains(v), Maintains(w),
                      Group(v) = Group(w)
               PROVE  v = w
    BY DEF OneJobPerHost
  <2>1. at[v] \in 1..Len(lanes) /\ at[w] \in 1..Len(lanes)
    BY DEF IInv, Holding
  <2>2. at[v] = at[w]
    BY <2>1 DEF IInv, Grouped, Group
  <2>3. QED
    BY <2>2 DEF IInv, Holding
<1>2. QED
  BY <1>1, SweepInvariant, PTL

\* A mirror reported ok by an optimizing pass has bitmap and path filters, whatever the
\* other workers do meanwhile (git-lib.mjs, deepOptimizeMirror and pickaxeOptimizeMirror).
THEOREM OkSearchable == SweepSpec => []OkMeansSearchable
<1>1. IInv => OkMeansSearchable
  BY DEF IInv
<1>2. QED
  BY <1>1, SweepInvariant, PTL

\* A paced fetch starts only when the interval behind the host's last one is over
\* (git-lib.mjs, createMinIntervalGate).
THEOREM FetchesApart == SweepSpec => FetchesPaced
<1>1. IInv /\ [SweepNext]_sweepVars =>
        [\A w \in Worker :
           wpc[w] = "target" /\ wpc'[w] = "fetch" /\ Paced => rested[Group(w)]]_sweepVars
  <2> SUFFICES ASSUME IInv, SweepNext, NEW w \in Worker, wpc[w] = "target",
                      wpc'[w] = "fetch", Paced
               PROVE  rested[Group(w)]
    OBVIOUS
  <2>1. Maintains(w) /\ Group(w) \in Key
    BY WorkTyped DEF Maintains, IInv
  <2>2. FetchStart(w)
    <3>1. ASSUME NEW v \in Worker, WorkerRuns(v) PROVE v = w
      <4>1. Maintenance(v) => \A u \in Worker : u # v => wpc'[u] = wpc[u]
        BY MaintenanceFrame DEF IInv
      <4>2. Take(v) \/ Drained(v) \/ Probed(v) => \A u \in Worker : u # v => wpc'[u] = wpc[u]
        BY DEF IInv, SweepTypeOK, Take, Drained, Probed
      <4>3. QED
        BY <3>1, <4>1, <4>2 DEF WorkerRuns, Maintenance
    <3>2. ~MainRuns /\ ~Abort /\ ~Discover
      BY DEF MainRuns, ProbesEnd, GroupNext, GroupsEnd, SweepEnd, Abort, Discover, poolVars
    <3>3. WorkerRuns(w)
      BY <3>1, <3>2 DEF SweepNext
    <3>4. NoFetch(w) => wpc'[w] # "fetch"
      <4>1. Goto(w, "config") => wpc'[w] # "fetch"
        BY DEF Goto, IInv, SweepTypeOK
      <4>2. Report(w, "ok") => wpc'[w] # "fetch"
        BY DEF Report, IInv, SweepTypeOK
      <4>3. QED
        BY <4>1, <4>2 DEF NoFetch, Aligned
    <3>5. QED
      BY <3>3, <3>4 DEF WorkerRuns, Take, Drained, Probed, FetchEnds, RestEnds, Configured,
         Collected, Repacked, GraphWritten, OptimizeFails
  <2>3. ~gate[Group(w)]
    BY <2>2 DEF FetchStart
  <2>4. QED
    BY <2>1, <2>3 DEF IInv, Rests
<1>2. QED
  BY <1>1, SweepInvariant, PTL DEF SweepSpec, FetchesPaced

=============================================================================
