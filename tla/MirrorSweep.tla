----------------------------- MODULE MirrorSweep -----------------------------
(***************************************************************************)
(* git/maintain-mirrors.mjs over git-lib.mjs: one sweep of the mirror farm. *)
(* The mirrors' upstream URLs are probed by one pool of workers, grouped by *)
(* host, and the groups maintained by a second pool: fetch behind the       *)
(* host's gate, then the pickaxe optimization.  --help, which does nothing, *)
(* is left out.                                                             *)
(***************************************************************************)
EXTENDS Integers, Sequences

CONSTANTS
  Repos,      \* the discovered mirrors, sorted
  Url, NoUrl,
  HostOf,     \* HostOf[u]: originHost, or Local where there is none
  Local,      \* LOCAL_HOST
  Origins,    \* bound: what the mirrors' remote.origin.url may be
  Config,     \* bound: the command lines tried
  ProbeJobs   \* ORIGIN_PROBE_JOBS

Repo == {Repos[i] : i \in 1..Len(Repos)}
Key == {HostOf[u] : u \in Url} \cup {Local}
Worker == 1..Len(Repos)

\* A command line: an interval is "default", "off" or "bad"; jobs = 0 is unset;
\* a glob is the set of mirrors it matches.
Options == [fetch : BOOLEAN, optimize : BOOLEAN, deep : BOOLEAN, jobs : Int,
            minInterval : {"default", "off", "bad"},
            only : SUBSET SUBSET Repo, exclude : SUBSET SUBSET Repo]

ASSUME SweepAssumption ==
  /\ Repos \in Seq(Repo) /\ \A i, j \in 1..Len(Repos) : Repos[i] = Repos[j] => i = j
  /\ NoUrl \notin Url /\ HostOf \in [Url -> Key]
  /\ Origins \subseteq [Repo -> Url \cup {NoUrl}]
  /\ Config \subseteq Options /\ ProbeJobs \in Nat \ {0}

VARIABLES
  phase,     \* of main: "start", "probe", "group", "sweep", "done", "aborted"
  o,         \* the options
  url,       \* url[r]: what remote.origin.url is, or NoUrl
  kept,      \* the mirrors the globs keep, in order
  next,      \* the pool's cursor
  at,        \* at[w]: the item worker w has taken, or 0
  wpc,       \* wpc[w]: where it is
  found,     \* found[r]: the probe's answer
  lanes,     \* hostGroups
  pos,       \* pos[w]: its target in its group
  fetched,   \* fetched[w]: its last fetch succeeded
  gate,      \* gate[k]: host k's gate is held
  rested,    \* rested[k]: the idle interval behind k's last fetch is over (history)
  pack,      \* pack[r]: "loose", "packed", "bitmap"
  graph,     \* graph[r]: "none", "plain", "bloom"
  verdict,   \* verdict[r]: "none", "ok", "failed"
  exitCode

sweepMain == <<o, url, kept>>
sweepGit == <<pack, graph>>
sweepVars == <<phase, sweepMain, next, at, wpc, found, lanes, pos, fetched, gate,
               rested, sweepGit, verdict, exitCode>>

Lane == [key : Key, repos : Seq(Repo)]

SweepTypeOK ==
  /\ phase \in {"start", "probe", "group", "sweep", "done", "aborted"}
  /\ url \in [Repo -> Url \cup {NoUrl}]
  /\ kept \in Seq(Repo)
  /\ next \in Nat \ {0}
  /\ at \in [Worker -> Nat]
  /\ wpc \in [Worker -> {"idle", "probe", "target", "fetch", "rest", "config", "gc",
                         "repack", "graph", "over"}]
  /\ found \in [Repo -> Url \cup {NoUrl}]
  /\ lanes \in Seq(Lane)
  /\ pos \in [Worker -> Nat]
  /\ fetched \in [Worker -> BOOLEAN]
  /\ gate \in [Key -> BOOLEAN] /\ rested \in [Key -> BOOLEAN]
  /\ pack \in [Repo -> {"loose", "packed", "bitmap"}]
  /\ graph \in [Repo -> {"none", "plain", "bloom"}]
  /\ verdict \in [Repo -> {"none", "ok", "failed"}]
  /\ exitCode \in {0, 1}

SweepInit ==
  /\ phase = "start"
  /\ o = [fetch |-> TRUE, optimize |-> TRUE, deep |-> FALSE, jobs |-> 0,
          minInterval |-> "default", only |-> {}, exclude |-> {}]
  /\ url = [r \in Repo |-> NoUrl]
  /\ kept = <<>>
  /\ next = 1
  /\ at = [w \in Worker |-> 0]
  /\ wpc = [w \in Worker |-> "idle"]
  /\ found = [r \in Repo |-> NoUrl]
  /\ lanes = <<>>
  /\ pos = [w \in Worker |-> 0]
  /\ fetched = [w \in Worker |-> FALSE]
  /\ gate = [k \in Key |-> FALSE]
  /\ rested = [k \in Key |-> TRUE]
  /\ pack = [r \in Repo |-> "loose"]
  /\ graph = [r \in Repo |-> "none"]
  /\ verdict = [r \in Repo |-> "none"]
  /\ exitCode = 0

-----------------------------------------------------------------------------
(* main, up to the pools *)

\* parseArgs' two checks and main's two.
Refused(c) ==
  \/ c.minInterval = "bad"
  \/ c.jobs < 0
  \/ c.deep /\ ~c.optimize
  \/ ~c.fetch /\ ~c.optimize

\* filterByGlobs: --only globs are OR-ed, none is all; --exclude wins.
Keeps(c, r) ==
  /\ c.only = {} \/ \E g \in c.only : r \in g
  /\ \A g \in c.exclude : r \notin g

\* The mirrors that are kept, in the order they were discovered in.
Filtered(c, s) ==
  \E order \in [1..Len(s) -> 1..Len(Repos)] :
    /\ \A i, j \in 1..Len(s) : i < j => order[i] < order[j]
    /\ {order[i] : i \in 1..Len(s)} = {i \in 1..Len(Repos) : Keeps(c, Repos[i])}
    /\ s = [i \in 1..Len(s) |-> Repos[order[i]]]

\* git: how a child ends.  It always does: none is left waiting at a prompt.
GitEnds == BOOLEAN

poolVars == <<next, at, wpc>>
laneVars == <<lanes, pos, fetched, gate, rested>>

\* A refused command line, or a root that is not there.
Abort ==
  /\ phase = "start"
  /\ \E c \in Config, rootExists \in BOOLEAN : ~rootExists \/ Refused(c)
  /\ phase' = "aborted" /\ exitCode' = 1
  /\ UNCHANGED <<sweepMain, poolVars, found, laneVars, sweepGit, verdict>>

\* Discovery and filter; an empty farm is only warned about.
Discover ==
  /\ phase = "start"
  /\ o' \in {c \in Config : ~Refused(c)}
  /\ \E n \in 0..Len(Repos) : kept' \in {s \in [1..n -> Repo] : Filtered(o', s)}
  /\ phase' = IF kept' = <<>> THEN "done" ELSE "probe"
  /\ url' \in Origins
  /\ UNCHANGED <<poolVars, found, laneVars, sweepGit, verdict, exitCode>>

-----------------------------------------------------------------------------
(* pool: runners share a cursor until it drains *)

Limit == IF phase = "probe" THEN ProbeJobs ELSE IF o.jobs = 0 THEN Len(lanes) ELSE o.jobs
Items == IF phase = "probe" THEN Len(kept) ELSE Len(lanes)
Least(a, b) == IF a < b THEN a ELSE b
Runners == IF Least(Limit, Items) < 1 THEN 1 ELSE Least(Limit, Items)

\* A runner takes the next item: read and increment are one step, there is no
\* await between them.
Take(w) ==
  /\ phase \in {"probe", "sweep"} /\ w <= Runners
  /\ wpc[w] = "idle" /\ next <= Items
  /\ at' = [at EXCEPT ![w] = next]
  /\ next' = next + 1
  /\ wpc' = [wpc EXCEPT ![w] = IF phase = "probe" THEN "probe" ELSE "target"]
  /\ pos' = [pos EXCEPT ![w] = 1]
  /\ UNCHANGED <<phase, sweepMain, found, lanes, fetched, gate, rested, sweepGit, verdict,
                 exitCode>>

Drained(w) ==
  /\ phase \in {"probe", "sweep"} /\ w <= Runners
  /\ wpc[w] = "idle" /\ next > Items
  /\ wpc' = [wpc EXCEPT ![w] = "over"]
  /\ UNCHANGED <<phase, sweepMain, next, at, found, laneVars, sweepGit, verdict, exitCode>>

\* originUrl: a failing git config is no URL.
Probed(w) ==
  /\ wpc[w] = "probe"
  /\ found' = [found EXCEPT ![kept[at[w]]] = url[kept[at[w]]]]
  /\ wpc' = [wpc EXCEPT ![w] = "idle"]
  /\ at' = [at EXCEPT ![w] = 0]
  /\ UNCHANGED <<phase, sweepMain, next, laneVars, sweepGit, verdict, exitCode>>

Joined == \A w \in Worker : w <= Runners => wpc[w] = "over"

ProbesEnd ==
  /\ phase = "probe" /\ Joined
  /\ phase' = "group"
  /\ next' = 1
  /\ wpc' = [w \in Worker |-> "idle"]
  /\ UNCHANGED <<sweepMain, at, found, laneVars, sweepGit, verdict, exitCode>>

KeyOf(r) == IF found[r] = NoUrl THEN Local ELSE HostOf[found[r]]

\* Faulty variant: only the last group is looked at.
GroupNextLast ==
  LET r == kept[next]
      n == Len(lanes)
  IN /\ phase = "group" /\ next <= Len(kept)
     /\ lanes' = IF n > 0 /\ lanes[n].key = KeyOf(r)
                 THEN [lanes EXCEPT ![n].repos = Append(@, r)]
                 ELSE Append(lanes, [key |-> KeyOf(r), repos |-> <<r>>])
     /\ next' = next + 1
     /\ UNCHANGED <<phase, sweepMain, at, wpc, found, pos, fetched, gate, rested, sweepGit,
                    verdict, exitCode>>

\* The grouping loop of main, one mirror a step.
GroupNext ==
  LET r == kept[next]
      lane == {i \in 1..Len(lanes) : lanes[i].key = KeyOf(r)}
  IN /\ phase = "group" /\ next <= Len(kept)
     /\ \/ \E i \in lane : lanes' = [lanes EXCEPT ![i].repos = Append(@, r)]
        \/ lane = {} /\ lanes' = Append(lanes, [key |-> KeyOf(r), repos |-> <<r>>])
     /\ next' = next + 1
     /\ UNCHANGED <<phase, sweepMain, at, wpc, found, pos, fetched, gate, rested, sweepGit,
                    verdict, exitCode>>

GroupsEnd ==
  /\ phase = "group" /\ next > Len(kept)
  /\ phase' = "sweep"
  /\ next' = 1
  /\ UNCHANGED <<sweepMain, at, wpc, found, laneVars, sweepGit, verdict, exitCode>>

\* The summary and the exit status.
SweepEnd ==
  /\ phase = "sweep" /\ Joined
  /\ phase' = "done"
  /\ exitCode' = IF \E i \in 1..Len(kept) : verdict[kept[i]] = "failed" THEN 1 ELSE 0
  /\ UNCHANGED <<sweepMain, poolVars, found, laneVars, sweepGit, verdict>>

-----------------------------------------------------------------------------
(* maintainOne, worker w on its target *)

Mirror(w) == lanes[at[w]].repos[pos[w]]
Group(w) == lanes[at[w]].key
FetchDue(w) == o.fetch /\ found[Mirror(w)] # NoUrl
Paced == o.minInterval # "off"
workRest == <<phase, sweepMain, next, found, lanes>>

\* The target's result: on to the next of the group, or to the next group.
Report(w, v) ==
  /\ verdict' = [verdict EXCEPT ![Mirror(w)] = v]
  /\ IF pos[w] < Len(lanes[at[w]].repos)
     THEN /\ pos' = [pos EXCEPT ![w] = @ + 1]
          /\ wpc' = [wpc EXCEPT ![w] = "target"]
          /\ UNCHANGED at
     ELSE /\ wpc' = [wpc EXCEPT ![w] = "idle"]
          /\ at' = [at EXCEPT ![w] = 0]
          /\ UNCHANGED pos

Goto(w, where) == wpc' = [wpc EXCEPT ![w] = where] /\ UNCHANGED <<at, pos, verdict>>

\* What follows the fetch.
Aligned(w) == IF o.optimize THEN Goto(w, "config") ELSE Report(w, "ok")

NoFetch(w) ==
  /\ wpc[w] = "target" /\ ~FetchDue(w)
  /\ Aligned(w)
  /\ UNCHANGED <<workRest, fetched, gate, rested, sweepGit, exitCode>>

\* The gate is free: remote update --prune.
FetchStart(w) ==
  /\ wpc[w] = "target" /\ FetchDue(w)
  /\ Paced => ~gate[Group(w)]
  /\ gate' = [gate EXCEPT ![Group(w)] = Paced]
  /\ rested' = [rested EXCEPT ![Group(w)] = ~Paced]
  /\ Goto(w, "fetch")
  /\ UNCHANGED <<workRest, fetched, sweepGit, exitCode>>

\* Faulty variant: only a fetch that succeeds is followed by the interval.
FetchEndsEager(w, ok) ==
  /\ wpc[w] = "fetch"
  /\ fetched' = [fetched EXCEPT ![w] = ok]
  /\ IF ok THEN graph' = [graph EXCEPT ![Mirror(w)] = "plain"] ELSE UNCHANGED graph
  /\ IF ok THEN pack' = [pack EXCEPT ![Mirror(w)] = "loose"] ELSE UNCHANGED pack
  /\ IF ok THEN Goto(w, "rest") /\ UNCHANGED gate
     ELSE Report(w, "failed") /\ gate' = [gate EXCEPT ![Group(w)] = FALSE]
  /\ UNCHANGED <<workRest, rested, exitCode>>

\* New objects are loose, the graph that fetch writes has no filters.
FetchEnds(w, ok) ==
  /\ wpc[w] = "fetch"
  /\ fetched' = [fetched EXCEPT ![w] = ok]
  /\ IF ok THEN /\ graph' = [graph EXCEPT ![Mirror(w)] = "plain"]
                /\ pack' = [pack EXCEPT ![Mirror(w)] = "loose"]
     ELSE UNCHANGED sweepGit
  /\ Goto(w, "rest")
  /\ UNCHANGED <<workRest, gate, rested, exitCode>>

\* Faulty variant: a failed fetch leaves the gate as it is.
RestEndsHeld(w) ==
  /\ wpc[w] = "rest"
  /\ gate' = [gate EXCEPT ![Group(w)] = ~fetched[w]]
  /\ rested' = [rested EXCEPT ![Group(w)] = TRUE]
  /\ IF fetched[w] THEN Aligned(w) ELSE Report(w, "failed")
  /\ UNCHANGED <<workRest, fetched, sweepGit, exitCode>>

\* The gate's idle interval, behind a failure as well; without pacing there is none.
RestEnds(w) ==
  /\ wpc[w] = "rest"
  /\ gate' = [gate EXCEPT ![Group(w)] = FALSE]
  /\ rested' = [rested EXCEPT ![Group(w)] = TRUE]
  /\ IF fetched[w] THEN Aligned(w) ELSE Report(w, "failed")
  /\ UNCHANGED <<workRest, fetched, sweepGit, exitCode>>

optimizeRest == <<workRest, fetched, gate, rested, exitCode>>

\* setOptimizationConfig; the deep pass puts gc --aggressive first.
Configured(w) ==
  /\ wpc[w] = "config"
  /\ Goto(w, IF o.deep THEN "gc" ELSE "repack")
  /\ UNCHANGED <<optimizeRest, sweepGit>>

\* gc packs, and writes a graph without filters.
Collected(w) ==
  /\ wpc[w] = "gc"
  /\ pack' = [pack EXCEPT ![Mirror(w)] = "packed"]
  /\ graph' = [graph EXCEPT ![Mirror(w)] = "plain"]
  /\ Goto(w, "repack")
  /\ UNCHANGED optimizeRest

Repacked(w) ==
  /\ wpc[w] = "repack"
  /\ pack' = [pack EXCEPT ![Mirror(w)] = "bitmap"]
  /\ Goto(w, "graph")
  /\ UNCHANGED <<graph, optimizeRest>>

\* Faulty variant: the routine sequence runs ahead of gc.
GraphWrittenEarly(w) ==
  /\ wpc[w] = "graph"
  /\ graph' = [graph EXCEPT ![Mirror(w)] = IF o.deep THEN "plain" ELSE "bloom"]
  /\ Report(w, "ok")
  /\ UNCHANGED <<pack, optimizeRest>>

GraphWritten(w) ==
  /\ wpc[w] = "graph"
  /\ graph' = [graph EXCEPT ![Mirror(w)] = "bloom"]
  /\ Report(w, "ok")
  /\ UNCHANGED <<pack, optimizeRest>>

\* A git child fails: maintainOne's catch.
OptimizeFails(w) ==
  /\ wpc[w] \in {"config", "gc", "repack", "graph"}
  /\ Report(w, "failed")
  /\ UNCHANGED <<optimizeRest, sweepGit>>

-----------------------------------------------------------------------------
(* Specification *)

WorkerRuns(w) ==
  \/ Take(w) \/ Drained(w) \/ Probed(w)
  \/ NoFetch(w) \/ FetchStart(w) \/ (\E ok \in GitEnds : FetchEnds(w, ok)) \/ RestEnds(w)
  \/ Configured(w) \/ Collected(w) \/ Repacked(w) \/ GraphWritten(w) \/ OptimizeFails(w)

MainRuns == ProbesEnd \/ GroupNext \/ GroupsEnd \/ SweepEnd

SweepNext == Abort \/ Discover \/ MainRuns \/ \E w \in Worker : WorkerRuns(w)

SweepFairness ==
  WF_sweepVars(MainRuns) /\ \A w \in Worker : WF_sweepVars(WorkerRuns(w))

SweepSpec == SweepInit /\ [][SweepNext]_sweepVars
SweepFairSpec == SweepSpec /\ SweepFairness

-----------------------------------------------------------------------------
(* Properties *)

Maintains(w) == wpc[w] \notin {"idle", "probe", "over"}

\* A host never has two jobs in flight, however workers and groups meet ("a host
\* never has two jobs in flight", maintain-mirrors.mjs, main).
OneJobPerHost ==
  \A v, w \in Worker : Maintains(v) /\ Maintains(w) /\ Group(v) = Group(w) => v = w

\* Between two fetches on a host lies the idle interval, also when the first one
\* failed (createMinIntervalGate).
FetchesPaced ==
  [][\A w \in Worker :
       wpc[w] = "target" /\ wpc'[w] = "fetch" /\ Paced => rested[Group(w)]]_sweepVars

\* A mirror reported ok after an optimizing pass has bitmap and path filters over
\* its final pack, whichever passes ran ("it pins the end-state every optimizing
\* pass must leave the mirror in", git-lib.mjs, deepOptimizeMirror).
OkMeansSearchable ==
  \A r \in Repo : verdict[r] = "ok" /\ o.optimize => pack[r] = "bitmap" /\ graph[r] = "bloom"

\* A sweep ends: failing mirrors neither stop it nor hold it up (pool, git).
SweepEnds == phase = "probe" ~> phase = "done"
=============================================================================
