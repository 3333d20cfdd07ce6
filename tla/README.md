# A TLA+ project for agentcontainer

This directory specifies the repository's core logic in TLA+, checks it with TLC
on small instances and proves the main safety properties of its concurrent parts
with TLAPS.

The repository is a workstation kit: a Go reverse proxy with a TLS tunnel
(`llm-reverse-proxy/`), a farm of git mirrors (`git/`), a build orchestrator
(`build.mjs`), extensions and generated line-ups for model providers (`pi-*/`), and
the generators of a coding agent's configuration. Three groups of modules follow
that division: the tunnel, the farm, and what is generated and installed.

## 1. Inventory

### The tunnel (`llm-reverse-proxy/`)

| part | state | operations | talks to |
| --- | --- | --- | --- |
| `relay.go`: byte pump | outcome (first wins), `localEOF`, `peerClosed`, `done` | reader, pump, keepalive goroutines; `stop`, `bothClosed` | a carrier (`tunnelStream`) and a local TCP connection |
| `websocket.go`: carrier, mode D | write mutex, buffered reader and writer | `readMessage`, `writeFrame`, `writeClose`, `Close` | TCP, relay |
| `modec.go`, `postStream`: carrier, mode C | body, pipe, read timer, `timedOut` | read, write, deadlines, `Close` | net/http, relay |
| `modee.go` server: registry and sessions | `byTrace`; per session the span slot, `inbound`, `inBytes`, `outbound`, `closed`, `readTimer`, `timedOut` | `accept`, `beginWindow`, `drain`, `flushWindow`, `endWindow`, `readTunnelMsg`, `writeTunnelMsg`, `setReadDeadline`, `Close` | one HTTP handler per window, `runSession`, relay |
| `modee.go` client: `windowStream` | `em`/`pm` locks, `resp`, `seq`, `pending`, backoff flag, `wake`, `closed` | `writeTunnelMsg`, `forceExchange`, `readTunnelMsg`, `startExchangeLocked`, `Close` | HTTP, relay |
| `tunnelserver.go`: exit session | handshake phase, deadline, operator keys | `runSession`, `serveTunnel`, `enableTunnel` | carrier, `egress.go`, relay |
| `relaynode.go`, `relaychain.go`: relay node | carrier ladder, front ends | `dialTransport`, `openTunnel`, HTTP CONNECT, SOCKS5 | carriers, applications |
| `egress.go` | deny table, overrides | `allowPort`, `dialValidated` | resolver |
| `tunnelproto.go` | none | frame encoder and decoder | every carrier |
| `main.go` | routes | dispatch, camouflage 404, proxying | net/http |
| `vpn-relay.sh`, `vpn-exit.sh` | container or supervised process | chain, serve, readiness probe | docker/podman, curl |

What is hard: three goroutines per end share one carrier and one teardown; two
ends share a connection that can die under them; a mode E session is spread over
independent HTTP requests that may be repeated, late, overlapping or cut short;
deadlines are timers that race what they guard.

What makes each part correct:

* the relay: streams are delivered in order, once and without invention; end of
  stream follows the last byte; `closed` means what it says; every stop joins all
  goroutines and reaches the other end;
* mode E server: one session per trace id, never two live windows in a session,
  windows seen whole and in order, an exact byte budget, every request answered
  and every session removed;
* mode E client: one request in flight, nothing pending is lost while the
  session lives, an idle session keeps polling without spinning, `Close` ends
  every wait;
* exit session and relay node: nothing is relayed before CONNECTED, every front
  end gives its client exactly one answer, every phase is bounded in time;
* egress: what is dialled was validated;
* front: a request without a credential cannot tell whether there is a tunnel;
* scripts: an address handed to a program stays served, by a relay that does not
  ride itself.

### The mirror farm (`git/`)

| part | state | operations | hard behaviour | correctness |
| --- | --- | --- | --- | --- |
| `maintain-mirrors.mjs`, `git-lib.mjs` | options, cursor of the pool, host groups, a gate per host, packs and graphs of the mirrors | discovery, globs, `pool`, `originUrl`, grouping, `maintainOne`, `createMinIntervalGate`, `pickaxeOptimizeMirror`, `deepOptimizeMirror` | two pools over one cursor idiom, git children that fail anywhere, pacing behind failures | one job per host, idle gap after each fetch, "ok" means searchable, the sweep ends |
| `forge-mirror.mjs` under `farm-lock.sh`, `software-forge-remotes.mjs` | directories of the farm, the farm lock | `resolve`, clone or update, `rmSync` after a failure | concurrent runs, killed clones, a host without flock, four spellings of one repository | a whole mirror stays whole, exit 0 means mirrored, one directory per repository |
| `migrate-to-bare.mjs` | clones, mirrors, results | convert, download, verify, delete | kills and repeated runs with other flags | a clone is only deleted behind its own verified mirror |
| `local-changes.mjs`, `audit.mjs` | none that outlives a run | `statusBuckets`, verdicts, audit findings | renames in the z format | every path once per side, what "clean" may hide |
| `search-references.mjs` | shards, server, status | index, query, serve | containers that fail one by one, server that goes away | exit 0 means indexed, or answered |
| `vbs-har.mjs` | manifest | extract | repeated, cut or missing answers | gaps are explicit |

### What is generated and installed

| part | state | operations | hard behaviour | correctness |
| --- | --- | --- | --- | --- |
| `pi-hyper`, `pi-verboo`, `pi-cline-pass`, `pi-synthetic` | the two committed artifacts, pi's registration and store | fetch, shape, render, atomic write, `--check`; seed, refresh, publish | kills between two writes, aborts, stale stores, a provider that changes what it serves | artifacts whole, provider keeps standing, only published levels are sent |
| `pi-mistral`, `pi-opencode` | `lastAttemptAt`, key | `refreshModels` | overlapping openings and slow listings | one warning an interval, nobody else's |
| `coding-agent/route-probe.mjs`, `catalog-facts.mjs`, `refresh-models-dev.mjs`, `check-routed-artifacts.mjs` | candidates, caches, catalog | walk, classify an answer, refresh, routed and canonical forms | answers of any kind, TLS off | first candidate that delivers; no bearer over unverified TLS; last good cache |
| `coding-agent/generate.mjs` | the agent's and the committed files | ten stages | failure or death in each of them, bases that change | whole, routed, never a base committed |
| `build.mjs`, `generate.mjs`, `lib/host-capabilities.mjs`, `lib/go-build.mjs` | targets, children, log buffers | gates, selection, run, capture | chunks of many children | exit status and log tell the truth |

`PROJECT.json` lists every component with its status, and under `hazards` what is
hard to test, at the line where it bites.

## 2. Modules

```
BytePipe         what a session promises: two independent byte streams
   ^ refinement
Relay            relay.go at both ends over one bounded carrier
   RelayProofs      theorems about Relay
   MCRelay          values for TLC; MCRelay, MCRelayLive, MCRelayHalfClose .cfg
ExchangeServer   modee.go, server side, with runSession behind its channels
   ExchangeProofs   theorems about ExchangeServer: types, slot, registry
   WindowProofs     theorems about what its sessions are given: budget, order
   MCExchangeWindow two families of instances; MCExchangeWindow.cfg
                    (MCExchangeReap.cfg needs no values)
   ^ INSTANCE
Exchange         modee.go, client side (windowStream), over one of its sessions
   v implements
TunnelStream     what a session asks of a carrier: each frame read once, none lost
                 before an end has closed (the interface tunnelStream)
   ClientProofs      theorems about Exchange
   MCExchangeClient  MCExchangeClient, MCExchangePong .cfg
Opening          relaynode.go, tunnelserver.go, egress.go: request, ladder,
                 HELLO, CONNECT, dial, answer, over each carrier
   OpeningProofs    theorems about Opening, Front and RelaySupervisor
   MCOpening        Opening, and one long window of ExchangeServer;
                    MCOpening, MCBlackhole .cfg
Front            main.go and tunnelserver.go: arming and dispatch
RelaySupervisor  vpn-relay.sh, workload-runtime.sh: runs on one host
                 (both checked with MCFarm)

MirrorSweep      maintain-mirrors.mjs: pools, host groups, gates, optimization
   MirrorSweepProofs  theorems about MirrorSweep
ForgeRemotes     software-forge-remotes.mjs: spellings of a repository
   ForgeMirror      forge-mirror.mjs runs under farm-lock.sh
FarmTree         git-lib.mjs: discovery and globs
   Migration        migrate-to-bare.mjs
   FarmReports      local-changes.mjs, audit.mjs
   ReferenceSearch  search-references.mjs
HarManifest      vbs-har.mjs
   FarmProofs       theorems about ForgeMirror, Migration, FarmReports,
                    ReferenceSearch and HarManifest
   MCFarm           all of the farm's tools, RelaySupervisor, Front; MCFarm.cfg
   MCNested         Migration on a farm with nested clones; MCNested.cfg

PiHyper, PiVerboo, PiClinePass, PiSynthetic   merge.mjs and sources.mjs of a folder
   ProviderFolder   generate.mjs, lib/artifact.mjs and index.ts of any of the four
Watchdogs        pi-mistral/index.ts, pi-opencode/index.ts
Routes           bases, routes, and the routed form of an artifact
   RouteProbe       route-probe.mjs, catalog-facts.mjs, refresh-models-dev.mjs
   AgentInstall     coding-agent/generate.mjs
BuildAll         build.mjs, generate.mjs
   GenerateProofs   theorems about all five
   MCGenerate       all of these; MCGenerate.cfg
```

### Relay

`Node == {"relay", "exit"}`: the same function runs at the local node and at the
node that dialled the target. Per end, `rpc`, `ppc` and `kpc` say where reader,
pump and keepalive are; `localEOF`, `peerClosed`, `outcome` and `stopped` are the
variables of `relay()`. `wire[n]` is the carrier in one direction: a FIFO that
blocks its writer at `WireCap` frames. Steps that other goroutines can tell apart
are separate actions (reading a frame, handing it on, answering a PING, the
`bothClosed` behind it); steps between which nothing observable lies are one
(`setOutcome` with the `stop()` that follows it; the pump's local read with its
send: a chunk read and not sent is, to everyone else, a chunk not read).

Data is a chunk number. A frame carries `pos`, the number of chunks sent when it
was written: a history field that names a DATA frame's chunk and gives the proofs
their order.

Closing follows TCP: closing with unread input resets the connection, a write to a
closed peer succeeds once and kills the next one, buffered input that an end has
not consumed when it stops is gone, and undelivered output may die with the
network (`LoseTail`). This is the carrier of mode D and of mode C over HTTP/2.

The environment draws one member of `FaultSets` at the start: a broken path, a
local connection that breaks, an idle window, an expired write deadline, a stray
frame, a lost tail.

### ExchangeServer

A `Handler` is one HTTP request in `serveTunnelExchange`; a `Stream` is one
session object, minted at most once. `hpc` walks a request through
`begin`, `drain`/`push`, `flush` and `ending`; `rpc` and `wpc` are the session's
reader (first `runSession`, after CONNECTED the relay's) and its writers. `Close`
is two steps, `close(closed)` and the removal from the registry, and its callers
wait for the second. The timer of `setReadDeadline` is two steps as well: the flag
is raised, then the stream closed; in between the reader may clear the flag.

`inbound` holds `InCap` frames (4096 in the code), `ByteCap` is
`inboundWindowCap` counted in frames of equal weight. `taken` and `reaped` are
history. A request answered 404 because its trace id is unknown, its span is not
the first, or the registry is full changes nothing and is not an action;
authentication and the traceparent's syntax are a request's precondition.

### Exchange

The client of mode E over the server above: `Exchange` instantiates
`ExchangeServer` with one trace id and one session and joins each of its steps with
what the client sees of it. `via` is the request that serves the current window;
`reply` and `body` are its response on the wire (`Respond`, `Verdict` say what
net/http makes of the end of a handler). `em` is the lock of the same name, held by
whoever is in `client.Do` or reads the response; `cpc` says where the relay's
goroutines are. `pending`, `seq`, `resp`, `hadBody`, `gotFrame` and `pollEmpty` are
windowStream's fields. `accepted`, `pushed` and `got` are history. `UpFlight` and
`DownFlight` count the frames under way, wherever they are; with them `Exchange`
implements `TunnelStream` (`CarriesFrames`), whose `over` is that the client or the
session has closed: the two notice it apart, and an end that has not goes on writing.

The reader is a writer too: a frame it was given may be a PING, and then its next
step is `WriteFrame`. In the code it always holds a response when it writes, which
is why `ForceExchange` is the writers' only (`ClientTypeOK` says so).

Sessions begin behind the handshake. Frames weigh one unit, a batch of `FlushAt`
is forced. The `wake` channel and the backoff timer are one event that may come at
any time (`Poll`). Of the exit's session only the steps a client can tell apart are
taken, and none once the client has let go of its last exchange (`Watched`): the
rest is what the other runs check of `ExchangeServer`.

### Opening

One request of one application, from its first byte to its answer. `node` is where
the relay node is with it: the front end (`idle`, `greeting`), the rungs of
`dialTransport` (`alpn`, `post`, `posted` for C; `ws`, `upgrade` for D; E has no wait
of its own), `openTunnel` (`hello` to `clear`), the answer (`fail`, `accept`), early
bytes and the relay. A rung that fails may have reached the exit node, where its
session goes on without knowing, so carriers, frames and sessions are functions of the
rung, and `use` is the rung settled on. `exit[m]` is where `runSession` is: HELLO,
CONNECT with its three refusals in their order, lookup, dial, relay, the deferred
`Close`. An address is in the deny table or opted in again, or neither; a lookup
yields one or two addresses, and the first one allowed is pinned.

Time is left out. What a deadline does differs by carrier, and that is kept: on D
(and on the exit node on C, behind HTTP/1.1) it fails the pending read, on the relay
node's C and on E it is a timer that closes the stream, in the dial too. `Break` kills
a connection without a word to either end; `WindowCut` loses a request or a response;
`silent` is an endpoint that accepts connections and never answers in TLS.

Reductions, each for a step nobody else can see: a frame is read and acted on in one
step; runSession's return and `Close` are one step but on E, where windows keep
coming and meet the session in between; the application leaves only where the code
would notice. `MaxStray` bounds the rungs given up with a session of theirs on the
exit node. Operator keys and the syntax of a target are a request's precondition or
its `form`.

### Front, RelaySupervisor

`Front` is one start of an exit node with any configuration and environment
(`Started`: refused, or the providers and keys it serves with), and the dispatch of
every request as operators with the code's names. A token is long enough or not, a key
list an object or garbage. `Camouflaged` compares an armed node with the same node
unarmed, request by request.

`RelaySupervisor` has runs of `vpn-relay.sh` as processes: `spc` is where the script
is (`probe`, `start`, `remove`, `launch`, `wait`, `export`, then the child, or
`attached` for a serve). Where a container tool exists the relay is one container
under one name (`"box"`), which any run removes; without one, each run that started a
relay has a supervisor loop of its own (`proc[c]`), of which one holds the listeners.
`desc` is what a process was started with: its tunnel, the upstream its environment
named, whether it is kept. A run may inherit the environment of a child of another
(`Handed`). Whether the probe reaches the loopback depends on the shell's proxy
variables (`ProbeState`). `Unguarded` names what the script does not protect a child
against, and `AddressServed` excepts exactly that: a serve, which replaces the relay
and is not restarted; a run that died between removing the container and starting
one; a run for another tunnel; `SOCKS_SERVER` naming the relay.

Seen while modelling and not a disagreement with a document: two native runs that
start at once leave two supervisor loops for good, one of which fails to bind every
second; and a relay is recognised by scheme and host of its tunnel only, not by the
funnel's path, so a run reuses the relay of another mount on the same host.

### MirrorSweep

`phase` is where `main` is; `next`, `at` and `wpc` are a pool's cursor and its
runners, for the probes and then, from the start again, for the host groups
(`lanes`). A runner takes an item in one step, since nothing is awaited between
the read and the increment. `maintainOne` is a walk of `wpc` from `target` through
`fetch` and `rest` (the gate's idle interval, which ends in the same chain link)
to `config`, `gc`, `repack` and `graph`; each is one git child that succeeds or
fails. `pack` and `graph` keep of a mirror what the pickaxe needs: a bitmap over one
pack, and path filters in the commit graph. `rested` is history. The filter is a
relation (`Filtered`: the kept mirrors, in the order of discovery), because a proof
can use it that way.

### ForgeRemotes, ForgeMirror

A URL is its parsed parts. `parseSoftwareForgeRemote` and its shapes give a remote its
identity, `resolve` its directory and the URL to clone. `Named` says, without them, which
repository a remote names: a forge's organisation, project id and name, or host, port and
path. One repository has one directory; the other way round the code leaves things out of a
directory's name, and `Namesakes` says which: the number of a project's id, a port, and
that an organisation is not a host. All three are in the run and the first two are
findings. A run of `ForgeMirror`
takes the lock (if flock exists), looks, clones or updates, clears up and goes on
to its next input; `git clone` is three steps, and a run may die in any. `orphan`
remembers directories left empty by a killed clone: git takes such a directory for
a mirror, which `ZeroMeansMirrored` has to admit and a finding reports.

### FarmTree, Migration, FarmReports, ReferenceSearch, HarManifest

A tree is a function from directory paths to what they hold; discovery and
`globMatcher` are operators over it. `Migration` is a pool of conversions (`begin`,
`clone`, `verify`) over that tree, with deletion; a run may be killed and another
started with other flags. `FarmReports` draws a clone and computes what
`local-changes` and `audit` say of it. Beside what git tells of a clone, a subject has what
git is not asked: `unpushed` commits of a branch and `stray` ones of a detached HEAD. With
them `ReportExact` can say what the verdict "clean" overlooks. `ReferenceSearch` is index,
query and serve with their containers; `heard` remembers what a server sent (its files up
to `--num`, no files, or a body that breaks the printing loop), because exit status 0 means
something else for each. `HarManifest` records entries one by one and may extract at
any moment.

### Provider folders, Watchdogs

The four `Pi*` modules are operators: a row's shape, the two projections, the seed,
and the fetch that throws or yields. Their names follow `merge.mjs` and
`sources.mjs`. `ProviderFolder` instantiates all four and runs one folder's
generator (fetch, shape, compare under `--check`, temporary file, rename, second
artifact) beside its extension in pi (seed, refresh in steps, store, abort), while
`Serve` changes what the provider answers and `Kill` and a restart may come at any
time. `Watchdogs` has a clock, and any number of overlapping openings.

### Routes, RouteProbe, AgentInstall, BuildAll

`Routes` has the bases and the two forms of an artifact. `RouteProbe` walks
candidates; every request may be answered in every way of `Answer`. `AgentInstall`
has an action for each stage of a run, one for its failure and `RunDies`; a copy into the
tree may be cut short, by the run's death or with a warning; the
files survive, `OperatorEdits` may come between runs, and `used` remembers the bases.
`BuildAll` has the gates as `Registered` in the order of `BuildOrder`, children that emit
chunks of up to `MaxChunk` characters, and the line buffer of each stream. `LogOf` is the
reference the logs are compared with: the lines of the whole text, read at once.

## 3. Runs

| run | question | bounds |
| --- | --- | --- |
| `relay` | types, `InOrder`, `CleanEnd`, `Relay` implements `BytePipe`, and no deadlock | one chunk each way, carrier of one frame, each kind of failure in turn (path break with lost tail; the rest with the write deadline) |
| `relay_live` | `StopJoins`, `PeerFollows` | one chunk from the target, slow applications or a broken path |
| `relay_halfclose` | does a half-closed session keep the whole response? (violated) | no failure, carrier of two frames |
| `exchange_window` | `SlotHeld`, `WindowOrder`, `BudgetExact`, `RegistryExact` | either one session, two requests at once, two spans, two frames, queue of one, budget of two; or two trace ids, two objects, two requests, one entry, empty windows (1 454 381 states) |
| `exchange_reap` | is an expired deadline always reported as such? (violated) | one session, one request |
| `exchange_client` | `Exchange` implements `TunnelStream` (`CarriesFrames`), `ConformingAdmitted`, `PushDelivered`, `CloseEnds` | one writer beside the reader, two frames up (a full batch), one down at a time, two more windows |
| `exchange_pong` | does the reader ever wait for itself? (violated) | as above |
| `opening` | `AnswerTrue`, `NoCarrierLeft`, `OpeningEnds`; the exchange's `WindowEnds`, `SessionReaped` | every form of request at both front ends, three addresses, two ports, one rung left behind; beside it one window of four frames, which fills queue, slot and the reader's hands and overruns the budget (267 933 states) |
| `opening_blackhole` | does a silent endpoint always end in an answer? (violated) | as above |
| `farm` | the sweep's `OneJobPerHost`, `OkMeansSearchable`, `FetchesPaced`, `SweepEnds`; mirroring's `ZeroMeansMirrored`, `OneDirectoryEach`, `MirrorsKept`; `OriginalsKept`; `ReportExact`; `ZeroMeansAnswered`; `GapExplicit`; the scripts' `AddressServed`; the front's `Camouflaged` | three mirrors on two hosts, six command lines; two mirroring runs of up to two inputs, one repository in three spellings and one in two, a second project with its slug, a second port and an organisation named like a host, one kill; clones with a branch of every kind, on it or detached; three clones, two migration runs; four mirrors to index and a query of two lines, capped or not; recordings of three entries; two runs of the script for one tunnel or two, one crash of a relay, one death of a run, a host with and without a container tool; every configuration of two providers and three keys (170 318 states) |
| `farm_nested` | is an original ever deleted before its mirror is whole? (violated) | a clone inside a clone, two pool slots |
| `generate` | `CommittedIsWhole`, `ProviderStands`, `LevelsPublished`, `SubscriptionContract`, `WarnedOncePerInterval`, `RouteTrusted`, `HostRouted`, `BuildTells` | one change of the provider's answer, two generator runs, two refreshes; three openings, two intervals; two bases; two installs; hosts with every combination of gates (892 090 states) |

Why these bounds are enough to be interesting: a carrier of one frame makes every
writer block and lets the two PONG answers block each other; one chunk each way
with CLOSE, PING and PONG around it gives every pair of frames a chance to meet in
either order; a queue of one and a slot of one make the ring handler, reader, slot
reachable with four frames; two requests are enough for every race between a
window and its duplicate, and two spans for a window out of sequence. In the
client's runs two windows after the handshake are an empty poll and a forced one in
either order, and a batch of two is filled by one goroutine or by two. What the
bounds cannot settle is proved for all values (section 5). In `farm`, three mirrors on
two hosts make one group of two and one of one, and two mirrors on one host beside a
local one; two mirroring runs are what a lock is about; two migration runs let a
kill be followed by a forced run. In `generate`, one change of the answer is what
separates seed, store and fresh answer, and a kill falls between two artifacts; two
installs have a first run that dies and a second under other bases. In `opening`, one
rung left behind is what it takes for a stray session to meet the request's own, and
an address of each kind (allowed, denied, denied but opted in) with lookups of two
makes the first allowed one differ from the first. The tools of a
group share no state in the code beyond what their own module has, so `farm` and
`generate` are disjoint sums: one tool runs and the others rest where they begin.
`opening` and `exchange_window` are sums in the same way, of `Opening` with a window of
`ExchangeServer` and of two bounds of one module.
Deadlock checking is off where the system really stops: sessions end, clients fall silent; in `relay` it
is on.

The five violation runs are disagreements between the code and what its comments
or documents say; `PROJECT.json` quotes the lines. In `relay_halfclose` both
applications end their streams in order and one end still throws away buffered
DATA, because its next PING meets the closed connection before its reader has
emptied it. In `exchange_reap` the deadline closes a session and the pump, the
keepalive or the PONG writer, woken by that very close, records
`peer-disconnected` before the reader can record `idle-timeout`. In
`exchange_pong` the mode E client's reader answers a PING while the response that
brought it is open, finds the batch full and waits for the end of that response,
which only it can read; the pump waits with it, and the session stands still until
its idle deadline. In `opening_blackhole` the upgrade's deadline is set only behind the
TLS handshake, which nothing bounds but the context, and that of a SOCKS request, or
of an application that waits, does not end: the request stays parked. In `farm_nested` discovery yields a clone and one inside it, and
deleting the outer one takes the inner one along, whose conversion may not have
begun. `PROJECT.json` lists further disagreements met while reading; no run is needed
to see those.

## 4. Fairness

`Relay`: weak fairness for each goroutine of each end (`ReaderRuns`, `PumpRuns`,
`KeepaliveRuns`): the Go scheduler runs what can run. Handing bytes to the local
connection is left out, because an application may stop reading for ever; so are
all actions of applications and of the environment. `PumpDataErr` and the other
failing writes are part of the goroutine's fairness, because each write has a
deadline; that is the one thing that separates two ends which each owe a PONG to
a full carrier, so `relay_live` includes `"stall"` wherever the path stays whole.

`ExchangeServer`: weak fairness for each request, reader, writer, timer and for
the rest of `Close`. Requests themselves, broken bodies, failing responses and
what the target sends are not fair. Two assumptions deserve to be named. A
client whose request was admitted goes on sending its body or breaks it off:
`drain` has no deadline of its own, so `WindowEnds` says nothing of a client that
holds a body open in silence. And a timer that stays armed fires: behaviours here
have finitely many windows, so sooner or later every session is left alone with
its deadline, which is the situation `SessionReaped` is about.

`Exchange`: weak fairness for the client's reader and each of its writers, for the
request being served, for the exit's session and for the steps that end either
side, among them the header timeout of a window that is not answered. Frames,
faults and both idle deadlines come when they come, so `PushDelivered` is not met
by closing the session. It is conditional on the reader not waiting for itself
(the violated run) and on spans being left. `CloseEnds` assumes a network that
delivers or fails: on one that is silent the code's `Close` does not end
(`PROJECT.json`, findings).

`Opening`: weak fairness for what the relay node does next, for a deadline that runs,
for the SOCKS connection's own ten seconds (`Leaves`), for the windows, for each exit
session and its end, and for an exit relay whose other end has closed (it notices at
the latest by its idle reap). A window is lost for sure only against a silent endpoint.
Applications otherwise stay as long as they like, connections need not break, and a
relay need not end. `OpeningEnds` is about endpoints that answer in TLS; the other
ones are the violated run's.

`MirrorSweep`: weak fairness for `main` and for each worker. Node runs every
continuation that is ready, the gate's timer fires, and a git child ends: it is
started so that it cannot wait for a prompt, and how it ends is left open. That
`Abort` or `Discover` ever happens is not assumed, so `SweepEnds` begins at the
probes. The other tools of the farm and the generators state safety only.

`RelaySupervisor`: weak fairness for each run of the script (every one of its waits is
bounded), for a relay that was started (it binds or ends) and for what starts it again,
which is what `--restart unless-stopped` and the loop promise. Who types commands,
crashes and other programs on the port are not fair; crashes end because they are
bounded.

## 5. Proofs

`RelayProofs` proves, for every number of chunks, carrier bound and set of faults:

* `TypeCorrect`, `Invariance` (`Spec => []IInv`), and from it `StreamsInOrder`,
  `CloseComesLast`, `OutcomeRecorded`;
* `ImplementsPipe`: `Spec => PipeSpec`, the refinement of `BytePipe`.

`InOrder` and `CleanEnd` are not inductive: that the next DATA frame continues
what was delivered depends on the frames before it on the carrier, and that CLOSE
is last depends on the pump. `IInv` adds both. `StreamInv` says that the positions
of the frames on the carrier form a chain starting at what the reader has taken
(`Chain`), that no frame at its end is missing while both ends live (`Complete`; a
lost tail is only possible afterwards), and that a CLOSE on the carrier carries
the position of the whole stream of a finished application. `ReaderInv` ties the
chunk in hand to what was delivered. `EndInv` says that an end is stopped exactly
when it has an outcome, from which `OutcomeChosen` follows. The refinement maps
`peerClosed` to end of stream and the outcome to a verdict; every action is a
stutter, a delivery, an end of stream, a close, a failure, or a step of an
application. Its one subtle case is the second half-close, which ends the session
in the same step that delivers nothing; `EOFBehindApplication` gives the fact that
this end's own application is finished.

`ExchangeProofs` proves, for every number of trace ids, session objects, requests,
spans and frames:

* `TypeCorrect` (with `FedBehind`: a frame in a handler's hand is one of its
  window's, which keeps the counters within their types);
* `OneWindow` (`[]SlotHeld`): the flag `inFlight` is set exactly while one request
  is between `beginWindow` and `endWindow`. It is inductive on top of the types;
* `RegistryCorrect` (`[]RegistryExact`): proved together with `EntryTraced`. A mint
  adds a fresh object under a free trace id below the bound, `Unregister` removes
  exactly its own entry, and nothing else touches the registry or a life in a way
  the invariant can tell.

`WindowProofs` goes on from these three:

* `BudgetCorrect` (`[]BudgetExact`). `BornInv`, inductive on top of the slot and the
  registry, says that nothing has happened to a session object before it is minted
  (`UnbornClean`), without which a mint could start with frames charged, and counts
  the charge place by place (`Charged`); the slot gives the bridge from "a frame is in
  some hand" to the `Cardinality` of the property (`HandCounted`).
* `OrderCorrect` (`[]WindowOrder`). The property speaks of what a session was given,
  taken or still queued (`Log`), which a pop leaves alone (`LogPop`) and only a push
  extends (`LogPush`, `ChainGrows`). `OrderInv` ties its newest frame to the request
  in the slot (`Feeds`): it is that window's last fed frame or of an older, complete
  window, the window's span is the one before `nextSpan`, a window being flushed was
  fed whole, and one that failed has closed the session; with no request in the slot,
  the newest window is complete or the session over (`Complete`). TLC checked the
  invariant on the `exchange_window` instance before it was proved.

`OpeningProofs` proves, for any addresses, ports, policy and requests, and any number of
rungs given up:

* `OpeningInvariance` (`OpeningSpec => []OpeningInv`), and from it `CarriersClosed`
  (`[]NoCarrierLeft`) and `AnswersTrue` (`[]AnswerTrue`).

Neither property is inductive. `Settling` says when a rung has been settled on, and
that the request then names a target; `Ladder` names, for each place of the relay
node, the carriers that may be open (`Held`). For the answers, `Stray` says that a rung
not settled on has carried no frame, so its session can only wait or end;
`Judged(m)` ties a session's place to what it has checked and what it reports, and from
it follows that a session has one outcome (`OutcomeOnce`); `Honest` says that every
frame on its way back, the parked one included, is one the session's outcome allows
(`Says`, which only grows); and `Believed` says that the relay node believes no more than
that. Three lemmas say which steps leave the sessions, the frames or the relay node
alone (`ExitQuiet`, `WireQuiet`, `LadderQuiet`), so that each part of the invariant is
proved over the steps that touch it. TLC checked all of it on the `opening` instance
first.

`MirrorSweepProofs` proves, for every farm, assignment of hosts, number of jobs and
command line:

* `SweepTyped`, `SweepInvariant` (`SweepSpec => []IInv`), and from it `HostsApart`
  (`[]OneJobPerHost`), `OkSearchable` (`[]OkMeansSearchable`) and `FetchesApart`
  (`FetchesPaced`, an action property).

None of the three is inductive. `IInv` adds that the kept mirrors are distinct, that
the groups are non-empty, one for a host, and hold every mirror once, and while
grouping only mirrors before the cursor (`Grouped`, `Placed`); that busy workers hold
different items behind the cursor (`Holding`): two workers on one host would be two on
one group. `Rests` says that a free gate has had its interval. For the verdicts,
`Fresh` says that what a worker has before it in its group, and all groups it or
others have not taken, are not yet reported ok, and that a mirror about to get its
graph has its bitmap; so the packs of a mirror reported ok are touched by no one.

`ClientProofs` proves, for any number of goroutines, requests, frames and windows:

* `FramesCounted` (`[]FramesExact`) and `ClientAdmitted` (`[]ConformingAdmitted`), from
  the inductive `ClientInv`, and `ServerDriven`: every step of the joined system is a step
  of the exit node's own specification or none, so that `ClientProofs` can use what
  `ExchangeProofs` shows of types without proving it again (`SP`);
* `CarrierImplemented` (`Spec => CarriesFrames`): the refinement of `TunnelStream`.

That no frame is lost, doubled or overtaken depends on where the frames are between
`pending` and the session, so `FramesExact` counts them place by place; that it stays
true depends on which of these places can be filled at once. `Turns` says what the owner
of `em` waits for and what is left of a response when nobody owns it; `Served`, that the
exit node has no other request than the client's, and that what it has done agrees with
what has come back; `Carried`, what a request has in hand; `Spans`, that the exit waits for the
window under way or for the next one, which is why a conforming client is always admitted;
`Registered`, that only a session that is over is refused. The steps of a request and of the
session are grouped by what they leave alone (`QuietKeeps` and the lemmas beside it).
The refinement needs no more than `ClientInv`. A step that writes or reads a frame moves one
count; any other (`Uncounted`) may only lessen what is under way, and while both ends
are alive, `FramesExact` before and after it says that it has not.

`OpeningProofs` also proves `CamouflageHolds` (`[]Camouflaged`) for any keys, configuration
and request, request by request, as nothing is kept between them; and `AddressStays` (`[]AddressKept`), for any number of runs
of the script, calls, crashes and deaths. `AddressKept` is the safety `AddressServed` rests on:
an address that was handed out has a relay of its tunnel that is started again whenever it ends
and does not ride itself, or a run is just putting another in its place, or the case is in
`Unguarded`. `Owned` says that every process is what some run asked for, and that a chain's
is not lost; `Guarded`, that only a chain which does not name its own listener comes to start
one; `Handled`, that a handed address has some relay or some run about to start one. TLC
checked the invariant on the `farm` instance first. No run repeats `AddressKept`.

`FarmProofs` has one part for each tool. Of `ForgeMirror` it proves, for any runs, command
lines, forges and kills:

* assuming `Flock`, that is a host that has flock (without it the script only warns, and
  two runs may share a directory): `ForgeInvariance` (`ForgeSpec => []ForgeInv`),
  `WholeMirrorsStay` (`MirrorsKept`, an action property) and `ZeroIsMirrored`
  (`[]ZeroMeansMirrored`);
* on every host, `DirectoriesApart` (`[]OneDirectoryEach`): two remotes have one directory
  when they name one repository, with `Named` as the reference, and when they are namesakes.

`Locked` says that whoever is behind the lock holds it, so that any two of them are one
(`Alone`). `Aimed` says what the next child will find: a clone about to run has no
directory before it, one that runs has its own, which is not whole, and so the clearing
up behind a failed clone takes no mirror along. `Known` says where an empty directory
can come from, and `Behind` that a run without a failure has mirrored every input
behind its cursor, which other runs, kept out by the lock, cannot undo.
`DirectoriesApart` goes through the shapes of a remote (`ForgeDirectory` and the lemmas
beside it). It assumes nothing of slugs, organisations and ports, which the code does not
check: where they collide, two repositories share a directory, and `Namesakes` says so.

Of the others:

* `MigrationKeeps` (`[]OriginalsKept`), for any tree, pool, options and number of kills and
  repeated runs, assuming `NoNesting`: no clone lies below another. Without that assumption
  it is false (`farm_nested`). `MigrationInv` says that the queue holds clones, each once and
  each still there until a worker is done with it (`Queue`, `Present`), that busy workers
  hold different places of it (`Taken`, `Apart`), that what is being verified exists (`Made`),
  and that what is gone has a whole mirror (`Gone`). The assumption enters once, in
  `OneGone`: deleting a clone takes no other clone along.
* `ZeroIsAnswered` (`[]ZeroMeansAnswered`): `Accounted` says that what was taken off the list
  has a result or is under way, and that a good result has an index; `Heard` that the
  container is asked when nothing has been printed, or the first lines of a broken answer.
* `ReportTrue` (`[]ReportExact`), for any clone and options. The invariant only says what is
  shown of what; the work is in the two recursions behind it, which make tokens of the
  entries and buckets of the tokens. `Filled` is what the buckets hold after the first `i`
  entries, including that the old name of a rename is skipped. `TrackingLevel` and `HeadShown`
  carry what a clean clone may hide.
* `GapsNamed` (`[]GapExplicit`), for any recording.

`GenerateProofs` has one part for each generated thing:

* `FolderInvariance`, and from it `CommittedStaysWhole`, `ProviderStaysUp`,
  `LevelsStayPublished` and `SubscriptionKept`, for each of the four folders and any answers.
  `FolderInv` traces what stands anywhere (`disk`, `pi`, the store, in hand) back to answers
  that were given (`Sourced`, `Whole`), so that a property of an entry is one of the answer it
  was shaped from. `Projects` and `Seeds` state once what the two projections and `withSeed` of
  all four folders have in common.
* `WarnedOnce` (`[]WarnedOncePerInterval`), for any number of overlapping openings and any
  interval: `Apart` says that unforced attempts are an interval apart whether they end in a
  warning or not, which needs that `lastAttemptAt` is some opening's (`Attempted`).
* `ProbeInvariance` and `RoutesTrusted`, for any candidates and answers: `Passed` says why a
  candidate before the current one did not win, and nothing is heard from the others.
* `InstallInvariance` and `RoutedHost`: `ThisRun` says what a run has installed and committed at
  each of its stages, `Led` that whatever is installed was routed to a base some run had.
* `BuildInvariance` and `BuildSays` (`[]BuildTells`), for any output in any chunks. `Deciding`
  says what the exit status may be at each point, `InTurn` that a serial host runs one target at
  a time, and `Reading` that a reader which has read `f` characters holds the line and
  the log of the first `f` (`Held`), wherever the chunks were cut.

Several of these are about recursions over data: the tokens of a report, the log of a
text, the selection of targets, the bases that can be used. Such a recursion is a function,
defined on `0..n` by what its value is at `i` given its value at `i - 1`. Two facts carry each proof:
that a function with these equations exists (`StepsExist`, `FilterExists`, `OrderExists` and
their like), without which nothing is known of the one `CHOOSE` yields; and that what holds at
0 and is passed on holds up to `n` (`UpTo`). Both are proved from the least element of a set of
naturals (`LeastNatural`), because an induction theorem of the library would need an
operator as a parameter, which the provers do not take.

Assumptions: the named `ASSUME` of each module, which TLC evaluates in every run that uses it.
`RelayAssumption`, `ExchangeAssumption`, `OpeningAssumption`, `SweepAssumption`,
`ForgeAssumption`, `MigrationAssumption`, `FrontAssumption`, `SearchAssumption` and
`WatchAssumption` only type the constants, keep `None`, `NoAddr`, `NoUrl` and `Nil` out of
what they are not, and say that no directory is discovered twice. The others say a little more:

* `ClientAssumption`: bounds are positive, and there are spans beyond the handshake's two;
* `ReportAssumption`: git prints two status letters it has, not two blanks, a branch's
  distances are numbers, one that tracks a remote's has no more unpushed commits than it is
  ahead, and commits that only HEAD holds are on a detached one;
* `RouteAssumption`, `ProbeAssumption`, `InstallAssumption`: the paths of URLs and the
  configured bases are sequences, and `Nothing` is none of the values beside it;
* `FolderAssumption`: the folders are these four, a documentation table is finite, the
  entries of a catalog slice have the two fields the code reads, and `Nil` is no value;
* `BuildAssumption`: outputs are finite texts, and two of a host's facts are Boolean;
* `NamesAssumption`: the segments of a path are not empty, and a remote is not null.

`Flock` and `NoNesting` are hypotheses of their theorems. `OutcomeChosen` and the types of
`ExchangeServer` are proved and no run repeats them.

Every invariant and every action property of the passing runs, and the
refinements of `BytePipe` and `TunnelStream`, are thereby theorems. Only model-checked is what the prover cannot state:
the liveness properties, which rest on fairness (`StopJoins`, `PeerFollows`, `PushDelivered`,
`CloseEnds`, `OpeningEnds`, `WindowEnds`, `SessionReaped`, `SweepEnds` and `AddressServed`); and the five violations, which are counterexamples.

## 6. Not modelled

* Tunnel: byte layout of frames and WebSocket framing, TLS, HTTP itself, logging,
  constant-time comparison of keys; the upstream chain's handshakes (`relaychain.go`, a
  dial that succeeds or fails) and the configuration of the relay node; reading the
  exit node's configuration file.
* Scripts: `vpn-exit.sh`, a single foreground launch; a reboot; a program that takes
  the port between a crash and the restart; how a container's arguments are rendered.
* What closing an HTTP/1 request body does under a parked read
  (`tunnelserver.go:273`). Data races as such: `readTimer` is written by the reader and
  read by whoever calls `Close` without a lock (`modee.go:769`), and `setReadDeadline`
  clears `timedOut` though an old timer's function may run (`modee.go:748`, which the
  two-step timer of `ExchangeServer` covers in part); the worst consequence of the
  first, a timer that is not stopped, calls `Close` on a closed stream.
* Mode E client: batch sizes in bytes, its vocabulary of read errors.
* `coding-agent/generate-pi-coding-agent.mjs` and `generate-opencode.mjs`: long rules
  that merge provider, catalog and host facts into texts, without a step between
  them; `AgentInstall` takes their result as a member of `Generated`.
* `llm-local-inference/generate.mjs`, `model-sizes.mjs` and
  `llm-reverse-proxy/generate.mjs`: tables and floating-point sizes.
* `lib/canonical-json.mjs` (models are sets here, so an order shows nothing), the
  logger, the provider facts, the shell fronts that start a tool in a container, and
  what a build target's command line is.
* Text: what a report or a help page prints beyond its sections.

## 7. What is left

1. `Relay` over `Exchange` in the place of its own carrier, with the frames' order (`TunnelStream`
   counts them); the byte cap against a slow target; CLOSE left in `pending`.
2. Proofs: the safety that the other liveness properties lean on, as `AddressKept` is for
   `AddressServed`.
3. The line-up generators, if their rules are ever separated from their texts.
