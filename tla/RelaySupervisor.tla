-------------------------- MODULE RelaySupervisor ---------------------------
(* vpn-relay.sh beside itself: several invocations of the chain and the serve mode *)
(* on one host, which share one address, one container name and, without a         *)
(* container tool, one supervisor loop for every invocation that started a relay.  *)
(* What a relay does with its requests is Opening; here it holds the address or    *)
(* not, answers /healthz with its tunnel, and rides some upstream.                 *)
EXTENDS Naturals

CONSTANTS
  Invocation,   \* runs of the script
  Calls,        \* what the runs are asked: mode, tunnel, whether the credential is there
  HostEnv,      \* the proxy variables a shell of the host may hold
  Absent,       \* no such process
  MaxTries,     \* RELAY_READY_TRIES
  MaxCrashes,   \* bound: how often a relay dies in a behaviour
  MaxDeaths     \* bound: how often a run of the script does

\* Which proxy a variable names: one of the network's or the relay's own listener.
Proxy == {"none", "corp", "self"}
Variables == [socks : Proxy, https : Proxy, http : Proxy, loopback : BOOLEAN]

ASSUME SupervisorAssumption ==
  /\ \A k \in Calls, c \in Invocation :
       k[c].mode \in {"chain", "serve"} /\ k[c].complete \in BOOLEAN
  /\ HostEnv \subseteq Variables
  /\ MaxTries \in Nat /\ MaxCrashes \in Nat /\ MaxDeaths \in Nat
  /\ "box" \notin Invocation

VARIABLES
  backend,   \* what detect_workload_tool found: container or native
  squatter,  \* another program on a listener: none, http, mute (no HTTP), socks (the second)
  call,      \* what each run is asked
  env,       \* the proxy variables each run inherited
  spc,       \* where each run is
  tries,     \* _vr_i of each run
  proc,      \* each relay process: none, starting, up, down (to be started again)
  desc,      \* what each was started with; of the container as long as the name is taken
  crashes,
  deaths

supervisorVars == <<backend, squatter, call, env, spc, tries, proc, desc, crashes, deaths>>

\* The container of that name, and the process each run starts without a container tool.
Process == {"box"} \cup Invocation
NoVariables == [socks |-> "none", https |-> "none", http |-> "none", loopback |-> FALSE]

SupervisorInit ==
  /\ backend \in {"container", "native"}
  /\ squatter \in {"none", "http", "mute", "socks"}
  /\ call \in Calls
  /\ env = [c \in Invocation |-> NoVariables]
  /\ spc = [c \in Invocation |-> "idle"]
  /\ tries = [c \in Invocation |-> 0]
  /\ proc = [r \in Process |-> "none"]
  /\ desc = [r \in Process |-> Absent]
  /\ crashes = 0
  /\ deaths = 0

Moves(c, from, to) == spc[c] = from /\ spc' = [spc EXCEPT ![c] = to]

-----------------------------------------------------------------------------
(* The environments *)

\* The proxy a relay with these variables rides; its tunnel is a wss one, which
\* HTTPS_PROXY or ALL_PROXY names.
Upstream(e) == IF e.socks # "none" THEN e.socks ELSE e.https

\* What the child of a chain inherits.
Handed(e) == [e EXCEPT !.https = "self", !.http = "self", !.loopback = TRUE]

\* Faulty variant: nothing is refused.
SelfChainedNever(e) == FALSE

\* _no_self_chain; SOCKS_SERVER is not among the variables it reads.
SelfChained(e) == "self" \in {e.https, e.http}

-----------------------------------------------------------------------------
(* The probe *)

Listens(r) == proc[r] = "up"

\* 0 a relay of this tunnel, 1 nothing that speaks HTTP, 2 anything else.
Heard(c) ==
  IF \E r \in Process : Listens(r)
  THEN IF \E r \in Process : Listens(r) /\ desc[r].tunnel = call[c].tunnel THEN 0 ELSE 2
  ELSE IF squatter = "http" THEN 2 ELSE 1

\* The probe is curl's, which reads http_proxy: unless NO_PROXY names the loopback, the
\* network's proxy is asked for the address, and answers with an error page or not at all.
ProbeState(c) ==
  IF env[c].http = "corp" /\ ~env[c].loopback THEN {1, 2} ELSE {Heard(c)}

-----------------------------------------------------------------------------
(* One run of the script *)

\* The shell it is typed in is one of the host, or a child of a chain.
BeginRun(c) ==
  /\ spc[c] = "idle"
  /\ \E e \in HostEnv \cup {Handed(env[d]) : d \in {d \in Invocation : spc[d] = "child"}} :
       env' = [env EXCEPT ![c] = e]
  /\ spc' = [spc EXCEPT ![c] = IF ~call[c].complete THEN "ended"
                               ELSE IF call[c].mode = "chain" THEN "probe"
                               ELSE IF backend = "container" THEN "remove" ELSE "launch"]
  /\ UNCHANGED <<backend, squatter, call, tries, proc, desc, crashes, deaths>>

FirstProbe(c) ==
  /\ spc[c] = "probe"
  /\ \E s \in ProbeState(c) :
       spc' = [spc EXCEPT ![c] = CASE s = 0 -> "export" [] s = 1 -> "start" [] s = 2 -> "ended"]
  /\ UNCHANGED <<backend, squatter, call, env, tries, proc, desc, crashes, deaths>>

StartRelay(c) ==
  /\ spc[c] = "start"
  /\ spc' = [spc EXCEPT ![c] = IF SelfChained(env[c]) THEN "ended"
                               ELSE IF backend = "container" THEN "remove" ELSE "launch"]
  /\ UNCHANGED <<backend, squatter, call, env, tries, proc, desc, crashes, deaths>>

\* A detached launch is started again whenever it ends, a serve is not.
Description(c) ==
  [by |-> c, tunnel |-> call[c].tunnel, upstream |-> Upstream(env[c]),
   kept |-> call[c].mode = "chain"]

Launched(c) == IF call[c].mode = "chain" THEN "wait" ELSE "attached"

\* workload_rm: by name, whoever started the container.
RemoveBox(c) ==
  /\ Moves(c, "remove", "launch")
  /\ proc' = [proc EXCEPT !["box"] = "none"]
  /\ desc' = [desc EXCEPT !["box"] = Absent]
  /\ UNCHANGED <<backend, squatter, call, env, tries, crashes, deaths>>

RunBox(c) ==
  /\ backend = "container" /\ desc["box"] = Absent
  /\ Moves(c, "launch", Launched(c))
  /\ proc' = [proc EXCEPT !["box"] = "starting"]
  /\ desc' = [desc EXCEPT !["box"] = Description(c)]
  /\ UNCHANGED <<backend, squatter, call, env, tries, crashes, deaths>>

\* The name was taken meanwhile, or there is no such image; set -e ends the run.
RunFails(c) ==
  /\ backend = "container"
  /\ Moves(c, "launch", IF desc["box"] = Absent THEN "left" ELSE "ended")
  /\ UNCHANGED <<backend, squatter, call, env, tries, proc, desc, crashes, deaths>>

\* The loop is forked before the loopback spelling is exported; a serve execs.
LaunchNative(c) ==
  /\ backend = "native"
  /\ Moves(c, "launch", Launched(c))
  /\ proc' = [proc EXCEPT ![c] = "starting"]
  /\ desc' = [desc EXCEPT ![c] = Description(c)]
  /\ UNCHANGED <<backend, squatter, call, env, tries, crashes, deaths>>

WaitReady(c) ==
  /\ spc[c] = "wait"
  /\ IF tries[c] = MaxTries
     THEN spc' = [spc EXCEPT ![c] = "ended"] /\ UNCHANGED tries
     ELSE \E s \in ProbeState(c) :
            CASE s = 0 -> spc' = [spc EXCEPT ![c] = "export"] /\ UNCHANGED tries
              [] s = 1 -> tries' = [tries EXCEPT ![c] = @ + 1] /\ UNCHANGED spc
              [] s = 2 -> spc' = [spc EXCEPT ![c] = "ended"] /\ UNCHANGED tries
  /\ UNCHANGED <<backend, squatter, call, env, proc, desc, crashes, deaths>>

\* The spelling is exported and the child takes the script's place.
Export(c) ==
  /\ Moves(c, "export", "child")
  /\ UNCHANGED <<backend, squatter, call, env, tries, proc, desc, crashes, deaths>>

\* A run of the chain dies on the way; its container or its loop does not.
Kill(c) ==
  /\ deaths < MaxDeaths
  /\ spc[c] \in {"probe", "start", "remove", "launch", "wait", "export"}
  /\ spc' = [spc EXCEPT ![c] = IF spc[c] = "launch" THEN "left" ELSE "ended"]
  /\ deaths' = deaths + 1
  /\ UNCHANGED <<backend, squatter, call, env, tries, proc, desc, crashes>>

-----------------------------------------------------------------------------
(* The relay processes *)

\* runRelayNode binds both listeners or ends.
Ended(r) == IF desc[r].kept THEN "down" ELSE "none"
Free == squatter = "none" /\ \A r \in Process : ~Listens(r)

Bind(r) ==
  /\ proc[r] = "starting"
  /\ proc' = [proc EXCEPT ![r] = IF Free THEN "up" ELSE Ended(r)]
  /\ UNCHANGED <<backend, squatter, call, env, spc, tries, desc, crashes, deaths>>

Crash(r) ==
  /\ crashes < MaxCrashes /\ Listens(r)
  /\ proc' = [proc EXCEPT ![r] = Ended(r)]
  /\ crashes' = crashes + 1
  /\ UNCHANGED <<backend, squatter, call, env, spc, tries, desc, deaths>>

\* The restart policy, or the loop after its second of sleep.
Respawn(r) ==
  /\ proc[r] = "down"
  /\ proc' = [proc EXCEPT ![r] = "starting"]
  /\ UNCHANGED <<backend, squatter, call, env, spc, tries, desc, crashes, deaths>>

\* Ctrl-C in the terminal of a serve.
Interrupt(c) ==
  /\ Moves(c, "attached", "ended")
  /\ proc' = [r \in Process |-> IF desc[r] # Absent /\ desc[r].by = c THEN "none" ELSE proc[r]]
  /\ UNCHANGED <<backend, squatter, call, env, tries, desc, crashes, deaths>>

SquatterEnds ==
  /\ squatter # "none" /\ squatter' = "none"
  /\ UNCHANGED <<backend, call, env, spc, tries, proc, desc, crashes, deaths>>

-----------------------------------------------------------------------------
ScriptRuns(c) ==
  \/ FirstProbe(c) \/ StartRelay(c) \/ RemoveBox(c) \/ RunBox(c) \/ RunFails(c)
  \/ LaunchNative(c) \/ WaitReady(c) \/ Export(c)

SupervisorNext ==
  \/ \E c \in Invocation : BeginRun(c) \/ ScriptRuns(c) \/ Kill(c) \/ Interrupt(c)
  \/ \E r \in Process : Bind(r) \/ Crash(r) \/ Respawn(r)
  \/ SquatterEnds

\* The shell runs on, a process that was started binds or ends, and what is to be
\* started again is.  Nothing is assumed of who types commands or of other programs.
SupervisorFairness ==
  /\ \A c \in Invocation : WF_supervisorVars(ScriptRuns(c))
  /\ \A r \in Process : WF_supervisorVars(Bind(r)) /\ WF_supervisorVars(Respawn(r))

SupervisorSpec == SupervisorInit /\ [][SupervisorNext]_supervisorVars /\ SupervisorFairness
-----------------------------------------------------------------------------
(* Properties *)

\* A relay of this tunnel holds the address and does not ride itself.
Serves(c) ==
  \E r \in Process :
    Listens(r) /\ desc[r].tunnel = call[c].tunnel /\ desc[r].upstream # "self"

\* What the script does not guard the child against: a serve, which replaces the relay
\* and is not started again; a run that removed the container and came no further; a
\* relay of another tunnel started at the same time; SOCKS_SERVER naming the relay.
Unguarded(c) ==
  \E d \in Invocation :
    \/ call[d].mode = "serve" /\ spc[d] # "idle"
    \/ spc[d] = "left"
    \/ call[d].tunnel # call[c].tunnel /\ spc[d] # "idle"
    \/ env[d].socks = "self"

\* An address handed to a child is served again after every crash of a relay, and after
\* any other run that probed, removed, started or failed at the same time
\* (docs/d095, decision 6: the listener must survive a crash).
AddressServed == \A c \in Invocation : (spc[c] = "child") ~> (Serves(c) \/ Unguarded(c))
=============================================================================
