---------------------------- MODULE AgentInstall ----------------------------
(***************************************************************************)
(* coding-agent/generate.mjs: the stages of one run after another, from the *)
(* settings to the opencode config.  A run exits at the stage that fails,   *)
(* or dies in any of them; the agent's directory, the committed files and   *)
(* the operator's servers are what the next run finds.  The environment     *)
(* may change between runs.                                                 *)
(***************************************************************************)
EXTENDS Routes, FiniteSets

CONSTANTS
  Profile,      \* bound: hosts: [termux, ocSet, writable, source]
  RunEnv,       \* bound: what REVERSE_PROXY_BASE_URLS may hold
  Generated,    \* bound: what the pi generator may merge, Nothing for no models.json
  GeneratedOc,  \* bound: what the opencode generator may write
  Servers,      \* names of MCP servers
  Defaults,     \* the names in the committed mcp.json
  Broken,       \* a server file that cannot be read
  TornFile,     \* a file that was not copied to its end, or removed for that
  MaxInstalls   \* bound: runs

\* What may stand in mcp.json.
ServerFile == UNION {[S -> {"operator", "default"}] : S \in SUBSET (Servers \cup Defaults)}

ASSUME InstallAssumption ==
  /\ Nothing \notin ServerFile /\ Nothing \notin GeneratedOc /\ Nothing \notin {0, 1}
  /\ \A doc \in (Generated \cup GeneratedOc) \ {Nothing} : \A id \in DOMAIN doc :
       doc[id] # Nothing => doc[id].path \in Path

VARIABLES
  host, stage,
  base0,     \* the configured bases of the run
  agent,     \* the agent's settings, servers and models, and opencode's config
  tree,      \* the committed models, opencode config and catalog
  out,       \* the run's output directory
  code,      \* the exit status, Nothing while a run is under way or was killed
  owned,     \* the servers that are the operator's (history)
  used,      \* the bases artifacts were installed under (history)
  installs
installVars == <<host, stage, base0, agent, tree, out, code, owned, used, installs>>

NoOutput == [models |-> Nothing, overlay |-> FALSE, oc |-> Nothing, catalog |-> Nothing]

InstallInit ==
  /\ host \in Profile
  /\ stage = "idle" /\ base0 = <<>>
  /\ agent \in [settings : {Nothing, "staged"}, mcp : {Nothing, Broken, <<>>}, models : {Nothing}, oc : {Nothing}]
  /\ tree = [models |-> <<>>, oc |-> <<>>, catalog |-> "vendored"]
  /\ out = NoOutput /\ code = Nothing /\ owned = {} /\ used = {} /\ installs = 0

\* Between runs the operator writes a server's entry.
OperatorEdits ==
  /\ stage = "idle" /\ agent.mcp \notin {Nothing, Broken}
  /\ \E n \in Servers \ owned :
       /\ agent' = [agent EXCEPT !.mcp = [m \in DOMAIN agent.mcp \cup {n} |->
                                            IF m = n THEN "operator" ELSE agent.mcp[m]]]
       /\ owned' = owned \cup {n}
  /\ UNCHANGED <<host, stage, base0, tree, out, code, used, installs>>

RunBegins ==
  /\ stage = "idle" /\ installs < MaxInstalls
  /\ base0' \in RunEnv
  /\ stage' = "settings" /\ out' = NoOutput /\ code' = Nothing /\ installs' = installs + 1
  /\ UNCHANGED <<host, agent, tree, owned, used>>

At(s, t) == stage = s /\ stage' = t
Fails(s) == stage = s /\ stage' = "idle" /\ code' = 1
runRest == <<host, base0, owned, installs>>

InstallSettings ==
  /\ At("settings", "mcp")
  /\ IF host.source THEN agent' = [agent EXCEPT !.settings = "installed"] ELSE UNCHANGED agent
  /\ UNCHANGED <<runRest, tree, out, code, used>>

\* The committed entries go under what is there; a file that cannot be read stays.
InstallMcp ==
  /\ At("mcp", "catalog")
  /\ IF agent.mcp = Broken \/ ~host.source THEN UNCHANGED agent
     ELSE LET there == IF agent.mcp = Nothing THEN <<>> ELSE agent.mcp
          IN agent' = [agent EXCEPT !.mcp =
               [n \in Defaults \cup DOMAIN there |->
                  IF n \in DOMAIN there THEN there[n] ELSE "default"]]
  /\ UNCHANGED <<runRest, tree, out, code, used>>

\* A failed refresh leaves the vendored copy; a read-only one is refreshed beside it.
RefreshCatalog ==
  /\ At("catalog", "pi")
  /\ \/ UNCHANGED <<tree, out>>
     \/ host.writable /\ tree' = [tree EXCEPT !.catalog = "fresh"] /\ UNCHANGED out
     \/ ~host.writable /\ out' = [out EXCEPT !.catalog = "fresh"] /\ UNCHANGED tree
  /\ UNCHANGED <<runRest, agent, code, used>>

GeneratePi ==
  /\ \E doc \in Generated \ {Nothing}, overlay \in BOOLEAN :
       out' = [out EXCEPT !.models = doc, !.overlay = overlay]
  /\ At("pi", "default")
  /\ UNCHANGED <<runRest, agent, tree, code, used>>

\* The generator exits with a status, or without its output.
GeneratePiFails ==
  /\ Fails("pi")
  /\ UNCHANGED <<runRest, agent, tree, out, used>>

DefaultModel ==
  /\ At("default", "install")
  /\ out.overlay => agent.settings # Nothing
  /\ agent' = IF out.overlay THEN [agent EXCEPT !.settings = "defaulted"] ELSE agent
  /\ UNCHANGED <<runRest, tree, out, code, used>>

DefaultModelFails ==
  /\ Fails("default")
  /\ out.overlay /\ agent.settings = Nothing
  /\ UNCHANGED <<runRest, agent, tree, out, used>>

\* Faulty variant: without a base the document is installed as it is.
RoutedAnyway(doc) ==
  LET base == reverseProxyBaseUrl(base0)
  IN IF base = Nothing THEN doc ELSE installRouted(doc, base)

\* requireInstallBase and installRouted: the document to install, or Nothing.
Routed(doc) ==
  LET base == reverseProxyBaseUrl(base0)
  IN IF base = Nothing THEN Nothing ELSE installRouted(doc, base)

UsesBase == used' = used \cup {reverseProxyBaseUrl(base0)}

InstallModels ==
  /\ At("install", "snapshot")
  /\ DOMAIN out.models # {} /\ Routed(out.models) # Nothing
  /\ agent' = [agent EXCEPT !.models = Routed(out.models)]
  /\ UsesBase
  /\ UNCHANGED <<runRest, tree, out, code>>

InstallModelsFails ==
  /\ Fails("install")
  /\ DOMAIN out.models = {} \/ Routed(out.models) = Nothing
  /\ UNCHANGED <<runRest, agent, tree, out, used>>

\* Best effort: a read-only tree, or a copy that fails half-way, is only warned about;
\* Termux keeps its snapshot.
refreshCommittedSnapshot ==
  /\ At("snapshot", "opencode")
  /\ IF ~host.termux /\ host.writable
     THEN \E copied \in {out.models, TornFile} : tree' = [tree EXCEPT !.models = copied]
     ELSE UNCHANGED tree
  /\ UNCHANGED <<runRest, agent, out, code, used>>

SkipsOpencode == host.termux /\ ~host.ocSet

NoOpencode ==
  /\ At("opencode", "end") /\ SkipsOpencode
  /\ UNCHANGED <<runRest, agent, tree, out, code, used>>

GenerateOpencode ==
  /\ At("opencode", "ocinstall") /\ ~SkipsOpencode
  /\ \E doc \in GeneratedOc : out' = [out EXCEPT !.oc = doc]
  /\ UNCHANGED <<runRest, agent, tree, code, used>>

GenerateOpencodeFails ==
  /\ Fails("opencode") /\ ~SkipsOpencode
  /\ UNCHANGED <<runRest, agent, tree, out, used>>

InstallOpencode ==
  /\ At("ocinstall", "occommit")
  /\ Routed(out.oc) # Nothing
  /\ agent' = [agent EXCEPT !.oc = Routed(out.oc)]
  /\ UsesBase
  /\ UNCHANGED <<runRest, tree, out, code>>

InstallOpencodeFails ==
  /\ Fails("ocinstall")
  /\ Routed(out.oc) = Nothing
  /\ UNCHANGED <<runRest, agent, tree, out, used>>

CommitOpencode ==
  /\ At("occommit", "end")
  /\ IF host.writable THEN \E copied \in {out.oc, TornFile} : tree' = [tree EXCEPT !.oc = copied]
     ELSE UNCHANGED tree
  /\ UNCHANGED <<runRest, agent, out, code, used>>

RunEnds ==
  /\ At("end", "idle")
  /\ out' = NoOutput /\ code' = 0
  /\ UNCHANGED <<runRest, agent, tree, used>>

\* The two copies into the tree are no atomic writes.
RunDies ==
  /\ stage # "idle" /\ stage' = "idle"
  /\ \/ UNCHANGED tree
     \/ stage = "snapshot" /\ ~host.termux /\ host.writable
        /\ tree' = [tree EXCEPT !.models = TornFile]
     \/ stage = "occommit" /\ host.writable /\ tree' = [tree EXCEPT !.oc = TornFile]
  /\ UNCHANGED <<runRest, agent, out, code, used>>

InstallNext ==
  \/ OperatorEdits \/ RunBegins \/ InstallSettings \/ InstallMcp \/ RefreshCatalog
  \/ GeneratePi \/ GeneratePiFails \/ DefaultModel \/ DefaultModelFails
  \/ InstallModels \/ InstallModelsFails \/ refreshCommittedSnapshot
  \/ NoOpencode \/ GenerateOpencode \/ GenerateOpencodeFails
  \/ InstallOpencode \/ InstallOpencodeFails \/ CommitOpencode
  \/ RunEnds \/ RunDies

InstallSpec == InstallInit /\ [][InstallNext]_installVars
-----------------------------------------------------------------------------
\* Every URL of an installed document leads to its row's upstream through one base.
Leads(doc, base) ==
  \A id \in DOMAIN doc : doc[id] # Nothing =>
    /\ doc[id].under = base
    /\ Fact(id) \in DOMAIN Upstream
    /\ doc[id].host = Upstream[Fact(id)].host
    /\ IsPrefix(Upstream[Fact(id)].path, doc[id].path)

\* Whatever run failed or died and however the bases changed in between: the host's two
\* configs are absent or whole, never empty, and route every provider to its own upstream
\* under one base that was the first of its run, never straight to it; the committed ones
\* never carry a base, which is a credential; a run that exits 0 leaves both on its own
\* base, and the committed models are those it installed unless they could not be copied
\* to the end; and the operator's servers stay as they were written (docs/d070, docs/d061).
HostRouted ==
  /\ agent.models # Nothing => DOMAIN agent.models # {} /\ \E b \in used : Leads(agent.models, b)
  /\ agent.oc # Nothing => \E b \in used : Leads(agent.oc, b)
  /\ \A doc \in {tree.models, tree.oc} \ {TornFile} :
       \A id \in DOMAIN doc : doc[id] # Nothing => doc[id].under = Nothing
  /\ code = 0 =>
       /\ agent.models # Nothing /\ Leads(agent.models, reverseProxyBaseUrl(base0))
       /\ ~SkipsOpencode => Leads(agent.oc, reverseProxyBaseUrl(base0))
       /\ ~host.termux /\ host.writable /\ tree.models # TornFile =>
            Routed(tree.models) = agent.models
  /\ \A n \in owned : agent.mcp[n] = "operator"
=============================================================================
