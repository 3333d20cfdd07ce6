-------------------------------- MODULE MCFarm --------------------------------
(* Values for the farm's tools, for the relay's supervision and for the start of an     *)
(* exit node.  They share no state here: one runs while the others have not begun.      *)
EXTENDS MirrorSweep, ForgeMirror, Migration, FarmReports, ReferenceSearch, HarManifest,
  RelaySupervisor, Front, TLC

CONSTANTS r1, r2, r3, u1, u2, u3, h1, h2          \* the sweep
CONSTANTS forge, pub, bare, acme, id1, id2, web, app, appgit, own, odd, idcs, mail, p8443
CONSTANTS pr1, pr2, repA, repB
CONSTANTS i1, i2, home, other                     \* the relay's supervision
CONSTANTS k1, k2, k3                              \* operator tokens

MCRepos == <<r1, r2, r3>>
MCHostOf == (u1 :> h1) @@ (u2 :> h1) @@ (u3 :> h2)
MCOrigins == {(r1 :> u1) @@ (r2 :> u3) @@ (r3 :> u2),
              (r1 :> u1) @@ (r2 :> NoUrl) @@ (r3 :> u1)}
NoFlags == [fetch |-> TRUE, optimize |-> TRUE, deep |-> FALSE, jobs |-> 0,
            minInterval |-> "default", only |-> {}, exclude |-> {}]
MCConfig ==
  {NoFlags,
   [NoFlags EXCEPT !.deep = TRUE, !.jobs = 1, !.exclude = {{r2}}],
   [NoFlags EXCEPT !.optimize = FALSE, !.minInterval = "off", !.jobs = 5],
   [NoFlags EXCEPT !.fetch = FALSE, !.only = {{r1, r2}, {r3}}, !.exclude = {{r1}}],
   [NoFlags EXCEPT !.fetch = FALSE, !.optimize = FALSE],
   [NoFlags EXCEPT !.only = {{}}]}

\* One forge repository in its three spellings and one of a second project with the same
\* slug, one of a public forge in two and one behind another port, and URLs that are
\* refused.
U(scheme, host, user, path, hash) ==
  [scheme |-> scheme, host |-> host, user |-> user, port |-> Nil, path |-> path, hash |-> hash]
SshUrl == U("ssh", forge, idcs, <<id1, appgit>>, <<>>)
SameSlugUrl == U("ssh", forge, idcs, <<id2, appgit>>, <<>>)
HttpsUrl == U("https", forge, mail, <<acme, "s", id1, "scm", appgit>>, <<>>)
GlassUrl == U("https", forge, Nil, <<acme>>, <<"projects", web, "scm", appgit, "tree">>)
PublicUrl == U("https", pub, Nil, <<own, app>>, <<>>)
PublicGit == U("https", pub, Nil, <<own, appgit>>, <<>>)
PortUrl == [PublicUrl EXCEPT !.port = p8443]
\* An organisation that is spelled like a public host.
OddOrgUrl == U("https", forge, mail, <<pub, "s", id1, "scm", appgit>>, <<>>)
OddOrgPublic == U("https", pub, Nil, <<id1, app>>, <<>>)
RefusedUrl ==
  {U("https", pub, mail, <<own, app>>, <<>>), U("https", pub, Nil, <<own>>, <<>>),
   U("https", bare, Nil, <<own, app>>, <<>>), U("https", pub, Nil, <<own, odd>>, <<>>)}
MCOrgOf == (forge :> acme) @@ (pub :> Nil) @@ (bare :> Nil)
MCWithoutGit == (app :> app) @@ (appgit :> app) @@ (odd :> odd) @@ (own :> own)
MCWithGit == app :> appgit
MCIdOrg == (id1 :> acme) @@ (id2 :> acme)
MCIdSlug == (id1 :> web) @@ (id2 :> web)
MCEmail == (idcs :> mail) @@ (mail :> mail)
Line(inputs, transport) == [inputs |-> inputs, transport |-> transport, mounted |-> TRUE]
MCCommandLine ==
  {Line(<<SshUrl, PublicUrl>>, Nil), Line(<<PublicGit, HttpsUrl>>, Nil),
   Line(<<HttpsUrl, GlassUrl>>, "ssh"), Line(<<SshUrl, PublicUrl>>, "https"), Line(<<>>, Nil),
   Line(<<PortUrl, SameSlugUrl>>, Nil), Line(<<OddOrgUrl, OddOrgPublic>>, Nil),
   [Line(<<PublicUrl>>, Nil) EXCEPT !.mounted = FALSE]}
  \cup {Line(<<u, Nil>>, Nil) : u \in RefusedUrl}

\* A farm without a clone inside another.
Dir(git, shallow, origin) ==
  [git |-> git, shallow |-> shallow, origin |-> origin, readable |-> TRUE, names |-> {}]
MCTree ==
  (<<>> :> Dir(FALSE, FALSE, FALSE)) @@ (<<"a">> :> Dir(TRUE, FALSE, TRUE))
  @@ (<<"b">> :> Dir(TRUE, TRUE, TRUE)) @@ (<<"c">> :> Dir(FALSE, FALSE, FALSE))
  @@ (<<"c", "d">> :> Dir(TRUE, TRUE, FALSE))
MCOrder == <<<<>>, <<"a">>, <<"b">>, <<"c">>, <<"c", "d">>>>
MCMigOptions ==
  {NoOptions, [NoOptions EXCEPT !.jobs = 2, !.deleteOriginals = TRUE],
   [NoOptions EXCEPT !.deleteOriginals = TRUE, !.force = TRUE, !.redownload = TRUE,
                     !.exclude = {<<"?">>}],
   [NoOptions EXCEPT !.only = {<<"*", "x">>}]}

\* What local-changes and audit find.
Entries ==
  {<<>>, <<[xy |-> <<"R", " ">>, path |-> "p", from |-> "q"], [xy |-> <<"?", "?">>, path |-> "n", from |-> Nil]>>,
   <<[xy |-> <<" ", "R">>, path |-> "p", from |-> "q"], [xy |-> <<" ", "M">>, path |-> "n", from |-> Nil]>>,
   <<[xy |-> <<"M", "M">>, path |-> "p", from |-> Nil]>>, <<[xy |-> <<"!", "!">>, path |-> "i", from |-> Nil]>>}
Tracking(track, unpushed) ==
  [name |-> "main", upstream |-> "remote", track |-> track, unpushed |-> unpushed]
Loose(name) == [name |-> name, upstream |-> Nil, track |-> Nil, unpushed |-> 1]
Branches ==
  {{}, {Tracking(<<0, 2>>, 0)}, {Tracking(<<1, 0>>, 1)}, {Tracking(Nil, 0), Loose("work")},
   {Tracking(<<>>, 1)}, {Loose("main")}}
MCSubject ==
  {s \in [answers : BOOLEAN, bare : BOOLEAN, head : {"main", Nil}, stray : {0, 1},
          entries : Entries, stashes : {<<>>, <<"s">>}, branches : Branches,
          remoteRefs : {{"HEAD", "main"}}] :
     s.stray > 0 => s.head = Nil}
MCLookOption == [root : {TRUE}, all : BOOLEAN, ignored : BOOLEAN, maxEntries : {1}]

Audited(git, link) ==
  [git |-> git, url |-> link, shallow |-> FALSE, detached |-> FALSE, dirty |-> FALSE,
   readable |-> TRUE, names |-> {}]
MCAuditFarm ==
  (<<>> :> Audited(FALSE, Nil)) @@ (<<"github">> :> Audited(FALSE, Nil))
  @@ (<<"github", own>> :> Audited(TRUE, PublicUrl))
  @@ (<<"github", own, app>> :> Audited(TRUE, PublicUrl))
  @@ (<<"github", own, odd>> :> Audited(TRUE, SshUrl)) @@ (<<"x">> :> Audited(TRUE, Nil))
MCSlug == (PublicUrl :> <<own, app>>) @@ (SshUrl :> Nil)

\* A farm of mirrors, one of them inside a directory that is one.
Bare(is) == [git |-> FALSE, readable |-> TRUE, names |-> IF is THEN {"HEAD", "objects", "refs"} ELSE {}]
MCFarm0 ==
  (<<>> :> Bare(FALSE)) @@ (<<"a">> :> Bare(TRUE)) @@ (<<"a", "b">> :> Bare(TRUE))
  @@ (<<"c">> :> Bare(TRUE)) @@ (<<"d">> :> Bare(TRUE))
MCLines == <<"l1", "l2">>
MCReach == (1 :> 1) @@ (50 :> 2)
MCFarmOrder == <<<<>>, <<"a">>, <<"a", "b">>, <<"c">>, <<"d">>>>
MCCommand ==
  {NoCommand, [NoCommand EXCEPT !.sub = "unknown"], [NoCommand EXCEPT !.sub = "serve"],
   [NoCommand EXCEPT !.sub = "index"], [NoCommand EXCEPT !.sub = "index", !.all = TRUE, !.jobs = 2],
   [NoCommand EXCEPT !.sub = "index", !.only = {<<"a">>, <<"?">>}, !.exclude = {<<"d">>}, !.jobs = 0],
   [NoCommand EXCEPT !.sub = "index", !.only = {<<"x">>}], [NoCommand EXCEPT !.sub = "query"],
   [NoCommand EXCEPT !.sub = "query", !.query = TRUE],
   [NoCommand EXCEPT !.sub = "query", !.query = TRUE, !.server = TRUE],
   [NoCommand EXCEPT !.sub = "query", !.query = TRUE, !.server = TRUE, !.json = TRUE],
   [NoCommand EXCEPT !.sub = "query", !.query = TRUE, !.server = TRUE, !.num = 1]}
MCTool == {[env |-> "none", path |-> {}], [env |-> "none", path |-> {"docker"}],
           [env |-> "podman", path |-> {}]}

MCEntry ==
  {[kind |-> "projects", project |-> HarNil, text |-> TRUE, shape |-> "named",
    list |-> <<[id |-> pr1, slug |-> HarNil], [id |-> pr2, slug |-> web]>>],
   [kind |-> "projects", project |-> HarNil, text |-> TRUE, shape |-> "scalar", list |-> <<>>],
   [kind |-> "other", project |-> HarNil, text |-> FALSE, shape |-> "scalar", list |-> <<>>],
   [kind |-> "repos", project |-> pr1, text |-> TRUE, shape |-> "array", list |-> <<repA, HarNil>>],
   [kind |-> "repos", project |-> pr1, text |-> TRUE, shape |-> "array", list |-> <<repB>>],
   [kind |-> "repos", project |-> pr2, text |-> TRUE, shape |-> "map", list |-> <<>>],
   [kind |-> "repos", project |-> pr1, text |-> FALSE, shape |-> "array", list |-> <<repB>>]}

\* A chain step, and beside it another, one to another tunnel, a serve, or one without
\* its credential, typed in shells with every kind of proxy variable.
Typed(mode, tunnel, complete) == [mode |-> mode, tunnel |-> tunnel, complete |-> complete]
MCCalls ==
  {(i1 :> Typed("chain", home, TRUE)) @@ (i2 :> second) :
     second \in {Typed("chain", home, TRUE), Typed("chain", other, TRUE),
                Typed("serve", home, TRUE), Typed("chain", home, FALSE)}}
Shell(socks, proxy, loopback) ==
  [socks |-> socks, https |-> proxy, http |-> proxy, loopback |-> loopback]
MCHostEnv ==
  {Shell("none", "corp", TRUE), Shell("none", "corp", FALSE), Shell("self", "none", FALSE)}

\* No keys, one, two, a repeated id, a token that is too short, too many.
OperatorKey(id, token) == [id |-> id, token |-> token]
MCKeyList ==
  {<<>>, <<OperatorKey("a", k1)>>, <<OperatorKey("a", k3)>>,
   <<OperatorKey("a", k1), OperatorKey("b", k2)>>,
   <<OperatorKey("a", k1), OperatorKey("a", k2)>>,
   <<OperatorKey("a", k1), OperatorKey("b", k2), OperatorKey("c", k1)>>}

-----------------------------------------------------------------------------
toolVars == <<sweepVars, forgeVars, migrationVars, reportVars, searchVars, harVars>>
nodeVars == <<supervisorVars, frontVars>>
farmVars == <<toolVars, nodeVars>>

SweepRests == phase = "start"
ForgeRests == \A p \in Run : rpc[p] = "start"
MigrationRests == mphase = "start"
ReportRests == rphase = "start"
SearchRests == sphase = "start"
HarRests == har = <<>>
\* To the farm one host is as good as another.
ScriptsRest ==
  /\ \A c \in Invocation : spc[c] = "idle" /\ call[c] = call[i1]
  /\ backend = "container" /\ squatter = "none"
FrontRests == config = NotConfigured
NodesRest == ScriptsRest /\ FrontRests

FarmInit ==
  /\ SweepInit /\ ForgeInit /\ MigrationInit /\ ReportInit /\ SearchInit /\ HarInit
  /\ SupervisorInit /\ FrontInit

FarmNext ==
  \/ /\ ForgeRests /\ MigrationRests /\ ReportRests /\ SearchRests /\ HarRests /\ NodesRest
     /\ SweepNext
     /\ UNCHANGED <<forgeVars, migrationVars, reportVars, searchVars, harVars, nodeVars>>
  \/ /\ SweepRests /\ MigrationRests /\ ReportRests /\ SearchRests /\ HarRests /\ NodesRest
     /\ ForgeNext
     /\ UNCHANGED <<sweepVars, migrationVars, reportVars, searchVars, harVars, nodeVars>>
  \/ /\ SweepRests /\ ForgeRests /\ ReportRests /\ SearchRests /\ HarRests /\ NodesRest
     /\ MigrationNext
     /\ UNCHANGED <<sweepVars, forgeVars, reportVars, searchVars, harVars, nodeVars>>
  \/ /\ SweepRests /\ ForgeRests /\ MigrationRests /\ SearchRests /\ HarRests /\ NodesRest
     /\ ReportNext
     /\ UNCHANGED <<sweepVars, forgeVars, migrationVars, searchVars, harVars, nodeVars>>
  \/ /\ SweepRests /\ ForgeRests /\ MigrationRests /\ ReportRests /\ HarRests /\ NodesRest
     /\ SearchNext
     /\ UNCHANGED <<sweepVars, forgeVars, migrationVars, reportVars, harVars, nodeVars>>
  \/ /\ SweepRests /\ ForgeRests /\ MigrationRests /\ ReportRests /\ SearchRests /\ NodesRest
     /\ HarNext
     /\ UNCHANGED <<sweepVars, forgeVars, migrationVars, reportVars, searchVars, nodeVars>>
  \/ /\ SweepRests /\ ForgeRests /\ MigrationRests /\ ReportRests /\ SearchRests /\ HarRests
     /\ FrontRests
     /\ SupervisorNext
     /\ UNCHANGED <<toolVars, frontVars>>
  \/ /\ SweepRests /\ ForgeRests /\ MigrationRests /\ ReportRests /\ SearchRests /\ HarRests
     /\ ScriptsRest
     /\ FrontNext
     /\ UNCHANGED <<toolVars, supervisorVars>>

FarmSpec == FarmInit /\ [][FarmNext]_farmVars /\ SweepFairness /\ SupervisorFairness
=============================================================================
