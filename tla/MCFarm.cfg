SPECIFICATION FarmSpec
CONSTANTS
  r1 = r1 r2 = r2 r3 = r3 u1 = u1 u2 = u2 u3 = u3 h1 = h1 h2 = h2
  Repos <- MCRepos
  Url = {u1, u2, u3}
  NoUrl = NoUrl
  HostOf <- MCHostOf
  Local = Local
  Origins <- MCOrigins
  Config <- MCConfig
  ProbeJobs = 2
  Nil = Nil forge = forge pub = pub bare = bare acme = acme id1 = id1 id2 = id2 web = web app = app
  appgit = appgit own = own odd = odd idcs = idcs mail = mail p8443 = p8443
  OrgOf <- MCOrgOf
  Dotted = {forge, pub}
  Odd = {odd}
  WithoutGit <- MCWithoutGit
  WithGit <- MCWithGit
  IdOrg <- MCIdOrg
  IdSlug <- MCIdSlug
  Email <- MCEmail
  Run = {p1, p2}
  CommandLine <- MCCommandLine
  Flock = TRUE
  MaxKills = 1
  Hidden = {}
  Tree <- MCTree
  Order <- MCOrder
  Slots = 2
  MigOptions <- MCMigOptions
  MaxRuns = 2
  Subject <- MCSubject
  LookOption <- MCLookOption
  AuditFarm <- MCAuditFarm
  Slug <- MCSlug
  Farm <- MCFarm0
  FarmOrder <- MCFarmOrder
  Command <- MCCommand
  Tool <- MCTool
  Lines <- MCLines
  Reach <- MCReach
  pr1 = pr1 pr2 = pr2 repA = repA repB = repB
  Entry <- MCEntry
  HarNil = HarNil
  Recorded = 3
  i1 = i1 i2 = i2 home = home other = other
  Invocation = {i1, i2}
  Calls <- MCCalls
  HostEnv <- MCHostEnv
  MaxTries = 1
  Absent = absent
  MaxCrashes = 1
  MaxDeaths = 1
  k1 = k1 k2 = k2 k3 = k3
  Name = {"vpn", "api"}
  KeyList <- MCKeyList
  Token = {k1, k2, k3}
  Short = {k3}
  MaxKeys = 2
INVARIANTS
  OneJobPerHost OkMeansSearchable ZeroMeansMirrored OneDirectoryEach OriginalsKept
  ReportExact ZeroMeansAnswered GapExplicit Camouflaged
PROPERTIES
  FetchesPaced SweepEnds MirrorsKept AddressServed
CHECK_DEADLOCK FALSE
