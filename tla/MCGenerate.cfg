SPECIFICATION GenerateSpec
CONSTANTS
  Nil = Nil Nothing = Nothing Unset = Unset Broken = Broken m1 = m1 m2 = m2 m3 = m3 m4 = m4 m5 = m5 alias = alias embed = embed junk = junk
  hf1 = hf1 hf2 = hf2 priceText = priceText
  Prefixed = {m1, m2, m3, embed}
  Embedding = {embed}
  LINEUP = {m1, m2}
  ALIAS_TIER_IDS = {alias}
  Unsupported = {m5}
  Hf <- MCHf
  Spelled <- MCSpelled
  Folder = {"pi-hyper", "pi-verboo", "pi-synthetic", "pi-cline-pass"}
  Answers <- MCAnswers
  Torn = Torn
  MaxServes = 1
  MaxRuns = 2
  MaxRefreshes = 2
  Watched = {"mistral", "opencode"}
  Opens = {o1, o2, o3}
  INTERVAL = 2
  MaxNow = 4
  proxyA = proxyA proxyB = proxyB hostP = hostP hostL = hostL
  prov = prov swap = swap gone = gone local = local
  Upstream <- MCUpstream
  FactId <- MCFactId
  Environment <- MCEnvironment
  Override <- MCOverride
  Answer <- MCReplies
  Stripped <- MCStripped
  Wanted = {m1}
  Required = {m3}
  MIN_PROVIDERS = 2
  MaxJobs = 1
  Profile <- MCProfile
  RunEnv <- MCEnvironment
  Generated <- MCGenerated
  GeneratedOc <- MCGeneratedOc
  Servers = {"mine", "shared"}
  Defaults = {"shared"}
  TornFile = TornFile
  MaxInstalls = 2
  HostFacts <- MCHostFacts
  Requests <- MCRequests
  Output <- MCOutput
  MaxChunk = 2
INVARIANTS
  CommittedIsWhole ProviderStands LevelsPublished SubscriptionContract
  WarnedOncePerInterval RouteTrusted HostRouted BuildTells
CHECK_DEADLOCK FALSE
