SPECIFICATION MCSpec
CONSTANTS
  Consumers = {c1, c2}
  Committers = {d1}
  LegacyTokens = {0, 1}
  MaxTokens = 4
  MaxStarts = 3
  ElectionProcs = {"p1", "p2"}
  ElectionPids = {"n1", "n2", "n3"}
  ElectionModes = {"advisory", "atomic"}
  ElectionCrashes = 2
  ConfigProcs = {"p1", "p2"}
  Credentials = {"a"}
  Births = {"absent", "good"}
  ConfigFaults = 1
  ConfigEdits = 1
  CacheKeys = {1, 2}
  MaxEntries = 1
  CacheTtl = 1
  MaxTtl = 2
  DiskTime = 3
  DiskFaults = 2
  BackendHosts = {"h1", "h2"}
  BackendPids = {"n1", "n2"}
  WarmupGrace = 1
  BackendFaults = 2
  Header = 2
  MaxMessage = 1
  MaxDrain = 2
  ExtensionIds = {"x", "y"}
  OriginId = "x"
  RateMax = 2
  SecretMax = 1
  SecretWindow = 2
  HostTime = 2
  HostEdits = 1
INVARIANTS
  SingleUse
  ConsumptionIsDurable
  CredentialsWhole
  NoHoldingsOnDisk
  AlignedOrClosed
  OneLeader
PROPERTIES
  NoTwins
  CommittedIsKept
