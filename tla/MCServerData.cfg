SPECIFICATION FairSpec
CONSTANTS
  Calls = {r1, r2, r3, r4, r5}
  BatchCap = 2
  Streams = {s1, s2}
  Keys = {k1, k2, k3}
  StageCap = 2
  FlushSize = 2
  WriteChunk = 1
  MaxResults = 2
  h1 = h1
  h2 = h2
  Hosts = {h1, h2}
  Clients = {c1, c2}
  TokenNames = {boot, other}
  Bootstrap = boot
  TagSets <- MCTagSets
  Profiles <- MCProfiles
  Fleet <- MCFleet
  Burst <- MCBurst
  MaxWrites = 3
  MaxTokens = 2
  MaxTime = 2
  MaxAdmitted = 4
  Tagged = {h1}
  MaxGenerations = 3
  NoTarget = NoTarget
  Commands <- MCCommands
  Parts = {"keys", "registrations", "facts", "tags", "fleet", "limits", "commands"}
INVARIANTS
  ServerIsWhoItWas
  QueueIsWatched
  StageBounded
  NewestIsKept
  TagWritesLostOnlyToRaces
  RateHolds
  InventoryReachesEveryHost
  CleanRunIsClean
  ScanIsRight
PROPERTIES
  AllAnswered
  FactsSettle
CHECK_DEADLOCK FALSE
