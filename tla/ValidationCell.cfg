SPECIFICATION ValidationSpec
CONSTANTS
  s1 = s1
  s2 = s2
  s3 = s3
  k1 = k1
  k2 = k2
  Contents = {s1, s2, s3}
  Caches = {k1, k2}
  Configured <- MCConfigured
  Nothing = Nothing
  MainTests = {core, register}
  Consumers = {consumer}
  MayRevert = FALSE
  MaxCrashes = 2
INVARIANTS ValidationTypeOK TestsRunCurrentSource BenchmarksRunCurrentSource ManifestDescribesTree
