SPECIFICATION Spec
CONSTANTS
  None = None
  Absent = Absent
  Half = Half
  Down = Down
  r1 = r1
  r2 = r2
  t1 = t1
  t2 = t2
  c1 = c1
  c2 = c2
  f1 = f1
  f2 = f2
  RunDirs <- MCRunDirs
  Features <- MCFeatures
  MaxEntries = 1
  TTL = 1
  Workloads <- MCWorkloads
  Loaders <- MCLoaders
  Callers <- MCCallers
  MaxReloads = 2
SYMMETRY Symmetry
INVARIANT TypeOK
INVARIANT ScoreIsWhole
INVARIANT NothingOlderThanManifest
INVARIANT RegistrationsSurvive
INVARIANT HitsExpire
INVARIANT NoModelFromBeforeReload
INVARIANT OneLoadAtATime
INVARIANT ReadyMeansAnswer
CHECK_DEADLOCK FALSE
