SPECIFICATION FairSpec
CONSTANTS
  unbound = unbound
  adguard = adguard
  imgA = imgA
  imgB = imgB
  imgC = imgC
  imgD = imgD
  c1 = c1
  c2 = c2
  NoImage = NoImage
  Services = {unbound}
  Images = {imgA, imgB, imgC, imgD}
  Callers = {c1, c2}
  FirstImage = imgA
  Signed = {imgA, imgB, imgC}
  Unpoliced = {}
  Migrated = {unbound}
  QuirkyCompose = FALSE
  MaxHistory = 2
  MinRetention = 1
  MaxRetention = 2
  DefaultRetention = 2
  MaxOps = 2
  MaxFaults = 1
  MaxCrashes = 1
  MaxForeign = 0
  DefaultTarget <- PinnedToFirst
INVARIANTS
  TypeOK
  ExclusiveOperation
  TrustedImagesRun
  DurableUnlessFlagged
  ComposeSeesSelection
  SnapshotKept
  FailureRestores
PROPERTIES
  RetentionBeforeTerminal
  InterruptionReported
  BusyEnds
  CleanupSparesPrevious
  ImplementsMaintenance
\* Once every bound is spent and every caller is idle nothing is left to do.
CHECK_DEADLOCK FALSE
