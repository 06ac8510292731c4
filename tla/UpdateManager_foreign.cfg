SPECIFICATION Spec
CONSTANTS
  unbound = unbound
  adguard = adguard
  imgA = imgA
  imgB = imgB
  imgC = imgC
  imgD = imgD
  c1 = c1
  c2 = c2
  NoImage = NoImage
  Services = {unbound, adguard}
  Images = {imgA, imgB}
  Callers = {c1, c2}
  FirstImage = imgA
  Signed = {imgB}
  Unpoliced = {adguard}
  Migrated = {unbound}
  QuirkyCompose = TRUE
  MaxHistory = 1
  MinRetention = 1
  MaxRetention = 2
  DefaultRetention = 2
  MaxOps = 2
  MaxFaults = 1
  MaxCrashes = 0
  MaxForeign = 1
  DefaultTarget <- PinnedToFirst
SYMMETRY CallerSymmetry
INVARIANTS
  SuccessIsReal
\* Once every bound is spent and every caller is idle nothing is left to do.
CHECK_DEADLOCK FALSE
