SPECIFICATION Spec
CONSTANTS
  core = core
  webapp = webapp
  imgOld = imgOld
  imgNow = imgNow
  imgNew = imgNew
  imgDev = imgDev
  NoImage = NoImage
  Images = {imgOld, imgNow, imgNew, imgDev}
  FirstImage = imgOld
  Signed = {imgOld, imgNow, imgNew}
  QuirkyCompose = TRUE
  MaxHistory = 2
  MaxOps = 2
  MaxFaults = 3
  Order <- CoreThenWebApp
  Version <- ReleaseVersion
INVARIANTS
  TrustedPair
  PairVerdict
PROPERTIES
  NoDowngrade
\* Once every bound is spent nothing is left to do.
CHECK_DEADLOCK FALSE
