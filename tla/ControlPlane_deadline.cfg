SPECIFICATION CompositionSpec
CONSTANTS
  core = core
  webapp = webapp
  imgOld = imgOld
  imgNow = imgNow
  imgNew = imgNew
  imgDev = imgDev
  h1 = h1
  h2 = h2
  NoImage = NoImage
  NoHelper = NoHelper
  Updater = Updater
  AttestationProxy = AttestationProxy
  Images = {imgOld, imgNow, imgNew}
  FirstImage = imgNow
  Signed = {imgOld, imgNew}
  Handlers = {h1, h2}
  CoreMember = core
  QuirkyCompose = FALSE
  MaxHistory = 1
  MaxOps = 1
  MaxFaults = 1
  MaxSwaps = 0
  Order <- CoreThenWebApp
  Version <- ReleaseVersion
SYMMETRY HandlerSymmetry
INVARIANTS
  UnhealthyPairRestored
\* Once every bound is spent and every handler is idle nothing is left to do.
CHECK_DEADLOCK FALSE
