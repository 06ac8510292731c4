SPECIFICATION Spec
CONSTANTS
  deployer = deployer
  request = request
  attested = attested
  other = other
  Tag = Tag
  Callers = {deployer, request}
  Deployer = deployer
  Images = {attested, other}
  Signed = {attested}
  FirstImage = attested
  Archived = 1
  MaxPasswords = 3
  MaxFaults = 2
  MaxTagMoves = 1
  MaxStarts = 2
  MaxRestarts = 1
  Blockpage = TRUE
PROPERTIES
  RollbackReadable
\* Once every bound is spent and everybody is idle nothing is left to do.
CHECK_DEADLOCK FALSE
