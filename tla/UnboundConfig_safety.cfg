SPECIFICATION Spec
CONSTANTS
  r1 = r1
  r2 = r2
  operator = operator
  corp = corp
  lan = lan
  home = home
  nas = nas
  a4 = a4
  a6 = a6
  server = server
  ReverseNames <- MCReverseNames
  IPv4 = {a4}
  IPv6 = {a6}
  Requests = {r1, r2}
  Operators = {operator}
  Guided <- MCGuided
  Expert <- MCExpert
  ImportFiles <- MCImportFiles
  HistoryLimit = 2
  MaxCalls = 3
  MaxTroubles = 2
INVARIANTS
  AppliedTogether
PROPERTIES
  ApplyAllOrNothing
  PreviousRestorable
  ImportLosesNothing
  ExportReadBack
  DiagnosticLoggingEnds
\* Once every bound is spent and everybody is idle nothing is left to do.
CHECK_DEADLOCK FALSE
