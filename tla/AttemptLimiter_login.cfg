SPECIFICATION FairSpec
CONSTANTS
  Requests = {r1, r2, r3, r4}
  Window = 3
  MaxFailure = 3
  Outcomes = {"failed", "released", "succeeded"}
  MaxAttempts = 7
INVARIANTS
  TypeOK
  WithinLimit
  WindowExact
PROPERTIES
  UnusedKeyForgotten
