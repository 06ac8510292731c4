SPECIFICATION Spec
CONSTANTS
  r1 = r1
  r2 = r2
  t1 = t1
  t2 = t2
  root = root
  admin = admin
  None = None
  Requests = {r1, r2}
  Tokens = {t1, t2}
  Users = {root, admin}
  FirstUser = root
  MaxPasswords = 1
  MaxFaults = 1
  MaxRestarts = 1
SYMMETRY AuthSymmetry
INVARIANTS
  LoggedOutStaysOut
\* Once the tokens and passwords are used up and every request is answered
\* nothing is left to do.
CHECK_DEADLOCK FALSE
