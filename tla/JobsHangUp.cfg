\* The program as main.go starts it, without a Worker: one Put, no crash,
\* and no administrator who could ask for a retry.
SPECIFICATION Spec
CONSTANTS
  WorkJobs = {}
  PutCalls = {p1}
  Workers = {}
  Admins = {}
  MaxRestarts = 0
  None = None
INVARIANTS
  UnknownSendsWaitForAdmin
CHECK_DEADLOCK FALSE
