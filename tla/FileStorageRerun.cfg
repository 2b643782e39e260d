\* One file, one migration onto the local profile and one crash; no purges.
SPECIFICATION Spec
CONSTANTS
  Files = {f1}
  Profiles = {local, telegram}
  LocalProfiles = {local}
  MaxJobs = 1
  BatchLimit = 8
  Requests = {}
  MaxRestarts = 1
  None = None
  Damaged = Damaged
INVARIANTS
  OnlyPurgeLosesContent
CHECK_DEADLOCK FALSE
