\* One file, no migrations and no crash; one purge against the trash.
SPECIFICATION Spec
CONSTANTS
  Files = {f1}
  Profiles = {local}
  LocalProfiles = {local}
  MaxJobs = 0
  BatchLimit = 8
  Requests = {u1}
  MaxRestarts = 0
  None = None
  Damaged = Damaged
INVARIANTS
  ActiveFilesHaveContent
CHECK_DEADLOCK FALSE
