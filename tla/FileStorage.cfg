\* One file, a local and a Telegram profile, two jobs, one purge request and
\* one crash: every pair of actors meets.
SPECIFICATION FairSpec
CONSTANTS
  Files = {f1}
  Profiles = {local, telegram}
  LocalProfiles = {local}
  MaxJobs = 2
  BatchLimit = 1
  Requests = {u1}
  MaxRestarts = 1
  None = None
  Damaged = Damaged
INVARIANTS
  TypeOK
  OnlyPurgeOrRerunLosesContent
  SuccessLeavesOneCopy
PROPERTIES
  EveryMigrationEnds
CHECK_DEADLOCK FALSE
