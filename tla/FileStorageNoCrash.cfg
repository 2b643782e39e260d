\* Two files and a process that never crashes: every migration, purge, delete
\* and restore of one file interleaved with those of the other.
SPECIFICATION Spec
CONSTANTS
  Files = {f1, f2}
  Profiles = {local, telegram}
  LocalProfiles = {local}
  MaxJobs = 2
  BatchLimit = 2
  Requests = {u1, u2}
  MaxRestarts = 0
  None = None
  Damaged = Damaged
SYMMETRY Symmetry
INVARIANTS
  OnlyPurgeLosesContent
  NoSharedObject
PROPERTIES
  PurgedIsFinal
  ImplementsFileIndex
CHECK_DEADLOCK FALSE
