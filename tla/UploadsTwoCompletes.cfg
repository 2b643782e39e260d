\* The web client: a fresh random key for every call, so that a repeated
\* Complete runs beside the first one.
SPECIFICATION Spec
CONSTANTS
  Uploads = {up1}
  TotalChunks = 1
  Profiles = {local}
  LocalProfiles = {local}
  InitProfiles <- AnyProfile
  Calls = {c1, c2, c3, c4}
  Keys = {k1, k2}
  InitKeys = {None}
  CompleteKeys <- AnyKey
  None = None
SYMMETRY Symmetry
INVARIANTS
  IndexedFilesHaveContent
CHECK_DEADLOCK FALSE
