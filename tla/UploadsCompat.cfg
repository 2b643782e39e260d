\* The compatible endpoint without the header: Init has no key, and the key of
\* every Complete of the same actor is ":complete".
SPECIFICATION Spec
CONSTANTS
  Uploads = {up1, up2}
  TotalChunks = 1
  Profiles = {local}
  LocalProfiles = {local}
  InitProfiles <- AnyProfile
  Calls = {c1, c2, c3, c4, c5}
  Keys = {complete}
  InitKeys = {None}
  CompleteKeys <- AnyKey
  None = None
SYMMETRY Symmetry
INVARIANTS
  AnswersOwnUpload
CHECK_DEADLOCK FALSE
