\* Two uploads of one chunk, one to a local and one to a remote backend, each with
\* a key of its own, and clients that repeat Complete with it: five calls of any
\* kind, in any order, stopping anywhere.
SPECIFICATION Spec
CONSTANTS
  Uploads = {up1, up2}
  TotalChunks = 1
  Profiles = {local, telegram}
  LocalProfiles = {local}
  InitProfiles <- OwnProfile
  Calls = {c1, c2, c3, c4, c5}
  Keys = {k1, k2}
  InitKeys = {None}
  CompleteKeys <- OwnKey
  None = None
SYMMETRY Symmetry
INVARIANTS
  TypeOK
  OneFilePerKey
  IndexedFilesHaveContent
  AnswersOwnUpload
  ChunksOutliveTheIndex
CHECK_DEADLOCK FALSE
