\* Every part of Server, a behaviour of one part at a time.
SPECIFICATION ServerSpec
CONSTANTS
  None = None
\* The queue: two jobs for the workers and one Put, two workers, a crash.
  WorkJobs = {j1, j2}
  PutCalls = {p1}
  Workers = {h1, h2}
  Admins = {x1}
  MaxRestarts = 1
\* Access: two calls, one session, one account with two passwords, one vault.
  Requests = {r1, r2}
  Sessions = {s1}
  Accounts = {a1}
  Passwords = {w1, w2}
  Vaults = {v1}
  MaxFailures = 2
\* Webhook: two documents and a post that is none, two deliveries at once.
  Posts = {m1, m2, m3}
  Documents = {m1, m2}
  PostedFiles = {f1, f2}
  Deliveries = {d1, d2}
\* DataDir: two keys, two scripts, one profile beside local-default.
  MasterKeys = {k1, k2}
  Scripts = 2
  LocalDefault = local
  RemoteProfiles = {b1}
  Short = short
  Part = cut
\* Listing: three files, pages of one, a folder in a folder, two changes.
  ListedFiles = {1, 2, 3}
  Inner = inner
  Outer = outer
  Root = root
  PageSize = 1
  MaxChanges = 2
\* Downloads: one call, a file of up to two bytes, the gallery.
  Files = {f1}
  Profiles = {local, official, streaming}
  LocalProfiles = {local}
  StreamingProfiles = {streaming}
  MaxMigrations = 1
  BatchLimit = 1
  Purges = {u1}
  Damaged = damaged
  Pages = {gallery}
  PagePasswords = {w1}
  GuestSessions = {g1}
  Calls = {c1}
  MaxSize = 2
  TextLimit = 1
  DocxLimit = 1
\* Pool: two callers, up to two rows in a loop, all but the list of the trash.
  Callers = {c1, c2}
  Operations = {"PurgeBatch", "DeleteFolder", "RestoreBatch", "Lease", "RunPending",
                "Complete", "Delivery", "GalleryList", "Download", "LoadEnabled"}
  MaxItems = 2
SYMMETRY Symmetry
INVARIANTS
  TypeOK
  OneRunnerPerLease
  PartsTypeOK
  SessionsFollowTheirSecret
  GuessesBounded
  OnePostOneFile
  AtMostOneReply
  AcknowledgedIsIndexed
  ServesWhatItCanRead
  StoredIsReachable
  OneDefault
  PairsStaySound
  PagesAreWhole
  ListedWasVisible
  ServedIsExact
  MissingIsExplained
  GuestsKnewThePassword
  NoSelfWait
  FreeDuringIO
PROPERTIES
  FinishedOnce
  UncertainWaits
  FirstAccountStays
CHECK_DEADLOCK FALSE
