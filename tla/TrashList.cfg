\* Two callers of the one connection, with the list of the trash: a caller waits for itself.
SPECIFICATION Spec
CONSTANTS
  Callers = {c1, c2}
  MaxItems = 2
  None = None
  Operations = {"PurgeBatch", "DeleteFolder", "RestoreBatch", "Lease", "RunPending", "Complete", "Delivery", "GalleryList", "Download", "LoadEnabled", "TrashList"}
INVARIANT NoSelfWait
CHECK_DEADLOCK FALSE
