\* A tracked and a partial push, a file that partial pushes include and one that they do not.
SPECIFICATION RepoSpec
CONSTANTS
  Pushes = {t, u}
  Tracked = {t}
  Partial = {u}
  Files = {f1, f2}
  Included = {f1}
  Packs = {f1}
  MaxEdits = 1
  Absent = Absent
  None = None
INVARIANTS RepoTypeOK RecordsUsable CancelRemembered EntryTrue
PROPERTIES CompleteIsDelivered
CHECK_DEADLOCK FALSE
