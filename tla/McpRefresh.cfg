\* Two callers refresh the tools of a server and switch them.  The bound on
\* the refreshes is the only deadlock: CallsEnd says that no call hangs.
SPECIFICATION Spec
CONSTANTS
  Sessions = {"s1", "s2"}
  Names = {"a", "b"}
  Lists <- MCLists
  MaxRefreshes = 3
  None = None
  Deleted = Deleted
CHECK_DEADLOCK FALSE
PROPERTIES
  PreferenceKept
  RefreshReplaces
  CallsEnd
