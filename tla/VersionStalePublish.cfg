\* A publication that waited for another call.
SPECIFICATION HistorySpec
CONSTANTS
  Renames = FALSE
  Sessions = {s1, s2}
  VersionIds = {v1, v2}
  DSLs = {d1, d2}
  MaxRevision = 2
  None = None
  Deleted = Deleted

INVARIANTS
  PublishedIsHighestRelease
