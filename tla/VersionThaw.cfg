\* A save that waited for a publication.
SPECIFICATION HistorySpec
CONSTANTS
  Renames = FALSE
  Sessions = {s1, s2}
  VersionIds = {v1, v2}
  DSLs = {d1, d2}
  MaxRevision = 2
  None = None
  Deleted = Deleted

PROPERTIES
  ReleasedFrozen
