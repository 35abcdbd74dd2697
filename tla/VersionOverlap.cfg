\* Two callers save, publish, discard and delete at the same time.
SPECIFICATION HistorySpec
CONSTANTS
  Renames = TRUE
  Sessions = {s1, s2}
  VersionIds = {v1, v2}
  DSLs = {d1, d2}
  MaxRevision = 1
  None = None
  Deleted = Deleted
SYMMETRY Symmetry
INVARIANTS
  DraftIsHead
  NoCircularWait
  PointersExactUnlessSpoiled
PROPERTIES
  ReleaseStays
  NoLostSave
  PublishesWhatItSaved
  KnownReleasesFrozen
