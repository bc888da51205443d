\* Two documents, four string values, every Search operator, batches that
\* may be cancelled and flushes that may fail part-way.
CONSTANTS
  Ids = {i1, i2}
  Values <- MCValues
  Nil = Nil
  Operators = {"eq", "ne", "prefix", "gt", "ge", "lt", "le", "range"}
  MaxChanges = 3
  MayCancel = TRUE
  StorageMayFail = TRUE
SPECIFICATION Spec
INVARIANTS TypeOK PostingsMatchDocuments SearchMatchesPostings
