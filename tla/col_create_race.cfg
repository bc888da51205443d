\* Two concurrent RPCs, no failures.
CONSTANTS
  Names = {c1}
  Created = {}
  Reqs = {r1, r2}
  Ops = {"create", "drop", "load", "release", "insert", "update", "delete"}
  MaxRequests = 4
  MaxIds = 2
  TopK = 2
  Euclidean = TRUE
  DiskPutMayFail = FALSE
  DiskDeleteMayFail = FALSE
  HelpersMayFail = FALSE
SPECIFICATION Spec
INVARIANTS CreateReportsExisting
