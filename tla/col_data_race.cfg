\* Two concurrent data RPCs on an existing, loaded collection, no failures.
CONSTANTS
  Names = {c1}
  Created = {c1}
  Reqs = {r1, r2}
  Ops = {"insert", "update", "delete"}
  MaxRequests = 5
  MaxIds = 2
  TopK = 2
  Euclidean = TRUE
  DiskPutMayFail = FALSE
  DiskDeleteMayFail = FALSE
  HelpersMayFail = FALSE
SPECIFICATION Spec
INVARIANTS IndexCoversDisk
