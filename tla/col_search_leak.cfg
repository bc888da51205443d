\* Two Inserts in flight while a VectorSearch runs, on an existing, loaded
\* collection; no failures.
CONSTANTS
  Names = {c1}
  Created = {c1}
  Reqs = {r1, r2, r3}
  Ops = {"insert", "vsearch"}
  MaxRequests = 3
  MaxIds = 2
  TopK = 2
  Euclidean = FALSE
  DiskPutMayFail = FALSE
  DiskDeleteMayFail = FALSE
  HelpersMayFail = FALSE
SPECIFICATION Spec
INVARIANTS NoLeakedSearch
