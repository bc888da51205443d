\* Two concurrent RPCs over an existing, loaded collection c1 and an absent c2:
\* every RPC but DeleteCollection and the document Delete (whose race with
\* Update is the one col_data_race shows), with failing Disk.Put and helpers.
CONSTANTS
  Names = {c1, c2}
  Created = {c1}
  Reqs = {r1, r2}
  Ops = {"create", "load", "release", "flush", "insert", "update", "vsearch", "fsearch", "hsearch"}
  MaxRequests = 5
  MaxIds = 2
  TopK = 2
  Euclidean = TRUE
  DiskPutMayFail = TRUE
  DiskDeleteMayFail = FALSE
  HelpersMayFail = TRUE
SPECIFICATION Spec
INVARIANTS VectorsOnDisk
