\* One RPC at a time, every RPC on two collections, with failing Disk.Put,
\* Disk.Delete and persistence helpers; three documents, so that searches
\* truncate to topK.
CONSTANTS
  Names = {c1, c2}
  Created = {}
  Reqs = {r1}
  Ops = {"create", "drop", "get", "load", "release", "flush", "insert", "update", "delete", "vsearch", "fsearch", "hsearch"}
  MaxRequests = 10
  MaxIds = 3
  TopK = 2
  Euclidean = TRUE
  DiskPutMayFail = TRUE
  DiskDeleteMayFail = TRUE
  HelpersMayFail = TRUE
SPECIFICATION Spec
INVARIANTS TypeOK VectorsOnDisk
