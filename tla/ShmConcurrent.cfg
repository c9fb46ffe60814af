SPECIFICATION Spec
CONSTANTS
  Clients = {c1, c2}
  Workers = {w1, w2}
  Prefixes = {"a"}
  BatchNum = 2
  Ptrs = {p1, p2, p3}
  Ops = {"allocate_batch", "deallocate_batch", "map_batch", "unmap_batch", "map", "unmap", "initialize", "finalize"}
  Faulty = {"allocate", "deallocate", "map", "unmap", "initialize"}
  Timeouts = TRUE
  MaxReqs = 4
  NoPtr = NoPtr
  NoWorker = NoWorker
  NoClient = NoClient
PROPERTY KeepsLedger
INVARIANTS TypeOK Accounted BatchIsWhole RollbackComplete
SYMMETRY Symmetry
CHECK_DEADLOCK FALSE
