SPECIFICATION Spec
CONSTANTS
  Clients = {c1, c2}
  Workers = {w1, w2}
  Prefixes = {"a"}
  BatchNum = 2
  Ptrs = {p1, p2, p3}
  Ops = {"allocate_batch", "deallocate_batch"}
  Faulty = {}
  Timeouts = FALSE
  MaxReqs = 4
  NoPtr = NoPtr
  NoWorker = NoWorker
  NoClient = NoClient
PROPERTY RollbackOwnOnly
CHECK_DEADLOCK FALSE
