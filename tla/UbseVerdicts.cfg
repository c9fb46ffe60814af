SPECIFICATION Spec
CONSTANTS
  N = 2
  Ops = {"stop", "start", "ensure", "restart", "start_all", "stop_all", "restart_all"}
  Polls = 2
  MaxOps = 1
  MaxTime = 2
  Faults = {"lost", "hang", "fails", "crash"}
INVARIANTS TypeOK StopIsTrue StartIsTrue
CHECK_DEADLOCK FALSE
