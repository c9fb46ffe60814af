SPECIFICATION Spec
CONSTANTS
  Callers = {c1}
  Ops = {"run", "probe"}
  Plans <- OptionPlans
  MaxRuns = 2
  MaxChans = 1
INVARIANTS AnswerIsOwn ProbeClears
CHECK_DEADLOCK FALSE
