SPECIFICATION FairSpec
CONSTANTS
  Callers = {c1}
  Ops = {"run", "reconnect", "sftp"}
  Plans <- PlainPlans
  MaxRuns = 2
  MaxChans = 2
INVARIANTS TypeOK AnswerIsOwn RcIsOwn QuietBetweenRuns
PROPERTY OperationEnds
CHECK_DEADLOCK FALSE
