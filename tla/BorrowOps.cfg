SPECIFICATION Spec
CONSTANTS
    Kinds = {"borrow", "shm", "result", "multi", "cliMake", "cliDrop", "cliList", "cliShow"}
    MaxOps = 3
    MaxDeaths = 1
INVARIANTS TypeOK TrueIsOwn FalseIsFailure LeavesShell
CHECK_DEADLOCK FALSE
