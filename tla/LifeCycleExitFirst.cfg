SPECIFICATION Spec
CONSTANTS
    Workers = {w1}
    Items <- MCItems
    Collected = {h1, h2}
    TestHook = TRUE
    Fixtured <- MCFixtured
    ExitFirst = TRUE
    MaxActions = 2
    None = None
INVARIANT HooksUndone
CHECK_DEADLOCK FALSE
