SPECIFICATION FairSpec
CONSTANTS
    d1 = d1
    d2 = d2
    d3 = d3
    codex = codex
    minimax = minimax
    agy = agy
    wsA = wsA
    wsB = wsB
    None = None
    Daemons = {d1, d2}
    Jobs = {1, 2}
    Harnesses = {codex, agy}
    Workspaces = {wsA, wsB}
    HarnessOf <- AllCodex
    WorkspaceOf <- Shared
    Foreign = {}
    MaxFaults <- CrashAndRestart
    HarnessOrder <- DisabledFirst
    Limit <- CodexOnly
    Concurrent = FALSE
    GraceCovers = TRUE
    TreeCovers = TRUE
    Cancellable = {}

PROPERTIES EveryJobEnds SlotsReturned
CHECK_DEADLOCK FALSE
