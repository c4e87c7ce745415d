SPECIFICATION Spec
CONSTANTS
    d1 = d1
    d2 = d2
    d3 = d3
    codex = codex
    minimax = minimax
    agy = agy
    wsA = wsA
    wsB = wsB
    None = None
    Daemons = {d1, d2}
    Jobs = {1, 2}
    Harnesses = {codex}
    Workspaces = {wsA, wsB}
    HarnessOf <- AllCodex
    WorkspaceOf <- Alternating
    Foreign = {}
    MaxFaults <- OneWorkerCrash
    HarnessOrder <- OneHarness
    Limit <- OneSlot
    Concurrent = TRUE
    GraceCovers = TRUE
    TreeCovers = TRUE
    Cancellable = {}
INVARIANTS TypeOK CapacityRespected HarnessLockExclusive RunsAtMostOnce RunningWhileExecuting
PROPERTIES TerminalIsFinal
SYMMETRY Symmetric
CHECK_DEADLOCK FALSE
