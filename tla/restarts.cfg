SPECIFICATION Spec
CONSTANTS
    d1 = d1
    d2 = d2
    d3 = d3
    codex = codex
    minimax = minimax
    agy = agy
    wsA = wsA
    wsB = wsB
    None = None
    Daemons = {d1, d2}
    Jobs = {1, 2}
    Harnesses = {codex, agy}
    Workspaces = {wsA, wsB}
    HarnessOf <- CodexAndAgy
    WorkspaceOf <- Shared
    Foreign = {}
    MaxFaults <- Restarts
    HarnessOrder <- TwoHarnesses
    Limit <- OneSlot
    Concurrent = FALSE
    GraceCovers = TRUE
    TreeCovers = TRUE
    Cancellable = {}
INVARIANTS RunsAtMostOnce WorkspaceExclusive LeaseProtectsExecution
PROPERTIES ImplementsService
CHECK_DEADLOCK FALSE
