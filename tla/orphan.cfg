SPECIFICATION Spec
CONSTANTS
    d1 = d1
    d2 = d2
    d3 = d3
    codex = codex
    minimax = minimax
    agy = agy
    wsA = wsA
    wsB = wsB
    None = None
    Daemons = {d1}
    Jobs = {1, 2}
    Harnesses = {codex}
    Workspaces = {wsA}
    HarnessOf <- AllCodex
    WorkspaceOf <- Shared
    Foreign = {}
    MaxFaults <- OneWorkerCrash
    HarnessOrder <- OneHarness
    Limit <- OneSlot
    Concurrent = FALSE
    GraceCovers = TRUE
    TreeCovers = FALSE
    Cancellable = {}
INVARIANTS WorkspaceExclusive

CHECK_DEADLOCK FALSE
