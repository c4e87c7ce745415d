SPECIFICATION Spec
CONSTANTS
    d1 = d1
    d2 = d2
    d3 = d3
    codex = codex
    minimax = minimax
    agy = agy
    wsA = wsA
    wsB = wsB
    None = None
    Daemons = {d1, d2}
    Jobs = {1, 2}
    Harnesses = {codex}
    Workspaces = {wsA, wsB}
    HarnessOf <- AllCodex
    WorkspaceOf <- Shared
    Foreign = {2}
    MaxFaults <- AllButSpawn
    HarnessOrder <- OneHarness
    Limit <- OneSlot
    Concurrent = FALSE
    GraceCovers = TRUE
    TreeCovers = FALSE
    Cancellable = {1}
INVARIANTS RunsAtMostOnce
PROPERTIES ForeignLeftAlone
SYMMETRY Symmetric
CHECK_DEADLOCK FALSE
