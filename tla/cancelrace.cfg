SPECIFICATION Spec
CONSTANTS
    d1 = d1
    d2 = d2
    d3 = d3
    codex = codex
    minimax = minimax
    agy = agy
    wsA = wsA
    wsB = wsB
    None = None
    Daemons = {d1}
    Jobs = {1}
    Harnesses = {codex}
    Workspaces = {wsA, wsB}
    HarnessOf <- AllCodex
    WorkspaceOf <- Alternating
    Foreign = {}
    MaxFaults <- NoFaults
    HarnessOrder <- OneHarness
    Limit <- OneSlot
    Concurrent = FALSE
    GraceCovers = TRUE
    TreeCovers = TRUE
    Cancellable = {1}
INVARIANTS CancelHonoured
CHECK_DEADLOCK FALSE
