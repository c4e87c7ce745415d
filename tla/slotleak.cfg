SPECIFICATION FairSpec
CONSTANTS
    d1 = d1
    d2 = d2
    d3 = d3
    codex = codex
    minimax = minimax
    agy = agy
    wsA = wsA
    wsB = wsB
    None = None
    Daemons = {d1}
    Jobs = {1}
    Harnesses = {codex, agy}
    Workspaces = {wsA, wsB}
    HarnessOf <- AllCodex
    WorkspaceOf <- Shared
    Foreign = {}
    MaxFaults <- KilledWhileClaiming
    HarnessOrder <- OneHarness
    Limit <- CodexOnly
    Concurrent = FALSE
    GraceCovers = TRUE
    TreeCovers = TRUE
    Cancellable = {}

PROPERTIES SlotsReturned
CHECK_DEADLOCK FALSE
