SPECIFICATION Spec
CONSTANTS
    A = A
    B = B
    a1 = a1
    b1 = b1
    b2 = b2
    None = None
    Corrupt = Corrupt
    Procs = {A}
    Pollers = {a1}
    ProcOf <- OneAndTwo
    Crashable = {}
    FaultKinds = {"write"}
    Forcing = {}
    Interval = 2
    MaxTime = 3
PROPERTIES CooldownKeptInMemory
