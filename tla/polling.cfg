SPECIFICATION Spec
CONSTANTS
    A = A
    B = B
    a1 = a1
    b1 = b1
    b2 = b2
    None = None
    Corrupt = Corrupt
    Procs = {A, B}
    Pollers = {a1, b1, b2}
    ProcOf <- OneAndTwo
    Crashable = {A}
    FaultKinds = {"write", "corrupt"}
    Forcing = {a1}
    Interval = 2
    MaxTime = 2
INVARIANTS TypeOK PollLockExclusive LiveLockInUse
PROPERTIES CooldownKept NeverAnswersOlder
SYMMETRY ThreadsOfB
