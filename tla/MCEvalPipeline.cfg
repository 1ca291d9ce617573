SPECIFICATION Spec
CONSTANTS
    a = a
    b = b
    f = f
    g = g
    h = h
    N = 4
    Samples = {a, b}
    SampleOf <- MCSampleOf
    FileOf <- MCFileOf
    Faults = {"context", "evaluate", "write", "print", "report"}
    MaxRuns = 2
INVARIANTS
    TypeOK
    ExactAccounts
    RecordsAgree
    OneContextPerSample
    ReportsInOrder
PROPERTIES
    RunsEnd
    ImplementsLedger
\* The user stops running the command.
CHECK_DEADLOCK FALSE
