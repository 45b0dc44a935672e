CONSTANTS
    Messages <- MCMessages
    Imported <- MCImported
    MaxItems = 4
    Budgets = {1, 3}
    TailCounts = {0, 2}
    TailCaps = {1, NoCap}
    NoCap = NoCap
    a = a
    b = b
    CallIds = {a, b}
    NoCallId = NoCallId
SPECIFICATION AssemblySpec
CHECK_DEADLOCK FALSE
INVARIANTS Paired NoFalseMissing WithinBudget
