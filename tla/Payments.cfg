SPECIFICATION Spec
CONSTANTS
    Txn = {t1, t2}
    Op = {o1, o2}
    Nothing = Nothing
    MaxFaults = 1
SYMMETRY Symmetry
CHECK_DEADLOCK FALSE
INVARIANTS
    RecordWasTrue
    AgreesUnlessRaced
    ReportIsExact
