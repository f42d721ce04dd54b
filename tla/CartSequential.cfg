SPECIFICATION Spec
CONSTANTS
    e1 = e1
    e2 = e2
    f1 = f1
    s1 = s1
    x1 = x1
    p1 = p1
    Nowhere = Nowhere
    NoState = NoState
    Command = {e1, e2, f1, s1, x1, p1}
    KindOf <- MCKindOf
    Concurrent = FALSE
    MayFail = TRUE
SYMMETRY Symmetry
INVARIANTS
    StaleVersionIsRefused
    EditIsKept
PROPERTIES
    CancelledIsClosed
