SPECIFICATION Spec
CONSTANTS
    r1 = r1
    r2 = r2
    r3 = r3
    k1 = k1
    k2 = k2
    c1 = c1
    None = None
    Call = {r1, r2, r3}
    Key = {k1, k2}
    Cart = {c1}
    KeyOf <- MCKeyOf
    CartOf <- MCCartOf
    Version = {1, 2}
    Backends = {"postgres"}
    Faulty = {"postgres"}
CHECK_DEADLOCK FALSE
INVARIANT
    Deduplicated
