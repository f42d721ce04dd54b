SPECIFICATION FairSpec
CONSTANTS
    r1 = r1
    r2 = r2
    r3 = r3
    k1 = k1
    k2 = k2
    c1 = c1
    None = None
    Call = {r1, r2, r3}
    Key = {k1, k2}
    Cart = {c1}
    KeyOf <- MCKeyOf
    CartOf <- MCCartOf
    Version = {1, 2}
    Backends = {"memory", "postgres"}
    Faulty = {"memory"}
CHECK_DEADLOCK FALSE
INVARIANTS
    OneExecutionPerKey
    AnswerIsBacked
    SoldStaysSold
PROPERTIES
    RecordedKeyIsKept
    ClaimIsSettled
    StockIsSettled
    ImplementsIdempotentExecution
