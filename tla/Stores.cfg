SPECIFICATION FairSpec
CONSTANTS
    c1 = c1
    c2 = c2
    c3 = c3
    r1 = r1
    r2 = r2
    Torn = Torn
    Call = {c1, c2, c3}
    Row = {r1, r2}
    Backends = {"memory", "file", "postgres"}
    MaxFaults = 1
CHECK_DEADLOCK FALSE
INVARIANTS
    FileIsCurrent
    AnsweredIsStored
    AcceptedOnce
    NoLostUpdate
PROPERTIES
    EveryCallEnds
