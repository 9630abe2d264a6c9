SPECIFICATION FairSpec
CONSTANTS
    u1 = u1
    u2 = u2
    u3 = u3
    r1 = r1
    Urb = {u1, u2, u3}
    Reader = {r1}
    Oversize = {u1}
    Faulty = {}
    Cancellable = {}
    CanUnplug = FALSE
    OverlapReads = FALSE
    NoUrb = NoUrb
    NoRead = NoRead
CHECK_DEADLOCK FALSE
INVARIANTS
    WireFraming
    WaitOnlyWhenIdle
PROPERTIES
    NumberedInOrder
    ServesInOrder
    EveryRequestEnds
