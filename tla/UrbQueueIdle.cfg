SPECIFICATION Spec
CONSTANTS
    u1 = u1
    u2 = u2
    r1 = r1
    Urb = {u1, u2}
    Reader = {r1}
    Oversize = {}
    Faulty = {u1}
    Cancellable = {}
    CanUnplug = FALSE
    OverlapReads = FALSE
    NoUrb = NoUrb
    NoRead = NoRead
CHECK_DEADLOCK FALSE
INVARIANT WaitOnlyWhenIdle
