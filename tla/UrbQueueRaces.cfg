SPECIFICATION Spec
CONSTANTS
    u1 = u1
    u2 = u2
    r1 = r1
    r2 = r2
    Urb = {u1, u2}
    Reader = {r1, r2}
    Oversize = {u1}
    Faulty = {u1, u2}
    Cancellable = {u1, u2}
    CanUnplug = TRUE
    OverlapReads = FALSE
    NoUrb = NoUrb
    NoRead = NoRead
SYMMETRY ReaderSymmetry
CHECK_DEADLOCK FALSE
INVARIANTS
    TypeOK
    RequestAccounted
    ReadAccounted
    AnswerFindsRequest
    AnswerMatchesRequest
    FaultNeedsRace
