SPECIFICATION Spec
CONSTANTS
    f1 = f1
    f2 = f2
    p1 = p1
    p2 = p2
    File = {f1, f2}
    Overlapped = {}
    Detacher = {f2}
    Reader = {f1}
    Pdo = {p1, p2}
    Addr = {1}
    Environment = {}
    NoFile = NoFile
    NoPdo = NoPdo
SYMMETRY PdoSymmetry
CHECK_DEADLOCK FALSE
INVARIANTS
    TypeOK
    UniqueUnlessRaced
    FileAndDeviceAgree
    FaultNeedsDetach
    ReadNotAbandoned
