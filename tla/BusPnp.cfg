SPECIFICATION FairSpec
CONSTANTS
    f1 = f1
    p1 = p1
    File = {f1}
    Overlapped = {f1}
    Detacher = {f1}
    Reader = {f1}
    Pdo = {p1}
    Addr = {1}
    Environment = {"eject", "stop", "lose_bus", "disable", "share", "no_memory"}
    NoFile = NoFile
    NoPdo = NoPdo
CHECK_DEADLOCK FALSE
INVARIANTS
    NumPDOsExact
    ListSound
    DeletedAfterReport
    StateTracksPnp
    SurpriseRemovedSpared
PROPERTIES
    UnpluggedGoes
    CloseEnds
