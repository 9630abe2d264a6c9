SPECIFICATION FairSpec
CONSTANTS
    q1 = q1
    q2 = q2
    h1 = h1
    pnp = pnp
    Request = {q1, q2, h1}
    Handle = {h1}
    Power = {q2}
    MaxPnp = 4
CHECK_DEADLOCK FALSE
INVARIANTS
    TypeOK
    CountExact
    CountAsserted
    RemoveWaitsForWork
    CancelRestores
PROPERTIES
    StopEnds
    RemoveEndsUnlessLeaked
