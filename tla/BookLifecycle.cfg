SPECIFICATION Spec
CONSTANTS
    Null = Null
    Owners = {o1, o2}
    Keys = {k1}
    Requests = {r1, r2}
    Outpoints = {u1, u2}
    Bindings = {b1}
    Payloads = {p1, p2, p3}
    FeeAccepted = {p1, p2}
    Artifacts = {a1}
    MaxTime = 2
    OwnerLimit = 1
    GlobalLimit = 2
    Lifetimes = {1}
    MaxSnapshotAge = 1
    MaxExpirationBatch = 1
SYMMETRY Symmetric
INVARIANTS TypeOK StoreIntegrity ExclusiveInputs
PROPERTIES PointOfNoReturn NoResurrection TimeNeverRunsBackwards
