SPECIFICATION Spec
CONSTANTS
    Null = Null
    Owners = {o1}
    Keys = {k1, k2}
    Requests = {r1}
    Outpoints = {u1, u2}
    Bindings = {b1}
    Payloads = {p1}
    FeeAccepted = {p1}
    Artifacts = {a1}
    MaxTime = 3
    OwnerLimit = 1
    GlobalLimit = 1
    Lifetimes = {1}
    MaxSnapshotAge = 1
    MaxExpirationBatch = 1
SYMMETRY Symmetric
INVARIANTS LiveQuoteLimits
PROPERTIES ImplementsLedger
