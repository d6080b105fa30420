SPECIFICATION Spec
CONSTANTS
    Null = Null
    Owners = {o1}
    Keys = {k1, k2}
    Requests = {r1}
    Outpoints = {u1}
    Bindings = {b1}
    Payloads = {p1}
    FeeAccepted = {p1}
    Artifacts = {a1}
    MaxTime = 1
    OwnerLimit = 2
    GlobalLimit = 2
    Callers = {c1, c2}
    Lifetime = 1
    MaxSnapshotAge = 1
    MaxExpirationBatch = 1
    MaxGeneration = 2
    MaxRestarts = 1
PROPERTIES CallsReturn
