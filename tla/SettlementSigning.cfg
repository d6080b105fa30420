SPECIFICATION Spec
CONSTANTS
    Null = Null
    p1 = p1
    p2 = p2
    Owners = {o1}
    Keys = {k1, k2}
    Requests = {r1}
    Outpoints = {u1}
    Bindings = {b1}
    Payloads = {p1, p2}
    FeeAccepted = {p1, p2}
    Artifacts <- ArtifactsOfPayloads
    Signs <- PayloadOfArtifact
    MaxTime = 1
    OwnerLimit = 2
    GlobalLimit = 2
    Takers = {w1, w3}
    Recoverers = {w2}
    Lifetime = 1
    MaxCrashes = 1
INVARIANTS SignerGetsCommittedJobs NoConflictingSignatures ShownArtifactIsDurable
PROPERTIES CommittedJobsAreSigned
