CONSTANTS
    p = p
    q = q
    LIs = {0, 2, 5, 6, 9, 10}
    EpochEnds = {0, 2, 5, 9}
    waypoint = 5
    chunk_limit = 2
    Peers = {p, q}
    Preference <- MCPreference
    MaxFaults = 1

SPECIFICATION Spec
INVARIANTS
    RequestsNameTheirEpoch
    NeverBeyondTarget
PROPERTIES
    CompleteMeansCommitted
    CatchesUp
    SyncRequestsProgress
