CONSTANTS
    p = p
    q = q
    LIs = {0, 3, 5}
    EpochEnds = {0, 3, 5}
    waypoint = 5
    chunk_limit = 2
    Peers = {p}
    Preference <- MCPreference
    MaxFaults = 0

SPECIFICATION Spec
PROPERTY
    WaypointReached
