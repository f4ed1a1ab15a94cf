CONSTANTS
    Accounts = {1, 2}
    MaxSeq = 3
    Submissions <- MCSubmissions
    capacity = 4
    capacity_per_user = 3
    MaxTimelineId = 2

SPECIFICATION Spec

INVARIANT ReadyInTimeline
