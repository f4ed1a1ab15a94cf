CONSTANTS
    a = a
    b = b
    c = c
    VotingPower <- MCVotingPower
    Active = {a, b}
    CrashProne = {b}
    proposers <- MCProposers
    contiguous_rounds = 1
    Starts <- MCStarts
    MaxRound = 3
    MaxCrashes = 1
    MaxLosses = 1

SPECIFICATION Spec
PROPERTIES
    RoundsAreCertified
    OneBlockPerRound
    Progress
