CONSTANTS
    k1 = k1
    k2 = k2
    NoKey = NoKey
    MaxRound = 4
    MaxTimeout = 1
    Epochs <- MCEpochs
    Keys <- MCKeys
    StoredKeys <- MCKeys
    ValidatorKey <- MCValidatorKey
    VoteProposals <- MCVoteProposals
    TimeoutRounds <- MCTimeoutRounds

SPECIFICATION Spec

INVARIANTS
    TypeOK
    OneVotePerRound
    LockRespected
    SignedWithEpochKey
    ReadyInWaypointEpoch

PROPERTY ImplementsVoter
