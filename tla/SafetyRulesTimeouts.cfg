CONSTANTS
    k1 = k1
    k2 = k2
    NoKey = NoKey
    MaxRound = 2
    MaxTimeout = 2
    Epochs <- MCEpochs
    Keys <- MCKeys
    StoredKeys <- MCKeys
    ValidatorKey <- MCValidatorKey
    VoteProposals <- MCVoteProposals
    TimeoutRounds <- MCTimeoutRounds

SPECIFICATION Spec

PROPERTY TimeoutsNeverGoBack
