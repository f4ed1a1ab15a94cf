CONSTANTS
    v1 = v1
    v2 = v2
    v3 = v3
    v4 = v4
    VotingPower <- MCVotingPower
    Byzantine = {v4}
    LedgerInfos = {l1, l2}

SPECIFICATION Spec

INVARIANTS
    TypeOK
    CertificatesSound
    OneQCPerRound
    NoCertificateLost
    HonestTimeoutsSuffice
