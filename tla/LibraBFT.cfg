CONSTANTS
    Validators = {v1, v2, v3, v4}
    Byzantine = {v4}
    Quorums = {{v1, v2, v3}, {v1, v2, v4}, {v1, v3, v4}, {v2, v3, v4},
               {v1, v2, v3, v4}}
    Genesis = 0
    Blocks = {0, 1, 2, 12, 3, 13, 23, 123,
              4, 14, 24, 34, 124, 134, 234, 1234}
    Round <- MCRound
    Parent <- MCParent
    Ancestors <- MCAncestors

SPECIFICATION Protocol

INVARIANTS
    ProtocolTypeOK
    OneCertifiedPerRound
    CertifiedExtendCommitted
    Agreement

PROPERTIES
    CommitsExtendRoot
    ImplementsLedger

SYMMETRY HonestSymmetry
CHECK_DEADLOCK FALSE
