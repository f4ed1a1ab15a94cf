CONSTANTS
    Genesis = 0
    Round <- MCRound
    Parent <- MCParent
    Certified <- MCCertified
    max_pruned_blocks_in_mem = 2
    MaxCrashes = 2

SPECIFICATION Spec
INVARIANTS
    RootOnDisk
    RestartKeepsTree
    MemoryBounded
    SyncInfoServed
PROPERTY
    LedgerExtends
