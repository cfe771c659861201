SPECIFICATION FairSpec
INVARIANTS
    OneCycleMore
    StaleFileExplained
PROPERTIES
    TermEnds
