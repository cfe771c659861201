SPECIFICATION FairSpec
INVARIANTS
    CleanShutdown
