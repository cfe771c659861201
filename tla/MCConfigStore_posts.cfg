SPECIFICATION Spec
CONSTANTS
    ReadCap = 10
    Words <- AllWords
    InitFiles <- FewFiles
    StrandFiles <- FewStrandFiles
    Forms <- FewForms
    FlushLines = 6
    PutLimit = 16
    MaxFails = 1
INVARIANTS
    TypeOK
    SaveTakesEffect
    UnknownKept
    FlashAgrees
    FlashForStrand
    ScriptAgrees
    NoGrowth
    SavedOrKept
    PartialLoad
