SPECIFICATION Spec
CONSTANTS
    Port = {0, 1, 2}
    PortOrder <- MCPortOrder
    Modes <- MCModes
    Fd = {3, 4, 5, 6, 7}
    Errno <- MCErrno
CHECK_DEADLOCK FALSE
INVARIANTS
    TypeOK
    BystandersKept
    NoLeak
