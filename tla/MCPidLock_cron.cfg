CONSTANTS
    p1 = p1
    p2 = p2
    p3 = p3
    Pids <- RunPids
    Absent = Absent
    Empty = Empty
    NoPid = NoPid
SPECIFICATION FairSpec
PROPERTY LockNeverStuck
INVARIANT TypeOK
INVARIANT ExclusiveUntilReclaim
INVARIANT NothingLeftBehind
PROPERTY ImplementsLock
