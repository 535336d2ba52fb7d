CONSTANTS
    Jobs <- ChainEnds
    MaxAge = 0
    MaxRun = 1
    MaxTime = 4
SPECIFICATION Spec
INVARIANTS
    TypeOK
    PassesAreBacked
    CompletePassIsFresh
