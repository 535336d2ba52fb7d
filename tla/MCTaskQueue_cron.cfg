CONSTANTS
    run1 = run1
    NoTask = NoTask
    TaskIds = {1, 2}
    Planners <- OnePlanner
    CanDie = TRUE
    Cooldown = 2
    Period = 2
    MaxRun = 1
SPECIFICATION FairSpec
PROPERTY EveryTaskIsPlanned
PROPERTY EligibleTaskIsSettled
PROPERTY MarksAreFinal
INVARIANT TypeOK
INVARIANT CopiesAreCurrent
INVARIANT LostOnlyByDeath
INVARIANT OpenPRsAreRecorded
PROPERTY ImplementsLife
