CONSTANTS
    l1 = l1
    o1 = o1
    o2 = o2
    w1 = w1
    w2 = w2
    NoOwner = NoOwner
    Owners <- OneOwner
    Leads <- OneLead
    Workers <- TwoRequests
    Ops <- Kinds
    MaxRecycle = 1
    MaxCount = 1
SPECIFICATION FairSpec
INVARIANT TypeOK
INVARIANT HistoryMatchesCount
PROPERTY HistoryIsKept
PROPERTY JobKeepsToCap
PROPERTY StaleLeadsMoveOn
