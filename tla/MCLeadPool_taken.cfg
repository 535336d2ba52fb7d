CONSTANTS
    l1 = l1
    o1 = o1
    o2 = o2
    w1 = w1
    w2 = w2
    NoOwner = NoOwner
    Owners <- LeadOwners
    Leads <- OneLead
    Workers <- OneRequest
    Ops <- OneColumn
    MaxRecycle = 2
    MaxCount = 3
SPECIFICATION Spec
INVARIANT OnlyStaleAreRecycled
