CONSTANTS
    p1 = p1
    p2 = p2
    p3 = p3
    Pids <- RunPids
    Absent = Absent
    Empty = Empty
    NoPid = NoPid
SPECIFICATION Spec
INVARIANT OneHolder
