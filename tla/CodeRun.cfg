SPECIFICATION CodeSpec
CONSTANTS
    f = f
    g = g
    twin = twin
    none = none
    absent = absent
    A = A
    B = B
    big = big
    small = small
    large = large
    tiny = tiny
    copy = copy
    e1 = e1
    e2 = e2
    e3 = e3
    Path <- Paths
    NoPath = none
    Project <- Projects
    ProjectOf <- Projected
    Graphed <- Projects
    Content <- Contents
    Absent = absent
    Entity <- Entities
    Defines <- Definitions
    Relates <- Relations
    Size <- Sizes
    Tiny <- TinyContents
    Excluded <- LargeContents
    Log <- Moves
    MaxWorkers = 2
    MaxFailures = 1
INVARIANTS StoresFollowLog StopLosesNothing
PROPERTY AllHandled
