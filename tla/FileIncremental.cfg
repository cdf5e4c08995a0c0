SPECIFICATION Spec
CONSTANTS
    f = f
    g = g
    c1 = c1
    c2 = c2
    c3 = c3
    Paths <- TwoFiles
    Contents <- ThreeContents
    TooBig <- LastContent
    MaxCommits = 4
    MaxRefreshes = 1
    MaxFaults = 2
    MaxCrashes = 1
SYMMETRY Symmetry
INVARIANTS TableFollowsClone ContentPublished
