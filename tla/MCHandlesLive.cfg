SPECIFICATION FairSpec
CONSTANTS
    f1 = f1
    f2 = f2
    m1 = m1
    FdObjs = {f1, f2}
    MapObjs = {m1}
    Desc = {0, 1}
    MaxLen = 5
    LowPage = 1
    MaxPage = 3
    Image = {1}
PROPERTIES
    UnwindingReleases
