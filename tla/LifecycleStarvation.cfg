\* Two executions for approval, and a sweeper that reads one row per tick.
CONSTANTS
    e1 = e1
    e2 = e2
    w1 = w1
    w2 = w2
    c1 = c1
    c2 = c2
    p1 = p1
    p2 = p2
    NoExec = NoExec
    Executions = {e1, e2}
    Gated = {e1, e2}
    Projects = {p1}
    ProjectOf <- OneProject
    Unmovable = {}
    Workers = {}
    Calls = {c1}
    MaxStalls = 0
    MaxSends = 1
    TakeLimit = 1
    MaxCrashes = 0
SPECIFICATION FairSpec
PROPERTIES
    AwaitingResolves
