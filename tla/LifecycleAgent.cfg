\* Two projects on one agent.
CONSTANTS
    e1 = e1
    e2 = e2
    w1 = w1
    w2 = w2
    c1 = c1
    c2 = c2
    p1 = p1
    p2 = p2
    NoExec = NoExec
    Executions = {e1, e2}
    Gated = {}
    Projects = {p1, p2}
    ProjectOf <- OwnProject
    Unmovable = {}
    Workers = {w1, w2}
    Calls = {c1}
    MaxStalls = 0
    MaxSends = 1
    TakeLimit = 1
    MaxCrashes = 0
SPECIFICATION Spec
PROPERTIES
    RunOutlivesOthers
