\* One LOW execution whose job stalls once: two workers and two runs of it;
\* the moves of its task may fail.
CONSTANTS
    e1 = e1
    e2 = e2
    w1 = w1
    w2 = w2
    c1 = c1
    c2 = c2
    p1 = p1
    p2 = p2
    NoExec = NoExec
    Executions = {e1}
    Gated = {}
    Projects = {p1}
    ProjectOf <- OneProject
    Unmovable = {e1}
    Workers = {w1, w2}
    Calls = {c1}
    MaxStalls = 1
    MaxSends = 1
    TakeLimit = 1
    MaxCrashes = 0
SPECIFICATION Spec
SYMMETRY WorkerSymmetry
INVARIANTS
    OneClaudePerProject
    SuccessIsReal
