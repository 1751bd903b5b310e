\* One execution for approval, two managers, the sweeper, one crash of either side;
\* under fairness, callbacks tried twice.
CONSTANTS
    e1 = e1
    e2 = e2
    w1 = w1
    w2 = w2
    c1 = c1
    c2 = c2
    p1 = p1
    p2 = p2
    NoExec = NoExec
    Executions = {e1}
    Gated = {e1}
    Projects = {p1}
    ProjectOf <- OneProject
    Unmovable = {}
    Workers = {w1}
    Calls = {c1, c2}
    MaxStalls = 0
    MaxSends = 2
    TakeLimit = 1
    MaxCrashes = 1
SPECIFICATION FairSpec
INVARIANTS
    TypeOK
    DispatchGate
    AprovadoMatches
    EventsTruthful
    HandedOver
PROPERTIES
    AwaitingResolves
    ClearedEnds
    DecisionFinal
    ImplementsGate
