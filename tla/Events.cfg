\* Two events, two consumers, a breaker that opens at two failures, one restart; one
\* webhook, two deliveries of three attempts, one manager, one crash.
CONSTANTS
    ev1 = ev1
    ev2 = ev2
    audit = audit
    notification = notification
    Events = {ev1, ev2}
    Consumers = {audit, notification}
    ConsumersOf <- Routes
    OpenAfter = 2
    MaxRestarts = 1
    h1 = h1
    d1 = d1
    d2 = d2
    d3 = d3
    m1 = m1
    Hooks = {h1}
    Deliveries = {d1, d2}
    HookOf <- OneHook
    Managers = {m1}
    MaxAttempts = 3
    Threshold = 2
    MaxStalls = 1
    MaxCrashes = 1
SPECIFICATION EventsSpec
INVARIANTS
    EventsTypeOK
    TrialUnderWay
    DisabledSound
    RetriesFollowFailures
PROPERTIES
    RefusalsEarned
    EmitterResumes
    HealthyDelivers
    RetriesHappen
CHECK_DEADLOCK FALSE
