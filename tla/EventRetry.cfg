\* As EventBus.cfg, with a first call and one retry allowed.
CONSTANTS
    ev1 = ev1
    ev2 = ev2
    audit = audit
    notification = notification
    Events = {ev1, ev2}
    Consumers = {audit, notification}
    ConsumersOf <- Routes
    OpenAfter = 2
    MaxRestarts = 0
    MaxCalls = 2
SPECIFICATION QuickSpec
INVARIANT AttemptsBounded
CHECK_DEADLOCK FALSE
