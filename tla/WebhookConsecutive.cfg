\* One webhook and three deliveries at the same time.
CONSTANTS
    h1 = h1
    d1 = d1
    d2 = d2
    d3 = d3
    m1 = m1
    Hooks = {h1}
    Deliveries = {d1, d2, d3}
    HookOf <- OneHook
    Managers = {}
    MaxAttempts = 1
    Threshold = 2
    MaxStalls = 0
    MaxCrashes = 0
SPECIFICATION Spec
PROPERTIES
    DisabledInARow
CHECK_DEADLOCK FALSE
