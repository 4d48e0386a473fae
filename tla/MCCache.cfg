CONSTANTS
    Fetches = {"a", "b", "c"}
    Async = {"a", "c"}
    Modes <- MCModes
    KeyOf <- MCKeyOf
    ClassOf <- MCClassOf
    Charge <- MCCharge
    Extra <- MCExtra
    Floor <- MCFloor
    Budgets <- MCBudgets
    PoolThreads = {"p"}
    Warm <- MCWarm
    MaxFailures = 1
SPECIFICATION Spec
INVARIANT NothingLeaks
PROPERTY EveryFetchEnds
CHECK_DEADLOCK FALSE
