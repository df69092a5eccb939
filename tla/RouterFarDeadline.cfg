\* A deadline further away than setTimeout can wait.
SPECIFICATION Spec
CONSTANTS
    c1 = c1
    c2 = c2
    c3 = c3
    alice = alice
    bob = bob
    Calls = {c2}
    Principals = {alice, bob}
    Dimensions = {"concurrency"}
    Reserved = {"concurrency"}
    PrincipalOf <- MCPrincipalOf
    ClassOf <- MCClassOf
    CostOf <- MCCostOf
    PerPrincipal <- MCPerPrincipal
    Global <- MCGlobal
    Reserve <- MCReserve
    DeadlineOf <- MCDeadlineOf
    MaxDelay = 1
    MaxTime = 3
INVARIANT CancelledByClient
CHECK_DEADLOCK FALSE
