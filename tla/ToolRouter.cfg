\* Three calls compete for two leases while clients cancel and deadlines elapse.
SPECIFICATION FairSpec
CONSTANTS
    c1 = c1
    c2 = c2
    c3 = c3
    alice = alice
    bob = bob
    Calls = {c1, c2, c3}
    Principals = {alice, bob}
    Dimensions = {"concurrency"}
    Reserved = {"concurrency"}
    PrincipalOf <- MCPrincipalOf
    ClassOf <- MCClassOf
    CostOf <- MCCostOf
    PerPrincipal <- MCPerPrincipal
    Global <- MCGlobal
    Reserve <- MCReserve
    DeadlineOf <- MCDeadlineOf
    MaxDelay = 3
    MaxTime = 3
INVARIANTS
    LeaseWhileInCall
    ReplyIsTrue
PROPERTIES
    NoLateSuccess
    DeadlineEndsCall
CHECK_DEADLOCK FALSE
