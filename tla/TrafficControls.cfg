\* Three requests with one credential, of whose answers some overtake others; five
\* work items of three principals that compete for two kinds of capacity.
SPECIFICATION Spec
CONSTANTS
    Requests = {r1, r2, r3}
    MaximumAgeMs = 2
    MaxClock = 4
    None = None
    c1 = c1
    c2 = c2
    c3 = c3
    c4 = c4
    c5 = c5
    alice = alice
    bob = bob
    cork = cork
    Calls = {c1, c2, c3, c4, c5}
    Principals = {alice, bob, cork}
    Dimensions = {"queue", "total"}
    Reserved = {"queue"}
    PrincipalOf <- MCPrincipalOf
    ClassOf <- MCClassOf
    CostOf <- MCCostOf
    PerPrincipal <- MCPerPrincipal
    Global <- MCGlobal
    Reserve <- MCReserve
SYMMETRY Symmetric
\* Every request may have been answered and the clock be at its bound.
CHECK_DEADLOCK FALSE
INVARIANTS
    RevocationIsBounded
    WithinLimits
    ReserveIsAvailable
    UsageIsHeld
