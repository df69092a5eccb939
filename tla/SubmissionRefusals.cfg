\* A store that refuses writes at will, and clocks that disagree.
SPECIFICATION Spec
CONSTANTS
    o1 = o1
    o2 = o2
    c1 = c1
    c2 = c2
    c3 = c3
    Owners = {o1, o2}
    Calls = {c1, c2, c3}
    Digests = {d1}
    Results = {r1, r2}
    None = None
    DispatchLeaseMs = 1
    ReconcileLeaseMs = 1
    MaxTime = 2
    CasMayRefuse = TRUE
    OwnerOf <- MCOwnerOf
    Skew <- SkewedClock
SYMMETRY Interchangeable
VIEW LiveData
\* Every call may have returned and the clock be at its bound.
CHECK_DEADLOCK FALSE
INVARIANTS
    VerdictsAgree
PROPERTIES
    FollowsLifecycle
