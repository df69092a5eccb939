\* Two capabilities refreshed together, evidence of every kind.
SPECIFICATION Spec
CONSTANTS
    free = free
    bound = bound
    Capabilities = {a, b}
    Builds = {free, bound}
    PolicyBuilds = {bound}
    Generations = {1, 2}
    Releases <- MCReleases
    None = None
    MaxAge = 1
    MaxTime = 2
SYMMETRY Symmetric
INVARIANTS
    CallableIsActive
    RevocationIsBounded
PROPERTIES
    CallableByDecision
