\* A client's deployment, or two calls of one process or of two.
SPECIFICATION Spec
CONSTANTS
    Administration <- MCAdministration
    Expected = "w"
    MaxSent = 2
    Deployments <- MCDeployments
    None = None
    c1 = c1
    c2 = c2
    c3 = c3
    Previews = {c1, c2, c3}
    PortOf <- MCPortOf
    Proves = {c1, c2}
    MaxWait = 1
    Nobody = Nobody
    Starts <- MCStarts
INVARIANTS
    FactsHoldAtOneBlock
    DeploymentVerdictIsTrue
    PackageSurvives
    PassedCanExecute
\* Blocks run out, and calls return.
CHECK_DEADLOCK FALSE
