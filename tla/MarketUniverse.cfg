\* A source of three pools, of which one is claimed wrongly and one not deployed; honest and dishonest
\* providers, the dishonest two of one administration.
SPECIFICATION Spec
CONSTANTS
    Items = {1, 2, 3}
    MaxPages = 2
    MaxItems = 2
    Pools = {1, 2, 3}
    Providers = {"honest", "liar", "accomplice"}
    HonestProviders = {"honest"}
    Administration <- MCAdministration
    Tuples = {"t", "u"}
    Tuple <- MCTuple
    SourceClaim <- MCSourceClaim
    Manifest <- MCManifest
    Pausable = {1}
    MaxHeight = 2
    MaxBlocks = 4
    MaxFactSets = 3
    Material = {1}
VIEW LiveData
INVARIANTS
    VerifiedIsTrue
    CompleteUniverse
\* The universe is reconstructed once.
CHECK_DEADLOCK FALSE
