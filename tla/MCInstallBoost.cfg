SPECIFICATION InstallSpec
CONSTANTS
    Package <- MCBoost
    Place <- MCPlace
    Plan <- MCPlan
INVARIANTS
    OldLibsAreRemoved
