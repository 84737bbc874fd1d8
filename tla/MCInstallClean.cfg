SPECIFICATION InstallSpec
CONSTANTS
    Package <- MCUncleaned
    Place <- MCPlace
    Plan <- MCPlan
INVARIANTS
    OldHeadersAreCleaned
