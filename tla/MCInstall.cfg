SPECIFICATION InstallSpec
CONSTANTS
    Package <- MCPackages
    Place <- MCPlace
    Plan <- MCPlan
INVARIANTS
    InstallTypeOK
    FlawlessRunInstallsAll
    HeadersMatchLibraries
    NothingDroppedRemains
