SPECIFICATION InstallSpec
CONSTANTS
    Package <- MCQwt5
    Place <- MCPlace
    Plan <- MCPlan
INVARIANTS
    FilesAreMoved
