SPECIFICATION ShellSpec
CONSTANTS
    Name <- MCName
    Script <- MCScript
    Program <- MCProgram
    TopLevel <- MCTopLevel
    Helper <- MCHelper
    Master <- MCMaster
    Setup <- MCSetup
    Variable <- MCVariable
    Link <- MCLink
    Outline <- MCOutline
    Makes <- MCMakes
    Progress <- MCProgress
    Brings <- MCBrings
    Wanted <- MCWanted
    BuiltIn <- MCBuiltIn
    Marker <- MCMarker
    Hasty <- MCHasty
    MaxBroken = 1
INVARIANTS
    ShellTypeOK
    CallsAreFound
    ToolsRunWhereMeant
    RewritesStayInBuildTree
    NoProjectIsLeftOut
    LinkedToWhatIsInstalled
    VariablesAreSet
PROPERTIES
    CallsAreTransparent
    WaitsForTheOperatorOnly
