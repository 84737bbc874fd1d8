SPECIFICATION LauncherSpec
CONSTANTS
    Package <- MCPackage
    Listed <- MCListed
    Versions <- MCVersions
    Bundled <- MCBundled
    EntryPoints <- MCEntryPoints
    Exe <- MCExe
    Surplus <- MCSurplus
    Patchable = "tornado"
    Name <- MCName
    Callable <- MCCallable
    Dotted <- MCDotted
    Extras <- MCExtras
    Header <- MCHeader
    Builds <- MCBuilds
    Units <- MCUnits
    MaxCuts = 2
    Absent = Absent
    Torn = Torn
INVARIANTS
    LauncherTypeOK
    ToolsStart
    ListedAreRelocatable
    NamesAreNotMixedUp
    HeaderHidesDebug
PROPERTIES
    ExesAreReplaced
    DeletedAreCovered
