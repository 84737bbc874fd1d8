SPECIFICATION FairSourceSpec
CONSTANTS
    Scripts <- MCAllScripts
    File <- MCFiles
    Recipe <- MCRecipe
INVARIANTS
    SourceTypeOK
    CompilesPatchedSources
    PatchesSurviveReruns
    BrokenDownloadsAreKept
PROPERTIES
    GuardSpeaksTheTruth
    ArchiveWrittenOnce
    TreeWrittenOnce
    RunsEnd
