SPECIFICATION SourceSpec
CONSTANTS
    Scripts <- MCConfigured
    File <- MCFiles
    Recipe <- MCRecipe
INVARIANTS
    UnpacksWhatItDownloads
