SPECIFICATION FairSpec
CONSTANTS
    Targets = {"m6809", "arm64", "x86"}
    Programs <- MCPrograms
    Bytes <- MCBytes
    Unreliable = TRUE
    Tested = 2
    MostLines <- MCMostLines
INVARIANT TypeOK
INVARIANT RunsAlike
INVARIANT NothingLeftToRewrite
PROPERTY PassesEnd
