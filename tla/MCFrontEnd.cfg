SPECIFICATION Spec
CONSTANTS
    TargetSizes <- Sizes
    Declared <- TheNames
    Defined <- TheTypes
    Sources <- TheSources
INVARIANTS TypeOK TokensAsWritten ReadAsWritten TreesAgree
            StorageApart InitialisersAgree
PROPERTY LaidOutInSteps
