CONSTANTS
    Sources <- Distinct
    Targets = {"machine", "translated", "built"}
    Faults = {"tool", "inspect", "source"}
SPECIFICATION Spec
INVARIANTS TypeOK EverythingDone UserFilesStay NothingElseLeft FailedBuildCleansUp
