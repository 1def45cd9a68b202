CONSTANTS
    Sources <- Distinct
    Targets = {"machine"}
    Faults = {"disk full"}
SPECIFICATION Spec
INVARIANT CodeForEachInput
