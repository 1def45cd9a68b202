CONSTANTS
    MaxOutput = 1
    PipeSize = 1
    ChunkSize = 1
    Timeout = 1
    Faults = {}
SPECIFICATION Spec
INVARIANT FailurePreventedExit
