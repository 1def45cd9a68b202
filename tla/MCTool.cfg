CONSTANTS
    MaxOutput = 2
    PipeSize = 2
    ChunkSize = 2
    Timeout = 1
    Faults = {"start", "nonblock", "read", "alloc", "poll"}
SPECIFICATION Spec
INVARIANTS TypeOK NothingMissed LimitIsExact StreamsPresent NoStrangerKilled ToolIsReaped GroupIsStopped
PROPERTY Ends
