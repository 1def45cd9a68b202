CONSTANTS
    ByteBits = 2
    Targets = {"m6809"}
    Literals <- Numbers
    Memories <- Values
    MaxOperators = 1
SPECIFICATION Spec
CHECK_DEADLOCK FALSE
INVARIANT OptimisedAlwaysRunsAlike
