CONSTANTS
    ByteBits = 2
    Targets = {"x86", "m6809"}
    Literals <- Numbers
    Memories <- Values
    MaxOperators = 2
SPECIFICATION Spec
CHECK_DEADLOCK FALSE
INVARIANTS OptimisedRunsAlike KnownNumbersFold OnceIsEnough
