CONSTANTS
    RegSize = 2
    SpillDepth = 3
    Values = {v1, v2}
    Junk = Junk
SPECIFICATION Spec
INVARIANTS TypeOK HeldValuesWritten RefusedOnlyWhenFull
PROPERTY ValuesComeBack
CHECK_DEADLOCK FALSE
