CONSTANTS
    RegSize = 4
    SpillDepth = 4
    Cases <- Deep
    Expressions <- DeepParts
    Cells = {1, 2, 3, 4, 5, 6, 7, 8}
    Answer <- AnswerOf
SPECIFICATION Spec
INVARIANT DeepIsRight
