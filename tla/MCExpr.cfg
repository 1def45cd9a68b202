CONSTANTS
    RegSize = 3
    SpillDepth = 1
    Cases <- Small
    Expressions <- SmallParts
    Cells = {1, 2, 3, 4, 5}
    Answer <- AnswerOf
SPECIFICATION Spec
INVARIANTS RightWithoutFlaws RightInRegisters StackInOrder OneValueLeft RefusedWhenTooDeep
