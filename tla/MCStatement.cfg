CONSTANT
    Names <- MCNames
    Statements <- MCStatements
    Programs <- MCPrograms
SPECIFICATION Spec
INVARIANTS InStep JumpsFindTheirLabels
PROPERTY NeverSpins
