-------------------------- MODULE MCConstantFolding --------------------------
EXTENDS ConstantFolding

\* A byte of two bits: a char holds 0 to 3, a short -8 to 7, and the edges of
\* each type are among the values.
Numbers == {0, 1, 2, 4, 100}

Values == {[char |-> 3, long |-> -8],
           [char |-> 0, long |-> 127],
           [char |-> 2, long |-> -1]}

=============================================================================
