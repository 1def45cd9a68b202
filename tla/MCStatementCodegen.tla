------------------------- MODULE MCStatementCodegen -------------------------
EXTENDS StatementMachine, FunctionBodies

\* Every function of four statements, and those of five which have two loops,
\* or a loop and a switch, in one another; those of five with two names.
MCNames == {"one", "two"}

Bodies ==
    BodiesOver(StatementKinds, {"one"}, 4)
    \cup BodiesOver({"break", "continue", "seq", "do", "for step", "switch"}, {}, 5)
    \cup BodiesOver({"goto", "label", "seq"}, MCNames, 5)

\* A function beside another one with loops and names of its own.
Second == BodiesOver({"goto", "label", "seq", "do", "break"}, {"one"}, 3)

MCPrograms == {<<body>> : body \in Bodies} \cup (Second \X Second)

MCStatements == UNION {All(body) : body \in Bodies \cup Second}

=============================================================================
