--------------------------- MODULE MCExprCodegen ---------------------------
EXTENDS ExprMeaning

-----------------------------------------------------------------------------
(***************************************************************************)
(* The trees of these kinds over the operands lo .. hi, in that order.     *)
(***************************************************************************)
Leaves(kinds, cell) ==
    {[kind |-> kind, cell |-> cell] : kind \in {"name"} \cup (kinds \cap {"postinc"})}

\* A call of all these arguments, of which the function names the first, or all.
CallsOf(kinds, args) ==
    {[kind |-> "call", args |-> args, named |-> named] :
        named \in (IF "call" \in kinds /\ Len(args) = 2 THEN {Len(args)} ELSE {})
                  \cup (IF "variadic" \in kinds /\ Len(args) = 3 THEN {1} ELSE {})}

RECURSIVE TreesOver(_, _, _)
TreesOver(kinds, lo, hi) ==
    IF lo = hi
    THEN Leaves(kinds, lo)
    ELSE UNION {
        LET pairs == TreesOver(kinds, lo, mid) \X TreesOver(kinds, mid + 1, hi)
        IN  { [kind |-> kind, left |-> pair[1], right |-> pair[2]] :
                kind \in kinds \cap {"sub", "less", "and", "or"}, pair \in pairs }
            \cup UNION {CallsOf(kinds, pair) : pair \in pairs} :
        mid \in lo .. hi - 1 }
    \cup
    { [kind |-> kind, cell |-> lo, value |-> value] :
        kind \in kinds \cap {"assign", "addto"}, value \in TreesOver(kinds, lo + 1, hi) }
    \cup
    IF kinds \cap {"ternary", "variadic"} = {} THEN {} ELSE UNION {
        LET triples == TreesOver(kinds, lo, cut[1]) \X TreesOver(kinds, cut[1] + 1, cut[2])
                       \X TreesOver(kinds, cut[2] + 1, hi)
        IN  { [kind |-> kind, left |-> three[1], mid |-> three[2], right |-> three[3]] :
                kind \in kinds \cap {"ternary"}, three \in triples }
            \cup UNION {CallsOf(kinds, three) : three \in triples} :
        cut \in {c \in (lo .. hi) \X (lo .. hi) : c[1] < c[2] /\ c[2] < hi} }

RECURSIVE Parts(_)
Parts(root) ==
    {root} \cup UNION {
        Parts(part) : part \in
            CASE root.kind \in {"name", "postinc"} -> {}
              [] root.kind \in {"sub", "less", "and", "or"} -> {root.left, root.right}
              [] root.kind = "ternary" -> {root.left, root.mid, root.right}
              [] root.kind = "call" -> {root.args[k] : k \in DOMAIN root.args}
              [] root.kind \in {"assign", "addto"} -> {root.value} }

\* Every case of these shapes: how many operands the trees have at most, the
\* nodes they are made of, the operands which may be zero, and the machines.
CasesOf(shapes) ==
    UNION {
        { [machine |-> on, root |-> root, zeros |-> shape.zeros] :
            on \in shape.machines,
            root \in UNION {TreesOver(shape.kinds, 1, n) : n \in 1 .. shape.operands} } :
        shape \in shapes }

\* What the function answers with tells its arguments from one another.
AnswerOf(args) == 3 + args[1] - 2 * args[2] + (IF Len(args) = 3 THEN 4 * args[3] ELSE 0)

-----------------------------------------------------------------------------
Kinds == (NodeKinds \ {"name"}) \cup {"variadic"}

\* Expressions of a few operands: every one without a jump, every one there is
\* with one operand less, those with jumps and calls, and calls with arguments
\* on the stack in one another.
Small == CasesOf({
    [operands |-> 4, zeros |-> {{}}, machines |-> Machines,
     kinds |-> {"sub", "call", "postinc", "assign", "addto"}],
    [operands |-> 3, zeros |-> SUBSET (1 .. 3), machines |-> Machines, kinds |-> Kinds],
    [operands |-> 4, zeros |-> {{}, {1}, {2, 4}}, machines |-> {"x86"},
     kinds |-> {"sub", "less", "and", "or", "ternary", "call"}],
    [operands |-> 5, zeros |-> {{}}, machines |-> Machines, kinds |-> {"sub", "variadic"}]})

\* Operators in one another, without a jump.
Deep == CasesOf({
    [operands |-> 8, zeros |-> {{}}, machines |-> {"x86"}, kinds |-> {"sub"}]})

SmallParts == UNION {Parts(case.root) : case \in Small}
DeepParts == UNION {Parts(case.root) : case \in Deep}

=============================================================================
