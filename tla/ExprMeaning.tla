----------------------------- MODULE ExprMeaning -----------------------------
(***************************************************************************)
(* What an expression is worth, its value and the memory it leaves, and    *)
(* whether the code written for it works that out.                         *)
(***************************************************************************)
EXTENDS ExprMachine

RECURSIVE Eval(_, _), EvalArgs(_, _)

\* The arguments of a call, the values of those before the last one first.
EvalArgs(mem, args) ==
    IF args = <<>> THEN [values |-> <<>>, memory |-> mem]
    ELSE LET head == Eval(mem, Head(args))
             tail == EvalArgs(head.memory, Tail(args))
         IN  [values |-> <<head.value>> \o tail.values, memory |-> tail.memory]

EvalPair(mem, root) == EvalArgs(mem, <<root.left, root.right>>)

Settles(value, kind) == (value # 0) = (kind = "or")

Stored(mem, cell, value) == [value |-> value, memory |-> [mem EXCEPT ![cell] = value]]

Eval(mem, root) ==
    CASE root.kind = "name" -> [value |-> mem[root.cell], memory |-> mem]
      [] root.kind = "postinc" ->
            [value |-> mem[root.cell], memory |-> [mem EXCEPT ![root.cell] = @ + 1]]
      [] root.kind = "sub" ->
            LET both == EvalPair(mem, root)
            IN  [value |-> both.values[1] - both.values[2], memory |-> both.memory]
      [] root.kind = "less" ->
            LET both == EvalPair(mem, root)
            IN  [value |-> Bit(both.values[1] < both.values[2]), memory |-> both.memory]
      [] root.kind = "call" ->
            LET all == EvalArgs(mem, root.args)
            IN  [value |-> Answer(all.values), memory |-> all.memory]
      [] root.kind \in {"and", "or"} ->
            LET left == Eval(mem, root.left)
                right == Eval(left.memory, root.right)
            IN  IF Settles(left.value, root.kind)
                THEN [value |-> Bit(left.value # 0), memory |-> left.memory]
                ELSE [value |-> Bit(right.value # 0), memory |-> right.memory]
      [] root.kind = "ternary" ->
            LET cond == Eval(mem, root.left)
            IN  Eval(cond.memory, IF cond.value # 0 THEN root.mid ELSE root.right)
      [] root.kind = "assign" ->
            LET value == Eval(mem, root.value)
            IN  Stored(value.memory, root.cell, value.value)
      [] root.kind = "addto" ->
            LET value == Eval(mem, root.value)
            IN  Stored(value.memory, root.cell, value.memory[root.cell] + value.value)

-----------------------------------------------------------------------------
\* The register GenExpr() answers with holds the value of the expression when
\* its code has run, and memory holds what the expression leaves there.
RightAtEnd ==
    Ended /\ ~refused =>
        /\ file[names[1]] = Eval(start, given.root).value
        /\ memory = Eval(start, given.root).memory

\* The two ways setting values aside goes wrong are the only ones: an
\* expression with neither in its code is worked out right, however many
\* values it sets aside.
RightWithoutFlaws == flaws = {} => RightAtEnd

\* An expression whose values all fit in the registers is worked out right.
RightInRegisters == Standing[given.root] <= RegSize => RightAtEnd

\* What docs/supported_features.md says of a deep expression: it is worked out
\* right or it is refused.
DeepIsRight == RightAtEnd

=============================================================================
