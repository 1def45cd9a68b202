--------------------------- MODULE ConstantFolding ---------------------------
(***************************************************************************)
(* Optimise(): what the compiler makes of an expression before it writes   *)
(* code for it.  The parser puts an expression together one operator at a  *)
(* time, widening the sides until they agree; the pass then works out what *)
(* it knows, takes away what does nothing and writes multiplications as    *)
(* shifts.  Run() is the reference: what the code of a tree does on the    *)
(* machine it is written for.                                              *)
(*                                                                         *)
(* Two machines stand for the four targets.  "x86" works in whole          *)
(* registers whatever the type (so do ARM64 and QBE); "m6809" works in two *)
(* bytes or in four, and shifts the bytes of the type alone.  A byte has   *)
(* ByteBits bits and every width follows from it.  "|" stands for the      *)
(* bitwise operators, "<" for the comparisons, "&&" for the logical ones.  *)
(***************************************************************************)
EXTENDS Integers, FiniteSets, Bitwise

CONSTANTS ByteBits,      \* the bits of a byte
          Targets,       \* the machines, "x86" and "m6809"
          Literals,      \* the numbers which are written
          Memories,      \* what the variables hold, one for each type
          MaxOperators   \* how many operators an expression has

Types == {"char", "short", "int", "long"}
BinaryOps == {"+", "-", "*", "/", "%", "|", "<<", ">>", "<", "&&"}
PrefixOps == {"negate", "invert", "not"}

ASSUME FoldingAssumption ==
    /\ ByteBits \in Nat \ {0}
    /\ Targets \subseteq {"x86", "m6809"}
    /\ Literals \subseteq 0 .. 2^(4 * ByteBits - 1) - 1
    /\ \A memory \in Memories : \A type \in DOMAIN memory :
            type \in Types /\ memory[type] \in Int
    /\ MaxOperators \in Nat

VARIABLES target,   \* the machine the compiler was built for
          tree,     \* the expression, as the parser made it
          room,     \* how many operators may still be written
          folded,   \* the expression the pass left
          passes    \* how often it was optimised

vars == <<target, tree, room, folded, passes>>

-----------------------------------------------------------------------------
(***************************************************************************)
(* Types.                                                                  *)
(***************************************************************************)
PrimitiveSize(type) ==
    CASE type = "char" -> 1
      [] type = "short" -> 2
      [] type = "int" -> IF target = "m6809" THEN 2 ELSE 4
      [] type = "long" -> IF target = "m6809" THEN 4 ELSE 8

\* A number cut down to this many bits, the top one its sign.
Signed(value, bits) ==
    LET low == value % 2^bits
    IN  IF low < 2^(bits - 1) THEN low ELSE low - 2^bits

Int32(value) == Signed(value, 4 * ByteBits)
Int64(value) == Signed(value, 8 * ByteBits)

\* A char has no sign, every other type has one.
ValueFitsType(value, type) ==
    LET bits == PrimitiveSize(type) * ByteBits
    IN  IF type = "char" THEN value \in 0 .. 2^bits - 1
        ELSE value = Signed(value, bits)

\* The division of the language rounds towards nothing.
Quotient(left, right) ==
    LET Size(n) == IF n < 0 THEN -n ELSE n
    IN  IF (left < 0) = (right < 0) THEN Size(left) \div Size(right)
        ELSE -(Size(left) \div Size(right))

Remainder(left, right) == left - right * Quotient(left, right)

Bit(condition) == IF condition THEN 1 ELSE 0

BitOr(left, right, bits) == Signed((left % 2^bits) | (right % 2^bits), bits)

-----------------------------------------------------------------------------
(***************************************************************************)
(* The parser.                                                             *)
(***************************************************************************)
IsLiteral(node) == node.op = "lit"
IsComparison(node) == node.op = "<"
IsBinary(node) == node.op \in BinaryOps
IsUnary(node) == node.op \in PrefixOps \cup {"widen", "to bool"}

IntLit(value, type) == [op |-> "lit", value |-> value, type |-> type]

\* A number has the narrowest type which holds it.
ParsePrimary(value) ==
    IntLit(value,
           CASE ValueFitsType(value, "char") -> "char"
             [] ~ValueFitsType(value, "char") /\ ValueFitsType(value, "short") -> "short"
             [] ~ValueFitsType(value, "short") /\ ValueFitsType(value, "int") -> "int"
             [] OTHER -> "long")

Leaves == {ParsePrimary(value) : value \in Literals}
     \cup {[op |-> "var", type |-> type] : type \in UNION {DOMAIN m : m \in Memories}}
     \cup {[op |-> "call", type |-> "short"]}

Unary(op, node, type) == [op |-> op, left |-> node, type |-> type]

\* The type of the narrower side is widened; one which is wider is left.
ModifyType(node, wanted) ==
    IF node.type = wanted \/ PrimitiveSize(node.type) > PrimitiveSize(wanted)
    THEN node
    ELSE Unary("widen", node, wanted)

\* Both sides are asked to fit the type the other one was written with, but
\* for those of a logical operator.
MakeOperatorNode(op, first, second) ==
    LET left == IF op = "&&" THEN first ELSE ModifyType(first, second.type)
        right == IF op = "&&" THEN second ELSE ModifyType(second, first.type)
    IN  [op |-> op, left |-> left, right |-> right,
         type |-> IF op \in {"<", "&&"} THEN "int" ELSE left.type]

\* A char is widened before its sign flips.
MakePrefixNode(op, operand) ==
    LET node == IF op = "negate" /\ PrimitiveSize(operand.type) < PrimitiveSize("short")
                THEN ModifyType(operand, "short")
                ELSE operand
    IN  Unary(op, node, IF op = "not" THEN "int" ELSE node.type)

-----------------------------------------------------------------------------
(***************************************************************************)
(* The pass.  What the compiler cannot work out is the empty set, what it  *)
(* can is the set of that number.                                          *)
(***************************************************************************)
FoldBinary(op, left, right) ==
    CASE op = "+" -> {left + right}
      [] op = "-" -> {left - right}
      [] op = "*" -> {left * right}
      [] op = "/" -> IF right = 0 THEN {} ELSE {Quotient(left, right)}
      [] op = "%" ->
            IF right = 0 \/ (left = -(2^(4 * ByteBits - 1)) /\ right = -1) THEN {}
            ELSE {Remainder(left, right)}
      [] op = "|" -> {BitOr(left, right, 8 * ByteBits)}
      [] op = "<<" ->
            IF right \notin 0 .. 8 * ByteBits - 1 THEN {}
            ELSE {Int64((left % 2^(8 * ByteBits)) * 2^right)}
      [] op = ">>" ->
            IF right \notin 0 .. 8 * ByteBits - 1 THEN {}
            ELSE {Int64((left % 2^(8 * ByteBits)) \div 2^right)}
      [] op = "<" -> {Bit(left < right)}
      [] op = "&&" -> {Bit(left # 0 /\ right # 0)}

\* The mutant of FoldUnary() which leaves a number which is widened.
FoldUnaryWithoutWiden(op, operand) ==
    CASE op = "widen" -> {}
      [] op = "negate" -> {-operand}
      [] op = "invert" -> {-operand - 1}
      [] op = "not" -> {Bit(operand = 0)}
      [] op = "to bool" -> {Bit(operand # 0)}

FoldUnary(op, operand) ==
    CASE op = "widen" -> {operand}
      [] op = "negate" -> {-operand}
      [] op = "invert" -> {-operand - 1}
      [] op = "not" -> {Bit(operand = 0)}
      [] op = "to bool" -> {Bit(operand # 0)}

\* The number a node came to stands in its place if it fits the node's type.
FoldedLeaf(node, values) ==
    IF \E value \in values : ValueFitsType(value, node.type)
    THEN IntLit(Int32(CHOOSE value \in values : TRUE), node.type)
    ELSE node

\* The mutant of LeavesOtherSideAlone() which forgets that a number is taken
\* from, and divides, on the right alone.
LeavesEitherSideAlone(op, right_side, value) ==
    \/ op \in {"+", "|", "-", "<<", ">>"} /\ value = 0
    \/ op \in {"*", "/"} /\ value = 1

LeavesOtherSideAlone(op, right_side, value) ==
    \/ op \in {"+", "|"} /\ value = 0
    \/ op = "*" /\ value = 1
    \/ right_side /\ op \in {"-", "<<", ">>"} /\ value = 0
    \/ right_side /\ op = "/" /\ value = 1

NumberDoesNothing(node, right_side) ==
    LET side == IF right_side THEN node.right ELSE node.left
    IN  IsLiteral(side) /\ LeavesOtherSideAlone(node.op, right_side, side.value)

PowerOfTwoPlaces(value) ==
    {places \in 1 .. 4 * ByteBits - 2 : value = 2^places}

ShiftPlaces(side) == IF IsLiteral(side) THEN PowerOfTwoPlaces(side.value) ELSE {}

ShiftOf(node, side, places) ==
    [op |-> "<<", left |-> side, right |-> IntLit(places, node.type),
     type |-> node.type]

WriteMultiplyAsShift(node) ==
    IF node.op # "*" THEN node
    ELSE IF ShiftPlaces(node.left) # {}
    THEN ShiftOf(node, node.right, CHOOSE places \in ShiftPlaces(node.left) : TRUE)
    ELSE IF ShiftPlaces(node.right) # {}
    THEN ShiftOf(node, node.left, CHOOSE places \in ShiftPlaces(node.right) : TRUE)
    ELSE node

Simplify(node) ==
    CASE NumberDoesNothing(node, FALSE) -> node.right
      [] ~NumberDoesNothing(node, FALSE) /\ NumberDoesNothing(node, TRUE) -> node.left
      [] OTHER -> WriteMultiplyAsShift(node)

FoldOperation(node) ==
    CASE IsBinary(node) /\ IsLiteral(node.left) /\ IsLiteral(node.right) ->
            FoldedLeaf(node, FoldBinary(node.op, node.left.value, node.right.value))
      [] IsBinary(node) /\ ~(IsLiteral(node.left) /\ IsLiteral(node.right)) ->
            Simplify(node)
      [] IsUnary(node) /\ IsLiteral(node.left) ->
            FoldedLeaf(node, FoldUnary(node.op, node.left.value))
      [] OTHER -> node

RECURSIVE Fold(_)

\* The mutant of Fold() which works on a node before what is below it.
FoldOutsideIn(node) ==
    LET this == FoldOperation(node)
    IN  CASE IsBinary(this) -> [this EXCEPT !.left = Fold(@), !.right = Fold(@)]
          [] IsUnary(this) -> [this EXCEPT !.left = Fold(@)]
          [] OTHER -> this

\* From the inside out.
Fold(node) ==
    CASE IsBinary(node) ->
            FoldOperation([node EXCEPT !.left = Fold(@), !.right = Fold(@)])
      [] IsUnary(node) -> FoldOperation([node EXCEPT !.left = Fold(@)])
      [] OTHER -> node

-----------------------------------------------------------------------------
Init ==
    /\ target \in Targets
    /\ tree \in Leaves
    /\ room = MaxOperators
    /\ folded = tree
    /\ passes = 0

Written(node, left) ==
    /\ passes = 0
    /\ room > 0
    /\ tree' = node
    /\ folded' = node
    /\ room' = left
    /\ UNCHANGED <<target, passes>>

\* One more operator, what stands already to its left or in parentheses to
\* its right.
BinaryExpression ==
    \E op \in BinaryOps, leaf \in Leaves :
        \/ Written(MakeOperatorNode(op, tree, leaf), room - 1)
        \/ Written(MakeOperatorNode(op, leaf, tree), room - 1)

PrefixExpression == \E op \in PrefixOps : Written(MakePrefixNode(op, tree), room - 1)

\* A condition is asked for its truth value, and then it is complete.
MakeCondition == ~IsComparison(tree) /\ Written(Unary("to bool", tree, "int"), 0)

Optimise ==
    /\ passes = 0
    /\ folded' = Fold(tree)
    /\ passes' = 1
    /\ UNCHANGED <<target, tree, room>>

Next == BinaryExpression \/ PrefixExpression \/ MakeCondition \/ Optimise

Spec == Init /\ [][Next]_vars

-----------------------------------------------------------------------------
(***************************************************************************)
(* The machine.  A register holds a number of its width; an operation the  *)
(* machine stops at has no answer.                                         *)
(***************************************************************************)
RegisterBits(machine, type) ==
    CASE machine = "x86" -> 8 * ByteBits
      [] machine = "m6809" /\ PrimitiveSize(type) <= 2 -> 2 * ByteBits
      [] machine = "m6809" /\ PrimitiveSize(type) > 2 -> 4 * ByteBits

Held(machine, type, value) == Signed(value, RegisterBits(machine, type))

\* The bits a shift works on: the register, or the bytes of the type.
ShiftedBits(machine, type) ==
    IF machine = "x86" THEN 8 * ByteBits ELSE PrimitiveSize(type) * ByteBits

\* How far a shift moves: x86-64 takes the low bits of the count, the 6809
\* goes round once for each place the low byte of the count says, which is
\* kept at its eight bits.
ShiftCount(machine, count) ==
    IF machine = "x86" THEN count % (8 * ByteBits) ELSE count % 256

Shift(machine, op, type, value, count) ==
    LET bits == ShiftedBits(machine, type)
        low == value % 2^bits
        places == ShiftCount(machine, count)
        moved == CASE places >= bits -> 0
                   [] places < bits /\ op = "<<" -> (low * 2^places) % 2^bits
                   [] places < bits /\ op = ">>" -> low \div 2^places
    IN  Held(machine, type, value - low + moved)

\* A division by zero stops the program, and so does a quotient no register
\* of x86-64 holds.
Divide(machine, op, type, left, right) ==
    LET quotient == Quotient(left, right)
    IN  IF right = 0 \/ (machine = "x86" /\ Held(machine, type, quotient) # quotient)
        THEN {}
        ELSE {Held(machine, type, IF op = "/" THEN quotient ELSE Remainder(left, right))}

\* The type is the one the two values have.
Operate(machine, op, type, left, right) ==
    CASE op = "+" -> {Held(machine, type, left + right)}
      [] op = "-" -> {Held(machine, type, left - right)}
      [] op = "*" -> {Held(machine, type, left * right)}
      [] op = "|" -> {BitOr(left, right, RegisterBits(machine, type))}
      [] op \in {"/", "%"} -> Divide(machine, op, type, left, right)
      [] op \in {"<<", ">>"} -> {Shift(machine, op, type, left, right)}
      [] op = "<" -> {Bit(left < right)}

\* On the 6809 a char is widened into a long with zeroes above its two bytes,
\* every other value with its sign.
OperateUnary(machine, op, node, value) ==
    CASE op = "widen" ->
            IF /\ machine = "m6809" /\ node.left.type = "char"
               /\ PrimitiveSize(node.type) > 2
            THEN value % 2^(2 * ByteBits)
            ELSE value
      [] op = "negate" -> Held(machine, node.left.type, -value)
      [] op = "invert" -> Held(machine, node.left.type, -value - 1)
      [] op = "not" -> Bit(value = 0)
      [] op = "to bool" -> Bit(value # 0)

Sees(value, calls) == [values |-> {value}, calls |-> calls]

\* A comparison is as wide as what it compares.
RunBinary(machine, node, left, right) ==
    LET type == IF IsComparison(node) THEN node.left.type ELSE node.type
    IN  IF left.values = {} THEN left
        ELSE [values |-> UNION {Operate(machine, node.op, type, a, b) :
                                    a \in left.values, b \in right.values},
              calls |-> left.calls + right.calls]

RunLogic(left, right) ==
    IF left.values \in {{}, {0}} THEN left
    ELSE [values |-> {Bit(value # 0) : value \in right.values},
          calls |-> left.calls + right.calls]

RECURSIVE Run(_, _, _)

\* What the code of the tree leaves in its register on this machine, if it
\* comes to its end, and how many calls it makes.
Run(machine, memory, node) ==
    CASE IsLiteral(node) -> Sees(Held(machine, node.type, node.value), 0)
      [] node.op = "var" -> Sees(memory[node.type], 0)
      [] node.op = "call" -> Sees(1, 1)
      [] IsUnary(node) ->
            [Run(machine, memory, node.left) EXCEPT
                !.values = {OperateUnary(machine, node.op, node, v) : v \in @}]
      [] node.op = "&&" -> RunLogic(Run(machine, memory, node.left),
                                    Run(machine, memory, node.right))
      [] IsBinary(node) /\ node.op # "&&" ->
            RunBinary(machine, node, Run(machine, memory, node.left),
                                     Run(machine, memory, node.right))

-----------------------------------------------------------------------------
RECURSIVE NodesOf(_)
NodesOf(node) ==
    {node} \cup (IF IsUnary(node) THEN NodesOf(node.left) ELSE {})
           \cup (IF IsBinary(node) THEN NodesOf(node.left) \cup NodesOf(node.right)
                 ELSE {})

SameWhenRun ==
    \A memory \in Memories : Run(target, memory, folded) = Run(target, memory, tree)

\* Where the pass and the 6809 are of two minds: a product of chars is worked
\* out in two bytes and the shift written for it in one, and a number below
\* zero which is moved down has the ones of a wider register above it.
IsNarrowed(node) ==
    /\ target = "m6809"
    /\ \/ /\ node.op = "*" /\ node.type = "char"
          /\ ShiftPlaces(Fold(node.left)) \cup ShiftPlaces(Fold(node.right)) # {}
       \/ /\ node.op = ">>" /\ IsLiteral(Fold(node.left))
          /\ Fold(node.left).value < 0

\* A tree which was optimised leaves the value the tree would have left,
\* stops where it would have stopped and makes the calls it would have made,
\* on every machine and whatever the variables hold; the 6809 has exceptions.
OptimisedRunsAlike ==
    SameWhenRun \/ \E node \in NodesOf(tree) : IsNarrowed(node)

\* The same without exceptions, as docs/supported_features.md has it.
OptimisedAlwaysRunsAlike == SameWhenRun

\* Whole registers come to a number of this type, by an operation which is
\* not left to the machine: a shift by a register or more, the one remainder.
IsKnown(node, type) ==
    LET Number(side) == Run("x86", [none \in {} |-> 0], side).values
        Lowest == -(2^(4 * ByteBits - 1))
    IN  /\ \E value \in Number(node) : ValueFitsType(value, type)
        /\ node.op \in {"<<", ">>"} => Number(node.right) \subseteq 0 .. 8 * ByteBits - 1
        /\ node.op = "%" => Number(node.left) # {Lowest} \/ Number(node.right) # {-1}

IsOfNumbers == \A node \in NodesOf(tree) : node.op \notin {"var", "call"}

\* An expression of numbers, each operation of which comes to a number of its
\* type, is one number for the declarations and cases which ask for one.
KnownNumbersFold ==
    /\ passes = 1
    /\ IsOfNumbers
    /\ \A node \in NodesOf(tree) : IsKnown(node, node.type)
    => IsLiteral(folded)

\* Once is enough: a tree which was optimised has nothing left to work out,
\* so that a case value which is optimised twice is the value its duplicates
\* were compared with.
OnceIsEnough == passes = 1 => Fold(folded) = folded

=============================================================================
