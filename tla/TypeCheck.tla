----------------------------- MODULE TypeCheck -----------------------------
(***************************************************************************)
(* The types of src/utils/nuocc_type_check.cpp, the room they take and the *)
(* conversions between them.  A type is a primitive type, how many levels  *)
(* of pointer stand on it, and the definition of the composite it is of:   *)
(* its place in a list of definitions, 0 when there is none.  The list is  *)
(* `defs` throughout.  A tree is what the syntax tree of the compiler      *)
(* keeps of a node, whatever class the node is of.                         *)
(***************************************************************************)
EXTENDS Integers, Sequences

CONSTANT TargetSizes    \* the bytes of a char, short, int, long and pointer

ASSUME SizesGrow ==
    /\ TargetSizes.char = 1
    /\ \A one \in {"short", "int", "long", "pointer"} :
           TargetSizes[one] \in {2, 4, 8}
    /\ TargetSizes.short <= TargetSizes.int /\ TargetSizes.int <= TargetSizes.long

TypeRef(base, levels, composite) ==
    [base |-> base, levels |-> levels, composite |-> composite]

Plain(base) == TypeRef(base, 0, 0)

NoType == Plain("none")

IsPointerType(type) == type.levels > 0

IsIntType(type) ==
    ~IsPointerType(type) /\ type.base \in {"char", "short", "int", "long"}

(* At most fifteen levels: four bits count them.                           *)
IsPointable(type) == type.base # "none" /\ type.levels < 15

PointerTo(type) == [type EXCEPT !.levels = @ + 1]

ValueAt(type) == [type EXCEPT !.levels = @ - 1]

Same(left, right) == left.base = right.base /\ left.levels = right.levels

PrimitiveSize(type) ==
    IF IsPointerType(type) THEN TargetSizes.pointer
    ELSE IF IsIntType(type) THEN TargetSizes[type.base] ELSE 0

IsComposite(type) == type.base = "composite" /\ type.levels = 0

ValueSize(type, defs) ==
    IF IsComposite(type)
    THEN IF type.composite = 0 THEN 0 ELSE defs[type.composite].size
    ELSE PrimitiveSize(type)

ValueAlignment(type, defs) ==
    IF IsComposite(type)
    THEN IF type.composite = 0 THEN 1 ELSE defs[type.composite].alignment
    ELSE IF PrimitiveSize(type) = 0 THEN 1
    ELSE IF PrimitiveSize(type) < 8 THEN PrimitiveSize(type) ELSE 8

SymbolStorageSize(symbol, defs) ==
    ValueSize(symbol.type, defs)
        * (IF symbol.stype = "kArray" THEN symbol.count ELSE 1)

ValueFitsType(value, type) ==
    CASE type = Plain("char") -> value \in 0 .. 255
      [] type # Plain("char") /\ PrimitiveSize(type) = 0 -> FALSE
      [] type # Plain("char") /\ PrimitiveSize(type) = 2 ->
             value \in -32768 .. 32767
      [] OTHER -> TRUE

---------------------------------------------------------------------------

Node(node, of, num, type, kids) ==
    [node |-> node, of |-> of, num |-> num, type |-> type, kids |-> kids]

Widen(tree, type) == Node("Widen", "", 0, [type EXCEPT !.composite = 0], <<tree>>)

(* An offset into what a pointer points at.  The node is given the type    *)
(* of the pointer and no definition.                                       *)
ScaleOffset(tree, pointer, defs) ==
    Node("Scale", "", ValueSize(ValueAt(pointer), defs),
         [pointer EXCEPT !.composite = 0], <<tree>>)

IsComparisonOp(op) == op \in {"T_EQ", "T_NE", "T_LT", "T_GT", "T_LE", "T_GE"}

AnyPointer(type) == Same(ValueAt(type), Plain("void"))

(* Whether one pointer stands where another is wanted.                     *)
PointerFits(type, wanted, op) ==
    \/ IsComparisonOp(op)
    \/ /\ op = "none"
       /\ Same(type, wanted) \/ AnyPointer(type) \/ AnyPointer(wanted)

(* A mutant: an offset is scaled by the room of the pointer instead of     *)
(* that of what it points at.                                              *)
ModifyWithPointer(tree, wanted, op, defs) ==
    IF op \in {"T_Plus", "T_Minus"} /\ IsIntType(tree.type) /\ IsPointerType(wanted)
    THEN {Node("Scale", "", TargetSizes.pointer, wanted, <<tree>>)}
    ELSE IF IsIntType(tree.type) /\ IsIntType(wanted)
    THEN IF PrimitiveSize(tree.type) > PrimitiveSize(wanted) THEN {}
         ELSE {Widen(tree, wanted)}
    ELSE {}

(* The tree made to fit a type, as the set of the one tree that is, which  *)
(* is empty when there is no way.  `op` is the operator the tree takes     *)
(* part in, "none" when it takes part in none.                             *)
ModifyType(tree, wanted, op, defs) ==
    LET type == tree.type
    IN  IF /\ type.base = "composite" /\ wanted.base = "composite"
           /\ type.composite # wanted.composite THEN {}
        ELSE IF op \in {"T_Plus", "T_Minus"} /\ IsIntType(type)
                /\ IsPointerType(wanted) THEN {ScaleOffset(tree, wanted, defs)}
        ELSE IF IsIntType(type) /\ IsIntType(wanted)
        THEN IF type.base = wanted.base THEN {tree}
             ELSE IF PrimitiveSize(type) > PrimitiveSize(wanted) THEN {}
             ELSE {Widen(tree, wanted)}
        ELSE IF IsPointerType(type) /\ IsPointerType(wanted)
                /\ PointerFits(type, wanted, op) THEN {tree}
        ELSE {}
=============================================================================
