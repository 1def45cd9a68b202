---------------------------- MODULE Initialisers ----------------------------
(***************************************************************************)
(* The values variables are declared with in src/nuocc_parser.cpp: how     *)
(* they are read, what is kept of them for a global one, and the           *)
(* statements which store them in a local one.  As in ExpressionParser an  *)
(* operator answers with the set of what it returns, empty when the parser *)
(* stops the compilation.                                                  *)
(***************************************************************************)
EXTENDS ExpressionParser, Layout

RECURSIVE ConstantValues(_)

(* What Optimise makes of a tree when that is a number, for the operators  *)
(* constants are written with here; the others are ConstantFolding's.      *)
ConstantValues(tree) ==
    LET Kid(k) == ConstantValues(tree.kids[k])
        Kids == {<<a, b>> : a \in Kid(1), b \in Kid(2)}
    IN  CASE tree.node = "IntLit" -> {tree.num}
          [] tree.node = "Negate" -> {-v : v \in Kid(1)}
          [] tree.node = "Widen" -> Kid(1)
          [] tree.node = "Operator" /\ tree.of = "T_Plus" -> {p[1] + p[2] : p \in Kids}
          [] tree.node = "Operator" /\ tree.of = "T_Star" -> {p[1] * p[2] : p \in Kids}
          [] OTHER -> {}

ConstantNumber(ts, i) ==
    UNION {{Found(v, f.next) : v \in ConstantValues(f.tree)} : f \in BinaryExpression(ts, i, 0)}

(* The characters of the strings one after another at a place.             *)
StringLiteralText(ts, i) ==
    LET next == StringLiteral(ts, i).next
    IN  Found(FlattenSeq([k \in 1 .. next - i |-> ts[i + k - 1].codes]), next)

---------------------------------------------------------------------------
(* The values between the braces of a composite: each with the members     *)
(* which lead to its place, and which element of an array it is.           *)

WrittenValue(path, element, value) ==
    [path |-> path, element |-> element, value |-> value]

(* After one of `count` values: a comma when another may follow, unless    *)
(* the list ends here.                                                     *)
AfterValue(ts, f, k, count) ==
    IF k = count \/ TokenTag(ts, f.next) = "T_RBrace" THEN {f}
    ELSE Match({f}, ts, "T_Comma")

RECURSIVE ElementsFrom(_, _, _, _, _, _, _)
ElementsFrom(ts, i, k, count, path, type, read) ==
    IF k > count \/ TokenTag(ts, i) = "T_RBrace" THEN {Found(read, i)}
    ELSE UNION {UNION {UNION {
             ElementsFrom(ts, after.next, k + 1, count, path, type,
                          Append(read, WrittenValue(path, k - 1, value))) :
                 after \in AfterValue(ts, f, k, count)} :
                 value \in Fitted(f.tree, type, "none")} :
                 f \in BinaryExpression(ts, i, 0)}

ElementValues(ts, i, member, path) ==
    IF TokenTag(ts, i) # "T_LBrace" THEN {}
    ELSE Match(ElementsFrom(ts, i + 1, 1, member.count, path, member.type, <<>>),
               ts, "T_RBrace")

StringElementValues(ts, i, member, path) ==
    LET string == StringLiteralText(ts, i)
    IN  IF member.type # Plain("char") \/ Len(string.tree) > member.count THEN {}
        ELSE {Found([k \in DOMAIN string.tree |->
                        WrittenValue(path, k - 1, IntLit(string.tree[k], "char"))],
                    string.next)}

RECURSIVE CompositeValues(_, _, _, _, _), MembersFrom(_, _, _, _, _, _)

MemberValues(ts, i, member, path) ==
    CASE member.stype = "kArray" ->
             IF IsComposite(member.type) THEN {}
             ELSE IF TokenTag(ts, i) = "T_StrLit"
             THEN StringElementValues(ts, i, member, path)
             ELSE ElementValues(ts, i, member, path)
      [] member.stype # "kArray" /\ IsComposite(member.type) ->
             CompositeValues(ts, i, member.type.composite, path,
                             member.name # <<>> \/ TokenTag(ts, i) = "T_LBrace")
      [] OTHER ->
             UNION {{Found(<<WrittenValue(path, 0, value)>>, f.next) :
                         value \in Fitted(f.tree, member.type, "none")} :
                        f \in BinaryExpression(ts, i, 0)}

(* How many members take a value: a union is given one of them, the first. *)
ValuesOf(definition) ==
    IF types[definition].kind = "union" THEN 1 ELSE Len(types[definition].members)

MembersFrom(ts, i, definition, path, k, read) ==
    IF k > ValuesOf(definition) \/ TokenTag(ts, i) = "T_RBrace" THEN {Found(read, i)}
    ELSE LET member == types[definition].members[k]
         IN  UNION {UNION {
                 MembersFrom(ts, after.next, definition, path, k + 1, read \o f.tree) :
                     after \in AfterValue(ts, f, k, ValuesOf(definition))} :
                     f \in MemberValues(ts, i, member, Append(path, member))}

CompositeValues(ts, i, definition, path, braced) ==
    IF ~braced THEN MembersFrom(ts, i, definition, path, 1, <<>>)
    ELSE IF TokenTag(ts, i) # "T_LBrace" THEN {}
    ELSE Match(MembersFrom(ts, i + 1, definition, path, 1, <<>>), ts, "T_RBrace")

(* A composite which is given whole, from a place of its own type.         *)
CompositeSource(ts, i, type) ==
    {f \in BinaryExpression(ts, i, 0) : IsLvalue(f.tree) /\ f.tree.type = type}

---------------------------------------------------------------------------
(* What is kept of the value of a global variable.                         *)

Bytes(size) == 256 ^ size

(* The number a room keeps of a value which is too wide for it.            *)
LowBits(value, size) == IF size < 4 THEN value % Bytes(size) ELSE value

RECURSIVE UnderCasts(_)
UnderCasts(tree) == IF tree.node = "Cast" THEN UnderCasts(tree.kids[1]) ELSE tree

(* A piece is at an offset, takes room, and is a number or, when it is a   *)
(* string, how long that is.                                               *)
Piece(offset, size, string, value) ==
    [offset |-> offset, size |-> size, string |-> string, value |-> value]

PieceOffset(base, written) ==
    LET member == Last(written.path)
    IN  FoldLeft(LAMBDA sum, m : sum + m.offset, base, written.path)
            + (IF member.stype = "kArray"
               THEN written.element * ValueSize(member.type, types) ELSE 0)

(* A value under casts is taken as it is written, and keeps the low bits   *)
(* of it which its room holds.                                             *)
PiecesOf(base, written) ==
    LET tree == written.value
        size == ValueSize(tree.type, types)
    IN  IF written.path = <<>> THEN {}
        ELSE IF tree.node = "StrLit"
        THEN {Piece(PieceOffset(base, written), size, TRUE, tree.num)}
        ELSE {Piece(PieceOffset(base, written), size, FALSE, LowBits(value, size)) :
                  value \in ConstantValues(UnderCasts(tree))}

WrittenValuePieces(base, values) ==
    LET pieces == [k \in DOMAIN values |-> PiecesOf(base, values[k])]
    IN  IF \E k \in DOMAIN pieces : pieces[k] = {} THEN {}
        ELSE {[k \in DOMAIN pieces |-> CHOOSE piece \in pieces[k] : TRUE]}

(* The cast a constant may stand behind: of the type it is wanted in, or   *)
(* of any pointer when a pointer is wanted.                                *)
ConstantCast(ts, i, type) ==
    IF TokenTag(ts, i) = "T_LParen" /\ StartsCast(ts, i + 1)
    THEN {f \in Match(ParseType(ts, i + 1), ts, "T_RParen") :
              \/ f.tree = type
              \/ IsPointerType(type) /\ f.tree = PointerTo(Plain("void"))}
    ELSE {Found(NoType, i)}

ConstantFits(value, type, cast) ==
    /\ IsIntType(type) \/ IsPointerType(type)
    /\ IsPointerType(type) => cast # NoType
    /\ \/ cast # NoType
       \/ type \notin {Plain("char"), Plain("short")}
       \/ ValueFitsType(value, type)

ParseConstantValue(ts, i, type) ==
    LET Constant(cast, f) ==
            IF f.tree.node = "StrLit"
            THEN IF type = PointerTo(Plain("char"))
                 THEN {[string |-> TRUE, value |-> f.tree.num]} ELSE {}
            ELSE {[string |-> FALSE, value |-> v] :
                      v \in {n \in ConstantValues(f.tree) :
                                 ConstantFits(n, type, cast)}}
    IN  UNION {UNION {{Found(value, f.next) : value \in Constant(cast.tree, f)} :
                          f \in BinaryExpression(ts, cast.next, 0)} :
                   cast \in ConstantCast(ts, i, type)}

(* A byte of a number of which the code knows the sign, from the lowest up. *)
ByteOf(value, k) ==
    IF k < 4 THEN (value \div Bytes(k)) % 256 ELSE IF value < 0 THEN 255 ELSE 0

BytesOf(value, size) == [k \in 1 .. size |-> ByteOf(value, k - 1)]

(* Where a string of a length is put, a number like no other.              *)
TextAt(length) == 100000 + length

Noughts(n) == [k \in 1 .. n |-> 0]

GlobalBytes(value, size) ==
    BytesOf(IF value.string THEN TextAt(value.value) ELSE value.value, size)

(* The storage of a global variable as GenGlobSymbol writes it down: the   *)
(* pieces of a composite with noughts between them, or one element after   *)
(* another.                                                                *)
GenGlobSymbol(symbol) ==
    LET room == ValueSize(symbol.type, types)
        pieces == FoldLeft(LAMBDA out, piece :
                      out \o Noughts(piece.offset - Len(out)) \o GlobalBytes(piece, piece.size),
                      <<>>, symbol.pieces)
        element(k) == IF k \in DOMAIN symbol.values THEN GlobalBytes(symbol.values[k], room)
                      ELSE Noughts(room)
    IN  IF IsComposite(symbol.type)
        THEN pieces \o Noughts(StorageSize(symbol) - Len(pieces))
        ELSE FlattenSeq([k \in 1 .. IF symbol.stype = "kArray" THEN symbol.count ELSE 1
                             |-> element(k)])

---------------------------------------------------------------------------
(* The statements which give a local variable its value.                   *)

Statement(node, of, num, kids) == Node(node, of, num, NoType, kids)

Nothing == Statement("Nothing", "", 0, <<>>)

Glue(left, right) == Statement("Glue", "", 0, <<left, right>>)

GlueStatements(trees) ==
    IF trees = <<>> THEN Nothing ELSE FoldLeft(Glue, trees[1], Tail(trees))

MemberPlace(place, path) ==
    FoldLeft(LAMBDA within, member : Member(within, member, FALSE), place, path)

(* A mutant: how far into it is counted in bytes.                          *)
ElementPlaceUnscaled(place, index) ==
    Deref(Operator("T_Plus", place.type, place, IntLit(index, "int")))

(* An element of what a place has the address of.                          *)
ElementPlace(place, index) ==
    Deref(Operator("T_Plus", place.type, place,
                   ScaleOffset(IntLit(index, "int"), place.type, types)))

PlaceElementAssignment(place, index, value) ==
    Operator("T_Assign", value.type, value, ElementPlace(place, index))

ElementAssignment(symbol, index, value) ==
    PlaceElementAssignment(Address(symbol), index, value)

StoreValue(place, written) ==
    IF written.path # <<>> /\ Last(written.path).stype = "kArray"
    THEN PlaceElementAssignment(place, written.element, written.value)
    ELSE Operator("T_Assign", written.value.type, written.value, place)

StoreWrittenValues(symbol, values) ==
    [k \in DOMAIN values |->
        StoreValue(MemberPlace(Identifier(symbol), values[k].path), values[k])]

StoreElementValues(symbol, element, values) ==
    [k \in DOMAIN values |->
        StoreValue(MemberPlace(ElementPlace(Address(symbol), element), values[k].path),
                   values[k])]

Local(name, type, offset) ==
    [Variable(name, FoldLeft(LAMBDA all, letter : all \o letter, "", name)
                        \o "@" \o ToString(offset), type)
        EXCEPT !.storage = "kLocal", !.offset = offset]

Store(value, target) == Operator("T_Assign", target.type, value, target)

(* The loop which puts a nought in every byte of a variable, and the       *)
(* counter it hides in the frame.                                          *)
Counter(used) == Local(<<>>, Plain("int"), Placed(used, ValueAlignment(Plain("int"), types)))

ClearArray(symbol, room, counter) ==
    LET count == Identifier(counter)
        byte  == Deref(Operator("T_Plus", PointerTo(Plain("char")),
                                Address(symbol), count))
    IN  Glue(Store(IntLit(0, "int"), count),
             Statement("For", "", 0,
                 << Operator("T_LT", Plain("int"), count, IntLit(room, "int")),
                    Store(IntLit(0, "char"), byte),
                    Store(Operator("T_Plus", Plain("int"), count, IntLit(1, "int")),
                          count) >>))
=============================================================================
