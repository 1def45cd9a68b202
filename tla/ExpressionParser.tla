-------------------------- MODULE ExpressionParser --------------------------
(***************************************************************************)
(* The expressions of src/nuocc_parser.cpp, by recursive descent over a    *)
(* list of tokens `ts`.  Each function of the parser is an operator of the *)
(* place it starts at, which answers with the set of what it returns: one  *)
(* tree and the place after it, or nothing at all where the parser stops   *)
(* the compilation.  No expression changes what the symbol table holds.    *)
(***************************************************************************)
EXTENDS SymbolTable, Scanner

Found(tree, next) == [tree |-> tree, next |-> next]

TokenTag(ts, i) ==
    IF ts[i].tag = "T_KeyWord" THEN KeyWords[ts[i].text] ELSE ts[i].tag

(* What was found, when the token after it is the one given, and past it.  *)
Match(found, ts, tag) ==
    {Found(f.tree, f.next + 1) : f \in {g \in found : TokenTag(ts, g.next) = tag}}

(* What a token names, when it is a name of something.                     *)
Lookup(ts, i) == IF ts[i].tag = "T_Identifier" THEN FindSymbol(ts[i].text) ELSE {}

IsSymbol(ts, i, stype) ==
    \E s \in Lookup(ts, i) : s.stype = stype

---------------------------------------------------------------------------
(* Nodes.                                                                  *)

AssignOps ==
    "T_PlusAssign" :> "T_Plus" @@ "T_MinusAssign" :> "T_Minus"
    @@ "T_StarAssign" :> "T_Star" @@ "T_SlashAssign" :> "T_Slash"
    @@ "T_PercentAssign" :> "T_Percent" @@ "T_AmperAssign" :> "T_Amper"
    @@ "T_OrAssign" :> "T_Or" @@ "T_XorAssign" :> "T_Xor"
    @@ "T_LShiftAssign" :> "T_LShift" @@ "T_RShiftAssign" :> "T_RShift"

IsCompoundAssign(op) == op \in DOMAIN AssignOps

IsRightAssociative(op) == op = "T_Assign" \/ IsCompoundAssign(op)

Precedence ==
    [op \in {"T_Assign"} \union DOMAIN AssignOps |-> 10]
    @@ "T_Question" :> 15 @@ "T_LogOr" :> 20 @@ "T_LogAnd" :> 30
    @@ "T_Or" :> 40 @@ "T_Xor" :> 50 @@ "T_Amper" :> 60
    @@ [op \in {"T_EQ", "T_NE"} |-> 70]
    @@ [op \in {"T_LT", "T_GT", "T_LE", "T_GE"} |-> 80]
    @@ [op \in {"T_LShift", "T_RShift"} |-> 90]
    @@ [op \in {"T_Plus", "T_Minus"} |-> 100]
    @@ [op \in {"T_Star", "T_Slash", "T_Percent"} |-> 110]

GetOpPrecedence(op) == IF op \in DOMAIN Precedence THEN Precedence[op] ELSE 0

IntLit(value, base) == Node("IntLit", "", value, Plain(base), <<>>)

(* A leaf for a name knows where in the frame it is, when it is there.     *)
Identifier(symbol) == Node("Identifier", symbol.id, symbol.offset, symbol.type, <<>>)

Address(symbol) ==
    Node("Address", symbol.id, symbol.offset, PointerTo(symbol.type), <<>>)

Deref(tree) == Node("Deref", "", 0, ValueAt(tree.type), <<tree>>)

Unary(node, tree, base) == Node(node, "", 0, Plain(base), <<tree>>)

IncDec(place, step, when) == Node("IncDec", when, step, place.type, <<place>>)

(* An operator keeps the definition of whichever side has one.             *)
Operator(op, type, left, right) ==
    Node("Operator", op, 0,
         [type EXCEPT !.composite = IF left.type.composite # 0
                                    THEN left.type.composite
                                    ELSE right.type.composite],
         <<left, right>>)

Member(place, member, through) ==
    Node("Member", member.id, IF through THEN 1 ELSE 0,
         IF member.stype = "kArray" THEN PointerTo(member.type) ELSE member.type,
         <<place>>)

NamesArray(id) ==
    \E k \in DOMAIN symbols : symbols[k].id = id /\ symbols[k].stype = "kArray"

IsArrayAddress(tree) == tree.node = "Address" /\ NamesArray(tree.of)

IsArrayMember(tree) ==
    /\ tree.node = "Member"
    /\ \E d \in DOMAIN types : \E k \in DOMAIN types[d].members :
           LET member == types[d].members[k]
           IN  member.id = tree.of /\ member.stype = "kArray"

IsLvalue(tree) == tree.node \in {"Identifier", "Deref", "Member"}

IsTestable(tree) == IsIntType(tree.type) \/ IsPointerType(tree.type)

MakeCondition(tree) ==
    IF tree.node = "Operator" /\ IsComparisonOp(tree.of) THEN tree
    ELSE Unary("ToBool", tree, "int")

Fitted(tree, type, op) == ModifyType(tree, type, op, types)

---------------------------------------------------------------------------
(* An operator put over its two sides.                                     *)

(* An assignment holds the value first and its target second.  A composite *)
(* is stored as a whole, from a place of the same type.                    *)
MakeAssign(op, target, value) ==
    IF ~IsLvalue(target) \/ IsArrayMember(target) THEN {}
    ELSE IF IsComposite(target.type)
    THEN IF /\ ~IsCompoundAssign(op) /\ IsLvalue(value)
            /\ IsComposite(value.type)
            /\ value.type.composite = target.type.composite
         THEN {Operator(op, value.type, value, target)} ELSE {}
    ELSE {Operator(op, fitted.type, fitted, target) :
              fitted \in Fitted(value, target.type,
                                IF IsCompoundAssign(op) THEN AssignOps[op]
                                                        ELSE "none")}

MakeLogic(op, left, right) ==
    IF IsTestable(left) /\ IsTestable(right)
    THEN {Operator(op, Plain("int"), left, right)} ELSE {}

(* Each side is tried against the type the other one came with.            *)
MakeOperator(op, left, right) ==
    LET lefts  == Fitted(left, right.type, op)
        rights == Fitted(right, left.type, op)
        Or(made, tree) == IF made = {} THEN {tree} ELSE made
    IN  IF lefts = {} /\ rights = {} THEN {}
        ELSE {Operator(op, IF IsComparisonOp(op) THEN Plain("int") ELSE l.type,
                       l, r) : l \in Or(lefts, left), r \in Or(rights, right)}

Combine(op, left, right) ==
    IF op = "T_Assign" \/ IsCompoundAssign(op) THEN MakeAssign(op, left, right)
    ELSE IF op \in {"T_LogAnd", "T_LogOr"} THEN MakeLogic(op, left, right)
    ELSE MakeOperator(op, left, right)

MakeTernary(condition, yes, no) ==
    LET Ternary(type, a, b) == Node("Ternary", "", 0, type, <<condition, a, b>>)
    IN  IF yes.type.base = "void" /\ no.type.base = "void"
           /\ yes.type.levels = 0 /\ no.type.levels = 0
        THEN {Ternary(Plain("void"), yes, no)}
        ELSE IF Fitted(no, yes.type, "none") # {}
        THEN {Ternary(yes.type, yes, b) : b \in Fitted(no, yes.type, "none")}
        ELSE {Ternary(no.type, a, no) : a \in Fitted(yes, no.type, "none")}

(* A place the new value of a '++' can go back to.                         *)
IsIncrementable(tree) ==
    /\ ~IsArrayAddress(tree) /\ ~IsArrayMember(tree)
    /\ tree.node # "IncDec" /\ ~IsComposite(tree.type) /\ IsLvalue(tree)

IncrementStep(place, op) ==
    LET step == IF IsPointerType(place.type)
                THEN ValueSize(ValueAt(place.type), types) ELSE 1
    IN  IF op = "T_Inc" THEN step ELSE -step

Incremented(tree, op, when) ==
    IF IsIncrementable(tree)
    THEN {IncDec(tree, IncrementStep(tree, op), when)} ELSE {}

MakeAddress(operand) ==
    CASE operand.node = "Deref" -> {operand.kids[1]}
      [] operand.node = "Member" ->
             IF IsArrayMember(operand) THEN {}
             ELSE {Node("AddressExpr", "", 0, PointerTo(operand.type), <<operand>>)}
      [] operand.node = "Identifier" ->
             {Node("Address", operand.of, operand.num, PointerTo(operand.type), <<>>)}
      [] OTHER -> {}

(* A char has no negative, so it is made a short first.                    *)
MakeNegate(operand) ==
    LET wide == IF PrimitiveSize(operand.type) < PrimitiveSize(Plain("short"))
                THEN Widen(operand, Plain("short")) ELSE operand
    IN  IF IsIntType(operand.type)
        THEN {Unary("Negate", wide, wide.type.base)} ELSE {}

MakePrefix(op, operand) ==
    CASE op = "T_Amper" -> MakeAddress(operand)
      [] op = "T_Star" -> IF IsPointerType(operand.type) THEN {Deref(operand)}
                                                         ELSE {}
      [] op = "T_Minus" -> MakeNegate(operand)
      [] op = "T_Invert" -> IF IsIntType(operand.type)
                            THEN {Unary("Invert", operand, operand.type.base)}
                            ELSE {}
      [] op = "T_LogNot" -> IF IsIntType(operand.type)
                            THEN {Unary("LogNot", operand, "int")} ELSE {}

(* The members which lead to a name, the anonymous ones on the way first.  *)
RECURSIVE MemberPath(_, _)
MemberPath(definition, name) ==
    LET members == types[definition].members
        Named   == {k \in DOMAIN members : members[k].name = name}
        Through == {k \in DOMAIN members :
                        /\ members[k].name = <<>> /\ members[k].type.composite # 0
                        /\ MemberPath(members[k].type.composite, name) # <<>>}
    IN  IF Named # {} THEN <<members[Min(Named)]>>
        ELSE IF Through = {} THEN <<>>
        ELSE <<members[Min(Through)]>>
                 \o MemberPath(members[Min(Through)].type.composite, name)

(* A member of a value, or with '->' of what a pointer reaches; only the   *)
(* first step of the path goes through the pointer.                        *)
MakeMember(base, op, name) ==
    LET through == op = "T_Arrow"
        wanted  == IF through THEN 1 ELSE 0
        path    == MemberPath(base.type.composite, name)
    IN  IF /\ base.type.base = "composite" /\ base.type.levels = wanted
           /\ base.type.composite # 0 /\ (through \/ IsLvalue(base))
           /\ path # <<>>
        THEN {FoldLeftDomain(LAMBDA place, k :
                                 Member(place, path[k], through /\ k = 1),
                             base, path)}
        ELSE {}

MakeIndex(base, index) ==
    IF ~IsPointerType(base.type) THEN {}
    ELSE {Deref(Operator("T_Plus", base.type, base, offset)) :
              offset \in Fitted(index, base.type, "T_Plus")}

(* The type an argument the parameters do not name travels at.             *)
PromotedType(type) ==
    IF IsIntType(type) /\ PrimitiveSize(type) < PrimitiveSize(Plain("int"))
    THEN Plain("int") ELSE type

MaxArguments == 6

MakeCall(function, arguments) ==
    LET named  == function.parameters
        fitted == [k \in DOMAIN arguments |->
                      IF k \in DOMAIN named
                      THEN Fitted(arguments[k], named[k], "none")
                      ELSE IF PromotedType(arguments[k].type) = arguments[k].type
                      THEN {arguments[k]}
                      ELSE {Widen(arguments[k], PromotedType(arguments[k].type))}]
    IN  IF /\ Len(arguments) <= MaxArguments
           /\ IF function.variadic THEN Len(arguments) >= Len(named)
                                   ELSE Len(arguments) = Len(named)
           /\ \A k \in DOMAIN fitted : fitted[k] # {}
        THEN {Node("Call", function.id, 0, function.type,
                   [k \in DOMAIN fitted |-> CHOOSE tree \in fitted[k] : TRUE])}
        ELSE {}

LiteralType(value) ==
    IF value \in 0 .. 255 THEN "char"
    ELSE IF ValueFitsType(value, Plain("short")) THEN "short"
    ELSE IF ValueFitsType(value, Plain("int")) THEN "int" ELSE "long"

(* The room a value takes: that of the whole array for a name of one.      *)
SizeOfValue(tree) ==
    IF tree.node = "Address"
    THEN StorageSize(CHOOSE s \in ToSet(symbols) : s.id = tree.of)
    ELSE ValueSize(tree.type, types)

MakeName(symbol, next) ==
    CASE symbol.stype = "kEnumValue" -> {IntLit(symbol.num, "int")}
      [] symbol.stype = "kArray" ->
             IF next \in {"T_Inc", "T_Dec"} THEN {} ELSE {Address(symbol)}
      [] symbol.stype = "kVariable" -> {Identifier(symbol)}
      [] OTHER -> {}

---------------------------------------------------------------------------
(* The descent.                                                            *)

TypeWords == "T_Void" :> "void" @@ "T_Char" :> "char" @@ "T_Short" :> "short"
             @@ "T_Int" :> "int" @@ "T_Long" :> "long"

TagWords == {"T_Struct", "T_Union", "T_Enum"}

StartsCast(ts, i) ==
    TokenTag(ts, i) \in DOMAIN TypeWords \union TagWords \/ IsSymbol(ts, i, "kTypedef")

(* The type of a tag, which a struct or a union takes as it finds it.      *)
TagType(word, tag) ==
    IF word # "T_Enum" THEN {TypeRef("composite", 0, tag.definition)}
    ELSE IF tag.definition = 0 THEN {Plain("int")} ELSE {}

(* The type written at a place and where it ends: a keyword, a typedef, or *)
(* a tag which is known.  What a tag is defined as is not read here.       *)
BaseType(ts, i) ==
    LET word == TokenTag(ts, i)
    IN  CASE word \in DOMAIN TypeWords -> {Found(Plain(TypeWords[word]), i + 1)}
          [] word \in TagWords ->
                 IF ts[i + 1].tag # "T_Identifier" \/ TokenTag(ts, i + 2) = "T_LBrace"
                 THEN {}
                 ELSE {Found(type, i + 2) : type \in
                           UNION {TagType(word, tag) : tag \in FindTag(ts[i + 1].text)}}
          [] OTHER -> {Found(s.type, i + 1) :
                           s \in {r \in Lookup(ts, i) : r.stype = "kTypedef"}}

ParseStars(ts, i, type) ==
    LET stars == Max({n \in 0 .. Len(ts) - i :
                          \A k \in i .. i + n - 1 : TokenTag(ts, k) = "T_Star"})
    IN  Found([type EXCEPT !.levels = @ + stars], i + stars)

ParseType(ts, i) == {ParseStars(ts, base.next, base.tree) : base \in BaseType(ts, i)}

RECURSIVE BinaryExpression(_, _, _), Operators(_, _, _, _),
          PrefixExpression(_, _), ParsePrimary(_, _), PostfixExpression(_, _),
          Postfixes(_, _, _), Arguments(_, _, _)

PrefixOps == {"T_Amper", "T_Star", "T_Minus", "T_Invert", "T_LogNot"}

(* A mutant: an operator is taken in after one which binds as tightly.     *)
BindsAlways(op, ptp) == GetOpPrecedence(op) > 0 /\ GetOpPrecedence(op) >= ptp

(* Whether an operator is taken in after one of the precedence given.      *)
Binds(op, ptp) ==
    \/ GetOpPrecedence(op) > ptp
    \/ IsRightAssociative(op) /\ GetOpPrecedence(op) = ptp

BinaryExpression(ts, i, ptp) ==
    UNION {Operators(ts, left.tree, left.next, ptp) : left \in PrefixExpression(ts, i)}

TernaryParts(ts, i) ==
    UNION {{<<yes.tree, no>> : no \in BinaryExpression(ts, yes.next, 0)} :
               yes \in Match(BinaryExpression(ts, i, 0), ts, "T_Colon")}

(* The loop over the operators after what has been read.                   *)
Operators(ts, left, i, ptp) ==
    LET op == TokenTag(ts, i)
    IN  IF ~Binds(op, ptp) THEN {Found(left, i)}
        ELSE IF op = "T_Question"
        THEN UNION {UNION {Operators(ts, tree, part[2].next, ptp) :
                               tree \in MakeTernary(MakeCondition(left), part[1],
                                                    part[2].tree)} :
                        part \in TernaryParts(ts, i + 1)}
        ELSE UNION {UNION {Operators(ts, tree, right.next, ptp) :
                               tree \in Combine(op, left, right.tree)} :
                        right \in BinaryExpression(ts, i + 1, GetOpPrecedence(op))}

PrefixExpression(ts, i) ==
    LET op == TokenTag(ts, i)
    IN  IF op \in PrefixOps
        THEN UNION {{Found(tree, f.next) : tree \in MakePrefix(op, f.tree)} :
                        f \in PrefixExpression(ts, i + 1)}
        ELSE IF op \in {"T_Inc", "T_Dec"}
        THEN UNION {{Found(tree, f.next) : tree \in Incremented(f.tree, op, "pre")} :
                        f \in PostfixExpression(ts, i + 1)}
        ELSE PostfixExpression(ts, i)

PostfixExpression(ts, i) ==
    UNION {Postfixes(ts, f.tree, f.next) : f \in ParsePrimary(ts, i)}

Postfixes(ts, tree, i) ==
    LET op == TokenTag(ts, i)
    IN  IF op \in {"T_Dot", "T_Arrow"}
        THEN IF ts[i + 1].tag # "T_Identifier" THEN {}
             ELSE UNION {Postfixes(ts, made, i + 2) :
                             made \in MakeMember(tree, op, ts[i + 1].text)}
        ELSE IF op = "T_LBracket"
        THEN UNION {UNION {Postfixes(ts, made, f.next) :
                               made \in MakeIndex(tree, f.tree)} :
                        f \in Match(BinaryExpression(ts, i + 1, 0), ts, "T_RBracket")}
        ELSE IF op \in {"T_Inc", "T_Dec"}
        THEN UNION {Postfixes(ts, made, i + 1) : made \in Incremented(tree, op, "post")}
        ELSE {Found(tree, i)}

(* The arguments after the ones read, up to a token which is no comma.     *)
Arguments(ts, i, read) ==
    UNION {IF TokenTag(ts, f.next) = "T_Comma"
           THEN Arguments(ts, f.next + 1, Append(read, f.tree))
           ELSE {Found(Append(read, f.tree), f.next)} :
               f \in BinaryExpression(ts, i, 0)}

FuncCall(ts, i) ==
    LET functions == {s \in Lookup(ts, i) : s.stype = "kFunction"}
        given     == IF TokenTag(ts, i + 2) = "T_RParen" THEN {Found(<<>>, i + 2)}
                     ELSE Arguments(ts, i + 2, <<>>)
    IN  UNION {UNION {{Found(call, a.next) : call \in MakeCall(f, a.tree)} :
                          f \in functions} : a \in Match(given, ts, "T_RParen")}

(* sizeof of a type or of a value: the value is read and thrown away.      *)
SizeofExpression(ts, i) ==
    LET sized == IF StartsCast(ts, i + 2)
                 THEN {Found(ValueSize(f.tree, types), f.next) :
                           f \in ParseType(ts, i + 2)}
                 ELSE {Found(SizeOfValue(f.tree), f.next) :
                           f \in BinaryExpression(ts, i + 2, 0)}
    IN  IF TokenTag(ts, i + 1) # "T_LParen" THEN {}
        ELSE {Found(IntLit(f.tree, "int"), f.next) :
                  f \in {g \in Match(sized, ts, "T_RParen") : g.tree # 0}}

CastExpression(ts, i) ==
    UNION {{Found(Node("Cast", "", 0, type.tree, <<f.tree>>), f.next) :
                f \in PrefixExpression(ts, type.next)} :
               type \in {t \in Match(ParseType(ts, i + 1), ts, "T_RParen") :
                             ~IsComposite(t.tree) /\ t.tree # Plain("void")}}

(* Strings one after another are one string; how long it is is all that is *)
(* kept of it.                                                             *)
StringLiteral(ts, i) ==
    LET run == {k \in i .. Len(ts) : \A m \in i .. k : ts[m].tag = "T_StrLit"}
    IN  Found(Node("StrLit", "",
                   FoldLeft(LAMBDA sum, t : sum + Len(t.codes), 0,
                            SubSeq(ts, i, Max(run))),
                   PointerTo(Plain("char")), <<>>), Max(run) + 1)

ParsePrimary(ts, i) ==
    LET tag == TokenTag(ts, i)
    IN  CASE tag = "T_IntLit" ->
                 {Found(IntLit(ts[i].codes[1], LiteralType(ts[i].codes[1])), i + 1)}
          [] tag = "T_StrLit" -> {StringLiteral(ts, i)}
          [] tag = "T_Sizeof" -> SizeofExpression(ts, i)
          [] tag = "T_LParen" ->
                 IF StartsCast(ts, i + 1) THEN CastExpression(ts, i)
                 ELSE Match(BinaryExpression(ts, i + 1, 0), ts, "T_RParen")
          [] tag = "T_Identifier" ->
                 IF TokenTag(ts, i + 1) = "T_LParen" THEN FuncCall(ts, i)
                 ELSE UNION {{Found(tree, i + 1) :
                                  tree \in MakeName(s, TokenTag(ts, i + 1))} :
                                 s \in Lookup(ts, i)}
          [] OTHER -> {}
=============================================================================
