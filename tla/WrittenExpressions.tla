------------------------- MODULE WrittenExpressions -------------------------
(***************************************************************************)
(* What the language promises of an expression: how one is written down    *)
(* with no more parentheses than the grammar of docs/bnf.txt asks for,     *)
(* what it means, and the type it is of.  Nothing here is a translation of *)
(* the parser, which is what is checked against it.                        *)
(*                                                                         *)
(* An expression as its writer means it is a form, what is written there   *)
(* (an operator, or the letters of a name), a number and the expressions   *)
(* it is made of.                                                          *)
(***************************************************************************)
EXTENDS ExpressionParser

Written(form, of, name, num, kids) ==
    [form |-> form, of |-> of, name |-> name, num |-> num, kids |-> kids]

Name(letters) == Written("Name", "", letters, 0, <<>>)
Number(letters, value) == Written("Number", "", letters, value, <<>>)
Binary(op, a, b) == Written("Binary", op, <<>>, 0, <<a, b>>)
Question(a, b, c) == Written("Ternary", "", <<>>, 0, <<a, b, c>>)
Prefix(op, a) == Written("Prefix", op, <<>>, 0, <<a>>)
Postfix(op, a) == Written("Postfix", op, <<>>, 0, <<a>>)
Index(a, b) == Written("Index", "", <<>>, 0, <<a, b>>)
Select(op, a, letters) == Written("Select", op, letters, 0, <<a>>)
Call(letters, arguments) == Written("Call", "", letters, 0, arguments)
Cast(word, stars, a) == Written("Cast", "", word, stars, <<a>>)
Sizeof(a) == Written("Sizeof", "", <<>>, 0, <<a>>)

---------------------------------------------------------------------------
(* How it is written.                                                      *)

Spelling ==
    "T_Plus" :> <<"+">> @@ "T_Minus" :> <<"-">> @@ "T_Star" :> <<"*">>
    @@ "T_Slash" :> <<"/">> @@ "T_Percent" :> <<"%">> @@ "T_Assign" :> <<"=">>
    @@ "T_LT" :> <<"<">> @@ "T_GT" :> <<">">> @@ "T_Amper" :> <<"&">>
    @@ "T_Or" :> <<"|">> @@ "T_Xor" :> <<"^">> @@ "T_Invert" :> <<"~">>
    @@ "T_LogNot" :> <<"!">> @@ "T_Question" :> <<"?">> @@ "T_Dot" :> <<".">>
    @@ "T_LParen" :> <<"(">> @@ "T_RParen" :> <<")">>
    @@ "T_LBracket" :> <<"[">> @@ "T_RBracket" :> <<"]">>
    @@ "T_LBrace" :> <<"{">> @@ "T_RBrace" :> <<"}">>
    @@ "T_Semicolon" :> <<";">> @@ "T_Comma" :> <<",">> @@ "T_Colon" :> <<":">>
    @@ "T_EQ" :> <<"=", "=">> @@ "T_NE" :> <<"!", "=">> @@ "T_LE" :> <<"<", "=">>
    @@ "T_GE" :> <<">", "=">> @@ "T_LShift" :> <<"<", "<">>
    @@ "T_RShift" :> <<">", ">">> @@ "T_LogAnd" :> <<"&", "&">>
    @@ "T_LogOr" :> <<"|", "|">> @@ "T_Inc" :> <<"+", "+">>
    @@ "T_Dec" :> <<"-", "-">> @@ "T_Arrow" :> <<"-", ">">>
    @@ "T_PlusAssign" :> <<"+", "=">> @@ "T_MinusAssign" :> <<"-", "=">>
    @@ "T_StarAssign" :> <<"*", "=">> @@ "T_SlashAssign" :> <<"/", "=">>
    @@ "T_PercentAssign" :> <<"%", "=">> @@ "T_AmperAssign" :> <<"&", "=">>
    @@ "T_OrAssign" :> <<"|", "=">> @@ "T_XorAssign" :> <<"^", "=">>
    @@ "T_Ellipsis" :> <<".", ".", ".">>
    @@ "T_LShiftAssign" :> <<"<", "<", "=">>
    @@ "T_RShiftAssign" :> <<">", ">", "=">>

Assigns == {"T_Assign", "T_PlusAssign", "T_MinusAssign", "T_StarAssign",
            "T_SlashAssign", "T_PercentAssign", "T_AmperAssign", "T_OrAssign",
            "T_XorAssign", "T_LShiftAssign", "T_RShiftAssign"}

(* The rows of the grammar, the loosest first.                             *)
Rows == << Assigns, {"T_Question"}, {"T_LogOr"}, {"T_LogAnd"}, {"T_Or"},
           {"T_Xor"}, {"T_Amper"}, {"T_EQ", "T_NE"},
           {"T_LT", "T_GT", "T_LE", "T_GE"}, {"T_LShift", "T_RShift"},
           {"T_Plus", "T_Minus"}, {"T_Star", "T_Slash", "T_Percent"} >>

PrefixRow == Len(Rows) + 1
PostfixRow == PrefixRow + 1

Row(w) ==
    CASE w.form = "Binary" -> CHOOSE k \in DOMAIN Rows : w.of \in Rows[k]
      [] w.form = "Ternary" -> 2
      [] w.form \in {"Prefix", "Cast"} -> PrefixRow
      [] OTHER -> PostfixRow

Around(open, lexemes, close) == <<open>> \o lexemes \o <<close>>

RECURSIVE Spelled(_, _)

(* The lexemes of an expression where the grammar wants one of a row.      *)
Spelled(w, row) ==
    LET Kid(k, r) == Spelled(w.kids[k], r)
        lexemes ==
            CASE w.form \in {"Name", "Number"} -> <<w.name>>
              [] w.form = "Binary" ->
                     IF w.of \in Assigns
                     THEN Append(Kid(1, PrefixRow), Spelling[w.of]) \o Kid(2, 1)
                     ELSE Append(Kid(1, Row(w)), Spelling[w.of]) \o Kid(2, Row(w) + 1)
              [] w.form = "Ternary" ->
                     Append(Kid(1, 3), <<"?">>) \o Append(Kid(2, 1), <<":">>)
                         \o Kid(3, 1)
              [] w.form = "Prefix" -> <<Spelling[w.of]>> \o Kid(1, PrefixRow)
              [] w.form = "Postfix" -> Append(Kid(1, PostfixRow), Spelling[w.of])
              [] w.form = "Index" ->
                     Kid(1, PostfixRow) \o Around(<<"[">>, Kid(2, 1), <<"]">>)
              [] w.form = "Select" ->
                     Kid(1, PostfixRow) \o <<Spelling[w.of], w.name>>
              [] w.form = "Call" ->
                     <<w.name>> \o Around(<<"(">>,
                         FoldLeftDomain(LAMBDA all, k :
                             all \o (IF k = 1 THEN <<>> ELSE <<<<",">>>>) \o Kid(k, 1),
                             <<>>, w.kids), <<")">>)
              [] w.form = "Cast" ->
                     Around(<<"(">>,
                         <<w.name>> \o [n \in 1 .. w.num |-> <<"*">>], <<")">>)
                         \o Kid(1, PrefixRow)
              [] w.form = "Sizeof" ->
                     <<<<"s","i","z","e","o","f">>>>
                         \o Around(<<"(">>, Kid(1, 1), <<")">>)
    IN  IF Row(w) < row THEN Around(<<"(">>, lexemes, <<")">>) ELSE lexemes

IsWordCharacter(c) == c \notin {Spelling[op][1] : op \in DOMAIN Spelling}
                      /\ c \notin {" ", "\t", "\n", "'", "\"", "#"}

(* Whether a lexeme would take in what is written straight after it: a     *)
(* word takes in letters, and an operator what makes it a longer one.      *)
(* Two dots are held apart too, since the scanner knows no such operator.  *)
RunsOn(lexeme, rest) ==
    /\ rest # <<>>
    /\ IF IsWordCharacter(lexeme[1])
       THEN IsWordCharacter(rest[1])
       ELSE \/ \E op \in DOMAIN Spelling :
                   /\ Len(Spelling[op]) > Len(lexeme)
                   /\ IsPrefix(Spelling[op], lexeme \o rest)
                   /\ IsPrefix(lexeme, Spelling[op])
            \/ lexeme = <<".">> /\ rest[1] = "."

(* The characters of a list of lexemes: a gap stands where two would run   *)
(* into one another and nowhere else.                                      *)
Joined(lexemes, gap) ==
    FoldRight(LAMBDA lexeme, rest :
                  lexeme \o (IF RunsOn(lexeme, rest) THEN gap ELSE <<>>) \o rest,
              lexemes, <<>>)

---------------------------------------------------------------------------
(* What it means.  A tree without the conversions the parser puts in.      *)

Bare(node, of, num, kids) == [node |-> node, of |-> of, num |-> num, kids |-> kids]

Sign(n) == IF n < 0 THEN -1 ELSE IF n > 0 THEN 1 ELSE 0

RECURSIVE Stripped(_)
Stripped(tree) ==
    LET kids == [k \in DOMAIN tree.kids |-> Stripped(tree.kids[k])]
    IN  CASE tree.node \in {"Widen", "Scale", "ToBool"} -> kids[1]
          [] tree.node = "Operator" /\ tree.of \in Assigns ->
                 Bare("Operator", tree.of, 0, <<kids[2], kids[1]>>)
          [] tree.node = "IncDec" -> Bare("IncDec", tree.of, Sign(tree.num), kids)
          [] tree.node = "Cast" ->
                 Bare("Cast", tree.type.base, tree.type.levels, kids)
          [] tree.node \in {"Identifier", "Address"} -> Bare(tree.node, tree.of, 0, kids)
          [] OTHER -> Bare(tree.node, tree.of, tree.num, kids)

(* What a name stands for.                                                 *)
Symbolled(name) == CHOOSE symbol \in FindSymbol(name) : TRUE

(* The members a name is reached by: its own, or an anonymous one and it.  *)
Way(definition, name) ==
    LET members == ToSet(types[definition].members)
        own == {m \in members : m.name = name}
        inner == {<<a, m>> \in UNION {{<<a, m>> : m \in
                      ToSet(types[a.type.composite].members)} :
                      a \in {b \in members : b.name = <<>>}} : m.name = name}
    IN  IF own # {} THEN <<CHOOSE m \in own : TRUE>>
        ELSE IF inner # {} THEN CHOOSE pair \in inner : TRUE ELSE <<>>

IsVoid(type) == type.base = "void" /\ type.levels = 0

(* The type of an expression, and NoType when the language has none for    *)
(* it.  Where a pointer and an integer stand beside each other only a sum  *)
(* and a difference mean something.                                        *)
IsPlace(w) == \/ w.form = "Name" /\ Symbolled(w.name).stype = "kVariable"
              \/ w.form \in {"Index", "Select"}
              \/ w.form = "Prefix" /\ w.of = "T_Star"

Wider(a, b) == IF PrimitiveSize(a) >= PrimitiveSize(b) THEN a ELSE b

(* Whether a value of a type may be stored where another is wanted.        *)
Stores(type, wanted) ==
    \/ IsIntType(type) /\ IsIntType(wanted)
           /\ PrimitiveSize(type) <= PrimitiveSize(wanted)
    \/ /\ IsPointerType(type) /\ IsPointerType(wanted)
       /\ \/ Same(type, wanted) /\ (type.base = "composite" =>
                                        type.composite = wanted.composite)
          \/ AnyPointer(type) \/ AnyPointer(wanted)

Together(op, a, b) ==
    CASE op \in {"T_LogAnd", "T_LogOr"} ->
             IF /\ IsIntType(a) \/ IsPointerType(a)
                /\ IsIntType(b) \/ IsPointerType(b) THEN Plain("int") ELSE NoType
      [] IsComparisonOp(op) ->
             IF \/ IsIntType(a) /\ IsIntType(b)
                \/ /\ IsPointerType(a) /\ IsPointerType(b)
                   /\ ~(a.base = "composite" /\ b.base = "composite"
                            /\ a.composite # b.composite)
             THEN Plain("int") ELSE NoType
      [] OTHER ->
             IF IsIntType(a) /\ IsIntType(b) THEN Wider(a, b)
             ELSE IF op \in {"T_Plus", "T_Minus"} /\ IsPointerType(a) /\ IsIntType(b)
             THEN a
             ELSE IF op \in {"T_Plus", "T_Minus"} /\ IsIntType(a) /\ IsPointerType(b)
             THEN b ELSE NoType

RECURSIVE TypeOf(_), IsWholeArray(_)

IsWholeArray(w) ==
    \/ w.form = "Name" /\ Symbolled(w.name).stype = "kArray"
    \/ w.form = "Select" /\ LET base == TypeOf(w.kids[1])
                                way  == Way(base.composite, w.name)
                            IN  way # <<>> /\ Last(way).stype = "kArray"
    \/ w.form = "Prefix" /\ w.of = "T_Amper" /\ w.kids[1].form = "Prefix"
           /\ w.kids[1].of = "T_Star" /\ IsWholeArray(w.kids[1].kids[1])

Steps(w, type) ==
    /\ IsPlace(w) /\ ~IsWholeArray(w)
    /\ IsIntType(type) \/ IsPointerType(type)

TypeOf(w) ==
    LET parts == [k \in DOMAIN w.kids |-> TypeOf(w.kids[k])]
        Is(type) == IF \E k \in DOMAIN parts : parts[k] = NoType
                    THEN NoType ELSE type
        a == parts[1]
        b == parts[2]
        If(holds, type) == IF holds THEN type ELSE NoType
        form ==
          CASE w.form = "Name" ->
                 LET symbol == Symbolled(w.name)
                 IN  CASE symbol.stype = "kVariable" -> symbol.type
                       [] symbol.stype = "kArray" -> PointerTo(symbol.type)
                       [] symbol.stype = "kEnumValue" -> Plain("int")
                       [] OTHER -> NoType
            [] w.form = "Number" -> Plain(LiteralType(w.num))
            [] w.form = "Ternary" ->
                 LET c == parts[3]
                 IN  IF IsVoid(b) /\ IsVoid(c) THEN b
                     ELSE IF Stores(c, b) THEN b
                     ELSE If(Stores(b, c), c)
            [] w.form = "Binary" /\ w.of = "T_Assign" ->
                 IF ~IsPlace(w.kids[1]) \/ IsWholeArray(w.kids[1]) THEN NoType
                 ELSE IF IsComposite(a)
                 THEN If(IsPlace(w.kids[2]) /\ a = b, a)
                 ELSE If(Stores(b, a), IF IsPointerType(a) THEN b ELSE a)
            [] w.form = "Binary" /\ w.of \in Assigns ->
                 If(/\ IsPlace(w.kids[1]) /\ ~IsWholeArray(w.kids[1])
                    /\ \/ IsIntType(a) /\ Stores(b, a)
                       \/ /\ w.of \in {"T_PlusAssign", "T_MinusAssign"}
                          /\ IsPointerType(a) /\ IsIntType(b), a)
            [] w.form = "Binary" -> Together(w.of, a, b)
            [] w.form = "Prefix" /\ w.of = "T_Amper" ->
                 If(IsPlace(w.kids[1]) /\ ~IsWholeArray(w.kids[1]), PointerTo(a))
            [] w.form = "Prefix" /\ w.of = "T_Star" ->
                 If(IsPointerType(a), ValueAt(a))
            [] w.form = "Prefix" /\ w.of \in {"T_Inc", "T_Dec"} ->
                 If(Steps(w.kids[1], a), a)
            [] w.form = "Prefix" /\ w.of = "T_LogNot" ->
                 If(IsIntType(a), Plain("int"))
            [] w.form = "Prefix" /\ w.of = "T_Minus" ->
                 If(IsIntType(a), IF a.base = "char" THEN Plain("short") ELSE Plain(a.base))
            [] w.form = "Prefix" -> If(IsIntType(a), Plain(a.base))
            [] w.form = "Postfix" -> If(Steps(w.kids[1], a), a)
            [] w.form = "Index" ->
                 If(IsPointerType(a) /\ IsIntType(b), ValueAt(a))
            [] w.form = "Select" ->
                 IF /\ a.base = "composite"
                    /\ a.levels = IF w.of = "T_Arrow" THEN 1 ELSE 0
                    /\ w.of = "T_Arrow" \/ IsPlace(w.kids[1])
                    /\ Way(a.composite, w.name) # <<>>
                 THEN LET m == Last(Way(a.composite, w.name))
                      IN  IF m.stype = "kArray" THEN PointerTo(m.type) ELSE m.type
                 ELSE NoType
            [] w.form = "Call" ->
                 LET f == Symbolled(w.name)
                     n == Len(f.parameters)
                 IN  If(/\ f.stype = "kFunction"
                        /\ Len(parts) = n \/ (f.variadic /\ Len(parts) > n)
                        /\ \A k \in 1 .. n : Stores(parts[k], f.parameters[k]),
                        f.type)
            [] w.form = "Cast" ->
                 LET named == IF FindSymbol(w.name) # {} THEN Symbolled(w.name).type
                              ELSE Plain(TypeWords[KeyWords[w.name]])
                 IN  [named EXCEPT !.levels = @ + w.num]
            [] w.form = "Sizeof" -> If(~IsVoid(a), Plain("int"))
    IN  Is(form)

(* The bytes sizeof answers with: those of the type, or of a whole array.  *)
RoomOf(w) ==
    IF w.form = "Name" /\ Symbolled(w.name).stype = "kArray"
    THEN Symbolled(w.name).count * ValueSize(Symbolled(w.name).type, types)
    ELSE ValueSize(TypeOf(w), types)

(* A pointer to void reaches nothing which takes room, so a step of one is  *)
(* no step.                                                                *)
RECURSIVE Meaning(_)
Meaning(w) ==
    LET kids == [k \in DOMAIN w.kids |-> Meaning(w.kids[k])]
    IN  CASE w.form = "Name" ->
               LET symbol == Symbolled(w.name)
               IN  CASE symbol.stype = "kEnumValue" ->
                            Bare("IntLit", "", symbol.num, <<>>)
                     [] symbol.stype = "kArray" ->
                            Bare("Address", symbol.id, 0, <<>>)
                     [] OTHER -> Bare("Identifier", symbol.id, 0, <<>>)
          [] w.form = "Number" -> Bare("IntLit", "", w.num, <<>>)
          [] w.form = "Binary" -> Bare("Operator", w.of, 0, kids)
          [] w.form = "Ternary" -> Bare("Ternary", "", 0, kids)
          [] w.form = "Prefix" /\ w.of = "T_Amper" ->
               CASE kids[1].node = "Deref" -> kids[1].kids[1]
                 [] kids[1].node = "Identifier" ->
                        Bare("Address", kids[1].of, 0, <<>>)
                 [] OTHER -> Bare("AddressExpr", "", 0, kids)
          [] w.form \in {"Prefix", "Postfix"} /\ w.of \in {"T_Inc", "T_Dec"} ->
               Bare("IncDec", IF w.form = "Prefix" THEN "pre" ELSE "post",
                    IF AnyPointer(TypeOf(w.kids[1])) THEN 0
                    ELSE IF w.of = "T_Inc" THEN 1 ELSE -1, kids)
          [] w.form = "Prefix" ->
               Bare(CASE w.of = "T_Star" -> "Deref" [] w.of = "T_Minus" -> "Negate"
                      [] w.of = "T_Invert" -> "Invert" [] OTHER -> "LogNot",
                    "", 0, kids)
          [] w.form = "Index" ->
               Bare("Deref", "", 0, <<Bare("Operator", "T_Plus", 0, kids)>>)
          [] w.form = "Select" ->
               FoldLeftDomain(LAMBDA place, k :
                   Bare("Member", Way(TypeOf(w.kids[1]).composite, w.name)[k].id,
                        IF w.of = "T_Arrow" /\ k = 1 THEN 1 ELSE 0, <<place>>),
                   kids[1], Way(TypeOf(w.kids[1]).composite, w.name))
          [] w.form = "Call" -> Bare("Call", Symbolled(w.name).id, 0, kids)
          [] w.form = "Cast" -> Bare("Cast", TypeOf(w).base, TypeOf(w).levels, kids)
          [] w.form = "Sizeof" -> Bare("IntLit", "", RoomOf(w.kids[1]), <<>>)

(* The trees the code generator can write: the sides of an operator are of *)
(* one width, or one of them is a pointer and the other an offset scaled   *)
(* once, by the room of what the pointer points at.                        *)
RECURSIVE Agrees(_)
Agrees(tree) ==
    LET a == tree.kids[1]
        b == tree.kids[2]
        Alike(s, t) == \/ /\ IsIntType(s.type) /\ IsIntType(t.type)
                          /\ PrimitiveSize(s.type) = PrimitiveSize(t.type)
                       \/ /\ IsPointerType(s.type) /\ IsPointerType(t.type)
                          /\ s.node # "Scale" /\ t.node # "Scale"
        Offset(s, t) == /\ s.node = "Scale" /\ t.node # "Scale"
                        /\ IsIntType(s.kids[1].type) /\ IsPointerType(t.type)
                        /\ s.num = ValueSize(ValueAt(t.type), types)
                        /\ Same(tree.type, t.type)
        Whole(s, t) == /\ IsComposite(s.type) /\ s.type = t.type
    IN  /\ \A k \in DOMAIN tree.kids : Agrees(tree.kids[k])
        /\ tree.node = "Operator" =>
               CASE tree.of \in {"T_LogAnd", "T_LogOr"} -> TRUE
                 [] tree.of = "T_Assign" -> Alike(a, b) \/ Whole(a, b)
                 [] OTHER -> Alike(a, b) \/ Offset(a, b) \/ Offset(b, a)
        /\ tree.node = "Deref" => Same(tree.type, ValueAt(a.type))
        /\ tree.node = "Widen" => PrimitiveSize(a.type) <= PrimitiveSize(tree.type)
        /\ tree.node = "IncDec" =>
               tree.num \in {n * (IF IsPointerType(a.type)
                                  THEN ValueSize(ValueAt(a.type), types) ELSE 1) :
                                 n \in {-1, 1}}
=============================================================================
