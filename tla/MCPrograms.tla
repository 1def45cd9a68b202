----------------------------- MODULE MCPrograms -----------------------------
(* Programs for the front end: functions after one another, declarations   *)
(* after one another, and variables with the bytes they are given.         *)
EXTENDS FrontEnd

Numerals == <<"0">> :> 0 @@ <<"1">> :> 1 @@ <<"2">> :> 2 @@ <<"3">> :> 3
            @@ <<"4">> :> 4 @@ <<"7">> :> 7 @@ <<"3","0","0">> :> 300
            @@ <<"7","0","0","0","0">> :> 70000

TokenFor(lexeme) ==
    CASE lexeme \in {Spelling[op] : op \in DOMAIN Spelling} ->
             Token(CHOOSE op \in DOMAIN Spelling : Spelling[op] = lexeme, <<>>, <<>>)
      [] lexeme \in DOMAIN KeyWords -> Token("T_KeyWord", lexeme, <<>>)
      [] lexeme \in DOMAIN Numerals -> Token("T_IntLit", <<>>, <<Numerals[lexeme]>>)
      [] OTHER -> Token("T_Identifier", lexeme, <<>>)

TokensFor(lexemes) == [k \in DOMAIN lexemes |-> TokenFor(lexemes[k])]

(* Lexemes as they are written in C, strings of one and of two characters. *)
Spelt == DOMAIN KeyWords \union DOMAIN Numerals \union {Spelling[op] : op \in DOMAIN Spelling}

InC ==
    FoldSet(LAMBDA w, known : (Joint(w) :> TokenFor(w)) @@ known,
            "'ab'" :> Token("T_StrLit", <<>>, <<97, 98>>)
                @@ "'c'" :> Token("T_StrLit", <<>>, <<99>>),
            Spelt)

C(lexemes) ==
    LET known == InC
    IN  [k \in DOMAIN lexemes |->
            IF lexemes[k] \in DOMAIN known THEN known[lexemes[k]]
            ELSE Token("T_Identifier", <<lexemes[k]>>, <<>>)]

---------------------------------------------------------------------------
(* Two functions and a global variable before them.                        *)

Z == Name(<<"z">>)
Seven == Number(<<"7">>, 7)
One1 == Number(<<"1">>, 1)
ZGets == Binary("T_Assign", Z, Seven)
ZLess == Binary("T_LT", Z, Seven)

Simple ==
    {Does(ZGets), Skip, Jump("T_Break"), Jump("T_Continue"), ReturnOf(<<>>),
     ReturnOf(<<Z>>), GotoOf(<<"a">>), LabelOn(<<"a">>, Does(ZGets)), PrintOf(Z),
     LabelOn(<<"b">>, GotoOf(<<"b">>)), Does(Call(PrintInt, <<Seven>>))}

Few1 == {Does(ZGets), Skip, Jump("T_Break"), Jump("T_Continue"), GotoOf(<<"a">>),
         LabelOn(<<"a">>, Skip)}

ArmOf(n, list) == IF n = 1 THEN Arm(<<"1">>, 1, list) ELSE Arm(<<"7">>, 7, list)

Holding(s) ==
    {Block(<<s>>), Block(<<s, Does(ZGets)>>), If(ZLess, s), While(ZLess, s), Do(s, ZLess),
     For(<<ZGets>>, ZLess, <<ZGets, ZGets>>, s), LabelOn(<<"a">>, s),
     SwitchOn(Z, <<ArmOf(1, <<s>>)>>)}

HoldingTwo(s, t) ==
    {Block(<<s, t>>), IfElse(ZLess, s, t),
     SwitchOn(Z, <<ArmOf(1, <<s>>), ArmOf(7, <<>>), DefaultArm(<<t>>)>>)}

Switches == {SwitchOn(Z, <<>>), SwitchOn(Z, <<DefaultArm(<<>>), ArmOf(1, <<>>)>>),
             SwitchOn(Z, <<ArmOf(1, <<>>), ArmOf(1, <<>>)>>),
             SwitchOn(Z, <<ArmOf(1, <<>>), ArmOf(7, <<Skip, Jump("T_Break")>>)>>),
             SwitchOn(Z, <<DefaultArm(<<>>), DefaultArm(<<>>)>>)}

Single == UNION {Holding(s) : s \in Simple}
Double == UNION {HoldingTwo(s, t) : s \in Few1, t \in Few1}
Deeper == UNION {Holding(s) : s \in UNION {Holding(t) : t \in Few1}}
          \union {If(ZLess, IfElse(ZLess, s, t)) : s \in Few1, t \in Few1}
          \union {IfElse(ZLess, Block(<<If(ZLess, s)>>), t) : s \in Few1, t \in Few1}

AllStatements == Simple \union Switches \union Single \union Double \union Deeper

(* Declarations in a function, and what is seen of them after.             *)
DeclaredLists ==
    {<<Declares(word, <<"z">>, value), Does(ZGets), Declares("T_Long", <<"i">>, <<Z>>),
       Does(Binary("T_Assign", Name(<<"i">>), Z))>> :
         word \in {"T_Char", "T_Int", "T_Long"}, value \in {<<>>, <<Seven>>}}

GlobalZ == Outer("variable", "kGlobal", "T_Int", 0, <<"z">>, <<>>, <<>>)
Void(list) == Outer("function", "kGlobal", "T_Void", 0, <<"g">>, <<>>, <<Block(list)>>)
Giving(list) == Outer("function", "kStatic", "T_Int", 0, <<"f">>, <<"T_Char", "T_Int">>,
                   <<Block(list)>>)
Returns == ReturnOf(<<Z>>)

TwoFunctions ==
    {<<GlobalZ, Void(<<s>>)>> : s \in AllStatements}
    \union {<<GlobalZ, Giving(<<s>>)>> : s \in Simple \union {LabelOn(<<"a">>, Returns)}}
    \union {<<GlobalZ, Giving(<<s, Returns>>)>> : s \in Single \union Double}
    \union {<<GlobalZ, Void(<<s>>), Giving(<<t, Returns>>)>> : s \in Single, t \in Simple}
    \union {<<GlobalZ, Giving(<<t, Returns>>), Void(<<s>>)>> : s \in Simple, t \in Simple}
    \union {<<GlobalZ, Void(list), Giving(Append(list, ReturnOf(<<Seven>>)))>> : list \in DeclaredLists}
    \union {<<GlobalZ, Void(list \o <<s>>), Giving(<<Does(ZGets), Returns>>)>> :
                list \in DeclaredLists, s \in Holding(Does(ZGets))}

---------------------------------------------------------------------------
(* Declarations of one name, two or three of them.                         *)

N1 == <<"n">>

Body1(statement) == <<Block(<<statement>>)>>

Outers ==
    {Outer("variable", storage, "T_Int", 0, N1, <<>>, <<>>) :
         storage \in {"kGlobal", "kExtern", "kStatic"}}
    \union {Outer("variable", "kGlobal", "T_Int", 1, N1, <<>>, <<>>),
            Outer("variable", "kExtern", "T_Char", 0, N1, <<>>, <<>>),
            Outer("array", "kGlobal", "T_Int", 0, N1, <<>>, <<>>),
            Outer("array", "kExtern", "T_Int", 0, N1, <<>>, <<>>),
            Outer("typedef", "kGlobal", "T_Int", 1, N1, <<>>, <<>>),
            Outer("enum", "kGlobal", "T_Int", 0, N1, <<>>, <<>>),
            Outer("tag", "kGlobal", "T_Int", 0, N1, <<>>, <<>>)}
    \union {Outer("function", "kGlobal", "T_Int", stars, N1, parameters, <<>>) :
                stars \in 0 .. 1,
                parameters \in {<<>>, <<"T_Char">>, <<"T_Char", "T_Int">>, <<"T_Char", "...">>}}
    \union {Outer("function", storage, "T_Int", 0, N1, <<"T_Char">>, Body1(ReturnOf(<<Seven>>))) :
                storage \in {"kGlobal", "kStatic"}}
    \union {Outer("function", "kGlobal", "T_Int", 0, N1, <<"T_Char", "...">>,
                  Body1(ReturnOf(<<Seven>>))),
            Outer("function", "kGlobal", "T_Int", 0, N1, <<>>, Body1(Does(Seven)))}

Another == Outer("variable", "kGlobal", "T_Int", 0, <<"m">>, <<>>, <<>>)

SomeOuters == {o \in Outers : o.stars = 0 /\ o.parameters \in {<<>>, <<"T_Char">>}}

DeclaredTwice ==
    {<<a, b>> : a \in Outers, b \in Outers}
    \union {<<a, Another, b>> : a \in SomeOuters, b \in SomeOuters}

(* Three times: what keeps storage, and a function with and without a body. *)
Storing == {o \in SomeOuters : o.form \in {"variable", "array"}}
Functions1 == {o \in SomeOuters : o.form = "function" /\ o.parameters = <<"T_Char">>}

DeclaredThrice ==
    {<<a, b, c>> : a \in Storing, b \in Storing, c \in Storing}
    \union {<<a, b, c>> : a \in Functions1, b \in Functions1, c \in Functions1}

---------------------------------------------------------------------------
(* Definitions of types: what is taken and what is not.                    *)

TypesTaken ==
    { <<"struct", "S", "{", "int", "m", ";", "}", ";">>,
      <<"struct", "S", "{", "char", "a", ";", "long", "b", ";", "char", "c", ";", "}", "s", ";">>,
      <<"union", "U", "{", "char", "a", ";", "long", "b", ";", "short", "c", "[", "3", "]", ";",
        "}", "u", "[", "2", "]", ";">>,
      <<"struct", "S", "{", "int", "m", ";", "struct", "S", "*", "n", ";", "}", "s", ",", "*", "p", ";">>,
      <<"struct", "{", "char", "a", ";", "union", "{", "char", "b", ";", "short", "c", ";", "}", ";",
        "struct", "{", "char", "d", "[", "3", "]", ";", "}", "e", ";", "}", "s", ";">>,
      <<"struct", "S", "{", "struct", "T", "{", "char", "a", ";", "short", "b", ";", "}", ";",
        "struct", "T", "t", "[", "2", "]", ";", "enum", "{", "x", "=", "3", ",", "y", "}", "e", ";",
        "}", ";", "struct", "T", "t", ";", "int", "a", "[", "y", "]", ";">>,
      <<"typedef", "struct", "{", "char", "a", ";", "int", "b", ";", "}", "T", ";", "T", "t", ";",
        "void", "f", "(", ")", "{", "T", "u", ";", "char", "c", ";", "T", "v", "[", "2", "]", ";",
        "typedef", "T", "*", "V", ";", "V", "w", ";", "extern", "int", "z", ";", "}">>,
      <<"void", "f", "(", "char", "x", ",", "long", "y", ")", "{", "struct", "S", "{", "char", "a", ";",
        "short", "b", ";", "}", "s", ",", "t", ";", "struct", "S", "u", ";", "char", "c", "=", "7", ";",
        "struct", "S", "v", "=", "s", ";", "enum", "{", "e", "}", ";", "int", "d", "[", "2", "]", ";",
        "char", "g", "[", "]", "=", "{", "1", ",", "2", "}", ",", "h", "=", "1", ";", "}">> }

TypesRefused ==
    { <<"struct", "S", "{", "int", "m", ";", "char", "m", ";", "}", ";">>,
      <<"struct", "S", "{", "int", "m", ";", "struct", "{", "char", "m", ";", "}", ";", "}", ";">>,
      <<"struct", "S", "{", "struct", "{", "char", "m", ";", "}", ";", "int", "m", ";", "}", ";">>,
      <<"struct", "S", "{", "union", "{", "struct", "{", "char", "m", ";", "}", ";", "int", "n", ";",
        "}", ";", "struct", "{", "int", "m", ";", "}", ";", "}", ";">>,
      <<"struct", "S", "{", "int", "m", ";", "struct", "S", "n", ";", "}", ";">>,
      <<"struct", "S", "{", "}", ";">>,
      <<"struct", "S", "{", "int", "m", ";", "}", ";", "struct", "S", "{", "int", "m", ";", "}", ";">>,
      <<"struct", "S", "x", ";">>,
      <<"struct", "S", "{", "int", "m", "}", ";">>,
      <<"enum", "{", "x", ",", "x", "}", ";">>,
      <<"int", "x", "[", "0", "]", ";">>,
      <<"static", "extern", "static", "int", "x", ";">>,
      <<"void", "f", "(", ")", "{", "static", "int", "x", ";", "}">> }

---------------------------------------------------------------------------
(* Variables which are given values, with the bytes they then hold.        *)

(* The low bytes of a number, from the lowest up.                          *)
Low(n, size) == [k \in 1 .. size |-> IF k > 4 THEN 0 ELSE (n \div 256 ^ (k - 1)) % 256]
Text(length) == Low(TextAt(length), 8)
Gap(n) == Noughts(n)

Commas(numbers) ==
    FoldLeftDomain(LAMBDA all, k : all \o (IF k = 1 THEN <<>> ELSE <<",">>) \o <<numbers[k]>>,
                   <<>>, numbers)

Braces(lexemes) == <<"{">> \o lexemes \o <<"}">>

Valued(type, after, lexemes, bytes) ==
    [type |-> type, after |-> after, given |-> lexemes, bytes |-> bytes]

(* A variable which cannot have the values it is given.                    *)
NotValued(type, after, lexemes) == Valued(type, after, lexemes, <<>>)

Width == [char |-> 1, short |-> 2, int |-> 4]

Scalars ==
    { Valued(<<"int">>, <<>>, <<"7">>, Low(7, 4)),
      Valued(<<"int">>, <<>>, <<"-", "7">>, Low(-7, 4)),
      Valued(<<"char">>, <<>>, <<"7">>, <<7>>),
      Valued(<<"char">>, <<>>, <<"(", "char", ")", "300">>, <<44>>),
      Valued(<<"short">>, <<>>, <<"-", "300">>, Low(-300, 2)),
      Valued(<<"int">>, <<>>, <<"300", "*", "300", "+", "1">>, Low(90001, 4)),
      Valued(<<"char", "*">>, <<>>, <<"'ab'">>, Text(2)),
      Valued(<<"char", "*">>, <<>>, <<"'ab'", "'c'">>, Text(3)),
      NotValued(<<"char">>, <<>>, <<"300">>),
      NotValued(<<"int">>, <<>>, <<"x">>),
      NotValued(<<"int">>, <<>>, <<"'ab'">>) }

Arrays ==
    UNION {{ Valued(<<word>>, <<"[", "]">>, Braces(<<"1", ",", "2", ",", "7">>),
                    Low(1, Width[word]) \o Low(2, Width[word]) \o Low(7, Width[word])),
             Valued(<<word>>, <<"[", "3", "]">>, Braces(<<"1", ",", "-", "2">>),
                    IF word = "char" THEN <<>>      \* a char is no less than 0
                    ELSE Low(1, Width[word]) \o Low(-2, Width[word]) \o Gap(Width[word])),
             Valued(<<word>>, <<"[", "2", "]">>, Braces(<<>>), Gap(2 * Width[word])),
             Valued(<<word>>, <<"[", "2", "]">>, Braces(<<"1", ",">>),
                    Low(1, Width[word]) \o Gap(Width[word])),
             NotValued(<<word>>, <<"[", "2", "]">>, Braces(<<"1", ",", "2", ",", "3">>)),
             NotValued(<<word>>, <<"[", "]">>, Braces(<<>>)),
             NotValued(<<word>>, <<"[", "2", "]">>, <<"1">>) } : word \in DOMAIN Width}
    \union
    { Valued(<<"char">>, <<"[", "]">>, <<"'ab'">>, <<97, 98, 0>>),
      Valued(<<"char">>, <<"[", "2", "]">>, <<"'ab'">>, <<97, 98>>),
      Valued(<<"char">>, <<"[", "4", "]">>, <<"'ab'">>, <<97, 98, 0, 0>>),
      NotValued(<<"char">>, <<"[", "1", "]">>, <<"'ab'">>),
      NotValued(<<"int">>, <<"[", "4", "]">>, <<"'ab'">>),
      Valued(<<"char", "*">>, <<"[", "2", "]">>, Braces(<<"'ab'", ",", "'c'">>),
             Text(2) \o Text(1)) }

Members1(lists) == <<"struct">> \o Braces(lists)
CharInt == <<"char", "a", ";", "int", "b", ";">>
ShortChars == <<"short", "c", ";", "char", "d", "[", "3", "]", ";">>
Either == <<"union">> \o Braces(CharInt)

Composites ==
    { Valued(Members1(CharInt), <<>>, Braces(Commas(<<"1", "2">>)),
             <<1>> \o Gap(3) \o Low(2, 4)),
      Valued(Members1(CharInt), <<>>, Braces(<<"1", ",">>), <<1>> \o Gap(7)),
      Valued(Members1(CharInt), <<>>, Braces(<<>>), Gap(8)),
      NotValued(Members1(CharInt), <<>>, Braces(Commas(<<"1", "2", "3">>))),
      Valued(Members1(ShortChars), <<>>, Braces(<<"300", ",", "{", "1", ",", "2", "}">>),
             Low(300, 2) \o <<1, 2, 0, 0>>),
      Valued(Members1(ShortChars), <<>>, Braces(<<"300", ",", "'ab'">>),
             Low(300, 2) \o <<97, 98, 0, 0>>),
      NotValued(Members1(ShortChars), <<>>, Braces(<<"300", ",", "1">>)),
      NotValued(Members1(ShortChars), <<>>,
                Braces(<<"1", ",", "{", "1", ",", "2", ",", "3", ",", "4", "}">>)),
      Valued(Members1(<<"char", "a", ";", "int", "b", "[", "3", "]", ";", "char", "c", ";">>), <<>>,
             Braces(<<"1", ",", "{", "2", ",", "3", "}", ",", "7">>),
             <<1, 0, 0, 0>> \o Low(2, 4) \o Low(3, 4) \o Gap(4) \o <<7, 0, 0, 0>>),
      Valued(Members1(<<"char", "a", ";", "char", "*", "p", ";", "short", "c", ";">>), <<>>,
             Braces(<<"1", ",", "'ab'", ",", "-", "2">>),
             <<1>> \o Gap(7) \o Text(2) \o Low(-2, 2) \o Gap(6)),
      Valued(Members1(<<"char", "x", ";">> \o Members1(ShortChars) \o <<"s", ";", "int", "y", ";">>),
             <<>>, Braces(<<"1", ",", "{", "2", ",", "'ab'", "}", ",", "3">>),
             <<1, 0, 2, 0, 97, 98, 0, 0>> \o Low(3, 4)),
      Valued(Members1(<<"char", "x", ";">> \o Members1(CharInt) \o <<";", "char", "y", ";">>),
             <<>>, Braces(Commas(<<"1", "2", "3", "7">>)),
             <<1, 0, 0, 0, 2, 0, 0, 0, 3, 0, 0, 0, 7, 0, 0, 0>>),
      Valued(Members1(<<"char", "x", ";">> \o Either \o <<";", "char", "y", ";">>),
             <<>>, Braces(Commas(<<"1", "2", "3">>)),
             <<1, 0, 0, 0, 2, 0, 0, 0, 3, 0, 0, 0>>),
      Valued(Members1(<<"char", "x", ";">> \o Either \o <<"u", ";", "char", "y", ";">>),
             <<>>, Braces(<<"1", ",", "{", "2", "}", ",", "3">>),
             <<1, 0, 0, 0, 2, 0, 0, 0, 3, 0, 0, 0>>),
      NotValued(Members1(<<"char", "x", ";">> \o Either \o <<"u", ";">>),
                <<>>, Braces(Commas(<<"1", "2">>))),
      Valued(Either, <<>>, Braces(<<"1">>), <<1, 0, 0, 0>>),
      NotValued(Either, <<>>, Braces(<<"1", ",", "2">>)),
      Valued(Members1(CharInt), <<"[", "]">>,
             Braces(<<"{", "1", ",", "2", "}", ",", "{", "3", "}">>),
             <<1>> \o Gap(3) \o Low(2, 4) \o <<3>> \o Gap(7)),
      Valued(Members1(ShortChars), <<"[", "2", "]">>,
             Braces(<<"{", "1", ",", "{", "2", ",", "3", "}", "}">>),
             <<1, 0, 2, 3, 0, 0>> \o Gap(6)),
      Valued(Either, <<"[", "2", "]">>, Braces(<<"{", "}", ",", "{", "1", "}">>),
             Gap(4) \o <<1, 0, 0, 0>>) }

(* The same variable global and in a function between two others, and a    *)
(* composite which is given whole as well.                                 *)
ValuesOfOne(v) ==
    LET shape(name) == <<name>> \o v.after \o <<"=">> \o v.given \o <<";">>
        named == <<"typedef">> \o v.type \o <<"T", ";">>
    IN  C(named \o <<"T">> \o shape("V") \o <<"void", "f", "(", ")", "{">>
            \o <<"char", "c", ";", "int", "x", "=", "7", ";", "T">> \o shape("v")
            \o <<"int", "y", "=", "7", ";", "}">>)

Copied(v) ==
    C(<<"typedef">> \o v.type \o <<"T", ";", "T", "V", "=">> \o v.given
          \o <<";", "void", "f", "(", ")", "{", "T", "w", "=">> \o v.given
          \o <<";", "int", "x", "=", "7", ";", "T", "v", "=", "w", ";">>
          \o <<"int", "y", "=", "7", ";", "}">>)

---------------------------------------------------------------------------

ProgramSource(written, meant, stands, image) ==
    [text |-> <<>>, wrong |-> FALSE, whole |-> TRUE, tokens |-> written, meant |-> <<>>,
     program |-> meant, stands |-> stands, image |-> image]

WrittenSource(outers) ==
    ProgramSource(TokensFor(ProgramLexemes(outers)), outers, ProgramStands(outers), <<>>)

(* Some of them go through the scanner.                                    *)
ScannedSource(outers) ==
    [WrittenSource(outers) EXCEPT !.text = Joined(ProgramLexemes(outers), <<" ">>)]

ValueSource(v, written) ==
    ProgramSource(written, <<>>, v.bytes # <<>>, IF v.bytes = <<>> THEN <<>> ELSE <<v.bytes>>)

Values1 == Scalars \union Arrays \union Composites

Copies == {v \in Composites : v.bytes # <<>> /\ v.after = <<>>}

Programs ==
    {WrittenSource(outers) : outers \in TwoFunctions \union DeclaredTwice \union DeclaredThrice}
    \union {ScannedSource(<<GlobalZ, Void(<<s>>)>>) : s \in Switches}
    \union {ProgramSource(C(lexemes), <<>>, TRUE, <<>>) : lexemes \in TypesTaken}
    \union {ProgramSource(C(lexemes), <<>>, FALSE, <<>>) : lexemes \in TypesRefused}
    \union {ValueSource(v, ValuesOfOne(v)) : v \in Values1}
    \union {ValueSource(v, Copied(v)) : v \in Copies}
=============================================================================
