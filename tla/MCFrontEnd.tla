----------------------------- MODULE MCFrontEnd -----------------------------
(* The front end over every expression of a few operators, over lists of   *)
(* lexemes which run into one another, and over the programs.              *)
EXTENDS MCPrograms

Sizes == [char |-> 1, short |-> 2, int |-> 4, long |-> 8, pointer |-> 8]

Of(letter, stype, type) ==
    [Symbol(<<letter>>, letter, stype, type) EXCEPT !.count = 3, !.num = 7]

Var(letter, type) == Of(letter, "kVariable", type)

Struct1 == TypeRef("composite", 0, 1)
Struct2 == TypeRef("composite", 0, 2)

(* struct 1 { int m; struct { int n; }; char b[3]; struct 1 *o; } and      *)
(* struct 2 { short m; }.                                                  *)
MemberOf(letters, id, stype, type, offset) ==
    [Symbol(letters, id, stype, type) EXCEPT !.storage = "kMember", !.offset = offset,
                                             !.count = IF stype = "kArray" THEN 3 ELSE 0]

StructOf(size, alignment, members) ==
    [kind |-> "struct", size |-> size, alignment |-> alignment, members |-> members]

TheTypes ==
    << StructOf(24, 8, << MemberOf(<<"m">>, "1.m", "kVariable", Plain("int"), 0),
                          MemberOf(<<>>, "1.", "kVariable", TypeRef("composite", 0, 3), 4),
                          MemberOf(<<"b">>, "1.b", "kArray", Plain("char"), 8),
                          MemberOf(<<"o">>, "1.o", "kVariable", PointerTo(Struct1), 16) >>),
       StructOf(2, 2, << MemberOf(<<"m">>, "2.m", "kVariable", Plain("short"), 0) >>),
       StructOf(4, 4, << MemberOf(<<"n">>, "3.n", "kVariable", Plain("int"), 0) >>) >>

TheNames ==
    << Var("x", Plain("int")), Var("c", Plain("char")), Var("h", Plain("short")),
       Var("l", Plain("long")), Var("p", PointerTo(Plain("int"))),
       Var("q", PointerTo(Plain("char"))), Var("v", PointerTo(Plain("void"))),
       Var("s", Struct1), Var("t", PointerTo(Struct1)), Var("u", PointerTo(Struct2)),
       Var("z", Struct1), Of("a", "kArray", Plain("short")),
       Of("E", "kEnumValue", Plain("int")), Of("T", "kTypedef", PointerTo(Plain("char"))),
       [Of("f", "kFunction", Plain("int")) EXCEPT
           !.parameters = <<Plain("int"), PointerTo(Plain("char"))>>],
       [Of("g", "kFunction", Plain("void")) EXCEPT
           !.parameters = <<Plain("long")>>, !.variadic = TRUE] >>

N(letter) == Name(<<letter>>)
x == N("x")

(* One operator of each row, two where a row has more than one.            *)
OneOfARow == {"T_Assign", "T_PlusAssign", "T_LogOr", "T_LogAnd", "T_Or", "T_Xor",
              "T_Amper", "T_EQ", "T_LT", "T_LShift", "T_Plus", "T_Minus", "T_Star"}
Few == {"T_Assign", "T_LogAnd", "T_LT", "T_Minus", "T_Star"}
PrefixUsed == {"T_Amper", "T_Star", "T_Minus", "T_Invert", "T_LogNot", "T_Inc", "T_Dec"}

AllOperators == UNION {Rows[k] : k \in DOMAIN Rows} \ {"T_Question"}

Pairs(ops, A, B) == {Binary(op, a, b) : op \in ops, a \in A, b \in B}
Questions(A, B, D) == {Question(a, b, d) : a \in A, b \in B, d \in D}

(* Operators in one another, all of ints.                                  *)
Nested ==
    Pairs(AllOperators, {x}, {x})
    \union Pairs(OneOfARow, {x}, Pairs(OneOfARow, {x}, {x}))
    \union Pairs(OneOfARow, Pairs(OneOfARow, {x}, {x}), {x})
    \union Pairs(Few, Pairs(Few, {x}, {x}), Pairs(Few, {x}, {x}))
    \union Pairs(Few, {x}, Pairs(Few, Pairs(Few, {x}, {x}), {x}))
    \union Questions({x} \union Pairs(OneOfARow, {x}, {x}), {x}, {x})
    \union Questions({x}, Pairs(OneOfARow, {x}, {x}), {x})
    \union Questions({x}, {x}, Pairs(OneOfARow, {x}, {x}) \union Questions({x}, {x}, {x}))
    \union Questions(Questions({x}, {x}, {x}), {x}, {x})
    \union Pairs(OneOfARow, {x}, Questions({x}, {x}, {x}))
    \union Pairs(OneOfARow, Questions({x}, {x}, {x}), {x})

Typed == {N(name) : name \in {"x", "c", "h", "l", "p", "q", "v", "s", "t", "u", "z", "a", "E"}}

(* Two values of every pair of types, side by side and one after another.  *)
Mixed ==
    Pairs({"T_Assign", "T_PlusAssign", "T_StarAssign", "T_LogAnd", "T_Amper", "T_EQ",
          "T_LT", "T_LShift", "T_Plus", "T_Minus", "T_Star"}, Typed, Typed)
    \union Questions({x}, Typed, Typed)
    \union Pairs({"T_Plus", "T_Minus"}, Typed, Pairs({"T_Plus", "T_Minus"}, {x, N("t")}, {N("c"), N("p")}))
    \union Pairs({"T_Plus", "T_Minus"}, Pairs({"T_Plus", "T_Minus"}, Typed, {N("c")}), {x, N("p")})

Places == {x, N("t"), Index(N("p"), x), Index(N("a"), N("c")),
           Select("T_Dot", N("s"), <<"m">>), Select("T_Arrow", N("t"), <<"n">>),
           Select("T_Dot", N("s"), <<"b">>), Select("T_Arrow", N("t"), <<"o">>),
           Index(Select("T_Arrow", N("t"), <<"b">>), x),
           Select("T_Arrow", Select("T_Arrow", N("t"), <<"o">>), <<"m">>),
           Select("T_Dot", Prefix("T_Star", N("t")), <<"m">>),
           Prefix("T_Star", N("p")), N("a"), N("s"), N("v")}

Prefixed(A) == {Prefix(op, a) : op \in PrefixUsed, a \in A}
Postfixed(A) == {Postfix(op, a) : op \in {"T_Inc", "T_Dec"}, a \in A}

Values == Places \union Typed \union {Seven, Call(<<"f">>, <<x, N("q")>>)}

Casts == {Cast(<<"c","h","a","r">>, 0, w) : w \in {x, Index(N("p"), x), Pairs({"T_Plus"}, {x}, {x})}}

Unary1 ==
    Values \union Prefixed(Values) \union Postfixed(Values)
    \union Prefixed(Prefixed({x, N("p"), N("t"), Select("T_Dot", N("s"), <<"m">>)}))
    \union Prefixed(Postfixed({x, N("p")})) \union Postfixed(Prefixed({x, N("p")}))
    \union Postfixed(Postfixed({x}))
    \union Pairs({"T_Plus", "T_Minus", "T_Amper", "T_LogAnd", "T_Star", "T_Slash", "T_Assign"},
                {x} \union Postfixed({x}), Prefixed({x, N("p")}))
    \union Pairs({"T_Plus", "T_Minus", "T_Assign"}, Prefixed({x, N("p")}), {x})
    \union {Call(<<"f">>, <<a, b>>) : a \in Typed, b \in Typed}
    \union {Call(<<"g">>, arguments) : arguments \in
                {<<>>, <<x>>, <<x, N("c")>>, <<N("l"), N("q"), N("h"), x, x, x>>,
                 <<x, Binary("T_Assign", x, x), Question(x, x, x)>>}}
    \union {Call(<<"f">>, <<x>>), Binary("T_Plus", Call(<<"g">>, <<x>>), x),
            Question(x, Call(<<"g">>, <<x>>), Call(<<"g">>, <<x>>)),
            Question(x, Call(<<"g">>, <<x>>), x)}
    \union UNION {{Cast(<<"c","h","a","r">>, 0, w), Cast(<<"v","o","i","d">>, 1, w),
                   Cast(<<"T">>, 0, w), Sizeof(w)} :
                      w \in {x, N("a"), N("p"), N("s"), Binary("T_Plus", x, x),
                             Index(N("p"), x), Postfix("T_Inc", x), N("v"),
                             Prefix("T_Star", N("v")), Call(<<"g">>, <<x>>),
                             Prefix("T_Amper", Index(N("a"), x))}}
    \union {Index(a, b) : a \in Typed, b \in {x, N("c"), N("p"), Binary("T_Assign", x, x)}}
    \union {Select(op, a, name) : op \in {"T_Dot", "T_Arrow"}, a \in Typed,
                name \in {<<"m">>, <<"n">>, <<"k">>}}

(* The one place the parser does not read as docs/bnf.txt writes it: a     *)
(* '++' straight in front of another prefix operator.                      *)
RECURSIVE StepsPrefix(_)
StepsPrefix(w) ==
    \/ /\ w.form = "Prefix" /\ w.of \in {"T_Inc", "T_Dec"}
       /\ w.kids[1].form \in {"Prefix", "Cast"}
    \/ \E k \in DOMAIN w.kids : StepsPrefix(w.kids[k])

ExpressionSource(w) ==
    LET lexemes == Append(Spelled(w, 1), <<";">>)
    IN  [text |-> Joined(lexemes, <<" ">>), whole |-> FALSE, stands |-> TRUE, wrong |-> FALSE,
         tokens |-> TokensFor(lexemes), meant |-> <<w>>, program |-> <<>>, image |-> <<>>]

Expressions ==
    {ExpressionSource(w) : w \in {e \in Nested \union Mixed \union Unary1 : ~StepsPrefix(e)}}

(* Lexemes with the token each one is, and those which are none.           *)
Num(letters, value) == [text |-> letters, token |-> Token("T_IntLit", <<>>, <<value>>)]
Str(letters, codes) == [text |-> letters, token |-> Token("T_StrLit", <<>>, codes)]
Wrong(letters) == [text |-> letters, token |-> Token("T_UnknownToken", <<>>, <<>>)]
Op(op) == [text |-> Spelling[op], token |-> Token(op, <<>>, <<>>)]
WordOf(letters) ==
    [text |-> letters, token |-> Token(IF letters \in DOMAIN KeyWords THEN "T_KeyWord"
                                       ELSE "T_Identifier", letters, <<>>)]

Literals ==
    { Num(<<"0">>, 0), Num(<<"0","1","7">>, 15), Num(<<"1","0">>, 10),
      Num(<<"0","x","f","F">>, 255), Num(<<"0","X","1","0">>, 16),
      Num(<<"2","1","4","7","4","8","3","6","4","7">>, 2147483647),
      Num(<<"0","x","7","f","f","f","f","f","f","f">>, 2147483647),
      Num(<<"0","1","7","7","7","7","7","7","7","7","7","7">>, 2147483647),
      Wrong(<<"2","1","4","7","4","8","3","6","4","8">>),
      Wrong(<<"0","x","8","0","0","0","0","0","0","0">>),
      Wrong(<<"0","2","0","0","0","0","0","0","0","0","0","0">>),
      Wrong(<<"0","8">>), Wrong(<<"0","x">>), Wrong(<<"0","x","g">>),
      Wrong(<<"1","a">>), Wrong(<<"@">>), Wrong(<<".",".">>), Wrong(<<"x","#">>),
      Num(<<"'","a","'">>, 97), Num(<<"'","\\","n","'">>, 10),
      Num(<<"'","\\","3","7","7","'">>, 255), Num(<<"'","\\","x","4","1","'">>, 65),
      Num(<<"'","\\","'","'">>, 39), Num(<<"'"," ","'">>, 32), Num(<<"'","#","'">>, 35),
      Wrong(<<"\"","\\","4","0","0","\"">>), Wrong(<<"\"","\\","x","1","0","0","\"">>),
      Wrong(<<"'","\\","q","'">>), Wrong(<<"'","\\","x","'">>), Wrong(<<"'","a","b","'">>),
      Wrong(<<"'","a">>), Wrong(<<"'","\n">>), Wrong(<<"\"","a","\n","\"">>), Wrong(<<"\"">>),
      Str(<<"\"","\"">>, <<>>), Str(<<"\"","a"," ","'","\"">>, <<97, 32, 39>>),
      Str(<<"\"","\\","\"","\\","\\","\"">>, <<34, 92>>),
      Str(<<"\"","\\","1","2","3","4","\"">>, <<83, 52>>),
      Str(<<"\"","\\","x","4","1","g","\"">>, <<65, 103>>),
      Str(<<"\"","\\","0","8","\"">>, <<0, 56>>) }

Words == {WordOf(<<"x">>), WordOf(<<"i","f">>), WordOf(<<"i","f","x">>), WordOf(<<"_","9">>),
          WordOf(<<"I","f">>), WordOf(<<"s","t","r","u","c","t">>)}

SomeOps == {"T_Plus", "T_Minus", "T_Inc", "T_Dec", "T_Arrow", "T_Assign", "T_LT", "T_GT",
            "T_LE", "T_LShift", "T_LShiftAssign", "T_RShift", "T_Amper", "T_LogAnd",
            "T_AmperAssign", "T_Dot", "T_Ellipsis", "T_EQ", "T_LogNot", "T_LParen"}

AllOps == {Op(op) : op \in DOMAIN Spelling}
Ops == {Op(op) : op \in SomeOps}
FewOps == {Op(op) : op \in {"T_Plus", "T_Inc", "T_LT", "T_LShift", "T_Assign", "T_Dot"}}

Gaps == {<<" ">>, <<"\n", "#", " ", "1", "\n">>}

Lists ==
    {<<a>> : a \in Literals \union AllOps}
    \union {<<a, b>> : a \in Ops, b \in Ops}
    \union {<<a, b, c>> : a \in FewOps, b \in FewOps, c \in FewOps}
    \union {<<a, b>> : a \in Words \union Literals, b \in Words \union FewOps}
    \union {<<a, b>> : a \in FewOps \union {WordOf(<<"x">>)}, b \in Literals}

LexemeSource(list, gap) ==
    [text |-> (IF gap[1] = "\n" THEN Tail(gap) ELSE <<>>)
                  \o Joined([k \in DOMAIN list |-> list[k].text], gap),
     wrong |-> \E k \in DOMAIN list : list[k].token.tag = "T_UnknownToken",
     tokens |-> [k \in DOMAIN list |-> list[k].token], whole |-> FALSE, stands |-> TRUE, meant |-> <<>>,
     program |-> <<>>, image |-> <<>>]

TheSources ==
    Expressions \union {LexemeSource(list, gap) : list \in Lists, gap \in Gaps}
    \union Programs
=============================================================================
