------------------------- MODULE DeclarationParser -------------------------
(***************************************************************************)
(* The declarations of src/nuocc_parser.cpp: types and their members,      *)
(* enums, typedefs, variables with their values, and functions up to the   *)
(* body.  They call one another, so that the calls which have not ended    *)
(* yet are kept in a stack, the innermost first: a frame holds what the    *)
(* function of that name has read so far.  `doing` says what comes next:   *)
(* the next thing the innermost call reads ("Next"), a type to be read for *)
(* it ("Type"), one which was read ("Typed", in `given`), and so on.       *)
(***************************************************************************)
EXTENDS Initialisers

VARIABLES
    place,          \* how far the tokens have been read
    doing,
    stack,
    given,          \* what the call which ended last returned
    program         \* the functions and globals put into the program

parsing == <<place, doing, stack, given, function, program>>

Frame(frame, of, num, name, type) ==
    [frame |-> frame, of |-> of, num |-> num, name |-> name, type |-> type,
     kids |-> <<>>, rest |-> <<>>]

Top == Head(stack)

In(frame, what) == doing = what /\ stack # <<>> /\ Top.frame = frame

Tag == TokenTag(tokens, place)

GoOn(what, next) == doing' = what /\ place' = next

(* Go on once a token has been met, which is stepped over.                 *)
GoOnPast(tag, what, next) == TokenTag(tokens, next) = tag /\ GoOn(what, next + 1)

Push(frame) == stack' = <<frame>> \o stack

Pop == stack' = Tail(stack)

Return(what, also) == given' = [what |-> what, also |-> also]

Joint(name) == FoldLeft(LAMBDA all, letter : all \o letter, "", name)

Named(name, stype, type) == Symbol(name, Joint(name), stype, type)

Tagged(next, tag) == TokenTag(tokens, next) = tag

IsName(next) == tokens[next].tag = "T_Identifier"

---------------------------------------------------------------------------
(* Types.                                                                  *)

(* A type which is only named: and whether it is one of those which may    *)
(* stand in a declaration without a variable.                              *)
NamedType ==
    /\ doing = "Type"
    /\ \E base \in BaseType(tokens, place) :
           /\ Return(base.tree, Tag \in TagWords)
           /\ GoOn("Typed", base.next)
    /\ UNCHANGED <<symbolic, stack, function, program>>

(* The tag of a definition, when it has one, and where its '{' is.         *)
DefinedTag == IF IsName(place + 1) THEN tokens[place + 1].text ELSE <<>>

OpenBrace == IF IsName(place + 1) THEN place + 2 ELSE place + 1

Defines(words) ==
    /\ doing = "Type" /\ Tag \in words /\ TokenTag(tokens, OpenBrace) = "T_LBrace"
    /\ DefinedTag # <<>> => FindTag(DefinedTag) = {}

TagDefined(definition) ==
    IF DefinedTag = <<>> THEN UNCHANGED tags ELSE AddTag(DefinedTag, definition)

NextMember(next) ==
    GoOn(IF TokenTag(tokens, next) = "T_RBrace" THEN "Next" ELSE "Type", next)

(* The type is known by its tag before its members are read, and has no    *)
(* size until they have been.                                              *)
CompositeTypeDeclaration ==
    /\ Defines({"T_Struct", "T_Union"})
    /\ TagDefined(Len(types) + 1)
    /\ BeginDefinition(IF Tag = "T_Union" THEN "union" ELSE "struct", DefinedTag)
    /\ Push(Frame("Members", "", Len(types) + 1, <<>>, NoType))
    /\ NextMember(OpenBrace + 1)
    /\ UNCHANGED <<symbols, given, function, program>>

EnumType ==
    /\ Defines({"T_Enum"})
    /\ TagDefined(0)
    /\ Push(Frame("Values", "", 0, <<>>, NoType))
    /\ GoOn("Next", OpenBrace + 1)
    /\ UNCHANGED <<symbols, types, given, function, program>>

(* A value of an enum: one more than the last one, or what it is given.    *)
EnumValue ==
    /\ In("Values", "Next") /\ IsName(place)
    /\ FindSymbol(tokens[place].text) = {}
    /\ \E number \in IF TokenTag(tokens, place + 1) = "T_Assign"
                     THEN ConstantNumber(tokens, place + 2)
                     ELSE {Found(Top.num, place + 1)} :
           /\ AddSymbol([Named(tokens[place].text, "kEnumValue", Plain("int"))
                            EXCEPT !.num = number.tree])
           /\ \/ /\ GoOnPast("T_Comma", "Next", number.next)
                 /\ stack' = [stack EXCEPT ![1].num = number.tree + 1]
                 /\ UNCHANGED given
              \/ /\ GoOnPast("T_RBrace", "Typed", number.next)
                 /\ Pop /\ Return(Plain("int"), TRUE)
    /\ UNCHANGED <<tags, types, function, program>>

RECURSIVE CollectMemberNames(_)
CollectMemberNames(definition) ==
    UNION {IF member.name # <<>> THEN {member.name}
           ELSE CollectMemberNames(member.type.composite) :
               member \in ToSet(types[definition].members)}

EndMembers ==
    /\ In("Members", "Next")
    /\ LayOut(Top.num)
    /\ Pop /\ Return(TypeRef("composite", 0, Top.num), TRUE)
    /\ GoOn("Typed", place + 1)
    /\ UNCHANGED <<symbols, tags, function, program>>

---------------------------------------------------------------------------
(* Arrays.                                                                 *)

OneElement(ts, i, type, storage) ==
    IF IsComposite(type)
    THEN IF TokenTag(ts, i) = "T_LBrace"
         THEN CompositeValues(ts, i, type.composite, <<>>, TRUE)
         ELSE {Found(<<WrittenValue(<<>>, 0, f.tree)>>, f.next) :
                   f \in CompositeSource(ts, i, type)}
    ELSE IF storage = "kGlobal" THEN ParseConstantValue(ts, i, type)
    ELSE BinaryExpression(ts, i, 0)

RECURSIVE ElementList(_, _, _, _, _)
ElementList(ts, i, type, storage, read) ==
    IF TokenTag(ts, i) = "T_RBrace" THEN {Found(read, i)}
    ELSE UNION {IF TokenTag(ts, f.next) = "T_Comma"
                THEN ElementList(ts, f.next + 1, type, storage, Append(read, f.tree))
                ELSE {Found(Append(read, f.tree), f.next)} :
                    f \in OneElement(ts, i, type, storage)}

(* A string fills the array it is given to, and a nought ends it when      *)
(* there is room for one.                                                  *)
StringElements(ts, i, storage, size) ==
    LET string == StringLiteralText(ts, i)
        codes  == IF size = 0 \/ size > Len(string.tree) THEN Append(string.tree, 0)
                                                         ELSE string.tree
    IN  Found([k \in DOMAIN codes |->
                  IF storage = "kGlobal" THEN [string |-> FALSE, value |-> codes[k]]
                                         ELSE IntLit(codes[k], "char")], string.next)

ArrayElements(ts, i, type, storage, size) ==
    CASE TokenTag(ts, i) # "T_Assign" -> {Found(<<>>, i)}
      [] TokenTag(ts, i) = "T_Assign" /\ storage \notin {"kGlobal", "kLocal"} -> {}
      [] OTHER ->
             IF TokenTag(ts, i + 1) = "T_StrLit" /\ ~IsComposite(type)
             THEN {f \in {StringElements(ts, i + 1, storage, size)} :
                       type = Plain("char")}
             ELSE IF TokenTag(ts, i + 1) = "T_LBrace"
             THEN Match(ElementList(ts, i + 2, type, storage, <<>>), ts, "T_RBrace")
             ELSE {}

ArraySizes(ts, i) ==
    Match(IF TokenTag(ts, i + 1) = "T_RBracket" THEN {Found(0, i + 1)}
          ELSE {f \in ConstantNumber(ts, i + 1) : f.tree > 0}, ts, "T_RBracket")

(* An array with as many elements as its size or else its values say, and  *)
(* what was read of them.                                                  *)
ArrayDeclaration(ts, i, type, name, storage) ==
    LET room == ValueSize(type, types)
        Counted(size, read) == IF size = 0 THEN Len(read) ELSE size
    IN  UNION {{Found([symbol |-> [Named(name, "kArray", type) EXCEPT
                                      !.storage = storage,
                                      !.count = Counted(size.tree, f.tree)],
                       read |-> f.tree], f.next) :
                    f \in {g \in ArrayElements(ts, size.next, type, storage, size.tree) :
                               /\ Len(g.tree) <= Counted(size.tree, g.tree)
                               /\ Counted(size.tree, g.tree) \in 1 .. Int32Max \div room}} :
                   size \in {s \in ArraySizes(ts, i) : room # 0}}

(* What a global array keeps of its values, in the set of the one symbol   *)
(* which does, empty when one of them is not a constant.                   *)
GlobalArray(array) ==
    LET room   == ValueSize(array.symbol.type, types)
        pieces == [k \in DOMAIN array.read |->
                      WrittenValuePieces((k - 1) * room, array.read[k])]
    IN  IF ~IsComposite(array.symbol.type)
        THEN {[array.symbol EXCEPT !.values = array.read]}
        ELSE IF \E k \in DOMAIN pieces : pieces[k] = {} THEN {}
        ELSE {[array.symbol EXCEPT !.pieces =
                  FlattenSeq([k \in DOMAIN pieces |-> CHOOSE p \in pieces[k] : TRUE])]}

(* The statements which fill a local array, of elements which are no       *)
(* composites: the values it is given and noughts after them.              *)
ElementStores(symbol, values) ==
    LET Value(k) == IF k \in DOMAIN values THEN Fitted(values[k], symbol.type, "none")
                    ELSE {Node("IntLit", "", 0, symbol.type, <<>>)}
    IN  IF \E k \in 1 .. symbol.count : Value(k) = {} THEN {}
        ELSE {[k \in 1 .. symbol.count |->
                  ElementAssignment(symbol, k - 1, CHOOSE v \in Value(k) : TRUE)]}

(* A local variable in the frame, the statements which give it its value,  *)
(* and the bytes of the frame which are taken with it.                     *)
LocalVariable(symbol, stores, used) ==
    [symbol |-> symbol, tree |-> GlueStatements(stores), used |-> used]

Within(symbol) ==
    LET offset == Placed(function.size, SymbolAlignment(symbol))
    IN  [Local(symbol.name, symbol.type, offset)
            EXCEPT !.stype = symbol.stype, !.count = symbol.count]

LocalArray(array) ==
    LET symbol  == Within(array.symbol)
        counter == Counter(EndOf(symbol))
    IN  IF IsComposite(symbol.type)
        THEN {LocalVariable(symbol,
                  <<ClearArray(symbol, StorageSize(symbol), counter)>>
                      \o FlattenSeq([k \in DOMAIN array.read |->
                             StoreElementValues(symbol, k - 1, array.read[k])]),
                  EndOf(counter))}
        ELSE {LocalVariable(symbol, stores, EndOf(symbol)) :
                  stores \in ElementStores(symbol, array.read)}

---------------------------------------------------------------------------
(* A member of a composite.                                                *)

(* A composite with no tag and no name, whose members are reached as if    *)
(* they were the members of the one it stands in.                          *)
IsAnonymous(type, next) ==
    /\ IsComposite(type) /\ type.composite # 0
    /\ types[type.composite].name = <<>>
    /\ TokenTag(tokens, next) = "T_Semicolon"

MemberNamed(type, name) ==
    LET within == Len(types[Top.num].members) + 1
    IN  [Symbol(name, ToString(Top.num) \o "." \o ToString(within), "kVariable", type)
            EXCEPT !.storage = "kMember"]

(* A member which has a name, in the set of the one it is.                 *)
DeclaredMember(type, next) ==
    LET starred == ParseStars(tokens, next, type)
        name    == tokens[starred.next].text
        plain   == MemberNamed(starred.tree, name)
    IN  IF ~IsName(starred.next) THEN {}
        ELSE IF TokenTag(tokens, starred.next + 1) = "T_LBracket"
        THEN {Found([plain EXCEPT !.stype = "kArray", !.count = f.tree.symbol.count],
                    f.next) :
                  f \in ArrayDeclaration(tokens, starred.next + 1, starred.tree,
                                         name, "kMember")}
        ELSE {Found(plain, starred.next + 1)}

Members(type) ==
    IF IsAnonymous(type, place) THEN {Found(MemberNamed(type, <<>>), place)}
    ELSE DeclaredMember(type, place)

(* The names a member adds are new to the composite, however they are      *)
(* reached.                                                                *)
AddsNames(member) ==
    LET reachable == CollectMemberNames(Top.num)
        added     == IF member.name # <<>> THEN {member.name}
                     ELSE CollectMemberNames(member.type.composite)
    IN  added \intersect reachable = {}

ParseMember ==
    /\ In("Members", "Typed")
    /\ \E member \in Match(Members(given.what), tokens, "T_Semicolon") :
           /\ AddsNames(member.tree)
           /\ AddMember(Top.num, member.tree)
           /\ NextMember(member.next)
    /\ UNCHANGED <<symbols, tags, stack, given, function, program>>

(* A definition inside another one which gives no member.                  *)
NoMember ==
    /\ In("Members", "Typed") /\ given.also /\ ~IsAnonymous(given.what, place)
    /\ LET starred == ParseStars(tokens, place, given.what)
       IN  /\ TokenTag(tokens, starred.next) = "T_Semicolon"
           /\ NextMember(starred.next + 1)
    /\ UNCHANGED <<symbolic, stack, given, function, program>>

---------------------------------------------------------------------------
(* A declaration, of a function or inside one.                             *)

ParseDeclarationPrefix(ts, i, plain) ==
    LET words(n) == {TokenTag(ts, k) : k \in i .. i + n - 1}
        run == Max({n \in 0 .. Len(ts) - i : words(n) \subseteq {"T_Extern", "T_Static"}})
    IN  IF Cardinality(words(run)) = 2 \/ (plain = "kLocal" /\ "T_Static" \in words(run))
        THEN {}
        ELSE {Found([storage |-> IF "T_Extern" \in words(run) THEN "kExtern" ELSE plain,
                     static |-> IF "T_Static" \in words(run) THEN 1 ELSE 0], i + run)}

BeginDeclaration(plain) ==
    /\ \E prefix \in ParseDeclarationPrefix(tokens, place, plain) :
           LET typedef == TokenTag(tokens, prefix.next) = "T_Typedef"
           IN  /\ Push(Frame(IF typedef THEN "Typedef" ELSE "Declaration",
                             prefix.tree.storage, prefix.tree.static, <<>>, NoType))
               /\ GoOn("Type", IF typedef THEN prefix.next + 1 ELSE prefix.next)
    /\ UNCHANGED <<symbolic, given, function, program>>

GlobalDeclaration ==
    doing = "Next" /\ stack = <<>> /\ Tag # "T_EOF" /\ BeginDeclaration("kGlobal")

(* A declaration ends: a local one is a statement of what it gives values  *)
(* to, and leaves its semicolon to whoever asked for it.                   *)
EndDeclaration(trees, next) ==
    /\ Pop
    /\ IF InFunction THEN Return(GlueStatements(trees), TRUE) /\ GoOn("Returned", next)
                     ELSE GoOnPast("T_Semicolon", "Next", next) /\ UNCHANGED given

TypedefDeclaration ==
    /\ In("Typedef", "Typed")
    /\ LET starred == ParseStars(tokens, place, given.what)
           name    == tokens[starred.next].text
       IN  /\ IsName(starred.next) /\ FindSymbol(name) = {}
           /\ AddSymbol(Named(name, "kTypedef", starred.tree))
           /\ EndDeclaration(<<>>, starred.next + 1)
    /\ UNCHANGED <<tags, types, function, program>>

(* A definition which no variable follows declares the type alone.         *)
DeclareType ==
    /\ In("Declaration", "Typed") /\ Tag = "T_Semicolon" /\ given.also
    /\ EndDeclaration(<<>>, place)
    /\ UNCHANGED <<symbolic, function, program>>

IsFunctionDeclarator ==
    LET starred == ParseStars(tokens, place, given.what)
    IN  /\ ~InFunction /\ IsName(starred.next)
        /\ TokenTag(tokens, starred.next + 1) = "T_LParen"

DeclareNames ==
    /\ In("Declaration", "Typed") /\ ~(Tag = "T_Semicolon" /\ given.also)
    /\ ~IsFunctionDeclarator
    /\ stack' = [stack EXCEPT ![1].type = given.what]
    /\ GoOn("Names", place)
    /\ UNCHANGED <<symbolic, given, function, program>>

SameDeclaration(a, b) ==
    a.stype = b.stype /\ a.type = b.type /\ a.static = b.static /\ a.count = b.count

(* The table with a global symbol in it: new, or in place of the one       *)
(* declaration which may stand beside it.                                  *)
AddGlobalSymbol(symbol) ==
    LET previous == FindSymbol(symbol.name)
        Pair(p)  == {p.storage, symbol.storage} = {"kGlobal", "kExtern"}
    IN  IF previous = {} THEN {Append(symbols, symbol)}
        ELSE {Updated(symbols, symbol) :
                  p \in {q \in previous : Pair(q) /\ SameDeclaration(q, symbol)}}

Stored(symbol) == [symbol EXCEPT !.storage = Top.of, !.static = Top.num = 1]

(* A mutant: the bytes of the variable are not counted into the frame.     *)
PlainVariableUncounted(type, name) ==
    LET symbol == Stored(Named(name, "kVariable", type))
    IN  IF Top.of # "kLocal" THEN {LocalVariable(symbol, <<>>, function.size)}
        ELSE {LocalVariable(l, <<>>, l.offset) :
                  l \in {m \in {Within(symbol)} : StorageSize(m) # 0}}

(* A variable which is no array, before it is given a value.               *)
PlainVariable(type, name) ==
    LET symbol == Stored(Named(name, "kVariable", type))
    IN  IF Top.of # "kLocal" THEN {LocalVariable(symbol, <<>>, function.size)}
        ELSE {LocalVariable(l, <<>>, EndOf(l)) :
                  l \in {m \in {Within(symbol)} : StorageSize(m) # 0}}

ArrayVariable(array) ==
    CASE Top.of = "kGlobal" -> {LocalVariable(Stored(s), <<>>, function.size) :
                                    s \in GlobalArray(array)}
      [] Top.of = "kLocal" -> LocalArray(array)
      [] OTHER -> {LocalVariable(Stored(array.symbol), <<>>, function.size)}

Variables(type, next) ==
    LET starred == ParseStars(tokens, next, type)
        name    == tokens[starred.next].text
    IN  IF ~IsName(starred.next) THEN {}
        ELSE IF TokenTag(tokens, starred.next + 1) = "T_LBracket"
        THEN UNION {{Found(v, f.next) : v \in ArrayVariable(f.tree)} :
                        f \in ArrayDeclaration(tokens, starred.next + 1, starred.tree,
                                               name, Top.of)}
        ELSE {Found(v, starred.next + 1) : v \in PlainVariable(starred.tree, name)}

(* The names of a declaration go on after a comma; without one it ends,    *)
(* and what a global one declares is put into the program unless its       *)
(* storage is elsewhere.                                                   *)
AfterVariable(kids, rest, next) ==
    IF TokenTag(tokens, next) = "T_Comma"
    THEN /\ GoOn("Names", next + 1)
         /\ stack' = [stack EXCEPT ![1].kids = kids, ![1].rest = rest]
         /\ UNCHANGED <<given, program>>
    ELSE /\ EndDeclaration(kids, next)
         /\ program' = [program EXCEPT !.globals =
                            IF InFunction \/ Top.of = "kExtern" THEN @ ELSE @ \o rest]

DeclarationTrees(symbol, tree) ==
    <<Statement("Declare", symbol.id, symbol.offset, <<>>)>>
        \o (IF tree = Nothing THEN <<>> ELSE <<tree>>)

(* A variable is known before the value it starts with is read.            *)
DeclareVariable ==
    /\ In("Declaration", "Names")
    /\ \E v \in Variables(Top.type, place) :
           LET kids == Top.kids \o DeclarationTrees(v.tree.symbol, v.tree.tree)
               rest == Append(Top.rest, v.tree.symbol)
           IN  /\ symbols' \in IF InFunction THEN {Append(symbols, v.tree.symbol)}
                               ELSE AddGlobalSymbol(v.tree.symbol)
               /\ function' = [function EXCEPT !.size = v.tree.used]
               /\ IF v.tree.symbol.stype # "kArray" /\ TokenTag(tokens, v.next) = "T_Assign"
                  THEN /\ Top.of \in {"kGlobal", "kLocal"}
                       /\ GoOn("Value", v.next + 1)
                       /\ stack' = [stack EXCEPT ![1].kids = kids, ![1].rest = rest]
                       /\ UNCHANGED <<given, program>>
                  ELSE AfterVariable(kids, rest, v.next)
    /\ UNCHANGED <<tags, types>>

(* What a global variable is given is kept with it.                        *)
GlobalValues(symbol) ==
    IF ~IsComposite(symbol.type)
    THEN {Found([symbol EXCEPT !.values = <<f.tree>>], f.next) :
              f \in ParseConstantValue(tokens, place, symbol.type)}
    ELSE IF Tag # "T_LBrace" THEN {}
    ELSE UNION {{Found([symbol EXCEPT !.pieces = pieces], f.next) :
                     pieces \in WrittenValuePieces(0, f.tree)} :
                    f \in CompositeValues(tokens, place, symbol.type.composite, <<>>, TRUE)}

GlobalInitialiser ==
    /\ In("Declaration", "Value") /\ Top.of = "kGlobal"
    /\ \E f \in GlobalValues(Last(Top.rest)) :
           /\ UpdateSymbol(f.tree)
           /\ AfterVariable(Top.kids, Append(Front(Top.rest), f.tree), f.next)
    /\ UNCHANGED <<tags, types, function>>

(* What a local one is given is stored where the declaration stands: a     *)
(* composite is cleared first when its members are given values.           *)
LocalValues(symbol) ==
    LET counter == Counter(function.size)
        assigned == {Found(LocalVariable(symbol,
                               <<Operator("T_Assign", value.tree.type, value.tree,
                                          Identifier(symbol))>>, function.size),
                           value.next) :
                         value \in
                             IF IsComposite(symbol.type)
                             THEN CompositeSource(tokens, place, symbol.type)
                             ELSE UNION {{Found(v, f.next) :
                                              v \in Fitted(f.tree, symbol.type, "none")} :
                                             f \in BinaryExpression(tokens, place, 0)}}
    IN  IF ~IsComposite(symbol.type) \/ Tag # "T_LBrace" THEN assigned
        ELSE {Found(LocalVariable(symbol,
                        <<ClearArray(symbol, StorageSize(symbol), counter)>>
                            \o StoreWrittenValues(symbol, f.tree), EndOf(counter)),
                    f.next) :
                  f \in CompositeValues(tokens, place, symbol.type.composite, <<>>, TRUE)}

LocalInitialiser ==
    /\ In("Declaration", "Value") /\ Top.of = "kLocal"
    /\ \E f \in LocalValues(Last(Top.rest)) :
           /\ function' = [function EXCEPT !.size = f.tree.used]
           /\ AfterVariable(Append(Top.kids, f.tree.tree), Top.rest, f.next)
    /\ UNCHANGED symbolic

---------------------------------------------------------------------------
(* Functions, up to their bodies.                                          *)

AfterParameter(next) ==
    IF TokenTag(tokens, next) # "T_Comma" THEN GoOn("Next", next)
    ELSE IF TokenTag(tokens, next + 1) = "T_Ellipsis" THEN GoOn("Next", next + 2)
    ELSE GoOn("Type", next + 1)

(* `of` says whether the function takes more than it names.                *)
BeginFunction ==
    /\ In("Declaration", "Typed") /\ IsFunctionDeclarator
    /\ LET starred == ParseStars(tokens, place, given.what)
           name    == tokens[starred.next].text
           next    == starred.next + 2
       IN  /\ ~IsComposite(starred.tree)
           /\ \A previous \in FindSymbol(name) : previous.stype = "kFunction"
           /\ stack' = <<Frame("Function", "", Top.num, name, starred.tree)>>
           /\ IF TokenTag(tokens, next) = "T_RParen" THEN GoOn("Next", next)
              ELSE IF Tagged(next, "T_Void") /\ Tagged(next + 1, "T_RParen")
              THEN GoOn("Next", next + 1)
              ELSE GoOn("Type", next)
    /\ UNCHANGED <<symbolic, given, function, program>>

Parameter ==
    /\ In("Function", "Typed") /\ Len(Top.rest) < MaxArguments
    /\ LET starred == ParseStars(tokens, place, given.what)
       IN  /\ ~IsComposite(starred.tree) /\ starred.tree # Plain("void")
           /\ IsName(starred.next) /\ ~Tagged(starred.next + 1, "T_LBracket")
           /\ stack' = [stack EXCEPT ![1].rest =
                  Append(@, [Named(tokens[starred.next].text, "kVariable", starred.tree)
                                EXCEPT !.storage = "kLocal"])]
           /\ AfterParameter(starred.next + 1)
    /\ UNCHANGED <<symbolic, given, function, program>>

CheckPrototype(previous, symbol) ==
    /\ previous.type = symbol.type /\ previous.variadic = symbol.variadic
    /\ previous.parameters = symbol.parameters

HasBody == Tagged(place + 1, "T_LBrace")

(* What a declaration makes known of the function: a prototype after its   *)
(* body does not take that away.                                           *)
FunctionDeclared ==
    [Named(Top.name, "kFunction", Top.type) EXCEPT
        !.static = Top.num = 1,
        !.variadic = Tagged(place - 1, "T_Ellipsis"),
        !.parameters = [k \in DOMAIN Top.rest |-> Top.rest[k].type],
        !.body = HasBody \/ \E previous \in FindSymbol(Top.name) : previous.body]

AgreesWithPrevious(symbol) ==
    \A previous \in FindSymbol(Top.name) :
        CheckPrototype(previous, symbol) /\ ~(previous.body /\ HasBody)

WithFunction(symbol) ==
    IF FindSymbol(Top.name) = {} THEN Append(symbols, symbol) ELSE Updated(symbols, symbol)

Prototype ==
    /\ In("Function", "Next") /\ Tag = "T_RParen" /\ ~HasBody
    /\ AgreesWithPrevious(FunctionDeclared)
    /\ symbols' = WithFunction(FunctionDeclared)
    /\ GoOnPast("T_Semicolon", "Next", place + 1)
    /\ Pop
    /\ UNCHANGED <<tags, types, given, function, program>>

(* The parameters, one after another in the frame.                         *)
InFrame(parameters) ==
    [k \in DOMAIN parameters |->
        Local(parameters[k].name, parameters[k].type, Offsets(parameters)[k])]

(* The function is known before its body is read, and its parameters are   *)
(* the first of the frame; no loop, switch or label is open yet.           *)
FunctionBody ==
    /\ In("Function", "Next") /\ Tag = "T_RParen" /\ HasBody
    /\ AgreesWithPrevious(FunctionDeclared) /\ ~FunctionDeclared.variadic
    /\ LET parameters == InFrame(Top.rest)
       IN  /\ symbols' = WithFunction(FunctionDeclared) \o parameters
           /\ function' = [type |-> Top.type, symbol |-> FunctionDeclared,
                  parameters |-> parameters, mark |-> Len(WithFunction(FunctionDeclared)),
                  size |-> TakenBy(parameters),
                  loops |-> 0, switches |-> 0, labels |-> {}, named |-> {}]
    /\ stack' = <<Frame("Compound", "", 0, <<>>, NoType)>>
    /\ GoOn("Next", place + 2)
    /\ UNCHANGED <<tags, types, given, program>>
=============================================================================
