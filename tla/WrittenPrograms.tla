-------------------------- MODULE WrittenPrograms --------------------------
(***************************************************************************)
(* What the language promises of a program: how its statements and         *)
(* declarations are written down, which of them stand together, and what   *)
(* the body of a function does.  Like WrittenExpressions this translates   *)
(* nothing of the parser, and a statement is written in the same records.  *)
(***************************************************************************)
EXTENDS WrittenExpressions, StatementParser

Word(letters) == Written("Word", "", letters, 0, <<>>)

Keyword == [tag \in {KeyWords[w] : w \in DOMAIN KeyWords} |->
                CHOOSE w \in DOMAIN KeyWords : KeyWords[w] = tag]

(* Statements.                                                             *)
Does(a) == Written("Does", "", <<>>, 0, <<a>>)
Block(statements) == Written("Block", "", <<>>, 0, statements)
If(c, a) == Written("If", "", <<>>, 0, <<c, a>>)
IfElse(c, a, b) == Written("If", "", <<>>, 1, <<c, a, b>>)
While(c, a) == Written("While", "", <<>>, 0, <<c, a>>)
Do(a, c) == Written("Do", "", <<>>, 0, <<c, a>>)
For(before, c, after, a) ==
    Written("For", "", <<>>, 0, <<Block(before), c, Block(after), a>>)
Jump(word) == Written("Jump", word, <<>>, 0, <<>>)
ReturnOf(a) == Written("Return", "", <<>>, 0, a)
GotoOf(letters) == Written("Goto", "", letters, 0, <<>>)
LabelOn(letters, a) == Written("Label", "", letters, 0, <<a>>)
Arm(letters, value, statements) == Written("Arm", "case", letters, value, statements)
DefaultArm(statements) == Written("Arm", "default", <<>>, 0, statements)
SwitchOn(a, arms) == Written("Switch", "", <<>>, 0, <<a>> \o arms)
PrintOf(a) == Written("Print", "", <<>>, 0, <<a>>)
(* A local variable of a type of one word, and the value it starts with.   *)
Declares(word, letters, value) == Written("Declares", word, letters, 0, value)
Skip == Written("Skip", "", <<>>, 0, <<>>)

(* What is declared outside functions: a variable, an array, a function    *)
(* with or without its body, a name for a type, or a value of an enum.     *)
Outer(form, storage, word, stars, letters, parameters, body) ==
    [form |-> form, storage |-> storage, word |-> word, stars |-> stars,
     name |-> letters, parameters |-> parameters, body |-> body]

---------------------------------------------------------------------------
(* How they are written.                                                   *)

RECURSIVE Lexemes(_)

InParentheses(w) == Around(<<"(">>, Spelled(w, 1), <<")">>)

InOrder(statements) == FlattenSeq([k \in DOMAIN statements |-> Lexemes(statements[k])])

WithCommas(lists) ==
    FoldLeftDomain(LAMBDA all, k : all \o (IF k = 1 THEN <<>> ELSE <<<<",">>>>) \o lists[k],
                   <<>>, lists)

Semi(lexemes) == Append(lexemes, <<";">>)

Lexemes(w) ==
    LET list(block) == WithCommas([k \in DOMAIN block.kids |-> Spelled(block.kids[k], 1)])
        condition   == InParentheses(w.kids[1])
        arm         == IF w.of = "case" THEN <<Keyword["T_Case"], w.name>>
                       ELSE <<Keyword["T_Default"]>>
    IN  CASE w.form = "Does" -> Semi(Spelled(w.kids[1], 1))
          [] w.form = "Skip" -> <<<<";">>>>
          [] w.form = "Block" -> Around(<<"{">>, InOrder(w.kids), <<"}">>)
          [] w.form = "If" ->
                 <<Keyword["T_If"]>> \o condition \o Lexemes(w.kids[2])
                     \o (IF w.num = 0 THEN <<>>
                         ELSE <<Keyword["T_Else"]>> \o Lexemes(w.kids[3]))
          [] w.form = "While" -> <<Keyword["T_While"]>> \o condition \o Lexemes(w.kids[2])
          [] w.form = "Do" -> <<Keyword["T_Do"]>> \o Lexemes(w.kids[2])
                                  \o Semi(<<Keyword["T_While"]>> \o condition)
          [] w.form = "For" ->
                 <<Keyword["T_For"], <<"(">>>> \o Semi(list(w.kids[1]))
                     \o Semi(Spelled(w.kids[2], 1)) \o list(w.kids[3])
                     \o <<<<")">>>> \o Lexemes(w.kids[4])
          [] w.form = "Jump" -> Semi(<<Keyword[w.of]>>)
          [] w.form = "Return" ->
                 Semi(<<Keyword["T_Return"]>>
                          \o (IF w.kids = <<>> THEN <<>> ELSE condition))
          [] w.form = "Goto" -> Semi(<<Keyword["T_Goto"], w.name>>)
          [] w.form = "Label" -> <<w.name, <<":">>>> \o Lexemes(w.kids[1])
          [] w.form = "Switch" ->
                 <<Keyword["T_Switch"]>> \o condition
                     \o Around(<<"{">>, InOrder(Tail(w.kids)), <<"}">>)
          [] w.form = "Arm" -> Append(arm, <<":">>) \o InOrder(w.kids)
          [] w.form = "Print" -> Semi(<<Keyword["T_Print"]>> \o Spelled(w.kids[1], 1))
          [] w.form = "Declares" ->
                 Semi(<<Keyword[w.of], w.name>>
                          \o (IF w.kids = <<>> THEN <<>>
                              ELSE <<<<"=">>>> \o Spelled(w.kids[1], 1)))

OuterLexemes(o) ==
    LET typed == Append(<<Keyword[o.word]>> \o [n \in 1 .. o.stars |-> <<"*">>], o.name)
        head  == (IF o.storage = "kGlobal" THEN <<>>
                  ELSE <<Keyword[IF o.storage = "kExtern" THEN "T_Extern" ELSE "T_Static"]>>)
                     \o typed
        parameters == WithCommas([k \in DOMAIN o.parameters |->
                          IF o.parameters[k] = "..." THEN <<Spelling["T_Ellipsis"]>>
                          ELSE <<Keyword[o.parameters[k]], <<<<"x", "y">>[k]>>>>])
    IN  CASE o.form = "variable" -> Semi(head)
          [] o.form = "array" -> Semi(head \o <<<<"[">>, <<"7">>, <<"]">>>>)
          [] o.form = "function" ->
                 head \o Around(<<"(">>, parameters, <<")">>)
                     \o (IF o.body = <<>> THEN <<<<";">>>> ELSE Lexemes(o.body[1]))
          [] o.form = "typedef" -> <<Keyword["T_Typedef"]>> \o Semi(typed)
          [] o.form = "enum" ->
                 <<Keyword["T_Enum"]>> \o Semi(Around(<<"{">>, <<o.name>>, <<"}">>))
          [] o.form = "tag" ->
                 <<Keyword["T_Struct"], o.name>>
                     \o Semi(Around(<<"{">>, <<Keyword["T_Int"], <<"m">>, <<";">>>>, <<"}">>))

ProgramLexemes(outers) == FlattenSeq([k \in DOMAIN outers |-> OuterLexemes(outers[k])])

---------------------------------------------------------------------------
(* Which statements stand where they are written.                          *)

RECURSIVE Stands(_, _, _, _)

(* Inside a loop, inside a switch, and in a function with a value or not.  *)
Stands(w, loop, switch, void) ==
    LET Kids(l, s) == \A k \in DOMAIN w.kids : Stands(w.kids[k], l, s, void)
        arms == Tail(w.kids)
    IN  CASE w.form \in {"Block", "If", "Label", "Arm"} -> Kids(loop, switch)
          [] w.form \in {"While", "Do", "For"} -> Kids(TRUE, switch)
          [] w.form = "Jump" -> loop \/ (switch /\ w.of = "T_Break")
          [] w.form = "Return" -> void <=> w.kids = <<>>
          [] w.form = "Switch" ->
                 /\ arms # <<>> /\ Kids(loop, TRUE)
                 /\ \A j, k \in DOMAIN arms : j < k =>
                        arms[j].of = "case" /\ (arms[k].of = "case" => arms[j].num # arms[k].num)
          [] OTHER -> TRUE

RECURSIVE WithForm(_, _)

(* The names statements of a form give, in the order they stand.           *)
WithForm(w, form) ==
    (IF w.form = form THEN <<w.name>> ELSE <<>>)
        \o FlattenSeq([k \in DOMAIN w.kids |-> WithForm(w.kids[k], form)])

LabelsAgree(body) ==
    /\ IsInjective(WithForm(body, "Label"))
    /\ ToSet(WithForm(body, "Goto")) \subseteq ToSet(WithForm(body, "Label"))

RECURSIVE Leaves(_)
Leaves(w) == w.form = "Return" \/ (w.form = "Label" /\ Leaves(w.kids[1]))

IsVoidOuter(o) == o.word = "T_Void" /\ o.stars = 0

BodyStands(o) ==
    LET body == o.body[1]
        said == SelectSeq(body.kids, LAMBDA w : w.form # "Skip")
    IN  /\ Stands(body, FALSE, FALSE, IsVoidOuter(o)) /\ LabelsAgree(body)
        /\ IsVoidOuter(o) \/ (said # <<>> /\ Leaves(Last(said)))
        /\ "..." \notin ToSet(o.parameters)

(* Whether a declaration stands after the ones before it: a variable may   *)
(* be declared again as what the declaration before it was not, itself or  *)
(* an extern one (any number of times, where the documentation speaks of   *)
(* one such pair), a function as often as it is the same, with one body,   *)
(* and any other name once.  A tag is no name.                             *)
StandsAfter(o, before) ==
    LET alike == SelectSeq(before, LAMBDA b :
                     b.name = o.name /\ (b.form = "tag" <=> o.form = "tag"))
        Agree(b) == [b EXCEPT !.storage = "", !.body = <<>>]
                        = [o EXCEPT !.storage = "", !.body = <<>>]
    IN  /\ o.form = "function" => \A k \in DOMAIN alike :
               Agree(alike[k]) /\ (o.body = <<>> \/ alike[k].body = <<>>)
        /\ o.form \in {"variable", "array"} /\ alike # <<>> =>
               /\ Agree(Last(alike))
               /\ {Last(alike).storage, o.storage} = {"kGlobal", "kExtern"}
        /\ o.form \notin {"function", "variable", "array"} => alike = <<>>
        /\ o.form = "array" => ~IsVoidOuter(o)
        /\ o.body # <<>> => BodyStands(o)

ProgramStands(outers) ==
    \A k \in DOMAIN outers : StandsAfter(outers[k], SubSeq(outers, 1, k - 1))

---------------------------------------------------------------------------
(* What the body of a function says.  The names in scope give the storage  *)
(* they stand for, and `used` is the part of the frame which is taken.     *)

(* Each variable takes the next room which its width divides.              *)
Taken(e, word, letters) ==
    LET size == TargetSizes[TypeWords[word]]
        from == CHOOSE n \in e.used .. e.used + 7 :
                    n % size = 0 /\ \A m \in e.used .. n - 1 : m % size # 0
    IN  [names |-> (letters :> (Joint(letters) \o "@" \o ToString(from))) @@ e.names,
         used |-> from + size]

RECURSIVE SaysExpression(_, _), Says(_, _)

SaysExpression(w, e) ==
    CASE w.form = "Name" -> Bare("Identifier", e.names[w.name], 0, <<>>)
      [] w.form = "Number" -> Bare("IntLit", "", w.num, <<>>)
      [] w.form = "Binary" ->
             Bare("Operator", w.of, 0, <<SaysExpression(w.kids[1], e),
                                         SaysExpression(w.kids[2], e)>>)
      [] w.form = "Call" ->
             Bare("Call", Joint(w.name), 0,
                  [k \in DOMAIN w.kids |-> SaysExpression(w.kids[k], e)])

Part(said) == Bare("Block", "", 0, said)

SaysIn(w, e) == Part(Says(w, e).said)

(* A list of statements, each in the scope the ones before it leave.       *)
SaysInOrder(statements, e) ==
    FoldLeft(LAMBDA before, w :
                 LET now == Says(w, before.scope)
                 IN  [said |-> before.said \o now.said, scope |-> now.scope],
             [said |-> <<>>, scope |-> e], statements)

ListSays(block, e) == [k \in DOMAIN block.kids |-> SaysExpression(block.kids[k], e)]

Says(w, e) ==
    LET X(k) == SaysExpression(w.kids[k], e)
        One(node, of, num, kids) == [said |-> <<Bare(node, of, num, kids)>>, scope |-> e]
        loop == Bare("For", "", 0, <<X(2), SaysIn(w.kids[4], e), Part(ListSays(w.kids[3], e))>>)
        scope == Taken(e, w.of, w.name)
    IN  CASE w.form = "Skip" -> [said |-> <<>>, scope |-> e]
          [] w.form = "Block" -> SaysInOrder(w.kids, e)
          [] w.form = "Does" -> [said |-> <<X(1)>>, scope |-> e]
          [] w.form = "If" ->
                 One("If", "", w.num, <<X(1), SaysIn(w.kids[2], e),
                     IF w.num = 0 THEN Part(<<>>) ELSE SaysIn(w.kids[3], e)>>)
          [] w.form = "While" -> One("While", "", 0, <<X(1), SaysIn(w.kids[2], e)>>)
          [] w.form = "Do" -> One("DoWhile", "", 0, <<X(1), SaysIn(w.kids[2], e)>>)
          [] w.form = "For" -> [said |-> Append(ListSays(w.kids[1], e), loop), scope |-> e]
          [] w.form = "Jump" ->
                 One(IF w.of = "T_Break" THEN "Break" ELSE "Continue", "", 0, <<>>)
          [] w.form = "Return" ->
                 One("Return", "", 0, IF w.kids = <<>> THEN <<Part(<<>>)>> ELSE <<X(1)>>)
          [] w.form = "Goto" -> One("Goto", Joint(w.name), 0, <<>>)
          [] w.form = "Label" -> One("Label", Joint(w.name), 0, <<SaysIn(w.kids[1], e)>>)
          [] w.form = "Switch" ->
                 One("Switch", "", 0, <<X(1)>> \o
                     [k \in DOMAIN Tail(w.kids) |->
                         Bare("Case", w.kids[k + 1].of, w.kids[k + 1].num,
                              <<Part(SaysInOrder(w.kids[k + 1].kids, e).said)>>)])
          [] w.form = "Print" -> One("Print", "", 0, <<X(1)>>)
          [] w.form = "Declares" ->
                 [said |-> IF w.kids = <<>> THEN <<>>
                           ELSE <<Bare("Operator", "T_Assign", 0,
                                       <<Bare("Identifier", scope.names[w.name], 0, <<>>),
                                         SaysExpression(w.kids[1], scope)>>)>>,
                  scope |-> scope]

(* The body of a function, after the declarations before it.               *)
BodySays(o, before) ==
    LET globals == {b.name : b \in {c \in ToSet(before) : c.form \in {"variable", "array"}}}
        outside == [names |-> [name \in globals |-> Joint(name)], used |-> 0]
        inside  == FoldLeftDomain(LAMBDA e, k :
                       Taken(e, o.parameters[k], <<<<"x", "y">>[k]>>),
                       outside, o.parameters)
    IN  Says(o.body[1], inside).said

(* A tree of the parser as such a list.                                    *)
RECURSIVE Flat(_)

StatementsIn == "If" :> {2, 3} @@ "While" :> {2} @@ "DoWhile" :> {2} @@ "For" :> {2, 3}
                @@ "Label" :> {1} @@ "Case" :> {1} @@ "Return" :> {} @@ "Print" :> {}
                @@ "Switch" :> {} @@ "Break" :> {} @@ "Continue" :> {} @@ "Goto" :> {}

Flat(tree) ==
    CASE tree.node = "Glue" -> Flat(tree.kids[1]) \o Flat(tree.kids[2])
      [] tree.node \in {"Nothing", "Declare"} -> <<>>
      [] tree.node \in DOMAIN StatementsIn ->
             <<Bare(tree.node, tree.of, tree.num,
                 [k \in DOMAIN tree.kids |->
                     IF k \in StatementsIn[tree.node] \/ tree.kids[k].node = "Nothing"
                     THEN Part(Flat(tree.kids[k]))
                     ELSE IF tree.kids[k].node = "Case" THEN Flat(tree.kids[k])[1]
                     ELSE Stripped(tree.kids[k])])>>
      [] OTHER -> <<Stripped(tree)>>
=============================================================================
