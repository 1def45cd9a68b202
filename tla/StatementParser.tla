-------------------------- MODULE StatementParser --------------------------
(***************************************************************************)
(* The statements of src/nuocc_parser.cpp, the end of a function, and the  *)
(* loop over the declarations of a program.  A statement which has been    *)
(* read goes back to the call it was read for with the tree it is and      *)
(* whether a semicolon is still to come; which of the trees are no         *)
(* statements at all shows in their being Nothing.                         *)
(***************************************************************************)
EXTENDS DeclarationParser

Outside == [type |-> NoType, symbol |-> Symbol(<<>>, "", "kFunction", NoType),
            parameters |-> <<>>, mark |-> 0, size |-> 0, loops |-> 0,
            switches |-> 0, labels |-> {}, named |-> {}]

(* What the runtime library gives every program.                           *)
Runtime(letters) ==
    [Named(letters, "kFunction", Plain("void")) EXCEPT !.parameters = <<Plain("int")>>]

PrintInt == <<"p", "r", "i", "n", "t", "i", "n", "t">>
PrintChar == <<"p", "r", "i", "n", "t", "c", "h", "a", "r">>

InitParse ==
    /\ symbols = <<Runtime(PrintInt), Runtime(PrintChar)>>
    /\ tags = <<>> /\ types = <<>>
    /\ place = 1 /\ doing = "Next" /\ stack = <<>>
    /\ given = [what |-> Nothing, also |-> FALSE]
    /\ function = Outside
    /\ program = [functions |-> <<>>, globals |-> <<>>]

Parsed ==
    /\ doing = "Next" /\ stack = <<>> /\ Tag = "T_EOF"
    /\ doing' = "parsed"
    /\ UNCHANGED <<symbolic, place, stack, given, function, program>>

---------------------------------------------------------------------------

Answer(tree, semicolon, next) == Return(tree, semicolon) /\ GoOn("Returned", next)

At(tag) == doing = "Statement" /\ Tag = tag

OpenCompound ==
    /\ At("T_LBrace")
    /\ Push(Frame("Compound", "", 0, <<>>, NoType))
    /\ GoOn("Next", place + 1)
    /\ UNCHANGED <<symbolic, given, function, program>>

(* The next statement of a compound one, or of an arm of a switch.         *)
ListGoesOn ==
    /\ \/ In("Compound", "Next") /\ Tag # "T_RBrace"
       \/ In("Case", "Next") /\ Tag \notin {"T_Case", "T_Default", "T_RBrace"}
    /\ GoOn("Statement", place)
    /\ UNCHANGED <<symbolic, stack, given, function, program>>

CloseCompound ==
    /\ In("Compound", "Next") /\ Tag = "T_RBrace" /\ Len(stack) > 1
    /\ Pop /\ Answer(GlueStatements(Top.kids), FALSE, place + 1)
    /\ UNCHANGED <<symbolic, function, program>>

(* Where a statement which has been read ends, its semicolon stepped over  *)
(* when it wants one.                                                      *)
StatementEnds == IF given.also THEN Match({Found(given.what, place)}, tokens, "T_Semicolon")
                               ELSE {Found(given.what, place)}

(* A statement goes to the list it is read for, when it is one.            *)
GlueStatement ==
    /\ doing = "Returned" /\ Top.frame \in {"Compound", "Case"}
    /\ \E s \in StatementEnds :
           /\ GoOn("Next", s.next)
           /\ stack' = [stack EXCEPT ![1].kids =
                            IF s.tree = Nothing THEN @ ELSE Append(@, s.tree)]
    /\ UNCHANGED <<symbolic, given, function, program>>

EmptyStatement ==
    /\ At("T_Semicolon") /\ Answer(Nothing, FALSE, place + 1)
    /\ UNCHANGED <<symbolic, stack, function, program>>

PrintStatement ==
    /\ At("T_Print")
    /\ \E f \in BinaryExpression(tokens, place + 1, 0) :
           \E value \in Fitted(f.tree, Plain("int"), "none") :
               Answer(Statement("Print", "", 0, <<value>>), TRUE, f.next)
    /\ UNCHANGED <<symbolic, stack, function, program>>

DeclarationWords ==
    DOMAIN TypeWords \union TagWords \union {"T_Typedef", "T_Extern", "T_Static"}

IsLabel == IsName(place) /\ Tagged(place + 1, "T_Colon")

DeclareStatement ==
    /\ doing = "Statement"
    /\ \/ Tag \in DeclarationWords
       \/ IsSymbol(tokens, place, "kTypedef") /\ ~IsLabel
    /\ BeginDeclaration("kLocal")

StatementWords == {"T_LBrace", "T_Semicolon", "T_Print", "T_If", "T_While", "T_Do",
                   "T_For", "T_Return", "T_Break", "T_Continue", "T_Switch", "T_Goto"}

ExpressionStatement ==
    /\ doing = "Statement" /\ Tag \notin DeclarationWords \union StatementWords
    /\ ~IsLabel /\ ~IsSymbol(tokens, place, "kTypedef")
    /\ \E f \in BinaryExpression(tokens, place, 0) : Answer(f.tree, TRUE, f.next)
    /\ UNCHANGED <<symbolic, stack, function, program>>

---------------------------------------------------------------------------
(* Conditions and loops.                                                   *)

Condition(next) ==
    IF Tagged(next, "T_LParen")
    THEN {Found(MakeCondition(f.tree), f.next) :
              f \in Match(BinaryExpression(tokens, next + 1, 0), tokens, "T_RParen")}
    ELSE {}

Looped(n) == function' = [function EXCEPT !.loops = @ + n]

(* Begin to read the body of a statement, with what has been read of it.   *)
Body(frame, kids, next) ==
    /\ Push([Frame(frame, "", 0, <<>>, NoType) EXCEPT !.kids = kids])
    /\ GoOn("Statement", next)

IfStatement ==
    /\ At("T_If")
    /\ \E f \in Condition(place + 1) : Body("If", <<f.tree>>, f.next)
    /\ UNCHANGED <<symbolic, given, function, program>>

(* After the body of an if: an else, which belongs to the nearest one.     *)
IfRead ==
    /\ doing = "Returned" /\ Top.frame = "If"
    /\ \E s \in StatementEnds :
           LET kids == Append(Top.kids, s.tree)
           IN  IF Len(kids) = 2 /\ Tagged(s.next, "T_Else")
               THEN /\ stack' = [stack EXCEPT ![1].kids = kids]
                    /\ GoOn("Statement", s.next + 1) /\ UNCHANGED given
               ELSE /\ Pop
                    /\ Answer(Statement("If", "", Len(kids) - 2,
                                        IF Len(kids) = 2 THEN Append(kids, Nothing)
                                                         ELSE kids), FALSE, s.next)
    /\ UNCHANGED <<symbolic, function, program>>

WhileStatement ==
    /\ At("T_While")
    /\ \E f \in Condition(place + 1) : Body("While", <<f.tree>>, f.next)
    /\ Looped(1)
    /\ UNCHANGED <<symbolic, given, program>>

DoStatement ==
    /\ At("T_Do")
    /\ Body("Do", <<>>, place + 1)
    /\ Looped(1)
    /\ UNCHANGED <<symbolic, given, program>>

RECURSIVE ExpressionsFrom(_, _)
ExpressionsFrom(next, read) ==
    UNION {IF Tagged(f.next, "T_Comma") THEN ExpressionsFrom(f.next + 1, Append(read, f.tree))
           ELSE {Found(GlueStatements(Append(read, f.tree)), f.next)} :
               f \in BinaryExpression(tokens, next, 0)}

ExpressionList(next, end) ==
    IF Tagged(next, end) THEN {Found(Nothing, next)} ELSE ExpressionsFrom(next, <<>>)

(* The clauses of a for: what runs before it, whether it goes on, and what *)
(* runs after each pass.                                                   *)
ForStatement ==
    /\ At("T_For") /\ Tagged(place + 1, "T_LParen")
    /\ \E before \in Match(ExpressionList(place + 2, "T_Semicolon"), tokens, "T_Semicolon") :
       \E goes \in Match(BinaryExpression(tokens, before.next, 0), tokens, "T_Semicolon") :
       \E after \in Match(ExpressionList(goes.next, "T_RParen"), tokens, "T_RParen") :
           Body("For", <<before.tree, MakeCondition(goes.tree), after.tree>>, after.next)
    /\ Looped(1)
    /\ UNCHANGED <<symbolic, given, program>>


(* The loop is over where its body ends; what runs before a for is glued   *)
(* in front of it.                                                         *)
LoopRead ==
    /\ doing = "Returned" /\ Top.frame \in {"While", "For"}
    /\ \E s \in StatementEnds :
           LET for == Statement("For", "", 0, <<Top.kids[2], s.tree, Top.kids[3]>>)
           IN  Answer(IF Top.frame = "While"
                      THEN Statement("While", "", 0, <<Top.kids[1], s.tree>>)
                      ELSE IF Top.kids[1] = Nothing THEN for ELSE Glue(Top.kids[1], for),
                      FALSE, s.next)
    /\ Pop /\ Looped(-1)
    /\ UNCHANGED <<symbolic, program>>

(* The condition of a do stands after its body, and a semicolon after it.  *)
DoRead ==
    /\ doing = "Returned" /\ Top.frame = "Do"
    /\ \E s \in Match(StatementEnds, tokens, "T_While") :
       \E f \in Match(Condition(s.next), tokens, "T_Semicolon") :
           Answer(Statement("DoWhile", "", 0, <<f.tree, s.tree>>), FALSE, f.next)
    /\ Pop /\ Looped(-1)
    /\ UNCHANGED <<symbolic, program>>

---------------------------------------------------------------------------
(* Jumps and labels.                                                       *)

ReturnStatement ==
    /\ At("T_Return")
    /\ IF Tagged(place + 1, "T_LParen")
       THEN /\ function.type # Plain("void")
            /\ \E f \in Match(UNION {{Found(v, e.next) : v \in Fitted(e.tree, function.type, "none")} :
                                         e \in BinaryExpression(tokens, place + 2, 0)},
                              tokens, "T_RParen") :
                   Answer(Statement("Return", "", 0, <<f.tree>>), TRUE, f.next)
       ELSE /\ function.type = Plain("void")
            /\ Answer(Statement("Return", "", 0, <<Nothing>>), TRUE, place + 1)
    /\ UNCHANGED <<symbolic, stack, function, program>>

BreakStatement ==
    /\ At("T_Break")
    /\ function.loops > 0 \/ function.switches > 0
    /\ Answer(Statement("Break", "", 0, <<>>), TRUE, place + 1)
    /\ UNCHANGED <<symbolic, stack, function, program>>

ContinueStatement ==
    /\ At("T_Continue") /\ function.loops > 0
    /\ Answer(Statement("Continue", "", 0, <<>>), TRUE, place + 1)
    /\ UNCHANGED <<symbolic, stack, function, program>>

GotoStatement ==
    /\ At("T_Goto") /\ IsName(place + 1)
    /\ LET name == tokens[place + 1].text
       IN  /\ function' = [function EXCEPT !.named = @ \union {name}]
           /\ Answer(Statement("Goto", Joint(name), 0, <<>>), TRUE, place + 2)
    /\ UNCHANGED <<symbolic, stack, program>>

(* A label is known before the statement it names is read.                 *)
LabelStatement ==
    /\ doing = "Statement" /\ IsLabel
    /\ LET name == tokens[place].text
       IN  /\ name \notin function.labels
           /\ function' = [function EXCEPT !.labels = @ \union {name}]
           /\ Push(Frame("Label", Joint(name), 0, <<>>, NoType))
    /\ GoOn("Statement", place + 2)
    /\ UNCHANGED <<symbolic, given, program>>

LabelRead ==
    /\ doing = "Returned" /\ Top.frame = "Label"
    /\ Pop
    /\ Answer(Statement("Label", Top.of, 0, <<given.what>>), given.also, place)
    /\ UNCHANGED <<symbolic, function, program>>

---------------------------------------------------------------------------
(* switch: a frame of it, and one of the arm which is being read.          *)

SwitchStatement ==
    /\ At("T_Switch") /\ Tagged(place + 1, "T_LParen")
    /\ \E f \in Match(BinaryExpression(tokens, place + 2, 0), tokens, "T_RParen") :
           /\ IsIntType(f.tree.type)
           /\ Push([Frame("Switch", "", 0, <<>>, NoType) EXCEPT !.kids = <<f.tree>>])
           /\ GoOnPast("T_LBrace", "Next", f.next)
    /\ function' = [function EXCEPT !.switches = @ + 1]
    /\ UNCHANGED <<symbolic, given, program>>

(* The values the arms of a switch have so far, and whether one of them is *)
(* the default.                                                            *)
CaseValues == {kid.num : kid \in {k \in ToSet(Tail(Top.kids)) : k.of = "case"}}

SeenDefault == \E kid \in ToSet(Tail(Top.kids)) : kid.of = "default"

Case ==
    /\ In("Switch", "Next") /\ Tag \in {"T_Case", "T_Default"} /\ ~SeenDefault
    /\ \E f \in IF Tag = "T_Default" THEN {Found(0, place + 1)}
                ELSE {c \in ConstantNumber(tokens, place + 1) : c.tree \notin CaseValues} :
           /\ Push(Frame("Case", IF Tag = "T_Default" THEN "default" ELSE "case",
                         f.tree, <<>>, NoType))
           /\ GoOnPast("T_Colon", "Next", f.next)
    /\ UNCHANGED <<symbolic, given, function, program>>

(* An arm ends where the next one begins, or with the switch.              *)
CaseRead ==
    /\ In("Case", "Next") /\ Tag \in {"T_Case", "T_Default", "T_RBrace"}
    /\ stack' = [Tail(stack) EXCEPT ![1].kids =
                     Append(@, Statement("Case", Top.of, Top.num, <<GlueStatements(Top.kids)>>))]
    /\ GoOn("Next", place)
    /\ UNCHANGED <<symbolic, given, function, program>>

SwitchRead ==
    /\ In("Switch", "Next") /\ Tag = "T_RBrace" /\ Len(Top.kids) > 1
    /\ Pop /\ Answer(Statement("Switch", "", 0, Top.kids), FALSE, place + 1)
    /\ function' = [function EXCEPT !.switches = @ - 1]
    /\ UNCHANGED <<symbolic, program>>

---------------------------------------------------------------------------
(* The end of a function.                                                  *)

RECURSIVE Unlabelled(_)
Unlabelled(tree) == IF tree.node = "Label" THEN Unlabelled(tree.kids[1]) ELSE tree

(* A body ends with the right side of its last glue, or is one statement.  *)
EndsWithReturn(body) ==
    Unlabelled(IF body.node = "Glue" THEN body.kids[2] ELSE body).node = "Return"

(* Every goto has found its label, what the function declared is known no  *)
(* more, and a function with a value ends by returning one.  The tags of   *)
(* its types and its open loops are left as they are.                      *)
FunctionRead ==
    /\ In("Compound", "Next") /\ Tag = "T_RBrace" /\ Len(stack) = 1
    /\ function.named \subseteq function.labels
    /\ LET body == GlueStatements(Top.kids)
       IN  /\ function.type # Plain("void") => EndsWithReturn(body)
           /\ program' = [program EXCEPT !.functions =
                  Append(@, [symbol |-> function.symbol, body |-> body,
                             size |-> function.size, parameters |-> function.parameters])]
    /\ function' = [function EXCEPT !.type = NoType, !.labels = {}, !.named = {}]
    /\ Restore(function.mark)
    /\ Pop /\ GoOn("Next", place + 1)
    /\ UNCHANGED <<tags, types, given>>

---------------------------------------------------------------------------

(* Where nothing of this can be done the parser says why, and the          *)
(* compilation stops: no step is taken any more.                           *)
Parse ==
    \/ GlobalDeclaration \/ NamedType \/ CompositeTypeDeclaration \/ EnumType
    \/ EnumValue \/ EndMembers \/ ParseMember \/ NoMember \/ TypedefDeclaration
    \/ DeclareType \/ DeclareNames \/ DeclareVariable \/ GlobalInitialiser
    \/ LocalInitialiser \/ BeginFunction \/ Parameter \/ Prototype \/ FunctionBody
    \/ OpenCompound \/ ListGoesOn \/ CloseCompound \/ GlueStatement
    \/ EmptyStatement \/ PrintStatement \/ DeclareStatement \/ ExpressionStatement
    \/ IfStatement \/ IfRead \/ WhileStatement \/ DoStatement \/ ForStatement
    \/ LoopRead \/ DoRead \/ ReturnStatement \/ BreakStatement \/ ContinueStatement
    \/ GotoStatement \/ LabelStatement \/ LabelRead \/ SwitchStatement \/ Case
    \/ CaseRead \/ SwitchRead \/ FunctionRead \/ Parsed
=============================================================================
