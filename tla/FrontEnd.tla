------------------------------ MODULE FrontEnd ------------------------------
(***************************************************************************)
(* The scanner and the parser, one after the other: a text is cut into     *)
(* tokens, and the tokens are read as an expression and the ';' after it,  *)
(* or as a whole program.  `source` says what the text was written for:    *)
(* the tokens meant by it, the expression or the program meant by those,   *)
(* the bytes its last variable is given, and whether the text and the      *)
(* program are right.                                                      *)
(***************************************************************************)
EXTENDS WrittenPrograms, FrameMachine

CONSTANTS
    Sources,        \* what is written
    Declared,       \* the names an expression may use
    Defined         \* and the composite types they are of

VARIABLES
    source,
    answers         \* after an expression: the one set of trees it is read as

vars == <<lexical, symbolic, parsing, source, answers>>

IsProgram == source.whole

(* A text which is not the scanner's business here is taken as its tokens. *)
InitScanned(one) ==
    /\ text = <<>> /\ at = 1 /\ token = <<>> /\ mode = "done"
    /\ tokens = Append(one.tokens, Token("T_EOF", <<>>, <<>>))

Init ==
    /\ \E one \in Sources :
           /\ source = one
           /\ IF one.text = <<>> THEN InitScanned(one) ELSE InitScan(one.text)
    /\ answers = <<>>
    /\ IF IsProgram THEN InitParse
       ELSE /\ symbols = Declared /\ tags = <<>> /\ types = Defined
            /\ place = 1 /\ doing = "Next" /\ stack = <<>>
            /\ given = [what |-> Nothing, also |-> FALSE]
            /\ function = Outside
            /\ program = [functions |-> <<>>, globals |-> <<>>]

Scanning == Scan /\ UNCHANGED <<symbolic, parsing, source, answers>>

(* An expression as a statement of its own.                                *)
ParseExpression ==
    /\ mode = "done" /\ answers = <<>> /\ source.meant # <<>>
    /\ answers' = <<{f.tree : f \in Match(BinaryExpression(tokens, 1, 0), tokens,
                                          "T_Semicolon")}>>
    /\ UNCHANGED <<lexical, symbolic, parsing, source>>

Parsing ==
    /\ mode = "done" /\ IsProgram
    /\ Parse
    /\ UNCHANGED <<lexical, source, answers>>

(* Of a program which is right the end is that all of it has been read:    *)
(* the parser stops nowhere else in it.                                    *)
Ended == /\ \/ mode = "refused"
            \/ /\ mode = "done" /\ ~IsProgram
               /\ answers # <<>> \/ source.meant = <<>>
            \/ mode = "done" /\ IsProgram /\ (doing = "parsed" \/ ~source.stands)
         /\ UNCHANGED vars

Next == Scanning \/ ParseExpression \/ Parsing \/ Ended

Spec == Init /\ [][Next]_vars

---------------------------------------------------------------------------
(* The scanner is somewhere in its text or at its end, keeps whole tokens  *)
(* alone, and a name, a number and a string hold what their kind holds.    *)
TypeOK ==
    /\ mode \in {"between", "word", "string", "done", "refused"}
    /\ at \in 1 .. Len(text) + 1
    /\ \A k \in DOMAIN tokens :
           /\ tokens[k].tag # "T_UnknownToken"
           /\ tokens[k].tag = "T_IntLit" =>
                  Len(tokens[k].codes) = 1 /\ tokens[k].codes[1] \in 0 .. Int32Max
           /\ tokens[k].tag = "T_StrLit" => ToSet(tokens[k].codes) \subseteq 0 .. 255
    /\ Len(answers) <= 1
    /\ doing \in {"Next", "Type", "Typed", "Names", "Value", "Statement", "Returned",
                 "parsed"}
    /\ place \in 1 .. Len(tokens) \/ mode # "done"
    /\ InFunction <=> stack # <<>> /\ Last(stack).frame = "Compound"
    /\ function.size >= 0 /\ function.loops >= 0 /\ function.switches >= 0

(* A text is cut into the tokens it was written for (StringToToken): the   *)
(* longest operator there is at each place, whatever stands beside it,     *)
(* names and keywords whole, numbers in the radix they are written in, and *)
(* literals with their escapes; and it is refused when one of its lexemes  *)
(* is no token, and never otherwise.                                       *)
TokensAsWritten ==
    /\ mode = "done" => /\ ~source.wrong
                        /\ tokens = Append(source.tokens, Token("T_EOF", <<>>, <<>>))
    /\ mode = "refused" => source.wrong

(* An expression is read back as the one which was written down with no    *)
(* more parentheses than it needs (BinaryExpression and what it calls),    *)
(* with the type the language gives it, and refused exactly when the       *)
(* language gives it none.                                                 *)
ReadAsWritten ==
    \A k \in DOMAIN answers :
        LET w == source.meant[1]
        IN  IF TypeOf(w) = NoType THEN answers[k] = {}
            ELSE \E tree \in answers[k] :
                     /\ answers[k] = {tree}
                     /\ Stripped(tree) = Meaning(w)
                     /\ Same(tree.type, TypeOf(w))

(* Whatever the parser lets through is a tree the code generator can       *)
(* write: ModifyType has made the sides of each operator agree, and each   *)
(* offset into what a pointer points at is scaled once and by the room of  *)
(* the right thing.                                                        *)
TreesAgree == \A k \in DOMAIN answers : \A tree \in answers[k] : Agrees(tree)


(* Whatever the text, the parser puts members, parameters and variables    *)
(* down in no other way than Layout lets it: a definition is added to      *)
(* while it is open and by what has a size, it is laid out once, and a     *)
(* frame only grows behind what is in it (ParseMembers, AllocateLocal).    *)
LaidOutInSteps == [][LayoutNext]_laid

(* A variable with values holds the same bytes wherever it is declared:    *)
(* what is put down for a global one (WrittenValuePieces, GenGlobSymbol)   *)
(* is what the statements in front of a local one leave in a frame full of *)
(* junk (StoreWrittenValues, ClearArray), and both are what was written;   *)
(* the variables beside it keep what they hold.                            *)
InitialisersAgree ==
    doing = "parsed" /\ source.image # <<>> =>
        LET bytes  == source.image[1]
            beside == BytesOf(7, TargetSizes.int)
            Holds(name, wanted) ==
                LocalBytes(program.functions[1], name, Len(wanted)) = wanted
        IN  /\ GenGlobSymbol(Last(program.globals)) = bytes
            /\ Holds(<<"v">>, bytes) /\ Holds(<<"x">>, beside) /\ Holds(<<"y">>, beside)
=============================================================================
