------------------------------ MODULE Scanner ------------------------------
(***************************************************************************)
(* The scanner of src/nuocc_scanner.cpp: the text of one source file is    *)
(* cut into tokens.  A text is a sequence of characters, and a character   *)
(* is a string of one character, but for "VT" and "BQ", the vertical tab   *)
(* and the backquote.  One step is one turn of a loop: that of             *)
(* StringToToken between words ("between"), the one which grows a word     *)
(* ("word") and the one of a string literal ("string").  An exception ends *)
(* the scan ("refused").                                                   *)
(***************************************************************************)
EXTENDS Integers, Sequences, SequencesExt, FiniteSetsExt

VARIABLES
    text,           \* the text being scanned
    at,             \* the place of the next character
    token,          \* the word, or the codes of the string, read so far
    tokens,         \* the tokens cut off so far
    mode

lexical == <<text, at, token, tokens, mode>>

---------------------------------------------------------------------------
(* Characters.                                                             *)

Printable ==
    << " ", "!", "\"", "#", "$", "%", "&", "'", "(", ")", "*", "+", ",",
       "-", ".", "/", "0", "1", "2", "3", "4", "5", "6", "7", "8", "9", ":",
       ";", "<", "=", ">", "?", "@", "A", "B", "C", "D", "E", "F", "G", "H",
       "I", "J", "K", "L", "M", "N", "O", "P", "Q", "R", "S", "T", "U", "V",
       "W", "X", "Y", "Z", "[", "\\", "]", "^", "_", "BQ", "a", "b", "c", "d",
       "e", "f", "g", "h", "i", "j", "k", "l", "m", "n", "o", "p", "q", "r",
       "s", "t", "u", "v", "w", "x", "y", "z", "{", "|", "}", "~" >>

Blanks == << "\t", "\n", "VT", "\f", "\r" >>

(* The ASCII code of every character a text may hold.                      *)
Code == [c \in ToSet(Printable) |-> 31 + CHOOSE k \in DOMAIN Printable :
                                               Printable[k] = c]
            @@ [c \in ToSet(Blanks) |-> 8 + CHOOSE k \in DOMAIN Blanks :
                                               Blanks[k] = c]

Between(c, first, last) == Code[c] \in Code[first] .. Code[last]

IsAsciiDigit(c) == Between(c, "0", "9")

IsAsciiAlpha(c) == Between(c, "a", "z") \/ Between(c, "A", "Z")

IsWhitespace(c) == c \in {" ", "\t", "\n", "\r", "VT", "\f"}

IsLineBreak(c) == c \in {"\n", "\r"}

(* The value of a digit in any radix, and -1 for every other character.    *)
DigitValue(c) ==
    IF IsAsciiDigit(c) THEN Code[c] - Code["0"]
    ELSE IF Between(c, "a", "f") THEN Code[c] - Code["a"] + 10
    ELSE IF Between(c, "A", "F") THEN Code[c] - Code["A"] + 10
    ELSE -1

---------------------------------------------------------------------------
(* The tables of the scanner.                                              *)

KeyWords ==
    <<"i","n","t">> :> "T_Int" @@ <<"c","h","a","r">> :> "T_Char"
    @@ <<"s","h","o","r","t">> :> "T_Short" @@ <<"l","o","n","g">> :> "T_Long"
    @@ <<"p","r","i","n","t">> :> "T_Print"
    @@ <<"s","t","r","u","c","t">> :> "T_Struct"
    @@ <<"u","n","i","o","n">> :> "T_Union" @@ <<"i","f">> :> "T_If"
    @@ <<"e","l","s","e">> :> "T_Else" @@ <<"w","h","i","l","e">> :> "T_While"
    @@ <<"d","o">> :> "T_Do" @@ <<"f","o","r">> :> "T_For"
    @@ <<"v","o","i","d">> :> "T_Void"
    @@ <<"r","e","t","u","r","n">> :> "T_Return"
    @@ <<"e","n","u","m">> :> "T_Enum"
    @@ <<"t","y","p","e","d","e","f">> :> "T_Typedef"
    @@ <<"e","x","t","e","r","n">> :> "T_Extern"
    @@ <<"b","r","e","a","k">> :> "T_Break"
    @@ <<"c","o","n","t","i","n","u","e">> :> "T_Continue"
    @@ <<"s","w","i","t","c","h">> :> "T_Switch"
    @@ <<"c","a","s","e">> :> "T_Case"
    @@ <<"d","e","f","a","u","l","t">> :> "T_Default"
    @@ <<"s","i","z","e","o","f">> :> "T_Sizeof"
    @@ <<"s","t","a","t","i","c">> :> "T_Static"
    @@ <<"g","o","t","o">> :> "T_Goto"

SingleOp ==
    "+" :> "T_Plus" @@ "-" :> "T_Minus" @@ "*" :> "T_Star" @@ "/" :> "T_Slash"
    @@ "%" :> "T_Percent" @@ "=" :> "T_Assign" @@ ";" :> "T_Semicolon"
    @@ "," :> "T_Comma" @@ ":" :> "T_Colon" @@ "<" :> "T_LT" @@ ">" :> "T_GT"
    @@ "{" :> "T_LBrace" @@ "}" :> "T_RBrace" @@ "(" :> "T_LParen"
    @@ ")" :> "T_RParen" @@ "[" :> "T_LBracket" @@ "]" :> "T_RBracket"
    @@ "." :> "T_Dot" @@ "&" :> "T_Amper" @@ "|" :> "T_Or" @@ "^" :> "T_Xor"
    @@ "~" :> "T_Invert" @@ "!" :> "T_LogNot" @@ "?" :> "T_Question"

DoubleOp ==
    <<"=","=">> :> "T_EQ" @@ <<"!","=">> :> "T_NE" @@ <<"<","=">> :> "T_LE"
    @@ <<">","=">> :> "T_GE" @@ <<"<","<">> :> "T_LShift"
    @@ <<">",">">> :> "T_RShift" @@ <<"&","&">> :> "T_LogAnd"
    @@ <<"|","|">> :> "T_LogOr" @@ <<"+","+">> :> "T_Inc"
    @@ <<"-","-">> :> "T_Dec" @@ <<"-",">">> :> "T_Arrow"
    @@ <<"+","=">> :> "T_PlusAssign" @@ <<"-","=">> :> "T_MinusAssign"
    @@ <<"*","=">> :> "T_StarAssign" @@ <<"/","=">> :> "T_SlashAssign"
    @@ <<"%","=">> :> "T_PercentAssign" @@ <<"&","=">> :> "T_AmperAssign"
    @@ <<"|","=">> :> "T_OrAssign" @@ <<"^","=">> :> "T_XorAssign"

TripleOp ==
    <<".",".",".">> :> "T_Ellipsis" @@ <<"<","<","=">> :> "T_LShiftAssign"
    @@ <<">",">","=">> :> "T_RShiftAssign"

InAlphabet(c) ==
    c \in DOMAIN SingleOp \/ c = "_" \/ IsAsciiDigit(c) \/ IsAsciiAlpha(c)

---------------------------------------------------------------------------
(* Words.                                                                  *)

(* A mutant: the operators of three characters are not asked about.        *)
BeginsDouble(word) == \E op \in DOMAIN DoubleOp : IsPrefix(word, op)

BeginsOperator(word) ==
    \E op \in DOMAIN DoubleOp \union DOMAIN TripleOp : IsPrefix(word, op)

IsNewToken(word, c) ==
    /\ ~BeginsOperator(Append(word, c))
    /\ \/ word \in DOMAIN DoubleOp \union DOMAIN TripleOp
       \/ c \in DOMAIN SingleOp
       \/ Len(word) = 1 /\ word[1] \in DOMAIN SingleOp

Refused == -1

(* Digits read into a number from the left.  The number is refused before  *)
(* it passes the largest one allowed, without ever working out more.       *)
ReadDigits(digits, radix, most) ==
    FoldLeft(LAMBDA value, c :
                 IF \/ value = Refused
                    \/ DigitValue(c) \notin 0 .. (radix - 1)
                    \/ value > (most - DigitValue(c)) \div radix
                 THEN Refused
                 ELSE value * radix + DigitValue(c),
             0, digits)

Int32Max == 2147483647

InHexadecimal(word) == Len(word) > 1 /\ word[1] = "0" /\ word[2] \in {"x", "X"}

ToIntLit(word) ==
    IF InHexadecimal(word)
    THEN IF Len(word) = 2 THEN Refused
         ELSE ReadDigits(SubSeq(word, 3, Len(word)), 16, Int32Max)
    ELSE ReadDigits(word, IF word[1] = "0" /\ Len(word) > 1 THEN 8 ELSE 10,
                    Int32Max)

IsIntLit(word) == IsAsciiDigit(word[1])

IsIdent(word) ==
    /\ ~IsAsciiDigit(word[1])
    /\ \A k \in DOMAIN word :
           word[k] = "_" \/ IsAsciiAlpha(word[k]) \/ IsAsciiDigit(word[k])

(* A token: what it is, the letters of a name or a keyword, and the codes  *)
(* of a string or the value of a number.                                   *)
Token(tag, letters, codes) == [tag |-> tag, text |-> letters, codes |-> codes]

TokenOf(word) ==
    CASE Len(word) = 1 /\ word[1] \in DOMAIN SingleOp ->
             Token(SingleOp[word[1]], <<>>, <<>>)
      [] word \in DOMAIN DoubleOp -> Token(DoubleOp[word], <<>>, <<>>)
      [] word \in DOMAIN TripleOp -> Token(TripleOp[word], <<>>, <<>>)
      [] word \in DOMAIN KeyWords -> Token("T_KeyWord", word, <<>>)
      [] IsIntLit(word) -> Token("T_IntLit", <<>>, <<ToIntLit(word)>>)
      [] IsIdent(word) -> Token("T_Identifier", word, <<>>)
      [] OTHER -> Token("T_UnknownToken", <<>>, <<>>)

IsToken(made) == made.tag # "T_UnknownToken" /\ made.codes # <<Refused>>

(* The word is committed, and the scan goes on as `next` says.             *)
CommitToken(word, next) ==
    \/ /\ word = <<>>
       /\ mode' = next /\ UNCHANGED tokens
    \/ /\ word # <<>>
       /\ IF IsToken(TokenOf(word))
          THEN mode' = next /\ tokens' = Append(tokens, TokenOf(word))
          ELSE mode' = "refused" /\ UNCHANGED tokens

---------------------------------------------------------------------------
(* Characters of a literal.                                                *)

More(i) == i <= Len(text)

(* One character of a literal: its code, and where the next one begins.    *)
Read(code, next) == [code |-> code, next |-> next]

SimpleEscape ==
    "a" :> 7 @@ "b" :> 8 @@ "f" :> 12 @@ "n" :> 10 @@ "r" :> 13 @@ "t" :> 9
    @@ "v" :> 11 @@ "\\" :> 92 @@ "\"" :> 34 @@ "'" :> 39

(* A mutant: a code of 256 is let through.                                  *)
ScanLooseCode(i, radix) ==
    LET digits == {k \in i .. Len(text) :
                       \A m \in i .. k : DigitValue(text[m]) \in 0 .. (radix - 1)}
        ours   == IF radix = 16 THEN digits ELSE digits \intersect (i .. i + 2)
    IN  IF ours = {} THEN Read(Refused, i)
        ELSE Read(ReadDigits(SubSeq(text, i, Max(ours)), radix, 256),
                  Max(ours) + 1)

(* The code which begins at a place: as many digits of the radix as there  *)
(* are, and no more than three in octal.                                   *)
ScanCode(i, radix) ==
    LET digits == {k \in i .. Len(text) :
                       \A m \in i .. k : DigitValue(text[m]) \in 0 .. (radix - 1)}
        ours   == IF radix = 16 THEN digits ELSE digits \intersect (i .. i + 2)
    IN  IF ours = {} THEN Read(Refused, i)
        ELSE Read(ReadDigits(SubSeq(text, i, Max(ours)), radix, 255),
                  Max(ours) + 1)

ScanEscape(i) ==
    IF text[i] # "\\" THEN Read(Code[text[i]], i + 1)
    ELSE IF More(i + 1) => IsLineBreak(text[i + 1]) THEN Read(Refused, i)
    ELSE CASE text[i + 1] \in DOMAIN SimpleEscape ->
                  Read(SimpleEscape[text[i + 1]], i + 2)
           [] Between(text[i + 1], "0", "7") -> ScanCode(i + 1, 8)
           [] text[i + 1] = "x" -> ScanCode(i + 2, 16)
           [] OTHER -> Read(Refused, i)

---------------------------------------------------------------------------

InitScan(given) ==
    /\ text = given
    /\ at = 1 /\ token = <<>> /\ tokens = <<>> /\ mode = "between"

Here(where, c) == mode = where /\ More(at) /\ text[at] = c

Refuse == mode' = "refused" /\ UNCHANGED <<text, at, token, tokens>>

(* The end of the text: Scan closes the list of tokens.                    *)
EndOfText ==
    /\ mode = "between" /\ ~More(at)
    /\ tokens' = Append(tokens, Token("T_EOF", <<>>, <<>>))
    /\ mode' = "done"
    /\ UNCHANGED <<text, at, token>>

SkipEmpty ==
    /\ mode = "between" /\ More(at) /\ IsWhitespace(text[at])
    /\ at' = at + 1
    /\ UNCHANGED <<text, token, tokens, mode>>

FirstOfLine == at > 1 => IsLineBreak(text[at - 1])

(* A line the pre-processor wrote is stepped over up to its line break.    *)
SkipDirective ==
    /\ Here("between", "#") /\ FirstOfLine
    /\ at' = Min({k \in at .. Len(text) : IsLineBreak(text[k])}
                     \union {Len(text) + 1})
    /\ UNCHANGED <<text, token, tokens, mode>>

ScanCharLiteral ==
    /\ Here("between", "'")
    /\ IF More(at + 1) => IsLineBreak(text[at + 1]) THEN Refuse
       ELSE \E c \in {ScanEscape(at + 1)} :
              IF c.code # Refused /\ More(c.next) /\ text[c.next] = "'"
              THEN /\ at' = c.next + 1
                   /\ tokens' = Append(tokens, Token("T_IntLit", <<>>, <<c.code>>))
                   /\ UNCHANGED <<text, token, mode>>
              ELSE Refuse

ScanStrLiteral ==
    /\ Here("between", "\"")
    /\ at' = at + 1 /\ token' = <<>> /\ mode' = "string"
    /\ UNCHANGED <<text, tokens>>

InString ==
    /\ mode = "string"
    /\ IF More(at) => IsLineBreak(text[at]) THEN Refuse
       ELSE IF text[at] = "\""
       THEN /\ at' = at + 1 /\ mode' = "between" /\ token' = <<>>
            /\ tokens' = Append(tokens, Token("T_StrLit", <<>>, token))
            /\ UNCHANGED text
       ELSE \E c \in {ScanEscape(at)} :
              IF c.code = Refused THEN Refuse
              ELSE /\ at' = c.next /\ token' = Append(token, c.code)
                   /\ UNCHANGED <<text, tokens, mode>>

BeginWord ==
    /\ mode = "between" /\ More(at)
    /\ ~IsWhitespace(text[at]) /\ text[at] \notin {"'", "\""}
    /\ ~(text[at] = "#" /\ FirstOfLine)
    /\ mode' = "word" /\ token' = <<>>
    /\ UNCHANGED <<text, at, tokens>>

EndsWord(i) == More(i) => IsWhitespace(text[i]) \/ text[i] \in {"'", "\""}

EndWord ==
    /\ mode = "word" /\ EndsWord(at)
    /\ CommitToken(token, "between")
    /\ token' = <<>>
    /\ UNCHANGED <<text, at>>

GrowWord ==
    /\ mode = "word" /\ ~EndsWord(at)
    /\ IF ~InAlphabet(text[at]) THEN Refuse
       ELSE /\ IF IsNewToken(token, text[at])
               THEN CommitToken(token, "word") /\ token' = <<text[at]>>
               ELSE token' = Append(token, text[at]) /\ UNCHANGED <<tokens, mode>>
            /\ at' = at + 1
            /\ UNCHANGED text

Scan ==
    \/ EndOfText \/ SkipEmpty \/ SkipDirective \/ ScanCharLiteral
    \/ ScanStrLiteral \/ InString \/ BeginWord \/ EndWord \/ GrowWord
=============================================================================
