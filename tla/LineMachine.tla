----------------------------- MODULE LineMachine -----------------------------
(***************************************************************************)
(* What the lines of code the peephole optimiser works on do when they are *)
(* run.  A value is what it was worked out from, so that one run stands    *)
(* for every number the registers and the memory may hold to begin with:   *)
(* "start" of a place, "cut" to a byte, or the "sum" of two.               *)
(***************************************************************************)
EXTENDS Integers, Sequences, FiniteSets

CONSTANT Bytes      \* the places which hold a char, and so a cut value
ASSUME BytesAssumption == Bytes \subseteq [1 .. 1 -> STRING]

Held(held, place) ==
    IF place \in DOMAIN held THEN held[place]
    ELSE IF place \in Bytes THEN <<"cut", <<"start", place>>>>
    ELSE <<"start", place>>

Cut(value) == IF value[1] = "cut" THEN value ELSE <<"cut", value>>

\* Where an operand names a register in brackets, it is the place the register
\* holds the address of.
PointerIn == [operand \in {"(%r8)", "(%r9)", "[x8]", "[x9]", ",x"} |->
                 CASE operand = "(%r8)" -> "%r8" [] operand = "(%r9)" -> "%r9"
                   [] operand = "[x8]" -> "x8" [] operand = "[x9]" -> "x9"
                   [] OTHER -> "x"]

\* A register which is named by its low half is the same register.
LowHalfOf == [operand \in {"w10"} |-> "x10"]
Register(operand) ==
    IF operand \in DOMAIN LowHalfOf THEN <<LowHalfOf[operand]>> ELSE <<operand>>

Place(held, operand) ==
    IF operand \in DOMAIN PointerIn THEN <<"at", Held(held, <<PointerIn[operand]>>)>>
    ELSE Register(operand)

Put(held, place, value) ==
    [one \in DOMAIN held \cup {place} |-> IF one = place THEN value ELSE held[one]]

Moved(held, from, to) == Put(held, Place(held, to), Held(held, Place(held, from)))
MovedByte(held, from, to) == Put(held, Place(held, to), Cut(Held(held, Place(held, from))))

\* A line which is not a jump, on what the places hold.
Done(held, line) ==
    LET name == line.name  operand == line.operand IN
    CASE name = "movq" -> Moved(held, operand[1], operand[3])
      [] name = "str" -> Moved(held, operand[1], operand[3])
      [] name = "ldr" -> Moved(held, operand[3], operand[1])
      [] name \in {"strb", "ldrb"} ->
            IF name = "strb" THEN MovedByte(held, operand[1], operand[3])
            ELSE MovedByte(held, operand[3], operand[1])
      [] name = "std" -> Moved(held, "d", operand[1])
      [] name = "ldd" -> Moved(held, operand[1], "d")
      [] name = "stx" -> Moved(held, "x", operand[1])
      [] name = "ldx" -> Moved(held, operand[1], "x")
      [] name = "add" ->
            Put(held, Register(operand[1]),
                <<"sum", Held(held, Register(operand[3])),
                         Held(held, Register(operand[5]))>>)
      [] OTHER -> held

Jumps == {"jmp", "b"}
Tests == {"je", "b.eq", "lbeq"}

\* The line after the label, which stands once in the code.
Target(lines, label) ==
    1 + CHOOSE k \in 1 .. Len(lines) : lines[k] = [name |-> ":", operand |-> <<label>>]

\* The state of a run: the line it has come to, what the places hold, and what
\* they held whenever a test was asked.  The n-th test is answered as "answers"
\* say, and with no after the last of them.
Step(lines, answers, state) ==
    LET line == lines[state.at] IN
    IF state.at > Len(lines) THEN state
    ELSE IF line.name \in Jumps
    THEN [state EXCEPT !.at = Target(lines, line.operand[1])]
    ELSE IF line.name \in Tests
    THEN LET n == Len(state.asked) + 1
             yes == n <= Len(answers) /\ answers[n]
         IN  [state EXCEPT !.at = IF yes THEN Target(lines, line.operand[1]) ELSE @ + 1,
                           !.asked = Append(@, state.held)]
    ELSE [state EXCEPT !.at = @ + 1, !.held = Done(@, line)]

Nothing == [place \in {} |-> <<"start", place>>]
Start == [at |-> 1, held |-> Nothing, asked |-> <<>>]

\* The state a run is in after so many steps.
After(lines, answers, steps) ==
    LET state[n \in 0 .. steps] ==
            IF n = 0 THEN Start ELSE Step(lines, answers, state[n - 1])
    IN  state[steps]

Same(left, right) ==
    \A place \in DOMAIN left \cup DOMAIN right : Held(left, place) = Held(right, place)

\* Both runs come to the end and have seen and left the same, or neither of
\* them comes to the end.
Alike(left, right, answers, steps) ==
    LET a == After(left, answers, steps)
        b == After(right, answers, steps)
        ended(state, lines) == state.at > Len(lines)
    IN  /\ ended(a, left) <=> ended(b, right)
        /\ ended(a, left) =>
            /\ Len(a.asked) = Len(b.asked)
            /\ \A k \in 1 .. Len(a.asked) : Same(a.asked[k], b.asked[k])
            /\ Same(a.held, b.held)

\* What the code generators keep to when they write a code: a label which is
\* jumped to stands in it and no label stands twice, a jump names one label, the
\* operand a value is moved from or to in a register is the register itself, and
\* nothing is put where it is itself the address of.
Codes == Seq([name : STRING, operand : Seq(STRING)])

TargetsStand(lines) ==
    \A k \in 1 .. Len(lines) :
        lines[k].name \in Jumps \cup Tests =>
            \E j \in 1 .. Len(lines) :
                lines[j] = [name |-> ":", operand |-> <<lines[k].operand[1]>>]

LabelsOnce(lines) ==
    \A j, k \in 1 .. Len(lines) :
        lines[j].name = ":" /\ lines[j] = lines[k] => j = k

WellFormed(line) ==
    LET operand == line.operand IN
    /\ line.name \in Jumps => operand = <<operand[1]>>
    /\ line.name = "movq" =>
        /\ operand = <<operand[1], ",", operand[3]>>
        /\ operand[3] \in DOMAIN PointerIn => operand[1] # PointerIn[operand[3]]
    /\ line.name \in {"str", "strb"} => operand[1] \notin DOMAIN PointerIn

WellWritten(lines) ==
    /\ lines \in Codes
    /\ TargetsStand(lines) /\ LabelsOnce(lines)
    /\ \A k \in 1 .. Len(lines) : WellFormed(lines[k])

\* Code in which a place of a char is written to by the moves of a byte only, and
\* a byte is stored from such a place.
WrittenTo(line) ==
    CASE line.name \in {"movq", "str"} -> line.operand[3]
      [] line.name = "ldd" -> "d"
      [] line.name = "ldx" -> "x"
      [] OTHER -> line.operand[1]

OnlyBytes(line) ==
    /\ line.name \in {"movq", "str", "ldr", "std", "ldd", "stx", "ldx", "add"} =>
            Register(WrittenTo(line)) \notin Bytes
    /\ line.name = "strb" => Register(line.operand[1]) \in Bytes

=============================================================================
