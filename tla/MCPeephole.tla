----------------------------- MODULE MCPeephole -----------------------------
EXTENDS Peephole

CONSTANT MostLines      \* the longest code of each machine

To(name, from, to) == Instruction(name, <<from, ",", to>>)
On(name, operand) == Instruction(name, <<operand>>)
Flow(jump, test) ==
    {On(jump, "L1"), On(test, "L1"), Label("L1")}

\* What each of the generators writes: a value put in a place of the frame, read
\* from it, moved between two registers, read and written through an address,
\* and the jumps to a label.
Lines ==
    [m6809 |-> Flow("jmp", "lbeq") \cup
        {On("std", "2,s"), On("ldd", "2,s"), On("std", ",x"), On("ldd", ",x"),
         On("stx", "2,s"), On("ldx", "2,s"), On("ldx", "4,s")},
     arm64 |-> Flow("b", "b.eq") \cup
        {To("str", "x8", "[x29,#16]"), To("ldr", "x8", "[x29,#16]"),
         To("ldr", "x9", "[x29,#16]"), To("str", "x8", "[x9]"), To("ldr", "x8", "[x9]"),
         To("strb", "w10", "[x29,#24]"), To("ldrb", "w10", "[x29,#24]")},
     x86 |-> Flow("jmp", "je") \cup
        {To("movq", "%r8", "-8(%rbp)"), To("movq", "-8(%rbp)", "%r8"),
         To("movq", "-8(%rbp)", "%r9"), To("movq", "%r8", "%r9"), To("movq", "%r9", "%r8"),
         To("movq", "(%r8)", "%r8"), To("movq", "%r9", "(%r8)")}]

Places(lines) == {k \in 1 .. Len(lines) : lines[k] = Label("L1")}
Uses(lines) ==
    {k \in 1 .. Len(lines) : lines[k].name # ":" /\ lines[k].operand = <<"L1">>}

\* A label which is jumped to is placed, and placed once.
Assembles(lines) == Cardinality(Places(lines)) = (IF Uses(lines) = {} THEN 0 ELSE 1)

CodesOver(lines, most) ==
    {some \in UNION {[1 .. n -> lines] : n \in 1 .. most} : Assembles(some)}

MCPrograms == [machine \in Targets |-> CodesOver(Lines[machine], MostLines[machine])]

MCMostLines == [m6809 |-> 3, arm64 |-> 3, x86 |-> 4]

\* A char, and the registers which hold one: it was read by then.
MCBytes == {<<"[x29,#24]">>, <<"x10">>, <<"x11">>}

\* The codes are such that a byte stands alone in the register it is stored from.
ASSUME BytesAsAssumed ==
    \A machine \in Targets : \A line \in Lines[machine] : OnlyBytes(line)

=============================================================================
