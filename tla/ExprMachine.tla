----------------------------- MODULE ExprMachine -----------------------------
(***************************************************************************)
(* The machine which runs the code ExprCodegen has written, an instruction *)
(* at a time, over the registers, the places of the frame values are set   *)
(* aside in, the stack and the memory.                                     *)
(*                                                                         *)
(* An operand is a cell of memory of its own, so that no two operands of   *)
(* an expression disturb one another and its value does not hang on the    *)
(* order they are worked out in.  A value is an integer far inside the     *)
(* width of a register.                                                    *)
(***************************************************************************)
EXTENDS ExprCodegen

CONSTANTS
    Cells,          \* the memory
    Answer(_)       \* what the function which is called answers, of its arguments

ASSUME CellsAssumption ==
    /\ Cells \subseteq Nat \ {0}
    /\ \A root \in Expressions :
           root.kind \in {"name", "postinc", "assign", "addto"} => root.cell \in Cells

Junk == -777

VARIABLES
    start,          \* what the cells hold when the expression is asked for
    pc,             \* 0 as long as it was not
    file, frame, stack, params, memory

machine == <<start, pc, file, frame, stack, params, memory>>

vars == <<generator, machine>>

\* Each cell holds zero or a power of ten of its own, so that two different
\* sums of cells are two different values.
MemoryWith(zeros) == [cell \in Cells |-> IF cell \in zeros THEN 0 ELSE 10 ^ (cell - 1)]

Init ==
    /\ GenInit
    /\ pc = 0
    /\ start = MemoryWith({}) /\ memory = MemoryWith({})
    /\ file = [reg \in Regs |-> Junk] /\ frame = [slot \in Slots |-> Junk]
    /\ stack = <<>>
    /\ params = [arg \in 1 .. MaxArguments |-> Junk]

Generate == pc = 0 /\ GenNext /\ UNCHANGED machine

Enter ==
    /\ pc = 0 /\ Generated /\ ~refused
    /\ pc' = 1
    /\ \E zeros \in given.zeros : start' = MemoryWith(zeros)
    /\ memory' = start'
    /\ UNCHANGED <<generator, file, frame, stack, params>>

-----------------------------------------------------------------------------
Done == pc > Len(code)
Instr == code[pc]
At(op) == pc # 0 /\ ~Done /\ Instr.op = op

\* The registers of the instruction: the one which is written, and the other.
Reg == Instr.regs[1]
Other == Instr.regs[2]

Step == pc' = pc + 1 /\ UNCHANGED <<generator, start>>

Target(label) == CHOOSE k \in DOMAIN code : code[k].op = "label" /\ code[k].label = label

Put(reg, value) ==
    /\ file' = [file EXCEPT ![reg] = value]
    /\ UNCHANGED <<frame, stack, params, memory>>

\* A register which does not hold the address of a cell reads and writes
\* somewhere else.
ReadAt(address) == IF address \in Cells THEN memory[address] ELSE Junk
WriteAt(address, value) == [cell \in Cells |-> IF cell = address THEN value
                                               ELSE memory[cell]]

RunLoad == \/ At("int") /\ Step /\ Put(Reg, Instr.value)
           \/ At("name") /\ Step /\ Put(Reg, memory[Instr.cell])
           \/ At("read") /\ Step /\ Put(Reg, ReadAt(file[Other]))

Bit(condition) == IF condition THEN 1 ELSE 0

RunOperation ==
    \/ At("sub") /\ Step /\ Put(Reg, file[Reg] - file[Other])
    \/ At("add") /\ Step /\ Put(Reg, file[Reg] + file[Other])
    \/ At("less") /\ Step /\ Put(Reg, Bit(file[Reg] < file[Other]))
    \/ At("to bool") /\ Step /\ Put(Reg, Bit(file[Reg] # 0))
    \/ At("move") /\ Step /\ Put(Reg, file[Other])

RunWrite ==
    /\ At("write")
    /\ Step
    /\ memory' = WriteAt(file[Other], file[Reg])
    /\ UNCHANGED <<file, frame, stack, params>>

SpillRegister ==
    /\ At("spill")
    /\ Step
    /\ frame' = [frame EXCEPT ![Instr.slot] = file[Reg]]
    /\ UNCHANGED <<file, stack, params, memory>>

ReloadRegister == At("reload") /\ Step /\ Put(Reg, frame[Instr.slot])

RunLabel == At("label") /\ Step /\ UNCHANGED <<file, frame, stack, params, memory>>

Jump(taken) ==
    /\ pc' = IF taken THEN Target(Instr.label) ELSE pc + 1
    /\ UNCHANGED <<generator, start, file, frame, stack, params, memory>>

RunJump ==
    \/ At("jump") /\ Jump(TRUE)
    \/ At("jump if zero") /\ Jump(file[Reg] = 0)
    \/ At("jump if not zero") /\ Jump(file[Reg] # 0)
    \/ At("jump if not less") /\ Jump(~(file[Reg] < file[Other]))

Stack(new) == Step /\ stack' = new /\ UNCHANGED <<frame, memory>>
Dropped(words) == SubSeq(stack, 1, Len(stack) - words)

RunStack ==
    \/ At("push argument") /\ Stack(stack \o <<Junk, file[Reg]>>)
                           /\ UNCHANGED <<file, params>>
    \/ At("push") /\ Stack(Append(stack, file[Reg])) /\ UNCHANGED <<file, params>>
    \/ At("pad") /\ Stack(Append(stack, Junk)) /\ UNCHANGED <<file, params>>
    \/ At("drop") /\ Stack(Dropped(Instr.words)) /\ UNCHANGED <<file, params>>
    \/ At("pop") /\ Stack(Dropped(1)) /\ UNCHANGED params
                 /\ file' = [file EXCEPT ![Reg] = stack[Len(stack)]]
    \/ At("param") /\ Stack(stack) /\ UNCHANGED file
                   /\ params' = [params EXCEPT ![Instr.arg] =
                                    stack[Len(stack) - Instr.depth]]
    \/ At("pack") /\ Stack([stack EXCEPT ![Len(stack) - Instr.to] =
                                    stack[Len(stack) - Instr.from]])
                  /\ UNCHANGED <<file, params>>

\* Where the function which is called finds its arguments: those beyond the
\* ones in registers are on the stack, a word each.
ArgumentsTaken ==
    [arg \in 1 .. Instr.count |->
        IF arg <= Instr.in_registers
        THEN params[arg]
        ELSE stack[Len(stack) - (arg - Instr.in_registers - 1)]]

\* On x86-64 a function is free to leave anything in every register of the
\* pool, on ARM64 it gives them back as they were.
RunCall ==
    /\ At("call")
    /\ Step
    /\ file' = IF given.machine = "arm64" THEN file ELSE [reg \in Regs |-> Junk]
    /\ params' = [arg \in 1 .. MaxArguments |->
                    IF arg = 1 THEN Answer(ArgumentsTaken) ELSE Junk]
    /\ UNCHANGED <<frame, stack, memory>>

\* Its answer is in a register which is not of the pool.
RunFetch == At("fetch") /\ Step /\ Put(Reg, params[1])

Ended == refused \/ (pc # 0 /\ Done)

Next ==
    \/ Generate \/ Enter
    \/ RunLoad \/ RunOperation \/ RunWrite \/ SpillRegister \/ ReloadRegister
    \/ RunLabel \/ RunJump \/ RunStack \/ RunCall \/ RunFetch
    \/ Ended /\ UNCHANGED vars

Spec == Init /\ [][Next]_vars

-----------------------------------------------------------------------------
\* The stack is a multiple of sixteen bytes at every call, those made while
\* the arguments of another call are being worked out included, and is given
\* back at the end.
StackInOrder ==
    /\ At("call") => Len(stack) % 2 = 0
    /\ Ended => stack = <<>>

=============================================================================
