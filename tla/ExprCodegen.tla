----------------------------- MODULE ExprCodegen -----------------------------
(***************************************************************************)
(* The walk of AsmCodegen over an expression and the code it writes,       *)
(* x86-64 or ARM64, register by register.  The two machines set values     *)
(* aside, work on them and jump with instructions of one meaning, and      *)
(* differ in how a function is called.                                     *)
(*                                                                         *)
(* `pending` is what the calls of GenExpr which have not come back have    *)
(* yet to do: calls they will make and, between them, registers they will  *)
(* ask for and free and instructions they will write.  A call puts down    *)
(* what its function does in the place of itself.                          *)
(*                                                                         *)
(* The functions of the walk hold registers in their variables.  `names`   *)
(* are the registers held, the latest last, and what is pending says how   *)
(* many from the latest back the one it means is.                          *)
(*                                                                         *)
(* "sub" stands for every operator which works in place on its first       *)
(* register, "less" for every comparison.                                  *)
(***************************************************************************)
EXTENDS SpillPolicy, Sequences, FiniteSets

CONSTANTS
    Expressions,    \* expressions, and those they are made of
    Cases           \* which of them is worked out, and on which machine

NodeKinds == {"name", "postinc", "sub", "less", "and", "or", "ternary", "call",
              "assign", "addto"}
Machines == {"x86", "arm64"}
MaxArguments == 6

IsExpression(root, all) ==
    /\ root.kind \in NodeKinds
    /\ root.kind \in {"sub", "less", "and", "or"} => root.left \in all /\ root.right \in all
    /\ root.kind = "ternary" => root.left \in all /\ root.mid \in all /\ root.right \in all
    /\ root.kind \in {"assign", "addto"} => root.value \in all
    /\ root.kind = "call" => /\ root.args \in Seq(all) /\ Len(root.args) <= MaxArguments
                             /\ root.named \in 0 .. Len(root.args)

AreExpressions(all) == \A root \in all : IsExpression(root, all)

AreCases(all, expressions) ==
    \A case \in all : case.machine \in Machines /\ case.root \in expressions

ASSUME ExpressionsAssumption == AreExpressions(Expressions) /\ AreCases(Cases, Expressions)

VARIABLES
    given,      \* the case
    pool, next_label,
    names, code, pending,
    refused,    \* whether the expression was refused as too complex
    flaws       \* what setting values aside went wrong in its code, a ghost

generator == <<given, pool, next_label, names, code, pending, refused, flaws>>

-----------------------------------------------------------------------------
(***************************************************************************)
(* What may be pending.  "alloc" and the loads ask for a register, "free"  *)
(* gives one back, the rest is written as it stands.                       *)
(***************************************************************************)
Walk(root) == [op |-> "expression", regs |-> <<>>, root |-> root]

Alloc == [op |-> "alloc", regs |-> <<>>]
AllocAfterJump == [op |-> "alloc after jump", regs |-> <<>>]
LoadInt(value) == [op |-> "int", regs |-> <<>>, value |-> value]
LoadSymbol(cell) == [op |-> "name", regs |-> <<>>, cell |-> cell]
\* The place of a cell is reached through a pointer to it.
AddressOf(cell) == LoadInt(cell)
LoadDeref(address) == [op |-> "read", regs |-> <<address>>]
Fetch == [op |-> "fetch", regs |-> <<>>]

Free(n) == [op |-> "free", regs |-> <<n>>]
FreeAfterJump(n) == [op |-> "free after jump", regs |-> <<n>>]

\* Add(), Sub(), CompareAndSet() and the rest: the answer is written over the
\* first register and the second one is freed.
InPlace(op, first, second) ==
    <<[op |-> op, regs |-> <<first, second>>], Free(second)>>

Move(dest, src) == [op |-> "move", regs |-> <<dest, src>>]
ToBool == [op |-> "to bool", regs |-> <<1>>]
StoreDeref(value, address) == [op |-> "write", regs |-> <<value, address>>]
PushArgument == [op |-> "push argument", regs |-> <<1>>]

EmitLabel(label) == [op |-> "label", regs |-> <<>>, label |-> label]
EmitJump(label) == [op |-> "jump", regs |-> <<>>, label |-> label]
JumpIfZero(label) == [op |-> "jump if zero", regs |-> <<1>>, label |-> label]
JumpIfNonZero(label) == [op |-> "jump if not zero", regs |-> <<1>>, label |-> label]
JumpIfNotLess(label) == [op |-> "jump if not less", regs |-> <<2, 1>>, label |-> label]

Call(count, named) ==
    [op |-> "call sequence", regs |-> <<>>, count |-> count, named |-> named]

Loads == {"alloc", "alloc after jump", "int", "name", "read", "fetch"}
Frees == {"free", "free after jump"}
Jumps == {"jump", "jump if zero", "jump if not zero", "jump if not less"}
Plain == {"sub", "less", "add", "move", "to bool", "write", "push argument", "label"} \cup Jumps

\* The labels NewLabel() answers with next, from 0 on.
NewLabel(k) == next_label + k

\* What the call at the head does in its place, having asked for n labels.
Does(n, items) ==
    /\ pending' = items \o Tail(pending)
    /\ next_label' = next_label + n

-----------------------------------------------------------------------------
GenOperands(root) ==
    Does(0, <<Walk(root.left), Walk(root.right)>> \o InPlace(root.kind, 2, 1))

\* The value is worked out first, and then the place it is stored in.
GenAssign(root) ==
    Does(0, <<Walk(root.value), AddressOf(root.cell), StoreDeref(2, 1), Free(1)>>)

\* The value, the place and what the place holds: the sum goes there and is
\* the answer.
GenAssignOp(root) ==
    Does(0, <<Walk(root.value), AddressOf(root.cell), LoadDeref(1)>>
            \o InPlace("add", 1, 3) \o <<StoreDeref(1, 2), Free(2)>>)

\* The place, what it holds, what it held before and the step.
StepPlace(root) ==
    <<AddressOf(root.cell), LoadDeref(1), Alloc, Move(1, 2), LoadInt(1)>>
    \o InPlace("add", 3, 1) \o <<StoreDeref(2, 3), Free(3)>>

\* The mutant of IncDecPlace() which never frees the register of the value.
IncDecPlaceKeepsValue(root) == Does(0, StepPlace(root))

\* '++' written after a place which is not a name.
IncDecPlace(root) == Does(0, StepPlace(root) \o <<Free(2)>>)

\* Whether the side settles the answer.
JumpIfSettled(kind, settled) ==
    IF kind = "and" THEN JumpIfZero(settled) ELSE JumpIfNonZero(settled)

\* The mutant of GenSide() which keeps the side it asked.
GenSideKeepsValue(side, jump) == <<Walk(side), jump>>

\* One side of '&&' or '||': worked out, asked whether it settles the answer,
\* and thrown away.
GenSide(side, jump) == <<Walk(side), jump, FreeAfterJump(1)>>

\* What is worked out becomes the answer.
Settle(item) == <<item, Move(2, 1), Free(1)>>

\* Both sides, and the register of the answer asked for before them.
GenLogic(root) ==
    LET settled == NewLabel(0)
        end_label == NewLabel(1)
        jump == JumpIfSettled(root.kind, settled)
        answer == IF root.kind = "and" THEN 1 ELSE 0
    IN  Does(2, <<Alloc>> \o GenSide(root.left, jump) \o GenSide(root.right, jump)
                \o Settle(LoadInt(answer)) \o <<EmitJump(end_label), EmitLabel(settled)>>
                \o Settle(LoadInt(1 - answer)) \o <<EmitLabel(end_label)>>)

\* A comparison jumps on its two operands, any other condition on whether the
\* value it is turned into is zero.
GenCondition(cond, false_label) ==
    IF cond.kind = "less"
    THEN <<Walk(cond.left), Walk(cond.right), JumpIfNotLess(false_label),
           FreeAfterJump(2), FreeAfterJump(1)>>
    ELSE <<Walk(cond), ToBool, JumpIfZero(false_label), FreeAfterJump(1)>>

\* The register of the answer is asked for behind the jump of the condition.
GenTernary(root) ==
    LET false_label == NewLabel(0)
        end_label == NewLabel(1)
    IN  Does(2, GenCondition(root.left, false_label) \o <<AllocAfterJump>>
                \o Settle(Walk(root.mid)) \o <<EmitJump(end_label), EmitLabel(false_label)>>
                \o Settle(Walk(root.right)) \o <<EmitLabel(end_label)>>)

\* The arguments from the last one to the first, each of them pushed.
GenArguments(args) ==
    [k \in 1 .. 3 * Len(args) |->
        CASE k % 3 = 1 -> Walk(args[Len(args) - k \div 3])
          [] k % 3 = 2 -> PushArgument
          [] k % 3 = 0 -> Free(1)]

\* The answer goes into a register asked for after the call.  A function which
\* takes a variable number of arguments names fewer than it is given.
GenCall(root) ==
    Does(0, GenArguments(root.args) \o <<Call(Len(root.args), root.named), Fetch>>)

\* What GenExpr() does for each node.
ExpressionOf(root) ==
    \/ root.kind = "name" /\ Does(0, <<LoadSymbol(root.cell)>>)
    \/ root.kind = "postinc" /\ IncDecPlace(root)
    \/ root.kind \in {"sub", "less"} /\ GenOperands(root)
    \/ root.kind \in {"and", "or"} /\ GenLogic(root)
    \/ root.kind = "ternary" /\ GenTernary(root)
    \/ root.kind = "call" /\ GenCall(root)
    \/ root.kind = "assign" /\ GenAssign(root)
    \/ root.kind = "addto" /\ GenAssignOp(root)

-----------------------------------------------------------------------------
\* Call() of the x86-64 target: the registers in use are saved around the call
\* and the stack is padded to sixteen bytes.  The first argument is nearest to
\* the stack pointer, each of them in a slot of two words.
InUse == Regs \ FreeRegs(pool)

\* The i-th register in use is the one with i - 1 others before it.
HeldRegs ==
    [i \in 1 .. Cardinality(InUse) |->
        CHOOSE reg \in InUse : Cardinality({other \in InUse : other < reg}) = i - 1]

\* The mutant of Padding() which leaves the stack as it is.
PaddingForgotten(held) == 0

Padding(held) == Len(held) % 2

PushAll(held) == [i \in 1 .. Len(held) |-> [op |-> "push", regs |-> <<held[i]>>]]

\* The mutant of PopAll() which gives the registers back in the order they
\* were saved in.
PopAllInOrderPushed(held) ==
    [i \in 1 .. Len(held) |-> [op |-> "pop", regs |-> <<held[i]>>]]

\* The registers are given back in the opposite order to the one they were
\* saved in.
PopAll(held) ==
    [i \in 1 .. Len(held) |-> [op |-> "pop", regs |-> <<held[Len(held) + 1 - i]>>]]

Drop(words) == IF words = 0 THEN <<>> ELSE <<[op |-> "drop", regs |-> <<>>, words |-> words]>>
Pad(words) == IF words = 0 THEN <<>> ELSE <<[op |-> "pad", regs |-> <<>>]>>
Param(arg, depth) == [op |-> "param", regs |-> <<>>, arg |-> arg, depth |-> depth]
Pack(from, to) == [op |-> "pack", regs |-> <<>>, from |-> from, to |-> to]
CallFunction(count, in_registers) ==
    [op |-> "call", regs |-> <<>>, count |-> count, in_registers |-> in_registers]

X86CallSequence(held, count) ==
    PushAll(held) \o Pad(Padding(held))
    \o [arg \in 1 .. count |-> Param(arg, Len(held) + Padding(held) + 2 * (arg - 1))]
    \o <<CallFunction(count, count)>> \o Drop(Padding(held))
    \o PopAll(held) \o Drop(2 * count)

NamedArguments(in_registers) ==
    [arg \in 1 .. in_registers |-> Param(arg, 2 * (arg - 1))]

PackedArguments(in_registers, count) ==
    [arg \in 1 .. count - in_registers |-> Pack(2 * (in_registers + arg - 1), arg - 1)]

\* The mutant of TakeArguments() which packs before it reads.
TakeArgumentsPackedFirst(in_registers, count) ==
    PackedArguments(in_registers, count) \o NamedArguments(in_registers)

\* The arguments which are not named are packed into places of one word, the
\* first of them nearest to the stack pointer, over the slots the named ones
\* were read from before.
TakeArguments(in_registers, count) ==
    NamedArguments(in_registers) \o PackedArguments(in_registers, count)

\* Call() of the ARM64 target: what was packed stays on the stack for the
\* call.  The registers of the pool are saved by the function which is called.
Arm64CallSequence(count, named) ==
    TakeArguments(named, count)
    \o (IF named < count THEN <<CallFunction(count, named)>> \o Drop(2 * count)
        ELSE Drop(2 * count) \o <<CallFunction(count, named)>>)

CallSequence(count, named) ==
    IF given.machine = "x86" THEN X86CallSequence(HeldRegs, count)
    ELSE Arm64CallSequence(count, named)

-----------------------------------------------------------------------------
AtNext(ops) == pending # <<>> /\ Head(pending).op \in ops

\* The n-th register from the one which was asked for last.
Place(n) == Len(names) + 1 - n
Nth(n) == names[Place(n)]

\* The registers an item means.
Meant(item) == [k \in DOMAIN item.regs |-> Nth(item.regs[k])]

WithRegs(item, regs) == [item EXCEPT !.regs = regs]

\* An item means a register by a name which another value was given since.
IsStale(item) ==
    \E k \in DOMAIN item.regs : \E later \in 1 .. item.regs[k] - 1 :
        Nth(later) = Nth(item.regs[k])

\* A store to the frame or a load from it is written behind a jump, and runs
\* only on one of the two ways there are to the label the jump goes to.
Notes(item, behind_jump) ==
    flaws' = flaws \cup (IF IsStale(item) THEN {"one register, two names"} ELSE {})
                   \cup (IF behind_jump THEN {"behind a jump"} ELSE {})

GoesOn == pending' = Tail(pending) /\ UNCHANGED <<given, next_label, refused>>

GenExpr ==
    /\ AtNext({"expression"})
    /\ ExpressionOf(Head(pending).root)
    /\ UNCHANGED <<given, pool, names, code, refused, flaws>>

\* The code is never used.
Refuse ==
    /\ AtNext(Loads) /\ PoolIsFull(pool)
    /\ refused' = TRUE
    /\ pending' = <<>> /\ code' = <<>>
    /\ UNCHANGED <<given, pool, next_label, names, flaws>>

\* The store of the value which is set aside.
Spilled ==
    IF MustSpill(pool)
    THEN <<[op |-> "spill", regs |-> <<Candidate(pool)>>,
            slot |-> Slot(Candidate(pool), pool.spill_count[Candidate(pool)])]>>
    ELSE <<>>

\* The store comes before the register is handed out.
AllocRegister ==
    LET item == Head(pending)
        load == WithRegs(item, <<Candidate(pool)>> \o Meant(item))
    IN  /\ AtNext(Loads) /\ ~PoolIsFull(pool)
        /\ code' = code \o Spilled
                   \o (IF item.op \in {"alloc", "alloc after jump"} THEN <<>> ELSE <<load>>)
        /\ pool' = PoolAfterAlloc(pool)
        /\ names' = Append(names, Candidate(pool))
        /\ Notes(item, item.op = "alloc after jump" /\ MustSpill(pool))
        /\ GoesOn

\* The load of the value which comes back.
Reloaded(reg) ==
    IF MustReload(pool, reg)
    THEN <<[op |-> "reload", regs |-> <<reg>>,
            slot |-> Slot(reg, pool.spill_count[reg] - 1)]>>
    ELSE <<>>

\* All of a sequence but what is at this place of it.
Without(seq, place) ==
    [k \in 1 .. Len(seq) - 1 |-> IF k < place THEN seq[k] ELSE seq[k + 1]]

FreeRegister ==
    LET item == Head(pending)
        reg == Nth(item.regs[1])
    IN  /\ AtNext(Frees)
        /\ code' = code \o Reloaded(reg)
        /\ pool' = PoolAfterFree(pool, reg)
        /\ names' = Without(names, Place(item.regs[1]))
        /\ Notes(item, item.op = "free after jump" /\ MustReload(pool, reg))
        /\ GoesOn

Emit ==
    /\ AtNext(Plain)
    /\ code' = Append(code, WithRegs(Head(pending), Meant(Head(pending))))
    /\ Notes(Head(pending), FALSE)
    /\ GoesOn
    /\ UNCHANGED <<pool, names>>

EmitCall ==
    /\ AtNext({"call sequence"})
    /\ code' = code \o CallSequence(Head(pending).count, Head(pending).named)
    /\ GoesOn
    /\ UNCHANGED <<pool, names, flaws>>

GenInit ==
    /\ given \in Cases
    /\ pool = FreshPool /\ next_label = 1
    /\ names = <<>> /\ code = <<>>
    /\ pending = <<Walk(given.root)>>
    /\ refused = FALSE /\ flaws = {}

GenNext == GenExpr \/ AllocRegister \/ Refuse \/ FreeRegister \/ Emit \/ EmitCall

GenSpec == GenInit /\ [][GenNext]_generator

Generated == pending = <<>>

-----------------------------------------------------------------------------
Larger(m, n) == IF m >= n THEN m ELSE n
Largest(S) == CHOOSE n \in S : \A other \in S : other <= n

\* How many values stand at once while an expression is worked out, the
\* registers an operation asks for included, from how many do in its parts.
StandingInCondition(standing, cond) ==
    IF cond.kind = "less" THEN Larger(standing[cond.left], 1 + standing[cond.right])
    ELSE standing[cond]

StandingIn(standing, root) ==
    CASE root.kind = "name" -> 1
      [] root.kind = "postinc" -> 4
      [] root.kind \in {"sub", "less"} ->
            Larger(standing[root.left], 1 + standing[root.right])
      [] root.kind \in {"and", "or"} ->
            1 + Larger(standing[root.left], standing[root.right])
      [] root.kind = "ternary" ->
            Larger(StandingInCondition(standing, root.left),
                   1 + Larger(standing[root.mid], standing[root.right]))
      [] root.kind = "call" ->
            Largest({1} \cup {standing[root.args[k]] : k \in DOMAIN root.args})
      [] root.kind = "assign" -> Larger(standing[root.value], 2)
      [] root.kind = "addto" -> Larger(standing[root.value], 3)

Standing[root \in Expressions] == StandingIn(Standing, root)

\* No expression is a part of itself, so that there is such a number.
ASSUME StandingAssumption ==
    \A root \in Expressions :
        /\ Standing[root] \in Nat \ {0}
        /\ Standing[root] = StandingIn(Standing, root)

Room == RegSize + RegSize * SpillDepth

\* GenExpr() frees no register which is not in use, and leaves its caller one
\* to free and nothing in the frame, whatever it set aside on the way.
OneValueLeft ==
    /\ AtNext(Frees) => ~pool.is_free[Nth(Head(pending).regs[1])]
    /\ Generated /\ ~refused =>
        /\ Len(names) = 1
        /\ FreeRegs(pool) = Regs \ {names[1]}
        /\ \A reg \in Regs : pool.spill_count[reg] = 0

\* An expression is refused exactly when more values stand at once than there
\* are registers and places in the frame: no register is ever kept for longer
\* than its value.
RefusedWhenTooDeep ==
    Generated => (refused <=> Standing[given.root] > Room)

=============================================================================
