-------------------------- MODULE StatementCodegen --------------------------
(***************************************************************************)
(* The labels and jumps AsmCodegen writes for the statements of the        *)
(* functions of a program.  An expression is one event, a condition one    *)
(* test, the value of a switch one question: what they are worked out from *)
(* is left open.                                                           *)
(*                                                                         *)
(* `pending` is what the calls of GenStatement which have not come back    *)
(* have yet to do: calls they will make, and, between them, instructions   *)
(* they will write and the putting back of loop_break_label_ and           *)
(* loop_continue_label_.  A call puts down what its function does in the   *)
(* place of itself.                                                        *)
(***************************************************************************)
EXTENDS StatementTrees, FiniteSets

CONSTANT
    Programs        \* the bodies of the functions, in the order of the program

ArePrograms(all, statements) == all \subseteq Seq(statements)

ASSUME ProgramsAssumption == ArePrograms(Programs, Statements)

VARIABLES
    program, function,  \* the functions, and how many of them were begun
    code, pending,
    next_label, function_end_label,
    loop_break_label, loop_continue_label,
    label_indices,          \* 0 for a name which was not seen
    labels, named_labels    \* what the parser has kept of the function: the
                            \* names which were written and those a goto gave

inside == <<loop_break_label, loop_continue_label>>

named == <<label_indices, labels, named_labels>>

generator ==
    <<program, function, code, pending, next_label, function_end_label, inside, named>>

-----------------------------------------------------------------------------
(***************************************************************************)
(* What may be pending.  A call says which loop or switch its statement is *)
(* written in: where a break of it has to go and a continue, 0 where there *)
(* is no such statement around it.                                         *)
(***************************************************************************)
Call(root, leaves, again) ==
    [op |-> "statement", root |-> root, leaves |-> leaves, again |-> again]
SetBreak(label) == [op |-> "set break", label |-> label]
SetContinue(label) == [op |-> "set continue", label |-> label]

EmitLabel(label) == [op |-> "label", label |-> label]
EmitJump(label) == [op |-> "jump", label |-> label]
GenEvent(event) == [op |-> "event", event |-> event]
GenCondition(event, false_label) ==
    [op |-> "test", event |-> event, label |-> false_label]
JumpIfEqual(value, label) == [op |-> "case", value |-> value, label |-> label]
EmitFunctionPreamble(which) == [op |-> "preamble", function |-> which]
EmitFunctionPostamble == [op |-> "postamble"]

\* A statement within another one which is no loop and no switch.
Within(root, call) == Call(root, call.leaves, call.again)

\* The labels NewLabel() answers with next, from 0 on.
NewLabel(k) == next_label + k

\* What the call at the head does in its place, having asked for n labels.
Does(n, items) ==
    /\ pending' = items \o Tail(pending)
    /\ next_label' = next_label + n

Writes(n, items) == Does(n, items) /\ UNCHANGED named

-----------------------------------------------------------------------------
\* The mutant of GenIf() whose first branch runs on into the else.
GenIfFallsThrough(root, call) ==
    LET false_label == NewLabel(0)
        yes == <<GenCondition(root.event, false_label), Within(root.branches[1], call),
                 EmitLabel(false_label)>>
    IN  Writes(Len(root.branches),
               IF Len(root.branches) = 1 THEN yes
               ELSE Append(yes, Within(root.branches[2], call)))

GenIf(root, call) ==
    LET false_label == NewLabel(0)
        end_label == NewLabel(1)
        condition == GenCondition(root.event, false_label)
        yes == Within(root.branches[1], call)
        no == Within(root.branches[2], call)
    IN  IF Len(root.branches) = 1
        THEN Writes(1, <<condition, yes, EmitLabel(false_label)>>)
        ELSE Writes(2, <<condition, yes, EmitJump(end_label), EmitLabel(false_label), no,
                         EmitLabel(end_label)>>)

\* The labels a break and a continue go to are put back after the body.
GenWhile(root) ==
    LET start_label == NewLabel(0)
        end_label == NewLabel(1)
    IN  Writes(2, <<SetBreak(end_label), SetContinue(start_label),
                    EmitLabel(start_label),
                    GenCondition(root.event, end_label),
                    Call(root.body, end_label, start_label),
                    EmitJump(start_label), EmitLabel(end_label),
                    SetBreak(loop_break_label), SetContinue(loop_continue_label)>>)

\* A continue goes to the condition, which stands after the body.
GenDoWhile(root) ==
    LET start_label == NewLabel(0)
        end_label == NewLabel(1)
        pass_label == NewLabel(2)
    IN  Writes(3, <<SetBreak(end_label), SetContinue(pass_label),
                    EmitLabel(start_label),
                    Call(root.body, end_label, pass_label),
                    EmitLabel(pass_label),
                    GenCondition(root.event, end_label),
                    EmitJump(start_label), EmitLabel(end_label),
                    SetBreak(loop_break_label), SetContinue(loop_continue_label)>>)

\* A continue goes to the step, and to the condition where there is none.
GenFor(root) ==
    LET start_label == NewLabel(0)
        end_label == NewLabel(1)
        step_label == NewLabel(2)
        condition == GenCondition(root.event, end_label)
    IN  IF root.step = <<>>
        THEN Writes(2, <<SetBreak(end_label), SetContinue(start_label),
                         EmitLabel(start_label), condition,
                         Call(root.body, end_label, start_label),
                         EmitJump(start_label), EmitLabel(end_label),
                         SetBreak(loop_break_label), SetContinue(loop_continue_label)>>)
        ELSE Writes(3, <<SetBreak(end_label), SetContinue(step_label),
                         EmitLabel(start_label), condition,
                         Call(root.body, end_label, step_label),
                         EmitLabel(step_label),
                         Call(root.step[1], end_label, step_label),
                         EmitJump(start_label), EmitLabel(end_label),
                         SetBreak(loop_break_label), SetContinue(loop_continue_label)>>)

\* The mutant which keeps the end of the switch as the place a break goes to.
InsideSwitchStill == SetBreak(NewLabel(0))

OutsideSwitch == SetBreak(loop_break_label)

\* Every case is compared against in turn, and then comes the jump to the
\* default, which is the last of the arms, or past them where there is none.
GenSwitch(root, call) ==
    LET arms == Len(root.arms)
        cases == IF root.has_default THEN arms - 1 ELSE arms
        end_label == NewLabel(0)
        default_label == IF root.has_default THEN NewLabel(arms) ELSE end_label
    IN  Writes(1 + arms,
               <<[op |-> "switch", event |-> root.event, answers |-> cases + 1]>>
               \o [k \in 1 .. cases |-> JumpIfEqual(k, NewLabel(k))]
               \o <<EmitJump(default_label), SetBreak(end_label)>>
               \o [k \in 1 .. 2 * arms |->
                      IF k % 2 = 1 THEN EmitLabel(NewLabel((k + 1) \div 2))
                      ELSE Call(root.arms[k \div 2], end_label, call.again)]
               \o <<OutsideSwitch, EmitLabel(end_label)>>)

\* The mutant of LabelIndex() which takes every name for a new one.
LabelIndexAlwaysNew(name) == next_label

\* The label a name stands for, which it is given the first time it is seen.
LabelIndex(name) ==
    IF label_indices[name] # 0 THEN label_indices[name] ELSE next_label

WritesNamed(name, items) ==
    /\ Does(IF LabelIndex(name) = next_label THEN 1 ELSE 0, items)
    /\ label_indices' = [label_indices EXCEPT ![name] = LabelIndex(name)]

GenGoto(root) ==
    /\ WritesNamed(root.name, <<[op |-> "goto", event |-> root.event,
                                 label |-> LabelIndex(root.name)]>>)
    /\ named_labels' = named_labels \cup {root.name}
    /\ UNCHANGED labels

\* The parser refuses a name which is the label of another statement.
GenLabel(root, call) ==
    /\ root.name \notin labels
    /\ WritesNamed(root.name, <<EmitLabel(LabelIndex(root.name)),
                                Within(root.body, call)>>)
    /\ labels' = labels \cup {root.name}
    /\ UNCHANGED named_labels

\* It refuses a break outside a loop or a switch and a continue outside a loop.
StatementOf(root, call) ==
    \/ root.kind = "empty" /\ Writes(0, <<>>)
    \/ root.kind = "act" /\ Writes(0, <<GenEvent(root.event)>>)
    \/ root.kind = "seq"
       /\ Writes(0, <<Within(root.left, call), Within(root.right, call)>>)
    \/ root.kind = "if" /\ GenIf(root, call)
    \/ root.kind = "while" /\ GenWhile(root)
    \/ root.kind = "do" /\ GenDoWhile(root)
    \/ root.kind = "for" /\ GenFor(root)
    \/ root.kind = "switch" /\ GenSwitch(root, call)
    \/ root.kind = "break" /\ call.leaves # 0 /\ Writes(0, <<EmitJump(loop_break_label)>>)
    \/ root.kind = "continue" /\ call.again # 0
       /\ Writes(0, <<EmitJump(loop_continue_label)>>)
    \/ root.kind = "goto" /\ GenGoto(root)
    \/ root.kind = "label" /\ GenLabel(root, call)
    \/ root.kind = "return" /\ Writes(0, <<EmitJump(function_end_label)>>)

-----------------------------------------------------------------------------
AtNext(op) == pending # <<>> /\ Head(pending).op = op

GenStatement ==
    /\ AtNext("statement")
    /\ StatementOf(Head(pending).root, Head(pending))
    /\ UNCHANGED <<program, function, code, function_end_label, inside>>

GoesOn == pending' = Tail(pending) /\ UNCHANGED <<program, function, next_label>>

Instructions ==
    {"preamble", "label", "jump", "event", "test", "switch", "case", "goto"}

Emit ==
    /\ \E op \in Instructions : AtNext(op)
    /\ code' = Append(code, Head(pending))
    /\ GoesOn
    /\ UNCHANGED <<function_end_label, inside, named>>

PutBreak ==
    /\ AtNext("set break")
    /\ loop_break_label' = Head(pending).label
    /\ GoesOn
    /\ UNCHANGED <<code, function_end_label, loop_continue_label, named>>

PutContinue ==
    /\ AtNext("set continue")
    /\ loop_continue_label' = Head(pending).label
    /\ GoesOn
    /\ UNCHANGED <<code, function_end_label, loop_break_label, named>>

\* A label belongs to the function it is written in.
BeginFunction ==
    /\ pending = <<>> /\ function < Len(program)
    /\ function' = function + 1
    /\ function_end_label' = next_label
    /\ next_label' = next_label + 1
    /\ label_indices' = [name \in Names |-> 0]
    /\ labels' = {} /\ named_labels' = {}
    /\ pending' = <<EmitFunctionPreamble(function'), Call(program[function'], 0, 0),
                    EmitLabel(next_label), EmitFunctionPostamble>>
    /\ UNCHANGED <<program, code, inside>>

\* The parser refuses a function in which a goto names a label there is not.
EndFunction ==
    /\ AtNext("postamble") /\ named_labels \subseteq labels
    /\ code' = Append(code, Head(pending))
    /\ GoesOn
    /\ function_end_label' = 0
    /\ UNCHANGED <<inside, named>>

GenInit ==
    /\ program \in Programs /\ function = 0
    /\ code = <<>> /\ pending = <<>>
    /\ next_label = 1 /\ function_end_label = 0
    /\ loop_break_label = 0 /\ loop_continue_label = 0
    /\ label_indices = [name \in Names |-> 0]
    /\ labels = {} /\ named_labels = {}

GenNext ==
    GenStatement \/ Emit \/ PutBreak \/ PutContinue \/ BeginFunction \/ EndFunction

GenSpec == GenInit /\ [][GenNext]_generator

Generated == pending = <<>> /\ function = Len(program)

-----------------------------------------------------------------------------
Places(label) == {k \in DOMAIN code : code[k] = EmitLabel(label)}

Jumps == {"jump", "test", "case", "goto"}

\* Whatever the functions of a program are, every label the code of one jumps
\* to is written, and written once (NewLabel, LabelIndex and all the Gen
\* functions which ask for labels).
LabelsPlacedOnce ==
    pending = <<>> =>
        \A k \in DOMAIN code :
            code[k].op \in Jumps => Cardinality(Places(code[k].label)) = 1

\* However loops and switches stand in one another, the labels which are kept
\* when a statement is written are those of the loop and the switch around it,
\* and none are outside (the saving of loop_break_label_ and
\* loop_continue_label_ in GenWhile, GenDoWhile, GenFor and GenSwitch).
LabelsAreThoseAround ==
    /\ AtNext("statement") => /\ loop_break_label = Head(pending).leaves
                              /\ loop_continue_label = Head(pending).again
    /\ pending = <<>> => loop_break_label = 0 /\ loop_continue_label = 0

\* Both: what is jumped to is there, and is what was meant.
JumpsFindTheirLabels == LabelsPlacedOnce /\ LabelsAreThoseAround

=============================================================================
