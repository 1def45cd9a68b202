-------------------------- MODULE StatementMachine --------------------------
(***************************************************************************)
(* The machine which follows the labels and jumps StatementCodegen has     *)
(* written, with any answer to a condition and to the value of a switch.   *)
(* Beside it stands what StatementMeaning says is left to do.              *)
(***************************************************************************)
EXTENDS StatementCodegen, StatementMeaning

VARIABLES
    entered,        \* the function which was called, 0 as long as none was
    pc, value, todo

machine == <<entered, pc, value, todo>>

vars == <<generator, machine>>

Init ==
    /\ GenInit
    /\ entered = 0 /\ pc = 0 /\ value = 0 /\ todo = <<>>

Generate == entered = 0 /\ GenNext /\ UNCHANGED machine

-----------------------------------------------------------------------------
Enter ==
    /\ entered = 0 /\ Generated
    /\ \E k \in DOMAIN code :
           /\ code[k].op = "preamble"
           /\ entered' = code[k].function
           /\ pc' = k + 1
           /\ todo' = <<program[code[k].function]>>
    /\ UNCHANGED <<generator, value>>

\* What is left to do is looked at before the code goes on.
Unfold ==
    /\ entered # 0 /\ ~Settled(todo)
    /\ todo' = Unfolded(todo)
    /\ UNCHANGED <<generator, entered, pc, value>>

Instr == code[pc]
At(op) == entered # 0 /\ Settled(todo) /\ Instr.op = op
Done == At("postamble")

Target(label) == CHOOSE k \in Places(label) : TRUE

Seen(answer) ==
    IF todo = <<>> THEN <<>> ELSE AfterEvent(program[entered], todo, answer)

Goes(place) == pc' = place /\ UNCHANGED <<generator, entered>>

RunEvent ==
    /\ At("event")
    /\ Goes(pc + 1)
    /\ todo' = Seen(0)
    /\ UNCHANGED value

\* The code after it runs only when the condition holds.
RunTest(answer) ==
    /\ At("test")
    /\ Goes(IF answer = 1 THEN pc + 1 ELSE Target(Instr.label))
    /\ todo' = Seen(answer)
    /\ UNCHANGED value

RunSwitch(answer) ==
    /\ At("switch")
    /\ Goes(pc + 1)
    /\ value' = answer
    /\ todo' = Seen(answer)

RunCase ==
    /\ At("case")
    /\ Goes(IF value = Instr.value THEN Target(Instr.label) ELSE pc + 1)
    /\ UNCHANGED <<value, todo>>

RunGoto ==
    /\ At("goto")
    /\ Goes(Target(Instr.label))
    /\ todo' = Seen(0)
    /\ UNCHANGED value

RunJump ==
    /\ At("jump")
    /\ Goes(Target(Instr.label))
    /\ UNCHANGED <<value, todo>>

RunLabel ==
    /\ At("label")
    /\ Goes(pc + 1)
    /\ UNCHANGED <<value, todo>>

Next ==
    \/ Generate
    \/ Enter
    \/ Unfold
    \/ RunEvent
    \/ \E answer \in {0, 1} : RunTest(answer)
    \/ At("switch") /\ \E answer \in 1 .. Instr.answers : RunSwitch(answer)
    \/ RunCase
    \/ RunGoto
    \/ RunJump
    \/ RunLabel
    \/ Done /\ UNCHANGED vars

\* The compiler and the machine go on; which answer a question is given is left
\* open.
Spec == Init /\ [][Next]_vars /\ WF_vars(Next)

-----------------------------------------------------------------------------
Asks == At("event") \/ At("test") \/ At("switch") \/ At("goto")

\* Whatever the answers, the code does what the statements say and nothing
\* else, and leaves the function when nothing is left to do.
InStep ==
    /\ Asks => todo # <<>> /\ EventOf(Head(todo)) = Instr.event
    /\ Done => todo = <<>>

\* The code never goes round without doing something the statements say.
NeverSpins == []<>(Done \/ Asks)

=============================================================================
