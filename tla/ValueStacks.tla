----------------------------- MODULE ValueStacks -----------------------------
(***************************************************************************)
(* What the register pool promises the walk which generates code: a        *)
(* register is a stack of values.  Asking for a register pushes a value on *)
(* the stack of one of them, an empty one while there is one; freeing it   *)
(* pops that value and leaves the one below it; the value an instruction   *)
(* reads or writes is always the one on top.                               *)
(***************************************************************************)
EXTENDS Integers, Sequences

CONSTANTS Names,        \* the registers
          MaxHeight,    \* how many values one of them may stand for at once
          Values

VARIABLE stacks

Init == stacks = [name \in Names |-> <<>>]

Push(name, value) ==
    /\ Len(stacks[name]) < MaxHeight
    /\ stacks[name] # <<>> => \A other \in Names : stacks[other] # <<>>
    /\ stacks' = [stacks EXCEPT ![name] = Append(@, value)]

Pop(name) ==
    /\ stacks[name] # <<>>
    /\ stacks' = [stacks EXCEPT ![name] = SubSeq(@, 1, Len(@) - 1)]

Overwrite(name, value) ==
    /\ stacks[name] # <<>>
    /\ stacks' = [stacks EXCEPT ![name] = [@ EXCEPT ![Len(@)] = value]]

Clear == stacks' = [name \in Names |-> <<>>]

Next ==
    \/ \E name \in Names, value \in Values : Push(name, value)
    \/ \E name \in Names, value \in Values : Overwrite(name, value)
    \/ \E name \in Names : Pop(name)
    \/ Clear

Spec == Init /\ [][Next]_stacks

=============================================================================
