---------------------------- MODULE RegisterPool ----------------------------
(***************************************************************************)
(* The register pool of AsmCodegen together with the machine the code it   *)
(* writes runs on: the registers and the places of the frame values are    *)
(* set aside in.  The code of one statement has no jump in it here, so a   *)
(* store or a load the generator writes is a store or a load which runs.   *)
(*                                                                         *)
(* The walk over the tree is any client which asks for registers, writes   *)
(* into the ones it was given and frees them.                              *)
(***************************************************************************)
EXTENDS SpillPolicy, Sequences

CONSTANTS Values,   \* what a register can hold
          Junk      \* what it holds before anything was written to it

ASSUME JunkAssumption == Junk \notin Values

VARIABLES pool,     \* is_free_, spill_count_ and spill_next_
          file,     \* the registers of the machine
          frame,    \* the spill area of the function's frame
          status    \* "running", or why the compiler stopped

vars == <<pool, file, frame, status>>

\* The pool, the machine's registers and its frame are what the members and
\* the frame of AsmCodegen can be.
TypeOK ==
    /\ pool \in Pool
    /\ file \in [Regs -> Values \cup {Junk}]
    /\ frame \in [Slots -> Values \cup {Junk}]
    /\ status \in {"running", "too complex", "freed unused"}

Init ==
    /\ pool = FreshPool
    /\ file = [reg \in Regs |-> Junk]
    /\ frame = [slot \in Slots |-> Junk]
    /\ status = "running"

-----------------------------------------------------------------------------
\* AllocRegister(), with the instruction which follows it and leaves a value
\* in the register it handed out (LoadInt, LoadSymbol and the like).
LoadFresh(value) ==
    LET reg == Candidate(pool)
    IN  /\ status = "running"
        /\ ~PoolIsFull(pool)
        /\ pool' = PoolAfterAlloc(pool)
        /\ frame' = IF MustSpill(pool)
                    THEN [frame EXCEPT ![Slot(reg, pool.spill_count[reg])]
                                          = file[reg]]
                    ELSE frame
        /\ file' = [file EXCEPT ![reg] = value]
        /\ UNCHANGED status

\* The expression is refused: no register is free and none has room left.
Refuse ==
    /\ status = "running"
    /\ PoolIsFull(pool)
    /\ status' = "too complex"
    /\ UNCHANGED <<pool, file, frame>>

\* An instruction which works in place, as Add() does on its first register.
WriteOver(reg, value) ==
    /\ status = "running"
    /\ ~pool.is_free[reg]
    /\ file' = [file EXCEPT ![reg] = value]
    /\ UNCHANGED <<pool, frame, status>>

\* The mutant of FreeRegister() which loads the place the next value would be
\* set aside in.
FreeRegisterLoadsNext(reg) ==
    /\ status = "running"
    /\ ~pool.is_free[reg]
    /\ pool' = PoolAfterFree(pool, reg)
    /\ file' = IF MustReload(pool, reg)
               THEN [file EXCEPT ![reg] = frame[Slot(reg, pool.spill_count[reg] % SpillDepth)]]
               ELSE file
    /\ UNCHANGED <<frame, status>>

FreeRegister(reg) ==
    /\ status = "running"
    /\ ~pool.is_free[reg]
    /\ pool' = PoolAfterFree(pool, reg)
    /\ file' = IF MustReload(pool, reg)
               THEN [file EXCEPT ![reg] =
                        frame[Slot(reg, pool.spill_count[reg] - 1)]]
               ELSE file
    /\ UNCHANGED <<frame, status>>

FreeUnused(reg) ==
    /\ status = "running"
    /\ pool.is_free[reg]
    /\ status' = "freed unused"
    /\ UNCHANGED <<pool, file, frame>>

\* The end of a statement.
FreeAllRegister ==
    /\ status = "running"
    /\ pool' = FreshPool
    /\ UNCHANGED <<file, frame, status>>

Next ==
    \/ \E value \in Values : LoadFresh(value)
    \/ Refuse
    \/ \E reg \in Regs, value \in Values : WriteOver(reg, value)
    \/ \E reg \in Regs : FreeRegister(reg)
    \/ \E reg \in Regs : FreeUnused(reg)
    \/ FreeAllRegister

Spec == Init /\ [][Next]_vars

-----------------------------------------------------------------------------
\* FreeRegister() and AllocRegister(): a register nobody holds has nothing set
\* aside, so that handing it out
\* again cannot be mistaken for bringing an older value back.
FreeMeansEmpty ==
    \A reg \in Regs : pool.is_free[reg] => pool.spill_count[reg] = 0

\* Every value which is held or waits in the frame was written there: no
\* register is given back what was never set aside, and no place of the frame
\* serves two values at once.
HeldValuesWritten ==
    \A reg \in Regs : ~pool.is_free[reg] =>
        /\ file[reg] \in Values
        /\ \A k \in 0 .. pool.spill_count[reg] - 1 : frame[Slot(reg, k)] \in Values

\* The compiler refuses an expression only when every place of the frame
\* values can be set aside in is taken.
RefusedOnlyWhenFull ==
    status = "too complex" =>
        \A reg \in Regs : ~pool.is_free[reg] /\ pool.spill_count[reg] = SpillDepth

\* The values a register stands for, oldest first: those set aside under it
\* in the frame and then the one it holds.
StackOf(reg) ==
    IF pool.is_free[reg]
    THEN <<>>
    ELSE [i \in 1 .. pool.spill_count[reg] + 1 |->
            IF i <= pool.spill_count[reg]
            THEN frame[Slot(reg, i - 1)]
            ELSE file[reg]]

Abstract == INSTANCE ValueStacks
    WITH Names <- Regs,
         MaxHeight <- SpillDepth + 1,
         stacks <- [reg \in Regs |-> StackOf(reg)]

\* The pool keeps its promise: setting a value aside and bringing it back
\* through the frame is a push and a pop of the stack of that register, and
\* touches the stack of no other.
ValuesComeBack == Abstract!Spec

=============================================================================
