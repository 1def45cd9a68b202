----------------------------- MODULE SpillPolicy -----------------------------
(***************************************************************************)
(* The register pool of the code generator as a pure algorithm: which      *)
(* register AllocRegister() hands out and what FreeRegister() does to the  *)
(* pool.  A pool is the three members AsmCodegen keeps for it, is_free_,   *)
(* spill_count_ and spill_next_.  What the two calls write into the code   *)
(* (a store to the frame, a load from it) is left to the modules which     *)
(* run that code.                                                          *)
(***************************************************************************)
EXTENDS Integers

CONSTANTS RegSize,      \* kRegSize, how many registers there are
          SpillDepth    \* kSpillDepthPerRegister

ASSUME RegSizeAssumption == RegSize \in Nat \ {0}
ASSUME SpillDepthAssumption == SpillDepth \in Nat \ {0}

Regs == 0 .. RegSize - 1
Slots == 0 .. RegSize * SpillDepth - 1

\* The mutant of Slot() whose registers share places of the frame.
SlotsOverlap(reg, k) == reg + k

\* The place of the frame which holds the k-th value of reg set aside.
Slot(reg, k) == reg * SpillDepth + k

Pool == [is_free : [Regs -> BOOLEAN],
         spill_count : [Regs -> 0 .. SpillDepth],
         spill_next : Regs]

Smallest(S) == CHOOSE x \in S : \A y \in S : x <= y

-----------------------------------------------------------------------------
\* FreeAllRegister(): nothing is held and nothing is set aside.
FreshPool == [is_free |-> [reg \in Regs |-> TRUE],
              spill_count |-> [reg \in Regs |-> 0],
              spill_next |-> 0]

FreeRegs(pool) == {reg \in Regs : pool.is_free[reg]}

\* The mutant of SpillTurns() which does not come round to the registers
\* before spill_next_.
SpillTurnsToTheEnd(pool) ==
    {k \in Regs : /\ pool.spill_next + k < RegSize
                  /\ pool.spill_count[pool.spill_next + k] # SpillDepth}

\* The registers whose value can be set aside, as the distance the rotation
\* has to go from spill_next_ to come to them.
SpillTurns(pool) ==
    {k \in Regs : pool.spill_count[(pool.spill_next + k) % RegSize] # SpillDepth}

\* Neither loop of AllocRegister() finds a register.
PoolIsFull(pool) == FreeRegs(pool) = {} /\ SpillTurns(pool) = {}

MustSpill(pool) == FreeRegs(pool) = {}

\* The register which is handed out: the first free one, or the next one in
\* turn which has room to set its value aside.
Candidate(pool) ==
    IF MustSpill(pool)
    THEN (pool.spill_next + Smallest(SpillTurns(pool))) % RegSize
    ELSE Smallest(FreeRegs(pool))

\* The mutant of PoolAfterAlloc() whose turn runs past the last register.
PoolAfterAllocRunsOn(pool) ==
    LET reg == Candidate(pool)
    IN  IF MustSpill(pool)
        THEN [pool EXCEPT !.spill_count[reg] = @ + 1, !.spill_next = reg + 1]
        ELSE [pool EXCEPT !.is_free[reg] = FALSE]

PoolAfterAlloc(pool) ==
    LET reg == Candidate(pool)
    IN  IF MustSpill(pool)
        THEN [pool EXCEPT !.spill_count[reg] = @ + 1,
                          !.spill_next = (reg + 1) % RegSize]
        ELSE [pool EXCEPT !.is_free[reg] = FALSE]

\* Freeing a register which has a value set aside brings that value back.
MustReload(pool, reg) == pool.spill_count[reg] > 0

PoolAfterFree(pool, reg) ==
    IF MustReload(pool, reg)
    THEN [pool EXCEPT !.spill_count[reg] = @ - 1]
    ELSE [pool EXCEPT !.is_free[reg] = TRUE]

=============================================================================
