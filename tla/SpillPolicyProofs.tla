-------------------------- MODULE SpillPolicyProofs --------------------------
(***************************************************************************)
(* The pool of SpillPolicy for any number of registers and any depth: what *)
(* AllocRegister() hands out it may hand out, the places of the frame are  *)
(* apart, and no register is passed over.                                  *)
(***************************************************************************)
EXTENDS SpillPolicy, WellFoundedInduction, TLAPS

-----------------------------------------------------------------------------
(***************************************************************************)
(* Arithmetic.                                                             *)
(***************************************************************************)

\* A set of numbers which is not empty has a smallest member, so the loops of
\* AllocRegister(), which take the first register that will do, are choices.
LEMMA SmallestMember ==
    ASSUME NEW S \in SUBSET Nat, S # {}
    PROVE  Smallest(S) \in S
<1>1. PICK x \in S : \A y \in S : ~ (<<y, x>> \in OpToRel(<, Nat))
  BY WFMin, NatLessThanWellFounded
<1>2. ASSUME NEW y \in S
      PROVE  x <= y
  <2>1. ~(y < x)
    BY <1>1 DEF OpToRel
  <2>2. QED
    BY <2>1
<1>3. QED
  BY <1>2 DEF Smallest

\* The value set aside last, when one is, is in a place of its own register.
LEMMA OneFewer ==
    ASSUME NEW n \in 0 .. SpillDepth, n > 0
    PROVE  n - 1 \in 0 .. SpillDepth - 1
BY SpillDepthAssumption

\* Going round the registers from any of them comes to a register.
LEMMA TurnIsARegister ==
    ASSUME NEW reg \in Regs, NEW k \in Nat
    PROVE  (reg + k) % RegSize \in Regs
BY RegSizeAssumption DEF Regs

\* A register's places of the frame are places of the spill area.
LEMMA SlotIsASlot ==
    ASSUME NEW reg \in Regs, NEW k \in 0 .. SpillDepth - 1
    PROVE  Slot(reg, k) \in Slots
<1>1. reg \in Nat /\ reg + 1 <= RegSize /\ RegSize \in Nat /\ SpillDepth \in Nat
  BY RegSizeAssumption, SpillDepthAssumption DEF Regs
<1>2. (reg + 1) * SpillDepth <= RegSize * SpillDepth
  BY <1>1
<1>3. (reg + 1) * SpillDepth = reg * SpillDepth + SpillDepth
  BY <1>1
<1>4. reg * SpillDepth \in Nat /\ RegSize * SpillDepth \in Nat
  BY <1>1
<1>5. QED
  BY <1>1, <1>2, <1>3, <1>4 DEF Slot, Slots

\* No place of the frame belongs to two registers, or twice to one.
LEMMA SlotsAreDistinct ==
    ASSUME NEW r \in Regs, NEW s \in Regs,
           NEW j \in 0 .. SpillDepth - 1, NEW k \in 0 .. SpillDepth - 1,
           Slot(r, j) = Slot(s, k)
    PROVE  r = s /\ j = k
<1>1. r \in Nat /\ s \in Nat /\ SpillDepth \in Nat \ {0}
  BY RegSizeAssumption, SpillDepthAssumption DEF Regs
<1> DEFINE Below(a, b) == a * SpillDepth + SpillDepth <= b * SpillDepth
<1>2. ASSUME NEW a \in Nat, NEW b \in Nat, a < b
      PROVE  Below(a, b)
  <2>1. a + 1 <= b
    BY <1>2
  <2>2. (a + 1) * SpillDepth <= b * SpillDepth
    BY <2>1, <1>1
  <2>3. QED
    BY <2>2, <1>1
<1>3. ~(r < s)
  <2>1. ASSUME Below(r, s) PROVE FALSE
    <3>1. r * SpillDepth \in Nat /\ s * SpillDepth \in Nat
      BY <1>1
    <3>2. QED
      BY <1>1, <2>1, <3>1 DEF Slot
  <2>2. QED
    BY <1>1, <1>2, <2>1
<1>4. ~(s < r)
  <2>1. ASSUME Below(s, r) PROVE FALSE
    <3>1. r * SpillDepth \in Nat /\ s * SpillDepth \in Nat
      BY <1>1
    <3>2. QED
      BY <1>1, <2>1, <3>1 DEF Slot
  <2>2. QED
    BY <1>1, <1>2, <2>1
<1>5. r = s
  BY <1>1, <1>3, <1>4
<1>6. r * SpillDepth \in Nat
  BY <1>1
<1>7. QED
  BY <1>5, <1>6 DEF Slot

-----------------------------------------------------------------------------
(***************************************************************************)
(* The pool.                                                               *)
(***************************************************************************)

\* A register is handed out which is free, or, when none is, which has room
\* left in the frame for the value it holds.
LEMMA CandidateIsUsable ==
    ASSUME NEW p \in Pool, ~PoolIsFull(p)
    PROVE  /\ Candidate(p) \in Regs
           /\ ~MustSpill(p) => p.is_free[Candidate(p)]
           /\ MustSpill(p) => p.spill_count[Candidate(p)] < SpillDepth
<1>1. CASE MustSpill(p)
  <2>1. SpillTurns(p) \in SUBSET Nat /\ SpillTurns(p) # {}
    BY <1>1, RegSizeAssumption DEF PoolIsFull, MustSpill, SpillTurns, Regs
  <2>2. Smallest(SpillTurns(p)) \in SpillTurns(p)
    BY <2>1, SmallestMember
  <2>3. PICK k \in Nat : /\ Candidate(p) = (p.spill_next + k) % RegSize
                          /\ p.spill_count[Candidate(p)] # SpillDepth
    BY <1>1, <2>1, <2>2 DEF Candidate, SpillTurns
  <2>4. p.spill_next \in Regs
    BY DEF Pool
  <2>5. Candidate(p) \in Regs
    BY <2>3, <2>4, TurnIsARegister
  <2>6. p.spill_count[Candidate(p)] \in 0 .. SpillDepth
    BY <2>5 DEF Pool
  <2>7. QED
    BY <1>1, <2>3, <2>5, <2>6, SpillDepthAssumption
<1>2. CASE ~MustSpill(p)
  <2>1. FreeRegs(p) \in SUBSET Nat /\ FreeRegs(p) # {}
    BY <1>2, RegSizeAssumption DEF MustSpill, FreeRegs, Regs
  <2>2. Candidate(p) \in FreeRegs(p)
    BY <1>2, <2>1, SmallestMember DEF Candidate
  <2>3. QED
    BY <1>2, <2>2 DEF FreeRegs
<1>3. QED
  BY <1>1, <1>2

\* FreeAllRegister() leaves a pool.
LEMMA FreshPoolIsAPool == FreshPool \in Pool
BY RegSizeAssumption, SpillDepthAssumption DEF FreshPool, Pool, Regs

\* AllocRegister() leaves a pool, when there is a register to hand out.
LEMMA AllocKeepsPool ==
    ASSUME NEW p \in Pool, ~PoolIsFull(p)
    PROVE  PoolAfterAlloc(p) \in Pool
<1> DEFINE reg == Candidate(p)
<1>1. CASE MustSpill(p)
  <2>1. reg \in Regs /\ p.spill_count[reg] < SpillDepth
    BY <1>1, CandidateIsUsable
  <2>2. (reg + 1) % RegSize \in Regs
    BY <2>1, TurnIsARegister
  <2>3. p.spill_count[reg] \in Nat /\ p.spill_count[reg] + 1 \in 0 .. SpillDepth
    BY <2>1, SpillDepthAssumption DEF Pool
  <2>4. QED
    BY <1>1, <2>1, <2>2, <2>3 DEF PoolAfterAlloc, Pool
<1>2. CASE ~MustSpill(p)
  BY <1>2 DEF PoolAfterAlloc, Pool
<1>3. QED
  BY <1>1, <1>2

\* FreeRegister() leaves a pool.
LEMMA FreeKeepsPool ==
    ASSUME NEW p \in Pool, NEW reg \in Regs
    PROVE  PoolAfterFree(p, reg) \in Pool
<1>1. p.spill_count[reg] \in 0 .. SpillDepth
  BY DEF Pool
<1>2. CASE MustReload(p, reg)
  <2>1. p.spill_count[reg] - 1 \in 0 .. SpillDepth
    BY <1>1, <1>2, SpillDepthAssumption DEF MustReload
  <2>2. QED
    BY <1>2, <2>1 DEF PoolAfterFree, Pool
<1>3. CASE ~MustReload(p, reg)
  BY <1>3 DEF PoolAfterFree, Pool
<1>4. QED
  BY <1>2, <1>3

\* The second loop of AllocRegister() passes every register, wherever in the
\* rotation it starts.
LEMMA EveryRegisterComesRound ==
    ASSUME NEW next \in Regs, NEW reg \in Regs
    PROVE  \E k \in Regs : (next + k) % RegSize = reg
<1>1. CASE next <= reg
  <2>1. reg - next \in Regs /\ next + (reg - next) = reg /\ reg % RegSize = reg
    BY <1>1, RegSizeAssumption DEF Regs
  <2>2. QED
    BY <2>1
<1>2. CASE reg < next
  <2> DEFINE k == reg + RegSize - next
  <2>1. k \in Regs /\ next + k = reg + RegSize
    BY <1>2, RegSizeAssumption DEF Regs
  <2>2. (reg + RegSize) % RegSize = reg
    BY RegSizeAssumption DEF Regs
  <2>3. QED
    BY <2>1, <2>2
<1>3. QED
  BY <1>1, <1>2, RegSizeAssumption DEF Regs

\* A pool which has no register to give has every value set aside it can.
LEMMA FullPool ==
    ASSUME NEW p \in Pool, PoolIsFull(p)
    PROVE  \A reg \in Regs : ~p.is_free[reg] /\ p.spill_count[reg] = SpillDepth
<1> TAKE reg \in Regs
<1>1. ~p.is_free[reg]
  BY DEF PoolIsFull, FreeRegs
<1>2. p.spill_next \in Regs
  BY DEF Pool
<1>3. PICK k \in Regs : (p.spill_next + k) % RegSize = reg
  BY <1>2, EveryRegisterComesRound
<1>4. p.spill_count[(p.spill_next + k) % RegSize] = SpillDepth
  BY DEF PoolIsFull, SpillTurns
<1>5. QED
  BY <1>1, <1>3, <1>4

\* The two calls, as what they do to the members of the pool.
LEMMA AllocEffect ==
    ASSUME NEW p \in Pool, ~PoolIsFull(p)
    PROVE  /\ PoolAfterAlloc(p).is_free = [p.is_free EXCEPT ![Candidate(p)] = FALSE]
           /\ MustSpill(p) => PoolAfterAlloc(p).spill_count =
                [p.spill_count EXCEPT ![Candidate(p)] = @ + 1]
           /\ ~MustSpill(p) => PoolAfterAlloc(p).spill_count = p.spill_count
<1>1. CASE MustSpill(p)
  <2>1. Candidate(p) \in Regs /\ ~p.is_free[Candidate(p)]
    BY <1>1, CandidateIsUsable DEF MustSpill, FreeRegs
  <2>2. p.is_free = [p.is_free EXCEPT ![Candidate(p)] = FALSE]
    BY <2>1 DEF Pool
  <2>3. QED
    BY <1>1, <2>2 DEF PoolAfterAlloc, Pool
<1>2. CASE ~MustSpill(p)
  BY <1>2 DEF PoolAfterAlloc, Pool
<1>3. QED
  BY <1>1, <1>2

\* Freeing a register touches its own entries and no others.
LEMMA FreeEffect ==
    ASSUME NEW p \in Pool, NEW reg \in Regs
    PROVE  /\ MustReload(p, reg) =>
                /\ PoolAfterFree(p, reg).is_free = p.is_free
                /\ PoolAfterFree(p, reg).spill_count =
                        [p.spill_count EXCEPT ![reg] = @ - 1]
           /\ ~MustReload(p, reg) =>
                /\ PoolAfterFree(p, reg).is_free = [p.is_free EXCEPT ![reg] = TRUE]
                /\ PoolAfterFree(p, reg).spill_count = p.spill_count
BY DEF PoolAfterFree, Pool

=============================================================================
