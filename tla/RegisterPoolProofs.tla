------------------------- MODULE RegisterPoolProofs -------------------------
(***************************************************************************)
(* The register pool for any number of registers, any depth and any set of *)
(* values: the pool never hands out a register it cannot, every place of   *)
(* the frame serves one value at a time, an expression is refused only     *)
(* when every place is taken, and the whole implements the stacks of       *)
(* ValueStacks.                                                            *)
(***************************************************************************)
EXTENDS RegisterPool, SpillPolicyProofs, SequenceTheorems, TLAPS

-----------------------------------------------------------------------------
(***************************************************************************)
(* The types.  The register handed out is one of the pool and the place    *)
(* its value is set aside in is one of the frame.                          *)
(***************************************************************************)

\* Every state of the pool and of the machine is one of their types.
THEOREM Typing == Spec => []TypeOK
<1>1. Init => TypeOK
  BY FreshPoolIsAPool DEF Init, TypeOK
<1>2. TypeOK /\ [Next]_vars => TypeOK'
  <2> SUFFICES ASSUME TypeOK, [Next]_vars
               PROVE  TypeOK'
    OBVIOUS
  <2> USE DEF TypeOK
  <2>1. ASSUME NEW value \in Values, LoadFresh(value)
        PROVE  TypeOK'
    <3> DEFINE reg == Candidate(pool)
    <3>1. reg \in Regs /\ pool' \in Pool
      BY <2>1, CandidateIsUsable, AllocKeepsPool DEF LoadFresh
    <3>2. file' \in [Regs -> Values \cup {Junk}]
      BY <2>1, <3>1 DEF LoadFresh
    <3>3. frame' \in [Slots -> Values \cup {Junk}]
      BY <2>1, <3>1 DEF LoadFresh
    <3>4. QED
      BY <2>1, <3>1, <3>2, <3>3 DEF LoadFresh
  <2>2. ASSUME Refuse PROVE TypeOK'
    BY <2>2 DEF Refuse
  <2>3. ASSUME NEW reg \in Regs, NEW value \in Values, WriteOver(reg, value)
        PROVE  TypeOK'
    BY <2>3 DEF WriteOver
  <2>4. ASSUME NEW reg \in Regs, FreeRegister(reg)
        PROVE  TypeOK'
    <3>1. pool' \in Pool
      BY <2>4, FreeKeepsPool DEF FreeRegister
    <3>2. MustReload(pool, reg) =>
            frame[Slot(reg, pool.spill_count[reg] - 1)] \in Values \cup {Junk}
      <4>1. pool.spill_count[reg] \in 0 .. SpillDepth
        BY DEF Pool
      <4>2. MustReload(pool, reg) =>
              pool.spill_count[reg] - 1 \in 0 .. SpillDepth - 1
        BY <4>1, OneFewer DEF MustReload
      <4>3. QED
        BY <4>2, SlotIsASlot
    <3>3. file' \in [Regs -> Values \cup {Junk}]
      BY <2>4, <3>2 DEF FreeRegister
    <3>4. QED
      BY <2>4, <3>1, <3>3 DEF FreeRegister
  <2>5. ASSUME NEW reg \in Regs, FreeUnused(reg)
        PROVE  TypeOK'
    BY <2>5 DEF FreeUnused
  <2>6. ASSUME FreeAllRegister PROVE TypeOK'
    BY <2>6, FreshPoolIsAPool DEF FreeAllRegister
  <2>7. ASSUME UNCHANGED vars PROVE TypeOK'
    BY <2>7 DEF vars
  <2>8. QED
    BY <2>1, <2>2, <2>3, <2>4, <2>5, <2>6, <2>7 DEF Next
<1>3. QED
  BY <1>1, <1>2, PTL DEF Spec

-----------------------------------------------------------------------------
(***************************************************************************)
(* The invariant.  HeldValuesWritten is kept by handing a register out     *)
(* only because the value set aside for it was held, that is, written; a   *)
(* register is held whenever none is free, and a free one has nothing set  *)
(* aside.                                                                  *)
(***************************************************************************)

\* The inductive invariant: what the safety properties need of one another.
Inv == TypeOK /\ FreeMeansEmpty /\ HeldValuesWritten /\ RefusedOnlyWhenFull

\* Nothing is held before the first statement.
LEMMA InitInv == Init => Inv
BY FreshPoolIsAPool
   DEF Init, Inv, TypeOK, FreeMeansEmpty, HeldValuesWritten,
       RefusedOnlyWhenFull, FreshPool

\* AllocRegister() and the load into what it handed out keep the invariant.
LEMMA LoadFreshKeepsInv ==
    ASSUME Inv, TypeOK', NEW value \in Values, LoadFresh(value)
    PROVE  Inv'
<1> DEFINE reg == Candidate(pool)
           count == pool.spill_count[reg]
<1>1. pool \in Pool /\ ~PoolIsFull(pool) /\ status = "running" /\ status' = status
  BY DEF Inv, TypeOK, LoadFresh
<1>2. reg \in Regs /\ (MustSpill(pool) => count < SpillDepth)
  BY <1>1, CandidateIsUsable
<1>3. pool'.is_free = [pool.is_free EXCEPT ![reg] = FALSE]
  BY <1>1, AllocEffect DEF LoadFresh
<1>4. /\ MustSpill(pool) => pool'.spill_count = [pool.spill_count EXCEPT ![reg] = @ + 1]
      /\ ~MustSpill(pool) => pool'.spill_count = pool.spill_count
  BY <1>1, AllocEffect DEF LoadFresh
<1>5. /\ pool.is_free \in [Regs -> BOOLEAN]
      /\ pool.spill_count \in [Regs -> 0 .. SpillDepth]
      /\ file \in [Regs -> Values \cup {Junk}]
      /\ frame \in [Slots -> Values \cup {Junk}]
  BY DEF Inv, TypeOK, Pool
<1>6. FreeMeansEmpty'
  BY <1>2, <1>3, <1>4, <1>5 DEF Inv, FreeMeansEmpty
<1>7. HeldValuesWritten'
  <2> SUFFICES ASSUME NEW other \in Regs, ~pool'.is_free[other]
               PROVE  /\ file'[other] \in Values
                      /\ \A k \in 0 .. pool'.spill_count[other] - 1 :
                            frame'[Slot(other, k)] \in Values
    BY DEF HeldValuesWritten
  <2>1. file'[other] \in Values
    BY <1>2, <1>3, <1>5 DEF Inv, HeldValuesWritten, LoadFresh
  <2>2. \A k \in 0 .. pool.spill_count[other] - 1 :
            frame[Slot(other, k)] \in Values
    <3>1. CASE pool.is_free[other]
      BY <3>1 DEF Inv, FreeMeansEmpty
    <3>2. CASE ~pool.is_free[other]
      BY <3>2 DEF Inv, HeldValuesWritten
    <3>3. QED
      BY <3>1, <3>2
  <2>3. CASE ~MustSpill(pool)
    BY <1>4, <2>1, <2>2, <2>3 DEF LoadFresh
  <2>4. CASE MustSpill(pool)
    <3>1. file[reg] \in Values
      BY <1>2, <2>4 DEF MustSpill, FreeRegs, Inv, HeldValuesWritten
    <3>2. frame' = [frame EXCEPT ![Slot(reg, count)] = file[reg]]
      BY <2>4 DEF LoadFresh
    <3>3. count \in 0 .. SpillDepth - 1
      BY <1>2, <1>5, <2>4, SpillDepthAssumption
    <3>4. Slot(reg, count) \in Slots
      BY <1>2, <3>3, SlotIsASlot
    <3>5. ASSUME NEW k \in 0 .. pool'.spill_count[other] - 1
          PROVE  frame'[Slot(other, k)] \in Values
      <4>1. CASE other = reg /\ k = count
        BY <3>1, <3>2, <3>4, <1>5, <4>1
      <4>2. CASE k \in 0 .. pool.spill_count[other] - 1
        <5>1. pool.spill_count[other] \in 0 .. SpillDepth
          BY <1>5
        <5>2. k \in 0 .. SpillDepth - 1
          BY <4>2, <5>1, SpillDepthAssumption
        <5>3. Slot(other, k) \in Slots
          BY <5>2, SlotIsASlot
        <5>4. QED
          BY <1>5, <2>2, <3>1, <3>2, <3>4, <4>2, <5>3
      <4>3. QED
        BY <1>2, <1>4, <1>5, <2>4, <4>1, <4>2, SpillDepthAssumption
    <3>6. QED
      BY <2>1, <3>5
  <2>5. QED
    BY <2>3, <2>4
<1>8. RefusedOnlyWhenFull'
  BY <1>1 DEF RefusedOnlyWhenFull
<1>9. QED
  BY <1>6, <1>7, <1>8 DEF Inv

\* FreeRegister() keeps the invariant.
LEMMA FreeRegisterKeepsInv ==
    ASSUME Inv, TypeOK', NEW reg \in Regs, FreeRegister(reg)
    PROVE  Inv'
<1>1. pool \in Pool /\ status = "running" /\ status' = status /\ frame' = frame
  BY DEF Inv, TypeOK, FreeRegister
<1>2. /\ pool.is_free \in [Regs -> BOOLEAN]
      /\ pool.spill_count \in [Regs -> 0 .. SpillDepth]
      /\ file \in [Regs -> Values \cup {Junk}]
  BY DEF Inv, TypeOK, Pool
<1>3. CASE MustReload(pool, reg)
  <2>1. /\ pool'.is_free = pool.is_free
        /\ pool'.spill_count = [pool.spill_count EXCEPT ![reg] = @ - 1]
    BY <1>1, <1>3, FreeEffect DEF FreeRegister
  <2>2. ~pool.is_free[reg]
    BY DEF FreeRegister
  <2>3. file' = [file EXCEPT ![reg] = frame[Slot(reg, pool.spill_count[reg] - 1)]]
    BY <1>3 DEF FreeRegister
  <2>4. pool.spill_count[reg] \in 0 .. SpillDepth /\ pool.spill_count[reg] > 0
    BY <1>2, <1>3 DEF MustReload
  <2>5. pool.spill_count[reg] - 1 \in 0 .. pool.spill_count[reg] - 1
    BY <2>4, SpillDepthAssumption
  <2>6. frame[Slot(reg, pool.spill_count[reg] - 1)] \in Values
    BY <2>2, <2>5 DEF Inv, HeldValuesWritten
  <2>7. FreeMeansEmpty'
    BY <1>2, <2>1, <2>2 DEF Inv, FreeMeansEmpty
  <2>8. ASSUME NEW other \in Regs, ~pool'.is_free[other]
        PROVE  /\ file'[other] \in Values
               /\ \A k \in 0 .. pool'.spill_count[other] - 1 :
                    frame'[Slot(other, k)] \in Values
    <3>1. /\ file[other] \in Values
          /\ \A k \in 0 .. pool.spill_count[other] - 1 :
                frame[Slot(other, k)] \in Values
      BY <2>1, <2>8 DEF Inv, HeldValuesWritten
    <3>2. file'[other] \in Values
      BY <1>2, <2>3, <2>6, <3>1
    <3>3. CASE other = reg
      <4>1. pool'.spill_count[other] = pool.spill_count[other] - 1
        BY <1>2, <2>1, <3>3
      <4>2. \A k \in 0 .. pool'.spill_count[other] - 1 :
                k \in 0 .. pool.spill_count[other] - 1
        BY <2>4, <3>3, <4>1, SpillDepthAssumption
      <4>3. QED
        BY <1>1, <3>1, <3>2, <4>2
    <3>4. CASE other # reg
      <4>1. pool'.spill_count[other] = pool.spill_count[other]
        BY <1>2, <2>1, <3>4
      <4>2. QED
        BY <1>1, <3>1, <3>2, <4>1
    <3>5. QED
      BY <3>3, <3>4
  <2>9. QED
    BY <1>1, <2>7, <2>8 DEF Inv, HeldValuesWritten, RefusedOnlyWhenFull
<1>4. CASE ~MustReload(pool, reg)
  <2>1. /\ pool'.is_free = [pool.is_free EXCEPT ![reg] = TRUE]
        /\ pool'.spill_count = pool.spill_count
        /\ file' = file
    BY <1>1, <1>4, FreeEffect DEF FreeRegister
  <2>2. pool.spill_count[reg] = 0
    <3>1. pool.spill_count[reg] \in 0 .. SpillDepth /\ ~(pool.spill_count[reg] > 0)
      BY <1>2, <1>4 DEF MustReload
    <3>2. QED
      BY <3>1, SpillDepthAssumption
  <2>3. FreeMeansEmpty'
    BY <1>2, <2>1, <2>2 DEF Inv, FreeMeansEmpty
  <2>4. HeldValuesWritten'
    BY <1>1, <1>2, <2>1 DEF Inv, HeldValuesWritten
  <2>5. QED
    BY <1>1, <2>3, <2>4 DEF Inv, RefusedOnlyWhenFull
<1>5. QED
  BY <1>3, <1>4

\* Every step keeps the invariant.
LEMMA StepKeepsInv ==
    ASSUME Inv, TypeOK', [Next]_vars
    PROVE  Inv'
<1> USE DEF Inv, FreeMeansEmpty, HeldValuesWritten, RefusedOnlyWhenFull
<1>1. ASSUME NEW value \in Values, LoadFresh(value) PROVE Inv'
  BY <1>1, LoadFreshKeepsInv
<1>2. ASSUME Refuse PROVE Inv'
  BY <1>2, FullPool DEF Refuse, TypeOK
<1>3. ASSUME NEW reg \in Regs, NEW value \in Values, WriteOver(reg, value)
      PROVE  Inv'
  BY <1>3 DEF WriteOver, TypeOK
<1>4. ASSUME NEW reg \in Regs, FreeRegister(reg) PROVE Inv'
  BY <1>4, FreeRegisterKeepsInv
<1>5. ASSUME NEW reg \in Regs, FreeUnused(reg) PROVE Inv'
  BY <1>5 DEF FreeUnused
<1>6. ASSUME FreeAllRegister PROVE Inv'
  <2>1. /\ \A reg \in Regs : pool'.is_free[reg] /\ pool'.spill_count[reg] = 0
        /\ status' # "too complex"
    BY <1>6 DEF FreeAllRegister, FreshPool
  <2>2. QED
    BY <2>1
<1>7. ASSUME UNCHANGED vars PROVE Inv'
  BY <1>7 DEF vars
<1>8. QED
  BY <1>1, <1>2, <1>3, <1>4, <1>5, <1>6, <1>7 DEF Next

\* The invariant the safety theorems come from.
LEMMA Invariance == Spec => []Inv
<1>1. Inv /\ TypeOK' /\ [Next]_vars => Inv'
  BY StepKeepsInv
<1>2. QED
  BY InitInv, Typing, <1>1, PTL DEF Spec

\* Whatever is asked of the pool, a value read from the frame is one which was
\* set aside there: AllocRegister() and FreeRegister() never leave a register
\* which is held with a value nobody wrote.
THEOREM HeldValuesAreWritten == Spec => []HeldValuesWritten
BY Invariance, PTL DEF Inv

\* AllocRegister() gives up only when every register is held and has as many
\* values set aside as there is room for, wherever the rotation stands.
THEOREM RefusalIsJustified == Spec => []RefusedOnlyWhenFull
BY Invariance, PTL DEF Inv

-----------------------------------------------------------------------------
(***************************************************************************)
(* The refinement.  A step of the pool changes the stack of one register   *)
(* and leaves the others, because the places of the frame are distinct.    *)
(***************************************************************************)

\* The stack of a register is a sequence of values.
LEMMA StackShape ==
    ASSUME Inv, NEW reg \in Regs
    PROVE  /\ StackOf(reg) \in Seq(Values)
           /\ pool.is_free[reg] => StackOf(reg) = <<>>
           /\ ~pool.is_free[reg] =>
                /\ Len(StackOf(reg)) = pool.spill_count[reg] + 1
                /\ StackOf(reg)[pool.spill_count[reg] + 1] = file[reg]
                /\ StackOf(reg) # <<>>
<1>1. CASE pool.is_free[reg]
  BY <1>1 DEF StackOf
<1>2. CASE ~pool.is_free[reg]
  <2> DEFINE n == pool.spill_count[reg]
             At(i) == IF i <= n THEN frame[Slot(reg, i - 1)] ELSE file[reg]
  <2>1. n \in Nat
    <3>1. n \in 0 .. SpillDepth
      BY DEF Inv, TypeOK, Pool
    <3>2. QED
      BY <3>1, SpillDepthAssumption
  <2>2. \A i \in 1 .. n + 1 : At(i) \in Values
    <3> TAKE i \in 1 .. n + 1
    <3>1. CASE i <= n
      <4>1. i - 1 \in 0 .. n - 1
        BY <2>1, <3>1
      <4>2. QED
        BY <1>2, <3>1, <4>1 DEF Inv, HeldValuesWritten
    <3>2. CASE ~(i <= n)
      BY <1>2, <3>2 DEF Inv, HeldValuesWritten
    <3>3. QED
      BY <3>1, <3>2
  <2>3. StackOf(reg) = [i \in 1 .. n + 1 |-> At(i)]
    BY <1>2 DEF StackOf
  <2> HIDE DEF n, At
  <2>4. n + 1 \in Nat
    BY <2>1
  <2>5. StackOf(reg) \in Seq(Values) /\ Len(StackOf(reg)) = n + 1
    BY <2>2, <2>3, <2>4
  <2>6. n + 1 \in 1 .. n + 1 /\ ~(n + 1 <= n)
    BY <2>1
  <2>7. StackOf(reg)[n + 1] = file[reg]
    BY <2>3, <2>6 DEF At
  <2>8. StackOf(reg) # <<>>
    BY <2>1, <2>5
  <2>9. QED
    BY <1>2, <2>5, <2>7, <2>8 DEF n
<1>3. QED
  BY <1>1, <1>2

\* The stack of a register is the same while its part of the pool and of the
\* machine is.
LEMMA StackKept ==
    ASSUME Inv, NEW reg \in Regs,
           pool'.is_free[reg] = pool.is_free[reg],
           pool'.spill_count[reg] = pool.spill_count[reg],
           file'[reg] = file[reg],
           \A k \in 0 .. SpillDepth - 1 : frame'[Slot(reg, k)] = frame[Slot(reg, k)]
    PROVE  StackOf(reg)' = StackOf(reg)
<1> DEFINE n == pool.spill_count[reg]
<1>1. n \in 0 .. SpillDepth
  BY DEF Inv, TypeOK, Pool
<1>2. ASSUME NEW i \in 1 .. n + 1, i <= n
      PROVE  i - 1 \in 0 .. SpillDepth - 1
  BY <1>1, <1>2, SpillDepthAssumption
<1>3. \A i \in 1 .. n + 1 :
        (IF i <= n THEN frame'[Slot(reg, i - 1)] ELSE file'[reg])
            = (IF i <= n THEN frame[Slot(reg, i - 1)] ELSE file[reg])
  BY <1>2
<1>4. QED
  BY <1>3 DEF StackOf

\* A place of the frame written under one register is not one of another.
LEMMA OtherSlotsKept ==
    ASSUME TypeOK, NEW reg \in Regs, NEW count \in 0 .. SpillDepth - 1, NEW value,
           frame' = [frame EXCEPT ![Slot(reg, count)] = value],
           NEW other \in Regs, NEW k \in 0 .. SpillDepth - 1,
           other # reg \/ k # count
    PROVE  frame'[Slot(other, k)] = frame[Slot(other, k)]
<1>1. Slot(other, k) # Slot(reg, count)
  BY SlotsAreDistinct
<1>2. Slot(other, k) \in Slots
  BY SlotIsASlot
<1>3. QED
  BY <1>1, <1>2 DEF TypeOK

\* Append as a function.
LEMMA AppendAsFunction ==
    ASSUME NEW q \in Seq(Values), NEW value \in Values, NEW n \in Nat, Len(q) = n
    PROVE  Append(q, value) =
                [i \in 1 .. n + 1 |-> IF i <= n THEN q[i] ELSE value]
<1> DEFINE a == Append(q, value)
<1>1. /\ a \in Seq(Values)
      /\ Len(a) = n + 1
      /\ \A i \in 1 .. n : a[i] = q[i]
      /\ a[n + 1] = value
  BY AppendProperties
<1>2. a \in [1 .. n + 1 -> Values]
  BY <1>1, LenProperties
<1>3. ASSUME NEW i \in 1 .. n + 1
      PROVE  a[i] = IF i <= n THEN q[i] ELSE value
  <2>1. CASE i <= n
    BY <1>1, <2>1
  <2>2. CASE ~(i <= n)
    <3>1. i = n + 1
      BY <2>2
    <3>2. QED
      BY <1>1, <2>2, <3>1
  <2>3. QED
    BY <2>1, <2>2
<1> HIDE DEF a
<1>4. a = [i \in 1 .. n + 1 |-> IF i <= n THEN q[i] ELSE value]
  BY <1>2, <1>3
<1>5. QED
  BY <1>4 DEF a

\* A sequence without its last member, as a function.
LEMMA FrontAsFunction ==
    ASSUME NEW q \in Seq(Values), NEW n \in Nat, Len(q) = n + 1
    PROVE  SubSeq(q, 1, n) = [i \in 1 .. n |-> q[i]]
<1> DEFINE front == SubSeq(q, 1, n)
<1>1. \A i \in 1 .. n : q[i] \in Values
  BY ElementOfSeq
<1>2. /\ front \in Seq(Values)
      /\ Len(front) = n
      /\ \A i \in 1 .. n : front[i] = q[i]
  <2>1. /\ front \in Seq(Values)
        /\ Len(front) = IF 1 <= n THEN n - 1 + 1 ELSE 0
        /\ \A i \in 1 .. n - 1 + 1 : front[i] = q[1 + i - 1]
    BY <1>1, SubSeqProperties
  <2> HIDE DEF front
  <2>2. n - 1 + 1 = n /\ (~(1 <= n) => n = 0)
    OBVIOUS
  <2>3. \A i \in 1 .. n : 1 + i - 1 = i
    OBVIOUS
  <2>4. QED
    BY <2>1, <2>2, <2>3
<1> HIDE DEF front
<1>3. front \in [1 .. n -> Values]
  BY <1>2, LenProperties
<1>4. front = [i \in 1 .. n |-> q[i]]
  BY <1>2, <1>3
<1>5. QED
  BY <1>4 DEF front

\* Setting a value aside and loading a new one is a push.
LEMMA LoadFreshPushes ==
    ASSUME Inv, Inv', NEW value \in Values, LoadFresh(value),
           NEW reg \in Regs, reg = Candidate(pool),
           NEW count, count = pool.spill_count[reg]
    PROVE  Abstract!Push(reg, value)
<1>1. pool \in Pool /\ ~PoolIsFull(pool) /\ reg \in Regs
  BY CandidateIsUsable DEF Inv, TypeOK, LoadFresh
<1>2. pool'.is_free = [pool.is_free EXCEPT ![reg] = FALSE]
  BY <1>1, AllocEffect DEF LoadFresh
<1>3. /\ MustSpill(pool) => pool'.spill_count = [pool.spill_count EXCEPT ![reg] = @ + 1]
      /\ ~MustSpill(pool) => pool'.spill_count = pool.spill_count
  BY <1>1, AllocEffect DEF LoadFresh
<1>4. /\ pool.is_free \in [Regs -> BOOLEAN]
      /\ pool.spill_count \in [Regs -> 0 .. SpillDepth]
      /\ file \in [Regs -> Values \cup {Junk}]
      /\ file' = [file EXCEPT ![reg] = value]
  BY DEF Inv, TypeOK, Pool, LoadFresh
<1>5. count \in 0 .. SpillDepth /\ (MustSpill(pool) => count \in 0 .. SpillDepth - 1)
  <2>1. count \in 0 .. SpillDepth /\ (MustSpill(pool) => count < SpillDepth)
    BY <1>1, <1>4, CandidateIsUsable
  <2>2. QED
    BY <2>1, SpillDepthAssumption
<1>6. /\ MustSpill(pool) => frame' = [frame EXCEPT ![Slot(reg, count)] = file[reg]]
      /\ ~MustSpill(pool) => frame' = frame
  BY DEF LoadFresh
<1>7. Len(StackOf(reg)) < SpillDepth + 1
  <2>1. CASE pool.is_free[reg]
    BY <1>1, <2>1, StackShape, SpillDepthAssumption
  <2>2. CASE ~pool.is_free[reg]
    <3>1. MustSpill(pool)
      BY <1>1, <2>2, CandidateIsUsable
    <3>2. QED
      BY <1>1, <1>5, <2>2, <3>1, StackShape, SpillDepthAssumption
  <2>3. QED
    BY <2>1, <2>2
<1>8. StackOf(reg) # <<>> => \A other \in Regs : StackOf(other) # <<>>
  <2>1. StackOf(reg) # <<>> => ~pool.is_free[reg]
    BY <1>1, StackShape
  <2>2. StackOf(reg) # <<>> => \A other \in Regs : ~pool.is_free[other]
    BY <1>1, <2>1, CandidateIsUsable DEF MustSpill, FreeRegs
  <2>3. QED
    BY <2>2, StackShape
<1>9. ASSUME NEW other \in Regs, other # reg
      PROVE  StackOf(other)' = StackOf(other)
  <2>1. /\ pool'.is_free[other] = pool.is_free[other]
        /\ pool'.spill_count[other] = pool.spill_count[other]
        /\ file'[other] = file[other]
    BY <1>1, <1>2, <1>3, <1>4, <1>9
  <2>2. \A k \in 0 .. SpillDepth - 1 : frame'[Slot(other, k)] = frame[Slot(other, k)]
    <3>1. CASE MustSpill(pool)
      BY <1>1, <1>5, <1>6, <1>9, <3>1, OtherSlotsKept DEF Inv
    <3>2. CASE ~MustSpill(pool)
      BY <1>6, <3>2
    <3>3. QED
      BY <3>1, <3>2
  <2>3. QED
    BY <2>1, <2>2, StackKept
<1>10. StackOf(reg)' = Append(StackOf(reg), value)
  <2>1. ~pool'.is_free[reg] /\ file'[reg] = value
    BY <1>1, <1>2, <1>4
  <2>2. CASE ~MustSpill(pool)
    <3>1. pool.is_free[reg] /\ count = 0 /\ pool'.spill_count[reg] = 0
      BY <1>1, <1>3, <2>2, CandidateIsUsable DEF Inv, FreeMeansEmpty
    <3>2. StackOf(reg)' = [i \in 1 .. 1 |-> value]
      BY <2>1, <3>1 DEF StackOf
    <3>3. StackOf(reg) = <<>>
      BY <3>1 DEF StackOf
    <3>4. QED
      BY <3>2, <3>3
  <2>3. CASE MustSpill(pool)
    <3>1. ~pool.is_free[reg] /\ pool'.spill_count[reg] = count + 1
      BY <1>1, <1>3, <1>4, <2>3 DEF MustSpill, FreeRegs
    <3>2. StackOf(reg)' = [i \in 1 .. count + 2 |->
                IF i <= count + 1 THEN frame'[Slot(reg, i - 1)] ELSE value]
      <4>1. count + 1 + 1 = count + 2
        BY <1>5
      <4>2. QED
        BY <2>1, <3>1, <4>1 DEF StackOf
    <3>3. StackOf(reg) = [i \in 1 .. count + 1 |->
                IF i <= count THEN frame[Slot(reg, i - 1)] ELSE file[reg]]
      BY <3>1 DEF StackOf
    <3>4. ASSUME NEW i \in 1 .. count + 1
          PROVE  frame'[Slot(reg, i - 1)] = StackOf(reg)[i]
      <4>1. CASE i <= count
        <5>1. i - 1 \in 0 .. SpillDepth - 1 /\ i - 1 # count
          BY <1>5, <2>3, <4>1, SpillDepthAssumption
        <5>2. frame'[Slot(reg, i - 1)] = frame[Slot(reg, i - 1)]
          BY <1>1, <1>5, <1>6, <2>3, <5>1, OtherSlotsKept DEF Inv
        <5>3. QED
          BY <3>3, <4>1, <5>2
      <4>2. CASE ~(i <= count)
        <5>1. i - 1 = count
          BY <1>5, <4>2
        <5>2. Slot(reg, count) \in Slots
          BY <1>1, <1>5, <2>3, SlotIsASlot
        <5>3. frame'[Slot(reg, i - 1)] = file[reg]
          BY <1>6, <2>3, <5>1, <5>2 DEF Inv, TypeOK
        <5>4. QED
          BY <3>3, <4>2, <5>3
      <4>3. QED
        BY <4>1, <4>2
    <3>5. Append(StackOf(reg), value) = [i \in 1 .. count + 2 |->
                IF i <= count + 1 THEN StackOf(reg)[i] ELSE value]
      <4>1. StackOf(reg) \in Seq(Values) /\ Len(StackOf(reg)) = count + 1
        BY <1>1, <3>1, StackShape
      <4>2. count \in Nat
        BY <1>5, SpillDepthAssumption
      <4>3. Append(StackOf(reg), value) = [i \in 1 .. count + 1 + 1 |->
                IF i <= count + 1 THEN StackOf(reg)[i] ELSE value]
        BY <4>1, <4>2, AppendAsFunction
      <4>4. QED
        BY <4>2, <4>3
    <3>6. \A i \in 1 .. count + 2 :
            (IF i <= count + 1 THEN frame'[Slot(reg, i - 1)] ELSE value)
                = (IF i <= count + 1 THEN StackOf(reg)[i] ELSE value)
      <4>1. ASSUME NEW i \in 1 .. count + 2, i <= count + 1
            PROVE  i \in 1 .. count + 1
        BY <4>1, <1>5
      <4>2. QED
        BY <3>4, <4>1
    <3>7. QED
      BY <3>2, <3>5, <3>6
  <2>4. QED
    BY <2>2, <2>3
<1>11. [r \in Regs |-> StackOf(r)]'
        = [[r \in Regs |-> StackOf(r)] EXCEPT ![reg] = Append(@, value)]
  BY <1>1, <1>9, <1>10
<1>12. QED
  BY <1>1, <1>7, <1>8, <1>11 DEF Abstract!Push

\* Freeing a register, with or without a value coming back, is a pop.
LEMMA FreeRegisterPops ==
    ASSUME Inv, Inv', NEW reg \in Regs, FreeRegister(reg)
    PROVE  Abstract!Pop(reg)
<1>1. PICK count : count = pool.spill_count[reg]
  OBVIOUS
<1>2. /\ pool \in Pool /\ ~pool.is_free[reg] /\ frame' = frame
      /\ pool.is_free \in [Regs -> BOOLEAN]
      /\ pool.spill_count \in [Regs -> 0 .. SpillDepth]
      /\ file \in [Regs -> Values \cup {Junk}]
  BY DEF Inv, TypeOK, Pool, FreeRegister
<1>3. count \in 0 .. SpillDepth /\ count \in Nat
  BY <1>1, <1>2, SpillDepthAssumption
<1>4. /\ StackOf(reg) \in Seq(Values)
      /\ Len(StackOf(reg)) = count + 1
      /\ StackOf(reg) # <<>>
  BY <1>1, <1>2, StackShape
<1>5. SubSeq(StackOf(reg), 1, Len(StackOf(reg)) - 1)
        = [i \in 1 .. count |-> StackOf(reg)[i]]
  <2>1. Len(StackOf(reg)) - 1 = count
    BY <1>3, <1>4
  <2>2. QED
    BY <1>3, <1>4, <2>1, FrontAsFunction
<1>6. ASSUME NEW i \in 1 .. count
      PROVE  StackOf(reg)[i] = frame[Slot(reg, i - 1)]
  <2>1. i \in 1 .. count + 1 /\ i <= count
    BY <1>3
  <2>2. QED
    BY <1>1, <1>2, <2>1 DEF StackOf
<1>7. StackOf(reg)' = SubSeq(StackOf(reg), 1, Len(StackOf(reg)) - 1)
  <2>1. CASE MustReload(pool, reg)
    <3>1. /\ pool'.is_free = pool.is_free
          /\ pool'.spill_count = [pool.spill_count EXCEPT ![reg] = @ - 1]
          /\ file' = [file EXCEPT ![reg] = frame[Slot(reg, count - 1)]]
      BY <1>1, <1>2, <2>1, FreeEffect, ZenonT(30) DEF FreeRegister
    <3>2. /\ ~pool'.is_free[reg]
          /\ pool'.spill_count[reg] = count - 1
          /\ file'[reg] = frame[Slot(reg, count - 1)]
      BY <1>1, <1>2, <3>1
    <3>3. count - 1 + 1 = count
      BY <1>3
    <3>4. StackOf(reg)' = [i \in 1 .. count |->
                IF i <= count - 1 THEN frame'[Slot(reg, i - 1)] ELSE file'[reg]]
      BY <3>2, <3>3 DEF StackOf
    <3>5. ASSUME NEW i \in 1 .. count
          PROVE  (IF i <= count - 1 THEN frame'[Slot(reg, i - 1)] ELSE file'[reg])
                    = StackOf(reg)[i]
      <4>1. ~(i <= count - 1) => i = count
        BY <1>3
      <4>2. QED
        BY <1>2, <1>6, <3>2, <4>1
    <3>6. QED
      BY <1>5, <3>4, <3>5
  <2>2. CASE ~MustReload(pool, reg)
    <3>1. pool'.is_free = [pool.is_free EXCEPT ![reg] = TRUE]
      BY <1>2, <2>2, FreeEffect DEF FreeRegister
    <3>2. StackOf(reg)' = <<>>
      BY <1>2, <3>1 DEF StackOf
    <3>3. count = 0
      BY <1>1, <1>3, <2>2 DEF MustReload
    <3>4. [i \in 1 .. count |-> StackOf(reg)[i]] = <<>>
      BY <3>3
    <3>5. QED
      BY <1>5, <3>2, <3>4
  <2>3. QED
    BY <2>1, <2>2
<1>8. ASSUME NEW other \in Regs, other # reg
      PROVE  StackOf(other)' = StackOf(other)
  <2>1. /\ pool'.is_free[other] = pool.is_free[other]
        /\ pool'.spill_count[other] = pool.spill_count[other]
        /\ file'[other] = file[other]
    <3>1. CASE MustReload(pool, reg)
      <4>1. /\ pool'.is_free = pool.is_free
            /\ pool'.spill_count = [pool.spill_count EXCEPT ![reg] = @ - 1]
        BY <1>2, <3>1, FreeEffect, ZenonT(30) DEF FreeRegister
      <4>2. file'[other] = file[other]
        BY <1>2, <1>8, <3>1 DEF FreeRegister
      <4>3. QED
        BY <1>2, <1>8, <4>1, <4>2
    <3>2. CASE ~MustReload(pool, reg)
      <4>1. /\ pool'.is_free = [pool.is_free EXCEPT ![reg] = TRUE]
            /\ pool'.spill_count = pool.spill_count
        BY <1>2, <3>2, FreeEffect DEF FreeRegister
      <4>2. file' = file
        BY <3>2 DEF FreeRegister
      <4>3. QED
        BY <1>2, <1>8, <4>1, <4>2
    <3>3. QED
      BY <3>1, <3>2
  <2>2. QED
    BY <1>2, <2>1, StackKept
<1>9. [r \in Regs |-> StackOf(r)]' = [[r \in Regs |-> StackOf(r)]
            EXCEPT ![reg] = SubSeq(@, 1, Len(@) - 1)]
  BY <1>7, <1>8
<1>10. QED
  BY <1>4, <1>9 DEF Abstract!Pop

\* Working in place is writing over the value on top.
LEMMA WriteOverOverwrites ==
    ASSUME Inv, Inv', NEW reg \in Regs, NEW value \in Values, WriteOver(reg, value)
    PROVE  Abstract!Overwrite(reg, value)
<1>1. PICK count : count = pool.spill_count[reg]
  OBVIOUS
<1>2. /\ ~pool.is_free[reg] /\ pool' = pool /\ frame' = frame
      /\ file \in [Regs -> Values \cup {Junk}]
      /\ file' = [file EXCEPT ![reg] = value]
      /\ count \in 0 .. SpillDepth /\ count \in Nat
  BY <1>1, SpillDepthAssumption DEF Inv, TypeOK, Pool, WriteOver
<1>3. /\ StackOf(reg) \in Seq(Values)
      /\ Len(StackOf(reg)) = count + 1
      /\ StackOf(reg) # <<>>
  BY <1>1, <1>2, StackShape
<1>4. StackOf(reg) = [i \in 1 .. count + 1 |->
            IF i <= count THEN frame[Slot(reg, i - 1)] ELSE file[reg]]
  BY <1>1, <1>2 DEF StackOf
<1>5. StackOf(reg)' = [i \in 1 .. count + 1 |->
            IF i <= count THEN frame[Slot(reg, i - 1)] ELSE value]
  BY <1>1, <1>2 DEF StackOf
<1>6. StackOf(reg)' = [StackOf(reg) EXCEPT ![Len(StackOf(reg))] = value]
  <2>1. [StackOf(reg) EXCEPT ![count + 1] = value]
            = [i \in 1 .. count + 1 |->
                 IF i = count + 1 THEN value ELSE StackOf(reg)[i]]
    BY <1>4
  <2>2. \A i \in 1 .. count + 1 : i <= count <=> i # count + 1
    BY <1>2
  <2>3. QED
    BY <1>3, <1>4, <1>5, <2>1, <2>2
<1>7. ASSUME NEW other \in Regs, other # reg
      PROVE  StackOf(other)' = StackOf(other)
  BY <1>2, <1>7, StackKept
<1>8. [r \in Regs |-> StackOf(r)]' = [[r \in Regs |-> StackOf(r)]
            EXCEPT ![reg] = [@ EXCEPT ![Len(@)] = value]]
  BY <1>6, <1>7
<1>9. QED
  BY <1>3, <1>8 DEF Abstract!Overwrite

\* AllocRegister() and FreeRegister() over a frame of fixed places are the push
\* and the pop of a stack for every register, so a value set aside comes back
\* to the register it was taken from, and to no other, whatever was asked for
\* in between.
THEOREM PoolImplementsStacks == Spec => ValuesComeBack
<1>1. Init => Abstract!Init
  BY DEF Init, FreshPool, StackOf, Abstract!Init
<1>2. Inv /\ Inv' /\ [Next]_vars
        => [Abstract!Next]_([reg \in Regs |-> StackOf(reg)])
  <2> SUFFICES ASSUME Inv, Inv', [Next]_vars
               PROVE  [Abstract!Next]_([reg \in Regs |-> StackOf(reg)])
    OBVIOUS
  <2>1. ASSUME NEW value \in Values, LoadFresh(value)
        PROVE  Abstract!Next
    <3>1. PICK reg \in Regs : reg = Candidate(pool)
      BY <2>1, CandidateIsUsable DEF LoadFresh, Inv, TypeOK
    <3>2. PICK count : count = pool.spill_count[reg]
      OBVIOUS
    <3>3. Abstract!Push(reg, value)
      BY <2>1, <3>1, <3>2, LoadFreshPushes
    <3>4. QED
      BY <3>3 DEF Abstract!Next
  <2>2. ASSUME NEW reg \in Regs, NEW value \in Values, WriteOver(reg, value)
        PROVE  Abstract!Next
    BY <2>2, WriteOverOverwrites DEF Abstract!Next
  <2>3. ASSUME NEW reg \in Regs, FreeRegister(reg)
        PROVE  Abstract!Next
    BY <2>3, FreeRegisterPops DEF Abstract!Next
  <2>4. ASSUME FreeAllRegister
        PROVE  Abstract!Next
    <3>1. \A reg \in Regs : StackOf(reg)' = <<>>
      BY <2>4 DEF FreeAllRegister, FreshPool, StackOf
    <3>2. QED
      BY <3>1 DEF Abstract!Clear, Abstract!Next
  <2>5. ASSUME UNCHANGED <<pool, file, frame>>
        PROVE  UNCHANGED [reg \in Regs |-> StackOf(reg)]
    BY <2>5 DEF StackOf
  <2>6. CASE Refuse
    BY <2>5, <2>6 DEF Refuse
  <2>7. ASSUME NEW reg \in Regs, FreeUnused(reg)
        PROVE  UNCHANGED [r \in Regs |-> StackOf(r)]
    BY <2>5, <2>7 DEF FreeUnused
  <2>8. CASE UNCHANGED vars
    BY <2>5, <2>8 DEF vars
  <2>9. QED
    BY <2>1, <2>2, <2>3, <2>4, <2>6, <2>7, <2>8 DEF Next
<1>3. QED
  BY <1>1, <1>2, Invariance, PTL DEF Spec, ValuesComeBack, Abstract!Spec

=============================================================================
