-------------------------- MODULE ExprCodegenProofs --------------------------
(***************************************************************************)
(* The walk of ExprCodegen over any expression, for any number of          *)
(* registers and any depth: what it frees is in use, one register is left  *)
(* at its end, and it is refused exactly when more values stand at once    *)
(* than there is room for.  The code which is written keeps the stack in   *)
(* order at every call.                                                    *)
(***************************************************************************)
EXTENDS ExprMachine, SpillPolicyProofs, FiniteSetTheorems, SequenceTheorems

-----------------------------------------------------------------------------
(***************************************************************************)
(* The registers which are held, and the pool.  A name stands for each     *)
(* value there is: the one in a register, and those of it which are set    *)
(* aside.                                                                  *)
(***************************************************************************)

\* How many values a register has: its own and those set aside.
Depth(p, reg) == IF p.is_free[reg] THEN 0 ELSE 1 + p.spill_count[reg]

\* f is which of the values of its register each name stands for.
Stands(f, held, p) ==
    /\ f \in [1 .. Len(held) -> 0 .. SpillDepth]
    /\ \A k \in 1 .. Len(held) : f[k] < Depth(p, held[k])
    /\ \A j, k \in 1 .. Len(held) : held[j] = held[k] /\ f[j] = f[k] => j = k
    /\ \A reg \in Regs : \A i \in 0 .. SpillDepth :
           i < Depth(p, reg) => \E k \in 1 .. Len(held) : held[k] = reg /\ f[k] = i

\* Every value has a name, and nothing is set aside for a register which is free.
Counted(held, p) ==
    /\ \A reg \in Regs : p.is_free[reg] => p.spill_count[reg] = 0
    /\ \E f : Stands(f, held, p)

LEMMA PoolIs ==
    ASSUME NEW p \in Pool, NEW reg \in Regs
    PROVE  /\ p.is_free[reg] \in BOOLEAN /\ p.spill_count[reg] \in 0 .. SpillDepth
           /\ Depth(p, reg) \in 0 .. SpillDepth + 1
           /\ SpillDepth \in Nat
<1>1. p.is_free[reg] \in BOOLEAN /\ p.spill_count[reg] \in 0 .. SpillDepth /\ SpillDepth \in Nat
  BY SpillDepthAssumption DEF Pool
<1>2. QED
  BY <1>1 DEF Depth

\* Nothing is held of a pool in which every register is free.
LEMMA FreshIsCounted == Counted(<<>>, FreshPool)
<1>1. \A reg \in Regs : FreshPool.is_free[reg] /\ FreshPool.spill_count[reg] = 0
  BY DEF FreshPool
<1>2. Stands([k \in 1 .. 0 |-> 0], <<>>, FreshPool)
  BY <1>1 DEF Stands, Depth
<1>3. QED
  BY <1>1, <1>2 DEF Counted

\* A register which is asked for has one value more, and all others have as
\* many as before.
LEMMA AllocDepth ==
    ASSUME NEW p \in Pool, ~PoolIsFull(p),
           \A reg \in Regs : p.is_free[reg] => p.spill_count[reg] = 0
    PROVE  /\ Candidate(p) \in Regs
           /\ Depth(p, Candidate(p)) \in 0 .. SpillDepth
           /\ \A reg \in Regs : Depth(PoolAfterAlloc(p), reg) =
                  IF reg = Candidate(p) THEN 1 + Depth(p, reg) ELSE Depth(p, reg)
           /\ \A reg \in Regs :
                  PoolAfterAlloc(p).is_free[reg] => PoolAfterAlloc(p).spill_count[reg] = 0
<1> DEFINE c == Candidate(p)
           q == PoolAfterAlloc(p)
<1>1. /\ c \in Regs /\ (~MustSpill(p) => p.is_free[c])
      /\ (MustSpill(p) => p.spill_count[c] < SpillDepth)
  BY CandidateIsUsable
<1>2. MustSpill(p) => ~p.is_free[c]
  BY <1>1 DEF MustSpill, FreeRegs
<1>3. /\ q.is_free = [p.is_free EXCEPT ![c] = FALSE]
      /\ MustSpill(p) => q.spill_count = [p.spill_count EXCEPT ![c] = @ + 1]
      /\ ~MustSpill(p) => q.spill_count = p.spill_count
  BY AllocEffect
<1>4. p.is_free \in [Regs -> BOOLEAN] /\ p.spill_count \in [Regs -> 0 .. SpillDepth]
  BY DEF Pool
<1> HIDE DEF c, q
<1>5. SpillDepth \in Nat /\ p.spill_count[c] \in 0 .. SpillDepth
  BY <1>1, <1>4, SpillDepthAssumption
<1>6. Depth(p, c) \in 0 .. SpillDepth
  <2>1. CASE MustSpill(p)
    BY <1>1, <1>2, <1>5, <2>1 DEF Depth
  <2>2. CASE ~MustSpill(p)
    BY <1>1, <1>5, <2>2 DEF Depth
  <2>3. QED
    BY <2>1, <2>2
<1>7. ASSUME NEW reg \in Regs
      PROVE  /\ Depth(q, reg) = IF reg = c THEN 1 + Depth(p, reg) ELSE Depth(p, reg)
             /\ q.is_free[reg] => q.spill_count[reg] = 0
  <2>1. p.spill_count[reg] \in 0 .. SpillDepth
    BY <1>4
  <2>2. CASE reg = c
    <3>1. ~q.is_free[reg]
      BY <1>1, <1>3, <1>4, <2>2
    <3>2. CASE MustSpill(p)
      <4>1. q.spill_count[reg] = p.spill_count[reg] + 1
        BY <1>1, <1>3, <1>4, <2>2, <3>2
      <4>2. QED
        BY <1>2, <1>5, <2>1, <2>2, <3>1, <3>2, <4>1 DEF Depth
    <3>3. CASE ~MustSpill(p)
      <4>1. q.spill_count[reg] = 0 /\ p.is_free[reg]
        BY <1>1, <1>3, <2>2, <3>3
      <4>2. QED
        BY <2>2, <3>1, <4>1 DEF Depth
    <3>4. QED
      BY <3>2, <3>3
  <2>3. CASE reg # c
    <3>1. q.is_free[reg] = p.is_free[reg]
      BY <1>1, <1>3, <1>4, <2>3
    <3>2. q.spill_count[reg] = p.spill_count[reg]
      BY <1>1, <1>3, <1>4, <2>3
    <3>3. QED
      BY <2>3, <3>1, <3>2 DEF Depth
  <2>4. QED
    BY <2>2, <2>3
<1>8. QED
  BY <1>1, <1>6, <1>7 DEF c, q

\* The name of what was asked for is that of the value on top.
LEMMA AllocIsCounted ==
    ASSUME NEW p \in Pool, NEW held \in Seq(Regs), Counted(held, p), ~PoolIsFull(p)
    PROVE  Counted(Append(held, Candidate(p)), PoolAfterAlloc(p))
<1> DEFINE c == Candidate(p)
           q == PoolAfterAlloc(p)
           n == Len(held)
           more == Append(held, c)
<1>1. PICK f : Stands(f, held, p)
  BY DEF Counted
<1>2. \A reg \in Regs : p.is_free[reg] => p.spill_count[reg] = 0
  BY DEF Counted
<1>3. /\ c \in Regs /\ Depth(p, c) \in 0 .. SpillDepth
      /\ \A reg \in Regs : Depth(q, reg) =
             IF reg = c THEN 1 + Depth(p, reg) ELSE Depth(p, reg)
      /\ \A reg \in Regs : q.is_free[reg] => q.spill_count[reg] = 0
  BY <1>2, AllocDepth
<1>4. /\ n \in Nat /\ Len(more) = n + 1 /\ more[n + 1] = c
      /\ \A k \in 1 .. n : more[k] = held[k] /\ held[k] \in Regs
  BY <1>3
<1> HIDE DEF c, q, n, more
<1> DEFINE g == [k \in 1 .. n + 1 |-> IF k = n + 1 THEN Depth(p, c) ELSE f[k]]
<1>5. /\ f \in [1 .. n -> 0 .. SpillDepth] /\ \A k \in 1 .. n : f[k] < Depth(p, held[k])
      /\ \A j, k \in 1 .. n : held[j] = held[k] /\ f[j] = f[k] => j = k
      /\ \A reg \in Regs : \A i \in 0 .. SpillDepth :
             i < Depth(p, reg) => \E k \in 1 .. n : held[k] = reg /\ f[k] = i
  BY <1>1 DEF Stands, n
<1>6. /\ g \in [1 .. n + 1 -> 0 .. SpillDepth] /\ g[n + 1] = Depth(p, c)
      /\ \A k \in 1 .. n : g[k] = f[k]
  BY <1>3, <1>4, <1>5
<1> HIDE DEF g
<1>7. \A reg \in Regs : Depth(p, reg) \in Nat
  BY PoolIs, SpillDepthAssumption
<1>8. ASSUME NEW k \in 1 .. n + 1 PROVE g[k] < Depth(q, more[k])
  <2>1. CASE k = n + 1
    BY <1>3, <1>4, <1>6, <1>7, <2>1
  <2>2. CASE k # n + 1
    <3>1. k \in 1 .. n
      BY <1>4, <2>2
    <3>2. f[k] < Depth(p, held[k]) /\ f[k] \in Nat /\ held[k] \in Regs
      BY <1>4, <1>5, <3>1
    <3>3. QED
      BY <1>3, <1>4, <1>6, <1>7, <3>1, <3>2, SMTT(20)
  <2>3. QED
    BY <2>1, <2>2
<1>9. ASSUME NEW j \in 1 .. n + 1, NEW k \in 1 .. n + 1, more[j] = more[k], g[j] = g[k]
      PROVE  j = k
  <2>1. \A i \in 1 .. n : held[i] = c => f[i] # Depth(p, c)
    BY <1>3, <1>5, <1>7
  <2>2. CASE j = n + 1 /\ k \in 1 .. n
    BY <1>4, <1>6, <1>9, <2>1, <2>2
  <2>3. CASE k = n + 1 /\ j \in 1 .. n
    BY <1>4, <1>6, <1>9, <2>1, <2>3
  <2>4. CASE j \in 1 .. n /\ k \in 1 .. n
    BY <1>4, <1>5, <1>6, <1>9, <2>4
  <2>5. QED
    BY <1>4, <2>2, <2>3, <2>4
<1>10. ASSUME NEW reg \in Regs, NEW i \in 0 .. SpillDepth, i < Depth(q, reg)
       PROVE  \E k \in 1 .. n + 1 : more[k] = reg /\ g[k] = i
  <2>1. CASE reg = c /\ i = Depth(p, c)
    BY <1>4, <1>6, <2>1
  <2>2. CASE ~(reg = c /\ i = Depth(p, c))
    <3>1. i < Depth(p, reg)
      BY <1>3, <1>7, <1>10, <2>2, SpillDepthAssumption
    <3>2. PICK k \in 1 .. n : held[k] = reg /\ f[k] = i
      BY <1>5, <3>1
    <3>3. k \in 1 .. n + 1
      BY <1>4
    <3>4. QED
      BY <1>4, <1>6, <3>2, <3>3
  <2>3. QED
    BY <2>1, <2>2
<1>11. Stands(g, more, q)
  BY <1>4, <1>6, <1>8, <1>9, <1>10 DEF Stands
<1>12. QED
  BY <1>3, <1>11 DEF Counted, more, c, q

\* A register which is freed has one value less.
LEMMA FreeDepth ==
    ASSUME NEW p \in Pool, NEW c \in Regs, Depth(p, c) > 0,
           \A reg \in Regs : p.is_free[reg] => p.spill_count[reg] = 0
    PROVE  /\ ~p.is_free[c]
           /\ \A reg \in Regs : Depth(PoolAfterFree(p, c), reg) =
                  IF reg = c THEN Depth(p, reg) - 1 ELSE Depth(p, reg)
           /\ \A reg \in Regs : PoolAfterFree(p, c).is_free[reg] =>
                                    PoolAfterFree(p, c).spill_count[reg] = 0
<1> DEFINE q == PoolAfterFree(p, c)
<1>1. ~p.is_free[c]
  BY DEF Depth
<1>2. /\ MustReload(p, c) => /\ q.is_free = p.is_free
                             /\ q.spill_count = [p.spill_count EXCEPT ![c] = @ - 1]
      /\ ~MustReload(p, c) => /\ q.is_free = [p.is_free EXCEPT ![c] = TRUE]
                              /\ q.spill_count = p.spill_count
  BY FreeEffect
<1>3. /\ p.is_free \in [Regs -> BOOLEAN] /\ p.spill_count \in [Regs -> 0 .. SpillDepth]
      /\ p.spill_count[c] \in 0 .. SpillDepth /\ SpillDepth \in Nat
  BY SpillDepthAssumption DEF Pool
<1> HIDE DEF q
<1>4. ASSUME NEW reg \in Regs
      PROVE  /\ Depth(q, reg) = IF reg = c THEN Depth(p, reg) - 1 ELSE Depth(p, reg)
             /\ q.is_free[reg] => q.spill_count[reg] = 0
  <2>1. CASE MustReload(p, c)
    <3>1. q.is_free[reg] = p.is_free[reg]
      BY <1>2, <2>1
    <3>2. q.spill_count[reg] = IF reg = c THEN p.spill_count[reg] - 1 ELSE p.spill_count[reg]
      BY <1>2, <1>3, <2>1
    <3>3. p.spill_count[reg] \in 0 .. SpillDepth
      BY <1>3
    <3>4. QED
      BY <1>1, <1>3, <3>1, <3>2, <3>3 DEF Depth
  <2>2. CASE ~MustReload(p, c)
    <3>1. q.is_free[reg] = IF reg = c THEN TRUE ELSE p.is_free[reg]
      BY <1>2, <1>3, <2>2
    <3>2. q.spill_count[reg] = p.spill_count[reg]
      BY <1>2, <2>2
    <3>3. p.spill_count[c] = 0
      BY <1>3, <2>2 DEF MustReload
    <3>4. QED
      BY <1>1, <1>3, <3>1, <3>2, <3>3 DEF Depth
  <2>3. QED
    BY <2>1, <2>2
<1>5. QED
  BY <1>1, <1>4 DEF q

\* Whichever of its names a register is freed by, it is in use and the value
\* which goes is the one on top: the names which are left are enough for the
\* others.
LEMMA FreeIsCounted ==
    ASSUME NEW p \in Pool, NEW held \in Seq(Regs), Counted(held, p),
           NEW place \in 1 .. Len(held)
    PROVE  /\ ~p.is_free[held[place]]
           /\ Counted(Without(held, place), PoolAfterFree(p, held[place]))
<1> DEFINE c == held[place]
           q == PoolAfterFree(p, c)
           n == Len(held)
           less == Without(held, place)
           old(k) == IF k < place THEN k ELSE k + 1
<1>1. PICK f : Stands(f, held, p)
  BY DEF Counted
<1>2. n \in Nat /\ place \in 1 .. n /\ c \in Regs /\ \A k \in 1 .. n : held[k] \in Regs
  OBVIOUS
<1>3. /\ Len(less) = n - 1
      /\ \A k \in 1 .. n - 1 : less[k] = held[old(k)] /\ old(k) \in 1 .. n /\ old(k) # place
  BY <1>2 DEF Without
<1>4. /\ f \in [1 .. n -> 0 .. SpillDepth] /\ \A k \in 1 .. n : f[k] < Depth(p, held[k])
      /\ \A j, k \in 1 .. n : held[j] = held[k] /\ f[j] = f[k] => j = k
      /\ \A reg \in Regs : \A i \in 0 .. SpillDepth :
             i < Depth(p, reg) => \E k \in 1 .. n : held[k] = reg /\ f[k] = i
  BY <1>1 DEF Stands
<1>5. /\ Depth(p, c) \in 0 .. SpillDepth + 1 /\ SpillDepth \in Nat /\ f[place] < Depth(p, c)
      /\ f[place] \in 0 .. SpillDepth
  BY <1>2, <1>4, PoolIs
<1>6. /\ ~p.is_free[c]
      /\ \A reg \in Regs : Depth(q, reg) =
             IF reg = c THEN Depth(p, reg) - 1 ELSE Depth(p, reg)
      /\ \A reg \in Regs : q.is_free[reg] => q.spill_count[reg] = 0
  BY <1>2, <1>5, FreeDepth DEF Counted
<1>7. \A x \in 1 .. n : x # place => \E k \in 1 .. n - 1 : old(k) = x
  <2> TAKE x \in 1 .. n
  <2>1. CASE x < place
    <3>1. x \in 1 .. n - 1 /\ old(x) = x
      BY <1>2, <2>1
    <3>2. QED
      BY <3>1
  <2>2. CASE x > place
    <3>1. x - 1 \in 1 .. n - 1 /\ old(x - 1) = x
      BY <1>2, <2>2
    <3>2. QED
      BY <3>1
  <2>3. QED
    BY <1>2, <2>1, <2>2
<1>8. \A j, k \in 1 .. n - 1 : old(j) = old(k) => j = k
  BY <1>2
<1> HIDE DEF c, q, n, less, old
<1>9. PICK m \in 1 .. n : held[m] = c /\ f[m] = Depth(p, c) - 1
  BY <1>2, <1>4, <1>5
<1> DEFINE swap(x) == IF x = m THEN f[place] ELSE f[x]
           g == [k \in 1 .. n - 1 |-> swap(old(k))]
<1>10. \A reg \in Regs : Depth(p, reg) \in Nat
  BY PoolIs
<1>11. \A x \in 1 .. n : swap(x) \in 0 .. SpillDepth
  BY <1>4, <1>5
<1>12. g \in [1 .. n - 1 -> 0 .. SpillDepth] /\ \A k \in 1 .. n - 1 : g[k] = swap(old(k))
  BY <1>3, <1>11
<1>13. held[place] = c
  BY DEF c
<1> HIDE DEF g
<1>14. ASSUME NEW k \in 1 .. n - 1 PROVE g[k] < Depth(q, less[k])
  <2> DEFINE x == old(k)
  <2>1. x \in 1 .. n /\ x # place /\ less[k] = held[x] /\ held[x] \in Regs /\ g[k] = swap(x)
    BY <1>2, <1>3, <1>12
  <2> HIDE DEF x
  <2>2. f[x] < Depth(p, held[x]) /\ f[x] \in 0 .. SpillDepth
    BY <1>4, <2>1
  <2>3. CASE held[x] # c
    BY <1>6, <1>9, <2>1, <2>2, <2>3
  <2>4. CASE held[x] = c /\ x # m
    <3>1. f[x] # Depth(p, c) - 1
      BY <1>4, <1>9, <2>1, <2>4
    <3>2. QED
      BY <1>2, <1>5, <1>6, <2>1, <2>2, <2>4, <3>1
  <2>5. CASE x = m
    <3>1. f[place] # Depth(p, c) - 1
      BY <1>2, <1>4, <1>9, <1>13, <2>1, <2>5
    <3>2. QED
      BY <1>2, <1>5, <1>6, <1>9, <2>1, <2>5, <3>1
  <2>6. QED
    BY <2>3, <2>4, <2>5
<1>15. ASSUME NEW j \in 1 .. n - 1, NEW k \in 1 .. n - 1, less[j] = less[k], g[j] = g[k]
       PROVE  j = k
  <2> DEFINE x == old(j)
             y == old(k)
  <2>1. /\ x \in 1 .. n /\ x # place /\ less[j] = held[x] /\ g[j] = swap(x)
        /\ y \in 1 .. n /\ y # place /\ less[k] = held[y] /\ g[k] = swap(y)
    BY <1>3, <1>12
  <2>2. x = y => j = k
    BY <1>8
  <2> HIDE DEF x, y
  <2>3. held[x] = held[y] /\ swap(x) = swap(y)
    BY <1>15, <2>1
  <2>4. \A u, v \in 1 .. n : held[u] = held[v] /\ f[u] = f[v] => u = v
    BY <1>4
  <2>5. CASE x = m
    <3>1. y # m => f[y] = f[place] /\ held[y] = held[place]
      BY <1>9, <1>13, <2>3, <2>5
    <3>2. y = m
      BY <1>2, <2>1, <2>4, <3>1
    <3>3. QED
      BY <2>2, <2>5, <3>2
  <2>6. CASE y = m
    <3>1. x # m => f[x] = f[place] /\ held[x] = held[place]
      BY <1>9, <1>13, <2>3, <2>6
    <3>2. x = m
      BY <1>2, <2>1, <2>4, <3>1
    <3>3. QED
      BY <2>2, <2>6, <3>2
  <2>7. CASE x # m /\ y # m
    <3>1. f[x] = f[y]
      BY <2>3, <2>7
    <3>2. QED
      BY <2>1, <2>2, <2>3, <2>4, <3>1
  <2>8. QED
    BY <2>5, <2>6, <2>7
<1>16. ASSUME NEW reg \in Regs, NEW i \in 0 .. SpillDepth, i < Depth(q, reg)
       PROVE  \E k \in 1 .. n - 1 : less[k] = reg /\ g[k] = i
  <2>1. i < Depth(p, reg) /\ (reg = c => i # Depth(p, c) - 1)
    BY <1>6, <1>10, <1>16
  <2>2. PICK x \in 1 .. n : held[x] = reg /\ f[x] = i
    BY <1>4, <2>1
  <2>3. x # m
    BY <1>9, <2>1, <2>2
  <2>4. CASE x # place
    <3>1. PICK k \in 1 .. n - 1 : old(k) = x
      BY <1>7, <2>4
    <3>2. less[k] = reg /\ g[k] = i
      BY <1>3, <1>12, <2>2, <2>3, <3>1
    <3>3. QED
      BY <3>2
  <2>5. CASE x = place
    <3>1. PICK k \in 1 .. n - 1 : old(k) = m
      BY <1>7, <1>9, <2>3, <2>5
    <3>2. less[k] = reg /\ g[k] = i
      BY <1>3, <1>9, <1>12, <1>13, <2>2, <2>5, <3>1
    <3>3. QED
      BY <3>2
  <2>6. QED
    BY <2>4, <2>5
<1>17. n - 1 \in Nat /\ Len(less) = n - 1
  BY <1>2, <1>3
<1>18. Stands(g, less, q)
  BY <1>12, <1>14, <1>15, <1>16, <1>17 DEF Stands
<1>19. QED
  BY <1>6, <1>18 DEF Counted, less, c, q

LEMMA RoomIs == Room \in Nat /\ Room = RegSize * (SpillDepth + 1) /\ Room > 0
<1>1. RegSize \in Nat \ {0} /\ SpillDepth \in Nat \ {0}
  BY RegSizeAssumption, SpillDepthAssumption
<1>2. RegSize * SpillDepth \in Nat /\ RegSize * (SpillDepth + 1) = RegSize * SpillDepth + RegSize
  BY <1>1
<1>3. QED
  BY <1>1, <1>2 DEF Room

\* The pool has no register to give exactly when there is a name for every
\* place there is, and there are never more.
LEMMA FullIsCounted ==
    ASSUME NEW p \in Pool, NEW held \in Seq(Regs), Counted(held, p)
    PROVE  /\ Len(held) <= Room
           /\ PoolIsFull(p) <=> Len(held) = Room
<1> DEFINE all == Regs \X (0 .. SpillDepth)
           n == Len(held)
<1>1. PICK f : Stands(f, held, p)
  BY DEF Counted
<1>2. n \in Nat /\ \A k \in 1 .. n : held[k] \in Regs
  OBVIOUS
<1>3. IsFiniteSet(Regs) /\ Cardinality(Regs) = RegSize
  BY FS_Interval, RegSizeAssumption DEF Regs
<1>4. IsFiniteSet(0 .. SpillDepth) /\ Cardinality(0 .. SpillDepth) = SpillDepth + 1
  BY FS_Interval, SpillDepthAssumption
<1>5. IsFiniteSet(all) /\ Cardinality(all) = Room
  BY <1>3, <1>4, FS_Product, RoomIs
<1> HIDE DEF n
<1>6. Cardinality(1 .. n) = n
  <2>1. 1 \in Int /\ n \in Int
    BY <1>2
  <2>2. Cardinality(1 .. n) = IF 1 > n THEN 0 ELSE n - 1 + 1
    BY <2>1, FS_Interval
  <2>3. QED
    BY <1>2, <2>2
<1>7. /\ f \in [1 .. n -> 0 .. SpillDepth] /\ \A k \in 1 .. n : f[k] < Depth(p, held[k])
      /\ \A j, k \in 1 .. n : held[j] = held[k] /\ f[j] = f[k] => j = k
      /\ \A reg \in Regs : \A i \in 0 .. SpillDepth :
             i < Depth(p, reg) => \E k \in 1 .. n : held[k] = reg /\ f[k] = i
  BY <1>1 DEF Stands, n
<1> DEFINE g == [k \in 1 .. n |-> <<held[k], f[k]>>]
<1>8. g \in Injection(1 .. n, all)
  BY <1>2, <1>7 DEF Injection, IsInjective
<1>9. n <= Room /\ (n = Room <=> g \in Surjection(1 .. n, all))
  BY <1>5, <1>6, <1>8, FS_Injection
<1>10. ASSUME PoolIsFull(p) PROVE n = Room
  <2>1. \A reg \in Regs : Depth(p, reg) = SpillDepth + 1
    BY <1>10, FullPool, SpillDepthAssumption DEF Depth
  <2>2. ASSUME NEW t \in all PROVE \E k \in 1 .. n : g[k] = t
    <3>1. PICK reg \in Regs, i \in 0 .. SpillDepth : t = <<reg, i>>
      OBVIOUS
    <3>2. i < Depth(p, reg)
      BY <2>1, SpillDepthAssumption
    <3>3. PICK k \in 1 .. n : held[k] = reg /\ f[k] = i
      BY <1>7, <3>2
    <3>4. QED
      BY <3>1, <3>3
  <2>3. g \in Surjection(1 .. n, all)
    BY <1>8, <2>2 DEF Injection, Surjection
  <2>4. QED
    BY <1>9, <2>3
<1>11. ASSUME n = Room PROVE PoolIsFull(p)
  <2>1. \A t \in all : \E k \in 1 .. n : g[k] = t
    BY <1>9, <1>11 DEF Surjection
  <2>2. ASSUME NEW reg \in Regs
        PROVE  ~p.is_free[reg] /\ p.spill_count[reg] = SpillDepth
    <3>1. <<reg, SpillDepth>> \in all
      BY SpillDepthAssumption
    <3>2. PICK k \in 1 .. n : g[k] = <<reg, SpillDepth>>
      BY <2>1, <3>1
    <3>3. held[k] = reg /\ f[k] = SpillDepth
      BY <3>2
    <3>4. SpillDepth < Depth(p, reg)
      BY <1>7, <3>3
    <3>5. QED
      BY <3>4, PoolIs DEF Depth
  <2>3. FreeRegs(p) = {}
    BY <2>2 DEF FreeRegs
  <2>4. p.spill_next \in Regs
    BY DEF Pool
  <2>5. ASSUME NEW k \in SpillTurns(p) PROVE FALSE
    <3>1. k \in Regs /\ k \in Nat /\ p.spill_count[(p.spill_next + k) % RegSize] # SpillDepth
      BY RegSizeAssumption DEF SpillTurns, Regs
    <3>2. (p.spill_next + k) % RegSize \in Regs
      BY <2>4, <3>1, TurnIsARegister
    <3>3. QED
      BY <2>2, <3>1, <3>2
  <2>6. QED
    BY <2>3, <2>5 DEF PoolIsFull
<1>12. QED
  BY <1>9, <1>10, <1>11 DEF n

\* Where one name is left, its register is the only one in use, and nothing is
\* set aside.
LEMMA OneIsCounted ==
    ASSUME NEW p \in Pool, NEW held \in Seq(Regs), Counted(held, p), Len(held) = 1
    PROVE  /\ FreeRegs(p) = Regs \ {held[1]}
           /\ \A reg \in Regs : p.spill_count[reg] = 0
<1>1. PICK f : Stands(f, held, p)
  BY DEF Counted
<1>2. /\ f[1] < Depth(p, held[1]) /\ held[1] \in Regs /\ f[1] \in 0 .. SpillDepth
      /\ \A reg \in Regs : \A i \in 0 .. SpillDepth :
             i < Depth(p, reg) => held[1] = reg /\ f[1] = i
  BY <1>1, SMTT(20) DEF Stands
<1>3. ASSUME NEW reg \in Regs
      PROVE  /\ p.is_free[reg] <=> reg # held[1]
             /\ p.spill_count[reg] = 0
  <2>1. /\ p.is_free[reg] \in BOOLEAN /\ p.spill_count[reg] \in 0 .. SpillDepth
        /\ SpillDepth \in Nat /\ SpillDepth >= 1
    BY PoolIs, SpillDepthAssumption
  <2>2. p.is_free[reg] => p.spill_count[reg] = 0
    BY DEF Counted
  <2>3. CASE reg = held[1]
    <3>1. ~p.is_free[reg]
      BY <1>2, <2>3 DEF Depth
    <3>2. Depth(p, reg) = 1 + p.spill_count[reg]
      BY <3>1 DEF Depth
    <3>3. ASSUME p.spill_count[reg] > 0 PROVE FALSE
      <4>1. 0 \in 0 .. SpillDepth /\ 1 \in 0 .. SpillDepth
        BY <2>1
      <4>2. 0 < Depth(p, reg) /\ 1 < Depth(p, reg)
        BY <2>1, <3>2, <3>3
      <4>3. f[1] = 0 /\ f[1] = 1
        BY <1>2, <4>1, <4>2
      <4>4. QED
        BY <4>3
    <3>4. QED
      BY <2>1, <2>3, <3>1, <3>3
  <2>4. CASE reg # held[1]
    <3>1. ASSUME ~p.is_free[reg] PROVE FALSE
      <4>1. 0 \in 0 .. SpillDepth /\ 0 < Depth(p, reg)
        BY <2>1, <3>1 DEF Depth
      <4>2. QED
        BY <1>2, <2>4, <4>1
    <3>2. QED
      BY <2>2, <2>4, <3>1
  <2>5. QED
    BY <2>3, <2>4
<1>4. QED
  BY <1>3 DEF FreeRegs

-----------------------------------------------------------------------------
(***************************************************************************)
(* What is pending, and how many registers are held before each item of    *)
(* it.                                                                     *)
(***************************************************************************)
IsSequence(items) == \E S : items \in Seq(S)

\* How many registers are held more when the item is done.
Gain(item) == CASE item.op \in Loads \cup {"expression"} -> 1
                [] item.op \in Frees -> -1
                [] OTHER -> 0

\* How many registers are held at most while the item is done, h before it.
Peak(item, h) == CASE item.op = "expression" -> h + Standing[item.root]
                   [] item.op \in Loads -> h + 1
                   [] OTHER -> 0

\* An item there is something to do for: an expression, or a register which is
\* held.
Formed(item, h) ==
    /\ item.op \in Loads \cup Frees \cup Plain \cup {"expression", "call sequence"}
    /\ item.op = "expression" => item.root \in Expressions
    /\ item.op \in Frees => item.regs[1] \in 1 .. h

\* w is how many registers are held before each item and at the end.
Heights(items, w, from, to) ==
    /\ w \in [1 .. Len(items) + 1 -> Nat]
    /\ w[1] = from /\ w[Len(items) + 1] = to
    /\ \A k \in 1 .. Len(items) : /\ Formed(items[k], w[k])
                                  /\ w[k + 1] = w[k] + Gain(items[k])

\* There is room for each of them.
AllFit(items, w) == \A k \in 1 .. Len(items) : Peak(items[k], w[k]) <= Room

\* The items lead from so many registers to so many, and there is room for them
\* exactly when there is for this many.
Leads(items, from, to, most) ==
    /\ IsSequence(items)
    /\ \E w : Heights(items, w, from, to) /\ (AllFit(items, w) <=> most <= Room)

LEMMA NothingLeads ==
    ASSUME NEW h \in Nat
    PROVE  Leads(<<>>, h, h, 0)
<1>1. IsSequence(<<>>)
  BY DEF IsSequence
<1>2. Heights(<<>>, [k \in 1 .. 1 |-> h], h, h)
  BY DEF Heights
<1>3. AllFit(<<>>, [k \in 1 .. 1 |-> h])
  BY DEF AllFit
<1>4. QED
  BY <1>1, <1>2, <1>3, RoomIs DEF Leads

LEMMA OneLeads ==
    ASSUME NEW item, NEW h \in Nat, NEW to \in Nat,
           Formed(item, h), to = h + Gain(item)
    PROVE  Leads(<<item>>, h, to, Peak(item, h))
<1> DEFINE w == [k \in 1 .. 2 |-> IF k = 1 THEN h ELSE to]
<1>1. Len(<<item>>) = 1 /\ <<item>>[1] = item /\ IsSequence(<<item>>)
  <2>1. <<item>> \in Seq({item})
    OBVIOUS
  <2>2. QED
    BY <2>1 DEF IsSequence
<1>2. w \in [1 .. 2 -> Nat] /\ w[1] = h /\ w[2] = to
  OBVIOUS
<1> HIDE DEF w
<1>3. Heights(<<item>>, w, h, to)
  BY <1>1, <1>2 DEF Heights
<1>4. AllFit(<<item>>, w) <=> Peak(item, h) <= Room
  BY <1>1, <1>2 DEF AllFit
<1>5. QED
  BY <1>1, <1>3, <1>4 DEF Leads

LEMMA LeadsAs ==
    ASSUME NEW items, NEW from, NEW to, NEW most, Leads(items, from, to, most),
           NEW other, other <= Room <=> most <= Room
    PROVE  Leads(items, from, to, other)
BY DEF Leads

LEMMA ConcatIs ==
    ASSUME NEW S, NEW s \in Seq(S), NEW t \in Seq(S)
    PROVE  /\ s \o t \in Seq(S) /\ Len(s) \in Nat /\ Len(t) \in Nat
           /\ Len(s \o t) = Len(s) + Len(t)
           /\ \A k \in 1 .. Len(s) : (s \o t)[k] = s[k]
           /\ \A k \in Len(s) + 1 .. Len(s) + Len(t) : (s \o t)[k] = t[k - Len(s)]
OBVIOUS

LEMMA JoinIsSequence ==
    ASSUME NEW a, IsSequence(a), NEW b, IsSequence(b)
    PROVE  /\ IsSequence(a \o b) /\ Len(a) \in Nat /\ Len(b) \in Nat
           /\ Len(a \o b) = Len(a) + Len(b)
           /\ \A k \in 1 .. Len(a) : (a \o b)[k] = a[k]
           /\ \A k \in Len(a) + 1 .. Len(a) + Len(b) : (a \o b)[k] = b[k - Len(a)]
<1>1. PICK S : a \in Seq(S)
  BY DEF IsSequence
<1>2. PICK T : b \in Seq(T)
  BY DEF IsSequence
<1>3. a \in Seq(S \cup T) /\ b \in Seq(S \cup T)
  BY <1>1, <1>2
<1>4. QED
  BY <1>3, ConcatIs DEF IsSequence

\* What is done in two parts.
LEMMA JoinLeads ==
    ASSUME NEW from, NEW mid, NEW to, NEW a, NEW b, NEW one \in Int, NEW other \in Int,
           Leads(a, from, mid, one), Leads(b, mid, to, other)
    PROVE  Leads(a \o b, from, to, Larger(one, other))
<1>1. PICK u : Heights(a, u, from, mid) /\ (AllFit(a, u) <=> one <= Room)
  BY DEF Leads
<1>2. PICK v : Heights(b, v, mid, to) /\ (AllFit(b, v) <=> other <= Room)
  BY DEF Leads
<1>3. PICK m, n, items : m = Len(a) /\ n = Len(b) /\ items = a \o b
  OBVIOUS
<1>4. /\ m \in Nat /\ n \in Nat /\ IsSequence(items) /\ Len(items) = m + n
      /\ \A k \in 1 .. m : items[k] = a[k]
      /\ \A k \in m + 1 .. m + n : items[k] = b[k - m]
  BY <1>3, JoinIsSequence DEF Leads
<1>5. /\ u \in [1 .. m + 1 -> Nat] /\ u[1] = from /\ u[m + 1] = mid
      /\ \A k \in 1 .. m : Formed(a[k], u[k]) /\ u[k + 1] = u[k] + Gain(a[k])
  BY <1>1, <1>3 DEF Heights
<1>6. /\ v \in [1 .. n + 1 -> Nat] /\ v[1] = mid /\ v[n + 1] = to
      /\ \A k \in 1 .. n : Formed(b[k], v[k]) /\ v[k + 1] = v[k] + Gain(b[k])
  BY <1>2, <1>3 DEF Heights
<1> DEFINE w == [k \in 1 .. m + n + 1 |-> IF k <= m THEN u[k] ELSE v[k - m]]
<1>7. /\ w \in [1 .. m + n + 1 -> Nat]
      /\ \A k \in 1 .. m : w[k] = u[k]
      /\ \A k \in m + 1 .. m + n + 1 : w[k] = v[k - m]
  <2>1. ASSUME NEW k \in 1 .. m + n + 1
        PROVE  (IF k <= m THEN u[k] ELSE v[k - m]) \in Nat
    BY <1>4, <1>5, <1>6
  <2>2. w \in [1 .. m + n + 1 -> Nat]
    BY <2>1
  <2>3. \A k \in 1 .. m + n + 1 : w[k] = IF k <= m THEN u[k] ELSE v[k - m]
    OBVIOUS
  <2> HIDE DEF w
  <2>4. ASSUME NEW k \in 1 .. m PROVE w[k] = u[k]
    <3>1. k \in 1 .. m + n + 1 /\ k <= m
      BY <1>4
    <3>2. QED
      BY <2>3, <3>1
  <2>5. ASSUME NEW k \in m + 1 .. m + n + 1 PROVE w[k] = v[k - m]
    <3>1. k \in 1 .. m + n + 1 /\ ~(k <= m)
      BY <1>4
    <3>2. QED
      BY <2>3, <3>1
  <2>6. QED
    BY <2>2, <2>4, <2>5
<1> HIDE DEF w
<1>8. w[1] = from /\ w[m + 1] = mid /\ w[m + n + 1] = to
  <2>1. w[m + 1] = mid
    <3>1. m + 1 \in m + 1 .. m + n + 1 /\ (m + 1) - m = 1
      BY <1>4
    <3>2. QED
      BY <1>6, <1>7, <3>1
  <2>2. w[m + n + 1] = to
    <3>1. m + n + 1 \in m + 1 .. m + n + 1 /\ (m + n + 1) - m = n + 1
      BY <1>4
    <3>2. QED
      BY <1>6, <1>7, <3>1
  <2>3. CASE m = 0
    <3>1. m + 1 = 1
      BY <2>3
    <3>2. QED
      BY <1>5, <2>1, <2>2, <3>1
  <2>4. CASE m # 0
    <3>1. 1 \in 1 .. m
      BY <1>4, <2>4
    <3>2. QED
      BY <1>5, <1>7, <2>1, <2>2, <3>1
  <2>5. QED
    BY <2>1, <2>2, <2>3, <2>4
<1>9. ASSUME NEW k \in 1 .. m + n
      PROVE  /\ Formed(items[k], w[k]) /\ w[k + 1] = w[k] + Gain(items[k])
  <2>1. CASE k <= m
    <3>1. k \in 1 .. m /\ w[k] = u[k] /\ items[k] = a[k]
      BY <1>4, <1>7, <2>1
    <3>2. w[k + 1] = u[k + 1]
      <4>1. CASE k = m
        BY <1>5, <1>8, <4>1
      <4>2. CASE k # m
        <5>1. k + 1 \in 1 .. m
          BY <1>4, <2>1, <4>2
        <5>2. QED
          BY <1>7, <5>1
      <4>3. QED
        BY <4>1, <4>2
    <3>3. QED
      BY <1>5, <3>1, <3>2
  <2>2. CASE k > m
    <3>1. k - m \in 1 .. n /\ w[k] = v[k - m] /\ items[k] = b[k - m]
      BY <1>4, <1>7, <2>2
    <3>2. w[k + 1] = v[(k - m) + 1]
      BY <1>4, <1>7, <2>2
    <3>3. QED
      BY <1>6, <3>1, <3>2
  <2>3. QED
    BY <1>4, <2>1, <2>2
<1>10. Heights(items, w, from, to)
  BY <1>4, <1>7, <1>8, <1>9 DEF Heights
<1>11. AllFit(items, w) <=> AllFit(a, u) /\ AllFit(b, v)
  <2>1. ASSUME AllFit(items, w) PROVE AllFit(a, u) /\ AllFit(b, v)
    <3>1. \A k \in 1 .. m + n : Peak(items[k], w[k]) <= Room
      BY <1>4, <2>1 DEF AllFit
    <3>2. ASSUME NEW k \in 1 .. m PROVE Peak(a[k], u[k]) <= Room
      <4>1. k \in 1 .. m + n /\ items[k] = a[k] /\ w[k] = u[k]
        BY <1>4, <1>7
      <4>2. QED
        BY <3>1, <4>1
    <3>3. ASSUME NEW k \in 1 .. n PROVE Peak(b[k], v[k]) <= Room
      <4>1. /\ m + k \in 1 .. m + n /\ m + k \in m + 1 .. m + n + 1
            /\ m + k \in m + 1 .. m + n /\ (m + k) - m = k
        BY <1>4
      <4>2. items[m + k] = b[k] /\ w[m + k] = v[k]
        BY <1>4, <1>7, <4>1
      <4>3. QED
        BY <3>1, <4>1, <4>2
    <3>4. QED
      BY <1>3, <3>2, <3>3 DEF AllFit
  <2>2. ASSUME AllFit(a, u), AllFit(b, v) PROVE AllFit(items, w)
    <3>1. /\ \A k \in 1 .. m : Peak(a[k], u[k]) <= Room
          /\ \A k \in 1 .. n : Peak(b[k], v[k]) <= Room
      BY <1>3, <2>2 DEF AllFit
    <3>2. ASSUME NEW k \in 1 .. m + n PROVE Peak(items[k], w[k]) <= Room
      <4>1. CASE k <= m
        <5>1. k \in 1 .. m
          BY <1>4, <4>1
        <5>2. QED
          BY <1>4, <1>7, <3>1, <5>1
      <4>2. CASE k > m
        <5>1. k - m \in 1 .. n /\ w[k] = v[k - m] /\ items[k] = b[k - m]
          BY <1>4, <1>7, <4>2
        <5>2. QED
          BY <3>1, <5>1
      <4>3. QED
        BY <1>4, <4>1, <4>2
    <3>3. QED
      BY <1>4, <3>2 DEF AllFit
  <2>3. QED
    BY <2>1, <2>2
<1>12. Larger(one, other) <= Room <=> one <= Room /\ other <= Room
  BY RoomIs DEF Larger
<1>13. QED
  BY <1>1, <1>2, <1>3, <1>4, <1>10, <1>11, <1>12 DEF Leads

\* What is left when the first item is done.
LEMMA TailLeads ==
    ASSUME NEW items, NEW from, NEW to, NEW most, Leads(items, from, to, most), items # <<>>
    PROVE  /\ from \in Nat /\ from + Gain(Head(items)) \in Nat
           /\ Formed(Head(items), from)
           /\ \E rest \in Nat :
                 /\ Leads(Tail(items), from + Gain(Head(items)), to, rest)
                 /\ most <= Room <=> Peak(Head(items), from) <= Room /\ rest <= Room
<1>1. PICK w : Heights(items, w, from, to) /\ (AllFit(items, w) <=> most <= Room)
  BY DEF Leads
<1>2. PICK S : items \in Seq(S)
  BY DEF Leads, IsSequence
<1>3. PICK n, first, tail : n = Len(items) /\ first = Head(items) /\ tail = Tail(items)
  OBVIOUS
<1>4. /\ n \in Nat /\ n >= 1 /\ tail \in Seq(S) /\ Len(tail) = n - 1
      /\ \A k \in 1 .. n - 1 : tail[k] = items[k + 1]
      /\ first = items[1]
  BY <1>2, <1>3
<1>5. /\ w \in [1 .. n + 1 -> Nat] /\ w[1] = from /\ w[n + 1] = to
      /\ \A k \in 1 .. n : Formed(items[k], w[k]) /\ w[k + 1] = w[k] + Gain(items[k])
  BY <1>1, <1>3 DEF Heights
<1>6. from \in Nat /\ w[2] \in Nat /\ w[2] = from + Gain(first) /\ Formed(first, from)
  <2>1. 1 \in 1 .. n /\ 1 \in 1 .. n + 1 /\ 2 \in 1 .. n + 1 /\ 1 + 1 = 2
    BY <1>4
  <2>2. QED
    BY <1>4, <1>5, <2>1
<1> DEFINE v == [k \in 1 .. n |-> w[k + 1]]
<1>7. v \in [1 .. n -> Nat] /\ \A k \in 1 .. n : v[k] = w[k + 1]
  BY <1>4, <1>5
<1> HIDE DEF v
<1>8. v[1] = w[2] /\ v[n] = to
  BY <1>4, <1>5, <1>7
<1>9. ASSUME NEW k \in 1 .. n - 1
      PROVE  Formed(tail[k], v[k]) /\ v[k + 1] = v[k] + Gain(tail[k])
  <2>1. /\ k \in 1 .. n /\ k + 1 \in 1 .. n /\ tail[k] = items[k + 1]
        /\ v[k] = w[k + 1] /\ v[k + 1] = w[(k + 1) + 1]
    BY <1>4, <1>7, SMTT(20)
  <2>2. QED
    BY <1>5, <2>1
<1>10. Heights(tail, v, w[2], to)
  <2>1. (n - 1) + 1 = n
    BY <1>4
  <2>2. QED
    BY <1>4, <1>7, <1>8, <1>9, <2>1 DEF Heights
<1>11. AllFit(items, w) <=> Peak(first, from) <= Room /\ AllFit(tail, v)
  <2>1. ASSUME AllFit(items, w) PROVE Peak(first, from) <= Room /\ AllFit(tail, v)
    <3>1. \A k \in 1 .. n : Peak(items[k], w[k]) <= Room
      BY <1>3, <2>1 DEF AllFit
    <3>2. Peak(first, from) <= Room
      BY <1>4, <1>5, <3>1
    <3>3. ASSUME NEW k \in 1 .. n - 1 PROVE Peak(tail[k], v[k]) <= Room
      <4>1. k \in 1 .. n /\ k + 1 \in 1 .. n /\ tail[k] = items[k + 1] /\ v[k] = w[k + 1]
        BY <1>4, <1>7
      <4>2. QED
        BY <3>1, <4>1
    <3>4. QED
      BY <1>4, <3>2, <3>3 DEF AllFit
  <2>2. ASSUME Peak(first, from) <= Room, AllFit(tail, v) PROVE AllFit(items, w)
    <3>1. \A k \in 1 .. n - 1 : Peak(tail[k], v[k]) <= Room
      BY <1>4, <2>2 DEF AllFit
    <3>2. ASSUME NEW k \in 1 .. n PROVE Peak(items[k], w[k]) <= Room
      <4>1. CASE k = 1
        BY <1>4, <1>5, <2>2, <4>1
      <4>2. CASE k # 1
        <5>1. k - 1 \in 1 .. n - 1 /\ k - 1 \in 1 .. n /\ (k - 1) + 1 = k
          BY <1>4, <4>2
        <5>2. tail[k - 1] = items[k] /\ v[k - 1] = w[k]
          BY <1>4, <1>7, <5>1
        <5>3. QED
          BY <3>1, <5>1, <5>2
      <4>3. QED
        BY <4>1, <4>2
    <3>3. QED
      BY <1>3, <3>2 DEF AllFit
  <2>3. QED
    BY <2>1, <2>2
<1>12. PICK rest \in Nat : AllFit(tail, v) <=> rest <= Room
  <2>1. CASE AllFit(tail, v)
    BY <2>1, RoomIs
  <2>2. CASE ~AllFit(tail, v)
    <3>1. Room + 1 \in Nat /\ ~(Room + 1 <= Room)
      BY RoomIs
    <3>2. QED
      BY <2>2, <3>1
  <2>3. QED
    BY <2>1, <2>2
<1>13. Leads(tail, from + Gain(first), to, rest)
  <2>1. IsSequence(tail)
    BY <1>4 DEF IsSequence
  <2>2. QED
    BY <1>6, <1>10, <1>12, <2>1 DEF Leads
<1>14. most <= Room <=> Peak(first, from) <= Room /\ rest <= Room
  BY <1>1, <1>11, <1>12
<1>15. QED
  BY <1>3, <1>6, <1>13, <1>14

LEMMA NoneLeads ==
    ASSUME NEW from, NEW to, NEW most, Leads(<<>>, from, to, most)
    PROVE  from = to /\ most <= Room
<1>1. PICK w : Heights(<<>>, w, from, to) /\ (AllFit(<<>>, w) <=> most <= Room)
  BY DEF Leads
<1>2. AllFit(<<>>, w)
  BY DEF AllFit
<1>3. QED
  BY <1>1, <1>2 DEF Heights

LEMMA TwoJoin ==
    ASSUME NEW a, NEW b
    PROVE  <<a>> \o <<b>> = <<a, b>>
<1> DEFINE S == {a, b}
<1>1. <<a>> \in Seq(S) /\ <<b>> \in Seq(S) /\ <<a, b>> \in Seq(S)
  OBVIOUS
<1> HIDE DEF S
<1>2. /\ Len(<<a>> \o <<b>>) = Len(<<a, b>>)
      /\ <<a>> \o <<b>> \in Seq(S)
      /\ \A i \in 1 .. Len(<<a>> \o <<b>>) :
             (<<a>> \o <<b>>)[i] = <<a, b>>[i]
  BY <1>1
<1>3. QED
  BY <1>1, <1>2, SeqEqual

LEMMA ThreeJoin ==
    ASSUME NEW a, NEW b, NEW c
    PROVE  <<a>> \o <<b, c>> = <<a, b, c>>
<1> DEFINE S == {a, b, c}
<1>1. <<a>> \in Seq(S) /\ <<b, c>> \in Seq(S) /\ <<a, b, c>> \in Seq(S)
  OBVIOUS
<1> HIDE DEF S
<1>2. /\ Len(<<a>> \o <<b, c>>) = Len(<<a, b, c>>)
      /\ <<a>> \o <<b, c>> \in Seq(S)
      /\ \A i \in 1 .. Len(<<a>> \o <<b, c>>) :
             (<<a>> \o <<b, c>>)[i] = <<a, b, c>>[i]
  BY <1>1
<1>3. QED
  BY <1>1, <1>2, SeqEqual

LEMMA FourJoin ==
    ASSUME NEW a, NEW b, NEW c, NEW d
    PROVE  <<a>> \o <<b, c, d>> = <<a, b, c, d>>
<1> DEFINE S == {a, b, c, d}
<1>1. <<a>> \in Seq(S) /\ <<b, c, d>> \in Seq(S) /\ <<a, b, c, d>> \in Seq(S)
  OBVIOUS
<1> HIDE DEF S
<1>2. /\ Len(<<a>> \o <<b, c, d>>) = Len(<<a, b, c, d>>)
      /\ <<a>> \o <<b, c, d>> \in Seq(S)
      /\ \A i \in 1 .. Len(<<a>> \o <<b, c, d>>) :
             (<<a>> \o <<b, c, d>>)[i] = <<a, b, c, d>>[i]
  BY <1>1
<1>3. QED
  BY <1>1, <1>2, SeqEqual

LEMMA FiveJoin ==
    ASSUME NEW a, NEW b, NEW c, NEW d, NEW e
    PROVE  <<a>> \o <<b, c, d, e>> = <<a, b, c, d, e>>
<1> DEFINE S == {a, b, c, d, e}
<1>1. <<a>> \in Seq(S) /\ <<b, c, d, e>> \in Seq(S) /\ <<a, b, c, d, e>> \in Seq(S)
  OBVIOUS
<1> HIDE DEF S
<1>2. /\ Len(<<a>> \o <<b, c, d, e>>) = Len(<<a, b, c, d, e>>)
      /\ <<a>> \o <<b, c, d, e>> \in Seq(S)
      /\ \A i \in 1 .. Len(<<a>> \o <<b, c, d, e>>) :
             (<<a>> \o <<b, c, d, e>>)[i] = <<a, b, c, d, e>>[i]
  BY <1>1
<1>3. QED
  BY <1>1, <1>2, SeqEqual

LEMMA TwoLead ==
    ASSUME NEW h0, NEW h1, NEW h2, NEW a, NEW b, NEW m1 \in Int, NEW m2 \in Int,
           Leads(<<a>>, h0, h1, m1), Leads(<<b>>, h1, h2, m2)
    PROVE  Leads(<<a, b>>, h0, h2, Larger(m1, m2))
<1>1. Leads(<<a>> \o <<b>>, h0, h2, Larger(m1, m2))
  BY JoinLeads
<1>2. <<a>> \o <<b>> = <<a, b>>
  BY TwoJoin
<1>3. QED
  BY <1>1, <1>2

LEMMA LargerIs ==
    ASSUME NEW m \in Int, NEW n \in Int
    PROVE  /\ Larger(m, n) \in Int
           /\ \A k \in Int : Larger(m, n) <= k <=> m <= k /\ n <= k
BY DEF Larger

LEMMA ThreeLead ==
    ASSUME NEW h0, NEW h1, NEW h2, NEW h3, NEW a, NEW b, NEW c,
           NEW m1 \in Int, NEW m2 \in Int, NEW m3 \in Int,
           Leads(<<a>>, h0, h1, m1), Leads(<<b>>, h1, h2, m2), Leads(<<c>>, h2, h3, m3)
    PROVE  Leads(<<a, b, c>>, h0, h3, Larger(m1, Larger(m2, m3)))
<1>1. Leads(<<b, c>>, h1, h3, Larger(m2, m3))
  BY TwoLead
<1>2. Larger(m2, m3) \in Int
  BY LargerIs
<1>3. Leads(<<a>> \o <<b, c>>, h0, h3, Larger(m1, Larger(m2, m3)))
  BY <1>1, <1>2, JoinLeads
<1>4. <<a>> \o <<b, c>> = <<a, b, c>>
  BY ThreeJoin
<1>5. QED
  BY <1>3, <1>4

LEMMA FourLead ==
    ASSUME NEW h0, NEW h1, NEW h2, NEW h3, NEW h4, NEW a, NEW b, NEW c, NEW d,
           NEW m1 \in Int, NEW m2 \in Int, NEW m3 \in Int, NEW m4 \in Int,
           Leads(<<a>>, h0, h1, m1), Leads(<<b>>, h1, h2, m2), Leads(<<c>>, h2, h3, m3),
           Leads(<<d>>, h3, h4, m4)
    PROVE  Leads(<<a, b, c, d>>, h0, h4, Larger(m1, Larger(m2, Larger(m3, m4))))
<1>1. Leads(<<b, c, d>>, h1, h4, Larger(m2, Larger(m3, m4)))
  BY ThreeLead
<1>2. Larger(m3, m4) \in Int /\ Larger(m2, Larger(m3, m4)) \in Int
  BY LargerIs
<1>3. Leads(<<a>> \o <<b, c, d>>, h0, h4, Larger(m1, Larger(m2, Larger(m3, m4))))
  BY <1>1, <1>2, JoinLeads
<1>4. <<a>> \o <<b, c, d>> = <<a, b, c, d>>
  BY FourJoin
<1>5. QED
  BY <1>3, <1>4

LEMMA FiveLead ==
    ASSUME NEW h0, NEW h1, NEW h2, NEW h3, NEW h4, NEW h5,
           NEW a, NEW b, NEW c, NEW d, NEW e,
           NEW m1 \in Int, NEW m2 \in Int, NEW m3 \in Int, NEW m4 \in Int, NEW m5 \in Int,
           Leads(<<a>>, h0, h1, m1), Leads(<<b>>, h1, h2, m2), Leads(<<c>>, h2, h3, m3),
           Leads(<<d>>, h3, h4, m4), Leads(<<e>>, h4, h5, m5)
    PROVE  Leads(<<a, b, c, d, e>>, h0, h5,
                 Larger(m1, Larger(m2, Larger(m3, Larger(m4, m5)))))
<1>1. Leads(<<b, c, d, e>>, h1, h5, Larger(m2, Larger(m3, Larger(m4, m5))))
  BY FourLead
<1>2. /\ Larger(m4, m5) \in Int /\ Larger(m3, Larger(m4, m5)) \in Int
      /\ Larger(m2, Larger(m3, Larger(m4, m5))) \in Int
  BY LargerIs
<1>3. Leads(<<a>> \o <<b, c, d, e>>, h0, h5, Larger(m1, Larger(m2, Larger(m3, Larger(m4, m5)))))
  BY <1>1, <1>2, JoinLeads
<1>4. <<a>> \o <<b, c, d, e>> = <<a, b, c, d, e>>
  BY FiveJoin
<1>5. QED
  BY <1>3, <1>4

-----------------------------------------------------------------------------
LEMMA StandingIs ==
    ASSUME NEW root \in Expressions
    PROVE  Standing[root] \in Nat /\ Standing[root] >= 1
BY StandingAssumption

LEMMA WalkLeads ==
    ASSUME NEW root \in Expressions, NEW h \in Nat
    PROVE  Leads(<<Walk(root)>>, h, h + 1, h + Standing[root])
<1>1. PICK item : item = Walk(root)
  OBVIOUS
<1>2. item.op = "expression" /\ item.root = root
  BY <1>1 DEF Walk
<1>3. Formed(item, h) /\ Gain(item) = 1 /\ Peak(item, h) = h + Standing[root]
  BY <1>2 DEF Formed, Gain, Peak, Frees, Loads
<1>4. QED
  BY <1>1, <1>3, OneLeads

LEMMA LoadLeads ==
    ASSUME NEW item, item.op \in Loads, NEW h \in Nat
    PROVE  Leads(<<item>>, h, h + 1, h + 1)
<1>1. Formed(item, h) /\ Gain(item) = 1 /\ Peak(item, h) = h + 1
  BY DEF Formed, Gain, Peak, Frees, Loads
<1>2. QED
  BY <1>1, OneLeads

LEMMA FreeLeads ==
    ASSUME NEW item, item.op \in Frees, NEW h \in Nat, item.regs[1] \in 1 .. h
    PROVE  h - 1 \in Nat /\ Leads(<<item>>, h, h - 1, 0)
<1>1. Formed(item, h) /\ Gain(item) = -1 /\ Peak(item, h) = 0
  BY DEF Formed, Gain, Peak, Frees, Loads
<1>2. QED
  BY <1>1, OneLeads

\* What asks for no register and frees none.
Written == Plain \cup {"call sequence"}

LEMMA PlainLeads ==
    ASSUME NEW item, item.op \in Written, NEW h \in Nat
    PROVE  Leads(<<item>>, h, h, 0)
<1>1. Formed(item, h) /\ Gain(item) = 0 /\ Peak(item, h) = 0
  BY DEF Formed, Gain, Peak, Frees, Loads, Plain, Jumps, Written
<1>2. h = h + Gain(item)
  BY <1>1
<1>3. QED
  BY <1>1, <1>2, OneLeads

\* The items the functions of the walk put down.
LEMMA LoadsAre ==
    ASSUME NEW value
    PROVE  /\ Alloc.op \in Loads /\ AllocAfterJump.op \in Loads /\ Fetch.op \in Loads
           /\ LoadInt(value).op \in Loads /\ LoadSymbol(value).op \in Loads
           /\ AddressOf(value).op \in Loads /\ LoadDeref(value).op \in Loads
BY DEF Alloc, AllocAfterJump, Fetch, LoadInt, LoadSymbol, AddressOf, LoadDeref, Loads

LEMMA FreesAre ==
    ASSUME NEW n
    PROVE  /\ Free(n).op \in Frees /\ Free(n).regs[1] = n
           /\ FreeAfterJump(n).op \in Frees /\ FreeAfterJump(n).regs[1] = n
BY DEF Free, FreeAfterJump, Frees

LEMMA PlainAre ==
    ASSUME NEW a, NEW b
    PROVE  /\ Move(a, b).op \in Written /\ ToBool.op \in Written /\ StoreDeref(a, b).op \in Written
           /\ PushArgument.op \in Written /\ EmitLabel(a).op \in Written /\ EmitJump(a).op \in Written
           /\ JumpIfZero(a).op \in Written /\ JumpIfNonZero(a).op \in Written
           /\ JumpIfNotLess(a).op \in Written /\ JumpIfSettled(a, b).op \in Written
           /\ Call(a, b).op \in Written
BY DEF Move, ToBool, StoreDeref, PushArgument, EmitLabel, EmitJump, JumpIfZero, JumpIfNonZero,
       JumpIfNotLess, JumpIfSettled, Call, Plain, Jumps, Written

LEMMA InPlaceLeads ==
    ASSUME NEW op \in {"sub", "less", "add"}, NEW a, NEW h \in Nat, NEW b \in 1 .. h
    PROVE  h - 1 \in Nat /\ Leads(InPlace(op, a, b), h, h - 1, 0)
<1>1. PICK x, y : x = [op |-> op, regs |-> <<a, b>>] /\ y = Free(b)
  OBVIOUS
<1>2. x.op \in Written /\ y.op \in Frees /\ y.regs[1] = b
  BY <1>1, FreesAre DEF Plain, Written
<1>3. h - 1 \in Nat /\ Leads(<<x>>, h, h, 0) /\ Leads(<<y>>, h, h - 1, 0)
  BY <1>2, PlainLeads, FreeLeads
<1>4. InPlace(op, a, b) = <<x, y>>
  BY <1>1 DEF InPlace
<1>5. Larger(0, 0) = 0
  BY DEF Larger
<1>6. QED
  BY <1>3, <1>4, <1>5, TwoLead

LEMMA SettleLeads ==
    ASSUME NEW item, NEW h \in Nat, NEW most \in Int, Leads(<<item>>, h + 1, h + 2, most)
    PROVE  Leads(Settle(item), h + 1, h + 1, most)
<1>1. PICK x, y : x = Move(2, 1) /\ y = Free(1)
  OBVIOUS
<1>2. Leads(<<x>>, h + 2, h + 2, 0)
  <2>1. h + 2 \in Nat
    OBVIOUS
  <2>2. x.op \in Written
    BY <1>1, PlainAre
  <2>3. QED
    BY <2>1, <2>2, PlainLeads
<1>3. Leads(<<y>>, h + 2, h + 1, 0)
  <2>1. /\ y.op \in Frees /\ y.regs[1] = 1 /\ 1 \in 1 .. h + 2 /\ h + 2 \in Nat
        /\ (h + 2) - 1 = h + 1
    BY <1>1, FreesAre
  <2>2. QED
    BY <2>1, FreeLeads
<1>4. Leads(<<item, x, y>>, h + 1, h + 1, Larger(most, Larger(0, 0)))
  BY <1>2, <1>3, ThreeLead
<1>5. Larger(most, Larger(0, 0)) <= Room <=> most <= Room
  BY RoomIs DEF Larger
<1>6. Settle(item) = <<item, x, y>>
  BY <1>1 DEF Settle
<1>7. QED
  BY <1>4, <1>5, <1>6, LeadsAs

LEMMA SideLeads ==
    ASSUME NEW side \in Expressions, NEW jump, jump.op \in Written, NEW h \in Nat
    PROVE  Leads(GenSide(side, jump), h, h, h + Standing[side])
<1>1. PICK x, y : x = Walk(side) /\ y = FreeAfterJump(1)
  OBVIOUS
<1>2. h + 1 \in Nat /\ Standing[side] \in Nat
  BY StandingIs
<1>3. Leads(<<x>>, h, h + 1, h + Standing[side])
  BY <1>1, WalkLeads
<1>4. Leads(<<jump>>, h + 1, h + 1, 0)
  BY <1>2, PlainLeads
<1>5. Leads(<<y>>, h + 1, h, 0)
  <2>1. /\ y.op \in Frees /\ y.regs[1] = 1 /\ 1 \in 1 .. h + 1 /\ (h + 1) - 1 = h
    BY <1>1, FreesAre
  <2>2. QED
    BY <1>2, <2>1, FreeLeads
<1>6. Leads(<<x, jump, y>>, h, h, Larger(h + Standing[side], Larger(0, 0)))
  BY <1>2, <1>3, <1>4, <1>5, ThreeLead
<1>7. Larger(h + Standing[side], Larger(0, 0)) <= Room <=> h + Standing[side] <= Room
  BY <1>2, RoomIs DEF Larger
<1>8. GenSide(side, jump) = <<x, jump, y>>
  BY <1>1 DEF GenSide
<1>9. QED
  BY <1>6, <1>7, <1>8, LeadsAs

-----------------------------------------------------------------------------
(***************************************************************************)
(* What each function of the walk puts down leads to one register more, by *)
(* way of as many as stand at once.                                        *)
(***************************************************************************)
LEMMA LargestIs ==
    ASSUME NEW S \in SUBSET Nat, NEW x \in S, NEW bound \in Nat, \A y \in S : y <= bound
    PROVE  Largest(S) \in S /\ \A y \in S : y <= Largest(S)
<1> DEFINE T == {b \in Nat : \A y \in S : y <= b}
<1>1. bound \in T /\ T \in SUBSET Nat
  OBVIOUS
<1>2. PICK b \in T : \A c \in T : ~ (<<c, b>> \in OpToRel(<, Nat))
  BY <1>1, WFMin, NatLessThanWellFounded
<1>3. b \in Nat /\ \A y \in S : y \in Nat /\ y <= b
  BY <1>2
<1>4. ASSUME b \notin S PROVE FALSE
  <2>1. \A y \in S : y <= b - 1
    BY <1>3, <1>4
  <2>2. b - 1 \in Nat /\ b - 1 < b
    BY <1>3, <2>1
  <2>3. b - 1 \in T
    BY <2>1, <2>2
  <2>4. QED
    BY <1>2, <2>2, <2>3 DEF OpToRel
<1>5. \E n \in S : \A other \in S : other <= n
  BY <1>3, <1>4
<1>6. QED
  BY <1>5 DEF Largest

\* The three items of each argument.
LEMMA ThreesAre ==
    ASSUME NEW n \in Nat, NEW k \in 1 .. 3 * n
    PROVE  LET j == (k - 1) \div 3
           IN  /\ j \in 0 .. n - 1
               /\ \/ k % 3 = 1 /\ (k + 1) % 3 = 2 /\ k \div 3 = j
                  \/ k % 3 = 2 /\ (k + 1) % 3 = 0
                  \/ k % 3 = 0 /\ (k + 1) % 3 = 1
OBVIOUS

LEMMA FirstOfThree ==
    ASSUME NEW n \in Nat, NEW j \in 0 .. n - 1
    PROVE  3 * j + 1 \in 1 .. 3 * n /\ (3 * j + 1) % 3 = 1 /\ (3 * j + 1) \div 3 = j
OBVIOUS

LEMMA EndOfThrees ==
    ASSUME NEW n \in Nat
    PROVE  3 * n \in Nat /\ (3 * n + 1) % 3 = 1 /\ 1 % 3 = 1
OBVIOUS

\* What is written as a function of 1 .. n is a sequence.
LEMMA RunIs ==
    ASSUME NEW n \in Nat, NEW items, items = [k \in 1 .. n |-> items[k]]
    PROVE  IsSequence(items) /\ Len(items) = n
<1>1. PICK S : S = {items[k] : k \in 1 .. n}
  OBVIOUS
<1>2. \A k \in 1 .. n : items[k] \in S
  BY <1>1
<1>3. items \in [1 .. n -> S]
  BY <1>2
<1>4. \E k \in Nat : items \in [1 .. k -> S]
  BY <1>3
<1>5. items \in Seq(S)
  BY <1>4, SeqDef, Zenon
<1>6. QED
  BY <1>3, <1>5 DEF IsSequence

LEMMA ArgumentsLead ==
    ASSUME NEW args \in Seq(Expressions), NEW h \in Nat, NEW most \in Int,
           most <= Room <=> \A k \in 1 .. Len(args) : h + Standing[args[k]] <= Room
    PROVE  Leads(GenArguments(args), h, h, most)
<1>1. PICK n, items : n = Len(args) /\ items = GenArguments(args)
  OBVIOUS
<1>2. n \in Nat /\ \A k \in 1 .. n : args[k] \in Expressions
  BY <1>1
<1>3. 3 * n \in Nat /\ (3 * n + 1) % 3 = 1 /\ 1 % 3 = 1
  BY <1>2, EndOfThrees
<1>4. items = [k \in 1 .. 3 * n |->
                  CASE k % 3 = 1 -> Walk(args[n - k \div 3])
                    [] k % 3 = 2 -> PushArgument
                    [] k % 3 = 0 -> Free(1)]
  BY <1>1 DEF GenArguments
<1>5. ASSUME NEW k \in 1 .. 3 * n
      PROVE  /\ k % 3 = 1 => /\ (k + 1) % 3 = 2 /\ n - k \div 3 \in 1 .. n
                             /\ items[k] = Walk(args[n - k \div 3])
             /\ k % 3 = 2 => (k + 1) % 3 = 0 /\ items[k] = PushArgument
             /\ k % 3 = 0 => (k + 1) % 3 = 1 /\ items[k] = Free(1)
             /\ k % 3 \in {0, 1, 2}
  <2>1. PICK j : j = (k - 1) \div 3
    OBVIOUS
  <2>2. /\ j \in 0 .. n - 1
        /\ \/ k % 3 = 1 /\ (k + 1) % 3 = 2 /\ k \div 3 = j
           \/ k % 3 = 2 /\ (k + 1) % 3 = 0
           \/ k % 3 = 0 /\ (k + 1) % 3 = 1
    BY <1>2, <2>1, ThreesAre
  <2>3. items[k] = CASE k % 3 = 1 -> Walk(args[n - k \div 3])
                     [] k % 3 = 2 -> PushArgument
                     [] k % 3 = 0 -> Free(1)
    BY <1>4
  <2>4. n - j \in 1 .. n
    BY <1>2, <2>2
  <2>5. QED
    BY <2>2, <2>3, <2>4
<1> DEFINE w == [k \in 1 .. 3 * n + 1 |-> IF k % 3 = 1 THEN h ELSE h + 1]
<1>6. /\ w \in [1 .. 3 * n + 1 -> Nat]
      /\ \A k \in 1 .. 3 * n + 1 : w[k] = IF k % 3 = 1 THEN h ELSE h + 1
  OBVIOUS
<1> HIDE DEF w
<1>7. /\ IsSequence(items) /\ Len(items) = 3 * n
  <2>1. PICK m : m = 3 * n
    OBVIOUS
  <2>2. items = [k \in 1 .. m |-> items[k]]
    BY <1>4, <2>1
  <2>3. QED
    BY <1>3, <2>1, <2>2, RunIs
<1>8. ASSUME NEW k \in 1 .. 3 * n
      PROVE  /\ Formed(items[k], w[k]) /\ w[k + 1] = w[k] + Gain(items[k])
             /\ Peak(items[k], w[k]) =
                    IF k % 3 = 1 THEN h + Standing[args[n - k \div 3]] ELSE 0
  <2>1. /\ w[k] = IF k % 3 = 1 THEN h ELSE h + 1
        /\ w[k + 1] = IF (k + 1) % 3 = 1 THEN h ELSE h + 1
    BY <1>3, <1>6
  <2>2. CASE k % 3 = 1
    <3>1. PICK root \in Expressions : root = args[n - k \div 3]
      BY <1>2, <1>5, <2>2
    <3>2. w[k] = h /\ w[k + 1] = h + 1 /\ items[k] = Walk(root)
      BY <1>5, <2>1, <2>2, <3>1
    <3>3. PICK item : item = Walk(root)
      OBVIOUS
    <3>4. item.op = "expression" /\ item.root = root
      BY <3>3 DEF Walk
    <3>5. Formed(item, h) /\ Gain(item) = 1 /\ Peak(item, h) = h + Standing[root]
      BY <3>4 DEF Formed, Gain, Peak, Frees, Loads
    <3>6. QED
      BY <2>2, <3>1, <3>2, <3>3, <3>5
  <2>3. CASE k % 3 = 2
    <3>1. w[k] = h + 1 /\ w[k + 1] = h + 1 /\ items[k] = PushArgument
      BY <1>5, <2>1, <2>3
    <3>2. PICK item : item = PushArgument
      OBVIOUS
    <3>3. item.op = "push argument"
      BY <3>2 DEF PushArgument
    <3>4. Formed(item, h + 1) /\ Gain(item) = 0 /\ Peak(item, h + 1) = 0
      BY <3>3 DEF Formed, Gain, Peak, Frees, Loads, Plain
    <3>5. (h + 1) + 0 = h + 1
      OBVIOUS
    <3>6. QED
      BY <2>3, <3>1, <3>2, <3>4, <3>5
  <2>4. CASE k % 3 = 0
    <3>1. w[k] = h + 1 /\ w[k + 1] = h /\ items[k] = Free(1)
      BY <1>5, <2>1, <2>4
    <3>2. PICK item : item = Free(1)
      OBVIOUS
    <3>3. item.op \in Frees /\ item.regs[1] \in 1 .. h + 1
      BY <3>2, FreesAre
    <3>4. Formed(item, h + 1) /\ Gain(item) = -1 /\ Peak(item, h + 1) = 0
      BY <3>3 DEF Formed, Gain, Peak, Frees, Loads
    <3>5. (h + 1) + (-1) = h
      OBVIOUS
    <3>6. QED
      BY <2>4, <3>1, <3>2, <3>4, <3>5
  <2>5. QED
    BY <1>5, <2>2, <2>3, <2>4
<1>9. Heights(items, w, h, h)
  <2>1. w[1] = h /\ w[3 * n + 1] = h
    BY <1>3, <1>6
  <2>2. QED
    BY <1>6, <1>7, <1>8, <2>1 DEF Heights
<1>10. AllFit(items, w) <=> most <= Room
  <2>1. ASSUME AllFit(items, w), NEW k \in 1 .. n PROVE h + Standing[args[k]] <= Room
    <3>1. PICK j \in 0 .. n - 1 : j = n - k
      BY <1>2
    <3>2. PICK i : i = 3 * j + 1
      OBVIOUS
    <3>3. i \in 1 .. 3 * n /\ i % 3 = 1 /\ i \div 3 = j /\ n - j = k
      BY <1>2, <3>1, <3>2, FirstOfThree
    <3>4. Peak(items[i], w[i]) <= Room
      BY <1>7, <2>1, <3>3 DEF AllFit
    <3>5. QED
      BY <1>8, <3>3, <3>4
  <2>2. ASSUME \A k \in 1 .. n : h + Standing[args[k]] <= Room,
               NEW k \in 1 .. 3 * n
        PROVE  Peak(items[k], w[k]) <= Room
    <3>1. CASE k % 3 = 1
      BY <1>5, <1>8, <2>2, <3>1
    <3>2. CASE k % 3 # 1
      BY <1>8, <3>2, RoomIs
    <3>3. QED
      BY <3>1, <3>2
  <2>3. QED
    BY <1>1, <1>7, <2>1, <2>2 DEF AllFit
<1>11. QED
  BY <1>1, <1>7, <1>9, <1>10 DEF Leads

LEMMA CallStands ==
    ASSUME NEW root \in Expressions, root.kind = "call"
    PROVE  /\ root.args \in Seq(Expressions)
           /\ \A h \in Nat : h + Standing[root] <= Room <=>
                  /\ h + 1 <= Room
                  /\ \A k \in 1 .. Len(root.args) : h + Standing[root.args[k]] <= Room
<1>1. PICK args, n : args = root.args /\ n = Len(args)
  OBVIOUS
<1>2. args \in Seq(Expressions) /\ n \in Nat /\ n <= 6
  BY <1>1, ExpressionsAssumption DEF AreExpressions, IsExpression, MaxArguments
<1>3. \A k \in 1 .. n : args[k] \in Expressions
  BY <1>1, <1>2
<1>4. \A k \in 1 .. n : Standing[args[k]] \in Nat
  BY <1>3, StandingIs
<1> DEFINE S == {1} \cup {Standing[args[k]] : k \in 1 .. n}
           s(k) == IF k \in 1 .. n THEN Standing[args[k]] ELSE 0
           bound == 1 + s(1) + s(2) + s(3) + s(4) + s(5) + s(6)
<1>5. s(1) \in Nat /\ s(2) \in Nat /\ s(3) \in Nat /\ s(4) \in Nat /\ s(5) \in Nat /\ s(6) \in Nat
  BY <1>4
<1>6. ASSUME NEW k \in 1 .. n PROVE Standing[args[k]] <= bound
  <2>1. k \in {1, 2, 3, 4, 5, 6}
    BY <1>2
  <2>2. s(k) <= bound
    <3> HIDE DEF s
    <3>1. QED
      BY <1>5, <2>1
  <2>3. QED
    BY <2>2
<1>7. bound \in Nat /\ 1 <= bound
  <2> HIDE DEF s
  <2>1. QED
    BY <1>5
<1> HIDE DEF s, bound
<1>8. 1 \in S /\ S \in SUBSET Nat /\ \A y \in S : y <= bound
  BY <1>4, <1>6, <1>7
<1>9. Largest(S) \in S /\ \A y \in S : y <= Largest(S)
  <2> HIDE DEF S
  <2>1. QED
    BY <1>7, <1>8, LargestIs
<1>10. Standing[root] = Largest(S)
  <2>1. DOMAIN args = 1 .. n
    BY <1>1, <1>2
  <2>2. StandingIn(Standing, root) =
            Largest({1} \cup {Standing[args[k]] : k \in DOMAIN args})
    BY <1>1 DEF StandingIn
  <2>3. QED
    BY <2>1, <2>2, StandingAssumption
<1>11. PICK top : top = Largest(S)
  OBVIOUS
<1>12. /\ top \in Nat /\ 1 <= top /\ \A k \in 1 .. n : Standing[args[k]] <= top
       /\ top = 1 \/ \E k \in 1 .. n : top = Standing[args[k]]
  <2>1. top \in S /\ \A y \in S : y <= top
    BY <1>9, <1>11
  <2>2. QED
    BY <1>8, <2>1
<1>13. \A h \in Nat : h + top <= Room <=>
           h + 1 <= Room /\ \A k \in 1 .. n : h + Standing[args[k]] <= Room
  BY <1>4, <1>12, RoomIs
<1>14. QED
  BY <1>1, <1>2, <1>10, <1>11, <1>13

LEMMA PartsAre ==
    ASSUME NEW root \in Expressions
    PROVE  /\ root.kind \in NodeKinds
           /\ root.kind \in {"sub", "less", "and", "or"} =>
                  root.left \in Expressions /\ root.right \in Expressions
           /\ root.kind = "ternary" =>
                  /\ root.left \in Expressions /\ root.mid \in Expressions
                  /\ root.right \in Expressions
           /\ root.kind \in {"assign", "addto"} => root.value \in Expressions
BY ExpressionsAssumption DEF AreExpressions, IsExpression

LEMMA NameLeads ==
    ASSUME NEW root \in Expressions, root.kind = "name", NEW h \in Nat
    PROVE  Leads(<<LoadSymbol(root.cell)>>, h, h + 1, h + Standing[root])
<1>1. Standing[root] = 1
  BY StandingAssumption DEF StandingIn
<1>2. LoadSymbol(root.cell).op \in Loads
  BY LoadsAre
<1>3. QED
  BY <1>1, <1>2, LoadLeads

LEMMA OperandsLead ==
    ASSUME NEW root \in Expressions, root.kind \in {"sub", "less"}, NEW h \in Nat
    PROVE  Leads(<<Walk(root.left), Walk(root.right)>> \o InPlace(root.kind, 2, 1),
                 h, h + 1, h + Standing[root])
<1>1. PICK left, right : left = root.left /\ right = root.right
  OBVIOUS
<1>2. left \in Expressions /\ right \in Expressions
  BY <1>1, PartsAre
<1>3. Standing[left] \in Nat /\ Standing[right] \in Nat /\ h + 1 \in Nat /\ h + 2 \in Nat
  BY <1>2, StandingIs
<1>4. Leads(<<Walk(left)>>, h, h + 1, h + Standing[left])
  BY <1>2, WalkLeads
<1>5. Leads(<<Walk(right)>>, h + 1, h + 2, h + 1 + Standing[right])
  <2>1. Leads(<<Walk(right)>>, h + 1, (h + 1) + 1, (h + 1) + Standing[right])
    BY <1>2, <1>3, WalkLeads
  <2>2. (h + 1) + 1 = h + 2
    OBVIOUS
  <2>3. QED
    BY <2>1, <2>2
<1>6. Leads(InPlace(root.kind, 2, 1), h + 2, h + 1, 0)
  <2>1. 1 \in 1 .. h + 2 /\ (h + 2) - 1 = h + 1 /\ root.kind \in {"sub", "less", "add"}
    OBVIOUS
  <2>2. QED
    BY <1>3, <2>1, InPlaceLeads
<1>7. PICK m, n : m = h + Standing[left] /\ n = h + 1 + Standing[right]
  OBVIOUS
<1>8. m \in Int /\ n \in Int /\ Larger(m, n) \in Int
  BY <1>3, <1>7 DEF Larger
<1>9. Leads(<<Walk(left), Walk(right)>>, h, h + 2, Larger(m, n))
  BY <1>4, <1>5, <1>7, <1>8, TwoLead
<1>10. Leads(<<Walk(left), Walk(right)>> \o InPlace(root.kind, 2, 1), h, h + 1,
             Larger(Larger(m, n), 0))
  BY <1>6, <1>8, <1>9, JoinLeads
<1>11. Standing[root] = Larger(Standing[left], 1 + Standing[right])
  BY <1>1, StandingAssumption DEF StandingIn
<1>12. h + Standing[root] <= Room <=> Larger(Larger(m, n), 0) <= Room
  BY <1>3, <1>7, <1>11, RoomIs DEF Larger
<1>13. QED
  BY <1>1, <1>10, <1>12, LeadsAs

LEMMA AssignLeads ==
    ASSUME NEW root \in Expressions, root.kind = "assign", NEW h \in Nat
    PROVE  Leads(<<Walk(root.value), AddressOf(root.cell), StoreDeref(2, 1), Free(1)>>,
                 h, h + 1, h + Standing[root])
<1>1. PICK value, a, b, c : /\ value = root.value /\ a = AddressOf(root.cell)
                            /\ b = StoreDeref(2, 1) /\ c = Free(1)
  OBVIOUS
<1>2. value \in Expressions
  BY <1>1, PartsAre
<1>3. Standing[value] \in Nat /\ h + 1 \in Nat /\ h + 2 \in Nat
  BY <1>2, StandingIs
<1>4. /\ a.op \in Loads /\ b.op \in Written
      /\ c.op \in Frees /\ c.regs[1] = 1
  BY <1>1, LoadsAre, PlainAre, FreesAre
<1>5. Leads(<<Walk(value)>>, h, h + 1, h + Standing[value])
  BY <1>2, WalkLeads
<1>6. Leads(<<a>>, h + 1, h + 2, h + 2)
  <2>1. (h + 1) + 1 = h + 2
    OBVIOUS
  <2>2. QED
    BY <1>3, <1>4, <2>1, LoadLeads
<1>7. Leads(<<b>>, h + 2, h + 2, 0)
  BY <1>3, <1>4, PlainLeads
<1>8. Leads(<<c>>, h + 2, h + 1, 0)
  <2>1. 1 \in 1 .. h + 2 /\ (h + 2) - 1 = h + 1
    OBVIOUS
  <2>2. QED
    BY <1>3, <1>4, <2>1, FreeLeads
<1>9. PICK m : m = h + Standing[value]
  OBVIOUS
<1>10. m \in Int
  BY <1>3, <1>9
<1>11. Leads(<<Walk(value), a, b, c>>, h, h + 1, Larger(m, Larger(h + 2, Larger(0, 0))))
  BY <1>3, <1>5, <1>6, <1>7, <1>8, <1>9, <1>10, FourLead
<1>12. Standing[root] = Larger(Standing[value], 2)
  BY <1>1, StandingAssumption DEF StandingIn
<1>13. h + Standing[root] <= Room <=> Larger(m, Larger(h + 2, Larger(0, 0))) <= Room
  BY <1>3, <1>9, <1>12, RoomIs DEF Larger
<1>14. QED
  BY <1>1, <1>11, <1>13, LeadsAs

LEMMA AssignOpLeads ==
    ASSUME NEW root \in Expressions, root.kind = "addto", NEW h \in Nat
    PROVE  Leads(<<Walk(root.value), AddressOf(root.cell), LoadDeref(1)>>
                     \o InPlace("add", 1, 3) \o <<StoreDeref(1, 2), Free(2)>>,
                 h, h + 1, h + Standing[root])
<1>1. PICK value, a, b, c, d : /\ value = root.value /\ a = AddressOf(root.cell)
                               /\ b = LoadDeref(1) /\ c = StoreDeref(1, 2) /\ d = Free(2)
  OBVIOUS
<1>2. value \in Expressions
  BY <1>1, PartsAre
<1>3. Standing[value] \in Nat /\ h + 1 \in Nat /\ h + 2 \in Nat /\ h + 3 \in Nat
  BY <1>2, StandingIs
<1>4. a.op \in Loads /\ b.op \in Loads
  BY <1>1, LoadsAre
<1>5. c.op \in Written
  BY <1>1, PlainAre
<1>6. d.op \in Frees /\ d.regs[1] = 2
  BY <1>1, FreesAre
<1>7. Leads(<<Walk(value)>>, h, h + 1, h + Standing[value])
  BY <1>2, WalkLeads
<1>8. Leads(<<a>>, h + 1, h + 2, h + 2)
  <2>1. (h + 1) + 1 = h + 2
    OBVIOUS
  <2>2. QED
    BY <1>3, <1>4, <2>1, LoadLeads
<1>9. Leads(<<b>>, h + 2, h + 3, h + 3)
  <2>1. (h + 2) + 1 = h + 3
    OBVIOUS
  <2>2. QED
    BY <1>3, <1>4, <2>1, LoadLeads
<1>10. Leads(InPlace("add", 1, 3), h + 3, h + 2, 0)
  <2>1. 3 \in 1 .. h + 3 /\ (h + 3) - 1 = h + 2
    OBVIOUS
  <2>2. QED
    BY <1>3, <2>1, InPlaceLeads
<1>11. Leads(<<c>>, h + 2, h + 2, 0)
  BY <1>3, <1>5, PlainLeads
<1>12. Leads(<<d>>, h + 2, h + 1, 0)
  <2>1. 2 \in 1 .. h + 2 /\ (h + 2) - 1 = h + 1
    OBVIOUS
  <2>2. QED
    BY <1>3, <1>6, <2>1, FreeLeads
<1>13. PICK m, n : m = h + Standing[value] /\ n = Larger(m, Larger(h + 2, h + 3))
  OBVIOUS
<1>14. m \in Int /\ n \in Int /\ Larger(n, 0) \in Int
  BY <1>3, <1>13 DEF Larger
<1>15. Leads(<<Walk(value), a, b>>, h, h + 3, n)
  BY <1>3, <1>7, <1>8, <1>9, <1>13, <1>14, ThreeLead
<1>16. Leads(<<Walk(value), a, b>> \o InPlace("add", 1, 3), h, h + 2, Larger(n, 0))
  BY <1>10, <1>14, <1>15, JoinLeads
<1>17. Leads(<<c, d>>, h + 2, h + 1, Larger(0, 0))
  BY <1>11, <1>12, TwoLead
<1>18. Leads(<<Walk(value), a, b>> \o InPlace("add", 1, 3) \o <<c, d>>, h, h + 1,
             Larger(Larger(n, 0), Larger(0, 0)))
  <2>1. Larger(0, 0) \in Int
    BY DEF Larger
  <2>2. QED
    BY <1>14, <1>16, <1>17, <2>1, JoinLeads
<1>19. Standing[root] = Larger(Standing[value], 3)
  BY <1>1, StandingAssumption DEF StandingIn
<1>20. h + Standing[root] <= Room <=> Larger(Larger(n, 0), Larger(0, 0)) <= Room
  BY <1>3, <1>13, <1>19, RoomIs DEF Larger
<1>21. QED
  BY <1>1, <1>18, <1>20, LeadsAs

LEMMA IncDecLeads ==
    ASSUME NEW root \in Expressions, root.kind = "postinc", NEW h \in Nat
    PROVE  Leads(StepPlace(root) \o <<Free(2)>>, h, h + 1, h + Standing[root])
<1>1. PICK a, b, c, d, e, f, g, k :
          /\ a = AddressOf(root.cell) /\ b = LoadDeref(1) /\ c = Alloc
          /\ d = Move(1, 2) /\ e = LoadInt(1)
          /\ f = StoreDeref(2, 3) /\ g = Free(3) /\ k = Free(2)
  OBVIOUS
<1>2. h + 1 \in Nat /\ h + 2 \in Nat /\ h + 3 \in Nat /\ h + 4 \in Nat
  OBVIOUS
<1>3. a.op \in Loads /\ b.op \in Loads /\ c.op \in Loads /\ e.op \in Loads
  BY <1>1, LoadsAre
<1>4. d.op \in Written /\ f.op \in Written
  BY <1>1, PlainAre
<1>5. g.op \in Frees /\ g.regs[1] = 3 /\ k.op \in Frees /\ k.regs[1] = 2
  BY <1>1, FreesAre
<1>6. /\ (h + 1) + 1 = h + 2 /\ (h + 2) + 1 = h + 3 /\ (h + 3) + 1 = h + 4
      /\ (h + 4) - 1 = h + 3 /\ (h + 3) - 1 = h + 2 /\ (h + 2) - 1 = h + 1
      /\ 1 \in 1 .. h + 4 /\ 3 \in 1 .. h + 3 /\ 2 \in 1 .. h + 2
  OBVIOUS
<1>7. /\ Leads(<<a>>, h, h + 1, h + 1)
  BY <1>3, LoadLeads
<1>8. Leads(<<b>>, h + 1, h + 2, h + 2)
  BY <1>2, <1>3, <1>6, LoadLeads
<1>9. Leads(<<c>>, h + 2, h + 3, h + 3)
  BY <1>2, <1>3, <1>6, LoadLeads
<1>10. Leads(<<d>>, h + 3, h + 3, 0)
  BY <1>2, <1>4, PlainLeads
<1>11. Leads(<<e>>, h + 3, h + 4, h + 4)
  BY <1>2, <1>3, <1>6, LoadLeads
<1>12. Leads(InPlace("add", 3, 1), h + 4, h + 3, 0)
  BY <1>2, <1>6, InPlaceLeads
<1>13. Leads(<<f>>, h + 3, h + 3, 0)
  BY <1>2, <1>4, PlainLeads
<1>14. Leads(<<g>>, h + 3, h + 2, 0)
  BY <1>2, <1>5, <1>6, FreeLeads
<1>15. Leads(<<k>>, h + 2, h + 1, 0)
  BY <1>2, <1>5, <1>6, FreeLeads
<1>16. PICK m, n : /\ m = Larger(h + 1, Larger(h + 2, Larger(h + 3, Larger(0, h + 4))))
                   /\ n = Larger(0, 0)
  OBVIOUS
<1>17. m = h + 4 /\ n = 0 /\ m \in Int /\ n \in Int /\ Larger(m, 0) = h + 4
  BY <1>16 DEF Larger
<1>18. Leads(<<a, b, c, d, e>>, h, h + 4, m)
  BY <1>2, <1>7, <1>8, <1>9, <1>10, <1>11, <1>16, FiveLead
<1>19. Leads(<<a, b, c, d, e>> \o InPlace("add", 3, 1), h, h + 3, Larger(m, 0))
  BY <1>12, <1>17, <1>18, JoinLeads
<1>20. Leads(<<f, g>>, h + 3, h + 2, n)
  BY <1>13, <1>14, <1>16, TwoLead
<1>21. Leads(<<a, b, c, d, e>> \o InPlace("add", 3, 1) \o <<f, g>>, h, h + 2,
             Larger(h + 4, n))
  BY <1>17, <1>19, <1>20, JoinLeads
<1>22. Larger(h + 4, n) = h + 4 /\ h + 4 \in Int
  BY <1>17 DEF Larger
<1>23. Leads(StepPlace(root) \o <<k>>, h, h + 1, Larger(h + 4, 0))
  <2>1. StepPlace(root) = <<a, b, c, d, e>> \o InPlace("add", 3, 1) \o <<f, g>>
    BY <1>1 DEF StepPlace
  <2>2. Leads(StepPlace(root), h, h + 2, h + 4)
    BY <1>21, <1>22, <2>1
  <2>3. QED
    BY <1>15, <1>22, <2>2, JoinLeads
<1>24. Standing[root] = 4
  BY StandingAssumption DEF StandingIn
<1>25. h + Standing[root] <= Room <=> Larger(h + 4, 0) <= Room
  BY <1>24, RoomIs DEF Larger
<1>26. QED
  BY <1>1, <1>23, <1>25, LeadsAs

LEMMA LogicLeads ==
    ASSUME NEW root \in Expressions, root.kind \in {"and", "or"}, NEW h \in Nat,
           NEW jump, jump.op \in Written, NEW settled, NEW end_label, NEW v, NEW u
    PROVE  Leads(<<Alloc>> \o GenSide(root.left, jump) \o GenSide(root.right, jump)
                     \o Settle(LoadInt(v)) \o <<EmitJump(end_label), EmitLabel(settled)>>
                     \o Settle(LoadInt(u)) \o <<EmitLabel(end_label)>>,
                 h, h + 1, h + Standing[root])
<1>1. PICK left, right, a, b, c, d :
          /\ left = root.left /\ right = root.right /\ a = Alloc
          /\ b = EmitJump(end_label) /\ c = EmitLabel(settled) /\ d = EmitLabel(end_label)
  OBVIOUS
<1>2. left \in Expressions /\ right \in Expressions
  BY <1>1, PartsAre
<1>3. /\ Standing[left] \in Nat /\ Standing[right] \in Nat
      /\ Standing[left] >= 1 /\ Standing[right] >= 1 /\ h + 1 \in Nat
  BY <1>2, StandingIs
<1>4. a.op \in Loads
  BY <1>1, LoadsAre
<1>5. b.op \in Written
  BY <1>1, PlainAre
<1>6. c.op \in Written /\ d.op \in Written
  BY <1>1, PlainAre
<1>7. PICK m, n, k : /\ m = (h + 1) + Standing[left] /\ n = (h + 1) + Standing[right]
                     /\ k = h + 2
  OBVIOUS
<1>8. m \in Int /\ n \in Int /\ k \in Int
  BY <1>3, <1>7
<1>9. Leads(<<a>>, h, h + 1, h + 1)
  BY <1>4, LoadLeads
<1>10. Leads(GenSide(left, jump), h + 1, h + 1, m)
  BY <1>2, <1>3, <1>7, SideLeads
<1>11. Leads(GenSide(right, jump), h + 1, h + 1, n)
  BY <1>2, <1>3, <1>7, SideLeads
<1>12. ASSUME NEW value PROVE Leads(Settle(LoadInt(value)), h + 1, h + 1, k)
  <2>1. PICK item : item = LoadInt(value)
    OBVIOUS
  <2>2. item.op \in Loads /\ (h + 1) + 1 = h + 2
    BY <2>1, LoadsAre
  <2>3. Leads(<<item>>, h + 1, h + 2, k)
    BY <1>3, <1>7, <2>2, LoadLeads
  <2>4. QED
    BY <1>8, <2>1, <2>3, SettleLeads
<1>13. Leads(<<b>>, h + 1, h + 1, 0) /\ Leads(<<c>>, h + 1, h + 1, 0)
       /\ Leads(<<d>>, h + 1, h + 1, 0)
  BY <1>3, <1>5, <1>6, PlainLeads
<1>14. Leads(<<b, c>>, h + 1, h + 1, Larger(0, 0))
  BY <1>13, TwoLead
<1>15. PICK p, q, r, s, t, y :
           /\ p = Larger(h + 1, m) /\ q = Larger(p, n) /\ r = Larger(q, k)
           /\ s = Larger(r, 0) /\ t = Larger(s, k) /\ y = Larger(t, 0)
  OBVIOUS
<1>16. /\ p \in Int /\ q \in Int /\ r \in Int /\ s \in Int /\ t \in Int /\ y \in Int
       /\ Larger(0, 0) = 0
  BY <1>8, <1>15 DEF Larger
<1>17. Leads(<<a>> \o GenSide(left, jump), h, h + 1, p)
  BY <1>8, <1>9, <1>10, <1>15, JoinLeads
<1>18. Leads(<<a>> \o GenSide(left, jump) \o GenSide(right, jump), h, h + 1, q)
  BY <1>8, <1>11, <1>15, <1>16, <1>17, JoinLeads
<1>19. Leads(<<a>> \o GenSide(left, jump) \o GenSide(right, jump) \o Settle(LoadInt(v)),
             h, h + 1, r)
  BY <1>8, <1>12, <1>15, <1>16, <1>18, JoinLeads
<1>20. Leads(<<a>> \o GenSide(left, jump) \o GenSide(right, jump) \o Settle(LoadInt(v))
                 \o <<b, c>>, h, h + 1, s)
  <2>1. Leads(<<b, c>>, h + 1, h + 1, 0)
    BY <1>14, <1>16
  <2>2. QED
    BY <1>15, <1>16, <1>19, <2>1, JoinLeads
<1>21. Leads(<<a>> \o GenSide(left, jump) \o GenSide(right, jump) \o Settle(LoadInt(v))
                 \o <<b, c>> \o Settle(LoadInt(u)), h, h + 1, t)
  BY <1>8, <1>12, <1>15, <1>16, <1>20, JoinLeads
<1>22. Leads(<<a>> \o GenSide(left, jump) \o GenSide(right, jump) \o Settle(LoadInt(v))
                 \o <<b, c>> \o Settle(LoadInt(u)) \o <<d>>, h, h + 1, y)
  BY <1>13, <1>15, <1>16, <1>21, JoinLeads
<1>23. Standing[root] = 1 + Larger(Standing[left], Standing[right])
  BY <1>1, StandingAssumption DEF StandingIn
<1>24. h + Standing[root] <= Room <=> y <= Room
  BY <1>3, <1>7, <1>15, <1>23, RoomIs DEF Larger
<1>25. QED
  BY <1>1, <1>22, <1>24, LeadsAs

LEMMA ConditionLeads ==
    ASSUME NEW cond \in Expressions, NEW false_label, NEW h \in Nat
    PROVE  /\ StandingInCondition(Standing, cond) \in Nat
           /\ Leads(GenCondition(cond, false_label), h, h,
                    h + StandingInCondition(Standing, cond))
<1>1. CASE cond.kind = "less"
  <2>1. PICK left, right, a, b, c :
            /\ left = cond.left /\ right = cond.right /\ a = JumpIfNotLess(false_label)
            /\ b = FreeAfterJump(2) /\ c = FreeAfterJump(1)
    OBVIOUS
  <2>2. left \in Expressions /\ right \in Expressions
    BY <1>1, <2>1, PartsAre
  <2>3. Standing[left] \in Nat /\ Standing[right] \in Nat /\ h + 1 \in Nat /\ h + 2 \in Nat
    BY <2>2, StandingIs
  <2>4. a.op \in Written
    BY <2>1, PlainAre
  <2>5. b.op \in Frees /\ b.regs[1] = 2 /\ c.op \in Frees /\ c.regs[1] = 1
    BY <2>1, FreesAre
  <2>6. /\ (h + 1) + 1 = h + 2 /\ (h + 2) - 1 = h + 1 /\ (h + 1) - 1 = h
        /\ 2 \in 1 .. h + 2 /\ 1 \in 1 .. h + 1
    OBVIOUS
  <2>7. PICK m, n : m = h + Standing[left] /\ n = (h + 1) + Standing[right]
    OBVIOUS
  <2>8. m \in Int /\ n \in Int
    BY <2>3, <2>7
  <2>9. Leads(<<Walk(left)>>, h, h + 1, m)
    BY <2>2, <2>7, WalkLeads
  <2>10. Leads(<<Walk(right)>>, h + 1, h + 2, n)
    BY <2>2, <2>3, <2>6, <2>7, WalkLeads
  <2>11. Leads(<<a>>, h + 2, h + 2, 0)
    BY <2>3, <2>4, PlainLeads
  <2>12. Leads(<<b>>, h + 2, h + 1, 0)
    BY <2>3, <2>5, <2>6, FreeLeads
  <2>13. Leads(<<c>>, h + 1, h, 0)
    BY <2>3, <2>5, <2>6, FreeLeads
  <2>14. Leads(<<Walk(left), Walk(right), a, b, c>>, h, h,
               Larger(m, Larger(n, Larger(0, Larger(0, 0)))))
    BY <2>8, <2>9, <2>10, <2>11, <2>12, <2>13, FiveLead
  <2>15. GenCondition(cond, false_label) = <<Walk(left), Walk(right), a, b, c>>
    BY <1>1, <2>1 DEF GenCondition
  <2>16. StandingInCondition(Standing, cond) = Larger(Standing[left], 1 + Standing[right])
    BY <1>1, <2>1 DEF StandingInCondition
  <2>17. /\ StandingInCondition(Standing, cond) \in Nat
         /\ h + StandingInCondition(Standing, cond) <= Room <=>
                Larger(m, Larger(n, Larger(0, Larger(0, 0)))) <= Room
    BY <2>3, <2>7, <2>16, RoomIs DEF Larger
  <2>18. QED
    BY <2>14, <2>15, <2>17, LeadsAs
<1>2. CASE cond.kind # "less"
  <2>1. PICK a, b, c :
            a = ToBool /\ b = JumpIfZero(false_label) /\ c = FreeAfterJump(1)
    OBVIOUS
  <2>2. Standing[cond] \in Nat /\ h + 1 \in Nat
    BY StandingIs
  <2>3. a.op \in Written /\ b.op \in Written
    BY <2>1, PlainAre
  <2>4. c.op \in Frees /\ c.regs[1] = 1
    BY <2>1, FreesAre
  <2>5. (h + 1) - 1 = h /\ 1 \in 1 .. h + 1
    OBVIOUS
  <2>6. PICK m : m = h + Standing[cond]
    OBVIOUS
  <2>7. m \in Int
    BY <2>2, <2>6
  <2>8. Leads(<<Walk(cond)>>, h, h + 1, m)
    BY <2>6, WalkLeads
  <2>9. Leads(<<a>>, h + 1, h + 1, 0) /\ Leads(<<b>>, h + 1, h + 1, 0)
    BY <2>2, <2>3, PlainLeads
  <2>10. Leads(<<c>>, h + 1, h, 0)
    BY <2>2, <2>4, <2>5, FreeLeads
  <2>11. Leads(<<Walk(cond), a, b, c>>, h, h, Larger(m, Larger(0, Larger(0, 0))))
    BY <2>7, <2>8, <2>9, <2>10, FourLead
  <2>12. GenCondition(cond, false_label) = <<Walk(cond), a, b, c>>
    BY <1>2, <2>1 DEF GenCondition
  <2>13. StandingInCondition(Standing, cond) = Standing[cond]
    BY <1>2 DEF StandingInCondition
  <2>14. h + StandingInCondition(Standing, cond) <= Room <=>
             Larger(m, Larger(0, Larger(0, 0))) <= Room
    BY <2>2, <2>6, <2>13, RoomIs DEF Larger
  <2>15. QED
    BY <2>2, <2>11, <2>12, <2>13, <2>14, LeadsAs
<1>3. QED
  BY <1>1, <1>2

LEMMA TernaryLeads ==
    ASSUME NEW root \in Expressions, root.kind = "ternary", NEW h \in Nat,
           NEW false_label, NEW end_label
    PROVE  Leads(GenCondition(root.left, false_label) \o <<AllocAfterJump>>
                     \o Settle(Walk(root.mid)) \o <<EmitJump(end_label), EmitLabel(false_label)>>
                     \o Settle(Walk(root.right)) \o <<EmitLabel(end_label)>>,
                 h, h + 1, h + Standing[root])
<1>1. PICK cond, mid, right, a, b, c, d :
          /\ cond = root.left /\ mid = root.mid /\ right = root.right /\ a = AllocAfterJump
          /\ b = EmitJump(end_label) /\ c = EmitLabel(false_label) /\ d = EmitLabel(end_label)
  OBVIOUS
<1>2. cond \in Expressions /\ mid \in Expressions /\ right \in Expressions
  BY <1>1, PartsAre
<1>3. PICK standing : standing = StandingInCondition(Standing, cond)
  OBVIOUS
<1>4. Standing[mid] \in Nat /\ Standing[right] \in Nat /\ standing \in Nat /\ h + 1 \in Nat
  BY <1>2, <1>3, StandingIs, ConditionLeads
<1>5. a.op \in Loads
  BY <1>1, LoadsAre
<1>6. b.op \in Written
  BY <1>1, PlainAre
<1>7. c.op \in Written /\ d.op \in Written
  BY <1>1, PlainAre
<1>8. PICK k, m, n : /\ k = h + standing
                     /\ m = (h + 1) + Standing[mid] /\ n = (h + 1) + Standing[right]
  OBVIOUS
<1>9. m \in Int /\ n \in Int /\ k \in Int
  BY <1>4, <1>8
<1>10. Leads(GenCondition(cond, false_label), h, h, k)
  BY <1>2, <1>3, <1>8, ConditionLeads
<1>11. Leads(<<a>>, h, h + 1, h + 1)
  BY <1>5, LoadLeads
<1>12. ASSUME NEW part \in Expressions, NEW most \in Int, most = (h + 1) + Standing[part]
       PROVE  Leads(Settle(Walk(part)), h + 1, h + 1, most)
  <2>1. (h + 1) + 1 = h + 2
    OBVIOUS
  <2>2. Leads(<<Walk(part)>>, h + 1, h + 2, most)
    BY <1>4, <1>12, <2>1, WalkLeads
  <2>3. QED
    BY <2>2, SettleLeads
<1>13. Leads(Settle(Walk(mid)), h + 1, h + 1, m) /\ Leads(Settle(Walk(right)), h + 1, h + 1, n)
  BY <1>2, <1>8, <1>9, <1>12
<1>14. Leads(<<b>>, h + 1, h + 1, 0) /\ Leads(<<c>>, h + 1, h + 1, 0)
       /\ Leads(<<d>>, h + 1, h + 1, 0)
  BY <1>4, <1>6, <1>7, PlainLeads
<1>15. Leads(<<b, c>>, h + 1, h + 1, Larger(0, 0))
  BY <1>14, TwoLead
<1>16. PICK p, q, r, s, t :
           /\ p = Larger(k, h + 1) /\ q = Larger(p, m) /\ r = Larger(q, 0)
           /\ s = Larger(r, n) /\ t = Larger(s, 0)
  OBVIOUS
<1>17. /\ p \in Int /\ q \in Int /\ r \in Int /\ s \in Int /\ t \in Int
       /\ Larger(0, 0) = 0
  BY <1>9, <1>16 DEF Larger
<1>18. Leads(GenCondition(cond, false_label) \o <<a>>, h, h + 1, p)
  BY <1>9, <1>10, <1>11, <1>16, JoinLeads
<1>19. Leads(GenCondition(cond, false_label) \o <<a>> \o Settle(Walk(mid)), h, h + 1, q)
  BY <1>9, <1>13, <1>16, <1>17, <1>18, JoinLeads
<1>20. Leads(GenCondition(cond, false_label) \o <<a>> \o Settle(Walk(mid)) \o <<b, c>>,
             h, h + 1, r)
  <2>1. Leads(<<b, c>>, h + 1, h + 1, 0)
    BY <1>15, <1>17
  <2>2. QED
    BY <1>16, <1>17, <1>19, <2>1, JoinLeads
<1>21. Leads(GenCondition(cond, false_label) \o <<a>> \o Settle(Walk(mid)) \o <<b, c>>
                 \o Settle(Walk(right)), h, h + 1, s)
  BY <1>9, <1>13, <1>16, <1>17, <1>20, JoinLeads
<1>22. Leads(GenCondition(cond, false_label) \o <<a>> \o Settle(Walk(mid)) \o <<b, c>>
                 \o Settle(Walk(right)) \o <<d>>, h, h + 1, t)
  BY <1>14, <1>16, <1>17, <1>21, JoinLeads
<1>23. Standing[root] = Larger(standing, 1 + Larger(Standing[mid], Standing[right]))
  BY <1>1, <1>3, StandingAssumption DEF StandingIn
<1>24. h + Standing[root] <= Room <=> t <= Room
  <2>1. Standing[mid] >= 1
    BY <1>2, StandingIs
  <2>2. QED
    BY <1>4, <1>8, <1>16, <1>23, <2>1, RoomIs DEF Larger
<1>25. QED
  BY <1>1, <1>22, <1>24, LeadsAs

LEMMA CallLeads ==
    ASSUME NEW root \in Expressions, root.kind = "call", NEW h \in Nat
    PROVE  Leads(GenArguments(root.args) \o <<Call(Len(root.args), root.named), Fetch>>,
                 h, h + 1, h + Standing[root])
<1>1. PICK args, a, b : args = root.args /\ a = Call(Len(root.args), root.named) /\ b = Fetch
  OBVIOUS
<1>2. args \in Seq(Expressions) /\ Standing[root] \in Nat
  BY <1>1, CallStands, StandingIs
<1>3. h + Standing[root] <= Room <=>
          h + 1 <= Room /\ \A k \in 1 .. Len(args) : h + Standing[args[k]] <= Room
  BY <1>1, CallStands
<1>4. a.op \in Written
  BY <1>1, PlainAre
<1>5. b.op \in Loads
  BY <1>1, LoadsAre
<1>6. PICK most \in Int :
          most <= Room <=> \A k \in 1 .. Len(args) : h + Standing[args[k]] <= Room
  <2>1. 0 \in Int /\ 0 <= Room /\ Room + 1 \in Int /\ ~(Room + 1 <= Room)
    BY RoomIs
  <2>2. QED
    BY <2>1
<1>7. Leads(GenArguments(args), h, h, most)
  BY <1>2, <1>6, ArgumentsLead
<1>8. Leads(<<a>>, h, h, 0) /\ Leads(<<b>>, h, h + 1, h + 1)
  BY <1>4, <1>5, PlainLeads, LoadLeads
<1>9. PICK m : m = Larger(0, h + 1)
  OBVIOUS
<1>10. m = h + 1 /\ m \in Int
  BY <1>9 DEF Larger
<1>11. Leads(<<a, b>>, h, h + 1, m)
  BY <1>8, <1>9, TwoLead
<1>12. Leads(GenArguments(args) \o <<a, b>>, h, h + 1, Larger(most, m))
  BY <1>7, <1>10, <1>11, JoinLeads
<1>13. h + Standing[root] <= Room <=> Larger(most, m) <= Room
  <2>1. Larger(most, m) <= Room <=> most <= Room /\ h + 1 <= Room
    BY <1>10, RoomIs DEF Larger
  <2>2. QED
    BY <1>3, <1>6, <2>1
<1>14. QED
  BY <1>1, <1>12, <1>13, LeadsAs

\* What GenExpr() does leads to one register more.
LEMMA ExpressionLeads ==
    ASSUME NEW root \in Expressions, ExpressionOf(root), NEW h \in Nat, next_label \in Nat
    PROVE  /\ next_label' \in Nat
           /\ \E items : /\ pending' = items \o Tail(pending)
                         /\ Leads(items, h, h + 1, h + Standing[root])
<1>1. ASSUME NEW n \in Nat, NEW items, Does(n, items),
             Leads(items, h, h + 1, h + Standing[root])
      PROVE  /\ next_label' \in Nat
             /\ \E some : /\ pending' = some \o Tail(pending)
                          /\ Leads(some, h, h + 1, h + Standing[root])
  BY <1>1 DEF Does
<1>2. 0 \in Nat /\ 2 \in Nat
  OBVIOUS
<1>3. CASE root.kind = "name" /\ Does(0, <<LoadSymbol(root.cell)>>)
  BY <1>1, <1>2, <1>3, NameLeads
<1>4. CASE root.kind = "postinc" /\ IncDecPlace(root)
  BY <1>1, <1>2, <1>4, IncDecLeads DEF IncDecPlace
<1>5. CASE root.kind \in {"sub", "less"} /\ GenOperands(root)
  BY <1>1, <1>2, <1>5, OperandsLead DEF GenOperands
<1>6. CASE root.kind \in {"and", "or"} /\ GenLogic(root)
  <2>1. PICK settled, end_label, jump, v, u :
            /\ settled = NewLabel(0) /\ end_label = NewLabel(1)
            /\ jump = JumpIfSettled(root.kind, settled)
            /\ v = IF root.kind = "and" THEN 1 ELSE 0
            /\ u = 1 - v
    OBVIOUS
  <2>2. jump.op \in Written
    BY <2>1, PlainAre
  <2>3. Does(2, <<Alloc>> \o GenSide(root.left, jump) \o GenSide(root.right, jump)
                    \o Settle(LoadInt(v)) \o <<EmitJump(end_label), EmitLabel(settled)>>
                    \o Settle(LoadInt(u)) \o <<EmitLabel(end_label)>>)
    BY <1>6, <2>1, Zenon DEF GenLogic
  <2>4. Leads(<<Alloc>> \o GenSide(root.left, jump) \o GenSide(root.right, jump)
                  \o Settle(LoadInt(v)) \o <<EmitJump(end_label), EmitLabel(settled)>>
                  \o Settle(LoadInt(u)) \o <<EmitLabel(end_label)>>,
              h, h + 1, h + Standing[root])
    BY <1>6, <2>2, LogicLeads
  <2>5. QED
    BY <1>1, <1>2, <2>3, <2>4
<1>7. CASE root.kind = "ternary" /\ GenTernary(root)
  <2>1. PICK false_label, end_label : false_label = NewLabel(0) /\ end_label = NewLabel(1)
    OBVIOUS
  <2>2. Does(2, GenCondition(root.left, false_label) \o <<AllocAfterJump>>
                    \o Settle(Walk(root.mid)) \o <<EmitJump(end_label), EmitLabel(false_label)>>
                    \o Settle(Walk(root.right)) \o <<EmitLabel(end_label)>>)
    BY <1>7, <2>1, Zenon DEF GenTernary
  <2>3. Leads(GenCondition(root.left, false_label) \o <<AllocAfterJump>>
                  \o Settle(Walk(root.mid)) \o <<EmitJump(end_label), EmitLabel(false_label)>>
                  \o Settle(Walk(root.right)) \o <<EmitLabel(end_label)>>,
              h, h + 1, h + Standing[root])
    BY <1>7, TernaryLeads
  <2>4. QED
    BY <1>1, <1>2, <2>2, <2>3
<1>8. CASE root.kind = "call" /\ GenCall(root)
  BY <1>1, <1>2, <1>8, CallLeads DEF GenCall
<1>9. CASE root.kind = "assign" /\ GenAssign(root)
  BY <1>1, <1>2, <1>9, AssignLeads DEF GenAssign
<1>10. CASE root.kind = "addto" /\ GenAssignOp(root)
  BY <1>1, <1>2, <1>10, AssignOpLeads DEF GenAssignOp
<1>11. QED
  BY <1>3, <1>4, <1>5, <1>6, <1>7, <1>8, <1>9, <1>10 DEF ExpressionOf

-----------------------------------------------------------------------------
(***************************************************************************)
(* The invariant of the walk.                                              *)
(***************************************************************************)
GenInv ==
    /\ given \in Cases /\ pool \in Pool /\ names \in Seq(Regs)
    /\ refused \in BOOLEAN /\ next_label \in Nat
    /\ Counted(names, pool)
    /\ ~refused => Leads(pending, Len(names), 1, Standing[given.root])
    /\ refused => pending = <<>> /\ Standing[given.root] > Room

LEMMA GivenIs ==
    ASSUME given \in Cases
    PROVE  /\ given.root \in Expressions /\ Standing[given.root] \in Nat
           /\ Standing[given.root] >= 1
BY ExpressionsAssumption, StandingIs DEF AreCases

LEMMA GenInitInv == GenInit => GenInv
<1> SUFFICES ASSUME GenInit PROVE GenInv
  OBVIOUS
<1>1. /\ given \in Cases /\ pool = FreshPool /\ names = <<>> /\ next_label = 1
      /\ refused = FALSE /\ pending = <<Walk(given.root)>>
  BY DEF GenInit
<1>2. given.root \in Expressions /\ Standing[given.root] \in Nat
  BY <1>1, GivenIs
<1>3. pool \in Pool /\ Counted(names, pool)
  BY <1>1, FreshPoolIsAPool, FreshIsCounted
<1>4. Leads(pending, Len(names), 1, Standing[given.root])
  <2>1. Leads(<<Walk(given.root)>>, 0, 0 + 1, 0 + Standing[given.root])
    BY <1>2, WalkLeads
  <2>2. 0 + Standing[given.root] = Standing[given.root] /\ 0 + 1 = 1 /\ Len(names) = 0
    BY <1>1, <1>2
  <2>3. QED
    BY <1>1, <2>1, <2>2
<1>5. names \in Seq(Regs) /\ next_label \in Nat
  BY <1>1
<1>6. refused \in BOOLEAN /\ ~refused
  BY <1>1
<1>7. QED
  BY <1>1, <1>3, <1>4, <1>5, <1>6, Zenon DEF GenInv

\* What is known at every step of the walk: what is next, and what is behind it.
LEMMA NextIs ==
    ASSUME GenInv, pending # <<>>
    PROVE  /\ ~refused /\ Len(names) \in Nat
           /\ Formed(Head(pending), Len(names))
           /\ Len(names) + Gain(Head(pending)) \in Nat
           /\ Standing[given.root] \in Nat
           /\ \E rest \in Nat :
                 /\ Leads(Tail(pending), Len(names) + Gain(Head(pending)), 1, rest)
                 /\ Standing[given.root] <= Room <=>
                        Peak(Head(pending), Len(names)) <= Room /\ rest <= Room
<1>1. ~refused /\ Leads(pending, Len(names), 1, Standing[given.root])
  BY DEF GenInv
<1>2. names \in Seq(Regs) /\ Standing[given.root] \in Nat
  BY GivenIs DEF GenInv
<1>3. QED
  BY <1>1, <1>2, TailLeads

LEMMA GenExprKeepsInv == ASSUME GenInv, GenExpr PROVE GenInv'
<1>1. PICK item : item = Head(pending)
  OBVIOUS
<1>2. pending # <<>> /\ item.op = "expression" /\ ExpressionOf(item.root)
  BY <1>1 DEF GenExpr, AtNext
<1>3. UNCHANGED <<given, pool, names, code, refused, flaws>>
  BY DEF GenExpr
<1>4. /\ ~refused /\ Len(names) \in Nat /\ Formed(item, Len(names))
      /\ Standing[given.root] \in Nat
  BY <1>1, <1>2, NextIs
<1>5. PICK rest \in Nat :
          /\ Leads(Tail(pending), Len(names) + Gain(item), 1, rest)
          /\ Standing[given.root] <= Room <=> Peak(item, Len(names)) <= Room /\ rest <= Room
  BY <1>1, <1>2, NextIs
<1>6. PICK root, h : root = item.root /\ h = Len(names)
  OBVIOUS
<1>7. /\ root \in Expressions /\ Gain(item) = 1 /\ Peak(item, h) = h + Standing[root]
      /\ h \in Nat /\ Standing[root] \in Nat
  <2>1. root \in Expressions /\ h \in Nat
    BY <1>2, <1>4, <1>6 DEF Formed
  <2>2. Gain(item) = 1
    BY <1>2 DEF Gain, Loads, Frees
  <2>3. Peak(item, h) = h + Standing[root]
    BY <1>2, <1>6 DEF Peak, Loads
  <2>4. QED
    BY <2>1, <2>2, <2>3, StandingIs
<1>8. next_label \in Nat
  BY DEF GenInv
<1>9. next_label' \in Nat /\ \E items : /\ pending' = items \o Tail(pending)
                                        /\ Leads(items, h, h + 1, h + Standing[root])
  BY <1>2, <1>6, <1>7, <1>8, ExpressionLeads
<1>10. PICK items : /\ pending' = items \o Tail(pending)
                    /\ Leads(items, h, h + 1, h + Standing[root])
  BY <1>9
<1>11. PICK m : m = h + Standing[root]
  OBVIOUS
<1>12. m \in Int
  BY <1>7, <1>11
<1>13. Leads(Tail(pending), h + 1, 1, rest)
  BY <1>5, <1>6, <1>7
<1>14. Leads(pending', h, 1, Larger(m, rest))
  BY <1>10, <1>11, <1>12, <1>13, JoinLeads
<1>15. Standing[given.root] <= Room <=> Larger(m, rest) <= Room
  BY <1>5, <1>6, <1>7, <1>11, <1>12, RoomIs DEF Larger
<1>16. Leads(pending', h, 1, Standing[given.root])
  BY <1>14, <1>15, LeadsAs
<1>17. Leads(pending, Len(names), 1, Standing[given.root])'
  BY <1>3, <1>6, <1>16
<1>18. Counted(names, pool)'
  BY <1>3 DEF GenInv, Counted, Stands, Depth
<1>19. QED
  BY <1>3, <1>4, <1>9, <1>17, <1>18 DEF GenInv

LEMMA AllocKeepsInv == ASSUME GenInv, AllocRegister PROVE GenInv'
<1>1. PICK item, h : item = Head(pending) /\ h = Len(names)
  OBVIOUS
<1>2. pending # <<>> /\ item.op \in Loads /\ ~PoolIsFull(pool)
  BY <1>1 DEF AllocRegister, AtNext
<1>3. /\ pool' = PoolAfterAlloc(pool) /\ names' = Append(names, Candidate(pool))
      /\ pending' = Tail(pending) /\ UNCHANGED <<given, next_label, refused>>
  BY DEF AllocRegister, GoesOn
<1>4. ~refused /\ h \in Nat /\ Standing[given.root] \in Nat
  BY <1>1, <1>2, NextIs
<1>5. PICK rest \in Nat :
          /\ Leads(Tail(pending), h + Gain(item), 1, rest)
          /\ Standing[given.root] <= Room <=> Peak(item, h) <= Room /\ rest <= Room
  BY <1>1, <1>2, NextIs
<1>6. Gain(item) = 1 /\ Peak(item, h) = h + 1
  <2>1. item.op \in Loads
    BY <1>2
  <2>2. QED
    BY <2>1 DEF Gain, Peak, Loads, Frees
<1>7. pool \in Pool /\ names \in Seq(Regs) /\ Counted(names, pool)
  BY DEF GenInv
<1>8. h <= Room /\ h # Room
  BY <1>1, <1>2, <1>7, FullIsCounted
<1>9. Standing[given.root] <= Room <=> rest <= Room
  BY <1>4, <1>5, <1>6, <1>8, RoomIs
<1>10. Leads(Tail(pending), h + 1, 1, Standing[given.root])
  BY <1>5, <1>6, <1>9, LeadsAs
<1>11. Candidate(pool) \in Regs /\ pool' \in Pool
  BY <1>2, <1>3, <1>7, CandidateIsUsable, AllocKeepsPool
<1>12. Len(names') = h + 1 /\ names' \in Seq(Regs)
  BY <1>1, <1>3, <1>7, <1>11
<1>13. Counted(names', pool')
  BY <1>2, <1>3, <1>7, AllocIsCounted
<1>14. QED
  BY <1>3, <1>4, <1>10, <1>11, <1>12, <1>13 DEF GenInv, Counted, Stands, Depth

LEMMA RefuseKeepsInv == ASSUME GenInv, Refuse PROVE GenInv'
<1>1. PICK item, h : item = Head(pending) /\ h = Len(names)
  OBVIOUS
<1>2. pending # <<>> /\ item.op \in Loads /\ PoolIsFull(pool)
  BY <1>1 DEF Refuse, AtNext
<1>3. /\ refused' = TRUE /\ pending' = <<>> /\ UNCHANGED <<given, pool, next_label, names>>
  BY DEF Refuse
<1>4. h \in Nat /\ Standing[given.root] \in Nat
  BY <1>1, <1>2, NextIs
<1>5. PICK rest \in Nat :
          Standing[given.root] <= Room <=> Peak(item, h) <= Room /\ rest <= Room
  BY <1>1, <1>2, NextIs
<1>6. Peak(item, h) = h + 1
  BY <1>2 DEF Peak, Loads
<1>7. h = Room
  BY <1>1, <1>2, FullIsCounted DEF GenInv
<1>8. Standing[given.root] > Room
  BY <1>4, <1>5, <1>6, <1>7, RoomIs
<1>9. Counted(names, pool)'
  BY <1>3 DEF GenInv, Counted, Stands, Depth
<1>10. QED
  BY <1>3, <1>8, <1>9 DEF GenInv

LEMMA WithoutIs ==
    ASSUME NEW S, NEW seq \in Seq(S), NEW place \in 1 .. Len(seq)
    PROVE  Without(seq, place) \in Seq(S) /\ Len(Without(seq, place)) = Len(seq) - 1
BY DEF Without

LEMMA FreeKeepsInv == ASSUME GenInv, FreeRegister PROVE GenInv'
<1>1. PICK item, h, place, reg :
          /\ item = Head(pending) /\ h = Len(names)
          /\ place = Place(item.regs[1]) /\ reg = Nth(item.regs[1])
  OBVIOUS
<1>2. pending # <<>> /\ item.op \in Frees
  BY <1>1 DEF FreeRegister, AtNext
<1>3. /\ pool' = PoolAfterFree(pool, reg) /\ names' = Without(names, place)
      /\ pending' = Tail(pending) /\ UNCHANGED <<given, next_label, refused>>
  BY <1>1 DEF FreeRegister, GoesOn
<1>4. ~refused /\ h \in Nat /\ Standing[given.root] \in Nat /\ Formed(item, h)
  BY <1>1, <1>2, NextIs
<1>5. PICK rest \in Nat :
          /\ Leads(Tail(pending), h + Gain(item), 1, rest)
          /\ Standing[given.root] <= Room <=> Peak(item, h) <= Room /\ rest <= Room
  BY <1>1, <1>2, NextIs
<1>6. Gain(item) = -1 /\ Peak(item, h) = 0 /\ item.regs[1] \in 1 .. h
  BY <1>2, <1>4 DEF Gain, Peak, Formed, Frees, Loads
<1>7. pool \in Pool /\ names \in Seq(Regs) /\ Counted(names, pool)
  BY DEF GenInv
<1>8. place \in 1 .. h /\ place \in 1 .. Len(names) /\ reg = names[place] /\ reg \in Regs
  BY <1>1, <1>4, <1>6, <1>7 DEF Place, Nth
<1>9. Standing[given.root] <= Room <=> rest <= Room
  BY <1>5, <1>6, RoomIs
<1>10. h + (-1) = h - 1
  BY <1>4
<1>11. Leads(Tail(pending), h - 1, 1, Standing[given.root])
  BY <1>5, <1>6, <1>9, <1>10, LeadsAs
<1>12. pool' \in Pool
  BY <1>3, <1>7, <1>8, FreeKeepsPool, FreeIsCounted
<1>13. Len(names') = h - 1 /\ names' \in Seq(Regs)
  BY <1>1, <1>3, <1>7, <1>8, WithoutIs
<1>14. Counted(names', pool')
  BY <1>3, <1>7, <1>8, FreeIsCounted
<1>15. QED
  BY <1>3, <1>4, <1>11, <1>12, <1>13, <1>14 DEF GenInv, Counted, Stands, Depth

\* What is written asks for no register and frees none.
LEMMA WrittenKeepsInv ==
    ASSUME GenInv, pending # <<>>, Head(pending).op \in Written, GoesOn,
           UNCHANGED <<pool, names>>
    PROVE  GenInv'
<1>1. PICK item, h : item = Head(pending) /\ h = Len(names)
  OBVIOUS
<1>2. /\ pending' = Tail(pending) /\ UNCHANGED <<given, next_label, refused, pool, names>>
  BY DEF GoesOn
<1>3. ~refused /\ h \in Nat /\ Standing[given.root] \in Nat
  BY <1>1, NextIs
<1>4. PICK rest \in Nat :
          /\ Leads(Tail(pending), h + Gain(item), 1, rest)
          /\ Standing[given.root] <= Room <=> Peak(item, h) <= Room /\ rest <= Room
  BY <1>1, NextIs
<1>5. Gain(item) = 0 /\ Peak(item, h) = 0
  BY <1>1 DEF Gain, Peak, Written, Plain, Jumps, Frees, Loads
<1>6. h + 0 = h
  BY <1>3
<1>7. Standing[given.root] <= Room <=> rest <= Room
  BY <1>4, <1>5, RoomIs
<1>8. Leads(Tail(pending), h, 1, Standing[given.root])
  BY <1>4, <1>5, <1>6, <1>7, LeadsAs
<1>9. Counted(names, pool)'
  BY <1>2 DEF GenInv, Counted, Stands, Depth
<1>10. QED
  BY <1>1, <1>2, <1>3, <1>8, <1>9 DEF GenInv

LEMMA EmitKeepsInv == ASSUME GenInv, Emit PROVE GenInv'
BY WrittenKeepsInv DEF Emit, AtNext, Written

LEMMA EmitCallKeepsInv == ASSUME GenInv, EmitCall PROVE GenInv'
BY WrittenKeepsInv DEF EmitCall, AtNext, Written

\* Nothing but the walk changes what the invariant speaks of.
LEMMA StandsStill == ASSUME GenInv, UNCHANGED generator PROVE GenInv'
<1>1. UNCHANGED <<given, pool, next_label, names, pending, refused>>
  BY DEF generator
<1>2. Counted(names, pool)'
  BY <1>1 DEF GenInv, Counted, Stands, Depth
<1>3. QED
  BY <1>1, <1>2 DEF GenInv

LEMMA GenStepKeepsInv == GenInv /\ [Next]_vars => GenInv'
<1> SUFFICES ASSUME GenInv, [Next]_vars PROVE GenInv'
  OBVIOUS
<1>1. CASE Generate
  <2>1. GenNext
    BY <1>1 DEF Generate
  <2>2. QED
    BY <2>1, GenExprKeepsInv, AllocKeepsInv, RefuseKeepsInv, FreeKeepsInv, EmitKeepsInv,
       EmitCallKeepsInv DEF GenNext
<1>2. CASE UNCHANGED generator
  BY <1>2, StandsStill
<1>3. Generate \/ UNCHANGED generator
  BY DEF Next, Enter, RunLoad, RunOperation, RunWrite, SpillRegister, ReloadRegister, RunLabel,
         RunJump, RunStack, RunCall, RunFetch, Step, Jump, Stack, vars
<1>4. QED
  BY <1>1, <1>2, <1>3

\* What the walk keeps track of: each register which is held stands for a value
\* of its own, and what is pending leads to one.
THEOREM WalkInvariance == Spec => []GenInv
<1>1. Init => GenInv
  BY GenInitInv DEF Init
<1>2. QED
  BY <1>1, GenStepKeepsInv, PTL DEF Spec

\* GenExpr() frees no register which is not in use, and leaves one register in
\* use and nothing in the frame, for any expression, any number of registers
\* and any depth.
THEOREM OneValueIsLeft == Spec => []OneValueLeft
<1>1. GenInv => OneValueLeft
  <2> SUFFICES ASSUME GenInv PROVE OneValueLeft
    OBVIOUS
  <2>1. pool \in Pool /\ names \in Seq(Regs) /\ Counted(names, pool)
    BY DEF GenInv
  <2>2. ASSUME AtNext(Frees) PROVE ~pool.is_free[Nth(Head(pending).regs[1])]
    <3>1. PICK item, n : item = Head(pending) /\ n = item.regs[1]
      OBVIOUS
    <3>2. pending # <<>> /\ item.op \in Frees
      BY <2>2, <3>1 DEF AtNext
    <3>3. Len(names) \in Nat /\ Formed(item, Len(names))
      BY <3>1, <3>2, NextIs
    <3>4. n \in 1 .. Len(names)
      BY <3>1, <3>2, <3>3 DEF Formed
    <3>5. Place(n) \in 1 .. Len(names) /\ Nth(n) = names[Place(n)]
      BY <3>3, <3>4 DEF Place, Nth
    <3>6. ~pool.is_free[names[Place(n)]]
      BY <2>1, <3>5, FreeIsCounted
    <3>7. QED
      BY <3>1, <3>5, <3>6
  <2>3. ASSUME Generated, ~refused
        PROVE  /\ Len(names) = 1
               /\ FreeRegs(pool) = Regs \ {names[1]}
               /\ \A reg \in Regs : pool.spill_count[reg] = 0
    <3>1. Leads(<<>>, Len(names), 1, Standing[given.root])
      BY <2>3 DEF GenInv, Generated
    <3>2. Len(names) = 1
      BY <3>1, NoneLeads
    <3>3. QED
      BY <2>1, <3>2, OneIsCounted
  <2>4. QED
    BY <2>2, <2>3 DEF OneValueLeft
<1>2. QED
  BY <1>1, WalkInvariance, PTL

\* An expression is refused exactly when more values stand at once than there
\* are registers and places in the frame, however many there are of them.
THEOREM RefusedWhenThereIsNoRoom == Spec => []RefusedWhenTooDeep
<1>1. GenInv => RefusedWhenTooDeep
  <2> SUFFICES ASSUME GenInv, Generated PROVE refused <=> Standing[given.root] > Room
    BY DEF RefusedWhenTooDeep
  <2>1. ASSUME ~refused PROVE ~(Standing[given.root] > Room)
    <3>1. Leads(<<>>, Len(names), 1, Standing[given.root])
      BY <2>1 DEF GenInv, Generated
    <3>2. Standing[given.root] <= Room
      BY <3>1, NoneLeads
    <3>3. Standing[given.root] \in Nat
      BY GivenIs DEF GenInv
    <3>4. QED
      BY <3>2, <3>3, RoomIs
  <2>2. QED
    BY <2>1 DEF GenInv
<1>2. QED
  BY <1>1, WalkInvariance, PTL

-----------------------------------------------------------------------------
(***************************************************************************)
(* The stack of the code: how many words it is high before each item of    *)
(* what is written and of what is pending.                                 *)
(*                                                                         *)
(* `at` is how high it is at each label which was given out so far.        *)
(***************************************************************************)

\* How many words the stack is higher when the item is done.
Rise(item) == CASE item.op = "push argument" -> 2
                [] item.op \in {"push", "pad"} -> 1
                [] item.op = "pop" -> -1
                [] item.op = "drop" -> -item.words
                [] item.op = "call sequence" -> -(2 * item.count)
                [] OTHER -> 0

\* The items which want the stack to be a multiple of sixteen bytes.
Aligned == {"expression", "call sequence", "call"}
Labelled == Jumps \cup {"label"}

\* An item which may be where the stack is h words high.
Balanced(item, h, at) ==
    /\ "op" \in DOMAIN item
    /\ item.op \in Aligned => h % 2 = 0
    /\ item.op \in Labelled => /\ "label" \in DOMAIN item
                               /\ item.label \in DOMAIN at
                               /\ at[item.label] = h
    /\ item.op = "call sequence" => item.count \in Nat /\ item.named \in 0 .. item.count
    /\ item.op = "drop" => item.words \in Nat

\* w is how high the stack is before each item and at the end.
Words(items, w, from, to, at) ==
    /\ w \in [1 .. Len(items) + 1 -> Nat]
    /\ w[1] = from /\ w[Len(items) + 1] = to
    /\ \A k \in 1 .. Len(items) : /\ Balanced(items[k], w[k], at)
                                  /\ w[k + 1] = w[k] + Rise(items[k])

Stacks(items, from, to, at) == IsSequence(items) /\ \E w : Words(items, w, from, to, at)

\* Some of the items is this label.
Has(items, label) ==
    \E k \in 1 .. Len(items) : items[k].op = "label" /\ items[k].label = label

\* More labels, and the others where they were.
Extends(at, more) ==
    DOMAIN at \subseteq DOMAIN more /\ \A label \in DOMAIN at : more[label] = at[label]

LEMMA NothingStacks ==
    ASSUME NEW h \in Nat, NEW at
    PROVE  Stacks(<<>>, h, h, at)
<1>1. IsSequence(<<>>)
  BY DEF IsSequence
<1>2. Words(<<>>, [k \in 1 .. 1 |-> h], h, h, at)
  BY DEF Words
<1>3. QED
  BY <1>1, <1>2 DEF Stacks

LEMMA OneStacks ==
    ASSUME NEW item, NEW h \in Nat, NEW to \in Nat, NEW at,
           Balanced(item, h, at), to = h + Rise(item)
    PROVE  Stacks(<<item>>, h, to, at)
<1> DEFINE w == [k \in 1 .. 2 |-> IF k = 1 THEN h ELSE to]
<1>1. Len(<<item>>) = 1 /\ <<item>>[1] = item /\ IsSequence(<<item>>)
  <2>1. <<item>> \in Seq({item})
    OBVIOUS
  <2>2. QED
    BY <2>1 DEF IsSequence
<1>2. w \in [1 .. 2 -> Nat] /\ w[1] = h /\ w[2] = to
  OBVIOUS
<1> HIDE DEF w
<1>3. Words(<<item>>, w, h, to, at)
  BY <1>1, <1>2 DEF Words
<1>4. QED
  BY <1>1, <1>3 DEF Stacks

LEMMA JoinStacks ==
    ASSUME NEW from, NEW mid, NEW to, NEW a, NEW b, NEW at,
           Stacks(a, from, mid, at), Stacks(b, mid, to, at)
    PROVE  Stacks(a \o b, from, to, at)
<1>1. PICK u : Words(a, u, from, mid, at)
  BY DEF Stacks
<1>2. PICK v : Words(b, v, mid, to, at)
  BY DEF Stacks
<1>3. PICK m, n, items : m = Len(a) /\ n = Len(b) /\ items = a \o b
  OBVIOUS
<1>4. /\ m \in Nat /\ n \in Nat /\ IsSequence(items) /\ Len(items) = m + n
      /\ \A k \in 1 .. m : items[k] = a[k]
      /\ \A k \in m + 1 .. m + n : items[k] = b[k - m]
  BY <1>3, JoinIsSequence DEF Stacks
<1>5. /\ u \in [1 .. m + 1 -> Nat] /\ u[1] = from /\ u[m + 1] = mid
      /\ \A k \in 1 .. m : Balanced(a[k], u[k], at) /\ u[k + 1] = u[k] + Rise(a[k])
  BY <1>1, <1>3 DEF Words
<1>6. /\ v \in [1 .. n + 1 -> Nat] /\ v[1] = mid /\ v[n + 1] = to
      /\ \A k \in 1 .. n : Balanced(b[k], v[k], at) /\ v[k + 1] = v[k] + Rise(b[k])
  BY <1>2, <1>3 DEF Words
<1> DEFINE w == [k \in 1 .. m + n + 1 |-> IF k <= m THEN u[k] ELSE v[k - m]]
<1>7. /\ w \in [1 .. m + n + 1 -> Nat]
      /\ \A k \in 1 .. m : w[k] = u[k]
      /\ \A k \in m + 1 .. m + n + 1 : w[k] = v[k - m]
  <2>1. ASSUME NEW k \in 1 .. m + n + 1
        PROVE  (IF k <= m THEN u[k] ELSE v[k - m]) \in Nat
    BY <1>4, <1>5, <1>6
  <2>2. w \in [1 .. m + n + 1 -> Nat]
    BY <2>1
  <2>3. \A k \in 1 .. m + n + 1 : w[k] = IF k <= m THEN u[k] ELSE v[k - m]
    OBVIOUS
  <2> HIDE DEF w
  <2>4. ASSUME NEW k \in 1 .. m PROVE w[k] = u[k]
    <3>1. k \in 1 .. m + n + 1 /\ k <= m
      BY <1>4
    <3>2. QED
      BY <2>3, <3>1
  <2>5. ASSUME NEW k \in m + 1 .. m + n + 1 PROVE w[k] = v[k - m]
    <3>1. k \in 1 .. m + n + 1 /\ ~(k <= m)
      BY <1>4
    <3>2. QED
      BY <2>3, <3>1
  <2>6. QED
    BY <2>2, <2>4, <2>5
<1> HIDE DEF w
<1>8. w[1] = from /\ w[m + 1] = mid /\ w[m + n + 1] = to
  <2>1. w[m + 1] = mid
    <3>1. m + 1 \in m + 1 .. m + n + 1 /\ (m + 1) - m = 1
      BY <1>4
    <3>2. QED
      BY <1>6, <1>7, <3>1
  <2>2. w[m + n + 1] = to
    <3>1. m + n + 1 \in m + 1 .. m + n + 1 /\ (m + n + 1) - m = n + 1
      BY <1>4
    <3>2. QED
      BY <1>6, <1>7, <3>1
  <2>3. CASE m = 0
    <3>1. m + 1 = 1
      BY <2>3
    <3>2. QED
      BY <1>5, <2>1, <2>2, <3>1
  <2>4. CASE m # 0
    <3>1. 1 \in 1 .. m
      BY <1>4, <2>4
    <3>2. QED
      BY <1>5, <1>7, <2>1, <2>2, <3>1
  <2>5. QED
    BY <2>3, <2>4
<1>9. ASSUME NEW k \in 1 .. m + n
      PROVE  /\ Balanced(items[k], w[k], at) /\ w[k + 1] = w[k] + Rise(items[k])
  <2>1. CASE k <= m
    <3>1. k \in 1 .. m /\ w[k] = u[k] /\ items[k] = a[k]
      BY <1>4, <1>7, <2>1
    <3>2. w[k + 1] = u[k + 1]
      <4>1. CASE k = m
        BY <1>5, <1>8, <4>1
      <4>2. CASE k # m
        <5>1. k + 1 \in 1 .. m
          BY <1>4, <2>1, <4>2
        <5>2. QED
          BY <1>7, <5>1
      <4>3. QED
        BY <4>1, <4>2
    <3>3. QED
      BY <1>5, <3>1, <3>2
  <2>2. CASE k > m
    <3>1. k - m \in 1 .. n /\ w[k] = v[k - m] /\ items[k] = b[k - m]
      BY <1>4, <1>7, <2>2
    <3>2. w[k + 1] = v[(k - m) + 1]
      BY <1>4, <1>7, <2>2
    <3>3. QED
      BY <1>6, <3>1, <3>2
  <2>3. QED
    BY <1>4, <2>1, <2>2
<1>10. Words(items, w, from, to, at)
  BY <1>4, <1>7, <1>8, <1>9 DEF Words
<1>11. QED
  BY <1>3, <1>4, <1>10 DEF Stacks

LEMMA TailStacks ==
    ASSUME NEW items, NEW from, NEW to, NEW at, Stacks(items, from, to, at), items # <<>>
    PROVE  /\ from \in Nat /\ from + Rise(Head(items)) \in Nat
           /\ Balanced(Head(items), from, at)
           /\ Stacks(Tail(items), from + Rise(Head(items)), to, at)
<1>1. PICK w : Words(items, w, from, to, at)
  BY DEF Stacks
<1>2. PICK S : items \in Seq(S)
  BY DEF Stacks, IsSequence
<1>3. PICK n, first, tail : n = Len(items) /\ first = Head(items) /\ tail = Tail(items)
  OBVIOUS
<1>4. /\ n \in Nat /\ n >= 1 /\ tail \in Seq(S) /\ Len(tail) = n - 1
      /\ \A k \in 1 .. n - 1 : tail[k] = items[k + 1]
      /\ first = items[1]
  BY <1>2, <1>3
<1>5. /\ w \in [1 .. n + 1 -> Nat] /\ w[1] = from /\ w[n + 1] = to
      /\ \A k \in 1 .. n : Balanced(items[k], w[k], at) /\ w[k + 1] = w[k] + Rise(items[k])
  BY <1>1, <1>3 DEF Words
<1>6. from \in Nat /\ w[2] \in Nat /\ w[2] = from + Rise(first) /\ Balanced(first, from, at)
  <2>1. 1 \in 1 .. n /\ 1 \in 1 .. n + 1 /\ 2 \in 1 .. n + 1 /\ 1 + 1 = 2
    BY <1>4
  <2>2. QED
    BY <1>4, <1>5, <2>1
<1> DEFINE v == [k \in 1 .. n |-> w[k + 1]]
<1>7. v \in [1 .. n -> Nat] /\ \A k \in 1 .. n : v[k] = w[k + 1]
  BY <1>4, <1>5
<1> HIDE DEF v
<1>8. v[1] = w[2] /\ v[n] = to
  BY <1>4, <1>5, <1>7
<1>9. ASSUME NEW k \in 1 .. n - 1
      PROVE  Balanced(tail[k], v[k], at) /\ v[k + 1] = v[k] + Rise(tail[k])
  <2>1. /\ k \in 1 .. n /\ k + 1 \in 1 .. n /\ tail[k] = items[k + 1]
        /\ v[k] = w[k + 1] /\ v[k + 1] = w[(k + 1) + 1]
    BY <1>4, <1>7, SMTT(20)
  <2>2. QED
    BY <1>5, <2>1
<1>10. Words(tail, v, w[2], to, at)
  <2>1. (n - 1) + 1 = n
    BY <1>4
  <2>2. QED
    BY <1>4, <1>7, <1>8, <1>9, <2>1 DEF Words
<1>11. Stacks(tail, from + Rise(first), to, at)
  <2>1. IsSequence(tail)
    BY <1>4 DEF IsSequence
  <2>2. QED
    BY <1>6, <1>10, <2>1 DEF Stacks
<1>12. QED
  BY <1>3, <1>6, <1>11

LEMMA NoneStacks ==
    ASSUME NEW from, NEW to, NEW at, Stacks(<<>>, from, to, at)
    PROVE  from = to
BY DEF Stacks, Words

LEMMA MoreStacks ==
    ASSUME NEW items, NEW from, NEW to, NEW at, NEW more,
           Stacks(items, from, to, at), Extends(at, more)
    PROVE  Stacks(items, from, to, more)
<1>1. PICK w : Words(items, w, from, to, at)
  BY DEF Stacks
<1>2. ASSUME NEW k \in 1 .. Len(items) PROVE Balanced(items[k], w[k], more)
  <2>1. Balanced(items[k], w[k], at)
    BY <1>1 DEF Words
  <2>2. QED
    BY <2>1 DEF Balanced, Extends
<1>3. Words(items, w, from, to, more)
  BY <1>1, <1>2 DEF Words
<1>4. QED
  BY <1>3 DEF Stacks

\* Items which leave the stack as it is.
Level(items, h, at) ==
    /\ IsSequence(items)
    /\ \A k \in 1 .. Len(items) : Balanced(items[k], h, at) /\ Rise(items[k]) = 0

LEMMA LevelStacks ==
    ASSUME NEW items, NEW h \in Nat, NEW at, Level(items, h, at)
    PROVE  Stacks(items, h, h, at)
<1>1. PICK n : n = Len(items)
  OBVIOUS
<1>2. PICK S : items \in Seq(S)
  BY DEF Level, IsSequence
<1>3. n \in Nat
  BY <1>1, <1>2
<1> DEFINE w == [k \in 1 .. n + 1 |-> h]
<1>4. /\ w \in [1 .. n + 1 -> Nat] /\ w[1] = h /\ w[n + 1] = h
      /\ \A k \in 1 .. n : w[k] = h /\ w[k + 1] = h
  BY <1>3
<1> HIDE DEF w
<1>5. ASSUME NEW k \in 1 .. n
      PROVE  Balanced(items[k], w[k], at) /\ w[k + 1] = w[k] + Rise(items[k])
  <2>1. Balanced(items[k], h, at) /\ Rise(items[k]) = 0
    BY <1>1 DEF Level
  <2>2. h + 0 = h
    OBVIOUS
  <2>3. QED
    BY <1>4, <2>1, <2>2
<1>6. Words(items, w, h, h, at)
  BY <1>1, <1>4, <1>5 DEF Words
<1>7. QED
  BY <1>6 DEF Stacks, Level

LEMMA JoinLevel ==
    ASSUME NEW a, NEW b, NEW h, NEW at, Level(a, h, at), Level(b, h, at)
    PROVE  Level(a \o b, h, at)
<1>1. PICK m, n, items : m = Len(a) /\ n = Len(b) /\ items = a \o b
  OBVIOUS
<1>2. /\ m \in Nat /\ n \in Nat /\ IsSequence(items) /\ Len(items) = m + n
      /\ \A k \in 1 .. m : items[k] = a[k]
      /\ \A k \in m + 1 .. m + n : items[k] = b[k - m]
  BY <1>1, JoinIsSequence DEF Level
<1>3. /\ \A k \in 1 .. m : Balanced(a[k], h, at) /\ Rise(a[k]) = 0
      /\ \A k \in 1 .. n : Balanced(b[k], h, at) /\ Rise(b[k]) = 0
  BY <1>1 DEF Level
<1>4. ASSUME NEW k \in 1 .. m + n PROVE Balanced(items[k], h, at) /\ Rise(items[k]) = 0
  <2>1. CASE k <= m
    <3>1. k \in 1 .. m
      BY <1>2, <2>1
    <3>2. QED
      BY <1>2, <1>3, <3>1
  <2>2. CASE k > m
    <3>1. k - m \in 1 .. n /\ items[k] = b[k - m]
      BY <1>2, <2>2
    <3>2. QED
      BY <1>3, <3>1
  <2>3. QED
    BY <1>2, <2>1, <2>2
<1>5. QED
  BY <1>1, <1>2, <1>4 DEF Level

LEMMA OneLevel ==
    ASSUME NEW item, NEW h, NEW at, Balanced(item, h, at), Rise(item) = 0
    PROVE  Level(<<item>>, h, at)
<1>1. Len(<<item>>) = 1 /\ <<item>>[1] = item /\ <<item>> \in Seq({item})
  OBVIOUS
<1>2. IsSequence(<<item>>)
  BY <1>1 DEF IsSequence
<1>3. \A k \in 1 .. Len(<<item>>) : <<item>>[k] = item
  BY <1>1
<1>4. QED
  BY <1>2, <1>3 DEF Level

LEMMA TwoLevel ==
    ASSUME NEW a, NEW b, NEW h, NEW at, Level(<<a>>, h, at), Level(<<b>>, h, at)
    PROVE  Level(<<a, b>>, h, at)
<1>1. Level(<<a>> \o <<b>>, h, at)
  BY JoinLevel
<1>2. QED
  BY <1>1, TwoJoin

LEMMA ThreeLevel ==
    ASSUME NEW a, NEW b, NEW c, NEW h, NEW at,
           Level(<<a>>, h, at), Level(<<b>>, h, at), Level(<<c>>, h, at)
    PROVE  Level(<<a, b, c>>, h, at)
<1>1. Level(<<b, c>>, h, at)
  BY TwoLevel
<1>2. Level(<<a>> \o <<b, c>>, h, at)
  BY <1>1, JoinLevel
<1>3. QED
  BY <1>2, ThreeJoin

LEMMA FourLevel ==
    ASSUME NEW a, NEW b, NEW c, NEW d, NEW h, NEW at,
           Level(<<a>>, h, at), Level(<<b>>, h, at), Level(<<c>>, h, at), Level(<<d>>, h, at)
    PROVE  Level(<<a, b, c, d>>, h, at)
<1>1. Level(<<b, c, d>>, h, at)
  BY ThreeLevel
<1>2. Level(<<a>> \o <<b, c, d>>, h, at)
  BY <1>1, JoinLevel
<1>3. QED
  BY <1>2, FourJoin

LEMMA FiveLevel ==
    ASSUME NEW a, NEW b, NEW c, NEW d, NEW e, NEW h, NEW at,
           Level(<<a>>, h, at), Level(<<b>>, h, at), Level(<<c>>, h, at), Level(<<d>>, h, at),
           Level(<<e>>, h, at)
    PROVE  Level(<<a, b, c, d, e>>, h, at)
<1>1. Level(<<b, c, d, e>>, h, at)
  BY FourLevel
<1>2. Level(<<a>> \o <<b, c, d, e>>, h, at)
  BY <1>1, JoinLevel
<1>3. QED
  BY <1>2, FiveJoin

LEMMA HasJoin ==
    ASSUME NEW a, IsSequence(a), NEW b, IsSequence(b), NEW label
    PROVE  Has(a \o b, label) <=> Has(a, label) \/ Has(b, label)
<1>1. PICK m, n, items : m = Len(a) /\ n = Len(b) /\ items = a \o b
  OBVIOUS
<1>2. /\ m \in Nat /\ n \in Nat /\ Len(items) = m + n
      /\ \A k \in 1 .. m : items[k] = a[k]
      /\ \A k \in m + 1 .. m + n : items[k] = b[k - m]
  BY <1>1, JoinIsSequence
<1>3. ASSUME Has(items, label) PROVE Has(a, label) \/ Has(b, label)
  <2>1. PICK k \in 1 .. m + n : items[k].op = "label" /\ items[k].label = label
    BY <1>2, <1>3 DEF Has
  <2>2. CASE k <= m
    <3>1. k \in 1 .. m /\ items[k] = a[k]
      BY <1>2, <2>2
    <3>2. QED
      BY <1>1, <2>1, <3>1 DEF Has
  <2>3. CASE k > m
    <3>1. k - m \in 1 .. n /\ k \in m + 1 .. m + n
      BY <1>2, <2>1, <2>3
    <3>2. items[k] = b[k - m]
      BY <1>2, <3>1
    <3>3. QED
      BY <1>1, <2>1, <3>1, <3>2 DEF Has
  <2>4. QED
    BY <1>2, <2>2, <2>3
<1>4. ASSUME Has(a, label) PROVE Has(items, label)
  <2>1. PICK k \in 1 .. m : a[k].op = "label" /\ a[k].label = label
    BY <1>1, <1>4 DEF Has
  <2>2. k \in 1 .. m + n /\ items[k] = a[k]
    BY <1>2
  <2>3. QED
    BY <1>2, <2>1, <2>2 DEF Has
<1>5. ASSUME Has(b, label) PROVE Has(items, label)
  <2>1. PICK k \in 1 .. n : b[k].op = "label" /\ b[k].label = label
    BY <1>1, <1>5 DEF Has
  <2>2. m + k \in 1 .. m + n /\ m + k \in m + 1 .. m + n /\ (m + k) - m = k
    BY <1>2
  <2>3. items[m + k] = b[k]
    BY <1>2, <2>2
  <2>4. QED
    BY <1>2, <2>1, <2>2, <2>3 DEF Has
<1>6. QED
  BY <1>1, <1>3, <1>4, <1>5

\* A label which is pending is what comes next, or behind it.
LEMMA HasTail ==
    ASSUME NEW items, IsSequence(items), items # <<>>, NEW label, Has(items, label)
    PROVE  \/ Head(items).op = "label" /\ Head(items).label = label
           \/ Has(Tail(items), label)
<1>1. PICK S : items \in Seq(S)
  BY DEF IsSequence
<1>2. PICK n, first, tail : n = Len(items) /\ first = Head(items) /\ tail = Tail(items)
  OBVIOUS
<1>3. /\ n \in Nat /\ n >= 1 /\ Len(tail) = n - 1
      /\ \A k \in 1 .. n - 1 : tail[k] = items[k + 1]
      /\ first = items[1]
  BY <1>1, <1>2
<1>4. PICK k \in 1 .. n : items[k].op = "label" /\ items[k].label = label
  BY <1>2 DEF Has
<1>5. CASE k = 1
  BY <1>2, <1>3, <1>4, <1>5
<1>6. CASE k # 1
  <2>1. k - 1 \in 1 .. n - 1 /\ (k - 1) + 1 = k
    BY <1>3, <1>6
  <2>2. tail[k - 1] = items[k]
    BY <1>3, <2>1
  <2>3. Has(tail, label)
    BY <1>3, <1>4, <2>1, <2>2 DEF Has
  <2>4. QED
    BY <1>2, <2>3
<1>7. QED
  BY <1>5, <1>6

-----------------------------------------------------------------------------
(***************************************************************************)
(* What each function of the walk puts down leaves the stack as it is.     *)
(***************************************************************************)
Quiet == Loads \cup Frees \cup
         {"sub", "less", "add", "move", "to bool", "write", "spill", "reload", "param", "pack"}

LEMMA QuietLevel ==
    ASSUME NEW item, "op" \in DOMAIN item, item.op \in Quiet, NEW h, NEW at
    PROVE  Balanced(item, h, at) /\ Rise(item) = 0 /\ Level(<<item>>, h, at)
<1>1. Balanced(item, h, at)
  BY DEF Quiet, Balanced, Aligned, Labelled, Jumps, Loads, Frees
<1>2. Rise(item) = 0
  BY DEF Quiet, Rise, Loads, Frees
<1>3. QED
  BY <1>1, <1>2, OneLevel

LEMMA LabelLevel ==
    ASSUME NEW item, "op" \in DOMAIN item, "label" \in DOMAIN item, item.op \in Labelled,
           NEW at, item.label \in DOMAIN at
    PROVE  Level(<<item>>, at[item.label], at)
<1>1. Balanced(item, at[item.label], at)
  BY DEF Balanced, Aligned, Labelled, Jumps
<1>2. Rise(item) = 0
  BY DEF Labelled, Jumps, Rise
<1>3. QED
  BY <1>1, <1>2, OneLevel

LEMMA WalkLevel ==
    ASSUME NEW root, NEW h \in Nat, h % 2 = 0, NEW at
    PROVE  Balanced(Walk(root), h, at) /\ Rise(Walk(root)) = 0 /\ Level(<<Walk(root)>>, h, at)
<1>1. PICK item : item = Walk(root)
  OBVIOUS
<1>2. "op" \in DOMAIN item /\ item.op = "expression"
  BY <1>1 DEF Walk
<1>3. Balanced(item, h, at)
  BY <1>2 DEF Balanced, Aligned, Labelled, Jumps
<1>4. Rise(item) = 0
  BY <1>2 DEF Rise
<1>5. QED
  BY <1>1, <1>3, <1>4, OneLevel

LEMMA LoadsQuiet ==
    ASSUME NEW value, NEW h, NEW at
    PROVE  /\ Level(<<Alloc>>, h, at) /\ Level(<<AllocAfterJump>>, h, at)
           /\ Level(<<Fetch>>, h, at) /\ Level(<<LoadInt(value)>>, h, at)
           /\ Level(<<LoadSymbol(value)>>, h, at) /\ Level(<<AddressOf(value)>>, h, at)
           /\ Level(<<LoadDeref(value)>>, h, at)
<1>1. "op" \in DOMAIN Alloc /\ Alloc.op \in Quiet
  BY DEF Alloc, Quiet, Loads
<1>2. "op" \in DOMAIN AllocAfterJump /\ AllocAfterJump.op \in Quiet
  BY DEF AllocAfterJump, Quiet, Loads
<1>3. "op" \in DOMAIN Fetch /\ Fetch.op \in Quiet
  BY DEF Fetch, Quiet, Loads
<1>4. "op" \in DOMAIN LoadInt(value) /\ LoadInt(value).op \in Quiet
  BY DEF LoadInt, Quiet, Loads
<1>5. "op" \in DOMAIN LoadSymbol(value) /\ LoadSymbol(value).op \in Quiet
  BY DEF LoadSymbol, Quiet, Loads
<1>6. "op" \in DOMAIN AddressOf(value) /\ AddressOf(value).op \in Quiet
  BY DEF AddressOf, LoadInt, Quiet, Loads
<1>7. "op" \in DOMAIN LoadDeref(value) /\ LoadDeref(value).op \in Quiet
  BY DEF LoadDeref, Quiet, Loads
<1>8. QED
  BY <1>1, <1>2, <1>3, <1>4, <1>5, <1>6, <1>7, QuietLevel

LEMMA OthersQuiet ==
    ASSUME NEW a, NEW b, NEW h, NEW at
    PROVE  /\ Level(<<Free(a)>>, h, at) /\ Level(<<FreeAfterJump(a)>>, h, at)
           /\ Level(<<Move(a, b)>>, h, at) /\ Level(<<ToBool>>, h, at)
           /\ Level(<<StoreDeref(a, b)>>, h, at)
<1>1. "op" \in DOMAIN Free(a) /\ Free(a).op \in Quiet
  BY DEF Free, Quiet, Frees
<1>2. "op" \in DOMAIN FreeAfterJump(a) /\ FreeAfterJump(a).op \in Quiet
  BY DEF FreeAfterJump, Quiet, Frees
<1>3. "op" \in DOMAIN Move(a, b) /\ Move(a, b).op \in Quiet
  BY DEF Move, Quiet
<1>4. "op" \in DOMAIN ToBool /\ ToBool.op \in Quiet
  BY DEF ToBool, Quiet
<1>5. "op" \in DOMAIN StoreDeref(a, b) /\ StoreDeref(a, b).op \in Quiet
  BY DEF StoreDeref, Quiet
<1>6. QED
  BY <1>1, <1>2, <1>3, <1>4, <1>5, QuietLevel

LEMMA LabelsLevel ==
    ASSUME NEW at, NEW label, label \in DOMAIN at, NEW h, at[label] = h, NEW kind
    PROVE  /\ Level(<<EmitLabel(label)>>, h, at) /\ Level(<<EmitJump(label)>>, h, at)
           /\ Level(<<JumpIfZero(label)>>, h, at) /\ Level(<<JumpIfNotLess(label)>>, h, at)
           /\ Level(<<JumpIfSettled(kind, label)>>, h, at)
<1>1. ASSUME NEW item, "op" \in DOMAIN item, "label" \in DOMAIN item, item.op \in Labelled,
             item.label = label
      PROVE  Level(<<item>>, h, at)
  BY <1>1, LabelLevel
<1>2. Level(<<EmitLabel(label)>>, h, at)
  <2>1. PICK item : item = EmitLabel(label)
    OBVIOUS
  <2>2. /\ "op" \in DOMAIN item /\ "label" \in DOMAIN item /\ item.op \in Labelled
        /\ item.label = label
    BY <2>1 DEF EmitLabel, Labelled
  <2>3. QED
    BY <1>1, <2>1, <2>2
<1>3. Level(<<EmitJump(label)>>, h, at)
  <2>1. PICK item : item = EmitJump(label)
    OBVIOUS
  <2>2. /\ "op" \in DOMAIN item /\ "label" \in DOMAIN item /\ item.op \in Labelled
        /\ item.label = label
    BY <2>1 DEF EmitJump, Labelled, Jumps
  <2>3. QED
    BY <1>1, <2>1, <2>2
<1>4. Level(<<JumpIfZero(label)>>, h, at)
  <2>1. PICK item : item = JumpIfZero(label)
    OBVIOUS
  <2>2. /\ "op" \in DOMAIN item /\ "label" \in DOMAIN item /\ item.op \in Labelled
        /\ item.label = label
    BY <2>1 DEF JumpIfZero, Labelled, Jumps
  <2>3. QED
    BY <1>1, <2>1, <2>2
<1>5. Level(<<JumpIfNotLess(label)>>, h, at)
  <2>1. PICK item : item = JumpIfNotLess(label)
    OBVIOUS
  <2>2. /\ "op" \in DOMAIN item /\ "label" \in DOMAIN item /\ item.op \in Labelled
        /\ item.label = label
    BY <2>1 DEF JumpIfNotLess, Labelled, Jumps
  <2>3. QED
    BY <1>1, <2>1, <2>2
<1>6. Level(<<JumpIfNonZero(label)>>, h, at)
  <2>1. PICK item : item = JumpIfNonZero(label)
    OBVIOUS
  <2>2. /\ "op" \in DOMAIN item /\ "label" \in DOMAIN item /\ item.op \in Labelled
        /\ item.label = label
    BY <2>1 DEF JumpIfNonZero, Labelled, Jumps
  <2>3. QED
    BY <1>1, <2>1, <2>2
<1>7. QED
  BY <1>2, <1>3, <1>4, <1>5, <1>6 DEF JumpIfSettled

LEMMA InPlaceLevel ==
    ASSUME NEW op \in {"sub", "less", "add"}, NEW a, NEW b, NEW h, NEW at
    PROVE  Level(InPlace(op, a, b), h, at)
<1>1. PICK x, y : x = [op |-> op, regs |-> <<a, b>>] /\ y = Free(b)
  OBVIOUS
<1>2. "op" \in DOMAIN x /\ x.op \in Quiet
  BY <1>1 DEF Quiet
<1>3. Level(<<x>>, h, at) /\ Level(<<y>>, h, at)
  BY <1>1, <1>2, QuietLevel, OthersQuiet
<1>4. InPlace(op, a, b) = <<x, y>>
  BY <1>1 DEF InPlace
<1>5. QED
  BY <1>3, <1>4, TwoLevel

LEMMA SettleLevel ==
    ASSUME NEW item, NEW h, NEW at, Level(<<item>>, h, at)
    PROVE  Level(Settle(item), h, at)
<1>1. Level(<<Move(2, 1)>>, h, at) /\ Level(<<Free(1)>>, h, at)
  BY OthersQuiet
<1>2. QED
  BY <1>1, ThreeLevel DEF Settle

LEMMA SideLevel ==
    ASSUME NEW side, NEW jump, NEW h \in Nat, h % 2 = 0, NEW at, Level(<<jump>>, h, at)
    PROVE  Level(GenSide(side, jump), h, at)
<1>1. Level(<<Walk(side)>>, h, at) /\ Level(<<FreeAfterJump(1)>>, h, at)
  BY WalkLevel, OthersQuiet
<1>2. QED
  BY <1>1, ThreeLevel DEF GenSide

LEMMA OperandsLevel ==
    ASSUME NEW kind, kind \in {"sub", "less"}, NEW left, NEW right,
           NEW h \in Nat, h % 2 = 0, NEW at
    PROVE  Level(<<Walk(left), Walk(right)>> \o InPlace(kind, 2, 1), h, at)
<1>1. Level(<<Walk(left), Walk(right)>>, h, at)
  BY WalkLevel, TwoLevel
<1>2. kind \in {"sub", "less", "add"}
  OBVIOUS
<1>3. Level(InPlace(kind, 2, 1), h, at)
  BY <1>2, InPlaceLevel
<1>4. QED
  BY <1>1, <1>3, JoinLevel

LEMMA AssignLevel ==
    ASSUME NEW root, NEW h \in Nat, h % 2 = 0, NEW at
    PROVE  Level(<<Walk(root.value), AddressOf(root.cell), StoreDeref(2, 1), Free(1)>>, h, at)
<1>1. Level(<<Walk(root.value)>>, h, at) /\ Level(<<AddressOf(root.cell)>>, h, at)
  BY WalkLevel, LoadsQuiet
<1>2. Level(<<StoreDeref(2, 1)>>, h, at)
  BY OthersQuiet
<1>3. Level(<<Free(1)>>, h, at)
  BY OthersQuiet
<1>4. QED
  BY <1>1, <1>2, <1>3, FourLevel

LEMMA AssignOpLevel ==
    ASSUME NEW root, NEW h \in Nat, h % 2 = 0, NEW at
    PROVE  Level(<<Walk(root.value), AddressOf(root.cell), LoadDeref(1)>>
                     \o InPlace("add", 1, 3) \o <<StoreDeref(1, 2), Free(2)>>, h, at)
<1>1. Level(<<Walk(root.value)>>, h, at) /\ Level(<<AddressOf(root.cell)>>, h, at)
  BY WalkLevel, LoadsQuiet
<1>2. Level(<<LoadDeref(1)>>, h, at)
  BY LoadsQuiet
<1>3. Level(<<Walk(root.value), AddressOf(root.cell), LoadDeref(1)>>, h, at)
  BY <1>1, <1>2, ThreeLevel
<1>4. Level(InPlace("add", 1, 3), h, at)
  BY InPlaceLevel
<1>5. Level(<<StoreDeref(1, 2)>>, h, at)
  BY OthersQuiet
<1>6. Level(<<Free(2)>>, h, at)
  BY OthersQuiet
<1>7. Level(<<StoreDeref(1, 2), Free(2)>>, h, at)
  BY <1>5, <1>6, TwoLevel
<1>8. QED
  BY <1>3, <1>4, <1>7, JoinLevel

LEMMA IncDecLevel ==
    ASSUME NEW root, NEW h, NEW at
    PROVE  Level(StepPlace(root) \o <<Free(2)>>, h, at)
<1>1. Level(<<AddressOf(root.cell)>>, h, at) /\ Level(<<Alloc>>, h, at)
  BY LoadsQuiet
<1>2. Level(<<LoadDeref(1)>>, h, at) /\ Level(<<LoadInt(1)>>, h, at)
  BY LoadsQuiet
<1>3. Level(<<Move(1, 2)>>, h, at)
  BY OthersQuiet
<1>4. Level(<<StoreDeref(2, 3)>>, h, at)
  BY OthersQuiet
<1>5. Level(<<Free(3)>>, h, at)
  BY OthersQuiet
<1>6. Level(<<Free(2)>>, h, at)
  BY OthersQuiet
<1>7. Level(<<AddressOf(root.cell), LoadDeref(1), Alloc, Move(1, 2), LoadInt(1)>>, h, at)
  BY <1>1, <1>2, <1>3, FiveLevel
<1>8. Level(InPlace("add", 3, 1), h, at)
  BY InPlaceLevel
<1>9. Level(<<StoreDeref(2, 3), Free(3)>>, h, at)
  BY <1>4, <1>5, TwoLevel
<1>10. Level(StepPlace(root), h, at)
  BY <1>7, <1>8, <1>9, JoinLevel DEF StepPlace
<1>11. QED
  BY <1>6, <1>10, JoinLevel

\* Two labels are put down: behind the jump and at the end.
LEMMA HasBoth ==
    ASSUME NEW a, IsSequence(a), NEW b, IsSequence(b), NEW jump, NEW one, NEW other
    PROVE  LET items == a \o <<jump, EmitLabel(one)>> \o b \o <<EmitLabel(other)>>
           IN  Has(items, one) /\ Has(items, other)
<1>1. PICK x, y : x = <<jump, EmitLabel(one)>> /\ y = <<EmitLabel(other)>>
  OBVIOUS
<1>2. Len(x) = 2 /\ x[2] = EmitLabel(one) /\ Len(y) = 1 /\ y[1] = EmitLabel(other)
  BY <1>1
<1>3. Has(x, one) /\ Has(y, other)
  <2>1. /\ EmitLabel(one).op = "label" /\ EmitLabel(one).label = one
        /\ EmitLabel(other).op = "label" /\ EmitLabel(other).label = other
    BY DEF EmitLabel
  <2>2. 2 \in 1 .. Len(x) /\ x[2].op = "label" /\ x[2].label = one
    BY <1>2, <2>1
  <2>3. 1 \in 1 .. Len(y) /\ y[1].op = "label" /\ y[1].label = other
    BY <1>2, <2>1
  <2>4. QED
    BY <2>2, <2>3 DEF Has
<1>4. IsSequence(x) /\ IsSequence(y)
  <2>1. x \in Seq({jump, EmitLabel(one)}) /\ y \in Seq({EmitLabel(other)})
    BY <1>1
  <2>2. QED
    BY <2>1 DEF IsSequence
<1>5. IsSequence(a \o x) /\ Has(a \o x, one)
  BY <1>3, <1>4, HasJoin, JoinIsSequence
<1>6. IsSequence(a \o x \o b) /\ Has(a \o x \o b, one)
  BY <1>5, HasJoin, JoinIsSequence
<1>7. Has(a \o x \o b \o y, one) /\ Has(a \o x \o b \o y, other)
  BY <1>3, <1>4, <1>6, HasJoin
<1>8. QED
  BY <1>1, <1>7

LEMMA LogicLevel ==
    ASSUME NEW left, NEW right, NEW h \in Nat, h % 2 = 0, NEW at, NEW jump, NEW settled,
           NEW end_label, NEW v, NEW u,
           Level(<<jump>>, h, at), settled \in DOMAIN at, at[settled] = h,
           end_label \in DOMAIN at, at[end_label] = h
    PROVE  LET items == <<Alloc>> \o GenSide(left, jump) \o GenSide(right, jump)
                        \o Settle(LoadInt(v)) \o <<EmitJump(end_label), EmitLabel(settled)>>
                        \o Settle(LoadInt(u)) \o <<EmitLabel(end_label)>>
           IN  Level(items, h, at) /\ Has(items, settled) /\ Has(items, end_label)
<1>1. PICK a, b : /\ a = <<Alloc>> \o GenSide(left, jump) \o GenSide(right, jump)
                         \o Settle(LoadInt(v))
                  /\ b = Settle(LoadInt(u))
  OBVIOUS
<1>2. Level(<<Alloc>>, h, at)
  BY LoadsQuiet
<1>3. Level(GenSide(left, jump), h, at) /\ Level(GenSide(right, jump), h, at)
  BY SideLevel
<1>4. Level(Settle(LoadInt(v)), h, at)
  <2>1. Level(<<LoadInt(v)>>, h, at)
    BY LoadsQuiet
  <2>2. QED
    BY <2>1, SettleLevel
<1>5. Level(b, h, at)
  <2>1. Level(<<LoadInt(u)>>, h, at)
    BY LoadsQuiet
  <2>2. QED
    BY <1>1, <2>1, SettleLevel
<1>6. Level(a, h, at)
  <2>1. Level(<<Alloc>> \o GenSide(left, jump), h, at)
    BY <1>2, <1>3, JoinLevel
  <2>2. Level(<<Alloc>> \o GenSide(left, jump) \o GenSide(right, jump), h, at)
    BY <1>3, <2>1, JoinLevel
  <2>3. QED
    BY <1>1, <1>4, <2>2, JoinLevel
<1>7. Level(<<EmitJump(end_label)>>, h, at) /\ Level(<<EmitLabel(end_label)>>, h, at)
  BY LabelsLevel
<1>8. Level(<<EmitLabel(settled)>>, h, at)
  BY LabelsLevel
<1>9. Level(<<EmitJump(end_label), EmitLabel(settled)>>, h, at)
  BY <1>7, <1>8, TwoLevel
<1>10. Level(a \o <<EmitJump(end_label), EmitLabel(settled)>>, h, at)
  BY <1>6, <1>9, JoinLevel
<1>11. Level(a \o <<EmitJump(end_label), EmitLabel(settled)>> \o b, h, at)
  BY <1>5, <1>10, JoinLevel
<1>12. Level(a \o <<EmitJump(end_label), EmitLabel(settled)>> \o b \o <<EmitLabel(end_label)>>,
             h, at)
  BY <1>7, <1>11, JoinLevel
<1>13. IsSequence(a) /\ IsSequence(b)
  BY <1>5, <1>6 DEF Level
<1>14. PICK items : items = a \o <<EmitJump(end_label), EmitLabel(settled)>> \o b
                            \o <<EmitLabel(end_label)>>
  OBVIOUS
<1>15. Has(items, settled) /\ Has(items, end_label)
  BY <1>13, <1>14, HasBoth
<1>16. QED
  BY <1>1, <1>12, <1>14, <1>15

LEMMA ConditionLevel ==
    ASSUME NEW cond, NEW h \in Nat, h % 2 = 0, NEW at, NEW label, label \in DOMAIN at,
           at[label] = h
    PROVE  Level(GenCondition(cond, label), h, at)
<1>1. Level(<<JumpIfNotLess(label)>>, h, at) /\ Level(<<JumpIfZero(label)>>, h, at)
  BY LabelsLevel
<1>2. Level(<<FreeAfterJump(1)>>, h, at) /\ Level(<<ToBool>>, h, at)
  BY OthersQuiet
<1>3. Level(<<FreeAfterJump(2)>>, h, at)
  BY OthersQuiet
<1>4. \A root : Level(<<Walk(root)>>, h, at)
  BY WalkLevel
<1>5. CASE cond.kind = "less"
  <2>1. Level(<<Walk(cond.left), Walk(cond.right), JumpIfNotLess(label),
                FreeAfterJump(2), FreeAfterJump(1)>>, h, at)
    BY <1>1, <1>2, <1>3, <1>4, FiveLevel
  <2>2. QED
    BY <1>5, <2>1 DEF GenCondition
<1>6. CASE cond.kind # "less"
  <2>1. Level(<<Walk(cond), ToBool, JumpIfZero(label), FreeAfterJump(1)>>, h, at)
    BY <1>1, <1>2, <1>4, FourLevel
  <2>2. QED
    BY <1>6, <2>1 DEF GenCondition
<1>7. QED
  BY <1>5, <1>6

LEMMA TernaryLevel ==
    ASSUME NEW cond, NEW mid, NEW right, NEW h \in Nat, h % 2 = 0, NEW at, NEW false_label,
           NEW end_label, false_label \in DOMAIN at, at[false_label] = h,
           end_label \in DOMAIN at, at[end_label] = h
    PROVE  LET items == GenCondition(cond, false_label) \o <<AllocAfterJump>>
                        \o Settle(Walk(mid)) \o <<EmitJump(end_label), EmitLabel(false_label)>>
                        \o Settle(Walk(right)) \o <<EmitLabel(end_label)>>
           IN  Level(items, h, at) /\ Has(items, false_label) /\ Has(items, end_label)
<1>1. PICK a, b : /\ a = GenCondition(cond, false_label) \o <<AllocAfterJump>>
                         \o Settle(Walk(mid))
                  /\ b = Settle(Walk(right))
  OBVIOUS
<1>2. Level(<<AllocAfterJump>>, h, at)
  BY LoadsQuiet
<1>3. Level(GenCondition(cond, false_label), h, at)
  BY ConditionLevel
<1>4. Level(Settle(Walk(mid)), h, at) /\ Level(b, h, at)
  BY <1>1, WalkLevel, SettleLevel
<1>5. Level(a, h, at)
  <2>1. Level(GenCondition(cond, false_label) \o <<AllocAfterJump>>, h, at)
    BY <1>2, <1>3, JoinLevel
  <2>2. QED
    BY <1>1, <1>4, <2>1, JoinLevel
<1>6. Level(<<EmitJump(end_label)>>, h, at) /\ Level(<<EmitLabel(end_label)>>, h, at)
  BY LabelsLevel
<1>7. Level(<<EmitLabel(false_label)>>, h, at)
  BY LabelsLevel
<1>8. Level(<<EmitJump(end_label), EmitLabel(false_label)>>, h, at)
  BY <1>6, <1>7, TwoLevel
<1>9. Level(a \o <<EmitJump(end_label), EmitLabel(false_label)>>, h, at)
  BY <1>5, <1>8, JoinLevel
<1>10. Level(a \o <<EmitJump(end_label), EmitLabel(false_label)>> \o b, h, at)
  BY <1>4, <1>9, JoinLevel
<1>11. Level(a \o <<EmitJump(end_label), EmitLabel(false_label)>> \o b
                 \o <<EmitLabel(end_label)>>, h, at)
  BY <1>6, <1>10, JoinLevel
<1>12. IsSequence(a) /\ IsSequence(b)
  BY <1>4, <1>5 DEF Level
<1>13. PICK items : items = a \o <<EmitJump(end_label), EmitLabel(false_label)>> \o b
                            \o <<EmitLabel(end_label)>>
  OBVIOUS
<1>14. Has(items, false_label) /\ Has(items, end_label)
  BY <1>12, <1>13, HasBoth
<1>15. QED
  BY <1>1, <1>11, <1>13, <1>14


\* How many words of arguments stand on the stack at this item of the three an
\* argument takes.
Pushed(k) == 2 * ((k - 1) \div 3) + (IF k % 3 = 0 THEN 2 ELSE 0)

LEMMA PushedIs ==
    ASSUME NEW k \in Nat \ {0}
    PROVE  /\ Pushed(k) \in Nat /\ Pushed(k) % 2 = 0
           /\ k % 3 = 1 => Pushed(k + 1) = Pushed(k)
           /\ k % 3 = 2 => Pushed(k + 1) = Pushed(k) + 2
           /\ k % 3 = 0 => Pushed(k + 1) = Pushed(k)
BY DEF Pushed

LEMMA AllPushed ==
    ASSUME NEW n \in Nat
    PROVE  Pushed(1) = 0 /\ Pushed(3 * n + 1) = 2 * n
BY DEF Pushed

LEMMA EvenSum ==
    ASSUME NEW a \in Nat, NEW b \in Nat, a % 2 = 0, b % 2 = 0
    PROVE  a + b \in Nat /\ (a + b) % 2 = 0
OBVIOUS

LEMMA ArgumentsStack ==
    ASSUME NEW args, IsSequence(args), NEW h \in Nat, h % 2 = 0, NEW at
    PROVE  Stacks(GenArguments(args), h, h + 2 * Len(args), at)
<1>1. PICK n, items : n = Len(args) /\ items = GenArguments(args)
  OBVIOUS
<1>2. n \in Nat
  BY <1>1 DEF IsSequence
<1>3. 3 * n \in Nat
  BY <1>2
<1>4. items = [k \in 1 .. 3 * n |->
                  CASE k % 3 = 1 -> Walk(args[n - k \div 3])
                    [] k % 3 = 2 -> PushArgument
                    [] k % 3 = 0 -> Free(1)]
  BY <1>1 DEF GenArguments
<1>5. /\ IsSequence(items) /\ Len(items) = 3 * n
  <2>1. PICK m : m = 3 * n
    OBVIOUS
  <2>2. items = [k \in 1 .. m |-> items[k]]
    BY <1>4, <2>1
  <2>3. QED
    BY <1>3, <2>1, <2>2, RunIs
<1> DEFINE w == [k \in 1 .. 3 * n + 1 |-> h + Pushed(k)]
<1>6. /\ w \in [1 .. 3 * n + 1 -> Nat]
      /\ \A k \in 1 .. 3 * n + 1 : w[k] = h + Pushed(k)
  <2>1. ASSUME NEW k \in 1 .. 3 * n + 1 PROVE h + Pushed(k) \in Nat
    <3>1. Pushed(k) \in Nat
      BY <1>3, PushedIs
    <3>2. QED
      BY <3>1
  <2>2. QED
    BY <2>1
<1> HIDE DEF w
<1>7. ASSUME NEW k \in 1 .. 3 * n
      PROVE  /\ Balanced(items[k], w[k], at) /\ w[k + 1] = w[k] + Rise(items[k])
  <2>1. k \in Nat \ {0} /\ k \in 1 .. 3 * n + 1 /\ k + 1 \in 1 .. 3 * n + 1
    BY <1>3
  <2>2. PICK p, q : p = Pushed(k) /\ q = Pushed(k + 1)
    OBVIOUS
  <2>3. w[k] = h + p /\ w[k + 1] = h + q
    BY <1>6, <2>1, <2>2
  <2>4. /\ p \in Nat /\ p % 2 = 0
        /\ k % 3 = 1 => q = p
        /\ k % 3 = 2 => q = p + 2
        /\ k % 3 = 0 => q = p
    BY <2>1, <2>2, PushedIs
  <2>5. h + p \in Nat /\ (h + p) % 2 = 0 /\ (h + p) + 0 = h + p
    BY <2>4, EvenSum
  <2>6. CASE k % 3 = 1
    <3>1. PICK root : items[k] = Walk(root)
      BY <1>4, <2>6
    <3>2. Balanced(Walk(root), h + p, at) /\ Rise(Walk(root)) = 0
      BY <2>5, WalkLevel
    <3>3. QED
      BY <2>3, <2>4, <2>5, <2>6, <3>1, <3>2
  <2>7. CASE k % 3 = 2
    <3>1. PICK item : item = PushArgument
      OBVIOUS
    <3>2. items[k] = item
      BY <1>4, <2>7, <3>1
    <3>3. "op" \in DOMAIN item /\ item.op = "push argument"
      BY <3>1 DEF PushArgument
    <3>4. Balanced(item, h + p, at)
      BY <3>3 DEF Balanced, Aligned, Labelled, Jumps
    <3>5. Rise(item) = 2
      BY <3>3 DEF Rise
    <3>6. h + (p + 2) = (h + p) + 2
      BY <2>4
    <3>7. QED
      BY <2>3, <2>4, <2>7, <3>2, <3>4, <3>5, <3>6
  <2>8. CASE k % 3 = 0
    <3>1. PICK item : item = Free(1)
      OBVIOUS
    <3>2. items[k] = item
      BY <1>4, <2>8, <3>1
    <3>3. "op" \in DOMAIN item /\ item.op \in Quiet
      BY <3>1 DEF Free, Quiet, Frees
    <3>4. Balanced(item, h + p, at) /\ Rise(item) = 0
      BY <3>3, QuietLevel
    <3>5. QED
      BY <2>3, <2>4, <2>5, <2>8, <3>2, <3>4
  <2>9. k % 3 \in {0, 1, 2}
    BY <2>1
  <2>10. QED
    BY <2>6, <2>7, <2>8, <2>9
<1>8. w[1] = h /\ w[3 * n + 1] = h + 2 * n
  <2>1. 1 \in 1 .. 3 * n + 1 /\ 3 * n + 1 \in 1 .. 3 * n + 1
    BY <1>3
  <2>2. Pushed(1) = 0 /\ Pushed(3 * n + 1) = 2 * n /\ h + 0 = h
    BY <1>2, AllPushed
  <2>3. QED
    BY <1>6, <2>1, <2>2
<1>9. Words(items, w, h, h + 2 * n, at)
  BY <1>5, <1>6, <1>7, <1>8 DEF Words
<1>10. QED
  BY <1>1, <1>5, <1>9 DEF Stacks

\* The arguments are given back with the call.
LEMMA CallStacks ==
    ASSUME NEW args, IsSequence(args), NEW named \in 0 .. Len(args),
           NEW h \in Nat, h % 2 = 0, NEW at
    PROVE  Stacks(GenArguments(args) \o <<Call(Len(args), named), Fetch>>, h, h, at)
<1>1. PICK n, item : n = Len(args) /\ item = Call(n, named)
  OBVIOUS
<1>2. n \in Nat
  BY <1>1 DEF IsSequence
<1>3. 2 * n \in Nat /\ (2 * n) % 2 = 0
  BY <1>2
<1>4. h + 2 * n \in Nat /\ (h + 2 * n) % 2 = 0
  BY <1>3, EvenSum
<1>5. "op" \in DOMAIN item /\ item.op = "call sequence" /\ item.count = n
      /\ item.named = named
  BY <1>1 DEF Call
<1>6. Balanced(item, h + 2 * n, at)
  BY <1>1, <1>2, <1>4, <1>5 DEF Balanced, Aligned, Labelled, Jumps
<1>7. Rise(item) = -(2 * n)
  BY <1>5 DEF Rise
<1>8. h = (h + 2 * n) + (-(2 * n))
  <2>1. ASSUME NEW a \in Nat, NEW b \in Nat PROVE a = (a + b) + (-b)
    OBVIOUS
  <2>2. QED
    BY <1>3, <2>1
<1>9. Stacks(<<item>>, h + 2 * n, h, at)
  BY <1>4, <1>6, <1>7, <1>8, OneStacks
<1>10. Stacks(<<Fetch>>, h, h, at)
  BY LoadsQuiet, LevelStacks
<1>11. Stacks(<<item>> \o <<Fetch>>, h + 2 * n, h, at)
  BY <1>9, <1>10, JoinStacks
<1>12. Stacks(<<item, Fetch>>, h + 2 * n, h, at)
  BY <1>11, TwoJoin
<1>13. Stacks(GenArguments(args), h, h + 2 * n, at)
  BY <1>1, ArgumentsStack
<1>14. Stacks(GenArguments(args) \o <<item, Fetch>>, h, h, at)
  BY <1>12, <1>13, JoinStacks
<1>15. QED
  BY <1>1, <1>14

-----------------------------------------------------------------------------
(***************************************************************************)
(* What Call() writes gives back the words of the arguments, and calls the *)
(* function where the stack is a multiple of sixteen bytes.                *)
(***************************************************************************)
LEMMA PushesStack ==
    ASSUME NEW n \in Nat, NEW items, IsSequence(items), Len(items) = n,
           \A k \in 1 .. n : "op" \in DOMAIN items[k] /\ items[k].op = "push",
           NEW h \in Nat, NEW at
    PROVE  Stacks(items, h, h + n, at)
<1> DEFINE w == [k \in 1 .. n + 1 |-> h + (k - 1)]
<1>1. w \in [1 .. n + 1 -> Nat] /\ \A k \in 1 .. n + 1 : w[k] = h + (k - 1)
  OBVIOUS
<1> HIDE DEF w
<1>2. ASSUME NEW k \in 1 .. n
      PROVE  Balanced(items[k], w[k], at) /\ w[k + 1] = w[k] + Rise(items[k])
  <2>1. PICK item : item = items[k]
    OBVIOUS
  <2>2. "op" \in DOMAIN item /\ item.op = "push"
    BY <2>1
  <2>3. Balanced(item, w[k], at)
    BY <2>2 DEF Balanced, Aligned, Labelled, Jumps
  <2>4. Rise(item) = 1
    BY <2>2 DEF Rise
  <2>5. w[k + 1] = w[k] + 1
    BY <1>1
  <2>6. QED
    BY <2>1, <2>3, <2>4, <2>5
<1>3. w[1] = h /\ w[n + 1] = h + n
  BY <1>1
<1>4. Words(items, w, h, h + n, at)
  BY <1>1, <1>2, <1>3 DEF Words
<1>5. QED
  BY <1>4 DEF Stacks

LEMMA PopsStack ==
    ASSUME NEW n \in Nat, NEW items, IsSequence(items), Len(items) = n,
           \A k \in 1 .. n : "op" \in DOMAIN items[k] /\ items[k].op = "pop",
           NEW h \in Nat, NEW at
    PROVE  Stacks(items, h + n, h, at)
<1> DEFINE w == [k \in 1 .. n + 1 |-> h + n - (k - 1)]
<1>1. w \in [1 .. n + 1 -> Nat] /\ \A k \in 1 .. n + 1 : w[k] = h + n - (k - 1)
  OBVIOUS
<1> HIDE DEF w
<1>2. ASSUME NEW k \in 1 .. n
      PROVE  Balanced(items[k], w[k], at) /\ w[k + 1] = w[k] + Rise(items[k])
  <2>1. PICK item : item = items[k]
    OBVIOUS
  <2>2. "op" \in DOMAIN item /\ item.op = "pop"
    BY <2>1
  <2>3. Balanced(item, w[k], at)
    BY <2>2 DEF Balanced, Aligned, Labelled, Jumps
  <2>4. Rise(item) = -1
    BY <2>2 DEF Rise
  <2>5. w[k + 1] = w[k] + (-1)
    BY <1>1
  <2>6. QED
    BY <2>1, <2>3, <2>4, <2>5
<1>3. w[1] = h + n /\ w[n + 1] = h
  BY <1>1
<1>4. Words(items, w, h + n, h, at)
  BY <1>1, <1>2, <1>3 DEF Words
<1>5. QED
  BY <1>4 DEF Stacks

LEMMA QuietRun ==
    ASSUME NEW items, IsSequence(items),
           \A k \in 1 .. Len(items) : "op" \in DOMAIN items[k] /\ items[k].op \in Quiet,
           NEW h \in Nat, NEW at
    PROVE  Stacks(items, h, h, at)
<1>1. ASSUME NEW k \in 1 .. Len(items)
      PROVE  Balanced(items[k], h, at) /\ Rise(items[k]) = 0
  BY QuietLevel
<1>2. Level(items, h, at)
  BY <1>1 DEF Level
<1>3. QED
  BY <1>2, LevelStacks

LEMMA DropStacks ==
    ASSUME NEW words \in Nat, NEW h \in Nat, NEW at
    PROVE  Stacks(Drop(words), h + words, h, at)
<1>1. CASE words = 0
  <2>1. Drop(words) = <<>> /\ h + words = h
    BY <1>1 DEF Drop
  <2>2. QED
    BY <2>1, NothingStacks
<1>2. CASE words # 0
  <2>1. PICK item : item = [op |-> "drop", regs |-> <<>>, words |-> words]
    OBVIOUS
  <2>2. "op" \in DOMAIN item /\ item.op = "drop" /\ item.words = words
    BY <2>1
  <2>3. Balanced(item, h + words, at)
    BY <2>2 DEF Balanced, Aligned, Labelled, Jumps
  <2>4. Rise(item) = -words
    BY <2>2 DEF Rise
  <2>5. h = (h + words) + (-words) /\ h + words \in Nat
    OBVIOUS
  <2>6. Stacks(<<item>>, h + words, h, at)
    BY <2>3, <2>4, <2>5, OneStacks
  <2>7. Drop(words) = <<item>>
    BY <1>2, <2>1 DEF Drop
  <2>8. QED
    BY <2>6, <2>7
<1>3. QED
  BY <1>1, <1>2

LEMMA PadStacks ==
    ASSUME NEW words \in {0, 1}, NEW h \in Nat, NEW at
    PROVE  Stacks(Pad(words), h, h + words, at)
<1>1. CASE words = 0
  <2>1. Pad(words) = <<>> /\ h + words = h
    BY <1>1 DEF Pad
  <2>2. QED
    BY <2>1, NothingStacks
<1>2. CASE words = 1
  <2>1. PICK item : item = [op |-> "pad", regs |-> <<>>]
    OBVIOUS
  <2>2. "op" \in DOMAIN item /\ item.op = "pad"
    BY <2>1
  <2>3. Balanced(item, h, at)
    BY <2>2 DEF Balanced, Aligned, Labelled, Jumps
  <2>4. Rise(item) = 1
    BY <2>2 DEF Rise
  <2>5. h + 1 \in Nat
    OBVIOUS
  <2>6. Stacks(<<item>>, h, h + 1, at)
    BY <2>3, <2>4, <2>5, OneStacks
  <2>7. Pad(words) = <<item>>
    BY <1>2, <2>1 DEF Pad
  <2>8. QED
    BY <1>2, <2>6, <2>7
<1>3. QED
  BY <1>1, <1>2

LEMMA CalledStacks ==
    ASSUME NEW count, NEW in_registers, NEW h \in Nat, h % 2 = 0, NEW at
    PROVE  Stacks(<<CallFunction(count, in_registers)>>, h, h, at)
<1>1. PICK item : item = CallFunction(count, in_registers)
  OBVIOUS
<1>2. "op" \in DOMAIN item /\ item.op = "call"
  BY <1>1 DEF CallFunction
<1>3. Balanced(item, h, at)
  BY <1>2 DEF Balanced, Aligned, Labelled, Jumps
<1>4. Rise(item) = 0
  BY <1>2 DEF Rise
<1>5. Level(<<item>>, h, at)
  BY <1>3, <1>4, OneLevel
<1>6. QED
  BY <1>1, <1>5, LevelStacks

LEMMA HeldAre ==
    /\ Cardinality(InUse) \in Nat
    /\ IsSequence(HeldRegs) /\ Len(HeldRegs) = Cardinality(InUse)
<1>1. IsFiniteSet(Regs)
  BY FS_Interval, RegSizeAssumption DEF Regs
<1>2. InUse \in SUBSET Regs
  BY DEF InUse
<1>3. Cardinality(InUse) \in Nat
  BY <1>1, <1>2, FS_Subset, FS_CardinalityType
<1> DEFINE nth(i) == CHOOSE reg \in InUse :
                         Cardinality({other \in InUse : other < reg}) = i - 1
<1>4. HeldRegs = [i \in 1 .. Cardinality(InUse) |-> nth(i)]
  BY DEF HeldRegs
<1> HIDE DEF nth
<1>5. PICK n, items : n = Cardinality(InUse) /\ items = HeldRegs
  OBVIOUS
<1>6. items = [k \in 1 .. n |-> items[k]]
  BY <1>4, <1>5
<1>7. QED
  BY <1>3, <1>5, <1>6, RunIs

LEMMA SavedStack ==
    ASSUME NEW held, IsSequence(held), NEW h \in Nat, NEW at
    PROVE  /\ Stacks(PushAll(held), h, h + Len(held), at)
           /\ Stacks(PopAll(held), h + Len(held), h, at)
<1>1. PICK n : n = Len(held)
  OBVIOUS
<1>2. n \in Nat
  BY <1>1 DEF IsSequence
<1>3. Stacks(PushAll(held), h, h + n, at)
  <2>1. PICK items : items = PushAll(held)
    OBVIOUS
  <2>2. items = [i \in 1 .. n |-> [op |-> "push", regs |-> <<held[i]>>]]
    BY <1>1, <2>1 DEF PushAll
  <2>3. items = [k \in 1 .. n |-> items[k]]
    BY <2>2
  <2>4. \A k \in 1 .. n : "op" \in DOMAIN items[k] /\ items[k].op = "push"
    BY <2>2
  <2>5. QED
    BY <1>2, <2>1, <2>3, <2>4, RunIs, PushesStack
<1>4. Stacks(PopAll(held), h + n, h, at)
  <2>1. PICK items : items = PopAll(held)
    OBVIOUS
  <2>2. items = [i \in 1 .. n |-> [op |-> "pop", regs |-> <<held[n + 1 - i]>>]]
    BY <1>1, <2>1 DEF PopAll
  <2>3. items = [k \in 1 .. n |-> items[k]]
    BY <2>2
  <2>4. \A k \in 1 .. n : "op" \in DOMAIN items[k] /\ items[k].op = "pop"
    BY <2>2
  <2>5. QED
    BY <1>2, <2>1, <2>3, <2>4, RunIs, PopsStack
<1>5. QED
  BY <1>1, <1>3, <1>4

\* What the machine of the call is told about its arguments moves nothing.
LEMMA QuietFunction ==
    ASSUME NEW n \in Nat, NEW items, items = [k \in 1 .. n |-> items[k]],
           \A k \in 1 .. n : "op" \in DOMAIN items[k] /\ items[k].op \in Quiet,
           NEW h \in Nat, NEW at
    PROVE  Stacks(items, h, h, at)
<1>1. IsSequence(items) /\ Len(items) = n
  BY RunIs
<1>2. QED
  BY <1>1, QuietRun

LEMMA ParamsQuiet ==
    ASSUME NEW arg, NEW n
    PROVE  /\ "op" \in DOMAIN Param(arg, n) /\ Param(arg, n).op \in Quiet
           /\ "op" \in DOMAIN Pack(arg, n) /\ Pack(arg, n).op \in Quiet
BY DEF Param, Pack, Quiet

LEMMA X86Stacks ==
    ASSUME NEW held, IsSequence(held), NEW count \in Nat, NEW h \in Nat, h % 2 = 0, NEW at
    PROVE  Stacks(X86CallSequence(held, count), h + 2 * count, h, at)
<1>1. PICK n, p : n = Len(held) /\ p = Padding(held)
  OBVIOUS
<1>2. n \in Nat /\ p = n % 2 /\ p \in {0, 1}
  <2>1. n \in Nat
    BY <1>1 DEF IsSequence
  <2>2. QED
    BY <1>1, <2>1 DEF Padding
<1>3. PICK b : b = h + 2 * count
  OBVIOUS
<1>4. b \in Nat /\ b % 2 = 0
  <2>1. 2 * count \in Nat /\ (2 * count) % 2 = 0
    OBVIOUS
  <2>2. QED
    BY <1>3, <2>1, EvenSum
<1>5. PICK m : m = b + n
  OBVIOUS
<1>6. m \in Nat /\ m + p \in Nat /\ (m + p) % 2 = 0
  BY <1>2, <1>4, <1>5
<1>7. Stacks(PushAll(held), b, m, at) /\ Stacks(PopAll(held), m, b, at)
  BY <1>1, <1>4, <1>5, SavedStack
<1>8. Stacks(Pad(p), m, m + p, at)
  BY <1>2, <1>6, PadStacks
<1>9. PICK args : args = [arg \in 1 .. count |-> Param(arg, n + p + 2 * (arg - 1))]
  OBVIOUS
<1>10. Stacks(args, m + p, m + p, at)
  <2>1. args = [k \in 1 .. count |-> args[k]]
    BY <1>9
  <2>2. ASSUME NEW k \in 1 .. count PROVE "op" \in DOMAIN args[k] /\ args[k].op \in Quiet
    <3>1. args[k] = Param(k, n + p + 2 * (k - 1))
      BY <1>9
    <3>2. QED
      BY <3>1, ParamsQuiet
  <2>3. QED
    BY <1>6, <2>1, <2>2, QuietFunction
<1>11. Stacks(<<CallFunction(count, count)>>, m + p, m + p, at)
  BY <1>6, CalledStacks
<1>12. Stacks(Drop(p), m + p, m, at)
  BY <1>2, <1>6, DropStacks
<1>13. Stacks(Drop(2 * count), b, h, at)
  <2>1. 2 * count \in Nat
    OBVIOUS
  <2>2. QED
    BY <1>3, <2>1, DropStacks
<1>14. Stacks(PushAll(held) \o Pad(p), b, m + p, at)
  BY <1>7, <1>8, JoinStacks
<1>15. Stacks(PushAll(held) \o Pad(p) \o args, b, m + p, at)
  BY <1>10, <1>14, JoinStacks
<1>16. Stacks(PushAll(held) \o Pad(p) \o args \o <<CallFunction(count, count)>>,
              b, m + p, at)
  BY <1>11, <1>15, JoinStacks
<1>17. Stacks(PushAll(held) \o Pad(p) \o args \o <<CallFunction(count, count)>> \o Drop(p),
              b, m, at)
  BY <1>12, <1>16, JoinStacks
<1>18. Stacks(PushAll(held) \o Pad(p) \o args \o <<CallFunction(count, count)>> \o Drop(p)
                  \o PopAll(held), b, b, at)
  BY <1>7, <1>17, JoinStacks
<1>19. Stacks(PushAll(held) \o Pad(p) \o args \o <<CallFunction(count, count)>> \o Drop(p)
                  \o PopAll(held) \o Drop(2 * count), b, h, at)
  BY <1>13, <1>18, JoinStacks
<1>20. X86CallSequence(held, count) =
           PushAll(held) \o Pad(p) \o args \o <<CallFunction(count, count)>> \o Drop(p)
               \o PopAll(held) \o Drop(2 * count)
  BY <1>1, <1>9 DEF X86CallSequence
<1>21. QED
  BY <1>3, <1>19, <1>20

LEMMA TakenStack ==
    ASSUME NEW count \in Nat, NEW named \in 0 .. count, NEW h \in Nat, NEW at
    PROVE  Stacks(TakeArguments(named, count), h, h, at)
<1>1. PICK a, b : a = NamedArguments(named) /\ b = PackedArguments(named, count)
  OBVIOUS
<1>2. Stacks(a, h, h, at)
  <2>1. a = [k \in 1 .. named |-> a[k]]
    BY <1>1 DEF NamedArguments
  <2>2. ASSUME NEW k \in 1 .. named PROVE "op" \in DOMAIN a[k] /\ a[k].op \in Quiet
    <3>1. a[k] = Param(k, 2 * (k - 1))
      BY <1>1 DEF NamedArguments
    <3>2. QED
      BY <3>1, ParamsQuiet
  <2>3. named \in Nat
    OBVIOUS
  <2>4. QED
    BY <2>1, <2>2, <2>3, QuietFunction
<1>3. Stacks(b, h, h, at)
  <2>1. PICK n : n = count - named
    OBVIOUS
  <2>2. n \in Nat
    BY <2>1
  <2>3. b = [k \in 1 .. n |-> b[k]]
    BY <1>1, <2>1 DEF PackedArguments
  <2>4. ASSUME NEW k \in 1 .. n PROVE "op" \in DOMAIN b[k] /\ b[k].op \in Quiet
    <3>1. b[k] = Pack(2 * (named + k - 1), k - 1)
      BY <1>1, <2>1 DEF PackedArguments
    <3>2. QED
      BY <3>1, ParamsQuiet
  <2>5. QED
    BY <2>2, <2>3, <2>4, QuietFunction
<1>4. QED
  BY <1>1, <1>2, <1>3, JoinStacks DEF TakeArguments

LEMMA Arm64Stacks ==
    ASSUME NEW count \in Nat, NEW named \in 0 .. count, NEW h \in Nat, h % 2 = 0, NEW at
    PROVE  Stacks(Arm64CallSequence(count, named), h + 2 * count, h, at)
<1>1. PICK b : b = h + 2 * count
  OBVIOUS
<1>2. b \in Nat /\ b % 2 = 0 /\ 2 * count \in Nat
  <2>1. 2 * count \in Nat /\ (2 * count) % 2 = 0
    OBVIOUS
  <2>2. QED
    BY <1>1, <2>1, EvenSum
<1>3. Stacks(TakeArguments(named, count), b, b, at)
  BY <1>2, TakenStack
<1>4. Stacks(Drop(2 * count), b, h, at)
  BY <1>1, <1>2, DropStacks
<1>5. CASE named < count
  <2>1. Stacks(<<CallFunction(count, named)>>, b, b, at)
    BY <1>2, CalledStacks
  <2>2. Stacks(<<CallFunction(count, named)>> \o Drop(2 * count), b, h, at)
    BY <1>4, <2>1, JoinStacks
  <2>3. Stacks(TakeArguments(named, count)
                   \o (<<CallFunction(count, named)>> \o Drop(2 * count)), b, h, at)
    BY <1>3, <2>2, JoinStacks
  <2>4. QED
    BY <1>1, <1>5, <2>3 DEF Arm64CallSequence
<1>6. CASE ~(named < count)
  <2>1. Stacks(<<CallFunction(count, named)>>, h, h, at)
    BY CalledStacks
  <2>2. Stacks(Drop(2 * count) \o <<CallFunction(count, named)>>, b, h, at)
    BY <1>4, <2>1, JoinStacks
  <2>3. Stacks(TakeArguments(named, count)
                   \o (Drop(2 * count) \o <<CallFunction(count, named)>>), b, h, at)
    BY <1>3, <2>2, JoinStacks
  <2>4. QED
    BY <1>1, <1>6, <2>3 DEF Arm64CallSequence
<1>7. QED
  BY <1>5, <1>6

LEMMA CallSequenceStacks ==
    ASSUME NEW count \in Nat, NEW named \in 0 .. count, NEW b \in Nat, b % 2 = 0,
           b + (-(2 * count)) \in Nat, NEW at
    PROVE  Stacks(CallSequence(count, named), b, b + (-(2 * count)), at)
<1>1. PICK h \in Nat : h = b + (-(2 * count))
  OBVIOUS
<1>2. b = h + 2 * count /\ h % 2 = 0
  BY <1>1
<1>3. Stacks(X86CallSequence(HeldRegs, count), b, h, at)
  BY <1>2, HeldAre, X86Stacks
<1>4. Stacks(Arm64CallSequence(count, named), b, h, at)
  BY <1>2, Arm64Stacks
<1>5. QED
  BY <1>1, <1>3, <1>4 DEF CallSequence

-----------------------------------------------------------------------------
\* `at` has only labels which were given out.
Given(at, below) == \A label \in DOMAIN at : label \in Nat /\ label < below

\* The labels of `at` were there before, or are put down.
Added(at, more, items) == \A label \in DOMAIN more : label \in DOMAIN at \/ Has(items, label)

LEMMA NoneAdded ==
    ASSUME NEW at, NEW items
    PROVE  Extends(at, at) /\ Added(at, at, items)
BY DEF Extends, Added

\* Two labels more, both where the stack is as high as it is now.
LEMMA BothAdded ==
    ASSUME NEW at, NEW n \in Nat, Given(at, n), NEW h \in Nat
    PROVE  \E more : /\ Extends(at, more) /\ Given(more, n + 2)
                     /\ DOMAIN more = DOMAIN at \cup {n, n + 1}
                     /\ more[n] = h /\ more[n + 1] = h
<1> DEFINE more == [label \in DOMAIN at \cup {n, n + 1} |->
                        IF label \in DOMAIN at THEN at[label] ELSE h]
<1>1. /\ DOMAIN more = DOMAIN at \cup {n, n + 1}
      /\ \A label \in DOMAIN more : more[label] = IF label \in DOMAIN at THEN at[label] ELSE h
  OBVIOUS
<1> HIDE DEF more
<1>2. Extends(at, more)
  BY <1>1 DEF Extends
<1>3. n \notin DOMAIN at /\ n + 1 \notin DOMAIN at
  BY DEF Given
<1>4. more[n] = h /\ more[n + 1] = h
  BY <1>1, <1>3
<1>5. Given(more, n + 2)
  BY <1>1 DEF Given
<1>6. QED
  BY <1>1, <1>2, <1>4, <1>5

LEMMA ExpressionStacks ==
    ASSUME NEW root \in Expressions, ExpressionOf(root), NEW h \in Nat, h % 2 = 0,
           next_label \in Nat, NEW at, Given(at, next_label)
    PROVE  \E items, more :
              /\ pending' = items \o Tail(pending)
              /\ Stacks(items, h, h, more)
              /\ Extends(at, more) /\ Given(more, next_label') /\ Added(at, more, items)
<1>1. ASSUME NEW items, Does(0, items), Stacks(items, h, h, at)
      PROVE  \E some, more :
                /\ pending' = some \o Tail(pending)
                /\ Stacks(some, h, h, more)
                /\ Extends(at, more) /\ Given(more, next_label') /\ Added(at, more, some)
  <2>1. pending' = items \o Tail(pending) /\ next_label' = next_label
    BY <1>1 DEF Does
  <2>2. QED
    BY <1>1, <2>1, NoneAdded
<1>2. ASSUME NEW more, NEW items, Does(2, items), Level(items, h, more),
             Extends(at, more), Given(more, next_label + 2),
             DOMAIN more = DOMAIN at \cup {next_label, next_label + 1},
             Has(items, next_label), Has(items, next_label + 1)
      PROVE  \E some, others :
                /\ pending' = some \o Tail(pending)
                /\ Stacks(some, h, h, others)
                /\ Extends(at, others) /\ Given(others, next_label') /\ Added(at, others, some)
  <2>1. pending' = items \o Tail(pending) /\ next_label' = next_label + 2
    BY <1>2 DEF Does
  <2>2. Added(at, more, items)
    BY <1>2 DEF Added
  <2>3. Stacks(items, h, h, more)
    BY <1>2, LevelStacks
  <2>4. QED
    BY <1>2, <2>1, <2>2, <2>3
<1>3. PICK more : /\ Extends(at, more) /\ Given(more, next_label + 2)
                  /\ DOMAIN more = DOMAIN at \cup {next_label, next_label + 1}
                  /\ more[next_label] = h /\ more[next_label + 1] = h
  BY BothAdded, ZenonT(40)
<1>4. next_label \in DOMAIN more /\ next_label + 1 \in DOMAIN more
  BY <1>3
<1>5. CASE root.kind = "name" /\ Does(0, <<LoadSymbol(root.cell)>>)
  <2>1. Level(<<LoadSymbol(root.cell)>>, h, at)
    BY LoadsQuiet
  <2>2. QED
    BY <1>1, <1>5, <2>1, LevelStacks
<1>6. CASE root.kind = "postinc" /\ IncDecPlace(root)
  <2>1. PICK items : items = StepPlace(root) \o <<Free(2)>>
    OBVIOUS
  <2>2. Level(items, h, at)
    BY <2>1, IncDecLevel
  <2>3. Does(0, items)
    BY <1>6, <2>1 DEF IncDecPlace
  <2>4. QED
    BY <1>1, <2>2, <2>3, LevelStacks
<1>7. CASE root.kind \in {"sub", "less"} /\ GenOperands(root)
  <2>1. PICK kind, left, right : kind = root.kind /\ left = root.left /\ right = root.right
    OBVIOUS
  <2>2. kind \in {"sub", "less"}
    BY <1>7, <2>1
  <2>3. Level(<<Walk(left), Walk(right)>> \o InPlace(kind, 2, 1), h, at)
    BY <2>2, OperandsLevel
  <2>4. Does(0, <<Walk(left), Walk(right)>> \o InPlace(kind, 2, 1))
    BY <1>7, <2>1 DEF GenOperands
  <2>5. QED
    BY <1>1, <2>3, <2>4, LevelStacks
<1>8. CASE root.kind \in {"and", "or"} /\ GenLogic(root)
  <2>1. PICK settled, end_label, jump, v, u :
            /\ settled = NewLabel(0) /\ end_label = NewLabel(1)
            /\ jump = JumpIfSettled(root.kind, settled)
            /\ v = IF root.kind = "and" THEN 1 ELSE 0
            /\ u = 1 - v
    OBVIOUS
  <2>2. settled = next_label /\ end_label = next_label + 1
    BY <2>1 DEF NewLabel
  <2>3. PICK items :
            items = <<Alloc>> \o GenSide(root.left, jump) \o GenSide(root.right, jump)
                    \o Settle(LoadInt(v)) \o <<EmitJump(end_label), EmitLabel(settled)>>
                    \o Settle(LoadInt(u)) \o <<EmitLabel(end_label)>>
    OBVIOUS
  <2>4. Does(2, items)
    BY <1>8, <2>1, <2>3, Zenon DEF GenLogic
  <2>5. Level(<<jump>>, h, more)
    BY <1>3, <1>4, <2>1, <2>2, LabelsLevel
  <2>6. Level(items, h, more) /\ Has(items, settled) /\ Has(items, end_label)
    BY <1>3, <1>4, <2>2, <2>3, <2>5, LogicLevel, ZenonT(40)
  <2>7. QED
    BY <1>2, <1>3, <2>2, <2>4, <2>6
<1>9. CASE root.kind = "ternary" /\ GenTernary(root)
  <2>1. PICK false_label, end_label : false_label = NewLabel(0) /\ end_label = NewLabel(1)
    OBVIOUS
  <2>2. false_label = next_label /\ end_label = next_label + 1
    BY <2>1 DEF NewLabel
  <2>3. PICK items :
            items = GenCondition(root.left, false_label) \o <<AllocAfterJump>>
                    \o Settle(Walk(root.mid)) \o <<EmitJump(end_label), EmitLabel(false_label)>>
                    \o Settle(Walk(root.right)) \o <<EmitLabel(end_label)>>
    OBVIOUS
  <2>4. Does(2, items)
    BY <1>9, <2>1, <2>3, Zenon DEF GenTernary
  <2>5. Level(items, h, more) /\ Has(items, false_label) /\ Has(items, end_label)
    BY <1>3, <1>4, <2>2, <2>3, TernaryLevel
  <2>6. QED
    BY <1>2, <1>3, <2>2, <2>4, <2>5
<1>10. CASE root.kind = "call" /\ GenCall(root)
  <2>1. IsSequence(root.args) /\ root.named \in 0 .. Len(root.args)
    BY <1>10, ExpressionsAssumption DEF AreExpressions, IsExpression, IsSequence
  <2>2. QED
    BY <1>1, <1>10, <2>1, CallStacks DEF GenCall
<1>11. CASE root.kind = "assign" /\ GenAssign(root)
  BY <1>1, <1>11, AssignLevel, LevelStacks DEF GenAssign
<1>12. CASE root.kind = "addto" /\ GenAssignOp(root)
  BY <1>1, <1>12, AssignOpLevel, LevelStacks DEF GenAssignOp
<1>13. QED
  BY <1>5, <1>6, <1>7, <1>8, <1>9, <1>10, <1>11, <1>12 DEF ExpressionOf

-----------------------------------------------------------------------------
(***************************************************************************)
(* The invariant of the stack while the code is written: it stands as high *)
(* at the end of what is written as at the head of what is pending, and    *)
(* each label which was given out is on one of the two sides.              *)
(***************************************************************************)
Laid(at, m) ==
    /\ Stacks(code, 0, m, at) /\ Stacks(pending, m, 0, at)
    /\ Given(at, next_label)
    /\ \A label \in DOMAIN at : Has(code, label) \/ Has(pending, label)

WalkStands == \E at, m : Laid(at, m)

LEMMA StacksFrom ==
    ASSUME NEW items, NEW from, NEW to, NEW at, Stacks(items, from, to, at)
    PROVE  from \in Nat /\ to \in Nat
<1>1. PICK w : Words(items, w, from, to, at)
  BY DEF Stacks
<1>2. PICK n \in Nat : n = Len(items)
  BY DEF Stacks, IsSequence
<1>3. w[1] \in Nat /\ w[n + 1] \in Nat
  BY <1>1, <1>2 DEF Words
<1>4. QED
  BY <1>1, <1>2, <1>3 DEF Words

LEMMA NothingStands ==
    ASSUME code = <<>>, pending = <<>>
    PROVE  WalkStands
<1>1. DOMAIN <<>> = {}
  OBVIOUS
<1>2. Stacks(<<>>, 0, 0, <<>>)
  BY NothingStacks
<1>3. Laid(<<>>, 0)
  BY <1>1, <1>2 DEF Laid, Given
<1>4. QED
  BY <1>3 DEF WalkStands

LEMMA InitStands == ASSUME GenInit PROVE WalkStands
<1>1. code = <<>> /\ pending = <<Walk(given.root)>>
  BY DEF GenInit
<1>2. PICK at, item : at = <<>> /\ item = Walk(given.root)
  OBVIOUS
<1>3. DOMAIN at = {}
  BY <1>2
<1>4. Stacks(<<>>, 0, 0, at)
  BY NothingStacks
<1>5. Level(<<item>>, 0, at)
  BY <1>2, WalkLevel
<1>6. Stacks(<<item>>, 0, 0, at)
  BY <1>5, LevelStacks
<1>7. Laid(at, 0)
  BY <1>1, <1>2, <1>3, <1>4, <1>6 DEF Laid, Given
<1>8. QED
  BY <1>7 DEF WalkStands

LEMMA GenExprStands == ASSUME GenInv, WalkStands, GenExpr PROVE WalkStands'
<1>1. PICK at, m : Laid(at, m)
  BY DEF WalkStands
<1>2. PICK item, rest : item = Head(pending) /\ rest = Tail(pending)
  OBVIOUS
<1>3. /\ pending # <<>> /\ item.op = "expression" /\ ExpressionOf(item.root)
      /\ code' = code
  BY <1>2 DEF GenExpr, AtNext
<1>4. /\ m \in Nat /\ m + Rise(item) \in Nat /\ Balanced(item, m, at)
      /\ Stacks(rest, m + Rise(item), 0, at)
  BY <1>1, <1>2, <1>3, TailStacks DEF Laid
<1>5. Rise(item) = 0 /\ m % 2 = 0 /\ m + 0 = m
  <2>1. Rise(item) = 0
    BY <1>3 DEF Rise
  <2>2. m % 2 = 0
    BY <1>3, <1>4 DEF Balanced, Aligned
  <2>3. m + 0 = m
    BY <1>4
  <2>4. QED
    BY <2>1, <2>2, <2>3
<1>6. Stacks(rest, m, 0, at)
  BY <1>4, <1>5
<1>7. PICK root \in Expressions : root = item.root
  BY <1>2, <1>3, NextIs DEF Formed
<1>8. next_label \in Nat
  BY DEF GenInv
<1>9. Given(at, next_label)
  BY <1>1 DEF Laid
<1>10. ExpressionOf(root)
  BY <1>3, <1>7
<1>11. PICK items, more :
              /\ pending' = items \o Tail(pending)
              /\ Stacks(items, m, m, more)
              /\ Extends(at, more) /\ Given(more, next_label') /\ Added(at, more, items)
  BY <1>4, <1>5, <1>8, <1>9, <1>10, ExpressionStacks
<1>12. pending' = items \o rest
  BY <1>2, <1>11
<1>13. Stacks(code', 0, m, more)
  BY <1>1, <1>3, <1>11, MoreStacks DEF Laid
<1>14. Stacks(pending', m, 0, more)
  <2>1. Stacks(rest, m, 0, more)
    BY <1>6, <1>11, MoreStacks
  <2>2. QED
    BY <1>11, <1>12, <2>1, JoinStacks
<1>15. ASSUME NEW label \in DOMAIN more PROVE Has(code', label) \/ Has(pending', label)
  <2>1. IsSequence(items) /\ IsSequence(rest) /\ IsSequence(pending)
    BY <1>1, <1>6, <1>11 DEF Stacks, Laid
  <2>2. CASE Has(items, label)
    BY <1>12, <2>1, <2>2, HasJoin
  <2>3. CASE label \in DOMAIN at /\ Has(code, label)
    BY <1>3, <2>3
  <2>4. CASE label \in DOMAIN at /\ Has(pending, label)
    <3>1. Has(rest, label)
      BY <1>2, <1>3, <2>1, <2>4, HasTail
    <3>2. QED
      BY <1>12, <2>1, <3>1, HasJoin
  <2>5. QED
    BY <1>1, <1>11, <2>2, <2>3, <2>4 DEF Added, Laid
<1>16. Laid(more, m)'
  BY <1>11, <1>13, <1>14, <1>15 DEF Laid
<1>17. QED
  BY <1>16 DEF WalkStands

\* What the head of what is pending is written as stands in its place.
LEMMA MovedStands ==
    ASSUME WalkStands, pending # <<>>, NEW written,
           \A h \in Nat : \A at : Balanced(Head(pending), h, at) /\ h + Rise(Head(pending)) \in Nat =>
               Stacks(written, h, h + Rise(Head(pending)), at),
           Head(pending).op = "label" => Has(written, Head(pending).label),
           code' = code \o written, pending' = Tail(pending), next_label' = next_label
    PROVE  WalkStands'
<1>1. PICK at, m : Laid(at, m)
  BY DEF WalkStands
<1>2. PICK item, rest, to : item = Head(pending) /\ rest = Tail(pending) /\ to = m + Rise(item)
  OBVIOUS
<1>3. m \in Nat /\ to \in Nat /\ Balanced(item, m, at) /\ Stacks(rest, to, 0, at)
  BY <1>1, <1>2, TailStacks DEF Laid
<1>4. Stacks(written, m, to, at)
  BY <1>2, <1>3
<1>5. Stacks(code', 0, to, at)
  BY <1>1, <1>4, JoinStacks DEF Laid
<1>6. Stacks(pending', to, 0, at)
  BY <1>2, <1>3
<1>7. ASSUME NEW label \in DOMAIN at PROVE Has(code', label) \/ Has(pending', label)
  <2>1. IsSequence(code) /\ IsSequence(written) /\ IsSequence(pending)
    BY <1>1, <1>4 DEF Laid, Stacks
  <2>2. Has(code, label) \/ Has(pending, label)
    BY <1>1 DEF Laid
  <2>3. Has(code', label) <=> Has(code, label) \/ Has(written, label)
    BY <2>1, HasJoin
  <2>4. Has(pending, label) =>
            \/ Head(pending).op = "label" /\ Head(pending).label = label
            \/ Has(Tail(pending), label)
    BY <2>1, HasTail
  <2>5. QED
    BY <2>2, <2>3, <2>4
<1>8. Given(at, next_label')
  BY <1>1 DEF Laid
<1>9. Laid(at, to)'
  BY <1>5, <1>6, <1>7, <1>8 DEF Laid
<1>10. QED
  BY <1>9 DEF WalkStands

LEMMA WithRegsIs ==
    ASSUME NEW item, NEW regs
    PROVE  /\ DOMAIN WithRegs(item, regs) = DOMAIN item
           /\ "op" \in DOMAIN item => WithRegs(item, regs).op = item.op
           /\ "label" \in DOMAIN item => WithRegs(item, regs).label = item.label
BY DEF WithRegs

LEMMA QuietStacks ==
    ASSUME NEW item, "op" \in DOMAIN item, item.op \in Quiet, NEW h \in Nat, NEW at
    PROVE  Stacks(<<item>>, h, h, at)
BY QuietLevel, LevelStacks

LEMMA SpilledStacks ==
    ASSUME NEW reg, NEW h \in Nat, NEW at
    PROVE  Stacks(Spilled, h, h, at) /\ Stacks(Reloaded(reg), h, h, at)
<1>1. Stacks(Spilled, h, h, at)
  <2>1. CASE MustSpill(pool)
    <3>1. PICK item : item = [op |-> "spill", regs |-> <<Candidate(pool)>>,
                slot |-> Slot(Candidate(pool), pool.spill_count[Candidate(pool)])]
      OBVIOUS
    <3>2. "op" \in DOMAIN item /\ item.op \in Quiet
      BY <3>1 DEF Quiet
    <3>3. Spilled = <<item>>
      BY <2>1, <3>1 DEF Spilled
    <3>4. QED
      BY <3>2, <3>3, QuietStacks
  <2>2. CASE ~MustSpill(pool)
    BY <2>2, NothingStacks DEF Spilled
  <2>3. QED
    BY <2>1, <2>2
<1>2. Stacks(Reloaded(reg), h, h, at)
  <2>1. CASE MustReload(pool, reg)
    <3>1. PICK item : item = [op |-> "reload", regs |-> <<reg>>,
                slot |-> Slot(reg, pool.spill_count[reg] - 1)]
      OBVIOUS
    <3>2. "op" \in DOMAIN item /\ item.op \in Quiet
      BY <3>1 DEF Quiet
    <3>3. Reloaded(reg) = <<item>>
      BY <2>1, <3>1 DEF Reloaded
    <3>4. QED
      BY <3>2, <3>3, QuietStacks
  <2>2. CASE ~MustReload(pool, reg)
    BY <2>2, NothingStacks DEF Reloaded
  <2>3. QED
    BY <2>1, <2>2
<1>3. QED
  BY <1>1, <1>2

LEMMA ConcatThrice ==
    ASSUME NEW a, IsSequence(a), NEW b, IsSequence(b), NEW c, IsSequence(c)
    PROVE  a \o b \o c = a \o (b \o c)
BY DEF IsSequence

LEMMA AppendIs ==
    ASSUME NEW a, IsSequence(a), NEW item
    PROVE  Append(a, item) = a \o <<item>>
BY DEF IsSequence

\* An item which neither raises the stack nor is a label.
LEMMA StillIs ==
    ASSUME NEW item, item.op \in Loads \cup Frees
    PROVE  Rise(item) = 0 /\ item.op # "label" /\ item.op \in Quiet
BY DEF Rise, Loads, Frees, Quiet

LEMMA AllocStands == ASSUME WalkStands, AllocRegister PROVE WalkStands'
<1>1. PICK item, load, tail :
          /\ item = Head(pending)
          /\ load = WithRegs(item, <<Candidate(pool)>> \o Meant(item))
          /\ tail = IF item.op \in {"alloc", "alloc after jump"} THEN <<>> ELSE <<load>>
  OBVIOUS
<1>2. /\ pending # <<>> /\ item.op \in Loads
      /\ code' = code \o Spilled \o tail
      /\ pending' = Tail(pending) /\ next_label' = next_label
  BY <1>1 DEF AllocRegister, AtNext, GoesOn
<1>3. Rise(item) = 0 /\ item.op # "label" /\ item.op \in Quiet
  BY <1>2, StillIs
<1>4. ASSUME NEW h \in Nat, NEW at, Balanced(item, h, at)
      PROVE  Stacks(Spilled \o tail, h, h, at)
  <2>1. Stacks(tail, h, h, at)
    <3>1. CASE item.op \in {"alloc", "alloc after jump"}
      BY <1>1, <3>1, NothingStacks
    <3>2. CASE item.op \notin {"alloc", "alloc after jump"}
      <4>1. "op" \in DOMAIN load /\ load.op \in Quiet
        <5>1. "op" \in DOMAIN item
          BY <1>4 DEF Balanced
        <5>2. QED
          BY <1>1, <1>3, <5>1, WithRegsIs
      <4>2. QED
        BY <1>1, <3>2, <4>1, QuietStacks
    <3>3. QED
      BY <3>1, <3>2
  <2>2. QED
    BY <2>1, SpilledStacks, JoinStacks
<1>5. \A h \in Nat : \A at : Balanced(item, h, at) /\ h + Rise(item) \in Nat =>
          Stacks(Spilled \o tail, h, h + Rise(item), at)
  <2>1. \A h \in Nat : h + 0 = h
    OBVIOUS
  <2>2. QED
    BY <1>3, <1>4, <2>1
<1>6. code' = code \o (Spilled \o tail)
  <2>1. IsSequence(code)
    BY DEF WalkStands, Laid, Stacks
  <2>2. IsSequence(Spilled)
    <3>1. 0 \in Nat
      OBVIOUS
    <3>2. QED
      BY <3>1, SpilledStacks DEF Stacks
  <2>3. IsSequence(tail)
    <3>1. <<>> \in Seq({}) /\ <<load>> \in Seq({load})
      OBVIOUS
    <3>2. QED
      BY <1>1, <3>1 DEF IsSequence
  <2>4. QED
    BY <1>2, <2>1, <2>2, <2>3, ConcatThrice, SMTT(20)
<1>7. QED
  BY <1>1, <1>2, <1>3, <1>5, <1>6, MovedStands

LEMMA FreeStands == ASSUME WalkStands, FreeRegister PROVE WalkStands'
<1>1. PICK item, reg : item = Head(pending) /\ reg = Nth(item.regs[1])
  OBVIOUS
<1>2. /\ pending # <<>> /\ item.op \in Frees
      /\ code' = code \o Reloaded(reg)
      /\ pending' = Tail(pending) /\ next_label' = next_label
  BY <1>1 DEF FreeRegister, AtNext, GoesOn
<1>3. Rise(item) = 0 /\ item.op # "label"
  BY <1>2, StillIs
<1>4. \A h \in Nat : \A at : Balanced(item, h, at) /\ h + Rise(item) \in Nat =>
          Stacks(Reloaded(reg), h, h + Rise(item), at)
  <2>1. \A h \in Nat : h + 0 = h
    OBVIOUS
  <2>2. QED
    BY <1>3, <2>1, SpilledStacks
<1>5. QED
  BY <1>1, <1>2, <1>3, <1>4, MovedStands

LEMMA EmitStands == ASSUME WalkStands, Emit PROVE WalkStands'
<1>1. PICK item, written : item = Head(pending) /\ written = WithRegs(item, Meant(item))
  OBVIOUS
<1>2. /\ pending # <<>> /\ item.op \in Plain
      /\ code' = Append(code, written)
      /\ pending' = Tail(pending) /\ next_label' = next_label
  BY <1>1 DEF Emit, AtNext, GoesOn
<1>3. code' = code \o <<written>>
  BY <1>2, AppendIs DEF WalkStands, Laid, Stacks
<1>4. ASSUME NEW h, NEW at, Balanced(item, h, at)
      PROVE  Balanced(written, h, at) /\ Rise(written) = Rise(item)
             /\ (item.op = "label" => written.op = "label" /\ written.label = item.label)
  <2>1. "op" \in DOMAIN item /\ DOMAIN written = DOMAIN item /\ written.op = item.op
    BY <1>1, <1>4, WithRegsIs DEF Balanced
  <2>2. item.op \in Labelled => "label" \in DOMAIN item /\ written.label = item.label
    BY <1>1, <1>4, WithRegsIs DEF Balanced
  <2>3. item.op # "call sequence" /\ item.op # "drop" /\ item.op \notin Aligned
    BY <1>2 DEF Plain, Jumps, Aligned
  <2>4. Balanced(written, h, at)
    BY <1>4, <2>1, <2>2, <2>3 DEF Balanced
  <2>5. Rise(written) = Rise(item)
    BY <2>1, <2>3 DEF Rise
  <2>6. QED
    BY <2>1, <2>2, <2>4, <2>5 DEF Labelled
<1>5. ASSUME NEW h \in Nat, NEW at, Balanced(item, h, at), h + Rise(item) \in Nat
      PROVE  Stacks(<<written>>, h, h + Rise(item), at)
  BY <1>4, <1>5, OneStacks
<1>6. item.op = "label" => Has(<<written>>, item.label)
  <2>1. PICK at, m : Balanced(item, m, at)
    BY <1>1, <1>2, TailStacks DEF WalkStands, Laid
  <2>2. item.op = "label" => written.op = "label" /\ written.label = item.label
    BY <1>4, <2>1
  <2>3. Len(<<written>>) = 1 /\ <<written>>[1] = written
    OBVIOUS
  <2>4. QED
    BY <2>2, <2>3 DEF Has
<1>7. \A h \in Nat : \A at : Balanced(item, h, at) /\ h + Rise(item) \in Nat =>
          Stacks(<<written>>, h, h + Rise(item), at)
  BY <1>5
<1>8. QED
  BY <1>1, <1>2, <1>3, <1>6, <1>7, MovedStands

LEMMA EmitCallStands == ASSUME WalkStands, EmitCall PROVE WalkStands'
<1>1. PICK item, written : item = Head(pending) /\ written = CallSequence(item.count, item.named)
  OBVIOUS
<1>2. /\ pending # <<>> /\ item.op = "call sequence"
      /\ code' = code \o written
      /\ pending' = Tail(pending) /\ next_label' = next_label
  BY <1>1 DEF EmitCall, AtNext, GoesOn
<1>3. ASSUME NEW h \in Nat, NEW at, Balanced(item, h, at), h + Rise(item) \in Nat
      PROVE  Stacks(written, h, h + Rise(item), at)
  <2>1. Rise(item) = -(2 * item.count)
    BY <1>2 DEF Rise
  <2>2. h % 2 = 0 /\ item.count \in Nat /\ item.named \in 0 .. item.count
    BY <1>2, <1>3 DEF Balanced, Aligned
  <2>3. PICK count, named, to : count = item.count /\ named = item.named /\ to = h + Rise(item)
    OBVIOUS
  <2>4. to = h + (-(2 * count)) /\ to \in Nat
    BY <1>3, <2>1, <2>3
  <2>5. Stacks(CallSequence(count, named), h, to, at)
    BY <2>2, <2>3, <2>4, CallSequenceStacks
  <2>6. QED
    BY <1>1, <2>3, <2>5
<1>4. item.op # "label"
  BY <1>2
<1>5. \A h \in Nat : \A at : Balanced(item, h, at) /\ h + Rise(item) \in Nat =>
          Stacks(written, h, h + Rise(item), at)
  BY <1>3
<1>6. QED
  BY <1>1, <1>2, <1>4, <1>5, MovedStands

LEMMA RefuseStands == ASSUME Refuse PROVE WalkStands'
<1>1. code' = <<>> /\ pending' = <<>>
  BY DEF Refuse
<1>2. Stacks(<<>>, 0, 0, <<>>)
  BY NothingStacks
<1>3. Laid(<<>>, 0)'
  BY <1>1, <1>2 DEF Laid, Given
<1>4. QED
  BY <1>3 DEF WalkStands

LEMMA WalkStillStands == ASSUME WalkStands, UNCHANGED generator PROVE WalkStands'
<1>1. UNCHANGED <<code, pending, next_label>>
  BY DEF generator
<1>2. PICK at, m : Laid(at, m)
  BY DEF WalkStands
<1>3. Laid(at, m)'
  BY <1>1, <1>2 DEF Laid
<1>4. QED
  BY <1>3 DEF WalkStands

-----------------------------------------------------------------------------
(***************************************************************************)
(* The invariant of the stack while the code runs: it is as high as what   *)
(* was written says it is before the instruction which is next.            *)
(***************************************************************************)
Running(at, w) ==
    /\ IsSequence(code) /\ Words(code, w, 0, 0, at)
    /\ pc \in 1 .. Len(code) + 1
    /\ IsSequence(stack) /\ Len(stack) = w[pc]
    /\ \A label \in DOMAIN at : Has(code, label)

Runs == \E at, w : Running(at, w)

StackInv ==
    /\ GenInv
    /\ pc = 0 => WalkStands /\ stack = <<>>
    /\ pc # 0 => ~refused /\ Runs

LEMMA InstrIs ==
    ASSUME NEW at, NEW w, Running(at, w), ~Done
    PROVE  /\ pc \in 1 .. Len(code) /\ pc + 1 \in 1 .. Len(code) + 1
           /\ Len(code) \in Nat /\ Len(stack) \in Nat
           /\ Balanced(Instr, Len(stack), at)
           /\ w[pc + 1] = Len(stack) + Rise(Instr) /\ w[pc + 1] \in Nat
<1>1. PICK n : n = Len(code)
  OBVIOUS
<1>2. n \in Nat /\ Len(stack) \in Nat
  BY <1>1 DEF Running, IsSequence
<1>3. pc \in 1 .. n + 1 /\ ~(pc > n)
  BY <1>1 DEF Running, Done
<1>4. pc \in 1 .. n /\ pc + 1 \in 1 .. n + 1
  BY <1>2, <1>3
<1>5. w \in [1 .. n + 1 -> Nat] /\ \A k \in 1 .. n : Balanced(code[k], w[k], at)
                                                    /\ w[k + 1] = w[k] + Rise(code[k])
  BY <1>1 DEF Running, Words
<1>6. w[pc + 1] \in Nat
  BY <1>4, <1>5
<1>7. Balanced(Instr, w[pc], at) /\ w[pc + 1] = w[pc] + Rise(Instr)
  BY <1>4, <1>5 DEF Instr
<1>8. Len(stack) = w[pc]
  BY DEF Running
<1>9. QED
  BY <1>1, <1>2, <1>4, <1>6, <1>7, <1>8

LEMMA StepRuns ==
    ASSUME NEW at, NEW w, Running(at, w), ~Done, pc' = pc + 1, code' = code,
           IsSequence(stack'), Len(stack') = Len(stack) + Rise(Instr)
    PROVE  Runs'
<1>1. pc' \in 1 .. Len(code') + 1 /\ Len(stack') = w[pc']
  BY InstrIs
<1>2. Running(at, w)'
  BY <1>1 DEF Running
<1>3. QED
  BY <1>2 DEF Runs

LEMMA FlatRuns ==
    ASSUME Runs, ~Done, pc' = pc + 1, code' = code, stack' = stack, Rise(Instr) = 0
    PROVE  Runs'
<1>1. PICK at, w : Running(at, w)
  BY DEF Runs
<1>2. Len(stack) \in Nat
  BY <1>1, InstrIs
<1>3. Len(stack) + 0 = Len(stack)
  BY <1>2
<1>4. IsSequence(stack') /\ Len(stack') = Len(stack) + Rise(Instr)
  BY <1>1, <1>3 DEF Running
<1>5. QED
  BY <1>1, <1>4, StepRuns

LEMMA LandsRuns ==
    ASSUME Runs, ~Done, Instr.op \in Jumps, pc' = Target(Instr.label),
           code' = code, stack' = stack
    PROVE  Runs'
<1>1. PICK at, w : Running(at, w)
  BY DEF Runs
<1>2. PICK label : label = Instr.label
  OBVIOUS
<1>3. label \in DOMAIN at /\ at[label] = Len(stack)
  BY <1>1, <1>2, InstrIs DEF Balanced, Labelled
<1>4. \E k \in 1 .. Len(code) : code[k].op = "label" /\ code[k].label = label
  BY <1>1, <1>3 DEF Running, Has
<1>5. DOMAIN code = 1 .. Len(code) /\ Len(code) \in Nat
  BY <1>1 DEF Running, IsSequence
<1>6. /\ pc' \in 1 .. Len(code)
      /\ code[pc'].op = "label" /\ code[pc'].label = label
  BY <1>2, <1>4, <1>5 DEF Target
<1>7. Balanced(code[pc'], w[pc'], at)
  BY <1>1, <1>6 DEF Running, Words
<1>8. at[label] = w[pc']
  BY <1>6, <1>7 DEF Balanced, Labelled
<1>9. pc' \in 1 .. Len(code) + 1
  BY <1>5, <1>6
<1>10. Running(at, w)'
  BY <1>1, <1>3, <1>8, <1>9 DEF Running
<1>11. QED
  BY <1>10 DEF Runs

LEMMA JumpRuns == ASSUME Runs, RunJump PROVE Runs'
<1>1. PICK taken : Jump(taken) /\ ~Done /\ Instr.op \in Jumps
  BY DEF RunJump, At, Jumps
<1>2. code' = code /\ stack' = stack /\ pc' = IF taken THEN Target(Instr.label) ELSE pc + 1
  BY <1>1 DEF Jump, generator
<1>3. Rise(Instr) = 0
  BY <1>1 DEF Rise, Jumps
<1>4. CASE taken
  <2>1. pc' = Target(Instr.label)
    BY <1>2, <1>4
  <2>2. QED
    BY <1>1, <1>2, <2>1, LandsRuns
<1>5. CASE ~taken
  <2>1. pc' = pc + 1
    BY <1>2, <1>5
  <2>2. QED
    BY <1>1, <1>2, <1>3, <2>1, FlatRuns
<1>6. QED
  BY <1>4, <1>5

LEMMA FlatSteps ==
    ASSUME Runs,
           RunLoad \/ RunOperation \/ RunWrite \/ SpillRegister \/ ReloadRegister
               \/ RunLabel \/ RunCall \/ RunFetch
    PROVE  Runs'
<1>1. Step /\ stack' = stack /\ ~Done
  BY DEF RunLoad, RunOperation, RunWrite, SpillRegister, ReloadRegister, RunLabel, RunCall,
         RunFetch, Put, At
<1>2. Instr.op \in Quiet \cup {"label", "call"}
  BY DEF RunLoad, RunOperation, RunWrite, SpillRegister, ReloadRegister, RunLabel, RunCall,
         RunFetch, At, Quiet, Loads, Frees
<1>3. pc' = pc + 1 /\ code' = code
  BY <1>1 DEF Step, generator
<1>4. Rise(Instr) = 0
  BY <1>2 DEF Rise, Quiet, Loads, Frees
<1>5. QED
  BY <1>1, <1>3, <1>4, FlatRuns

\* What the instructions of the stack leave of it.
LEMMA StackIs ==
    ASSUME IsSequence(stack)
    PROVE  /\ \A a, b : /\ IsSequence(stack \o <<a, b>>)
                        /\ Len(stack \o <<a, b>>) = Len(stack) + 2
           /\ \A a : IsSequence(Append(stack, a)) /\ Len(Append(stack, a)) = Len(stack) + 1
           /\ \A words \in 0 .. Len(stack) :
                  /\ IsSequence(Dropped(words))
                  /\ Len(Dropped(words)) = Len(stack) + (-words)
           /\ \A place, a : LET new == [stack EXCEPT ![place] = a]
                            IN  IsSequence(new) /\ Len(new) = Len(stack)
<1>1. PICK S : stack \in Seq(S)
  BY DEF IsSequence
<1>2. ASSUME NEW a, NEW b
      PROVE  IsSequence(stack \o <<a, b>>) /\ Len(stack \o <<a, b>>) = Len(stack) + 2
  <2>1. <<a, b>> \in Seq(S \cup {a, b}) /\ stack \in Seq(S \cup {a, b}) /\ Len(<<a, b>>) = 2
    BY <1>1
  <2>2. stack \o <<a, b>> \in Seq(S \cup {a, b})
    BY <2>1
  <2>3. QED
    BY <2>1, <2>2 DEF IsSequence
<1>3. ASSUME NEW a
      PROVE  IsSequence(Append(stack, a)) /\ Len(Append(stack, a)) = Len(stack) + 1
  <2>1. stack \in Seq(S \cup {a}) /\ Append(stack, a) \in Seq(S \cup {a})
    BY <1>1
  <2>2. QED
    BY <2>1 DEF IsSequence
<1>4. ASSUME NEW words \in 0 .. Len(stack)
      PROVE  IsSequence(Dropped(words)) /\ Len(Dropped(words)) = Len(stack) + (-words)
  <2>1. SubSeq(stack, 1, Len(stack) - words) \in Seq(S)
    BY <1>1
  <2>2. Len(SubSeq(stack, 1, Len(stack) - words)) = Len(stack) - words
    BY <1>1
  <2>3. QED
    BY <1>1, <2>1, <2>2 DEF IsSequence, Dropped
<1>5. ASSUME NEW place, NEW a
      PROVE  LET new == [stack EXCEPT ![place] = a] IN IsSequence(new) /\ Len(new) = Len(stack)
  <2>1. PICK n, new : n = Len(stack) /\ new = [stack EXCEPT ![place] = a]
    OBVIOUS
  <2>2. n \in Nat /\ DOMAIN stack = 1 .. n
    BY <1>1, <2>1
  <2>3. new = [k \in 1 .. n |-> new[k]]
    BY <2>1, <2>2
  <2>4. QED
    BY <2>1, <2>2, <2>3, RunIs
<1>6. QED
  BY <1>2, <1>3, <1>4, <1>5

LEMMA StackRuns == ASSUME Runs, RunStack PROVE Runs'
<1>1. PICK at, w : Running(at, w)
  BY DEF Runs
<1>2. ~Done /\ pc' = pc + 1 /\ code' = code
  BY DEF RunStack, At, Stack, Step, generator
<1>3. /\ Len(stack) \in Nat /\ Len(stack) + Rise(Instr) \in Nat
      /\ Balanced(Instr, Len(stack), at) /\ IsSequence(stack)
  BY <1>1, <1>2, InstrIs DEF Running
<1>4. IsSequence(stack') /\ Len(stack') = Len(stack) + Rise(Instr)
  <2>1. CASE At("push argument") /\ Stack(stack \o <<Junk, file[Reg]>>)
    <3>1. Rise(Instr) = 2
      BY <2>1 DEF At, Rise
    <3>2. QED
      BY <1>3, <2>1, <3>1, StackIs DEF Stack
  <2>2. CASE At("push") /\ Stack(Append(stack, file[Reg]))
    <3>1. Rise(Instr) = 1
      BY <2>2 DEF At, Rise
    <3>2. QED
      BY <1>3, <2>2, <3>1, StackIs DEF Stack
  <2>3. CASE At("pad") /\ Stack(Append(stack, Junk))
    <3>1. Rise(Instr) = 1
      BY <2>3 DEF At, Rise
    <3>2. QED
      BY <1>3, <2>3, <3>1, StackIs DEF Stack
  <2>4. CASE At("drop") /\ Stack(Dropped(Instr.words))
    <3>1. PICK words : words = Instr.words
      OBVIOUS
    <3>2. Rise(Instr) = -words /\ words \in Nat
      BY <1>3, <2>4, <3>1 DEF At, Rise, Balanced
    <3>3. words \in 0 .. Len(stack)
      BY <1>3, <3>2
    <3>4. stack' = Dropped(words)
      BY <2>4, <3>1 DEF Stack
    <3>5. QED
      BY <1>3, <3>2, <3>3, <3>4, StackIs
  <2>5. CASE At("pop") /\ Stack(Dropped(1))
    <3>1. Rise(Instr) = -1
      BY <2>5 DEF At, Rise
    <3>2. 1 \in 0 .. Len(stack)
      BY <1>3, <3>1
    <3>3. stack' = Dropped(1)
      BY <2>5 DEF Stack
    <3>4. QED
      BY <1>3, <3>1, <3>2, <3>3, StackIs
  <2>6. CASE At("param") /\ Stack(stack)
    <3>1. Rise(Instr) = 0
      BY <2>6 DEF At, Rise
    <3>2. stack' = stack /\ Len(stack) + 0 = Len(stack)
      BY <1>3, <2>6 DEF Stack
    <3>3. QED
      BY <1>3, <3>1, <3>2
  <2>7. CASE At("pack") /\ Stack([stack EXCEPT ![Len(stack) - Instr.to] =
                                     stack[Len(stack) - Instr.from]])
    <3>1. Rise(Instr) = 0
      BY <2>7 DEF At, Rise
    <3>2. PICK place, a : stack' = [stack EXCEPT ![place] = a]
      BY <2>7 DEF Stack
    <3>3. IsSequence(stack') /\ Len(stack') = Len(stack)
      BY <1>3, <3>2, StackIs
    <3>4. Len(stack) + 0 = Len(stack)
      BY <1>3
    <3>5. QED
      BY <3>1, <3>3, <3>4
  <2>8. QED
    BY <2>1, <2>2, <2>3, <2>4, <2>5, <2>6, <2>7 DEF RunStack
<1>5. QED
  BY <1>1, <1>2, <1>4, StepRuns

LEMMA EnterRuns == ASSUME WalkStands, stack = <<>>, Enter PROVE Runs'
<1>1. PICK at, m : Laid(at, m)
  BY DEF WalkStands
<1>2. pending = <<>> /\ pc' = 1 /\ code' = code /\ stack' = stack
  BY DEF Enter, Generated, generator
<1>3. m = 0
  BY <1>1, <1>2, NoneStacks DEF Laid
<1>4. IsSequence(code)
  BY <1>1 DEF Laid, Stacks
<1>5. PICK w : Words(code, w, 0, 0, at)
  BY <1>1, <1>3 DEF Laid, Stacks
<1>6. w[1] = 0 /\ 1 \in 1 .. Len(code) + 1
  BY <1>4, <1>5 DEF Words, IsSequence
<1>7. \A label \in DOMAIN at : Has(code, label)
  BY <1>1, <1>2 DEF Laid, Has
<1>8. IsSequence(stack) /\ Len(stack) = 0
  BY DEF IsSequence
<1>9. Running(at, w)'
  BY <1>2, <1>4, <1>5, <1>6, <1>7, <1>8 DEF Running
<1>10. QED
  BY <1>9 DEF Runs

LEMMA GenStepStands == ASSUME GenInv, WalkStands, GenNext PROVE WalkStands'
BY GenExprStands, AllocStands, RefuseStands, FreeStands, EmitStands, EmitCallStands DEF GenNext

LEMMA StackInit == Init => StackInv
<1> SUFFICES ASSUME Init PROVE StackInv
  OBVIOUS
<1>1. GenInv /\ WalkStands
  BY GenInitInv, InitStands DEF Init
<1>2. pc = 0 /\ stack = <<>>
  BY DEF Init
<1>3. QED
  BY <1>1, <1>2 DEF StackInv

LEMMA StackStep == StackInv /\ [Next]_vars => StackInv'
<1> SUFFICES ASSUME StackInv, [Next]_vars PROVE StackInv'
  OBVIOUS
<1>1. GenInv'
  BY GenStepKeepsInv DEF StackInv
<1>2. ASSUME pc # 0, pc' # 0, Runs', UNCHANGED generator PROVE StackInv'
  <2>1. ~refused'
    BY <1>2 DEF StackInv, generator
  <2>2. QED
    BY <1>1, <1>2, <2>1 DEF StackInv
<1>3. ASSUME UNCHANGED <<pc, stack, code>>, Runs PROVE Runs'
  BY <1>3 DEF Runs, Running
<1>4. CASE Generate
  <2>1. pc = 0 /\ GenNext /\ pc' = pc /\ stack' = stack
    BY <1>4 DEF Generate, machine
  <2>2. WalkStands' /\ stack' = <<>> /\ pc' = 0
    BY <2>1, GenStepStands DEF StackInv
  <2>3. QED
    BY <1>1, <2>2 DEF StackInv
<1>5. CASE Enter
  <2>1. pc = 0 /\ pc' = 1 /\ ~refused /\ refused' = refused
    BY <1>5 DEF Enter, generator
  <2>2. WalkStands /\ stack = <<>>
    BY <2>1 DEF StackInv
  <2>3. Runs'
    BY <1>5, <2>2, EnterRuns
  <2>4. QED
    BY <1>1, <2>1, <2>3 DEF StackInv
<1>6. CASE \/ RunLoad \/ RunOperation \/ RunWrite \/ SpillRegister \/ ReloadRegister
           \/ RunLabel \/ RunJump \/ RunStack \/ RunCall \/ RunFetch
  <2>1. pc # 0 /\ ~Done /\ UNCHANGED generator
    BY <1>6 DEF RunLoad, RunOperation, RunWrite, SpillRegister, ReloadRegister, RunLabel,
                RunJump, RunStack, RunCall, RunFetch, At, Step, Stack, Jump
  <2>2. Runs
    BY <2>1 DEF StackInv
  <2>3. Runs'
    BY <1>6, <2>2, FlatSteps, JumpRuns, StackRuns
  <2>4. pc' # 0
    BY <2>3 DEF Runs, Running
  <2>5. QED
    BY <1>2, <2>1, <2>3, <2>4
<1>7. CASE UNCHANGED vars
  <2>1. UNCHANGED generator /\ UNCHANGED <<pc, stack, code>> /\ refused' = refused
    BY <1>7 DEF vars, machine, generator
  <2>2. CASE pc = 0
    <3>1. WalkStands' /\ stack' = <<>>
      BY <2>1, <2>2, WalkStillStands DEF StackInv
    <3>2. QED
      BY <1>1, <2>1, <2>2, <3>1 DEF StackInv
  <2>3. CASE pc # 0
    <3>1. Runs'
      BY <1>3, <2>1, <2>3 DEF StackInv
    <3>2. QED
      BY <1>2, <2>1, <2>3, <3>1
  <2>4. QED
    BY <2>2, <2>3
<1>8. QED
  BY <1>4, <1>5, <1>6, <1>7 DEF Next

\* While the code is written it stands as high at its end as what is pending
\* begins, and while it runs the stack is as high as it says.
THEOREM StackInvariance == Spec => []StackInv
<1>1. Init => StackInv
  BY StackInit
<1>2. StackInv /\ [Next]_vars => StackInv'
  BY StackStep
<1>3. QED
  BY <1>1, <1>2, PTL DEF Spec

\* Every function is called with the stack a multiple of sixteen bytes, and an
\* expression gives back all it put on the stack, whatever it is made of: what
\* Call() of the two targets pads, drops and pops balances.
THEOREM StackStaysInOrder == Spec => []StackInOrder
<1>1. StackInv => StackInOrder
  <2> SUFFICES ASSUME StackInv PROVE StackInOrder
    OBVIOUS
  <2>1. ASSUME At("call") PROVE Len(stack) % 2 = 0
    <3>1. pc # 0 /\ ~Done /\ Instr.op = "call"
      BY <2>1 DEF At
    <3>2. PICK at, w : Running(at, w)
      BY <3>1 DEF StackInv, Runs
    <3>3. Balanced(Instr, Len(stack), at)
      BY <3>1, <3>2, InstrIs
    <3>4. QED
      BY <3>1, <3>3 DEF Balanced, Aligned
  <2>2. ASSUME Ended PROVE stack = <<>>
    <3>1. CASE pc = 0
      BY <3>1 DEF StackInv
    <3>2. CASE pc # 0
      <4>1. Done /\ Runs
        BY <2>2, <3>2 DEF StackInv, Ended
      <4>2. PICK at, w : Running(at, w)
        BY <4>1 DEF Runs
      <4>3. PICK n \in Nat : n = Len(code)
        BY <4>2 DEF Running, IsSequence
      <4>4. pc = n + 1
        BY <4>1, <4>2, <4>3 DEF Done, Running
      <4>5. Len(stack) = 0 /\ IsSequence(stack)
        BY <4>2, <4>3, <4>4 DEF Running, Words
      <4>6. QED
        BY <4>5 DEF IsSequence
    <3>3. QED
      BY <3>1, <3>2
  <2>3. QED
    BY <2>1, <2>2 DEF StackInOrder
<1>2. QED
  BY <1>1, StackInvariance, PTL
=============================================================================
