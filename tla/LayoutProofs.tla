---------------------------- MODULE LayoutProofs ----------------------------
(***************************************************************************)
(* Nothing the parser puts down lies in the bytes of something else,       *)
(* however types are nested in one another and however many members,       *)
(* parameters and variables there are.                                     *)
(***************************************************************************)
EXTENDS Layout, WellFoundedInduction, TLAPS

\* A set of numbers with 0 in it and the number after each of its own.
LEMMA AllNumbers ==
    ASSUME NEW S, 0 \in S, \A n \in Nat : n \in S => n + 1 \in S
    PROVE  \A n \in Nat : n \in S
<1> SUFFICES ASSUME Nat \ S # {} PROVE FALSE
  OBVIOUS
<1>1. PICK n \in Nat \ S : \A m \in Nat \ S : ~ (<<m, n>> \in OpToRel(<, Nat))
  BY WFMin, NatLessThanWellFounded
<1>2. n \in Nat /\ n \notin S
  OBVIOUS
<1>3. n # 0 /\ n - 1 \in Nat /\ n - 1 < n /\ (n - 1) + 1 = n
  BY <1>2
<1>4. n - 1 \in S
  BY <1>1, <1>3 DEF OpToRel
<1>5. (n - 1) + 1 \in S
  BY <1>3, <1>4
<1>6. QED
  BY <1>2, <1>3, <1>5

-----------------------------------------------------------------------------
\* Alignments and rounding up.
Alignments == {1, 2, 4, 8}

LEMMA PlacedIs ==
    ASSUME NEW used \in Nat, NEW alignment \in Alignments
    PROVE  /\ Placed(used, alignment) \in Nat
           /\ Placed(used, alignment) >= used
           /\ Placed(used, alignment) % alignment = 0
<1>1. used % alignment \in 0 .. alignment - 1
  BY DEF Alignments
<1>2. CASE alignment = 1
  BY <1>2 DEF Placed
<1>3. CASE alignment = 2
  BY <1>3 DEF Placed
<1>4. CASE alignment = 4
  BY <1>4 DEF Placed
<1>5. CASE alignment = 8
  BY <1>5 DEF Placed
<1>6. QED
  BY <1>2, <1>3, <1>4, <1>5 DEF Alignments

LEMMA SmallerDivides ==
    ASSUME NEW n \in Nat, NEW small \in Alignments, NEW large \in Alignments,
           small <= large, n % large = 0
    PROVE  n % small = 0
BY DEF Alignments

\* Of finitely many numbers one is the largest.
LEMMA LargestOf ==
    ASSUME NEW n \in Nat \ {0}, NEW f, \A k \in 1 .. n : f[k] \in Nat
    PROVE  /\ Max({f[k] : k \in 1 .. n}) \in Nat
           /\ \A k \in 1 .. n : f[k] <= Max({f[j] : j \in 1 .. n})
<1> DEFINE S == {m \in Nat : m >= 1 /\ m <= n => \E k \in 1 .. m : \A j \in 1 .. m : f[k] >= f[j]}
<1>1. 0 \in S
  OBVIOUS
<1>2. ASSUME NEW m \in Nat, m \in S
      PROVE  m + 1 \in S
  <2> SUFFICES ASSUME m + 1 <= n
               PROVE  \E k \in 1 .. m + 1 : \A j \in 1 .. m + 1 : f[k] >= f[j]
    OBVIOUS
  <2>0. f[m + 1] \in Nat
    OBVIOUS
  <2>1. CASE m = 0
    <3>1. 1 .. m + 1 = {1}
      BY <2>1
    <3>2. QED
      BY <2>0, <2>1, <3>1
  <2>2. CASE m # 0
    <3>1. PICK k \in 1 .. m : \A j \in 1 .. m : f[k] >= f[j]
      BY <1>2, <2>2
    <3>2. f[k] \in Nat /\ k \in 1 .. m + 1 /\ m + 1 \in 1 .. m + 1
      OBVIOUS
    <3>3. CASE f[k] >= f[m + 1]
      <4>1. \A j \in 1 .. m + 1 : f[k] >= f[j]
        BY <3>1, <3>3
      <4>2. QED
        BY <3>2, <4>1
    <3>4. CASE ~(f[k] >= f[m + 1])
      <4>1. ASSUME NEW j \in 1 .. m + 1 PROVE f[m + 1] >= f[j]
        <5>1. CASE j = m + 1
          BY <2>0, <5>1
        <5>2. CASE j # m + 1
          <6>1. j \in 1 .. m /\ j \in 1 .. n
            BY <5>2
          <6>2. f[k] >= f[j] /\ f[j] \in Nat
            BY <3>1, <6>1
          <6>3. QED
            BY <2>0, <3>2, <3>4, <6>2
        <5>3. QED
          BY <5>1, <5>2
      <4>2. QED
        BY <3>2, <4>1
    <3>5. QED
      BY <3>3, <3>4
  <2>3. QED
    BY <2>1, <2>2
<1>3. \A m \in Nat : m \in S
  <2> HIDE DEF S
  <2>1. QED
    BY <1>1, <1>2, AllNumbers
<1>4. PICK k \in 1 .. n : \A j \in 1 .. n : f[k] >= f[j]
  BY <1>3
<1> DEFINE T == {f[j] : j \in 1 .. n}
<1>5. f[k] \in T /\ \A y \in T : f[k] >= y
  BY <1>4
<1>6. Max(T) \in T /\ \A y \in T : Max(T) >= y
  BY <1>5 DEF Max
<1>7. QED
  BY <1>6

-----------------------------------------------------------------------------
\* A list of definitions, whatever step is taken with it.
FitsIn(symbol, defs) ==
    /\ {"type", "stype", "count", "offset"} \subseteq DOMAIN symbol
    /\ IsComposite(symbol.type) => symbol.type.composite \in 0 .. Len(defs)
    /\ symbol.count \in Nat
    /\ SymbolStorageSize(symbol, defs) # 0

EndIn(symbol, defs) == symbol.offset + SymbolStorageSize(symbol, defs)

LiesApart(definition, defs) ==
    LET all == definition.members
    IN  /\ \A k \in 1 .. Len(all) :
               /\ all[k].offset % ValueAlignment(all[k].type, defs) = 0
               /\ definition.size % ValueAlignment(all[k].type, defs) = 0
               /\ EndIn(all[k], defs) <= definition.size
        /\ definition.kind = "struct" =>
               \A j, k \in 1 .. Len(all) : j < k => EndIn(all[j], defs) <= all[k].offset

IsSized(defs) ==
    /\ IsTable(defs)
    /\ \A d \in 1 .. Len(defs) : defs[d].size \in Nat /\ defs[d].alignment \in Alignments

IsDefinition(definition, defs) ==
    /\ {"kind", "members", "size", "alignment"} \subseteq DOMAIN definition
    /\ IsTable(definition.members)
    /\ \A k \in 1 .. Len(definition.members) : FitsIn(definition.members[k], defs)
    /\ definition.size # 0 => LiesApart(definition, defs)

Sound(defs) == IsSized(defs) /\ \A d \in 1 .. Len(defs) : IsDefinition(defs[d], defs)

LEMMA TableIs ==
    ASSUME NEW table, IsTable(table)
    PROVE  /\ table = [k \in 1 .. Len(table) |-> table[k]] /\ Len(table) \in Nat
           /\ DOMAIN table = 1 .. Len(table)
           /\ \E S : table \in Seq(S)
<1>1. Len(table) \in Nat /\ table = [k \in 1 .. Len(table) - 0 |-> table[0 + k]]
  BY DEF IsTable, After
<1>2. Len(table) - 0 = Len(table) /\ \A k \in 1 .. Len(table) : 0 + k = k
  BY <1>1
<1>3. table = [k \in 1 .. Len(table) |-> table[k]]
  BY <1>1, <1>2
<1>4. table \in Seq({table[k] : k \in 1 .. Len(table)})
  BY <1>1, <1>3
<1>5. QED
  BY <1>1, <1>3, <1>4

LEMMA FunctionIsTable ==
    ASSUME NEW n \in Nat, NEW table, table = [k \in 1 .. n |-> table[k]]
    PROVE  IsTable(table) /\ Len(table) = n
<1>1. table \in Seq({table[k] : k \in 1 .. n}) /\ Len(table) = n
  OBVIOUS
<1>2. n - 0 = n /\ \A k \in 1 .. n : 0 + k = k
  OBVIOUS
<1>3. [k \in 1 .. n - 0 |-> table[0 + k]] = [k \in 1 .. n |-> table[k]]
  BY <1>2
<1>4. QED
  BY <1>1, <1>3 DEF IsTable, After

LEMMA AppendIsTable ==
    ASSUME NEW table, IsTable(table), NEW e
    PROVE  /\ IsTable(Append(table, e)) /\ Len(Append(table, e)) = Len(table) + 1
           /\ \A k \in 1 .. Len(table) : Append(table, e)[k] = table[k]
           /\ Append(table, e)[Len(table) + 1] = e
<1> DEFINE more == Append(table, e)
<1>1. Len(table) \in Nat
  BY TableIs
<1>2. PICK S : table \in Seq(S)
  BY TableIs
<1>3. table \in Seq(S \cup {e}) /\ more \in Seq(S \cup {e})
  BY <1>2
<1>4. Len(more) = Len(table) + 1 /\ more[Len(table) + 1] = e
      /\ \A k \in 1 .. Len(table) : more[k] = table[k]
  BY <1>3
<1>5. more = [k \in 1 .. Len(more) |-> more[k]]
  <2> HIDE DEF more
  <2>1. QED
    BY <1>3
<1>6. IsTable(more)
  <2> HIDE DEF more
  <2>1. QED
    BY <1>1, <1>4, <1>5, FunctionIsTable
<1>7. QED
  BY <1>4, <1>6

LEMMA PrimitiveSizeIs ==
    ASSUME NEW type
    PROVE  PrimitiveSize(type) \in {0, 1, 2, 4, 8}
BY SizesGrow DEF PrimitiveSize, IsIntType, IsPointerType

\* What fits has a size, and an alignment which is the largest of its bytes' .
LEMMA SizeIs ==
    ASSUME NEW defs, IsSized(defs), NEW symbol, FitsIn(symbol, defs)
    PROVE  /\ SymbolStorageSize(symbol, defs) \in Nat \ {0}
           /\ ValueAlignment(symbol.type, defs) \in Alignments
           /\ IsComposite(symbol.type) =>
                  /\ symbol.type.composite \in 1 .. Len(defs)
                  /\ defs[symbol.type.composite].size # 0
<1> DEFINE type == symbol.type
           size == ValueSize(type, defs)
           count == IF symbol.stype = "kArray" THEN symbol.count ELSE 1
<1>1. Len(defs) \in Nat
  BY DEF IsSized, IsTable
<1>2. SymbolStorageSize(symbol, defs) = size * count /\ count \in Nat
  BY DEF SymbolStorageSize, FitsIn
<1>3. PrimitiveSize(type) \in {0, 1, 2, 4, 8}
  BY PrimitiveSizeIs
<1>4. size \in Nat
  <2>1. CASE IsComposite(type)
    BY <1>1, <2>1 DEF ValueSize, FitsIn, IsSized
  <2>2. CASE ~IsComposite(type)
    BY <1>3, <2>2 DEF ValueSize
  <2>3. QED
    BY <2>1, <2>2
<1>5. size # 0
  <2> HIDE DEF size, count
  <2>1. size = 0 => size * count = 0
    BY <1>2
  <2>2. QED
    BY <1>2, <2>1 DEF FitsIn
<1>6. size * count \in Nat
  <2> HIDE DEF size, count
  <2>1. QED
    BY <1>2, <1>4
<1>7. IsComposite(type) => type.composite \in 1 .. Len(defs) /\ defs[type.composite].size # 0
  BY <1>1, <1>5 DEF ValueSize, FitsIn
<1>8. ValueAlignment(type, defs) \in Alignments
  BY <1>3, <1>7 DEF ValueAlignment, IsSized, Alignments
<1>9. QED
  BY <1>2, <1>6, <1>7, <1>8 DEF FitsIn

\* Definitions which have a size stay what they are, and others come behind.
Keep(old, new) ==
    /\ Len(old) \in Nat /\ Len(new) \in Nat /\ Len(old) <= Len(new)
    /\ \A d \in 1 .. Len(old) : old[d].size # 0 => new[d] = old[d]

LEMMA FitsOn ==
    ASSUME NEW old, NEW new, IsSized(old), Keep(old, new), NEW symbol, FitsIn(symbol, old)
    PROVE  /\ FitsIn(symbol, new)
           /\ SymbolStorageSize(symbol, new) = SymbolStorageSize(symbol, old)
           /\ ValueAlignment(symbol.type, new) = ValueAlignment(symbol.type, old)
<1>1. IsComposite(symbol.type) =>
          /\ symbol.type.composite \in 1 .. Len(old)
          /\ new[symbol.type.composite] = old[symbol.type.composite]
  BY SizeIs DEF Keep
<1>2. ValueSize(symbol.type, new) = ValueSize(symbol.type, old)
  BY <1>1 DEF ValueSize
<1>3. SymbolStorageSize(symbol, new) = SymbolStorageSize(symbol, old)
  BY <1>2 DEF SymbolStorageSize
<1>4. ValueAlignment(symbol.type, new) = ValueAlignment(symbol.type, old)
  BY <1>1 DEF ValueAlignment
<1>5. FitsIn(symbol, new)
  BY <1>1, <1>3 DEF FitsIn, Keep
<1>6. QED
  BY <1>3, <1>4, <1>5

LEMMA DefinitionStays ==
    ASSUME NEW old, NEW new, IsSized(old), Keep(old, new),
           NEW definition, IsDefinition(definition, old)
    PROVE  IsDefinition(definition, new)
<1> DEFINE all == definition.members
<1>1. ASSUME NEW k \in 1 .. Len(all)
      PROVE  /\ FitsIn(all[k], new)
             /\ SymbolStorageSize(all[k], new) = SymbolStorageSize(all[k], old)
             /\ ValueAlignment(all[k].type, new) = ValueAlignment(all[k].type, old)
  <2>1. FitsIn(all[k], old)
    BY DEF IsDefinition
  <2>2. QED
    BY <2>1, FitsOn
<1>2. \A k \in 1 .. Len(all) : EndIn(all[k], new) = EndIn(all[k], old)
  BY <1>1 DEF EndIn
<1>3. LiesApart(definition, old) => LiesApart(definition, new)
  BY <1>1, <1>2 DEF LiesApart
<1>4. QED
  BY <1>1, <1>3 DEF IsDefinition

-----------------------------------------------------------------------------
\* Where members and parameters begin, one after another.
Offset(f, all, k) ==
    IF k = 1 THEN 0
    ELSE Placed(f[k - 1] + StorageSize(all[k - 1]), SymbolAlignment(all[k]))

AreOffsets(f, all, n) == f = [k \in 1 .. n |-> Offset(f, all, k)]

LEMMA OffsetsExist ==
    ASSUME NEW all, NEW n \in Nat
    PROVE  \E f : AreOffsets(f, all, n)
<1> DEFINE S == {m \in Nat : \E f : AreOffsets(f, all, m)}
<1>1. 0 \in S
  <2> DEFINE f == [k \in 1 .. 0 |-> 0]
  <2>1. f = [k \in 1 .. 0 |-> Offset(f, all, k)]
    OBVIOUS
  <2> HIDE DEF f
  <2>2. AreOffsets(f, all, 0)
    BY <2>1 DEF AreOffsets
  <2>3. QED
    BY <2>2
<1>2. ASSUME NEW m \in Nat, m \in S
      PROVE  m + 1 \in S
  <2>1. PICK f : AreOffsets(f, all, m)
    BY <1>2
  <2> DEFINE last == Offset(f, all, m + 1)
             g == [k \in 1 .. m + 1 |-> IF k = m + 1 THEN last ELSE f[k]]
  <2>2. ASSUME NEW k \in 1 .. m + 1
        PROVE  g[k] = Offset(g, all, k)
    <3>1. k # 1 => k - 1 \in 1 .. m + 1 /\ g[k - 1] = f[k - 1]
      OBVIOUS
    <3>2. Offset(g, all, k) = Offset(f, all, k)
      <4> HIDE DEF g
      <4>1. QED
        BY <3>1 DEF Offset
    <3>3. CASE k = m + 1
      <4>1. g[k] = last
        BY <3>3
      <4>2. QED
        BY <3>2, <3>3, <4>1
    <3>4. CASE k # m + 1
      <4>1. k \in 1 .. m /\ g[k] = f[k]
        BY <3>4
      <4>2. f[k] = Offset(f, all, k)
        BY <2>1, <4>1 DEF AreOffsets
      <4>3. QED
        BY <3>2, <4>1, <4>2
    <3>5. QED
      BY <3>3, <3>4
  <2>3. g = [k \in 1 .. m + 1 |-> g[k]]
    OBVIOUS
  <2> HIDE DEF g
  <2>4. AreOffsets(g, all, m + 1)
    BY <2>2, <2>3 DEF AreOffsets
  <2>5. QED
    BY <2>4
<1>3. \A m \in Nat : m \in S
  <2> HIDE DEF S
  <2>1. QED
    BY <1>1, <1>2, AllNumbers
<1>4. QED
  BY <1>3

LEMMA OffsetsAre ==
    ASSUME NEW all, IsTable(all)
    PROVE  AreOffsets(Offsets(all), all, Len(all))
<1>1. DOMAIN all = 1 .. Len(all) /\ Len(all) \in Nat
  BY TableIs
<1>2. Offsets(all) = CHOOSE f : AreOffsets(f, all, Len(all))
  BY <1>1 DEF Offsets, AreOffsets, Offset
<1>3. \E f : AreOffsets(f, all, Len(all))
  BY <1>1, OffsetsExist
<1>4. QED
  BY <1>2, <1>3

\* One begins behind the end of every one before it, where its type wants it.
LEMMA OffsetsApart ==
    ASSUME NEW all, IsTable(all), IsSized(types),
           \A k \in 1 .. Len(all) : FitsIn(all[k], types)
    PROVE  /\ DOMAIN Offsets(all) = 1 .. Len(all)
           /\ \A k \in 1 .. Len(all) :
                  /\ Offsets(all)[k] \in Nat
                  /\ Offsets(all)[k] % SymbolAlignment(all[k]) = 0
           /\ \A j, k \in 1 .. Len(all) :
                  j < k => Offsets(all)[j] + StorageSize(all[j]) <= Offsets(all)[k]
<1> DEFINE f == Offsets(all)
           n == Len(all)
<1>1. n \in Nat
  BY TableIs
<1>2. f = [k \in 1 .. n |-> Offset(f, all, k)]
  BY OffsetsAre DEF AreOffsets
<1> HIDE DEF f, n
<1>3. DOMAIN f = 1 .. n /\ \A k \in 1 .. n : f[k] = Offset(f, all, k)
  BY <1>2
<1>4. ASSUME NEW k \in 1 .. n
      PROVE  StorageSize(all[k]) \in Nat \ {0} /\ SymbolAlignment(all[k]) \in Alignments
  BY <1>4, SizeIs DEF StorageSize, SymbolAlignment, n
<1> DEFINE Stands(k) == f[k] \in Nat /\ f[k] % SymbolAlignment(all[k]) = 0
           Behind(k) == \A j \in 1 .. k - 1 : f[j] \in Nat /\ f[j] + StorageSize(all[j]) <= f[k]
           S == {m \in Nat : m >= 1 /\ m <= n => Stands(m) /\ Behind(m)}
<1>5. 0 \in S
  OBVIOUS
<1>6. ASSUME NEW m \in Nat, m \in S
      PROVE  m + 1 \in S
  <2> SUFFICES ASSUME m + 1 <= n PROVE Stands(m + 1) /\ Behind(m + 1)
    OBVIOUS
  <2>1. m + 1 \in 1 .. n /\ (m + 1) - 1 = m
    BY <1>1
  <2>2. CASE m = 0
    <3>1. f[m + 1] = 0
      BY <1>3, <2>1, <2>2 DEF Offset
    <3>2. SymbolAlignment(all[m + 1]) \in Alignments
      BY <1>4, <2>1
    <3>3. 0 % SymbolAlignment(all[m + 1]) = 0
      BY <3>2 DEF Alignments
    <3>4. QED
      BY <2>2, <3>1, <3>3
  <2>3. CASE m # 0
    <3>1. m \in 1 .. n /\ m + 1 # 1
      BY <1>1, <2>3
    <3>2. Stands(m) /\ Behind(m)
      BY <1>6, <2>3, <3>1
    <3> DEFINE end == f[m] + StorageSize(all[m])
    <3>3. f[m + 1] = Placed(end, SymbolAlignment(all[m + 1]))
      BY <1>3, <2>1, <3>1 DEF Offset
    <3>4. StorageSize(all[m]) \in Nat /\ SymbolAlignment(all[m + 1]) \in Alignments
      BY <1>4, <2>1, <3>1
    <3>5. end \in Nat /\ end >= f[m]
      BY <3>2, <3>4
    <3>6. Stands(m + 1) /\ end <= f[m + 1]
      <4> HIDE DEF end
      <4>1. QED
        BY <3>3, <3>4, <3>5, PlacedIs
    <3>7. ASSUME NEW j \in 1 .. m
          PROVE  f[j] \in Nat /\ f[j] + StorageSize(all[j]) <= f[m + 1]
      <4>1. CASE j = m
        BY <3>2, <3>6, <4>1
      <4>2. CASE j # m
        <5>1. j \in 1 .. m - 1 /\ j \in 1 .. n
          BY <1>1, <3>1, <4>2
        <5>2. f[j] + StorageSize(all[j]) <= f[m]
          BY <3>2, <5>1
        <5>3. f[m] \in Nat /\ f[m + 1] \in Nat /\ StorageSize(all[j]) \in Nat
          BY <1>4, <3>2, <3>6, <5>1
        <5>4. f[j] \in Nat
          BY <3>2, <5>1
        <5>5. QED
          BY <3>5, <3>6, <5>2, <5>3, <5>4
      <4>3. QED
        BY <4>1, <4>2
    <3>8. QED
      BY <2>1, <3>6, <3>7
  <2>4. QED
    BY <2>2, <2>3
<1>7. \A m \in Nat : m \in S
  <2> HIDE DEF S
  <2>1. QED
    BY <1>5, <1>6, AllNumbers
<1>8. ASSUME NEW k \in 1 .. n
      PROVE  Stands(k) /\ Behind(k)
  <2>1. k \in S /\ k \in Nat /\ k >= 1 /\ k <= n
    BY <1>1, <1>7
  <2> HIDE DEF Stands, Behind
  <2>2. QED
    BY <2>1
<1>9. ASSUME NEW j \in 1 .. n, NEW k \in 1 .. n, j < k
      PROVE  f[j] + StorageSize(all[j]) <= f[k]
  <2>1. j \in 1 .. k - 1
    BY <1>1, <1>9
  <2>2. QED
    BY <1>8, <2>1
<1>10. QED
  BY <1>3, <1>8, <1>9 DEF f, n

-----------------------------------------------------------------------------
\* A definition which is laid out.
LEMMA LargestAlignment ==
    ASSUME NEW A, A \subseteq Alignments, 1 \in A
    PROVE  Max(A) \in A /\ \A y \in A : Max(A) >= y
<1>1. \E x \in A : \A y \in A : x >= y
  BY DEF Alignments
<1>2. QED
  BY <1>1 DEF Max

LEMMA MemberOffsetsAre ==
    ASSUME Sound(types), NEW d \in 1 .. Len(types)
    PROVE  LET all == types[d].members
               offset == MemberOffsets(d)
           IN  /\ \A k \in 1 .. Len(all) :
                      /\ offset[k] \in Nat
                      /\ offset[k] % SymbolAlignment(all[k]) = 0
               /\ types[d].kind = "struct" =>
                      \A j, k \in 1 .. Len(all) :
                          j < k => offset[j] + StorageSize(all[j]) <= offset[k]
<1> DEFINE all == types[d].members
           offset == MemberOffsets(d)
<1>1. /\ IsTable(all) /\ IsSized(types)
      /\ \A k \in 1 .. Len(all) : FitsIn(all[k], types)
  BY DEF Sound, IsDefinition
<1>2. DOMAIN all = 1 .. Len(all)
  BY <1>1, TableIs
<1>3. CASE types[d].kind = "union"
  <2>1. \A k \in 1 .. Len(all) : offset[k] = 0
    BY <1>2, <1>3 DEF MemberOffsets
  <2>2. ASSUME NEW k \in 1 .. Len(all)
        PROVE  0 % SymbolAlignment(all[k]) = 0
    <3>1. SymbolAlignment(all[k]) \in Alignments
      BY <1>1, SizeIs DEF SymbolAlignment
    <3>2. QED
      BY <3>1 DEF Alignments
  <2>3. types[d].kind # "struct"
    BY <1>3
  <2>4. QED
    BY <2>1, <2>2, <2>3
<1>4. CASE types[d].kind # "union"
  <2>1. offset = Offsets(all)
    BY <1>4 DEF MemberOffsets
  <2> HIDE DEF all, offset
  <2>2. QED
    BY <1>1, <2>1, OffsetsApart DEF all, offset
<1>5. QED
  BY <1>3, <1>4

LEMMA LaidOutLies ==
    ASSUME Sound(types), NEW d \in 1 .. Len(types), types[d].members # <<>>
    PROVE  /\ LaidOut(d).size \in Nat
           /\ LaidOut(d).alignment \in Alignments
           /\ IsDefinition(LaidOut(d), types)
<1> DEFINE all == types[d].members
           n == Len(all)
           offset == MemberOffsets(d)
           A == {1} \union {SymbolAlignment(all[k]) : k \in DOMAIN all}
           ends == [k \in 1 .. n |-> offset[k] + StorageSize(all[k])]
           alignment == Max(A)
           end == Max({ends[k] : k \in 1 .. n})
           members == [k \in DOMAIN all |-> [all[k] EXCEPT !.offset = offset[k]]]
           size == Placed(end, alignment)
<1>1. /\ IsTable(all) /\ IsSized(types)
      /\ \A k \in 1 .. n : FitsIn(all[k], types)
      /\ {"kind", "members", "size", "alignment"} \subseteq DOMAIN types[d]
  BY DEF Sound, IsDefinition
<1>2. DOMAIN all = 1 .. n /\ n \in Nat /\ all = [k \in 1 .. n |-> all[k]]
  BY <1>1, TableIs
<1>3. n # 0
  <2> SUFFICES ASSUME n = 0 PROVE FALSE
    OBVIOUS
  <2>1. \E S : all \in Seq(S)
    BY <1>1, TableIs
  <2>2. all = <<>>
    BY <2>1
  <2>3. QED
    BY <2>2
<1>4. ASSUME NEW k \in 1 .. n
      PROVE  /\ StorageSize(all[k]) \in Nat /\ SymbolAlignment(all[k]) \in Alignments
             /\ offset[k] \in Nat /\ offset[k] % SymbolAlignment(all[k]) = 0
             /\ ends[k] = offset[k] + StorageSize(all[k]) /\ ends[k] \in Nat
  <2>1. StorageSize(all[k]) \in Nat /\ SymbolAlignment(all[k]) \in Alignments
    BY <1>1, SizeIs DEF StorageSize, SymbolAlignment
  <2>2. offset[k] \in Nat /\ offset[k] % SymbolAlignment(all[k]) = 0
    BY MemberOffsetsAre
  <2> HIDE DEF all, offset
  <2>3. QED
    BY <2>1, <2>2
<1>5. types[d].kind = "struct" =>
          \A j, k \in 1 .. n : j < k => ends[j] <= offset[k]
  <2>1. types[d].kind = "struct" =>
          \A j, k \in 1 .. n : j < k => offset[j] + StorageSize(all[j]) <= offset[k]
    BY MemberOffsetsAre
  <2> HIDE DEF all, offset, ends, n
  <2>2. QED
    BY <1>4, <2>1
<1>6. {offset[k] + StorageSize(all[k]) : k \in DOMAIN all} = {ends[k] : k \in 1 .. n}
  <2> HIDE DEF all, offset, ends, n
  <2>1. QED
    BY <1>2, <1>4
<1>7. LaidOut(d) = [types[d] EXCEPT !.members = members, !.alignment = alignment, !.size = size]
  BY <1>6 DEF LaidOut
<1>8. alignment \in Alignments /\ \A k \in 1 .. n : SymbolAlignment(all[k]) <= alignment
  <2>1. A \subseteq Alignments /\ 1 \in A
    BY <1>2, <1>4 DEF Alignments
  <2>2. alignment \in A /\ \A y \in A : alignment >= y
    <3> HIDE DEF A
    <3>1. QED
      BY <2>1, LargestAlignment
  <2>3. \A k \in 1 .. n : SymbolAlignment(all[k]) \in A
    BY <1>2
  <2> HIDE DEF A, alignment
  <2>4. QED
    BY <2>1, <2>2, <2>3 DEF Alignments
<1>9. end \in Nat /\ \A k \in 1 .. n : ends[k] <= end
  <2>1. \A k \in 1 .. n : ends[k] \in Nat
    BY <1>4
  <2>2. n \in Nat \ {0}
    BY <1>2, <1>3
  <2> HIDE DEF ends, n
  <2>3. QED
    BY <2>1, <2>2, LargestOf
<1> HIDE DEF alignment, end
<1>10. size \in Nat /\ size >= end /\ size % alignment = 0
  BY <1>8, <1>9, PlacedIs
<1>11. /\ IsTable(members) /\ Len(members) = n
       /\ \A k \in 1 .. n : /\ members[k].type = all[k].type
                            /\ members[k].stype = all[k].stype
                            /\ members[k].count = all[k].count
                            /\ members[k].offset = offset[k]
                            /\ DOMAIN members[k] = DOMAIN all[k]
  <2> HIDE DEF all, offset, n
  <2>1. members = [k \in 1 .. n |-> [all[k] EXCEPT !.offset = offset[k]]]
    BY <1>2
  <2>2. members = [k \in 1 .. n |-> members[k]]
    BY <2>1
  <2>3. IsTable(members) /\ Len(members) = n
    <3> HIDE DEF members
    <3>1. QED
      BY <1>2, <2>2, FunctionIsTable
  <2>5. \A k \in 1 .. n : {"type", "stype", "count", "offset"} \subseteq DOMAIN all[k]
    BY <1>1 DEF FitsIn
  <2>6. \A k \in 1 .. n : members[k] = [all[k] EXCEPT !.offset = offset[k]]
    BY <2>1
  <2> HIDE DEF members
  <2>7. QED
    BY <2>3, <2>5, <2>6
<1>12. /\ LaidOut(d).members = members /\ LaidOut(d).size = size
       /\ LaidOut(d).alignment = alignment /\ LaidOut(d).kind = types[d].kind
       /\ DOMAIN LaidOut(d) = DOMAIN types[d]
  <2> HIDE DEF members, size, all, n
  <2>1. QED
    BY <1>1, <1>7
<1> HIDE DEF members, size, all, offset, n, ends, A
<1>13. ASSUME NEW k \in 1 .. n
       PROVE  /\ FitsIn(members[k], types)
              /\ SymbolStorageSize(members[k], types) = StorageSize(all[k])
              /\ ValueAlignment(members[k].type, types) = SymbolAlignment(all[k])
  BY <1>1, <1>11 DEF FitsIn, SymbolStorageSize, StorageSize, SymbolAlignment
<1>14. \A k \in 1 .. n : EndIn(members[k], types) = ends[k]
  BY <1>4, <1>11, <1>13 DEF EndIn
<1>15. \A k \in 1 .. n : size % SymbolAlignment(all[k]) = 0
  BY <1>4, <1>8, <1>10, SmallerDivides
<1>16. \A k \in 1 .. n : ends[k] <= size
  BY <1>4, <1>9, <1>10
<1>17. LiesApart(LaidOut(d), types)
  <2> DEFINE definition == LaidOut(d)
  <2>1. definition.members = members /\ definition.size = size /\ Len(members) = n
        /\ definition.kind = types[d].kind
    BY <1>11, <1>12
  <2> HIDE DEF definition
  <2>2. ASSUME NEW k \in 1 .. n
        PROVE  /\ members[k].offset % ValueAlignment(members[k].type, types) = 0
               /\ size % ValueAlignment(members[k].type, types) = 0
               /\ EndIn(members[k], types) <= size
    BY <1>4, <1>11, <1>13, <1>14, <1>15, <1>16
  <2>3. types[d].kind = "struct" =>
            \A j, k \in 1 .. n : j < k => EndIn(members[j], types) <= members[k].offset
    BY <1>5, <1>11, <1>14
  <2>4. LiesApart(definition, types)
    BY <2>1, <2>2, <2>3 DEF LiesApart
  <2>5. QED
    BY <2>4 DEF definition
<1>18. QED
  BY <1>1, <1>8, <1>10, <1>11, <1>12, <1>13, <1>17 DEF IsDefinition

-----------------------------------------------------------------------------
\* The invariant.  Definitions are sound, and what a function has in its frame lies
\* in the order it was put there, each behind the end of the ones before.
Frame(table, mark, size, defs) ==
    LET own == {k \in mark + 1 .. Len(table) : table[k].storage = "kLocal"}
    IN  /\ size \in Nat /\ mark \in 0 .. Len(table)
        /\ \A k \in own :
               /\ FitsIn(table[k], defs)
               /\ table[k].offset \in Nat
               /\ table[k].offset % ValueAlignment(table[k].type, defs) = 0
               /\ EndIn(table[k], defs) <= size
        /\ \A j, k \in own : j < k => EndIn(table[j], defs) <= table[k].offset

FrameInv == InFunction => Frame(symbols, function.mark, function.size, types)

IInv == Sound(types) /\ IsTable(symbols) /\ FrameInv

LEMMA Initially == LayoutInit => IInv
<1> SUFFICES ASSUME LayoutInit PROVE IInv
  OBVIOUS
<1>1. types = <<>> /\ Len(types) = 0
  BY DEF LayoutInit
<1>2. IsTable(types)
  <2>1. types = [k \in 1 .. 0 |-> types[k]]
    BY <1>1
  <2>2. QED
    BY <2>1, FunctionIsTable
<1>3. Sound(types)
  BY <1>1, <1>2 DEF Sound, IsSized
<1>4. QED
  BY <1>3 DEF IInv, FrameInv, LayoutInit

LEMMA ApartByInvariant == IInv => StorageApart
<1> SUFFICES ASSUME IInv PROVE StorageApart
  OBVIOUS
<1>1. DOMAIN types = 1 .. Len(types)
  BY TableIs DEF IInv, Sound, IsSized
<1>2. MembersApart
  <2> SUFFICES ASSUME NEW d \in 1 .. Len(types), types[d].size # 0
               PROVE  LET all == types[d].members
                      IN  /\ \A k \in DOMAIN all :
                               /\ all[k].offset % SymbolAlignment(all[k]) = 0
                               /\ types[d].size % SymbolAlignment(all[k]) = 0
                               /\ EndOf(all[k]) <= types[d].size
                          /\ types[d].kind = "struct" =>
                               \A j, k \in DOMAIN all :
                                   j < k => EndOf(all[j]) <= all[k].offset
    BY <1>1 DEF MembersApart
  <2>1. IsTable(types[d].members) /\ LiesApart(types[d], types)
    BY DEF IInv, Sound, IsDefinition
  <2>2. DOMAIN types[d].members = 1 .. Len(types[d].members)
    BY <2>1, TableIs
  <2>3. QED
    BY <2>1, <2>2 DEF LiesApart, EndIn, EndOf, StorageSize, SymbolAlignment
<1>3. LocalsApart
  <2> DEFINE mark == function.mark
             own == {k \in mark + 1 .. Len(symbols) : symbols[k].storage = "kLocal"}
             locals == {s \in ToSet(After(symbols, mark)) : s.storage = "kLocal"}
  <2> SUFFICES ASSUME InFunction,
                      NEW s \in locals
               PROVE  /\ s.offset % SymbolAlignment(s) = 0
                      /\ EndOf(s) <= function.size
                      /\ \A r \in locals \ {s} : EndOf(s) <= r.offset \/ EndOf(r) <= s.offset
    BY DEF LocalsApart
  <2>1. Frame(symbols, mark, function.size, types) /\ Len(symbols) \in Nat
    BY DEF IInv, FrameInv, IsTable
  <2>2. mark \in Nat /\ mark <= Len(symbols)
    BY <2>1 DEF Frame
  <2>3. \A r \in locals : \E k \in own : r = symbols[k]
    <3> SUFFICES ASSUME NEW r \in locals PROVE \E k \in own : r = symbols[k]
      OBVIOUS
    <3>1. PICK k \in DOMAIN After(symbols, mark) : r = After(symbols, mark)[k]
      BY DEF ToSet
    <3>2. k \in 1 .. Len(symbols) - mark /\ r = symbols[mark + k]
      BY <3>1 DEF After
    <3>3. mark + k \in mark + 1 .. Len(symbols)
      BY <2>1, <2>2, <3>2
    <3>4. QED
      BY <3>2, <3>3
  <2>4. PICK k \in own : s = symbols[k]
    BY <2>3
  <2>5. s.offset % SymbolAlignment(s) = 0 /\ EndOf(s) <= function.size
    BY <2>1, <2>4 DEF Frame, EndIn, EndOf, StorageSize, SymbolAlignment
  <2>6. ASSUME NEW r \in locals \ {s}
        PROVE  EndOf(s) <= r.offset \/ EndOf(r) <= s.offset
    <3>1. PICK j \in own : r = symbols[j]
      BY <2>3
    <3>2. j # k /\ j \in Int /\ k \in Int
      BY <2>1, <2>2, <2>4, <3>1
    <3>3. j < k \/ k < j
      BY <3>2
    <3>4. QED
      BY <2>1, <2>4, <3>1, <3>3 DEF Frame, EndIn, EndOf, StorageSize
  <2>7. QED
    BY <2>5, <2>6
<1>4. QED
  BY <1>2, <1>3 DEF StorageApart

-----------------------------------------------------------------------------
\* The steps of a definition.
LEMMA SoundOn ==
    ASSUME NEW old, NEW new, Sound(old), Keep(old, new), IsSized(new),
           \A d \in 1 .. Len(new) :
               (d \in 1 .. Len(old) /\ new[d] = old[d]) \/ IsDefinition(new[d], old)
    PROVE  Sound(new)
<1>1. ASSUME NEW d \in 1 .. Len(new)
      PROVE  IsDefinition(new[d], new)
  <2>1. IsDefinition(new[d], old)
    BY DEF Sound
  <2>2. QED
    BY <2>1, DefinitionStays DEF Sound
<1>2. QED
  BY <1>1 DEF Sound

LEMMA BeginKeeps ==
    ASSUME Sound(types), NEW kind, NEW name, BeginDefinition(kind, name)
    PROVE  Sound(types') /\ Keep(types, types')
<1> DEFINE new == [kind |-> kind, name |-> name, members |-> <<>>, size |-> 0, alignment |-> 1]
           n == Len(types)
<1>1. types = [d \in 1 .. n |-> types[d]] /\ n \in Nat /\ IsSized(types)
  BY TableIs DEF Sound, IsSized
<1>2. types' = Append(types, new)
  BY DEF BeginDefinition
<1> HIDE DEF new
<1>3. /\ \A d \in 1 .. n : types'[d] = types[d]
      /\ types'[n + 1] = new
      /\ IsTable(types') /\ Len(types') = n + 1
  BY <1>1, <1>2, AppendIsTable DEF IsSized
<1>4. n + 1 \in Nat
  BY <1>1
<1>5. Keep(types, types')
  BY <1>1, <1>3, <1>4 DEF Keep
<1>6. new.size = 0 /\ new.alignment = 1 /\ new.members = <<>>
      /\ {"kind", "members", "size", "alignment"} \subseteq DOMAIN new
  BY DEF new
<1>7. IsDefinition(new, types)
  <2>1. <<>> = [k \in 1 .. 0 |-> <<>>[k]]
    OBVIOUS
  <2>2. IsTable(<<>>) /\ Len(<<>>) = 0
    BY <2>1, FunctionIsTable
  <2>3. QED
    BY <1>6, <2>2 DEF IsDefinition
<1>8. ASSUME NEW d \in 1 .. n + 1
      PROVE  /\ \/ d \in 1 .. n /\ types'[d] = types[d]
                \/ IsDefinition(types'[d], types)
             /\ types'[d].size \in Nat /\ types'[d].alignment \in Alignments
  <2>1. CASE d \in 1 .. n
    BY <1>1, <1>3, <2>1 DEF IsSized
  <2>2. CASE d = n + 1
    BY <1>3, <1>6, <1>7, <2>2 DEF Alignments
  <2>3. QED
    BY <1>1, <2>1, <2>2
<1>9. IsSized(types')
  BY <1>3, <1>8 DEF IsSized
<1>10. QED
  BY <1>3, <1>5, <1>8, <1>9, SoundOn

\* Another step changes one definition which has no size yet.
LEMMA ChangeKeeps ==
    ASSUME Sound(types), NEW d \in 1 .. Len(types), IsOpen(d),
           NEW changed, types' = [types EXCEPT ![d] = changed],
           changed.size \in Nat, changed.alignment \in Alignments,
           IsDefinition(changed, types)
    PROVE  Sound(types') /\ Keep(types, types')
<1> DEFINE n == Len(types)
<1>1. types = [e \in 1 .. n |-> types[e]] /\ n \in Nat /\ IsSized(types)
  BY TableIs DEF Sound, IsSized
<1>2. /\ types' = [e \in 1 .. n |-> types'[e]]
      /\ \A e \in 1 .. n : types'[e] = IF e = d THEN changed ELSE types[e]
  BY <1>1
<1>3. IsTable(types') /\ Len(types') = n
  BY <1>1, <1>2, FunctionIsTable
<1>4. Keep(types, types')
  BY <1>1, <1>2, <1>3 DEF Keep, IsOpen
<1>5. IsSized(types')
  BY <1>1, <1>2, <1>3 DEF IsSized
<1>6. QED
  BY <1>2, <1>3, <1>4, <1>5, SoundOn

LEMMA AddKeeps ==
    ASSUME Sound(types), NEW d \in 1 .. Len(types), IsOpen(d),
           NEW member, Fits(member), AddMember(d, member)
    PROVE  Sound(types') /\ Keep(types, types')
<1> DEFINE all == types[d].members
           more == Append(all, member)
           changed == [types[d] EXCEPT !.members = more]
<1>1. types' = [types EXCEPT ![d] = changed]
  BY DEF AddMember
<1>2. IsDefinition(types[d], types) /\ types[d].size = 0 /\ types[d].alignment \in Alignments
  BY DEF Sound, IsSized, IsOpen
<1>3. /\ changed.size = 0 /\ changed.alignment = types[d].alignment
      /\ changed.members = more /\ DOMAIN changed = DOMAIN types[d]
  BY <1>2 DEF IsDefinition
<1>4. FitsIn(member, types)
  BY DEF Fits, FitsIn, StorageSize
<1>5. /\ IsTable(more) /\ Len(more) = Len(all) + 1
      /\ \A k \in 1 .. Len(all) + 1 : more[k] = IF k = Len(all) + 1 THEN member ELSE all[k]
  <2>1. IsTable(all) /\ Len(all) \in Nat
    BY <1>2, TableIs DEF IsDefinition
  <2> HIDE DEF all
  <2>2. QED
    BY <2>1, AppendIsTable
<1> HIDE DEF changed, more
<1>6. IsDefinition(changed, types)
  BY <1>2, <1>3, <1>4, <1>5 DEF IsDefinition
<1>7. changed.size \in Nat /\ changed.alignment \in Alignments
  BY <1>2, <1>3
<1>8. QED
  BY <1>1, <1>6, <1>7, ChangeKeeps

LEMMA LayOutKeeps ==
    ASSUME Sound(types), NEW d \in 1 .. Len(types), IsOpen(d), LayOut(d)
    PROVE  Sound(types') /\ Keep(types, types')
<1>1. types[d].members # <<>> /\ types' = [types EXCEPT ![d] = LaidOut(d)]
  BY DEF LayOut
<1>2. QED
  BY <1>1, LaidOutLies, ChangeKeeps

LEMMA DefinitionKeeps ==
    ASSUME Sound(types), DefinitionStep
    PROVE  Sound(types') /\ Keep(types, types')
<1>1. DOMAIN types = 1 .. Len(types)
  BY TableIs DEF Sound, IsSized
<1>2. CASE \E kind \in {"struct", "union"} : BeginDefinition(kind, Last(types').name)
  BY <1>2, BeginKeeps
<1>3. ASSUME NEW d \in 1 .. Len(types), IsOpen(d),
             NEW member, (Fits(member) /\ AddMember(d, member)) \/ LayOut(d)
      PROVE  Sound(types') /\ Keep(types, types')
  BY <1>3, AddKeeps, LayOutKeeps
<1>4. QED
  BY <1>1, <1>2, <1>3 DEF DefinitionStep

-----------------------------------------------------------------------------
\* The steps of a frame.
LEMMA FrameStays ==
    ASSUME NEW table, NEW mark, NEW size, NEW old, NEW new,
           IsSized(old), Keep(old, new), Frame(table, mark, size, old)
    PROVE  Frame(table, mark, size, new)
<1> DEFINE own == {k \in mark + 1 .. Len(table) : table[k].storage = "kLocal"}
<1>1. ASSUME NEW k \in own
      PROVE  /\ FitsIn(table[k], new)
             /\ SymbolStorageSize(table[k], new) = SymbolStorageSize(table[k], old)
             /\ ValueAlignment(table[k].type, new) = ValueAlignment(table[k].type, old)
  <2>1. FitsIn(table[k], old)
    BY DEF Frame
  <2>2. QED
    BY <2>1, FitsOn
<1>2. \A k \in own : EndIn(table[k], new) = EndIn(table[k], old)
  BY <1>1 DEF EndIn
<1>3. QED
  BY <1>1, <1>2 DEF Frame

LEMMA TakeRoomKeeps ==
    ASSUME NEW table, NEW mark, NEW size, NEW more, NEW defs,
           IsSized(defs), Frame(table, mark, size, defs), more >= size, more \in Nat
    PROVE  Frame(table, mark, more, defs)
<1> DEFINE own == {k \in mark + 1 .. Len(table) : table[k].storage = "kLocal"}
<1>1. ASSUME NEW k \in own
      PROVE  EndIn(table[k], defs) <= more
  <2>1. /\ table[k].offset \in Nat /\ FitsIn(table[k], defs) /\ size \in Nat
        /\ EndIn(table[k], defs) <= size
    BY DEF Frame
  <2>2. EndIn(table[k], defs) \in Nat
    BY <2>1, SizeIs DEF EndIn
  <2>3. QED
    BY <2>1, <2>2
<1>2. QED
  BY <1>1 DEF Frame

\* A variable behind everything which is in the frame, or a name with no room there.
LEMMA DeclareKeeps ==
    ASSUME IsTable(symbols), Sound(types), NEW mark, NEW size, NEW more,
           Frame(symbols, mark, size, types), NEW symbol,
           symbols' = Append(symbols, symbol), more \in Int,
           IF symbol.storage = "kLocal"
           THEN /\ Fits(symbol)
                /\ symbol.offset = Placed(size, SymbolAlignment(symbol))
                /\ more >= EndOf(symbol)
           ELSE more = size
    PROVE  Frame(symbols', mark, more, types)
<1> DEFINE n == Len(symbols)
           own == {k \in mark + 1 .. n : symbols[k].storage = "kLocal"}
           later == {k \in mark + 1 .. n + 1 : symbols'[k].storage = "kLocal"}
<1>1. /\ n \in Nat /\ Len(symbols') = n + 1 /\ symbols'[n + 1] = symbol
      /\ \A k \in 1 .. n : symbols'[k] = symbols[k]
  BY TableIs, AppendIsTable
<1>2. mark \in Nat /\ mark <= n /\ size \in Nat /\ IsSized(types)
  BY <1>1 DEF Frame, Sound
<1>3. ASSUME NEW k \in own
      PROVE  /\ FitsIn(symbols[k], types) /\ symbols[k].offset \in Nat
             /\ symbols[k].offset % ValueAlignment(symbols[k].type, types) = 0
             /\ EndIn(symbols[k], types) \in Nat /\ EndIn(symbols[k], types) <= size
  <2>1. FitsIn(symbols[k], types) /\ symbols[k].offset \in Nat
        /\ symbols[k].offset % ValueAlignment(symbols[k].type, types) = 0
        /\ EndIn(symbols[k], types) <= size
    BY DEF Frame
  <2>2. EndIn(symbols[k], types) \in Nat
    BY <1>2, <2>1, SizeIs DEF EndIn
  <2>3. QED
    BY <2>1, <2>2
<1>4. \A k \in mark + 1 .. n : symbols'[k] = symbols[k]
  BY <1>1, <1>2
<1>5. \A k \in later : k \in own \/ (k = n + 1 /\ symbol.storage = "kLocal")
  BY <1>1, <1>2, <1>4
<1>6. symbol.storage = "kLocal" =>
          /\ FitsIn(symbol, types) /\ symbol.offset \in Nat /\ symbol.offset >= size
          /\ symbol.offset % ValueAlignment(symbol.type, types) = 0
          /\ EndIn(symbol, types) \in Nat /\ EndIn(symbol, types) <= more
          /\ EndIn(symbol, types) >= size
  <2> SUFFICES ASSUME symbol.storage = "kLocal"
               PROVE  /\ FitsIn(symbol, types) /\ symbol.offset \in Nat
                      /\ symbol.offset >= size
                      /\ symbol.offset % ValueAlignment(symbol.type, types) = 0
                      /\ EndIn(symbol, types) \in Nat /\ EndIn(symbol, types) <= more
                      /\ EndIn(symbol, types) >= size
    OBVIOUS
  <2>1. FitsIn(symbol, types) /\ EndIn(symbol, types) = EndOf(symbol)
    BY DEF Fits, FitsIn, StorageSize, EndIn, EndOf
  <2>2. /\ SymbolStorageSize(symbol, types) \in Nat
        /\ ValueAlignment(symbol.type, types) \in Alignments
    BY <1>2, <2>1, SizeIs
  <2>3. symbol.offset = Placed(size, ValueAlignment(symbol.type, types))
    BY DEF SymbolAlignment
  <2>4. symbol.offset \in Nat /\ symbol.offset >= size
        /\ symbol.offset % ValueAlignment(symbol.type, types) = 0
    BY <1>2, <2>2, <2>3, PlacedIs
  <2>5. EndIn(symbol, types) \in Nat /\ EndIn(symbol, types) >= size
    BY <1>2, <2>2, <2>4 DEF EndIn
  <2>6. EndIn(symbol, types) <= more
    BY <2>1, <2>5
  <2>7. QED
    BY <2>1, <2>4, <2>5, <2>6
<1>7. more \in Nat /\ more >= size
  BY <1>2, <1>6
<1>8. ASSUME NEW k \in later
      PROVE  /\ FitsIn(symbols'[k], types) /\ symbols'[k].offset \in Nat
             /\ symbols'[k].offset % ValueAlignment(symbols'[k].type, types) = 0
             /\ EndIn(symbols'[k], types) <= more
  <2>1. CASE k \in own
    <3>1. symbols'[k] = symbols[k]
      BY <1>4, <2>1
    <3>2. EndIn(symbols[k], types) <= more
      BY <1>2, <1>3, <1>7, <2>1
    <3>3. QED
      BY <1>3, <2>1, <3>1, <3>2
  <2>2. CASE k = n + 1 /\ symbol.storage = "kLocal"
    BY <1>1, <1>6, <2>2
  <2>3. QED
    BY <1>5, <2>1, <2>2
<1>9. ASSUME NEW j \in later, NEW k \in later, j < k
      PROVE  EndIn(symbols'[j], types) <= symbols'[k].offset
  <2>1. j \in own
    BY <1>1, <1>2, <1>5, <1>9
  <2>2. symbols'[j] = symbols[j]
    BY <1>4, <2>1
  <2>3. CASE k \in own
    <3>1. symbols'[k] = symbols[k]
      BY <1>4, <2>3
    <3>2. QED
      BY <1>9, <2>1, <2>2, <2>3, <3>1 DEF Frame
  <2>4. CASE k = n + 1 /\ symbol.storage = "kLocal"
    <3>1. symbols'[k] = symbol
      BY <1>1, <2>4
    <3>2. EndIn(symbols[j], types) <= symbol.offset
      BY <1>2, <1>3, <1>6, <2>1, <2>4
    <3>3. QED
      BY <2>2, <3>1, <3>2
  <2>5. QED
    BY <1>5, <2>3, <2>4
<1>10. mark \in 0 .. Len(symbols')
  BY <1>1, <1>2
<1>11. QED
  BY <1>1, <1>7, <1>8, <1>9, <1>10 DEF Frame

LEMMA EnterKeeps ==
    ASSUME Sound(types), IsTable(symbols'), EnterFunction
    PROVE  Frame(symbols', function'.mark, function'.size, types)
<1> DEFINE n == Len(symbols')
           mark == function'.mark
           all == After(symbols', mark)
           m == n - mark
           own == {k \in mark + 1 .. n : symbols'[k].storage = "kLocal"}
<1>1. /\ n \in Nat /\ mark \in 0 .. n /\ IsSized(types)
      /\ function'.size = TakenBy(all)
      /\ \A k \in DOMAIN all : Fits(all[k]) /\ all[k].offset = Offsets(all)[k]
  BY TableIs DEF EnterFunction, Sound
<1>2. m \in Nat /\ all = [k \in 1 .. m |-> symbols'[mark + k]]
  BY <1>1 DEF After
<1> HIDE DEF all, m
<1>3. IsTable(all) /\ Len(all) = m /\ DOMAIN all = 1 .. m
      /\ \A k \in 1 .. m : all[k] = symbols'[mark + k]
  <2>1. all = [k \in 1 .. m |-> all[k]]
    BY <1>2
  <2>2. QED
    BY <1>2, <2>1, FunctionIsTable
<1>4. \A k \in 1 .. m : FitsIn(all[k], types)
  BY <1>1, <1>3 DEF Fits, FitsIn, StorageSize
<1>5. /\ \A k \in 1 .. m : /\ all[k].offset \in Nat
                           /\ all[k].offset % ValueAlignment(all[k].type, types) = 0
      /\ \A j, k \in 1 .. m : j < k => EndIn(all[j], types) <= all[k].offset
  <2>1. /\ \A k \in 1 .. m : /\ Offsets(all)[k] \in Nat
                              /\ Offsets(all)[k] % SymbolAlignment(all[k]) = 0
        /\ \A j, k \in 1 .. m :
               j < k => Offsets(all)[j] + StorageSize(all[j]) <= Offsets(all)[k]
    BY <1>1, <1>3, <1>4, OffsetsApart
  <2>2. \A k \in 1 .. m : all[k].offset = Offsets(all)[k]
    BY <1>1, <1>3
  <2>3. QED
    BY <2>1, <2>2 DEF SymbolAlignment, StorageSize, EndIn
<1>6. \A k \in 1 .. m : EndIn(all[k], types) \in Nat /\ EndIn(all[k], types) >= all[k].offset
  <2> SUFFICES ASSUME NEW k \in 1 .. m
               PROVE  EndIn(all[k], types) \in Nat /\ EndIn(all[k], types) >= all[k].offset
    OBVIOUS
  <2>1. SymbolStorageSize(all[k], types) \in Nat /\ all[k].offset \in Nat
    BY <1>1, <1>4, <1>5, SizeIs
  <2>2. QED
    BY <2>1 DEF EndIn
<1>7. /\ function'.size \in Nat
      /\ \A k \in 1 .. m : EndIn(all[k], types) <= function'.size
  <2>1. CASE m = 0
    <3>1. all = <<>>
      <4>1. PICK S : all \in Seq(S)
        BY <1>3, TableIs
      <4>2. QED
        BY <1>3, <2>1, <4>1
    <3>2. QED
      BY <1>1, <2>1, <3>1 DEF TakenBy
  <2>2. CASE m # 0
    <3>1. m \in 1 .. m /\ all # <<>>
      BY <1>2, <1>3, <2>2
    <3>2. Last(all) = all[m]
      BY <1>3 DEF Last
    <3>3. function'.size = EndIn(all[m], types)
      BY <1>1, <3>1, <3>2 DEF TakenBy, EndOf, EndIn, StorageSize
    <3>4. ASSUME NEW k \in 1 .. m
          PROVE  EndIn(all[k], types) <= EndIn(all[m], types)
      <4>1. CASE k = m
        BY <1>6, <3>1, <4>1
      <4>2. CASE k # m
        <5>1. EndIn(all[k], types) <= all[m].offset
          BY <1>2, <1>5, <3>1, <4>2
        <5>2. QED
          BY <1>5, <1>6, <3>1, <5>1
      <4>3. QED
        BY <4>1, <4>2
    <3>5. QED
      BY <1>6, <3>1, <3>3, <3>4
  <2>3. QED
    BY <2>1, <2>2
<1>8. \A k \in own : k - mark \in 1 .. m /\ symbols'[k] = all[k - mark]
  <2> SUFFICES ASSUME NEW k \in own
               PROVE  k - mark \in 1 .. m /\ symbols'[k] = all[k - mark]
    OBVIOUS
  <2>1. k - mark \in 1 .. m /\ mark + (k - mark) = k
    BY <1>1 DEF m
  <2>2. QED
    BY <1>3, <2>1
<1>9. ASSUME NEW k \in own
      PROVE  /\ FitsIn(symbols'[k], types) /\ symbols'[k].offset \in Nat
             /\ symbols'[k].offset % ValueAlignment(symbols'[k].type, types) = 0
             /\ EndIn(symbols'[k], types) <= function'.size
  BY <1>4, <1>5, <1>7, <1>8
<1>10. ASSUME NEW j \in own, NEW k \in own, j < k
       PROVE  EndIn(symbols'[j], types) <= symbols'[k].offset
  <2>1. j - mark < k - mark
    BY <1>1, <1>10
  <2>2. QED
    BY <1>5, <1>8, <2>1
<1>11. QED
  BY <1>1, <1>7, <1>9, <1>10 DEF Frame

LEMMA StepKeeps == IInv /\ [LayoutNext]_laid => IInv'
<1> SUFFICES ASSUME IInv, [LayoutNext]_laid PROVE IInv'
  OBVIOUS
<1>1. Sound(types) /\ IsSized(types) /\ IsTable(symbols)
  BY DEF IInv, Sound
<1>2. CASE DefinitionStep /\ UNCHANGED <<symbols, function>>
  <2>1. Sound(types') /\ Keep(types, types')
    BY <1>1, <1>2, DefinitionKeeps
  <2>2. FrameInv'
    <3>1. InFunction' => Frame(symbols, function.mark, function.size, types)
      BY <1>2 DEF IInv, FrameInv, InFunction
    <3>2. InFunction' => Frame(symbols, function.mark, function.size, types')
      BY <1>1, <2>1, <3>1, FrameStays
    <3>3. QED
      BY <1>2, <3>2 DEF FrameInv
  <2>3. QED
    BY <1>1, <1>2, <2>1, <2>2 DEF IInv
<1>3. CASE FrameStep /\ IsTable(symbols') /\ UNCHANGED types
  <2>1. SUFFICES ASSUME InFunction'
                 PROVE  Frame(symbols', function'.mark, function'.size, types)
    BY <1>1, <1>3 DEF IInv, FrameInv
  <2>2. CASE EnterFunction
    BY <1>1, <1>3, <2>2, EnterKeeps
  <2>3. CASE DeclareName
    <3>1. /\ Frame(symbols, function.mark, function.size, types)
          /\ function'.mark = function.mark /\ function'.size \in Int
      BY <2>3 DEF DeclareName, StaysIn, IInv, FrameInv
    <3>2. symbols' = Append(symbols, Last(symbols'))
      BY <2>3 DEF DeclareName
    <3>3. IF Last(symbols').storage = "kLocal"
          THEN /\ Fits(Last(symbols'))
               /\ Last(symbols').offset = Placed(function.size, SymbolAlignment(Last(symbols')))
               /\ function'.size >= EndOf(Last(symbols'))
          ELSE function'.size = function.size
      BY <2>3 DEF DeclareName
    <3>4. QED
      BY <1>1, <3>1, <3>2, <3>3, DeclareKeeps
  <2>4. CASE TakeRoom
    <3>1. /\ Frame(symbols, function.mark, function.size, types)
          /\ function'.mark = function.mark /\ symbols' = symbols
          /\ function'.size \in Nat /\ function'.size >= function.size
      BY <2>4 DEF TakeRoom, StaysIn, IInv, FrameInv
    <3>2. QED
      BY <1>1, <3>1, TakeRoomKeeps
  <2>5. CASE LeaveFunction \/ StayOutside
    BY <2>1, <2>5 DEF LeaveFunction, StayOutside
  <2>6. QED
    BY <1>3, <2>2, <2>3, <2>4, <2>5 DEF FrameStep
<1>4. CASE UNCHANGED laid
  BY <1>4 DEF laid, IInv, FrameInv, InFunction
<1>5. QED
  BY <1>2, <1>3, <1>4 DEF LayoutNext

\* ParseMembers and AllocateLocal: whatever is declared, no two members of a struct
\* and no two variables of a function share a byte, each lies where its type wants it
\* and within what is kept for it, and so it is in every element of an array.
THEOREM StorageStaysApart == LayoutSpec => []StorageApart
<1>1. QED
  BY Initially, StepKeeps, ApartByInvariant, PTL DEF LayoutSpec

=============================================================================
