--------------------------- MODULE PeepholeProofs ---------------------------
(***************************************************************************)
(* The passes of Peephole over any code of any target: every pass but the  *)
(* last leaves fewer lines than it went through, what is written back      *)
(* holds nothing a rule fits, and it does what the code did.  For that the *)
(* runs of the lines of LineMachine are followed first, of any code and    *)
(* for any answers to its tests: a run is worked out a step at a time, one *)
(* which ends at all ends within a number of steps the code has a bound    *)
(* for, and a line whose work was done already can be left out.            *)
(***************************************************************************)
EXTENDS Peephole, FiniteSetTheorems, SequenceTheorems, WellFoundedInduction, TLAPS

-----------------------------------------------------------------------------
(***************************************************************************)
(* Runs, step by step.                                                     *)
(***************************************************************************)

\* A set of numbers with 0 in it and the number after each of its own.
LEMMA AllNumbers ==
    ASSUME NEW S, 0 \in S, \A n \in Nat : n \in S => n + 1 \in S
    PROVE  \A n \in Nat : n \in S
<1> SUFFICES ASSUME Nat \ S # {} PROVE FALSE
  OBVIOUS
<1>1. PICK n \in Nat \ S : \A m \in Nat \ S : ~ (<<m, n>> \in OpToRel(<, Nat))
  BY WFMin, NatLessThanWellFounded
<1>2. n \in Nat /\ n \notin S
  OBVIOUS
<1>3. n # 0 /\ n - 1 \in Nat /\ n - 1 < n /\ (n - 1) + 1 = n
  BY <1>2
<1>4. n - 1 \in S
  BY <1>1, <1>3 DEF OpToRel
<1>5. (n - 1) + 1 \in S
  BY <1>3, <1>4
<1>6. QED
  BY <1>2, <1>3, <1>5

-----------------------------------------------------------------------------
\* The states of a run, step by step.
IsRun(f, lines, answers, steps) ==
    f = [n \in 0 .. steps |-> IF n = 0 THEN Start ELSE Step(lines, answers, f[n - 1])]

RunOf(lines, answers, steps) == CHOOSE f : IsRun(f, lines, answers, steps)

LEMMA AfterIsRun ==
    ASSUME NEW lines, NEW answers, NEW steps
    PROVE  After(lines, answers, steps) = RunOf(lines, answers, steps)[steps]
BY DEF After, RunOf, IsRun

LEMMA RunExists ==
    ASSUME NEW lines, NEW answers, NEW steps \in Nat
    PROVE  \E f : IsRun(f, lines, answers, steps)
<1> DEFINE S == {n \in Nat : \E f : IsRun(f, lines, answers, n)}
<1>1. 0 \in S
  <2> DEFINE f == [n \in 0 .. 0 |-> Start]
  <2>1. f = [n \in 0 .. 0 |-> IF n = 0 THEN Start ELSE Step(lines, answers, f[n - 1])]
    OBVIOUS
  <2> HIDE DEF f
  <2>2. IsRun(f, lines, answers, 0)
    BY <2>1 DEF IsRun
  <2>3. QED
    BY <2>2
<1>2. ASSUME NEW n \in Nat, n \in S
      PROVE  n + 1 \in S
  <2>1. PICK f : IsRun(f, lines, answers, n)
    BY <1>2
  <2> DEFINE last == Step(lines, answers, f[n])
             g == [k \in 0 .. n + 1 |-> IF k = n + 1 THEN last ELSE f[k]]
  <2>2. f = [k \in 0 .. n |-> IF k = 0 THEN Start ELSE Step(lines, answers, f[k - 1])]
    BY <2>1 DEF IsRun
  <2>3. ASSUME NEW k \in 0 .. n + 1
        PROVE  g[k] = IF k = 0 THEN Start ELSE Step(lines, answers, g[k - 1])
    <3>1. CASE k = n + 1
      <4>1. g[k] = last /\ g[k - 1] = f[n] /\ k # 0
        BY <3>1
      <4>2. QED
        BY <4>1
    <3>2. CASE k # n + 1
      <4>1. k \in 0 .. n /\ g[k] = f[k]
        BY <3>2
      <4>2. k # 0 => k - 1 \in 0 .. n + 1 /\ g[k - 1] = f[k - 1]
        BY <3>2
      <4>3. f[k] = IF k = 0 THEN Start ELSE Step(lines, answers, f[k - 1])
        BY <2>2, <4>1
      <4> HIDE DEF g
      <4>4. QED
        BY <4>1, <4>2, <4>3
    <3>3. QED
      BY <3>1, <3>2
  <2>4. g = [k \in 0 .. n + 1 |-> g[k]]
    OBVIOUS
  <2> HIDE DEF g
  <2>5. IsRun(g, lines, answers, n + 1)
    BY <2>3, <2>4 DEF IsRun
  <2>6. QED
    BY <2>5
<1>3. \A n \in Nat : n \in S
  <2> HIDE DEF S
  <2>1. QED
    BY <1>1, <1>2, AllNumbers
<1>4. QED
  BY <1>3

\* A longer run begins as a shorter one does.
LEMMA RunsAgree ==
    ASSUME NEW lines, NEW answers, NEW n \in Nat, NEW m \in Nat, n <= m,
           NEW f, IsRun(f, lines, answers, n), NEW g, IsRun(g, lines, answers, m)
    PROVE  \A k \in 0 .. n : f[k] = g[k]
<1> DEFINE S == {k \in Nat : k <= n => f[k] = g[k]}
<1>1. f = [k \in 0 .. n |-> IF k = 0 THEN Start ELSE Step(lines, answers, f[k - 1])]
  BY DEF IsRun
<1>2. g = [k \in 0 .. m |-> IF k = 0 THEN Start ELSE Step(lines, answers, g[k - 1])]
  BY DEF IsRun
<1>3. \A k \in 0 .. n : f[k] = IF k = 0 THEN Start ELSE Step(lines, answers, f[k - 1])
  BY <1>1
<1>4. \A k \in 0 .. m : g[k] = IF k = 0 THEN Start ELSE Step(lines, answers, g[k - 1])
  BY <1>2
<1>5. 0 \in S
  BY <1>3, <1>4
<1>6. ASSUME NEW k \in Nat, k \in S
      PROVE  k + 1 \in S
  <2> SUFFICES ASSUME k + 1 <= n PROVE f[k + 1] = g[k + 1]
    OBVIOUS
  <2>1. k + 1 \in 0 .. n /\ k + 1 \in 0 .. m /\ k + 1 # 0 /\ (k + 1) - 1 = k
    OBVIOUS
  <2>2. f[k] = g[k]
    BY <1>6
  <2>3. QED
    BY <1>3, <1>4, <2>1, <2>2
<1>7. \A k \in Nat : k \in S
  <2> HIDE DEF S
  <2>1. QED
    BY <1>5, <1>6, AllNumbers
<1>8. QED
  BY <1>7

LEMMA AfterStep ==
    ASSUME NEW lines, NEW answers
    PROVE  /\ After(lines, answers, 0) = Start
           /\ \A n \in Nat : After(lines, answers, n + 1)
                                 = Step(lines, answers, After(lines, answers, n))
<1>1. \A n \in Nat : IsRun(RunOf(lines, answers, n), lines, answers, n)
  BY RunExists DEF RunOf
<1>2. After(lines, answers, 0) = Start
  <2>1. IsRun(RunOf(lines, answers, 0), lines, answers, 0)
    BY <1>1
  <2>2. RunOf(lines, answers, 0)[0] = Start
    BY <2>1 DEF IsRun
  <2>3. QED
    BY <2>2, AfterIsRun
<1>3. ASSUME NEW n \in Nat
      PROVE  After(lines, answers, n + 1) = Step(lines, answers, After(lines, answers, n))
  <2> DEFINE f == RunOf(lines, answers, n)
             g == RunOf(lines, answers, n + 1)
  <2>1. IsRun(f, lines, answers, n) /\ IsRun(g, lines, answers, n + 1)
    BY <1>1
  <2> HIDE DEF f, g
  <2>2. f[n] = g[n]
    BY <2>1, RunsAgree
  <2>3. g = [k \in 0 .. n + 1 |-> IF k = 0 THEN Start ELSE Step(lines, answers, g[k - 1])]
    BY <2>1 DEF IsRun
  <2>4. n + 1 \in 0 .. n + 1 /\ n + 1 # 0 /\ (n + 1) - 1 = n
    OBVIOUS
  <2>5. g[n + 1] = Step(lines, answers, g[n])
    BY <2>3, <2>4
  <2>6. After(lines, answers, n) = f[n] /\ After(lines, answers, n + 1) = g[n + 1]
    BY AfterIsRun DEF f, g
  <2>7. QED
    BY <2>2, <2>5, <2>6
<1>4. QED
  BY <1>2, <1>3

-----------------------------------------------------------------------------
IsSequence(s) == \E S : s \in Seq(S)

LEMMA AppendIsSequence ==
    ASSUME NEW s, NEW e, IsSequence(s)
    PROVE  /\ IsSequence(Append(s, e))
           /\ Len(Append(s, e)) = Len(s) + 1
           /\ \A k \in 1 .. Len(s) : Append(s, e)[k] = s[k]
           /\ Append(s, e)[Len(s) + 1] = e
<1>1. PICK S : s \in Seq(S)
  BY DEF IsSequence
<1>2. s \in Seq(S \cup {e}) /\ Append(s, e) \in Seq(S \cup {e})
  BY <1>1
<1>3. QED
  BY <1>2 DEF IsSequence

LEMMA LenIsNat ==
    ASSUME NEW s, IsSequence(s)
    PROVE  Len(s) \in Nat
BY DEF IsSequence

\* A state of a run: it is on a line of the code or behind the last.
InCode(lines, s) ==
    /\ s = [at |-> s.at, held |-> s.held, asked |-> s.asked]
    /\ s.at \in 1 .. Len(lines) + 1
    /\ IsSequence(s.asked)

Yes(answers, s) ==
    Len(s.asked) + 1 <= Len(answers) /\ answers[Len(s.asked) + 1]

LEMMA StepOf ==
    ASSUME NEW lines, NEW answers, NEW s, InCode(lines, s)
    PROVE  /\ s.at > Len(lines) => Step(lines, answers, s) = s
           /\ s.at <= Len(lines) =>
                LET line == lines[s.at] IN
                /\ line.name \in Jumps =>
                     Step(lines, answers, s) =
                         [at |-> Target(lines, line.operand[1]), held |-> s.held,
                          asked |-> s.asked]
                /\ line.name \in Tests =>
                     Step(lines, answers, s) =
                         [at |-> IF Yes(answers, s) THEN Target(lines, line.operand[1])
                                 ELSE s.at + 1,
                          held |-> s.held, asked |-> Append(s.asked, s.held)]
                /\ line.name \notin Jumps \cup Tests =>
                     Step(lines, answers, s) =
                         [at |-> s.at + 1, held |-> Done(s.held, line), asked |-> s.asked]
<1> DEFINE line == lines[s.at]
<1>1. s = [at |-> s.at, held |-> s.held, asked |-> s.asked]
  BY DEF InCode
<1>2. CASE s.at > Len(lines)
  BY <1>2 DEF Step, InCode
<1>3. CASE ~(s.at > Len(lines)) /\ line.name \in Jumps
  <2>1. Step(lines, answers, s) = [s EXCEPT !.at = Target(lines, line.operand[1])]
    BY <1>3 DEF Step
  <2>2. QED
    BY <1>1, <1>3, <2>1 DEF Jumps, Tests
<1>4. CASE ~(s.at > Len(lines)) /\ line.name \in Tests
  <2> DEFINE to == IF Yes(answers, s) THEN Target(lines, line.operand[1]) ELSE s.at + 1
  <2>1. line.name \notin Jumps
    BY <1>4 DEF Jumps, Tests
  <2>2. Step(lines, answers, s) = [s EXCEPT !.at = to, !.asked = Append(@, s.held)]
    BY <1>4, <2>1 DEF Step, Yes
  <2> HIDE DEF to
  <2>3. Step(lines, answers, s) = [at |-> to, held |-> s.held, asked |-> Append(s.asked, s.held)]
    BY <1>1, <2>2
  <2>4. QED
    BY <1>4, <2>1, <2>3 DEF to
<1>5. CASE ~(s.at > Len(lines)) /\ line.name \notin Jumps \cup Tests
  <2>1. Step(lines, answers, s) = [s EXCEPT !.at = @ + 1, !.held = Done(@, line)]
    BY <1>5 DEF Step
  <2> DEFINE left == Done(s.held, line)
  <2>2. Step(lines, answers, s) = [s EXCEPT !.at = s.at + 1, !.held = left]
    BY <1>1, <2>1
  <2> HIDE DEF left
  <2>3. Step(lines, answers, s) = [at |-> s.at + 1, held |-> left, asked |-> s.asked]
    BY <1>1, <2>2
  <2>4. QED
    BY <1>5, <2>3 DEF left, InCode
<1>6. s.at <= Len(lines) <=> ~(s.at > Len(lines))
  BY DEF InCode
<1>7. QED
  BY <1>2, <1>3, <1>4, <1>5, <1>6

LEMMA TargetInCode ==
    ASSUME NEW lines, IsSequence(lines), TargetsStand(lines),
           NEW k \in 1 .. Len(lines), lines[k].name \in Jumps \cup Tests
    PROVE  \E j \in 1 .. Len(lines) :
               /\ lines[j] = [name |-> ":", operand |-> <<lines[k].operand[1]>>]
               /\ Target(lines, lines[k].operand[1]) = j + 1
<1>1. PICK j \in 1 .. Len(lines) :
          lines[j] = [name |-> ":", operand |-> <<lines[k].operand[1]>>]
  BY DEF TargetsStand
<1> DEFINE stands(n) == lines[n] = [name |-> ":", operand |-> <<lines[k].operand[1]>>]
           reached == CHOOSE n \in 1 .. Len(lines) : stands(n)
<1>2. reached \in 1 .. Len(lines) /\ stands(reached)
  BY <1>1
<1>3. Target(lines, lines[k].operand[1]) = 1 + reached
  BY DEF Target
<1> HIDE DEF reached
<1>4. 1 + reached = reached + 1
  BY <1>2, LenIsNat
<1>5. QED
  BY <1>2, <1>3, <1>4

LEMMA StaysInCode ==
    ASSUME NEW lines, NEW answers, NEW s, IsSequence(lines), TargetsStand(lines),
           InCode(lines, s)
    PROVE  InCode(lines, Step(lines, answers, s))
<1>1. Len(lines) \in Nat /\ s.at \in 1 .. Len(lines) + 1 /\ IsSequence(s.asked)
  BY LenIsNat DEF InCode
<1>2. CASE s.at > Len(lines)
  BY <1>2, StepOf
<1>3. CASE s.at <= Len(lines)
  <2> DEFINE line == lines[s.at]
             to == Target(lines, line.operand[1])
  <2>1. s.at \in 1 .. Len(lines)
    BY <1>1, <1>3
  <2>2. line.name \in Jumps \cup Tests => to \in 1 .. Len(lines) + 1
    <3>1. ASSUME line.name \in Jumps \cup Tests
          PROVE  \E j \in 1 .. Len(lines) : to = j + 1
      BY <2>1, <3>1, TargetInCode
    <3> HIDE DEF to
    <3>2. QED
      BY <1>1, <3>1
  <2>3. IsSequence(Append(s.asked, s.held))
    BY <1>1, AppendIsSequence
  <2> HIDE DEF to
  <2>4. CASE line.name \in Jumps
    BY <1>1, <1>3, <2>2, <2>4, StepOf DEF InCode, to
  <2>5. CASE line.name \in Tests
    <3>1. Step(lines, answers, s) = [at |-> IF Yes(answers, s) THEN to ELSE s.at + 1,
                          held |-> s.held, asked |-> Append(s.asked, s.held)]
      BY <1>3, <2>5, StepOf DEF to
    <3>2. QED
      BY <1>1, <1>3, <2>2, <2>3, <2>5, <3>1 DEF InCode
  <2>6. CASE line.name \notin Jumps \cup Tests
    <3>1. Step(lines, answers, s) = [at |-> s.at + 1, held |-> Done(s.held, line),
                                     asked |-> s.asked]
      BY <1>3, <2>6, StepOf
    <3>2. QED
      BY <1>1, <1>3, <3>1 DEF InCode
  <2>7. QED
    BY <2>4, <2>5, <2>6
<1>4. QED
  BY <1>1, <1>2, <1>3

LEMMA RunsInCode ==
    ASSUME NEW lines, NEW answers, IsSequence(lines), TargetsStand(lines)
    PROVE  \A n \in Nat : InCode(lines, After(lines, answers, n))
<1> DEFINE S == {n \in Nat : InCode(lines, After(lines, answers, n))}
<1>1. 0 \in S
  <2>1. <<>> \in Seq({})
    OBVIOUS
  <2>2. QED
    <3>1. Start.at = 1 /\ Start.asked = <<>>
          /\ Start = [at |-> Start.at, held |-> Start.held, asked |-> Start.asked]
      BY DEF Start
    <3>2. InCode(lines, Start)
      BY <2>1, <3>1, LenIsNat DEF InCode, IsSequence
    <3>3. QED
      BY <3>2, AfterStep
<1>2. ASSUME NEW n \in Nat, n \in S PROVE n + 1 \in S
  <2> DEFINE s == After(lines, answers, n)
  <2>1. InCode(lines, s)
    BY <1>2
  <2>2. After(lines, answers, n + 1) = Step(lines, answers, s)
    BY AfterStep
  <2> HIDE DEF s
  <2>3. InCode(lines, Step(lines, answers, s))
    BY <2>1, StaysInCode
  <2>4. QED
    BY <2>2, <2>3
<1>3. \A n \in Nat : n \in S
  <2> HIDE DEF S
  <2>1. QED
    BY <1>1, <1>2, AllNumbers
<1>4. QED
  BY <1>3

-----------------------------------------------------------------------------
Over(lines, s) == s.at > Len(lines)

\* A run which came to the end stays there.
LEMMA OverStays ==
    ASSUME NEW lines, NEW answers, IsSequence(lines), TargetsStand(lines),
           NEW m \in Nat, Over(lines, After(lines, answers, m))
    PROVE  \A n \in Nat : n >= m => After(lines, answers, n) = After(lines, answers, m)
<1> DEFINE reached(n) == After(lines, answers, n)
           S == {n \in Nat : reached(m + n) = reached(m)}
<1>1. 0 \in S
  OBVIOUS
<1>2. ASSUME NEW n \in Nat, n \in S PROVE n + 1 \in S
  <2>1. reached((m + n) + 1) = Step(lines, answers, reached(m + n))
    <3>1. m + n \in Nat
      OBVIOUS
    <3>2. QED
      BY <3>1, AfterStep, Zenon
  <2>2. InCode(lines, reached(m)) /\ reached(m + n) = reached(m) /\ reached(m).at > Len(lines)
    BY <1>2, RunsInCode DEF Over
  <2> HIDE DEF reached
  <2>3. Step(lines, answers, reached(m)) = reached(m)
    BY <2>2, StepOf
  <2>4. reached(m + (n + 1)) = reached(m)
    BY <2>1, <2>2, <2>3
  <2>5. QED
    BY <2>4
<1>3. \A n \in Nat : n \in S
  <2> HIDE DEF S
  <2>1. QED
    BY <1>1, <1>2, AllNumbers
<1>4. ASSUME NEW n \in Nat, n >= m PROVE reached(n) = reached(m)
  <2>1. n - m \in Nat /\ m + (n - m) = n
    BY <1>4
  <2>2. QED
    BY <1>3, <2>1
<1>5. QED
  BY <1>4

\* What the rest of a run hangs on: the line it is on and how many of the tests
\* which can be answered either way are behind it.
Control(answers, s) ==
    <<s.at, IF Len(s.asked) < Len(answers) THEN Len(s.asked) ELSE Len(answers)>>

LEMMA ControlIs ==
    ASSUME NEW answers, NEW s, NEW t, s.at = t.at,
           Len(s.asked) \in Nat, Len(t.asked) \in Nat, Len(answers) \in Nat,
           \/ Len(s.asked) = Len(t.asked)
           \/ Len(s.asked) >= Len(answers) /\ Len(t.asked) >= Len(answers)
    PROVE  Control(answers, s) = Control(answers, t)
BY DEF Control

LEMMA SameControl ==
    ASSUME NEW lines, NEW answers, Len(answers) \in Nat,
           NEW s, NEW t, InCode(lines, s), InCode(lines, t),
           Control(answers, s) = Control(answers, t)
    PROVE  Control(answers, Step(lines, answers, s)) = Control(answers, Step(lines, answers, t))
<1> DEFINE line == lines[s.at]
           next == Step(lines, answers, s)
           beside == Step(lines, answers, t)
<1>1. s.at = t.at /\ Len(s.asked) \in Nat /\ Len(t.asked) \in Nat
      /\ IsSequence(s.asked) /\ IsSequence(t.asked)
  BY LenIsNat DEF Control, InCode
<1>2. \/ Len(s.asked) = Len(t.asked)
      \/ Len(s.asked) >= Len(answers) /\ Len(t.asked) >= Len(answers)
  BY <1>1 DEF Control
<1>3. CASE s.at > Len(lines)
  BY <1>1, <1>3, StepOf
<1>4. CASE s.at <= Len(lines) /\ line.name \in Jumps
  <2>1. /\ next.at = Target(lines, line.operand[1]) /\ next.asked = s.asked
        /\ beside.at = Target(lines, line.operand[1]) /\ beside.asked = t.asked
    BY <1>1, <1>4, StepOf
  <2>2. QED
    BY <1>1, <1>2, <2>1 DEF Control
<1>5. CASE s.at <= Len(lines) /\ line.name \in Tests
  <2> DEFINE to == Target(lines, line.operand[1])
  <2>1. /\ next.at = IF Yes(answers, s) THEN to ELSE s.at + 1
        /\ next.asked = Append(s.asked, s.held)
        /\ beside.at = IF Yes(answers, t) THEN to ELSE t.at + 1
        /\ beside.asked = Append(t.asked, t.held)
    BY <1>1, <1>5, StepOf
  <2>2. Len(next.asked) = Len(s.asked) + 1 /\ Len(beside.asked) = Len(t.asked) + 1
    BY <1>1, <2>1, AppendIsSequence
  <2>3. Yes(answers, s) <=> Yes(answers, t)
    BY <1>1, <1>2 DEF Yes
  <2> HIDE DEF to, next, beside
  <2>4. next.at = beside.at
    BY <1>1, <2>1, <2>3
  <2>5. Control(answers, next) = Control(answers, beside)
    BY <1>1, <1>2, <2>2, <2>4, ControlIs, SMTT(30)
  <2>6. QED
    BY <2>5 DEF next, beside
<1>6. CASE s.at <= Len(lines) /\ line.name \notin Jumps \cup Tests
  <2>1. /\ next.at = s.at + 1 /\ next.asked = s.asked
        /\ beside.at = t.at + 1 /\ beside.asked = t.asked
    BY <1>1, <1>6, StepOf
  <2>2. next.at = beside.at /\ Len(next.asked) = Len(s.asked) /\ Len(beside.asked) = Len(t.asked)
    BY <1>1, <2>1
  <2> HIDE DEF next, beside
  <2>3. Control(answers, next) = Control(answers, beside)
    BY <1>1, <1>2, <2>2, ControlIs
  <2>4. QED
    BY <2>3 DEF next, beside
<1>7. s.at > Len(lines) \/ s.at <= Len(lines)
  <2>1. s.at \in 1 .. Len(lines) + 1
    BY DEF InCode
  <2>2. Len(lines) \in Int \/ s.at > Len(lines) \/ s.at <= Len(lines)
    BY <2>1
  <2>3. QED
    BY <2>1, <2>2
<1>8. QED
  BY <1>3, <1>4, <1>5, <1>6, <1>7

LEMMA ControlComesBack ==
    ASSUME NEW lines, NEW answers, IsSequence(lines), TargetsStand(lines),
           Len(answers) \in Nat, NEW x \in Nat, NEW y \in Nat,
           Control(answers, After(lines, answers, x)) = Control(answers, After(lines, answers, y))
    PROVE  \A m \in Nat : Control(answers, After(lines, answers, x + m))
                              = Control(answers, After(lines, answers, y + m))
<1> DEFINE reached(n) == After(lines, answers, n)
           S == {m \in Nat : Control(answers, reached(x + m)) = Control(answers, reached(y + m))}
<1>1. 0 \in S
  OBVIOUS
<1>2. ASSUME NEW m \in Nat, m \in S PROVE m + 1 \in S
  <2>1. /\ reached((x + m) + 1) = Step(lines, answers, reached(x + m))
        /\ reached((y + m) + 1) = Step(lines, answers, reached(y + m))
    <3>1. x + m \in Nat /\ y + m \in Nat
      OBVIOUS
    <3>2. QED
      BY <3>1, AfterStep, Zenon
  <2>2. InCode(lines, reached(x + m)) /\ InCode(lines, reached(y + m))
    BY RunsInCode
  <2>3. Control(answers, reached(x + m)) = Control(answers, reached(y + m))
    BY <1>2
  <2> HIDE DEF reached
  <2>4. Control(answers, Step(lines, answers, reached(x + m)))
            = Control(answers, Step(lines, answers, reached(y + m)))
    BY <2>2, <2>3, SameControl
  <2>5. (x + m) + 1 = x + (m + 1) /\ (y + m) + 1 = y + (m + 1)
    OBVIOUS
  <2>6. Control(answers, reached(x + (m + 1))) = Control(answers, reached(y + (m + 1)))
    BY <2>1, <2>4, <2>5
  <2>7. QED
    BY <2>6
<1>3. \A m \in Nat : m \in S
  <2> HIDE DEF S
  <2>1. QED
    BY <1>1, <1>2, AllNumbers
<1>4. QED
  BY <1>3

LEMMA CountUpTo ==
    ASSUME NEW n \in Nat
    PROVE  IsFiniteSet(1 .. n) /\ Cardinality(1 .. n) = n
BY FS_Interval

\* A run which ends at all has ended before it came to a line a second time
\* with as many answers behind it.
LEMMA EndsInTime ==
    ASSUME NEW lines, NEW answers, IsSequence(lines), TargetsStand(lines),
           Len(answers) \in Nat,
           \E n \in Nat : Over(lines, After(lines, answers, n)),
           NEW steps \in Nat, steps >= Len(lines) * (Len(answers) + 1)
    PROVE  Over(lines, After(lines, answers, steps))
<1> DEFINE reached(n) == After(lines, answers, n)
           E == {n \in Nat : Over(lines, reached(n))}
<1>1. PICK n \in E : \A m \in E : ~ (<<m, n>> \in OpToRel(<, Nat))
  <2>1. E # {} /\ E \subseteq Nat
    OBVIOUS
  <2> HIDE DEF E
  <2>2. QED
    BY <2>1, WFMin, NatLessThanWellFounded
<1>2. n \in Nat /\ Over(lines, reached(n))
  BY <1>1
<1>3. ASSUME NEW m \in Nat, m < n PROVE ~Over(lines, reached(m))
  BY <1>1, <1>3 DEF OpToRel
<1>4. CASE n <= steps
  BY <1>2, <1>4, OverStays
<1>5. CASE n > steps
  <2> DEFINE places == 1 .. Len(lines)
             behind == 0 .. Len(answers)
             f == [i \in 1 .. n |-> Control(answers, reached(i - 1))]
  <2>1. ASSUME NEW i \in 1 .. n PROVE Control(answers, reached(i - 1)) \in places \X behind
    <3>1. i - 1 \in Nat /\ i - 1 < n
      BY <1>2, <2>1
    <3>2. InCode(lines, reached(i - 1)) /\ ~Over(lines, reached(i - 1))
      BY <1>3, <3>1, RunsInCode
    <3> HIDE DEF reached
    <3>3. reached(i - 1).at \in places
      BY <3>2, LenIsNat DEF InCode, Over
    <3>4. Len(reached(i - 1).asked) \in Nat
      BY <3>2, LenIsNat DEF InCode
    <3>5. QED
      BY <3>3, <3>4 DEF Control
  <2>2. /\ IsFiniteSet(1 .. n) /\ Cardinality(1 .. n) = n
        /\ IsFiniteSet(places) /\ Cardinality(places) = Len(lines)
        /\ IsFiniteSet(behind) /\ Cardinality(behind) = Len(answers) + 1
    <3>1. Len(lines) \in Nat
      BY LenIsNat
    <3>2. IsFiniteSet(1 .. n) /\ Cardinality(1 .. n) = n
      BY <1>2, CountUpTo
    <3>3. IsFiniteSet(1 .. Len(lines)) /\ Cardinality(1 .. Len(lines)) = Len(lines)
      BY <3>1, CountUpTo
    <3>4. IsFiniteSet(0 .. Len(answers)) /\ Cardinality(0 .. Len(answers)) = Len(answers) + 1
      BY FS_Interval
    <3>5. QED
      BY <3>2, <3>3, <3>4
  <2>3. /\ IsFiniteSet(places \X behind)
        /\ Cardinality(places \X behind) = Len(lines) * (Len(answers) + 1)
    <3> HIDE DEF places, behind
    <3>1. /\ IsFiniteSet(places \X behind)
          /\ Cardinality(places \X behind) = Cardinality(places) * Cardinality(behind)
      BY <2>2, FS_Product
    <3>2. QED
      BY <2>2, <3>1
  <2>4. f \in [1 .. n -> places \X behind]
    BY <2>1
  <2>5. Cardinality(places \X behind) < Cardinality(1 .. n)
    <3> DEFINE c == Cardinality(places \X behind)
               d == Cardinality(1 .. n)
    <3>1. c <= steps /\ d = n /\ steps < n /\ c \in Nat
      BY <1>5, <2>2, <2>3, FS_CardinalityType
    <3> HIDE DEF c, d
    <3>2. c < d
      BY <1>2, <3>1
    <3>3. QED
      BY <3>2 DEF c, d
  <2>6. \E i, j \in 1 .. n : i # j /\ f[i] = f[j]
    <3> HIDE DEF f, places, behind
    <3>1. QED
      BY <2>2, <2>3, <2>4, <2>5, FS_PigeonHole
  <2>7. \E i, j \in 1 .. n : i < j /\ f[i] = f[j]
    BY <1>2, <2>6
  <2>8. PICK i \in 1 .. n, j \in 1 .. n : i < j /\ f[i] = f[j]
    BY <2>7
  <2> DEFINE x == i - 1
             y == j - 1
             m == n - y
  <2>9. x \in Nat /\ y \in Nat /\ m \in Nat /\ y + m = n /\ x + m \in Nat /\ x + m < n
    BY <1>2, <2>8
  <2>10. Control(answers, reached(x)) = Control(answers, reached(y))
    BY <2>8
  <2> HIDE DEF x, y, m
  <2>11. Control(answers, reached(x + m)) = Control(answers, reached(y + m))
    BY <2>9, <2>10, ControlComesBack
  <2>12. reached(x + m).at = reached(n).at
    BY <2>9, <2>11 DEF Control
  <2>13. Over(lines, reached(x + m))
    BY <1>2, <2>12 DEF Over
  <2>14. QED
    BY <1>3, <2>9, <2>13
<1>6. QED
  BY <1>2, <1>4, <1>5

-----------------------------------------------------------------------------
\* Two states of the registers and the memory which nothing can tell apart.
SameHeld(a, b) == \A place : Held(a, place) = Held(b, place)

LEMMA WriteHolds ==
    ASSUME NEW held, NEW to, NEW value, NEW place
    PROVE  Held(Put(held, to, value), place) = IF place = to THEN value ELSE Held(held, place)
BY DEF Held, Put

LEMMA SamePlace ==
    ASSUME NEW a, NEW b, SameHeld(a, b), NEW operand
    PROVE  Place(a, operand) = Place(b, operand)
BY DEF Place, SameHeld

LEMMA MovesRespect ==
    ASSUME NEW a, NEW b, SameHeld(a, b), NEW from, NEW to
    PROVE  /\ SameHeld(Moved(a, from, to), Moved(b, from, to))
           /\ SameHeld(MovedByte(a, from, to), MovedByte(b, from, to))
<1>1. Place(a, from) = Place(b, from) /\ Place(a, to) = Place(b, to)
  BY SamePlace
<1>2. Held(a, Place(a, from)) = Held(b, Place(b, from))
  BY <1>1 DEF SameHeld
<1>3. ASSUME NEW p, NEW v
      PROVE  SameHeld(Put(a, p, v), Put(b, p, v))
  BY WriteHolds DEF SameHeld
<1>4. QED
  BY <1>1, <1>2, <1>3 DEF Moved, MovedByte

\* A line does the same to two states nothing can tell apart.
LEMMA DoneRespects ==
    ASSUME NEW a, NEW b, SameHeld(a, b), NEW line
    PROVE  SameHeld(Done(a, line), Done(b, line))
<1> DEFINE name == line.name
           operand == line.operand
<1>1. CASE name = "movq"
  BY <1>1, MovesRespect DEF Done
<1>2. CASE name = "str"
  BY <1>2, MovesRespect DEF Done
<1>3. CASE name = "ldr"
  BY <1>3, MovesRespect DEF Done
<1>4. CASE name \in {"strb", "ldrb"}
  BY <1>4, MovesRespect DEF Done
<1>5. CASE name = "std"
  BY <1>5, MovesRespect DEF Done
<1>6. CASE name = "ldd"
  BY <1>6, MovesRespect DEF Done
<1>7. CASE name = "stx"
  BY <1>7, MovesRespect DEF Done
<1>8. CASE name = "ldx"
  BY <1>8, MovesRespect DEF Done
<1>9. CASE name = "add"
  <2> DEFINE p == Register(operand[1])
             v == <<"sum", Held(a, Register(operand[3])), Held(a, Register(operand[5]))>>
  <2>1. Done(a, line) = Put(a, p, v) /\ Done(b, line) = Put(b, p, v)
    BY <1>9 DEF Done, SameHeld
  <2> HIDE DEF p, v
  <2>2. SameHeld(Put(a, p, v), Put(b, p, v))
    BY WriteHolds DEF SameHeld
  <2>3. QED
    BY <2>1, <2>2
<1>10. CASE name \notin {"movq", "str", "ldr", "strb", "ldrb", "std", "ldd", "stx", "ldx", "add"}
  BY <1>10 DEF Done
<1>11. QED
  BY <1>1, <1>2, <1>3, <1>4, <1>5, <1>6, <1>7, <1>8, <1>9, <1>10

-----------------------------------------------------------------------------
(***************************************************************************)
(* A code with one of its lines left out does what the code did, where the *)
(* line is a load of what the line before it stored, or a jump to the line *)
(* behind it.  The runs are compared step by step: the shorter run is      *)
(* always where the longer one is or will be.                              *)
(***************************************************************************)

\* What moved a value and moves it back leaves everything as it is, unless the
\* second place is the address of the first.
LEMMA MoveBack ==
    ASSUME NEW held, NEW a, NEW b, a \in DOMAIN PointerIn => b # PointerIn[a]
    PROVE  SameHeld(Moved(Moved(held, a, b), b, a), Moved(held, a, b))
<1> DEFINE p == Place(held, a)
           q == Place(held, b)
           v == Held(held, p)
           once == Put(held, q, v)
<1>1. Moved(held, a, b) = once
  BY DEF Moved
<1>2. \A place : Held(once, place) = IF place = q THEN v ELSE Held(held, place)
  BY WriteHolds
<1>3. ASSUME NEW c, c \in {"%r8", "%r9", "x8", "x9", "x"}, q = <<c>>
      PROVE  b = c
  <2>1. b \notin DOMAIN PointerIn
    BY <1>3 DEF Place
  <2>2. q = Register(b)
    BY <2>1 DEF Place
  <2>3. b \notin DOMAIN LowHalfOf
    BY <1>3, <2>2 DEF Register, LowHalfOf
  <2>4. QED
    BY <1>3, <2>2, <2>3 DEF Register
<1>4. \A operand \in DOMAIN PointerIn :
          PointerIn[operand] \in {"%r8", "%r9", "x8", "x9", "x"}
  BY DEF PointerIn
<1>5. Place(once, b) = q
  BY <1>2, <1>3, <1>4 DEF Place
<1>6. Place(once, a) = p
  BY <1>2, <1>3, <1>4 DEF Place
<1> HIDE DEF p, q, v, once
<1>7. Moved(once, b, a) = Put(once, p, v)
  BY <1>2, <1>5, <1>6 DEF Moved
<1>8. \A place : Held(Put(once, p, v), place) = IF place = p THEN v ELSE Held(once, place)
  BY WriteHolds
<1>9. Held(once, p) = v
  BY <1>2 DEF v
<1>10. QED
  BY <1>1, <1>7, <1>8, <1>9 DEF SameHeld

LEMMA CutTwice == ASSUME NEW value PROVE Cut(Cut(value)) = Cut(value)
BY DEF Cut

\* So does what cuts a value to a byte, where the value was a byte already.
LEMMA MoveByteBack ==
    ASSUME NEW held, NEW a, NEW b, a \notin DOMAIN PointerIn,
           Cut(Held(held, Place(held, a))) = Held(held, Place(held, a))
    PROVE  SameHeld(MovedByte(MovedByte(held, a, b), b, a), MovedByte(held, a, b))
<1> DEFINE once == Moved(held, a, b)
           v == Held(held, Place(held, a))
<1>1. MovedByte(held, a, b) = once
  BY DEF MovedByte, Moved
<1>2. Held(once, Place(once, b)) = v
  <2> DEFINE q == Place(held, b)
  <2>1. once = Put(held, q, v)
    BY DEF Moved
  <2>2. \A place : Held(once, place) = IF place = q THEN v ELSE Held(held, place)
    BY <2>1, WriteHolds
  <2>3. Place(once, b) = q
    <3>1. CASE b \notin DOMAIN PointerIn
      BY <3>1 DEF Place
    <3>2. CASE b \in DOMAIN PointerIn
      <4>1. q = <<"at", Held(held, <<PointerIn[b]>>)>>
        BY <3>2 DEF Place
      <4>2. q # <<PointerIn[b]>>
        BY <4>1
      <4> HIDE DEF q
      <4>3. Held(once, <<PointerIn[b]>>) = Held(held, <<PointerIn[b]>>)
        BY <2>2, <4>2
      <4>4. QED
        BY <3>2, <4>1, <4>3 DEF Place
    <3>3. QED
      BY <3>1, <3>2
  <2> HIDE DEF q
  <2>4. QED
    BY <2>2, <2>3
<1>3. MovedByte(once, b, a) = Moved(once, b, a)
  BY <1>2 DEF MovedByte, Moved
<1>4. SameHeld(Moved(once, b, a), once)
  BY MoveBack
<1>5. QED
  BY <1>1, <1>3, <1>4

\* A load of what the line before it stored.
LoadsBack(first, second) ==
    \/ /\ <<first.name, second.name>> \in
              {<<"std", "ldd">>, <<"stx", "ldx">>, <<"str", "ldr">>, <<"strb", "ldrb">>}
       /\ first.operand = second.operand
    \/ /\ first.name = "movq" /\ second.name = "movq"
       /\ second.operand = <<first.operand[3], ",", first.operand[1]>>

\* A byte which is stored stands in its register without anything above it.
ByteAlone(held, line) ==
    line.name = "strb" =>
        LET value == Held(held, Place(held, line.operand[1])) IN Cut(value) = value

LEMMA PiecesOfThree ==
    ASSUME NEW text, NEW x, NEW y, NEW z, text = <<x, y, z>>
    PROVE  text[1] = x /\ text[2] = y /\ text[3] = z
OBVIOUS

LEMMA LoadAfterStore ==
    ASSUME NEW held, NEW first, NEW second, WellFormed(first), WellFormed(second),
           LoadsBack(first, second), ByteAlone(held, first)
    PROVE  SameHeld(Done(Done(held, first), second), Done(held, first))
<1>1. CASE first.name = "std" /\ second.name = "ldd" /\ first.operand = second.operand
  <2> DEFINE b == first.operand[1]
  <2>1. Done(held, first) = Moved(held, "d", b)
    BY <1>1 DEF Done
  <2>2. Done(Moved(held, "d", b), second) = Moved(Moved(held, "d", b), b, "d")
    BY <1>1 DEF Done
  <2>3. "d" \notin DOMAIN PointerIn
    BY DEF PointerIn
  <2>4. QED
    BY <2>1, <2>2, <2>3, MoveBack
<1>2. CASE first.name = "stx" /\ second.name = "ldx" /\ first.operand = second.operand
  <2> DEFINE b == first.operand[1]
  <2>1. Done(held, first) = Moved(held, "x", b)
    BY <1>2 DEF Done
  <2>2. Done(Moved(held, "x", b), second) = Moved(Moved(held, "x", b), b, "x")
    BY <1>2 DEF Done
  <2>3. "x" \notin DOMAIN PointerIn
    BY DEF PointerIn
  <2>4. QED
    BY <2>1, <2>2, <2>3, MoveBack
<1>3. CASE first.name = "str" /\ second.name = "ldr" /\ first.operand = second.operand
  <2> DEFINE a == first.operand[1]
             b == first.operand[3]
  <2>1. Done(held, first) = Moved(held, a, b)
    BY <1>3 DEF Done
  <2>2. Done(Moved(held, a, b), second) = Moved(Moved(held, a, b), b, a)
    BY <1>3 DEF Done
  <2>3. a \notin DOMAIN PointerIn
    BY <1>3 DEF WellFormed
  <2>4. QED
    BY <2>1, <2>2, <2>3, MoveBack
<1>4. CASE first.name = "strb" /\ second.name = "ldrb" /\ first.operand = second.operand
  <2> DEFINE a == first.operand[1]
             b == first.operand[3]
  <2>1. Done(held, first) = MovedByte(held, a, b)
    BY <1>4 DEF Done
  <2>2. Done(MovedByte(held, a, b), second) = MovedByte(MovedByte(held, a, b), b, a)
    BY <1>4 DEF Done
  <2>3. a \notin DOMAIN PointerIn
    BY <1>4 DEF WellFormed
  <2>4. Cut(Held(held, Place(held, a))) = Held(held, Place(held, a))
    BY <1>4 DEF ByteAlone
  <2>5. QED
    BY <2>1, <2>2, <2>3, <2>4, MoveByteBack
<1>5. CASE /\ first.name = "movq" /\ second.name = "movq"
           /\ second.operand = <<first.operand[3], ",", first.operand[1]>>
  <2> DEFINE a == first.operand[1]
             b == first.operand[3]
  <2>1. second.operand[1] = b /\ second.operand[3] = a
    <3> DEFINE text == second.operand
    <3>1. text = <<b, ",", a>>
      BY <1>5
    <3> HIDE DEF a, b, text
    <3>2. text[1] = b /\ text[3] = a
      BY <3>1, PiecesOfThree
    <3>3. QED
      BY <3>2 DEF text
  <2>2. a \in DOMAIN PointerIn => b # PointerIn[a]
    <3>1. second.operand[3] \in DOMAIN PointerIn =>
              second.operand[1] # PointerIn[second.operand[3]]
      BY <1>5 DEF WellFormed
    <3> HIDE DEF a, b
    <3>2. QED
      BY <2>1, <3>1
  <2>3. Done(held, first) = Moved(held, a, b)
    BY <1>5 DEF Done
  <2> HIDE DEF a, b
  <2>4. Done(Moved(held, a, b), second) = Moved(Moved(held, a, b), b, a)
    BY <1>5, <2>1 DEF Done
  <2>5. QED
    BY <2>2, <2>3, <2>4, MoveBack
<1>6. QED
  BY <1>1, <1>2, <1>3, <1>4, <1>5 DEF LoadsBack

-----------------------------------------------------------------------------
Without(lines, d) ==
    [k \in 1 .. Len(lines) - 1 |-> IF k < d THEN lines[k] ELSE lines[k + 1]]

\* Where a place of the shorter code is in the longer one.
Up(k, gap) == IF k < gap THEN k ELSE k + 1

\* The line which is left out is no label.  A run which is about to come to it is
\* behind it where the line before it did its work, or still before it where it
\* is a jump to the line behind it.
Leaves(lines, d, gap) ==
    /\ lines \in Codes /\ d \in 1 .. Len(lines)
    /\ lines[d].name # ":"
    /\ \/ gap = d /\ d > 1 /\ lines[d - 1].name # ":"
       \/ gap = d + 1 /\ d < Len(lines)

LEMMA WithoutIsCode ==
    ASSUME NEW lines \in Codes, NEW d \in 1 .. Len(lines)
    PROVE  /\ Without(lines, d) \in Codes
           /\ Len(Without(lines, d)) = Len(lines) - 1
           /\ \A k \in 1 .. Len(lines) - 1 :
                /\ Up(k, d) \in 1 .. Len(lines)
                /\ Without(lines, d)[k] = lines[Up(k, d)]
<1> DEFINE Line == [name : STRING, operand : Seq(STRING)]
           n == Len(lines) - 1
           short == Without(lines, d)
<1>1. lines \in Seq(Line) /\ Len(lines) \in Nat
  BY DEF Codes
<1>2. n \in Nat /\ short = [k \in 1 .. n |-> short[k]]
  BY <1>1 DEF Without
<1>3. \A k \in 1 .. n : /\ Up(k, d) \in 1 .. Len(lines)
                        /\ short[k] = lines[Up(k, d)]
  BY <1>1 DEF Up, Without
<1> HIDE DEF Line
<1>4. \A k \in 1 .. n : short[k] \in Line
  BY <1>1, <1>3, ElementOfSeq
<1> HIDE DEF n, short
<1>5. short \in [1 .. n -> Line]
  BY <1>2, <1>4
<1>6. short \in Seq(Line) /\ Len(short) = n
  BY <1>2, <1>5
<1>7. QED
  BY <1>3, <1>6 DEF n, Line, short, Codes

\* A label which stands once is where it is looked for.
LEMMA TargetOfOne ==
    ASSUME NEW lines \in Codes, NEW label, NEW j \in 1 .. Len(lines),
           lines[j] = [name |-> ":", operand |-> <<label>>],
           \A k \in 1 .. Len(lines) : lines[k] = lines[j] => k = j
    PROVE  Target(lines, label) = j + 1
<1> DEFINE stands(n) == lines[n] = [name |-> ":", operand |-> <<label>>]
           reached == CHOOSE n \in 1 .. Len(lines) : stands(n)
<1>1. reached \in 1 .. Len(lines) /\ stands(reached)
  OBVIOUS
<1>2. reached = j
  BY <1>1
<1>3. Target(lines, label) = 1 + reached
  BY DEF Target
<1> HIDE DEF reached
<1>4. QED
  BY <1>2, <1>3

\* The same label stands in both of the codes, and the lines behind it match.
LEMMA TargetsMatch ==
    ASSUME NEW lines, NEW d, NEW gap, Leaves(lines, d, gap), LabelsOnce(lines),
           NEW label, NEW j \in 1 .. Len(lines),
           lines[j] = [name |-> ":", operand |-> <<label>>]
    PROVE  /\ \E i \in 1 .. Len(lines) - 1 : Without(lines, d)[i] = lines[j]
           /\ Target(lines, label) = Up(Target(Without(lines, d), label), gap)
<1> DEFINE short == Without(lines, d)
           i == IF j < d THEN j ELSE j - 1
<1>1. /\ lines \in Codes /\ d \in 1 .. Len(lines) /\ Len(lines) \in Nat
      /\ short \in Codes /\ Len(short) = Len(lines) - 1
      /\ \A k \in 1 .. Len(lines) - 1 : short[k] = lines[Up(k, d)]
  <2>1. lines \in Codes /\ d \in 1 .. Len(lines)
    BY DEF Leaves
  <2>2. Len(lines) \in Nat
    BY <2>1 DEF Codes
  <2> HIDE DEF short
  <2>3. /\ short \in Codes /\ Len(short) = Len(lines) - 1
        /\ \A k \in 1 .. Len(lines) - 1 : short[k] = lines[Up(k, d)]
    BY <2>1, WithoutIsCode DEF short
  <2>4. QED
    BY <2>1, <2>2, <2>3
<1>2. lines[j].name = ":"
  OBVIOUS
<1>3. \A k \in 1 .. Len(lines) : lines[k] = lines[j] => k = j
  BY <1>2 DEF LabelsOnce
<1>4. j # d /\ (gap = d => j # d - 1)
  <2>1. lines[d].name # ":" /\ (gap = d => lines[d - 1].name # ":")
    BY <1>1 DEF Leaves
  <2>2. QED
    BY <1>2, <2>1
<1>5. i \in 1 .. Len(lines) - 1 /\ Up(i, d) = j /\ i \in Nat
  BY <1>1, <1>4 DEF Up
<1> HIDE DEF short
<1>6. short[i] = lines[j]
  BY <1>1, <1>5
<1>7. \A k \in 1 .. Len(short) : short[k] = short[i] => k = i
  <2> SUFFICES ASSUME NEW k \in 1 .. Len(short), short[k] = short[i] PROVE k = i
    OBVIOUS
  <2>1. Up(k, d) \in 1 .. Len(lines) /\ lines[Up(k, d)] = lines[j]
    BY <1>1, <1>6 DEF Up
  <2>2. Up(k, d) = j
    BY <1>3, <2>1
  <2>3. QED
    BY <1>1, <1>5, <2>2 DEF Up
<1>8. Target(lines, label) = j + 1
  BY <1>1, <1>3, TargetOfOne
<1>9. Target(short, label) = i + 1
  <2>1. short[i] = [name |-> ":", operand |-> <<label>>] /\ i \in 1 .. Len(short)
    BY <1>1, <1>5, <1>6
  <2> HIDE DEF i
  <2>2. QED
    BY <1>1, <1>7, <2>1, TargetOfOne
<1>10. Up(i + 1, gap) = j + 1
  BY <1>1, <1>4, <1>5 DEF Up, Leaves
<1>11. QED
  BY <1>5, <1>6, <1>8, <1>9, <1>10 DEF short

LEMMA WithoutIsWritten ==
    ASSUME NEW lines, NEW d, NEW gap, Leaves(lines, d, gap), WellWritten(lines)
    PROVE  WellWritten(Without(lines, d))
<1> DEFINE short == Without(lines, d)
<1>1. lines \in Codes /\ d \in 1 .. Len(lines)
  BY DEF Leaves
<1>2. Len(lines) \in Nat
  BY <1>1 DEF Codes
<1>3. /\ short \in Codes /\ Len(short) = Len(lines) - 1
      /\ \A k \in 1 .. Len(lines) - 1 :
            Up(k, d) \in 1 .. Len(lines) /\ short[k] = lines[Up(k, d)]
  BY <1>1, WithoutIsCode
<1>4. TargetsStand(short)
  <2> SUFFICES ASSUME NEW k \in 1 .. Len(short), short[k].name \in Jumps \cup Tests
               PROVE  \E i \in 1 .. Len(short) :
                          short[i] = [name |-> ":", operand |-> <<short[k].operand[1]>>]
    BY DEF TargetsStand
  <2> DEFINE label == lines[Up(k, d)].operand[1]
  <2>1. Up(k, d) \in 1 .. Len(lines) /\ short[k] = lines[Up(k, d)]
    BY <1>3
  <2>2. lines[Up(k, d)].name \in Jumps \cup Tests
    BY <2>1
  <2>3. PICK j \in 1 .. Len(lines) : lines[j] = [name |-> ":", operand |-> <<label>>]
    BY <2>1, <2>2 DEF WellWritten, TargetsStand
  <2>4. \E i \in 1 .. Len(lines) - 1 : short[i] = lines[j]
    BY <2>3, TargetsMatch DEF WellWritten
  <2> HIDE DEF short
  <2>5. QED
    BY <1>3, <2>1, <2>3, <2>4
<1>5. LabelsOnce(short)
  <2> SUFFICES ASSUME NEW i \in 1 .. Len(short), NEW k \in 1 .. Len(short),
                      short[i].name = ":", short[i] = short[k]
               PROVE  i = k
    BY DEF LabelsOnce
  <2> HIDE DEF short
  <2>1. /\ Up(i, d) \in 1 .. Len(lines) /\ short[i] = lines[Up(i, d)]
        /\ Up(k, d) \in 1 .. Len(lines) /\ short[k] = lines[Up(k, d)]
    BY <1>3
  <2>2. Up(i, d) = Up(k, d)
    BY <2>1 DEF WellWritten, LabelsOnce
  <2>3. i \in Nat /\ k \in Nat /\ d \in Nat
    BY <1>1, <1>2, <1>3
  <2>4. QED
    BY <2>2, <2>3 DEF Up
<1>6. \A k \in 1 .. Len(short) : WellFormed(short[k])
  <2> HIDE DEF short
  <2>1. QED
    BY <1>3 DEF WellWritten
<1>7. QED
  BY <1>3, <1>4, <1>5, <1>6 DEF WellWritten

-----------------------------------------------------------------------------
\* What two runs saw whenever a test was asked.
SameAsked(a, b) ==
    /\ Len(a) = Len(b)
    /\ \A k \in 1 .. Len(a) : SameHeld(a[k], b[k])

SameSeen(s, t) == SameHeld(s.held, t.held) /\ SameAsked(s.asked, t.asked)

\* A run of the longer code and one of the shorter one which are at one place.
Beside(gap, s, t) == s.at = Up(t.at, gap) /\ SameSeen(s, t)

LEMMA AskedOfBoth ==
    ASSUME NEW a, NEW b, IsSequence(a), IsSequence(b), SameAsked(a, b),
           NEW x, NEW y, SameHeld(x, y)
    PROVE  SameAsked(Append(a, x), Append(b, y))
<1>1. Len(a) \in Nat /\ Len(a) = Len(b)
  BY LenIsNat DEF SameAsked
<1>2. /\ Len(Append(a, x)) = Len(a) + 1
      /\ \A k \in 1 .. Len(a) : Append(a, x)[k] = a[k]
      /\ Append(a, x)[Len(a) + 1] = x
  BY AppendIsSequence
<1>3. /\ Len(Append(b, y)) = Len(b) + 1
      /\ \A k \in 1 .. Len(b) : Append(b, y)[k] = b[k]
      /\ Append(b, y)[Len(b) + 1] = y
  BY AppendIsSequence
<1> DEFINE c == Append(a, x)
           e == Append(b, y)
<1> HIDE DEF c, e
<1>4. \A k \in 1 .. Len(c) : SameHeld(c[k], e[k])
  <2> SUFFICES ASSUME NEW k \in 1 .. Len(c) PROVE SameHeld(c[k], e[k])
    OBVIOUS
  <2>1. CASE k = Len(a) + 1
    BY <1>1, <1>2, <1>3, <2>1 DEF c, e
  <2>2. CASE k # Len(a) + 1
    <3>1. k \in 1 .. Len(a) /\ k \in 1 .. Len(b)
      BY <1>1, <1>2, <2>2 DEF c
    <3>2. c[k] = a[k] /\ e[k] = b[k]
      BY <1>2, <1>3, <3>1 DEF c, e
    <3>3. QED
      BY <3>1, <3>2 DEF SameAsked
  <2>3. QED
    BY <2>1, <2>2
<1>5. Len(c) = Len(e)
  BY <1>1, <1>2, <1>3 DEF c, e
<1>6. QED
  BY <1>4, <1>5 DEF SameAsked, c, e

\* One line which stands in both of the codes.
LEMMA SameLine ==
    ASSUME NEW lines, NEW short, NEW gap, NEW answers, NEW s, NEW t,
           InCode(lines, s), InCode(short, t), Beside(gap, s, t),
           IsSequence(lines), IsSequence(short),
           s.at <= Len(lines), t.at <= Len(short), lines[s.at] = short[t.at],
           s.at + 1 = Up(t.at + 1, gap),
           lines[s.at].name \in Jumps \cup Tests =>
                Target(lines, lines[s.at].operand[1])
                    = Up(Target(short, lines[s.at].operand[1]), gap)
    PROVE  Beside(gap, Step(lines, answers, s), Step(short, answers, t))
<1> DEFINE line == lines[s.at]
           to == Target(lines, line.operand[1])
           there == Target(short, line.operand[1])
           next == Step(lines, answers, s)
           beside == Step(short, answers, t)
<1>1. SameHeld(s.held, t.held) /\ SameAsked(s.asked, t.asked)
      /\ IsSequence(s.asked) /\ IsSequence(t.asked)
  BY DEF Beside, SameSeen, InCode
<1>2. CASE line.name \in Jumps
  <2>1. next = [at |-> to, held |-> s.held, asked |-> s.asked]
    BY <1>2, StepOf
  <2>2. beside = [at |-> there, held |-> t.held, asked |-> t.asked]
    BY <1>2, StepOf
  <2>3. to = Up(there, gap)
    BY <1>2
  <2> HIDE DEF next, beside, to, there
  <2>4. Beside(gap, next, beside)
    BY <1>1, <2>1, <2>2, <2>3 DEF Beside, SameSeen
  <2>5. QED
    BY <2>4 DEF next, beside
<1>3. CASE line.name \in Tests
  <2> DEFINE onto == IF Yes(answers, s) THEN to ELSE s.at + 1
             beyond == IF Yes(answers, t) THEN there ELSE t.at + 1
  <2>1. next = [at |-> onto, held |-> s.held, asked |-> Append(s.asked, s.held)]
    BY <1>3, StepOf
  <2>2. beside = [at |-> beyond, held |-> t.held, asked |-> Append(t.asked, t.held)]
    BY <1>3, StepOf
  <2>3. Yes(answers, s) <=> Yes(answers, t)
    BY <1>1 DEF Yes, SameAsked
  <2>4. onto = Up(beyond, gap)
    BY <1>3, <2>3
  <2>5. SameAsked(Append(s.asked, s.held), Append(t.asked, t.held))
    BY <1>1, AskedOfBoth
  <2> HIDE DEF next, beside, onto, beyond
  <2>6. Beside(gap, next, beside)
    BY <1>1, <2>1, <2>2, <2>4, <2>5 DEF Beside, SameSeen
  <2>7. QED
    BY <2>6 DEF next, beside
<1>4. CASE line.name \notin Jumps \cup Tests
  <2> DEFINE left == Done(s.held, line)
             leave == Done(t.held, line)
  <2>1. next = [at |-> s.at + 1, held |-> left, asked |-> s.asked]
    BY <1>4, StepOf
  <2>2. beside = [at |-> t.at + 1, held |-> leave, asked |-> t.asked]
    BY <1>4, StepOf
  <2>3. SameHeld(left, leave)
    BY <1>1, DoneRespects
  <2> HIDE DEF next, beside, left, leave
  <2>4. Beside(gap, next, beside)
    BY <1>1, <2>1, <2>2, <2>3 DEF Beside, SameSeen
  <2>5. QED
    BY <2>4 DEF next, beside
<1>5. QED
  BY <1>2, <1>3, <1>4

-----------------------------------------------------------------------------
\* The lines the rules leave out.
Loaded(lines, d) == d > 1 /\ LoadsBack(lines[d - 1], lines[d])

JumpsOn(lines, d) ==
    /\ d < Len(lines)
    /\ lines[d].name \in Jumps
    /\ lines[d + 1] = [name |-> ":", operand |-> <<lines[d].operand[1]>>]

Removable(lines, d, gap) ==
    /\ d \in 1 .. Len(lines)
    /\ \/ gap = d /\ Loaded(lines, d)
       \/ gap = d + 1 /\ JumpsOn(lines, d)

LEMMA LoadsAreMoves ==
    ASSUME NEW first, NEW second, LoadsBack(first, second)
    PROVE  /\ first.name \notin Jumps \cup Tests \cup {":"}
           /\ second.name \notin Jumps \cup Tests \cup {":"}
<1>1. CASE /\ <<first.name, second.name>> \in
              {<<"std", "ldd">>, <<"stx", "ldx">>, <<"str", "ldr">>, <<"strb", "ldrb">>}
  BY <1>1 DEF Jumps, Tests
<1>2. CASE first.name = "movq" /\ second.name = "movq"
  BY <1>2 DEF Jumps, Tests
<1>3. QED
  BY <1>1, <1>2 DEF LoadsBack

LEMMA RemovableLeaves ==
    ASSUME NEW lines \in Codes, NEW d, NEW gap, Removable(lines, d, gap)
    PROVE  Leaves(lines, d, gap)
<1>1. CASE gap = d /\ Loaded(lines, d)
  <2>1. lines[d].name # ":" /\ lines[d - 1].name # ":"
    BY <1>1, LoadsAreMoves DEF Loaded
  <2>2. QED
    BY <1>1, <2>1 DEF Leaves, Removable, Loaded
<1>2. CASE gap = d + 1 /\ JumpsOn(lines, d)
  <2>1. lines[d].name # ":"
    BY <1>2 DEF JumpsOn, Jumps
  <2>2. QED
    BY <1>2, <2>1 DEF Leaves, Removable, JumpsOn
<1>3. QED
  BY <1>1, <1>2 DEF Removable

\* A step of the shorter run is one of the longer run, or two of them where the
\* line which is left out is the second.
LEMMA StepBeside ==
    ASSUME NEW lines, NEW d, NEW gap, NEW answers, NEW s, NEW t,
           WellWritten(lines), Removable(lines, d, gap),
           InCode(lines, s), InCode(Without(lines, d), t), Beside(gap, s, t),
           s.at <= Len(lines) => ByteAlone(s.held, lines[s.at])
    PROVE  LET next == Step(lines, answers, s)
               beside == Step(Without(lines, d), answers, t)
           IN  \/ Beside(gap, next, beside)
               \/ Beside(gap, Step(lines, answers, next), beside)
<1> DEFINE short == Without(lines, d)
           next == Step(lines, answers, s)
           beside == Step(short, answers, t)
<1>1. lines \in Codes /\ Leaves(lines, d, gap) /\ d \in 1 .. Len(lines) /\ Len(lines) \in Nat
  <2>1. lines \in Codes
    BY DEF WellWritten
  <2>2. d \in 1 .. Len(lines)
    BY DEF Removable
  <2>3. Len(lines) \in Nat
    BY <2>1 DEF Codes
  <2>4. QED
    BY <2>1, <2>2, <2>3, RemovableLeaves
<1>2. /\ short \in Codes /\ Len(short) = Len(lines) - 1
      /\ \A k \in 1 .. Len(lines) - 1 : short[k] = lines[Up(k, d)]
  BY <1>1, WithoutIsCode
<1>3. IsSequence(lines) /\ IsSequence(short)
  <2> HIDE DEF short
  <2>1. QED
    BY <1>1, <1>2 DEF IsSequence, Codes
<1>4. /\ s.at \in 1 .. Len(lines) + 1 /\ t.at \in 1 .. Len(short) + 1
      /\ s.at = Up(t.at, gap)
  BY DEF InCode, Beside
<1>5. gap = d \/ gap = d + 1
  BY DEF Removable
<1> HIDE DEF short
<1>6. CASE t.at > Len(short)
  <2>1. s.at > Len(lines)
    <3>1. t.at = Len(lines)
      BY <1>1, <1>2, <1>4, <1>6
    <3>2. gap <= Len(lines)
      BY <1>1, <1>5 DEF Removable, JumpsOn
    <3>3. QED
      BY <1>1, <1>4, <1>5, <3>1, <3>2 DEF Up
  <2>2. next = s /\ beside = t
    BY <1>6, <2>1, StepOf DEF short
  <2>3. QED
    BY <2>2 DEF short
<1>7. CASE t.at <= Len(short) /\ Up(t.at, gap) = Up(t.at, d) /\ s.at + 1 = Up(t.at + 1, gap)
  <2>1. lines[s.at] = short[t.at] /\ s.at <= Len(lines)
    <3>1. t.at \in 1 .. Len(lines) - 1
      BY <1>1, <1>2, <1>4, <1>7
    <3>2. s.at = Up(t.at, d)
      BY <1>4, <1>7
    <3>3. s.at \in 1 .. Len(lines) /\ short[t.at] = lines[s.at]
      BY <1>1, <3>1, <3>2, WithoutIsCode DEF short
    <3>4. QED
      BY <1>1, <3>3
  <2>2. ASSUME lines[s.at].name \in Jumps \cup Tests
        PROVE  Target(lines, lines[s.at].operand[1])
                    = Up(Target(short, lines[s.at].operand[1]), gap)
    <3>1. s.at \in 1 .. Len(lines)
      BY <1>1, <1>4, <2>1
    <3>2. PICK j \in 1 .. Len(lines) :
              lines[j] = [name |-> ":", operand |-> <<lines[s.at].operand[1]>>]
      BY <2>2, <3>1 DEF WellWritten, TargetsStand
    <3>3. QED
      BY <1>1, <3>2, TargetsMatch DEF short, WellWritten
  <2>3. Beside(gap, next, beside)
    BY <1>3, <1>7, <2>1, <2>2, SameLine DEF short
  <2>4. QED
    BY <2>3 DEF short
<1>8. CASE t.at <= Len(short) /\ gap = d /\ t.at = d - 1
  <2> DEFINE first == lines[d - 1]
             second == lines[d]
             once == Done(s.held, first)
             twice == Done(once, second)
             leave == Done(t.held, first)
  <2>1. LoadsBack(first, second) /\ s.at = d - 1 /\ short[t.at] = first /\ d > 1
    <3>1. gap # d + 1
      BY <1>1, <1>8
    <3>2. Loaded(lines, d)
      BY <1>8, <3>1 DEF Removable
    <3>3. s.at = d - 1
      BY <1>1, <1>4, <1>8 DEF Up
    <3>4. t.at \in 1 .. Len(lines) - 1 /\ Up(t.at, d) = d - 1
      BY <1>1, <1>2, <1>4, <1>8 DEF Up
    <3>5. short[t.at] = first
      BY <1>2, <3>4
    <3>6. QED
      BY <3>2, <3>3, <3>5 DEF Loaded
  <2>2. /\ first.name \notin Jumps \cup Tests /\ second.name \notin Jumps \cup Tests
    BY <2>1, LoadsAreMoves
  <2>3. WellFormed(first) /\ WellFormed(second) /\ ByteAlone(s.held, first)
    <3>1. d - 1 \in 1 .. Len(lines)
      BY <1>1, <2>1
    <3>2. s.at <= Len(lines)
      BY <1>1, <2>1, <3>1
    <3>3. QED
      BY <1>1, <2>1, <3>1, <3>2 DEF WellWritten
  <2>4. SameHeld(twice, once)
    BY <2>1, <2>3, LoadAfterStore
  <2>5. SameHeld(once, leave)
    BY DoneRespects DEF Beside, SameSeen
  <2>6. SameHeld(twice, leave)
    BY <2>4, <2>5 DEF SameHeld
  <2>7. next = [at |-> d, held |-> once, asked |-> s.asked]
    <3>1. s.at <= Len(lines) /\ s.at + 1 = d /\ lines[s.at] = first
      BY <1>1, <2>1
    <3>2. next = [at |-> s.at + 1, held |-> Done(s.held, lines[s.at]), asked |-> s.asked]
      BY <2>2, <3>1, StepOf
    <3>3. QED
      BY <3>1, <3>2
  <2>8. beside = [at |-> d, held |-> leave, asked |-> t.asked]
    <3>1. t.at + 1 = d /\ short[t.at] = first
      BY <1>1, <1>8, <2>1
    <3>2. beside = [at |-> t.at + 1, held |-> Done(t.held, short[t.at]), asked |-> t.asked]
      BY <1>8, <2>2, <3>1, StepOf DEF short
    <3>3. QED
      BY <3>1, <3>2
  <2> DEFINE after == Step(lines, answers, next)
  <2> HIDE DEF once, leave
  <2>9. InCode(lines, next) /\ next.at = d /\ next.held = once /\ next.asked = s.asked
    <3>1. InCode(lines, next)
      BY <1>3, StaysInCode DEF WellWritten
    <3>2. QED
      BY <2>7, <3>1
  <2> HIDE DEF next
  <2>10. after = [at |-> d + 1, held |-> twice, asked |-> s.asked]
    <3>1. next.at <= Len(lines) /\ lines[next.at] = second
      BY <1>1, <2>9
    <3>2. after = [at |-> next.at + 1, held |-> Done(next.held, lines[next.at]),
                   asked |-> next.asked]
      BY <2>2, <2>9, <3>1, StepOf
    <3>3. QED
      BY <2>9, <3>1, <3>2
  <2>11. Up(d, gap) = d + 1 /\ SameAsked(s.asked, t.asked)
    BY <1>1, <1>8 DEF Up, Beside, SameSeen
  <2> HIDE DEF after, beside, twice
  <2>12. Beside(gap, after, beside)
    BY <2>6, <2>8, <2>10, <2>11 DEF Beside, SameSeen
  <2>13. QED
    BY <2>12 DEF after, beside, next, short
<1>9. CASE t.at <= Len(short) /\ gap = d + 1 /\ t.at = d
  <2> DEFINE label == lines[d].operand[1]
             name == lines[d + 1].name
  <2>1. JumpsOn(lines, d) /\ s.at = d /\ short[t.at] = lines[d + 1]
    <3>1. gap # d
      BY <1>1, <1>9
    <3>2. JumpsOn(lines, d)
      BY <1>9, <3>1 DEF Removable
    <3>3. s.at = d
      BY <1>1, <1>4, <1>9 DEF Up
    <3>4. t.at \in 1 .. Len(lines) - 1 /\ Up(t.at, d) = d + 1
      BY <1>1, <1>2, <1>4, <1>9 DEF Up
    <3>5. QED
      BY <1>2, <3>2, <3>3, <3>4
  <2>2. d + 1 \in 1 .. Len(lines) /\ lines[d + 1] = [name |-> ":", operand |-> <<label>>]
    BY <1>1, <2>1 DEF JumpsOn
  <2>3. Target(lines, label) = d + 2
    <3>1. lines[d + 1].name = ":"
      BY <2>2
    <3>2. \A k \in 1 .. Len(lines) : lines[k] = lines[d + 1] => k = d + 1
      BY <2>2, <3>1 DEF WellWritten, LabelsOnce
    <3>3. Target(lines, label) = (d + 1) + 1
      BY <1>1, <2>2, <3>2, TargetOfOne
    <3>4. QED
      BY <1>1, <3>3
  <2>4. next = [at |-> d + 2, held |-> s.held, asked |-> s.asked]
    <3>1. s.at <= Len(lines) /\ lines[s.at].name \in Jumps
      BY <1>1, <2>1 DEF JumpsOn
    <3>2. next = [at |-> Target(lines, lines[s.at].operand[1]), held |-> s.held,
                  asked |-> s.asked]
      BY <3>1, StepOf
    <3>3. QED
      BY <2>1, <2>3, <3>2
  <2>5. beside = [at |-> d + 1, held |-> t.held, asked |-> t.asked]
    <3>1. short[t.at].name = ":" /\ ":" \notin Jumps \cup Tests
      BY <2>1, <2>2 DEF Jumps, Tests
    <3>2. beside = [at |-> t.at + 1, held |-> Done(t.held, short[t.at]), asked |-> t.asked]
      BY <1>9, <3>1, StepOf DEF short
    <3>3. Done(t.held, short[t.at]) = t.held
      BY <3>1 DEF Done
    <3>4. QED
      BY <1>9, <3>2, <3>3
  <2>6. Up(d + 1, gap) = d + 2 /\ SameSeen(s, t)
    BY <1>1, <1>9 DEF Up, Beside
  <2> HIDE DEF next, beside
  <2>7. Beside(gap, next, beside)
    BY <2>4, <2>5, <2>6 DEF Beside, SameSeen
  <2>8. QED
    BY <2>7 DEF next, beside, short
<1>10. QED
  <2>1. t.at \in Nat /\ d \in Nat /\ Len(short) \in Nat
    BY <1>1, <1>2, <1>4
  <2>2. \/ t.at > Len(short)
        \/ t.at <= Len(short) /\ Up(t.at, gap) = Up(t.at, d) /\ s.at + 1 = Up(t.at + 1, gap)
        \/ t.at <= Len(short) /\ gap = d /\ t.at = d - 1
        \/ t.at <= Len(short) /\ gap = d + 1 /\ t.at = d
    BY <1>4, <1>5, <2>1 DEF Up
  <2>3. QED
    BY <1>6, <1>7, <1>8, <1>9, <2>2

-----------------------------------------------------------------------------
\* Whenever a run comes to a line which stores a byte, the register it stores
\* holds nothing above it.
BytesAlone(lines, answers) ==
    \A n \in Nat :
        LET s == After(lines, answers, n)
        IN  s.at <= Len(lines) => ByteAlone(s.held, lines[s.at])

LEMMA RunsBeside ==
    ASSUME NEW lines, NEW d, NEW gap, NEW answers,
           WellWritten(lines), Removable(lines, d, gap), BytesAlone(lines, answers)
    PROVE  \A n \in Nat : \E m \in Nat :
               /\ m >= n
               /\ Beside(gap, After(lines, answers, m), After(Without(lines, d), answers, n))
<1> DEFINE short == Without(lines, d)
           reached(m) == After(lines, answers, m)
           S == {n \in Nat : \E m \in Nat : m >= n /\ Beside(gap, reached(m), After(short, answers, n))}
<1>1. /\ IsSequence(lines) /\ TargetsStand(lines)
      /\ IsSequence(short) /\ TargetsStand(short)
  <2>1. WellWritten(short)
    <3>1. lines \in Codes
      BY DEF WellWritten
    <3>2. QED
      BY <3>1, RemovableLeaves, WithoutIsWritten
  <2> HIDE DEF short
  <2>2. QED
    BY <2>1 DEF WellWritten, IsSequence, Codes
<1>2. 0 \in S
  <2>1. Up(1, gap) = 1
    <3>1. gap \in Int /\ gap > 1
      <4>1. lines \in Codes
        BY DEF WellWritten
      <4>2. Len(lines) \in Nat
        BY <4>1 DEF Codes
      <4>3. QED
        BY <4>2 DEF Removable, Loaded
    <3>2. QED
      BY <3>1 DEF Up
  <2>2. Start.at = 1 /\ SameSeen(Start, Start)
    BY DEF Start, SameSeen, SameHeld, SameAsked
  <2>3. reached(0) = Start /\ After(short, answers, 0) = Start
    BY AfterStep
  <2> HIDE DEF short, reached
  <2>4. Beside(gap, reached(0), After(short, answers, 0))
    BY <2>1, <2>2, <2>3 DEF Beside
  <2>5. QED
    BY <2>4
<1>3. ASSUME NEW n \in Nat, n \in S PROVE n + 1 \in S
  <2>1. PICK m \in Nat : m >= n /\ Beside(gap, reached(m), After(short, answers, n))
    BY <1>3
  <2> DEFINE s == reached(m)
             t == After(short, answers, n)
  <2>2. /\ reached(m + 1) = Step(lines, answers, s)
        /\ After(short, answers, n + 1) = Step(short, answers, t)
    BY AfterStep
  <2>3. reached((m + 1) + 1) = Step(lines, answers, reached(m + 1))
    <3>1. m + 1 \in Nat
      OBVIOUS
    <3>2. QED
      BY <3>1, AfterStep, Zenon
  <2>4. InCode(lines, s) /\ InCode(short, t)
    <3> HIDE DEF short
    <3>1. QED
      BY <1>1, RunsInCode
  <2>5. s.at <= Len(lines) => ByteAlone(s.held, lines[s.at])
    BY DEF BytesAlone
  <2> HIDE DEF s, t, reached
  <2>6. \/ Beside(gap, Step(lines, answers, s), Step(short, answers, t))
        \/ Beside(gap, Step(lines, answers, Step(lines, answers, s)), Step(short, answers, t))
    <3>1. Beside(gap, s, t)
      BY <2>1 DEF s, t
    <3>2. QED
      BY <2>4, <2>5, <3>1, StepBeside
  <2>7. CASE Beside(gap, Step(lines, answers, s), Step(short, answers, t))
    <3>1. m + 1 \in Nat /\ m + 1 >= n + 1
      BY <2>1
    <3> HIDE DEF short
    <3>2. Beside(gap, reached(m + 1), After(short, answers, n + 1))
      BY <2>2, <2>7
    <3>3. QED
      BY <3>1, <3>2
  <2>8. CASE Beside(gap, Step(lines, answers, Step(lines, answers, s)), Step(short, answers, t))
    <3>1. (m + 1) + 1 \in Nat /\ (m + 1) + 1 >= n + 1
      BY <2>1
    <3> HIDE DEF short
    <3>2. Beside(gap, reached((m + 1) + 1), After(short, answers, n + 1))
      BY <2>2, <2>3, <2>8
    <3>3. QED
      BY <3>1, <3>2
  <2>9. QED
    BY <2>6, <2>7, <2>8
<1>4. \A n \in Nat : n \in S
  <2> HIDE DEF S
  <2>1. QED
    BY <1>2, <1>3, AllNumbers
<1>5. QED
  BY <1>4

\* A run of the one ends where a run of the other does, and has seen and left
\* the same there.
Equivalent(left, right, answers) ==
    /\ (\E n \in Nat : Over(left, After(left, answers, n)))
            <=> (\E n \in Nat : Over(right, After(right, answers, n)))
    /\ \A n, m \in Nat :
            Over(left, After(left, answers, n)) /\ Over(right, After(right, answers, m))
                => SameSeen(After(left, answers, n), After(right, answers, m))

LEMMA BesideOver ==
    ASSUME NEW lines, NEW d, NEW gap, NEW s, NEW t,
           WellWritten(lines), Removable(lines, d, gap),
           InCode(lines, s), InCode(Without(lines, d), t), Beside(gap, s, t)
    PROVE  /\ Over(lines, s) <=> Over(Without(lines, d), t)
           /\ t.at <= Len(Without(lines, d)) /\ s.at <= Len(lines) =>
                \/ lines[s.at] = Without(lines, d)[t.at]
                \/ Without(lines, d)[t.at].name = ":"
<1> DEFINE short == Without(lines, d)
<1>1. lines \in Codes /\ d \in 1 .. Len(lines) /\ Len(lines) \in Nat
      /\ Len(short) = Len(lines) - 1
      /\ \A k \in 1 .. Len(lines) - 1 : short[k] = lines[Up(k, d)]
  <2>1. lines \in Codes
    BY DEF WellWritten
  <2>2. d \in 1 .. Len(lines)
    BY DEF Removable
  <2>3. Len(lines) \in Nat
    BY <2>1 DEF Codes
  <2> HIDE DEF short
  <2>4. QED
    BY <2>1, <2>2, <2>3, WithoutIsCode DEF short
<1> HIDE DEF short
<1>2. s.at \in 1 .. Len(lines) + 1 /\ t.at \in 1 .. Len(short) + 1 /\ s.at = Up(t.at, gap)
  BY DEF InCode, Beside, short
<1>3. \/ gap = d
      \/ gap = d + 1 /\ d < Len(lines) /\ lines[d + 1].name = ":"
  BY DEF Removable, JumpsOn
<1>4. Over(lines, s) <=> Over(short, t)
  BY <1>1, <1>2, <1>3 DEF Over, Up
<1>5. ASSUME t.at <= Len(short), s.at <= Len(lines)
      PROVE  lines[s.at] = short[t.at] \/ short[t.at].name = ":"
  <2>1. t.at \in 1 .. Len(lines) - 1 /\ short[t.at] = lines[Up(t.at, d)]
    BY <1>1, <1>2, <1>5
  <2>2. CASE gap = d
    BY <1>2, <2>1, <2>2
  <2>3. CASE gap = d + 1 /\ lines[d + 1].name = ":"
    <3>1. t.at = d \/ Up(t.at, d) = Up(t.at, gap)
      BY <1>1, <2>1, <2>3 DEF Up
    <3>2. CASE t.at = d
      <4>1. Up(d, d) = d + 1
        BY <1>1 DEF Up
      <4>2. QED
        BY <2>1, <2>3, <3>2, <4>1
    <3>3. CASE Up(t.at, d) = Up(t.at, gap)
      BY <1>2, <2>1, <3>3
    <3>4. QED
      BY <3>1, <3>2, <3>3
  <2>4. QED
    BY <1>3, <2>2, <2>3
<1>6. QED
  BY <1>4, <1>5 DEF short

LEMMA RemovalIsEquivalent ==
    ASSUME NEW lines, NEW d, NEW gap, NEW answers,
           WellWritten(lines), Removable(lines, d, gap), BytesAlone(lines, answers)
    PROVE  /\ Equivalent(lines, Without(lines, d), answers)
           /\ BytesAlone(Without(lines, d), answers)
<1> DEFINE short == Without(lines, d)
           reached(n) == After(lines, answers, n)
           there(n) == After(short, answers, n)
<1>1. \A n \in Nat : \E m \in Nat : m >= n /\ Beside(gap, reached(m), there(n))
  BY RunsBeside
<1>2. /\ IsSequence(lines) /\ TargetsStand(lines)
      /\ IsSequence(short) /\ TargetsStand(short)
  <2>1. WellWritten(short)
    <3>1. lines \in Codes
      BY DEF WellWritten
    <3>2. QED
      BY <3>1, RemovableLeaves, WithoutIsWritten
  <2> HIDE DEF short
  <2>2. QED
    BY <2>1 DEF WellWritten, IsSequence, Codes
<1> HIDE DEF short
<1>3. \A n \in Nat : InCode(lines, reached(n)) /\ InCode(short, there(n))
  BY <1>2, RunsInCode
<1>4. \A m, n \in Nat : Over(lines, reached(m)) /\ n >= m => reached(n) = reached(m)
  BY <1>2, OverStays
<1>5. \A m, n \in Nat : Over(short, there(m)) /\ n >= m => there(n) = there(m)
  BY <1>2, OverStays
<1> HIDE DEF reached, there
<1>6. \A m, n \in Nat : Beside(gap, reached(m), there(n)) =>
          (Over(lines, reached(m)) <=> Over(short, there(n)))
  BY <1>3, BesideOver DEF short
<1>7. (\E n \in Nat : Over(lines, reached(n))) <=> (\E n \in Nat : Over(short, there(n)))
  <2>1. ASSUME NEW n \in Nat, Over(lines, reached(n))
        PROVE  Over(short, there(n))
    <3>1. PICK m \in Nat : m >= n /\ Beside(gap, reached(m), there(n))
      BY <1>1
    <3>2. reached(m) = reached(n)
      BY <1>4, <2>1, <3>1
    <3>3. QED
      BY <1>6, <2>1, <3>1, <3>2
  <2>2. ASSUME NEW n \in Nat, Over(short, there(n))
        PROVE  \E m \in Nat : Over(lines, reached(m))
    BY <1>1, <1>6, <2>2
  <2>3. QED
    BY <2>1, <2>2
<1>8. ASSUME NEW n \in Nat, NEW k \in Nat, Over(lines, reached(n)), Over(short, there(k))
      PROVE  SameSeen(reached(n), there(k))
  <2>1. PICK m \in Nat : m >= k /\ Beside(gap, reached(m), there(k))
    BY <1>1
  <2>2. Over(lines, reached(m))
    BY <1>6, <1>8, <2>1
  <2>3. reached(m) = reached(n)
    <3>1. m >= n \/ n >= m
      OBVIOUS
    <3>2. QED
      BY <1>4, <1>8, <2>2, <3>1
  <2>4. QED
    BY <2>1, <2>3 DEF Beside
<1>9. BytesAlone(short, answers)
  <2> SUFFICES ASSUME NEW n \in Nat, there(n).at <= Len(short)
               PROVE  ByteAlone(there(n).held, short[there(n).at])
    BY DEF BytesAlone, there
  <2> DEFINE t == there(n)
  <2>1. PICK m \in Nat : m >= n /\ Beside(gap, reached(m), t)
    BY <1>1
  <2> DEFINE s == reached(m)
  <2>2. InCode(lines, s) /\ InCode(short, t) /\ Beside(gap, s, t)
    BY <1>3, <2>1
  <2>3. s.at <= Len(lines)
    <3>1. ~Over(short, t)
      <4>1. Len(short) \in Nat /\ t.at \in 1 .. Len(short) + 1
        BY <1>2, <2>2, LenIsNat DEF InCode
      <4>2. QED
        BY <4>1 DEF Over
    <3>2. ~Over(lines, s)
      BY <1>6, <2>2, <3>1
    <3>3. Len(lines) \in Nat /\ s.at \in 1 .. Len(lines) + 1
      BY <1>2, <2>2, LenIsNat DEF InCode
    <3>4. QED
      BY <3>2, <3>3 DEF Over
  <2>4. ByteAlone(s.held, lines[s.at])
    BY <2>3 DEF BytesAlone, reached
  <2> HIDE DEF s, t
  <2>5. lines[s.at] = short[t.at] \/ short[t.at].name = ":"
    <3>1. t.at <= Len(short)
      BY DEF t
    <3>2. QED
      BY <2>2, <2>3, <3>1, BesideOver DEF short
  <2>6. SameHeld(s.held, t.held)
    BY <2>2 DEF Beside, SameSeen
  <2>7. \A operand : Held(s.held, Place(s.held, operand)) = Held(t.held, Place(t.held, operand))
    BY <2>6, SamePlace DEF SameHeld
  <2>8. ByteAlone(t.held, short[t.at])
    <3>1. CASE lines[s.at] = short[t.at]
      BY <2>4, <2>7, <3>1 DEF ByteAlone
    <3>2. CASE short[t.at].name = ":"
      BY <3>2 DEF ByteAlone
    <3>3. QED
      BY <2>5, <3>1, <3>2
  <2>9. QED
    BY <2>8 DEF t
<1>10. Equivalent(lines, short, answers)
  BY <1>7, <1>8 DEF Equivalent, reached, there
<1>11. QED
  BY <1>9, <1>10 DEF short

LEMMA SeenByAll ==
    ASSUME NEW s, NEW t, NEW u
    PROVE  /\ SameSeen(s, s)
           /\ SameSeen(s, t) /\ SameSeen(t, u) => SameSeen(s, u)
BY DEF SameSeen, SameHeld, SameAsked

LEMMA EquivalentToItself ==
    ASSUME NEW lines, NEW answers, WellWritten(lines)
    PROVE  Equivalent(lines, lines, answers)
<1>1. IsSequence(lines) /\ TargetsStand(lines)
  BY DEF WellWritten, IsSequence, Codes
<1>2. ASSUME NEW n \in Nat, NEW m \in Nat, Over(lines, After(lines, answers, n)),
             Over(lines, After(lines, answers, m))
      PROVE  After(lines, answers, n) = After(lines, answers, m)
  <2>1. n >= m \/ m >= n
    OBVIOUS
  <2>2. QED
    BY <1>1, <1>2, <2>1, OverStays
<1>3. QED
  BY <1>2, SeenByAll DEF Equivalent

LEMMA EquivalentToTheLast ==
    ASSUME NEW left, NEW middle, NEW right, NEW answers,
           Equivalent(left, middle, answers), Equivalent(middle, right, answers)
    PROVE  Equivalent(left, right, answers)
<1> DEFINE a(n) == After(left, answers, n)
           b(n) == After(middle, answers, n)
           c(n) == After(right, answers, n)
<1>1. ASSUME NEW n \in Nat, NEW m \in Nat, Over(left, a(n)), Over(right, c(m))
      PROVE  SameSeen(a(n), c(m))
  <2>1. PICK k \in Nat : Over(middle, b(k))
    BY <1>1 DEF Equivalent
  <2>2. SameSeen(a(n), b(k)) /\ SameSeen(b(k), c(m))
    BY <1>1, <2>1 DEF Equivalent
  <2>3. QED
    BY <2>2, SeenByAll
<1>2. QED
  BY <1>1 DEF Equivalent

\* What ends at all ends within the steps, and so is alike after them.
LEMMA EquivalentIsAlike ==
    ASSUME NEW left, NEW right, NEW answers, NEW steps \in Nat,
           WellWritten(left), WellWritten(right), Equivalent(left, right, answers),
           Len(answers) \in Nat,
           steps >= Len(left) * (Len(answers) + 1),
           steps >= Len(right) * (Len(answers) + 1)
    PROVE  Alike(left, right, answers, steps)
<1> DEFINE a == After(left, answers, steps)
           b == After(right, answers, steps)
<1>1. /\ IsSequence(left) /\ TargetsStand(left)
      /\ IsSequence(right) /\ TargetsStand(right)
  BY DEF WellWritten, IsSequence, Codes
<1>2. Over(left, a) <=> \E n \in Nat : Over(left, After(left, answers, n))
  BY <1>1, EndsInTime
<1>3. Over(right, b) <=> \E n \in Nat : Over(right, After(right, answers, n))
  BY <1>1, EndsInTime
<1>4. Over(left, a) <=> Over(right, b)
  BY <1>2, <1>3 DEF Equivalent
<1>5. Over(left, a) => SameSeen(a, b)
  BY <1>4 DEF Equivalent
<1> HIDE DEF a, b
<1>6. \A x, y : SameHeld(x, y) => Same(x, y)
  BY DEF SameHeld, Same
<1>7. Over(left, a) => /\ Len(a.asked) = Len(b.asked)
                       /\ \A k \in 1 .. Len(a.asked) : Same(a.asked[k], b.asked[k])
                       /\ Same(a.held, b.held)
  BY <1>5, <1>6 DEF SameSeen, SameAsked
<1>8. QED
  BY <1>4, <1>7 DEF Alike, Over, a, b

-----------------------------------------------------------------------------
\* A code which writes to the places of a char by the moves of a byte only stores
\* no byte with anything above it.
AllCut(held) == \A place \in Bytes : Cut(Held(held, place)) = Held(held, place)

LEMMA PutKeepsCut ==
    ASSUME NEW held, AllCut(held), NEW place, NEW value,
           place \notin Bytes \/ Cut(value) = value
    PROVE  AllCut(Put(held, place, value))
BY WriteHolds DEF AllCut

LEMMA MoveKeepsCut ==
    ASSUME NEW held, AllCut(held), NEW from, NEW to
    PROVE  /\ AllCut(MovedByte(held, from, to))
           /\ Register(to) \notin Bytes => AllCut(Moved(held, from, to))
<1>1. AllCut(MovedByte(held, from, to))
  BY PutKeepsCut, CutTwice DEF MovedByte
<1>2. ASSUME Register(to) \notin Bytes
      PROVE  Place(held, to) \notin Bytes
  <2>1. CASE to \in DOMAIN PointerIn
    <3> DEFINE reached == Held(held, <<PointerIn[to]>>)
    <3>1. Place(held, to) = <<"at", reached>>
      BY <2>1 DEF Place
    <3> HIDE DEF reached
    <3>2. DOMAIN <<"at", reached>> = 1 .. 2
      OBVIOUS
    <3>3. \A place \in Bytes : DOMAIN place = 1 .. 1
      BY BytesAssumption
    <3>4. 2 \in 1 .. 2 /\ 2 \notin 1 .. 1
      OBVIOUS
    <3>5. QED
      BY <3>1, <3>2, <3>3, <3>4
  <2>2. CASE to \notin DOMAIN PointerIn
    BY <1>2, <2>2 DEF Place
  <2>3. QED
    BY <2>1, <2>2
<1>3. ASSUME Register(to) \notin Bytes
      PROVE  AllCut(Moved(held, from, to))
  BY <1>2, <1>3, PutKeepsCut DEF Moved
<1>4. QED
  BY <1>1, <1>3

LEMMA DoneKeepsCut ==
    ASSUME NEW held, AllCut(held), NEW line, OnlyBytes(line)
    PROVE  AllCut(Done(held, line))
<1> DEFINE name == line.name
           operand == line.operand
<1>1. CASE name \in {"movq", "str"}
  <2>1. Done(held, line) = Moved(held, operand[1], operand[3])
    BY <1>1 DEF Done
  <2>2. Register(operand[3]) \notin Bytes
    BY <1>1 DEF OnlyBytes, WrittenTo
  <2>3. QED
    BY <2>1, <2>2, MoveKeepsCut
<1>2. CASE name = "ldr"
  <2>1. Done(held, line) = Moved(held, operand[3], operand[1])
    BY <1>2 DEF Done
  <2>2. Register(operand[1]) \notin Bytes
    BY <1>2 DEF OnlyBytes, WrittenTo
  <2>3. QED
    BY <2>1, <2>2, MoveKeepsCut
<1>3. CASE name \in {"strb", "ldrb"}
  <2>1. \/ Done(held, line) = MovedByte(held, operand[1], operand[3])
        \/ Done(held, line) = MovedByte(held, operand[3], operand[1])
    BY <1>3 DEF Done
  <2>2. QED
    BY <2>1, MoveKeepsCut
<1>4. CASE name = "std"
  <2>1. Done(held, line) = Moved(held, "d", operand[1]) /\ Register(operand[1]) \notin Bytes
    BY <1>4 DEF Done, OnlyBytes, WrittenTo
  <2>2. QED
    BY <2>1, MoveKeepsCut
<1>5. CASE name = "ldd"
  <2>1. Done(held, line) = Moved(held, operand[1], "d") /\ Register("d") \notin Bytes
    BY <1>5 DEF Done, OnlyBytes, WrittenTo
  <2>2. QED
    BY <2>1, MoveKeepsCut
<1>6. CASE name = "stx"
  <2>1. Done(held, line) = Moved(held, "x", operand[1]) /\ Register(operand[1]) \notin Bytes
    BY <1>6 DEF Done, OnlyBytes, WrittenTo
  <2>2. QED
    BY <2>1, MoveKeepsCut
<1>7. CASE name = "ldx"
  <2>1. Done(held, line) = Moved(held, operand[1], "x") /\ Register("x") \notin Bytes
    BY <1>7 DEF Done, OnlyBytes, WrittenTo
  <2>2. QED
    BY <2>1, MoveKeepsCut
<1>8. CASE name = "add"
  <2> DEFINE p == Register(operand[1])
             v == <<"sum", Held(held, Register(operand[3])), Held(held, Register(operand[5]))>>
  <2>1. Done(held, line) = Put(held, p, v) /\ p \notin Bytes
    BY <1>8 DEF Done, OnlyBytes, WrittenTo
  <2> HIDE DEF p, v
  <2>2. QED
    BY <2>1, PutKeepsCut
<1>9. CASE name \notin {"movq", "str", "ldr", "strb", "ldrb", "std", "ldd", "stx", "ldx", "add"}
  BY <1>9 DEF Done
<1>10. QED
  BY <1>1, <1>2, <1>3, <1>4, <1>5, <1>6, <1>7, <1>8, <1>9

LEMMA OnlyBytesAreAlone ==
    ASSUME NEW lines, NEW answers, WellWritten(lines),
           \A k \in 1 .. Len(lines) : OnlyBytes(lines[k])
    PROVE  BytesAlone(lines, answers)
<1> DEFINE reached(n) == After(lines, answers, n)
           S == {n \in Nat : AllCut(reached(n).held)}
<1>1. IsSequence(lines) /\ TargetsStand(lines) /\ Len(lines) \in Nat
  BY DEF WellWritten, IsSequence, Codes
<1>2. \A n \in Nat : InCode(lines, reached(n))
  BY <1>1, RunsInCode
<1>3. 0 \in S
  <2>1. AllCut(Start.held)
    BY DEF AllCut, Start, Nothing, Held, Cut
  <2>2. QED
    BY <2>1, AfterStep
<1>4. ASSUME NEW n \in Nat, n \in S PROVE n + 1 \in S
  <2> DEFINE s == reached(n)
             line == lines[s.at]
  <2>1. AllCut(s.held) /\ InCode(lines, s) /\ reached(n + 1) = Step(lines, answers, s)
    BY <1>2, <1>4, AfterStep
  <2> HIDE DEF s, reached
  <2>2. AllCut(Step(lines, answers, s).held)
    <3>1. s.at \in 1 .. Len(lines) + 1
      BY <2>1 DEF InCode
    <3>2. CASE s.at > Len(lines)
      BY <2>1, <3>2, StepOf
    <3>3. CASE s.at <= Len(lines) /\ line.name \in Jumps
      BY <2>1, <3>3, StepOf
    <3>4. CASE s.at <= Len(lines) /\ line.name \in Tests
      BY <2>1, <3>4, StepOf
    <3>5. CASE s.at <= Len(lines) /\ line.name \notin Jumps \cup Tests
      <4>1. Step(lines, answers, s) =
                [at |-> s.at + 1, held |-> Done(s.held, line), asked |-> s.asked]
        BY <2>1, <3>5, StepOf
      <4>2. AllCut(Done(s.held, line))
        <5>1. s.at \in 1 .. Len(lines)
          BY <1>1, <3>1, <3>5
        <5>2. QED
          BY <2>1, <5>1, DoneKeepsCut
      <4>3. QED
        BY <4>1, <4>2
    <3>6. QED
      BY <1>1, <3>1, <3>2, <3>3, <3>4, <3>5
  <2>3. QED
    BY <2>1, <2>2
<1>5. \A n \in Nat : n \in S
  <2> HIDE DEF S
  <2>1. QED
    BY <1>3, <1>4, AllNumbers
<1>6. ASSUME NEW n \in Nat, reached(n).at <= Len(lines)
      PROVE  ByteAlone(reached(n).held, lines[reached(n).at])
  <2> DEFINE s == reached(n)
             line == lines[s.at]
  <2>1. AllCut(s.held) /\ s.at \in 1 .. Len(lines)
    BY <1>1, <1>2, <1>5, <1>6 DEF InCode
  <2> HIDE DEF s, reached
  <2>2. WellFormed(line) /\ OnlyBytes(line)
    BY <2>1 DEF WellWritten
  <2> HIDE DEF line
  <2>3. ByteAlone(s.held, line)
    BY <2>1, <2>2 DEF ByteAlone, WellFormed, OnlyBytes, Place, AllCut
  <2>4. QED
    BY <2>3 DEF s, line, reached
<1>7. QED
  BY <1>6 DEF BytesAlone

-----------------------------------------------------------------------------
(***************************************************************************)
(* The passes.                                                             *)
(***************************************************************************)

LEMMA JoinIsSequence ==
    ASSUME NEW s, NEW t, IsSequence(s), IsSequence(t)
    PROVE  IsSequence(s \o t) /\ Len(s \o t) = Len(s) + Len(t)
<1>1. PICK S : s \in Seq(S)
  BY DEF IsSequence
<1>2. PICK T : t \in Seq(T)
  BY DEF IsSequence
<1>3. s \in Seq(S \cup T) /\ t \in Seq(S \cup T)
  BY <1>1, <1>2
<1>4. s \o t \in Seq(S \cup T) /\ Len(s \o t) = Len(s) + Len(t)
  BY <1>3
<1>5. QED
  BY <1>4 DEF IsSequence

\* Two sequences of one length with one element each place are one sequence.
LEMMA SameSequence ==
    ASSUME NEW s, NEW t, IsSequence(s), IsSequence(t), Len(s) = Len(t),
           \A k \in 1 .. Len(s) : s[k] = t[k]
    PROVE  s = t
<1>1. PICK S : s \in Seq(S)
  BY DEF IsSequence
<1>2. PICK T : t \in Seq(T)
  BY DEF IsSequence
<1>3. QED
  BY <1>1, <1>2

-----------------------------------------------------------------------------
\* Every rule there is takes two lines and leaves one.
LEMMA RulesLeaveFewer ==
    ASSUME NEW n \in 1 .. Len(Rules)
    PROVE  Len(Rules[n].matched) = 2 /\ Len(Rules[n].kept) = 1
<1>1. CASE target = "m6809"
  BY <1>1 DEF Rules, M6809Rules, StoreAndLoad, JumpToNext, Rule
<1>2. CASE target = "arm64"
  BY <1>2 DEF Rules, Arm64Rules, StoreAndLoad, JumpToNext, Rule
<1>3. CASE target \notin {"m6809", "arm64"}
  BY <1>3 DEF Rules, X86Rules, StoreAndLoad, JumpToNext, Rule
<1>4. QED
  BY <1>1, <1>2, <1>3

LEMMA OneLine ==
    ASSUME NEW s, s = [k \in 1 .. 1 |-> s[k]]
    PROVE  IsSequence(s) /\ Len(s) = 1
<1>1. <<s[1]>> \in Seq({s[1]}) /\ Len(<<s[1]>>) = 1
  OBVIOUS
<1>2. s = <<s[1]>>
  OBVIOUS
<1>3. QED
  BY <1>1, <1>2 DEF IsSequence

LEMMA KeptIsOneLine ==
    ASSUME NEW n \in 1 .. Len(Rules), NEW parts
    PROVE  IsSequence(Kept(Rules[n], parts)) /\ Len(Kept(Rules[n], parts)) = 1
<1> DEFINE kept == Kept(Rules[n], parts)
<1>1. DOMAIN kept = 1 .. 1
  BY RulesLeaveFewer DEF Kept
<1>2. kept = [k \in 1 .. 1 |-> kept[k]]
  BY <1>1 DEF Kept
<1> HIDE DEF kept
<1>3. IsSequence(kept) /\ Len(kept) = 1
  BY <1>2, OneLine
<1>4. QED
  BY <1>3 DEF kept

-----------------------------------------------------------------------------
\* What a part of a shape is written as.
Piece(shape, parts, k) == IF shape[k] \in Part THEN parts[shape[k]] ELSE <<shape[k]>>

IsText(f, shape, parts) ==
    f = [k \in 0 .. Len(shape) |-> IF k = 0 THEN <<>> ELSE f[k - 1] \o Piece(shape, parts, k)]

LEMMA SubstitutedIsText ==
    ASSUME NEW shape, NEW parts
    PROVE  Substituted(shape, parts) = (CHOOSE f : IsText(f, shape, parts))[Len(shape)]
BY DEF Substituted, IsText, Piece

Joined(x, y, z) == ((<<>> \o x) \o y) \o z

LEMMA ThreePieces ==
    ASSUME NEW shape, NEW parts, Len(shape) = 3
    PROVE  Substituted(shape, parts)
               = Joined(Piece(shape, parts, 1), Piece(shape, parts, 2), Piece(shape, parts, 3))
<1> DEFINE one == <<>> \o Piece(shape, parts, 1)
           two == one \o Piece(shape, parts, 2)
           three == two \o Piece(shape, parts, 3)
           g == [k \in 0 .. 3 |-> IF k = 0 THEN <<>> ELSE IF k = 1 THEN one
                                  ELSE IF k = 2 THEN two ELSE three]
<1> HIDE DEF one, two, three
<1>1. g[0] = <<>> /\ g[1] = one /\ g[2] = two /\ g[3] = three
  OBVIOUS
<1>2. g = [k \in 0 .. 3 |-> g[k]]
  OBVIOUS
<1> HIDE DEF g
<1>3. ASSUME NEW k \in 0 .. 3
      PROVE  g[k] = IF k = 0 THEN <<>> ELSE g[k - 1] \o Piece(shape, parts, k)
  <2>1. k = 0 \/ (k = 1 /\ k - 1 = 0) \/ (k = 2 /\ k - 1 = 1) \/ (k = 3 /\ k - 1 = 2)
    OBVIOUS
  <2>2. /\ one = <<>> \o Piece(shape, parts, 1)
        /\ two = one \o Piece(shape, parts, 2)
        /\ three = two \o Piece(shape, parts, 3)
    BY DEF one, two, three
  <2>3. QED
    BY <1>1, <2>1, <2>2
<1>4. IsText(g, shape, parts)
  BY <1>2, <1>3 DEF IsText
<1> DEFINE f == CHOOSE f : IsText(f, shape, parts)
<1>5. IsText(f, shape, parts)
  BY <1>4
<1> HIDE DEF f
<1>6. f = [k \in 0 .. 3 |-> IF k = 0 THEN <<>> ELSE f[k - 1] \o Piece(shape, parts, k)]
  BY <1>5 DEF IsText
<1> HIDE DEF g
<1>7. \A k \in 0 .. 3 :
           f[k] = IF k = 0 THEN <<>> ELSE f[k - 1] \o Piece(shape, parts, k)
  BY <1>6
<1>8. f[0] = <<>> /\ 2 - 1 = 1 /\ 3 - 1 = 2
  BY <1>6
<1>9. f[1] = f[0] \o Piece(shape, parts, 1)
  BY <1>6
<1>10. f[2] = f[1] \o Piece(shape, parts, 2)
  <2>1. f[2] = f[2 - 1] \o Piece(shape, parts, 2)
    BY <1>7
  <2>2. QED
    BY <1>8, <2>1
<1>11. f[3] = f[2] \o Piece(shape, parts, 3)
  <2>1. f[3] = f[3 - 1] \o Piece(shape, parts, 3)
    BY <1>7
  <2>2. QED
    BY <1>8, <2>1
<1>12. Substituted(shape, parts) = f[3]
  BY SubstitutedIsText DEF f
<1>13. QED
  BY <1>8, <1>9, <1>10, <1>11, <1>12 DEF one, two, three, Joined

LEMMA OnePiece ==
    ASSUME NEW S, NEW e \in S
    PROVE  <<e>> \in Seq(S) /\ Len(<<e>>) = 1 /\ <<e>>[1] = e
OBVIOUS

LEMMA OneLong ==
    ASSUME NEW S, NEW s \in Seq(S), Len(s) = 1
    PROVE  s = <<s[1]>>
<1>1. s[1] \in S
  BY ElementOfSeq
<1>2. QED
  BY <1>1, OnePiece, SeqEqual

LEMMA ThreeJoined ==
    ASSUME NEW a, NEW b, NEW c
    PROVE  Joined(<<a>>, <<b>>, <<c>>) = <<a, b, c>>
<1> DEFINE S == {a, b, c}
           l == <<a>>
           m == <<b>>
           r == <<c>>
<1>1. /\ l \in Seq(S) /\ m \in Seq(S) /\ r \in Seq(S)
      /\ Len(l) = 1 /\ Len(m) = 1 /\ Len(r) = 1 /\ l[1] = a /\ m[1] = b /\ r[1] = c
  BY OnePiece
<1>2. <<>> \o l = l
  BY <1>1, ConcatEmptySeq
<1>3. <<a, b, c>> \in Seq(S) /\ Len(<<a, b, c>>) = 3
  OBVIOUS
<1> DEFINE lm == l \o m
           all == lm \o r
<1> HIDE DEF l, m, r, S
<1>4. /\ lm \in Seq(S) /\ Len(lm) = 1 + 1
      /\ \A i \in 1 .. 1 + 1 : lm[i] = IF i <= 1 THEN l[i] ELSE m[i - 1]
  <2>1. /\ lm \in Seq(S) /\ Len(lm) = Len(l) + Len(m)
        /\ \A i \in 1 .. Len(l) + Len(m) : lm[i] = IF i <= Len(l) THEN l[i] ELSE m[i - Len(l)]
    BY <1>1, ConcatProperties
  <2>2. QED
    BY <1>1, <2>1
<1>5. lm[1] = a /\ lm[2] = b /\ Len(lm) = 2
  BY <1>1, <1>4
<1> HIDE DEF lm
<1>6. /\ all \in Seq(S) /\ Len(all) = 3
      /\ \A i \in 1 .. 3 : all[i] = IF i <= 2 THEN lm[i] ELSE r[i - 2]
  <2>1. /\ all \in Seq(S) /\ Len(all) = Len(lm) + Len(r)
        /\ \A i \in 1 .. Len(lm) + Len(r) :
              all[i] = IF i <= Len(lm) THEN lm[i] ELSE r[i - Len(lm)]
    BY <1>1, <1>4, ConcatProperties
  <2>2. QED
    BY <1>1, <1>5, <2>1
<1> HIDE DEF all
<1>7. all[1] = a /\ all[2] = b /\ all[3] = c
  BY <1>1, <1>5, <1>6
<1>8. all = <<a, b, c>>
  BY <1>6, <1>7, <1>3, SeqEqual
<1>9. QED
  BY <1>2, <1>8 DEF all, lm, l, m, r, Joined

\* Two parts which are not empty, in three pieces.
LEMMA TwoOfThree ==
    ASSUME NEW S, NEW p \in Seq(S), NEW q \in Seq(S), p # <<>>, q # <<>>, NEW comma \in S,
           NEW text, NEW a, NEW b, text = <<a, comma, b>>,
           text = Joined(p, <<comma>>, q)
    PROVE  p = <<a>> /\ q = <<b>>
<1> DEFINE c == <<comma>>
           r == p \o c
<1>1. <<>> \o p = p
  BY ConcatEmptySeq
<1>2. c \in Seq(S) /\ Len(c) = 1
  BY OnePiece
<1>3. Len(p) \in Nat \ {0} /\ Len(q) \in Nat \ {0}
  BY EmptySeq
<1>4. text = r \o q
  BY <1>1 DEF Joined
<1>5. Len(text) = 3 /\ text[1] = a /\ text[3] = b
  OBVIOUS
<1> HIDE DEF c
<1>6. /\ r \in Seq(S) /\ Len(r) = Len(p) + 1
      /\ \A i \in 1 .. Len(p) + 1 : r[i] = IF i <= Len(p) THEN p[i] ELSE c[i - Len(p)]
  <2>1. /\ p \o c \in Seq(S) /\ Len(p \o c) = Len(p) + Len(c)
        /\ \A i \in 1 .. Len(p) + Len(c) :
              (p \o c)[i] = IF i <= Len(p) THEN p[i] ELSE c[i - Len(p)]
    BY <1>2, ConcatProperties
  <2>2. QED
    BY <1>2, <2>1
<1> HIDE DEF r
<1>7. /\ Len(text) = Len(r) + Len(q)
      /\ \A i \in 1 .. Len(r) + Len(q) : text[i] = IF i <= Len(r) THEN r[i] ELSE q[i - Len(r)]
  <2>1. /\ Len(r \o q) = Len(r) + Len(q)
        /\ \A i \in 1 .. Len(r) + Len(q) :
              (r \o q)[i] = IF i <= Len(r) THEN r[i] ELSE q[i - Len(r)]
    BY <1>6, ConcatProperties
  <2>2. QED
    BY <1>4, <2>1
<1>8. Len(p) = 1 /\ Len(q) = 1 /\ Len(r) = 2
  BY <1>3, <1>5, <1>6, <1>7
<1>9. p[1] = a
  <2>1. text[1] = r[1]
    BY <1>7, <1>8
  <2>2. r[1] = p[1]
    BY <1>6, <1>8
  <2>3. QED
    BY <1>5, <2>1, <2>2
<1>10. q[1] = b
  <2>1. text[3] = q[3 - 2]
    BY <1>7, <1>8
  <2>2. QED
    BY <1>5, <2>1
<1>11. QED
  BY <1>8, <1>9, <1>10, OneLong

-----------------------------------------------------------------------------
\* What the two lines a rule matched are, and the one it leaves of them.
LineAsWritten(line) == line = [name |-> line.name, operand |-> line.operand]

LoadRemoved(first, second, kept) == LoadsBack(first, second) /\ kept = first

JumpRemoved(first, second, kept) ==
    /\ first.name \in Jumps
    /\ second = [name |-> ":", operand |-> <<first.operand[1]>>]
    /\ kept = second

Removed(first, second, kept) ==
    LoadRemoved(first, second, kept) \/ JumpRemoved(first, second, kept)

MatchesBoth(rule, first, second, parts) ==
    MatchesLine(rule.matched[1], first, parts) /\ MatchesLine(rule.matched[2], second, parts)

LEMMA StoreAndLoadRemoves ==
    ASSUME NEW store, NEW load, NEW operand, NEW parts, NEW first, NEW second,
           <<store, load>> \in
              {<<"std", "ldd">>, <<"stx", "ldx">>, <<"str", "ldr">>, <<"strb", "ldrb">>},
           LineAsWritten(first), LineAsWritten(second),
           MatchesBoth(StoreAndLoad(store, load, operand), first, second, parts)
    PROVE  LoadRemoved(first, second, Kept(StoreAndLoad(store, load, operand), parts)[1])
<1> DEFINE rule == StoreAndLoad(store, load, operand)
           text == Substituted(operand, parts)
<1>1. /\ rule.matched[1] = [name |-> store, operand |-> operand]
      /\ rule.matched[2] = [name |-> load, operand |-> operand]
      /\ rule.kept[1] = [name |-> store, operand |-> operand]
      /\ Len(rule.kept) = 1
  BY DEF StoreAndLoad, Rule, Instruction
<1> HIDE DEF rule, text
<1>2. first.name = store /\ first.operand = text
  BY <1>1 DEF MatchesBoth, MatchesLine, MatchesShape, rule, text
<1>3. second.name = load /\ second.operand = text
  BY <1>1 DEF MatchesBoth, MatchesLine, MatchesShape, rule, text
<1>4. Kept(rule, parts)[1] = [name |-> store, operand |-> text]
  BY <1>1 DEF Kept, Instruction, text
<1>5. Kept(rule, parts)[1] = first
  BY <1>2, <1>4 DEF LineAsWritten
<1>6. LoadsBack(first, second)
  BY <1>2, <1>3 DEF LoadsBack
<1>7. QED
  BY <1>5, <1>6 DEF LoadRemoved, rule

LEMMA JumpToNextRemoves ==
    ASSUME NEW jump \in Jumps, NEW parts, NEW first, NEW second,
           LineAsWritten(first), LineAsWritten(second), WellFormed(first),
           MatchesBoth(JumpToNext(jump), first, second, parts)
    PROVE  JumpRemoved(first, second, Kept(JumpToNext(jump), parts)[1])
<1> DEFINE rule == JumpToNext(jump)
           text == Substituted(<<"%1">>, parts)
<1>1. /\ rule.matched[1] = [name |-> jump, operand |-> <<"%1">>]
      /\ rule.matched[2] = [name |-> ":", operand |-> <<"%1">>]
      /\ rule.kept[1] = [name |-> ":", operand |-> <<"%1">>]
      /\ Len(rule.kept) = 1
  BY DEF JumpToNext, Rule, Instruction, Label
<1> HIDE DEF rule, text
<1>2. first.name = jump /\ first.operand = text
  BY <1>1 DEF MatchesBoth, MatchesLine, MatchesShape, rule, text
<1>3. second.name = ":" /\ second.operand = text
  BY <1>1 DEF MatchesBoth, MatchesLine, MatchesShape, rule, text
<1>4. Kept(rule, parts)[1] = [name |-> ":", operand |-> text]
  BY <1>1 DEF Kept, Instruction, text
<1>5. Kept(rule, parts)[1] = second
  BY <1>3, <1>4 DEF LineAsWritten
<1>6. text = <<first.operand[1]>>
  BY <1>2 DEF WellFormed
<1>7. QED
  BY <1>2, <1>3, <1>5, <1>6 DEF JumpRemoved, LineAsWritten, rule

LEMMA SwapRemoves ==
    ASSUME NEW parts, NEW first, NEW second,
           parts["%1"] \in Seq(STRING) \ {<<>>}, parts["%2"] \in Seq(STRING) \ {<<>>},
           LineAsWritten(first), LineAsWritten(second), WellFormed(first),
           MatchesBoth(X86Rules[1], first, second, parts)
    PROVE  LoadRemoved(first, second, Kept(X86Rules[1], parts)[1])
<1> DEFINE rule == X86Rules[1]
           p == parts["%1"]
           q == parts["%2"]
           text == Substituted(Both, parts)
           back == Substituted(Swapped, parts)
           a == first.operand[1]
           b == first.operand[3]
<1>1. /\ rule.matched[1] = [name |-> "movq", operand |-> Both]
      /\ rule.matched[2] = [name |-> "movq", operand |-> Swapped]
      /\ rule.kept[1] = [name |-> "movq", operand |-> Both]
      /\ Len(rule.kept) = 1
  BY DEF X86Rules, Rule, Instruction
<1>2. text = Joined(p, <<",">>, q)
  <2>1. /\ Piece(Both, parts, 1) = p /\ Piece(Both, parts, 2) = <<",">>
        /\ Piece(Both, parts, 3) = q /\ Len(Both) = 3
    BY DEF Piece, Both, Part
  <2>2. QED
    BY <2>1, ThreePieces
<1>3. back = Joined(q, <<",">>, p)
  <2>1. /\ Piece(Swapped, parts, 1) = q /\ Piece(Swapped, parts, 2) = <<",">>
        /\ Piece(Swapped, parts, 3) = p /\ Len(Swapped) = 3
    BY DEF Piece, Swapped, Part
  <2>2. QED
    BY <2>1, ThreePieces
<1> HIDE DEF rule, text, back, p, q
<1>4. first.name = "movq" /\ first.operand = text
  BY <1>1 DEF MatchesBoth, MatchesLine, MatchesShape, rule, text
<1>5. second.name = "movq" /\ second.operand = back
  BY <1>1 DEF MatchesBoth, MatchesLine, MatchesShape, rule, back
<1>6. Kept(rule, parts)[1] = [name |-> "movq", operand |-> text]
  BY <1>1 DEF Kept, Instruction, text
<1>7. Kept(rule, parts)[1] = first
  BY <1>4, <1>6 DEF LineAsWritten
<1>8. text = <<a, ",", b>>
  BY <1>4 DEF WellFormed
<1> HIDE DEF a, b
<1>9. p = <<a>> /\ q = <<b>>
  <2> DEFINE comma == ","
             S == STRING \cup {comma}
  <2>1. p \in Seq(STRING) \ {<<>>} /\ q \in Seq(STRING) \ {<<>>}
    BY DEF p, q
  <2>2. text = <<a, comma, b>> /\ text = Joined(p, <<comma>>, q)
    BY <1>2, <1>8
  <2> HIDE DEF comma
  <2>3. comma \in S /\ STRING \subseteq S
    OBVIOUS
  <2> HIDE DEF S
  <2>4. p \in Seq(S) /\ q \in Seq(S) /\ p # <<>> /\ q # <<>>
    BY <2>1, <2>3, SeqMonotonic
  <2> HIDE DEF text, a, b, p, q
  <2>5. QED
    BY <2>2, <2>3, <2>4, TwoOfThree
<1>10. back = <<b, ",", a>>
  BY <1>3, <1>9, ThreeJoined
<1>11. LoadsBack(first, second)
  BY <1>4, <1>5, <1>10 DEF LoadsBack, a, b
<1>12. QED
  BY <1>7, <1>11 DEF LoadRemoved, rule

LEMMA PiecesAreTexts ==
    ASSUME NEW S, NEW text \in Seq(S), NEW piece \in Pieces(text)
    PROVE  piece \in Seq(S) \ {<<>>}
<1>1. PICK m \in 1 .. Len(text), n \in 1 .. Len(text) : piece = SubSeq(text, m, n)
  BY DEF Pieces
<1>2. Len(text) \in Nat /\ \A i \in m .. n : text[i] \in S
  BY ElementOfSeq
<1>3. SubSeq(text, m, n) \in Seq(S)
  BY <1>2, SubSeqProperties
<1>4. piece # <<>>
  BY DEF Pieces
<1>5. QED
  BY <1>1, <1>3, <1>4

LEMMA PartsAreTexts ==
    ASSUME NEW lines \in Codes, NEW rule, NEW place, NEW parts \in PartsAt(rule, lines, place),
           NEW part \in Part
    PROVE  parts[part] \in Seq(STRING) \ {<<>>}
<1> DEFINE all == {Pieces(lines[n].operand) :
                        n \in (place .. place + Len(rule.matched) - 1) \cap DOMAIN lines}
<1>1. parts \in [Part -> UNION all]
  BY DEF PartsAt
<1>2. parts[part] \in UNION all
  BY <1>1
<1>3. PICK n \in DOMAIN lines : parts[part] \in Pieces(lines[n].operand)
  BY <1>2
<1>4. n \in 1 .. Len(lines)
  BY LenProperties DEF Codes
<1>5. lines[n] \in [name : STRING, operand : Seq(STRING)]
  BY <1>4, ElementOfSeq DEF Codes
<1>6. lines[n].operand \in Seq(STRING)
  BY <1>5
<1>7. QED
  BY <1>3, <1>6, PiecesAreTexts

LEMMA LinesAsWritten ==
    ASSUME NEW lines \in Codes, NEW n \in 1 .. Len(lines)
    PROVE  LineAsWritten(lines[n])
<1>1. lines[n] \in [name : STRING, operand : Seq(STRING)]
  BY ElementOfSeq DEF Codes
<1>2. QED
  BY <1>1 DEF LineAsWritten

\* Whichever rule it is, what it takes out is a line which did nothing.
LEMMA RuleRemoves ==
    ASSUME NEW lines \in Codes, NEW place \in 1 .. Len(lines), NEW n \in 1 .. Len(Rules),
           NEW parts \in PartsAt(Rules[n], lines, place),
           Matches(Rules[n], lines, place, parts), WellFormed(lines[place])
    PROVE  /\ place + 1 <= Len(lines)
           /\ Removed(lines[place], lines[place + 1], Kept(Rules[n], parts)[1])
<1> DEFINE rule == Rules[n]
           first == lines[place]
           second == lines[place + 1]
<1>1. Len(lines) \in Nat /\ Len(rule.matched) = 2
  BY RulesLeaveFewer DEF Codes
<1>2. place + 1 \in 1 .. Len(lines)
  BY <1>1 DEF Matches
<1>3. MatchesBoth(rule, first, second, parts)
  <2> HIDE DEF rule
  <2>1. \A k \in 1 .. 2 : MatchesLine(rule.matched[k], lines[place + k - 1], parts)
    BY <1>1 DEF Matches, rule
  <2>2. place + 1 - 1 = place /\ place + 2 - 1 = place + 1
    BY <1>1
  <2>3. QED
    BY <2>1, <2>2 DEF MatchesBoth
<1>4. LineAsWritten(first) /\ LineAsWritten(second)
  BY <1>2, LinesAsWritten
<1>5. "%1" \in Part /\ "%2" \in Part
  BY DEF Part
<1>6. parts["%1"] \in Seq(STRING) \ {<<>>} /\ parts["%2"] \in Seq(STRING) \ {<<>>}
  BY <1>5, PartsAreTexts
<1> HIDE DEF first, second, rule
<1>7. WellFormed(first)
  BY DEF first
<1>8. ASSUME NEW store, NEW load, NEW operand, rule = StoreAndLoad(store, load, operand),
             <<store, load>> \in
              {<<"std", "ldd">>, <<"stx", "ldx">>, <<"str", "ldr">>, <<"strb", "ldrb">>}
      PROVE  Removed(first, second, Kept(rule, parts)[1])
  BY <1>3, <1>4, <1>8, StoreAndLoadRemoves DEF Removed
<1>9. ASSUME NEW jump \in Jumps, rule = JumpToNext(jump)
      PROVE  Removed(first, second, Kept(rule, parts)[1])
  BY <1>3, <1>4, <1>7, <1>9, JumpToNextRemoves DEF Removed
<1>10. "b" \in Jumps /\ "jmp" \in Jumps
  BY DEF Jumps
<1>11. CASE target = "m6809"
  <2>1. Rules = M6809Rules
    BY <1>11 DEF Rules
  <2>2. \/ rule = StoreAndLoad("std", "ldd", <<"%1">>)
        \/ rule = StoreAndLoad("stx", "ldx", <<"%1">>)
        \/ rule = JumpToNext("jmp")
    BY <2>1 DEF M6809Rules, rule
  <2>3. QED
    BY <1>2, <1>8, <1>9, <1>10, <2>2 DEF first, second, rule
<1>12. CASE target = "arm64"
  <2>1. Rules = Arm64Rules
    BY <1>12 DEF Rules
  <2>2. \/ rule = StoreAndLoad("str", "ldr", Both)
        \/ rule = StoreAndLoad("strb", "ldrb", Both)
        \/ rule = JumpToNext("b")
    BY <2>1 DEF Arm64Rules, rule
  <2>3. QED
    BY <1>2, <1>8, <1>9, <1>10, <2>2 DEF first, second, rule
<1>13. CASE target \notin {"m6809", "arm64"}
  <2>1. Rules = X86Rules
    BY <1>13 DEF Rules
  <2>2. rule = X86Rules[1] \/ rule = JumpToNext("jmp")
    BY <2>1 DEF X86Rules, rule
  <2>3. CASE rule = X86Rules[1]
    BY <1>2, <1>3, <1>4, <1>6, <1>7, <2>3, SwapRemoves DEF Removed, first, second, rule
  <2>4. CASE rule = JumpToNext("jmp")
    BY <1>2, <1>9, <1>10, <2>4 DEF first, second, rule
  <2>5. QED
    BY <2>2, <2>3, <2>4
<1>14. QED
  BY <1>11, <1>12, <1>13

-----------------------------------------------------------------------------
\* As long as no rule was carried out in a pass, it has left the lines it went
\* through, and no rule fits any of them.
Untouched ==
    ~fired => /\ Len(written) = at - 1
              /\ \A k \in 1 .. at - 1 : written[k] = code[k] /\ NothingFits(code, k)

WrittenAsRead ==
    status = "written" => file = code /\ at = Len(code) + 1 /\ ~fired

\* What is left of a file which was cut short is a beginning of such a pass.
CutFromRead ==
    status = "cut short" =>
        /\ at = Len(code) + 1 /\ ~fired
        /\ Len(file) <= Len(code)
        /\ \A k \in 1 .. Len(file) : file[k] = code[k]

Unread == status = "unread" => at = 1 /\ ~fired

IInv ==
    /\ TypeOK
    /\ Unread
    /\ IsSequence(source) /\ IsSequence(file) /\ IsSequence(code) /\ IsSequence(written)
    /\ Untouched
    /\ WrittenAsRead
    /\ CutFromRead

LEMMA InitInvariant == Init => IInv
<1> SUFFICES ASSUME Init PROVE IInv
  OBVIOUS
<1>1. IsSequence(source)
  <2>1. source \in Seq([name : STRING, operand : Seq(STRING)])
    BY ProgramsAssumption DEF Init, Codes
  <2>2. QED
    BY <2>1 DEF IsSequence
<1>2. IsSequence(<<>>)
  <2>1. <<>> \in Seq({})
    OBVIOUS
  <2>2. QED
    BY <2>1 DEF IsSequence
<1>3. TypeOK
  <2>1. Len(code) = 0 /\ Len(written) = 0
    BY EmptySeq DEF Init
  <2>2. (IF fired THEN 1 ELSE 0) = 0 /\ fired \in BOOLEAN
    BY DEF Init
  <2>3. at \in 1 .. Len(code) + 1 /\ Len(written) + (IF fired THEN 1 ELSE 0) < at
    BY <2>1, <2>2 DEF Init
  <2>4. QED
    BY <2>2, <2>3 DEF Init, TypeOK
<1>4. Untouched
  BY DEF Init, Untouched
<1>5. QED
  BY <1>1, <1>2, <1>3, <1>4 DEF Init, IInv, Unread, WrittenAsRead, CutFromRead

\* The rules are those of the target, which stays what it is.
LEMMA RulesStay == target' = target => Rules' = Rules
BY DEF Rules

\* The numbers of the state.
LEMMA Numbers ==
    ASSUME IInv
    PROVE  /\ Len(code) \in Nat /\ Len(written) \in Nat /\ Len(file) \in Nat
           /\ at \in Nat /\ at \in 1 .. Len(code) + 1
<1>1. IsSequence(code) /\ IsSequence(written) /\ IsSequence(file)
  BY DEF IInv
<1>2. Len(code) \in Nat /\ Len(written) \in Nat /\ Len(file) \in Nat
  BY <1>1, LenIsNat
<1>3. at \in 1 .. Len(code) + 1
  BY DEF IInv, TypeOK
<1>4. QED
  BY <1>2, <1>3

LEMMA StepInvariant == IInv /\ [Next]_vars => IInv'
<1> SUFFICES ASSUME IInv, [Next]_vars PROVE IInv'
  OBVIOUS
<1>0. /\ Len(code) \in Nat /\ Len(written) \in Nat /\ Len(file) \in Nat
      /\ at \in Nat /\ at \in 1 .. Len(code) + 1
  BY Numbers
<1> USE DEF IInv
<1>1. CASE ReadCode
  BY <1>0, <1>1 DEF ReadCode, TypeOK, Unread, Untouched, WrittenAsRead, CutFromRead
<1>2. CASE CannotRead
  <2>1. Untouched'
    BY <1>0, <1>2 DEF CannotRead, TypeOK, Unread, Untouched
  <2>2. QED
    BY <1>0, <1>2, <2>1 DEF CannotRead, Fail, TypeOK, Unread, WrittenAsRead, CutFromRead
<1>3. CASE KeepLine
  <2> USE DEF KeepLine
  <2>1. /\ IsSequence(written')
        /\ Len(written') = Len(written) + 1
        /\ \A k \in 1 .. Len(written) : written'[k] = written[k]
        /\ written'[Len(written) + 1] = code[at]
    BY <1>3, AppendIsSequence
  <2>2. TypeOK'
    BY <1>0, <1>3, <2>1 DEF TypeOK
  <2>3. Untouched'
    <3> SUFFICES ASSUME ~fired
                 PROVE  /\ Len(written') = at' - 1
                        /\ \A k \in 1 .. at' - 1 :
                                written'[k] = code'[k] /\ NothingFits(code, k)'
      BY <1>3 DEF Untouched
    <3>1. Rules' = Rules /\ code' = code /\ at' = at + 1
      BY <1>3, RulesStay
    <3>2. \A k : NothingFits(code, k)' <=> NothingFits(code, k)
      BY <3>1 DEF NothingFits
    <3>3. \A k \in 1 .. at - 1 : written[k] = code[k] /\ NothingFits(code, k)
      BY DEF Untouched
    <3>4. Len(written) = at - 1
      BY DEF Untouched
    <3>5. NothingFits(code, at)
      BY <1>3
    <3>6. \A k \in 1 .. at' - 1 : k = at \/ k \in 1 .. at - 1
      BY <1>0, <3>1
    <3>7. QED
      BY <1>0, <2>1, <3>1, <3>2, <3>3, <3>4, <3>5, <3>6
  <2>4. QED
    BY <1>3, <2>1, <2>2, <2>3 DEF Unread, WrittenAsRead, CutFromRead
<1>4. CASE Rewrite
  <2>1. PICK n \in 1 .. Len(Rules) : \E parts \in PartsAt(Rules[n], code, at) :
            /\ Matches(Rules[n], code, at, parts)
            /\ written' = written \o Kept(Rules[n], parts)
            /\ at' = at + Len(Rules[n].matched)
    BY <1>4 DEF Rewrite
  <2>2. PICK parts :
            /\ Matches(Rules[n], code, at, parts)
            /\ written' = written \o Kept(Rules[n], parts)
            /\ at' = at + Len(Rules[n].matched)
    BY <2>1
  <2>3. at' = at + 2 /\ at' <= Len(code) + 1
    <3>1. Len(Rules[n].matched) = 2
      BY RulesLeaveFewer
    <3>2. 2 <= Len(code) - at + 1
      BY <2>2, <3>1 DEF Matches
    <3>3. QED
      BY <1>0, <2>2, <3>1, <3>2
  <2>4. IsSequence(written') /\ Len(written') = Len(written) + 1
    BY <2>2, KeptIsOneLine, JoinIsSequence, ZenonT(30)
  <2>5. QED
    BY <1>0, <1>4, <2>3, <2>4 DEF Rewrite, TypeOK, Unread, Untouched, WrittenAsRead, CutFromRead
<1>5. CASE NextPass
  <2> USE DEF NextPass
  <2>1. IsSequence(written') /\ Len(written') = 0 /\ Len(code') \in Nat
    <3>1. <<>> \in Seq({}) /\ Len(<<>>) = 0
      BY EmptySeq
    <3>2. QED
      BY <1>0, <1>5, <3>1 DEF IsSequence
  <2>2. TypeOK'
    <3>1. (IF fired' THEN 1 ELSE 0) = 0 /\ fired' \in BOOLEAN
      BY <1>5
    <3>2. at' \in 1 .. Len(code') + 1 /\ Len(written') + (IF fired' THEN 1 ELSE 0) < at'
      BY <1>5, <2>1, <3>1
    <3>3. QED
      BY <1>5, <3>1, <3>2 DEF TypeOK
  <2>3. Untouched'
    BY <1>5, <2>1 DEF Untouched
  <2>4. QED
    BY <1>5, <2>1, <2>2, <2>3 DEF Unread, WrittenAsRead, CutFromRead
<1>6. CASE WriteBack
  <2>1. ~fired /\ at = Len(code) + 1
    BY <1>0, <1>6 DEF WriteBack, Again, TypeOK
  <2>2. written = code
    BY <1>0, <2>1, SameSequence DEF Untouched
  <2>3. Untouched'
    <3>1. \A k : NothingFits(code, k)' <=> NothingFits(code, k)
      BY <1>6, RulesStay DEF NothingFits, WriteBack
    <3>2. QED
      BY <1>6, <3>1 DEF WriteBack, Untouched
  <2>4. QED
    BY <1>0, <1>6, <2>1, <2>2, <2>3 DEF WriteBack, TypeOK, Unread, WrittenAsRead, CutFromRead
<1>7. CASE CannotWrite
  <2>1. IsSequence(file')
    <3>1. PICK S : written \in Seq(S)
      BY DEF IsSequence
    <3>2. ASSUME NEW n \in 0 .. Len(written) - 1
          PROVE  IsSequence(SubSeq(written, 1, n))
      <4>1. SubSeq(written, 1, n) \in Seq(S)
        BY <1>0, <3>1
      <4>2. QED
        BY <4>1 DEF IsSequence
    <3>3. QED
      BY <1>7, <3>2 DEF CannotWrite, Beginnings
  <2>2. Untouched'
    <3>1. \A k : NothingFits(code, k)' <=> NothingFits(code, k)
      BY <1>7, RulesStay DEF NothingFits, CannotWrite
    <3>2. QED
      BY <1>7, <3>1 DEF CannotWrite, Untouched
  <2>3. QED
    BY <1>0, <1>7, <2>1, <2>2 DEF CannotWrite, Fail, TypeOK, Unread, WrittenAsRead, CutFromRead
<1>8. CASE WriteCutShort
  <2>1. ~fired /\ at = Len(code) + 1
    <3>1. ~fired /\ at > Len(code)
      BY <1>8 DEF WriteCutShort, Again
    <3>2. QED
      BY <1>0, <3>1
  <2>2. written = code
    BY <1>0, <2>1, SameSequence DEF Untouched
  <2>3. PICK n \in 0 .. Len(code) - 1 : file' = SubSeq(code, 1, n)
    BY <1>8, <2>2 DEF WriteCutShort, Beginnings
  <2>4. PICK S : code \in Seq(S)
    BY DEF IsSequence
  <2>5. /\ file' \in Seq(S) /\ Len(file') = n
        /\ \A k \in 1 .. n : file'[k] = code[k]
    BY <1>0, <2>3, <2>4
  <2>6. IsSequence(file')
    BY <2>5 DEF IsSequence
  <2>7. Untouched'
    <3>1. \A k : NothingFits(code, k)' <=> NothingFits(code, k)
      BY <1>8, RulesStay DEF NothingFits, WriteCutShort
    <3>2. QED
      BY <1>8, <3>1 DEF WriteCutShort, Untouched
  <2>8. CutFromRead'
    <3>1. at' = at /\ code' = code /\ fired' = fired
      BY <1>8 DEF WriteCutShort
    <3>2. n <= Len(code) /\ n \in Nat
      BY <1>0
    <3>3. QED
      BY <2>1, <2>5, <3>1, <3>2 DEF CutFromRead
  <2>9. QED
    BY <1>0, <1>8, <2>6, <2>7, <2>8 DEF WriteCutShort, TypeOK, Unread, WrittenAsRead
<1>9. CASE UNCHANGED vars
  <2>1. Untouched'
    <3>1. \A k : NothingFits(code, k)' <=> NothingFits(code, k)
      BY <1>9, RulesStay DEF NothingFits, vars
    <3>2. QED
      BY <1>9, <3>1 DEF vars, Untouched
  <2>2. QED
    BY <1>9, <2>1 DEF vars, TypeOK, Unread, WrittenAsRead, CutFromRead
<1>10. QED
  BY <1>1, <1>2, <1>3, <1>4, <1>5, <1>6, <1>7, <1>8, <1>9 DEF Next

LEMMA Invariant == Spec => []IInv
BY InitInvariant, StepInvariant, PTL DEF Spec

-----------------------------------------------------------------------------
\* Peephole::Optimise(): a pass is never past the line behind the last one, and
\* what it has left is no longer than what it went through.
THEOREM TypeCorrect == Spec => []TypeOK
<1>1. IInv => TypeOK
  BY DEF IInv
<1>2. QED
  BY <1>1, Invariant, PTL

LEMMA Within ==
    ASSUME NEW m \in Nat, NEW n \in Nat, m <= n, NEW k \in 1 .. m,
           NEW next, next = n + 1
    PROVE  k \in 1 .. next - 1
<1>1. next - 1 = n
  OBVIOUS
<1>2. k \in 1 .. n
  OBVIOUS
<1>3. QED
  BY <1>1, <1>2, Zenon

\* A rule which fits in the beginning of some lines fits in the lines.
LEMMA FitsInTheWhole ==
    ASSUME NEW begun, NEW lines, IsSequence(begun), IsSequence(lines),
           Len(begun) <= Len(lines),
           \A k \in 1 .. Len(begun) : begun[k] = lines[k],
           NEW place \in 1 .. Len(begun), NEW n \in 1 .. Len(Rules),
           Fits(Rules[n], begun, place)
    PROVE  Fits(Rules[n], lines, place)
<1> DEFINE rule == Rules[n]
<1>1. Len(rule.matched) = 2
  BY RulesLeaveFewer
<1>2. /\ Len(begun) \in Nat /\ DOMAIN begun = 1 .. Len(begun)
      /\ Len(lines) \in Nat /\ DOMAIN lines = 1 .. Len(lines)
  BY DEF IsSequence
<1> HIDE DEF rule
<1>3. PICK parts \in PartsAt(rule, begun, place) : Matches(rule, begun, place, parts)
  BY DEF Fits, rule
<1>4. 2 <= Len(begun) - place + 1
  BY <1>1, <1>3 DEF Matches
<1>5. Matches(rule, lines, place, parts)
  <2>1. \A k \in 1 .. 2 : begun[place + k - 1] = lines[place + k - 1]
    BY <1>2, <1>4
  <2>2. 2 <= Len(lines) - place + 1
    BY <1>2, <1>4
  <2>3. \A k \in 1 .. 2 : MatchesLine(rule.matched[k], begun[place + k - 1], parts)
    BY <1>1, <1>3 DEF Matches
  <2>4. \A k \in 1 .. 2 : MatchesLine(rule.matched[k], lines[place + k - 1], parts)
    BY <2>1, <2>3
  <2>5. QED
    BY <1>1, <2>2, <2>4 DEF Matches
<1>6. parts \in PartsAt(rule, lines, place)
  <2> DEFINE Among(text) ==
          UNION {Pieces(text[m].operand) :
                     m \in (place .. place + Len(rule.matched) - 1) \cap DOMAIN text}
  <2>1. \A m \in DOMAIN begun : m \in DOMAIN lines /\ begun[m] = lines[m]
    BY <1>2
  <2>2. Among(begun) \subseteq Among(lines)
    BY <2>1
  <2>3. parts \in [Part -> Among(begun)]
    BY <1>3 DEF PartsAt
  <2> HIDE DEF Among
  <2>4. parts \in [Part -> Among(lines)]
    BY <2>2, <2>3
  <2>5. QED
    BY <2>4 DEF Among, PartsAt
<1>7. QED
  BY <1>5, <1>6 DEF Fits, rule

\* Peephole::Optimise(): whatever the code and the machine are, no rule fits
\* what is written back, or as much of it as reached the disk.
THEOREM NothingIsLeft == Spec => []NothingLeftToRewrite
<1>1. IInv => NothingLeftToRewrite
  <2> SUFFICES ASSUME IInv, status \in {"written", "cut short"},
                      NEW place \in 1 .. Len(file)
               PROVE  NothingFits(file, place)
    BY DEF NothingLeftToRewrite
  <2>1. CASE status = "written"
    BY <2>1 DEF IInv, Untouched, WrittenAsRead
  <2>2. CASE status = "cut short"
    <3>1. /\ Len(file) <= Len(code)
          /\ \A k \in 1 .. Len(file) : file[k] = code[k]
          /\ at = Len(code) + 1 /\ ~fired
          /\ Len(file) \in Nat /\ Len(code) \in Nat
      BY <2>2, Numbers DEF IInv, CutFromRead
    <3>2. place \in 1 .. at - 1
      BY <3>1, Within
    <3>3. NothingFits(code, place)
      BY <3>1, <3>2 DEF IInv, Untouched
    <3>4. ASSUME NEW n \in 1 .. Len(Rules), Fits(Rules[n], file, place) PROVE FALSE
      <4>1. Fits(Rules[n], code, place)
        BY <3>1, <3>4, FitsInTheWhole DEF IInv
      <4>2. QED
        BY <3>3, <4>1 DEF NothingFits
    <3>5. QED
      BY <3>4 DEF NothingFits
  <2>3. QED
    BY <2>1, <2>2
<1>2. QED
  BY <1>1, Invariant, PTL

\* Peephole::Optimise(): lines are gone through again only when there are fewer
\* of them than the time before, so the passes come to an end.
FewerEachPass == [][NextPass => Len(code') < Len(code)]_vars

THEOREM PassesGetShorter == Spec => FewerEachPass
<1>1. IInv /\ [Next]_vars => [NextPass => Len(code') < Len(code)]_vars
  <2> SUFFICES ASSUME IInv, NextPass PROVE Len(code') < Len(code)
    OBVIOUS
  <2>1. Len(code) \in Nat /\ Len(written) \in Nat
    BY LenIsNat DEF IInv
  <2>2. QED
    BY <2>1 DEF IInv, TypeOK, NextPass, Again
<1>2. QED
  BY <1>1, Invariant, PTL DEF Spec, FewerEachPass

-----------------------------------------------------------------------------
\* In a pass the code stands in two pieces: what was left of the lines the pass
\* is behind, and the lines it has not come to.
TextOf(left, lines, place) ==
    [k \in 1 .. Len(left) + Len(lines) - place + 1 |->
        IF k <= Len(left) THEN left[k] ELSE lines[k - Len(left) + place - 1]]

LEMMA TextIsText ==
    ASSUME NEW left \in Codes, NEW lines \in Codes, NEW place \in 1 .. Len(lines) + 1
    PROVE  /\ TextOf(left, lines, place) \in Codes
           /\ Len(TextOf(left, lines, place)) = Len(left) + Len(lines) - place + 1
<1> DEFINE Line == [name : STRING, operand : Seq(STRING)]
           text == TextOf(left, lines, place)
           n == Len(left) + Len(lines) - place + 1
<1> HIDE DEF Line
<1>1. left \in Seq(Line) /\ lines \in Seq(Line)
  BY DEF Codes, Line
<1>2. Len(left) \in Nat /\ Len(lines) \in Nat /\ n \in Nat
  BY <1>1
<1>3. ASSUME NEW k \in 1 .. n PROVE text[k] \in Line
  <2>1. CASE k <= Len(left)
    <3>1. k \in 1 .. Len(left) /\ text[k] = left[k]
      BY <1>2, <2>1 DEF TextOf
    <3> HIDE DEF text
    <3>2. QED
      BY <1>1, <3>1, ElementOfSeq
  <2>2. CASE ~(k <= Len(left))
    <3> DEFINE m == k - Len(left) + place - 1
    <3>1. m \in 1 .. Len(lines) /\ text[k] = lines[m]
      BY <1>2, <2>2 DEF TextOf
    <3> HIDE DEF m, text
    <3>2. QED
      BY <1>1, <3>1, ElementOfSeq
  <2>3. QED
    BY <2>1, <2>2
<1>4. text = [k \in 1 .. n |-> text[k]]
  BY DEF TextOf
<1> HIDE DEF text, n
<1>5. text \in [1 .. n -> Line]
  BY <1>3, <1>4
<1>6. text \in Seq(Line) /\ Len(text) = n
  BY <1>2, <1>5
<1>7. QED
  BY <1>6 DEF text, n, Line, Codes

\* Where there is nothing of one of the pieces, it is the other one.
LEMMA TextIsPiece ==
    ASSUME NEW lines \in Codes
    PROVE  /\ TextOf(<<>>, lines, 1) = lines
           /\ \A left \in Codes : TextOf(left, lines, Len(lines) + 1) = left
<1>1. Len(lines) \in Nat /\ Len(<<>>) = 0 /\ <<>> \in Codes
  BY EmptySeq DEF Codes
<1>2. TextOf(<<>>, lines, 1) = lines
  <2> DEFINE text == TextOf(<<>>, lines, 1)
  <2>1. text \in Codes /\ Len(text) = Len(lines)
    BY <1>1, TextIsText
  <2>2. \A k \in 1 .. Len(lines) : text[k] = lines[k]
    BY <1>1 DEF TextOf
  <2> HIDE DEF text
  <2>3. text = lines
    BY <2>1, <2>2, SeqEqual DEF Codes
  <2>4. QED
    BY <2>3 DEF text
<1>3. ASSUME NEW left \in Codes PROVE TextOf(left, lines, Len(lines) + 1) = left
  <2> DEFINE place == Len(lines) + 1
             text == TextOf(left, lines, place)
  <2>1. Len(left) \in Nat /\ place \in 1 .. Len(lines) + 1
    BY <1>1 DEF Codes
  <2>2. text \in Codes /\ Len(text) = Len(left)
    <3>1. Len(left) + Len(lines) - place + 1 = Len(left)
      BY <1>1, <2>1
    <3>2. text \in Codes /\ Len(text) = Len(left) + Len(lines) - place + 1
      BY <2>1, TextIsText
    <3>3. QED
      BY <3>1, <3>2
  <2>3. \A k \in 1 .. Len(left) : text[k] = left[k]
    BY <1>1, <2>1 DEF TextOf
  <2> HIDE DEF text
  <2>4. text = left
    BY <2>2, <2>3, SeqEqual DEF Codes
  <2>5. QED
    BY <2>4 DEF text
<1>4. QED
  BY <1>2, <1>3

LEMMA AppendLine ==
    ASSUME NEW left \in Codes, NEW kept, IsSequence(kept), Len(kept) = 1,
           kept[1] \in [name : STRING, operand : Seq(STRING)]
    PROVE  /\ left \o kept \in Codes
           /\ Len(left \o kept) = Len(left) + 1
           /\ \A k \in 1 .. Len(left) : (left \o kept)[k] = left[k]
           /\ (left \o kept)[Len(left) + 1] = kept[1]
<1> DEFINE Line == [name : STRING, operand : Seq(STRING)]
<1>1. PICK S : kept \in Seq(S)
  BY DEF IsSequence
<1>2. kept = <<kept[1]>>
  BY <1>1, OneLong
<1>3. kept[1] \in Line
  OBVIOUS
<1> HIDE DEF Line
<1>4. kept \in Seq(Line)
  BY <1>2, <1>3, OnePiece
<1>5. left \in Seq(Line) /\ Len(left) \in Nat
  BY DEF Codes, Line
<1>6. /\ left \o kept \in Seq(Line) /\ Len(left \o kept) = Len(left) + Len(kept)
      /\ \A i \in 1 .. Len(left) + Len(kept) : (left \o kept)[i] =
                     IF i <= Len(left) THEN left[i] ELSE kept[i - Len(left)]
  BY <1>4, <1>5, ConcatProperties
<1> DEFINE all == left \o kept
<1> HIDE DEF all
<1>7. /\ all \in Seq(Line) /\ Len(all) = Len(left) + 1
      /\ \A k \in 1 .. Len(left) : all[k] = left[k]
      /\ all[Len(left) + 1] = kept[1]
  BY <1>5, <1>6 DEF all
<1>8. QED
  BY <1>7 DEF all, Line, Codes

\* A line which is kept is only counted to the other piece.
LEMMA TextKept ==
    ASSUME NEW left \in Codes, NEW lines \in Codes, NEW place \in 1 .. Len(lines),
           NEW more \in Codes, Len(more) = Len(left) + 1,
           \A k \in 1 .. Len(left) : more[k] = left[k],
           more[Len(left) + 1] = lines[place]
    PROVE  TextOf(more, lines, place + 1) = TextOf(left, lines, place)
<1> DEFINE a == TextOf(more, lines, place + 1)
           b == TextOf(left, lines, place)
           n == Len(left) + Len(lines) - place + 1
<1>1. Len(left) \in Nat /\ Len(lines) \in Nat /\ place + 1 \in 1 .. Len(lines) + 1
      /\ place \in 1 .. Len(lines) + 1 /\ n \in Nat
      /\ Len(more) + Len(lines) - (place + 1) + 1 = n
  BY DEF Codes
<1>2. a \in Codes /\ Len(a) = n /\ b \in Codes /\ Len(b) = n
  BY <1>1, TextIsText
<1>3. ASSUME NEW k \in 1 .. n PROVE a[k] = b[k]
  <2>1. /\ a[k] = IF k <= Len(more) THEN more[k] ELSE lines[k - Len(more) + (place + 1) - 1]
        /\ b[k] = IF k <= Len(left) THEN left[k] ELSE lines[k - Len(left) + place - 1]
    BY <1>1 DEF TextOf
  <2> HIDE DEF a, b
  <2>2. CASE k <= Len(left)
    BY <1>1, <2>1, <2>2
  <2>3. CASE k = Len(left) + 1
    <3>1. k - Len(left) + place - 1 = place
      BY <1>1, <2>3
    <3>2. QED
      BY <1>1, <2>1, <2>3, <3>1
  <2>4. CASE k > Len(left) + 1
    <3>1. k - Len(more) + (place + 1) - 1 = k - Len(left) + place - 1
      BY <1>1
    <3>2. QED
      BY <1>1, <2>1, <2>4, <3>1
  <2>5. QED
    BY <1>1, <2>2, <2>3, <2>4
<1> HIDE DEF a, b, n
<1>4. a = b
  BY <1>2, <1>3, SeqEqual DEF Codes
<1>5. QED
  BY <1>4 DEF a, b

\* Two lines of which one is kept are the code without the other.
LEMMA TextShortened ==
    ASSUME NEW left \in Codes, NEW lines \in Codes, NEW place \in 1 .. Len(lines),
           place + 1 <= Len(lines),
           NEW more \in Codes, Len(more) = Len(left) + 1,
           \A k \in 1 .. Len(left) : more[k] = left[k],
           NEW d, \/ d = Len(left) + 1 /\ more[Len(left) + 1] = lines[place + 1]
                  \/ d = Len(left) + 2 /\ more[Len(left) + 1] = lines[place]
    PROVE  TextOf(more, lines, place + 2) = Without(TextOf(left, lines, place), d)
<1> DEFINE a == TextOf(more, lines, place + 2)
           b == TextOf(left, lines, place)
           c == Without(b, d)
           n == Len(left) + Len(lines) - place
<1>1. Len(left) \in Nat /\ Len(lines) \in Nat /\ place + 2 \in 1 .. Len(lines) + 1
      /\ place \in 1 .. Len(lines) + 1 /\ n \in Nat /\ d \in 1 .. n + 1 /\ d \in Nat
      /\ Len(more) + Len(lines) - (place + 2) + 1 = n
      /\ Len(left) + Len(lines) - place + 1 = n + 1
  BY DEF Codes
<1>2. a \in Codes /\ Len(a) = n /\ b \in Codes /\ Len(b) = n + 1
  BY <1>1, TextIsText
<1>3. c \in Codes /\ Len(c) = n
  <2> HIDE DEF b, n
  <2>1. d \in 1 .. Len(b) /\ Len(b) - 1 = n
    BY <1>1, <1>2
  <2>2. Without(b, d) \in Codes /\ Len(Without(b, d)) = Len(b) - 1
    BY <1>2, <2>1, WithoutIsCode
  <2>3. QED
    BY <2>1, <2>2
<1>4. ASSUME NEW k \in 1 .. n PROVE a[k] = c[k]
  <2>1. a[k] = IF k <= Len(more) THEN more[k] ELSE lines[k - Len(more) + (place + 2) - 1]
    BY <1>1 DEF TextOf
  <2>2. \A m \in 1 .. n + 1 :
            b[m] = IF m <= Len(left) THEN left[m] ELSE lines[m - Len(left) + place - 1]
    BY <1>1 DEF TextOf
  <2>3. c[k] = IF k < d THEN b[k] ELSE b[k + 1]
    <3> HIDE DEF b
    <3>1. QED
      BY <1>1, <1>2 DEF Without
  <2> HIDE DEF a, b, c
  <2>4. CASE k <= Len(left)
    <3>1. k < d /\ k \in 1 .. n + 1 /\ k <= Len(more) /\ k \in 1 .. Len(left)
      BY <1>1, <2>4
    <3>2. a[k] = more[k] /\ c[k] = b[k] /\ b[k] = left[k]
      BY <2>1, <2>2, <2>3, <2>4, <3>1
    <3>3. QED
      BY <3>1, <3>2
  <2>5. CASE k = Len(left) + 1 /\ d = Len(left) + 1
    <3>1. c[k] = b[k + 1] /\ k + 1 \in 1 .. n + 1 /\ ~(k + 1 <= Len(left))
          /\ k + 1 - Len(left) + place - 1 = place + 1
      BY <1>1, <2>3, <2>5
    <3>2. c[k] = lines[place + 1]
      BY <2>2, <3>1
    <3>3. QED
      BY <1>1, <2>1, <2>5, <3>2
  <2>6. CASE k = Len(left) + 1 /\ d = Len(left) + 2
    <3>1. c[k] = b[k] /\ k \in 1 .. n + 1 /\ ~(k <= Len(left))
          /\ k - Len(left) + place - 1 = place
      BY <1>1, <2>3, <2>6
    <3>2. c[k] = lines[place]
      BY <2>2, <3>1
    <3>3. QED
      BY <1>1, <2>1, <2>6, <3>2
  <2>7. CASE k > Len(left) + 1
    <3>1. c[k] = b[k + 1] /\ k + 1 \in 1 .. n + 1 /\ ~(k + 1 <= Len(left))
      BY <1>1, <2>3, <2>7, SMTT(30)
    <3>2. c[k] = lines[k + 1 - Len(left) + place - 1]
      BY <2>2, <3>1, SMTT(30)
    <3>3. k - Len(more) + (place + 2) - 1 = k + 1 - Len(left) + place - 1
      BY <1>1
    <3>4. QED
      BY <1>1, <2>1, <2>7, <3>2, <3>3
  <2>8. d = Len(left) + 1 \/ d = Len(left) + 2
    OBVIOUS
  <2>9. k <= Len(left) \/ k = Len(left) + 1 \/ k > Len(left) + 1
    BY <1>1
  <2>10. QED
    BY <2>4, <2>5, <2>6, <2>7, <2>8, <2>9
<1> HIDE DEF a, c, n
<1>5. a = c
  BY <1>2, <1>3, <1>4, SeqEqual DEF Codes
<1>6. QED
  BY <1>5 DEF a, c

\* The load of what was stored is left out, or the jump before the line which is
\* kept.
LEMMA LoadTakenOut ==
    ASSUME NEW left \in Codes, NEW lines \in Codes, NEW place \in 1 .. Len(lines),
           place + 1 <= Len(lines),
           NEW more \in Codes, Len(more) = Len(left) + 1,
           \A k \in 1 .. Len(left) : more[k] = left[k],
           more[Len(left) + 1] = lines[place]
    PROVE  TextOf(more, lines, place + 2) = Without(TextOf(left, lines, place), Len(left) + 2)
BY TextShortened

LEMMA JumpTakenOut ==
    ASSUME NEW left \in Codes, NEW lines \in Codes, NEW place \in 1 .. Len(lines),
           place + 1 <= Len(lines),
           NEW more \in Codes, Len(more) = Len(left) + 1,
           \A k \in 1 .. Len(left) : more[k] = left[k],
           more[Len(left) + 1] = lines[place + 1]
    PROVE  TextOf(more, lines, place + 2) = Without(TextOf(left, lines, place), Len(left) + 1)
BY TextShortened

-----------------------------------------------------------------------------
\* What is made of the source keeps its runs.
Keeps(lines) ==
    /\ WellWritten(lines)
    /\ Len(lines) <= Len(source)
    /\ \A answers \in [1 .. Tested -> BOOLEAN] :
            Equivalent(source, lines, answers) /\ BytesAlone(lines, answers)

TextInv ==
    /\ code \in Codes /\ written \in Codes
    /\ status = "unread" => Keeps(file) /\ written = <<>>
    /\ status = "passing" => Keeps(TextOf(written, code, at))
    /\ status = "written" => Keeps(file)

\* Whenever a run of a code comes to a line which stores a byte, nothing stands
\* above the byte in the register.
BytesAreAlone ==
    \A machine \in Targets : \A one \in Programs[machine] :
        \A answers \in [1 .. Tested -> BOOLEAN] : BytesAlone(one, answers)

LEMMA RemovalKeeps ==
    ASSUME NEW lines, NEW d, NEW gap, Keeps(lines), Removable(lines, d, gap)
    PROVE  Keeps(Without(lines, d))
<1>1. WellWritten(lines) /\ lines \in Codes /\ d \in 1 .. Len(lines)
  BY DEF Keeps, WellWritten, Removable
<1>2. WellWritten(Without(lines, d))
  BY <1>1, RemovableLeaves, WithoutIsWritten
<1>3. Len(Without(lines, d)) = Len(lines) - 1
  BY <1>1, WithoutIsCode
<1>4. Len(Without(lines, d)) <= Len(source)
  <2>1. Len(lines) \in Nat /\ Len(lines) <= Len(source)
    BY <1>1 DEF Codes, Keeps
  <2>2. source = source => Len(lines) - 1 <= Len(source)
    BY <1>1, <2>1
  <2>3. QED
    BY <1>3, <2>2
<1>5. ASSUME NEW answers \in [1 .. Tested -> BOOLEAN]
      PROVE  /\ Equivalent(source, Without(lines, d), answers)
             /\ BytesAlone(Without(lines, d), answers)
  <2>1. Equivalent(source, lines, answers) /\ BytesAlone(lines, answers)
    BY DEF Keeps
  <2>2. /\ Equivalent(lines, Without(lines, d), answers)
        /\ BytesAlone(Without(lines, d), answers)
    BY <1>1, <2>1, RemovalIsEquivalent
  <2>3. QED
    BY <2>1, <2>2, EquivalentToTheLast
<1>6. QED
  BY <1>2, <1>4, <1>5 DEF Keeps

LEMMA InitText == ASSUME BytesAreAlone PROVE Init => TextInv
<1> SUFFICES ASSUME Init PROVE TextInv
  OBVIOUS
<1>1. target \in Targets /\ source \in Programs[target] /\ file = source
  BY DEF Init
<1>2. WellWritten(source)
  BY <1>1, ProgramsAssumption
<1>3. Len(source) \in Nat
  BY <1>2 DEF WellWritten, Codes
<1>4. Keeps(source)
  <2>1. \A answers \in [1 .. Tested -> BOOLEAN] : BytesAlone(source, answers)
    BY <1>1 DEF BytesAreAlone
  <2>2. QED
    BY <1>2, <1>3, <2>1, EquivalentToItself DEF Keeps
<1>5. <<>> \in Codes
  BY EmptySeq DEF Codes
<1>6. QED
  BY <1>1, <1>4, <1>5 DEF Init, TextInv

LEMMA StepText == IInv /\ TextInv /\ [Next]_vars => TextInv'
<1> SUFFICES ASSUME IInv, TextInv, [Next]_vars PROVE TextInv'
  OBVIOUS
<1>1. /\ Len(code) \in Nat /\ Len(written) \in Nat /\ at \in 1 .. Len(code) + 1
      /\ code \in Codes /\ written \in Codes
  BY Numbers DEF TextInv
<1>2. CASE ReadCode
  <2>1. /\ code' = file /\ at' = 1 /\ written' = <<>> /\ file \in Codes /\ source' = source
        /\ status' = "passing" /\ Keeps(file)
    BY <1>2 DEF ReadCode, TextInv, IInv, Unread, Keeps, WellWritten
  <2>2. TextOf(written', code', at') = file /\ <<>> \in Codes
    <3>1. TextOf(<<>>, file, 1) = file
      BY <2>1, TextIsPiece
    <3>2. <<>> \in Codes
      BY EmptySeq DEF Codes
    <3>3. QED
      BY <2>1, <3>1, <3>2
  <2>3. Keeps(file)'
    BY <1>2, <2>1 DEF Keeps, ReadCode
  <2>4. Keeps(TextOf(written, code, at))'
    BY <2>1, <2>2 DEF Keeps
  <2>5. QED
    BY <2>1, <2>2, <2>4 DEF TextInv
<1>3. CASE CannotRead
  BY <1>1, <1>3 DEF CannotRead, Fail, TextInv
<1>4. CASE KeepLine
  <2>1. /\ written' = Append(written, code[at]) /\ at' = at + 1 /\ code' = code
        /\ source' = source /\ at \in 1 .. Len(code) /\ Keeps(TextOf(written, code, at))
        /\ status' = "passing"
    BY <1>1, <1>4 DEF KeepLine, TextInv
  <2>2. code[at] \in [name : STRING, operand : Seq(STRING)]
    BY <1>1, <2>1, ElementOfSeq DEF Codes
  <2>3. /\ written' \in Codes /\ Len(written') = Len(written) + 1
        /\ \A k \in 1 .. Len(written) : written'[k] = written[k]
        /\ written'[Len(written) + 1] = code[at]
    <3> DEFINE Line == [name : STRING, operand : Seq(STRING)]
    <3>1. written \in Seq(Line) /\ code[at] \in Line
      BY <1>1, <2>2 DEF Codes
    <3> HIDE DEF Line
    <3>2. written' \in Seq(Line)
      BY <2>1, <3>1
    <3>3. /\ IsSequence(written)
      BY <3>1 DEF IsSequence
    <3>4. QED
      BY <2>1, <3>2, <3>3, AppendIsSequence DEF Codes, Line
  <2>4. TextOf(written', code', at') = TextOf(written, code, at)
    BY <1>1, <2>1, <2>3, TextKept, ZenonT(30)
  <2>5. Keeps(TextOf(written, code, at))'
    BY <2>1, <2>4 DEF Keeps
  <2>6. QED
    BY <1>1, <2>1, <2>3, <2>5 DEF TextInv
<1>5. CASE Rewrite
  <2>1. PICK n \in 1 .. Len(Rules) : \E parts \in PartsAt(Rules[n], code, at) :
            /\ Matches(Rules[n], code, at, parts)
            /\ written' = written \o Kept(Rules[n], parts)
            /\ at' = at + Len(Rules[n].matched)
    BY <1>5 DEF Rewrite
  <2>2. PICK parts \in PartsAt(Rules[n], code, at) :
            /\ Matches(Rules[n], code, at, parts)
            /\ written' = written \o Kept(Rules[n], parts)
            /\ at' = at + Len(Rules[n].matched)
    BY <2>1
  <2> DEFINE text == TextOf(written, code, at)
             kept == Kept(Rules[n], parts)
             w == Len(written)
  <2>3. /\ Keeps(text) /\ source' = source /\ code' = code /\ at \in 1 .. Len(code)
        /\ at' = at + 2 /\ status' = "passing"
    <3>1. Len(Rules[n].matched) = 2
      BY RulesLeaveFewer
    <3>2. at' = at + 2
      BY <2>2, <3>1
    <3>3. QED
      BY <1>1, <1>5, <3>2 DEF Rewrite, TextInv
  <2>4. text \in Codes /\ Len(text) = w + Len(code) - at + 1 /\ w \in Nat
    BY <1>1, TextIsText
  <2>5. text[w + 1] = code[at] /\ WellFormed(code[at])
    <3>1. w + 1 \in 1 .. w + Len(code) - at + 1 /\ ~(w + 1 <= w) /\ (w + 1) - w + at - 1 = at
      BY <1>1, <2>3
    <3>2. text[w + 1] = code[at]
      BY <3>1 DEF TextOf
    <3> HIDE DEF text, w
    <3>3. QED
      BY <2>3, <2>4, <3>1, <3>2 DEF Keeps, WellWritten
  <2>6. at + 1 <= Len(code) /\ Removed(code[at], code[at + 1], kept[1])
    BY <1>1, <2>2, <2>3, <2>5, RuleRemoves
  <2>7. text[w + 2] = code[at + 1]
    <3>1. w + 2 \in 1 .. w + Len(code) - at + 1 /\ ~(w + 2 <= w) /\ (w + 2) - w + at - 1 = at + 1
      BY <1>1, <2>3, <2>6
    <3>2. QED
      BY <3>1 DEF TextOf
  <2>8. kept[1] \in [name : STRING, operand : Seq(STRING)]
    <3>1. kept[1] = code[at] \/ kept[1] = code[at + 1]
      BY <2>6 DEF Removed, LoadRemoved, JumpRemoved
    <3>2. at + 1 \in 1 .. Len(code)
      BY <1>1, <2>3, <2>6
    <3> HIDE DEF kept
    <3>3. QED
      BY <1>1, <2>3, <3>1, <3>2, ElementOfSeq DEF Codes
  <2>9. /\ written' \in Codes /\ Len(written') = w + 1
        /\ \A k \in 1 .. w : written'[k] = written[k]
        /\ written'[w + 1] = kept[1]
    <3>1. IsSequence(kept) /\ Len(kept) = 1
      BY KeptIsOneLine
    <3> HIDE DEF kept
    <3>2. QED
      BY <1>1, <2>2, <2>8, <3>1, AppendLine DEF kept
  <2> HIDE DEF text, kept, w
  <2>10. \E d, gap : /\ Removable(text, d, gap)
                     /\ TextOf(written', code', at') = Without(text, d)
    <3>1. Len(text) >= w + 2
      BY <1>1, <2>3, <2>4, <2>6
    <3>2. CASE LoadRemoved(code[at], code[at + 1], kept[1])
      <4>1. w + 2 > 1 /\ (w + 2) - 1 = w + 1 /\ w + 2 \in 1 .. Len(text)
        BY <2>4, <3>1
      <4>2. Removable(text, w + 2, w + 2)
        BY <2>5, <2>7, <3>2, <4>1 DEF Removable, Loaded, LoadRemoved
      <4>3. written'[w + 1] = code[at]
        BY <2>9, <3>2 DEF LoadRemoved
      <4>4. TextOf(written', code, at + 2) = Without(text, w + 2)
        BY <1>1, <2>3, <2>6, <2>9, <4>3, LoadTakenOut DEF text, w
      <4>5. QED
        BY <2>3, <4>2, <4>4
    <3>3. CASE JumpRemoved(code[at], code[at + 1], kept[1])
      <4>1. w + 1 < Len(text) /\ (w + 1) + 1 = w + 2 /\ w + 1 \in 1 .. Len(text)
        BY <2>4, <3>1
      <4>2. Removable(text, w + 1, w + 2)
        BY <2>5, <2>7, <3>3, <4>1 DEF Removable, JumpsOn, JumpRemoved
      <4>3. written'[w + 1] = code[at + 1]
        BY <2>9, <3>3 DEF JumpRemoved
      <4>4. TextOf(written', code, at + 2) = Without(text, w + 1)
        BY <1>1, <2>3, <2>6, <2>9, <4>3, JumpTakenOut DEF text, w
      <4>5. QED
        BY <2>3, <4>2, <4>4
    <3>4. QED
      BY <2>6, <3>2, <3>3 DEF Removed
  <2>11. Keeps(TextOf(written', code', at'))
    BY <2>3, <2>10, RemovalKeeps
  <2>12. Keeps(TextOf(written, code, at))'
    BY <2>3, <2>11 DEF Keeps
  <2>13. QED
    BY <1>1, <2>3, <2>9, <2>12 DEF TextInv
<1>6. CASE NextPass
  <2>1. /\ code' = written /\ written' = <<>> /\ at' = 1 /\ source' = source
        /\ status' = "passing" /\ at = Len(code) + 1 /\ Keeps(TextOf(written, code, at))
    BY <1>1, <1>6 DEF NextPass, TextInv
  <2>2. /\ TextOf(written, code, Len(code) + 1) = written
        /\ TextOf(<<>>, written, 1) = written
    BY <1>1, TextIsPiece
  <2>3. TextOf(written', code', at') = TextOf(written, code, at)
    BY <2>1, <2>2
  <2>4. Keeps(TextOf(written, code, at))'
    BY <2>1, <2>3 DEF Keeps
  <2>5. written' \in Codes
    BY <2>1, EmptySeq DEF Codes
  <2>6. QED
    BY <1>1, <2>1, <2>4, <2>5 DEF TextInv
<1>7. CASE WriteBack
  <2>1. /\ file' = written /\ source' = source /\ status' = "written"
        /\ code' = code /\ written' = written
        /\ at = Len(code) + 1 /\ Keeps(TextOf(written, code, at))
    BY <1>1, <1>7 DEF WriteBack, TextInv
  <2>2. TextOf(written, code, Len(code) + 1) = written
    BY <1>1, TextIsPiece
  <2>3. Keeps(file)'
    BY <2>1, <2>2 DEF Keeps
  <2>4. QED
    BY <1>1, <2>1, <2>3 DEF TextInv
<1>8. CASE CannotWrite
  BY <1>1, <1>8 DEF CannotWrite, Fail, TextInv
<1>9. CASE WriteCutShort
  BY <1>1, <1>9 DEF WriteCutShort, TextInv
<1>10. CASE UNCHANGED vars
  BY <1>1, <1>10 DEF vars, TextInv, Keeps
<1>11. QED
  BY <1>2, <1>3, <1>4, <1>5, <1>6, <1>7, <1>8, <1>9, <1>10 DEF Next

LEMMA StepsSuffice ==
    ASSUME NEW t \in Nat, NEW s \in Nat, NEW f \in Nat, f <= s
    PROVE  (t + 2) * (s + 1) \in Nat /\ (t + 2) * (s + 1) >= f * (t + 1)
<1>1. f * (t + 1) <= s * (t + 1)
  OBVIOUS
<1>2. (t + 2) * (s + 1) = s * (t + 1) + (t + s + 2)
  OBVIOUS
<1>3. (t + 2) * (s + 1) \in Nat /\ s * (t + 1) \in Nat /\ f * (t + 1) \in Nat
  OBVIOUS
<1>4. QED
  BY <1>1, <1>2, <1>3

\* Peephole::Optimise(): whatever the code and however its tests come out, the
\* code which is written back ends where it did, asked what it asked and leaves
\* what it left, as long as a byte stands alone in the register it is stored from.
THEOREM RewritingKeepsRuns ==
    ASSUME BytesAreAlone
    PROVE  Spec => []RunsAlike
<1>1. Init => TextInv
  BY InitText
<1>2. IInv /\ TextInv => RunsAlike
  <2> SUFFICES ASSUME IInv, TextInv, status = "written",
                      NEW answers \in [1 .. Tested -> BOOLEAN]
               PROVE  Alike(source, file, answers, (Tested + 2) * (Len(source) + 1))
    BY DEF RunsAlike
  <2>1. Keeps(file)
    BY DEF TextInv
  <2>2. WellWritten(source) /\ WellWritten(file) /\ Len(file) <= Len(source)
        /\ Equivalent(source, file, answers)
    <3>1. source \in Programs[target] /\ target \in Targets
      BY DEF IInv, TypeOK
    <3>2. WellWritten(source)
      BY <3>1, ProgramsAssumption
    <3>3. QED
      BY <2>1, <3>2 DEF Keeps
  <2>3. Len(source) \in Nat /\ Len(file) \in Nat
    BY LenIsNat DEF IInv
  <2>4. Len(answers) = Tested /\ Tested \in Nat
    BY TestedAssumption
  <2> DEFINE steps == (Tested + 2) * (Len(source) + 1)
  <2>5. steps \in Nat /\ steps >= Len(source) * (Tested + 1)
        /\ steps >= Len(file) * (Tested + 1)
    BY <2>2, <2>3, <2>4, StepsSuffice
  <2> HIDE DEF steps
  <2>6. Alike(source, file, answers, steps)
    BY <2>2, <2>4, <2>5, EquivalentIsAlike
  <2>7. QED
    BY <2>6 DEF steps
<1>3. QED
  BY <1>1, <1>2, Invariant, StepText, PTL DEF Spec

\* Code which writes to the places of a char by the moves of a byte only is such
\* code.
THEOREM BytePlacesSuffice ==
    ASSUME \A machine \in Targets : \A one \in Programs[machine] :
               \A k \in 1 .. Len(one) : OnlyBytes(one[k])
    PROVE  BytesAreAlone
<1> SUFFICES ASSUME NEW machine \in Targets, NEW one \in Programs[machine],
                    NEW answers \in [1 .. Tested -> BOOLEAN]
             PROVE  BytesAlone(one, answers)
  BY DEF BytesAreAlone
<1>1. WellWritten(one)
  BY ProgramsAssumption
<1>2. QED
  BY <1>1, OnlyBytesAreAlone

=============================================================================
