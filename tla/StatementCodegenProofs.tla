----------------------- MODULE StatementCodegenProofs -----------------------
(***************************************************************************)
(* That the labels of a program are right, and that its code does what its *)
(* statements say, for programs of any functions.                          *)
(*                                                                         *)
(* For the labels, the code and what is pending are looked at as one text: *)
(* writing an instruction leaves it as it is, and a call of GenStatement   *)
(* puts down new labels in the place of one item which is none.            *)
(*                                                                         *)
(* For what the code does, every place in that text is given the sequences *)
(* of statements which may be left to do there.  They flow from an item to *)
(* the one behind it and to the labels it names, and go on doing so while  *)
(* the text is written; the machine then stands where what is left to do   *)
(* is one of them.                                                         *)
(***************************************************************************)
EXTENDS StatementMachine, FiniteSetTheorems, SequenceTheorems, WellFoundedInduction, TLAPS

-----------------------------------------------------------------------------
(***************************************************************************)
(* The items.                                                              *)
(***************************************************************************)
Events == {root.event : root \in Statements}

Items ==
    [op : {"statement"}, root : Statements, leaves : Nat, again : Nat]
    \cup [op : {"label", "jump", "set break", "set continue"}, label : Nat]
    \cup [op : {"event"}, event : Events]
    \cup [op : {"test", "goto"}, event : Events, label : Nat]
    \cup [op : {"switch"}, event : Events, answers : Int]
    \cup [op : {"case"}, value : Nat, label : Nat]
    \cup [op : {"preamble"}, function : Nat]
    \cup [op : {"postamble"}]

Targeted == {"label", "jump", "set break", "set continue", "test", "goto", "case"}

LEMMA ItemIs ==
    ASSUME NEW x \in Items
    PROVE  /\ x.op = "statement" => x.root \in Statements /\ x.leaves \in Nat /\ x.again \in Nat
           /\ x.op \in Targeted => x.label \in Nat
           /\ x.op = "label" => x = EmitLabel(x.label)
           /\ x.op \in Instructions \cup {"statement", "set break", "set continue", "postamble"}
  BY Zenon DEF Items, Targeted, EmitLabel, Instructions

LEMMA ItemsMade ==
    /\ \A root \in Statements, leaves, again \in Nat : Call(root, leaves, again) \in Items
    /\ \A l \in Nat : /\ EmitLabel(l) \in Items /\ EmitJump(l) \in Items
                      /\ SetBreak(l) \in Items /\ SetContinue(l) \in Items
    /\ \A root \in Statements : GenEvent(root.event) \in Items
    /\ \A root \in Statements, l \in Nat : GenCondition(root.event, l) \in Items
    /\ \A root \in Statements, l \in Nat :
           [op |-> "goto", event |-> root.event, label |-> l] \in Items
    /\ \A root \in Statements, n \in Int :
           [op |-> "switch", event |-> root.event, answers |-> n] \in Items
    /\ \A k, l \in Nat : JumpIfEqual(k, l) \in Items
    /\ \A k \in Nat : EmitFunctionPreamble(k) \in Items
    /\ EmitFunctionPostamble \in Items
  BY Zenon DEF Items, Events, Call, EmitLabel, EmitJump, SetBreak, SetContinue, GenEvent,
         GenCondition, JumpIfEqual, EmitFunctionPreamble, EmitFunctionPostamble

LEMMA StatementIs ==
    ASSUME NEW root \in Statements
    PROVE  IsStatement(root, Statements)
  BY StatementsAssumption DEF AreStatements

-----------------------------------------------------------------------------
(***************************************************************************)
(* Texts: the labels in them, each once, and texts in which some items     *)
(* stand in the place of one.                                              *)
(***************************************************************************)
LabelsOf(text) == {l \in Nat : \E k \in 1 .. Len(text) : text[k] = EmitLabel(l)}

Once(text) ==
    \A j, k \in 1 .. Len(text) :
        text[j].op = "label" /\ text[k].op = "label" /\ text[j].label = text[k].label => j = k

\* `new` has the items in the place of the `o` ones of `old` behind the first `a`.
Put(old, new, a, o, items) ==
    /\ a \in 0 .. Len(old) /\ o \in 0 .. Len(old) - a
    /\ Len(new) = Len(old) + Len(items) - o
    /\ \A k \in 1 .. Len(new) :
           new[k] = IF k <= a THEN old[k]
                    ELSE IF k <= a + Len(items) THEN items[k - a]
                    ELSE old[k - Len(items) + o]

LEMMA LabelIn ==
    ASSUME NEW text \in Seq(Items), NEW k \in 1 .. Len(text), text[k].op = "label"
    PROVE  text[k].label \in LabelsOf(text) /\ text[k].label \in Nat
<1>1. text[k] \in Items
  OBVIOUS
<1>2. text[k].label \in Nat /\ text[k] = EmitLabel(text[k].label)
  BY <1>1, ItemIs DEF Targeted
<1>3. QED
  BY <1>2 DEF LabelsOf

LEMMA LabelsPut ==
    ASSUME NEW old \in Seq(Items), NEW new \in Seq(Items), NEW items \in Seq(Items),
           NEW a, NEW o, Put(old, new, a, o, items),
           \A k \in a + 1 .. a + o : old[k].op # "label"
    PROVE  LabelsOf(new) = LabelsOf(old) \cup LabelsOf(items)
<1> DEFINE n == Len(old)
           m == Len(items)
<1>1. /\ n \in Nat /\ m \in Nat /\ a \in 0 .. n /\ o \in 0 .. n - a /\ Len(new) = n + m - o
      /\ \A k \in 1 .. Len(new) :
             new[k] = IF k <= a THEN old[k] ELSE IF k <= a + m THEN items[k - a]
                      ELSE old[k - m + o]
  BY DEF Put
<1> HIDE DEF n, m
<1>2. ASSUME NEW l \in LabelsOf(new)
      PROVE  l \in LabelsOf(old) \cup LabelsOf(items)
  <2>1. PICK k \in 1 .. Len(new) : new[k] = EmitLabel(l)
    BY DEF LabelsOf
  <2>0. l \in Nat /\ k \in Nat /\ k >= 1 /\ k <= n + m - o
    BY <1>1 DEF LabelsOf
  <2>2. CASE k <= a
    <3>1. k \in 1 .. n /\ old[k] = EmitLabel(l)
      BY <1>1, <2>0, <2>1, <2>2
    <3>2. QED
      BY <2>0, <3>1 DEF LabelsOf, n
  <2>3. CASE k > a /\ k <= a + m
    <3>1. k - a \in 1 .. m /\ items[k - a] = EmitLabel(l)
      BY <1>1, <2>1, <2>3
    <3>2. QED
      BY <3>1 DEF LabelsOf, m
  <2>4. CASE k > a + m
    <3>1. k - m + o \in 1 .. n
      BY <1>1, <2>0, <2>4
    <3>2. old[k - m + o] = new[k]
      BY <1>1, <2>0, <2>4
    <3>3. QED
      BY <2>0, <2>1, <3>1, <3>2 DEF LabelsOf, n
  <2>5. QED
    BY <1>1, <2>2, <2>3, <2>4
<1>3. ASSUME NEW l \in LabelsOf(items)
      PROVE  l \in LabelsOf(new)
  <2>1. PICK k \in 1 .. m : items[k] = EmitLabel(l)
    BY DEF LabelsOf, m
  <2>2. a + k \in 1 .. Len(new) /\ ~(a + k <= a) /\ a + k <= a + m /\ (a + k) - a = k
    BY <1>1
  <2>3. new[a + k] = EmitLabel(l)
    BY <1>1, <2>1, <2>2
  <2>4. QED
    BY <2>2, <2>3 DEF LabelsOf
<1>4. ASSUME NEW l \in LabelsOf(old)
      PROVE  l \in LabelsOf(new)
  <2>1. PICK k \in 1 .. n : old[k] = EmitLabel(l)
    BY DEF LabelsOf, n
  <2>2. k \notin a + 1 .. a + o
    BY <2>1 DEF EmitLabel
  <2>3. CASE k <= a
    <3>1. k \in 1 .. Len(new) /\ new[k] = EmitLabel(l)
      BY <1>1, <2>1, <2>3
    <3>2. QED
      BY <3>1 DEF LabelsOf
  <2>4. CASE k > a + o
    <3>1. k + m - o \in 1 .. Len(new) /\ ~(k + m - o <= a + m) /\ ~(k + m - o <= a)
          /\ (k + m - o) - m + o = k
      BY <1>1, <2>4
    <3>2. new[k + m - o] = EmitLabel(l)
      BY <1>1, <2>1, <3>1
    <3>3. QED
      BY <3>1, <3>2 DEF LabelsOf
  <2>5. QED
    BY <1>1, <2>2, <2>3, <2>4
<1>5. QED
  BY <1>2, <1>3, <1>4

LEMMA OncePut ==
    ASSUME NEW old \in Seq(Items), NEW new \in Seq(Items), NEW items \in Seq(Items),
           NEW a, NEW o, Put(old, new, a, o, items),
           Once(old), Once(items), LabelsOf(old) \cap LabelsOf(items) = {}
    PROVE  Once(new)
<1> DEFINE n == Len(old)
           m == Len(items)
           From(k) == IF k <= a THEN k ELSE k - m + o
           Kept(k) == k <= a \/ k > a + m
<1>1. /\ n \in Nat /\ m \in Nat /\ a \in 0 .. n /\ o \in 0 .. n - a /\ Len(new) = n + m - o
      /\ \A k \in 1 .. Len(new) :
             new[k] = IF k <= a THEN old[k] ELSE IF k <= a + m THEN items[k - a]
                      ELSE old[k - m + o]
  BY DEF Put
<1> HIDE DEF n, m
<1>2. ASSUME NEW k \in 1 .. Len(new), Kept(k)
      PROVE  From(k) \in 1 .. n /\ new[k] = old[From(k)]
  BY <1>1, <1>2
<1>3. ASSUME NEW k \in 1 .. Len(new), ~Kept(k)
      PROVE  k - a \in 1 .. m /\ new[k] = items[k - a]
  BY <1>1, <1>3
<1>4. ASSUME NEW j \in 1 .. Len(new), NEW k \in 1 .. Len(new), Kept(j), Kept(k),
             From(j) = From(k)
      PROVE  j = k
  BY <1>1, <1>4
<1>5. ASSUME NEW j \in 1 .. Len(new), NEW k \in 1 .. Len(new), ~Kept(j), ~Kept(k), j - a = k - a
      PROVE  j = k
  BY <1>1, <1>5
<1> HIDE DEF From, Kept
<1>6. ASSUME NEW j \in 1 .. Len(new), NEW k \in 1 .. Len(new), Kept(j), ~Kept(k),
             new[j].op = "label", new[k].op = "label"
      PROVE  new[j].label # new[k].label
  <2>1. new[j].label \in LabelsOf(old)
    BY <1>2, <1>6, LabelIn DEF n
  <2>2. new[k].label \in LabelsOf(items)
    BY <1>3, <1>6, LabelIn DEF m
  <2>3. QED
    BY <2>1, <2>2
<1>7. SUFFICES ASSUME NEW j \in 1 .. Len(new), NEW k \in 1 .. Len(new),
                      new[j].op = "label", new[k].op = "label", new[j].label = new[k].label
               PROVE  j = k
  BY DEF Once
<1>8. CASE Kept(j) /\ Kept(k)
  <2>1. From(j) = From(k)
    BY <1>2, <1>7, <1>8 DEF Once, n
  <2>2. QED
    BY <1>4, <1>8, <2>1
<1>9. CASE ~Kept(j) /\ ~Kept(k)
  <2>1. j - a = k - a
    BY <1>3, <1>7, <1>9 DEF Once, m
  <2>2. QED
    BY <1>5, <1>9, <2>1
<1>10. QED
  BY <1>6, <1>7, <1>8, <1>9

LEMMA MembersPut ==
    ASSUME NEW old \in Seq(Items), NEW new \in Seq(Items), NEW items \in Seq(Items),
           NEW a, NEW o, Put(old, new, a, o, items), NEW k \in 1 .. Len(new)
    PROVE  (\E j \in 1 .. Len(old) : new[k] = old[j])
           \/ (\E j \in 1 .. Len(items) : new[k] = items[j])
<1> DEFINE n == Len(old)
           m == Len(items)
<1>1. /\ n \in Nat /\ m \in Nat /\ a \in 0 .. n /\ o \in 0 .. n - a /\ Len(new) = n + m - o
      /\ new[k] = IF k <= a THEN old[k] ELSE IF k <= a + m THEN items[k - a]
                  ELSE old[k - m + o]
  BY DEF Put
<1> HIDE DEF n, m
<1>2. CASE k <= a
  BY <1>1, <1>2 DEF n
<1>3. CASE k > a /\ k <= a + m
  <2>1. k - a \in 1 .. m
    BY <1>1, <1>3
  <2>2. QED
    BY <1>1, <1>3, <2>1 DEF m
<1>4. CASE k > a + m
  <2>1. k - m + o \in 1 .. n /\ ~(k <= a)
    BY <1>1, <1>4
  <2>2. QED
    BY <1>1, <1>4, <2>1 DEF n
<1>5. QED
  BY <1>1, <1>2, <1>3, <1>4

LEMMA ConcatIs ==
    ASSUME NEW S, NEW s \in Seq(S), NEW t \in Seq(S)
    PROVE  /\ s \o t \in Seq(S) /\ Len(s) \in Nat /\ Len(t) \in Nat
           /\ Len(s \o t) = Len(s) + Len(t)
           /\ \A k \in 1 .. Len(s) + Len(t) :
                  (s \o t)[k] = IF k <= Len(s) THEN s[k] ELSE t[k - Len(s)]
  OBVIOUS

LEMMA TailIs ==
    ASSUME NEW S, NEW s \in Seq(S), s # <<>>
    PROVE  /\ Len(s) \in Nat /\ Len(s) >= 1
           /\ Tail(s) \in Seq(S) /\ Len(Tail(s)) = Len(s) - 1
           /\ \A k \in 1 .. Len(s) - 1 : Tail(s)[k] = s[k + 1]
           /\ Head(s) = s[1] /\ Head(s) \in S
  OBVIOUS

LEMMA SameText ==
    ASSUME NEW s \in Seq(Items), NEW t \in Seq(Items), Len(s) = Len(t),
           \A k \in 1 .. Len(s) : t[k] = s[k]
    PROVE  t = s
  OBVIOUS

\* What the steps do to the text.
LEMMA InPlace ==
    ASSUME NEW before \in Seq(Items), NEW waiting \in Seq(Items), waiting # <<>>,
           NEW items \in Seq(Items)
    PROVE  /\ items \o Tail(waiting) \in Seq(Items)
           /\ before \o waiting \in Seq(Items)
           /\ before \o (items \o Tail(waiting)) \in Seq(Items)
           /\ Put(before \o waiting, before \o (items \o Tail(waiting)), Len(before), 1, items)
           /\ (before \o waiting)[Len(before) + 1] = Head(waiting)
<1>0. PICK a, p, m, rest, tail, old, new :
          /\ a = Len(before) /\ p = Len(waiting) /\ m = Len(items)
          /\ rest = Tail(waiting) /\ tail = items \o rest
          /\ old = before \o waiting /\ new = before \o tail
  OBVIOUS
<1>1. /\ a \in Nat /\ p \in Nat /\ p >= 1 /\ m \in Nat
      /\ rest \in Seq(Items) /\ Len(rest) = p - 1 /\ Head(waiting) = waiting[1]
      /\ \A k \in 1 .. p - 1 : rest[k] = waiting[k + 1]
  BY <1>0, TailIs
<1>2. tail \in Seq(Items) /\ Len(tail) = m + (p - 1)
      /\ \A k \in 1 .. m + (p - 1) :
             tail[k] = IF k <= m THEN items[k] ELSE rest[k - m]
  BY <1>0, <1>1, ConcatIs
<1>3. old \in Seq(Items) /\ Len(old) = a + p
      /\ \A k \in 1 .. a + p : old[k] = IF k <= a THEN before[k] ELSE waiting[k - a]
  BY <1>0, ConcatIs
<1>4. new \in Seq(Items) /\ Len(new) = a + (m + (p - 1))
      /\ \A k \in 1 .. a + (m + (p - 1)) :
             new[k] = IF k <= a THEN before[k] ELSE tail[k - a]
  BY <1>0, <1>2, ConcatIs
<1>5. ASSUME NEW k \in 1 .. a + (m + (p - 1))
      PROVE  new[k] = IF k <= a THEN old[k]
                      ELSE IF k <= a + m THEN items[k - a]
                      ELSE old[k - m + 1]
  <2>0. k \in Nat /\ k >= 1 /\ k <= a + m + p - 1
    BY <1>1
  <2>1. CASE k <= a
    <3>1. k \in 1 .. a + p
      BY <1>1, <2>0, <2>1
    <3>2. old[k] = before[k] /\ new[k] = before[k]
      BY <1>3, <1>4, <2>1, <3>1
    <3>3. QED
      BY <2>1, <3>2
  <2>2. CASE k > a /\ k <= a + m
    <3>1. k - a \in 1 .. m + (p - 1) /\ k - a <= m /\ ~(k <= a)
      BY <1>1, <2>0, <2>2
    <3>2. tail[k - a] = items[k - a]
      BY <1>2, <3>1
    <3>3. new[k] = tail[k - a]
      BY <1>4, <3>1
    <3>4. QED
      BY <2>2, <3>1, <3>2, <3>3
  <2>3. CASE k > a + m
    <3>1. /\ k - a \in 1 .. m + (p - 1) /\ ~(k - a <= m) /\ ~(k <= a) /\ ~(k <= a + m)
          /\ k - a - m \in 1 .. p - 1 /\ k - m + 1 \in 1 .. a + p /\ ~(k - m + 1 <= a)
          /\ k - m + 1 - a = k - a - m + 1
      BY <1>1, <2>0, <2>3
    <3>2. new[k] = tail[k - a] /\ tail[k - a] = rest[k - a - m]
      BY <1>2, <1>4, <3>1
    <3>3. rest[k - a - m] = waiting[k - a - m + 1]
      BY <1>1, <3>1
    <3>4. old[k - m + 1] = waiting[k - m + 1 - a]
      BY <1>1, <1>3, <2>0, <3>1
    <3>5. new[k] = old[k - m + 1]
      BY <3>1, <3>2, <3>3, <3>4
    <3>6. QED
      BY <3>1, <3>5
  <2>4. QED
    BY <1>1, <2>0, <2>1, <2>2, <2>3
<1>6. Put(old, new, a, 1, items)
  <2>1. a \in 0 .. Len(old) /\ 1 \in 0 .. Len(old) - a /\ Len(new) = Len(old) + Len(items) - 1
    BY <1>0, <1>1, <1>3, <1>4
  <2>2. QED
    BY <1>0, <1>1, <1>4, <1>5, <2>1 DEF Put
<1>7. old[a + 1] = Head(waiting)
  <2>1. a + 1 \in 1 .. a + p /\ ~(a + 1 <= a) /\ a + 1 - a = 1
    BY <1>1
  <2>2. QED
    BY <1>1, <1>3, <2>1
<1>8. QED
  BY <1>0, <1>2, <1>3, <1>4, <1>6, <1>7

\* What is written is behind what was written before it, and the text is the same.
LEMMA WrittenIs ==
    ASSUME NEW before \in Seq(Items), NEW waiting \in Seq(Items), waiting # <<>>
    PROVE  /\ Append(before, Head(waiting)) \in Seq(Items)
           /\ Append(before, Head(waiting)) \o Tail(waiting) = before \o waiting
<1>0. PICK a, p, rest, done, old, new :
          /\ a = Len(before) /\ p = Len(waiting) /\ rest = Tail(waiting)
          /\ done = Append(before, Head(waiting))
          /\ old = before \o waiting /\ new = done \o rest
  OBVIOUS
<1>1. /\ a \in Nat /\ p \in Nat /\ p >= 1
      /\ rest \in Seq(Items) /\ Len(rest) = p - 1 /\ Head(waiting) = waiting[1]
      /\ Head(waiting) \in Items
      /\ \A k \in 1 .. p - 1 : rest[k] = waiting[k + 1]
  BY <1>0, TailIs
<1>2. /\ done \in Seq(Items) /\ Len(done) = a + 1
      /\ \A k \in 1 .. a + 1 : done[k] = IF k <= a THEN before[k] ELSE waiting[1]
  BY <1>0, <1>1
<1>3. old \in Seq(Items) /\ Len(old) = a + p
      /\ \A k \in 1 .. a + p : old[k] = IF k <= a THEN before[k] ELSE waiting[k - a]
  BY <1>0, ConcatIs
<1>4. new \in Seq(Items) /\ Len(new) = (a + 1) + (p - 1)
      /\ \A k \in 1 .. (a + 1) + (p - 1) :
             new[k] = IF k <= a + 1 THEN done[k] ELSE rest[k - (a + 1)]
  BY <1>0, <1>1, <1>2, ConcatIs
<1>5. ASSUME NEW k \in 1 .. a + p
      PROVE  new[k] = old[k]
  <2>0. k \in Nat /\ k >= 1 /\ k <= a + p /\ k \in 1 .. (a + 1) + (p - 1)
    BY <1>1
  <2>1. CASE k <= a
    BY <1>1, <1>2, <1>3, <1>4, <2>0, <2>1
  <2>2. CASE k = a + 1
    <3>1. k <= a + 1 /\ ~(k <= a) /\ k - a = 1 /\ k \in 1 .. a + 1
      BY <1>1, <2>0, <2>2
    <3>2. QED
      BY <1>1, <1>2, <1>3, <1>4, <2>0, <3>1
  <2>3. CASE k > a + 1
    <3>1. k - (a + 1) \in 1 .. p - 1 /\ ~(k <= a + 1) /\ ~(k <= a)
          /\ k - (a + 1) + 1 = k - a
      BY <1>1, <2>0, <2>3
    <3>2. new[k] = rest[k - (a + 1)]
      BY <1>4, <2>0, <3>1
    <3>3. rest[k - (a + 1)] = waiting[k - a]
      BY <1>1, <3>1
    <3>4. QED
      BY <1>3, <3>1, <3>2, <3>3
  <2>4. QED
    BY <1>1, <2>0, <2>1, <2>2, <2>3
<1>6. new = old
  <2>1. Len(old) = a + p /\ Len(new) = a + p
    BY <1>1, <1>3, <1>4
  <2>2. \A k \in 1 .. Len(old) : new[k] = old[k]
    BY <1>5, <2>1
  <2>3. QED
    BY <1>3, <1>4, <2>1, <2>2, SameText
<1>7. QED
  BY <1>0, <1>2, <1>6

-----------------------------------------------------------------------------
(***************************************************************************)
(* The labels kept by and by, as the items are gone through.               *)
(***************************************************************************)
Sets == {"set break", "set continue"}

KeptIn(call, op) == IF op = "set break" THEN call.leaves ELSE call.again

\* w[k] is the label kept in front of the item k, and w[Len(items) + 1] the last.
Through(items, op, w) ==
    /\ w \in [1 .. Len(items) + 1 -> Nat]
    /\ \A k \in 1 .. Len(items) :
           /\ w[k + 1] = IF items[k].op = op THEN items[k].label ELSE w[k]
           /\ items[k].op = "statement" => KeptIn(items[k], op) = w[k]

Leads(items, op, from, to) ==
    \E w : Through(items, op, w) /\ w[1] = from /\ w[Len(items) + 1] = to

LEMMA LeadsNowhere ==
    ASSUME NEW op, NEW from, NEW to, Leads(<<>>, op, from, to)
    PROVE  from = to
  BY DEF Leads, Through

\* All statements are in what was around, and nothing is kept instead.
LEMMA LeadsAlong ==
    ASSUME NEW items \in Seq(Items), NEW op \in Sets, NEW now \in Nat,
           \A k \in 1 .. Len(items) :
               /\ items[k].op # op
               /\ items[k].op = "statement" => KeptIn(items[k], op) = now
    PROVE  Leads(items, op, now, now)
<1> DEFINE w == [k \in 1 .. Len(items) + 1 |-> now]
<1>1. Len(items) \in Nat
  OBVIOUS
<1>2. Through(items, op, w)
  BY <1>1 DEF Through
<1>3. w[1] = now /\ w[Len(items) + 1] = now
  BY <1>1
<1>4. QED
  BY <1>2, <1>3 DEF Leads

\* Another label is kept from the item i on, and the one before from j on.
LEMMA LeadsAround ==
    ASSUME NEW items \in Seq(Items), NEW op \in Sets, NEW now \in Nat, NEW within \in Nat,
           NEW i \in 1 .. Len(items), NEW j \in 1 .. Len(items), i < j,
           items[i].op = op, items[i].label = within,
           items[j].op = op, items[j].label = now,
           \A k \in 1 .. Len(items) :
               /\ items[k].op = op => k \in {i, j}
               /\ items[k].op = "statement" =>
                      KeptIn(items[k], op) = IF i < k /\ k < j THEN within ELSE now
    PROVE  Leads(items, op, now, now)
<1> DEFINE w == [k \in 1 .. Len(items) + 1 |-> IF i < k /\ k <= j THEN within ELSE now]
<1>1. Len(items) \in Nat /\ i \in Nat /\ j \in Nat /\ i >= 1
  OBVIOUS
<1>2. w \in [1 .. Len(items) + 1 -> Nat]
  OBVIOUS
<1>3. ASSUME NEW k \in 1 .. Len(items)
      PROVE  /\ w[k + 1] = IF items[k].op = op THEN items[k].label ELSE w[k]
             /\ items[k].op = "statement" => KeptIn(items[k], op) = w[k]
  <2>1. k \in Nat /\ k \in 1 .. Len(items) + 1 /\ k + 1 \in 1 .. Len(items) + 1
    BY <1>1
  <2>2. /\ w[k] = IF i < k /\ k <= j THEN within ELSE now
        /\ w[k + 1] = IF i < k + 1 /\ k + 1 <= j THEN within ELSE now
    BY <2>1
  <2> HIDE DEF w
  <2>3. CASE items[k].op = op
    <3>1. k = i \/ k = j
      BY <2>3
    <3>2. items[k].op # "statement"
      BY <2>3 DEF Sets
    <3>3. QED
      BY <1>1, <2>1, <2>2, <2>3, <3>1, <3>2
  <2>4. CASE items[k].op # op
    <3>1. k # i /\ k # j
      BY <2>4
    <3>2. QED
      BY <1>1, <2>1, <2>2, <2>4, <3>1
  <2>5. QED
    BY <2>3, <2>4
<1>4. w[1] = now /\ w[Len(items) + 1] = now
  BY <1>1
<1>5. QED
  BY <1>2, <1>3, <1>4 DEF Leads, Through

LEMMA LeadsOn ==
    ASSUME NEW items \in Seq(Items), NEW rest \in Seq(Items), NEW op \in Sets,
           NEW from, NEW by, NEW to, Leads(items, op, from, by), Leads(rest, op, by, to)
    PROVE  Leads(items \o rest, op, from, to)
<1>1. PICK u : Through(items, op, u) /\ u[1] = from /\ u[Len(items) + 1] = by
  BY DEF Leads
<1>2. PICK v : Through(rest, op, v) /\ v[1] = by /\ v[Len(rest) + 1] = to
  BY DEF Leads
<1>3. PICK m, r, all : m = Len(items) /\ r = Len(rest) /\ all = items \o rest
  OBVIOUS
<1>4. /\ m \in Nat /\ r \in Nat /\ all \in Seq(Items) /\ Len(all) = m + r
      /\ \A k \in 1 .. m + r : all[k] = IF k <= m THEN items[k] ELSE rest[k - m]
  BY <1>3, ConcatIs
<1>5. /\ u \in [1 .. m + 1 -> Nat]
      /\ \A k \in 1 .. m :
           /\ u[k + 1] = IF items[k].op = op THEN items[k].label ELSE u[k]
           /\ items[k].op = "statement" => KeptIn(items[k], op) = u[k]
  BY <1>1, <1>3 DEF Through
<1>6. /\ v \in [1 .. r + 1 -> Nat]
      /\ \A k \in 1 .. r :
           /\ v[k + 1] = IF rest[k].op = op THEN rest[k].label ELSE v[k]
           /\ rest[k].op = "statement" => KeptIn(rest[k], op) = v[k]
  BY <1>2, <1>3 DEF Through
<1>7. PICK w : w = [k \in 1 .. m + r + 1 |-> IF k <= m THEN u[k] ELSE v[k - m]]
  OBVIOUS
<1>8. ASSUME NEW k \in 1 .. m + r + 1
      PROVE  w[k] = (IF k <= m THEN u[k] ELSE v[k - m]) /\ w[k] \in Nat
  <2>1. w[k] = IF k <= m THEN u[k] ELSE v[k - m]
    BY <1>7
  <2>2. CASE k <= m
    <3>1. k \in 1 .. m + 1
      BY <1>4, <2>2
    <3>2. QED
      BY <1>5, <2>1, <2>2, <3>1
  <2>3. CASE k > m
    <3>1. k - m \in 1 .. r + 1 /\ ~(k <= m)
      BY <1>4, <2>3
    <3>2. QED
      BY <1>6, <2>1, <3>1
  <2>4. QED
    BY <1>4, <2>2, <2>3
<1>9. w \in [1 .. m + r + 1 -> Nat]
  BY <1>7, <1>8
<1>10. ASSUME NEW k \in 1 .. m + r
       PROVE  /\ w[k + 1] = IF all[k].op = op THEN all[k].label ELSE w[k]
              /\ all[k].op = "statement" => KeptIn(all[k], op) = w[k]
  <2>1. k \in Nat /\ k >= 1 /\ k <= m + r
        /\ k \in 1 .. m + r + 1 /\ k + 1 \in 1 .. m + r + 1
    BY <1>4
  <2>2. /\ w[k] = IF k <= m THEN u[k] ELSE v[k - m]
        /\ w[k + 1] = IF k + 1 <= m THEN u[k + 1] ELSE v[k + 1 - m]
    <3>1. \A n \in 1 .. m + r + 1 : w[n] = IF n <= m THEN u[n] ELSE v[n - m]
      BY <1>8
    <3>2. PICK n : n = k + 1
      OBVIOUS
    <3>3. n \in 1 .. m + r + 1
      BY <2>1, <3>2
    <3>4. w[n] = IF n <= m THEN u[n] ELSE v[n - m]
      BY <3>1, <3>3
    <3>5. w[k] = IF k <= m THEN u[k] ELSE v[k - m]
      BY <2>1, <3>1
    <3>6. m \in Nat /\ n \in Nat
      BY <1>4, <2>1, <3>2
    <3>7. w[k + 1] = IF k + 1 <= m THEN u[k + 1] ELSE v[k + 1 - m]
      BY <2>1, <3>2, <3>4, <3>6
    <3>8. QED
      BY <3>5, <3>7
  <2>3. CASE k < m
    <3>1. k \in 1 .. m /\ k <= m /\ k + 1 <= m
      BY <1>4, <2>1, <2>3
    <3>2. all[k] = items[k] /\ w[k] = u[k] /\ w[k + 1] = u[k + 1]
      BY <1>4, <2>2, <3>1
    <3>3. QED
      BY <1>5, <3>1, <3>2
  <2>4. CASE k = m
    <3>1. k \in 1 .. m /\ k <= m /\ ~(k + 1 <= m) /\ k + 1 - m = 1
      BY <1>4, <2>1, <2>4
    <3>2. all[k] = items[k] /\ w[k] = u[k] /\ w[k + 1] = v[1]
      BY <1>4, <2>2, <3>1
    <3>3. v[1] = u[k + 1]
      BY <1>1, <1>2, <1>3, <2>4
    <3>4. QED
      BY <1>5, <3>1, <3>2, <3>3
  <2>5. CASE k > m
    <3>1. k - m \in 1 .. r /\ ~(k <= m) /\ ~(k + 1 <= m) /\ k + 1 - m = (k - m) + 1
      BY <1>4, <2>1, <2>5
    <3>2. all[k] = rest[k - m] /\ w[k] = v[k - m] /\ w[k + 1] = v[(k - m) + 1]
      BY <1>4, <2>2, <3>1
    <3>3. QED
      BY <1>6, <3>1, <3>2
  <2>6. QED
    BY <1>4, <2>1, <2>3, <2>4, <2>5
<1>11. w[1] = from
  <2>1. 1 \in 1 .. m + r + 1
    BY <1>4
  <2>2. CASE m = 0
    <3>1. ~(1 <= m) /\ 1 - m = 1
      BY <2>2
    <3>2. w[1] = v[1]
      BY <1>8, <2>1, <3>1
    <3>3. u[1] = v[1]
      BY <1>1, <1>2, <1>3, <2>2
    <3>4. QED
      BY <1>1, <3>2, <3>3
  <2>3. CASE m # 0
    <3>1. 1 <= m
      BY <1>4, <2>3
    <3>2. QED
      BY <1>1, <1>8, <2>1, <3>1
  <2>4. QED
    BY <2>2, <2>3
<1>12. w[Len(all) + 1] = to
  <2>1. m + r + 1 \in 1 .. m + r + 1 /\ ~(m + r + 1 <= m) /\ m + r + 1 - m = r + 1
    BY <1>4
  <2>2. w[m + r + 1] = v[r + 1]
    BY <1>4, <1>8, <2>1
  <2>3. QED
    BY <1>2, <1>3, <1>4, <2>2
<1>13. Through(all, op, w)
  BY <1>4, <1>9, <1>10 DEF Through
<1>14. Leads(all, op, from, to)
  BY <1>11, <1>12, <1>13 DEF Leads
<1>15. QED
  BY <1>3, <1>14

\* What is kept behind the first item, and what that item says of it.
LEMMA LeadsBehind ==
    ASSUME NEW items \in Seq(Items), items # <<>>, NEW op \in Sets, NEW from, NEW to,
           Leads(items, op, from, to)
    PROVE  /\ from \in Nat
           /\ Head(items).op = "statement" => KeptIn(Head(items), op) = from
           /\ Leads(Tail(items), op,
                    IF Head(items).op = op THEN Head(items).label ELSE from, to)
<1>1. PICK v : Through(items, op, v) /\ v[1] = from /\ v[Len(items) + 1] = to
  BY DEF Leads
<1>2. PICK p, rest : p = Len(items) /\ rest = Tail(items)
  OBVIOUS
<1>3. /\ p \in Nat /\ p >= 1 /\ rest \in Seq(Items) /\ Len(rest) = p - 1
      /\ Head(items) = items[1] /\ \A k \in 1 .. p - 1 : rest[k] = items[k + 1]
  BY <1>2, TailIs
<1>4. /\ v \in [1 .. p + 1 -> Nat]
      /\ \A k \in 1 .. p :
           /\ v[k + 1] = IF items[k].op = op THEN items[k].label ELSE v[k]
           /\ items[k].op = "statement" => KeptIn(items[k], op) = v[k]
  BY <1>1, <1>2 DEF Through
<1>5. PICK w : w = [k \in 1 .. p |-> v[k + 1]]
  OBVIOUS
<1>6. ASSUME NEW k \in 1 .. p
      PROVE  w[k] = v[k + 1] /\ w[k] \in Nat
  <2>1. k + 1 \in 1 .. p + 1
    BY <1>3
  <2>2. QED
    BY <1>4, <1>5, <2>1
<1>7. ASSUME NEW k \in 1 .. p - 1
      PROVE  /\ w[k + 1] = IF rest[k].op = op THEN rest[k].label ELSE w[k]
             /\ rest[k].op = "statement" => KeptIn(rest[k], op) = w[k]
  <2>1. k \in 1 .. p /\ k + 1 \in 1 .. p
    BY <1>3
  <2>2. w[k] = v[k + 1] /\ w[k + 1] = v[k + 1 + 1] /\ rest[k] = items[k + 1]
    BY <1>3, <1>6, <2>1
  <2>3. QED
    BY <1>4, <2>1, <2>2
<1>8. w \in [1 .. p -> Nat]
  BY <1>5, <1>6
<1>9. Through(rest, op, w)
  <2>1. Len(rest) + 1 = p
    BY <1>3
  <2>2. QED
    BY <1>3, <1>7, <1>8, <2>1 DEF Through
<1>10. 1 \in 1 .. p /\ p \in 1 .. p /\ 1 \in 1 .. p + 1
  BY <1>3
<1>11. /\ w[1] = IF items[1].op = op THEN items[1].label ELSE from
       /\ items[1].op = "statement" => KeptIn(items[1], op) = from
       /\ w[p] = to /\ from \in Nat
  BY <1>1, <1>2, <1>4, <1>6, <1>10
<1>12. w[Len(rest) + 1] = to
  <2>1. Len(rest) + 1 = p
    BY <1>3
  <2>2. QED
    BY <1>11, <2>1
<1>13. Leads(rest, op, IF items[1].op = op THEN items[1].label ELSE from, to)
  BY <1>9, <1>11, <1>12 DEF Leads
<1>14. QED
  BY <1>2, <1>3, <1>11, <1>13

-----------------------------------------------------------------------------
(***************************************************************************)
(* The inductive invariant.                                                *)
(***************************************************************************)
Text == code \o pending

Written == LabelsOf(Text)

\* The labels of the names a goto gave: they may still be to come.
Promised == {label_indices[name] : name \in named_labels}

\* What an item may name, where there are the labels `there` and `promised` ones.
Fits(x, there, promised) ==
    /\ x.op \in Jumps => x.label \in there \cup promised
    /\ x.op \in Sets => x.label \in there \cup {0}

AllFit(text, there, promised) == \A k \in 1 .. Len(text) : Fits(text[k], there, promised)

Around(op) == IF op = "set break" THEN loop_break_label ELSE loop_continue_label

Typed ==
    /\ program \in Seq(Statements) /\ function \in 0 .. Len(program)
    /\ code \in Seq(Items) /\ pending \in Seq(Items)
    /\ next_label \in Nat /\ next_label >= 1 /\ function_end_label \in Nat
    /\ loop_break_label \in Nat /\ loop_continue_label \in Nat
    /\ label_indices \in [Names -> Nat]
    /\ labels \subseteq Names /\ named_labels \subseteq Names

Placed == Once(Text) /\ Written \subseteq 1 .. next_label - 1

\* A name has a label of its own once it was seen, which is put down with it.
NamesPlaced ==
    \A name \in Names :
        /\ label_indices[name] < next_label
        /\ name \in labels <=> label_indices[name] \in Written
        /\ name \in named_labels => label_indices[name] # 0
        /\ \A other \in Names :
               label_indices[other] = label_indices[name] /\ label_indices[name] # 0 =>
                   other = name

Aimed ==
    /\ AllFit(Text, Written, Promised)
    /\ \A op \in Sets : Around(op) \in Written \cup {0}
    /\ pending # <<>> => function_end_label \in Written

\* A function ends with its postamble, and not before all its names were there.
Closed ==
    /\ pending # <<>> => /\ pending[Len(pending)].op = "postamble"
                         /\ \A k \in 1 .. Len(pending) - 1 : pending[k].op # "postamble"
    /\ pending = <<>> => named_labels \subseteq labels

\* What was kept when a statement began is kept again behind it.
PutBackAll == \A op \in Sets : Leads(pending, op, Around(op), 0)

LabelsInv == Typed /\ Placed /\ NamesPlaced /\ Aimed /\ Closed /\ PutBackAll

-----------------------------------------------------------------------------
LEMMA FitsMore ==
    ASSUME NEW x, NEW L, NEW M, NEW P, NEW Q, L \subseteq M, P \subseteq Q, Fits(x, L, P)
    PROVE  Fits(x, M, Q)
  BY DEF Fits

LEMMA FitPut ==
    ASSUME NEW old \in Seq(Items), NEW new \in Seq(Items), NEW items \in Seq(Items),
           NEW a, NEW o, Put(old, new, a, o, items),
           NEW L, NEW M, NEW P, NEW Q, L \subseteq M, P \subseteq Q,
           AllFit(old, L, P), AllFit(items, M, Q)
    PROVE  AllFit(new, M, Q)
<1>1. ASSUME NEW k \in 1 .. Len(new)
      PROVE  Fits(new[k], M, Q)
  <2>1. CASE \E j \in 1 .. Len(old) : new[k] = old[j]
    BY <2>1, FitsMore DEF AllFit
  <2>2. CASE \E j \in 1 .. Len(items) : new[k] = items[j]
    BY <2>2 DEF AllFit
  <2>3. QED
    BY <2>1, <2>2, MembersPut
<1>2. QED
  BY <1>1 DEF AllFit

LEMMA ClosedPut ==
    ASSUME NEW waiting \in Seq(Items), waiting # <<>>, NEW items \in Seq(Items),
           waiting[Len(waiting)].op = "postamble",
           \A k \in 1 .. Len(waiting) - 1 : waiting[k].op # "postamble",
           Head(waiting).op # "postamble",
           \A k \in 1 .. Len(items) : items[k].op # "postamble"
    PROVE  LET next == items \o Tail(waiting)
           IN  /\ next # <<>>
               /\ next[Len(next)].op = "postamble"
               /\ \A k \in 1 .. Len(next) - 1 : next[k].op # "postamble"
<1>0. PICK p, m, rest, next :
          p = Len(waiting) /\ m = Len(items) /\ rest = Tail(waiting) /\ next = items \o rest
  OBVIOUS
<1>1. /\ p \in Nat /\ p >= 1 /\ m \in Nat
      /\ rest \in Seq(Items) /\ Len(rest) = p - 1 /\ Head(waiting) = waiting[1]
      /\ \A k \in 1 .. p - 1 : rest[k] = waiting[k + 1]
  BY <1>0, TailIs
<1>2. next \in Seq(Items) /\ Len(next) = m + (p - 1)
      /\ \A k \in 1 .. m + (p - 1) : next[k] = IF k <= m THEN items[k] ELSE rest[k - m]
  BY <1>0, <1>1, ConcatIs
<1>3. p > 1
  BY <1>0, <1>1
<1>4. next[m + (p - 1)] = waiting[p]
  <2>1. m + (p - 1) \in 1 .. m + (p - 1) /\ ~(m + (p - 1) <= m)
        /\ m + (p - 1) - m = p - 1 /\ p - 1 \in 1 .. p - 1 /\ p - 1 + 1 = p
    BY <1>1, <1>3
  <2>2. next[m + (p - 1)] = rest[p - 1]
    BY <1>1, <1>2, <2>1
  <2>3. rest[p - 1] = waiting[p]
    BY <1>1, <2>1
  <2>4. QED
    BY <2>2, <2>3
<1>5. ASSUME NEW k \in 1 .. m + (p - 1) - 1
      PROVE  next[k].op # "postamble"
  <2>1. k \in Nat /\ k >= 1 /\ k <= m + (p - 1) - 1 /\ k \in 1 .. m + (p - 1)
    BY <1>1
  <2>2. CASE k <= m
    <3>1. k \in 1 .. m /\ next[k] = items[k]
      BY <1>1, <1>2, <2>1, <2>2
    <3>2. QED
      BY <1>0, <3>1
  <2>3. CASE k > m
    <3>1. k - m \in 1 .. p - 1 /\ k - m + 1 \in 1 .. p - 1 /\ ~(k <= m)
      BY <1>1, <2>1, <2>3
    <3>2. next[k] = rest[k - m]
      BY <1>2, <2>1, <3>1
    <3>3. rest[k - m] = waiting[k - m + 1]
      BY <1>1, <3>1
    <3>4. QED
      BY <1>0, <3>1, <3>2, <3>3
  <2>4. QED
    BY <1>1, <2>1, <2>2, <2>3
<1>6. next # <<>>
  BY <1>1, <1>2, <1>3
<1>7. QED
  BY <1>0, <1>2, <1>4, <1>5, <1>6, SMTT(30)

\* What a call of GenStatement owes, whatever the statement is.
LEMMA PutDown ==
    ASSUME LabelsInv, AtNext("statement"),
           NEW n \in Nat, NEW items \in Seq(Items), Does(n, items),
           UNCHANGED <<program, function, code, function_end_label, inside>>,
           label_indices' \in [Names -> Nat], labels' \subseteq Names,
           named_labels' \subseteq Names, Promised \subseteq Promised',
           Once(items), LabelsOf(items) \cap Written = {},
           LabelsOf(items) \subseteq 1 .. next_label + n - 1,
           AllFit(items, Written \cup LabelsOf(items), Promised'),
           \A k \in 1 .. Len(items) : items[k].op # "postamble",
           \A op \in Sets : Leads(items, op, Around(op), Around(op))
    PROVE  /\ Written' = Written \cup LabelsOf(items)
           /\ Typed' /\ Placed' /\ Aimed' /\ Closed' /\ PutBackAll'
<1>1. /\ code \in Seq(Items) /\ pending \in Seq(Items) /\ pending # <<>>
      /\ Head(pending).op = "statement" /\ next_label \in Nat /\ next_label >= 1
  BY DEF LabelsInv, Typed, AtNext
<1>2. pending' = items \o Tail(pending) /\ next_label' = next_label + n /\ code' = code
  BY DEF Does
<1>3. /\ pending' \in Seq(Items)
      /\ Text \in Seq(Items) /\ Text' \in Seq(Items)
      /\ Put(Text, Text', Len(code), 1, items)
      /\ Text[Len(code) + 1] = Head(pending)
  BY <1>1, <1>2, InPlace DEF Text
<1>4. \A k \in Len(code) + 1 .. Len(code) + 1 : Text[k].op # "label"
  BY <1>1, <1>3
<1>5. Written' = Written \cup LabelsOf(items)
  BY <1>3, <1>4, LabelsPut DEF Written
<1>6. Typed'
  BY <1>1, <1>2, <1>3 DEF LabelsInv, Typed, inside
<1>7. Placed'
  <2>1. Once(Text')
    BY <1>3, OncePut DEF LabelsInv, Placed, Written
  <2>2. Written' \subseteq 1 .. next_label' - 1
    <3>1. Written \subseteq 1 .. next_label - 1
      BY DEF LabelsInv, Placed
    <3>2. \A l \in 1 .. next_label - 1 : l \in 1 .. next_label + n - 1
      BY <1>1
    <3>3. Written \cup LabelsOf(items) \subseteq 1 .. next_label + n - 1
      BY <3>1, <3>2
    <3>4. next_label' - 1 = next_label + n - 1
      BY <1>1, <1>2
    <3>5. QED
      BY <1>5, <3>3, <3>4
  <2>3. QED
    BY <2>1, <2>2 DEF Placed, Once
<1>8. Aimed'
  <2>1. AllFit(Text', Written \cup LabelsOf(items), Promised')
    BY <1>3, FitPut DEF LabelsInv, Aimed
  <2>2. AllFit(Text', Written', Promised')
    BY <1>5, <2>1
  <2>3. \A op \in Sets : Around(op)' = Around(op)
    BY DEF Around, inside
  <2>4. \A op \in Sets : Around(op)' \in Written' \cup {0}
    BY <1>5, <2>3 DEF LabelsInv, Aimed
  <2>5. function_end_label' \in Written'
    BY <1>1, <1>5 DEF LabelsInv, Aimed
  <2>6. QED
    BY <2>2, <2>4, <2>5 DEF Aimed, AllFit
<1>9. Closed'
  <2>1. /\ pending[Len(pending)].op = "postamble"
        /\ \A k \in 1 .. Len(pending) - 1 : pending[k].op # "postamble"
    BY <1>1 DEF LabelsInv, Closed
  <2>2. Head(pending).op # "postamble"
    BY <1>1
  <2>3. /\ pending' # <<>> /\ pending'[Len(pending')].op = "postamble"
        /\ \A k \in 1 .. Len(pending') - 1 : pending'[k].op # "postamble"
    BY <1>1, <1>2, <2>1, <2>2, ClosedPut
  <2>4. QED
    BY <2>3 DEF Closed
<1>10. PutBackAll'
  <2>1. ASSUME NEW op \in Sets
        PROVE  Leads(pending', op, Around(op)', 0)
    <3>1. Head(pending).op # op
      BY <1>1 DEF Sets
    <3>2. Leads(pending, op, Around(op), 0)
      BY DEF LabelsInv, PutBackAll
    <3>3. Leads(Tail(pending), op, Around(op), 0)
      BY <1>1, <3>1, <3>2, LeadsBehind
    <3>4. Tail(pending) \in Seq(Items)
      BY <1>1, TailIs
    <3>5. Leads(items \o Tail(pending), op, Around(op), 0)
      BY <3>3, <3>4, LeadsOn
    <3>6. Around(op)' = Around(op)
      BY DEF Around, inside
    <3>7. QED
      BY <1>2, <3>5, <3>6
  <2>2. QED
    BY <2>1 DEF PutBackAll, Leads, Through
<1>11. QED
  BY <1>5, <1>6, <1>7, <1>8, <1>9, <1>10

-----------------------------------------------------------------------------
(***************************************************************************)
(* The steps other than calls of GenStatement.                             *)
(***************************************************************************)
LEMMA EmptyIs ==
    /\ <<>> \in Seq(Items) /\ Len(<<>>) = 0
    /\ \A s \in Seq(Items) : <<>> \o s = s /\ s \o <<>> = s
    /\ LabelsOf(<<>>) = {} /\ Once(<<>>)
    /\ \A L, P : AllFit(<<>>, L, P)
<1>1. <<>> \in Seq(Items) /\ Len(<<>>) = 0
  OBVIOUS
<1>2. ASSUME NEW s \in Seq(Items)
      PROVE  <<>> \o s = s /\ s \o <<>> = s
  <2>1. /\ <<>> \o s \in Seq(Items) /\ s \o <<>> \in Seq(Items) /\ Len(s) \in Nat
        /\ Len(<<>> \o s) = Len(s) /\ Len(s \o <<>>) = Len(s)
        /\ \A k \in 1 .. Len(s) : (<<>> \o s)[k] = s[k] /\ (s \o <<>>)[k] = s[k]
    BY <1>1, ConcatIs
  <2>2. QED
    BY <2>1, SameText
<1>3. QED
  BY <1>1, <1>2 DEF LabelsOf, Once, AllFit

\* What stands behind the head of what is pending, which is no postamble.
LEMMA NextIs ==
    ASSUME LabelsInv, pending # <<>>, Head(pending).op # "postamble",
           pending' = Tail(pending)
    PROVE  /\ pending' # <<>> /\ pending' \in Seq(Items)
           /\ Closed'
<1>1. pending \in Seq(Items) /\ <<>> \in Seq(Items) /\ Tail(pending) \in Seq(Items)
  BY TailIs, EmptyIs DEF LabelsInv, Typed
<1>2. /\ <<>> \o Tail(pending) = Tail(pending)
      /\ \A k \in 1 .. Len(<<>>) : <<>>[k].op # "postamble"
  BY <1>1, EmptyIs
<1>3. /\ pending[Len(pending)].op = "postamble"
      /\ \A k \in 1 .. Len(pending) - 1 : pending[k].op # "postamble"
  BY DEF LabelsInv, Closed
<1>4. /\ pending' # <<>>
      /\ pending'[Len(pending')].op = "postamble"
      /\ \A k \in 1 .. Len(pending') - 1 : pending'[k].op # "postamble"
  BY <1>1, <1>2, <1>3, ClosedPut, SMTT(30)
<1>5. QED
  BY <1>1, <1>4 DEF Closed

LEMMA EmitKeeps ==
    ASSUME LabelsInv, Emit
    PROVE  LabelsInv'
<1>1. /\ code \in Seq(Items) /\ pending \in Seq(Items) /\ pending # <<>>
      /\ Head(pending).op \in Instructions
      /\ pending' = Tail(pending) /\ code' = Append(code, Head(pending))
      /\ UNCHANGED <<program, function, next_label, function_end_label, inside, named>>
  BY DEF LabelsInv, Typed, Emit, AtNext, GoesOn
<1>2. Head(pending).op # "postamble" /\ Head(pending).op \notin Sets
  BY <1>1 DEF Instructions, Sets
<1>3. Text' = Text /\ code' \in Seq(Items)
  BY <1>1, WrittenIs DEF Text
<1>4. pending' # <<>> /\ pending' \in Seq(Items) /\ Closed'
  BY <1>1, <1>2, NextIs
<1>5. Typed'
  BY <1>1, <1>3, <1>4 DEF LabelsInv, Typed, inside, named
<1>6. Written' = Written /\ Promised' = Promised
  BY <1>1, <1>3 DEF Written, Promised, named, LabelsOf
<1>7. Placed'
  BY <1>1, <1>3, <1>6 DEF LabelsInv, Placed, Once
<1>8. NamesPlaced'
  BY <1>1, <1>6 DEF LabelsInv, NamesPlaced, named
<1>9. \A op \in Sets : Around(op)' = Around(op)
  BY <1>1 DEF Around, inside
<1>10. Aimed'
  BY <1>1, <1>3, <1>6, <1>9 DEF LabelsInv, Aimed, AllFit
<1>11. PutBackAll'
  <2>1. ASSUME NEW op \in Sets
        PROVE  Leads(pending', op, Around(op)', 0)
    <3>1. Head(pending).op # op
      BY <1>2
    <3>2. Leads(pending, op, Around(op), 0)
      BY DEF LabelsInv, PutBackAll
    <3>3. QED
      BY <1>1, <1>9, <3>1, <3>2, LeadsBehind
  <2>2. QED
    BY <2>1 DEF PutBackAll, Leads, Through
<1>12. QED
  BY <1>4, <1>5, <1>7, <1>8, <1>10, <1>11 DEF LabelsInv

\* Keeping another label takes an item away which is none of the labels.
LEMMA PutBackKeeps ==
    ASSUME LabelsInv, PutBreak \/ PutContinue
    PROVE  LabelsInv'
<1>0. PICK set \in Sets :
          /\ Head(pending).op = set /\ pending # <<>>
          /\ \A op \in Sets :
                 Around(op)' = IF Head(pending).op = op THEN Head(pending).label ELSE Around(op)
          /\ pending' = Tail(pending)
          /\ UNCHANGED <<program, function, code, next_label, function_end_label, named>>
  <2>1. CASE PutBreak
    <3>1. "set break" \in Sets
      BY DEF Sets
    <3>2. QED
      BY <2>1, <3>1 DEF PutBreak, AtNext, GoesOn, Sets, Around
  <2>2. CASE PutContinue
    <3>1. "set continue" \in Sets
      BY DEF Sets
    <3>2. QED
      BY <2>2, <3>1 DEF PutContinue, AtNext, GoesOn, Sets, Around
  <2>3. QED
    BY <2>1, <2>2
<1>1. code \in Seq(Items) /\ pending \in Seq(Items) /\ Head(pending) \in Items
  BY <1>0, TailIs DEF LabelsInv, Typed
<1>2. /\ Head(pending).op # "postamble" /\ Head(pending).op # "label"
      /\ Head(pending).op \in Sets /\ Head(pending).label \in Nat
  BY <1>0, <1>1, ItemIs DEF Sets, Targeted
<1>3. pending' # <<>> /\ pending' \in Seq(Items) /\ Closed'
  BY <1>0, <1>2, NextIs
<1> DEFINE none == <<>>
<1>4. /\ none \in Seq(Items) /\ LabelsOf(none) = {} /\ Once(none)
      /\ \A L, P : AllFit(none, L, P)
  BY EmptyIs
<1>5. /\ Text \in Seq(Items) /\ Text' \in Seq(Items)
      /\ Put(Text, Text', Len(code), 1, none)
      /\ Text[Len(code) + 1] = Head(pending)
      /\ Len(code) + 1 \in 1 .. Len(Text)
  <2>1. <<>> \o Tail(pending) = Tail(pending)
    BY <1>0, <1>1, TailIs, EmptyIs
  <2>2. /\ Text \in Seq(Items) /\ Text' \in Seq(Items)
        /\ Put(Text, Text', Len(code), 1, <<>>)
        /\ Text[Len(code) + 1] = Head(pending)
    BY <1>0, <1>1, <2>1, EmptyIs, InPlace DEF Text
  <2>3. Len(code) + 1 \in 1 .. Len(Text)
    BY <1>0, <1>1, TailIs, ConcatIs DEF Text
  <2>4. QED
    BY <2>2, <2>3
<1> HIDE DEF none
<1>6. Written' = Written /\ Promised' = Promised
  <2>1. \A k \in Len(code) + 1 .. Len(code) + 1 : Text[k].op # "label"
    BY <1>1, <1>2, <1>5
  <2>2. Written' = Written \cup LabelsOf(none)
    BY <1>4, <1>5, <2>1, LabelsPut DEF Written
  <2>3. QED
    BY <1>0, <1>4, <2>2 DEF Promised, named
<1>7. Head(pending).label \in Written \cup {0}
  BY <1>2, <1>5 DEF LabelsInv, Aimed, AllFit, Fits
<1>8. Typed'
  <2>1. loop_break_label' \in Nat /\ loop_continue_label' \in Nat
    BY <1>0, <1>2 DEF LabelsInv, Typed, Around, Sets
  <2>2. QED
    BY <1>0, <1>3, <2>1 DEF LabelsInv, Typed, named
<1>9. Placed'
  <2>1. Once(Text')
    BY <1>4, <1>5, OncePut DEF LabelsInv, Placed
  <2>2. QED
    BY <1>0, <1>6, <2>1 DEF LabelsInv, Placed, Once
<1>10. NamesPlaced'
  BY <1>0, <1>6 DEF LabelsInv, NamesPlaced, named
<1>11. Aimed'
  <2>1. AllFit(Text', Written, Promised)
    BY <1>4, <1>5, FitPut DEF LabelsInv, Aimed
  <2>2. AllFit(Text', Written', Promised')
    BY <1>6, <2>1
  <2>3. \A op \in Sets : Around(op)' \in Written' \cup {0}
    BY <1>0, <1>6, <1>7 DEF LabelsInv, Aimed
  <2>4. function_end_label' \in Written'
    BY <1>0, <1>6 DEF LabelsInv, Aimed
  <2>5. QED
    BY <2>2, <2>3, <2>4 DEF Aimed, AllFit
<1>12. PutBackAll'
  <2>1. ASSUME NEW op \in Sets
        PROVE  Leads(pending', op, Around(op)', 0)
    <3>1. Leads(pending, op, Around(op), 0)
      BY DEF LabelsInv, PutBackAll
    <3>2. QED
      BY <1>0, <1>1, <3>1, LeadsBehind
  <2>2. QED
    BY <2>1 DEF PutBackAll, Leads, Through
<1>13. QED
  BY <1>3, <1>8, <1>9, <1>10, <1>11, <1>12 DEF LabelsInv

\* Nothing stands behind a postamble.
LEMMA EndKeeps ==
    ASSUME LabelsInv, EndFunction
    PROVE  LabelsInv'
<1>1. /\ code \in Seq(Items) /\ pending \in Seq(Items) /\ pending # <<>>
      /\ Head(pending).op = "postamble" /\ named_labels \subseteq labels
      /\ pending' = Tail(pending) /\ code' = Append(code, Head(pending))
      /\ function_end_label' = 0
      /\ UNCHANGED <<program, function, next_label, inside, named>>
  BY DEF LabelsInv, Typed, EndFunction, AtNext, GoesOn
<1>2. Text' = Text /\ code' \in Seq(Items)
  BY <1>1, WrittenIs DEF Text
<1>3. pending' = <<>>
  <2>1. /\ Len(pending) \in Nat /\ Len(pending) >= 1 /\ Head(pending) = pending[1]
        /\ Len(Tail(pending)) = Len(pending) - 1 /\ Tail(pending) \in Seq(Items)
    BY <1>1, TailIs
  <2>2. ~(1 \in 1 .. Len(pending) - 1)
    BY <1>1, <2>1 DEF LabelsInv, Closed
  <2>3. Len(Tail(pending)) = 0
    BY <2>1, <2>2
  <2>4. QED
    BY <1>1, <2>1, <2>3
<1>4. Written' = Written /\ Promised' = Promised
  BY <1>1, <1>2 DEF Written, Promised, named, LabelsOf
<1>5. Typed'
  BY <1>1, <1>2, <1>3 DEF LabelsInv, Typed, inside, named
<1>6. Placed'
  BY <1>1, <1>2, <1>4 DEF LabelsInv, Placed, Once
<1>7. NamesPlaced'
  BY <1>1, <1>4 DEF LabelsInv, NamesPlaced, named
<1>8. \A op \in Sets : Around(op)' = Around(op)
  BY <1>1 DEF Around, inside
<1>9. Aimed'
  BY <1>1, <1>2, <1>3, <1>4, <1>8 DEF LabelsInv, Aimed, AllFit
<1>10. Closed'
  BY <1>1, <1>3 DEF Closed, named
<1>11. PutBackAll'
  <2>1. ASSUME NEW op \in Sets
        PROVE  Leads(pending', op, Around(op)', 0)
    <3>1. Head(pending).op # op
      BY <1>1 DEF Sets
    <3>2. Leads(pending, op, Around(op), 0)
      BY DEF LabelsInv, PutBackAll
    <3>3. QED
      BY <1>1, <1>8, <3>1, <3>2, LeadsBehind
  <2>2. QED
    BY <2>1 DEF PutBackAll, Leads, Through
<1>12. QED
  BY <1>5, <1>6, <1>7, <1>9, <1>10, <1>11 DEF LabelsInv

\* Which labels some items put down, and each once.
LEMMA LabelsAt ==
    ASSUME NEW items \in Seq(Items), NEW P,
           \A k \in 1 .. Len(items) : items[k].op = "label" <=> k \in P,
           P \subseteq 1 .. Len(items),
           \A j, k \in P : items[j].label = items[k].label => j = k
    PROVE  Once(items) /\ LabelsOf(items) = {items[k].label : k \in P}
<1>1. Once(items)
  BY DEF Once
<1>2. ASSUME NEW l \in LabelsOf(items)
      PROVE  \E k \in P : l = items[k].label
  <2>1. PICK k \in 1 .. Len(items) : items[k] = EmitLabel(l)
    BY DEF LabelsOf
  <2>2. items[k].op = "label" /\ items[k].label = l
    BY <2>1 DEF EmitLabel
  <2>3. QED
    BY <2>2
<1>3. ASSUME NEW k \in P
      PROVE  items[k].label \in LabelsOf(items)
  BY LabelIn
<1>4. QED
  BY <1>1, <1>2, <1>3

LEMMA AppendPut ==
    ASSUME NEW old \in Seq(Items), NEW items \in Seq(Items)
    PROVE  old \o items \in Seq(Items) /\ Put(old, old \o items, Len(old), 0, items)
<1>0. PICK a, m, new : a = Len(old) /\ m = Len(items) /\ new = old \o items
  OBVIOUS
<1>1. /\ a \in Nat /\ m \in Nat /\ new \in Seq(Items) /\ Len(new) = a + m
      /\ \A k \in 1 .. a + m : new[k] = IF k <= a THEN old[k] ELSE items[k - a]
  BY <1>0, ConcatIs
<1>2. ASSUME NEW k \in 1 .. Len(new)
      PROVE  new[k] = IF k <= a THEN old[k] ELSE IF k <= a + m THEN items[k - a]
                      ELSE old[k - m + 0]
  <2>1. k \in 1 .. a + m /\ k <= a + m
    BY <1>1
  <2>2. QED
    BY <1>1, <2>1
<1>3. a \in 0 .. Len(old) /\ 0 \in 0 .. Len(old) - a /\ Len(new) = Len(old) + Len(items) - 0
  BY <1>0, <1>1
<1>4. Put(old, new, a, 0, items)
  BY <1>0, <1>2, <1>3 DEF Put
<1>5. QED
  BY <1>0, <1>1, <1>4

LEMMA BeginKeeps ==
    ASSUME LabelsInv, BeginFunction
    PROVE  LabelsInv'
<1>1. /\ code \in Seq(Items) /\ pending = <<>> /\ next_label \in Nat /\ next_label >= 1
      /\ program \in Seq(Statements) /\ function \in 0 .. Len(program)
      /\ function < Len(program)
  BY DEF LabelsInv, Typed, BeginFunction
<1>2. /\ function' = function + 1 /\ function_end_label' = next_label
      /\ next_label' = next_label + 1
      /\ label_indices' = [name \in Names |-> 0] /\ labels' = {} /\ named_labels' = {}
      /\ pending' = <<EmitFunctionPreamble(function'), Call(program[function'], 0, 0),
                      EmitLabel(next_label), EmitFunctionPostamble>>
      /\ UNCHANGED <<program, code, inside>>
  BY DEF BeginFunction
<1>3. function' \in 1 .. Len(program) /\ function' \in Nat /\ program[function'] \in Statements
  BY <1>1, <1>2
<1>4. PICK items : items = pending'
  OBVIOUS
<1>5. /\ items \in Seq(Items) /\ Len(items) = 4
      /\ items[1].op = "preamble"
      /\ items[2].op = "statement" /\ items[2].leaves = 0 /\ items[2].again = 0
      /\ items[3].op = "label" /\ items[3].label = next_label
      /\ items[4].op = "postamble"
  <2>1. /\ EmitFunctionPreamble(function') \in Items /\ Call(program[function'], 0, 0) \in Items
        /\ EmitLabel(next_label) \in Items /\ EmitFunctionPostamble \in Items
    BY <1>1, <1>3, ItemsMade
  <2>2. /\ EmitFunctionPreamble(function').op = "preamble"
        /\ Call(program[function'], 0, 0).op = "statement"
        /\ Call(program[function'], 0, 0).leaves = 0
        /\ Call(program[function'], 0, 0).again = 0
        /\ EmitLabel(next_label).op = "label" /\ EmitLabel(next_label).label = next_label
        /\ EmitFunctionPostamble.op = "postamble"
    BY DEF EmitFunctionPreamble, Call, EmitLabel, EmitFunctionPostamble
  <2>3. QED
    BY <1>2, <1>4, <2>1, <2>2
<1>6. \A k \in 1 .. 4 : k = 1 \/ k = 2 \/ k = 3 \/ k = 4
  OBVIOUS
<1>7. Once(items) /\ LabelsOf(items) = {next_label}
  <2>1. \A k \in 1 .. Len(items) : items[k].op = "label" <=> k \in {3}
    BY <1>5, <1>6
  <2>2. {3} \subseteq 1 .. Len(items)
    BY <1>5
  <2>3. \A j, k \in {3} : items[j].label = items[k].label => j = k
    OBVIOUS
  <2>4. Once(items) /\ LabelsOf(items) = {items[k].label : k \in {3}}
    BY <1>5, <2>1, <2>2, <2>3, LabelsAt
  <2>5. QED
    BY <1>5, <2>4
<1>8. \A k \in 1 .. Len(items) : items[k].op \notin Jumps \cup Sets
  BY <1>5, <1>6 DEF Jumps, Sets
<1>9. Text = code /\ Text' = code \o items
  BY <1>1, <1>2, <1>4, EmptyIs DEF Text
<1>10. /\ Text \in Seq(Items) /\ Text' \in Seq(Items) /\ Put(Text, Text', Len(code), 0, items)
  BY <1>1, <1>5, <1>9, AppendPut
<1>11. Written' = Written \cup {next_label}
  <2>1. \A k \in Len(code) + 1 .. Len(code) + 0 : Text[k].op # "label"
    BY <1>1
  <2>2. QED
    BY <1>5, <1>7, <1>10, <2>1, LabelsPut DEF Written
<1>12. next_label \notin Written /\ 0 \notin Written' /\ Written' \subseteq 1 .. next_label' - 1
  <2>1. Written \subseteq 1 .. next_label - 1
    BY DEF LabelsInv, Placed
  <2>2. \A l \in 1 .. next_label - 1 :
            l \in Nat /\ l # 0 /\ l # next_label /\ l \in 1 .. next_label
    BY <1>1
  <2>3. next_label' - 1 = next_label
    BY <1>1, <1>2
  <2>4. next_label \in 1 .. next_label /\ next_label # 0
    BY <1>1
  <2>5. QED
    BY <1>11, <2>1, <2>2, <2>3, <2>4
<1>13. Typed'
  <2>1. next_label' \in Nat /\ next_label' >= 1
    BY <1>1, <1>2
  <2>2. function' \in 0 .. Len(program)
    BY <1>3
  <2>3. pending' \in Seq(Items)
    BY <1>4, <1>5
  <2>4. label_indices' \in [Names -> Nat]
    BY <1>2
  <2>5. loop_break_label' \in Nat /\ loop_continue_label' \in Nat
    BY <1>2 DEF LabelsInv, Typed, inside
  <2>6. QED
    BY <1>1, <1>2, <2>1, <2>2, <2>3, <2>4, <2>5 DEF LabelsInv, Typed
<1>14. Placed'
  <2>1. LabelsOf(Text) \cap LabelsOf(items) = {}
    BY <1>7, <1>12 DEF Written
  <2>2. Once(Text')
    BY <1>5, <1>7, <1>10, <2>1, OncePut DEF LabelsInv, Placed
  <2>3. QED
    BY <1>12, <2>2 DEF Placed, Once
<1>15. NamesPlaced'
  <2>1. next_label' \in Nat /\ next_label' > 0
    BY <1>1, <1>2
  <2>2. \A name \in Names : label_indices'[name] = 0
    BY <1>2
  <2>3. QED
    BY <1>2, <1>12, <2>1, <2>2 DEF NamesPlaced
<1>16. Aimed'
  <2>1. Promised \subseteq Written
    <3>1. named_labels \subseteq labels
      BY <1>1 DEF LabelsInv, Closed
    <3>2. QED
      BY <3>1 DEF LabelsInv, Typed, NamesPlaced, Promised
  <2>2. AllFit(Text, Written, {})
    <3>1. AllFit(Text, Written, Promised)
      BY DEF LabelsInv, Aimed
    <3>2. QED
      BY <2>1, <3>1 DEF AllFit, Fits
  <2>3. AllFit(items, Written', Promised')
    BY <1>8 DEF AllFit, Fits
  <2>4. Written \subseteq Written' /\ {} \subseteq Promised'
    BY <1>11
  <2>5. AllFit(Text', Written', Promised')
    BY <1>5, <1>10, <2>2, <2>3, <2>4, FitPut
  <2>6. \A op \in Sets : Around(op)' \in Written' \cup {0}
    BY <1>2, <2>4 DEF LabelsInv, Aimed, Around, inside
  <2>7. function_end_label' \in Written'
    BY <1>2, <1>11
  <2>8. QED
    BY <2>5, <2>6, <2>7 DEF Aimed, AllFit
<1>17. Closed'
  <2>1. items # <<>> /\ items[Len(items)].op = "postamble"
    BY <1>5, SMTT(30)
  <2>2. \A k \in 1 .. Len(items) - 1 : items[k].op # "postamble"
    BY <1>5, <1>6
  <2>3. QED
    BY <1>4, <2>1, <2>2 DEF Closed
<1>18. PutBackAll'
  <2>1. ASSUME NEW op \in Sets
        PROVE  Leads(pending', op, Around(op)', 0)
    <3>1. Leads(<<>>, op, Around(op), 0)
      BY <1>1 DEF LabelsInv, PutBackAll
    <3>2. Around(op) = 0 /\ Around(op)' = 0
      BY <1>2, <3>1, LeadsNowhere DEF Around, inside
    <3>3. \A k \in 1 .. Len(items) :
              /\ items[k].op # op
              /\ items[k].op = "statement" => KeptIn(items[k], op) = 0
      BY <1>5, <1>6, <1>8 DEF KeptIn
    <3>4. Leads(items, op, 0, 0)
      BY <1>5, <3>3, LeadsAlong
    <3>5. QED
      BY <1>4, <3>2, <3>4
  <2>2. QED
    BY <2>1 DEF PutBackAll, Leads, Through
<1>19. QED
  BY <1>13, <1>14, <1>15, <1>16, <1>17, <1>18 DEF LabelsInv

LEMMA InitLabels ==
    ASSUME GenInit
    PROVE  LabelsInv
<1>1. /\ program \in Seq(Statements) /\ function = 0 /\ code = <<>> /\ pending = <<>>
      /\ next_label = 1 /\ function_end_label = 0
      /\ loop_break_label = 0 /\ loop_continue_label = 0
      /\ label_indices = [name \in Names |-> 0] /\ labels = {} /\ named_labels = {}
  BY ProgramsAssumption DEF GenInit, ArePrograms
<1>2. Text = <<>>
  BY <1>1, EmptyIs DEF Text
<1>3. Written = {}
  BY <1>2, EmptyIs DEF Written
<1>4. Typed
  <2>1. Len(program) \in Nat
    BY <1>1
  <2>2. QED
    BY <1>1, <2>1, EmptyIs DEF Typed
<1>5. Placed
  BY <1>1, <1>2, <1>3, EmptyIs DEF Placed
<1>6. NamesPlaced
  <2>1. \A name \in Names : label_indices[name] = 0
    BY <1>1
  <2>2. \A name \in Names : name \notin labels /\ name \notin named_labels
    BY <1>1
  <2>3. next_label = 1
    BY <1>1
  <2>4. QED
    <3>1. ASSUME NEW name \in Names
          PROVE  /\ label_indices[name] < next_label
                 /\ name \in labels <=> label_indices[name] \in Written
                 /\ name \in named_labels => label_indices[name] # 0
                 /\ label_indices[name] # 0 => FALSE
      BY <1>3, <2>1, <2>2, <2>3
    <3>2. QED
      BY <3>1, Zenon DEF NamesPlaced
<1>7. Aimed
  BY <1>1, <1>2, EmptyIs DEF Aimed, Around
<1>8. Closed
  BY <1>1 DEF Closed
<1>9. PutBackAll
  <2>1. ASSUME NEW op \in Sets
        PROVE  Leads(<<>>, op, 0, 0)
    <3>1. /\ <<>> \in Seq(Items) /\ 0 \in Nat
          /\ \A k \in 1 .. Len(<<>>) :
                 <<>>[k].op # op /\ (<<>>[k].op = "statement" => KeptIn(<<>>[k], op) = 0)
      BY EmptyIs
    <3>2. QED
      BY <3>1, LeadsAlong
  <2>2. QED
    BY <1>1, <2>1 DEF PutBackAll, Around
<1>10. QED
  BY <1>4, <1>5, <1>6, <1>7, <1>8, <1>9 DEF LabelsInv

LEMMA LabelsAreRight ==
    ASSUME LabelsInv
    PROVE  JumpsFindTheirLabels
<1>1. ASSUME pending = <<>>, NEW k \in DOMAIN code, code[k].op \in Jumps
      PROVE  Cardinality(Places(code[k].label)) = 1
  <2>1. code \in Seq(Items) /\ DOMAIN code = 1 .. Len(code)
    BY DEF LabelsInv, Typed
  <2>2. Text = code
    BY <1>1, <2>1, EmptyIs DEF Text
  <2>3. Promised \subseteq Written
    <3>1. named_labels \subseteq labels
      BY <1>1 DEF LabelsInv, Closed
    <3>2. QED
      BY <3>1 DEF LabelsInv, Typed, NamesPlaced, Promised
  <2>4. code[k].label \in LabelsOf(code)
    BY <1>1, <2>1, <2>2, <2>3 DEF LabelsInv, Aimed, AllFit, Fits, Written
  <2>5. PICK j \in 1 .. Len(code) : code[j] = EmitLabel(code[k].label)
    BY <2>4 DEF LabelsOf
  <2>6. Places(code[k].label) = {j}
    <3>1. ASSUME NEW i \in 1 .. Len(code), code[i] = EmitLabel(code[k].label)
          PROVE  i = j
      <4>1. code[i].op = "label" /\ code[j].op = "label" /\ code[i].label = code[j].label
        BY <2>5, <3>1 DEF EmitLabel
      <4>2. QED
        BY <2>2, <4>1 DEF LabelsInv, Placed, Once
    <3>2. QED
      BY <2>1, <2>5, <3>1 DEF Places
  <2>7. QED
    BY <2>6, FS_Singleton
<1>2. ASSUME AtNext("statement")
      PROVE  /\ loop_break_label = Head(pending).leaves
             /\ loop_continue_label = Head(pending).again
  <2>1. pending \in Seq(Items) /\ pending # <<>> /\ Head(pending).op = "statement"
    BY <1>2 DEF AtNext, LabelsInv, Typed
  <2>2. \A op \in Sets : KeptIn(Head(pending), op) = Around(op)
    BY <2>1, LeadsBehind DEF LabelsInv, PutBackAll
  <2>3. QED
    BY <2>2 DEF Sets, KeptIn, Around
<1>3. ASSUME pending = <<>>
      PROVE  loop_break_label = 0 /\ loop_continue_label = 0
  <2>1. \A op \in Sets : Around(op) = 0
    BY <1>3, LeadsNowhere DEF LabelsInv, PutBackAll
  <2>2. QED
    BY <2>1 DEF Sets, Around
<1>4. QED
  BY <1>1, <1>2, <1>3 DEF JumpsFindTheirLabels, LabelsPlacedOnce, LabelsAreThoseAround

-----------------------------------------------------------------------------
(***************************************************************************)
(* The calls of GenStatement.                                              *)
(***************************************************************************)
Unmoved == UNCHANGED <<program, function, code, function_end_label, inside>>

LEMMA CallIs ==
    ASSUME LabelsInv, AtNext("statement")
    PROVE  /\ Head(pending).root \in Statements
           /\ Head(pending).leaves = loop_break_label /\ loop_break_label \in Nat
           /\ Head(pending).again = loop_continue_label /\ loop_continue_label \in Nat
           /\ loop_break_label \in Written \cup {0} /\ loop_continue_label \in Written \cup {0}
           /\ function_end_label \in Written /\ function_end_label \in Nat
           /\ next_label \in Nat /\ next_label >= 1
<1>1. pending \in Seq(Items) /\ pending # <<>> /\ Head(pending).op = "statement"
  BY DEF AtNext, LabelsInv, Typed
<1>2. Head(pending) \in Items
  BY <1>1, TailIs
<1>3. Head(pending).root \in Statements
  BY <1>1, <1>2, ItemIs
<1>4. \A op \in Sets : KeptIn(Head(pending), op) = Around(op) /\ Around(op) \in Written \cup {0}
  BY <1>1, LeadsBehind DEF LabelsInv, PutBackAll, Aimed
<1>5. /\ Head(pending).leaves = loop_break_label /\ Head(pending).again = loop_continue_label
      /\ loop_break_label \in Written \cup {0} /\ loop_continue_label \in Written \cup {0}
  BY <1>4 DEF Sets, KeptIn, Around
<1>6. QED
  BY <1>1, <1>3, <1>5 DEF LabelsInv, Typed, Aimed

\* The statements which ask for new labels, and put all they put down once.
LEMMA WritesKeeps ==
    ASSUME LabelsInv, AtNext("statement"), Unmoved,
           NEW n \in Nat, NEW items \in Seq(Items), Writes(n, items),
           Once(items), LabelsOf(items) \subseteq next_label .. next_label + n - 1,
           \A k \in 1 .. Len(items) :
               /\ items[k].op # "postamble"
               /\ items[k].op \in Jumps => items[k].label \in Written \cup LabelsOf(items)
               /\ items[k].op \in Sets =>
                      items[k].label \in Written \cup LabelsOf(items) \cup {0},
           \A op \in Sets : Leads(items, op, Around(op), Around(op))
    PROVE  LabelsInv'
<1>1. Does(n, items) /\ UNCHANGED named
  BY DEF Writes
<1>2. /\ next_label \in Nat /\ next_label >= 1 /\ label_indices \in [Names -> Nat]
      /\ labels \subseteq Names /\ named_labels \subseteq Names
      /\ Written \subseteq 1 .. next_label - 1
  BY DEF LabelsInv, Typed, Placed
<1>3. /\ label_indices' = label_indices /\ labels' = labels /\ named_labels' = named_labels
      /\ Promised' = Promised
  BY <1>1 DEF named, Promised
<1>4. LabelsOf(items) \cap Written = {} /\ LabelsOf(items) \subseteq 1 .. next_label + n - 1
  <2>1. \A l \in next_label .. next_label + n - 1 :
            l \notin 1 .. next_label - 1 /\ l \in 1 .. next_label + n - 1
    BY <1>2
  <2>2. QED
    BY <1>2, <2>1
<1>5. AllFit(items, Written \cup LabelsOf(items), Promised')
  BY DEF AllFit, Fits
<1>6. /\ Written' = Written \cup LabelsOf(items)
      /\ Typed' /\ Placed' /\ Aimed' /\ Closed' /\ PutBackAll'
  BY <1>1, <1>2, <1>3, <1>4, <1>5, PutDown DEF Unmoved
<1>7. NamesPlaced'
  <2>1. next_label' = next_label + n
    BY <1>1 DEF Does
  <2>2. ASSUME NEW name \in Names
        PROVE  /\ label_indices[name] \in Nat
               /\ label_indices[name] < next_label'
               /\ label_indices[name] \in Written' <=> label_indices[name] \in Written
    <3>1. label_indices[name] \in Nat /\ label_indices[name] < next_label
      BY <1>2 DEF LabelsInv, NamesPlaced
    <3>2. label_indices[name] \notin next_label .. next_label + n - 1
      BY <1>2, <3>1
    <3>3. QED
      BY <1>2, <1>6, <2>1, <3>1, <3>2
  <2>3. QED
    BY <1>3, <2>2 DEF LabelsInv, NamesPlaced
<1>8. QED
  BY <1>6, <1>7 DEF LabelsInv

\* What is around a statement is around those within it which are in no loop.
LEMMA AlongLeads ==
    ASSUME LabelsInv, AtNext("statement"), NEW items \in Seq(Items),
           \A k \in 1 .. Len(items) :
               /\ items[k].op \notin Sets
               /\ items[k].op = "statement" => /\ items[k].leaves = loop_break_label
                                               /\ items[k].again = loop_continue_label
    PROVE  \A op \in Sets : Leads(items, op, Around(op), Around(op))
<1>1. SUFFICES ASSUME NEW op \in Sets
               PROVE  Leads(items, op, Around(op), Around(op))
  OBVIOUS
<1>2. Around(op) \in Nat
  BY CallIs DEF Around
<1>3. \A k \in 1 .. Len(items) :
          /\ items[k].op # op
          /\ items[k].op = "statement" => KeptIn(items[k], op) = Around(op)
  BY DEF KeptIn, Around
<1>4. QED
  BY <1>2, <1>3, LeadsAlong

\* The statements which put down no label, and keep none.
LEMMA PlainKeeps ==
    ASSUME LabelsInv, AtNext("statement"), Unmoved,
           NEW items \in Seq(Items), Writes(0, items),
           \A k \in 1 .. Len(items) :
               /\ items[k].op \notin {"label", "postamble"} \cup Sets
               /\ items[k].op \in Jumps => items[k].label \in Written
               /\ items[k].op = "statement" => /\ items[k].leaves = loop_break_label
                                               /\ items[k].again = loop_continue_label
    PROVE  LabelsInv'
<1>1. LabelsOf(items) = {} /\ Once(items)
  BY DEF LabelsOf, Once, EmitLabel
<1>2. \A op \in Sets : Leads(items, op, Around(op), Around(op))
  BY AlongLeads
<1>3. LabelsOf(items) \subseteq next_label .. next_label + 0 - 1
  BY <1>1
<1>4. QED
  BY <1>1, <1>2, <1>3, WritesKeeps

\* What stands around a loop is put back by the last two of its items.
LEMMA LoopLeads ==
    ASSUME LabelsInv, AtNext("statement"), NEW items \in Seq(Items),
           NEW m \in Nat, Len(items) = m, m > 4,
           NEW leaves \in Nat, NEW again \in Nat,
           items[1] = SetBreak(leaves), items[2] = SetContinue(again),
           items[m - 1] = SetBreak(loop_break_label),
           items[m] = SetContinue(loop_continue_label),
           \A k \in 3 .. m - 2 :
               /\ items[k].op \notin Sets
               /\ items[k].op = "statement" =>
                      items[k].leaves = leaves /\ items[k].again = again
    PROVE  \A op \in Sets : Leads(items, op, Around(op), Around(op))
<1>1. loop_break_label \in Nat /\ loop_continue_label \in Nat
  BY CallIs
<1>2. /\ items[1].op = "set break" /\ items[1].label = leaves
      /\ items[2].op = "set continue" /\ items[2].label = again
      /\ items[m - 1].op = "set break" /\ items[m - 1].label = loop_break_label
      /\ items[m].op = "set continue" /\ items[m].label = loop_continue_label
  <2>1. /\ SetBreak(leaves).op = "set break" /\ SetBreak(leaves).label = leaves
        /\ SetContinue(again).op = "set continue" /\ SetContinue(again).label = again
        /\ SetBreak(loop_break_label).op = "set break"
        /\ SetBreak(loop_break_label).label = loop_break_label
        /\ SetContinue(loop_continue_label).op = "set continue"
        /\ SetContinue(loop_continue_label).label = loop_continue_label
    BY DEF SetBreak, SetContinue
  <2>2. QED
    BY <2>1
<1>3. /\ \A k \in 1 .. m : k = 1 \/ k = 2 \/ k = m - 1 \/ k = m \/ k \in 3 .. m - 2
      /\ 1 \in 1 .. m /\ 2 \in 1 .. m /\ m - 1 \in 1 .. m /\ m \in 1 .. m
      /\ 1 < m - 1 /\ 2 < m
      /\ \A k \in 3 .. m - 2 : 1 < k /\ k < m - 1 /\ 2 < k /\ k < m
  OBVIOUS
<1>4. Leads(items, "set break", loop_break_label, loop_break_label)
  <2>1. \A k \in 1 .. m :
            /\ items[k].op = "set break" => k \in {1, m - 1}
            /\ items[k].op = "statement" =>
                   KeptIn(items[k], "set break") =
                       IF 1 < k /\ k < m - 1 THEN leaves ELSE loop_break_label
    BY <1>2, <1>3 DEF Sets, KeptIn
  <2>2. "set break" \in Sets
    BY DEF Sets
  <2>3. PICK i, j : i = 1 /\ j = m - 1
    OBVIOUS
  <2>4. /\ i \in 1 .. Len(items) /\ j \in 1 .. Len(items) /\ i < j
        /\ items[i].op = "set break" /\ items[i].label = leaves
        /\ items[j].op = "set break" /\ items[j].label = loop_break_label
    BY <1>2, <1>3, <2>3
  <2>5. \A k \in 1 .. Len(items) :
            /\ items[k].op = "set break" => k \in {i, j}
            /\ items[k].op = "statement" =>
                   KeptIn(items[k], "set break") =
                       IF i < k /\ k < j THEN leaves ELSE loop_break_label
    BY <2>1, <2>3
  <2>6. QED
    BY <1>1, <2>2, <2>4, <2>5, LeadsAround, ZenonT(40)
<1>5. Leads(items, "set continue", loop_continue_label, loop_continue_label)
  <2>1. \A k \in 1 .. m :
            /\ items[k].op = "set continue" => k \in {2, m}
            /\ items[k].op = "statement" =>
                   KeptIn(items[k], "set continue") =
                       IF 2 < k /\ k < m THEN again ELSE loop_continue_label
    BY <1>2, <1>3 DEF Sets, KeptIn
  <2>2. "set continue" \in Sets
    BY DEF Sets
  <2>3. QED
    BY <1>1, <1>2, <1>3, <2>1, <2>2, LeadsAround, ZenonT(40)
<1>6. QED
  BY <1>4, <1>5 DEF Sets, Around

LEMMA IfKeeps ==
    ASSUME LabelsInv, AtNext("statement"), Unmoved,
           NEW root \in Statements, root.branches[1] \in Statements,
           Len(root.branches) = 1, GenIf(root, Head(pending))
    PROVE  LabelsInv'
<1>1. PICK f : f = next_label
  OBVIOUS
<1>2. /\ f \in Nat
      /\ {f} \subseteq next_label .. next_label + 1 - 1
  BY <1>1, CallIs
<1>3. PICK items : items =
          <<GenCondition(root.event, f),
            Call(root.branches[1], loop_break_label, loop_continue_label), EmitLabel(f)>>
  OBVIOUS
<1>4. Writes(1, items)
  BY <1>1, <1>3, CallIs DEF GenIf, NewLabel, Within
<1>5. /\ items \in Seq(Items) /\ Len(items) = 3
      /\ items[1] = GenCondition(root.event, f)
      /\ items[2] = Call(root.branches[1], loop_break_label, loop_continue_label)
      /\ items[3] = EmitLabel(f)
  BY <1>2, <1>3, CallIs, ItemsMade
<1>6. \A k \in 1 .. 3 : k = 1 \/ k = 2 \/ k = 3
  OBVIOUS
<1>7. /\ items[1].op = "test" /\ items[1].label = f
      /\ items[2].op = "statement"
      /\ items[2].leaves = loop_break_label
      /\ items[2].again = loop_continue_label
      /\ items[3].op = "label" /\ items[3].label = f
  <2>1. /\ GenCondition(root.event, f).op = "test"
        /\ GenCondition(root.event, f).label = f
        /\ Call(root.branches[1], loop_break_label, loop_continue_label).op = "statement"
        /\ Call(root.branches[1], loop_break_label, loop_continue_label).leaves
               = loop_break_label
        /\ Call(root.branches[1], loop_break_label, loop_continue_label).again
               = loop_continue_label
        /\ EmitLabel(f).op = "label"
        /\ EmitLabel(f).label = f
    BY DEF Call, EmitLabel, GenCondition
  <2>2. QED
    BY <1>5, <2>1
<1>8. Once(items) /\ LabelsOf(items) = {f}
  <2>1. PICK P : P = {3}
    OBVIOUS
  <2>2. \A k \in 1 .. Len(items) : items[k].op = "label" <=> k \in P
    BY <1>5, <1>6, <1>7, <2>1
  <2>3. P \subseteq 1 .. Len(items)
    BY <1>5, <2>1
  <2>4. \A j, k \in P : items[j].label = items[k].label => j = k
    BY <2>1
  <2>5. Once(items) /\ LabelsOf(items) = {items[k].label : k \in P}
    BY <1>5, <2>2, <2>3, <2>4, LabelsAt
  <2>6. QED
    BY <1>7, <2>1, <2>5
<1>9. \A op \in Sets : Leads(items, op, Around(op), Around(op))
  <2>1. \A k \in 1 .. Len(items) :
            /\ items[k].op \notin Sets
            /\ items[k].op = "statement" => /\ items[k].leaves = loop_break_label
                                            /\ items[k].again = loop_continue_label
    BY <1>5, <1>6, <1>7 DEF Sets
  <2>2. QED
    BY <1>5, <2>1, AlongLeads
<1>10. \A k \in 1 .. Len(items) :
           /\ items[k].op # "postamble"
           /\ items[k].op \in Jumps => items[k].label \in Written \cup LabelsOf(items)
           /\ items[k].op \in Sets =>
                  items[k].label \in Written \cup LabelsOf(items) \cup {0}
  BY <1>5, <1>6, <1>7, <1>8, CallIs DEF Jumps, Sets
<1>11. QED
  BY <1>2, <1>4, <1>5, <1>8, <1>9, <1>10, WritesKeeps

LEMMA IfElseKeeps ==
    ASSUME LabelsInv, AtNext("statement"), Unmoved,
           NEW root \in Statements, root.branches[1] \in Statements,
           root.branches[2] \in Statements, Len(root.branches) = 2, GenIf(root, Head(pending))
    PROVE  LabelsInv'
<1>1. PICK f, e : f = next_label /\ e = next_label + 1
  OBVIOUS
<1>2. /\ f \in Nat /\ e \in Nat
      /\ f # e
      /\ {f, e} \subseteq next_label .. next_label + 2 - 1
  BY <1>1, CallIs
<1>3. PICK items : items =
          <<GenCondition(root.event, f),
            Call(root.branches[1], loop_break_label, loop_continue_label), EmitJump(e),
            EmitLabel(f), Call(root.branches[2], loop_break_label, loop_continue_label),
            EmitLabel(e)>>
  OBVIOUS
<1>4. Writes(2, items)
  BY <1>1, <1>3, CallIs DEF GenIf, NewLabel, Within
<1>5. /\ items \in Seq(Items) /\ Len(items) = 6
      /\ items[1] = GenCondition(root.event, f)
      /\ items[2] = Call(root.branches[1], loop_break_label, loop_continue_label)
      /\ items[3] = EmitJump(e)
      /\ items[4] = EmitLabel(f)
      /\ items[5] = Call(root.branches[2], loop_break_label, loop_continue_label)
      /\ items[6] = EmitLabel(e)
  BY <1>2, <1>3, CallIs, ItemsMade
<1>6. \A k \in 1 .. 6 : k = 1 \/ k = 2 \/ k = 3 \/ k = 4 \/ k = 5 \/ k = 6
  OBVIOUS
<1>7. /\ items[1].op = "test" /\ items[1].label = f
      /\ items[2].op = "statement"
      /\ items[2].leaves = loop_break_label
      /\ items[2].again = loop_continue_label
      /\ items[3].op = "jump" /\ items[3].label = e
      /\ items[4].op = "label" /\ items[4].label = f
      /\ items[5].op = "statement"
      /\ items[5].leaves = loop_break_label
      /\ items[5].again = loop_continue_label
      /\ items[6].op = "label" /\ items[6].label = e
  <2>1. /\ GenCondition(root.event, f).op = "test"
        /\ GenCondition(root.event, f).label = f
        /\ Call(root.branches[1], loop_break_label, loop_continue_label).op = "statement"
        /\ Call(root.branches[1], loop_break_label, loop_continue_label).leaves
               = loop_break_label
        /\ Call(root.branches[1], loop_break_label, loop_continue_label).again
               = loop_continue_label
        /\ EmitJump(e).op = "jump"
        /\ EmitJump(e).label = e
        /\ EmitLabel(f).op = "label"
        /\ EmitLabel(f).label = f
        /\ Call(root.branches[2], loop_break_label, loop_continue_label).op = "statement"
        /\ Call(root.branches[2], loop_break_label, loop_continue_label).leaves
               = loop_break_label
        /\ Call(root.branches[2], loop_break_label, loop_continue_label).again
               = loop_continue_label
        /\ EmitLabel(e).op = "label"
        /\ EmitLabel(e).label = e
    BY DEF Call, EmitLabel, EmitJump, GenCondition
  <2>2. QED
    BY <1>5, <2>1
<1>8. Once(items) /\ LabelsOf(items) = {f, e}
  <2>1. PICK P : P = {4, 6}
    OBVIOUS
  <2>2. \A k \in 1 .. Len(items) : items[k].op = "label" <=> k \in P
    BY <1>5, <1>6, <1>7, <2>1
  <2>3. P \subseteq 1 .. Len(items)
    BY <1>5, <2>1
  <2>4. \A j, k \in P : items[j].label = items[k].label => j = k
    <3>1. items[4].label # items[6].label
      BY <1>2, <1>7
    <3>2. QED
      BY <2>1, <3>1
  <2>5. Once(items) /\ LabelsOf(items) = {items[k].label : k \in P}
    BY <1>5, <2>2, <2>3, <2>4, LabelsAt
  <2>6. QED
    BY <1>7, <2>1, <2>5
<1>9. \A op \in Sets : Leads(items, op, Around(op), Around(op))
  <2>1. \A k \in 1 .. Len(items) :
            /\ items[k].op \notin Sets
            /\ items[k].op = "statement" => /\ items[k].leaves = loop_break_label
                                            /\ items[k].again = loop_continue_label
    BY <1>5, <1>6, <1>7 DEF Sets
  <2>2. QED
    BY <1>5, <2>1, AlongLeads
<1>10. \A k \in 1 .. Len(items) :
           /\ items[k].op # "postamble"
           /\ items[k].op \in Jumps => items[k].label \in Written \cup LabelsOf(items)
           /\ items[k].op \in Sets =>
                  items[k].label \in Written \cup LabelsOf(items) \cup {0}
  BY <1>5, <1>6, <1>7, <1>8, CallIs DEF Jumps, Sets
<1>11. QED
  BY <1>2, <1>4, <1>5, <1>8, <1>9, <1>10, WritesKeeps

LEMMA WhileKeeps ==
    ASSUME LabelsInv, AtNext("statement"), Unmoved,
           NEW root \in Statements, root.body \in Statements, GenWhile(root)
    PROVE  LabelsInv'
<1>1. PICK s, e : s = next_label /\ e = next_label + 1
  OBVIOUS
<1>2. /\ s \in Nat /\ e \in Nat
      /\ s # e
      /\ {s, e} \subseteq next_label .. next_label + 2 - 1
  BY <1>1, CallIs
<1>3. PICK items : items =
          <<SetBreak(e), SetContinue(s), EmitLabel(s), GenCondition(root.event, e),
            Call(root.body, e, s), EmitJump(s), EmitLabel(e), SetBreak(loop_break_label),
            SetContinue(loop_continue_label)>>
  OBVIOUS
<1>4. Writes(2, items)
  BY <1>1, <1>3, CallIs DEF GenWhile, NewLabel
<1>5. /\ items \in Seq(Items) /\ Len(items) = 9
      /\ items[1] = SetBreak(e)
      /\ items[2] = SetContinue(s)
      /\ items[3] = EmitLabel(s)
      /\ items[4] = GenCondition(root.event, e)
      /\ items[5] = Call(root.body, e, s)
      /\ items[6] = EmitJump(s)
      /\ items[7] = EmitLabel(e)
      /\ items[8] = SetBreak(loop_break_label)
      /\ items[9] = SetContinue(loop_continue_label)
  BY <1>2, <1>3, CallIs, ItemsMade
<1>6. \A k \in 1 .. 9 : \/ k = 1 \/ k = 2 \/ k = 3 \/ k = 4 \/ k = 5
                    \/ k = 6 \/ k = 7 \/ k = 8 \/ k = 9
  OBVIOUS
<1>7. /\ items[1].op = "set break" /\ items[1].label = e
      /\ items[2].op = "set continue" /\ items[2].label = s
      /\ items[3].op = "label" /\ items[3].label = s
      /\ items[4].op = "test" /\ items[4].label = e
      /\ items[5].op = "statement" /\ items[5].leaves = e /\ items[5].again = s
      /\ items[6].op = "jump" /\ items[6].label = s
      /\ items[7].op = "label" /\ items[7].label = e
      /\ items[8].op = "set break" /\ items[8].label = loop_break_label
      /\ items[9].op = "set continue" /\ items[9].label = loop_continue_label
  <2>1. /\ SetBreak(e).op = "set break"
        /\ SetBreak(e).label = e
        /\ SetContinue(s).op = "set continue"
        /\ SetContinue(s).label = s
        /\ EmitLabel(s).op = "label"
        /\ EmitLabel(s).label = s
        /\ GenCondition(root.event, e).op = "test"
        /\ GenCondition(root.event, e).label = e
        /\ Call(root.body, e, s).op = "statement"
        /\ Call(root.body, e, s).leaves = e
        /\ Call(root.body, e, s).again = s
        /\ EmitJump(s).op = "jump"
        /\ EmitJump(s).label = s
        /\ EmitLabel(e).op = "label"
        /\ EmitLabel(e).label = e
        /\ SetBreak(loop_break_label).op = "set break"
        /\ SetBreak(loop_break_label).label = loop_break_label
        /\ SetContinue(loop_continue_label).op = "set continue"
        /\ SetContinue(loop_continue_label).label = loop_continue_label
    BY DEF Call, SetBreak, SetContinue, EmitLabel, EmitJump, GenCondition
  <2>2. QED
    BY <1>5, <2>1
<1>8. Once(items) /\ LabelsOf(items) = {s, e}
  <2>1. PICK P : P = {3, 7}
    OBVIOUS
  <2>2. \A k \in 1 .. Len(items) : items[k].op = "label" <=> k \in P
    BY <1>5, <1>6, <1>7, <2>1
  <2>3. P \subseteq 1 .. Len(items)
    BY <1>5, <2>1
  <2>4. \A j, k \in P : items[j].label = items[k].label => j = k
    <3>1. items[3].label # items[7].label
      BY <1>2, <1>7
    <3>2. QED
      BY <2>1, <3>1
  <2>5. Once(items) /\ LabelsOf(items) = {items[k].label : k \in P}
    BY <1>5, <2>2, <2>3, <2>4, LabelsAt
  <2>6. QED
    BY <1>7, <2>1, <2>5, ZenonT(40)
<1>9. \A op \in Sets : Leads(items, op, Around(op), Around(op))
  <2>1. \A k \in 3 .. 9 - 2 : k = 3 \/ k = 4 \/ k = 5 \/ k = 6 \/ k = 7
    OBVIOUS
  <2>2. \A k \in 3 .. 9 - 2 :
            /\ items[k].op \notin Sets
            /\ items[k].op = "statement" => items[k].leaves = e /\ items[k].again = s
    BY <1>7, <2>1 DEF Sets
  <2>3. 9 \in Nat /\ 9 > 4 /\ 9 - 1 = 8
    OBVIOUS
  <2>4. QED
    BY <1>2, <1>5, <2>2, <2>3, LoopLeads
<1>10. \A k \in 1 .. Len(items) :
           /\ items[k].op # "postamble"
           /\ items[k].op \in Jumps => items[k].label \in Written \cup LabelsOf(items)
           /\ items[k].op \in Sets =>
                  items[k].label \in Written \cup LabelsOf(items) \cup {0}
  BY <1>5, <1>6, <1>7, <1>8, CallIs DEF Jumps, Sets
<1>11. QED
  BY <1>2, <1>4, <1>5, <1>8, <1>9, <1>10, WritesKeeps

LEMMA DoKeeps ==
    ASSUME LabelsInv, AtNext("statement"), Unmoved,
           NEW root \in Statements, root.body \in Statements, GenDoWhile(root)
    PROVE  LabelsInv'
<1>1. PICK s, e, p : s = next_label /\ e = next_label + 1 /\ p = next_label + 2
  OBVIOUS
<1>2. /\ s \in Nat /\ e \in Nat /\ p \in Nat
      /\ s # e /\ s # p /\ e # p
      /\ {s, e, p} \subseteq next_label .. next_label + 3 - 1
  BY <1>1, CallIs
<1>3. PICK items : items =
          <<SetBreak(e), SetContinue(p), EmitLabel(s), Call(root.body, e, p), EmitLabel(p),
            GenCondition(root.event, e), EmitJump(s), EmitLabel(e),
            SetBreak(loop_break_label), SetContinue(loop_continue_label)>>
  OBVIOUS
<1>4. Writes(3, items)
  BY <1>1, <1>3, CallIs DEF GenDoWhile, NewLabel
<1>5. /\ items \in Seq(Items) /\ Len(items) = 10
      /\ items[1] = SetBreak(e)
      /\ items[2] = SetContinue(p)
      /\ items[3] = EmitLabel(s)
      /\ items[4] = Call(root.body, e, p)
      /\ items[5] = EmitLabel(p)
      /\ items[6] = GenCondition(root.event, e)
      /\ items[7] = EmitJump(s)
      /\ items[8] = EmitLabel(e)
      /\ items[9] = SetBreak(loop_break_label)
      /\ items[10] = SetContinue(loop_continue_label)
  BY <1>2, <1>3, CallIs, ItemsMade
<1>6. \A k \in 1 .. 10 : \/ k = 1 \/ k = 2 \/ k = 3 \/ k = 4 \/ k = 5
                     \/ k = 6 \/ k = 7 \/ k = 8 \/ k = 9 \/ k = 10
  OBVIOUS
<1>7. /\ items[1].op = "set break" /\ items[1].label = e
      /\ items[2].op = "set continue" /\ items[2].label = p
      /\ items[3].op = "label" /\ items[3].label = s
      /\ items[4].op = "statement" /\ items[4].leaves = e /\ items[4].again = p
      /\ items[5].op = "label" /\ items[5].label = p
      /\ items[6].op = "test" /\ items[6].label = e
      /\ items[7].op = "jump" /\ items[7].label = s
      /\ items[8].op = "label" /\ items[8].label = e
      /\ items[9].op = "set break" /\ items[9].label = loop_break_label
      /\ items[10].op = "set continue" /\ items[10].label = loop_continue_label
  <2>1. /\ SetBreak(e).op = "set break"
        /\ SetBreak(e).label = e
        /\ SetContinue(p).op = "set continue"
        /\ SetContinue(p).label = p
        /\ EmitLabel(s).op = "label"
        /\ EmitLabel(s).label = s
        /\ Call(root.body, e, p).op = "statement"
        /\ Call(root.body, e, p).leaves = e
        /\ Call(root.body, e, p).again = p
        /\ EmitLabel(p).op = "label"
        /\ EmitLabel(p).label = p
        /\ GenCondition(root.event, e).op = "test"
        /\ GenCondition(root.event, e).label = e
        /\ EmitJump(s).op = "jump"
        /\ EmitJump(s).label = s
        /\ EmitLabel(e).op = "label"
        /\ EmitLabel(e).label = e
        /\ SetBreak(loop_break_label).op = "set break"
        /\ SetBreak(loop_break_label).label = loop_break_label
        /\ SetContinue(loop_continue_label).op = "set continue"
        /\ SetContinue(loop_continue_label).label = loop_continue_label
    BY DEF Call, SetBreak, SetContinue, EmitLabel, EmitJump, GenCondition
  <2>2. QED
    BY <1>5, <2>1
<1>8. Once(items) /\ LabelsOf(items) = {s, e, p}
  <2>1. PICK P : P = {3, 5, 8}
    OBVIOUS
  <2>2. \A k \in 1 .. Len(items) : items[k].op = "label" <=> k \in P
    BY <1>5, <1>6, <1>7, <2>1
  <2>3. P \subseteq 1 .. Len(items)
    BY <1>5, <2>1
  <2>4. \A j, k \in P : items[j].label = items[k].label => j = k
    <3>1. /\ items[3].label # items[5].label
          /\ items[3].label # items[8].label
          /\ items[5].label # items[8].label
      BY <1>2, <1>7
    <3>2. QED
      BY <2>1, <3>1
  <2>5. Once(items) /\ LabelsOf(items) = {items[k].label : k \in P}
    BY <1>5, <2>2, <2>3, <2>4, LabelsAt
  <2>6. QED
    BY <1>7, <2>1, <2>5, ZenonT(40)
<1>9. \A op \in Sets : Leads(items, op, Around(op), Around(op))
  <2>1. \A k \in 3 .. 10 - 2 : k = 3 \/ k = 4 \/ k = 5 \/ k = 6 \/ k = 7 \/ k = 8
    OBVIOUS
  <2>2. \A k \in 3 .. 10 - 2 :
            /\ items[k].op \notin Sets
            /\ items[k].op = "statement" => items[k].leaves = e /\ items[k].again = p
    BY <1>7, <2>1 DEF Sets
  <2>3. 10 \in Nat /\ 10 > 4 /\ 10 - 1 = 9
    OBVIOUS
  <2>4. QED
    BY <1>2, <1>5, <2>2, <2>3, LoopLeads
<1>10. \A k \in 1 .. Len(items) :
           /\ items[k].op # "postamble"
           /\ items[k].op \in Jumps => items[k].label \in Written \cup LabelsOf(items)
           /\ items[k].op \in Sets =>
                  items[k].label \in Written \cup LabelsOf(items) \cup {0}
  BY <1>5, <1>6, <1>7, <1>8, CallIs DEF Jumps, Sets
<1>11. QED
  BY <1>2, <1>4, <1>5, <1>8, <1>9, <1>10, WritesKeeps

LEMMA ForStepKeeps ==
    ASSUME LabelsInv, AtNext("statement"), Unmoved,
           NEW root \in Statements, root.body \in Statements,
           root.step[1] \in Statements, root.step # <<>>, GenFor(root)
    PROVE  LabelsInv'
<1>1. PICK s, e, p : s = next_label /\ e = next_label + 1 /\ p = next_label + 2
  OBVIOUS
<1>2. /\ s \in Nat /\ e \in Nat /\ p \in Nat
      /\ s # e /\ s # p /\ e # p
      /\ {s, e, p} \subseteq next_label .. next_label + 3 - 1
  BY <1>1, CallIs
<1>3. PICK items : items =
          <<SetBreak(e), SetContinue(p), EmitLabel(s), GenCondition(root.event, e),
            Call(root.body, e, p), EmitLabel(p), Call(root.step[1], e, p), EmitJump(s),
            EmitLabel(e), SetBreak(loop_break_label), SetContinue(loop_continue_label)>>
  OBVIOUS
<1>4. Writes(3, items)
  <2>1. s = NewLabel(0) /\ e = NewLabel(1) /\ p = NewLabel(2)
    BY <1>1, CallIs DEF NewLabel
  <2>2. QED
    BY <1>3, <2>1, Zenon DEF GenFor
<1>5. /\ items \in Seq(Items) /\ Len(items) = 11
      /\ items[1] = SetBreak(e)
      /\ items[2] = SetContinue(p)
      /\ items[3] = EmitLabel(s)
      /\ items[4] = GenCondition(root.event, e)
      /\ items[5] = Call(root.body, e, p)
      /\ items[6] = EmitLabel(p)
      /\ items[7] = Call(root.step[1], e, p)
      /\ items[8] = EmitJump(s)
      /\ items[9] = EmitLabel(e)
      /\ items[10] = SetBreak(loop_break_label)
      /\ items[11] = SetContinue(loop_continue_label)
  BY <1>2, <1>3, CallIs, ItemsMade
<1>6. \A k \in 1 .. 11 : \/ k = 1 \/ k = 2 \/ k = 3 \/ k = 4 \/ k = 5 \/ k = 6
                     \/ k = 7 \/ k = 8 \/ k = 9 \/ k = 10 \/ k = 11
  OBVIOUS
<1>7. /\ items[1].op = "set break" /\ items[1].label = e
      /\ items[2].op = "set continue" /\ items[2].label = p
      /\ items[3].op = "label" /\ items[3].label = s
      /\ items[4].op = "test" /\ items[4].label = e
      /\ items[5].op = "statement" /\ items[5].leaves = e /\ items[5].again = p
      /\ items[6].op = "label" /\ items[6].label = p
      /\ items[7].op = "statement" /\ items[7].leaves = e /\ items[7].again = p
      /\ items[8].op = "jump" /\ items[8].label = s
      /\ items[9].op = "label" /\ items[9].label = e
      /\ items[10].op = "set break" /\ items[10].label = loop_break_label
      /\ items[11].op = "set continue" /\ items[11].label = loop_continue_label
  <2>1. /\ SetBreak(e).op = "set break"
        /\ SetBreak(e).label = e
        /\ SetContinue(p).op = "set continue"
        /\ SetContinue(p).label = p
        /\ EmitLabel(s).op = "label"
        /\ EmitLabel(s).label = s
        /\ GenCondition(root.event, e).op = "test"
        /\ GenCondition(root.event, e).label = e
        /\ Call(root.body, e, p).op = "statement"
        /\ Call(root.body, e, p).leaves = e
        /\ Call(root.body, e, p).again = p
        /\ EmitLabel(p).op = "label"
        /\ EmitLabel(p).label = p
        /\ Call(root.step[1], e, p).op = "statement"
        /\ Call(root.step[1], e, p).leaves = e
        /\ Call(root.step[1], e, p).again = p
        /\ EmitJump(s).op = "jump"
        /\ EmitJump(s).label = s
        /\ EmitLabel(e).op = "label"
        /\ EmitLabel(e).label = e
        /\ SetBreak(loop_break_label).op = "set break"
        /\ SetBreak(loop_break_label).label = loop_break_label
        /\ SetContinue(loop_continue_label).op = "set continue"
        /\ SetContinue(loop_continue_label).label = loop_continue_label
    BY DEF Call, SetBreak, SetContinue, EmitLabel, EmitJump, GenCondition
  <2>2. QED
    BY <1>5, <2>1
<1>8. Once(items) /\ LabelsOf(items) = {s, e, p}
  <2>1. PICK P : P = {3, 6, 9}
    OBVIOUS
  <2>2. \A k \in 1 .. Len(items) : items[k].op = "label" <=> k \in P
    BY <1>5, <1>6, <1>7, <2>1
  <2>3. P \subseteq 1 .. Len(items)
    BY <1>5, <2>1
  <2>4. \A j, k \in P : items[j].label = items[k].label => j = k
    <3>1. /\ items[3].label # items[6].label
          /\ items[3].label # items[9].label
          /\ items[6].label # items[9].label
      BY <1>2, <1>7
    <3>2. QED
      BY <2>1, <3>1
  <2>5. Once(items) /\ LabelsOf(items) = {items[k].label : k \in P}
    BY <1>5, <2>2, <2>3, <2>4, LabelsAt
  <2>6. QED
    BY <1>7, <2>1, <2>5, ZenonT(40)
<1>9. \A op \in Sets : Leads(items, op, Around(op), Around(op))
  <2>1. \A k \in 3 .. 11 - 2 : k = 3 \/ k = 4 \/ k = 5 \/ k = 6 \/ k = 7 \/ k = 8 \/ k = 9
    OBVIOUS
  <2>2. \A k \in 3 .. 11 - 2 :
            /\ items[k].op \notin Sets
            /\ items[k].op = "statement" => items[k].leaves = e /\ items[k].again = p
    BY <1>7, <2>1 DEF Sets
  <2>3. 11 \in Nat /\ 11 > 4 /\ 11 - 1 = 10
    OBVIOUS
  <2>4. QED
    BY <1>2, <1>5, <2>2, <2>3, LoopLeads
<1>10. \A k \in 1 .. Len(items) :
           /\ items[k].op # "postamble"
           /\ items[k].op \in Jumps => items[k].label \in Written \cup LabelsOf(items)
           /\ items[k].op \in Sets =>
                  items[k].label \in Written \cup LabelsOf(items) \cup {0}
  BY <1>5, <1>6, <1>7, <1>8, CallIs DEF Jumps, Sets
<1>11. QED
  BY <1>2, <1>4, <1>5, <1>8, <1>9, <1>10, WritesKeeps

\* A name which is seen: its label, and that of every other one.
LEMMA NameSeen ==
    ASSUME LabelsInv, NEW name \in Names, NEW items, WritesNamed(name, items)
    PROVE  \E d \in Nat, l \in Nat :
               /\ l = LabelIndex(name) /\ Does(d, items)
               /\ next_label' = next_label + d /\ l >= 1 /\ l <= next_label + d - 1
               /\ label_indices' = [label_indices EXCEPT ![name] = l]
               /\ label_indices' \in [Names -> Nat] /\ label_indices'[name] = l
               /\ label_indices[name] # 0 => label_indices[name] = l
               /\ \A other \in Names :
                      other # name => /\ label_indices'[other] = label_indices[other]
                                      /\ label_indices[other] # l
               /\ l \in Written <=> name \in labels
<1>1. /\ next_label \in Nat /\ next_label >= 1 /\ label_indices \in [Names -> Nat]
      /\ Written \subseteq 1 .. next_label - 1
      /\ label_indices[name] \in Nat /\ label_indices[name] < next_label
      /\ name \in labels <=> label_indices[name] \in Written
      /\ \A other \in Names :
             /\ label_indices[other] < next_label
             /\ label_indices[other] = label_indices[name] /\ label_indices[name] # 0 =>
                    other = name
  BY DEF LabelsInv, Typed, Placed, NamesPlaced
<1>2. PICK l : l = LabelIndex(name)
  OBVIOUS
<1>3. PICK d : d = IF l = next_label THEN 1 ELSE 0
  OBVIOUS
<1>4. /\ Does(d, items) /\ next_label' = next_label + d
      /\ label_indices' = [label_indices EXCEPT ![name] = l]
  BY <1>2, <1>3 DEF WritesNamed, Does
<1>5. l = IF label_indices[name] # 0 THEN label_indices[name] ELSE next_label
  BY <1>2 DEF LabelIndex
<1>6. d \in Nat /\ l \in Nat /\ l >= 1 /\ l <= next_label + d - 1
  BY <1>1, <1>3, <1>5
<1>7. /\ label_indices' \in [Names -> Nat] /\ label_indices'[name] = l
      /\ \A other \in Names : other # name => label_indices'[other] = label_indices[other]
  BY <1>1, <1>4, <1>6
<1>8. \A other \in Names : other # name => label_indices[other] # l
  BY <1>1, <1>5
<1>9. l \in Written <=> name \in labels
  <2>1. 0 \notin Written /\ next_label \notin Written
    BY <1>1
  <2>2. CASE label_indices[name] = 0
    BY <1>1, <1>5, <2>1, <2>2
  <2>3. CASE label_indices[name] # 0
    BY <1>1, <1>5, <2>3
  <2>4. QED
    BY <2>2, <2>3
<1>10. label_indices[name] # 0 => label_indices[name] = l
  BY <1>5
<1>11. QED
  BY <1>2, <1>4, <1>6, <1>7, <1>8, <1>9, <1>10

\* After it every name has a label of its own still, whether or not the label
\* was put down.
LEMMA NamesStillPlaced ==
    ASSUME LabelsInv, NEW name \in Names, NEW items, WritesNamed(name, items),
           named_labels' \subseteq named_labels \cup {name},
           \/ labels' = labels /\ Written' = Written
           \/ labels' = labels \cup {name} /\ Written' = Written \cup {LabelIndex(name)}
    PROVE  NamesPlaced'
<1>1. PICK d \in Nat, l \in Nat :
          /\ l = LabelIndex(name)
          /\ next_label' = next_label + d /\ l >= 1 /\ l <= next_label + d - 1
          /\ label_indices'[name] = l
          /\ \A other \in Names :
                 other # name => /\ label_indices'[other] = label_indices[other]
                                 /\ label_indices[other] # l
          /\ l \in Written <=> name \in labels
  BY NameSeen
<1>2. next_label \in Nat /\ label_indices \in [Names -> Nat]
  BY DEF LabelsInv, Typed
<1>3. ASSUME NEW n \in Names
      PROVE  /\ label_indices'[n] < next_label'
             /\ n \in labels' <=> label_indices'[n] \in Written'
             /\ n \in named_labels' => label_indices'[n] # 0
  <2>1. CASE n = name
    BY <1>1, <1>2, <2>1
  <2>2. CASE n # name
    <3>1. /\ label_indices'[n] = label_indices[n] /\ label_indices[n] \in Nat
          /\ label_indices[n] # l
      BY <1>1, <1>2, <2>2
    <3>2. label_indices'[n] < next_label'
      <4>1. label_indices[n] < next_label
        BY DEF LabelsInv, NamesPlaced
      <4>2. QED
        BY <1>1, <1>2, <3>1, <4>1
    <3>3. /\ n \in labels <=> label_indices[n] \in Written
          /\ n \in named_labels => label_indices[n] # 0
      BY DEF LabelsInv, NamesPlaced
    <3>4. QED
      BY <1>1, <2>2, <3>1, <3>2, <3>3
  <2>3. QED
    BY <2>1, <2>2
<1>4. ASSUME NEW n \in Names, NEW other \in Names,
             label_indices'[other] = label_indices'[n], label_indices'[n] # 0
      PROVE  other = n
  BY <1>1, <1>4 DEF LabelsInv, NamesPlaced
<1>5. QED
  BY <1>3, <1>4 DEF NamesPlaced

\* A goto may give a name which is still to come, and promises its label.
LEMMA GotoKeeps ==
    ASSUME LabelsInv, AtNext("statement"), Unmoved,
           NEW root \in Statements, root.name \in Names, GenGoto(root)
    PROVE  LabelsInv'
<1>1. PICK name, jump, items :
          /\ name = root.name
          /\ jump = [op |-> "goto", event |-> root.event, label |-> LabelIndex(root.name)]
          /\ items = <<jump>>
  OBVIOUS
<1>2. /\ WritesNamed(name, items) /\ name \in Names
      /\ named_labels' = named_labels \cup {name} /\ labels' = labels
  BY <1>1 DEF GenGoto
<1>3. PICK d \in Nat, l \in Nat :
          /\ l = LabelIndex(name) /\ Does(d, items)
          /\ next_label' = next_label + d /\ l >= 1 /\ l <= next_label + d - 1
          /\ label_indices' \in [Names -> Nat] /\ label_indices'[name] = l
          /\ label_indices[name] # 0 => label_indices[name] = l
          /\ \A other \in Names :
                 other # name => /\ label_indices'[other] = label_indices[other]
                                 /\ label_indices[other] # l
          /\ l \in Written <=> name \in labels
  BY <1>2, NameSeen
<1>4. /\ items \in Seq(Items) /\ Len(items) = 1 /\ items[1] = jump
  <2>1. jump \in Items
    BY <1>1, <1>3, ItemsMade
  <2>2. QED
    BY <1>1, <2>1
<1>5. jump.op = "goto" /\ jump.label = l
  BY <1>1, <1>3
<1>6. \A k \in 1 .. Len(items) : items[k].op = "goto" /\ items[k].label = l
  BY <1>4, <1>5
<1>7. LabelsOf(items) = {} /\ Once(items)
  BY <1>6 DEF LabelsOf, Once, EmitLabel
<1>8. /\ labels \subseteq Names /\ named_labels \subseteq Names
      /\ label_indices \in [Names -> Nat]
      /\ \A n \in named_labels : label_indices[n] # 0
  BY DEF LabelsInv, Typed, NamesPlaced
<1>9. labels' \subseteq Names /\ named_labels' \subseteq Names
  BY <1>2, <1>8
<1>10. Promised \subseteq Promised' /\ l \in Promised'
  <2>1. \A n \in named_labels : label_indices'[n] = label_indices[n]
    BY <1>3, <1>8
  <2>2. QED
    BY <1>2, <1>3, <2>1 DEF Promised
<1>11. AllFit(items, Written \cup LabelsOf(items), Promised')
  BY <1>6, <1>10 DEF AllFit, Fits, Sets
<1>12. \A op \in Sets : Leads(items, op, Around(op), Around(op))
  BY <1>4, <1>6, AlongLeads DEF Sets
<1>13. /\ Written' = Written \cup LabelsOf(items)
       /\ Typed' /\ Placed' /\ Aimed' /\ Closed' /\ PutBackAll'
  <2>1. LabelsOf(items) \cap Written = {} /\ LabelsOf(items) \subseteq 1 .. next_label + d - 1
    BY <1>7
  <2>2. \A k \in 1 .. Len(items) : items[k].op # "postamble"
    BY <1>6
  <2>3. QED
    BY <1>3, <1>4, <1>7, <1>9, <1>10, <1>11, <1>12, <2>1, <2>2, PutDown DEF Unmoved
<1>14. NamesPlaced'
  <2>1. Written' = Written
    BY <1>7, <1>13
  <2>2. QED
    BY <1>2, <1>3, <2>1, NamesStillPlaced
<1>15. QED
  BY <1>13, <1>14 DEF LabelsInv

\* A label is put down where its name stands, and nowhere else.
LEMMA LabelKeeps ==
    ASSUME LabelsInv, AtNext("statement"), Unmoved,
           NEW root \in Statements, root.name \in Names, root.body \in Statements,
           GenLabel(root, Head(pending))
    PROVE  LabelsInv'
<1>1. PICK name, items :
          /\ name = root.name
          /\ items = <<EmitLabel(LabelIndex(root.name)),
                       Call(root.body, loop_break_label, loop_continue_label)>>
  OBVIOUS
<1>2. /\ name \notin labels /\ WritesNamed(name, items) /\ name \in Names
      /\ labels' = labels \cup {name} /\ named_labels' = named_labels
  BY <1>1, CallIs DEF GenLabel, Within
<1>3. PICK d \in Nat, l \in Nat :
          /\ l = LabelIndex(name) /\ Does(d, items)
          /\ next_label' = next_label + d /\ l >= 1 /\ l <= next_label + d - 1
          /\ label_indices' \in [Names -> Nat] /\ label_indices'[name] = l
          /\ label_indices[name] # 0 => label_indices[name] = l
          /\ \A other \in Names :
                 other # name => /\ label_indices'[other] = label_indices[other]
                                 /\ label_indices[other] # l
          /\ l \in Written <=> name \in labels
  BY <1>2, NameSeen
<1>4. /\ items \in Seq(Items) /\ Len(items) = 2 /\ items[1] = EmitLabel(l)
      /\ items[2] = Call(root.body, loop_break_label, loop_continue_label)
  BY <1>1, <1>3, CallIs, ItemsMade
<1>5. /\ items[1].op = "label" /\ items[1].label = l
      /\ items[2].op = "statement" /\ items[2].leaves = loop_break_label
      /\ items[2].again = loop_continue_label
  <2>1. /\ EmitLabel(l).op = "label" /\ EmitLabel(l).label = l
        /\ Call(root.body, loop_break_label, loop_continue_label).op = "statement"
        /\ Call(root.body, loop_break_label, loop_continue_label).leaves = loop_break_label
        /\ Call(root.body, loop_break_label, loop_continue_label).again = loop_continue_label
    BY DEF EmitLabel, Call
  <2>2. QED
    BY <1>4, <2>1
<1>6. \A k \in 1 .. Len(items) : k = 1 \/ k = 2
  BY <1>4
<1>7. LabelsOf(items) = {l} /\ Once(items)
  <2>1. PICK P : P = {1}
    OBVIOUS
  <2>2. \A k \in 1 .. Len(items) : items[k].op = "label" <=> k \in P
    BY <1>5, <1>6, <2>1
  <2>3. P \subseteq 1 .. Len(items) /\ \A j, k \in P : items[j].label = items[k].label => j = k
    BY <1>4, <2>1
  <2>4. Once(items) /\ LabelsOf(items) = {items[k].label : k \in P}
    BY <1>4, <2>2, <2>3, LabelsAt
  <2>5. QED
    BY <1>5, <2>1, <2>4
<1>8. /\ labels \subseteq Names /\ named_labels \subseteq Names
      /\ label_indices \in [Names -> Nat]
      /\ \A n \in named_labels : label_indices[n] # 0
  BY DEF LabelsInv, Typed, NamesPlaced
<1>9. labels' \subseteq Names /\ named_labels' \subseteq Names
  BY <1>2, <1>8
<1>10. Promised \subseteq Promised'
  <2>1. \A n \in named_labels : label_indices'[n] = label_indices[n]
    BY <1>3, <1>8
  <2>2. QED
    BY <1>2, <2>1 DEF Promised
<1>11. AllFit(items, Written \cup LabelsOf(items), Promised')
  BY <1>5, <1>6 DEF AllFit, Fits, Sets, Jumps
<1>12. \A op \in Sets : Leads(items, op, Around(op), Around(op))
  BY <1>4, <1>5, <1>6, AlongLeads DEF Sets
<1>13. /\ Written' = Written \cup LabelsOf(items)
       /\ Typed' /\ Placed' /\ Aimed' /\ Closed' /\ PutBackAll'
  <2>1. LabelsOf(items) \cap Written = {} /\ LabelsOf(items) \subseteq 1 .. next_label + d - 1
    <3>1. l \notin Written /\ l \in 1 .. next_label + d - 1
      BY <1>2, <1>3, CallIs
    <3>2. QED
      BY <1>7, <3>1
  <2>2. \A k \in 1 .. Len(items) : items[k].op # "postamble"
    BY <1>5, <1>6
  <2>3. QED
    BY <1>3, <1>4, <1>7, <1>9, <1>10, <1>11, <1>12, <2>1, <2>2, PutDown DEF Unmoved
<1>14. NamesPlaced'
  <2>1. Written' = Written \cup {l}
    BY <1>7, <1>13
  <2>2. QED
    BY <1>2, <1>3, <2>1, NamesStillPlaced
<1>15. QED
  BY <1>13, <1>14 DEF LabelsInv

\* One text behind another, with the places of both.
LEMMA Behind ==
    ASSUME NEW s \in Seq(Items), NEW t \in Seq(Items)
    PROVE  /\ s \o t \in Seq(Items) /\ Len(s \o t) = Len(s) + Len(t)
           /\ \A k \in 1 .. Len(s) : (s \o t)[k] = s[k]
           /\ \A k \in 1 .. Len(t) : (s \o t)[Len(s) + k] = t[k]
<1>1. PICK u, a, b : u = s \o t /\ a = Len(s) /\ b = Len(t)
  OBVIOUS
<1>2. /\ u \in Seq(Items) /\ Len(u) = a + b /\ a \in Nat /\ b \in Nat
      /\ \A k \in 1 .. a + b : u[k] = IF k <= a THEN s[k] ELSE t[k - a]
  BY <1>1, ConcatIs
<1>3. ASSUME NEW k \in 1 .. a
      PROVE  u[k] = s[k]
  <2>1. k \in 1 .. a + b /\ k <= a
    BY <1>2
  <2>2. QED
    BY <1>2, <2>1
<1>4. ASSUME NEW k \in 1 .. b
      PROVE  u[a + k] = t[k]
  <2>1. a + k \in 1 .. a + b /\ ~(a + k <= a) /\ a + k - a = k
    BY <1>2
  <2>2. QED
    BY <1>2, <2>1
<1>5. QED
  BY <1>1, <1>2, <1>3, <1>4

\* Five texts, one behind another.
FiveParts(items, A, B, C, D, E) ==
    /\ items \in Seq(Items)
    /\ Len(items) = Len(A) + Len(B) + Len(C) + Len(D) + Len(E)
    /\ \A k \in 1 .. Len(A) : items[k] = A[k]
    /\ \A k \in 1 .. Len(B) : items[Len(A) + k] = B[k]
    /\ \A k \in 1 .. Len(C) : items[Len(A) + Len(B) + k] = C[k]
    /\ \A k \in 1 .. Len(D) : items[Len(A) + Len(B) + Len(C) + k] = D[k]
    /\ \A k \in 1 .. Len(E) : items[Len(A) + Len(B) + Len(C) + Len(D) + k] = E[k]

LEMMA InParts ==
    ASSUME NEW A \in Seq(Items), NEW B \in Seq(Items), NEW C \in Seq(Items),
           NEW D \in Seq(Items), NEW E \in Seq(Items)
    PROVE  FiveParts(A \o B \o C \o D \o E, A, B, C, D, E)
<1>1. PICK p : p = A \o B
  OBVIOUS
<1>2. PICK q : q = p \o C
  OBVIOUS
<1>3. PICK r : r = q \o D
  OBVIOUS
<1>4. PICK items : items = r \o E
  OBVIOUS
<1>5. PICK la, lb, lc, ld, le :
          la = Len(A) /\ lb = Len(B) /\ lc = Len(C) /\ ld = Len(D) /\ le = Len(E)
  OBVIOUS
<1>6. la \in Nat /\ lb \in Nat /\ lc \in Nat /\ ld \in Nat /\ le \in Nat
  BY <1>5
<1>7. p \in Seq(Items)
  BY <1>1, Behind
<1>8. q \in Seq(Items)
  BY <1>2, <1>7, Behind
<1>9. r \in Seq(Items)
  BY <1>3, <1>8, Behind
<1>10. items \in Seq(Items)
  BY <1>4, <1>9, Behind
<1>11. /\ Len(p) = la + lb
       /\ \A k \in 1 .. la : p[k] = A[k]
       /\ \A k \in 1 .. lb : p[la + k] = B[k]
  <2>1. /\ Len(p) = Len(A) + Len(B)
        /\ \A k \in 1 .. Len(A) : p[k] = A[k]
        /\ \A k \in 1 .. Len(B) : p[Len(A) + k] = B[k]
    BY <1>1, Behind
  <2>2. QED
    BY <1>5, <2>1
<1>12. /\ Len(q) = la + lb + lc
       /\ \A k \in 1 .. la + lb : q[k] = p[k]
       /\ \A k \in 1 .. lc : q[la + lb + k] = C[k]
  <2>1. /\ Len(q) = Len(p) + Len(C)
        /\ \A k \in 1 .. Len(p) : q[k] = p[k]
        /\ \A k \in 1 .. Len(C) : q[Len(p) + k] = C[k]
    BY <1>2, <1>7, Behind
  <2>2. QED
    BY <1>5, <1>11, <2>1
<1>13. /\ Len(r) = la + lb + lc + ld
       /\ \A k \in 1 .. la + lb + lc : r[k] = q[k]
       /\ \A k \in 1 .. ld : r[la + lb + lc + k] = D[k]
  <2>1. /\ Len(r) = Len(q) + Len(D)
        /\ \A k \in 1 .. Len(q) : r[k] = q[k]
        /\ \A k \in 1 .. Len(D) : r[Len(q) + k] = D[k]
    BY <1>3, <1>8, Behind
  <2>2. QED
    BY <1>5, <1>12, <2>1
<1>14. /\ Len(items) = la + lb + lc + ld + le
       /\ \A k \in 1 .. la + lb + lc + ld : items[k] = r[k]
       /\ \A k \in 1 .. le : items[la + lb + lc + ld + k] = E[k]
  <2>1. /\ Len(items) = Len(r) + Len(E)
        /\ \A k \in 1 .. Len(r) : items[k] = r[k]
        /\ \A k \in 1 .. Len(E) : items[Len(r) + k] = E[k]
    BY <1>4, <1>9, Behind
  <2>2. QED
    BY <1>5, <1>13, <2>1
<1>15. ASSUME NEW k \in 1 .. la
       PROVE  items[k] = A[k]
  <2>1. k \in 1 .. la + lb /\ k \in 1 .. la + lb + lc /\ k \in 1 .. la + lb + lc + ld
    BY <1>6
  <2>2. QED
    BY <1>11, <1>12, <1>13, <1>14, <2>1
<1>16. ASSUME NEW k \in 1 .. lb
       PROVE  items[la + k] = B[k]
  <2>1. /\ la + k \in 1 .. la + lb /\ la + k \in 1 .. la + lb + lc
        /\ la + k \in 1 .. la + lb + lc + ld
    BY <1>6
  <2>2. QED
    BY <1>6, <1>11, <1>12, <1>13, <1>14, <2>1
<1>17. ASSUME NEW k \in 1 .. lc
       PROVE  items[la + lb + k] = C[k]
  <2>1. la + lb + k \in 1 .. la + lb + lc /\ la + lb + k \in 1 .. la + lb + lc + ld
    BY <1>6
  <2>2. QED
    BY <1>6, <1>12, <1>13, <1>14, <2>1
<1>18. ASSUME NEW k \in 1 .. ld
       PROVE  items[la + lb + lc + k] = D[k]
  <2>1. la + lb + lc + k \in 1 .. la + lb + lc + ld
    BY <1>6
  <2>2. QED
    BY <1>6, <1>13, <1>14, <2>1
<1>19. items = A \o B \o C \o D \o E
  BY <1>1, <1>2, <1>3, <1>4
<1>20. Len(items) = Len(A) + Len(B) + Len(C) + Len(D) + Len(E)
  BY <1>5, <1>14
<1>21. /\ \A k \in 1 .. Len(A) : items[k] = A[k]
       /\ \A k \in 1 .. Len(B) : items[Len(A) + k] = B[k]
       /\ \A k \in 1 .. Len(C) : items[Len(A) + Len(B) + k] = C[k]
       /\ \A k \in 1 .. Len(D) : items[Len(A) + Len(B) + Len(C) + k] = D[k]
       /\ \A k \in 1 .. Len(E) : items[Len(A) + Len(B) + Len(C) + Len(D) + k] = E[k]
  BY <1>5, <1>14, <1>15, <1>16, <1>17, <1>18
<1>22. FiveParts(items, A, B, C, D, E)
  BY <1>10, <1>20, <1>21 DEF FiveParts
<1>23. QED
  BY <1>19, <1>22

\* What is put down for a switch of n arms, c of which are cases.
SwitchAs(items, n, c, default_label) ==
    /\ Len(items) = c + 2 * n + 5
    /\ items[1].op = "switch"
    /\ \A k \in 1 .. c : items[1 + k].op = "case" /\ items[1 + k].label = next_label + k
    /\ items[c + 2].op = "jump" /\ items[c + 2].label = default_label
    /\ items[c + 3].op = "set break" /\ items[c + 3].label = next_label
    /\ \A k \in 1 .. n :
           /\ items[c + 2 + 2 * k].op = "label" /\ items[c + 2 + 2 * k].label = next_label + k
           /\ items[c + 3 + 2 * k].op = "statement"
           /\ items[c + 3 + 2 * k].leaves = next_label
           /\ items[c + 3 + 2 * k].again = loop_continue_label
    /\ items[c + 2 * n + 4].op = "set break"
    /\ items[c + 2 * n + 4].label = loop_break_label
    /\ items[c + 2 * n + 5].op = "label" /\ items[c + 2 * n + 5].label = next_label

LEMMA SwitchPuts ==
    ASSUME LabelsInv, AtNext("statement"),
           NEW root \in Statements, root.kind = "switch", GenSwitch(root, Head(pending))
    PROVE  \E n \in Nat, c \in Nat, default_label \in Nat, items \in Seq(Items) :
               /\ Writes(1 + n, items) /\ c <= n
               /\ default_label = next_label \/ (n >= 1 /\ default_label = next_label + n)
               /\ SwitchAs(items, n, c, default_label)
<1> DEFINE arms == Len(root.arms)
           cases == IF root.has_default THEN arms - 1 ELSE arms
           end_label == NewLabel(0)
           default == IF root.has_default THEN NewLabel(arms) ELSE end_label
           again == Head(pending).again
           A == <<[op |-> "switch", event |-> root.event, answers |-> cases + 1]>>
           B == [k \in 1 .. cases |-> JumpIfEqual(k, NewLabel(k))]
           C == <<EmitJump(default), SetBreak(end_label)>>
           D == [k \in 1 .. 2 * arms |->
                    IF k % 2 = 1 THEN EmitLabel(NewLabel((k + 1) \div 2))
                    ELSE Call(root.arms[k \div 2], end_label, again)]
           E == <<OutsideSwitch, EmitLabel(end_label)>>
<1>1. Writes(1 + arms, A \o B \o C \o D \o E)
  BY DEF GenSwitch
<1>2. /\ root.arms \in Seq(Statements) /\ root.has_default \in BOOLEAN
      /\ root.has_default => root.arms # <<>>
  BY StatementIs DEF IsStatement
<1>3. /\ next_label \in Nat /\ next_label >= 1 /\ again = loop_continue_label
      /\ loop_continue_label \in Nat /\ loop_break_label \in Nat
  BY CallIs
<1>4. arms \in Nat /\ (root.has_default => arms >= 1)
  BY <1>2
<1>5. PICK n, c, s, l : n = arms /\ c = cases /\ s = end_label /\ l = default
  OBVIOUS
<1>6. n \in Nat /\ c \in Nat /\ c <= n /\ s = next_label /\ s \in Nat
  BY <1>2, <1>3, <1>4, <1>5 DEF NewLabel
<1>7. l \in Nat /\ (l = next_label \/ (n >= 1 /\ l = next_label + n))
  BY <1>2, <1>3, <1>4, <1>5 DEF NewLabel
<1>8. A \in Seq(Items) /\ Len(A) = 1 /\ A[1].op = "switch"
  <2>1. PICK x : x = [op |-> "switch", event |-> root.event, answers |-> cases + 1]
    OBVIOUS
  <2>2. cases + 1 \in Int
    BY <1>5, <1>6
  <2>3. x \in Items /\ x.op = "switch"
    BY <2>1, <2>2, ItemsMade
  <2>4. QED
    BY <2>1, <2>3
<1>9. /\ B \in Seq(Items) /\ Len(B) = c
      /\ \A k \in 1 .. c : B[k].op = "case" /\ B[k].label = next_label + k
  <2>1. PICK b : b = [k \in 1 .. c |-> JumpIfEqual(k, NewLabel(k))]
    OBVIOUS
  <2>2. ASSUME NEW k \in 1 .. c
        PROVE  /\ JumpIfEqual(k, NewLabel(k)) \in Items
               /\ JumpIfEqual(k, NewLabel(k)).op = "case"
               /\ JumpIfEqual(k, NewLabel(k)).label = next_label + k
    <3>1. k \in Nat /\ NewLabel(k) \in Nat /\ NewLabel(k) = next_label + k
      BY <1>3, <1>6 DEF NewLabel
    <3>2. JumpIfEqual(k, NewLabel(k)) \in Items
      BY <3>1, ItemsMade
    <3>3. /\ JumpIfEqual(k, NewLabel(k)).op = "case"
          /\ JumpIfEqual(k, NewLabel(k)).label = NewLabel(k)
      BY DEF JumpIfEqual
    <3>4. QED
      BY <3>1, <3>2, <3>3
  <2>3. b \in Seq(Items) /\ Len(b) = c
    BY <1>6, <2>1, <2>2
  <2>4. \A k \in 1 .. c : b[k].op = "case" /\ b[k].label = next_label + k
    BY <2>1, <2>2
  <2>5. B = b
    BY <1>5, <2>1
  <2>6. QED
    BY <2>3, <2>4, <2>5
<1>10. /\ C \in Seq(Items) /\ Len(C) = 2
       /\ C[1].op = "jump" /\ C[1].label = l /\ C[2].op = "set break" /\ C[2].label = s
  <2>1. PICK x, y : x = EmitJump(default) /\ y = SetBreak(end_label)
    OBVIOUS
  <2>2. x \in Items /\ y \in Items
    BY <1>5, <1>6, <1>7, <2>1, ItemsMade
  <2>3. x.op = "jump" /\ x.label = l /\ y.op = "set break" /\ y.label = s
    BY <1>5, <2>1 DEF EmitJump, SetBreak
  <2>4. PICK t : t = <<x, y>>
    OBVIOUS
  <2>5. t \in Seq(Items) /\ Len(t) = 2 /\ t[1] = x /\ t[2] = y
    BY <2>2, <2>4
  <2>6. C = t
    BY <2>1, <2>4
  <2>7. QED
    BY <2>3, <2>5, <2>6
<1>11. /\ D \in Seq(Items) /\ Len(D) = 2 * n
       /\ \A k \in 1 .. n : /\ D[2 * k - 1].op = "label" /\ D[2 * k - 1].label = s + k
                            /\ D[2 * k].op = "statement"
                            /\ D[2 * k].leaves = s /\ D[2 * k].again = loop_continue_label
  <2>1. PICK d : d = [k \in 1 .. 2 * n |->
                         IF k % 2 = 1 THEN EmitLabel(NewLabel((k + 1) \div 2))
                         ELSE Call(root.arms[k \div 2], s, again)]
    OBVIOUS
  <2>2. D = d
    BY <1>5, <2>1
  <2>3. ASSUME NEW k \in 1 .. n
        PROVE  /\ d[2 * k - 1] = EmitLabel(s + k)
               /\ d[2 * k] = Call(root.arms[k], s, again)
    <3>1. /\ 2 * k - 1 \in 1 .. 2 * n /\ (2 * k - 1) % 2 = 1 /\ ((2 * k - 1) + 1) \div 2 = k
          /\ 2 * k \in 1 .. 2 * n /\ ~((2 * k) % 2 = 1) /\ (2 * k) \div 2 = k
      BY <1>6
    <3>2. NewLabel(k) = s + k
      BY <1>6 DEF NewLabel
    <3>3. d[2 * k - 1] = EmitLabel(NewLabel(((2 * k - 1) + 1) \div 2))
      BY <2>1, <3>1
    <3>4. d[2 * k] = Call(root.arms[(2 * k) \div 2], s, again)
      BY <2>1, <3>1
    <3>5. QED
      BY <3>1, <3>2, <3>3, <3>4
  <2>4. ASSUME NEW k \in 1 .. n
        PROVE  EmitLabel(s + k) \in Items /\ Call(root.arms[k], s, again) \in Items
    <3>1. s + k \in Nat /\ root.arms[k] \in Statements /\ again \in Nat
      BY <1>2, <1>3, <1>5, <1>6
    <3>2. QED
      BY <1>6, <3>1, ItemsMade
  <2>5. ASSUME NEW j \in 1 .. 2 * n
        PROVE  d[j] \in Items
    <3>1. \E k \in 1 .. n : j = 2 * k - 1 \/ j = 2 * k
      <4>1. (j + 1) \div 2 \in 1 .. n
            /\ (j = 2 * ((j + 1) \div 2) - 1 \/ j = 2 * ((j + 1) \div 2))
        BY <1>6
      <4>2. QED
        BY <4>1
    <3>2. QED
      BY <2>3, <2>4, <3>1
  <2>6. d \in Seq(Items) /\ Len(d) = 2 * n
    <3>1. 2 * n \in Nat
      BY <1>6
    <3>2. d \in [1 .. 2 * n -> Items]
      BY <2>1, <2>5
    <3>3. QED
      BY <3>1, <3>2
  <2>7. ASSUME NEW k \in 1 .. n
        PROVE  /\ d[2 * k - 1].op = "label" /\ d[2 * k - 1].label = s + k
               /\ d[2 * k].op = "statement"
               /\ d[2 * k].leaves = s /\ d[2 * k].again = loop_continue_label
    <3>1. /\ EmitLabel(s + k).op = "label" /\ EmitLabel(s + k).label = s + k
          /\ Call(root.arms[k], s, again).op = "statement"
          /\ Call(root.arms[k], s, again).leaves = s
          /\ Call(root.arms[k], s, again).again = again
      BY DEF EmitLabel, Call
    <3>2. QED
      BY <1>3, <2>3, <3>1
  <2>8. QED
    BY <2>2, <2>6, <2>7
<1>12. /\ E \in Seq(Items) /\ Len(E) = 2
       /\ E[1].op = "set break" /\ E[1].label = loop_break_label
       /\ E[2].op = "label" /\ E[2].label = s
  <2>1. PICK x, y : x = OutsideSwitch /\ y = EmitLabel(end_label)
    OBVIOUS
  <2>2. x \in Items /\ y \in Items
    BY <1>3, <1>5, <1>6, <2>1, ItemsMade DEF OutsideSwitch
  <2>3. x.op = "set break" /\ x.label = loop_break_label /\ y.op = "label" /\ y.label = s
    BY <1>5, <2>1 DEF OutsideSwitch, EmitLabel, SetBreak
  <2>4. PICK t : t = <<x, y>>
    OBVIOUS
  <2>5. t \in Seq(Items) /\ Len(t) = 2 /\ t[1] = x /\ t[2] = y
    BY <2>2, <2>4
  <2>6. E = t
    BY <2>1, <2>4
  <2>7. QED
    BY <2>3, <2>5, <2>6
<1> HIDE DEF A, B, C, D, E
<1>13. /\ A \in Seq(Items) /\ B \in Seq(Items) /\ C \in Seq(Items)
       /\ D \in Seq(Items) /\ E \in Seq(Items)
  BY <1>8, <1>9, <1>10, <1>11, <1>12
<1>14. Len(A) = 1 /\ Len(B) = c /\ Len(C) = 2 /\ Len(D) = 2 * n /\ Len(E) = 2
  BY <1>8, <1>9, <1>10, <1>11, <1>12
<1>15. PICK items : items = A \o B \o C \o D \o E /\ FiveParts(items, A, B, C, D, E)
  BY <1>13, InParts
<1>16. /\ items \in Seq(Items) /\ Len(items) = 1 + c + 2 + 2 * n + 2
       /\ \A k \in 1 .. 1 : items[k] = A[k]
       /\ \A k \in 1 .. c : items[1 + k] = B[k]
       /\ \A k \in 1 .. 2 : items[1 + c + k] = C[k]
       /\ \A k \in 1 .. 2 * n : items[1 + c + 2 + k] = D[k]
       /\ \A k \in 1 .. 2 : items[1 + c + 2 + 2 * n + k] = E[k]
  BY <1>14, <1>15 DEF FiveParts
<1>17. Len(items) = c + 2 * n + 5 /\ items[1] = A[1]
  BY <1>6, <1>16
<1>18. items[c + 2] = C[1] /\ items[c + 3] = C[2]
  <2>1. 1 + c + 1 = c + 2 /\ 1 + c + 2 = c + 3 /\ 1 \in 1 .. 2 /\ 2 \in 1 .. 2
    BY <1>6
  <2>2. items[1 + c + 1] = C[1] /\ items[1 + c + 2] = C[2]
    BY <1>16, <2>1
  <2>3. QED
    BY <2>1, <2>2
<1>19. ASSUME NEW k \in 1 .. n
       PROVE  items[c + 2 + 2 * k] = D[2 * k - 1] /\ items[c + 3 + 2 * k] = D[2 * k]
  <2>1. /\ 2 * k - 1 \in 1 .. 2 * n /\ 1 + c + 2 + (2 * k - 1) = c + 2 + 2 * k
        /\ 2 * k \in 1 .. 2 * n /\ 1 + c + 2 + 2 * k = c + 3 + 2 * k
    BY <1>6
  <2>2. items[1 + c + 2 + (2 * k - 1)] = D[2 * k - 1] /\ items[1 + c + 2 + 2 * k] = D[2 * k]
    BY <1>16, <2>1
  <2>3. QED
    BY <2>1, <2>2
<1>20. items[c + 2 * n + 4] = E[1] /\ items[c + 2 * n + 5] = E[2]
  <2>1. /\ 1 + c + 2 + 2 * n + 1 = c + 2 * n + 4 /\ 1 + c + 2 + 2 * n + 2 = c + 2 * n + 5
        /\ 1 \in 1 .. 2 /\ 2 \in 1 .. 2
    BY <1>6
  <2>2. items[1 + c + 2 + 2 * n + 1] = E[1] /\ items[1 + c + 2 + 2 * n + 2] = E[2]
    BY <1>16, <2>1
  <2>3. QED
    BY <2>1, <2>2
<1>21. SwitchAs(items, n, c, l)
  <2>1. \A k \in 1 .. c : items[1 + k].op = "case" /\ items[1 + k].label = next_label + k
    BY <1>9, <1>16
  <2>2. ASSUME NEW k \in 1 .. n
        PROVE  /\ items[c + 2 + 2 * k].op = "label"
               /\ items[c + 2 + 2 * k].label = next_label + k
               /\ items[c + 3 + 2 * k].op = "statement"
               /\ items[c + 3 + 2 * k].leaves = next_label
               /\ items[c + 3 + 2 * k].again = loop_continue_label
    BY <1>6, <1>11, <1>19
  <2>3. QED
    BY <1>6, <1>8, <1>10, <1>12, <1>17, <1>18, <1>20, <2>1, <2>2 DEF SwitchAs
<1>22. Writes(1 + n, items)
  BY <1>1, <1>5, <1>15
<1>23. QED
  BY <1>6, <1>7, <1>16, <1>21, <1>22

LEMMA SwitchKeeps ==
    ASSUME LabelsInv, AtNext("statement"), Unmoved,
           NEW root \in Statements, root.kind = "switch", GenSwitch(root, Head(pending))
    PROVE  LabelsInv'
<1>1. PICK n \in Nat, c \in Nat, default_label \in Nat, items \in Seq(Items) :
          /\ Writes(1 + n, items) /\ c <= n
          /\ default_label = next_label \/ (n >= 1 /\ default_label = next_label + n)
          /\ SwitchAs(items, n, c, default_label)
  BY SwitchPuts
<1>2. PICK s : s = next_label
  OBVIOUS
<1>3. /\ s \in Nat /\ s >= 1 /\ loop_break_label \in Nat /\ loop_continue_label \in Nat
      /\ loop_break_label \in Written \cup {0}
  BY <1>2, CallIs
<1>4. /\ Len(items) = c + 2 * n + 5
      /\ items[1].op = "switch"
      /\ \A k \in 1 .. c : items[1 + k].op = "case" /\ items[1 + k].label = s + k
      /\ items[c + 2].op = "jump" /\ items[c + 2].label = default_label
      /\ items[c + 3].op = "set break" /\ items[c + 3].label = s
      /\ \A k \in 1 .. n :
             /\ items[c + 2 + 2 * k].op = "label" /\ items[c + 2 + 2 * k].label = s + k
             /\ items[c + 3 + 2 * k].op = "statement"
             /\ items[c + 3 + 2 * k].leaves = s
             /\ items[c + 3 + 2 * k].again = loop_continue_label
      /\ items[c + 2 * n + 4].op = "set break"
      /\ items[c + 2 * n + 4].label = loop_break_label
      /\ items[c + 2 * n + 5].op = "label" /\ items[c + 2 * n + 5].label = s
  BY <1>1, <1>2 DEF SwitchAs
<1>5. Len(items) = c + 2 * n + 5
  BY <1>4
<1>6. ASSUME NEW k \in 1 .. Len(items)
      PROVE  \/ k = 1 \/ k = c + 2 \/ k = c + 3 \/ k = c + 2 * n + 4 \/ k = c + 2 * n + 5
             \/ \E j \in 1 .. c : k = 1 + j
             \/ \E j \in 1 .. n : k = c + 2 + 2 * j
             \/ \E j \in 1 .. n : k = c + 3 + 2 * j
  <2>1. k \in Nat /\ k >= 1 /\ k <= c + 2 * n + 5
    BY <1>5
  <2>2. CASE k <= c + 1 /\ k # 1
    <3>1. k - 1 \in 1 .. c /\ k = 1 + (k - 1)
      BY <2>1, <2>2
    <3>2. QED
      BY <3>1
  <2>3. CASE k > c + 3 /\ k < c + 2 * n + 4
    <3>1. PICK j : j = (k - (c + 2)) \div 2
      OBVIOUS
    <3>2. j \in 1 .. n /\ (k = c + 2 + 2 * j \/ k = c + 3 + 2 * j)
      BY <2>1, <2>3, <3>1
    <3>3. QED
      BY <3>2
  <2>4. QED
    BY <2>1, <2>2, <2>3
<1>7. PICK P : P = {c + 2 + 2 * j : j \in 1 .. n} \cup {c + 2 * n + 5}
  OBVIOUS
<1>8. P \subseteq 1 .. Len(items)
  <2>1. \A j \in 1 .. n : c + 2 + 2 * j \in 1 .. c + 2 * n + 5
    OBVIOUS
  <2>2. c + 2 * n + 5 \in 1 .. c + 2 * n + 5
    OBVIOUS
  <2>3. QED
    BY <1>4, <1>7, <2>1, <2>2, ZenonT(40)
<1>9. \A k \in 1 .. Len(items) : items[k].op = "label" <=> k \in P
  <2>1. ASSUME NEW k \in P
        PROVE  items[k].op = "label"
    BY <1>4, <1>7, ZenonT(40)
  <2>2. ASSUME NEW k \in 1 .. Len(items), items[k].op = "label"
        PROVE  k \in P
    BY <1>4, <1>6, <1>7, <2>2
  <2>3. QED
    BY <2>1, <2>2
<1>10. \A j, k \in P : items[j].label = items[k].label => j = k
  <2>1. ASSUME NEW k \in P
        PROVE  \/ k = c + 2 * n + 5 /\ items[k].label = s
               \/ \E j \in 1 .. n : k = c + 2 + 2 * j /\ items[k].label = s + j
    BY <1>4, <1>7, ZenonT(40)
  <2>2. \A j \in 1 .. n : s + j # s
    BY <1>3
  <2>3. \A i, j \in 1 .. n : s + i = s + j => i = j
    BY <1>3
  <2>4. ASSUME NEW j \in P, NEW k \in P, items[j].label = items[k].label
        PROVE  j = k
    <3>1. CASE j = c + 2 * n + 5 /\ items[j].label = s
      BY <2>1, <2>2, <2>4, <3>1
    <3>2. CASE \E i \in 1 .. n : j = c + 2 + 2 * i /\ items[j].label = s + i
      <4>1. PICK i \in 1 .. n : j = c + 2 + 2 * i /\ items[j].label = s + i
        BY <3>2
      <4>2. items[k].label # s
        BY <2>2, <2>4, <4>1
      <4>3. PICK h \in 1 .. n : k = c + 2 + 2 * h /\ items[k].label = s + h
        BY <2>1, <4>2
      <4>4. h = i
        BY <2>3, <2>4, <4>1, <4>3
      <4>5. QED
        BY <4>1, <4>3, <4>4
    <3>3. QED
      BY <2>1, <3>1, <3>2
  <2>5. QED
    BY <2>4
<1>11. Once(items) /\ LabelsOf(items) = {items[k].label : k \in P}
  BY <1>8, <1>9, <1>10, LabelsAt
<1>12. /\ s \in LabelsOf(items) /\ \A j \in 1 .. n : s + j \in LabelsOf(items)
       /\ LabelsOf(items) \subseteq s .. s + (1 + n) - 1
  <2>1. c + 2 * n + 5 \in P /\ \A j \in 1 .. n : c + 2 + 2 * j \in P
    BY <1>7
  <2>2. s \in LabelsOf(items) /\ \A j \in 1 .. n : s + j \in LabelsOf(items)
    <3>1. s \in LabelsOf(items)
      BY <1>4, <1>11, <2>1
    <3>2. ASSUME NEW j \in 1 .. n
          PROVE  s + j \in LabelsOf(items)
      <4>1. PICK k \in P : k = c + 2 + 2 * j
        BY <2>1
      <4>2. items[k].label = s + j
        BY <1>4, <4>1
      <4>3. QED
        BY <1>11, <4>2
    <3>3. QED
      BY <3>1, <3>2
  <2>3. s \in s .. s + (1 + n) - 1 /\ \A j \in 1 .. n : s + j \in s .. s + (1 + n) - 1
    BY <1>3
  <2>4. ASSUME NEW k \in P
        PROVE  items[k].label \in s .. s + (1 + n) - 1
    <3>1. CASE k = c + 2 * n + 5
      BY <1>4, <2>3, <3>1
    <3>2. CASE \E j \in 1 .. n : k = c + 2 + 2 * j
      <4>1. PICK j \in 1 .. n : k = c + 2 + 2 * j
        BY <3>2
      <4>2. items[k].label = s + j
        BY <1>4, <4>1
      <4>3. QED
        BY <2>3, <4>2
    <3>3. QED
      BY <1>7, <3>1, <3>2
  <2>5. QED
    BY <1>11, <2>2, <2>4
<1>13. ASSUME NEW k \in 1 .. Len(items)
       PROVE  /\ items[k].op \notin {"postamble", "set continue"}
              /\ items[k].op = "set break" => k \in {c + 3, c + 2 * n + 4}
              /\ items[k].op \in Jumps => items[k].label \in LabelsOf(items)
              /\ items[k].op = "statement" =>
                     /\ items[k].leaves = s /\ items[k].again = loop_continue_label
                     /\ c + 3 < k /\ k < c + 2 * n + 4
  <2>1. CASE k = 1
    BY <1>4, <2>1 DEF Jumps
  <2>2. CASE k = c + 2
    <3>1. default_label \in LabelsOf(items)
      <4>1. n >= 1 => n \in 1 .. n
        OBVIOUS
      <4>2. QED
        BY <1>1, <1>2, <1>12, <4>1
    <3>2. QED
      BY <1>4, <2>2, <3>1
  <2>3. CASE k \in {c + 3, c + 2 * n + 4, c + 2 * n + 5}
    BY <1>4, <2>3 DEF Jumps
  <2>4. CASE \E j \in 1 .. c : k = 1 + j
    <3>1. PICK j \in 1 .. c : k = 1 + j
      BY <2>4
    <3>2. items[k].op = "case" /\ items[k].label = s + j
      BY <1>4, <3>1
    <3>3. j \in 1 .. n
      BY <1>1
    <3>4. QED
      BY <1>12, <3>2, <3>3
  <2>5. CASE \E j \in 1 .. n : k = c + 2 + 2 * j
    <3>1. items[k].op = "label"
      BY <1>4, <2>5, ZenonT(40)
    <3>2. QED
      BY <3>1 DEF Jumps
  <2>6. CASE \E j \in 1 .. n : k = c + 3 + 2 * j
    <3>1. PICK j \in 1 .. n : k = c + 3 + 2 * j
      BY <2>6
    <3>2. c + 3 < k /\ k < c + 2 * n + 4
      BY <3>1
    <3>3. /\ items[k].op = "statement" /\ items[k].leaves = s
          /\ items[k].again = loop_continue_label
      BY <1>4, <3>1
    <3>4. QED
      BY <3>2, <3>3 DEF Jumps
  <2>7. QED
    BY <1>6, <2>1, <2>2, <2>3, <2>4, <2>5, <2>6
<1>14. /\ c + 3 \in 1 .. Len(items) /\ c + 2 * n + 4 \in 1 .. Len(items)
       /\ c + 3 < c + 2 * n + 4
  BY <1>5
<1>15. Leads(items, "set break", loop_break_label, loop_break_label)
  <2>1. PICK i, j : i = c + 3 /\ j = c + 2 * n + 4
    OBVIOUS
  <2>2. /\ i \in 1 .. Len(items) /\ j \in 1 .. Len(items) /\ i < j
        /\ items[i].op = "set break" /\ items[i].label = s
        /\ items[j].op = "set break" /\ items[j].label = loop_break_label
    BY <1>4, <1>14, <2>1
  <2>3. \A k \in 1 .. Len(items) :
            /\ items[k].op = "set break" => k \in {i, j}
            /\ items[k].op = "statement" =>
                   KeptIn(items[k], "set break") =
                       IF i < k /\ k < j THEN s ELSE loop_break_label
    BY <1>13, <2>1 DEF KeptIn
  <2>4. "set break" \in Sets
    BY DEF Sets
  <2>5. QED
    BY <1>3, <2>2, <2>3, <2>4, LeadsAround
<1>16. Leads(items, "set continue", loop_continue_label, loop_continue_label)
  <2>1. "set continue" \in Sets
    BY DEF Sets
  <2>2. \A k \in 1 .. Len(items) :
            /\ items[k].op # "set continue"
            /\ items[k].op = "statement" =>
                   KeptIn(items[k], "set continue") = loop_continue_label
    BY <1>13 DEF KeptIn
  <2>3. QED
    BY <1>3, <2>1, <2>2, LeadsAlong
<1>17. \A op \in Sets : Leads(items, op, Around(op), Around(op))
  BY <1>15, <1>16 DEF Sets, Around
<1>18. \A k \in 1 .. Len(items) :
           /\ items[k].op # "postamble"
           /\ items[k].op \in Jumps => items[k].label \in Written \cup LabelsOf(items)
           /\ items[k].op \in Sets =>
                  items[k].label \in Written \cup LabelsOf(items) \cup {0}
  <2>1. ASSUME NEW k \in 1 .. Len(items), items[k].op \in Sets
        PROVE  items[k].label \in Written \cup LabelsOf(items) \cup {0}
    <3>1. k = c + 3 \/ k = c + 2 * n + 4
      BY <1>13, <2>1 DEF Sets
    <3>2. QED
      BY <1>3, <1>4, <1>12, <3>1
  <2>2. QED
    BY <1>13, <2>1
<1>19. QED
  <2>1. 1 + n \in Nat /\ LabelsOf(items) \subseteq next_label .. next_label + (1 + n) - 1
    BY <1>2, <1>12
  <2>2. QED
    BY <1>1, <1>11, <1>17, <1>18, <2>1, WritesKeeps

LEMMA StatementKeeps ==
    ASSUME LabelsInv, GenStatement
    PROVE  LabelsInv'
<1>1. PICK root, call : root = Head(pending).root /\ call = Head(pending)
  OBVIOUS
<1>2. /\ AtNext("statement") /\ StatementOf(root, call) /\ Unmoved
  BY <1>1 DEF GenStatement, Unmoved
<1>3. root \in Statements /\ IsStatement(root, Statements)
  BY <1>1, <1>2, CallIs, StatementIs
<1>4. CASE root.kind = "empty" /\ Writes(0, <<>>)
  <2>1. PICK items : items = <<>>
    OBVIOUS
  <2>2. items \in Seq(Items) /\ Len(items) = 0
    BY <2>1, EmptyIs
  <2>3. Writes(0, items) /\ \A k \in 1 .. Len(items) : FALSE
    BY <1>4, <2>1, <2>2
  <2>4. QED
    BY <1>2, <2>2, <2>3, PlainKeeps
<1>5. CASE root.kind = "act" /\ Writes(0, <<GenEvent(root.event)>>)
  <2>1. PICK x, items : x = GenEvent(root.event) /\ items = <<x>>
    OBVIOUS
  <2>2. x \in Items /\ x.op = "event"
    BY <1>3, <2>1, ItemsMade DEF GenEvent
  <2>3. items \in Seq(Items) /\ \A k \in 1 .. Len(items) : items[k].op = "event"
    BY <2>1, <2>2
  <2>4. QED
    BY <1>2, <1>5, <2>1, <2>3, PlainKeeps DEF Jumps, Sets
<1>6. CASE root.kind = "seq" /\ Writes(0, <<Within(root.left, call), Within(root.right, call)>>)
  <2>1. PICK x, y, items :
            x = Within(root.left, call) /\ y = Within(root.right, call) /\ items = <<x, y>>
    OBVIOUS
  <2>2. root.left \in Statements /\ root.right \in Statements
    BY <1>3, <1>6 DEF IsStatement
  <2>3. /\ x \in Items /\ y \in Items
        /\ x.op = "statement" /\ x.leaves = loop_break_label /\ x.again = loop_continue_label
        /\ y.op = "statement" /\ y.leaves = loop_break_label /\ y.again = loop_continue_label
    <3>1. /\ x = Call(root.left, loop_break_label, loop_continue_label)
          /\ y = Call(root.right, loop_break_label, loop_continue_label)
      BY <1>1, <1>2, <2>1, CallIs DEF Within
    <3>2. x \in Items /\ y \in Items
      BY <1>2, <2>2, <3>1, CallIs, ItemsMade
    <3>3. QED
      BY <3>1, <3>2 DEF Call
  <2>4. items \in Seq(Items) /\ \A k \in 1 .. Len(items) : items[k] = x \/ items[k] = y
    BY <2>1, <2>3
  <2>5. QED
    BY <1>2, <1>6, <2>1, <2>3, <2>4, PlainKeeps DEF Jumps, Sets
<1>7. CASE root.kind = "if" /\ GenIf(root, call)
  <2>1. root.branches \in Seq(Statements) /\ (Len(root.branches) = 1 \/ Len(root.branches) = 2)
    BY <1>3, <1>7 DEF IsStatement
  <2>2. CASE Len(root.branches) = 1
    BY <1>1, <1>2, <1>3, <1>7, <2>1, <2>2, IfKeeps
  <2>3. CASE Len(root.branches) = 2
    BY <1>1, <1>2, <1>3, <1>7, <2>1, <2>3, IfElseKeeps
  <2>4. QED
    BY <2>1, <2>2, <2>3
<1>8. CASE root.kind = "while" /\ GenWhile(root)
  BY <1>2, <1>3, <1>8, WhileKeeps DEF IsStatement
<1>9. CASE root.kind = "do" /\ GenDoWhile(root)
  BY <1>2, <1>3, <1>9, DoKeeps DEF IsStatement
<1>10. CASE root.kind = "for" /\ GenFor(root)
  <2>1. /\ root.body \in Statements /\ root.step \in Seq(Statements)
        /\ Len(root.step) = 0 \/ Len(root.step) = 1
    BY <1>3, <1>10 DEF IsStatement
  <2>2. CASE root.step = <<>>
    <3>1. GenWhile(root)
      BY <1>10, <2>2 DEF GenFor, GenWhile
    <3>2. QED
      BY <1>2, <1>3, <2>1, <3>1, WhileKeeps
  <2>3. CASE root.step # <<>>
    <3>1. root.step[1] \in Statements
      BY <2>1, <2>3
    <3>2. QED
      BY <1>2, <1>3, <1>10, <2>1, <2>3, <3>1, ForStepKeeps
  <2>4. QED
    BY <2>2, <2>3
<1>11. CASE root.kind = "switch" /\ GenSwitch(root, call)
  BY <1>1, <1>2, <1>3, <1>11, SwitchKeeps
<1>12. ASSUME NEW l \in Written, Writes(0, <<EmitJump(l)>>)
       PROVE  LabelsInv'
  <2>1. PICK x, items : x = EmitJump(l) /\ items = <<x>>
    OBVIOUS
  <2>2. x \in Items /\ x.op = "jump" /\ x.label = l
    <3>1. l \in Nat
      BY DEF Written, LabelsOf
    <3>2. QED
      BY <2>1, <3>1, ItemsMade DEF EmitJump
  <2>3. items \in Seq(Items) /\ \A k \in 1 .. Len(items) : items[k] = x
    BY <2>1, <2>2
  <2>4. QED
    BY <1>2, <1>12, <2>1, <2>2, <2>3, PlainKeeps DEF Sets
<1>13. CASE root.kind = "break" /\ call.leaves # 0 /\ Writes(0, <<EmitJump(loop_break_label)>>)
  BY <1>1, <1>2, <1>12, <1>13, CallIs
<1>14. CASE /\ root.kind = "continue" /\ call.again # 0
            /\ Writes(0, <<EmitJump(loop_continue_label)>>)
  BY <1>1, <1>2, <1>12, <1>14, CallIs
<1>15. CASE root.kind = "goto" /\ GenGoto(root)
  BY <1>2, <1>3, <1>15, GotoKeeps DEF IsStatement
<1>16. CASE root.kind = "label" /\ GenLabel(root, call)
  BY <1>1, <1>2, <1>3, <1>16, LabelKeeps DEF IsStatement
<1>17. CASE root.kind = "return" /\ Writes(0, <<EmitJump(function_end_label)>>)
  BY <1>2, <1>12, <1>17, CallIs
<1>18. QED
  BY <1>2, <1>4, <1>5, <1>6, <1>7, <1>8, <1>9, <1>10, <1>11, <1>13, <1>14, <1>15, <1>16, <1>17
     DEF StatementOf

LEMMA LabelsStay ==
    LabelsInv /\ [GenNext]_generator => LabelsInv'
<1>1. SUFFICES ASSUME LabelsInv, [GenNext]_generator
               PROVE  LabelsInv'
  OBVIOUS
<1>2. CASE GenStatement
  BY <1>1, <1>2, StatementKeeps
<1>3. CASE Emit
  BY <1>1, <1>3, EmitKeeps
<1>4. CASE PutBreak \/ PutContinue
  BY <1>1, <1>4, PutBackKeeps
<1>5. CASE BeginFunction
  BY <1>1, <1>5, BeginKeeps
<1>6. CASE EndFunction
  BY <1>1, <1>6, EndKeeps
<1>7. CASE UNCHANGED generator
  <2>1. /\ UNCHANGED <<program, function, code, pending, next_label, function_end_label,
                       loop_break_label, loop_continue_label, label_indices, labels,
                       named_labels>>
    BY <1>7 DEF generator, inside, named
  <2>2. Text' = Text /\ Written' = Written /\ Promised' = Promised
    BY <2>1 DEF Text, Written, Promised, LabelsOf
  <2>3. \A op \in Sets : Around(op)' = Around(op)
    BY <2>1 DEF Around
  <2>4. Typed' /\ NamesPlaced' /\ Closed'
    BY <1>1, <2>1, <2>2 DEF LabelsInv, Typed, NamesPlaced, Closed
  <2>5. Placed'
    BY <1>1, <2>1, <2>2 DEF LabelsInv, Placed, Once
  <2>6. Aimed'
    BY <1>1, <2>1, <2>2, <2>3 DEF LabelsInv, Aimed, AllFit
  <2>7. PutBackAll'
    BY <1>1, <2>1, <2>3 DEF LabelsInv, PutBackAll, Leads, Through
  <2>8. QED
    BY <2>4, <2>5, <2>6, <2>7 DEF LabelsInv
<1>8. QED
  BY <1>1, <1>2, <1>3, <1>4, <1>5, <1>6, <1>7 DEF GenNext

-----------------------------------------------------------------------------
(***************************************************************************)
(* Whatever the functions of a program are and however many: every label   *)
(* the code jumps to is written once, the labels of two functions are      *)
(* apart, a goto finds the statement of its name, and a break and a        *)
(* continue go where the loop and the switch around them say               *)
(* (AsmCodegen::GenStatement and the Gen functions it calls, NewLabel,     *)
(* LabelIndex).                                                            *)
(***************************************************************************)
THEOREM EveryJumpFindsItsLabel == GenSpec => []JumpsFindTheirLabels
<1>1. GenInit => LabelsInv
  BY InitLabels
<1>2. LabelsInv /\ [GenNext]_generator => LabelsInv'
  BY LabelsStay
<1>3. LabelsInv => JumpsFindTheirLabels
  BY LabelsAreRight
<1>4. QED
  BY <1>1, <1>2, <1>3, PTL DEF GenSpec

-----------------------------------------------------------------------------
(***************************************************************************)
(* What is left to do, and what is alike: no set which a sequence enters   *)
(* and leaves together with the one it unfolds to tells the two apart.     *)
(***************************************************************************)
\* A set of numbers with 0 in it and the number after each of its own.
LEMMA AllNumbers ==
    ASSUME NEW S, 0 \in S, \A n \in Nat : n \in S => n + 1 \in S
    PROVE  \A n \in Nat : n \in S
<1> SUFFICES ASSUME Nat \ S # {} PROVE FALSE
  OBVIOUS
<1>1. PICK n \in Nat \ S : \A m \in Nat \ S : ~ (<<m, n>> \in OpToRel(<, Nat))
  BY WFMin, NatLessThanWellFounded
<1>2. n \in Nat /\ n \notin S
  OBVIOUS
<1>3. n # 0 /\ n - 1 \in Nat /\ n - 1 < n /\ (n - 1) + 1 = n
  BY <1>2
<1>4. n - 1 \in S
  BY <1>1, <1>3 DEF OpToRel
<1>5. (n - 1) + 1 \in S
  BY <1>3, <1>4
<1>6. QED
  BY <1>2, <1>3, <1>5

StatementKinds ==
    {"empty", "act", "seq", "if", "while", "do", "for", "switch",
     "break", "continue", "goto", "label", "return"}

LEMMA PortionIs ==
    /\ \A root \in Statements : root \in Portions /\ root.kind \in StatementKinds
    /\ \A loop \in Statements : loop.kind \in {"while", "do", "for"} => Again(loop) \in Portions
    /\ \A loop : Again(loop).kind = "again" /\ Again(loop).loop = loop
    /\ EndSwitch \in Portions /\ EndSwitch.kind = "end switch"
    /\ \A x \in Portions :
           \/ x \in Statements
           \/ x.kind = "again" /\ x.loop \in Loops /\ x = Again(x.loop)
           \/ x.kind = "end switch"
<1>1. \A root \in Statements : root \in Portions /\ root.kind \in StatementKinds
  <2>1. \A root \in Statements : root.kind \in StatementKinds
    BY StatementIs DEF IsStatement, StatementKinds
  <2>2. QED
    BY <2>1 DEF Portions
<1>2. /\ \A loop \in Statements :
             loop.kind \in {"while", "do", "for"} => Again(loop) \in Portions
      /\ \A loop : Again(loop).kind = "again" /\ Again(loop).loop = loop
  BY DEF Portions, Loops, Again
<1>3. EndSwitch \in Portions /\ EndSwitch.kind = "end switch"
  BY DEF Portions, EndSwitch
<1>4. ASSUME NEW x \in Portions
      PROVE  \/ x \in Statements
             \/ x.kind = "again" /\ x.loop \in Loops /\ x = Again(x.loop)
             \/ x.kind = "end switch"
  <2>1. CASE x \in {Again(loop) : loop \in Loops}
    <3>1. PICK loop \in Loops : x = Again(loop)
      BY <2>1
    <3>2. QED
      BY <1>2, <3>1
  <2>2. QED
    BY <1>3, <2>1 DEF Portions
<1>5. QED
  BY <1>1, <1>2, <1>3, <1>4

\* Something in front of what is left to do.
LEMMA FrontIs ==
    ASSUME NEW x \in Portions, NEW t \in Todos
    PROVE  /\ <<x>> \o t \in Todos /\ <<x>> \o t # <<>>
           /\ Head(<<x>> \o t) = x /\ Tail(<<x>> \o t) = t
BY DEF Todos

LEMMA FrontsAre ==
    ASSUME NEW x \in Portions, NEW y \in Portions, NEW t \in Todos
    PROVE  <<x, y>> \o t = <<x>> \o (<<y>> \o t)
<1>1. /\ <<x, y>> \o t \in Seq(Portions) /\ <<x>> \o (<<y>> \o t) \in Seq(Portions)
      /\ Len(<<x, y>> \o t) = Len(t) + 2 /\ Len(<<x>> \o (<<y>> \o t)) = Len(t) + 2
  BY DEF Todos
<1>2. \A k \in 1 .. Len(t) + 2 : (<<x, y>> \o t)[k] = (<<x>> \o (<<y>> \o t))[k]
  BY DEF Todos
<1>3. QED
  BY <1>1, <1>2, SeqEqual

LEMMA TodosAre ==
    /\ <<>> \in Todos
    /\ \A s, t \in Todos : s \o t \in Todos
    /\ \A s, t, u \in Todos : (s \o t) \o u = s \o (t \o u)
    /\ \A s \in Todos : <<>> \o s = s /\ s \o <<>> = s
    /\ \A s \in Seq(Statements) : s \in Todos
    /\ \A x \in Portions : <<x>> \in Todos
    /\ \A s \in Todos : s # <<>> => /\ Head(s) \in Portions /\ Tail(s) \in Todos
                                    /\ s = <<Head(s)>> \o Tail(s)
<1>1. Statements \subseteq Portions
  BY DEF Portions
<1>2. \A s \in Seq(Statements) : s \in Todos
  BY <1>1 DEF Todos
<1>3. \A s, t, u \in Todos : (s \o t) \o u = s \o (t \o u)
  BY ConcatAssociative DEF Todos
<1>4. \A s \in Todos : <<>> \o s = s /\ s \o <<>> = s
  BY ConcatEmptySeq DEF Todos
<1>5. \A s \in Todos : s # <<>> => /\ Head(s) \in Portions /\ Tail(s) \in Todos
                                   /\ s = <<Head(s)>> \o Tail(s)
  BY HeadTailProperties DEF Todos
<1>6. QED
  BY <1>2, <1>3, <1>4, <1>5 DEF Todos

-----------------------------------------------------------------------------
Whole(C) == \A t \in Todos : ~Settled(t) => (t \in C <=> Unfolded(t) \in C)

Alike(a, b) == \A C \in SUBSET Todos : Whole(C) => (a \in C <=> b \in C)

LEMMA AlikeIs ==
    /\ \A a : Alike(a, a)
    /\ \A a, b : Alike(a, b) => Alike(b, a)
    /\ \A a, b, c : Alike(a, b) /\ Alike(b, c) => Alike(a, c)
    /\ \A t \in Todos : ~Settled(t) => Alike(t, Unfolded(t))
BY DEF Alike, Whole

\* What is settled is alike to nothing else which is.
LEMMA SettledAlike ==
    ASSUME NEW a \in Todos, NEW b \in Todos, Settled(a), Settled(b), Alike(a, b)
    PROVE  a = b
<1> DEFINE Closes(D) == a \in D /\ \A t \in Todos : ~Settled(t) /\ Unfolded(t) \in D => t \in D
           C == {t \in Todos : \A D \in SUBSET Todos : Closes(D) => t \in D}
<1>1. C \in SUBSET Todos /\ a \in C
  OBVIOUS
<1>2. ASSUME NEW D \in SUBSET Todos, Closes(D) PROVE C \subseteq D
  BY <1>2
<1>3. ASSUME NEW t \in Todos, ~Settled(t), Unfolded(t) \in C
      PROVE  t \in C
  BY <1>3
<1>4. ASSUME NEW t \in Todos, t # a, ~Settled(t) => Unfolded(t) \notin C
      PROVE  t \notin C
  <2> DEFINE D == C \ {t}
  <2>1. D \in SUBSET Todos /\ a \in D
    BY <1>1, <1>4
  <2>2. ASSUME NEW u \in Todos, ~Settled(u), Unfolded(u) \in D
        PROVE  u \in D
    <3>1. u \in C
      BY <1>3, <2>2
    <3>2. u # t
      BY <1>4, <2>2
    <3>3. QED
      BY <3>1, <3>2
  <2>3. Closes(D)
    BY <2>1, <2>2
  <2>4. t \notin D
    OBVIOUS
  <2>5. QED
    BY <1>2, <2>1, <2>3, <2>4
<1> HIDE DEF C
<1>5. Whole(C)
  <2>1. ASSUME NEW t \in Todos, ~Settled(t), t \in C PROVE Unfolded(t) \in C
    BY <1>4, <2>1
  <2>2. QED
    BY <1>3, <2>1 DEF Whole
<1>6. b \in C
  BY <1>1, <1>5 DEF Alike
<1>7. QED
  BY <1>4, <1>6

-----------------------------------------------------------------------------
(***************************************************************************)
(* What each statement unfolds to.                                         *)
(***************************************************************************)
AsksFirst == {"act", "if", "while", "for", "switch", "goto"}

LEMMA FrontUnfolds ==
    ASSUME NEW x \in Portions, NEW t \in Todos,
           x.kind \notin AsksFirst, ~(x.kind = "again" /\ x.loop.kind = "do")
    PROVE  Alike(<<x>> \o t, Unfolded(<<x>> \o t))
<1>1. /\ <<x>> \o t \in Todos /\ <<x>> \o t # <<>>
      /\ Head(<<x>> \o t) = x
  BY FrontIs
<1>2. ~Settled(<<x>> \o t)
  BY <1>1 DEF Settled, AsksFirst
<1>3. QED
  BY <1>1, <1>2, AlikeIs

LEMMA NothingUnfolds ==
    ASSUME NEW x \in Portions, NEW t \in Todos, x.kind \in {"empty", "end switch"}
    PROVE  Alike(<<x>> \o t, t)
<1>1. Unfolded(<<x>> \o t) = t
  BY Zenon, FrontIs DEF Unfolded
<1>2. QED
  BY <1>1, FrontUnfolds DEF AsksFirst

LEMMA PairUnfolds ==
    ASSUME NEW x \in Statements, NEW t \in Todos, x.kind = "seq"
    PROVE  Alike(<<x>> \o t, <<x.left>> \o (<<x.right>> \o t))
<1>1. x \in Portions /\ x.left \in Portions /\ x.right \in Portions
  BY StatementIs, PortionIs DEF IsStatement
<1>2. Unfolded(<<x>> \o t) = <<x.left, x.right>> \o t
  BY Zenon, <1>1, FrontIs DEF Unfolded
<1>3. Alike(<<x>> \o t, Unfolded(<<x>> \o t))
  BY <1>1, FrontUnfolds DEF AsksFirst
<1>4. <<x.left, x.right>> \o t = <<x.left>> \o (<<x.right>> \o t)
  BY <1>1, FrontsAre
<1>5. QED
  BY <1>2, <1>3, <1>4

LEMMA LabelUnfolds ==
    ASSUME NEW x \in Statements, NEW t \in Todos, x.kind = "label"
    PROVE  Alike(<<x>> \o t, <<x.body>> \o t)
<1>1. x \in Portions
  BY PortionIs
<1>2. Unfolded(<<x>> \o t) = <<x.body>> \o t
  BY Zenon, <1>1, FrontIs DEF Unfolded
<1>3. QED
  BY <1>1, <1>2, FrontUnfolds DEF AsksFirst

LEMMA DoUnfolds ==
    ASSUME NEW x \in Statements, NEW t \in Todos, x.kind = "do"
    PROVE  Alike(<<x>> \o t, <<x.body>> \o (<<Again(x)>> \o t))
<1>1. x \in Portions /\ x.body \in Portions /\ Again(x) \in Portions
  BY StatementIs, PortionIs DEF IsStatement
<1>2. Unfolded(<<x>> \o t) = <<x.body, Again(x)>> \o t
  BY Zenon, <1>1, FrontIs DEF Unfolded
<1>3. Alike(<<x>> \o t, Unfolded(<<x>> \o t))
  BY <1>1, FrontUnfolds DEF AsksFirst
<1>4. <<x.body, Again(x)>> \o t = <<x.body>> \o (<<Again(x)>> \o t)
  BY <1>1, FrontsAre
<1>5. QED
  BY <1>2, <1>3, <1>4

LEMMA WhileUnfolds ==
    ASSUME NEW x \in Statements, NEW t \in Todos, x.kind = "while"
    PROVE  Alike(<<Again(x)>> \o t, <<x>> \o t)
<1>1. Again(x) \in Portions /\ Again(x).kind = "again" /\ Again(x).loop = x
  BY PortionIs
<1>2. Unfolded(<<Again(x)>> \o t) = <<x>> \o t
  BY Zenon, <1>1, FrontIs DEF Unfolded
<1>3. QED
  BY <1>1, <1>2, FrontUnfolds DEF AsksFirst

LEMMA ForUnfolds ==
    ASSUME NEW x \in Statements, NEW t \in Todos, x.kind = "for"
    PROVE  /\ x.step = <<>> => Alike(<<Again(x)>> \o t, <<x>> \o t)
           /\ x.step # <<>> => /\ x.step[1] \in Statements /\ x.step[1].kind = "act"
                               /\ Alike(<<Again(x)>> \o t, <<x.step[1]>> \o (<<x>> \o t))
<1>1. /\ Again(x) \in Portions /\ Again(x).kind = "again" /\ Again(x).loop = x
      /\ x \in Portions
  BY PortionIs
<1>2. Unfolded(<<Again(x)>> \o t) = x.step \o <<x>> \o t
  BY Zenon, <1>1, FrontIs DEF Unfolded
<1>3. Alike(<<Again(x)>> \o t, x.step \o <<x>> \o t)
  BY <1>1, <1>2, FrontUnfolds DEF AsksFirst
<1>4. /\ x.step \in Seq(Statements) /\ Len(x.step) \in {0, 1}
      /\ \A k \in DOMAIN x.step : x.step[k].kind = "act"
  BY StatementIs DEF IsStatement
<1>5. ASSUME x.step = <<>> PROVE Alike(<<Again(x)>> \o t, <<x>> \o t)
  <2>1. <<x>> \in Todos
    BY <1>1, TodosAre
  <2>2. <<>> \o <<x>> = <<x>>
    BY <2>1, TodosAre
  <2>3. QED
    BY <1>3, <1>5, <2>2
<1>6. ASSUME x.step # <<>>
      PROVE  /\ x.step[1] \in Statements /\ x.step[1].kind = "act"
             /\ Alike(<<Again(x)>> \o t, <<x.step[1]>> \o (<<x>> \o t))
  <2>1. Len(x.step) = 1 /\ x.step = <<x.step[1]>> /\ x.step[1] \in Statements
    BY <1>4, <1>6
  <2>2. x.step[1].kind = "act" /\ x.step[1] \in Portions
    <3>1. 1 \in DOMAIN x.step
      BY <1>4, <2>1
    <3>2. QED
      BY <1>4, <2>1, <3>1, PortionIs
  <2>3. <<x.step[1]>> \in Todos /\ <<x>> \in Todos
    BY <1>1, <2>2, TodosAre
  <2>4. (<<x.step[1]>> \o <<x>>) \o t = <<x.step[1]>> \o (<<x>> \o t)
    BY <2>3, TodosAre
  <2>5. QED
    BY <1>3, <2>1, <2>2, <2>4
<1>7. QED
  BY <1>5, <1>6

LEMMA ReturnUnfolds ==
    ASSUME NEW x \in Statements, NEW t \in Todos, x.kind = "return"
    PROVE  Alike(<<x>> \o t, <<>>)
<1>1. x \in Portions
  BY PortionIs
<1>2. Unfolded(<<x>> \o t) = <<>>
  BY Zenon, <1>1, FrontIs DEF Unfolded
<1>3. QED
  BY <1>1, <1>2, FrontUnfolds DEF AsksFirst

\* A break goes past what stands in the loop or the switch behind it, ...
LEMMA BreakUnfolds ==
    ASSUME NEW x \in Statements, x.kind = "break", NEW y \in Portions, NEW t \in Todos
    PROVE  /\ Breakable(y) => Alike(<<x>> \o (<<y>> \o t), t)
           /\ ~Breakable(y) => Alike(<<x>> \o (<<y>> \o t), <<x>> \o t)
<1>1. x \in Portions
  BY PortionIs
<1>2. PICK u \in Todos : /\ u = <<y>> \o t /\ u # <<>> /\ Head(u) = y /\ Tail(u) = t
  BY FrontIs
<1>3. Unfolded(<<x>> \o u) = IF Breakable(y) THEN t ELSE <<x>> \o t
  BY Zenon, <1>1, <1>2, FrontIs DEF Unfolded
<1>4. Alike(<<x>> \o u, Unfolded(<<x>> \o u))
  BY <1>1, FrontUnfolds DEF AsksFirst
<1>5. QED
  BY <1>2, <1>3, <1>4

\* ... a continue past what stands in the loop, switches included.
LEMMA ContinueUnfolds ==
    ASSUME NEW x \in Statements, x.kind = "continue", NEW y \in Portions, NEW t \in Todos
    PROVE  /\ y.kind = "again" => Alike(<<x>> \o (<<y>> \o t), <<y>> \o t)
           /\ y.kind # "again" => Alike(<<x>> \o (<<y>> \o t), <<x>> \o t)
<1>1. x \in Portions
  BY PortionIs
<1>2. PICK u \in Todos : /\ u = <<y>> \o t /\ u # <<>> /\ Head(u) = y /\ Tail(u) = t
  BY FrontIs
<1>3. Unfolded(<<x>> \o u) = IF y.kind = "again" THEN u ELSE <<x>> \o t
  BY Zenon, <1>1, <1>2, FrontIs DEF Unfolded
<1>4. Alike(<<x>> \o u, Unfolded(<<x>> \o u))
  BY <1>1, FrontUnfolds DEF AsksFirst
<1>5. QED
  BY <1>2, <1>3, <1>4

\* Both go past any number of statements.
LEMMA JumpsPass ==
    ASSUME NEW x \in Statements, x.kind \in {"break", "continue"}, NEW t \in Todos,
           NEW s \in Seq(Statements)
    PROVE  Alike(<<x>> \o (s \o t), <<x>> \o t)
<1> DEFINE N == {n \in Nat : \A r \in Seq(Statements) :
                     Len(r) = n => Alike(<<x>> \o (r \o t), <<x>> \o t)}
<1>1. 0 \in N
  <2>1. ASSUME NEW r \in Seq(Statements), Len(r) = 0
        PROVE  Alike(<<x>> \o (r \o t), <<x>> \o t)
    <3>1. r = <<>>
      BY <2>1
    <3>2. <<>> \o t = t
      BY TodosAre
    <3>3. QED
      BY <3>1, <3>2, AlikeIs
  <2>2. QED
    BY <2>1
<1>2. ASSUME NEW n \in Nat, n \in N PROVE n + 1 \in N
  <2>1. ASSUME NEW r \in Seq(Statements), Len(r) = n + 1
        PROVE  Alike(<<x>> \o (r \o t), <<x>> \o t)
    <3>1. PICK y, q : y = Head(r) /\ q = Tail(r)
      OBVIOUS
    <3>2. /\ r # <<>> /\ y \in Statements /\ q \in Seq(Statements) /\ Len(q) = n
          /\ r = <<y>> \o q
      BY <2>1, <3>1, HeadTailProperties
    <3>3. y \in Portions /\ y.kind \in StatementKinds /\ <<y>> \in Todos /\ q \in Todos
      BY <3>2, PortionIs, TodosAre
    <3>4. r \o t = <<y>> \o (q \o t) /\ q \o t \in Todos
      BY <3>2, <3>3, TodosAre, SMTT(30)
    <3>5. Alike(<<x>> \o (<<y>> \o (q \o t)), <<x>> \o (q \o t))
      <4>1. ~Breakable(y) /\ y.kind # "again"
        BY <3>3 DEF Breakable, StatementKinds
      <4>2. QED
        BY <3>3, <3>4, <4>1, BreakUnfolds, ContinueUnfolds
    <3>6. Alike(<<x>> \o (q \o t), <<x>> \o t)
      BY <1>2, <3>2
    <3>7. QED
      BY <3>4, <3>5, <3>6, AlikeIs
  <2>2. QED
    BY <2>1
<1>3. \A n \in Nat : n \in N
  <2> HIDE DEF N
  <2>1. QED
    BY <1>1, <1>2, AllNumbers
<1>4. Len(s) \in Nat
  OBVIOUS
<1>5. QED
  BY <1>3, <1>4

-----------------------------------------------------------------------------
(***************************************************************************)
(* Where the machine may be: in which function, with which value of a      *)
(* switch, and with what left to do.  What is alike is in the same places. *)
(***************************************************************************)
Points == [of : Nat, value : Nat, todo : Todos]

Point(f, v, t) == [of |-> f, value |-> v, todo |-> t]

Steady(S) ==
    /\ S \subseteq Points
    /\ \A p \in S : \A t \in Todos : Alike(p.todo, t) => Point(p.of, p.value, t) \in S

\* So much is left to do of a function.
States(f, t) == {p \in Points : p.of = f /\ Alike(p.todo, t)}

\* What is left to do from the arm which a value goes to.
Arrived(switch, v, t) == ArmsFrom(switch, ArmOf(switch, v)) \o (<<EndSwitch>> \o t)

\* The value of a switch was asked for, and is one of these.
Choosing(f, switch, t, from, to) ==
    {p \in Points : /\ p.of = f /\ p.value \in from .. to
                    /\ Alike(p.todo, Arrived(switch, p.value, t))}

LEMMA PointIs ==
    /\ \A f, v \in Nat, t \in Todos : Point(f, v, t) \in Points
    /\ \A f, v, t : Point(f, v, t).of = f /\ Point(f, v, t).value = v /\ Point(f, v, t).todo = t
    /\ \A p \in Points : /\ p.of \in Nat /\ p.value \in Nat /\ p.todo \in Todos
                         /\ p = Point(p.of, p.value, p.todo)
BY DEF Points, Point

LEMMA StatesAreSteady ==
    /\ Steady({})
    /\ \A f, t : Steady(States(f, t))
    /\ \A f, switch, t, from, to : Steady(Choosing(f, switch, t, from, to))
<1>1. ASSUME NEW f, NEW t PROVE Steady(States(f, t))
  BY PointIs, AlikeIs DEF Steady, States
<1>2. ASSUME NEW f, NEW switch, NEW t, NEW from, NEW to
      PROVE  Steady(Choosing(f, switch, t, from, to))
  BY PointIs, AlikeIs DEF Steady, Choosing
<1>3. QED
  BY <1>1, <1>2 DEF Steady

LEMMA SameStates ==
    ASSUME NEW f, NEW t, NEW u, Alike(t, u)
    PROVE  States(f, t) = States(f, u)
BY AlikeIs DEF States

-----------------------------------------------------------------------------
(***************************************************************************)
(* What an item does: from where the machine may be before it to where it  *)
(* may be behind it.  `env.at` is where it may be at each label, `env.due` *)
(* the labels of names which gotos of an unfinished function go to,        *)
(* `env.of` the function calls belong to and `env.bodies` all of them.     *)
(***************************************************************************)

\* A break and a continue in a call go where the labels say they go.
Leaving(call, f, t, at) ==
    \A x \in Statements :
        /\ x.kind = "break" /\ call.leaves # 0 =>
               call.leaves \in DOMAIN at /\ at[call.leaves] = States(f, <<x>> \o t)
        /\ x.kind = "continue" /\ call.again # 0 =>
               call.again \in DOMAIN at /\ at[call.again] = States(f, <<x>> \o t)

\* The statement t begins with is what the item asks for.
Asked(item, b, e, f, t, env) ==
    /\ b = States(f, t) /\ t # <<>> /\ Settled(t) /\ EventOf(Head(t)) = item.event
    /\ item.op = "event" => Head(t).kind = "act" /\ e = States(f, Tail(t))
    /\ item.op = "test" =>
           /\ Head(t).kind \in {"if", "while", "for", "again"}
           /\ e = States(f, AfterEvent(env.bodies[f], t, 1))
           /\ item.label \in DOMAIN env.at
           /\ env.at[item.label] = States(f, AfterEvent(env.bodies[f], t, 0))
    /\ item.op = "switch" =>
           /\ Head(t).kind = "switch" /\ item.answers \in Nat
           /\ e = Choosing(f, Head(t), Tail(t), 1, item.answers)
    /\ item.op = "goto" =>
           /\ Head(t).kind = "goto"
           /\ \/ [of |-> f, name |-> Head(t).name, label |-> item.label] \in env.due
              \/ /\ AfterEvent(env.bodies[f], t, 0) \in Todos
                 /\ item.label \in DOMAIN env.at
                 /\ env.at[item.label] = States(f, AfterEvent(env.bodies[f], t, 0))

\* What is left to do of the function once the call has come back.
Called(item, b, e, r, t, env) ==
    /\ env.of # 0 /\ item.root \in Statements
    /\ b = States(env.of, <<item.root>> \o t) /\ e = States(env.of, t)
    /\ r = Onto(Rests[item.root], t)
    /\ item.root.kind # "act" => Leaving(item, env.of, t, env.at)

Questions == {"event", "test", "switch", "goto"}

\* r is what is left to do from each label in the statement which is called.
Follows(item, b, e, r, env) ==
    /\ item.op = "statement" => \E t \in Todos : Called(item, b, e, r, t, env)
    /\ item.op # "statement" => r = {}
    /\ item.op = "label" => /\ item.label \in DOMAIN env.at
                            /\ b = env.at[item.label] /\ e = b
    /\ item.op = "jump" => item.label \in DOMAIN env.at /\ b \subseteq env.at[item.label]
    /\ item.op = "case" =>
           /\ item.label \in DOMAIN env.at
           /\ \A p \in b : IF p.value = item.value THEN p \in env.at[item.label] ELSE p \in e
    /\ item.op \in Questions => \E f \in Nat : \E t \in Todos : Asked(item, b, e, f, t, env)
    /\ item.op = "preamble" => /\ item.function \in DOMAIN env.bodies
                               /\ e = States(item.function, <<env.bodies[item.function]>>)
    /\ item.op = "postamble" => \E f : b = States(f, <<>>)
    /\ item.op \in Sets => b = e

IsSequence(items) == \E S : items \in Seq(S)

Path(items, w, r, env) ==
    /\ \A k \in 1 .. Len(items) + 1 : Steady(w[k])
    /\ \A k \in 1 .. Len(items) : Follows(items[k], w[k], w[k + 1], r[k], env)

Flow(items, b, e, rests, env) ==
    /\ IsSequence(items)
    /\ \E w, r : /\ Path(items, w, r, env)
                 /\ w[1] = b /\ w[Len(items) + 1] = e
                 /\ rests = UNION {r[k] : k \in 1 .. Len(items)}

LEMMA PathFlows ==
    ASSUME NEW items, NEW w, NEW r, NEW env, IsSequence(items), Path(items, w, r, env)
    PROVE  Flow(items, w[1], w[Len(items) + 1], UNION {r[k] : k \in 1 .. Len(items)}, env)
BY DEF Flow

LEMMA ConcatOf ==
    ASSUME NEW S, NEW s \in Seq(S), NEW t \in Seq(S)
    PROVE  /\ s \o t \in Seq(S) /\ Len(s) \in Nat /\ Len(t) \in Nat
           /\ Len(s \o t) = Len(s) + Len(t)
           /\ \A k \in 1 .. Len(s) : (s \o t)[k] = s[k]
           /\ \A k \in Len(s) + 1 .. Len(s) + Len(t) : (s \o t)[k] = t[k - Len(s)]
OBVIOUS

LEMMA JoinIsSequence ==
    ASSUME NEW a, IsSequence(a), NEW b, IsSequence(b)
    PROVE  /\ IsSequence(a \o b) /\ Len(a) \in Nat /\ Len(b) \in Nat
           /\ Len(a \o b) = Len(a) + Len(b)
           /\ \A k \in 1 .. Len(a) : (a \o b)[k] = a[k]
           /\ \A k \in Len(a) + 1 .. Len(a) + Len(b) : (a \o b)[k] = b[k - Len(a)]
<1>1. PICK S : a \in Seq(S)
  BY DEF IsSequence
<1>2. PICK T : b \in Seq(T)
  BY DEF IsSequence
<1>3. a \in Seq(S \cup T) /\ b \in Seq(S \cup T)
  BY <1>1, <1>2
<1>4. QED
  BY <1>3, ConcatOf DEF IsSequence

LEMMA NothingFlows ==
    ASSUME NEW b, Steady(b), NEW env
    PROVE  Flow(<<>>, b, b, {}, env)
<1> DEFINE w == [k \in 1 .. 1 |-> b]
<1>1. IsSequence(<<>>) /\ Len(<<>>) = 0
  BY DEF IsSequence
<1>2. w[1] = b
  OBVIOUS
<1> HIDE DEF w
<1>3. Path(<<>>, w, <<>>, env)
  BY <1>1, <1>2 DEF Path
<1>4. UNION {<<>>[k] : k \in 1 .. 0} = {}
  OBVIOUS
<1>5. QED
  BY <1>1, <1>2, <1>3, <1>4 DEF Flow

LEMMA NoneFlows ==
    ASSUME NEW b, NEW e, NEW rests, NEW env, Flow(<<>>, b, e, rests, env)
    PROVE  b = e /\ rests = {} /\ Steady(b)
<1>1. PICK w, r : /\ Path(<<>>, w, r, env) /\ w[1] = b /\ w[Len(<<>>) + 1] = e
                  /\ rests = UNION {r[k] : k \in 1 .. Len(<<>>)}
  BY DEF Flow
<1>2. Len(<<>>) = 0 /\ 1 \in 1 .. 0 + 1 /\ 0 + 1 = 1 /\ 1 .. 0 = {}
  OBVIOUS
<1>3. QED
  BY <1>1, <1>2 DEF Path

LEMMA OneFlows ==
    ASSUME NEW x, NEW b, NEW e, NEW r, NEW env, Steady(b), Steady(e), Follows(x, b, e, r, env)
    PROVE  Flow(<<x>>, b, e, r, env)
<1> DEFINE w == [k \in 1 .. 2 |-> IF k = 1 THEN b ELSE e]
           u == [k \in 1 .. 1 |-> r]
<1>1. Len(<<x>>) = 1 /\ <<x>>[1] = x /\ IsSequence(<<x>>)
  <2>1. <<x>> \in Seq({x})
    OBVIOUS
  <2>2. QED
    BY <2>1 DEF IsSequence
<1>2. w[1] = b /\ w[2] = e /\ u[1] = r
  OBVIOUS
<1> HIDE DEF w, u
<1>3. Path(<<x>>, w, u, env)
  BY <1>1, <1>2 DEF Path
<1>4. UNION {u[k] : k \in 1 .. 1} = r
  BY <1>2
<1>5. QED
  BY <1>1, <1>2, <1>3, <1>4 DEF Flow

LEMMA JoinFlows ==
    ASSUME NEW a, NEW c, NEW b, NEW m, NEW e, NEW p, NEW q, NEW env,
           Flow(a, b, m, p, env), Flow(c, m, e, q, env)
    PROVE  Flow(a \o c, b, e, p \cup q, env)
<1>1. PICK u, f : /\ Path(a, u, f, env) /\ u[1] = b /\ u[Len(a) + 1] = m
                  /\ p = UNION {f[k] : k \in 1 .. Len(a)}
  BY DEF Flow
<1>2. PICK v, g : /\ Path(c, v, g, env) /\ v[1] = m /\ v[Len(c) + 1] = e
                  /\ q = UNION {g[k] : k \in 1 .. Len(c)}
  BY DEF Flow
<1>3. PICK i, n, items : i = Len(a) /\ n = Len(c) /\ items = a \o c
  OBVIOUS
<1>4. /\ i \in Nat /\ n \in Nat /\ IsSequence(items) /\ Len(items) = i + n
      /\ \A k \in 1 .. i : items[k] = a[k]
      /\ \A k \in i + 1 .. i + n : items[k] = c[k - i]
  BY <1>3, JoinIsSequence DEF Flow
<1>5. /\ \A k \in 1 .. i + 1 : Steady(u[k])
      /\ \A k \in 1 .. i : Follows(a[k], u[k], u[k + 1], f[k], env)
  BY <1>1, <1>3 DEF Path
<1>6. /\ \A k \in 1 .. n + 1 : Steady(v[k])
      /\ \A k \in 1 .. n : Follows(c[k], v[k], v[k + 1], g[k], env)
  BY <1>2, <1>3 DEF Path
<1> DEFINE w == [k \in 1 .. i + n + 1 |-> IF k <= i THEN u[k] ELSE v[k - i]]
           r == [k \in 1 .. i + n |-> IF k <= i THEN f[k] ELSE g[k - i]]
<1>7. /\ \A k \in 1 .. i + n + 1 : w[k] = IF k <= i THEN u[k] ELSE v[k - i]
      /\ \A k \in 1 .. i + n : r[k] = IF k <= i THEN f[k] ELSE g[k - i]
  OBVIOUS
<1> HIDE DEF w, r
<1>8. w[i + 1] = u[i + 1] /\ w[i + n + 1] = e /\ w[1] = b
  <2>1. i + 1 \in 1 .. i + n + 1 /\ (i + 1) - i = 1 /\ ~(i + 1 <= i)
    BY <1>4
  <2>2. i + n + 1 \in 1 .. i + n + 1 /\ (i + n + 1) - i = n + 1 /\ ~(i + n + 1 <= i)
    BY <1>4
  <2>3. 1 \in 1 .. i + n + 1 /\ (1 <= i \/ i + 1 = 1)
    BY <1>4
  <2>4. w[i + 1] = m /\ w[i + n + 1] = e
    BY <1>2, <1>3, <1>7, <2>1, <2>2
  <2>5. w[1] = b
    BY <1>1, <1>3, <1>7, <2>3, <2>4
  <2>6. QED
    BY <1>1, <1>3, <2>4, <2>5
<1>9. ASSUME NEW k \in 1 .. i + n + 1 PROVE Steady(w[k])
  <2>1. CASE k <= i
    BY <1>4, <1>5, <1>7, <2>1
  <2>2. CASE k > i
    <3>1. k - i \in 1 .. n + 1 /\ ~(k <= i)
      BY <1>4, <2>2
    <3>2. QED
      BY <1>6, <1>7, <3>1
  <2>3. QED
    BY <1>4, <2>1, <2>2
<1>10. ASSUME NEW k \in 1 .. i + n
       PROVE  Follows(items[k], w[k], w[k + 1], r[k], env)
  <2>0. k \in 1 .. i + n + 1 /\ k + 1 \in 1 .. i + n + 1
    BY <1>4
  <2>1. CASE k <= i
    <3>1. k \in 1 .. i /\ w[k] = u[k] /\ r[k] = f[k] /\ items[k] = a[k]
      BY <1>4, <1>7, <2>0, <2>1
    <3>2. w[k + 1] = u[k + 1]
      <4>1. CASE k = i
        BY <1>8, <4>1
      <4>2. CASE k # i
        <5>1. k + 1 <= i
          BY <1>4, <2>1, <4>2
        <5>2. QED
          BY <1>7, <2>0, <5>1
      <4>3. QED
        BY <4>1, <4>2
    <3>3. QED
      BY <1>5, <3>1, <3>2
  <2>2. CASE k > i
    <3>1. /\ k - i \in 1 .. n /\ ~(k <= i) /\ ~(k + 1 <= i) /\ (k + 1) - i = (k - i) + 1
          /\ k \in i + 1 .. i + n
      BY <1>4, <2>2
    <3>2. /\ w[k] = v[k - i] /\ w[k + 1] = v[(k - i) + 1] /\ r[k] = g[k - i]
          /\ items[k] = c[k - i]
      BY <1>4, <1>7, <2>0, <3>1
    <3>3. QED
      BY <1>6, <3>1, <3>2
  <2>3. QED
    BY <1>4, <2>1, <2>2
<1>11. Path(items, w, r, env)
  BY <1>4, <1>9, <1>10 DEF Path
<1>12. p \cup q = UNION {r[k] : k \in 1 .. i + n}
  <2>1. ASSUME NEW k \in 1 .. i PROVE k \in 1 .. i + n /\ r[k] = f[k]
    BY <1>4, <1>7
  <2>2. ASSUME NEW k \in 1 .. n PROVE k + i \in 1 .. i + n /\ r[k + i] = g[k]
    <3>1. k + i \in 1 .. i + n /\ ~(k + i <= i) /\ (k + i) - i = k
      BY <1>4
    <3>2. QED
      BY <1>7, <3>1
  <2>3. ASSUME NEW k \in 1 .. i + n
        PROVE  (k \in 1 .. i /\ r[k] = f[k]) \/ (k - i \in 1 .. n /\ r[k] = g[k - i])
    BY <1>4, <1>7
  <2>4. ASSUME NEW x \in p \cup q PROVE x \in UNION {r[k] : k \in 1 .. i + n}
    BY <1>1, <1>2, <1>3, <2>1, <2>2, SMTT(30)
  <2>5. ASSUME NEW x \in UNION {r[k] : k \in 1 .. i + n} PROVE x \in p \cup q
    BY <1>1, <1>2, <1>3, <2>3
  <2>6. QED
    BY <2>4, <2>5
<1>13. w[1] = b /\ w[Len(items) + 1] = e /\ p \cup q = UNION {r[k] : k \in 1 .. Len(items)}
  BY <1>4, <1>8, <1>12
<1>14. Flow(items, b, e, p \cup q, env)
  <2>1. IsSequence(items) /\ Path(items, w, r, env)
    BY <1>4, <1>11
  <2>2. Flow(items, w[1], w[Len(items) + 1], UNION {r[k] : k \in 1 .. Len(items)}, env)
    BY <2>1, PathFlows
  <2>3. QED
    BY <1>13, <2>2
<1>15. QED
  BY <1>3, <1>14

LEMMA TailFlows ==
    ASSUME NEW items, NEW b, NEW e, NEW rests, NEW env, Flow(items, b, e, rests, env),
           items # <<>>
    PROVE  \E m, r, more : /\ Steady(b) /\ Steady(m)
                           /\ Follows(Head(items), b, m, r, env)
                           /\ Flow(Tail(items), m, e, more, env)
                           /\ rests = r \cup more
<1>1. PICK w, r : /\ Path(items, w, r, env) /\ w[1] = b /\ w[Len(items) + 1] = e
                  /\ rests = UNION {r[k] : k \in 1 .. Len(items)}
  BY DEF Flow
<1>2. PICK S : items \in Seq(S)
  BY DEF Flow, IsSequence
<1>3. PICK n, first, tail : n = Len(items) /\ first = Head(items) /\ tail = Tail(items)
  OBVIOUS
<1>4. /\ n \in Nat /\ n >= 1 /\ tail \in Seq(S) /\ Len(tail) = n - 1
      /\ \A k \in 1 .. n - 1 : tail[k] = items[k + 1]
      /\ first = items[1]
  BY <1>2, <1>3
<1>5. /\ \A k \in 1 .. n + 1 : Steady(w[k])
      /\ \A k \in 1 .. n : Follows(items[k], w[k], w[k + 1], r[k], env)
  BY <1>1, <1>3 DEF Path
<1>6. Steady(b) /\ Steady(w[2]) /\ Follows(first, b, w[2], r[1], env)
  <2>1. 1 \in 1 .. n /\ 1 \in 1 .. n + 1 /\ 2 \in 1 .. n + 1 /\ 1 + 1 = 2
    BY <1>4
  <2>2. QED
    BY <1>1, <1>4, <1>5, <2>1
<1> DEFINE v == [k \in 1 .. n |-> w[k + 1]]
           g == [k \in 1 .. n - 1 |-> r[k + 1]]
<1>7. /\ \A k \in 1 .. n : v[k] = w[k + 1]
      /\ \A k \in 1 .. n - 1 : g[k] = r[k + 1]
  OBVIOUS
<1> HIDE DEF v, g
<1>8. v[1] = w[2] /\ v[n] = e
  <2>1. 1 \in 1 .. n /\ n \in 1 .. n /\ 1 + 1 = 2
    BY <1>4
  <2>2. QED
    BY <1>1, <1>3, <1>7, <2>1
<1>9. ASSUME NEW k \in 1 .. n - 1
      PROVE  Follows(tail[k], v[k], v[k + 1], g[k], env)
  <2>1. k \in 1 .. n /\ k + 1 \in 1 .. n
    BY <1>4
  <2>2. /\ tail[k] = items[k + 1] /\ v[k] = w[k + 1] /\ v[k + 1] = w[(k + 1) + 1]
        /\ g[k] = r[k + 1]
    BY <1>4, <1>7, <2>1
  <2>3. QED
    BY <1>5, <2>1, <2>2
<1>10. Path(tail, v, g, env)
  <2>1. (n - 1) + 1 = n
    BY <1>4
  <2>2. ASSUME NEW k \in 1 .. n PROVE Steady(v[k])
    <3>1. k + 1 \in 1 .. n + 1
      BY <1>4
    <3>2. QED
      BY <1>5, <1>7, <3>1
  <2>3. QED
    BY <1>4, <1>9, <2>1, <2>2 DEF Path
<1> DEFINE more == UNION {g[k] : k \in 1 .. n - 1}
<1>11. rests = r[1] \cup more
  <2>1. ASSUME NEW k \in 1 .. n PROVE k = 1 \/ (k - 1 \in 1 .. n - 1 /\ r[k] = g[k - 1])
    <3>1. k # 1 => k - 1 \in 1 .. n - 1 /\ (k - 1) + 1 = k
      BY <1>4
    <3>2. QED
      BY <1>7, <3>1
  <2>2. ASSUME NEW k \in 1 .. n - 1 PROVE k + 1 \in 1 .. n /\ r[k + 1] = g[k]
    BY <1>4, <1>7
  <2>3. 1 \in 1 .. n
    BY <1>4
  <2>4. ASSUME NEW x \in rests PROVE x \in r[1] \cup more
    BY <1>1, <1>3, <2>1
  <2>5. ASSUME NEW x \in r[1] \cup more PROVE x \in rests
    BY <1>1, <1>3, <2>2, <2>3
  <2>6. QED
    BY <2>4, <2>5
<1>12. Flow(tail, w[2], e, more, env)
  <2>1. IsSequence(tail) /\ Len(tail) = n - 1 /\ (n - 1) + 1 = n
    BY <1>4 DEF IsSequence
  <2>2. QED
    BY <1>8, <1>10, <2>1 DEF Flow
<1>13. QED
  BY <1>3, <1>6, <1>11, <1>12

\* More labels have a place, and more names are due.
Wider(env, more) ==
    /\ DOMAIN env.at \subseteq DOMAIN more.at
    /\ \A label \in DOMAIN env.at : more.at[label] = env.at[label]
    /\ env.due \subseteq more.due
    /\ more.of = env.of /\ more.bodies = env.bodies

LEMMA FollowsMore ==
    ASSUME NEW item, NEW b, NEW e, NEW r, NEW env, NEW more,
           Follows(item, b, e, r, env), Wider(env, more)
    PROVE  Follows(item, b, e, r, more)
<1>1. ASSUME NEW t, Called(item, b, e, r, t, env) PROVE Called(item, b, e, r, t, more)
  BY <1>1 DEF Called, Leaving, Wider
<1>2. ASSUME NEW f, NEW t, Asked(item, b, e, f, t, env) PROVE Asked(item, b, e, f, t, more)
  BY <1>2 DEF Asked, Wider
<1>3. QED
  BY <1>1, <1>2 DEF Follows, Wider

LEMMA MoreFlows ==
    ASSUME NEW items, NEW b, NEW e, NEW rests, NEW env, NEW more,
           Flow(items, b, e, rests, env), Wider(env, more)
    PROVE  Flow(items, b, e, rests, more)
<1>1. PICK w, r : /\ Path(items, w, r, env) /\ w[1] = b /\ w[Len(items) + 1] = e
                  /\ rests = UNION {r[k] : k \in 1 .. Len(items)}
  BY DEF Flow
<1>2. Path(items, w, r, more)
  BY <1>1, FollowsMore DEF Path
<1>3. QED
  BY <1>1, <1>2 DEF Flow

-----------------------------------------------------------------------------
(***************************************************************************)
(* The items, each alone.                                                  *)
(***************************************************************************)
LEMMA ItemOps ==
    /\ \A root, leaves, again : /\ Call(root, leaves, again).op = "statement"
                                /\ Call(root, leaves, again).root = root
                                /\ Call(root, leaves, again).leaves = leaves
                                /\ Call(root, leaves, again).again = again
    /\ \A l : /\ EmitLabel(l).op = "label" /\ EmitLabel(l).label = l
              /\ EmitJump(l).op = "jump" /\ EmitJump(l).label = l
              /\ SetBreak(l).op = "set break" /\ SetContinue(l).op = "set continue"
    /\ \A v, l : /\ JumpIfEqual(v, l).op = "case" /\ JumpIfEqual(v, l).value = v
                 /\ JumpIfEqual(v, l).label = l
    /\ \A v, l : /\ GenCondition(v, l).op = "test" /\ GenCondition(v, l).event = v
                 /\ GenCondition(v, l).label = l
    /\ \A v : GenEvent(v).op = "event" /\ GenEvent(v).event = v
    /\ \A v : EmitFunctionPreamble(v).op = "preamble" /\ EmitFunctionPreamble(v).function = v
    /\ EmitFunctionPostamble.op = "postamble"
BY DEF Call, EmitLabel, EmitJump, SetBreak, SetContinue, JumpIfEqual, GenCondition,
       GenEvent, EmitFunctionPreamble, EmitFunctionPostamble

LEMMA SetFollows ==
    ASSUME NEW b, NEW env, NEW x, x.op \in Sets
    PROVE  Follows(x, b, b, {}, env)
BY DEF Follows, Sets, Questions

LEMMA LabelFollows ==
    ASSUME NEW b, NEW env, NEW l, l \in DOMAIN env.at, b = env.at[l]
    PROVE  Follows(EmitLabel(l), b, b, {}, env)
BY ItemOps DEF Follows, Sets, Questions

LEMMA JumpFollows ==
    ASSUME NEW b, NEW e, NEW env, NEW l, l \in DOMAIN env.at, b \subseteq env.at[l]
    PROVE  Follows(EmitJump(l), b, e, {}, env)
BY ItemOps DEF Follows, Sets, Questions

LEMMA AskFollows ==
    ASSUME NEW x, x.op \in Questions, NEW b, NEW e, NEW env,
           NEW f \in Nat, NEW t \in Todos, Asked(x, b, e, f, t, env)
    PROVE  Follows(x, b, e, {}, env)
BY DEF Follows, Sets, Questions

LEMMA CallFollows ==
    ASSUME NEW x, x.op = "statement", NEW b, NEW e, NEW r, NEW env,
           NEW t \in Todos, Called(x, b, e, r, t, env)
    PROVE  Follows(x, b, e, r, env)
BY DEF Follows, Sets, Questions

LEMMA CaseFollows ==
    ASSUME NEW v, NEW l, NEW b, NEW e, NEW env, l \in DOMAIN env.at,
           \A p \in b : IF p.value = v THEN p \in env.at[l] ELSE p \in e
    PROVE  Follows(JumpIfEqual(v, l), b, e, {}, env)
<1>1. PICK item : item = JumpIfEqual(v, l)
  OBVIOUS
<1>2. item.op = "case" /\ item.value = v /\ item.label = l
  BY <1>1 DEF JumpIfEqual
<1>3. /\ item.label \in DOMAIN env.at
      /\ \A p \in b : IF p.value = item.value THEN p \in env.at[item.label] ELSE p \in e
  BY <1>2
<1>4. Follows(item, b, e, {}, env)
  <2>1. /\ item.op # "statement" /\ item.op # "label" /\ item.op # "jump"
        /\ item.op \notin Questions /\ item.op # "preamble" /\ item.op # "postamble"
        /\ item.op \notin Sets
    BY <1>2 DEF Sets, Questions
  <2>2. QED
    BY <1>3, <2>1, Zenon DEF Follows
<1>5. QED
  BY <1>1, <1>4

\* The condition of a statement, or of the loop whose body was gone through.
LEMMA TestFollows ==
    ASSUME NEW env, NEW f \in Nat, NEW t \in Todos, NEW x \in Portions,
           x.kind \in {"if", "while", "for"} \/ (x.kind = "again" /\ x.loop.kind = "do"),
           NEW l, l \in DOMAIN env.at,
           env.at[l] = States(f, AfterEvent(env.bodies[f], <<x>> \o t, 0)),
           NEW e, e = States(f, AfterEvent(env.bodies[f], <<x>> \o t, 1))
    PROVE  Follows(GenCondition(EventOf(x), l), States(f, <<x>> \o t), e, {}, env)
<1>1. PICK u \in Todos : u = <<x>> \o t /\ u # <<>> /\ Head(u) = x
  BY FrontIs
<1>2. Settled(u)
  BY <1>1 DEF Settled
<1>3. PICK item : item = GenCondition(EventOf(x), l)
  OBVIOUS
<1>4. item.op = "test" /\ item.event = EventOf(x) /\ item.label = l /\ item.op \in Questions
  BY <1>3 DEF GenCondition, Questions
<1>5. Asked(item, States(f, u), e, f, u, env)
  <2>1. x.kind \in {"if", "while", "for", "again"}
    OBVIOUS
  <2>2. item.op # "event" /\ item.op # "switch" /\ item.op # "goto"
    BY <1>4
  <2>3. /\ env.at[l] = States(f, AfterEvent(env.bodies[f], u, 0))
        /\ e = States(f, AfterEvent(env.bodies[f], u, 1))
    BY <1>1
  <2>4. QED
    BY <1>1, <1>2, <1>4, <2>1, <2>2, <2>3 DEF Asked
<1>6. Follows(item, States(f, u), e, {}, env)
  BY <1>4, <1>5, AskFollows
<1>7. QED
  BY <1>1, <1>3, <1>6

-----------------------------------------------------------------------------
(***************************************************************************)
(* What is left to do from the labels of a statement.                      *)
(***************************************************************************)
Ends == [name : Names, todo : Todos]

LEMMA EndIs ==
    ASSUME NEW A \in SUBSET Ends, NEW x \in A
    PROVE  x.name \in Names /\ x.todo \in Todos /\ x = [name |-> x.name, todo |-> x.todo]
BY DEF Ends

LEMMA OntoIs ==
    /\ \A t : Onto({}, t) = {}
    /\ \A A, B, t : Onto(A \cup B, t) = Onto(A, t) \cup Onto(B, t)
    /\ \A A \in SUBSET Ends, t \in Todos : Onto(A, t) \subseteq Ends
    /\ \A A \in SUBSET Ends, s, t \in Todos : Onto(Onto(A, s), t) = Onto(A, s \o t)
    /\ \A A \in SUBSET Ends : Onto(A, <<>>) = A
<1>1. \A t : Onto({}, t) = {}
  BY DEF Onto
<1>2. \A A, B, t : Onto(A \cup B, t) = Onto(A, t) \cup Onto(B, t)
  BY DEF Onto
<1>3. ASSUME NEW A \in SUBSET Ends, NEW t \in Todos PROVE Onto(A, t) \subseteq Ends
  <2>1. ASSUME NEW x \in A PROVE [name |-> x.name, todo |-> x.todo \o t] \in Ends
    BY EndIs, TodosAre DEF Ends
  <2>2. QED
    BY <2>1 DEF Onto
<1>4. ASSUME NEW A \in SUBSET Ends, NEW s \in Todos, NEW t \in Todos
      PROVE  Onto(Onto(A, s), t) = Onto(A, s \o t)
  <2>1. ASSUME NEW x \in A PROVE (x.todo \o s) \o t = x.todo \o (s \o t)
    <3>1. PICK y : y = x.todo
      OBVIOUS
    <3>2. y \in Todos
      BY <3>1, EndIs
    <3>3. (y \o s) \o t = y \o (s \o t)
      BY <3>2, TodosAre
    <3>4. QED
      BY <3>1, <3>3
  <2>2. Onto(Onto(A, s), t) = {[name |-> x.name, todo |-> (x.todo \o s) \o t] : x \in A}
    <3>1. \A x : /\ [name |-> x.name, todo |-> x.todo \o s].name = x.name
                 /\ [name |-> x.name, todo |-> x.todo \o s].todo = x.todo \o s
      OBVIOUS
    <3>2. QED
      BY <3>1 DEF Onto
  <2>3. QED
    BY <2>1, <2>2 DEF Onto
<1>5. ASSUME NEW A \in SUBSET Ends PROVE Onto(A, <<>>) = A
  <2>1. \A x \in A : x.todo \o <<>> = x.todo /\ x = [name |-> x.name, todo |-> x.todo]
    BY EndIs, TodosAre
  <2>2. QED
    BY <2>1 DEF Onto
<1>6. QED
  BY <1>1, <1>2, <1>3, <1>4, <1>5

LEMMA OntoUnion ==
    ASSUME NEW P, NEW K, NEW t, NEW A, \A x : x \in A <=> \E k \in K : x \in P[k]
    PROVE  \A e : e \in Onto(A, t) <=> \E k \in K : e \in Onto(P[k], t)
<1>1. \A B : Onto(B, t) = {[name |-> x.name, todo |-> x.todo \o t] : x \in B}
  BY DEF Onto
<1>2. ASSUME NEW e \in Onto(A, t) PROVE \E k \in K : e \in Onto(P[k], t)
  <2>1. PICK x \in A : e = [name |-> x.name, todo |-> x.todo \o t]
    BY <1>1
  <2>2. PICK k \in K : x \in P[k]
    OBVIOUS
  <2>3. e \in Onto(P[k], t)
    BY <1>1, <2>1, <2>2
  <2>4. QED
    BY <2>3
<1>3. ASSUME NEW e, NEW k \in K, e \in Onto(P[k], t) PROVE e \in Onto(A, t)
  <2>1. PICK x \in P[k] : e = [name |-> x.name, todo |-> x.todo \o t]
    BY <1>1, <1>3
  <2>2. x \in A
    OBVIOUS
  <2>3. QED
    BY <1>1, <2>1, <2>2
<1>4. QED
  BY <1>2, <1>3

LEMMA RestsAre ==
    ASSUME NEW x \in Statements
    PROVE  Rests[x] \in SUBSET Ends /\ Rests[x] = RestsIn(Rests, x)
BY RestsAssumption DEF Ends

-----------------------------------------------------------------------------
(***************************************************************************)
(* What is left to do once a question was asked.                           *)
(***************************************************************************)
LEMMA AfterTests ==
    ASSUME NEW x \in Statements, NEW t \in Todos, NEW whole
    PROVE  /\ x.kind = "if" =>
                  /\ AfterEvent(whole, <<x>> \o t, 1) = <<x.branches[1]>> \o t
                  /\ AfterEvent(whole, <<x>> \o t, 0) =
                         IF Len(x.branches) = 1 THEN t ELSE <<x.branches[2]>> \o t
           /\ x.kind \in {"while", "for"} =>
                  /\ AfterEvent(whole, <<x>> \o t, 1) = <<x.body>> \o (<<Again(x)>> \o t)
                  /\ AfterEvent(whole, <<x>> \o t, 0) = t
           /\ x.kind \in {"while", "do", "for"} =>
                  /\ AfterEvent(whole, <<Again(x)>> \o t, 1) = <<x>> \o t
                  /\ AfterEvent(whole, <<Again(x)>> \o t, 0) = t
           /\ x.kind = "act" => AfterEvent(whole, <<x>> \o t, 0) = t
<1>1. x \in Portions /\ Again(x).kind = "again" /\ Again(x).loop = x
  BY PortionIs
<1>0. ~(0 = 1)
  OBVIOUS
<1>2. PICK u : u = <<x>> \o t /\ Head(u) = x /\ Tail(u) = t
  BY <1>1, FrontIs
<1>3. PICK v : v = <<Again(x)>> \o t
  OBVIOUS
<1>4. ASSUME x.kind = "if"
      PROVE  /\ AfterEvent(whole, u, 1) = <<x.branches[1]>> \o t
             /\ AfterEvent(whole, u, 0) =
                    IF Len(x.branches) = 1 THEN t ELSE <<x.branches[2]>> \o t
  <2>1. x.branches \in Seq(Statements) /\ Len(x.branches) \in {1, 2}
    BY <1>4, StatementIs DEF IsStatement
  <2>2. /\ AfterEvent(whole, u, 1) = <<x.branches[1]>> \o t
        /\ AfterEvent(whole, u, 0) = Tail(x.branches) \o t
    BY <1>2, <1>4 DEF AfterEvent
  <2>3. CASE Len(x.branches) = 1
    <3>1. Tail(x.branches) = <<>>
      <4>1. PICK z, y : z = Tail(x.branches) /\ y = x.branches
        OBVIOUS
      <4>2. y \in Seq(Statements) /\ Len(y) = 1 /\ z = Tail(y)
        BY <2>1, <2>3, <4>1
      <4>3. z = <<>>
        BY <4>2
      <4>4. QED
        BY <4>1, <4>3
    <3>2. <<>> \o t = t
      BY TodosAre
    <3>3. QED
      BY <2>2, <2>3, <3>1, <3>2
  <2>4. CASE Len(x.branches) = 2
    <3>1. Tail(x.branches) = <<x.branches[2]>>
      <4>1. PICK y, z : y = x.branches[2] /\ z = Tail(x.branches)
        OBVIOUS
      <4>2. z \in Seq(Statements) /\ Len(z) = 1 /\ z[1] = y
        BY <2>1, <2>4, <4>1
      <4>3. z = <<y>>
        BY <4>2
      <4>4. QED
        BY <4>1, <4>3
    <3>2. QED
      <4>1. ~(Len(x.branches) = 1)
        BY <2>4
      <4>2. AfterEvent(whole, u, 0) = <<x.branches[2]>> \o t
        BY <2>2, <3>1
      <4>3. QED
        BY <2>2, <4>1, <4>2
  <2>5. QED
    BY <2>1, <2>3, <2>4
<1>5. ASSUME x.kind \in {"while", "for"}
      PROVE  /\ AfterEvent(whole, u, 1) = <<x.body>> \o (<<Again(x)>> \o t)
             /\ AfterEvent(whole, u, 0) = t
  <2>1. x.body \in Portions
    BY <1>5, StatementIs, PortionIs DEF IsStatement
  <2>2. <<x.body, Again(x)>> \o t = <<x.body>> \o (<<Again(x)>> \o t)
    BY <1>1, <2>1, FrontsAre
  <2>3. /\ AfterEvent(whole, u, 1) = <<x.body, Again(x)>> \o t
        /\ AfterEvent(whole, u, 0) = t
    <3>1. Head(u).kind \in {"while", "for"} /\ Head(u).kind # "act" /\ Head(u).kind # "if"
      BY <1>2, <1>5
    <3>2. AfterEvent(whole, u, 1) = <<Head(u).body, Again(Head(u))>> \o Tail(u)
      BY <3>1, Zenon DEF AfterEvent
    <3>3. AfterEvent(whole, u, 0) = Tail(u)
      BY <1>0, <3>1, Zenon DEF AfterEvent
    <3>4. QED
      BY <1>2, <3>2, <3>3
  <2>4. QED
    BY <2>2, <2>3
<1>6. ASSUME x.kind \in {"while", "do", "for"}
      PROVE  /\ AfterEvent(whole, v, 1) = <<x>> \o t
             /\ AfterEvent(whole, v, 0) = t
  <2>0. Head(v) = Again(x) /\ Tail(v) = t
    BY <1>3, <1>6, PortionIs, FrontIs
  <2>1. /\ Head(v).kind = "again" /\ Head(v).kind # "act" /\ Head(v).kind # "if"
        /\ Head(v).kind \notin {"while", "for"} /\ Head(v).loop = x
    BY <1>1, <2>0
  <2>2. AfterEvent(whole, v, 1) = <<Head(v).loop>> \o Tail(v)
    BY <2>1, Zenon DEF AfterEvent
  <2>3. AfterEvent(whole, v, 0) = Tail(v)
    BY <1>0, <2>1, Zenon DEF AfterEvent
  <2>4. QED
    BY <2>0, <2>1, <2>2, <2>3
<1>7. x.kind = "act" => AfterEvent(whole, u, 0) = t
  BY Zenon, <1>2 DEF AfterEvent
<1>8. QED
  BY <1>2, <1>3, <1>4, <1>5, <1>6, <1>7

-----------------------------------------------------------------------------
(***************************************************************************)
(* Where a break and a continue go, from a statement within another.       *)
(***************************************************************************)
LEMMA WithinLeaves ==
    ASSUME NEW call, NEW inner, inner.leaves = call.leaves, inner.again = call.again,
           NEW f, NEW t \in Todos, NEW at, Leaving(call, f, t, at),
           NEW s \in Seq(Statements)
    PROVE  Leaving(inner, f, s \o t, at)
<1>1. ASSUME NEW x \in Statements, x.kind \in {"break", "continue"}
      PROVE  States(f, <<x>> \o (s \o t)) = States(f, <<x>> \o t)
  BY <1>1, JumpsPass, SameStates
<1>2. QED
  BY <1>1 DEF Leaving

LEMMA LoopLeaves ==
    ASSUME NEW loop \in Statements, loop.kind \in {"while", "do", "for"},
           NEW inner, NEW f, NEW t \in Todos, NEW at,
           inner.leaves \in DOMAIN at, at[inner.leaves] = States(f, t),
           inner.again \in DOMAIN at, at[inner.again] = States(f, <<Again(loop)>> \o t)
    PROVE  Leaving(inner, f, <<Again(loop)>> \o t, at)
<1>1. Again(loop) \in Portions /\ Again(loop).kind = "again"
  BY PortionIs
<1>2. ASSUME NEW x \in Statements, x.kind = "break"
      PROVE  States(f, <<x>> \o (<<Again(loop)>> \o t)) = States(f, t)
  BY <1>1, <1>2, BreakUnfolds, SameStates DEF Breakable
<1>3. ASSUME NEW x \in Statements, x.kind = "continue"
      PROVE  States(f, <<x>> \o (<<Again(loop)>> \o t)) = States(f, <<Again(loop)>> \o t)
  BY <1>1, <1>3, ContinueUnfolds, SameStates
<1>4. QED
  BY <1>2, <1>3 DEF Leaving

LEMMA SwitchLeaves ==
    ASSUME NEW call, NEW inner, inner.again = call.again,
           NEW f, NEW t \in Todos, NEW at, Leaving(call, f, t, at),
           inner.leaves \in DOMAIN at, at[inner.leaves] = States(f, t),
           NEW s \in Seq(Statements)
    PROVE  Leaving(inner, f, s \o (<<EndSwitch>> \o t), at)
<1>1. EndSwitch \in Portions /\ EndSwitch.kind = "end switch"
  BY PortionIs
<1>2. <<EndSwitch>> \o t \in Todos
  BY <1>1, FrontIs
<1>3. ASSUME NEW x \in Statements, x.kind \in {"break", "continue"}
      PROVE  States(f, <<x>> \o (s \o (<<EndSwitch>> \o t))) =
                 States(f, <<x>> \o (<<EndSwitch>> \o t))
  BY <1>2, <1>3, JumpsPass, SameStates
<1>4. ASSUME NEW x \in Statements, x.kind = "break"
      PROVE  States(f, <<x>> \o (<<EndSwitch>> \o t)) = States(f, t)
  BY <1>1, <1>4, BreakUnfolds, SameStates DEF Breakable
<1>5. ASSUME NEW x \in Statements, x.kind = "continue"
      PROVE  States(f, <<x>> \o (<<EndSwitch>> \o t)) = States(f, <<x>> \o t)
  BY <1>1, <1>5, ContinueUnfolds, SameStates
<1>6. QED
  BY <1>3, <1>4, <1>5 DEF Leaving

LEMMA LeavingMore ==
    ASSUME NEW call, NEW f, NEW t, NEW env, NEW more,
           Leaving(call, f, t, env.at), Wider(env, more)
    PROVE  Leaving(call, f, t, more.at)
BY DEF Leaving, Wider

-----------------------------------------------------------------------------
(***************************************************************************)
(* Items with at most two statements among them, i and j, which have       *)
(* labels.                                                                 *)
(***************************************************************************)
Walks(items, w, n, i, R, j, Q, env) ==
    /\ IsSequence(items) /\ Len(items) = n /\ n \in Nat
    /\ i \in 1 .. n /\ j \in 1 .. n /\ i # j
    /\ \A k \in 1 .. n + 1 : Steady(w[k])
    /\ \A k \in 1 .. n :
           Follows(items[k], w[k], w[k + 1],
                   IF k = i THEN R ELSE IF k = j THEN Q ELSE {}, env)

LEMMA CallsFlow ==
    ASSUME NEW items, NEW w, NEW n, NEW i, NEW R, NEW j, NEW Q, NEW env,
           Walks(items, w, n, i, R, j, Q, env)
    PROVE  Flow(items, w[1], w[n + 1], R \cup Q, env)
<1>0. /\ IsSequence(items) /\ Len(items) = n /\ n \in Nat
      /\ i \in 1 .. n /\ j \in 1 .. n /\ i # j
      /\ \A k \in 1 .. n + 1 : Steady(w[k])
      /\ \A k \in 1 .. n :
             Follows(items[k], w[k], w[k + 1],
                     IF k = i THEN R ELSE IF k = j THEN Q ELSE {}, env)
  BY DEF Walks
<1> DEFINE r == [k \in 1 .. n |-> IF k = i THEN R ELSE IF k = j THEN Q ELSE {}]
<1>1. \A k \in 1 .. n : r[k] = IF k = i THEN R ELSE IF k = j THEN Q ELSE {}
  OBVIOUS
<1> HIDE DEF r
<1>2. UNION {r[k] : k \in 1 .. n} = R \cup Q
  <2>1. \A k \in 1 .. n : r[k] \subseteq R \cup Q
    BY <1>1
  <2>2. r[i] = R /\ r[j] = Q
    BY <1>0, <1>1
  <2>3. QED
    BY <1>0, <2>1, <2>2
<1>3. Path(items, w, r, env)
  BY <1>0, <1>1 DEF Path
<1>4. Flow(items, w[1], w[Len(items) + 1], UNION {r[k] : k \in 1 .. Len(items)}, env)
  BY <1>0, <1>3, PathFlows
<1>5. QED
  BY <1>0, <1>2, <1>4

\* A statement of the function, with what is left to do behind it.
LEMMA CallDoes ==
    ASSUME NEW x \in Statements, NEW leaves, NEW again, NEW env, env.of # 0,
           NEW t \in Todos,
           x.kind # "act" => Leaving(Call(x, leaves, again), env.of, t, env.at)
    PROVE  Follows(Call(x, leaves, again), States(env.of, <<x>> \o t), States(env.of, t),
                   Onto(Rests[x], t), env)
<1>1. PICK call : call = Call(x, leaves, again)
  OBVIOUS
<1>2. call.op = "statement" /\ call.root = x
  BY <1>1 DEF Call
<1>3. Called(call, States(env.of, <<x>> \o t), States(env.of, t), Onto(Rests[x], t), t, env)
  BY <1>1, <1>2 DEF Called
<1>4. QED
  BY <1>1, <1>2, <1>3, CallFollows

\* Of a loop without a step.
LEMMA WhileFlows ==
    ASSUME NEW x \in Statements, x.kind \in {"while", "for"}, x.kind = "for" => x.step = <<>>,
           NEW env, NEW f \in Nat, env.of = f, f # 0, NEW t \in Todos,
           NEW start \in DOMAIN env.at, NEW end \in DOMAIN env.at,
           env.at[start] = States(f, <<x>> \o t), env.at[end] = States(f, t),
           NEW items, IsSequence(items), Len(items) = 9,
           items[1].op \in Sets, items[2].op \in Sets,
           items[3] = EmitLabel(start), items[4] = GenCondition(x.event, end),
           items[5] = Call(x.body, end, start), items[6] = EmitJump(start),
           items[7] = EmitLabel(end), items[8].op \in Sets, items[9].op \in Sets
    PROVE  Flow(items, States(f, <<x>> \o t), States(f, t), Onto(Rests[x], t), env)
<1>1. PICK B, C, L, T, R : /\ B = States(f, <<x>> \o t)
                           /\ C = States(f, <<x.body>> \o (<<Again(x)>> \o t))
                           /\ L = States(f, <<Again(x)>> \o t)
                           /\ T = States(f, t)
                           /\ R = Onto(Rests[x.body], <<Again(x)>> \o t)
  OBVIOUS
<1>2. /\ x \in Portions /\ Again(x) \in Portions /\ x.body \in Statements
      /\ <<Again(x)>> \o t \in Todos
  BY PortionIs, StatementIs, FrontIs DEF IsStatement
<1>3. B = L
  <2>1. Alike(<<Again(x)>> \o t, <<x>> \o t)
    BY WhileUnfolds, ForUnfolds
  <2>2. QED
    BY <1>1, <2>1, SameStates
<1>4. Steady(B) /\ Steady(C) /\ Steady(T) /\ Steady(L)
  BY <1>1, StatesAreSteady
<1>5. R = Onto(Rests[x], t)
  <2>1. Rests[x] = Onto(Rests[x.body], <<Again(x)>>)
    BY RestsAre DEF RestsIn
  <2>2. <<Again(x)>> \in Todos /\ Rests[x.body] \in SUBSET Ends
    BY <1>2, TodosAre, RestsAre
  <2>3. QED
    BY <1>1, <2>1, <2>2, OntoIs
<1> DEFINE w == <<B, B, B, B, C, B, T, T, T, T>>
<1>6. /\ w[1] = B /\ w[2] = B /\ w[3] = B /\ w[4] = B /\ w[5] = C /\ w[6] = B
      /\ w[7] = T /\ w[8] = T /\ w[9] = T /\ w[10] = T
  OBVIOUS
<1> HIDE DEF w
<1>7. Follows(items[1], w[1], w[2], {}, env) /\ Follows(items[2], w[2], w[3], {}, env)
  BY <1>6, SetFollows
<1>8. Follows(items[3], w[3], w[4], {}, env)
  BY <1>1, <1>6, LabelFollows
<1>9. Follows(items[4], w[4], w[5], {}, env)
  <2>1. /\ AfterEvent(env.bodies[f], <<x>> \o t, 1) = <<x.body>> \o (<<Again(x)>> \o t)
        /\ AfterEvent(env.bodies[f], <<x>> \o t, 0) = t
    BY AfterTests
  <2>2. EventOf(x) = x.event
    BY DEF EventOf
  <2>3. Follows(GenCondition(EventOf(x), end), B, C, {}, env)
    BY <1>1, <1>2, <2>1, TestFollows
  <2>4. QED
    BY <1>6, <2>2, <2>3
<1>10. Follows(items[5], w[5], w[6], R, env)
  <2>1. PICK call : call = Call(x.body, end, start)
    OBVIOUS
  <2>2. call.leaves = end /\ call.again = start
    BY <2>1 DEF Call
  <2>3. Leaving(call, f, <<Again(x)>> \o t, env.at)
    BY <1>1, <1>3, <2>2, LoopLeaves
  <2>4. Follows(call, C, L, R, env)
    BY <1>1, <1>2, <2>1, <2>3, CallDoes
  <2>5. QED
    BY <1>3, <1>6, <2>1, <2>4
<1>11. Follows(items[6], w[6], w[7], {}, env)
  BY <1>1, <1>6, JumpFollows
<1>12. Follows(items[7], w[7], w[8], {}, env)
  BY <1>1, <1>6, LabelFollows
<1>13. Follows(items[8], w[8], w[9], {}, env) /\ Follows(items[9], w[9], w[10], {}, env)
  BY <1>6, SetFollows
<1>14. ASSUME NEW k \in 1 .. 9
       PROVE  Follows(items[k], w[k], w[k + 1],
                      IF k = 5 THEN R ELSE IF k = 1 THEN {} ELSE {}, env)
  <2>1. k \in {1, 2, 3, 4, 5, 6, 7, 8, 9}
    OBVIOUS
  <2>2. CASE k = 5
    BY <1>10, <2>2
  <2>3. CASE k # 5
    <3>1. Follows(items[k], w[k], w[k + 1], {}, env)
      BY <1>7, <1>8, <1>9, <1>11, <1>12, <1>13, <2>1, <2>3
    <3>2. QED
      BY <2>3, <3>1
  <2>4. QED
    BY <2>2, <2>3
<1>15. \A k \in 1 .. 9 + 1 : Steady(w[k])
  <2>1. \A k \in 1 .. 9 + 1 : k \in {1, 2, 3, 4, 5, 6, 7, 8, 9, 10}
    OBVIOUS
  <2>2. QED
    BY <1>4, <1>6, <2>1
<1>16. Walks(items, w, 9, 5, R, 1, {}, env)
  BY <1>14, <1>15 DEF Walks
<1>17. Flow(items, w[1], w[9 + 1], R \cup {}, env)
  BY <1>16, CallsFlow
<1>18. QED
  BY <1>1, <1>5, <1>6, <1>17

LEMMA DoFlows ==
    ASSUME NEW x \in Statements, x.kind = "do",
           NEW env, NEW f \in Nat, env.of = f, f # 0, NEW t \in Todos,
           NEW start \in DOMAIN env.at, NEW end \in DOMAIN env.at, NEW pass \in DOMAIN env.at,
           env.at[start] = States(f, <<x>> \o t), env.at[end] = States(f, t),
           env.at[pass] = States(f, <<Again(x)>> \o t),
           NEW items, IsSequence(items), Len(items) = 10,
           items[1].op \in Sets, items[2].op \in Sets,
           items[3] = EmitLabel(start), items[4] = Call(x.body, end, pass),
           items[5] = EmitLabel(pass), items[6] = GenCondition(x.event, end),
           items[7] = EmitJump(start), items[8] = EmitLabel(end),
           items[9].op \in Sets, items[10].op \in Sets
    PROVE  Flow(items, States(f, <<x>> \o t), States(f, t), Onto(Rests[x], t), env)
<1>1. PICK B, L, T, R : /\ B = States(f, <<x>> \o t)
                        /\ L = States(f, <<Again(x)>> \o t)
                        /\ T = States(f, t)
                        /\ R = Onto(Rests[x.body], <<Again(x)>> \o t)
  OBVIOUS
<1>2. /\ x \in Portions /\ Again(x) \in Portions /\ x.body \in Statements
      /\ <<Again(x)>> \o t \in Todos
      /\ Again(x).kind = "again" /\ Again(x).loop = x
  BY PortionIs, StatementIs, FrontIs DEF IsStatement
<1>3. B = States(f, <<x.body>> \o (<<Again(x)>> \o t))
  <2>1. Alike(<<x>> \o t, <<x.body>> \o (<<Again(x)>> \o t))
    BY DoUnfolds
  <2>2. QED
    BY <1>1, <2>1, SameStates
<1>4. Steady(B) /\ Steady(T) /\ Steady(L)
  BY <1>1, StatesAreSteady
<1>5. R = Onto(Rests[x], t)
  <2>1. Rests[x] = Onto(Rests[x.body], <<Again(x)>>)
    BY RestsAre DEF RestsIn
  <2>2. <<Again(x)>> \in Todos /\ Rests[x.body] \in SUBSET Ends
    BY <1>2, TodosAre, RestsAre
  <2>3. QED
    BY <1>1, <2>1, <2>2, OntoIs
<1> DEFINE w == <<B, B, B, B, L, L, B, T, T, T, T>>
<1>6. /\ w[1] = B /\ w[2] = B /\ w[3] = B /\ w[4] = B /\ w[5] = L /\ w[6] = L
      /\ w[7] = B /\ w[8] = T /\ w[9] = T /\ w[10] = T /\ w[11] = T
  OBVIOUS
<1> HIDE DEF w
<1>7. Follows(items[1], w[1], w[2], {}, env) /\ Follows(items[2], w[2], w[3], {}, env)
  BY <1>6, SetFollows
<1>8. Follows(items[3], w[3], w[4], {}, env)
  BY <1>1, <1>6, LabelFollows
<1>9. Follows(items[4], w[4], w[5], R, env)
  <2>1. PICK call : call = Call(x.body, end, pass)
    OBVIOUS
  <2>2. call.leaves = end /\ call.again = pass
    BY <2>1 DEF Call
  <2>3. Leaving(call, f, <<Again(x)>> \o t, env.at)
    BY <1>1, <2>2, LoopLeaves
  <2>4. Follows(call, B, L, R, env)
    BY <1>1, <1>2, <1>3, <2>1, <2>3, CallDoes
  <2>5. QED
    BY <1>6, <2>1, <2>4
<1>10. Follows(items[5], w[5], w[6], {}, env)
  BY <1>1, <1>6, LabelFollows
<1>11. Follows(items[6], w[6], w[7], {}, env)
  <2>1. PICK again : again = Again(x)
    OBVIOUS
  <2>2. /\ AfterEvent(env.bodies[f], <<again>> \o t, 1) = <<x>> \o t
        /\ AfterEvent(env.bodies[f], <<again>> \o t, 0) = t
    BY <2>1, AfterTests
  <2>3. EventOf(again) = x.event
    BY <1>2, <2>1 DEF EventOf
  <2>4. again.kind = "again" /\ again.loop.kind = "do" /\ again \in Portions
    BY <1>2, <2>1
  <2>5. Follows(GenCondition(EventOf(again), end), States(f, <<again>> \o t), B, {}, env)
    BY <1>1, <2>2, <2>4, TestFollows
  <2>6. QED
    BY <1>1, <1>6, <2>1, <2>3, <2>5
<1>12. Follows(items[7], w[7], w[8], {}, env)
  BY <1>1, <1>6, JumpFollows
<1>13. Follows(items[8], w[8], w[9], {}, env)
  BY <1>1, <1>6, LabelFollows
<1>14. Follows(items[9], w[9], w[10], {}, env) /\ Follows(items[10], w[10], w[11], {}, env)
  BY <1>6, SetFollows
<1>15. ASSUME NEW k \in 1 .. 10
       PROVE  Follows(items[k], w[k], w[k + 1],
                      IF k = 4 THEN R ELSE IF k = 1 THEN {} ELSE {}, env)
  <2>1. k \in {1, 2, 3, 4, 5, 6, 7, 8, 9, 10}
    OBVIOUS
  <2>2. CASE k = 4
    BY <1>9, <2>2
  <2>3. CASE k # 4
    <3>1. Follows(items[k], w[k], w[k + 1], {}, env)
      BY <1>7, <1>8, <1>10, <1>11, <1>12, <1>13, <1>14, <2>1, <2>3
    <3>2. QED
      BY <2>3, <3>1
  <2>4. QED
    BY <2>2, <2>3
<1>16. \A k \in 1 .. 10 + 1 : Steady(w[k])
  <2>1. \A k \in 1 .. 10 + 1 : k \in {1, 2, 3, 4, 5, 6, 7, 8, 9, 10, 11}
    OBVIOUS
  <2>2. QED
    BY <1>4, <1>6, <2>1
<1>17. Walks(items, w, 10, 4, R, 1, {}, env)
  BY <1>15, <1>16 DEF Walks
<1>18. Flow(items, w[1], w[10 + 1], R \cup {}, env)
  BY <1>17, CallsFlow
<1>19. QED
  BY <1>1, <1>5, <1>6, <1>18

\* Of a loop with a step, which is no statement with a label in it.
LEMMA ForFlows ==
    ASSUME NEW x \in Statements, x.kind = "for", x.step # <<>>,
           NEW env, NEW f \in Nat, env.of = f, f # 0, NEW t \in Todos,
           NEW start \in DOMAIN env.at, NEW end \in DOMAIN env.at, NEW step \in DOMAIN env.at,
           env.at[start] = States(f, <<x>> \o t), env.at[end] = States(f, t),
           env.at[step] = States(f, <<Again(x)>> \o t),
           NEW items, IsSequence(items), Len(items) = 11,
           items[1].op \in Sets, items[2].op \in Sets,
           items[3] = EmitLabel(start), items[4] = GenCondition(x.event, end),
           items[5] = Call(x.body, end, step), items[6] = EmitLabel(step),
           items[7] = Call(x.step[1], end, step),
           items[8] = EmitJump(start), items[9] = EmitLabel(end),
           items[10].op \in Sets, items[11].op \in Sets
    PROVE  Flow(items, States(f, <<x>> \o t), States(f, t), Onto(Rests[x], t), env)
<1>0. PICK s : s = x.step[1]
  OBVIOUS
<1>1. PICK B, C, L, T, R : /\ B = States(f, <<x>> \o t)
                           /\ C = States(f, <<x.body>> \o (<<Again(x)>> \o t))
                           /\ L = States(f, <<Again(x)>> \o t)
                           /\ T = States(f, t)
                           /\ R = Onto(Rests[x.body], <<Again(x)>> \o t)
  OBVIOUS
<1>2. /\ x \in Portions /\ Again(x) \in Portions /\ x.body \in Statements
      /\ <<Again(x)>> \o t \in Todos /\ <<x>> \o t \in Todos
  BY PortionIs, StatementIs, FrontIs DEF IsStatement
<1>3. s \in Statements /\ s.kind = "act" /\ L = States(f, <<s>> \o (<<x>> \o t))
  <2>1. s \in Statements /\ s.kind = "act" /\ Alike(<<Again(x)>> \o t, <<s>> \o (<<x>> \o t))
    BY <1>0, ForUnfolds
  <2>2. QED
    BY <1>1, <2>1, SameStates
<1>4. Steady(B) /\ Steady(C) /\ Steady(T) /\ Steady(L)
  BY <1>1, StatesAreSteady
<1>5. R = Onto(Rests[x], t)
  <2>1. Rests[x] = Onto(Rests[x.body], <<Again(x)>>)
    BY RestsAre DEF RestsIn
  <2>2. <<Again(x)>> \in Todos /\ Rests[x.body] \in SUBSET Ends
    BY <1>2, TodosAre, RestsAre
  <2>3. QED
    BY <1>1, <2>1, <2>2, OntoIs
<1> DEFINE w == <<B, B, B, B, C, L, L, B, T, T, T, T>>
<1>6. /\ w[1] = B /\ w[2] = B /\ w[3] = B /\ w[4] = B /\ w[5] = C /\ w[6] = L
      /\ w[7] = L /\ w[8] = B /\ w[9] = T /\ w[10] = T /\ w[11] = T /\ w[12] = T
  OBVIOUS
<1> HIDE DEF w
<1>7. Follows(items[1], w[1], w[2], {}, env) /\ Follows(items[2], w[2], w[3], {}, env)
  BY <1>6, SetFollows
<1>8. Follows(items[3], w[3], w[4], {}, env)
  BY <1>1, <1>6, LabelFollows
<1>9. Follows(items[4], w[4], w[5], {}, env)
  <2>1. /\ AfterEvent(env.bodies[f], <<x>> \o t, 1) = <<x.body>> \o (<<Again(x)>> \o t)
        /\ AfterEvent(env.bodies[f], <<x>> \o t, 0) = t
    BY AfterTests
  <2>2. EventOf(x) = x.event
    BY DEF EventOf
  <2>3. Follows(GenCondition(EventOf(x), end), B, C, {}, env)
    BY <1>1, <1>2, <2>1, TestFollows
  <2>4. QED
    BY <1>6, <2>2, <2>3
<1>10. Follows(items[5], w[5], w[6], R, env)
  <2>1. PICK call : call = Call(x.body, end, step)
    OBVIOUS
  <2>2. call.leaves = end /\ call.again = step
    BY <2>1 DEF Call
  <2>3. Leaving(call, f, <<Again(x)>> \o t, env.at)
    BY <1>1, <2>2, LoopLeaves
  <2>4. Follows(call, C, L, R, env)
    BY <1>1, <1>2, <2>1, <2>3, CallDoes
  <2>5. QED
    BY <1>6, <2>1, <2>4
<1>11. Follows(items[6], w[6], w[7], {}, env)
  BY <1>1, <1>6, LabelFollows
<1>12. Follows(items[7], w[7], w[8], {}, env)
  <2>1. Onto(Rests[s], <<x>> \o t) = {}
    <3>1. Rests[s] = {}
      BY <1>3, RestsAre DEF RestsIn
    <3>2. QED
      BY <3>1, OntoIs
  <2>2. Follows(Call(s, end, step), L, B, Onto(Rests[s], <<x>> \o t), env)
    BY <1>1, <1>2, <1>3, CallDoes
  <2>3. QED
    BY <1>0, <1>6, <2>1, <2>2
<1>13. Follows(items[8], w[8], w[9], {}, env)
  BY <1>1, <1>6, JumpFollows
<1>14. Follows(items[9], w[9], w[10], {}, env)
  BY <1>1, <1>6, LabelFollows
<1>15. Follows(items[10], w[10], w[11], {}, env) /\ Follows(items[11], w[11], w[12], {}, env)
  BY <1>6, SetFollows
<1>16. ASSUME NEW k \in 1 .. 11
       PROVE  Follows(items[k], w[k], w[k + 1],
                      IF k = 5 THEN R ELSE IF k = 1 THEN {} ELSE {}, env)
  <2>1. k \in {1, 2, 3, 4, 5, 6, 7, 8, 9, 10, 11}
    OBVIOUS
  <2>2. CASE k = 5
    BY <1>10, <2>2
  <2>3. CASE k # 5
    <3>1. Follows(items[k], w[k], w[k + 1], {}, env)
      BY <1>7, <1>8, <1>9, <1>11, <1>12, <1>13, <1>14, <1>15, <2>1, <2>3
    <3>2. QED
      BY <2>3, <3>1
  <2>4. QED
    BY <2>2, <2>3
<1>17. \A k \in 1 .. 11 + 1 : Steady(w[k])
  <2>1. \A k \in 1 .. 11 + 1 : k \in {1, 2, 3, 4, 5, 6, 7, 8, 9, 10, 11, 12}
    OBVIOUS
  <2>2. QED
    BY <1>4, <1>6, <2>1
<1>18. Walks(items, w, 11, 5, R, 1, {}, env)
  BY <1>16, <1>17 DEF Walks
<1>19. Flow(items, w[1], w[11 + 1], R \cup {}, env)
  BY <1>18, CallsFlow
<1>20. QED
  BY <1>1, <1>5, <1>6, <1>19

LEMMA IfFlows ==
    ASSUME NEW x \in Statements, x.kind = "if", Len(x.branches) = 1,
           NEW env, NEW f \in Nat, env.of = f, f # 0, NEW t \in Todos,
           NEW call, Leaving(call, f, t, env.at),
           NEW false \in DOMAIN env.at, env.at[false] = States(f, t),
           NEW items, IsSequence(items), Len(items) = 3,
           items[1] = GenCondition(x.event, false),
           items[2] = Call(x.branches[1], call.leaves, call.again),
           items[3] = EmitLabel(false)
    PROVE  Flow(items, States(f, <<x>> \o t), States(f, t), Onto(Rests[x], t), env)
<1>0. PICK y : y = x.branches[1]
  OBVIOUS
<1>1. PICK B, C, T, R : /\ B = States(f, <<x>> \o t)
                        /\ C = States(f, <<y>> \o t)
                        /\ T = States(f, t)
                        /\ R = Onto(Rests[y], t)
  OBVIOUS
<1>2. x \in Portions /\ y \in Statements /\ x.branches \in Seq(Statements)
  <2>1. x.branches \in Seq(Statements)
    BY StatementIs DEF IsStatement
  <2>2. y \in Statements
    BY <1>0, <2>1
  <2>3. QED
    BY <2>1, <2>2, PortionIs
<1>3. Steady(B) /\ Steady(C) /\ Steady(T)
  BY <1>1, StatesAreSteady
<1>4. R = Onto(Rests[x], t)
  <2>1. Rests[x] = UNION {Rests[x.branches[k]] : k \in DOMAIN x.branches}
    BY RestsAre DEF RestsIn
  <2>2. DOMAIN x.branches = {1}
    BY <1>2
  <2>3. Rests[x] = Rests[y]
    BY <1>0, <2>1, <2>2
  <2>4. QED
    BY <1>1, <2>3
<1> DEFINE w == <<B, C, T, T>>
<1>5. w[1] = B /\ w[2] = C /\ w[3] = T /\ w[4] = T
  OBVIOUS
<1> HIDE DEF w
<1>6. Follows(items[1], w[1], w[2], {}, env)
  <2>1. /\ AfterEvent(env.bodies[f], <<x>> \o t, 1) = <<y>> \o t
        /\ AfterEvent(env.bodies[f], <<x>> \o t, 0) = t
    BY <1>0, AfterTests, ZenonT(40)
  <2>2. EventOf(x) = x.event
    BY DEF EventOf
  <2>3. Follows(GenCondition(EventOf(x), false), B, C, {}, env)
    BY <1>1, <1>2, <2>1, TestFollows
  <2>4. QED
    BY <1>5, <2>2, <2>3
<1>7. Follows(items[2], w[2], w[3], R, env)
  <2>1. PICK inner : inner = Call(y, call.leaves, call.again)
    OBVIOUS
  <2>2. inner.leaves = call.leaves /\ inner.again = call.again
    BY <2>1 DEF Call
  <2>3. Leaving(inner, f, t, env.at)
    BY <2>2 DEF Leaving
  <2>4. Follows(inner, C, T, R, env)
    BY <1>1, <1>2, <2>1, <2>3, CallDoes
  <2>5. QED
    BY <1>0, <1>5, <2>1, <2>4
<1>8. Follows(items[3], w[3], w[4], {}, env)
  BY <1>1, <1>5, LabelFollows
<1>9. ASSUME NEW k \in 1 .. 3
      PROVE  Follows(items[k], w[k], w[k + 1],
                     IF k = 2 THEN R ELSE IF k = 1 THEN {} ELSE {}, env)
  <2>1. k = 1 \/ k = 2 \/ k = 3
    OBVIOUS
  <2>2. CASE k = 2
    BY <1>7, <2>2
  <2>3. CASE k # 2
    <3>1. Follows(items[k], w[k], w[k + 1], {}, env)
      BY <1>6, <1>8, <2>1, <2>3
    <3>2. QED
      BY <2>3, <3>1
  <2>4. QED
    BY <2>2, <2>3
<1>10. \A k \in 1 .. 3 + 1 : Steady(w[k])
  <2>1. \A k \in 1 .. 3 + 1 : k \in {1, 2, 3, 4}
    OBVIOUS
  <2>2. QED
    BY <1>3, <1>5, <2>1
<1>11. Walks(items, w, 3, 2, R, 1, {}, env)
  BY <1>9, <1>10 DEF Walks
<1>12. Flow(items, w[1], w[3 + 1], R \cup {}, env)
  BY <1>11, CallsFlow
<1>13. QED
  BY <1>1, <1>4, <1>5, <1>12

LEMMA IfElseFlows ==
    ASSUME NEW x \in Statements, x.kind = "if", Len(x.branches) = 2,
           NEW env, NEW f \in Nat, env.of = f, f # 0, NEW t \in Todos,
           NEW call, Leaving(call, f, t, env.at),
           NEW false \in DOMAIN env.at, NEW end \in DOMAIN env.at,
           env.at[false] = States(f, <<x.branches[2]>> \o t), env.at[end] = States(f, t),
           NEW items, IsSequence(items), Len(items) = 6,
           items[1] = GenCondition(x.event, false),
           items[2] = Call(x.branches[1], call.leaves, call.again),
           items[3] = EmitJump(end), items[4] = EmitLabel(false),
           items[5] = Call(x.branches[2], call.leaves, call.again),
           items[6] = EmitLabel(end)
    PROVE  Flow(items, States(f, <<x>> \o t), States(f, t), Onto(Rests[x], t), env)
<1>0. PICK y, z : y = x.branches[1] /\ z = x.branches[2]
  OBVIOUS
<1>1. PICK B, C, D, T, R, Q : /\ B = States(f, <<x>> \o t)
                              /\ C = States(f, <<y>> \o t)
                              /\ D = States(f, <<z>> \o t)
                              /\ T = States(f, t)
                              /\ R = Onto(Rests[y], t) /\ Q = Onto(Rests[z], t)
  OBVIOUS
<1>2. x \in Portions /\ y \in Statements /\ z \in Statements /\ x.branches \in Seq(Statements)
  <2>1. x.branches \in Seq(Statements)
    BY StatementIs DEF IsStatement
  <2>2. y \in Statements /\ z \in Statements
    BY <1>0, <2>1
  <2>3. QED
    BY <2>1, <2>2, PortionIs
<1>3. Steady(B) /\ Steady(C) /\ Steady(D) /\ Steady(T)
  BY <1>1, StatesAreSteady
<1>4. R \cup Q = Onto(Rests[x], t)
  <2>1. Rests[x] = UNION {Rests[x.branches[k]] : k \in DOMAIN x.branches}
    BY RestsAre DEF RestsIn
  <2>2. DOMAIN x.branches = {1, 2}
    BY <1>2
  <2>3. Rests[x] = Rests[y] \cup Rests[z]
    BY <1>0, <2>1, <2>2
  <2>4. QED
    BY <1>1, <2>3, OntoIs
<1> DEFINE w == <<B, C, T, D, D, T, T>>
<1>5. /\ w[1] = B /\ w[2] = C /\ w[3] = T /\ w[4] = D /\ w[5] = D /\ w[6] = T
      /\ w[7] = T
  OBVIOUS
<1> HIDE DEF w
<1>6. Follows(items[1], w[1], w[2], {}, env)
  <2>1. /\ AfterEvent(env.bodies[f], <<x>> \o t, 1) = <<y>> \o t
        /\ AfterEvent(env.bodies[f], <<x>> \o t, 0) = <<z>> \o t
    <3>1. ~(Len(x.branches) = 1)
      OBVIOUS
    <3>2. QED
      BY <1>0, <3>1, AfterTests
  <2>2. EventOf(x) = x.event
    BY DEF EventOf
  <2>3. Follows(GenCondition(EventOf(x), false), B, C, {}, env)
    BY <1>0, <1>1, <1>2, <2>1, TestFollows
  <2>4. QED
    BY <1>5, <2>2, <2>3
<1>7. Follows(items[2], w[2], w[3], R, env)
  <2>1. PICK inner : inner = Call(y, call.leaves, call.again)
    OBVIOUS
  <2>2. inner.leaves = call.leaves /\ inner.again = call.again
    BY <2>1 DEF Call
  <2>3. Leaving(inner, f, t, env.at)
    BY <2>2 DEF Leaving
  <2>4. Follows(inner, C, T, R, env)
    BY <1>1, <1>2, <2>1, <2>3, CallDoes
  <2>5. QED
    BY <1>0, <1>5, <2>1, <2>4
<1>8. Follows(items[3], w[3], w[4], {}, env)
  BY <1>1, <1>5, JumpFollows
<1>9. Follows(items[4], w[4], w[5], {}, env)
  BY <1>0, <1>1, <1>5, LabelFollows
<1>10. Follows(items[5], w[5], w[6], Q, env)
  <2>1. PICK inner : inner = Call(z, call.leaves, call.again)
    OBVIOUS
  <2>2. inner.leaves = call.leaves /\ inner.again = call.again
    BY <2>1 DEF Call
  <2>3. Leaving(inner, f, t, env.at)
    BY <2>2 DEF Leaving
  <2>4. Follows(inner, D, T, Q, env)
    BY <1>1, <1>2, <2>1, <2>3, CallDoes
  <2>5. QED
    BY <1>0, <1>5, <2>1, <2>4
<1>11. Follows(items[6], w[6], w[7], {}, env)
  BY <1>1, <1>5, LabelFollows
<1>12. ASSUME NEW k \in 1 .. 6
       PROVE  Follows(items[k], w[k], w[k + 1],
                      IF k = 2 THEN R ELSE IF k = 5 THEN Q ELSE {}, env)
  <2>1. k \in {1, 2, 3, 4, 5, 6}
    OBVIOUS
  <2>2. CASE k = 2
    BY <1>7, <2>2
  <2>3. CASE k = 5
    BY <1>10, <2>3
  <2>4. CASE k # 2 /\ k # 5
    <3>1. Follows(items[k], w[k], w[k + 1], {}, env)
      BY <1>6, <1>8, <1>9, <1>11, <2>1, <2>4
    <3>2. QED
      BY <2>4, <3>1
  <2>5. QED
    BY <2>2, <2>3, <2>4
<1>13. \A k \in 1 .. 6 + 1 : Steady(w[k])
  <2>1. \A k \in 1 .. 6 + 1 : k \in {1, 2, 3, 4, 5, 6, 7}
    OBVIOUS
  <2>2. QED
    BY <1>3, <1>5, <2>1
<1>14. Walks(items, w, 6, 2, R, 5, Q, env)
  BY <1>12, <1>13 DEF Walks
<1>15. Flow(items, w[1], w[6 + 1], R \cup Q, env)
  BY <1>14, CallsFlow
<1>16. Flow(items, B, T, R \cup Q, env)
  BY <1>5, <1>15
<1>17. QED
  BY <1>1, <1>4, <1>16

LEMMA PairFlows ==
    ASSUME NEW x \in Statements, x.kind = "seq",
           NEW env, NEW f \in Nat, env.of = f, f # 0, NEW t \in Todos,
           NEW call, Leaving(call, f, t, env.at),
           NEW items, IsSequence(items), Len(items) = 2,
           items[1] = Call(x.left, call.leaves, call.again),
           items[2] = Call(x.right, call.leaves, call.again)
    PROVE  Flow(items, States(f, <<x>> \o t), States(f, t), Onto(Rests[x], t), env)
<1>0. PICK y, z : y = x.left /\ z = x.right
  OBVIOUS
<1>1. PICK B, C, T, R, Q : /\ B = States(f, <<x>> \o t)
                           /\ C = States(f, <<z>> \o t)
                           /\ T = States(f, t)
                           /\ R = Onto(Rests[y], <<z>> \o t) /\ Q = Onto(Rests[z], t)
  OBVIOUS
<1>2. /\ y \in Statements /\ z \in Statements /\ z \in Portions
      /\ <<z>> \o t \in Todos /\ <<z>> \in Seq(Statements) /\ <<z>> \in Todos
  <2>1. y \in Statements /\ z \in Statements
    BY <1>0, StatementIs DEF IsStatement
  <2>2. z \in Portions
    BY <2>1, PortionIs
  <2>0. <<z>> \in Seq(Statements)
    BY <2>1
  <2>3. QED
    BY <2>0, <2>1, <2>2, FrontIs, TodosAre
<1>3. Steady(B) /\ Steady(C) /\ Steady(T)
  BY <1>1, StatesAreSteady
<1>4. R \cup Q = Onto(Rests[x], t)
  <2>1. Rests[x] = Onto(Rests[y], <<z>>) \cup Rests[z]
    BY <1>0, RestsAre DEF RestsIn
  <2>2. Onto(Rests[x], t) = Onto(Onto(Rests[y], <<z>>), t) \cup Onto(Rests[z], t)
    BY <2>1, OntoIs
  <2>3. Onto(Onto(Rests[y], <<z>>), t) = R
    BY <1>1, <1>2, RestsAre, OntoIs
  <2>4. QED
    BY <1>1, <2>2, <2>3
<1>5. B = States(f, <<y>> \o (<<z>> \o t))
  <2>1. Alike(<<x>> \o t, <<y>> \o (<<z>> \o t))
    BY <1>0, PairUnfolds
  <2>2. QED
    BY <1>1, <2>1, SameStates
<1> DEFINE w == <<B, C, T>>
<1>6. w[1] = B /\ w[2] = C /\ w[3] = T
  OBVIOUS
<1> HIDE DEF w
<1>7. Follows(items[1], w[1], w[2], R, env)
  <2>1. PICK inner : inner = Call(y, call.leaves, call.again)
    OBVIOUS
  <2>2. inner.leaves = call.leaves /\ inner.again = call.again
    BY <2>1 DEF Call
  <2>3. Leaving(inner, f, <<z>> \o t, env.at)
    BY <1>2, <2>2, WithinLeaves
  <2>4. Follows(inner, B, C, R, env)
    BY <1>1, <1>2, <1>5, <2>1, <2>3, CallDoes
  <2>5. QED
    BY <1>0, <1>6, <2>1, <2>4
<1>8. Follows(items[2], w[2], w[3], Q, env)
  <2>1. PICK inner : inner = Call(z, call.leaves, call.again)
    OBVIOUS
  <2>2. inner.leaves = call.leaves /\ inner.again = call.again
    BY <2>1 DEF Call
  <2>3. Leaving(inner, f, t, env.at)
    BY <2>2 DEF Leaving
  <2>4. Follows(inner, C, T, Q, env)
    BY <1>1, <1>2, <2>1, <2>3, CallDoes
  <2>5. QED
    BY <1>0, <1>6, <2>1, <2>4
<1>9. ASSUME NEW k \in 1 .. 2
      PROVE  Follows(items[k], w[k], w[k + 1],
                     IF k = 1 THEN R ELSE IF k = 2 THEN Q ELSE {}, env)
  <2>1. k = 1 \/ k = 2
    OBVIOUS
  <2>2. CASE k = 1
    BY <1>7, <2>2
  <2>3. CASE k = 2
    BY <1>8, <2>3
  <2>4. QED
    BY <2>1, <2>2, <2>3
<1>10. \A k \in 1 .. 2 + 1 : Steady(w[k])
  <2>1. \A k \in 1 .. 2 + 1 : k \in {1, 2, 3}
    OBVIOUS
  <2>2. QED
    BY <1>3, <1>6, <2>1
<1>11. Walks(items, w, 2, 1, R, 2, Q, env)
  BY <1>9, <1>10 DEF Walks
<1>12. Flow(items, w[1], w[2 + 1], R \cup Q, env)
  BY <1>11, CallsFlow
<1>13. Flow(items, B, T, R \cup Q, env)
  BY <1>6, <1>12
<1>14. QED
  BY <1>1, <1>4, <1>13

\* Of a label, whose own place is not among what is left of the statement.
LEMMA LabelStatementFlows ==
    ASSUME NEW x \in Statements, x.kind = "label",
           NEW env, NEW f \in Nat, env.of = f, f # 0, NEW t \in Todos,
           NEW call, Leaving(call, f, t, env.at),
           NEW l \in DOMAIN env.at, env.at[l] = States(f, <<x.body>> \o t),
           NEW items, IsSequence(items), Len(items) = 2,
           items[1] = EmitLabel(l),
           items[2] = Call(x.body, call.leaves, call.again)
    PROVE  Flow(items, States(f, <<x>> \o t), States(f, t), Onto(Rests[x.body], t), env)
<1>0. PICK y : y = x.body
  OBVIOUS
<1>1. PICK B, T, R : /\ B = States(f, <<x>> \o t)
                     /\ T = States(f, t)
                     /\ R = Onto(Rests[y], t)
  OBVIOUS
<1>2. y \in Statements
  BY <1>0, StatementIs DEF IsStatement
<1>3. Steady(B) /\ Steady(T)
  BY <1>1, StatesAreSteady
<1>4. B = States(f, <<y>> \o t)
  <2>1. Alike(<<x>> \o t, <<y>> \o t)
    BY <1>0, LabelUnfolds
  <2>2. QED
    BY <1>1, <2>1, SameStates
<1> DEFINE w == <<B, B, T>>
<1>5. w[1] = B /\ w[2] = B /\ w[3] = T
  OBVIOUS
<1> HIDE DEF w
<1>6. Follows(items[1], w[1], w[2], {}, env)
  BY <1>0, <1>4, <1>5, LabelFollows
<1>7. Follows(items[2], w[2], w[3], R, env)
  <2>1. PICK inner : inner = Call(y, call.leaves, call.again)
    OBVIOUS
  <2>2. inner.leaves = call.leaves /\ inner.again = call.again
    BY <2>1 DEF Call
  <2>3. Leaving(inner, f, t, env.at)
    BY <2>2 DEF Leaving
  <2>4. Follows(inner, B, T, R, env)
    BY <1>1, <1>2, <1>4, <2>1, <2>3, CallDoes
  <2>5. QED
    BY <1>0, <1>5, <2>1, <2>4
<1>8. ASSUME NEW k \in 1 .. 2
      PROVE  Follows(items[k], w[k], w[k + 1],
                     IF k = 2 THEN R ELSE IF k = 1 THEN {} ELSE {}, env)
  <2>1. k = 1 \/ k = 2
    OBVIOUS
  <2>2. CASE k = 1
    BY <1>6, <2>2
  <2>3. CASE k = 2
    BY <1>7, <2>3
  <2>4. QED
    BY <2>1, <2>2, <2>3
<1>9. \A k \in 1 .. 2 + 1 : Steady(w[k])
  <2>1. \A k \in 1 .. 2 + 1 : k \in {1, 2, 3}
    OBVIOUS
  <2>2. QED
    BY <1>3, <1>5, <2>1
<1>10. Walks(items, w, 2, 2, R, 1, {}, env)
  BY <1>8, <1>9 DEF Walks
<1>11. Flow(items, w[1], w[2 + 1], R \cup {}, env)
  BY <1>10, CallsFlow
<1>12. Flow(items, B, T, R, env)
  BY <1>5, <1>11
<1>13. QED
  BY <1>0, <1>1, <1>12

\* The statements which put down one item, and have no label.
LEMMA OneItemFlows ==
    ASSUME NEW x \in Statements,
           x.kind \in {"act", "goto", "break", "continue", "return"},
           NEW env, NEW f \in Nat, NEW t \in Todos, NEW item,
           Follows(item, States(f, <<x>> \o t), States(f, t), {}, env)
    PROVE  Flow(<<item>>, States(f, <<x>> \o t), States(f, t), Onto(Rests[x], t), env)
<1>1. Rests[x] = {}
  BY RestsAre DEF RestsIn
<1>2. Onto(Rests[x], t) = {}
  BY <1>1, OntoIs
<1>3. Steady(States(f, <<x>> \o t)) /\ Steady(States(f, t))
  BY StatesAreSteady
<1>4. Flow(<<item>>, States(f, <<x>> \o t), States(f, t), {}, env)
  BY <1>3, OneFlows
<1>5. QED
  BY <1>2, <1>4

LEMMA EmptyFlows ==
    ASSUME NEW x \in Statements, x.kind = "empty", NEW env, NEW f \in Nat, NEW t \in Todos
    PROVE  Flow(<<>>, States(f, <<x>> \o t), States(f, t), Onto(Rests[x], t), env)
<1>1. Rests[x] = {}
  BY RestsAre DEF RestsIn
<1>2. Onto(Rests[x], t) = {}
  BY <1>1, OntoIs
<1>3. States(f, <<x>> \o t) = States(f, t)
  <2>1. Alike(<<x>> \o t, t)
    BY PortionIs, NothingUnfolds
  <2>2. QED
    BY <2>1, SameStates
<1>4. Flow(<<>>, States(f, t), States(f, t), {}, env)
  BY StatesAreSteady, NothingFlows
<1>5. QED
  BY <1>2, <1>3, <1>4

LEMMA ActFlows ==
    ASSUME NEW x \in Statements, x.kind = "act", NEW env, NEW f \in Nat, NEW t \in Todos
    PROVE  Flow(<<GenEvent(x.event)>>, States(f, <<x>> \o t), States(f, t),
                Onto(Rests[x], t), env)
<1>1. x \in Portions
  BY PortionIs
<1>2. PICK u \in Todos : u = <<x>> \o t /\ u # <<>> /\ Head(u) = x /\ Tail(u) = t
  BY <1>1, FrontIs
<1>3. PICK item : item = GenEvent(x.event)
  OBVIOUS
<1>4. item.op = "event" /\ item.event = x.event /\ item.op \in Questions
  BY <1>3 DEF GenEvent, Questions
<1>5. Asked(item, States(f, u), States(f, t), f, u, env)
  <2>1. Settled(u) /\ EventOf(Head(u)) = item.event
    BY <1>2, <1>4 DEF Settled, EventOf
  <2>2. item.op # "test" /\ item.op # "switch" /\ item.op # "goto"
    BY <1>4
  <2>3. States(f, t) = States(f, Tail(u)) /\ Head(u).kind = "act"
    BY <1>2
  <2>4. QED
    BY <1>2, <2>1, <2>2, <2>3, Zenon DEF Asked
<1>6. Follows(item, States(f, u), States(f, t), {}, env)
  BY <1>4, <1>5, AskFollows
<1>7. QED
  BY <1>2, <1>3, <1>6, OneItemFlows

LEMMA GotoFlows ==
    ASSUME NEW x \in Statements, x.kind = "goto", NEW env, NEW f \in Nat, NEW t \in Todos,
           NEW l, [of |-> f, name |-> x.name, label |-> l] \in env.due
    PROVE  Flow(<<[op |-> "goto", event |-> x.event, label |-> l]>>,
                States(f, <<x>> \o t), States(f, t), Onto(Rests[x], t), env)
<1>1. x \in Portions
  BY PortionIs
<1>2. PICK u \in Todos : u = <<x>> \o t /\ u # <<>> /\ Head(u) = x /\ Tail(u) = t
  BY <1>1, FrontIs
<1>3. PICK item : item = [op |-> "goto", event |-> x.event, label |-> l]
  OBVIOUS
<1>4. item.op = "goto" /\ item.event = x.event /\ item.label = l /\ item.op \in Questions
  BY <1>3 DEF Questions
<1>5. Asked(item, States(f, u), States(f, t), f, u, env)
  <2>1. Settled(u) /\ EventOf(Head(u)) = item.event
    BY <1>2, <1>4 DEF Settled, EventOf
  <2>2. item.op # "test" /\ item.op # "switch" /\ item.op # "event"
    BY <1>4
  <2>3. QED
    BY <1>2, <1>4, <2>1, <2>2 DEF Asked
<1>6. Follows(item, States(f, u), States(f, t), {}, env)
  BY <1>4, <1>5, AskFollows
<1>7. QED
  BY <1>2, <1>3, <1>6, OneItemFlows

\* A break, a continue and a return go to a label where as much is left to do.
LEMMA LeavingFlows ==
    ASSUME NEW x \in Statements, x.kind \in {"break", "continue", "return"},
           NEW env, NEW f \in Nat, NEW t \in Todos,
           NEW l \in DOMAIN env.at, env.at[l] = States(f, <<x>> \o t)
    PROVE  Flow(<<EmitJump(l)>>, States(f, <<x>> \o t), States(f, t), Onto(Rests[x], t), env)
<1>1. Follows(EmitJump(l), States(f, <<x>> \o t), States(f, t), {}, env)
  BY JumpFollows
<1>2. QED
  BY <1>1, OneItemFlows

-----------------------------------------------------------------------------
(***************************************************************************)
(* A switch: its question, its comparisons, the jump to the default, and   *)
(* its arms.                                                               *)
(***************************************************************************)
\* What is left to do from an arm.
ArmStates(f, x, t, k) == States(f, ArmsFrom(x, k) \o (<<EndSwitch>> \o t))

Cases(x) == IF x.has_default THEN Len(x.arms) - 1 ELSE Len(x.arms)

LEMMA ArmsAre ==
    ASSUME NEW x \in Statements, x.kind = "switch"
    PROVE  /\ x.arms \in Seq(Statements) /\ Len(x.arms) \in Nat
           /\ Cases(x) \in Nat /\ Cases(x) <= Len(x.arms)
           /\ x.has_default \in BOOLEAN
           /\ \A k \in Nat \ {0} : ArmsFrom(x, k) \in Seq(Statements)
           /\ ArmsFrom(x, Len(x.arms) + 1) = <<>>
           /\ \A k \in 1 .. Len(x.arms) :
                  /\ x.arms[k] \in Statements
                  /\ ArmsFrom(x, k) = <<x.arms[k]>> \o ArmsFrom(x, k + 1)
<1>1. PICK a : a = x.arms
  OBVIOUS
<1>2. /\ x.arms \in Seq(Statements) /\ x.has_default \in BOOLEAN
      /\ x.has_default => x.arms # <<>>
  BY StatementIs DEF IsStatement
<1>3. a \in Seq(Statements) /\ Len(a) \in Nat
  BY <1>1, <1>2
<1>4. Cases(x) \in Nat /\ Cases(x) <= Len(x.arms)
  <2>1. CASE x.has_default
    <3>1. a # <<>>
      BY <1>1, <1>2, <2>1
    <3>2. Len(a) >= 1
      BY <1>3, <3>1
    <3>3. Cases(x) = Len(a) - 1
      BY <1>1, <2>1 DEF Cases
    <3>4. QED
      BY <1>1, <1>3, <3>2, <3>3
  <2>2. CASE ~x.has_default
    BY <1>1, <1>3, <2>2 DEF Cases
  <2>3. QED
    BY <2>1, <2>2
<1>5. ASSUME NEW k \in Nat \ {0} PROVE ArmsFrom(x, k) \in Seq(Statements)
  <2>1. \A i \in k .. Len(a) : a[i] \in Statements
    BY <1>3
  <2>2. k \in Int /\ Len(a) \in Int
    BY <1>3
  <2>3. SubSeq(a, k, Len(a)) \in Seq(Statements)
    BY <2>1, <2>2, SubSeqProperties
  <2>4. QED
    BY <1>1, <2>3 DEF ArmsFrom
<1>6. ArmsFrom(x, Len(x.arms) + 1) = <<>>
  <2>1. Len(a) + 1 \in Int /\ Len(a) \in Int /\ Len(a) < Len(a) + 1
    BY <1>3
  <2>2. SubSeq(a, Len(a) + 1, Len(a)) = <<>>
    BY <2>1, SubSeqEmpty
  <2>3. QED
    BY <1>1, <2>2 DEF ArmsFrom
<1>7. ASSUME NEW k \in 1 .. Len(x.arms)
      PROVE  /\ x.arms[k] \in Statements
             /\ ArmsFrom(x, k) = <<x.arms[k]>> \o ArmsFrom(x, k + 1)
  <2>1. k \in 1 .. Len(a) /\ Len(a) \in k .. Len(a)
    BY <1>1, <1>3
  <2>2. SubSeq(a, k, Len(a)) = <<a[k]>> \o SubSeq(a, k + 1, Len(a))
    BY <1>3, <2>1, SubSeqRecursiveFirst
  <2>3. a[k] \in Statements
    BY <1>3, <2>1
  <2>4. QED
    BY <1>1, <2>2, <2>3 DEF ArmsFrom
<1>8. QED
  BY <1>1, <1>2, <1>3, <1>4, <1>5, <1>6, <1>7

LEMMA ArmStatesAre ==
    ASSUME NEW x \in Statements, x.kind = "switch", NEW f \in Nat, NEW t \in Todos
    PROVE  /\ \A k : Steady(ArmStates(f, x, t, k))
           /\ ArmStates(f, x, t, Len(x.arms) + 1) = States(f, t)
           /\ \A k \in 1 .. Len(x.arms) :
                  /\ ArmsFrom(x, k + 1) \o (<<EndSwitch>> \o t) \in Todos
                  /\ ArmStates(f, x, t, k) =
                         States(f, <<x.arms[k]>>
                                   \o (ArmsFrom(x, k + 1) \o (<<EndSwitch>> \o t)))
<1>1. EndSwitch \in Portions /\ EndSwitch.kind = "end switch"
  BY PortionIs
<1>2. PICK u \in Todos : u = <<EndSwitch>> \o t
  BY <1>1, FrontIs
<1>3. \A k : Steady(ArmStates(f, x, t, k))
  BY StatesAreSteady DEF ArmStates
<1>4. ArmStates(f, x, t, Len(x.arms) + 1) = States(f, t)
  <2>1. <<>> \o u = u
    BY TodosAre
  <2>2. ArmStates(f, x, t, Len(x.arms) + 1) = States(f, <<EndSwitch>> \o t)
    BY <1>2, <2>1, ArmsAre DEF ArmStates
  <2>3. Alike(<<EndSwitch>> \o t, t)
    BY <1>1, NothingUnfolds
  <2>4. QED
    BY <2>2, <2>3, SameStates
<1>5. ASSUME NEW k \in 1 .. Len(x.arms)
      PROVE  /\ ArmsFrom(x, k + 1) \o u \in Todos
             /\ ArmsFrom(x, k) \o u = <<x.arms[k]>> \o (ArmsFrom(x, k + 1) \o u)
  <2>1. k + 1 \in Nat \ {0}
    BY ArmsAre
  <2>2. PICK s, y : s = ArmsFrom(x, k + 1) /\ y = x.arms[k]
    OBVIOUS
  <2>3. s \in Seq(Statements) /\ y \in Statements /\ ArmsFrom(x, k) = <<y>> \o s
    BY <2>1, <2>2, ArmsAre
  <2>4. s \in Todos /\ <<y>> \in Todos
    BY <2>3, TodosAre, PortionIs
  <2>5. s \o u \in Todos /\ (<<y>> \o s) \o u = <<y>> \o (s \o u)
    BY <2>4, TodosAre
  <2>6. QED
    BY <2>2, <2>3, <2>5
<1>6. QED
  BY <1>2, <1>3, <1>4, <1>5 DEF ArmStates

\* The labels of a switch are at its arms, and at its end.
Arranged(x, f, t, first, env) ==
    /\ x \in Statements /\ x.kind = "switch"
    /\ f \in Nat /\ f # 0 /\ env.of = f /\ t \in Todos /\ first \in Nat
    /\ first \in DOMAIN env.at /\ env.at[first] = States(f, t)
    /\ \A k \in 1 .. Len(x.arms) :
           first + k \in DOMAIN env.at /\ env.at[first + k] = ArmStates(f, x, t, k)

LEMMA SwitchAsks ==
    ASSUME NEW x, NEW f, NEW t, NEW first, NEW env, Arranged(x, f, t, first, env)
    PROVE  Flow(<<[op |-> "switch", event |-> x.event, answers |-> Cases(x) + 1]>>,
                States(f, <<x>> \o t), Choosing(f, x, t, 1, Cases(x) + 1), {}, env)
<1>1. x \in Statements /\ x.kind = "switch" /\ f \in Nat /\ t \in Todos /\ x \in Portions
  BY PortionIs DEF Arranged
<1>2. PICK u \in Todos : u = <<x>> \o t /\ u # <<>> /\ Head(u) = x /\ Tail(u) = t
  BY <1>1, FrontIs
<1>3. PICK item : item = [op |-> "switch", event |-> x.event, answers |-> Cases(x) + 1]
  OBVIOUS
<1>4. /\ item.op = "switch" /\ item.event = x.event /\ item.answers = Cases(x) + 1
      /\ item.op \in Questions
  BY <1>3 DEF Questions
<1>5. item.answers \in Nat
  BY <1>1, <1>4, ArmsAre
<1>6. Asked(item, States(f, u), Choosing(f, x, t, 1, item.answers), f, u, env)
  <2>1. Settled(u) /\ EventOf(Head(u)) = item.event
    BY <1>1, <1>2, <1>4 DEF Settled, EventOf
  <2>2. item.op # "test" /\ item.op # "event" /\ item.op # "goto"
    BY <1>4
  <2>3. /\ Choosing(f, x, t, 1, item.answers)
               = Choosing(f, Head(u), Tail(u), 1, item.answers)
        /\ Head(u).kind = "switch"
    BY <1>1, <1>2
  <2>4. QED
    BY <1>2, <1>5, <2>1, <2>2, <2>3 DEF Asked
<1>7. Follows(item, States(f, u), Choosing(f, x, t, 1, item.answers), {}, env)
  BY <1>1, <1>4, <1>6, AskFollows
<1>8. Flow(<<item>>, States(f, u), Choosing(f, x, t, 1, item.answers), {}, env)
  BY <1>7, StatesAreSteady, OneFlows
<1>9. QED
  BY <1>2, <1>3, <1>4, <1>8

LEMMA SwitchCompares ==
    ASSUME NEW x, NEW f, NEW t, NEW first, NEW env, Arranged(x, f, t, first, env),
           NEW items, IsSequence(items), Len(items) = Cases(x),
           \A k \in 1 .. Cases(x) : items[k] = JumpIfEqual(k, first + k)
    PROVE  Flow(items, Choosing(f, x, t, 1, Cases(x) + 1),
                Choosing(f, x, t, Cases(x) + 1, Cases(x) + 1), {}, env)
<1>1. /\ x \in Statements /\ x.kind = "switch" /\ f \in Nat /\ t \in Todos
      /\ \A k \in 1 .. Len(x.arms) :
             first + k \in DOMAIN env.at /\ env.at[first + k] = ArmStates(f, x, t, k)
  BY DEF Arranged
<1>2. PICK c, n : c = Cases(x) /\ n = Len(x.arms)
  OBVIOUS
<1>3. c \in Nat /\ n \in Nat /\ c <= n /\ c = n - (IF x.has_default THEN 1 ELSE 0)
  <2>1. c \in Nat /\ n \in Nat /\ c <= n /\ x.has_default \in BOOLEAN
    BY <1>1, <1>2, ArmsAre
  <2>2. c = IF x.has_default THEN n - 1 ELSE n
    BY <1>2 DEF Cases
  <2>3. QED
    BY <2>1, <2>2
<1> DEFINE w == [k \in 1 .. c + 1 |-> Choosing(f, x, t, k, c + 1)]
           r == [k \in 1 .. c |-> {}]
<1>4. /\ \A k \in 1 .. c + 1 : w[k] = Choosing(f, x, t, k, c + 1)
      /\ \A k \in 1 .. c : r[k] = {}
  OBVIOUS
<1> HIDE DEF w, r
<1>5. ASSUME NEW k \in 1 .. c
      PROVE  Follows(items[k], w[k], w[k + 1], r[k], env)
  <2>1. k \in 1 .. n /\ k \in 1 .. c + 1 /\ k + 1 \in 1 .. c + 1
    BY <1>3
  <2>2. ArmOf(x, k) = k
    BY <1>2, <1>3 DEF ArmOf
  <2>3. ASSUME NEW p \in Choosing(f, x, t, k, c + 1)
        PROVE  IF p.value = k THEN p \in ArmStates(f, x, t, k)
               ELSE p \in Choosing(f, x, t, k + 1, c + 1)
    <3>1. /\ p \in Points /\ p.of = f /\ p.value \in k .. c + 1
          /\ Alike(p.todo, Arrived(x, p.value, t))
      BY DEF Choosing
    <3>2. CASE p.value = k
      BY <2>2, <3>1, <3>2 DEF ArmStates, States, Arrived
    <3>3. CASE p.value # k
      <4>1. p.value \in k + 1 .. c + 1
        BY <1>3, <3>1, <3>3
      <4>2. QED
        BY <3>1, <3>3, <4>1 DEF Choosing
    <3>4. QED
      BY <3>2, <3>3
  <2>4. Follows(JumpIfEqual(k, first + k), Choosing(f, x, t, k, c + 1),
                Choosing(f, x, t, k + 1, c + 1), {}, env)
    <3>1. PICK l : l = first + k
      OBVIOUS
    <3>2. l \in DOMAIN env.at /\ env.at[l] = ArmStates(f, x, t, k)
      BY <1>1, <1>2, <2>1, <3>1
    <3>3. QED
      BY <2>3, <3>1, <3>2, CaseFollows
  <2>5. QED
    BY <1>2, <1>4, <2>1, <2>4
<1>6. Path(items, w, r, env)
  <2>1. \A k \in 1 .. c + 1 : Steady(w[k])
    BY <1>4, StatesAreSteady
  <2>2. QED
    BY <1>2, <1>5, <2>1 DEF Path
<1>7. UNION {r[k] : k \in 1 .. c} = {}
  BY <1>4
<1>8. 1 \in 1 .. c + 1 /\ c + 1 \in 1 .. c + 1
  BY <1>3
<1>9. w[1] = Choosing(f, x, t, 1, c + 1) /\ w[c + 1] = Choosing(f, x, t, c + 1, c + 1)
  BY <1>4, <1>8
<1>10. QED
  BY <1>2, <1>6, <1>7, <1>9 DEF Flow

LEMMA TwoItems ==
    ASSUME NEW a, NEW b
    PROVE  <<a>> \o <<b>> = <<a, b>>
<1>1. /\ <<a>> \in Seq({a, b}) /\ <<b>> \in Seq({a, b}) /\ <<a, b>> \in Seq({a, b})
      /\ Len(<<a>>) = 1 /\ Len(<<b>>) = 1 /\ Len(<<a, b>>) = 2
      /\ <<a>>[1] = a /\ <<b>>[1] = b /\ <<a, b>>[1] = a /\ <<a, b>>[2] = b
  OBVIOUS
<1>2. PICK u, v : u = <<a>> /\ v = <<b>>
  OBVIOUS
<1>3. /\ u \o v \in Seq({a, b}) /\ Len(u \o v) = 2
      /\ (u \o v)[1] = a /\ (u \o v)[2] = b
  <2>1. /\ u \in Seq({a, b}) /\ v \in Seq({a, b}) /\ Len(u) = 1 /\ Len(v) = 1
        /\ u[1] = a /\ v[1] = b
    BY <1>1, <1>2
  <2>2. PICK S : S = {a, b}
    OBVIOUS
  <2>3. /\ u \o v \in Seq(S) /\ Len(u \o v) = 1 + 1
        /\ \A k \in 1 .. 1 : (u \o v)[k] = u[k]
        /\ \A k \in 1 + 1 .. 1 + 1 : (u \o v)[k] = v[k - 1]
    <3>1. u \in Seq(S) /\ v \in Seq(S)
      BY <2>1, <2>2
    <3>2. /\ u \o v \in Seq(S) /\ Len(u \o v) = Len(u) + Len(v)
          /\ \A k \in 1 .. Len(u) : (u \o v)[k] = u[k]
          /\ \A k \in Len(u) + 1 .. Len(u) + Len(v) : (u \o v)[k] = v[k - Len(u)]
      BY <3>1, ConcatOf
    <3>3. Len(u) = 1 /\ Len(v) = 1
      BY <2>1
    <3>4. QED
      BY <3>2, <3>3
  <2>4. 1 \in 1 .. 1 /\ 2 \in 1 + 1 .. 1 + 1 /\ 2 - 1 = 1 /\ 1 + 1 = 2
    OBVIOUS
  <2>5. QED
    BY <2>1, <2>2, <2>3, <2>4
<1>4. \A k \in 1 .. 2 : (u \o v)[k] = <<a, b>>[k]
  BY <1>1, <1>3
<1>5. u \o v = <<a, b>>
  BY <1>1, <1>3, <1>4, SeqEqual
<1>6. QED
  BY <1>2, <1>5

\* Past the cases comes the jump to the default, or to the end.
LEMMA SwitchChooses ==
    ASSUME NEW x, NEW f, NEW t, NEW first, NEW env, Arranged(x, f, t, first, env),
           NEW l, l = (IF x.has_default THEN first + Len(x.arms) ELSE first),
           NEW y, y.op \in Sets
    PROVE  Flow(<<EmitJump(l), y>>, Choosing(f, x, t, Cases(x) + 1, Cases(x) + 1),
                ArmStates(f, x, t, 1), {}, env)
<1>1. /\ x \in Statements /\ x.kind = "switch" /\ f \in Nat /\ t \in Todos
      /\ first \in DOMAIN env.at /\ env.at[first] = States(f, t)
      /\ \A k \in 1 .. Len(x.arms) :
             first + k \in DOMAIN env.at /\ env.at[first + k] = ArmStates(f, x, t, k)
  BY DEF Arranged
<1>2. PICK c, n, m : c = Cases(x) /\ n = Len(x.arms) /\ m = ArmOf(x, Cases(x) + 1)
  OBVIOUS
<1>3. c \in Nat /\ n \in Nat /\ c <= n /\ x.has_default \in BOOLEAN
  BY <1>1, <1>2, ArmsAre
<1>4. /\ x.has_default => c = n - 1 /\ m = n /\ n \in 1 .. n
      /\ ~x.has_default => c = n /\ m = n + 1
  <2>1. c = IF x.has_default THEN n - 1 ELSE n
    BY <1>2 DEF Cases
  <2>2. m = IF c + 1 <= n - (IF x.has_default THEN 1 ELSE 0) THEN c + 1
            ELSE IF x.has_default THEN n ELSE n + 1
    BY <1>2 DEF ArmOf
  <2>3. CASE x.has_default
    BY <1>3, <2>1, <2>2, <2>3
  <2>4. CASE ~x.has_default
    BY <1>3, <2>1, <2>2, <2>4
  <2>5. QED
    BY <2>3, <2>4
<1>5. l \in DOMAIN env.at /\ env.at[l] = ArmStates(f, x, t, m)
  <2>1. CASE x.has_default
    <3>1. l = first + n /\ m = n /\ n \in 1 .. Len(x.arms)
      BY <1>2, <1>4, <2>1
    <3>2. QED
      BY <1>1, <3>1
  <2>2. CASE ~x.has_default
    <3>1. l = first /\ m = Len(x.arms) + 1
      BY <1>2, <1>4, <2>2
    <3>2. ArmStates(f, x, t, Len(x.arms) + 1) = States(f, t)
      BY <1>1, ArmStatesAre
    <3>3. QED
      BY <1>1, <3>1, <3>2
  <2>3. QED
    BY <2>1, <2>2
<1>6. Choosing(f, x, t, c + 1, c + 1) \subseteq ArmStates(f, x, t, m)
  <2>1. ASSUME NEW p \in Choosing(f, x, t, c + 1, c + 1)
        PROVE  p \in ArmStates(f, x, t, m)
    <3>1. /\ p \in Points /\ p.of = f /\ p.value \in c + 1 .. c + 1
          /\ Alike(p.todo, Arrived(x, p.value, t))
      BY DEF Choosing
    <3>2. p.value = c + 1
      BY <1>3, <3>1
    <3>3. ArmOf(x, p.value) = m
      BY <1>2, <3>2
    <3>4. QED
      BY <3>1, <3>3 DEF ArmStates, States, Arrived
  <2>2. QED
    BY <2>1
<1>7. PICK B, A : B = Choosing(f, x, t, c + 1, c + 1) /\ A = ArmStates(f, x, t, 1)
  OBVIOUS
<1>8. Steady(B) /\ Steady(A)
  BY <1>1, <1>7, StatesAreSteady, ArmStatesAre
<1>9. Flow(<<EmitJump(l)>>, B, A, {}, env)
  <2>1. Follows(EmitJump(l), B, A, {}, env)
    BY <1>5, <1>6, <1>7, JumpFollows
  <2>2. QED
    BY <1>8, <2>1, OneFlows
<1>10. Flow(<<y>>, A, A, {}, env)
  <2>1. Follows(y, A, A, {}, env)
    BY SetFollows
  <2>2. QED
    BY <1>8, <2>1, OneFlows
<1>11. <<EmitJump(l)>> \o <<y>> = <<EmitJump(l), y>>
  BY TwoItems
<1>12. Flow(<<EmitJump(l)>> \o <<y>>, B, A, {} \cup {}, env)
  BY <1>9, <1>10, JoinFlows
<1>13. QED
  BY <1>2, <1>7, <1>11, <1>12

LEMMA SwitchArms ==
    ASSUME NEW x, NEW f, NEW t, NEW first, NEW env, Arranged(x, f, t, first, env),
           NEW call, Leaving(call, f, t, env.at),
           NEW items, IsSequence(items), Len(items) = 2 * Len(x.arms),
           \A k \in 1 .. 2 * Len(x.arms) :
               items[k] = IF k % 2 = 1 THEN EmitLabel(first + ((k + 1) \div 2))
                          ELSE Call(x.arms[k \div 2], first, call.again)
    PROVE  Flow(items, ArmStates(f, x, t, 1), States(f, t), Onto(Rests[x], t), env)
<1>1. /\ x \in Statements /\ x.kind = "switch" /\ f \in Nat /\ f # 0 /\ env.of = f
      /\ t \in Todos
      /\ first \in DOMAIN env.at /\ env.at[first] = States(f, t)
      /\ \A k \in 1 .. Len(x.arms) :
             first + k \in DOMAIN env.at /\ env.at[first + k] = ArmStates(f, x, t, k)
  BY DEF Arranged
<1>2. PICK n : n = Len(x.arms)
  OBVIOUS
<1>3. n \in Nat /\ \A k \in 1 .. n : x.arms[k] \in Statements
  BY <1>1, <1>2, ArmsAre
<1> DEFINE u(k) == ArmsFrom(x, k + 1) \o (<<EndSwitch>> \o t)
           w == [k \in 1 .. 2 * n + 1 |-> ArmStates(f, x, t, (k + 1) \div 2)]
           r == [k \in 1 .. 2 * n |-> IF k % 2 = 1 THEN {}
                                      ELSE Onto(Rests[x.arms[k \div 2]], u(k \div 2))]
<1>4. /\ \A k \in 1 .. 2 * n + 1 : w[k] = ArmStates(f, x, t, (k + 1) \div 2)
      /\ \A k \in 1 .. 2 * n : r[k] = IF k % 2 = 1 THEN {}
                                      ELSE Onto(Rests[x.arms[k \div 2]], u(k \div 2))
  OBVIOUS
<1> HIDE DEF w, r
<1>5. ASSUME NEW k \in 1 .. n
      PROVE  /\ x.arms[k] \in Statements /\ u(k) \in Todos
             /\ ArmStates(f, x, t, k) = States(f, <<x.arms[k]>> \o u(k))
             /\ ArmStates(f, x, t, k + 1) = States(f, u(k))
             /\ Leaving(Call(x.arms[k], first, call.again), f, u(k), env.at)
  <2>1. PICK s : s = ArmsFrom(x, k + 1)
    OBVIOUS
  <2>2. s \in Seq(Statements)
    <3>1. k + 1 \in Nat \ {0}
      BY <1>3
    <3>2. QED
      BY <1>1, <2>1, <3>1, ArmsAre
  <2>3. PICK inner : inner = Call(x.arms[k], first, call.again)
    OBVIOUS
  <2>4. inner.leaves = first /\ inner.again = call.again
    BY <2>3 DEF Call
  <2>5. Leaving(inner, f, s \o (<<EndSwitch>> \o t), env.at)
    BY <1>1, <2>2, <2>4, SwitchLeaves
  <2>6. QED
    BY <1>1, <1>2, <1>3, <2>1, <2>3, <2>5, ArmStatesAre DEF ArmStates
<1>6. ASSUME NEW k \in 1 .. 2 * n
      PROVE  Follows(items[k], w[k], w[k + 1], r[k], env)
  <2>1. k \in 1 .. 2 * n + 1 /\ k + 1 \in 1 .. 2 * n + 1
    BY <1>3
  <2>2. CASE k % 2 = 1
    <3>1. PICK j : j = (k + 1) \div 2
      OBVIOUS
    <3>2. j \in 1 .. n /\ ((k + 1) + 1) \div 2 = j
      BY <1>3, <2>2, <3>1
    <3>3. PICK A, l : A = ArmStates(f, x, t, j) /\ l = first + j
      OBVIOUS
    <3>4. l \in DOMAIN env.at /\ A = env.at[l]
      BY <1>1, <1>2, <3>2, <3>3
    <3>5. Follows(EmitLabel(l), A, A, {}, env)
      BY <3>4, LabelFollows
    <3>6. items[k] = EmitLabel(l) /\ w[k] = A /\ w[k + 1] = A /\ r[k] = {}
      BY <1>2, <1>4, <2>1, <2>2, <3>1, <3>2, <3>3
    <3>7. QED
      BY <3>5, <3>6
  <2>3. CASE ~(k % 2 = 1)
    <3>1. PICK j : j = k \div 2
      OBVIOUS
    <3>2. j \in 1 .. n /\ (k + 1) \div 2 = j /\ ((k + 1) + 1) \div 2 = j + 1
      BY <1>3, <2>3, <3>1
    <3>3. PICK y, q : y = x.arms[j] /\ q = u(j)
      OBVIOUS
    <3>4. /\ y \in Statements /\ q \in Todos
          /\ ArmStates(f, x, t, j) = States(f, <<y>> \o q)
          /\ ArmStates(f, x, t, j + 1) = States(f, q)
          /\ Leaving(Call(y, first, call.again), f, q, env.at)
      BY <1>5, <3>2, <3>3
    <3>5. Follows(Call(y, first, call.again), States(f, <<y>> \o q), States(f, q),
                  Onto(Rests[y], q), env)
      BY <1>1, <3>4, CallDoes
    <3>6. items[k] = Call(y, first, call.again)
      BY <1>2, <2>3, <3>1, <3>3
    <3>7. w[k] = States(f, <<y>> \o q) /\ w[k + 1] = States(f, q)
      BY <1>4, <2>1, <3>2, <3>4
    <3>8. r[k] = Onto(Rests[y], q)
      BY <1>4, <2>3, <3>1, <3>3
    <3>9. QED
      BY <3>5, <3>6, <3>7, <3>8
  <2>4. QED
    BY <2>2, <2>3
<1>7. \A k \in 1 .. 2 * n + 1 : Steady(w[k])
  BY <1>1, <1>4, ArmStatesAre
<1>8. Path(items, w, r, env)
  BY <1>2, <1>6, <1>7 DEF Path
<1>9. w[1] = ArmStates(f, x, t, 1) /\ w[2 * n + 1] = States(f, t)
  <2>1. 1 \in 1 .. 2 * n + 1 /\ (1 + 1) \div 2 = 1
    BY <1>3
  <2>2. 2 * n + 1 \in 1 .. 2 * n + 1 /\ ((2 * n + 1) + 1) \div 2 = n + 1
    BY <1>3
  <2>3. w[1] = ArmStates(f, x, t, 1)
    BY <1>4, <2>1
  <2>4. w[2 * n + 1] = ArmStates(f, x, t, n + 1)
    BY <1>4, <2>2
  <2>5. QED
    BY <1>1, <1>2, <2>3, <2>4, ArmStatesAre
<1>10. UNION {r[k] : k \in 1 .. 2 * n} = Onto(Rests[x], t)
  <2> DEFINE q(k) == Onto(Rests[x.arms[k]], ArmsFrom(x, k + 1) \o <<EndSwitch>>)
  <2>1. Rests[x] = UNION {q(k) : k \in DOMAIN x.arms}
    BY <1>1, RestsAre DEF RestsIn
  <2>2. DOMAIN x.arms = 1 .. n
    BY <1>1, <1>2, ArmsAre
  <2>3. Onto(Rests[x], t) = UNION {Onto(q(k), t) : k \in 1 .. n}
    <3> DEFINE P == [k \in 1 .. n |-> q(k)]
    <3>1. \A k \in 1 .. n : P[k] = q(k)
      OBVIOUS
    <3> HIDE DEF P, q
    <3>2. \A e : e \in Rests[x] <=> \E k \in 1 .. n : e \in P[k]
      BY <2>1, <2>2, <3>1
    <3>3. \A e : e \in Onto(Rests[x], t) <=> \E k \in 1 .. n : e \in Onto(P[k], t)
      <4>1. PICK A, K, Z : A = Rests[x] /\ K = 1 .. n /\ Z = P
        OBVIOUS
      <4>2. \A e : e \in A <=> \E k \in K : e \in Z[k]
        BY <3>2, <4>1
      <4>3. \A e : e \in Onto(A, t) <=> \E k \in K : e \in Onto(Z[k], t)
        BY <4>2, OntoUnion, ZenonT(40)
      <4>4. QED
        BY <4>1, <4>3
    <3>4. QED
      BY <3>1, <3>3
  <2>4. ASSUME NEW k \in 1 .. n PROVE Onto(q(k), t) = Onto(Rests[x.arms[k]], u(k))
    <3>1. PICK s, y : s = ArmsFrom(x, k + 1) /\ y = x.arms[k]
      OBVIOUS
    <3>2. s \in Seq(Statements) /\ y \in Statements
      <4>1. k + 1 \in Nat \ {0}
        BY <1>3
      <4>2. QED
        BY <1>1, <1>3, <3>1, <4>1, ArmsAre
    <3>3. s \in Todos /\ <<EndSwitch>> \in Todos /\ s \o <<EndSwitch>> \in Todos
      BY <3>2, TodosAre, PortionIs
    <3>4. (s \o <<EndSwitch>>) \o t = s \o (<<EndSwitch>> \o t)
      BY <1>1, <3>3, TodosAre, SMTT(30)
    <3>5. Onto(Onto(Rests[y], s \o <<EndSwitch>>), t) = Onto(Rests[y], (s \o <<EndSwitch>>) \o t)
      BY <1>1, <3>2, <3>3, RestsAre, OntoIs
    <3>6. QED
      BY <3>1, <3>4, <3>5
  <2>5. ASSUME NEW k \in 1 .. n PROVE 2 * k \in 1 .. 2 * n /\ r[2 * k] = Onto(q(k), t)
    <3>1. 2 * k \in 1 .. 2 * n /\ ~((2 * k) % 2 = 1) /\ (2 * k) \div 2 = k
      BY <1>3
    <3>2. QED
      BY <1>4, <2>4, <3>1
  <2>6. ASSUME NEW k \in 1 .. 2 * n
        PROVE  r[k] = {} \/ (k \div 2 \in 1 .. n /\ r[k] = Onto(q(k \div 2), t))
    <3>1. CASE k % 2 = 1
      BY <1>4, <3>1
    <3>2. CASE ~(k % 2 = 1)
      <4>1. k \div 2 \in 1 .. n
        BY <1>3, <3>2
      <4>2. QED
        BY <1>4, <2>4, <3>2, <4>1
    <3>3. QED
      BY <3>1, <3>2
  <2> HIDE DEF q
  <2>7. QED
    BY <2>3, <2>5, <2>6
<1>11. QED
  BY <1>2, <1>8, <1>9, <1>10 DEF Flow

\* A tuple of one item, and one of two.
LEMMA ShortSequences ==
    ASSUME NEW a, NEW b
    PROVE  IsSequence(<<a>>) /\ IsSequence(<<a, b>>)
<1>1. <<a>> \in Seq({a, b}) /\ <<a, b>> \in Seq({a, b})
  OBVIOUS
<1>2. QED
  BY <1>1 DEF IsSequence

LEMMA SwitchEnds ==
    ASSUME NEW x, NEW f, NEW t, NEW first, NEW env, Arranged(x, f, t, first, env),
           NEW y, y.op \in Sets
    PROVE  Flow(<<y, EmitLabel(first)>>, States(f, t), States(f, t), {}, env)
<1>1. first \in DOMAIN env.at /\ env.at[first] = States(f, t)
  BY DEF Arranged
<1>2. PICK T : T = States(f, t)
  OBVIOUS
<1>3. Steady(T)
  BY <1>2, StatesAreSteady
<1>4. Flow(<<y>>, T, T, {}, env)
  BY <1>3, SetFollows, OneFlows
<1>5. Flow(<<EmitLabel(first)>>, T, T, {}, env)
  BY <1>1, <1>2, <1>3, LabelFollows, OneFlows
<1>6. Flow(<<y>> \o <<EmitLabel(first)>>, T, T, {} \cup {}, env)
  BY <1>4, <1>5, JoinFlows
<1>7. <<y>> \o <<EmitLabel(first)>> = <<y, EmitLabel(first)>>
  BY TwoItems
<1>8. QED
  BY <1>2, <1>6, <1>7

LEMMA SwitchFlows ==
    ASSUME NEW x, NEW f, NEW t, NEW first, NEW env, Arranged(x, f, t, first, env),
           NEW call, Leaving(call, f, t, env.at),
           NEW l, l = (IF x.has_default THEN first + Len(x.arms) ELSE first),
           NEW y, y.op \in Sets, NEW z, z.op \in Sets,
           NEW cases, IsSequence(cases), Len(cases) = Cases(x),
           \A k \in 1 .. Cases(x) : cases[k] = JumpIfEqual(k, first + k),
           NEW arms, IsSequence(arms), Len(arms) = 2 * Len(x.arms),
           \A k \in 1 .. 2 * Len(x.arms) :
               arms[k] = IF k % 2 = 1 THEN EmitLabel(first + ((k + 1) \div 2))
                         ELSE Call(x.arms[k \div 2], first, call.again),
           NEW asks, asks = <<[op |-> "switch", event |-> x.event,
                               answers |-> Cases(x) + 1]>>
    PROVE  Flow(asks \o cases \o <<EmitJump(l), y>> \o arms \o <<z, EmitLabel(first)>>,
                States(f, <<x>> \o t), States(f, t), Onto(Rests[x], t), env)
<1>1. PICK B, C, D, A, T, R : /\ B = States(f, <<x>> \o t)
                              /\ C = Choosing(f, x, t, 1, Cases(x) + 1)
                              /\ D = Choosing(f, x, t, Cases(x) + 1, Cases(x) + 1)
                              /\ A = ArmStates(f, x, t, 1)
                              /\ T = States(f, t) /\ R = Onto(Rests[x], t)
  OBVIOUS
<1>2. Flow(asks, B, C, {}, env)
  BY <1>1, SwitchAsks
<1>3. Flow(cases, C, D, {}, env)
  BY <1>1, SwitchCompares
<1>4. Flow(<<EmitJump(l), y>>, D, A, {}, env)
  BY <1>1, SwitchChooses
<1>5. Flow(arms, A, T, R, env)
  BY <1>1, SwitchArms
<1>6. Flow(<<z, EmitLabel(first)>>, T, T, {}, env)
  BY <1>1, SwitchEnds
<1>7. Flow(asks \o cases, B, D, {} \cup {}, env)
  BY <1>2, <1>3, JoinFlows
<1>8. Flow(asks \o cases \o <<EmitJump(l), y>>, B, A, ({} \cup {}) \cup {}, env)
  BY <1>4, <1>7, JoinFlows
<1>9. Flow(asks \o cases \o <<EmitJump(l), y>> \o arms, B, T, (({} \cup {}) \cup {}) \cup R, env)
  BY <1>5, <1>8, JoinFlows
<1>10. Flow(asks \o cases \o <<EmitJump(l), y>> \o arms \o <<z, EmitLabel(first)>>, B, T,
            ((({} \cup {}) \cup {}) \cup R) \cup {}, env)
  BY <1>6, <1>9, JoinFlows
<1>11. ((({} \cup {}) \cup {}) \cup R) \cup {} = R
  OBVIOUS
<1>12. QED
  BY <1>1, <1>10, <1>11

-----------------------------------------------------------------------------
(***************************************************************************)
(* What a call of GenStatement puts down: the labels it asks for are given *)
(* their places.                                                           *)
(***************************************************************************)
Env(at, due, of) == [at |-> at, due |-> due, of |-> of, bodies |-> program]

LEMMA EnvIs ==
    ASSUME NEW at, NEW due, NEW of
    PROVE  /\ Env(at, due, of).at = at /\ Env(at, due, of).due = due
           /\ Env(at, due, of).of = of /\ Env(at, due, of).bodies = program
BY DEF Env

Ready(call, t, at) ==
    /\ LabelsInv /\ AtNext("statement") /\ call = Head(pending)
    /\ t \in Todos /\ function \in Nat /\ function # 0
    /\ DOMAIN at \subseteq 1 .. next_label - 1
    /\ function_end_label \in DOMAIN at /\ at[function_end_label] = States(function, <<>>)
    /\ call.root.kind # "act" => Leaving(call, function, t, at)

\* The n labels from next_label on have a place too.
Grown(at, more, n) ==
    /\ DOMAIN at \subseteq DOMAIN more
    /\ \A label \in DOMAIN at : more[label] = at[label]
    /\ DOMAIN more \subseteq DOMAIN at \cup next_label .. next_label + n - 1

PutsDown(x, t, at, due, n, items) ==
    /\ Writes(n, items)
    /\ \E more : /\ Grown(at, more, n)
                 /\ Flow(items, States(function, <<x>> \o t), States(function, t),
                         Onto(Rests[x], t), Env(more, due, function))

LEMMA ReadyIs ==
    ASSUME NEW call, NEW t, NEW at, Ready(call, t, at)
    PROVE  /\ call.root \in Statements /\ t \in Todos
           /\ call.leaves = loop_break_label /\ call.again = loop_continue_label
           /\ function \in Nat /\ function # 0 /\ next_label \in Nat /\ next_label >= 1
           /\ DOMAIN at \subseteq 1 .. next_label - 1
           /\ function_end_label \in DOMAIN at
           /\ at[function_end_label] = States(function, <<>>)
BY CallIs DEF Ready

LEMMA Grows ==
    ASSUME NEW call, NEW t, NEW at, Ready(call, t, at), NEW n \in Nat, NEW new
    PROVE  \E more : /\ Grown(at, more, n)
                     /\ \A k \in 0 .. n - 1 : /\ next_label + k \in DOMAIN more
                                              /\ more[next_label + k] = new[k]
<1>1. PICK s : s = next_label
  OBVIOUS
<1>2. s \in Nat /\ DOMAIN at \subseteq 1 .. s - 1
  BY <1>1, ReadyIs
<1> DEFINE more == [l \in DOMAIN at \cup s .. s + n - 1 |->
                       IF l \in DOMAIN at THEN at[l] ELSE new[l - s]]
<1>3. DOMAIN more = DOMAIN at \cup s .. s + n - 1
  OBVIOUS
<1>4. \A l \in DOMAIN at : more[l] = at[l]
  OBVIOUS
<1>5. ASSUME NEW k \in 0 .. n - 1
      PROVE  s + k \in DOMAIN more /\ more[s + k] = new[k]
  <2>1. s + k \in s .. s + n - 1 /\ s + k \notin 1 .. s - 1 /\ (s + k) - s = k
    BY <1>2
  <2>2. QED
    BY <1>2, <2>1
<1> HIDE DEF more
<1>6. Grown(at, more, n)
  BY <1>1, <1>3, <1>4 DEF Grown
<1>7. QED
  BY <1>1, <1>5, <1>6

\* One of them, two or three, with their places.
Given(at, more, n, new) ==
    /\ Grown(at, more, n)
    /\ next_label \in DOMAIN more /\ more[next_label] = new[1]
    /\ n # 1 => next_label + 1 \in DOMAIN more /\ more[next_label + 1] = new[2]
    /\ n = 3 => next_label + 2 \in DOMAIN more /\ more[next_label + 2] = new[3]

LEMMA GrowsBy ==
    ASSUME NEW call, NEW t, NEW at, Ready(call, t, at), NEW n \in {1, 2, 3}, NEW new
    PROVE  \E more : Given(at, more, n, new)
<1>1. PICK from : from[0] = new[1] /\ from[1] = new[2] /\ from[2] = new[3]
  <2> DEFINE from == [k \in {0, 1, 2} |-> new[k + 1]]
  <2>1. 0 + 1 = 1 /\ 1 + 1 = 2 /\ 2 + 1 = 3
    OBVIOUS
  <2>2. from[0] = new[1] /\ from[1] = new[2] /\ from[2] = new[3]
    BY <2>1
  <2>3. QED
    BY <2>2
<1>2. PICK more : /\ Grown(at, more, n)
                  /\ \A k \in 0 .. n - 1 : /\ next_label + k \in DOMAIN more
                                           /\ more[next_label + k] = from[k]
  BY Grows
<1>3. /\ next_label \in Nat /\ next_label + 0 = next_label /\ 0 \in 0 .. n - 1
      /\ n # 1 => 1 \in 0 .. n - 1
      /\ n = 3 => 2 \in 0 .. n - 1
  BY ReadyIs
<1>4. Given(at, more, n, new)
  BY <1>1, <1>2, <1>3 DEF Given
<1>5. QED
  BY <1>4

\* Where a break and a continue go, they still go.
LEMMA GrownIs ==
    ASSUME NEW call, NEW t, NEW at, Ready(call, t, at), call.root.kind # "act",
           NEW n \in Nat, NEW more, Grown(at, more, n)
    PROVE  Leaving(call, function, t, more)
BY DEF Ready, Grown, Leaving

\* Nothing is asked for.
LEMMA NotGrown ==
    ASSUME NEW call, NEW t, NEW at, Ready(call, t, at)
    PROVE  Grown(at, at, 0)
BY DEF Grown

LEMMA PutDownAs ==
    ASSUME NEW x, NEW t, NEW at, NEW due, NEW n, NEW items, NEW more, NEW f, f = function,
           Writes(n, items), Grown(at, more, n),
           Flow(items, States(f, <<x>> \o t), States(f, t), Onto(Rests[x], t),
                Env(more, due, f))
    PROVE  PutsDown(x, t, at, due, n, items)
BY DEF PutsDown

LEMMA IfPutsDown ==
    ASSUME NEW call, NEW t, NEW at, Ready(call, t, at), NEW due,
           NEW x, x = call.root, x.kind = "if", GenIf(x, call)
    PROVE  \E n \in Nat : \E items : PutsDown(x, t, at, due, n, items)
<1>1. PICK f, s, a, b : f = function /\ s = next_label /\ a = call.leaves /\ b = call.again
  OBVIOUS
<1>2. x \in Statements /\ t \in Todos /\ f \in Nat /\ f # 0 /\ s \in Nat
  BY <1>1, ReadyIs
<1>3. x.branches \in Seq(Statements) /\ (Len(x.branches) = 1 \/ Len(x.branches) = 2)
  BY <1>2, StatementIs DEF IsStatement
<1>4. CASE Len(x.branches) = 1
  <2>1. PICK more : Grown(at, more, 1) /\ s \in DOMAIN more /\ more[s] = States(f, t)
    <3>1. PICK new : new = <<States(f, t)>>
      OBVIOUS
    <3>2. \E more : Given(at, more, 1, new)
      BY GrowsBy
    <3>3. QED
      BY <1>1, <3>1, <3>2 DEF Given
  <2>3. PICK u, v, w, items : /\ u = GenCondition(x.event, s)
                              /\ v = Call(x.branches[1], a, b) /\ w = EmitLabel(s)
                              /\ items = <<u, v, w>>
    OBVIOUS
  <2>4. IsSequence(items) /\ Len(items) = 3 /\ items[1] = u /\ items[2] = v /\ items[3] = w
    <3>1. items \in Seq({u, v, w})
      BY <2>3
    <3>2. QED
      BY <2>3, <3>1 DEF IsSequence
  <2>5. PICK env : env = Env(more, due, f) /\ env.at = more /\ env.of = f
    BY EnvIs
  <2>6. Leaving(call, f, t, env.at)
    BY <1>1, <2>1, <2>5, GrownIs
  <2>7. Flow(items, States(f, <<x>> \o t), States(f, t), Onto(Rests[x], t), env)
    BY <1>1, <1>2, <1>4, <2>1, <2>3, <2>4, <2>5, <2>6, IfFlows
  <2>8. Writes(1, items)
    <3>1. s + 0 = s
      BY <1>2
    <3>2. QED
      BY <1>1, <1>4, <2>3, <3>1 DEF GenIf, NewLabel, Within
  <2>9. PutsDown(x, t, at, due, 1, items)
    BY <1>1, <2>1, <2>5, <2>7, <2>8, PutDownAs
  <2>10. QED
    BY <2>9
<1>5. CASE Len(x.branches) = 2
  <2>1. PICK more : /\ Grown(at, more, 2)
                    /\ s \in DOMAIN more /\ more[s] = States(f, <<x.branches[2]>> \o t)
                    /\ s + 1 \in DOMAIN more /\ more[s + 1] = States(f, t)
    <3>1. PICK new : new = <<States(f, <<x.branches[2]>> \o t), States(f, t)>>
      OBVIOUS
    <3>2. \E more : Given(at, more, 2, new)
      BY GrowsBy
    <3>3. QED
      BY <1>1, <3>1, <3>2 DEF Given
  <2>3. PICK l, i1, i2, i3, i4, i5, i6, items :
            /\ l = s + 1
            /\ i1 = GenCondition(x.event, s) /\ i2 = Call(x.branches[1], a, b)
            /\ i3 = EmitJump(l) /\ i4 = EmitLabel(s) /\ i5 = Call(x.branches[2], a, b)
            /\ i6 = EmitLabel(l)
            /\ items = <<i1, i2, i3, i4, i5, i6>>
    OBVIOUS
  <2>4. /\ IsSequence(items) /\ Len(items) = 6 /\ items[1] = i1 /\ items[2] = i2
        /\ items[3] = i3 /\ items[4] = i4 /\ items[5] = i5 /\ items[6] = i6
    <3>1. items \in Seq({i1, i2, i3, i4, i5, i6})
      BY <2>3
    <3>2. QED
      BY <2>3, <3>1 DEF IsSequence
  <2>5. PICK env : env = Env(more, due, f) /\ env.at = more /\ env.of = f
    BY EnvIs
  <2>6. Leaving(call, f, t, env.at)
    BY <1>1, <2>1, <2>5, GrownIs
  <2>7. Flow(items, States(f, <<x>> \o t), States(f, t), Onto(Rests[x], t), env)
    BY <1>1, <1>2, <1>5, <2>1, <2>3, <2>4, <2>5, <2>6, IfElseFlows
  <2>8. Writes(2, items)
    <3>1. s + 0 = s /\ ~(Len(x.branches) = 1)
      BY <1>2, <1>5
    <3>2. QED
      BY <1>1, <2>3, <3>1 DEF GenIf, NewLabel, Within
  <2>9. PutsDown(x, t, at, due, 2, items)
    BY <1>1, <2>1, <2>5, <2>7, <2>8, PutDownAs
  <2>10. QED
    BY <2>9
<1>6. QED
  BY <1>3, <1>4, <1>5

\* A while, and a for without a step.
LEMMA WhilePutsDown ==
    ASSUME NEW call, NEW t, NEW at, Ready(call, t, at), NEW due,
           NEW x, x = call.root, x.kind \in {"while", "for"}, x.kind = "for" => x.step = <<>>,
           GenWhile(x)
    PROVE  \E n \in Nat : \E items : PutsDown(x, t, at, due, n, items)
<1>1. PICK f, s, l : f = function /\ s = next_label /\ l = s + 1
  OBVIOUS
<1>2. x \in Statements /\ t \in Todos /\ f \in Nat /\ f # 0 /\ s \in Nat
  BY <1>1, ReadyIs
<1>3. PICK more : /\ Grown(at, more, 2)
                  /\ s \in DOMAIN more /\ more[s] = States(f, <<x>> \o t)
                  /\ l \in DOMAIN more /\ more[l] = States(f, t)
  <2>1. PICK new : new = <<States(f, <<x>> \o t), States(f, t)>>
    OBVIOUS
  <2>2. \E more : Given(at, more, 2, new)
    BY GrowsBy
  <2>3. QED
    BY <1>1, <2>1, <2>2 DEF Given
<1>4. PICK i1, i2, i3, i4, i5, i6, i7, i8, i9, items :
          /\ i1 = SetBreak(l) /\ i2 = SetContinue(s) /\ i3 = EmitLabel(s)
          /\ i4 = GenCondition(x.event, l) /\ i5 = Call(x.body, l, s) /\ i6 = EmitJump(s)
          /\ i7 = EmitLabel(l) /\ i8 = SetBreak(loop_break_label)
          /\ i9 = SetContinue(loop_continue_label)
          /\ items = <<i1, i2, i3, i4, i5, i6, i7, i8, i9>>
  OBVIOUS
<1>5. /\ IsSequence(items) /\ Len(items) = 9 /\ items[1] = i1 /\ items[2] = i2
      /\ items[3] = i3 /\ items[4] = i4 /\ items[5] = i5 /\ items[6] = i6 /\ items[7] = i7
      /\ items[8] = i8 /\ items[9] = i9
  <2>1. items \in Seq({i1, i2, i3, i4, i5, i6, i7, i8, i9})
    BY <1>4
  <2>2. QED
    BY <1>4, <2>1 DEF IsSequence
<1>6. i1.op \in Sets /\ i2.op \in Sets /\ i8.op \in Sets /\ i9.op \in Sets
  BY <1>4 DEF SetBreak, SetContinue, Sets
<1>7. PICK env : env = Env(more, due, f) /\ env.at = more /\ env.of = f
  BY EnvIs
<1>8. Flow(items, States(f, <<x>> \o t), States(f, t), Onto(Rests[x], t), env)
  <2>1. /\ s \in DOMAIN env.at /\ env.at[s] = States(f, <<x>> \o t)
        /\ l \in DOMAIN env.at /\ env.at[l] = States(f, t)
    BY <1>3, <1>7
  <2>2. /\ items[1].op \in Sets /\ items[2].op \in Sets
        /\ items[3] = EmitLabel(s) /\ items[4] = GenCondition(x.event, l)
        /\ items[5] = Call(x.body, l, s) /\ items[6] = EmitJump(s)
        /\ items[7] = EmitLabel(l) /\ items[8].op \in Sets /\ items[9].op \in Sets
    BY <1>4, <1>5, <1>6
  <2>3. IsSequence(items) /\ Len(items) = 9 /\ env.of = f
    BY <1>5, <1>7
  <2>4. QED
    BY <1>2, <2>1, <2>2, <2>3, WhileFlows
<1>9. Writes(2, items)
  <2>1. s + 0 = s
    BY <1>2
  <2>2. QED
    BY <1>1, <1>4, <2>1 DEF GenWhile, NewLabel
<1>10. PutsDown(x, t, at, due, 2, items)
  BY <1>1, <1>3, <1>7, <1>8, <1>9, PutDownAs
<1>11. QED
  BY <1>10

LEMMA DoPutsDown ==
    ASSUME NEW call, NEW t, NEW at, Ready(call, t, at), NEW due,
           NEW x, x = call.root, x.kind = "do", GenDoWhile(x)
    PROVE  \E n \in Nat : \E items : PutsDown(x, t, at, due, n, items)
<1>1. PICK f, s, l, m : f = function /\ s = next_label /\ l = s + 1 /\ m = s + 2
  OBVIOUS
<1>2. x \in Statements /\ t \in Todos /\ f \in Nat /\ f # 0 /\ s \in Nat
  BY <1>1, ReadyIs
<1>3. PICK more : /\ Grown(at, more, 3)
                  /\ s \in DOMAIN more /\ more[s] = States(f, <<x>> \o t)
                  /\ l \in DOMAIN more /\ more[l] = States(f, t)
                  /\ m \in DOMAIN more /\ more[m] = States(f, <<Again(x)>> \o t)
  <2>1. PICK new : new = <<States(f, <<x>> \o t), States(f, t), States(f, <<Again(x)>> \o t)>>
    OBVIOUS
  <2>2. \E more : Given(at, more, 3, new)
    BY GrowsBy
  <2>3. QED
    BY <1>1, <2>1, <2>2 DEF Given
<1>4. PICK i1, i2, i3, i4, i5, i6, i7, i8, i9, i10, items :
          /\ i1 = SetBreak(l) /\ i2 = SetContinue(m) /\ i3 = EmitLabel(s)
          /\ i4 = Call(x.body, l, m) /\ i5 = EmitLabel(m) /\ i6 = GenCondition(x.event, l)
          /\ i7 = EmitJump(s) /\ i8 = EmitLabel(l) /\ i9 = SetBreak(loop_break_label)
          /\ i10 = SetContinue(loop_continue_label)
          /\ items = <<i1, i2, i3, i4, i5, i6, i7, i8, i9, i10>>
  OBVIOUS
<1>5. /\ IsSequence(items) /\ Len(items) = 10 /\ items[1] = i1 /\ items[2] = i2
      /\ items[3] = i3 /\ items[4] = i4 /\ items[5] = i5 /\ items[6] = i6 /\ items[7] = i7
      /\ items[8] = i8 /\ items[9] = i9 /\ items[10] = i10
  <2>1. items \in Seq({i1, i2, i3, i4, i5, i6, i7, i8, i9, i10})
    BY <1>4
  <2>2. QED
    BY <1>4, <2>1 DEF IsSequence
<1>6. i1.op \in Sets /\ i2.op \in Sets /\ i9.op \in Sets /\ i10.op \in Sets
  BY <1>4 DEF SetBreak, SetContinue, Sets
<1>7. PICK env : env = Env(more, due, f) /\ env.at = more /\ env.of = f
  BY EnvIs
<1>8. Flow(items, States(f, <<x>> \o t), States(f, t), Onto(Rests[x], t), env)
  BY <1>1, <1>2, <1>3, <1>4, <1>5, <1>6, <1>7, DoFlows
<1>9. Writes(3, items)
  <2>1. s + 0 = s
    BY <1>2
  <2>2. QED
    BY <1>1, <1>4, <2>1 DEF GenDoWhile, NewLabel
<1>10. PutsDown(x, t, at, due, 3, items)
  BY <1>1, <1>3, <1>7, <1>8, <1>9, PutDownAs
<1>11. QED
  BY <1>10

LEMMA ForPutsDown ==
    ASSUME NEW call, NEW t, NEW at, Ready(call, t, at), NEW due,
           NEW x, x = call.root, x.kind = "for", x.step # <<>>, GenFor(x)
    PROVE  \E n \in Nat : \E items : PutsDown(x, t, at, due, n, items)
<1>1. PICK f, s, l, m : f = function /\ s = next_label /\ l = s + 1 /\ m = s + 2
  OBVIOUS
<1>2. x \in Statements /\ t \in Todos /\ f \in Nat /\ f # 0 /\ s \in Nat
  BY <1>1, ReadyIs
<1>3. PICK more : /\ Grown(at, more, 3)
                  /\ s \in DOMAIN more /\ more[s] = States(f, <<x>> \o t)
                  /\ l \in DOMAIN more /\ more[l] = States(f, t)
                  /\ m \in DOMAIN more /\ more[m] = States(f, <<Again(x)>> \o t)
  <2>1. PICK new : new = <<States(f, <<x>> \o t), States(f, t), States(f, <<Again(x)>> \o t)>>
    OBVIOUS
  <2>2. \E more : Given(at, more, 3, new)
    BY GrowsBy
  <2>3. QED
    BY <1>1, <2>1, <2>2 DEF Given
<1>4. PICK i1, i2, i3, i4, i5, i6, i7, i8, i9, i10, i11, items :
          /\ i1 = SetBreak(l) /\ i2 = SetContinue(m) /\ i3 = EmitLabel(s)
          /\ i4 = GenCondition(x.event, l) /\ i5 = Call(x.body, l, m)
          /\ i6 = EmitLabel(m) /\ i7 = Call(x.step[1], l, m)
          /\ i8 = EmitJump(s) /\ i9 = EmitLabel(l) /\ i10 = SetBreak(loop_break_label)
          /\ i11 = SetContinue(loop_continue_label)
          /\ items = <<i1, i2, i3, i4, i5, i6, i7, i8, i9, i10, i11>>
  OBVIOUS
<1>5. /\ IsSequence(items) /\ Len(items) = 11 /\ items[1] = i1 /\ items[2] = i2
      /\ items[3] = i3 /\ items[4] = i4 /\ items[5] = i5 /\ items[6] = i6 /\ items[7] = i7
      /\ items[8] = i8 /\ items[9] = i9 /\ items[10] = i10 /\ items[11] = i11
  <2>1. items \in Seq({i1, i2, i3, i4, i5, i6, i7, i8, i9, i10, i11})
    BY <1>4
  <2>2. QED
    BY <1>4, <2>1 DEF IsSequence
<1>6. i1.op \in Sets /\ i2.op \in Sets /\ i10.op \in Sets /\ i11.op \in Sets
  BY <1>4 DEF SetBreak, SetContinue, Sets
<1>7. PICK env : env = Env(more, due, f) /\ env.at = more /\ env.of = f
  BY EnvIs
<1>8. Flow(items, States(f, <<x>> \o t), States(f, t), Onto(Rests[x], t), env)
  <2>1. /\ s \in DOMAIN env.at /\ env.at[s] = States(f, <<x>> \o t)
        /\ l \in DOMAIN env.at /\ env.at[l] = States(f, t)
        /\ m \in DOMAIN env.at /\ env.at[m] = States(f, <<Again(x)>> \o t)
    BY <1>3, <1>7
  <2>2. /\ items[1].op \in Sets /\ items[2].op \in Sets
        /\ items[3] = EmitLabel(s) /\ items[4] = GenCondition(x.event, l)
        /\ items[5] = Call(x.body, l, m) /\ items[6] = EmitLabel(m)
        /\ items[7] = Call(x.step[1], l, m)
        /\ items[8] = EmitJump(s) /\ items[9] = EmitLabel(l)
        /\ items[10].op \in Sets /\ items[11].op \in Sets
    BY <1>4, <1>5, <1>6
  <2>3. IsSequence(items) /\ Len(items) = 11 /\ env.of = f
    BY <1>5, <1>7
  <2>4. QED
    BY ZenonT(60), <1>2, <2>1, <2>2, <2>3, ForFlows
<1>9. Writes(3, items)
  <2>1. s + 0 = s
    BY <1>2
  <2>2. QED
    BY <1>1, <1>4, <2>1 DEF GenFor, NewLabel
<1>10. PutsDown(x, t, at, due, 3, items)
  BY <1>1, <1>3, <1>7, <1>8, <1>9, PutDownAs
<1>11. QED
  BY <1>10

LEMMA FunctionIsSequence ==
    ASSUME NEW n \in Nat, NEW s, s = [k \in 1 .. n |-> s[k]]
    PROVE  IsSequence(s) /\ Len(s) = n
<1>1. PICK S : S = {s[k] : k \in 1 .. n}
  OBVIOUS
<1>2. \A k \in 1 .. n : s[k] \in S
  BY <1>1
<1>3. s \in [1 .. n -> S]
  BY <1>2
<1>4. s \in Seq(S) /\ Len(s) = n
  BY <1>3
<1>5. QED
  BY <1>4 DEF IsSequence

LEMMA SwitchPutsDown ==
    ASSUME NEW call, NEW t, NEW at, Ready(call, t, at), NEW due,
           NEW x, x = call.root, x.kind = "switch", GenSwitch(x, call)
    PROVE  \E n \in Nat : \E items : PutsDown(x, t, at, due, n, items)
<1>1. PICK f, s, n, c : f = function /\ s = next_label /\ n = Len(x.arms) /\ c = Cases(x)
  OBVIOUS
<1>2. x \in Statements /\ t \in Todos /\ f \in Nat /\ f # 0 /\ s \in Nat
  BY <1>1, ReadyIs
<1>3. n \in Nat /\ c \in Nat
  BY <1>1, <1>2, ArmsAre
<1>4. \A k : NewLabel(k) = s + k
  BY <1>1 DEF NewLabel
<1>5. s + 0 = s /\ NewLabel(0) = s
  BY <1>2, <1>4
<1>6. PICK l, asks, cases, i1, i2, arms, i3 :
          /\ l = (IF x.has_default THEN s + n ELSE s)
          /\ asks = <<[op |-> "switch", event |-> x.event, answers |-> c + 1]>>
          /\ cases = [k \in 1 .. c |-> JumpIfEqual(k, s + k)]
          /\ i1 = EmitJump(l) /\ i2 = SetBreak(s)
          /\ arms = [k \in 1 .. 2 * n |->
                        IF k % 2 = 1 THEN EmitLabel(s + ((k + 1) \div 2))
                        ELSE Call(x.arms[k \div 2], s, call.again)]
          /\ i3 = OutsideSwitch
  OBVIOUS
<1>7. PICK items : items = asks \o cases \o <<i1, i2>> \o arms \o <<i3, EmitLabel(s)>>
  OBVIOUS
<1>8. Writes(1 + n, items)
  <2>1. c = IF x.has_default THEN n - 1 ELSE n
    BY <1>1 DEF Cases
  <2>2. LET d == IF x.has_default THEN NewLabel(n) ELSE NewLabel(0)
        IN  Writes(1 + n,
                   <<[op |-> "switch", event |-> x.event, answers |-> c + 1]>>
                   \o [k \in 1 .. c |-> JumpIfEqual(k, NewLabel(k))]
                   \o <<EmitJump(d), SetBreak(NewLabel(0))>>
                   \o [k \in 1 .. 2 * n |->
                          IF k % 2 = 1 THEN EmitLabel(NewLabel((k + 1) \div 2))
                          ELSE Call(x.arms[k \div 2], NewLabel(0), call.again)]
                   \o <<OutsideSwitch, EmitLabel(NewLabel(0))>>)
    BY <1>1, <2>1 DEF GenSwitch
  <2>3. [k \in 1 .. c |-> JumpIfEqual(k, NewLabel(k))] = cases
    BY <1>4, <1>6
  <2>4. [k \in 1 .. 2 * n |->
            IF k % 2 = 1 THEN EmitLabel(NewLabel((k + 1) \div 2))
            ELSE Call(x.arms[k \div 2], NewLabel(0), call.again)] = arms
    BY <1>4, <1>5, <1>6
  <2>5. (IF x.has_default THEN NewLabel(n) ELSE NewLabel(0)) = l
    BY <1>4, <1>5, <1>6
  <2>6. QED
    BY <1>5, <1>6, <1>7, <2>2, <2>3, <2>4, <2>5
<1>9. PICK more : /\ Grown(at, more, 1 + n)
                  /\ s \in DOMAIN more /\ more[s] = States(f, t)
                  /\ \A k \in 1 .. n : s + k \in DOMAIN more
                                       /\ more[s + k] = ArmStates(f, x, t, k)
  <2>1. PICK new : /\ new[0] = States(f, t)
                   /\ \A k \in 1 .. n : new[k] = ArmStates(f, x, t, k)
    <3> DEFINE new == [k \in 0 .. n |-> IF k = 0 THEN States(f, t) ELSE ArmStates(f, x, t, k)]
    <3>1. 0 \in 0 .. n /\ \A k \in 1 .. n : k \in 0 .. n /\ k # 0
      BY <1>3
    <3>2. new[0] = States(f, t) /\ \A k \in 1 .. n : new[k] = ArmStates(f, x, t, k)
      BY <3>1
    <3>3. QED
      BY <3>2
  <2>2. PICK more : /\ Grown(at, more, 1 + n)
                    /\ \A k \in 0 .. (1 + n) - 1 : /\ next_label + k \in DOMAIN more
                                                   /\ more[next_label + k] = new[k]
    <3>1. 1 + n \in Nat
      BY <1>3
    <3>2. QED
      BY <3>1, Grows
  <2>3. 0 \in 0 .. (1 + n) - 1 /\ \A k \in 1 .. n : k \in 0 .. (1 + n) - 1
    BY <1>3
  <2>4. s \in DOMAIN more /\ more[s] = States(f, t)
    BY <1>1, <1>5, <2>1, <2>2, <2>3
  <2>5. \A k \in 1 .. n : s + k \in DOMAIN more /\ more[s + k] = ArmStates(f, x, t, k)
    BY <1>1, <2>1, <2>2, <2>3
  <2>6. QED
    BY <2>2, <2>4, <2>5
<1>10. PICK env : env = Env(more, due, f) /\ env.at = more /\ env.of = f
  BY EnvIs
<1>11. Arranged(x, f, t, s, env)
  BY <1>1, <1>2, <1>9, <1>10 DEF Arranged
<1>12. Leaving(call, f, t, env.at)
  <2>1. 1 + n \in Nat
    BY <1>3
  <2>2. QED
    BY <1>1, <1>9, <1>10, <2>1, GrownIs
<1>13. /\ IsSequence(cases) /\ Len(cases) = c
       /\ \A k \in 1 .. c : cases[k] = JumpIfEqual(k, s + k)
  <2>1. \A k \in 1 .. c : cases[k] = JumpIfEqual(k, s + k)
    BY <1>6
  <2>2. cases = [k \in 1 .. c |-> cases[k]]
    BY <1>6
  <2>3. QED
    BY <1>3, <2>1, <2>2, FunctionIsSequence
<1>14. /\ IsSequence(arms) /\ Len(arms) = 2 * n
       /\ \A k \in 1 .. 2 * n :
              arms[k] = IF k % 2 = 1 THEN EmitLabel(s + ((k + 1) \div 2))
                        ELSE Call(x.arms[k \div 2], s, call.again)
  <2>1. \A k \in 1 .. 2 * n :
            arms[k] = IF k % 2 = 1 THEN EmitLabel(s + ((k + 1) \div 2))
                      ELSE Call(x.arms[k \div 2], s, call.again)
    BY <1>6
  <2>2. arms = [k \in 1 .. 2 * n |-> arms[k]]
    BY <1>6
  <2>3. PICK m : m = 2 * n
    OBVIOUS
  <2>4. m \in Nat /\ arms = [k \in 1 .. m |-> arms[k]]
    BY <1>3, <2>2, <2>3
  <2>5. IsSequence(arms) /\ Len(arms) = m
    BY <2>4, FunctionIsSequence
  <2>6. QED
    BY <2>1, <2>3, <2>5
<1>15. i2.op \in Sets /\ i3.op \in Sets
  BY <1>6 DEF SetBreak, OutsideSwitch, Sets
<1>16. Flow(asks \o cases \o <<EmitJump(l), i2>> \o arms \o <<i3, EmitLabel(s)>>,
            States(f, <<x>> \o t), States(f, t), Onto(Rests[x], t), env)
  <2>1. l = (IF x.has_default THEN s + Len(x.arms) ELSE s)
    BY <1>1, <1>6
  <2>2. asks = <<[op |-> "switch", event |-> x.event, answers |-> Cases(x) + 1]>>
    BY <1>1, <1>6
  <2>3. /\ IsSequence(cases) /\ Len(cases) = Cases(x)
        /\ \A k \in 1 .. Cases(x) : cases[k] = JumpIfEqual(k, s + k)
    BY <1>1, <1>13
  <2>4. /\ IsSequence(arms) /\ Len(arms) = 2 * Len(x.arms)
        /\ \A k \in 1 .. 2 * Len(x.arms) :
               arms[k] = IF k % 2 = 1 THEN EmitLabel(s + ((k + 1) \div 2))
                         ELSE Call(x.arms[k \div 2], s, call.again)
    BY <1>1, <1>14
  <2>5. QED
    BY ZenonT(60), <1>11, <1>12, <1>15, <2>1, <2>2, <2>3, <2>4, SwitchFlows
<1>17. Flow(items, States(f, <<x>> \o t), States(f, t), Onto(Rests[x], t), env)
  BY <1>6, <1>7, <1>16
<1>18. PutsDown(x, t, at, due, 1 + n, items)
  BY <1>1, <1>8, <1>9, <1>10, <1>17, PutDownAs
<1>19. 1 + n \in Nat
  BY <1>3
<1>20. QED
  BY <1>18, <1>19

\* The statements which ask for no label.
LEMMA PlainPutsDown ==
    ASSUME NEW call, NEW t, NEW at, Ready(call, t, at), NEW due,
           NEW x, x = call.root, NEW items, Writes(0, items),
           NEW f, f = function, NEW env, env = Env(at, due, f),
           Flow(items, States(f, <<x>> \o t), States(f, t), Onto(Rests[x], t), env)
    PROVE  \E n \in Nat : \E all : PutsDown(x, t, at, due, n, all)
<1>1. Grown(at, at, 0)
  BY NotGrown
<1>2. PutsDown(x, t, at, due, 0, items)
  BY <1>1, PutDownAs
<1>3. QED
  BY <1>2

LEMMA PairPutsDown ==
    ASSUME NEW call, NEW t, NEW at, Ready(call, t, at), NEW due,
           NEW x, x = call.root, x.kind = "seq",
           Writes(0, <<Within(x.left, call), Within(x.right, call)>>)
    PROVE  \E n \in Nat : \E items : PutsDown(x, t, at, due, n, items)
<1>1. PICK f, i1, i2, items : /\ f = function
                              /\ i1 = Call(x.left, call.leaves, call.again)
                              /\ i2 = Call(x.right, call.leaves, call.again)
                              /\ items = <<i1, i2>>
  OBVIOUS
<1>2. x \in Statements /\ t \in Todos /\ f \in Nat /\ f # 0
  BY <1>1, ReadyIs
<1>3. IsSequence(items) /\ Len(items) = 2 /\ items[1] = i1 /\ items[2] = i2
  BY <1>1, ShortSequences
<1>4. PICK env : env = Env(at, due, f) /\ env.at = at /\ env.of = f
  BY EnvIs
<1>5. Leaving(call, f, t, env.at)
  BY <1>1, <1>4 DEF Ready
<1>6. Flow(items, States(f, <<x>> \o t), States(f, t), Onto(Rests[x], t), env)
  BY <1>1, <1>2, <1>3, <1>4, <1>5, PairFlows
<1>7. Writes(0, items)
  BY <1>1 DEF Within
<1>8. QED
  BY <1>1, <1>4, <1>6, <1>7, PlainPutsDown

\* A break, a continue and a return.
LEMMA LeavingPutsDown ==
    ASSUME NEW call, NEW t, NEW at, Ready(call, t, at), NEW due,
           NEW x, x = call.root,
           \/ x.kind = "break" /\ call.leaves # 0 /\ Writes(0, <<EmitJump(loop_break_label)>>)
           \/ /\ x.kind = "continue" /\ call.again # 0
              /\ Writes(0, <<EmitJump(loop_continue_label)>>)
           \/ x.kind = "return" /\ Writes(0, <<EmitJump(function_end_label)>>)
    PROVE  \E n \in Nat : \E items : PutsDown(x, t, at, due, n, items)
<1>1. PICK f, u : f = function /\ u = <<x>> \o t
  OBVIOUS
<1>2. x \in Statements /\ t \in Todos /\ f \in Nat /\ f # 0
  BY <1>1, ReadyIs
<1>3. PICK env : env = Env(at, due, f) /\ env.at = at /\ env.of = f
  BY EnvIs
<1>4. Leaving(call, f, t, at)
  BY <1>1 DEF Ready
<1>5. ASSUME NEW l \in DOMAIN at, at[l] = States(f, <<x>> \o t),
             Writes(0, <<EmitJump(l)>>)
      PROVE  \E n \in Nat : \E items : PutsDown(x, t, at, due, n, items)
  <2>1. l \in DOMAIN env.at /\ env.at[l] = States(f, <<x>> \o t)
    BY <1>3, <1>5
  <2>2. Flow(<<EmitJump(l)>>, States(f, <<x>> \o t), States(f, t), Onto(Rests[x], t), env)
    BY <1>2, <2>1, LeavingFlows
  <2>3. QED
    BY <1>1, <1>3, <1>5, <2>2, PlainPutsDown
<1>6. CASE x.kind = "break"
  <2>1. call.leaves \in DOMAIN at /\ at[call.leaves] = States(f, <<x>> \o t)
    BY <1>2, <1>4, <1>6 DEF Leaving
  <2>2. Writes(0, <<EmitJump(call.leaves)>>)
    BY <1>6, ReadyIs
  <2>3. QED
    BY <1>5, <2>1, <2>2
<1>7. CASE x.kind = "continue"
  <2>1. call.again \in DOMAIN at /\ at[call.again] = States(f, <<x>> \o t)
    BY <1>2, <1>4, <1>7 DEF Leaving
  <2>2. Writes(0, <<EmitJump(call.again)>>)
    BY <1>7, ReadyIs
  <2>3. QED
    BY <1>5, <2>1, <2>2
<1>8. CASE x.kind = "return"
  <2>1. States(f, <<x>> \o t) = States(f, <<>>)
    BY <1>2, <1>8, ReturnUnfolds, SameStates
  <2>2. function_end_label \in DOMAIN at /\ at[function_end_label] = States(f, <<x>> \o t)
    BY <1>1, <2>1, ReadyIs
  <2>3. Writes(0, <<EmitJump(function_end_label)>>)
    BY <1>8
  <2>4. QED
    BY <1>5, <2>2, <2>3
<1>9. QED
  BY <1>6, <1>7, <1>8

\* Every statement but a goto and a label.
LEMMA StatementPutsDown ==
    ASSUME NEW call, NEW t, NEW at, Ready(call, t, at), NEW due,
           NEW x, x = call.root, StatementOf(x, call), x.kind \notin {"goto", "label"}
    PROVE  \E n \in Nat : \E items : PutsDown(x, t, at, due, n, items)
<1>1. x \in Statements /\ t \in Todos /\ function \in Nat
  BY ReadyIs
<1>2. PICK f : f = function
  OBVIOUS
<1>3. PICK env : env = Env(at, due, f)
  OBVIOUS
<1>4. CASE x.kind = "empty" /\ Writes(0, <<>>)
  <2>1. Flow(<<>>, States(f, <<x>> \o t), States(f, t), Onto(Rests[x], t), env)
    BY <1>1, <1>2, <1>4, EmptyFlows
  <2>2. QED
    BY <1>2, <1>3, <1>4, <2>1, PlainPutsDown
<1>5. CASE x.kind = "act" /\ Writes(0, <<GenEvent(x.event)>>)
  <2>1. Flow(<<GenEvent(x.event)>>, States(f, <<x>> \o t), States(f, t), Onto(Rests[x], t), env)
    BY <1>1, <1>2, <1>5, ActFlows
  <2>2. QED
    BY <1>2, <1>3, <1>5, <2>1, PlainPutsDown
<1>6. CASE x.kind = "seq" /\ Writes(0, <<Within(x.left, call), Within(x.right, call)>>)
  BY <1>6, PairPutsDown
<1>7. CASE x.kind = "if" /\ GenIf(x, call)
  BY <1>7, IfPutsDown
<1>8. CASE x.kind = "while" /\ GenWhile(x)
  BY <1>8, WhilePutsDown
<1>9. CASE x.kind = "do" /\ GenDoWhile(x)
  BY <1>9, DoPutsDown
<1>10. CASE x.kind = "for" /\ GenFor(x)
  <2>1. CASE x.step = <<>>
    <3>1. GenWhile(x)
      BY <1>10, <2>1 DEF GenFor, GenWhile
    <3>2. QED
      BY <1>10, <2>1, <3>1, WhilePutsDown
  <2>2. CASE x.step # <<>>
    BY <1>10, <2>2, ForPutsDown
  <2>3. QED
    BY <2>1, <2>2
<1>11. CASE x.kind = "switch" /\ GenSwitch(x, call)
  BY <1>11, SwitchPutsDown
<1>12. CASE \/ x.kind = "break" /\ call.leaves # 0 /\ Writes(0, <<EmitJump(loop_break_label)>>)
            \/ /\ x.kind = "continue" /\ call.again # 0
               /\ Writes(0, <<EmitJump(loop_continue_label)>>)
            \/ x.kind = "return" /\ Writes(0, <<EmitJump(function_end_label)>>)
  BY <1>12, LeavingPutsDown
<1>13. QED
  BY <1>4, <1>5, <1>6, <1>7, <1>8, <1>9, <1>10, <1>11, <1>12 DEF StatementOf

-----------------------------------------------------------------------------
(***************************************************************************)
(* While the code is written: what was written leads to what is pending,   *)
(* and that to the end of the function.                                    *)
(***************************************************************************)
\* The gotos of the function which is being written, and where they go.
Due ==
    IF pending = <<>> THEN {}
    ELSE {[of |-> function, name |-> n, label |-> label_indices[n]] : n \in named_labels}

\* A label which was written is where what is left to do from it is done.
Reached(rest, at) ==
    /\ rest.name \in labels
    /\ label_indices[rest.name] \in DOMAIN at
    /\ at[label_indices[rest.name]] = States(function, rest.todo)

\* A function is being written, and rests is what its labels still to come lead to.
Open(at, rests) ==
    /\ function \in Nat /\ function # 0
    /\ function_end_label \in DOMAIN at /\ at[function_end_label] = States(function, <<>>)
    /\ rests \subseteq Rests[program[function]]
    /\ \A rest \in Rests[program[function]] : rest \in rests \/ Reached(rest, at)
    /\ \A name \in labels : \E rest \in Rests[program[function]] : rest.name = name

Following(at, m, rests) ==
    /\ DOMAIN at \subseteq 1 .. next_label - 1
    /\ \A name \in Names \ labels : label_indices[name] \notin DOMAIN at
    /\ Flow(code, {}, m, {}, Env(at, Due, 0))
    /\ Flow(pending, m, {}, rests, Env(at, Due, function))
    /\ pending # <<>> => Open(at, rests)

FlowInv == \E at, m, rests : Following(at, m, rests)

LEMMA FollowsOn ==
    ASSUME NEW at, NEW m, NEW rests, NEW due, due = Due', program' = program,
           DOMAIN at \subseteq 1 .. next_label' - 1,
           \A name \in Names \ labels' : label_indices'[name] \notin DOMAIN at,
           Flow(code', {}, m, {}, Env(at, due, 0)),
           Flow(pending', m, {}, rests, Env(at, due, function')),
           pending' # <<>> => Open(at, rests)'
    PROVE  FlowInv'
<1>1. \A of : Env(at, Due, of)' = Env(at, due, of)
  BY DEF Env
<1>2. Following(at, m, rests)'
  BY <1>1 DEF Following
<1>3. QED
  BY <1>2 DEF FlowInv

\* Labels of other functions and of statements stay where they are.
LEMMA StaysOpen ==
    ASSUME NEW at, NEW more, NEW rests, NEW fewer, Open(at, rests),
           UNCHANGED <<program, function, function_end_label>>,
           DOMAIN at \subseteq DOMAIN more, \A label \in DOMAIN at : more[label] = at[label],
           fewer \subseteq rests, labels \subseteq labels',
           \A name \in labels : label_indices[name] \in DOMAIN at =>
                                    label_indices'[name] = label_indices[name],
           \A rest \in rests \ fewer : Reached(rest, more)',
           \A name \in labels' \ labels :
               \E rest \in Rests[program[function]] : rest.name = name
    PROVE  Open(more, fewer)'
<1>1. function_end_label' \in DOMAIN more
      /\ more[function_end_label'] = States(function', <<>>)
  BY DEF Open
<1>2. ASSUME NEW rest, Reached(rest, at) PROVE Reached(rest, more)'
  BY <1>2 DEF Reached
<1>3. \A rest \in Rests[program'[function']] : rest \in fewer \/ Reached(rest, more)'
  BY <1>2 DEF Open
<1>4. \A name \in labels' : \E rest \in Rests[program'[function']] : rest.name = name
  BY DEF Open
<1>5. QED
  BY <1>1, <1>3, <1>4 DEF Open

\* What there is to follow when a call, or any other item, is next.
LEMMA HeadFollows ==
    ASSUME LabelsInv, NEW at, NEW m, NEW rests, Following(at, m, rests), pending # <<>>
    PROVE  \E p, r, more : /\ Steady(m) /\ Steady(p)
                           /\ Follows(Head(pending), m, p, r, Env(at, Due, function))
                           /\ Flow(Tail(pending), p, {}, more, Env(at, Due, function))
                           /\ rests = r \cup more
<1>1. Flow(pending, m, {}, rests, Env(at, Due, function))
  BY DEF Following
<1>2. QED
  BY <1>1, TailFlows

\* A call, and what the labels in its statement lead to.
Calling(call, at, m, rests, p, more, t) ==
    /\ Ready(call, t, at)
    /\ m = States(function, <<call.root>> \o t) /\ p = States(function, t)
    /\ Flow(Tail(pending), p, {}, more, Env(at, Due, function))
    /\ rests = Onto(Rests[call.root], t) \cup more

LEMMA CallIsNext ==
    ASSUME LabelsInv, NEW at, NEW m, NEW rests, Following(at, m, rests), AtNext("statement"),
           NEW call, call = Head(pending)
    PROVE  \E q, others, u : Calling(call, at, m, rests, q, others, u)
<1>1. pending # <<>> /\ call.op = "statement"
  BY DEF AtNext
<1>2. PICK p, r, more :
          /\ Follows(call, m, p, r, Env(at, Due, function))
          /\ Flow(Tail(pending), p, {}, more, Env(at, Due, function))
          /\ rests = r \cup more
  BY <1>1, HeadFollows
<1>3. PICK t \in Todos : Called(call, m, p, r, t, Env(at, Due, function))
  BY <1>1, <1>2 DEF Follows
<1>4. /\ m = States(function, <<call.root>> \o t) /\ p = States(function, t)
      /\ r = Onto(Rests[call.root], t)
      /\ call.root.kind # "act" => Leaving(call, function, t, at)
  BY <1>3 DEF Called, Env
<1>5. Ready(call, t, at)
  BY <1>1, <1>4 DEF Ready, Following, Open
<1>6. Calling(call, at, m, rests, p, more, t)
  BY <1>2, <1>4, <1>5 DEF Calling
<1>7. \E q, others, u : Calling(call, at, m, rests, q, others, u)
  BY <1>6
<1>8. QED
  BY <1>7

\* A call is not the last of what is pending.
LEMMA NeverLast ==
    ASSUME LabelsInv, AtNext("statement"), NEW items, IsSequence(items)
    PROVE  items \o Tail(pending) # <<>>
<1>1. PICK rest, n : rest = Tail(pending) /\ n = Len(pending)
  OBVIOUS
<1>2. /\ pending \in Seq(Items) /\ pending # <<>> /\ pending[1].op = "statement"
      /\ pending[n].op = "postamble"
  BY <1>1 DEF LabelsInv, Typed, AtNext, Closed
<1>3. n \in Nat /\ n >= 1 /\ rest \in Seq(Items) /\ Len(rest) = n - 1
  BY <1>1, <1>2, TailIs
<1>4. n # 1
  BY <1>2
<1>5. Len(rest) \in Nat /\ Len(rest) # 0
  BY <1>3, <1>4
<1>6. /\ Len(items \o rest) = Len(items) + Len(rest) /\ Len(items) \in Nat
  BY <1>3, JoinIsSequence DEF IsSequence
<1>7. Len(items \o rest) # 0
  BY <1>5, <1>6
<1>8. QED
  BY <1>1, <1>7

\* A statement which has no name.
LEMMA StatementFollows ==
    ASSUME LabelsInv, FlowInv, AtNext("statement"), Unmoved,
           NEW call, call = Head(pending), NEW x, x = call.root,
           StatementOf(x, call), x.kind \notin {"goto", "label"}
    PROVE  FlowInv'
<1>1. PICK at, m, rests : Following(at, m, rests)
  BY DEF FlowInv
<1>2. PICK p, more, t : Calling(call, at, m, rests, p, more, t)
  BY <1>1, CallIsNext
<1>3. PICK due : due = Due
  OBVIOUS
<1>4. Ready(call, t, at)
  BY <1>2 DEF Calling
<1>5. PICK n \in Nat : \E items : PutsDown(x, t, at, due, n, items)
  BY <1>4, StatementPutsDown
<1>6. PICK items : PutsDown(x, t, at, due, n, items)
  BY <1>5
<1>7. PICK wide : /\ Grown(at, wide, n)
                  /\ Flow(items, States(function, <<x>> \o t), States(function, t),
                          Onto(Rests[x], t), Env(wide, due, function))
  BY <1>6 DEF PutsDown
<1>8. /\ pending' = items \o Tail(pending) /\ next_label' = next_label + n
      /\ label_indices' = label_indices /\ labels' = labels /\ named_labels' = named_labels
      /\ program' = program /\ function' = function /\ code' = code
      /\ function_end_label' = function_end_label
  BY <1>6 DEF PutsDown, Writes, Does, Unmoved, named
<1>9. \A of : Wider(Env(at, due, of), Env(wide, due, of))
  BY <1>7, EnvIs DEF Wider, Grown
<1>10. Flow(pending', m, {}, rests, Env(wide, due, function'))
  <2>1. Flow(Tail(pending), States(function, t), {}, more, Env(wide, due, function))
    BY <1>2, <1>3, <1>9, MoreFlows DEF Calling
  <2>2. Flow(items \o Tail(pending), States(function, <<x>> \o t), {},
             Onto(Rests[x], t) \cup more, Env(wide, due, function))
    BY <1>7, <2>1, JoinFlows
  <2>3. m = States(function, <<x>> \o t) /\ rests = Onto(Rests[x], t) \cup more
    BY <1>2 DEF Calling
  <2>4. QED
    BY <1>8, <2>2, <2>3
<1>11. Flow(code', {}, m, {}, Env(wide, due, 0))
  <2>1. Flow(code, {}, m, {}, Env(at, due, 0))
    BY <1>1, <1>3 DEF Following
  <2>2. QED
    BY <1>8, <1>9, <2>1, MoreFlows
<1>12. pending # <<>>
  BY DEF AtNext
<1>13. due = Due'
  <2>1. pending' # <<>>
    BY <1>7, <1>8, NeverLast DEF Flow
  <2>2. QED
    BY <1>3, <1>8, <1>12, <2>1 DEF Due
<1>14. /\ DOMAIN at \subseteq DOMAIN wide /\ \A label \in DOMAIN at : wide[label] = at[label]
       /\ DOMAIN wide \subseteq 1 .. next_label' - 1
       /\ \A name \in Names \ labels' : label_indices'[name] \notin DOMAIN wide
  <2>1. next_label \in Nat /\ next_label >= 1 /\ DOMAIN at \subseteq 1 .. next_label - 1
    BY <1>4, ReadyIs
  <2>2. \A name \in Names : label_indices[name] \in Nat /\ label_indices[name] < next_label
    BY DEF LabelsInv, Typed, NamesPlaced
  <2>3. \A name \in Names \ labels : label_indices[name] \notin DOMAIN at
    BY <1>1 DEF Following
  <2>4. QED
    BY <1>7, <1>8, <2>1, <2>2, <2>3 DEF Grown
<1>15. Open(wide, rests)'
  <2>1. Open(at, rests)
    BY <1>1, <1>12 DEF Following
  <2>2. QED
    BY <1>8, <1>14, <2>1, StaysOpen
<1>16. QED
  BY <1>8, <1>10, <1>11, <1>13, <1>14, <1>15, FollowsOn
\* The names of the function, and the labels which stand for them.
LEMMA NamesAre ==
    ASSUME LabelsInv, NEW at, NEW m, NEW rests, Following(at, m, rests)
    PROVE  /\ labels \subseteq Names /\ named_labels \subseteq Names
           /\ \A n \in Names : label_indices[n] \in Nat /\ label_indices[n] < next_label
           /\ \A n \in named_labels : label_indices[n] # 0
           /\ next_label \in Nat /\ next_label >= 1
           /\ DOMAIN at \subseteq 1 .. next_label - 1 /\ 0 \notin DOMAIN at
           /\ \A n \in Names \ labels : label_indices[n] \notin DOMAIN at
<1>1. /\ labels \subseteq Names /\ named_labels \subseteq Names
      /\ \A n \in Names : label_indices[n] \in Nat /\ label_indices[n] < next_label
      /\ \A n \in named_labels : label_indices[n] # 0
      /\ next_label \in Nat /\ next_label >= 1
  BY DEF LabelsInv, Typed, NamesPlaced
<1>2. /\ DOMAIN at \subseteq 1 .. next_label - 1
      /\ \A n \in Names \ labels : label_indices[n] \notin DOMAIN at
  BY DEF Following
<1>3. 0 \notin 1 .. next_label - 1
  BY <1>1
<1>4. QED
  BY <1>1, <1>2, <1>3

\* A goto goes where its name stands, which is not known yet.
LEMMA GotoFollows ==
    ASSUME LabelsInv, FlowInv, AtNext("statement"), Unmoved,
           NEW call, call = Head(pending), NEW x, x = call.root,
           x.kind = "goto", GenGoto(x)
    PROVE  FlowInv'
<1>1. PICK at, m, rests : Following(at, m, rests)
  BY DEF FlowInv
<1>2. PICK p, more, t : Calling(call, at, m, rests, p, more, t)
  BY <1>1, CallIsNext
<1>3. /\ x \in Statements /\ t \in Todos /\ function \in Nat /\ function # 0
  BY <1>2, ReadyIs DEF Calling
<1>4. PICK name : name = x.name
  OBVIOUS
<1>5. name \in Names
  BY <1>3, <1>4, StatementIs DEF IsStatement
<1>6. PICK items : items = <<[op |-> "goto", event |-> x.event, label |-> LabelIndex(x.name)]>>
  OBVIOUS
<1>7. /\ WritesNamed(name, items)
      /\ named_labels' = named_labels \cup {name} /\ labels' = labels
  BY <1>4, <1>6 DEF GenGoto
<1>8. PICK d \in Nat, l \in Nat :
          /\ l = LabelIndex(name) /\ Does(d, items)
          /\ next_label' = next_label + d /\ l >= 1 /\ l <= next_label + d - 1
          /\ label_indices' \in [Names -> Nat] /\ label_indices'[name] = l
          /\ label_indices[name] # 0 => label_indices[name] = l
          /\ \A other \in Names :
                 other # name => /\ label_indices'[other] = label_indices[other]
                                 /\ label_indices[other] # l
  BY <1>5, <1>7, NameSeen
<1>9. /\ pending' = items \o Tail(pending)
      /\ program' = program /\ function' = function /\ code' = code
      /\ function_end_label' = function_end_label
  BY <1>8 DEF Does, Unmoved
<1>10. pending # <<>> /\ pending' # <<>>
  <2>1. IsSequence(items)
    BY <1>6, ShortSequences
  <2>2. QED
    BY <1>9, <2>1, NeverLast DEF AtNext
<1>11. PICK f, due, now : /\ f = function /\ due = Due' /\ now = Due
  OBVIOUS
<1>12. /\ now = {[of |-> f, name |-> n, label |-> label_indices[n]] : n \in named_labels}
       /\ due = {[of |-> f, name |-> n, label |-> label_indices'[n]] :
                 n \in named_labels \cup {name}}
  BY <1>7, <1>9, <1>10, <1>11 DEF Due
<1>13. /\ \A n \in Names : label_indices[n] # 0 => label_indices'[n] = label_indices[n]
       /\ \A n \in Names \ labels : label_indices'[n] \notin DOMAIN at
  <2>1. next_label \notin 1 .. next_label - 1
    BY <1>1, NamesAre
  <2>2. label_indices[name] = 0 => l = next_label
    BY <1>8 DEF LabelIndex
  <2>3. QED
    BY <1>1, <1>5, <1>8, <2>1, <2>2, NamesAre
<1>14. now \subseteq due /\ [of |-> f, name |-> name, label |-> l] \in due
  <2>1. \A n \in named_labels : label_indices'[n] = label_indices[n]
    BY <1>1, <1>13, NamesAre
  <2>2. now \subseteq due
    BY <1>12, <2>1
  <2>3. QED
    BY <1>8, <1>12, <2>2
<1>15. \A of : Wider(Env(at, now, of), Env(at, due, of))
  BY <1>14, EnvIs DEF Wider
<1>16. Flow(items, States(f, <<x>> \o t), States(f, t), Onto(Rests[x], t), Env(at, due, f))
  <2>1. PICK env : env = Env(at, due, f)
    OBVIOUS
  <2>2. [of |-> f, name |-> x.name, label |-> l] \in env.due
    BY <1>4, <1>14, <2>1, EnvIs
  <2>3. f \in Nat /\ items = <<[op |-> "goto", event |-> x.event, label |-> l]>>
    BY <1>3, <1>4, <1>6, <1>8, <1>11
  <2>4. QED
    BY <1>3, <2>1, <2>2, <2>3, GotoFlows
<1>17. Flow(pending', m, {}, rests, Env(at, due, function'))
  <2>1. Flow(Tail(pending), States(f, t), {}, more, Env(at, due, f))
    BY <1>2, <1>11, <1>15, MoreFlows DEF Calling
  <2>2. Flow(items \o Tail(pending), States(f, <<x>> \o t), {},
             Onto(Rests[x], t) \cup more, Env(at, due, f))
    BY <1>16, <2>1, JoinFlows
  <2>3. m = States(f, <<x>> \o t) /\ rests = Onto(Rests[x], t) \cup more
    BY <1>2, <1>11 DEF Calling
  <2>4. QED
    BY <1>9, <1>11, <2>2, <2>3
<1>18. Flow(code', {}, m, {}, Env(at, due, 0))
  <2>1. Flow(code, {}, m, {}, Env(at, now, 0))
    BY <1>1, <1>11 DEF Following
  <2>2. QED
    BY <1>9, <1>15, <2>1, MoreFlows
<1>19. /\ DOMAIN at \subseteq 1 .. next_label' - 1
       /\ \A n \in Names \ labels' : label_indices'[n] \notin DOMAIN at
  <2>1. 1 .. next_label - 1 \subseteq 1 .. next_label' - 1
    BY <1>1, <1>8, NamesAre
  <2>2. QED
    BY <1>1, <1>7, <1>13, <2>1, NamesAre
<1>20. Open(at, rests)'
  <2>1. Open(at, rests)
    BY <1>1, <1>10 DEF Following
  <2>2. \A n \in labels : label_indices[n] \in DOMAIN at =>
                              label_indices'[n] = label_indices[n]
    BY <1>1, <1>13, NamesAre
  <2>3. QED
    BY <1>7, <1>9, <2>1, <2>2, StaysOpen
<1>21. QED
  BY <1>9, <1>11, <1>17, <1>18, <1>19, <1>20, FollowsOn

\* A label is put where its name stands: what is left to do from it is known.
LEMMA LabelFollowsOn ==
    ASSUME LabelsInv, FlowInv, AtNext("statement"), Unmoved,
           NEW call, call = Head(pending), NEW x, x = call.root,
           x.kind = "label", GenLabel(x, call)
    PROVE  FlowInv'
<1>1. PICK at, m, rests : Following(at, m, rests)
  BY DEF FlowInv
<1>2. PICK p, more, t : Calling(call, at, m, rests, p, more, t)
  BY <1>1, CallIsNext
<1>3. Ready(call, t, at)
  BY <1>2 DEF Calling
<1>4. /\ x \in Statements /\ t \in Todos /\ function \in Nat /\ function # 0
  BY <1>3, ReadyIs
<1>5. PICK name, body : name = x.name /\ body = x.body
  OBVIOUS
<1>6. name \in Names /\ body \in Statements
  BY <1>4, <1>5, StatementIs DEF IsStatement
<1>7. PICK items : items = <<EmitLabel(LabelIndex(x.name)), Within(x.body, call)>>
  OBVIOUS
<1>8. /\ name \notin labels /\ WritesNamed(name, items)
      /\ labels' = labels \cup {name} /\ named_labels' = named_labels
  BY <1>5, <1>7 DEF GenLabel
<1>9. PICK d \in Nat, l \in Nat :
          /\ l = LabelIndex(name) /\ Does(d, items)
          /\ next_label' = next_label + d /\ l >= 1 /\ l <= next_label + d - 1
          /\ label_indices' \in [Names -> Nat] /\ label_indices'[name] = l
          /\ label_indices[name] # 0 => label_indices[name] = l
          /\ \A other \in Names :
                 other # name => /\ label_indices'[other] = label_indices[other]
                                 /\ label_indices[other] # l
  BY <1>6, <1>8, NameSeen
<1>10. /\ pending' = items \o Tail(pending)
       /\ program' = program /\ function' = function /\ code' = code
       /\ function_end_label' = function_end_label
  BY <1>9 DEF Does, Unmoved
<1>11. pending # <<>> /\ pending' # <<>>
  <2>1. IsSequence(items)
    BY <1>7, ShortSequences
  <2>2. QED
    BY <1>10, <2>1, NeverLast DEF AtNext
<1>12. PICK f, due, now : /\ f = function /\ due = Due' /\ now = Due
  OBVIOUS
<1>13. \A n \in Names : label_indices[n] # 0 => label_indices'[n] = label_indices[n]
  BY <1>6, <1>9
<1>14. now \subseteq due
  <2>1. \A n \in named_labels : label_indices'[n] = label_indices[n]
    BY <1>1, <1>13, NamesAre
  <2>2. /\ now = {[of |-> f, name |-> n, label |-> label_indices[n]] : n \in named_labels}
        /\ due = {[of |-> f, name |-> n, label |-> label_indices'[n]] : n \in named_labels}
    BY <1>8, <1>10, <1>11, <1>12 DEF Due
  <2>3. QED
    BY <2>1, <2>2
<1>15. l \notin DOMAIN at
  <2>1. next_label \notin 1 .. next_label - 1
    BY <1>1, NamesAre
  <2>2. l = label_indices[name] \/ l = next_label
    BY <1>9 DEF LabelIndex
  <2>3. QED
    BY <1>1, <1>6, <1>8, <2>1, <2>2, NamesAre
<1>16. PICK here, wide : /\ here = States(f, <<body>> \o t)
                         /\ wide = [k \in DOMAIN at \cup {l} |-> IF k = l THEN here ELSE at[k]]
  OBVIOUS
<1>17. /\ DOMAIN wide = DOMAIN at \cup {l} /\ l \in DOMAIN wide
       /\ wide[l] = States(f, <<x.body>> \o t)
       /\ \A k \in DOMAIN at : wide[k] = at[k]
  BY <1>5, <1>15, <1>16
<1>18. \A of : Wider(Env(at, now, of), Env(wide, due, of))
  BY <1>14, <1>17, EnvIs DEF Wider
<1>19. Flow(items, States(f, <<x>> \o t), States(f, t), Onto(Rests[body], t), Env(wide, due, f))
  <2>1. PICK env : env = Env(wide, due, f)
    OBVIOUS
  <2>2. env.of = f /\ env.at = wide
    BY <2>1, EnvIs
  <2>3. Leaving(call, f, t, env.at)
    <3>1. Leaving(call, f, t, at)
      BY <1>3, <1>12 DEF Ready
    <3>2. QED
      BY <1>17, <2>2, <3>1 DEF Leaving
  <2>4. items[1] = EmitLabel(l) /\ items[2] = Call(x.body, call.leaves, call.again)
    BY <1>5, <1>7, <1>9 DEF Within
  <2>5. IsSequence(items) /\ Len(items) = 2
    BY <1>7, ShortSequences
  <2>6. l \in DOMAIN env.at /\ env.at[l] = States(f, <<x.body>> \o t)
    BY <1>17, <2>2
  <2>7. f \in Nat /\ f # 0
    BY <1>4, <1>12
  <2>8. Flow(items, States(f, <<x>> \o t), States(f, t), Onto(Rests[x.body], t), env)
    BY <1>4, <2>2, <2>3, <2>4, <2>5, <2>6, <2>7, LabelStatementFlows
  <2>9. QED
    BY <1>5, <2>1, <2>8
<1>20. PICK fewer : fewer = Onto(Rests[body], t) \cup more
  OBVIOUS
<1>21. PICK mine : mine = [name |-> name, todo |-> <<body>> \o t]
  OBVIOUS
<1>22. rests = fewer \cup {mine}
  <2>1. rests = Onto(Rests[x], t) \cup more
    BY <1>2 DEF Calling
  <2>2. Rests[x] = {[name |-> name, todo |-> <<body>>]} \cup Rests[body]
    BY <1>4, <1>5, RestsAre DEF RestsIn
  <2>3. Onto(Rests[x], t) =
            Onto({[name |-> name, todo |-> <<body>>]}, t) \cup Onto(Rests[body], t)
    BY <2>2, OntoIs
  <2>4. Onto({[name |-> name, todo |-> <<body>>]}, t) = {mine}
    <3>1. PICK one : one = [name |-> name, todo |-> <<body>>]
      OBVIOUS
    <3>2. one.name = name /\ one.todo = <<body>>
      BY <3>1
    <3>3. Onto({one}, t) = {[name |-> one.name, todo |-> one.todo \o t]}
      BY DEF Onto
    <3>4. QED
      BY <1>21, <3>1, <3>2, <3>3
  <2>5. QED
    BY <1>20, <2>1, <2>3, <2>4
<1>23. Flow(pending', m, {}, fewer, Env(wide, due, function'))
  <2>1. Flow(Tail(pending), States(f, t), {}, more, Env(wide, due, f))
    BY <1>2, <1>12, <1>18, MoreFlows DEF Calling
  <2>2. Flow(items \o Tail(pending), States(f, <<x>> \o t), {},
             Onto(Rests[body], t) \cup more, Env(wide, due, f))
    BY <1>19, <2>1, JoinFlows
  <2>3. m = States(f, <<x>> \o t)
    BY <1>2, <1>12 DEF Calling
  <2>4. QED
    BY <1>10, <1>12, <1>20, <2>2, <2>3
<1>24. Flow(code', {}, m, {}, Env(wide, due, 0))
  <2>1. Flow(code, {}, m, {}, Env(at, now, 0))
    BY <1>1, <1>12 DEF Following
  <2>2. QED
    BY <1>10, <1>18, <2>1, MoreFlows
<1>25. /\ DOMAIN wide \subseteq 1 .. next_label' - 1
       /\ \A n \in Names \ labels' : label_indices'[n] \notin DOMAIN wide
  <2>1. 1 .. next_label - 1 \subseteq 1 .. next_label' - 1
    BY <1>1, <1>9, NamesAre
  <2>2. l \in 1 .. next_label' - 1
    BY <1>1, <1>9, NamesAre
  <2>3. \A n \in Names \ labels' :
            label_indices'[n] = label_indices[n] /\ label_indices[n] # l
    BY <1>8, <1>9
  <2>4. QED
    BY <1>1, <1>8, <1>17, <2>1, <2>2, <2>3, NamesAre
<1>26. Open(wide, fewer)'
  <2>1. Open(at, rests)
    BY <1>1, <1>11 DEF Following
  <2>2. \A n \in labels : label_indices[n] \in DOMAIN at =>
                              label_indices'[n] = label_indices[n]
    BY <1>1, <1>13, NamesAre
  <2>3. mine.name = name /\ mine.todo = <<body>> \o t
    BY <1>21
  <2>4. Reached(mine, wide)'
    BY <1>8, <1>9, <1>10, <1>12, <1>16, <1>17, <2>3 DEF Reached
  <2>5. \A rest \in rests \ fewer : Reached(rest, wide)'
    <3>1. \A rest \in rests \ fewer : rest = mine
      BY <1>22
    <3>2. QED
      BY <2>4, <3>1
  <2>6. \A n \in labels' \ labels : \E rest \in Rests[program[function]] : rest.name = n
    <3>1. mine \in Rests[program[function]]
      BY <1>22, <2>1 DEF Open
    <3>2. \A n \in labels' \ labels : n = name
      BY <1>8
    <3>3. QED
      BY <2>3, <3>1, <3>2
  <2>7. fewer \subseteq rests /\ labels \subseteq labels'
    BY <1>8, <1>22
  <2>8. DOMAIN at \subseteq DOMAIN wide /\ \A k \in DOMAIN at : wide[k] = at[k]
    BY <1>17
  <2>9. QED
    BY <1>10, <2>1, <2>2, <2>5, <2>6, <2>7, <2>8, StaysOpen
<1>27. QED
  BY <1>10, <1>12, <1>23, <1>24, <1>25, <1>26, FollowsOn

\* An item which is no call is the same whatever function calls belong to.
LEMMA AloneFollows ==
    ASSUME NEW item, item.op # "statement", NEW b, NEW e, NEW r, NEW at, NEW due,
           NEW f, NEW g, Follows(item, b, e, r, Env(at, due, f))
    PROVE  Follows(item, b, e, r, Env(at, due, g))
<1>1. PICK one, two : one = Env(at, due, f) /\ two = Env(at, due, g)
  OBVIOUS
<1>2. one.at = two.at /\ one.due = two.due /\ one.bodies = two.bodies
  BY <1>1, EnvIs
<1>3. Follows(item, b, e, r, one)
  BY <1>1
<1>4. ASSUME NEW h, NEW t, Asked(item, b, e, h, t, one) PROVE Asked(item, b, e, h, t, two)
  BY <1>2, <1>4 DEF Asked
<1>5. Follows(item, b, e, r, two)
  BY <1>2, <1>3, <1>4 DEF Follows
<1>6. QED
  BY <1>1, <1>5

\* An instruction behind what was written.
LEMMA WrittenFlows ==
    ASSUME LabelsInv, NEW item, item \in Items, NEW b, NEW e, NEW env, Steady(b), Steady(e),
           Flow(code, {}, b, {}, env), Follows(item, b, e, {}, env)
    PROVE  Flow(Append(code, item), {}, e, {}, env)
<1>1. Flow(<<item>>, b, e, {}, env)
  BY OneFlows
<1>2. Flow(code \o <<item>>, {}, e, {} \cup {}, env)
  BY <1>1, JoinFlows
<1>3. Append(code, item) = code \o <<item>>
  BY DEF LabelsInv, Typed
<1>4. {} \cup {} = {}
  OBVIOUS
<1>5. QED
  BY <1>2, <1>3, <1>4

\* The next item is written, or put back, and the rest of the function is as it was.
LEMMA GoesOnFollows ==
    ASSUME LabelsInv, NEW at, NEW m, NEW rests, Following(at, m, rests), pending # <<>>,
           Head(pending).op \notin {"statement", "postamble"}, GoesOn,
           UNCHANGED <<function_end_label, named>>,
           NEW p, Flow(Tail(pending), p, {}, rests, Env(at, Due, function)),
           Flow(code', {}, p, {}, Env(at, Due, 0))
    PROVE  FlowInv'
<1>1. /\ pending' = Tail(pending) /\ program' = program /\ function' = function
      /\ next_label' = next_label /\ function_end_label' = function_end_label
      /\ label_indices' = label_indices /\ labels' = labels /\ named_labels' = named_labels
  BY DEF GoesOn, named
<1>2. pending' # <<>>
  BY <1>1, NextIs
<1>3. PICK due : due = Due
  OBVIOUS
<1>4. due = Due'
  BY <1>1, <1>2, <1>3 DEF Due
<1>5. Open(at, rests)'
  BY <1>1 DEF Following, Open, Reached
<1>6. /\ DOMAIN at \subseteq 1 .. next_label' - 1
      /\ \A name \in Names \ labels' : label_indices'[name] \notin DOMAIN at
  BY <1>1 DEF Following
<1>7. /\ Flow(code', {}, p, {}, Env(at, due, 0))
      /\ Flow(pending', p, {}, rests, Env(at, due, function'))
  BY <1>1, <1>3
<1>8. QED
  BY <1>1, <1>4, <1>5, <1>6, <1>7, FollowsOn

LEMMA EmitFollows ==
    ASSUME LabelsInv, FlowInv, Emit
    PROVE  FlowInv'
<1>1. PICK at, m, rests : Following(at, m, rests)
  BY DEF FlowInv
<1>2. PICK item : item = Head(pending)
  OBVIOUS
<1>3. /\ pending # <<>> /\ item.op \in Instructions /\ code' = Append(code, item)
      /\ GoesOn /\ UNCHANGED <<function_end_label, named>>
  BY <1>2 DEF Emit, AtNext
<1>4. item.op \notin {"statement", "postamble"}
  BY <1>3 DEF Instructions
<1>5. PICK p, r, more : /\ Steady(m) /\ Steady(p)
                        /\ Follows(item, m, p, r, Env(at, Due, function))
                        /\ Flow(Tail(pending), p, {}, more, Env(at, Due, function))
                        /\ rests = r \cup more
  BY <1>1, <1>2, <1>3, HeadFollows
<1>6. r = {} /\ rests = more
  BY <1>4, <1>5 DEF Follows
<1>7. Follows(item, m, p, {}, Env(at, Due, 0))
  BY <1>4, <1>5, <1>6, AloneFollows
<1>8. item \in Items
  BY <1>2, <1>3, TailIs DEF LabelsInv, Typed
<1>9. Flow(code', {}, p, {}, Env(at, Due, 0))
  <2>1. Flow(code, {}, m, {}, Env(at, Due, 0))
    BY <1>1 DEF Following
  <2>2. QED
    BY <1>3, <1>5, <1>7, <1>8, <2>1, WrittenFlows
<1>10. QED
  BY <1>1, <1>2, <1>3, <1>4, <1>5, <1>6, <1>9, GoesOnFollows

LEMMA PutBackFollows ==
    ASSUME LabelsInv, FlowInv, PutBreak \/ PutContinue
    PROVE  FlowInv'
<1>1. PICK at, m, rests : Following(at, m, rests)
  BY DEF FlowInv
<1>2. PICK item : item = Head(pending)
  OBVIOUS
<1>3. /\ pending # <<>> /\ item.op \in Sets /\ code' = code
      /\ GoesOn /\ UNCHANGED <<function_end_label, named>>
  BY <1>2 DEF PutBreak, PutContinue, AtNext, Sets
<1>4. item.op \notin {"statement", "postamble"}
  BY <1>3 DEF Sets
<1>5. PICK p, r, more : /\ Follows(item, m, p, r, Env(at, Due, function))
                        /\ Flow(Tail(pending), p, {}, more, Env(at, Due, function))
                        /\ rests = r \cup more
  BY <1>1, <1>2, <1>3, HeadFollows
<1>6. r = {} /\ rests = more /\ m = p
  BY <1>3, <1>4, <1>5 DEF Follows
<1>7. Flow(code', {}, p, {}, Env(at, Due, 0))
  BY <1>1, <1>3, <1>6 DEF Following
<1>8. QED
  BY <1>1, <1>2, <1>3, <1>4, <1>5, <1>6, <1>7, GoesOnFollows

-----------------------------------------------------------------------------
(***************************************************************************)
(* The beginning and the end of a function.                                *)
(***************************************************************************)
LEMMA SameItems ==
    ASSUME NEW S, NEW s \in Seq(S), NEW t \in Seq(S), Len(s) = Len(t),
           \A k \in 1 .. Len(s) : t[k] = s[k]
    PROVE  t = s
OBVIOUS

LEMMA FourItems ==
    ASSUME NEW a, NEW b, NEW c, NEW d
    PROVE  <<a, b>> \o <<c, d>> = <<a, b, c, d>>
<1>1. PICK S, u, v, w : S = {a, b, c, d} /\ u = <<a, b>> /\ v = <<c, d>> /\ w = <<a, b, c, d>>
  OBVIOUS
<1>2. /\ u \in Seq(S) /\ Len(u) = 2 /\ u[1] = a /\ u[2] = b
      /\ v \in Seq(S) /\ Len(v) = 2 /\ v[1] = c /\ v[2] = d
  BY <1>1
<1>3. w \in Seq(S) /\ Len(w) = 4 /\ w[1] = a /\ w[2] = b /\ w[3] = c /\ w[4] = d
  BY <1>1
<1>4. PICK s : s = u \o v
  OBVIOUS
<1>5. /\ s \in Seq(S) /\ Len(s) = Len(u) + Len(v)
      /\ \A k \in 1 .. Len(u) : s[k] = u[k]
      /\ \A k \in Len(u) + 1 .. Len(u) + Len(v) : s[k] = v[k - Len(u)]
  BY <1>2, <1>4, ConcatOf
<1>6. /\ Len(s) = 4 /\ \A k \in 1 .. 2 : s[k] = u[k]
      /\ \A k \in 3 .. 4 : s[k] = v[k - 2]
  BY <1>2, <1>5
<1>7. s[1] = a /\ s[2] = b /\ s[3] = c /\ s[4] = d
  <2>1. s[1] = u[1] /\ s[2] = u[2] /\ s[3] = v[3 - 2] /\ s[4] = v[4 - 2]
    BY <1>6
  <2>2. 3 - 2 = 1 /\ 4 - 2 = 2
    OBVIOUS
  <2>3. QED
    BY <1>2, <2>1, <2>2
<1>8. \A k \in 1 .. 4 : k = 1 \/ k = 2 \/ k = 3 \/ k = 4
  OBVIOUS
<1>9. Len(w) = Len(s) /\ \A k \in 1 .. Len(w) : s[k] = w[k]
  BY <1>3, <1>6, <1>7, <1>8
<1>10. s = w
  BY <1>3, <1>5, <1>9, SameItems
<1>11. QED
  BY <1>1, <1>4, <1>10

\* The text of a function goes from nowhere to nowhere.
LEMMA FunctionFlows ==
    ASSUME NEW f \in Nat, f # 0, NEW env, env.of = f, f \in DOMAIN env.bodies,
           NEW body \in Statements, env.bodies[f] = body,
           NEW l \in DOMAIN env.at, env.at[l] = States(f, <<>>)
    PROVE  Flow(<<EmitFunctionPreamble(f), Call(body, 0, 0), EmitLabel(l),
                  EmitFunctionPostamble>>, {}, {}, Rests[body], env)
<1>1. PICK b, e, pre, call, lab, post :
          /\ b = States(f, <<body>>) /\ e = States(f, <<>>)
          /\ pre = EmitFunctionPreamble(f) /\ call = Call(body, 0, 0)
          /\ lab = EmitLabel(l) /\ post = EmitFunctionPostamble
  OBVIOUS
<1>2. Steady({}) /\ Steady(b) /\ Steady(e)
  BY <1>1, StatesAreSteady
<1>3. pre.op = "preamble" /\ pre.function = f /\ post.op = "postamble"
  BY <1>1, ItemOps
<1>4. Follows(pre, {}, b, {}, env)
  BY <1>1, <1>3 DEF Follows, Questions, Sets
<1>5. Follows(call, b, e, Rests[body], env)
  <2>1. call.op = "statement" /\ call.root = body /\ call.leaves = 0 /\ call.again = 0
    BY <1>1 DEF Call
  <2>2. <<>> \in Todos /\ <<body>> \in Todos /\ <<body>> \o <<>> = <<body>>
    BY PortionIs, TodosAre
  <2>3. Rests[body] = Onto(Rests[body], <<>>)
    BY RestsAre, OntoIs
  <2>4. Called(call, b, e, Rests[body], <<>>, env)
    BY <1>1, <2>1, <2>2, <2>3 DEF Called, Leaving
  <2>5. QED
    BY <2>1, <2>2, <2>4, CallFollows
<1>6. Follows(lab, e, e, {}, env)
  BY <1>1, LabelFollows
<1>7. Follows(post, e, {}, {}, env)
  BY <1>1, <1>3 DEF Follows, Questions, Sets
<1>8. /\ Flow(<<pre>>, {}, b, {}, env) /\ Flow(<<call>>, b, e, Rests[body], env)
      /\ Flow(<<lab>>, e, e, {}, env) /\ Flow(<<post>>, e, {}, {}, env)
  BY <1>2, <1>4, <1>5, <1>6, <1>7, OneFlows
<1>9. Flow(<<pre>> \o <<call>>, {}, e, {} \cup Rests[body], env)
  BY <1>8, JoinFlows
<1>10. Flow(<<lab>> \o <<post>>, e, {}, {} \cup {}, env)
  BY <1>8, JoinFlows
<1>11. Flow((<<pre>> \o <<call>>) \o (<<lab>> \o <<post>>), {}, {},
            ({} \cup Rests[body]) \cup ({} \cup {}), env)
  BY <1>9, <1>10, JoinFlows
<1>12. (<<pre>> \o <<call>>) \o (<<lab>> \o <<post>>) = <<pre, call, lab, post>>
  <2>1. <<pre>> \o <<call>> = <<pre, call>> /\ <<lab>> \o <<post>> = <<lab, post>>
    BY TwoItems
  <2>2. <<pre, call>> \o <<lab, post>> = <<pre, call, lab, post>>
    BY FourItems
  <2>3. QED
    BY <2>1, <2>2
<1>13. ({} \cup Rests[body]) \cup ({} \cup {}) = Rests[body]
  OBVIOUS
<1>14. QED
  BY <1>1, <1>11, <1>12, <1>13

LEMMA BeginFollows ==
    ASSUME LabelsInv, FlowInv, BeginFunction
    PROVE  FlowInv'
<1>1. PICK at, m, rests : Following(at, m, rests)
  BY DEF FlowInv
<1>2. /\ pending = <<>> /\ program \in Seq(Statements) /\ function \in Nat
      /\ function < Len(program)
  BY DEF BeginFunction, LabelsInv, Typed
<1>3. PICK f, l, body : f = function + 1 /\ l = next_label /\ body = program[f]
  OBVIOUS
<1>4. /\ function' = f /\ function_end_label' = l /\ next_label' = l + 1
      /\ label_indices' = [name \in Names |-> 0] /\ labels' = {} /\ named_labels' = {}
      /\ pending' = <<EmitFunctionPreamble(f), Call(body, 0, 0), EmitLabel(l),
                      EmitFunctionPostamble>>
      /\ program' = program /\ code' = code
  BY <1>3 DEF BeginFunction
<1>5. f \in Nat /\ f # 0 /\ f \in DOMAIN program /\ body \in Statements
  BY <1>2, <1>3
<1>6. /\ l \in Nat /\ l >= 1 /\ l \notin DOMAIN at /\ DOMAIN at \subseteq 1 .. l - 1
      /\ 0 \notin DOMAIN at
  BY <1>1, <1>3, NamesAre
<1>7. m = {}
  <2>1. Flow(<<>>, m, {}, rests, Env(at, Due, function))
    BY <1>1, <1>2 DEF Following
  <2>2. QED
    BY <2>1, NoneFlows
<1>8. PICK here, wide : /\ here = States(f, <<>>)
                        /\ wide = [k \in DOMAIN at \cup {l} |-> IF k = l THEN here ELSE at[k]]
  OBVIOUS
<1>9. /\ DOMAIN wide = DOMAIN at \cup {l} /\ l \in DOMAIN wide
      /\ wide[l] = States(f, <<>>)
      /\ \A k \in DOMAIN at : wide[k] = at[k]
  BY <1>6, <1>8
<1>10. PICK due, now : due = Due' /\ now = Due
  OBVIOUS
<1>11. due = {} /\ now = {}
  BY <1>2, <1>4, <1>10 DEF Due
<1>12. Wider(Env(at, now, 0), Env(wide, due, 0))
  BY <1>9, <1>11, EnvIs DEF Wider
<1>13. Flow(code', {}, {}, {}, Env(wide, due, 0))
  <2>1. Flow(code, {}, m, {}, Env(at, now, 0))
    BY <1>1, <1>10 DEF Following
  <2>2. QED
    BY <1>4, <1>7, <1>12, <2>1, MoreFlows
<1>14. Flow(pending', {}, {}, Rests[body], Env(wide, due, function'))
  <2>1. PICK env : env = Env(wide, due, f)
    OBVIOUS
  <2>2. env.of = f /\ env.at = wide /\ env.bodies = program
    BY <2>1, EnvIs
  <2>3. Flow(<<EmitFunctionPreamble(f), Call(body, 0, 0), EmitLabel(l),
               EmitFunctionPostamble>>, {}, {}, Rests[body], env)
    BY <1>3, <1>5, <1>9, <2>2, FunctionFlows
  <2>4. QED
    BY <1>4, <2>1, <2>3
<1>15. Open(wide, Rests[body])'
  BY <1>3, <1>4, <1>5, <1>9 DEF Open
<1>16. /\ DOMAIN wide \subseteq 1 .. next_label' - 1
       /\ \A name \in Names \ labels' : label_indices'[name] \notin DOMAIN wide
  <2>1. l \in 1 .. next_label' - 1 /\ 1 .. l - 1 \subseteq 1 .. next_label' - 1
    BY <1>4, <1>6
  <2>2. 0 \notin DOMAIN wide
    BY <1>6, <1>9
  <2>3. QED
    BY <1>4, <1>6, <1>9, <2>1, <2>2
<1>17. QED
  BY <1>4, <1>10, <1>13, <1>14, <1>15, <1>16, FollowsOn

\* Every goto which was due goes to a label the function has.
Answered(env, more) ==
    /\ more.at = env.at /\ more.of = env.of /\ more.bodies = env.bodies
    /\ \A x \in env.due :
           LET chosen == CHOOSE rest \in FromLabel(env.bodies[x.of], x.name) : TRUE
           IN  /\ chosen \in Todos
               /\ x.label \in DOMAIN env.at
               /\ env.at[x.label] = States(x.of, chosen)

LEMMA FollowsAnswered ==
    ASSUME NEW item, NEW b, NEW e, NEW r, NEW env, NEW more,
           Follows(item, b, e, r, env), Answered(env, more)
    PROVE  Follows(item, b, e, r, more)
<1>1. ASSUME NEW t, Called(item, b, e, r, t, env) PROVE Called(item, b, e, r, t, more)
  BY <1>1 DEF Called, Leaving, Answered
<1>2. ASSUME NEW f, NEW t, Asked(item, b, e, f, t, env) PROVE Asked(item, b, e, f, t, more)
  <2>1. ASSUME item.op = "goto", Head(t).kind = "goto",
               [of |-> f, name |-> Head(t).name, label |-> item.label] \in env.due
        PROVE  /\ AfterEvent(env.bodies[f], t, 0) \in Todos
               /\ item.label \in DOMAIN env.at
               /\ env.at[item.label] = States(f, AfterEvent(env.bodies[f], t, 0))
    <3>1. PICK x \in env.due : x = [of |-> f, name |-> Head(t).name, label |-> item.label]
      BY <2>1
    <3>2. x.of = f /\ x.name = Head(t).name /\ x.label = item.label
      BY <3>1
    <3>3. PICK chosen : chosen = CHOOSE rest \in FromLabel(env.bodies[f], Head(t).name) : TRUE
      OBVIOUS
    <3>4. /\ chosen \in Todos /\ item.label \in DOMAIN env.at
          /\ env.at[item.label] = States(f, chosen)
      BY <3>1, <3>2, <3>3 DEF Answered
    <3>5. AfterEvent(env.bodies[f], t, 0) = chosen
      BY <2>1, <3>3 DEF AfterEvent
    <3>6. QED
      BY <3>4, <3>5
  <2>2. QED
    BY <1>2, <2>1 DEF Asked, Answered
<1>3. QED
  BY <1>1, <1>2 DEF Follows, Answered

LEMMA AnsweredFlows ==
    ASSUME NEW items, NEW b, NEW e, NEW rests, NEW env, NEW more,
           Flow(items, b, e, rests, env), Answered(env, more)
    PROVE  Flow(items, b, e, rests, more)
<1>1. PICK w, r : /\ Path(items, w, r, env) /\ w[1] = b /\ w[Len(items) + 1] = e
                  /\ rests = UNION {r[k] : k \in 1 .. Len(items)}
  BY DEF Flow
<1>2. Path(items, w, r, more)
  BY <1>1, FollowsAnswered DEF Path
<1>3. QED
  BY <1>1, <1>2 DEF Flow

\* The names of a function are all there when it ends: its gotos go where they say.
LEMMA EndFollows ==
    ASSUME LabelsInv, FlowInv, EndFunction
    PROVE  FlowInv'
<1>1. PICK at, m, rests : Following(at, m, rests)
  BY DEF FlowInv
<1>2. PICK item, env, of : item = Head(pending) /\ env = Env(at, Due, function) /\ of = function
  OBVIOUS
<1>3. /\ pending # <<>> /\ item.op = "postamble" /\ named_labels \subseteq labels
      /\ code' = Append(code, item) /\ pending' = Tail(pending)
      /\ program' = program /\ next_label' = next_label
      /\ label_indices' = label_indices /\ labels' = labels
  BY <1>2 DEF EndFunction, AtNext, GoesOn, named
<1>4. pending' = <<>>
  <2>1. pending \in Seq(Items)
    BY DEF LabelsInv, Typed
  <2>2. /\ Len(pending) \in Nat /\ Len(pending) >= 1 /\ Head(pending) = pending[1]
        /\ Tail(pending) \in Seq(Items) /\ Len(Tail(pending)) = Len(pending) - 1
    BY <1>3, <2>1, TailIs
  <2>3. \A k \in 1 .. Len(pending) - 1 : pending[k].op # "postamble"
    BY <1>3 DEF LabelsInv, Closed
  <2>4. Len(pending) = 1
    BY <1>2, <1>3, <2>2, <2>3
  <2>5. Len(Tail(pending)) = 0
    BY <2>2, <2>4
  <2>6. QED
    BY <1>3, <2>2, <2>5
<1>5. PICK p, r, more : /\ Steady(m) /\ Steady(p) /\ Follows(item, m, p, r, env)
                        /\ Flow(Tail(pending), p, {}, more, env)
                        /\ rests = r \cup more
  BY <1>1, <1>2, <1>3, HeadFollows
<1>6. p = {} /\ more = {} /\ r = {} /\ rests = {}
  <2>1. p = {} /\ more = {}
    <3>1. PICK nowhere : nowhere = {}
      OBVIOUS
    <3>2. Flow(<<>>, p, nowhere, more, env)
      BY <1>3, <1>4, <1>5, <3>1
    <3>3. p = nowhere /\ more = {}
      BY <3>2, NoneFlows
    <3>4. QED
      BY <3>1, <3>3
  <2>2. r = {}
    BY <1>3, <1>5 DEF Follows
  <2>3. QED
    BY <1>5, <2>1, <2>2
<1>7. Follows(item, m, {}, {}, Env(at, Due, 0))
  BY <1>2, <1>3, <1>5, <1>6, AloneFollows
<1>8. item \in Items
  BY <1>2, <1>3, TailIs DEF LabelsInv, Typed
<1>9. Flow(code', {}, {}, {}, Env(at, Due, 0))
  <2>1. Flow(code, {}, m, {}, Env(at, Due, 0))
    BY <1>1 DEF Following
  <2>2. Steady({})
    BY StatesAreSteady
  <2>3. QED
    BY <1>3, <1>5, <1>7, <1>8, <2>1, <2>2, WrittenFlows
<1>10. Answered(Env(at, Due, 0), Env(at, {}, 0))
  <2>1. ASSUME NEW x \in Due,
               NEW chosen, chosen = CHOOSE rest \in FromLabel(program[x.of], x.name) : TRUE
        PROVE  /\ chosen \in Todos /\ x.label \in DOMAIN at
               /\ at[x.label] = States(x.of, chosen)
    <3>1. PICK n \in named_labels : x = [of |-> of, name |-> n, label |-> label_indices[n]]
      BY <1>2, <1>3, <2>1 DEF Due
    <3>2. x.of = of /\ x.name = n /\ x.label = label_indices[n] /\ n \in labels
      BY <1>3, <3>1
    <3>3. Open(at, rests)
      BY <1>1, <1>3 DEF Following
    <3>4. \E rest \in Rests[program[of]] : rest.name = n
      BY <1>2, <3>2, <3>3 DEF Open
    <3>5. chosen \in FromLabel(program[of], n)
      <4>1. FromLabel(program[of], n) # {}
        BY <3>4 DEF FromLabel
      <4>2. QED
        BY <2>1, <3>2, <4>1
    <3>6. PICK rest \in Rests[program[of]] : rest.name = n /\ rest.todo = chosen
      BY <3>5 DEF FromLabel
    <3>7. Reached(rest, at)
      BY <1>2, <1>6, <3>3 DEF Open
    <3>8. x.label \in DOMAIN at /\ at[x.label] = States(x.of, chosen)
      BY <1>2, <3>2, <3>6, <3>7 DEF Reached
    <3>9. chosen \in Todos
      <4>1. program[of] \in Statements
        BY <1>2, <3>3 DEF LabelsInv, Typed, Open
      <4>2. QED
        BY <3>6, <4>1, RestsAre, EndIs
    <3>10. QED
      BY <3>8, <3>9
  <2>2. PICK one, two : one = Env(at, Due, 0) /\ two = Env(at, {}, 0)
    OBVIOUS
  <2>3. /\ one.at = at /\ one.due = Due /\ one.of = 0 /\ one.bodies = program
        /\ two.at = at /\ two.of = 0 /\ two.bodies = program
    BY <2>2, EnvIs
  <2>4. Answered(one, two)
    BY <2>1, <2>3 DEF Answered
  <2>5. QED
    BY <2>2, <2>4
<1>11. Flow(code', {}, {}, {}, Env(at, {}, 0))
  BY <1>9, <1>10, AnsweredFlows
<1>12. Flow(pending', {}, {}, {}, Env(at, {}, function'))
  <2>1. Steady({})
    BY StatesAreSteady
  <2>2. QED
    BY <1>4, <2>1, NothingFlows
<1>13. /\ DOMAIN at \subseteq 1 .. next_label' - 1
       /\ \A name \in Names \ labels' : label_indices'[name] \notin DOMAIN at
  BY <1>1, <1>3 DEF Following
<1>14. {} = Due'
  BY <1>4 DEF Due
<1>15. PICK due, nowhere : due = {} /\ nowhere = {}
  OBVIOUS
<1>16. /\ Flow(code', {}, nowhere, {}, Env(at, due, 0))
       /\ Flow(pending', nowhere, {}, nowhere, Env(at, due, function'))
       /\ due = Due'
  BY <1>11, <1>12, <1>14, <1>15
<1>17. QED
  BY <1>3, <1>4, <1>13, <1>16, FollowsOn

LEMMA InitFollows ==
    ASSUME GenInit
    PROVE  FlowInv
<1>1. /\ code = <<>> /\ pending = <<>> /\ next_label = 1
      /\ label_indices = [name \in Names |-> 0]
  BY DEF GenInit
<1>2. PICK at, no : at = [k \in {} |-> 0] /\ no = {}
  OBVIOUS
<1>3. DOMAIN at = {}
  BY <1>2
<1>4. \A env : Flow(<<>>, no, no, no, env)
  BY <1>2, NothingFlows, StatesAreSteady
<1>5. Following(at, no, no)
  BY <1>1, <1>2, <1>3, <1>4 DEF Following
<1>6. QED
  BY <1>5 DEF FlowInv

LEMMA FlowStays ==
    LabelsInv /\ FlowInv /\ [GenNext]_generator => FlowInv'
<1>1. SUFFICES ASSUME LabelsInv, FlowInv, [GenNext]_generator
               PROVE  FlowInv'
  OBVIOUS
<1>2. CASE GenStatement
  <2>1. PICK call, x : call = Head(pending) /\ x = call.root
    OBVIOUS
  <2>2. AtNext("statement") /\ Unmoved /\ StatementOf(x, call)
    BY <1>2, <2>1 DEF GenStatement, Unmoved
  <2>3. CASE x.kind = "goto"
    <3>1. GenGoto(x)
      BY <2>2, <2>3 DEF StatementOf
    <3>2. QED
      BY <1>1, <2>1, <2>2, <2>3, <3>1, GotoFollows
  <2>4. CASE x.kind = "label"
    <3>1. GenLabel(x, call)
      BY <2>2, <2>4 DEF StatementOf
    <3>2. QED
      BY <1>1, <2>1, <2>2, <2>4, <3>1, LabelFollowsOn
  <2>5. CASE x.kind \notin {"goto", "label"}
    BY <1>1, <2>1, <2>2, <2>5, StatementFollows
  <2>6. QED
    BY <2>3, <2>4, <2>5
<1>3. CASE Emit
  BY <1>1, <1>3, EmitFollows
<1>4. CASE PutBreak \/ PutContinue
  BY <1>1, <1>4, PutBackFollows
<1>5. CASE BeginFunction
  BY <1>1, <1>5, BeginFollows
<1>6. CASE EndFunction
  BY <1>1, <1>6, EndFollows
<1>7. CASE UNCHANGED generator
  <2>1. UNCHANGED <<program, function, code, pending, next_label, function_end_label,
                    label_indices, labels, named_labels>>
    BY <1>7 DEF generator, named
  <2>2. PICK at, m, rests : Following(at, m, rests)
    BY <1>1 DEF FlowInv
  <2>3. PICK due : due = Due
    OBVIOUS
  <2>4. due = Due'
    BY <2>1, <2>3 DEF Due
  <2>5. pending' # <<>> => Open(at, rests)'
    BY <2>1, <2>2 DEF Following, Open, Reached
  <2>6. /\ DOMAIN at \subseteq 1 .. next_label' - 1
        /\ \A name \in Names \ labels' : label_indices'[name] \notin DOMAIN at
        /\ Flow(code', {}, m, {}, Env(at, due, 0))
        /\ Flow(pending', m, {}, rests, Env(at, due, function'))
        /\ program' = program
    BY <2>1, <2>2, <2>3 DEF Following
  <2>7. QED
    BY <2>4, <2>5, <2>6, FollowsOn
<1>8. QED
  BY <1>1, <1>2, <1>3, <1>4, <1>5, <1>6, <1>7 DEF GenNext

-----------------------------------------------------------------------------
(***************************************************************************)
(* While the code runs: the machine is where the path through the code     *)
(* says it may be.                                                         *)
(***************************************************************************)
\* What there is left to do stays a sequence of the portions there are, ...
LEMMA UnfoldedIs ==
    ASSUME NEW s \in Todos, ~Settled(s)
    PROVE  Unfolded(s) \in Todos
<1>1. PICK x, t : x = Head(s) /\ t = Tail(s)
  OBVIOUS
<1>2. s # <<>> /\ x \in Portions /\ t \in Todos
  BY <1>1, TodosAre DEF Settled
<1>3. /\ x.kind \notin AsksFirst
      /\ ~(x.kind = "again" /\ x.loop.kind = "do")
  BY <1>1, <1>2 DEF Settled, AsksFirst
<1>4. \A r \in Todos : \A y \in Portions : <<y>> \o r \in Todos
  BY FrontIs
<1>5. t # <<>> => Head(t) \in Portions /\ Tail(t) \in Todos
  BY <1>2, TodosAre
<1>6. CASE x \in Statements
  <2>1. IsStatement(x, Statements) /\ x.kind \in StatementKinds
    BY <1>6, StatementIs, PortionIs
  <2>2. CASE x.kind = "empty"
    BY Zenon, <1>1, <1>2, <2>2 DEF Unfolded
  <2>3. CASE x.kind = "seq"
    <3>1. x.left \in Portions /\ x.right \in Portions
      BY <2>1, <2>3, PortionIs DEF IsStatement
    <3>2. Unfolded(s) = <<x.left, x.right>> \o t
      BY <1>1, <2>3 DEF Unfolded
    <3>3. <<x.left, x.right>> \o t = <<x.left>> \o (<<x.right>> \o t)
      BY <1>2, <3>1, FrontsAre
    <3>4. QED
      BY <1>2, <1>4, <3>1, <3>2, <3>3
  <2>4. CASE x.kind = "label"
    <3>1. x.body \in Portions
      BY <2>1, <2>4, PortionIs DEF IsStatement
    <3>2. Unfolded(s) = <<x.body>> \o t
      BY <1>1, <2>4 DEF Unfolded
    <3>3. QED
      BY <1>2, <1>4, <3>1, <3>2
  <2>5. CASE x.kind = "do"
    <3>1. x.body \in Portions /\ Again(x) \in Portions
      BY <1>6, <2>1, <2>5, PortionIs DEF IsStatement
    <3>2. Unfolded(s) = <<x.body, Again(x)>> \o t
      BY <1>1, <2>5 DEF Unfolded
    <3>3. <<x.body, Again(x)>> \o t = <<x.body>> \o (<<Again(x)>> \o t)
      BY <1>2, <3>1, FrontsAre
    <3>4. QED
      BY <1>2, <1>4, <3>1, <3>2, <3>3
  <2>6. CASE x.kind = "break"
    <3>1. Unfolded(s) = IF t = <<>> THEN <<>>
                        ELSE IF Breakable(Head(t)) THEN Tail(t) ELSE <<x>> \o Tail(t)
      BY <1>1, <2>6 DEF Unfolded
    <3>2. QED
      BY <1>2, <1>4, <1>5, <3>1, TodosAre
  <2>7. CASE x.kind = "continue"
    <3>1. Unfolded(s) = IF t = <<>> THEN <<>>
                        ELSE IF Head(t).kind = "again" THEN t ELSE <<x>> \o Tail(t)
      BY <1>1, <2>7 DEF Unfolded
    <3>2. QED
      BY <1>2, <1>4, <1>5, <3>1, TodosAre
  <2>8. CASE x.kind = "return"
    BY <1>1, <2>8, TodosAre DEF Unfolded
  <2>9. QED
    BY <1>3, <2>1, <2>2, <2>3, <2>4, <2>5, <2>6, <2>7, <2>8 DEF StatementKinds, AsksFirst
<1>7. CASE x.kind = "again" /\ x.loop \in Loops
  <2>1. /\ x.loop \in Statements /\ x.loop \in Portions
        /\ x.loop.kind = "while" \/ x.loop.kind = "for"
    BY <1>3, <1>7, PortionIs DEF Loops
  <2>2. CASE x.loop.kind = "while"
    <3>1. Unfolded(s) = <<x.loop>> \o t
      BY Zenon, <1>1, <1>7, <2>2 DEF Unfolded
    <3>2. QED
      BY <1>2, <1>4, <2>1, <3>1
  <2>3. CASE x.loop.kind = "for"
    <3>1. Unfolded(s) = x.loop.step \o <<x.loop>> \o t
      BY Zenon, <1>1, <1>7, <2>3 DEF Unfolded
    <3>2. x.loop.step \in Seq(Statements)
      BY <2>1, <2>3, StatementIs DEF IsStatement
    <3>3. x.loop.step \in Todos /\ <<x.loop>> \in Todos
      BY <2>1, <3>2, TodosAre
    <3>4. x.loop.step \o <<x.loop>> \in Todos
      BY <3>3, TodosAre
    <3>5. QED
      BY <1>2, <3>1, <3>4, TodosAre
  <2>4. QED
    BY <2>1, <2>2, <2>3
<1>8. CASE x.kind = "end switch"
  BY Zenon, <1>1, <1>2, <1>8 DEF Unfolded
<1>9. QED
  BY <1>2, <1>6, <1>7, <1>8, PortionIs

\* ... also once a condition was asked, ...
LEMMA TestedIs ==
    ASSUME NEW s \in Todos, s # <<>>, Settled(s), NEW whole, NEW answer \in {0, 1},
           Head(s).kind \in {"if", "while", "for", "again"}
    PROVE  AfterEvent(whole, s, answer) \in Todos
<1>1. PICK x, t : x = Head(s) /\ t = Tail(s)
  OBVIOUS
<1>2. x \in Portions /\ t \in Todos /\ s = <<x>> \o t
  BY <1>1, TodosAre
<1>3. \A r \in Todos : \A y \in Portions : <<y>> \o r \in Todos
  BY FrontIs
<1>4. CASE x \in Statements
  <2>1. IsStatement(x, Statements) /\ x.kind \in StatementKinds /\ x.kind # "again"
    BY <1>4, StatementIs, PortionIs DEF StatementKinds
  <2>2. CASE x.kind = "if"
    <3>1. x.branches \in Seq(Statements) /\ (Len(x.branches) = 1 \/ Len(x.branches) = 2)
      BY <2>1, <2>2 DEF IsStatement
    <3>2. /\ x.branches[1] \in Portions
          /\ Len(x.branches) # 1 => x.branches[2] \in Portions
      <4>1. /\ x.branches[1] \in Statements
            /\ Len(x.branches) # 1 => x.branches[2] \in Statements
        BY <3>1
      <4>2. QED
        BY <4>1, PortionIs
    <3>3. /\ AfterEvent(whole, s, 1) = <<x.branches[1]>> \o t
          /\ AfterEvent(whole, s, 0) =
                 IF Len(x.branches) = 1 THEN t ELSE <<x.branches[2]>> \o t
      BY <1>2, <1>4, <2>2, AfterTests, ZenonT(40)
    <3>4. AfterEvent(whole, s, 1) \in Todos /\ AfterEvent(whole, s, 0) \in Todos
      BY <1>2, <1>3, <3>2, <3>3
    <3>5. QED
      BY <3>4
  <2>3. CASE x.kind \in {"while", "for"}
    <3>1. x.body \in Portions /\ Again(x) \in Portions
      BY <1>4, <2>1, <2>3, PortionIs DEF IsStatement
    <3>2. /\ AfterEvent(whole, s, 1) = <<x.body>> \o (<<Again(x)>> \o t)
          /\ AfterEvent(whole, s, 0) = t
      BY <1>2, <1>4, <2>3, AfterTests, ZenonT(40)
    <3>3. AfterEvent(whole, s, 1) \in Todos /\ AfterEvent(whole, s, 0) \in Todos
      BY <1>2, <1>3, <3>1, <3>2
    <3>4. QED
      BY <3>3
  <2>4. QED
    BY <1>1, <2>1, <2>2, <2>3
<1>5. CASE x.kind = "again" /\ x.loop \in Loops /\ x = Again(x.loop)
  <2>1. PICK loop : loop = x.loop
    OBVIOUS
  <2>2. loop \in Statements /\ loop \in Portions /\ loop.kind \in {"while", "do", "for"}
    BY <1>5, <2>1, PortionIs DEF Loops
  <2>3. /\ AfterEvent(whole, <<Again(loop)>> \o t, 1) = <<loop>> \o t
        /\ AfterEvent(whole, <<Again(loop)>> \o t, 0) = t
    BY <1>2, <2>2, AfterTests
  <2>4. AfterEvent(whole, s, 1) \in Todos /\ AfterEvent(whole, s, 0) \in Todos
    BY <1>2, <1>3, <1>5, <2>1, <2>2, <2>3
  <2>5. QED
    BY <2>4
<1>6. QED
  BY <1>1, <1>2, <1>4, <1>5, PortionIs

\* ... or the value of a switch.
LEMMA SwitchedIs ==
    ASSUME NEW s \in Todos, s # <<>>, Head(s).kind = "switch", NEW whole, NEW answer \in Nat \ {0}
    PROVE  /\ AfterEvent(whole, s, answer) = Arrived(Head(s), answer, Tail(s))
           /\ AfterEvent(whole, s, answer) \in Todos
<1>1. PICK x, t : x = Head(s) /\ t = Tail(s)
  OBVIOUS
<1>2. x \in Portions /\ t \in Todos /\ x.kind = "switch"
  BY <1>1, TodosAre
<1>3. x \in Statements
  BY <1>2, PortionIs
<1>4. PICK arms, end : arms = ArmsFrom(x, ArmOf(x, answer)) /\ end = <<EndSwitch>>
  OBVIOUS
<1>5. arms \in Todos /\ end \in Todos
  <2>1. x.has_default \in BOOLEAN /\ Len(x.arms) \in Nat
    BY <1>2, <1>3, ArmsAre
  <2>2. x.has_default => Len(x.arms) # 0
    BY <1>2, <1>3, StatementIs DEF IsStatement
  <2>3. ArmOf(x, answer) \in Nat \ {0}
    BY <2>1, <2>2 DEF ArmOf
  <2>4. arms \in Seq(Statements)
    BY <1>2, <1>3, <1>4, <2>3, ArmsAre
  <2>5. QED
    BY <1>4, <2>4, TodosAre, PortionIs
<1>6. AfterEvent(whole, s, answer) = arms \o end \o t
  BY <1>1, <1>2, <1>4, Zenon DEF AfterEvent
<1>7. arms \o end \o t = arms \o (end \o t) /\ arms \o (end \o t) \in Todos
  <2>1. end \o t \in Todos
    BY <1>2, <1>5, TodosAre, Zenon
  <2>2. (arms \o end) \o t = arms \o (end \o t)
    <3>1. \A a, b, c \in Todos : (a \o b) \o c = a \o (b \o c)
      BY TodosAre
    <3>2. QED
      BY <1>2, <1>5, <3>1
  <2>3. arms \o (end \o t) \in Todos
    BY <1>5, <2>1, TodosAre, Zenon
  <2>4. QED
    BY <2>2, <2>3
<1>8. Arrived(x, answer, t) = arms \o (end \o t)
  BY <1>4 DEF Arrived
<1>9. QED
  BY <1>1, <1>6, <1>7, <1>8

\* The code has a path, which ends nowhere, and the machine is on it.
Running(at, w, r) ==
    /\ Generated
    /\ entered \in Nat /\ todo \in Todos
    /\ pc \in 1 .. Len(code) + 1
    /\ Path(code, w, r, Env(at, {}, 0))
    /\ w[Len(code) + 1] = {}
    /\ Point(entered, value, todo) \in w[pc]

RunInv ==
    /\ value \in Nat
    /\ entered # 0 => \E at, w, r : Running(at, w, r)

\* What there is to say of the machine where it is.
Here(at, w, r, item) ==
    /\ Running(at, w, r)
    /\ LabelsInv /\ entered # 0 /\ value \in Nat
    /\ item = code[pc]

LEMMA HereIs ==
    ASSUME LabelsInv, RunInv, entered # 0
    PROVE  \E at, w, r, item : Here(at, w, r, item)
<1>1. PICK at, w, r : Running(at, w, r)
  BY DEF RunInv
<1>2. PICK item : item = code[pc]
  OBVIOUS
<1>3. Here(at, w, r, item)
  BY <1>1, <1>2 DEF Here, RunInv
<1>4. QED
  BY <1>3

LEMMA PlaceIs ==
    ASSUME NEW at, NEW w, NEW r, NEW item, Here(at, w, r, item)
    PROVE  /\ code \in Seq(Items) /\ Len(code) \in Nat /\ pending = <<>>
           /\ pc \in 1 .. Len(code) /\ pc \in Nat /\ pc + 1 \in 1 .. Len(code) + 1
           /\ Follows(item, w[pc], w[pc + 1], r[pc], Env(at, {}, 0))
           /\ Point(entered, value, todo) \in w[pc]
           /\ \A k \in 1 .. Len(code) + 1 : Steady(w[k])
<1>1. /\ code \in Seq(Items) /\ pending = <<>>
      /\ pc \in 1 .. Len(code) + 1 /\ Point(entered, value, todo) \in w[pc]
      /\ w[Len(code) + 1] = {}
      /\ \A k \in 1 .. Len(code) + 1 : Steady(w[k])
  BY DEF Here, Running, Generated, LabelsInv, Typed, Path
<1>2. Len(code) \in Nat
  BY <1>1
<1>3. pc # Len(code) + 1
  BY <1>1
<1>4. pc \in 1 .. Len(code) /\ pc \in Nat /\ pc + 1 \in 1 .. Len(code) + 1
  BY <1>1, <1>2, <1>3
<1>5. Follows(item, w[pc], w[pc + 1], r[pc], Env(at, {}, 0))
  BY <1>4 DEF Here, Running, Path
<1>6. QED
  BY <1>1, <1>2, <1>4, <1>5

\* The machine goes on from there to another place of the path.
LEMMA MovesOn ==
    ASSUME NEW at, NEW w, NEW r, NEW item, Here(at, w, r, item),
           UNCHANGED <<generator, entered>>,
           value' \in Nat, todo' \in Todos, pc' \in 1 .. Len(code) + 1,
           Point(entered, value', todo') \in w[pc']
    PROVE  RunInv'
<1>1. /\ program' = program /\ function' = function /\ code' = code /\ pending' = pending
      /\ entered' = entered
  BY DEF generator
<1>2. Env(at, {}, 0)' = Env(at, {}, 0)
  BY <1>1 DEF Env
<1>3. Running(at, w, r)'
  BY <1>1, <1>2 DEF Here, Running, Generated
<1>4. QED
  BY <1>3 DEF RunInv

\* Every label which is jumped to is written, where the machine may be there.
LEMMA TargetIs ==
    ASSUME NEW at, NEW w, NEW r, NEW item, Here(at, w, r, item), item.op \in Jumps
    PROVE  /\ Target(item.label) \in 1 .. Len(code) + 1
           /\ item.label \in DOMAIN at => w[Target(item.label)] = at[item.label]
<1>1. PICK l, k : l = item.label /\ k = Target(l)
  OBVIOUS
<1>2. /\ code \in Seq(Items) /\ Len(code) \in Nat /\ pending = <<>> /\ pc \in 1 .. Len(code)
  BY PlaceIs
<1>3. Cardinality(Places(l)) = 1
  <2>1. JumpsFindTheirLabels
    BY LabelsAreRight DEF Here
  <2>2. pc \in DOMAIN code /\ code[pc].op \in Jumps /\ code[pc].label = l
    BY <1>1, <1>2 DEF Here
  <2>3. QED
    BY <1>2, <2>1, <2>2 DEF JumpsFindTheirLabels, LabelsPlacedOnce
<1>4. Places(l) # {}
  BY <1>3, FS_EmptySet
<1>5. k \in DOMAIN code /\ code[k] = EmitLabel(l)
  <2>1. k \in Places(l)
    BY <1>1, <1>4 DEF Target
  <2>2. QED
    BY <2>1 DEF Places
<1>6. k \in 1 .. Len(code) /\ k \in 1 .. Len(code) + 1
  BY <1>2, <1>5
<1>7. Follows(EmitLabel(l), w[k], w[k + 1], r[k], Env(at, {}, 0))
  BY <1>5, <1>6 DEF Here, Running, Path
<1>8. w[k] = at[l]
  <2>1. EmitLabel(l).op = "label" /\ EmitLabel(l).label = l
    BY DEF EmitLabel
  <2>2. QED
    BY <1>7, <2>1, EnvIs DEF Follows
<1>9. QED
  BY <1>1, <1>6, <1>8

\* Where the code asks something, the statements ask it.
LEMMA QuestionIs ==
    ASSUME NEW at, NEW w, NEW r, NEW item, Here(at, w, r, item), item.op \in Questions,
           Settled(todo)
    PROVE  /\ todo # <<>> /\ todo \in Todos /\ entered \in Nat
           /\ Asked(item, w[pc], w[pc + 1], entered, todo, Env(at, {}, 0))
<1>1. PICK f \in Nat, t \in Todos : Asked(item, w[pc], w[pc + 1], f, t, Env(at, {}, 0))
  BY PlaceIs DEF Follows
<1>2. t # <<>> /\ Settled(t) /\ w[pc] = States(f, t)
  BY <1>1 DEF Asked
<1>3. Point(entered, value, todo) \in States(f, t)
  BY <1>2, PlaceIs
<1>4. entered = f /\ Alike(todo, t)
  BY <1>3, PointIs DEF States
<1>5. todo \in Todos
  BY DEF Here, Running
<1>6. todo = t
  BY <1>2, <1>4, <1>5, SettledAlike
<1>7. QED
  BY <1>1, <1>2, <1>4, <1>6

-----------------------------------------------------------------------------
\* So much is left to do, and the machine may be there.
LEMMA StandsIn ==
    ASSUME NEW f \in Nat, NEW v \in Nat, NEW t \in Todos
    PROVE  Point(f, v, t) \in States(f, t)
BY PointIs, AlikeIs DEF States

LEMMA EnterRuns ==
    ASSUME LabelsInv, FlowInv, RunInv, Enter
    PROVE  RunInv'
<1>1. PICK k \in DOMAIN code : /\ code[k].op = "preamble" /\ entered' = code[k].function
                               /\ pc' = k + 1 /\ todo' = <<program[code[k].function]>>
  BY DEF Enter
<1>2. /\ Generated /\ UNCHANGED <<generator, value>> /\ value \in Nat
  BY DEF Enter, RunInv
<1>3. /\ program' = program /\ function' = function /\ code' = code /\ pending' = pending
      /\ value' = value
  BY <1>2 DEF generator
<1>4. PICK at, m, rests : Following(at, m, rests)
  BY DEF FlowInv
<1>5. pending = <<>> /\ Due = {}
  BY <1>2 DEF Generated, Due
<1>6. m = {}
  <2>1. PICK nowhere : nowhere = {}
    OBVIOUS
  <2>2. Flow(<<>>, m, nowhere, rests, Env(at, Due, function))
    BY <1>4, <1>5, <2>1 DEF Following
  <2>3. m = nowhere
    BY <2>2, NoneFlows
  <2>4. QED
    BY <2>1, <2>3
<1>7. PICK env : env = Env(at, {}, 0)
  OBVIOUS
<1>8. Flow(code, {}, {}, {}, env)
  BY <1>4, <1>5, <1>6, <1>7 DEF Following
<1>9. PICK w, r : Path(code, w, r, env) /\ w[Len(code) + 1] = {}
  BY <1>8 DEF Flow
<1>10. PICK f, body : f = code[k].function /\ body = program[f]
  OBVIOUS
<1>11. /\ code \in Seq(Items) /\ Len(code) \in Nat /\ k \in 1 .. Len(code)
       /\ program \in Seq(Statements)
  BY <1>1 DEF LabelsInv, Typed
<1>12. Follows(code[k], w[k], w[k + 1], r[k], env)
  BY <1>9, <1>11 DEF Path
<1>13. f \in DOMAIN program /\ w[k + 1] = States(f, <<body>>)
  BY <1>1, <1>7, <1>10, <1>12, EnvIs DEF Follows
<1>14. f \in Nat /\ f # 0 /\ body \in Statements /\ <<body>> \in Todos
  <2>1. f \in Nat /\ f # 0 /\ body \in Statements
    BY <1>10, <1>11, <1>13
  <2>2. QED
    BY <2>1, PortionIs, TodosAre
<1>15. Point(f, value, <<body>>) \in w[k + 1]
  BY <1>2, <1>13, <1>14, StandsIn
<1>16. k + 1 \in 1 .. Len(code) + 1
  BY <1>11
<1>17. Env(at, {}, 0)' = Env(at, {}, 0)
  BY <1>3 DEF Env
<1>18. entered' = f /\ todo' = <<body>>
  BY <1>1, <1>10
<1>19. Running(at, w, r)'
  BY <1>1, <1>2, <1>3, <1>7, <1>9, <1>14, <1>15, <1>16, <1>17, <1>18 DEF Running, Generated
<1>20. QED
  BY <1>2, <1>3, <1>19 DEF RunInv

LEMMA UnfoldRuns ==
    ASSUME LabelsInv, RunInv, Unfold
    PROVE  RunInv'
<1>1. /\ entered # 0 /\ ~Settled(todo) /\ todo' = Unfolded(todo)
      /\ UNCHANGED <<generator, entered>> /\ pc' = pc /\ value' = value
  BY DEF Unfold
<1>2. PICK at, w, r, item : Here(at, w, r, item)
  BY <1>1, HereIs
<1>3. todo \in Todos /\ entered \in Nat /\ value \in Nat
  BY <1>2 DEF Here, Running
<1>4. PICK next : next = Unfolded(todo)
  OBVIOUS
<1>5. next \in Todos /\ Alike(todo, next)
  BY <1>1, <1>3, <1>4, UnfoldedIs, AlikeIs
<1>6. pc \in 1 .. Len(code) + 1 /\ Steady(w[pc]) /\ Point(entered, value, todo) \in w[pc]
  BY <1>2, PlaceIs DEF Here, Running
<1>7. Point(entered, value, next) \in w[pc]
  BY <1>5, <1>6, PointIs DEF Steady
<1>8. QED
  BY <1>1, <1>2, <1>3, <1>4, <1>5, <1>6, <1>7, MovesOn

\* An event, a condition, the value of a switch and a goto.
LEMMA QuestionRuns ==
    ASSUME LabelsInv, RunInv,
           \/ RunEvent \/ \E answer \in {0, 1} : RunTest(answer)
           \/ At("switch") /\ \E answer \in 1 .. Instr.answers : RunSwitch(answer)
           \/ RunGoto
    PROVE  RunInv'
<1>1. entered # 0 /\ Settled(todo) /\ Instr.op \in Questions
  BY DEF RunEvent, RunTest, RunSwitch, RunGoto, At, Questions
<1>2. PICK at, w, r, item : Here(at, w, r, item)
  BY <1>1, HereIs
<1>3. item = Instr /\ value \in Nat
  BY <1>2 DEF Here, Instr
<1>4. PICK env : env = Env(at, {}, 0)
  OBVIOUS
<1>5. env.at = at /\ env.due = {} /\ env.bodies = program
  BY <1>4, EnvIs
<1>6. PICK f, t : f = entered /\ t = todo
  OBVIOUS
<1>7. /\ t # <<>> /\ t \in Todos /\ f \in Nat /\ Settled(t)
      /\ Asked(item, w[pc], w[pc + 1], f, t, env)
  BY <1>1, <1>2, <1>3, <1>4, <1>6, QuestionIs
<1>8. /\ pc \in Nat /\ pc + 1 \in 1 .. Len(code) + 1
  BY <1>2, PlaceIs
<1>9. \A answer : Seen(answer) = AfterEvent(program[f], t, answer)
  BY <1>6, <1>7 DEF Seen
<1>10. ASSUME NEW next, next \in Todos, todo' = next, value' = value,
              UNCHANGED <<generator, entered>>,
              pc' \in 1 .. Len(code) + 1, w[pc'] = States(f, next)
       PROVE  RunInv'
  <2>1. Point(f, value, next) \in w[pc']
    BY <1>3, <1>7, <1>10, StandsIn
  <2>2. QED
    BY <1>2, <1>3, <1>6, <1>10, <2>1, MovesOn
<1>11. CASE RunEvent
  <2>1. /\ item.op = "event" /\ UNCHANGED <<generator, entered>> /\ pc' = pc + 1
        /\ todo' = AfterEvent(program[f], t, 0) /\ value' = value
    BY <1>3, <1>9, <1>11 DEF RunEvent, At, Goes
  <2>2. Head(t).kind = "act" /\ w[pc + 1] = States(f, Tail(t))
    BY <1>7, <2>1 DEF Asked
  <2>3. AfterEvent(program[f], t, 0) = Tail(t)
    BY <2>2 DEF AfterEvent
  <2>4. Tail(t) \in Todos
    BY <1>7, TodosAre
  <2>5. QED
    BY <1>8, <1>10, <2>1, <2>2, <2>3, <2>4
<1>12. CASE \E answer \in {0, 1} : RunTest(answer)
  <2>1. PICK answer \in {0, 1} : RunTest(answer)
    BY <1>12
  <2>2. PICK next : next = AfterEvent(program[f], t, answer)
    OBVIOUS
  <2>3. /\ item.op = "test" /\ UNCHANGED <<generator, entered>>
        /\ pc' = (IF answer = 1 THEN pc + 1 ELSE Target(item.label))
        /\ todo' = next /\ value' = value
    BY <1>3, <1>9, <2>1, <2>2 DEF RunTest, At, Goes
  <2>4. /\ Head(t).kind \in {"if", "while", "for", "again"}
        /\ w[pc + 1] = States(f, AfterEvent(program[f], t, 1))
        /\ item.label \in DOMAIN at
        /\ at[item.label] = States(f, AfterEvent(program[f], t, 0))
    BY <1>5, <1>7, <2>3 DEF Asked
  <2>5. next \in Todos
    BY <1>7, <2>2, <2>4, TestedIs
  <2>6. Target(item.label) \in 1 .. Len(code) + 1 /\ w[Target(item.label)] = at[item.label]
    BY <1>2, <2>3, <2>4, TargetIs DEF Jumps
  <2>7. w[pc'] = States(f, next) /\ pc' \in 1 .. Len(code) + 1
    <3>1. CASE answer = 1
      BY <1>8, <2>2, <2>3, <2>4, <3>1
    <3>2. CASE answer = 0
      BY <2>2, <2>3, <2>4, <2>6, <3>2
    <3>3. QED
      BY <3>1, <3>2
  <2>8. QED
    BY <1>10, <2>3, <2>5, <2>7
<1>13. CASE At("switch") /\ \E answer \in 1 .. Instr.answers : RunSwitch(answer)
  <2>1. PICK answer \in 1 .. item.answers : RunSwitch(answer)
    BY <1>3, <1>13
  <2>2. /\ item.op = "switch" /\ UNCHANGED <<generator, entered>> /\ pc' = pc + 1
        /\ todo' = AfterEvent(program[f], t, answer) /\ value' = answer
    BY <1>3, <1>9, <2>1 DEF RunSwitch, At, Goes
  <2>3. /\ Head(t).kind = "switch" /\ item.answers \in Nat
        /\ w[pc + 1] = Choosing(f, Head(t), Tail(t), 1, item.answers)
    BY <1>7, <2>2 DEF Asked
  <2>4. answer \in Nat \ {0}
    BY <2>1, <2>3
  <2>5. PICK next : next = AfterEvent(program[f], t, answer)
    OBVIOUS
  <2>6. next = Arrived(Head(t), answer, Tail(t)) /\ next \in Todos
    BY <1>7, <2>3, <2>4, <2>5, SwitchedIs
  <2>7. Point(f, answer, next) \in w[pc + 1]
    <3>1. /\ Point(f, answer, next) \in Points
          /\ Point(f, answer, next).of = f /\ Point(f, answer, next).value = answer
          /\ Point(f, answer, next).todo = next
      <4>1. answer \in Nat /\ f \in Nat /\ next \in Todos
        BY <1>7, <2>4, <2>6
      <4>2. Point(f, answer, next) \in Points
        BY <4>1, PointIs
      <4>3. QED
        BY <4>2 DEF Point
    <3>2. Alike(next, Arrived(Head(t), answer, Tail(t)))
      BY <2>6, AlikeIs
    <3>3. QED
      BY <2>1, <2>3, <3>1, <3>2 DEF Choosing
  <2>8. QED
    BY <1>2, <1>6, <1>8, <2>2, <2>4, <2>5, <2>6, <2>7, MovesOn
<1>14. CASE RunGoto
  <2>1. PICK next : next = AfterEvent(program[f], t, 0)
    OBVIOUS
  <2>2. /\ item.op = "goto" /\ UNCHANGED <<generator, entered>> /\ pc' = Target(item.label)
        /\ todo' = next /\ value' = value
    BY <1>3, <1>9, <1>14, <2>1 DEF RunGoto, At, Goes
  <2>3. next \in Todos /\ item.label \in DOMAIN at /\ at[item.label] = States(f, next)
    BY <1>5, <1>7, <2>1, <2>2 DEF Asked
  <2>4. Target(item.label) \in 1 .. Len(code) + 1 /\ w[Target(item.label)] = at[item.label]
    BY <1>2, <2>2, <2>3, TargetIs DEF Jumps
  <2>5. QED
    BY <1>10, <2>2, <2>3, <2>4
<1>15. QED
  BY <1>11, <1>12, <1>13, <1>14

\* A comparison of a switch, a jump and a label.
LEMMA JumpRuns ==
    ASSUME LabelsInv, RunInv, RunCase \/ RunJump \/ RunLabel
    PROVE  RunInv'
<1>1. /\ entered # 0 /\ UNCHANGED <<generator, entered>> /\ value' = value /\ todo' = todo
  BY DEF RunCase, RunJump, RunLabel, At, Goes
<1>2. PICK at, w, r, item : Here(at, w, r, item)
  BY <1>1, HereIs
<1>3. item = Instr /\ value \in Nat /\ todo \in Todos
  BY <1>2 DEF Here, Running, Instr
<1>4. PICK here, env : here = Point(entered, value, todo) /\ env = Env(at, {}, 0)
  OBVIOUS
<1>5. env.at = at /\ here.value = value
  BY <1>4, EnvIs, PointIs
<1>6. /\ pc \in Nat /\ pc + 1 \in 1 .. Len(code) + 1 /\ here \in w[pc]
      /\ Follows(item, w[pc], w[pc + 1], r[pc], env)
  BY <1>2, <1>4, PlaceIs
<1>7. pc' \in 1 .. Len(code) + 1 /\ here \in w[pc']
  <2>1. CASE RunCase
    <3>1. /\ item.op = "case"
          /\ pc' = (IF value = item.value THEN Target(item.label) ELSE pc + 1)
      BY <1>3, <2>1 DEF RunCase, At, Goes
    <3>2. /\ item.label \in DOMAIN at
          /\ IF value = item.value THEN here \in at[item.label] ELSE here \in w[pc + 1]
      BY <1>5, <1>6, <3>1 DEF Follows
    <3>3. Target(item.label) \in 1 .. Len(code) + 1 /\ w[Target(item.label)] = at[item.label]
      BY <1>2, <3>1, <3>2, TargetIs DEF Jumps
    <3>4. CASE value = item.value
      BY <3>1, <3>2, <3>3, <3>4
    <3>5. CASE value # item.value
      BY <1>6, <3>1, <3>2, <3>5
    <3>6. QED
      BY <3>4, <3>5
  <2>2. CASE RunJump
    <3>1. item.op = "jump" /\ pc' = Target(item.label)
      BY <1>3, <2>2 DEF RunJump, At, Goes
    <3>2. item.label \in DOMAIN at /\ here \in at[item.label]
      BY <1>5, <1>6, <3>1 DEF Follows
    <3>3. Target(item.label) \in 1 .. Len(code) + 1 /\ w[Target(item.label)] = at[item.label]
      BY <1>2, <3>1, <3>2, TargetIs DEF Jumps
    <3>4. QED
      BY <3>1, <3>2, <3>3
  <2>3. CASE RunLabel
    <3>1. item.op = "label" /\ pc' = pc + 1
      BY <1>3, <2>3 DEF RunLabel, At, Goes
    <3>2. w[pc + 1] = w[pc]
      BY <1>6, <3>1 DEF Follows
    <3>3. QED
      BY <1>6, <3>1, <3>2
  <2>4. QED
    BY <2>1, <2>2, <2>3
<1>8. QED
  BY <1>1, <1>2, <1>3, <1>4, <1>7, MovesOn

\* Where the path says the machine is, it does what the statements say.
LEMMA RunsInStep ==
    ASSUME LabelsInv, RunInv
    PROVE  InStep
<1>1. ASSUME Asks PROVE todo # <<>> /\ EventOf(Head(todo)) = Instr.event
  <2>1. entered # 0 /\ Settled(todo) /\ Instr.op \in Questions
    BY <1>1 DEF Asks, At, Questions
  <2>2. PICK at, w, r, item : Here(at, w, r, item)
    BY <2>1, HereIs
  <2>3. item = Instr
    BY <2>2 DEF Here, Instr
  <2>4. todo # <<>> /\ Asked(item, w[pc], w[pc + 1], entered, todo, Env(at, {}, 0))
    BY <2>1, <2>2, <2>3, QuestionIs
  <2>5. QED
    BY <2>3, <2>4 DEF Asked
<1>2. ASSUME Done PROVE todo = <<>>
  <2>1. entered # 0 /\ Settled(todo) /\ Instr.op = "postamble"
    BY <1>2 DEF Done, At
  <2>2. PICK at, w, r, item : Here(at, w, r, item)
    BY <2>1, HereIs
  <2>3. item.op = "postamble" /\ todo \in Todos
    BY <2>1, <2>2 DEF Here, Running, Instr
  <2>4. PICK f : w[pc] = States(f, <<>>)
    BY <2>2, <2>3, PlaceIs DEF Follows
  <2>5. Point(entered, value, todo) \in States(f, <<>>)
    BY <2>2, <2>4, PlaceIs
  <2>6. Alike(todo, <<>>)
    BY <2>5, PointIs DEF States
  <2>7. <<>> \in Todos /\ Settled(<<>>)
    BY TodosAre DEF Settled
  <2>8. QED
    BY <2>1, <2>3, <2>6, <2>7, SettledAlike
<1>3. QED
  BY <1>1, <1>2 DEF InStep

-----------------------------------------------------------------------------
(***************************************************************************)
(* Whatever the functions of a program are, however loops, switches and    *)
(* gotos stand in them, and whatever the answers to what they ask: the     *)
(* labels and jumps which are written do what the statements say, one      *)
(* after the other, and nothing else (AsmCodegen::GenStatement and the Gen *)
(* functions it calls).                                                    *)
(***************************************************************************)
THEOREM CodeDoesWhatItMeans == Spec => []InStep
<1> DEFINE Inv == LabelsInv /\ FlowInv /\ RunInv
<1>1. Init => Inv
  <2>1. Init => RunInv
    BY DEF Init, RunInv
  <2>2. QED
    BY <2>1, InitLabels, InitFollows DEF Init
<1>2. Inv /\ [Next]_vars => Inv'
  <2>1. SUFFICES ASSUME Inv, [Next]_vars
                 PROVE  Inv'
    OBVIOUS
  <2>2. [GenNext]_generator
    BY <2>1 DEF Next, vars, Generate, Enter, Unfold, RunEvent, RunTest, RunSwitch, RunCase,
                RunGoto, RunJump, RunLabel, Goes
  <2>3. LabelsInv' /\ FlowInv'
    BY <2>1, <2>2, LabelsStay, FlowStays
  <2>4. RunInv'
    <3>1. CASE Generate
      BY <2>1, <3>1 DEF Generate, machine, RunInv
    <3>2. CASE Enter
      BY <2>1, <3>2, EnterRuns
    <3>3. CASE Unfold
      BY <2>1, <3>3, UnfoldRuns
    <3>4. CASE \/ RunEvent \/ \E answer \in {0, 1} : RunTest(answer)
               \/ At("switch") /\ \E answer \in 1 .. Instr.answers : RunSwitch(answer)
               \/ RunGoto
      BY <2>1, <3>4, QuestionRuns
    <3>5. CASE RunCase \/ RunJump \/ RunLabel
      BY <2>1, <3>5, JumpRuns
    <3>6. CASE UNCHANGED vars
      <4>1. /\ program' = program /\ function' = function /\ code' = code /\ pending' = pending
            /\ entered' = entered /\ pc' = pc /\ value' = value /\ todo' = todo
        BY <3>6 DEF vars, generator, machine
      <4>2. QED
        BY <2>1, <4>1 DEF RunInv, Running, Generated, Env
    <3>7. QED
      BY <2>1, <3>1, <3>2, <3>3, <3>4, <3>5, <3>6 DEF Next
  <2>5. QED
    BY <2>3, <2>4
<1>3. Inv => InStep
  BY RunsInStep
<1>4. QED
  BY <1>1, <1>2, <1>3, PTL DEF Spec

=============================================================================
