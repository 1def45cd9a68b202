-------------------------- MODULE StatementMeaning --------------------------
(***************************************************************************)
(* What the statements of a function mean, as the language defines them    *)
(* and with no label and no jump: what is left to do is a sequence of      *)
(* statements, together with the loops and the switches they stand in.     *)
(* Doing something a reader can see (an expression, the asking of a        *)
(* condition or of the value of a switch, a goto) takes the sequence to    *)
(* the one after it, which is unfolded until the next such thing is at its *)
(* head.                                                                   *)
(***************************************************************************)
EXTENDS StatementTrees

Again(loop) == [kind |-> "again", loop |-> loop]
EndSwitch == [kind |-> "end switch"]

Loops == {root \in Statements : root.kind \in {"while", "do", "for"}}

\* What is left to do is a sequence of these.
Portions == Statements \cup {Again(loop) : loop \in Loops} \cup {EndSwitch}
Todos == Seq(Portions)

\* What a break leaves.
Breakable(item) == item.kind \in {"again", "end switch"}

ArmsFrom(switch, first) == SubSeq(switch.arms, first, Len(switch.arms))

\* The arm a value goes to: its own case, or the default, which is always the
\* last of them.
ArmOf(switch, value) ==
    IF value <= Len(switch.arms) - (IF switch.has_default THEN 1 ELSE 0)
    THEN value
    ELSE IF switch.has_default THEN Len(switch.arms) ELSE Len(switch.arms) + 1

\* A reader sees something next, or the function is at its end.
Settled(todo) ==
    todo # <<>> =>
        \/ Head(todo).kind \in {"act", "if", "while", "for", "switch", "goto"}
        \/ Head(todo).kind = "again" /\ Head(todo).loop.kind = "do"

\* One step towards what a reader sees next.  A break leaves behind what there
\* is up to the loop or the switch around it, a continue what there is up to
\* the next pass of the loop.
Unfolded(todo) ==
    LET now == Head(todo)
        after == Tail(todo)
    IN  CASE now.kind \in {"empty", "end switch"} -> after
          [] now.kind = "seq" -> <<now.left, now.right>> \o after
          [] now.kind = "label" -> <<now.body>> \o after
          [] now.kind = "do" -> <<now.body, Again(now)>> \o after
          [] now.kind = "again" /\ now.loop.kind = "while" -> <<now.loop>> \o after
          [] now.kind = "again" /\ now.loop.kind = "for" ->
                now.loop.step \o <<now.loop>> \o after
          [] now.kind = "break" ->
                IF after = <<>> THEN <<>>
                ELSE IF Breakable(Head(after)) THEN Tail(after)
                ELSE <<now>> \o Tail(after)
          [] now.kind = "continue" ->
                IF after = <<>> THEN <<>>
                ELSE IF Head(after).kind = "again" THEN after
                ELSE <<now>> \o Tail(after)
          [] now.kind = "return" -> <<>>

\* What a reader sees next.
EventOf(now) == IF now.kind = "again" THEN now.loop.event ELSE now.event

-----------------------------------------------------------------------------
\* The labels of a statement, and what is left of it to do from each of them:
\* these with more left to do after the statement, ...
Onto(rests, after) == {[name |-> rest.name, todo |-> rest.todo \o after] : rest \in rests}

\* ... and those of a statement from those of its parts.
RestsIn(rests, root) ==
    CASE root.kind = "label" ->
            {[name |-> root.name, todo |-> <<root.body>>]} \cup rests[root.body]
      [] root.kind = "seq" ->
            Onto(rests[root.left], <<root.right>>) \cup rests[root.right]
      [] root.kind = "if" -> UNION {rests[root.branches[k]] : k \in DOMAIN root.branches}
      [] root.kind \in {"while", "do", "for"} -> Onto(rests[root.body], <<Again(root)>>)
      [] root.kind = "switch" ->
            UNION {Onto(rests[root.arms[k]], ArmsFrom(root, k + 1) \o <<EndSwitch>>) :
                   k \in DOMAIN root.arms}
      [] OTHER -> {}

Rests[root \in Statements] == RestsIn(Rests, root)

\* No statement is a part of itself, so that there are such labels.
ASSUME RestsAssumption ==
    \A root \in Statements :
        /\ Rests[root] \subseteq [name : Names, todo : Todos]
        /\ Rests[root] = RestsIn(Rests, root)

\* What is left to do from the label of a name.
FromLabel(root, name) == {rest.todo : rest \in {some \in Rests[root] : some.name = name}}

\* What is left to do once the next thing was done, with the answer to the
\* question it asked.
AfterEvent(root, todo, answer) ==
    LET now == Head(todo)
        after == Tail(todo)
    IN  CASE now.kind = "act" -> after
          [] now.kind = "if" ->
                (IF answer = 1 THEN <<now.branches[1]>> ELSE Tail(now.branches)) \o after
          [] now.kind \in {"while", "for"} ->
                IF answer = 1 THEN <<now.body, Again(now)>> \o after ELSE after
          [] now.kind = "again" ->
                IF answer = 1 THEN <<now.loop>> \o after ELSE after
          [] now.kind = "switch" ->
                ArmsFrom(now, ArmOf(now, answer)) \o <<EndSwitch>> \o after
          [] now.kind = "goto" ->
                CHOOSE rest \in FromLabel(root, now.name) : TRUE

=============================================================================
