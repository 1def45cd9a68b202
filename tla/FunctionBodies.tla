--------------------------- MODULE FunctionBodies ---------------------------
(***************************************************************************)
(* The functions the parser lets through, over a few statements of each    *)
(* kind.                                                                   *)
(***************************************************************************)
EXTENDS Sequences, Integers

StatementKinds ==
    {"break", "continue", "return", "goto", "label", "seq", "if", "if else",
     "while", "do", "for", "for step", "switch", "default"}

\* A statement with no other in it.  "around" says what it stands in, since a
\* break outside a loop or a switch and a continue outside a loop are refused.
Simple(kinds, names, n, around) ==
    {[kind |-> "act", event |-> <<"act", n>>], [kind |-> "empty"]}
    \cup {[kind |-> kind] : kind \in kinds \cap {"return"}}
    \cup {[kind |-> kind] : kind \in kinds \cap
            (IF around = {} THEN {} ELSE {"break"})}
    \cup {[kind |-> kind] : kind \in kinds \cap
            (IF "loop" \in around THEN {"continue"} ELSE {})}
    \cup {[kind |-> kind, event |-> <<"goto", n>>, name |-> name] :
            kind \in kinds \cap {"goto"}, name \in names}

\* Statements numbered lo .. hi in the order they are written.
RECURSIVE StatementsOver(_, _, _, _, _)
StatementsOver(kinds, names, lo, hi, around) ==
    IF lo = hi
    THEN Simple(kinds, names, lo, around)
    ELSE LET one(inside) == StatementsOver(kinds, names, lo + 1, hi, inside)
             two(inside) == UNION {
                StatementsOver(kinds, names, lo + 1, mid, inside)
                    \X StatementsOver(kinds, names, mid + 1, hi, inside) :
                mid \in lo + 1 .. hi - 1}
             test == <<"test", lo>>
             step == [kind |-> "act", event |-> <<"step", lo>>]
             loop == around \cup {"loop"}
             arm == around \cup {"switch"}
         IN  { [kind |-> kind, name |-> name, body |-> body] :
                kind \in kinds \cap {"label"}, name \in names, body \in one(around) }
             \cup { [kind |-> "if", event |-> test, branches |-> <<body>>] :
                body \in IF "if" \in kinds THEN one(around) ELSE {} }
             \cup { [kind |-> "if", event |-> test, branches |-> pair] :
                pair \in IF "if else" \in kinds THEN two(around) ELSE {} }
             \cup { [kind |-> kind, event |-> test, body |-> body] :
                kind \in kinds \cap {"while", "do"}, body \in one(loop) }
             \cup { [kind |-> "for", event |-> test, body |-> body, step |-> <<>>] :
                body \in IF "for" \in kinds THEN one(loop) ELSE {} }
             \cup { [kind |-> "for", event |-> test, body |-> body, step |-> <<step>>] :
                body \in IF "for step" \in kinds THEN one(loop) ELSE {} }
             \cup { [kind |-> "seq", left |-> pair[1], right |-> pair[2]] :
                pair \in IF "seq" \in kinds THEN two(around) ELSE {} }
             \cup { [kind |-> "switch", event |-> <<"switch", lo>>,
                     arms |-> arms, has_default |-> has_default] :
                arms \in IF "switch" \in kinds
                         THEN two(arm) \cup {<<body>> : body \in one(arm)}
                         ELSE {},
                has_default \in IF "default" \in kinds THEN BOOLEAN ELSE {FALSE} }

Parts(root) ==
    CASE root.kind = "seq" -> <<root.left, root.right>>
      [] root.kind \in {"label", "while", "do"} -> <<root.body>>
      [] root.kind = "for" -> <<root.body>> \o root.step
      [] root.kind = "if" -> root.branches
      [] root.kind = "switch" -> root.arms
      [] OTHER -> <<>>

\* A statement and those it is made of.
RECURSIVE All(_)
All(root) == {root} \cup UNION {All(Parts(root)[k]) : k \in DOMAIN Parts(root)}

\* How many statements of a kind have a name.
RECURSIVE Count(_, _, _)
Count(root, kind, name) ==
    LET parts == Parts(root)
        Within(k) == IF k \in DOMAIN parts THEN Count(parts[k], kind, name) ELSE 0
    IN  (IF root.kind = kind /\ root.name = name THEN 1 ELSE 0) + Within(1) + Within(2)

\* A name is the label of one statement, and a goto names a label there is.
LabelsFit(root, names) ==
    \A name \in names :
        /\ Count(root, "label", name) <= 1
        /\ Count(root, "goto", name) > 0 => Count(root, "label", name) = 1

\* The bodies of up to `nodes` statements.
BodiesOver(kinds, names, nodes) ==
    UNION {{root \in StatementsOver(kinds, names, 1, n, {}) : LabelsFit(root, names)} :
            n \in 1 .. nodes}

=============================================================================
