--------------------------- MODULE StatementTrees ---------------------------
(***************************************************************************)
(* The statements of a function, as the parser hands them on.              *)
(***************************************************************************)
EXTENDS Sequences, Integers

CONSTANTS
    Names,          \* the names of labels
    Statements      \* statements, and those they are made of

\* The step of a loop is expressions and no other statement.
IsStatement(root, all) ==
    /\ root.kind \in {"empty", "act", "seq", "if", "while", "do", "for", "switch",
                      "break", "continue", "goto", "label", "return"}
    /\ root.kind \in {"goto", "label"} => root.name \in Names
    /\ root.kind \in {"label", "while", "do", "for"} => root.body \in all
    /\ root.kind = "seq" => root.left \in all /\ root.right \in all
    /\ root.kind = "if" => root.branches \in Seq(all) /\ Len(root.branches) \in {1, 2}
    /\ root.kind = "for" => /\ root.step \in Seq(all) /\ Len(root.step) \in {0, 1}
                            /\ \A k \in DOMAIN root.step : root.step[k].kind = "act"
    /\ root.kind = "switch" => /\ root.arms \in Seq(all) /\ root.has_default \in BOOLEAN
                               /\ root.has_default => root.arms # <<>>

AreStatements(all) == \A root \in all : IsStatement(root, all)

ASSUME StatementsAssumption == AreStatements(Statements)

=============================================================================
