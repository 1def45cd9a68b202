------------------------------ MODULE MCDriver ------------------------------
EXTENDS Driver

\* Two files of one directory, and one whose name has no suffix.
Distinct == {[dir |-> "src", base |-> "x", dotted |-> TRUE],
             [dir |-> "src", base |-> "y", dotted |-> TRUE],
             [dir |-> "src", base |-> "z", dotted |-> FALSE]}

=============================================================================
