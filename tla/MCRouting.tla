----------------------------- MODULE MCRouting -----------------------------
(* Small instances of Routing for TLC. *)
EXTENDS Routing

CONSTANTS m1, m2, human, k1, k2, b1, b2

\* Who wrote the messages and whom they mention ...
ByHuman == [m \in Messages |-> human]
ByHumanAndAgent == [m \in Messages |-> IF m = m1 THEN human ELSE k2]
MentionFirst == [m \in Messages |-> {k1}]
MentionBoth == [m \in Messages |-> IF m = m1 THEN {k1, k2} ELSE {k1}]

\* ... and whose panes there are.
OwnPanes == [b \in Bindings |-> IF b = b1 THEN k1 ELSE k2]
============================================================================
