------------------------------- MODULE Ledger -------------------------------
(***************************************************************************)
(* What buzzr promises of the resources it creates outside of its own      *)
(* files: each is on record before it comes into being and until it is     *)
(* gone, so that a cleanup that goes by the record leaves none behind,     *)
(* whatever fails in between.  Reconcile (of memberships), Provision and   *)
(* Deprovision implement it.                                               *)
(***************************************************************************)
VARIABLES
  recorded,  \* what the provenance in state.json names
  granted    \* what buzzr brought into being and nobody has undone since

Init == granted \subseteq recorded

\* A transaction on the record: resources are announced, and only what is not there, not
\* yet or no longer, is struck off, be it with the call that undoes it.
Write == granted' \subseteq granted /\ granted' \subseteq recorded'

\* Only what is on record is brought into being ...
Grant == granted \subseteq granted' /\ granted' \subseteq recorded /\ UNCHANGED recorded

\* ... and anybody may undo it.
Revoke == granted' \subseteq granted /\ UNCHANGED recorded

Next == Write \/ Grant \/ Revoke

Spec == Init /\ [][Next]_<<recorded, granted>>
=============================================================================
