---------------------------- MODULE Transactions ----------------------------
(***************************************************************************)
(* What the state store promises its users: state.json changes by whole    *)
(* updates, each made to what all earlier ones left, and what cannot be    *)
(* read is left to people.  The promise ends when local data are deleted.  *)
(***************************************************************************)
CONSTANT Updates

VARIABLES
  doc,   \* the document: missing, damaged, or intact with the updates it has
  over   \* the local data have been deleted

Docs == [is : {"missing", "damaged", "intact"}, has : SUBSET Updates]
Missing == [is |-> "missing", has |-> {}]

Init == doc = Missing /\ over = FALSE

Update(u) ==
  /\ ~over /\ doc.is # "damaged"
  /\ doc' = [is |-> "intact", has |-> doc.has \cup {u}]
  /\ UNCHANGED over

\* People damage the file or remove it.
Damage == ~over /\ doc' = [doc EXCEPT !.is = "damaged"] /\ UNCHANGED over
Remove == ~over /\ doc' = Missing /\ UNCHANGED over

Delete == ~over /\ over' = TRUE /\ doc' = Missing
Afterwards == over /\ doc' \in Docs /\ UNCHANGED over

Next == (\E u \in Updates : Update(u)) \/ Damage \/ Remove \/ Delete \/ Afterwards

Spec == Init /\ [][Next]_<<doc, over>>
=============================================================================
