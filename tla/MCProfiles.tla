----------------------------- MODULE MCProfiles -----------------------------
(* A small instance of Profiles for TLC: both like the same avatar best. *)
EXTENDS Profiles

CONSTANTS a, x, y

Sorted == <<a>>
SameTaste == [i \in {a, Bridge} |-> <<x, y>>]
=============================================================================
