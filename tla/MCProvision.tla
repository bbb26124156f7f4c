---------------------------- MODULE MCProvision ----------------------------
(* Small instances of Provision for TLC. *)
EXTENDS Provision, TLC

\* Sound for safety: generated keys are told apart by nothing.
Symmetry == Permutations(Keys \ Theirs)
============================================================================
