---------------------------- MODULE MCReconcile ----------------------------
(* Small instances of Reconcile for TLC. *)
EXTENDS Reconcile, TLC

\* Every Space keeps one name while it exists, the same for all of them ...
FixedNames == [s \in Spaces |-> {CHOOSE n \in Names : TRUE}]
\* ... or may be given any name.
AnyNames == [s \in Spaces |-> Names]

\* Herdr has just started too, or all agents run in all Spaces already.
NothingOpen == [label |-> [s \in Spaces |-> None], live |-> [s \in Spaces |-> {}]]
AgentsRunning == [label |-> [s \in Spaces |-> CHOOSE n \in Names : TRUE],
                  live |-> [s \in Spaces |-> Agents]]

\* Sound: nothing but FixedNames, used with a single name, tells these values
\* apart, and no run that uses it checks liveness.
Symmetry ==
  Permutations(Procs) \cup Permutations(Spaces) \cup Permutations(Names)
    \cup Permutations(Channels \ HumanChannels) \cup Permutations(Agents \ Readers)
============================================================================
