------------------------------ MODULE MCTrigger ------------------------------
(* Instances of Trigger for TLC. *)
EXTENDS Trigger, TLC

\* Two worst cases, on either side of a threshold of derive_grade, one on it.
MCWorst == {-800, -600}

Symmetry == Permutations(User) \cup Permutations(Ticker)
==============================================================================
