----------------------------- MODULE MCRiskStore -----------------------------
(* Instances of RiskStore for TLC. *)
EXTENDS RiskStore, TLC

\* Tickers are interchangeable, and so are worst cases, readers and runs.
Symmetry == Permutations(Ticker) \cup Permutations(Worst) \cup Permutations(Batch)
==============================================================================
