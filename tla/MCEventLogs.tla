----------------------------- MODULE MCEventLogs -----------------------------
EXTENDS EventLogs, TLC
Symmetry == Permutations(Writer) \cup Permutations(Channel)
==============================================================================
