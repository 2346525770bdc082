-------------------------- MODULE MCRequestGovernor --------------------------
\* Instances of RequestGovernor.
EXTENDS RequestGovernor, TLC

Symmetric == Permutations(Threads)
==============================================================================
