------------------------ MODULE MCPerformanceOutcomes ------------------------
\* Instances of PerformanceOutcomes: returns in units of 100 %.
EXTENDS PerformanceOutcomes

SomeVotes == {-1}
SomeReturns == {-1, 6}
SuspiciousReturns == {6}
==============================================================================
