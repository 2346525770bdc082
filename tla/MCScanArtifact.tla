--------------------------- MODULE MCScanArtifact ---------------------------
\* Instances of ScanArtifact.
EXTENDS ScanArtifact, TLC

Symmetric == Permutations(Jobs) \cup Permutations(Scanners)
==============================================================================
