------------------------- MODULE MCPositionGuidance -------------------------
\* Instances of PositionGuidance for TLC.
EXTENDS PositionGuidance, TLC

Symmetry == Permutations(Runs) \cup Permutations(Symbols)
=============================================================================
