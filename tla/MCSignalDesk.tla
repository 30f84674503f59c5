---------------------------- MODULE MCSignalDesk ----------------------------
\* An instance of SignalDesk for TLC: any three requests, a universe with or
\* without the second symbol, and a page of two rows.
EXTENDS SignalDesk, TLC

CONSTANTS a, b, spy, default, other

Symmetry == Permutations(Requests)
=============================================================================
