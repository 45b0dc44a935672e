-------------------------- MODULE MCCompactControl --------------------------
EXTENDS CompactControl, TLC

\* The threads that dispatch tool calls are interchangeable.
CallSymmetry == Permutations(Calls)
=============================================================================
