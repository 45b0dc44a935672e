---------------------------- MODULE MCSynthesis ----------------------------
EXTENDS Synthesis, TLC
\* Two small leaves.
MCTokenOf == [l \in 1..NumLeaves |-> 1]
MCWindows == {1..NumLeaves}
MCWorkloads == {Around, Direct}
MCSymmetry == Permutations(Around)
=============================================================================
