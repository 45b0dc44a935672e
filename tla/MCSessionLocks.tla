--------------------------- MODULE MCSessionLocks ---------------------------
EXTENDS SessionLocks, TLC

\* Lock objects are interchangeable, and so are sessions.
RegistrySymmetry == Permutations(Sessions) \cup Permutations(LockIds)
=============================================================================
