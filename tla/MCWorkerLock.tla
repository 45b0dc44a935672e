---------------------------- MODULE MCWorkerLock ----------------------------
EXTENDS WorkerLock, TLC

\* The workers are interchangeable: no definition names one of them.
WorkerSymmetry == Permutations(Workers)
=============================================================================
