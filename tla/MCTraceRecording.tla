-------------------------- MODULE MCTraceRecording --------------------------
EXTENDS TraceRecording, TLC

\* Goroutines and transactions are only compared for equality.
Symmetry == Permutations(GID) \cup Permutations(TxID)
=============================================================================
