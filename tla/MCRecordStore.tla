--------------------------- MODULE MCRecordStore ----------------------------
EXTENDS RecordStore, TLC

Symmetry == Permutations(Value)
=============================================================================
