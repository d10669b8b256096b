---------------------------- MODULE MC_NonceLedger -----------------------------
EXTENDS NonceLedger, TLC
RequestSymmetry == Permutations(Requests)
================================================================================
