----------------------------- MODULE MCKVServer -----------------------------
EXTENDS KVServer, TLC

\* The calls are alike.
CallSymmetry == Permutations(Call)
=============================================================================
