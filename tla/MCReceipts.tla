----------------------------- MODULE MCReceipts -----------------------------
EXTENDS Receipts, TLC
Symmetry == Permutations(Deposits) \union Permutations(Uploads) \union Permutations(Runs)
=============================================================================
