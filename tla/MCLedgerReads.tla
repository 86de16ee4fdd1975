--------------------------- MODULE MCLedgerReads ---------------------------
EXTENDS LedgerReads, TLC

Symmetry == Permutations(Requests)
=============================================================================
