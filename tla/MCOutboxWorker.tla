--------------------------- MODULE MCOutboxWorker ---------------------------
(* Small instances of OutboxWorker.                                        *)
EXTENDS OutboxWorker, TLC

(* Publishers and aggregates are interchangeable.                          *)
Symmetry == Permutations(Publishers) \cup Permutations(Aggregates)
=============================================================================
