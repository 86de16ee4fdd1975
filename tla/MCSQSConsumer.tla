--------------------------- MODULE MCSQSConsumer ---------------------------
EXTENDS SQSConsumer, TLC

\* Messages 1 and 2 belong to one wallet, 3 to another.
Groups == [m \in Messages |-> IF m <= 2 THEN "wallet1" ELSE "wallet2"]

\* All messages belong to one wallet.
OneGroup == [m \in Messages |-> "wallet1"]

Symmetry == Permutations(Consumers)
=============================================================================
