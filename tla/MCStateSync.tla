----------------------------- MODULE MCStateSync -----------------------------
EXTENDS StateSync

CONSTANTS p, q

MCPreference == [x \in Peers |-> IF x = p THEN 0 ELSE 1]
=============================================================================
