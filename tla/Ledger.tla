------------------------------- MODULE Ledger -------------------------------
(***************************************************************************)
(* What the validators promise together: one chain of blocks that is only  *)
(* ever extended, and of which each honest validator delivers a growing    *)
(* prefix.  An abstract specification that LibraBFT implements.            *)
(***************************************************************************)
CONSTANTS Honest, Blocks, Genesis, Ancestors

VARIABLES
    log,        \* the blocks of the chain
    delivered   \* validator -> the last block delivered to it

Init ==
    /\ log = {Genesis}
    /\ delivered = [h \in Honest |-> Genesis]

(* Validator h is given b, after what it was given before: a block of the  *)
(* chain, or one that extends the whole chain and becomes its end.         *)
deliver(h, b) ==
    /\ delivered' = [delivered EXCEPT ![h] = b]
    /\ delivered[h] \in Ancestors[b]
    /\ b \in log \/ log \subseteq Ancestors[b]
    /\ log' = log \cup Ancestors[b]

Next == \E h \in Honest, b \in Blocks : deliver(h, b)

Spec == Init /\ [][Next]_<<log, delivered>>

=============================================================================
