----------------------------- MODULE MCMempool -----------------------------
(* Two accounts, of which the second has the greater address.  The first   *)
(* submits four transactions, two of them at a higher gas price than their *)
(* predecessors, and may raise the price of the first; the transaction of  *)
(* the other account competes for the capacity.                            *)
EXTENDS Mempool

MCSubmissions == {<<1, 0, 1>>, <<1, 0, 2>>, <<1, 1, 2>>, <<1, 2, 1>>, <<1, 3, 2>>, <<2, 0, 1>>}
=============================================================================
