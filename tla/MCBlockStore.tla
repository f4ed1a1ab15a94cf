---------------------------- MODULE MCBlockStore ----------------------------
(***************************************************************************)
(* A chain 1..5 whose QCs from block 3 on commit blocks 1, 2 and 3.  Block *)
(* 6 is a certified fork on 4 after a timeout, and block 7 a fork on 1     *)
(* without a certificate, proposed in round 3.                             *)
(***************************************************************************)
EXTENDS BlockStore

MCRound == [b \in 0 .. 7 |-> IF b = 7 THEN 3 ELSE b]
MCParent == <<0, 1, 2, 3, 4, 4, 1>>
MCCertified == 0 .. 6
=============================================================================
