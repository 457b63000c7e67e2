-------------------------------- MODULE MCTxPath --------------------------------
(***************************************************************************)
(* Instances of TxPath: packets and tasks that may be exchanged.           *)
(***************************************************************************)
EXTENDS TxPath, TLC

Alike == Permutations(Packets) \cup Permutations(Tasks)
===============================================================================
