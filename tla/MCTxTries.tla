----------------------------- MODULE MCTxTries -----------------------------
(* A TLC instance of TxTries, with the symmetry of MCTxPath. *)
EXTENDS TxTries, MCTxPath
============================================================================
