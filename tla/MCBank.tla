------------------------------- MODULE MCBank -------------------------------
(***************************************************************************)
(* The instance of CreateTransfer for TLC, over the statements of          *)
(* TransferTx.                                                             *)
(***************************************************************************)
EXTENDS Bank, MCCreateTransfer
=============================================================================
